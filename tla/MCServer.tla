----------------------------- MODULE MCServer -----------------------------
(***************************************************************************)
(* Small instances of the server's accounts, its first start and its       *)
(* schedules, which share no state.  A behaviour exercises enrolment and   *)
(* roles, with three peers and no credential; or tokens, with two peers, a *)
(* credential, no workspace and invitations that do not expire; or the     *)
(* start of the server; or a schedule.                                     *)
(***************************************************************************)
EXTENDS Identity, ServerBootstrap, Scheduler, TLC

VARIABLE subject

(* Adjacent occurrences and a gap. *)
MCOccurrences == {1, 2, 4}

(* An invited reader and an invited owner. *)
MCRoles == {Reader, Owner}

SubjectInit ==
    /\ Init
    /\ BootstrapInit
    /\ SchedulerInit
    /\ subject \in {"enrolment", "tokens", "start", "schedule"}
    /\ subject # "schedule" =>
          schedule = [missed_run_policy |-> "skip", atomic |-> TRUE]

Enrolment ==
    /\ UNCHANGED credentials
    /\ \A h \in Handlers : op'[h] \in OwnerOps \cup {"create_credential", "read"}

Tokens ==
    /\ UNCHANGED <<member, invite_expired>>
    /\ \A h \in Handlers : op'[h] # "create_workspace"
    /\ \A i \in Invites : invite_role'[i] = Owner /\ invite_workspace'[i] = None
    /\ Cardinality(users') <= 2

SubjectNext ==
    /\ UNCHANGED subject
    /\ \/ /\ subject = "enrolment"
          /\ Next
          /\ Enrolment
          /\ UNCHANGED <<bootstrapState, schedulerVars>>
       \/ /\ subject = "tokens"
          /\ Next
          /\ Tokens
          /\ UNCHANGED <<bootstrapState, schedulerVars>>
       \/ /\ subject = "start"
          /\ BootstrapNext
          /\ UNCHANGED <<vars, schedulerVars>>
       \/ /\ subject = "schedule"
          /\ SchedulerNext
          /\ UNCHANGED <<vars, bootstrapState>>

SubjectSpec ==
    SubjectInit /\ [][SubjectNext]_<<vars, bootstrapState, schedulerVars, subject>>

Symmetry == Permutations(Peers) \cup Permutations(Handlers)
=============================================================================
