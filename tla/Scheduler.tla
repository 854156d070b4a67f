------------------------------ MODULE Scheduler ------------------------------
(***************************************************************************)
(* The scheduling engine of c6-scheduler and the control plane its         *)
(* contract asks for.  evaluate() is pure: it maps the durable TickState   *)
(* and the clock to a TickOutcome.  The control plane, which the crate     *)
(* leaves to its caller, reads that state, ticks, and persists the claim   *)
(* and the checkpoint; it may crash anywhere, and ticks in Recovery mode   *)
(* until a tick after the restart has been committed.  The clock may step  *)
(* backwards.                                                              *)
(*                                                                         *)
(* Instants are naturals; a cron expression and its time zone are the set  *)
(* Occurrences of instants they fire at.  One schedule is modelled: keys   *)
(* carry the schedule's ID, so schedules share no state.                   *)
(***************************************************************************)
EXTENDS Naturals, FiniteSets

CONSTANTS Occurrences,      \* the instants of the schedule
          NoOccurrence,     \* no occurrence
          Horizon,          \* bound: the last instant of the clock
          MaxOutages        \* bound: crashes of the control plane

ASSUME SchedulerAssumption ==
    /\ Occurrences \subseteq Nat
    /\ NoOccurrence \notin Occurrences
    /\ Horizon \in Nat
    /\ MaxOutages \in Nat

VARIABLES schedule,    \* its missed_run_policy, and how its ticks are persisted
          now,         \* the injected clock
          checkpoint,  \* durable: evaluated_through
          claimed,     \* durable: claimed occurrences
          running,     \* durable: non-terminal occurrences
          mode,        \* TickMode of the next tick
          phase,       \* where the control plane is in a tick
          tick_state,  \* TickState it has read
          outcome,     \* TickOutcome it has to persist
          enqueued,    \* history: how often an occurrence was enqueued
          lapse,       \* history: the outage an occurrence passed in, 0 if none
          outages      \* history: crashes so far

schedulerVars == <<schedule, now, checkpoint, claimed, running, mode, phase,
                   tick_state, outcome, enqueued, lapse, outages>>

MissedRunPolicy == {"skip", "run_once"}
(* atomic: the claim and the checkpoint share one transaction. *)
Schedule == [missed_run_policy : MissedRunPolicy, atomic : BOOLEAN]
Mode == {"live", "recovery"}
TickPhases == {"idle", "read", "commit", "checkpoint", "down"}
Decisions == {"no_occurrence_due", "enqueue", "missed_occurrence_skipped",
              "already_claimed", "blocked_by_active_run"}
Key == Occurrences \cup {NoOccurrence}
TickState == [evaluated_through : Nat, mode : Mode, active : Key,
              claimed : SUBSET Occurrences]
TickOutcome == [evaluated_through : Nat, decision : Decisions, due : Key]

SchedulerTypeOK ==
    /\ schedule \in Schedule
    /\ now \in Nat
    /\ checkpoint \in Nat
    /\ claimed \in SUBSET Occurrences
    /\ running \in SUBSET Occurrences
    /\ mode \in Mode
    /\ phase \in TickPhases
    /\ tick_state \in TickState
    /\ outcome \in TickOutcome
    /\ enqueued \in [Occurrences -> Nat]
    /\ lapse \in [Occurrences -> Nat]
    /\ outages \in Nat

(* The schedule is created at instant 0; the first process is a restart.   *)
SchedulerInit ==
    /\ schedule \in Schedule
    /\ now = 0
    /\ checkpoint = 0
    /\ claimed = {}
    /\ running = {}
    /\ mode = "recovery"
    /\ phase = "idle"
    /\ tick_state = [evaluated_through |-> 0, mode |-> "recovery",
                     active |-> NoOccurrence, claimed |-> {}]
    /\ outcome = [evaluated_through |-> 0, decision |-> "no_occurrence_due",
                  due |-> NoOccurrence]
    /\ enqueued = [o \in Occurrences |-> 0]
    /\ lapse = [o \in Occurrences |-> 0]
    /\ outages = 0
-----------------------------------------------------------------------------
IsNext(o, t) == o > t /\ \A p \in Occurrences : p > t => o <= p

next_after(t) ==
    IF \E o \in Occurrences : IsNext(o, t)
      THEN CHOOSE o \in Occurrences : IsNext(o, t)
      ELSE NoOccurrence

(* Mutants: claims are not looked up; the active run is not looked up. *)
DecideUnclaimed(s, due) ==
    IF s.mode = "recovery" /\ schedule.missed_run_policy = "skip"
      THEN "missed_occurrence_skipped"
      ELSE IF s.active # NoOccurrence THEN "blocked_by_active_run" ELSE "enqueue"

DecideOverlapping(s, due) ==
    IF s.mode = "recovery" /\ schedule.missed_run_policy = "skip"
      THEN "missed_occurrence_skipped"
      ELSE IF due \in s.claimed THEN "already_claimed" ELSE "enqueue"

(* The decision about a due occurrence, in the order evaluate() asks. *)
Decide(s, due) ==
    IF s.mode = "recovery" /\ schedule.missed_run_policy = "skip"
      THEN "missed_occurrence_skipped"
      ELSE IF due \in s.claimed THEN "already_claimed"
      ELSE IF s.active # NoOccurrence THEN "blocked_by_active_run"
      ELSE "enqueue"

(* Mutant: the checkpoint only advances to the occurrence it decided on. *)
EvaluateBacklog(s, t) ==
    LET due == next_after(s.evaluated_through)
        isDue == due # NoOccurrence /\ due <= t
    IN  [evaluated_through |-> IF isDue THEN due ELSE t,
         decision |-> IF isDue THEN Decide(s, due) ELSE "no_occurrence_due",
         due |-> IF isDue THEN due ELSE NoOccurrence]

(* evaluate() on a clock that has not moved behind the checkpoint; the new *)
(* checkpoint is the clock whatever the decision.                          *)
Evaluate(s, t) ==
    LET due == next_after(s.evaluated_through)
        isDue == due # NoOccurrence /\ due <= t
    IN  [evaluated_through |-> t,
         decision |-> IF isDue THEN Decide(s, due) ELSE "no_occurrence_due",
         due |-> IF isDue THEN due ELSE NoOccurrence]
-----------------------------------------------------------------------------
(* The clock runs forward; an occurrence it passes lapses in the outage,   *)
(* unless it has been enqueued before.                                     *)
ClockForward(t) ==
    /\ now < t
    /\ now' = t
    /\ lapse' = [o \in Occurrences |->
                    IF now < o /\ o <= t /\ enqueued[o] = 0
                      THEN IF phase = "down" THEN outages ELSE 0
                      ELSE lapse[o]]
    /\ UNCHANGED <<schedule, checkpoint, claimed, running, mode, phase,
                   tick_state, outcome, enqueued, outages>>

ClockBack(t) ==
    /\ t < now
    /\ now' = t
    /\ UNCHANGED <<schedule, checkpoint, claimed, running, mode, phase,
                   tick_state, outcome, enqueued, lapse, outages>>

(* The control plane reads the durable inputs of a tick. *)
ReadState ==
    /\ phase = "idle"
    /\ \E a \in IF running = {} THEN {NoOccurrence} ELSE running :
          tick_state' = [evaluated_through |-> checkpoint, mode |-> mode,
                         active |-> a, claimed |-> claimed]
    /\ phase' = "read"
    /\ UNCHANGED <<schedule, now, checkpoint, claimed, running, mode,
                   outcome, enqueued, lapse, outages>>

(* Scheduler::tick: ClockMovedBackwards ends the tick with nothing to      *)
(* persist.                                                                *)
Tick ==
    /\ phase = "read"
    /\ \/ /\ now < tick_state.evaluated_through
          /\ phase' = "idle"
          /\ UNCHANGED outcome
       \/ /\ now >= tick_state.evaluated_through
          /\ outcome' = Evaluate(tick_state, now)
          /\ phase' = "commit"
    /\ UNCHANGED <<schedule, now, checkpoint, claimed, running, mode,
                   tick_state, enqueued, lapse, outages>>

SaveCheckpoint ==
    /\ checkpoint' = outcome.evaluated_through
    /\ mode' = "live"
    /\ phase' = "idle"

(* The claim is durable, and its run starts; with it, or after it, the     *)
(* checkpoint.                                                             *)
Commit ==
    /\ phase = "commit"
    /\ \/ /\ outcome.decision = "enqueue"
          /\ claimed' = claimed \cup {outcome.due}
          /\ running' = running \cup {outcome.due}
          /\ enqueued' = [enqueued EXCEPT ![outcome.due] = @ + 1]
       \/ /\ outcome.decision # "enqueue"
          /\ UNCHANGED <<claimed, running, enqueued>>
    /\ IF schedule.atomic THEN SaveCheckpoint
                 ELSE phase' = "checkpoint" /\ UNCHANGED <<checkpoint, mode>>
    /\ UNCHANGED <<schedule, now, tick_state, outcome, lapse, outages>>

CommitCheckpoint ==
    /\ phase = "checkpoint"
    /\ SaveCheckpoint
    /\ UNCHANGED <<schedule, now, claimed, running, tick_state, outcome, enqueued,
                   lapse, outages>>

(* The run of an occurrence reaches a terminal state. *)
RunEnds(o) ==
    /\ o \in running
    /\ running' = running \ {o}
    /\ UNCHANGED <<schedule, now, checkpoint, claimed, mode, phase, tick_state,
                   outcome, enqueued, lapse, outages>>

Crash ==
    /\ phase # "down"
    /\ outages < MaxOutages
    /\ phase' = "down"
    /\ outages' = outages + 1
    /\ UNCHANGED <<schedule, now, checkpoint, claimed, running, mode,
                   tick_state, outcome, enqueued, lapse>>

RestartControlPlane ==
    /\ phase = "down"
    /\ phase' = "idle"
    /\ mode' = "recovery"
    /\ UNCHANGED <<schedule, now, checkpoint, claimed, running, tick_state,
                   outcome, enqueued, lapse, outages>>

SchedulerNext ==
    \/ \E t \in 0..Horizon : ClockForward(t)
    \/ \E t \in 0..Horizon : ClockBack(t)
    \/ ReadState
    \/ Tick
    \/ Commit
    \/ CommitCheckpoint
    \/ \E o \in Occurrences : RunEnds(o)
    \/ Crash
    \/ RestartControlPlane

SchedulerSpec == SchedulerInit /\ [][SchedulerNext]_schedulerVars
-----------------------------------------------------------------------------
(* evaluate() with OccurrenceKey: no occurrence is enqueued twice, although *)
(* the clock steps back and the control plane crashes between the claim    *)
(* and the checkpoint.                                                     *)
AtMostOnce == \A o \in Occurrences : enqueued[o] <= 1

(* "The MVP supports only `forbid`": two occurrences never run at once,    *)
(* although the active run was read before the tick.                       *)
NoOverlap == \A o, p \in running : o = p

(* MissedRunPolicy: of the occurrences that pass in one outage, skip       *)
(* enqueues none and run_once at most one.                                 *)
BoundedCatchUp ==
    \A o, p \in Occurrences :
        /\ enqueued[o] > 0 /\ lapse[o] > 0
        /\ enqueued[p] > 0 /\ lapse[p] = lapse[o]
        => schedule.missed_run_policy = "run_once" /\ o = p

(* TickState::evaluated_through: what a tick has evaluated is never        *)
(* evaluated again, so the durable checkpoint never moves back.            *)
CheckpointMonotone == [][checkpoint' >= checkpoint]_schedulerVars
=============================================================================
