----------------------------- MODULE CliRemote -----------------------------
(***************************************************************************)
(* c6 remote add in one Git repository: four Git commands, each of which   *)
(* may fail and end it, by processes that know nothing of each other.  The *)
(* helpers Git asks for a URL's credentials are a list of all that its     *)
(* configurations name, in which an empty one dismisses those before it.   *)
(***************************************************************************)
EXTENDS Naturals, Sequences

CONSTANTS Adders, MaxAdds   \* processes; bound on the commands they run

VARIABLES inherited,        \* whether a wider configuration names a helper
          helpers,          \* values of the local credential.<url>.helper
          http_path,        \* credential.<url>.useHttpPath
          remote,           \* whether a remote has the URL
          adding,           \* adder -> the Git command it comes to
          added_runs

remoteVars == <<inherited, helpers, http_path, remote, adding, added_runs>>

RemoteInit ==
    /\ inherited \in BOOLEAN
    /\ helpers \in {<<>>, <<"other">>}
    /\ http_path = FALSE
    /\ remote = FALSE
    /\ adding = [p \in Adders |-> "idle"]
    /\ added_runs = 0

GoesTo(p, step) == adding' = [adding EXCEPT ![p] = step]

StartAdd(p) ==
    /\ adding[p] = "idle" /\ added_runs < MaxAdds
    /\ added_runs' = added_runs + 1
    /\ GoesTo(p, "reset")
    /\ UNCHANGED <<inherited, helpers, http_path, remote>>

(* Mutant: a helper that is there already is kept. *)
ResetHelpersOnce(p) ==
    /\ adding[p] = "reset"
    /\ helpers' = IF helpers = <<>> THEN <<"">> ELSE helpers
    /\ GoesTo(p, "helper")
    /\ UNCHANGED <<inherited, http_path, remote, added_runs>>

(* git config --replace-all: one empty helper instead of all. *)
ResetHelpers(p) ==
    /\ adding[p] = "reset"
    /\ helpers' = <<"">>
    /\ GoesTo(p, "helper")
    /\ UNCHANGED <<inherited, http_path, remote, added_runs>>

AddHelper(p) ==
    /\ adding[p] = "helper"
    /\ helpers' = Append(helpers, "c6")
    /\ GoesTo(p, "path")
    /\ UNCHANGED <<inherited, http_path, remote, added_runs>>

UseHttpPath(p) ==
    /\ adding[p] = "path"
    /\ http_path' = TRUE
    /\ GoesTo(p, "remote")
    /\ UNCHANGED <<inherited, helpers, remote, added_runs>>

(* The name may be taken; then this fails like any of the commands may. *)
AddRemote(p) ==
    /\ adding[p] = "remote"
    /\ remote' = TRUE
    /\ GoesTo(p, "idle")
    /\ UNCHANGED <<inherited, helpers, http_path, added_runs>>

GitFails(p) ==
    /\ adding[p] # "idle"
    /\ GoesTo(p, "idle")
    /\ UNCHANGED <<inherited, helpers, http_path, remote, added_runs>>

RemoteNext ==
    \E p \in Adders :
        \/ StartAdd(p) \/ ResetHelpers(p) \/ AddHelper(p) \/ UseHttpPath(p)
        \/ AddRemote(p) \/ GitFails(p)

RemoteSpec == RemoteInit /\ [][RemoteNext]_remoteVars
-----------------------------------------------------------------------------
Asked(list) ==
    {list[i] : i \in {j \in DOMAIN list :
                        \A k \in j..Len(list) : list[k] # ""}}

(* remote add and git_credential_config ("an empty helper resets all       *)
(* inherited helper entries"): once a remote has the URL no helper but     *)
(* C6's is asked for its credentials, and it is told the path, however     *)
(* many commands failed half-way or ran at once.                           *)
OnlyC6IsAsked ==
    remote =>
        /\ Asked((IF inherited THEN <<"other">> ELSE <<>>) \o helpers) \subseteq {"c6"}
        /\ http_path
=============================================================================
