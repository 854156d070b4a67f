------------------------------- MODULE RunnerKey -------------------------------
(***************************************************************************)
(* load_or_create_auth_key of c6-runner: the processes that share the      *)
(* runner's key may all find no key file, and each generates a key.  A key *)
(* is named by the process that generated it, and so is a temporary file;  *)
(* the key file is a hard link to one of those.                            *)
(***************************************************************************)
CONSTANTS Starters, NoKey

ASSUME KeyAssumption == NoKey \notin Starters

VARIABLES at,        \* where each process is
          written,   \* starter -> content of its temporary file
          linked,    \* the temporary file the key file is, or NoKey
          leftover,  \* temporary files on disk
          key        \* what load_or_create_auth_key returned

keyVars == <<at, written, linked, leftover, key>>

KeyInit ==
    /\ at = [p \in Starters |-> "start"]
    /\ written = [p \in Starters |-> NoKey]
    /\ linked = NoKey
    /\ leftover = {}
    /\ key = [p \in Starters |-> NoKey]

Move(p, place) == at' = [at EXCEPT ![p] = place]

(* load_auth_key_file refuses a file that is too short for a key. *)
Load(p) ==
    IF written[linked] = NoKey
      THEN Move(p, "failed") /\ UNCHANGED key
      ELSE Move(p, "done") /\ key' = [key EXCEPT ![p] = written[linked]]

LoadFirst(p) ==
    /\ at[p] = "start"
    /\ IF linked = NoKey THEN Move(p, "create") /\ UNCHANGED key ELSE Load(p)
    /\ UNCHANGED <<written, linked, leftover>>

(* A temporary file with a name nobody else has. *)
CreateTemporary(p) ==
    /\ at[p] = "create"
    /\ leftover' = leftover \cup {p}
    /\ Move(p, "write")
    /\ UNCHANGED <<written, linked, key>>

WriteKey(p) ==
    /\ at[p] = "write"
    /\ written' = [written EXCEPT ![p] = p]
    /\ Move(p, "link")
    /\ UNCHANGED <<linked, leftover, key>>

(* Mutant: rename, which replaces the key of a faster process. *)
RenameKey(p) ==
    /\ at[p] = "link"
    /\ linked' = p
    /\ leftover' = leftover \ {p}
    /\ Move(p, "load")
    /\ UNCHANGED <<written, key>>

(* hard_link fails when the key file exists; then its key is taken.  The   *)
(* temporary name is removed either way.                                   *)
LinkKey(p) ==
    /\ at[p] = "link"
    /\ linked' = IF linked = NoKey THEN p ELSE linked
    /\ leftover' = leftover \ {p}
    /\ Move(p, "load")
    /\ UNCHANGED <<written, key>>

LoadLinked(p) ==
    /\ at[p] = "load"
    /\ Load(p)
    /\ UNCHANGED <<written, linked, leftover>>

(* A file operation or the random source fails: the guard removes the      *)
(* temporary file.                                                         *)
KeyFails(p) ==
    /\ at[p] \in {"create", "write", "link"}
    /\ Move(p, "failed")
    /\ leftover' = leftover \ {p}
    /\ UNCHANGED <<written, linked, key>>

(* The process dies; its temporary file stays. *)
KeyCrash(p) ==
    /\ at[p] \in {"create", "write", "link", "load"}
    /\ Move(p, "failed")
    /\ UNCHANGED <<written, linked, leftover, key>>

KeyNext ==
    \E p \in Starters :
        \/ LoadFirst(p) \/ CreateTemporary(p) \/ WriteKey(p) \/ LinkKey(p)
        \/ LoadLinked(p) \/ KeyFails(p) \/ KeyCrash(p)

KeySpec == KeyInit /\ [][KeyNext]_keyVars
-----------------------------------------------------------------------------
(* load_or_create_auth_key ("concurrent starters can never observe a       *)
(* partially written key"): whoever has a key has the one in the file.     *)
OneKey ==
    /\ linked # NoKey => written[linked] # NoKey
    /\ \A p \in Starters : key[p] # NoKey => linked # NoKey /\ key[p] = written[linked]
=============================================================================
