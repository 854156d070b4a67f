------------------------------ MODULE MCHosting ------------------------------
(***************************************************************************)
(* The hosting side of the server: its projects, and the Git store below   *)
(* them.  Projects takes from the store only what BranchLog promises, so   *)
(* a behaviour exercises one of the two, the subject, and leaves the other *)
(* at rest.  The store has one call less, or neither deletions nor         *)
(* crashes.                                                                *)
(***************************************************************************)
EXTENDS GitStore, Projects, TLC

CONSTANTS w1, w2, m1, m2, a1, a2

VARIABLE subject

FirstSlugs == [w \in {w1, w2} |-> IF w = w1 THEN a1 ELSE a2]

(* m1 owns w1; m2 maintains w2, and contributes to w1. *)
RankOf(w, m) ==
    CASE w = w1 /\ m = m1 -> owner
      [] w = w1 /\ m = m2 -> contributor
      [] w = w2 /\ m = m2 -> maintainer
      [] OTHER -> NoRole

HostingInit ==
    /\ Init
    /\ ProjectsInit
    /\ subject \in {"store", "branches", "projects"}

HostingNext ==
    /\ UNCHANGED subject
    /\ \/ subject = "store" /\ Next /\ calls' < MaxCalls /\ UNCHANGED projectsVars
       \/ /\ subject = "branches"
          /\ \E p \in Processes : CreateStep(p) \/ UpdateStep(p)
          /\ UNCHANGED projectsVars
       \/ subject = "projects" /\ ProjectsNext /\ UNCHANGED vars

HostingSpec == HostingInit /\ [][HostingNext]_<<subject, vars, projectsVars>>

Symmetry ==
    Permutations(Processes) \cup Permutations(Threads) \cup Permutations(ProjectSlugs)
        \cup Permutations(Heads)
=============================================================================
