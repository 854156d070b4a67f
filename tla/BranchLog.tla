------------------------------- MODULE BranchLog -------------------------------
(***************************************************************************)
(* What the Git store promises the callers of commit_changes and merge     *)
(* ("Git ref updates use an expected old object ID so concurrency fails    *)
(* rather than silently publishing an unreviewed revision"): a branch is   *)
(* the set of commits it publishes; an accepted commit is added to what    *)
(* was published at that moment, in one step, and nothing is taken away,   *)
(* but from a repository whose removal was begun: removing a directory is  *)
(* not atomic, and when it stops half-way anything may be gone.            *)
(***************************************************************************)
CONSTANTS Repos, Branches, Commits

VARIABLES published,   \* repository -> branch -> commits it reaches
          accepted,    \* what callers were told was published
          removed      \* repositories whose removal was begun

Init ==
    /\ published = [r \in Repos |-> [b \in Branches |-> {}]]
    /\ accepted = {}
    /\ removed = {}

Accept(r, b, c) ==
    /\ c \notin published[r][b]
    /\ accepted' = accepted \cup {<<r, b, c>>}
    /\ \E S \in SUBSET Commits :
          /\ published[r][b] \cup {c} \subseteq S
          /\ published' = [published EXCEPT ![r][b] = S]
    /\ UNCHANGED removed

Remove(r) ==
    /\ removed' = removed \cup {r}
    /\ \E heads \in [Branches -> SUBSET Commits] :
          published' = [published EXCEPT ![r] = heads]
    /\ UNCHANGED accepted

Next == \E r \in Repos : Remove(r) \/ \E b \in Branches, c \in Commits : Accept(r, b, c)

Spec == Init /\ [][Next]_<<published, accepted, removed>>

(* Nothing that was accepted is ever lost, if the repository is kept. *)
Kept == \A a \in accepted : a[1] \notin removed => a[3] \in published[a[1]][a[2]]
=============================================================================
