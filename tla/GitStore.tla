------------------------------- MODULE GitStore -------------------------------
(***************************************************************************)
(* The repository store of c6-git: bare repositories in directories named  *)
(* by slugs, created, imported, staged for deletion and restored, and the  *)
(* branches inside them, advanced by commit_changes and merge.  There is   *)
(* no lock: every step is one operation of the file system or one run of   *)
(* git, which finds its repository by path, so anything may happen to the  *)
(* path between two of them.                                               *)
(*                                                                         *)
(* A repository is named by an identity that follows it through renames; a *)
(* directory that git has not initialised is one too.  A commit is its     *)
(* object id; history[c] are the commits reachable from it, {} while       *)
(* nobody has made it.  Equal contents have equal ids, so a commit that    *)
(* has been made may be made again.  Both are numbered in the order they   *)
(* are made.  The files of a commit are left out; whether a merge          *)
(* conflicts is a choice.                                                  *)
(***************************************************************************)
EXTENDS Naturals, FiniteSets

CONSTANTS Slugs, Repos, Branches, Commits,
          Processes,   \* callers of the store
          MaxCalls,    \* bounds the calls
          None

ASSUME GitAssumption ==
    /\ MaxCalls \in Nat
    /\ Repos \subseteq Nat /\ Commits \subseteq Nat
    /\ None \notin Slugs \cup Repos \cup Branches \cup Commits

VARIABLES live,      \* slug -> the repository at <root>/<slug>.git, or None
          stage,     \* repository -> state of its directory
          refs,      \* repository -> branch -> commit, or None
          objects,   \* repository -> commits in its object store
          history,   \* commit -> the commits it reaches
          pc, slug, branch,   \* a caller: its step and its arguments
          calls,     \* how many there have been
          head,      \* the value of the branch it has read
          new,       \* the commit it will move the branch to
          staged,    \* the repository in the tombstone of its guard
          abandoned, \* repositories in tombstones nobody holds a guard of
          created,   \* history: what create or import_local returned
          accepted,  \* history: updates callers were told had succeeded
          contended  \* history: slugs whose creation overlapped another use

repositories == <<refs, objects, history, accepted>>
directories == <<live, stage, abandoned, created>>
call == <<slug, branch, head, new, calls>>
vars == <<repositories, directories, pc, call, staged, contended>>

Stages == {"unborn", "empty", "ready", "damaged", "erased"}
CreatePhases == {"init", "clone"}
DeletePhases == {"rename", "guard", "restore", "drop", "drop_rename"}
UpdatePhases == {"build", "source", "update"}
Phases == {"idle"} \cup CreatePhases \cup DeletePhases \cup UpdatePhases

TypeOK ==
    /\ live \in [Slugs -> Repos \cup {None}]
    /\ stage \in [Repos -> Stages]
    /\ refs \in [Repos -> [Branches -> Commits \cup {None}]]
    /\ objects \in [Repos -> SUBSET Commits]
    /\ history \in [Commits -> SUBSET Commits]
    /\ pc \in [Processes -> Phases]
    /\ slug \in [Processes -> Slugs \cup {None}]
    /\ branch \in [Processes -> Branches \cup {None}]
    /\ calls \in 0..MaxCalls
    /\ head \in [Processes -> Commits \cup {None}]
    /\ new \in [Processes -> Commits \cup {None}]
    /\ staged \in [Processes -> Repos \cup {None}]
    /\ abandoned \in SUBSET Repos
    /\ created \in SUBSET Repos
    /\ accepted \in SUBSET (Repos \X Branches \X Commits)
    /\ contended \in SUBSET Slugs

Init ==
    /\ live = [s \in Slugs |-> None]
    /\ stage = [r \in Repos |-> "unborn"]
    /\ refs = [r \in Repos |-> [b \in Branches |-> None]]
    /\ objects = [r \in Repos |-> {}]
    /\ history = [c \in Commits |-> {}]
    /\ pc = [p \in Processes |-> "idle"]
    /\ slug = [p \in Processes |-> None]
    /\ branch = [p \in Processes |-> None]
    /\ calls = 0
    /\ head = [p \in Processes |-> None]
    /\ new = [p \in Processes |-> None]
    /\ staged = [p \in Processes |-> None]
    /\ abandoned = {}
    /\ created = {}
    /\ accepted = {}
    /\ contended = {}
-----------------------------------------------------------------------------
Goto(p, phase) == pc' = [pc EXCEPT ![p] = phase]

(* The call returns, with a result or an error. *)
Return(p) ==
    /\ pc' = [pc EXCEPT ![p] = "idle"]
    /\ slug' = [slug EXCEPT ![p] = None]
    /\ branch' = [branch EXCEPT ![p] = None]
    /\ head' = [head EXCEPT ![p] = None]
    /\ new' = [new EXCEPT ![p] = None]
    /\ UNCHANGED calls

Call(p, s) ==
    /\ pc[p] = "idle"
    /\ calls < MaxCalls
    /\ calls' = calls + 1
    /\ slug' = [slug EXCEPT ![p] = s]

Exists(s) == live[s] # None
Unborn(r) == stage[r] = "unborn" /\ \A q \in Repos : q < r => stage[q] # "unborn"
(* open: a bare repository, and not just a directory; one that has lost a  *)
(* part of its files may pass for it.                                      *)
Openable(s) == Exists(s) /\ stage[live[s]] \in {"ready", "damaged"}

(* Creations and deletions of one slug overlap. *)
Overlap(s) ==
    contended' = IF \E q \in Processes :
                       slug[q] = s /\ pc[q] \in CreatePhases \cup DeletePhases
                   THEN contended \cup {s} ELSE contended
-----------------------------------------------------------------------------
(* Mutant: create_dir_all; the directory may exist. *)
create_any(p, s, r) ==
    /\ Call(p, s)
    /\ IF Exists(s) THEN r = live[s] ELSE Unborn(r)
    /\ live' = [live EXCEPT ![s] = r]
    /\ stage' = IF Exists(s) THEN stage ELSE [stage EXCEPT ![r] = "empty"]
    /\ Overlap(s)
    /\ Goto(p, "init")
    /\ UNCHANGED <<repositories, abandoned, created, branch, head, new, staged>>

(* create: fs::create_dir is atomic, a directory that exists is a          *)
(* collision.                                                              *)
create(p, s, r) ==
    /\ Call(p, s)
    /\ ~Exists(s)
    /\ Unborn(r)
    /\ live' = [live EXCEPT ![s] = r]
    /\ stage' = [stage EXCEPT ![r] = "empty"]
    /\ Overlap(s)
    /\ Goto(p, "init")
    /\ UNCHANGED <<repositories, abandoned, created, branch, head, new, staged>>

(* remove_dir_all of a repository. *)
Erase(r) ==
    /\ stage' = [stage EXCEPT ![r] = "erased"]
    /\ refs' = [refs EXCEPT ![r] = [b \in Branches |-> None]]
    /\ objects' = [objects EXCEPT ![r] = {}]

(* The commit of a branch in packed-refs, where `git clone` puts it; git   *)
(* reads it there when the branch has no file of its own.  (Any root       *)
(* commit that was accepted passes for an imported one.)                   *)
Packed(r, b) == {c \in Commits : <<r, b, c>> \in accepted /\ history[c] = {c}}

(* remove_dir_all goes file by file, and stops at an error: any objects    *)
(* may be gone, and any branches.                                          *)
Damage(r) ==
    /\ stage' = [stage EXCEPT ![r] = "damaged"]
    /\ \E left \in SUBSET objects[r] : objects' = [objects EXCEPT ![r] = left]
    /\ \E heads \in [Branches -> Commits \cup {None}] :
          /\ \A b \in Branches :
                heads[b] \in {refs[r][b]} \cup
                            IF refs[r][b] = None THEN {} ELSE {None} \cup Packed(r, b)
          /\ refs' = [refs EXCEPT ![r] = heads]

(* What cleaning up after a failing git comes to: nothing, if git did not  *)
(* start or remove_dir_all fails at once, or whatever is at the path is    *)
(* gone, or a part of it; the result is ignored.                           *)
Removed(s) ==
    /\ \/ UNCHANGED <<live, stage, refs, objects>>
       \/ /\ Exists(s)
          /\ \/ Erase(live[s]) /\ live' = [live EXCEPT ![s] = None]
             \/ Damage(live[s]) /\ UNCHANGED live
    /\ UNCHANGED <<history, accepted>>

(* `git init --bare`: it makes the directory if it is gone, and leaves a   *)
(* repository that it finds there alone.                                   *)
InitBare(p, r) ==
    /\ pc[p] = "init"
    /\ IF Exists(slug[p]) THEN r = live[slug[p]] ELSE Unborn(r)
    /\ live' = [live EXCEPT ![slug[p]] = r]
    /\ stage' = IF stage[r] = "damaged" THEN stage
                                        ELSE [stage EXCEPT ![r] = "ready"]
    /\ created' = created \cup {r}
    /\ Return(p)
    /\ UNCHANGED <<repositories, abandoned, staged, contended>>

(* git fails: create removes the directory at its path. *)
InitFails(p) ==
    /\ pc[p] = "init"
    /\ Removed(slug[p])
    /\ Return(p)
    /\ UNCHANGED <<abandoned, created, staged, contended>>

(* An id for a commit that reaches these. *)
Makes(c, reached) ==
    \/ history[c] = reached
    \/ history[c] = {} /\ \A d \in Commits : d < c => history[d] # {}

(* import_local: ensure_absent. *)
import_local(p, s, b) ==
    /\ Call(p, s)
    /\ ~Exists(s)
    /\ branch' = [branch EXCEPT ![p] = b]
    /\ Overlap(s)
    /\ Goto(p, "clone")
    /\ UNCHANGED <<repositories, directories, head, new, staged>>

(* `git clone --bare` of a repository with one branch, into a directory    *)
(* that is absent or empty.                                                *)
Clone(p, r, c) ==
    LET s == slug[p]
        b == branch[p]
    IN
    /\ pc[p] = "clone"
    /\ IF Exists(s) THEN r = live[s] /\ stage[r] = "empty" ELSE Unborn(r)
    /\ Makes(c, {c})
    /\ history' = [history EXCEPT ![c] = {c}]
    /\ objects' = [objects EXCEPT ![r] = {c}]
    /\ refs' = [refs EXCEPT ![r][b] = c]
    /\ accepted' = accepted \cup {<<r, b, c>>}
    /\ live' = [live EXCEPT ![s] = r]
    /\ stage' = [stage EXCEPT ![r] = "ready"]
    /\ created' = created \cup {r}
    /\ Return(p)
    /\ UNCHANGED <<abandoned, staged, contended>>

(* git fails, as it must when the directory holds something by now, and    *)
(* import_local removes what is there.                                     *)
CloneFails(p) ==
    /\ pc[p] = "clone"
    /\ Removed(slug[p])
    /\ Return(p)
    /\ UNCHANGED <<abandoned, created, staged, contended>>
-----------------------------------------------------------------------------
(* stage_delete: open, then a private tombstone and a rename into it. *)
stage_delete(p, s) ==
    /\ Call(p, s)
    /\ Openable(s)
    /\ Overlap(s)
    /\ Goto(p, "rename")
    /\ UNCHANGED <<repositories, directories, branch, head, new, staged>>

Rename(p) ==
    /\ pc[p] = "rename"
    /\ IF Exists(slug[p])
         THEN /\ staged' = [staged EXCEPT ![p] = live[slug[p]]]
              /\ live' = [live EXCEPT ![slug[p]] = None]
              /\ Goto(p, "guard")
              /\ UNCHANGED call
         ELSE Return(p) /\ UNCHANGED <<staged, live>>
    /\ UNCHANGED <<repositories, stage, abandoned, created, contended>>

(* StagedDeletion::commit; an error of its last rmdir changes nothing more. *)
commit(p) ==
    /\ pc[p] = "guard"
    /\ Erase(staged[p])
    /\ staged' = [staged EXCEPT ![p] = None]
    /\ Return(p)
    /\ UNCHANGED <<history, accepted, live, abandoned, created, contended>>

(* remove_dir_all fails, having removed nothing or a part; the guard is    *)
(* dropped without having completed, and so what is left is put back.      *)
CommitFails(p) ==
    /\ pc[p] = "guard"
    /\ Damage(staged[p]) \/ UNCHANGED <<stage, refs, objects>>
    /\ Goto(p, "drop")
    /\ UNCHANGED <<history, accepted, live, abandoned, created, call,
                   staged, contended>>

(* rollback: restore looks for the original first. *)
rollback(p) ==
    /\ pc[p] = "guard"
    /\ Goto(p, IF Exists(slug[p]) THEN "drop" ELSE "restore")
    /\ UNCHANGED <<repositories, directories, call, staged, contended>>

(* The guard goes out of scope without either. *)
DropGuard(p) ==
    /\ pc[p] = "guard"
    /\ Goto(p, "drop")
    /\ UNCHANGED <<repositories, directories, call, staged, contended>>

(* Drop looks too; with something in the way the tombstone stays. *)
drop(p) ==
    /\ pc[p] = "drop"
    /\ IF Exists(slug[p])
         THEN /\ abandoned' = abandoned \cup {staged[p]}
              /\ staged' = [staged EXCEPT ![p] = None]
              /\ Return(p)
         ELSE Goto(p, "drop_rename") /\ UNCHANGED <<abandoned, staged, call>>
    /\ UNCHANGED <<repositories, live, stage, created, contended>>

(* rename(2) puts a directory in the place of an empty one, and of nothing *)
(* else.                                                                   *)
Restore(p) ==
    LET s == slug[p] IN
    /\ pc[p] \in {"restore", "drop_rename"}
    /\ IF Exists(s) /\ stage[live[s]] # "empty"
         THEN IF pc[p] = "restore"
                THEN Goto(p, "drop") /\ UNCHANGED <<live, stage, staged, abandoned, call>>
                ELSE /\ abandoned' = abandoned \cup {staged[p]}
                     /\ staged' = [staged EXCEPT ![p] = None]
                     /\ Return(p)
                     /\ UNCHANGED <<live, stage>>
         ELSE /\ live' = [live EXCEPT ![s] = staged[p]]
              /\ stage' = IF Exists(s) THEN [stage EXCEPT ![live[s]] = "erased"] ELSE stage
              /\ staged' = [staged EXCEPT ![p] = None]
              /\ Return(p)
              /\ UNCHANGED abandoned
    /\ UNCHANGED <<repositories, created, contended>>
-----------------------------------------------------------------------------
(* rev-parse --verify of a branch, and of a commit by its id or a branch.  *)
resolve_ref_optional(r, b) == refs[r][b]
resolve_commit(r, c) == c \in objects[r]

Related(c, d) == history[c] \cap history[d] # {}
is_ancestor(c, d) == c \in history[d]

(* hash-object, write-tree and commit-tree leave objects in the repository *)
(* that is at the path; an object id cannot be its own ancestor.           *)
commit_tree(r, c, parents) ==
    LET reached == {c} \cup UNION {history[d] : d \in parents} IN
    /\ parents \subseteq objects[r]
    /\ \A d \in parents : c \notin history[d]
    /\ Makes(c, reached)
    /\ history' = [history EXCEPT ![c] = reached]
    /\ objects' = [objects EXCEPT ![r] = @ \cup {c}]

(* commit_changes: the branch is resolved; the change is built on what is  *)
(* read here.                                                              *)
commit_changes(p, s, b) ==
    /\ Call(p, s)
    /\ Openable(s)
    /\ branch' = [branch EXCEPT ![p] = b]
    /\ head' = [head EXCEPT ![p] = resolve_ref_optional(live[s], b)]
    /\ Goto(p, "build")
    /\ UNCHANGED <<repositories, directories, new, staged, contended>>

(* Without a branch, the parent is the start revision, a branch or the id  *)
(* of any commit there, or nothing when the caller names none.             *)
Build(p, start, c) ==
    LET parents == IF head[p] # None THEN {head[p]} ELSE start IN
    /\ pc[p] = "build"
    /\ Openable(slug[p])
    /\ start = {} \/ head[p] = None
    /\ \A d \in start : resolve_commit(live[slug[p]], d)
    /\ commit_tree(live[slug[p]], c, parents)
    /\ new' = [new EXCEPT ![p] = c]
    /\ Goto(p, "update")
    /\ UNCHANGED <<refs, accepted, directories, slug, branch, calls, head, staged, contended>>

(* merge: the target must exist. *)
merge(p, s, b) ==
    /\ Call(p, s)
    /\ Openable(s)
    /\ resolve_ref_optional(live[s], b) # None
    /\ branch' = [branch EXCEPT ![p] = b]
    /\ head' = [head EXCEPT ![p] = resolve_ref_optional(live[s], b)]
    /\ Goto(p, "source")
    /\ UNCHANGED <<repositories, directories, new, staged, contended>>

(* The source is ahead of the target: a fast-forward. *)
FastForward(p, source) ==
    /\ pc[p] = "source"
    /\ Openable(slug[p])
    /\ head[p] \in objects[live[slug[p]]]
    /\ resolve_commit(live[slug[p]], source)
    /\ ~is_ancestor(source, head[p])
    /\ is_ancestor(head[p], source)
    /\ new' = [new EXCEPT ![p] = source]
    /\ Goto(p, "update")
    /\ UNCHANGED <<repositories, directories, slug, branch, calls, head, staged, contended>>

(* merge-tree succeeded. *)
MergeTrees(p, source, c) ==
    /\ pc[p] = "source"
    /\ Openable(slug[p])
    /\ resolve_commit(live[slug[p]], source)
    /\ ~is_ancestor(source, head[p])
    /\ ~is_ancestor(head[p], source)
    /\ Related(head[p], source)
    /\ commit_tree(live[slug[p]], c, {head[p], source})
    /\ new' = [new EXCEPT ![p] = c]
    /\ Goto(p, "update")
    /\ UNCHANGED <<refs, accepted, directories, slug, branch, calls, head, staged, contended>>

(* AlreadyUpToDate, Conflicted, or a failing git before the branch is      *)
(* touched, as it may well fail in a damaged repository.                   *)
GivesUp(p) ==
    /\ pc[p] \in UpdatePhases
    /\ Return(p)
    /\ UNCHANGED <<repositories, directories, staged, contended>>

(* Mutant: the branch is moved whatever it points to by now. *)
update_ref_always(p) ==
    LET r == live[slug[p]] IN
    /\ pc[p] = "update"
    /\ IF Openable(slug[p]) /\ new[p] \in objects[r]
         THEN /\ refs' = [refs EXCEPT ![r][branch[p]] = new[p]]
              /\ accepted' = accepted \cup {<<r, branch[p], new[p]>>}
         ELSE UNCHANGED <<refs, accepted>>
    /\ Return(p)
    /\ UNCHANGED <<objects, history, directories, staged, contended>>

(* Mutant: the branch is written without git looking for the commit. *)
update_ref_unresolved(p) ==
    LET r == live[slug[p]] IN
    /\ pc[p] = "update"
    /\ IF Openable(slug[p]) /\ refs[r][branch[p]] = head[p]
         THEN /\ refs' = [refs EXCEPT ![r][branch[p]] = new[p]]
              /\ accepted' = accepted \cup {<<r, branch[p], new[p]>>}
         ELSE UNCHANGED <<refs, accepted>>
    /\ Return(p)
    /\ UNCHANGED <<objects, history, directories, staged, contended>>

(* update-ref, from commit_changes and atomic_update: git compares the     *)
(* branch with the expected value under the lock of the ref, and knows the *)
(* new commit.  Otherwise ConcurrentUpdate, or another error.              *)
update_ref(p) ==
    LET r == live[slug[p]] IN
    /\ pc[p] = "update"
    /\ IF Openable(slug[p]) /\ new[p] \in objects[r] /\ refs[r][branch[p]] = head[p]
         THEN /\ refs' = [refs EXCEPT ![r][branch[p]] = new[p]]
              /\ accepted' = accepted \cup {<<r, branch[p], new[p]>>}
         ELSE UNCHANGED <<refs, accepted>>
    /\ Return(p)
    /\ UNCHANGED <<objects, history, directories, staged, contended>>
-----------------------------------------------------------------------------
(* The process dies; guards are not dropped, directories stay. *)
Crash ==
    /\ \E p \in Processes : pc[p] # "idle"
    /\ pc' = [p \in Processes |-> "idle"]
    /\ slug' = [p \in Processes |-> None]
    /\ branch' = [p \in Processes |-> None]
    /\ head' = [p \in Processes |-> None]
    /\ new' = [p \in Processes |-> None]
    /\ abandoned' = abandoned \cup {staged[p] : p \in {q \in Processes : staged[q] # None}}
    /\ staged' = [p \in Processes |-> None]
    /\ UNCHANGED <<repositories, live, stage, created, calls, contended>>

CreateStep(p) ==
    \/ \E s \in Slugs, r \in Repos : create(p, s, r)
    \/ \E r \in Repos : InitBare(p, r)
    \/ InitFails(p)
    \/ \E s \in Slugs, b \in Branches : import_local(p, s, b)
    \/ \E r \in Repos, c \in Commits : Clone(p, r, c)
    \/ CloneFails(p)

DeleteStep(p) ==
    \/ \E s \in Slugs : stage_delete(p, s)
    \/ Rename(p) \/ commit(p) \/ CommitFails(p) \/ rollback(p)
    \/ DropGuard(p) \/ drop(p) \/ Restore(p)

UpdateStep(p) ==
    \/ \E s \in Slugs, b \in Branches : commit_changes(p, s, b) \/ merge(p, s, b)
    \/ \E c \in Commits : Build(p, {}, c) \/ \E d \in Commits : Build(p, {d}, c)
    \/ \E d \in Commits : FastForward(p, d)
    \/ \E c, d \in Commits : MergeTrees(p, d, c)
    \/ GivesUp(p)
    \/ update_ref(p)

Next == Crash \/ \E p \in Processes : CreateStep(p) \/ DeleteStep(p) \/ UpdateStep(p)

Spec == Init /\ [][Next]_vars
-----------------------------------------------------------------------------
(* update_ref (docs/GIT.md, "expected-old-value ref updates"): the store   *)
(* implements the promise of BranchLog, so an update that raced with       *)
(* another is refused, and what was accepted is never lost from a          *)
(* repository whose removal was not begun.                                 *)
Published(r, b) == IF refs[r][b] = None THEN {} ELSE history[refs[r][b]]

Log == INSTANCE BranchLog
         WITH published <- [r \in Repos |-> [b \in Branches |-> Published(r, b)]],
              removed <- {r \in Repos : stage[r] \in {"damaged", "erased"}}

BranchesKeepWhatTheyAccept == Log!Spec

(* commit_changes and merge find their repository by path at every step: a *)
(* branch reaches only commits whose objects its own repository has, if    *)
(* removing it was not begun.                                              *)
RefsResolve ==
    \A r \in Repos, b \in Branches :
        stage[r] # "damaged" => Published(r, b) \subseteq objects[r]

(* stage_delete and Drop ("rather than risking data loss"): unless calls   *)
(* that create or delete under one slug overlapped, a repository that was  *)
(* created is erased, or any part of it removed, only in the tombstone of  *)
(* a guard.                                                                *)
ErasedFromTombstone ==
    [][\A r \in created :
          (\/ stage'[r] \in {"damaged", "erased"} /\ stage'[r] # stage[r]
           \/ ~(objects[r] \subseteq objects'[r]))
          => \/ \E p \in Processes : staged[p] = r
             \/ \E s \in contended : live[s] = r]_vars
=============================================================================
