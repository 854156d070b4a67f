------------------------------ MODULE GitProofs ------------------------------
(***************************************************************************)
(* Proofs about c6-git: GitStore, for any number of slugs, repositories,   *)
(* branches, commits and callers, and SmartHttp, for any sizes of pipes,   *)
(* requests and responses.                                                 *)
(*                                                                         *)
(* The history of a commit never changes once it is made, and holds all of *)
(* the histories it reaches (HistoriesClosed); an object store that has a  *)
(* commit has what it reaches (ObjectsComplete), and a branch points into  *)
(* the store of its own repository (RefsPresent), but where a removal has  *)
(* stopped half-way.  What a caller is about to publish extends what it    *)
(* has read by a commit that was not there (Callers), and so a branch that *)
(* still is what was read only grows.                                      *)
(*                                                                         *)
(* A repository is at one path or in one tombstone, and what is there has  *)
(* not been erased (Apart), so nothing that was removed is taken for kept. *)
(* Where creations and deletions of a slug have not overlapped, the one    *)
(* caller at work there clears away only what it has made itself           *)
(* (Undisturbed).                                                          *)
(*                                                                         *)
(* What stdout_reader keeps is all that left the pipe, or more than could  *)
(* be a permitted response (Kept); so parse_cgi_response accepts no part   *)
(* of one.  That needs RoomForHeader: with less room a chunk that does not *)
(* fit may leave few enough bytes to pass for a response.                  *)
(***************************************************************************)
EXTENDS GitStore, SmartHttp, TLAPS

HistoriesClosed ==
    \A c \in Commits :
        /\ history[c] # {} => c \in history[c]
        /\ \A d \in history[c] : d \in history[d] /\ history[d] \subseteq history[c]

ObjectsComplete ==
    \A r \in Repos : \A c \in objects[r] :
        c \in history[c] /\ (stage[r] # "damaged" => history[c] \subseteq objects[r])

RefsPresent ==
    \A r \in Repos, b \in Branches : refs[r][b] # None =>
        /\ refs[r][b] \in history[refs[r][b]]
        /\ stage[r] # "damaged" => refs[r][b] \in objects[r]

NewIsEmpty ==
    \A r \in Repos : stage[r] \in {"unborn", "empty"} =>
        objects[r] = {} /\ \A b \in Branches : refs[r][b] = None

CallerOf(p) ==
    /\ pc[p] # "idle" => slug[p] \in Slugs
    /\ pc[p] \in UpdatePhases \cup {"clone"} => branch[p] \in Branches
    /\ pc[p] \in DeletePhases \ {"rename"} => staged[p] \in Repos
    /\ pc[p] = "source" => head[p] # None
    /\ head[p] # None => head[p] \in history[head[p]]
    /\ pc[p] = "update" =>
          /\ new[p] \in Commits
          /\ new[p] \in history[new[p]]
          /\ head[p] # None =>
                new[p] \notin history[head[p]] /\ history[head[p]] \subseteq history[new[p]]

Callers == \A p \in Processes : CallerOf(p)

GInv ==
    /\ TypeOK
    /\ HistoriesClosed
    /\ ObjectsComplete
    /\ RefsPresent
    /\ NewIsEmpty
    /\ Callers

USE DEF Stages, Phases, CreatePhases, DeletePhases, UpdatePhases

(* Nothing exists at first. *)
LEMMA InitGInv == ASSUME Init PROVE GInv
BY GitAssumption
   DEF Init, GInv, TypeOK, HistoriesClosed, ObjectsComplete, RefsPresent, NewIsEmpty,
       Callers, CallerOf
-----------------------------------------------------------------------------
(* commit_tree: the commit holds the histories of its parents, which do    *)
(* not reach it, and no history of a commit that was made before changes.  *)
LEMMA TreeStep ==
    ASSUME GInv, NEW r \in Repos, NEW c \in Commits, NEW parents \in SUBSET Commits,
           commit_tree(r, c, parents), UNCHANGED stage
    PROVE  /\ history' \in [Commits -> SUBSET Commits]
           /\ objects' \in [Repos -> SUBSET Commits]
           /\ c \in history'[c] /\ c \in objects'[r]
           /\ \A d \in Commits : d \in history[d] => history'[d] = history[d]
           /\ \A d \in parents : history[d] \subseteq history'[c] /\ c \notin history[d]
           /\ \A q \in Repos : objects[q] \subseteq objects'[q]
           /\ HistoriesClosed' /\ ObjectsComplete'
<1>. DEFINE reached == {c} \cup UNION {history[d] : d \in parents}
<1>. USE DEF GInv
<1>1. /\ parents \subseteq objects[r]
      /\ \A d \in parents : c \notin history[d]
      /\ history[c] = reached \/ history[c] = {}
      /\ history' = [history EXCEPT ![c] = reached]
      /\ objects' = [objects EXCEPT ![r] = @ \cup {c}]
  BY DEF commit_tree, Makes
<1>2. reached \in SUBSET Commits
  BY DEF TypeOK
<1>3. /\ history' \in [Commits -> SUBSET Commits] /\ objects' \in [Repos -> SUBSET Commits]
      /\ history'[c] = reached
      /\ \A d \in Commits \ {c} : history'[d] = history[d]
      /\ objects'[r] = objects[r] \cup {c}
      /\ \A q \in Repos \ {r} : objects'[q] = objects[q]
  BY <1>1, <1>2 DEF TypeOK
<1>. HIDE DEF reached
<1>4. /\ c \in reached
      /\ \A d \in parents : history[d] \subseteq reached
      /\ \A x \in reached : x = c \/ \E d \in parents : x \in history[d]
  BY DEF reached
<1>5. \A d \in Commits : d \in history[d] => history'[d] = history[d]
  BY <1>1, <1>3
<1>6. \A x \in reached : x = c \/ (x \in Commits \ {c} /\ x \in history[x]
                                   /\ history[x] \subseteq reached)
  <2>. SUFFICES ASSUME NEW x \in reached, x # c
                PROVE  x \in Commits \ {c} /\ x \in history[x] /\ history[x] \subseteq reached
    OBVIOUS
  <2>1. PICK d \in parents : x \in history[d]
    BY <1>4
  <2>. QED BY <2>1, <1>2, <1>4 DEF HistoriesClosed
<1>7. HistoriesClosed'
  <2>. SUFFICES ASSUME NEW x \in Commits
                PROVE  /\ history'[x] # {} => x \in history'[x]
                       /\ \A d \in history'[x] :
                             d \in history'[d] /\ history'[d] \subseteq history'[x]
    BY DEF HistoriesClosed
  <2>1. CASE x = c
    BY <2>1, <1>3, <1>4, <1>6
  <2>2. CASE x # c
    <3>1. history'[x] = history[x]
      BY <2>2, <1>3
    <3>2. \A d \in history[x] : d \in Commits /\ d \in history[d] /\ history[d] \subseteq history[x]
      BY DEF HistoriesClosed, TypeOK
    <3>. QED BY <3>1, <3>2, <1>5 DEF HistoriesClosed
  <2>. QED BY <2>1, <2>2
<1>8. stage[r] # "damaged" => reached \subseteq objects'[r]
  BY <1>1, <1>3, <1>4 DEF ObjectsComplete
<1>9. ObjectsComplete'
  <2>. SUFFICES ASSUME NEW q \in Repos, NEW x \in objects'[q]
                PROVE  /\ x \in history'[x]
                       /\ stage[q] # "damaged" => history'[x] \subseteq objects'[q]
    BY DEF ObjectsComplete
  <2>1. CASE x \in objects[q]
    <3>1. /\ x \in Commits /\ x \in history[x]
          /\ stage[q] # "damaged" => history[x] \subseteq objects[q]
      BY <2>1 DEF ObjectsComplete, TypeOK
    <3>2. objects[q] \subseteq objects'[q]
      BY <1>3
    <3>. QED BY <3>1, <3>2, <1>5
  <2>2. CASE x \notin objects[q]
    <3>1. q = r /\ x = c
      BY <2>2, <1>3
    <3>. QED BY <3>1, <1>3, <1>4, <1>8
  <2>. QED BY <2>1, <2>2
<1>. QED BY <1>1, <1>3, <1>4, <1>5, <1>7, <1>9
-----------------------------------------------------------------------------
(* What a step may do to the repositories and to the caller p. *)
Others(p) ==
    \A q \in Processes \ {p} :
        /\ pc'[q] = pc[q] /\ slug'[q] = slug[q] /\ branch'[q] = branch[q]
        /\ head'[q] = head[q] /\ new'[q] = new[q] /\ staged'[q] = staged[q]

MadeStay == \A d \in Commits : d \in history[d] => history'[d] = history[d]

(* The other callers' facts are about histories that stay. *)
LEMMA CallersStep ==
    ASSUME GInv, NEW p \in Processes, Others(p), MadeStay, CallerOf(p)' PROVE Callers'
<1>. SUFFICES ASSUME NEW q \in Processes \ {p} PROVE CallerOf(q)'
  BY DEF Callers
<1>1. CallerOf(q) /\ head[q] \in Commits \cup {None} /\ new[q] \in Commits \cup {None}
  BY DEF GInv, Callers, TypeOK
<1>2. head[q] # None => head[q] \in Commits /\ history'[head[q]] = history[head[q]]
  BY <1>1 DEF CallerOf, MadeStay
<1>3. pc[q] = "update" => history'[new[q]] = history[new[q]]
  BY <1>1 DEF CallerOf, MadeStay
<1>. QED BY <1>1, <1>2, <1>3 DEF CallerOf, Others

(* A step that touches neither branches nor objects keeps what is known of *)
(* them, unless a directory that held something is taken for a new one, or *)
(* one that has lost a part for whole.                                     *)
LEMMA DirectoryStep ==
    ASSUME GInv, NEW p \in Processes, UNCHANGED repositories, TypeOK', Others(p), CallerOf(p)',
           \A r \in Repos : /\ stage'[r] \in {"unborn", "empty"} => stage[r] \in {"unborn", "empty"}
                            /\ stage'[r] # "damaged" => stage[r] # "damaged"
    PROVE  GInv'
<1>1. MadeStay
  BY DEF MadeStay, repositories
<1>2. HistoriesClosed' /\ ObjectsComplete' /\ RefsPresent'
  BY DEF GInv, repositories, HistoriesClosed, ObjectsComplete, RefsPresent
<1>3. NewIsEmpty'
  BY DEF GInv, repositories, NewIsEmpty
<1>. QED BY <1>1, <1>2, <1>3, CallersStep DEF GInv

(* A caller that has returned has forgotten what it read. *)
LEMMA ReturnStep ==
    ASSUME TypeOK, NEW p \in Processes, Return(p),
           staged' = staged \/ staged' = [staged EXCEPT ![p] = None]
    PROVE  /\ pc' \in [Processes -> Phases]
           /\ slug' \in [Processes -> Slugs \cup {None}]
           /\ branch' \in [Processes -> Branches \cup {None}]
           /\ head' \in [Processes -> Commits \cup {None}]
           /\ new' \in [Processes -> Commits \cup {None}]
           /\ staged' \in [Processes -> Repos \cup {None}]
           /\ calls' = calls
           /\ Others(p) /\ CallerOf(p)'
BY DEF TypeOK, Return, Others, CallerOf

(* Removing a repository, or a part of it, leaves no object or branch that *)
(* was not there, and the rest of the store alone.                         *)
LEMMA RemovalTyped ==
    ASSUME GInv, NEW r \in Repos, Erase(r) \/ Damage(r)
    PROVE  /\ stage' \in [Repos -> Stages]
           /\ refs' \in [Repos -> [Branches -> Commits \cup {None}]]
           /\ objects' \in [Repos -> SUBSET Commits]
           /\ stage'[r] \in {"erased", "damaged"}
           /\ \A q \in Repos \ {r} :
                 stage'[q] = stage[q] /\ refs'[q] = refs[q] /\ objects'[q] = objects[q]
           /\ objects'[r] \subseteq objects[r]
           /\ \A b \in Branches : refs'[r][b] # None =>
                 stage'[r] = "damaged" /\ refs'[r][b] \in history[refs'[r][b]]
           /\ stage'[r] # "damaged" => objects'[r] = {}
<1>1. CASE Erase(r)
  BY <1>1 DEF Erase, GInv, TypeOK
<1>2. CASE Damage(r)
  <2>1. PICK left \in SUBSET objects[r] : objects' = [objects EXCEPT ![r] = left]
    BY <1>2 DEF Damage
  <2>2. PICK heads \in [Branches -> Commits \cup {None}] :
           /\ \A b \in Branches :
                 heads[b] \in {refs[r][b]} \cup
                             IF refs[r][b] = None THEN {} ELSE {None} \cup Packed(r, b)
           /\ refs' = [refs EXCEPT ![r] = heads]
    BY <1>2 DEF Damage
  <2>3. \A b \in Branches : heads[b] # None => heads[b] \in history[heads[b]]
    BY <2>2 DEF Packed, GInv, RefsPresent
  <2>4. stage' = [stage EXCEPT ![r] = "damaged"]
    BY <1>2 DEF Damage
  <2>. QED BY <2>1, <2>2, <2>3, <2>4 DEF GInv, TypeOK
<1>. QED BY <1>1, <1>2

(* Removing a repository, or a part of it, keeps the invariant. *)
LEMMA RemovalStep ==
    ASSUME GInv, NEW p \in Processes, NEW r \in Repos, Erase(r) \/ Damage(r),
           UNCHANGED <<history, accepted>>, TypeOK', Others(p), CallerOf(p)'
    PROVE  GInv'
<1>1. MadeStay /\ HistoriesClosed'
  BY DEF GInv, MadeStay, HistoriesClosed
<1>2. ObjectsComplete'
  BY RemovalTyped DEF GInv, ObjectsComplete
<1>3. RefsPresent'
  BY RemovalTyped DEF GInv, RefsPresent
<1>4. NewIsEmpty'
  BY RemovalTyped DEF GInv, NewIsEmpty
<1>. QED BY <1>1, <1>2, <1>3, <1>4, CallersStep DEF GInv

(* Creation and import. *)
LEMMA CreateStepGInv ==
    ASSUME GInv, NEW p \in Processes, CreateStep(p) PROVE GInv'
<1>. USE DEF GInv
<1>1. ASSUME NEW s \in Slugs, NEW r \in Repos, create(p, s, r) PROVE GInv'
  <2>1. TypeOK' /\ Others(p) /\ CallerOf(p)' /\ UNCHANGED repositories
    BY <1>1, GitAssumption
       DEF create, TypeOK, Call, Overlap, Goto, Others, CallerOf, repositories, Callers
  <2>2. stage[r] = "unborn" /\ stage' = [stage EXCEPT ![r] = "empty"]
    BY <1>1 DEF create, Unborn
  <2>. QED BY <2>1, <2>2, DirectoryStep DEF TypeOK
<1>2. ASSUME NEW r \in Repos, InitBare(p, r) PROVE GInv'
  <2>1. slug[p] \in Slugs /\ UNCHANGED <<repositories, staged>> /\ Return(p)
    BY <1>2 DEF InitBare, Callers, CallerOf
  <2>2. TypeOK'
    BY <1>2, <2>1, ReturnStep, GitAssumption DEF InitBare, TypeOK, repositories
  <2>3. stage' = stage \/ stage' = [stage EXCEPT ![r] = "ready"]
    BY <1>2 DEF InitBare
  <2>4. stage'[r] # "damaged" => stage[r] # "damaged"
    BY <1>2 DEF InitBare, TypeOK
  <2>. QED BY <2>1, <2>2, <2>3, <2>4, ReturnStep, DirectoryStep DEF TypeOK
<1>3. ASSUME InitFails(p) \/ CloneFails(p) PROVE GInv'
  <2>1. /\ slug[p] \in Slugs /\ Return(p) /\ Removed(slug[p])
        /\ UNCHANGED <<abandoned, created, staged, contended, history, accepted>>
    BY <1>3 DEF InitFails, CloneFails, Callers, CallerOf, Removed
  <2>2. CASE UNCHANGED <<live, stage, refs, objects>>
    <3>1. TypeOK' /\ UNCHANGED repositories
      BY <2>1, <2>2, ReturnStep DEF TypeOK, repositories
    <3>. QED BY <2>1, <2>2, <3>1, ReturnStep, DirectoryStep
  <2>3. CASE ~UNCHANGED <<live, stage, refs, objects>>
    <3>1. /\ live[slug[p]] \in Repos
          /\ Erase(live[slug[p]]) \/ Damage(live[slug[p]])
          /\ live' \in {live, [live EXCEPT ![slug[p]] = None]}
      BY <2>1, <2>3 DEF Removed, Exists, TypeOK
    <3>2. /\ stage' \in [Repos -> Stages]
          /\ refs' \in [Repos -> [Branches -> Commits \cup {None}]]
          /\ objects' \in [Repos -> SUBSET Commits]
      BY <3>1, RemovalTyped
    <3>3. live' \in [Slugs -> Repos \cup {None}]
      BY <3>1 DEF TypeOK
    <3>4. TypeOK'
      BY <2>1, <3>2, <3>3, ReturnStep DEF TypeOK
    <3>. QED BY <2>1, <3>1, <3>4, ReturnStep, RemovalStep
  <2>. QED BY <2>2, <2>3
<1>4. ASSUME NEW s \in Slugs, NEW b \in Branches, import_local(p, s, b) PROVE GInv'
  <2>1. TypeOK' /\ Others(p) /\ CallerOf(p)' /\ UNCHANGED repositories
    BY <1>4, GitAssumption
       DEF import_local, TypeOK, Call, Overlap, Goto, Others, CallerOf, repositories,
           directories, Callers
  <2>2. stage' = stage
    BY <1>4 DEF import_local, directories
  <2>. QED BY <2>1, <2>2, DirectoryStep
<1>5. ASSUME NEW r \in Repos, NEW c \in Commits, Clone(p, r, c) PROVE GInv'
  <2>1. /\ slug[p] \in Slugs /\ branch[p] \in Branches /\ UNCHANGED staged /\ Return(p)
        /\ stage[r] \in {"unborn", "empty"}
        /\ history[c] \in {{}, {c}}
        /\ history' = [history EXCEPT ![c] = {c}]
        /\ objects' = [objects EXCEPT ![r] = {c}]
        /\ refs' = [refs EXCEPT ![r][branch[p]] = c]
        /\ stage' = [stage EXCEPT ![r] = "ready"]
    BY <1>5 DEF Clone, Callers, CallerOf, Makes, Unborn
  <2>2. TypeOK'
    BY <1>5, <2>1, ReturnStep DEF Clone, TypeOK
  <2>3. MadeStay
    BY <2>1 DEF MadeStay, TypeOK
  <2>4. HistoriesClosed'
    BY <2>1 DEF HistoriesClosed, TypeOK
  <2>5. ObjectsComplete'
    BY <2>1, <2>3 DEF ObjectsComplete, TypeOK, MadeStay
  <2>6. RefsPresent' /\ NewIsEmpty'
    BY <2>1, <2>3, GitAssumption DEF RefsPresent, NewIsEmpty, TypeOK, MadeStay
  <2>. QED BY <2>1, <2>2, <2>3, <2>4, <2>5, <2>6, ReturnStep, CallersStep
<1>. QED BY <1>1, <1>2, <1>3, <1>4, <1>5 DEF CreateStep

(* Deletion, staged in a tombstone. *)
LEMMA DeleteStepGInv ==
    ASSUME GInv, NEW p \in Processes, DeleteStep(p) PROVE GInv'
<1>. USE DEF GInv
<1>1. ASSUME NEW s \in Slugs, stage_delete(p, s) PROVE GInv'
  <2>1. TypeOK' /\ Others(p) /\ CallerOf(p)' /\ UNCHANGED repositories
    BY <1>1, GitAssumption
       DEF stage_delete, TypeOK, Call, Overlap, Goto, Others, CallerOf, repositories,
           directories, Callers
  <2>2. stage' = stage
    BY <1>1 DEF stage_delete, directories
  <2>. QED BY <2>1, <2>2, DirectoryStep
<1>2. ASSUME Rename(p) PROVE GInv'
  <2>1. slug[p] \in Slugs /\ stage' = stage /\ UNCHANGED repositories
    BY <1>2 DEF Rename, Callers, CallerOf
  <2>2. CASE Exists(slug[p])
    <3>1. live[slug[p]] \in Repos
      BY <2>1, <2>2 DEF Exists, TypeOK
    <3>2. TypeOK' /\ Others(p) /\ CallerOf(p)'
      BY <1>2, <2>1, <2>2, <3>1 DEF Rename, TypeOK, Goto, call, Others, CallerOf, Callers,
                                    repositories
    <3>. QED BY <2>1, <3>2, DirectoryStep
  <2>3. CASE ~Exists(slug[p])
    <3>1. Return(p) /\ UNCHANGED <<staged, live, abandoned, created, contended>>
      BY <1>2, <2>3 DEF Rename
    <3>2. TypeOK'
      BY <2>1, <3>1, ReturnStep DEF TypeOK, repositories
    <3>. QED BY <2>1, <3>1, <3>2, ReturnStep, DirectoryStep
  <2>. QED BY <2>2, <2>3
<1>3. ASSUME commit(p) PROVE GInv'
  <2>1. /\ Return(p) /\ staged' = [staged EXCEPT ![p] = None] /\ staged[p] \in Repos
        /\ Erase(staged[p])
        /\ UNCHANGED <<history, accepted, live, abandoned, created, contended>>
    BY <1>3 DEF commit, Callers, CallerOf
  <2>2. TypeOK'
    BY <2>1, ReturnStep, RemovalTyped DEF TypeOK
  <2>. QED BY <2>1, <2>2, ReturnStep, RemovalStep
<1>4. ASSUME CommitFails(p) \/ rollback(p) \/ DropGuard(p) PROVE GInv'
  <2>1. /\ pc[p] = "guard" /\ staged[p] \in Repos
        /\ UNCHANGED <<history, accepted, live, abandoned, created, call, staged, contended>>
        /\ \E phase \in {"drop", "restore"} : pc' = [pc EXCEPT ![p] = phase]
    BY <1>4 DEF CommitFails, rollback, DropGuard, Goto, directories, repositories, Callers,
                CallerOf
  <2>2. /\ pc' \in [Processes -> Phases] /\ Others(p) /\ CallerOf(p)'
    BY <2>1 DEF TypeOK, call, Others, CallerOf, Callers
  <2>3. CASE UNCHANGED <<stage, refs, objects>>
    <3>1. TypeOK' /\ UNCHANGED repositories
      BY <2>1, <2>2, <2>3 DEF TypeOK, call, repositories
    <3>. QED BY <2>2, <2>3, <3>1, DirectoryStep
  <2>4. CASE Damage(staged[p])
    <3>1. TypeOK'
      BY <2>1, <2>2, <2>4, RemovalTyped DEF TypeOK, call
    <3>. QED BY <2>1, <2>2, <2>4, <3>1, RemovalStep
  <2>. QED BY <1>4, <2>3, <2>4 DEF CommitFails, rollback, DropGuard, directories, repositories
<1>5. ASSUME drop(p) PROVE GInv'
  <2>1. /\ pc[p] = "drop" /\ staged[p] \in Repos
        /\ UNCHANGED <<repositories, live, stage, created, contended>>
    BY <1>5 DEF drop, Callers, CallerOf
  <2>2. CASE Exists(slug[p])
    <3>1. /\ Return(p) /\ staged' = [staged EXCEPT ![p] = None]
          /\ abandoned' = abandoned \cup {staged[p]}
      BY <1>5, <2>2 DEF drop
    <3>2. TypeOK'
      BY <2>1, <3>1, ReturnStep DEF TypeOK, repositories
    <3>. QED BY <2>1, <3>1, <3>2, ReturnStep, DirectoryStep
  <2>3. CASE ~Exists(slug[p])
    <3>1. TypeOK' /\ Others(p) /\ CallerOf(p)'
      BY <1>5, <2>1, <2>3 DEF drop, TypeOK, Goto, call, Others, CallerOf, Callers,
                              repositories
    <3>. QED BY <2>1, <3>1, DirectoryStep
  <2>. QED BY <2>2, <2>3
<1>6. ASSUME Restore(p) PROVE GInv'
  <2>. DEFINE s == slug[p]
  <2>1. /\ pc[p] \in {"restore", "drop_rename"} /\ staged[p] \in Repos /\ s \in Slugs
        /\ UNCHANGED <<repositories, created, contended>>
    BY <1>6 DEF Restore, Callers, CallerOf
  <2>2. CASE Goto(p, "drop") /\ UNCHANGED <<live, stage, staged, abandoned, call>>
    <3>1. TypeOK' /\ Others(p) /\ CallerOf(p)'
      BY <2>1, <2>2 DEF TypeOK, Goto, call, Others, CallerOf, Callers, repositories
    <3>. QED BY <2>1, <2>2, <3>1, DirectoryStep
  <2>3. CASE /\ Return(p) /\ staged' = [staged EXCEPT ![p] = None]
             /\ abandoned' \in {abandoned, abandoned \cup {staged[p]}}
             /\ live' \in {live, [live EXCEPT ![s] = staged[p]]}
             /\ \/ stage' = stage
                \/ stage[live[s]] = "empty" /\ stage' = [stage EXCEPT ![live[s]] = "erased"]
    <3>1. TypeOK'
      BY <2>1, <2>3, ReturnStep DEF TypeOK, repositories
    <3>. QED BY <2>1, <2>3, <3>1, ReturnStep, DirectoryStep DEF TypeOK
  <2>4. stage' = stage \/ (stage[live[s]] = "empty" /\ stage' = [stage EXCEPT ![live[s]] = "erased"])
    BY <1>6 DEF Restore
  <2>. QED BY <1>6, <2>2, <2>3, <2>4 DEF Restore
<1>. QED BY <1>1, <1>2, <1>3, <1>4, <1>5, <1>6 DEF DeleteStep
-----------------------------------------------------------------------------
(* What an open repository's branch names is there, and was made. *)
LEMMA HeadMade ==
    ASSUME GInv, NEW s \in Slugs, NEW b \in Branches, Openable(s), refs[live[s]][b] # None
    PROVE  refs[live[s]][b] \in Commits /\ refs[live[s]][b] \in history[refs[live[s]][b]]
BY DEF GInv, TypeOK, Openable, Exists, RefsPresent

(* A commit is made for what the caller has read. *)
LEMMA MakeStep ==
    ASSUME GInv, NEW p \in Processes, NEW c \in Commits, NEW parents \in SUBSET Commits,
           pc[p] \in {"build", "source"},
           slug[p] \in Slugs, Openable(slug[p]),
           commit_tree(live[slug[p]], c, parents),
           head[p] # None => head[p] \in parents,
           new' = [new EXCEPT ![p] = c], Goto(p, "update"),
           UNCHANGED <<refs, accepted, directories, slug, branch, calls, head, staged, contended>>
    PROVE  GInv' /\ MadeStay
<1>. USE DEF GInv
<1>. DEFINE r == live[slug[p]]
<1>0. r \in Repos /\ stage[r] \in {"ready", "damaged"}
  BY DEF Openable, Exists, TypeOK
<1>1. /\ history' \in [Commits -> SUBSET Commits]
      /\ objects' \in [Repos -> SUBSET Commits]
      /\ c \in history'[c] /\ c \in objects'[r]
      /\ \A d \in Commits : d \in history[d] => history'[d] = history[d]
      /\ \A d \in parents : history[d] \subseteq history'[c] /\ c \notin history[d]
      /\ \A q \in Repos : objects[q] \subseteq objects'[q]
      /\ HistoriesClosed' /\ ObjectsComplete'
  BY <1>0, TreeStep DEF directories
<1>2. objects' = [objects EXCEPT ![r] = @ \cup {c}]
  BY DEF commit_tree
<1>3. TypeOK' /\ Others(p) /\ MadeStay
  BY <1>1 DEF TypeOK, Goto, directories, Others, MadeStay
<1>4. RefsPresent'
  BY <1>1 DEF RefsPresent, TypeOK, directories
<1>5. NewIsEmpty'
  <2>1. \A q \in Repos : stage[q] \in {"unborn", "empty"} => objects'[q] = objects[q]
    BY <1>0, <1>2 DEF TypeOK
  <2>. QED BY <2>1 DEF NewIsEmpty, directories
<1>6. CallerOf(p)'
  <2>1. CallerOf(p) /\ pc'[p] = "update" /\ new'[p] = c /\ head'[p] = head[p]
    BY DEF Callers, Goto, TypeOK
  <2>2. head[p] # None => /\ history'[head[p]] = history[head[p]]
                          /\ c \notin history[head[p]]
                          /\ history[head[p]] \subseteq history'[c]
                          /\ head[p] \in history[head[p]]
    BY <2>1, <1>1 DEF CallerOf, TypeOK
  <2>. QED BY <2>1, <2>2, <1>1 DEF CallerOf
<1>. QED BY <1>1, <1>3, <1>4, <1>5, <1>6, CallersStep

(* Commits and merges. *)
LEMMA UpdateStepGInv ==
    ASSUME GInv, NEW p \in Processes, UpdateStep(p) PROVE GInv' /\ MadeStay
<1>. USE DEF GInv
<1>0. UNCHANGED repositories => MadeStay
  BY DEF MadeStay, repositories
<1>1. ASSUME NEW s \in Slugs, NEW b \in Branches, commit_changes(p, s, b) \/ merge(p, s, b)
      PROVE GInv' /\ MadeStay
  <2>1. /\ Call(p, s) /\ Openable(s) /\ UNCHANGED <<repositories, directories, new, staged, contended>>
        /\ branch' = [branch EXCEPT ![p] = b]
        /\ head' = [head EXCEPT ![p] = refs[live[s]][b]]
        /\ \/ pc' = [pc EXCEPT ![p] = "build"]
           \/ pc' = [pc EXCEPT ![p] = "source"] /\ refs[live[s]][b] # None
    BY <1>1 DEF commit_changes, merge, Goto, resolve_ref_optional
  <2>2. refs[live[s]][b] \in Commits \cup {None}
    BY <2>1 DEF Openable, Exists, TypeOK
  <2>3. TypeOK'
    BY <2>1, <2>2, GitAssumption DEF TypeOK, Call, repositories, directories
  <2>4. Others(p) /\ stage' = stage
    BY <2>1 DEF Others, Call, TypeOK, directories
  <2>5. CallerOf(p)'
    BY <2>1, <2>2, HeadMade DEF CallerOf, Call, TypeOK, repositories
  <2>. QED BY <2>1, <2>3, <2>4, <2>5, <1>0, DirectoryStep
<1>2. ASSUME NEW start \in SUBSET Commits, NEW c \in Commits, Build(p, start, c)
      PROVE GInv' /\ MadeStay
  <2>. DEFINE parents == IF head[p] # None THEN {head[p]} ELSE start
  <2>1. pc[p] = "build" /\ slug[p] \in Slugs /\ parents \in SUBSET Commits
    BY <1>2 DEF Build, Callers, CallerOf, TypeOK
  <2>. QED BY <1>2, <2>1, MakeStep DEF Build
<1>3. ASSUME NEW d \in Commits, NEW c \in Commits, MergeTrees(p, d, c)
      PROVE GInv' /\ MadeStay
  <2>1. pc[p] = "source" /\ slug[p] \in Slugs /\ {head[p], d} \in SUBSET Commits
    BY <1>3 DEF MergeTrees, Callers, CallerOf, TypeOK
  <2>. QED BY <1>3, <2>1, MakeStep DEF MergeTrees
<1>4. ASSUME NEW d \in Commits, FastForward(p, d) PROVE GInv' /\ MadeStay
  <2>1. /\ pc[p] = "source" /\ slug[p] \in Slugs /\ live[slug[p]] \in Repos
        /\ head[p] \in Commits /\ head[p] \in history[head[p]]
        /\ d \in objects[live[slug[p]]] /\ d \notin history[head[p]] /\ head[p] \in history[d]
        /\ UNCHANGED <<repositories, directories, slug, branch, calls, head, staged, contended>>
        /\ new' = [new EXCEPT ![p] = d] /\ Goto(p, "update")
    BY <1>4 DEF FastForward, Callers, CallerOf, TypeOK, Openable, Exists, resolve_commit,
                is_ancestor
  <2>2. d \in history[d] /\ history[head[p]] \subseteq history[d]
    BY <2>1 DEF ObjectsComplete, HistoriesClosed
  <2>3. TypeOK' /\ Others(p) /\ stage' = stage
    BY <2>1 DEF TypeOK, Goto, Others, repositories, directories
  <2>4. CallerOf(p)'
    BY <2>1, <2>2 DEF CallerOf, Callers, Goto, TypeOK, repositories
  <2>. QED BY <2>1, <2>3, <2>4, <1>0, DirectoryStep
<1>5. ASSUME GivesUp(p) PROVE GInv' /\ MadeStay
  <2>1. Return(p) /\ UNCHANGED <<repositories, directories, staged, contended>>
    BY <1>5 DEF GivesUp
  <2>2. TypeOK' /\ stage' = stage
    BY <2>1, ReturnStep DEF TypeOK, repositories, directories
  <2>. QED BY <2>1, <2>2, <1>0, ReturnStep, DirectoryStep
<1>6. ASSUME update_ref(p) PROVE GInv' /\ MadeStay
  <2>. DEFINE r == live[slug[p]]
  <2>1. /\ pc[p] = "update" /\ Return(p)
        /\ UNCHANGED <<objects, history, directories, staged, contended>>
        /\ slug[p] \in Slugs /\ branch[p] \in Branches /\ new[p] \in Commits
    BY <1>6 DEF update_ref, Callers, CallerOf
  <2>2. CASE /\ Openable(slug[p]) /\ new[p] \in objects[r]
             /\ refs' = [refs EXCEPT ![r][branch[p]] = new[p]]
             /\ accepted' = accepted \cup {<<r, branch[p], new[p]>>}
    <3>1. r \in Repos /\ stage[r] \in {"ready", "damaged"}
      BY <2>1, <2>2 DEF Openable, Exists, TypeOK
    <3>2. TypeOK'
      BY <2>1, <2>2, <3>1, ReturnStep DEF TypeOK, directories
    <3>3. HistoriesClosed' /\ ObjectsComplete' /\ MadeStay
      BY <2>1 DEF HistoriesClosed, ObjectsComplete, MadeStay, directories
    <3>4. new[p] \in history[new[p]]
      BY <2>2, <3>1 DEF ObjectsComplete
    <3>5. RefsPresent' /\ NewIsEmpty'
      BY <2>1, <2>2, <3>1, <3>4 DEF RefsPresent, NewIsEmpty, TypeOK, directories
    <3>. QED BY <2>1, <3>2, <3>3, <3>5, ReturnStep, CallersStep
  <2>3. CASE UNCHANGED <<refs, accepted>>
    <3>1. UNCHANGED repositories /\ stage' = stage
      BY <2>1, <2>3 DEF repositories, directories
    <3>2. TypeOK'
      BY <2>1, <3>1, ReturnStep DEF TypeOK, directories, repositories
    <3>. QED BY <2>1, <3>1, <3>2, <1>0, ReturnStep, DirectoryStep
  <2>. QED BY <1>6, <2>2, <2>3 DEF update_ref
<1>. QED
  <2>1. \A d \in Commits : {d} \in SUBSET Commits
    OBVIOUS
  <2>. QED BY <1>1, <1>2, <1>3, <1>4, <1>5, <1>6, <2>1 DEF UpdateStep
-----------------------------------------------------------------------------
(* Every step keeps the inductive invariant, and the histories of commits  *)
(* that were made.                                                         *)
LEMMA NextGInv == ASSUME GInv, [Next]_vars PROVE GInv' /\ MadeStay
<1>1. ASSUME NEW p \in Processes, CreateStep(p) PROVE MadeStay
  <2>1. UNCHANGED history \/ \E r \in Repos, c \in Commits : Clone(p, r, c)
    BY <1>1 DEF CreateStep, create, InitBare, InitFails, import_local, CloneFails, Removed,
                repositories
  <2>2. ASSUME NEW r \in Repos, NEW c \in Commits, Clone(p, r, c) PROVE MadeStay
    BY <2>2 DEF Clone, Makes, MadeStay, GInv, TypeOK
  <2>. QED BY <2>1, <2>2 DEF MadeStay
<1>2. ASSUME NEW p \in Processes, DeleteStep(p) PROVE MadeStay
  BY <1>2 DEF DeleteStep, stage_delete, Rename, commit, CommitFails, rollback, DropGuard, drop,
              Restore, MadeStay, repositories
<1>3. ASSUME Crash PROVE GInv' /\ MadeStay
  <2>1. {staged[p] : p \in {q \in Processes : staged[q] # None}} \subseteq Repos
    BY DEF GInv, TypeOK
  <2>2. TypeOK'
    BY <1>3, <2>1 DEF GInv, TypeOK, Crash, repositories
  <2>3. Callers'
    BY <1>3 DEF Crash, Callers, CallerOf
  <2>4. HistoriesClosed' /\ ObjectsComplete' /\ RefsPresent' /\ NewIsEmpty' /\ MadeStay
    BY <1>3 DEF GInv, Crash, HistoriesClosed, ObjectsComplete, RefsPresent, NewIsEmpty, MadeStay,
                repositories
  <2>. QED BY <2>2, <2>3, <2>4 DEF GInv
<1>4. CASE UNCHANGED vars
  BY <1>4 DEF GInv, vars, repositories, directories, call, TypeOK, HistoriesClosed,
              ObjectsComplete, RefsPresent, NewIsEmpty, Callers, CallerOf, MadeStay
<1>. QED
  BY <1>1, <1>2, <1>3, <1>4, CreateStepGInv, DeleteStepGInv, UpdateStepGInv DEF Next

(* The inductive invariant holds. *)
THEOREM Inductive == Spec => []GInv
BY InitGInv, NextGInv, PTL DEF Spec

(* Directories, branches and callers have the values of their types. *)
THEOREM TypeCorrect == Spec => []TypeOK
<1>1. GInv => TypeOK
  BY DEF GInv
<1>. QED BY <1>1, Inductive, PTL

(* commit_changes, merge and import_local: a branch reaches only commits   *)
(* whose objects its own repository has, unless a removal of it has        *)
(* stopped half-way.                                                       *)
THEOREM Resolvable == Spec => []RefsResolve
<1>1. GInv => RefsResolve
  BY DEF GInv, TypeOK, RefsPresent, ObjectsComplete, RefsResolve, Published
<1>. QED BY <1>1, Inductive, PTL
-----------------------------------------------------------------------------
(* A repository is at one place, at one path or in one tombstone, and is   *)
(* not erased while it is there.                                           *)
Apart ==
    /\ \A s, t \in Slugs : live[s] # None /\ live[s] = live[t] => s = t
    /\ \A s \in Slugs, p \in Processes : live[s] # None => live[s] # staged[p]
    /\ \A p, q \in Processes : staged[p] # None /\ staged[p] = staged[q] => p = q
    /\ \A s \in Slugs : live[s] # None => stage[live[s]] \notin {"unborn", "erased"}
    /\ \A p \in Processes : staged[p] # None => stage[staged[p]] \notin {"unborn", "erased"}
    /\ \A r \in created : stage[r] \notin {"unborn", "empty"}

Uses(p, s) == slug[p] = s /\ pc[p] \in CreatePhases \cup DeletePhases

(* Where creations and deletions have not overlapped, one caller is at     *)
(* work, and what it might remove is not what another call returned.       *)
Undisturbed(s) ==
    s \notin contended =>
        /\ \A p, q \in Processes : Uses(p, s) /\ Uses(q, s) => p = q
        /\ \A p \in Processes : slug[p] = s =>
              /\ pc[p] = "init" => live[s] \notin created
              /\ pc[p] = "clone" => live[s] = None

PathInv ==
    /\ GInv
    /\ Apart
    /\ \A s \in Slugs : Undisturbed(s)

(* A step of the caller that uses s0 disturbs no other path.               *)
LEMMA ElsewhereUndisturbed ==
    ASSUME PathInv, GInv', Apart', NEW p \in Processes, Others(p), NEW s0 \in Slugs,
           \A s \in Slugs \ {s0} : live'[s] = live[s] /\ ~Uses(p, s)',
           contended \subseteq contended', created' \subseteq created \cup {live'[s0]},
           NEW s \in Slugs \ {s0}
    PROVE  Undisturbed(s)'
<1> SUFFICES ASSUME s \notin contended'
             PROVE  /\ \A q, r \in Processes : Uses(q, s)' /\ Uses(r, s)' => q = r
                    /\ \A q \in Processes : slug'[q] = s =>
                          /\ pc'[q] = "init" => live'[s] \notin created'
                          /\ pc'[q] = "clone" => live'[s] = None
  BY DEF Undisturbed
<1>1. Undisturbed(s) /\ s \notin contended
  BY DEF PathInv
<1>2. \A q \in Processes : Uses(q, s)' => q # p /\ Uses(q, s) /\ pc'[q] = pc[q]
  BY DEF Others, Uses
<1>3. live'[s] = live[s] /\ (live[s] \in created' => live[s] \in created)
  <2>1. live'[s] = live[s]
    OBVIOUS
  <2>2. ASSUME live'[s] = live'[s0] PROVE live'[s] = None
    BY <2>2 DEF Apart
  <2>3. created \subseteq Repos /\ created' \subseteq Repos
    BY DEF PathInv, GInv, TypeOK
  <2> QED BY <2>1, <2>2, <2>3, GitAssumption
<1>4. \A q \in Processes : slug'[q] = s /\ pc'[q] \in CreatePhases =>
         slug[q] = s /\ pc[q] = pc'[q]
  BY <1>2 DEF Uses
<1>5. ASSUME NEW q \in Processes, slug'[q] = s
      PROVE  /\ pc'[q] = "init" => live'[s] \notin created'
             /\ pc'[q] = "clone" => live'[s] = None
  BY <1>1, <1>3, <1>4, <1>5 DEF Undisturbed
<1>6. \A q, r \in Processes : Uses(q, s)' /\ Uses(r, s)' => q = r
  BY <1>1, <1>2 DEF Undisturbed
<1> QED BY <1>5, <1>6

(* A caller that is alone at a path does no harm there.                    *)
LEMMA AloneUndisturbed ==
    ASSUME NEW p \in Processes, NEW s \in Slugs,
           s \notin contended' => \A q \in Processes : Uses(q, s)' => q = p,
           slug'[p] = s /\ pc'[p] = "init" => live'[s] \notin created',
           slug'[p] = s /\ pc'[p] = "clone" => live'[s] = None
    PROVE  Undisturbed(s)'
<1> SUFFICES ASSUME s \notin contended'
             PROVE  /\ \A q, r \in Processes : Uses(q, s)' /\ Uses(r, s)' => q = r
                    /\ \A q \in Processes : slug'[q] = s =>
                          /\ pc'[q] = "init" => live'[s] \notin created'
                          /\ pc'[q] = "clone" => live'[s] = None
  BY DEF Undisturbed
<1>1. \A q \in Processes : slug'[q] = s /\ pc'[q] \in CreatePhases => q = p
  BY DEF Uses
<1> QED BY <1>1

(* The next step of a call, or its last: who else is at work there has     *)
(* overlapped with it.                                                     *)
LEMMA GoesOnUndisturbed ==
    ASSUME PathInv, GInv', Apart', NEW p \in Processes, Others(p),
           slug[p] \in Slugs, pc[p] \in CreatePhases \cup DeletePhases,
           slug'[p] \in {slug[p], None}, pc'[p] \notin CreatePhases,
           \A s \in Slugs \ {slug[p]} : live'[s] = live[s],
           contended' = contended, created' \subseteq created \cup {live'[slug[p]]}
    PROVE  \A s \in Slugs : Undisturbed(s)'
<1> SUFFICES ASSUME NEW s \in Slugs PROVE Undisturbed(s)'
  OBVIOUS
<1>1. CASE s # slug[p]
  <2>1. \A t \in Slugs \ {slug[p]} : ~Uses(p, t)'
    BY GitAssumption DEF Uses
  <2>2. PICK s0 \in Slugs : s0 = slug[p] /\ live'[s0] = live'[slug[p]]
    OBVIOUS
  <2> QED BY <1>1, <2>1, <2>2, ElsewhereUndisturbed
<1>2. CASE s = slug[p]
  <2>1. Uses(p, s)
    BY <1>2 DEF Uses
  <2>2. s \notin contended' => \A q \in Processes : Uses(q, s)' => q = p
    BY <2>1 DEF PathInv, Undisturbed, Uses, Others
  <2> QED BY <2>2, AloneUndisturbed
<1> QED BY <1>1, <1>2

(* The first step of a call: nobody else is at work there, or Overlap sees *)
(* it.                                                                     *)
LEMMA BeginsUndisturbed ==
    ASSUME PathInv, GInv', Apart', NEW p \in Processes, Others(p), NEW s0 \in Slugs,
           slug'[p] = s0, Overlap(s0), \A s \in Slugs \ {s0} : live'[s] = live[s],
           created' = created, pc[p] = "idle",
           pc'[p] = "init" => live'[s0] \notin created,
           pc'[p] = "clone" => live'[s0] = None
    PROVE  \A s \in Slugs : Undisturbed(s)'
<1>1. /\ contended \subseteq contended'
      /\ s0 \notin contended' => \A q \in Processes : ~Uses(q, s0)
  BY DEF Overlap, Uses
<1> SUFFICES ASSUME NEW s \in Slugs PROVE Undisturbed(s)'
  OBVIOUS
<1>2. CASE s # s0
  <2>1. \A t \in Slugs \ {s0} : ~Uses(p, t)'
    BY DEF Uses
  <2> QED BY <1>1, <1>2, <2>1, ElsewhereUndisturbed
<1>3. CASE s = s0
  <2>1. s \notin contended' => \A q \in Processes : Uses(q, s)' => q = p
    BY <1>1, <1>3 DEF Uses, Others
  <2> QED BY <1>3, <2>1, AloneUndisturbed
<1> QED BY <1>2, <1>3

(* Paths and tombstones are emptied, directories damaged, or erased where  *)
(* they leave their place.                                                 *)
LEMMA ApartEmptied ==
    ASSUME PathInv, created' = created,
           \A s \in Slugs : live'[s] \in {live[s], None},
           \A p \in Processes : staged'[p] \in {staged[p], None},
           \A r \in Repos :
              \/ stage'[r] \in {stage[r], "damaged"}
              \/ /\ stage'[r] = "erased"
                 /\ \A s \in Slugs : live'[s] # r
                 /\ \A p \in Processes : staged'[p] # r
    PROVE  Apart'
<1>1. /\ \A s \in Slugs : live'[s] # None => live'[s] = live[s] /\ live[s] \in Repos
      /\ \A p \in Processes : staged'[p] # None => staged'[p] = staged[p] /\ staged[p] \in Repos
      /\ created \subseteq Repos
  BY DEF PathInv, GInv, TypeOK
<1>2. \A r \in Repos :
         /\ stage[r] # "unborn" => stage'[r] # "unborn"
         /\ stage[r] # "empty" => stage'[r] # "empty"
         /\ stage'[r] = "erased" =>
               \/ stage[r] = "erased"
               \/ (\A s \in Slugs : live'[s] # r) /\ (\A p \in Processes : staged'[p] # r)
  OBVIOUS
<1>3. /\ \A s, t \in Slugs : live'[s] # None /\ live'[s] = live'[t] => s = t
      /\ \A s \in Slugs, p \in Processes : live'[s] # None => live'[s] # staged'[p]
      /\ \A p, q \in Processes : staged'[p] # None /\ staged'[p] = staged'[q] => p = q
  BY <1>1 DEF Apart, PathInv
<1>4. /\ \A s \in Slugs : live'[s] # None => stage'[live'[s]] \notin {"unborn", "erased"}
      /\ \A p \in Processes : staged'[p] # None => stage'[staged'[p]] \notin {"unborn", "erased"}
      /\ \A r \in created' : stage'[r] \notin {"unborn", "empty"}
  BY <1>1, <1>2 DEF Apart, PathInv
<1> QED BY <1>3, <1>4 DEF Apart

(* A repository that was nowhere, or at this path, is at this path.        *)
LEMMA ApartPlaced ==
    ASSUME PathInv, NEW s \in Slugs, NEW r \in Repos, staged' = staged,
           created' \subseteq created \cup {r},
           r = live[s] \/ (stage[r] = "unborn" /\ live[s] = None),
           live' = [live EXCEPT ![s] = r],
           \A q \in Repos \ {r} : stage'[q] = stage[q],
           stage'[r] \notin {"unborn", "erased"}, r \in created' => stage'[r] # "empty"
    PROVE  Apart'
<1>1. /\ live'[s] = r /\ \A t \in Slugs \ {s} : live'[t] = live[t]
      /\ \A t \in Slugs : live[t] \in Repos \cup {None}
      /\ \A p \in Processes : staged[p] \in Repos \cup {None}
      /\ created \subseteq Repos /\ r # None
  BY GitAssumption DEF PathInv, GInv, TypeOK
<1>2. /\ \A t \in Slugs \ {s} : live[t] # r
      /\ \A p \in Processes : staged[p] # r
  BY <1>1 DEF Apart, PathInv
<1>3. /\ \A t, u \in Slugs : live'[t] # None /\ live'[t] = live'[u] => t = u
      /\ \A t \in Slugs, p \in Processes : live'[t] # None => live'[t] # staged'[p]
      /\ \A p, q \in Processes : staged'[p] # None /\ staged'[p] = staged'[q] => p = q
  BY <1>1, <1>2 DEF Apart, PathInv
<1>4. /\ \A t \in Slugs : live'[t] # None => stage'[live'[t]] \notin {"unborn", "erased"}
      /\ \A p \in Processes : staged'[p] # None => stage'[staged'[p]] \notin {"unborn", "erased"}
      /\ \A q \in created' : stage'[q] \notin {"unborn", "empty"}
  BY <1>1, <1>2 DEF Apart, PathInv
<1> QED BY <1>3, <1>4 DEF Apart

(* A repository moves between a path and a tombstone; what was at the path *)
(* is erased.                                                              *)
LEMMA ApartMoved ==
    ASSUME PathInv, NEW s \in Slugs, NEW p \in Processes, created' = created,
           \/ /\ live[s] \in Repos /\ stage' = stage
              /\ live' = [live EXCEPT ![s] = None]
              /\ staged' = [staged EXCEPT ![p] = live[s]]
           \/ /\ staged[p] \in Repos
              /\ live' = [live EXCEPT ![s] = staged[p]]
              /\ staged' = [staged EXCEPT ![p] = None]
              /\ \A r \in Repos :
                    stage'[r] = stage[r] \/ (r = live[s] /\ stage'[r] = "erased")
    PROVE  Apart'
<1>1. /\ \A t \in Slugs \ {s} : live'[t] = live[t]
      /\ \A q \in Processes \ {p} : staged'[q] = staged[q]
      /\ \/ live'[s] = None /\ staged'[p] = live[s]
         \/ live'[s] = staged[p] /\ staged'[p] = None /\ staged[p] # None
      /\ \A t \in Slugs : live[t] \in Repos \cup {None}
      /\ \A q \in Processes : staged[q] \in Repos \cup {None}
      /\ created \subseteq Repos
  BY GitAssumption DEF PathInv, GInv, TypeOK
<1>2. \A r \in Repos :
         /\ stage[r] # "unborn" => stage'[r] # "unborn"
         /\ stage[r] # "empty" => stage'[r] # "empty"
         /\ stage'[r] = "erased" =>
               stage[r] = "erased" \/ (r = live[s] /\ live'[s] = staged[p] /\ staged[p] # None)
  BY GitAssumption DEF PathInv, GInv, TypeOK
<1>3. /\ \A t, u \in Slugs : live'[t] # None /\ live'[t] = live'[u] => t = u
      /\ \A t \in Slugs, q \in Processes : live'[t] # None => live'[t] # staged'[q]
      /\ \A q, r \in Processes : staged'[q] # None /\ staged'[q] = staged'[r] => q = r
  BY <1>1 DEF Apart, PathInv
<1>4. /\ \A t \in Slugs : live'[t] # None => stage'[live'[t]] \notin {"unborn", "erased"}
      /\ \A q \in Processes : staged'[q] # None => stage'[staged'[q]] \notin {"unborn", "erased"}
  <2>1. CASE live'[s] = None /\ staged'[p] = live[s]
    BY <1>1, <1>2, <2>1 DEF Apart, PathInv
  <2>2. CASE live'[s] = staged[p] /\ staged'[p] = None /\ staged[p] # None
    <3>1. /\ \A t \in Slugs : live'[t] # None => live'[t] # live[s]
          /\ \A q \in Processes : staged'[q] # None => staged'[q] # live[s]
      BY <1>1, <2>2 DEF Apart, PathInv
    <3>. QED BY <1>1, <1>2, <2>2, <3>1 DEF Apart, PathInv
  <2>. QED BY <1>1, <2>1, <2>2
<1>5. \A q \in created' : stage'[q] \notin {"unborn", "empty"}
  BY <1>1, <1>2 DEF Apart, PathInv
<1> QED BY <1>3, <1>4, <1>5 DEF Apart

(* A call begins.                                                          *)
LEMMA BeginPaths ==
    ASSUME PathInv, GInv', NEW p \in Processes, NEW s \in Slugs,
           \/ \E r \in Repos : create(p, s, r)
           \/ \E b \in Branches : import_local(p, s, b)
           \/ stage_delete(p, s)
    PROVE  PathInv'
<1>1. /\ pc[p] = "idle" /\ slug' = [slug EXCEPT ![p] = s] /\ Overlap(s)
      /\ \E phase \in Phases : pc' = [pc EXCEPT ![p] = phase]
      /\ created' = created /\ staged' = staged
      /\ \E x \in Branches \cup {branch[p]} : branch' = [branch EXCEPT ![p] = x]
      /\ head' = head /\ new' = new
  BY DEF create, import_local, stage_delete, Call, Goto, directories, PathInv, GInv, TypeOK
<1>2. Others(p) /\ slug'[p] = s
  BY <1>1 DEF Others, PathInv, GInv, TypeOK
<1>3. CASE \E r \in Repos : create(p, s, r)
  <2>1. PICK r \in Repos : create(p, s, r)
    BY <1>3
  <2>2. /\ stage[r] = "unborn" /\ live[s] = None
        /\ live' = [live EXCEPT ![s] = r] /\ stage' = [stage EXCEPT ![r] = "empty"]
        /\ pc' = [pc EXCEPT ![p] = "init"]
    BY <2>1 DEF create, Exists, Unborn, Goto
  <2>3. Apart'
    <3>1. \A q \in Repos \ {r} : stage'[q] = stage[q]
      BY <2>2 DEF PathInv, GInv, TypeOK
    <3>2. stage'[r] = "empty" /\ r \notin created
      BY <2>2 DEF Apart, PathInv, GInv, TypeOK
    <3> QED BY <1>1, <2>2, <3>1, <3>2, ApartPlaced
  <2>4. live'[s] = r /\ r \notin created /\ pc'[p] = "init"
    BY <2>2 DEF Apart, PathInv, GInv, TypeOK
  <2>5. \A t \in Slugs \ {s} : live'[t] = live[t]
    BY <2>2 DEF PathInv, GInv, TypeOK
  <2> QED BY <1>1, <1>2, <2>3, <2>4, <2>5, BeginsUndisturbed DEF PathInv
<1>4. CASE ~ \E r \in Repos : create(p, s, r)
  <2>1. UNCHANGED <<live, stage>> /\ pc'[p] # "init" /\ (pc'[p] = "clone" => live[s] = None)
    BY <1>4 DEF import_local, stage_delete, Goto, directories, Exists, PathInv, GInv, TypeOK
  <2>2. Apart'
    BY <1>1, <2>1 DEF Apart, PathInv
  <2> QED BY <1>1, <1>2, <2>1, <2>2, BeginsUndisturbed DEF PathInv
<1> QED BY <1>3, <1>4

(* A creation or an import ends.                                           *)
LEMMA CreatePaths ==
    ASSUME PathInv, GInv', NEW p \in Processes,
           \/ \E r \in Repos : InitBare(p, r)
           \/ InitFails(p) \/ CloneFails(p)
           \/ \E r \in Repos, c \in Commits : Clone(p, r, c)
    PROVE  PathInv'
<1>1. /\ pc[p] \in CreatePhases /\ Return(p) /\ UNCHANGED <<staged, contended>>
      /\ slug[p] \in Slugs
  BY DEF InitBare, InitFails, CloneFails, Clone, PathInv, GInv, Callers, CallerOf
<1>2. Others(p) /\ slug'[p] = None /\ pc'[p] = "idle"
  BY <1>1 DEF Others, Return, PathInv, GInv, TypeOK
<1>3. CASE InitFails(p) \/ CloneFails(p)
  <2>1. created' = created
    BY <1>3 DEF InitFails, CloneFails
  <2>2. \/ UNCHANGED <<live, stage>>
        \/ /\ live[slug[p]] \in Repos /\ live' = live
           /\ stage' = [stage EXCEPT ![live[slug[p]]] = "damaged"]
        \/ /\ live[slug[p]] \in Repos /\ live' = [live EXCEPT ![slug[p]] = None]
           /\ stage' = [stage EXCEPT ![live[slug[p]]] = "erased"]
    BY <1>1, <1>3 DEF InitFails, CloneFails, Removed, Exists, Erase, Damage, PathInv, GInv, TypeOK
  <2>3. Apart'
    <3>1. \A s \in Slugs : live'[s] \in {live[s], None}
      BY <2>2 DEF PathInv, GInv, TypeOK
    <3>2. \A r \in Repos : stage'[r] = "erased" =>
             \/ stage[r] = "erased"
             \/ (\A s \in Slugs : live'[s] # r) /\ (\A q \in Processes : staged[q] # r)
      <4>1. \A s \in Slugs : live'[s] = live[slug[p]] => live' = live
        BY <1>1, <2>2, GitAssumption DEF PathInv, GInv, TypeOK, Apart
      <4>2. live[slug[p]] # None => \A q \in Processes : staged[q] # live[slug[p]]
        BY <1>1 DEF PathInv, Apart
      <4>3. stage \in [Repos -> Stages]
        BY DEF PathInv, GInv, TypeOK
      <4>4. SUFFICES ASSUME NEW r \in Repos, stage'[r] = "erased", stage[r] # "erased"
                     PROVE  /\ \A s \in Slugs : live'[s] # r
                            /\ \A q \in Processes : staged[q] # r
        OBVIOUS
      <4>5. r = live[slug[p]] /\ live[slug[p]] # None /\ live' # live
        BY <2>2, <4>3, <4>4, <1>1, GitAssumption DEF PathInv, GInv, TypeOK
      <4> QED BY <4>1, <4>2, <4>5
    <3>3. \A r \in Repos : stage'[r] \in {stage[r], "damaged", "erased"}
      BY <2>2 DEF PathInv, GInv, TypeOK
    <3>4. staged' = staged
      BY <1>1
    <3> QED BY <2>1, <3>1, <3>2, <3>3, <3>4, ApartEmptied
  <2>4. \A s \in Slugs \ {slug[p]} : live'[s] = live[s]
    BY <2>2 DEF PathInv, GInv, TypeOK
  <2> QED BY <1>1, <1>2, <2>1, <2>3, <2>4, GoesOnUndisturbed DEF PathInv
<1>4. CASE ~(InitFails(p) \/ CloneFails(p))
  <2>1. PICK r \in Repos : InitBare(p, r) \/ \E c \in Commits : Clone(p, r, c)
    BY <1>4
  <2>2. /\ \/ r = live[slug[p]] /\ live[slug[p]] # None
           \/ stage[r] = "unborn" /\ live[slug[p]] = None
        /\ live' = [live EXCEPT ![slug[p]] = r]
        /\ \/ stage' = [stage EXCEPT ![r] = "ready"]
           \/ stage' = stage /\ stage[r] = "damaged"
        /\ created' = created \cup {r}
    <3>1. CASE InitBare(p, r)
      BY <3>1 DEF InitBare, Exists, Unborn
    <3>2. CASE \E c \in Commits : Clone(p, r, c)
      BY <3>2 DEF Clone, Exists, Unborn
    <3> QED BY <2>1, <3>1, <3>2
  <2>3. live'[slug[p]] = r
    BY <1>1, <2>2 DEF PathInv, GInv, TypeOK
  <2>4. Apart'
    <3>1. /\ \A q \in Repos \ {r} : stage'[q] = stage[q]
          /\ stage'[r] \notin {"unborn", "erased"} /\ stage'[r] # "empty"
      BY <2>2 DEF PathInv, GInv, TypeOK
    <3>2. PICK s \in Slugs : s = slug[p]
      BY <1>1
    <3>3. /\ r = live[s] \/ (stage[r] = "unborn" /\ live[s] = None)
          /\ live' = [live EXCEPT ![s] = r]
      BY <2>2, <3>2
    <3>4. staged' = staged /\ created' \subseteq created \cup {r}
      BY <1>1, <2>2
    <3> QED BY <3>1, <3>3, <3>4, ApartPlaced
  <2>5. \A s \in Slugs \ {slug[p]} : live'[s] = live[s]
    BY <2>2 DEF PathInv, GInv, TypeOK
  <2> QED BY <1>1, <1>2, <2>2, <2>3, <2>4, <2>5, GoesOnUndisturbed DEF PathInv
<1> QED BY <1>3, <1>4

(* A deletion goes on: the repository moves into the tombstone, and out of *)
(* it, or is erased there.                                                 *)
LEMMA DeletePaths ==
    ASSUME PathInv, GInv', NEW p \in Processes,
           \/ Rename(p) \/ commit(p) \/ CommitFails(p) \/ rollback(p)
           \/ DropGuard(p) \/ drop(p) \/ Restore(p)
    PROVE  PathInv'
<1>1. pc[p] \in DeletePhases /\ slug[p] \in Slugs /\ created' = created /\ contended' = contended
  BY DEF Rename, commit, CommitFails, rollback, DropGuard, drop, Restore, PathInv, GInv,
         Callers, CallerOf, directories
<1>2. pc[p] # "rename" => staged[p] \in Repos
  BY <1>1 DEF PathInv, GInv, Callers, CallerOf
<1>3. pc'[p] \notin CreatePhases /\ slug'[p] \in {slug[p], None}
  BY DEF Rename, commit, CommitFails, rollback, DropGuard, drop, Restore, Goto, Return, call,
         PathInv, GInv, TypeOK
<1>4. Others(p)
  <2>1. CASE Rename(p)
    BY <2>1 DEF Rename, Others, Goto, Return, call, PathInv, GInv, TypeOK
  <2>2. CASE commit(p)
    BY <2>2 DEF commit, Others, Return, PathInv, GInv, TypeOK
  <2>3. CASE CommitFails(p) \/ rollback(p) \/ DropGuard(p)
    BY <2>3 DEF CommitFails, rollback, DropGuard, Others, Goto, call, PathInv, GInv, TypeOK
  <2>4. CASE drop(p)
    BY <2>4 DEF drop, Others, Goto, Return, call, PathInv, GInv, TypeOK
  <2>5. CASE Restore(p)
    BY <2>5 DEF Restore, Others, Goto, Return, call, PathInv, GInv, TypeOK
  <2> QED BY <2>1, <2>2, <2>3, <2>4, <2>5
<1>5. \A s \in Slugs \ {slug[p]} : live'[s] = live[s]
  BY DEF Rename, commit, CommitFails, rollback, DropGuard, drop, Restore, directories, PathInv,
         GInv, TypeOK
<1>6. Apart'
  <2>1. CASE Rename(p)
    <3>1. stage' = stage
      BY <2>1 DEF Rename
    <3>2. \/ UNCHANGED <<live, staged>>
          \/ /\ live[slug[p]] # None /\ staged' = [staged EXCEPT ![p] = live[slug[p]]]
             /\ live' = [live EXCEPT ![slug[p]] = None]
      BY <2>1 DEF Rename, Exists
    <3>3. CASE UNCHANGED <<live, staged>>
      BY <1>1, <3>1, <3>3, ApartEmptied
    <3>4. CASE ~UNCHANGED <<live, staged>>
      <4>1. live[slug[p]] \in Repos
        BY <1>1, <3>2, <3>4 DEF PathInv, GInv, TypeOK
      <4> QED BY <1>1, <3>1, <3>2, <3>4, <4>1, ApartMoved
    <3> QED BY <3>3, <3>4
  <2>2. CASE commit(p)
    <3>1. /\ stage' = [stage EXCEPT ![staged[p]] = "erased"] /\ live' = live
          /\ staged' = [staged EXCEPT ![p] = None] /\ staged[p] \in Repos
      BY <1>2, <2>2 DEF commit, Erase
    <3>2. \A r \in Repos : stage'[r] = stage[r] \/ (r = staged[p] /\ stage'[r] = "erased")
      BY <3>1 DEF PathInv, GInv, TypeOK
    <3>3. /\ \A s \in Slugs : live'[s] # staged[p]
          /\ \A q \in Processes : staged'[q] # staged[p]
      BY <3>1, GitAssumption DEF PathInv, GInv, TypeOK, Apart
    <3>4. \A q \in Processes : staged'[q] \in {staged[q], None}
      BY <3>1 DEF PathInv, GInv, TypeOK
    <3> QED BY <1>1, <3>1, <3>2, <3>3, <3>4, ApartEmptied
  <2>3. CASE CommitFails(p) \/ rollback(p) \/ DropGuard(p)
    <3>1. /\ stage' = stage \/ stage' = [stage EXCEPT ![staged[p]] = "damaged"]
          /\ UNCHANGED <<live, staged>>
      BY <2>3 DEF CommitFails, rollback, DropGuard, directories, Damage
    <3> QED BY <1>1, <3>1, ApartEmptied DEF PathInv, GInv, TypeOK
  <2>4. CASE drop(p)
    <3>1. staged' = staged \/ staged' = [staged EXCEPT ![p] = None]
      BY <2>4 DEF drop
    <3>2. UNCHANGED <<live, stage>>
      BY <2>4 DEF drop
    <3> QED BY <1>1, <3>1, <3>2, ApartEmptied DEF PathInv, GInv, TypeOK
  <2>5. CASE Restore(p)
    <3>1. \/ UNCHANGED <<live, stage>> /\ (staged' = staged \/ staged' = [staged EXCEPT ![p] = None])
          \/ /\ live' = [live EXCEPT ![slug[p]] = staged[p]]
             /\ stage' = stage \/ stage' = [stage EXCEPT ![live[slug[p]]] = "erased"]
             /\ staged' = [staged EXCEPT ![p] = None]
      BY <2>5 DEF Restore
    <3>2. staged[p] \in Repos
      BY <1>2, <2>5 DEF Restore
    <3>3. CASE UNCHANGED <<live, stage>> /\ (staged' = staged \/ staged' = [staged EXCEPT ![p] = None])
      BY <1>1, <3>3, ApartEmptied DEF PathInv, GInv, TypeOK
    <3>4. CASE /\ live' = [live EXCEPT ![slug[p]] = staged[p]]
               /\ stage' = stage \/ stage' = [stage EXCEPT ![live[slug[p]]] = "erased"]
               /\ staged' = [staged EXCEPT ![p] = None]
      <4>1. \A r \in Repos :
               stage'[r] = stage[r] \/ (r = live[slug[p]] /\ stage'[r] = "erased")
        BY <3>4 DEF PathInv, GInv, TypeOK
      <4> QED BY <1>1, <3>2, <3>4, <4>1, ApartMoved
    <3> QED BY <3>1, <3>3, <3>4
  <2> QED BY <2>1, <2>2, <2>3, <2>4, <2>5
<1> QED BY <1>1, <1>3, <1>4, <1>5, <1>6, GoesOnUndisturbed DEF PathInv


(* An update changes no path and no tombstone, and uses none.              *)
LEMMA UpdatePaths ==
    ASSUME PathInv, GInv', NEW p \in Processes, UpdateStep(p)
    PROVE  PathInv'
<1>1. UNCHANGED <<directories, staged, contended>>
  <2>1. CASE \E s \in Slugs, b \in Branches : commit_changes(p, s, b) \/ merge(p, s, b)
    BY <2>1 DEF commit_changes, merge
  <2>2. CASE \E c \in Commits : Build(p, {}, c) \/ \E d \in Commits : Build(p, {d}, c)
    BY <2>2 DEF Build
  <2>3. CASE \E c, d \in Commits : MergeTrees(p, d, c)
    BY <2>3 DEF MergeTrees
  <2>4. CASE (\E d \in Commits : FastForward(p, d)) \/ GivesUp(p) \/ update_ref(p)
    BY <2>4 DEF FastForward, GivesUp, update_ref
  <2> QED BY <2>1, <2>2, <2>3, <2>4 DEF UpdateStep
<1>2. /\ pc[p] \in UpdatePhases \cup {"idle"} /\ pc'[p] \in UpdatePhases \cup {"idle"}
      /\ Others(p)
  <2>1. CASE \E s \in Slugs, b \in Branches : commit_changes(p, s, b) \/ merge(p, s, b)
    BY <2>1 DEF commit_changes, merge, Call, Goto, Others, PathInv, GInv, TypeOK
  <2>2. CASE \E c \in Commits : Build(p, {}, c) \/ \E d \in Commits : Build(p, {d}, c)
    BY <2>2 DEF Build, Goto, Others, PathInv, GInv, TypeOK
  <2>3. CASE \E c, d \in Commits : MergeTrees(p, d, c)
    BY <2>3 DEF MergeTrees, Goto, Others, PathInv, GInv, TypeOK
  <2>4. CASE \E d \in Commits : FastForward(p, d)
    BY <2>4 DEF FastForward, Goto, Others, PathInv, GInv, TypeOK
  <2>5. CASE GivesUp(p) \/ update_ref(p)
    BY <2>5 DEF GivesUp, update_ref, Return, Others, PathInv, GInv, TypeOK
  <2> QED BY <2>1, <2>2, <2>3, <2>4, <2>5 DEF UpdateStep
<1>3. Apart'
  BY <1>1 DEF directories, Apart, PathInv
<1>4. ASSUME NEW s \in Slugs PROVE Undisturbed(s)'
  <2>1. \A q \in Processes : Uses(q, s)' => q # p /\ Uses(q, s) /\ pc'[q] = pc[q]
    BY <1>2 DEF Others, Uses
  <2>2. live' = live /\ created' = created /\ contended' = contended
    BY <1>1 DEF directories
  <2>3. Undisturbed(s)
    BY DEF PathInv
  <2> QED BY <2>1, <2>2, <2>3 DEF Undisturbed, Uses
<1> QED BY <1>3, <1>4 DEF PathInv

(* Every step keeps repositories apart and undisturbed paths so. *)
LEMMA NextPaths == ASSUME PathInv, [Next]_vars PROVE PathInv'
<1>1. GInv'
  BY NextGInv DEF PathInv
<1>2. CASE UNCHANGED vars
  BY <1>1, <1>2 DEF vars, directories, call, PathInv, Apart, Undisturbed, Uses
<1>3. CASE Crash
  <2>1. Apart'
    BY <1>3, ApartEmptied DEF Crash
  <2>2. \A s \in Slugs : Undisturbed(s)'
    BY <1>3 DEF Crash, Undisturbed, Uses
  <2> QED BY <1>1, <2>1, <2>2 DEF PathInv
<1>4. ASSUME NEW p \in Processes, CreateStep(p) \/ DeleteStep(p) \/ UpdateStep(p)
      PROVE  PathInv'
  <2>1. CASE CreateStep(p)
    BY <1>1, <2>1, BeginPaths, CreatePaths DEF CreateStep
  <2>2. CASE DeleteStep(p)
    BY <1>1, <2>2, BeginPaths, DeletePaths DEF DeleteStep
  <2>3. CASE UpdateStep(p)
    BY <1>1, <2>3, UpdatePaths
  <2> QED BY <1>4, <2>1, <2>2, <2>3
<1> QED BY <1>2, <1>3, <1>4 DEF Next

(* No repository exists at first, and nobody is at work. *)
LEMMA InitPaths == ASSUME Init PROVE PathInv
<1>1. GInv
  BY InitGInv
<1>2. Apart
  BY DEF Init, Apart
<1>3. \A s \in Slugs : Undisturbed(s)
  BY DEF Init, Undisturbed, Uses
<1>. QED BY <1>1, <1>2, <1>3 DEF PathInv

(* The strengthened invariant holds. *)
THEOREM PathsInductive == Spec => []PathInv
BY InitPaths, NextPaths, PTL DEF Spec
-----------------------------------------------------------------------------
(* What one step may remove, as a whole or in part.                        *)
Loses(r) ==
    \/ stage'[r] \in {"damaged", "erased"} /\ stage'[r] # stage[r]
    \/ ~(objects[r] \subseteq objects'[r])

Erases ==
    \A r \in created : Loses(r) =>
        \/ \E p \in Processes : staged[p] = r
        \/ \E s \in contended : live[s] = r

(* A failing creation removes from what is at its path, and its path is    *)
(* contended if a repository is there.                                     *)
LEMMA FailureErases ==
    ASSUME PathInv, NEW p \in Processes, InitFails(p) \/ CloneFails(p),
           NEW r \in created, Loses(r)
    PROVE  \E s \in contended : live[s] = r
<1>1. pc[p] \in {"init", "clone"} /\ slug[p] \in Slugs /\ r \in Repos
  BY DEF InitFails, CloneFails, PathInv, GInv, TypeOK, Callers, CallerOf
<1>2. ~UNCHANGED <<stage, objects>>
  BY DEF Loses
<1>3. Exists(slug[p]) /\ (Erase(live[slug[p]]) \/ Damage(live[slug[p]]))
  BY <1>2 DEF InitFails, CloneFails, Removed
<1>4. live[slug[p]] \in Repos
  BY <1>1, <1>3 DEF Exists, PathInv, GInv, TypeOK
<1>5. \A q \in Repos \ {live[slug[p]]} : stage'[q] = stage[q] /\ objects'[q] = objects[q]
  BY <1>3, <1>4, RemovalTyped DEF PathInv
<1>6. live[slug[p]] = r
  BY <1>1, <1>5 DEF Loses
<1>7. Undisturbed(slug[p])
  BY <1>1 DEF PathInv
<1>. QED BY <1>1, <1>3, <1>6, <1>7 DEF Undisturbed, Exists

(* No step removes anything else. *)
LEMMA StepErases == ASSUME PathInv, [Next]_vars PROVE Erases
<1> SUFFICES ASSUME NEW r \in created, Loses(r)
             PROVE  \/ \E p \in Processes : staged[p] = r
                    \/ \E s \in contended : live[s] = r
  BY DEF Erases
<1>1. /\ r \in Repos /\ stage \in [Repos -> Stages] /\ objects \in [Repos -> SUBSET Commits]
      /\ stage[r] \notin {"unborn", "empty"}
  BY DEF PathInv, GInv, TypeOK, Apart
<1>2. ~UNCHANGED <<stage, objects>>
  BY DEF Loses
<1>3. ASSUME NEW p \in Processes, CreateStep(p)
      PROVE  \E s \in contended : live[s] = r
  <2>1. CASE InitFails(p) \/ CloneFails(p)
    BY <2>1, FailureErases
  <2>2. CASE \E s \in Slugs, q \in Repos : create(p, s, q)
    BY <1>1, <2>2 DEF create, repositories, Loses
  <2>3. CASE \E q \in Repos : InitBare(p, q)
    BY <1>1, <2>3 DEF InitBare, repositories, Loses
  <2>4. CASE \E q \in Repos, c \in Commits : Clone(p, q, c)
    <3>1. PICK q \in Repos, c \in Commits : Clone(p, q, c)
      BY <2>4
    <3>2. /\ stage[q] \in {"unborn", "empty"}
          /\ stage' = [stage EXCEPT ![q] = "ready"] /\ objects' = [objects EXCEPT ![q] = {c}]
      BY <3>1 DEF Clone, Unborn
    <3> QED BY <1>1, <3>2 DEF Loses
  <2>5. CASE \E s \in Slugs, b \in Branches : import_local(p, s, b)
    BY <1>2, <2>5 DEF import_local, directories, repositories
  <2> QED BY <1>3, <2>1, <2>2, <2>3, <2>4, <2>5 DEF CreateStep
<1>4. ASSUME NEW p \in Processes, DeleteStep(p)
      PROVE  \E q \in Processes : staged[q] = r
  <2>1. CASE commit(p) \/ CommitFails(p)
    <3>1. staged[p] \in Repos /\ (Erase(staged[p]) \/ Damage(staged[p]))
      BY <1>2, <2>1 DEF commit, CommitFails, PathInv, GInv, Callers, CallerOf
    <3>2. \A q \in Repos \ {staged[p]} : stage'[q] = stage[q] /\ objects'[q] = objects[q]
      BY <3>1, RemovalTyped DEF PathInv
    <3> QED BY <1>1, <3>2 DEF Loses
  <2>2. CASE Restore(p)
    <3>1. /\ objects' = objects
          /\ \/ stage' = stage
             \/ stage[live[slug[p]]] = "empty"
                /\ stage' = [stage EXCEPT ![live[slug[p]]] = "erased"]
      BY <2>2 DEF Restore, repositories
    <3> QED BY <1>1, <1>2, <3>1 DEF Loses
  <2>3. CASE (\E s \in Slugs : stage_delete(p, s)) \/ Rename(p) \/ rollback(p)
             \/ DropGuard(p) \/ drop(p)
    BY <1>2, <2>3 DEF stage_delete, Rename, rollback, DropGuard, drop, directories, repositories
  <2> QED BY <1>4, <2>1, <2>2, <2>3 DEF DeleteStep
<1>5. ASSUME NEW p \in Processes, UpdateStep(p) PROVE ~Loses(r)
  <2>1. stage' = stage
    <3>1. CASE \E s \in Slugs, b \in Branches : commit_changes(p, s, b) \/ merge(p, s, b)
      BY <3>1 DEF commit_changes, merge, directories
    <3>2. CASE \E c \in Commits : Build(p, {}, c) \/ \E d \in Commits : Build(p, {d}, c)
      BY <3>2 DEF Build, directories
    <3>3. CASE \E c, d \in Commits : MergeTrees(p, d, c)
      BY <3>3 DEF MergeTrees, directories
    <3>4. CASE (\E d \in Commits : FastForward(p, d)) \/ GivesUp(p) \/ update_ref(p)
      BY <3>4 DEF FastForward, GivesUp, update_ref, directories
    <3> QED BY <1>5, <3>1, <3>2, <3>3, <3>4 DEF UpdateStep
  <2>2. \/ objects' = objects
        \/ \E q \in Repos, c \in Commits : objects' = [objects EXCEPT ![q] = @ \cup {c}]
    <3>1. CASE (\E s \in Slugs, b \in Branches : commit_changes(p, s, b) \/ merge(p, s, b))
               \/ (\E d \in Commits : FastForward(p, d)) \/ GivesUp(p) \/ update_ref(p)
      BY <3>1 DEF commit_changes, merge, FastForward, GivesUp, update_ref, repositories
    <3>2. ASSUME NEW c \in Commits, NEW parents, slug[p] \in Slugs, Openable(slug[p]),
                 commit_tree(live[slug[p]], c, parents)
          PROVE  \E q \in Repos : objects' = [objects EXCEPT ![q] = @ \cup {c}]
      BY <3>2 DEF commit_tree, Openable, Exists, PathInv, GInv, TypeOK
    <3>3. ASSUME NEW c \in Commits, NEW start, Build(p, start, c)
          PROVE  \E q \in Repos : objects' = [objects EXCEPT ![q] = @ \cup {c}]
      BY <3>2, <3>3 DEF Build, PathInv, GInv, Callers, CallerOf
    <3>4. ASSUME NEW c \in Commits, NEW d \in Commits, MergeTrees(p, d, c)
          PROVE  \E q \in Repos : objects' = [objects EXCEPT ![q] = @ \cup {c}]
      BY <3>2, <3>4 DEF MergeTrees, PathInv, GInv, Callers, CallerOf
    <3>5. CASE \E c \in Commits : Build(p, {}, c) \/ \E d \in Commits : Build(p, {d}, c)
      BY <3>3, <3>5, Zenon
    <3>6. CASE \E c, d \in Commits : MergeTrees(p, d, c)
      BY <3>4, <3>6, Zenon
    <3> QED BY <1>5, <3>1, <3>5, <3>6, Zenon DEF UpdateStep
  <2> QED BY <1>1, <2>1, <2>2 DEF Loses
<1>6. ~Crash /\ ~UNCHANGED vars
  BY <1>2 DEF Crash, vars, directories, repositories
<1>7. PICK p \in Processes : CreateStep(p) \/ DeleteStep(p) \/ UpdateStep(p)
  BY <1>6 DEF Next
<1> QED BY <1>3, <1>4, <1>5, <1>7

(* stage_delete and Drop, "rather than risking data loss": unless calls    *)
(* that create or delete under one slug overlapped, what create or         *)
(* import_local returned is erased, and any part of it removed, only in    *)
(* the tombstone of a guard.                                               *)
THEOREM ErasedOnlyStaged == Spec => ErasedFromTombstone
<1>1. PathInv /\ [Next]_vars => [Erases]_vars
  BY StepErases
<1>2. Spec => [][Erases]_vars
  BY <1>1, PathsInductive, PTL DEF Spec
<1>3. Erases => \A r \in created :
                    (\/ stage'[r] \in {"damaged", "erased"} /\ stage'[r] # stage[r]
                     \/ ~(objects[r] \subseteq objects'[r]))
                    => \/ \E p \in Processes : staged[p] = r
                       \/ \E s \in contended : live[s] = r
  BY DEF Erases, Loses
<1> QED BY <1>2, <1>3, PTL DEF ErasedFromTombstone
-----------------------------------------------------------------------------
AllPublished == [r \in Repos |-> [b \in Branches |-> Published(r, b)]]
Gone == {r \in Repos : stage[r] \in {"damaged", "erased"}}

(* What a branch publishes was made, and so changes only with the branch.  *)
LEMMA PublishedStays ==
    ASSUME GInv, MadeStay, NEW r \in Repos, refs'[r] = refs[r]
    PROVE  AllPublished'[r] = AllPublished[r]
<1>. SUFFICES ASSUME NEW b \in Branches PROVE Published(r, b)' = Published(r, b)
  BY DEF AllPublished
<1>1. refs[r][b] # None => refs[r][b] \in Commits /\ refs[r][b] \in history[refs[r][b]]
  BY DEF GInv, TypeOK, RefsPresent
<1>. QED BY <1>1 DEF Published, MadeStay

(* A branch that is moved publishes one commit that it did not, and all    *)
(* that it did.                                                            *)
LEMMA AcceptStep ==
    ASSUME GInv, GInv', MadeStay, NEW r \in Repos, NEW b \in Branches, NEW c \in Commits,
           refs' = [refs EXCEPT ![r][b] = c], Gone' = Gone,
           accepted' = accepted \cup {<<r, b, c>>},
           c \in history'[c], c \notin Published(r, b), Published(r, b) \subseteq history'[c]
    PROVE  Log!Next
<1>1. \A q \in Repos, d \in Branches :
         refs[q][d] # None => refs[q][d] \in Commits /\ refs[q][d] \in history[refs[q][d]]
  BY DEF GInv, TypeOK, RefsPresent
<1>2. \A q \in Repos, d \in Branches :
         Published(q, d)' = IF q = r /\ d = b THEN history'[c] ELSE Published(q, d)
  <2>. SUFFICES ASSUME NEW q \in Repos, NEW d \in Branches
                PROVE  Published(q, d)' = IF q = r /\ d = b THEN history'[c] ELSE Published(q, d)
    OBVIOUS
  <2>1. refs'[q][d] = IF q = r /\ d = b THEN c ELSE refs[q][d]
    BY DEF GInv, TypeOK
  <2>. QED BY <2>1, <1>1, GitAssumption DEF Published, MadeStay
<1>3. AllPublished' = [AllPublished EXCEPT ![r][b] = history'[c]]
  BY <1>2 DEF AllPublished
<1>4. history'[c] \in SUBSET Commits
  BY DEF GInv, TypeOK
<1>5. AllPublished[r][b] = Published(r, b)
  BY DEF AllPublished
<1>6. /\ c \notin AllPublished[r][b]
      /\ \E S \in SUBSET Commits : /\ AllPublished[r][b] \cup {c} \subseteq S
                                 /\ AllPublished' = [AllPublished EXCEPT ![r][b] = S]
  BY <1>3, <1>4, <1>5
<1>7. Log!Accept(r, b, c)
  BY <1>6, Zenon DEF Log!Accept, AllPublished, Gone
<1>. QED BY <1>7, Zenon DEF Log!Next

(* A repository is removed, as a whole or in part. *)
LEMMA RemoveStep ==
    ASSUME GInv, GInv', MadeStay, NEW r \in Repos, Gone' = Gone \cup {r}, accepted' = accepted,
           \A q \in Repos \ {r} : refs'[q] = refs[q]
    PROVE  Log!Next
<1>1. \A q \in Repos \ {r} : AllPublished'[q] = AllPublished[q]
  BY PublishedStays
<1>2. AllPublished'[r] \in [Branches -> SUBSET Commits]
  BY DEF GInv, TypeOK, AllPublished, Published
<1>3. AllPublished' = [AllPublished EXCEPT ![r] = AllPublished'[r]]
  BY <1>1 DEF AllPublished
<1>4. \E heads \in [Branches -> SUBSET Commits] :
         AllPublished' = [AllPublished EXCEPT ![r] = heads]
  BY <1>2, <1>3
<1>5. Log!Remove(r)
  BY <1>4, Zenon DEF Log!Remove, AllPublished, Gone
<1>. QED BY <1>5, Zenon DEF Log!Next

(* remove_dir_all is a removal. *)
LEMMA RemovalIsRemove ==
    ASSUME GInv, GInv', MadeStay, NEW r \in Repos, Erase(r) \/ Damage(r), accepted' = accepted
    PROVE  Log!Next
<1>1. Gone' = Gone \cup {r}
  BY RemovalTyped DEF Gone
<1>2. \A q \in Repos \ {r} : refs'[q] = refs[q]
  BY RemovalTyped
<1>. QED BY <1>1, <1>2, RemoveStep

(* Creating a directory or initialising one revives nothing: what is at a  *)
(* path was not erased.                                                    *)
LEMMA CreateLog ==
    ASSUME PathInv, GInv', MadeStay, NEW p \in Processes, CreateStep(p)
    PROVE  UNCHANGED <<refs, accepted, Gone>> \/ Log!Next
<1>. USE DEF PathInv
<1>1. ASSUME NEW s \in Slugs, NEW r \in Repos, create(p, s, r)
      PROVE  UNCHANGED <<refs, accepted, Gone>>
  <2>1. stage[r] = "unborn" /\ stage' = [stage EXCEPT ![r] = "empty"] /\ UNCHANGED <<refs, accepted>>
    BY <1>1 DEF create, Unborn, repositories
  <2>. QED BY <2>1 DEF Gone, GInv, TypeOK
<1>2. ASSUME NEW r \in Repos, InitBare(p, r) PROVE UNCHANGED <<refs, accepted, Gone>>
  <2>1. slug[p] \in Slugs /\ UNCHANGED <<refs, accepted>>
    BY <1>2 DEF InitBare, GInv, Callers, CallerOf, repositories
  <2>2. stage[r] # "erased"
    BY <1>2, <2>1 DEF InitBare, Exists, Unborn, Apart
  <2>3. stage' = stage \/ (stage[r] # "damaged" /\ stage' = [stage EXCEPT ![r] = "ready"])
    BY <1>2 DEF InitBare
  <2>. QED BY <2>1, <2>2, <2>3 DEF Gone, GInv, TypeOK
<1>3. ASSUME InitFails(p) \/ CloneFails(p)
      PROVE  UNCHANGED <<refs, accepted, Gone>> \/ Log!Next
  <2>1. slug[p] \in Slugs /\ accepted' = accepted
    BY <1>3 DEF InitFails, CloneFails, Removed, GInv, Callers, CallerOf
  <2>2. CASE UNCHANGED <<live, stage, refs, objects>>
    BY <2>1, <2>2 DEF Gone
  <2>3. CASE ~UNCHANGED <<live, stage, refs, objects>>
    <3>1. live[slug[p]] \in Repos /\ (Erase(live[slug[p]]) \/ Damage(live[slug[p]]))
      BY <1>3, <2>1, <2>3 DEF InitFails, CloneFails, Removed, Exists, GInv, TypeOK
    <3>. QED BY <2>1, <3>1, RemovalIsRemove
  <2>. QED BY <2>2, <2>3
<1>4. ASSUME NEW s \in Slugs, NEW b \in Branches, import_local(p, s, b)
      PROVE  UNCHANGED <<refs, accepted, Gone>>
  BY <1>4 DEF import_local, repositories, directories, Gone
<1>5. ASSUME NEW r \in Repos, NEW c \in Commits, Clone(p, r, c) PROVE Log!Next
  <2>1. /\ branch[p] \in Branches /\ stage[r] \in {"unborn", "empty"}
        /\ history' = [history EXCEPT ![c] = {c}]
        /\ refs' = [refs EXCEPT ![r][branch[p]] = c]
        /\ accepted' = accepted \cup {<<r, branch[p], c>>}
        /\ stage' = [stage EXCEPT ![r] = "ready"]
    BY <1>5 DEF Clone, Unborn, GInv, Callers, CallerOf
  <2>2. history'[c] = {c} /\ Published(r, branch[p]) = {}
    BY <2>1 DEF GInv, TypeOK, NewIsEmpty, Published
  <2>3. Gone' = Gone
    BY <2>1 DEF Gone, GInv, TypeOK
  <2>. QED BY <2>1, <2>2, <2>3, AcceptStep
<1>. QED BY <1>1, <1>2, <1>3, <1>4, <1>5 DEF CreateStep

(* A deletion removes what is in its tombstone, and Drop an empty          *)
(* directory that is in its way.                                           *)
LEMMA DeleteLog ==
    ASSUME PathInv, GInv', MadeStay, NEW p \in Processes, DeleteStep(p)
    PROVE  UNCHANGED <<refs, accepted, Gone>> \/ Log!Next
<1>. USE DEF PathInv
<1>1. CASE commit(p) \/ CommitFails(p)
  <2>1. staged[p] \in Repos /\ accepted' = accepted
    BY <1>1 DEF commit, CommitFails, GInv, Callers, CallerOf
  <2>2. \/ UNCHANGED <<stage, refs, objects>>
        \/ Erase(staged[p]) \/ Damage(staged[p])
    BY <1>1 DEF commit, CommitFails
  <2>3. CASE UNCHANGED <<stage, refs, objects>>
    BY <2>1, <2>3 DEF Gone
  <2>. QED BY <2>1, <2>2, <2>3, RemovalIsRemove
<1>2. CASE Restore(p)
  <2>1. UNCHANGED <<refs, accepted>> /\ slug[p] \in Slugs
    BY <1>2 DEF Restore, repositories, GInv, Callers, CallerOf
  <2>2. CASE stage' = stage
    BY <2>1, <2>2 DEF Gone
  <2>3. CASE stage' # stage
    <3>1. live[slug[p]] \in Repos /\ stage' = [stage EXCEPT ![live[slug[p]]] = "erased"]
      BY <1>2, <2>1, <2>3 DEF Restore, Exists, GInv, TypeOK
    <3>2. Gone' = Gone \cup {live[slug[p]]}
      BY <3>1 DEF Gone, GInv, TypeOK
    <3>. QED BY <2>1, <3>1, <3>2, RemoveStep
  <2>. QED BY <2>2, <2>3
<1>3. CASE (\E s \in Slugs : stage_delete(p, s)) \/ Rename(p) \/ rollback(p) \/ DropGuard(p)
           \/ drop(p)
  BY <1>3 DEF stage_delete, Rename, rollback, DropGuard, drop, directories, repositories, Gone
<1>. QED BY <1>1, <1>2, <1>3 DEF DeleteStep

(* Of the steps of an update only update_ref moves a branch. *)
LEMMA UpdateLog ==
    ASSUME PathInv, GInv', MadeStay, NEW p \in Processes, UpdateStep(p)
    PROVE  UNCHANGED <<refs, accepted, Gone>> \/ Log!Next
<1>. USE DEF PathInv
<1>1. \/ UNCHANGED <<refs, accepted, Gone>>
      \/ update_ref(p) /\ UNCHANGED <<history, Gone>> /\ ~UNCHANGED <<refs, accepted>>
  <2>1. CASE \E s \in Slugs, b \in Branches : commit_changes(p, s, b) \/ merge(p, s, b)
    BY <2>1 DEF commit_changes, merge, repositories, directories, Gone
  <2>2. CASE \E c \in Commits : Build(p, {}, c) \/ \E d \in Commits : Build(p, {d}, c)
    BY <2>2 DEF Build, directories, Gone
  <2>3. CASE \E c, d \in Commits : MergeTrees(p, d, c)
    BY <2>3 DEF MergeTrees, directories, Gone
  <2>4. CASE (\E d \in Commits : FastForward(p, d)) \/ GivesUp(p)
    BY <2>4 DEF FastForward, GivesUp, repositories, directories, Gone
  <2>5. CASE update_ref(p)
    BY <2>5 DEF update_ref, directories, Gone
  <2>. QED BY <2>1, <2>2, <2>3, <2>4, <2>5 DEF UpdateStep
<1>2. CASE update_ref(p) /\ UNCHANGED <<history, Gone>> /\ ~UNCHANGED <<refs, accepted>>
  <2>. DEFINE r == live[slug[p]]
  <2>1. /\ r \in Repos /\ branch[p] \in Branches /\ new[p] \in Commits
        /\ refs[r][branch[p]] = head[p]
        /\ refs' = [refs EXCEPT ![r][branch[p]] = new[p]]
        /\ accepted' = accepted \cup {<<r, branch[p], new[p]>>}
        /\ history' = history /\ pc[p] = "update"
    BY <1>2 DEF update_ref, GInv, TypeOK, Callers, CallerOf, Openable, Exists
  <2>2. /\ new[p] \in history[new[p]]
        /\ new[p] \notin Published(r, branch[p])
        /\ Published(r, branch[p]) \subseteq history[new[p]]
    BY <2>1 DEF GInv, Callers, CallerOf, Published
  <2>. QED BY <1>2, <2>1, <2>2, AcceptStep
<1>. QED BY <1>1, <1>2

(* Every step accepts an update, removes a repository, or neither. *)
LEMMA LogStep ==
    ASSUME PathInv, [Next]_vars
    PROVE  \/ UNCHANGED <<AllPublished, accepted, Gone>>
           \/ Log!Next
<1>1. GInv' /\ MadeStay
  BY NextGInv DEF PathInv
<1>2. Crash \/ UNCHANGED vars => UNCHANGED <<refs, accepted, Gone>>
  BY DEF Crash, vars, repositories, directories, Gone
<1>3. UNCHANGED <<refs, accepted, Gone>> \/ Log!Next
  BY <1>1, <1>2, CreateLog, DeleteLog, UpdateLog DEF Next
<1>4. ASSUME refs' = refs PROVE AllPublished' = AllPublished
  <2>1. \A r \in Repos : AllPublished'[r] = AllPublished[r]
    BY <1>1, <1>4, PublishedStays DEF PathInv
  <2>. QED BY <2>1 DEF AllPublished
<1>. QED BY <1>3, <1>4

(* update_ref: the store implements BranchLog. *)
THEOREM Implements == Spec => BranchesKeepWhatTheyAccept
<1>1. Init => Log!Init
  BY DEF Init, Log!Init, Published
<1>2. PathInv /\ [Next]_vars => [Log!Next]_<<AllPublished, accepted, Gone>>
  BY LogStep
<1>. QED BY <1>1, <1>2, PathsInductive, PTL
         DEF Spec, BranchesKeepWhatTheyAccept, Log!Spec, AllPublished, Gone

(* commit_changes, merge and import_local: no update that a caller was     *)
(* told had succeeded is ever lost from its branch, by whatever happens to *)
(* other repositories and in the repository itself, unless removing that   *)
(* repository was begun.                                                   *)
THEOREM AcceptedIsKept == Spec => []Log!Kept
<1>. DEFINE Kept == \A a \in accepted : a[1] \notin Gone => a[3] \in AllPublished[a[1]][a[2]]
<1>1. Init => Kept
  BY DEF Init
<1>2. ASSUME PathInv, Kept, [Next]_vars PROVE Kept'
  <2>0. /\ \A a \in accepted : a[1] \in Repos /\ a[2] \in Branches
        /\ AllPublished = [q \in Repos |-> AllPublished[q]]
        /\ \A q \in Repos : AllPublished[q] = [d \in Branches |-> AllPublished[q][d]]
    BY <1>2 DEF PathInv, GInv, TypeOK, AllPublished
  <2>1. CASE UNCHANGED <<AllPublished, accepted, Gone>>
    BY <1>2, <2>1
  <2>2. ASSUME NEW r \in Repos, Log!Remove(r) PROVE Kept'
    <3>1. PICK heads \in [Branches -> SUBSET Commits] :
             /\ Gone' = Gone \cup {r} /\ accepted' = accepted
             /\ AllPublished' = [AllPublished EXCEPT ![r] = heads]
      BY <2>2, Zenon DEF Log!Remove, AllPublished, Gone
    <3>2. \A q \in Repos \ {r} : AllPublished'[q] = AllPublished[q]
      BY <2>0, <3>1
    <3>. QED BY <1>2, <2>0, <3>1, <3>2
  <2>3. ASSUME NEW r \in Repos, NEW b \in Branches, NEW c \in Commits, Log!Accept(r, b, c)
        PROVE  Kept'
    <3>1. PICK S \in SUBSET Commits :
             /\ accepted' = accepted \cup {<<r, b, c>>}
             /\ AllPublished[r][b] \cup {c} \subseteq S
             /\ AllPublished' = [AllPublished EXCEPT ![r][b] = S]
             /\ Gone' = Gone
      BY <2>3, Zenon DEF Log!Accept, AllPublished, Gone
    <3>2. /\ AllPublished'[r][b] = S
          /\ \A q \in Repos, d \in Branches :
                q # r \/ d # b => AllPublished'[q][d] = AllPublished[q][d]
      BY <2>0, <3>1
    <3>3. \A a \in accepted : a[1] \notin Gone => a[3] \in AllPublished'[a[1]][a[2]]
      BY <1>2, <2>0, <3>1, <3>2
    <3>. QED BY <3>1, <3>2, <3>3
  <2>4. CASE Log!Next
    BY <2>2, <2>3, <2>4, Zenon DEF Log!Next
  <2>. QED BY <1>2, <2>1, <2>4, LogStep
<1>3. Kept <=> Log!Kept
  BY DEF Log!Kept, AllPublished, Gone
<1>. QED BY <1>1, <1>2, <1>3, PathsInductive, PTL DEF Spec
-----------------------------------------------------------------------------
(* stdout_reader keeps everything that has left the pipe, or, once it      *)
(* drops a chunk, more than a response of the permitted size could be.     *)
Kept ==
    /\ ~overflow => bytes + stdout = said
    /\ overflow => bytes + Chunk > stdout_limit

(* Threads that have read to the end have seen the end of every process.   *)
Drained == stdout_reader = "done" => stdout = 0 /\ ~Backend /\ step # "validate"

(* Where the caller is, and what that says of the child.                   *)
CallerKnows ==
    /\ step = "validate" => child = "none" /\ ~pack
    /\ step \in {"join", "parse"} => result # "running"
    /\ step \in {"validate", "poll"} => result = "running"
    /\ result = "success" => child = "success"
    /\ child = "success" => said = Response
    /\ step = "parse" => stdout_reader = "done"
    /\ step = "returned" => ~Backend
    /\ answer = "ok" => step = "returned" /\ stdout_reader = "done"

HttpInv ==
    /\ HttpTypeOK
    /\ Kept
    /\ Drained
    /\ CallerKnows
    /\ ResponseIsWhole

(* The process and the pipes start empty.                                  *)
LEMMA HttpStart == HttpInit => HttpInv
<1> SUFFICES ASSUME HttpInit PROVE HttpInv
  OBVIOUS
<1>1. request \in Nat /\ body \in Nat /\ complaint \in Nat
  BY SmartHttpAssumption DEF HttpInit
<1>2. stdout_limit \in Nat /\ Response \in Nat
  BY <1>1, SmartHttpAssumption DEF stdout_limit, Response
<1>3. HttpTypeOK
  <2>1. /\ 0 \in 0..Pipe /\ 0 \in 0..Response /\ 0 \in 0..stdout_limit
        /\ 0 \in 0..MaxStderrBytes
    BY <1>2, SmartHttpAssumption
  <2> QED BY <1>1, <2>1 DEF HttpInit, HttpTypeOK, Results, Answers
<1>4. ~overflow /\ bytes + stdout = said
  BY DEF HttpInit
<1>5. Kept
  BY <1>4 DEF Kept
<1>6. Drained /\ ResponseIsWhole
  BY DEF HttpInit, Drained, ResponseIsWhole
<1>7. CallerKnows
  BY DEF HttpInit, CallerKnows, Backend
<1> QED BY <1>3, <1>5, <1>6, <1>7 DEF HttpInv

(* read_bounded keeps a whole chunk or nothing of it.                      *)
LEMMA ReadKept ==
    ASSUME HttpInv, read_bounded
    PROVE  HttpInv'
<1> DEFINE read == Smaller(stdout, Chunk)
<1>1. /\ step # "validate" /\ stdout_reader = "running"
      /\ UNCHANGED <<step, result, answer, child, pack, request, stdin, writer, body, said,
                     complaint, stderr, stderr_reader, errors>>
  BY DEF read_bounded, caller, processes, input, chatter
<1>2. /\ bytes \in Nat /\ bytes <= stdout_limit /\ stdout \in Nat /\ stdout <= Pipe
      /\ stdout_limit \in Nat /\ Chunk \in Nat /\ Chunk >= 1 /\ said \in Nat
      /\ body \in Nat /\ Response \in Nat /\ overflow \in BOOLEAN
  BY SmartHttpAssumption DEF HttpInv, HttpTypeOK, stdout_limit, Response
<1>3. read \in Nat /\ read <= Chunk /\ read <= stdout
  BY <1>2 DEF Smaller
<1>4. answer # "ok"
  BY <1>1 DEF HttpInv, CallerKnows
<1>5. ResponseIsWhole'
  BY <1>1, <1>4 DEF ResponseIsWhole
<1>6. Backend' <=> Backend
  BY <1>1 DEF Backend
<1>7. CASE /\ stdout = 0 /\ ~Backend /\ stdout_reader' = "done"
           /\ UNCHANGED <<stdout, bytes, overflow>>
  <2>1. HttpTypeOK'
    BY <1>1, <1>7 DEF HttpInv, HttpTypeOK, Response
  <2>2. Kept'
    BY <1>1, <1>7 DEF HttpInv, Kept
  <2>3. Drained'
    BY <1>1, <1>6, <1>7 DEF Drained
  <2>4. CallerKnows'
    BY <1>1, <1>6, <1>7 DEF HttpInv, CallerKnows, Response
  <2> QED BY <1>5, <2>1, <2>2, <2>3, <2>4 DEF HttpInv
<1>8. CASE ~(/\ stdout = 0 /\ ~Backend /\ stdout_reader' = "done"
             /\ UNCHANGED <<stdout, bytes, overflow>>)
  <2>1. stdout' = stdout - read /\ stdout_reader' = stdout_reader
    BY <1>8 DEF read_bounded
  <2>2. CASE overflow
    <3>1. overflow' /\ bytes' = bytes
      BY <1>8, <2>2 DEF read_bounded
    <3>2. overflow' \in BOOLEAN
      BY <1>8, <1>2 DEF read_bounded
    <3>3. stdout' \in 0..Pipe
      BY <1>2, <1>3, <2>1, SmartHttpAssumption
    <3>4. HttpTypeOK'
      BY <1>1, <2>1, <3>1, <3>2, <3>3 DEF HttpInv, HttpTypeOK, Response, stdout_limit
    <3>5. Kept'
      BY <2>2, <3>1 DEF HttpInv, Kept, stdout_limit
    <3> QED BY <1>1, <1>5, <1>6, <2>1, <3>4, <3>5 DEF HttpInv, Drained, CallerKnows, Response
  <2>3. CASE ~overflow /\ bytes + read > stdout_limit
    <3>1. overflow' /\ bytes' = bytes
      BY <1>8, <2>3 DEF read_bounded
    <3>2. overflow' \in BOOLEAN
      BY <1>8, <1>2 DEF read_bounded
    <3>3. stdout' \in 0..Pipe
      BY <1>2, <1>3, <2>1, SmartHttpAssumption
    <3>4. HttpTypeOK'
      BY <1>1, <2>1, <3>1, <3>2, <3>3 DEF HttpInv, HttpTypeOK, Response, stdout_limit
    <3>5. bytes + Chunk > stdout_limit
      BY <1>2, <1>3, <2>3
    <3>6. Kept'
      BY <3>1, <3>5 DEF Kept, stdout_limit
    <3> QED BY <1>1, <1>5, <1>6, <2>1, <3>4, <3>6 DEF HttpInv, Drained, CallerKnows, Response
  <2>4. CASE ~overflow /\ ~(bytes + read > stdout_limit)
    <3>1. ~overflow' /\ bytes' = bytes + read
      BY <1>8, <2>4 DEF read_bounded
    <3>2. overflow' \in BOOLEAN
      BY <1>8, <1>2 DEF read_bounded
    <3>3. bytes' \in 0..stdout_limit /\ stdout' \in 0..Pipe
      BY <1>2, <1>3, <2>1, <2>4, <3>1, SmartHttpAssumption
    <3>4. HttpTypeOK'
      BY <1>1, <2>1, <3>2, <3>3 DEF HttpInv, HttpTypeOK, Response, stdout_limit
    <3>5. bytes' + stdout' = said'
      <4>1. bytes + stdout = said
        BY <2>4 DEF HttpInv, Kept
      <4>2. said' = said /\ bytes' = bytes + read /\ stdout' = stdout - read
        BY <1>1, <2>1, <3>1
      <4>3. bytes \in Nat /\ stdout \in Nat /\ said \in Nat /\ read \in Nat
        BY <1>2, <1>3
      <4> HIDE DEF read
      <4> QED BY <4>1, <4>2, <4>3
    <3>6. Kept'
      BY <3>1, <3>5 DEF Kept
    <3> QED BY <1>1, <1>5, <1>6, <2>1, <3>4, <3>6 DEF HttpInv, Drained, CallerKnows, Response
  <2> QED BY <2>2, <2>3, <2>4
<1> QED BY <1>7, <1>8

(* The request and the errors have pipes and threads of their own.         *)
LEMMA ElsewhereKept ==
    ASSUME HttpInv, WriteRequest \/ ReadRequest \/ read_errors \/ Complain
    PROVE  HttpInv'
<1>1. UNCHANGED <<step, result, answer, child, pack, body, said, stdout, stdout_reader, bytes,
                  overflow>>
  BY DEF WriteRequest, ReadRequest, read_errors, Complain, caller, processes, output
<1>2. /\ request \in Nat /\ stdin \in 0..Pipe /\ stderr \in 0..Pipe
      /\ complaint \in Nat /\ errors \in 0..MaxStderrBytes
  BY DEF HttpInv, HttpTypeOK
<1>3. request' \in Nat /\ stdin' \in 0..Pipe
  BY <1>2, SmartHttpAssumption
  DEF WriteRequest, ReadRequest, read_errors, Complain, input
<1>4. complaint' \in Nat /\ stderr' \in 0..Pipe
  BY <1>2, SmartHttpAssumption
  DEF WriteRequest, ReadRequest, read_errors, Complain, chatter
<1>5. errors' \in 0..MaxStderrBytes
  BY <1>2, SmartHttpAssumption
  DEF WriteRequest, ReadRequest, read_errors, Complain, chatter, Smaller
<1>6. writer' \in {"running", "ok", "error"} /\ stderr_reader' \in {"running", "done"}
  BY DEF HttpInv, HttpTypeOK, WriteRequest, ReadRequest, read_errors, Complain, input, chatter
<1>7. HttpTypeOK'
  BY <1>1, <1>3, <1>4, <1>5, <1>6 DEF HttpInv, HttpTypeOK, Response, stdout_limit
<1>8. Kept' /\ Drained' /\ ResponseIsWhole'
  BY <1>1 DEF HttpInv, Kept, Drained, ResponseIsWhole, Backend, Response, stdout_limit
<1>9. CallerKnows'
  BY <1>1 DEF HttpInv, CallerKnows, Backend, Response
<1> QED BY <1>7, <1>8, <1>9 DEF HttpInv

(* What the backend says is in the pipe.                                   *)
LEMMA SayKept ==
    ASSUME HttpInv, Say
    PROVE  HttpInv'
<1>1. /\ UNCHANGED <<step, result, answer, child, pack, request, stdin, writer, body,
                     stdout_reader, bytes, overflow, complaint, stderr, stderr_reader, errors>>
      /\ Backend /\ said < Response /\ stdout < Pipe
      /\ said' = said + 1 /\ stdout' = stdout + 1
  BY DEF Say, caller, processes, input, chatter
<1>2. /\ said \in Nat /\ stdout \in Nat /\ bytes \in Nat /\ Response \in Nat /\ Pipe \in Nat
  BY SmartHttpAssumption DEF HttpInv, HttpTypeOK, Response
<1>3. said' \in 0..Response /\ stdout' \in 0..Pipe
  BY <1>1, <1>2
<1>4. HttpTypeOK'
  BY <1>1, <1>3 DEF HttpInv, HttpTypeOK, Response, stdout_limit
<1>5. ~overflow => bytes + stdout = said
  BY DEF HttpInv, Kept
<1>6. ~overflow => bytes' + stdout' = said'
  BY <1>1, <1>2, <1>5
<1>7. Kept'
  BY <1>1, <1>6 DEF HttpInv, Kept, stdout_limit
<1>8. Drained'
  BY <1>1 DEF HttpInv, Drained, Backend
<1>9. child # "success"
  BY <1>1, <1>2 DEF HttpInv, CallerKnows
<1>10. CallerKnows' /\ ResponseIsWhole'
  BY <1>1, <1>9 DEF HttpInv, CallerKnows, ResponseIsWhole, Backend, Response
<1> QED BY <1>4, <1>7, <1>8, <1>10 DEF HttpInv

(* Processes only end, and the child says success when it has said all.    *)
LEMMA EndsKept ==
    ASSUME HttpInv, PackEnds \/ ChildExits
    PROVE  HttpInv'
<1>1. UNCHANGED <<step, result, answer, request, stdin, writer, body, said, stdout,
                  stdout_reader, bytes, overflow, complaint, stderr, stderr_reader, errors>>
  BY DEF PackEnds, ChildExits, caller, input, output, chatter
<1>2. /\ pack' \in BOOLEAN /\ child' \in {"none", "running", "success", "failure", "killed"}
      /\ pack' => pack
  <2>1. CASE PackEnds
    BY <2>1 DEF HttpInv, HttpTypeOK, PackEnds
  <2>2. CASE ChildExits
    BY <2>2 DEF HttpInv, HttpTypeOK, ChildExits
  <2> QED BY <2>1, <2>2
<1>3. /\ child' = "running" => child = "running"
      /\ child' = "success" => said = Response
      /\ child = "success" => child' = "success"
      /\ step = "validate" => child' = "none"
  BY DEF HttpInv, CallerKnows, PackEnds, ChildExits
<1>4. HttpTypeOK'
  BY <1>1, <1>2 DEF HttpInv, HttpTypeOK, Response, stdout_limit
<1>5. Backend' => Backend
  BY <1>2, <1>3 DEF Backend
<1>6. Kept' /\ Drained' /\ ResponseIsWhole'
  BY <1>1, <1>5 DEF HttpInv, Kept, Drained, ResponseIsWhole, Response, stdout_limit
<1>7. CallerKnows'
  BY <1>1, <1>2, <1>3, <1>5 DEF HttpInv, CallerKnows, Response
<1> QED BY <1>4, <1>6, <1>7 DEF HttpInv

(* The loop: what it leaves has ended or is killed.                        *)
LEMMA PollKept ==
    ASSUME HttpInv, Spawn \/ Refuse \/ PollOverflow \/ PollExited \/ PollTimeout \/ Join
    PROVE  HttpInv'
<1>1. UNCHANGED <<request, stdin, writer, body, said, stdout, stdout_reader, bytes, overflow,
                  complaint, stderr, stderr_reader, errors>>
  BY DEF Spawn, Refuse, PollOverflow, PollExited, PollTimeout, Join, input, output, chatter
<1>2. /\ step' \in {"validate", "poll", "join", "parse", "returned"}
      /\ result' \in Results /\ answer' \in Answers
      /\ child' \in {"none", "running", "success", "failure", "killed"}
  BY DEF HttpInv, HttpTypeOK, Spawn, Refuse, PollOverflow, PollExited, PollTimeout, Join, Stop,
     processes, Results, Answers
<1>3. pack' \in BOOLEAN
  BY DEF HttpInv, HttpTypeOK, Spawn, Refuse, PollOverflow, PollExited, PollTimeout, Join,
     processes
<1>4. HttpTypeOK'
  BY <1>1, <1>2, <1>3 DEF HttpInv, HttpTypeOK, Response, stdout_limit
<1>5. Kept'
  BY <1>1 DEF HttpInv, Kept, stdout_limit
<1>6. answer # "ok" /\ answer' # "ok" /\ ResponseIsWhole'
  BY DEF HttpInv, CallerKnows, Spawn, Refuse, PollOverflow, PollExited, PollTimeout, Join, Stop,
     ResponseIsWhole
<1>7. CASE Spawn
  <2>1. step = "validate" /\ step' = "poll" /\ child' = "running" /\ result' = result
    BY <1>7 DEF Spawn
  <2>2. stdout_reader # "done"
    BY <2>1 DEF HttpInv, Drained
  <2> QED BY <1>1, <1>4, <1>5, <1>6, <2>1, <2>2 DEF HttpInv, Drained, CallerKnows
<1>8. CASE ~Spawn
  <2>1. /\ pack' = pack /\ (child' = "running" => child = "running")
        /\ child' = "success" <=> child = "success"
        /\ step' # "validate"
    BY <1>8 DEF Refuse, PollOverflow, PollExited, PollTimeout, Join, Stop, processes
  <2>2. Backend' => Backend
    BY <2>1 DEF Backend
  <2>3. Drained'
    BY <1>1, <2>1, <2>2 DEF HttpInv, Drained
  <2>4. step' \in {"join", "parse"} => result' # "running"
    BY <1>8 DEF HttpInv, CallerKnows, Refuse, PollOverflow, PollExited, PollTimeout, Join, Stop
  <2>5. result' = "success" => child' = "success"
    BY <1>8, <2>1 DEF HttpInv, CallerKnows, Refuse, PollOverflow, PollExited, PollTimeout, Join,
       Stop
  <2>6. step' = "parse" => stdout_reader = "done"
    BY <1>8 DEF Refuse, PollOverflow, PollExited, PollTimeout, Join, Stop
  <2>7. step' = "returned" => ~Backend'
    BY <1>8 DEF HttpInv, CallerKnows, Refuse, PollOverflow, PollExited, PollTimeout, Join, Stop,
       Backend, processes
  <2>8. step' # "poll"
    BY <1>8 DEF Refuse, PollOverflow, PollExited, PollTimeout, Join, Stop
  <2>9. child' = "success" => said' = Response'
    BY <1>1, <2>1 DEF HttpInv, CallerKnows, Response
  <2>10. CallerKnows'
    BY <1>1, <1>6, <2>1, <2>4, <2>5, <2>6, <2>7, <2>8, <2>9 DEF CallerKnows
  <2> QED BY <1>4, <1>5, <1>6, <2>3, <2>10 DEF HttpInv
<1> QED BY <1>7, <1>8

(* parse_cgi_response accepts no response that was cut: what is kept of    *)
(* one is more than a header and a permitted body.                         *)
LEMMA AnswerKept ==
    ASSUME HttpInv, Answer
    PROVE  HttpInv'
<1>1. /\ UNCHANGED <<result, child, pack, request, stdin, writer, body, said, stdout,
                     stdout_reader, bytes, overflow, complaint, stderr, stderr_reader, errors>>
      /\ step = "parse" /\ step' = "returned"
  BY DEF Answer, processes, input, output, chatter
<1>2. stdout_reader = "done" /\ stdout = 0 /\ ~Backend /\ result # "running"
  BY <1>1 DEF HttpInv, CallerKnows, Drained
<1>3. answer' \in Answers
  BY DEF Answer, Answers, parse_cgi_response, HttpInv, HttpTypeOK, Results
<1>4. ASSUME answer' = "ok" PROVE bytes = Response
  <2>1. result = "success" /\ parse_cgi_response = "ok"
    BY <1>2, <1>4 DEF Answer, HttpInv, HttpTypeOK, Results
  <2>2. said = Response
    BY <2>1 DEF HttpInv, CallerKnows
  <2>3. bytes \in Nat /\ stdout_limit = MaxResponseBytes + MaxHeaderBytes
        /\ {Chunk, Header, MaxResponseBytes, MaxHeaderBytes} \subseteq Nat
    BY SmartHttpAssumption DEF HttpInv, HttpTypeOK, stdout_limit
  <2>4. ~(bytes < Header) /\ ~(bytes - Header > MaxResponseBytes)
    BY <2>1 DEF parse_cgi_response
  <2>5. ~(bytes + Chunk > stdout_limit)
    BY <2>3, <2>4, RoomForHeader
  <2>6. bytes + stdout = said
    BY <2>5 DEF HttpInv, Kept
  <2> QED BY <1>2, <2>2, <2>3, <2>6
<1>5. HttpTypeOK'
  BY <1>1, <1>3 DEF HttpInv, HttpTypeOK, Response, stdout_limit
<1>6. Kept'
  BY <1>1 DEF HttpInv, Kept, stdout_limit
<1>7. Drained'
  BY <1>1, <1>2 DEF Drained, Backend
<1>8. CallerKnows'
  BY <1>1, <1>2 DEF HttpInv, CallerKnows, Backend, Response
<1>9. ResponseIsWhole'
  BY <1>1, <1>4 DEF ResponseIsWhole, Response
<1> QED BY <1>5, <1>6, <1>7, <1>8, <1>9 DEF HttpInv

(* Every step of the caller, its threads and the backend keeps HttpInv.   *)
LEMMA HttpStep == HttpInv /\ [HttpNext]_httpVars => HttpInv'
<1> SUFFICES ASSUME HttpInv, [HttpNext]_httpVars PROVE HttpInv'
  OBVIOUS
<1>1. CASE UNCHANGED httpVars
  <2>1. UNCHANGED <<step, result, answer, child, pack, request, stdin, writer, body, said,
                    stdout, stdout_reader, bytes, overflow, complaint, stderr, stderr_reader,
                    errors>>
    BY <1>1 DEF httpVars, caller, processes, input, output, chatter
  <2>2. HttpTypeOK'
    BY <2>1 DEF HttpInv, HttpTypeOK, Response, stdout_limit
  <2>3. Kept' /\ Drained' /\ CallerKnows' /\ ResponseIsWhole'
    BY <2>1 DEF HttpInv, Kept, Drained, CallerKnows, ResponseIsWhole, Backend, Response,
       stdout_limit
  <2> QED BY <2>2, <2>3 DEF HttpInv
<1>2. CASE HttpNext
  BY <1>2, ReadKept, ElsewhereKept, SayKept, EndsKept, PollKept, AnswerKept
  DEF HttpNext, CallerStep, BackendStep
<1> QED BY <1>1, <1>2

(* HttpTypeOK: the buffers of the request stay within their limits.        *)
THEOREM HttpTypeCorrect == HttpSpec => []HttpTypeOK
<1>1. HttpInv => HttpTypeOK
  BY DEF HttpInv
<1> QED BY <1>1, HttpStart, HttpStep, PTL DEF HttpSpec

(* ReturnsCleanly: execute returns all of a response or an error, although *)
(* the overflow flag may be set after it was looked at, and nothing of the *)
(* backend runs on, for any sizes of pipes, chunks and bodies.             *)
THEOREM NothingLeftBehind == HttpSpec => []ReturnsCleanly
<1>1. HttpInv => ReturnsCleanly
  BY DEF HttpInv, CallerKnows, ReturnsCleanly, NothingLeftRunning
<1> QED BY <1>1, HttpStart, HttpStep, PTL DEF HttpSpec
=============================================================================
