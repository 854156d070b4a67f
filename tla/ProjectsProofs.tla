---------------------------- MODULE ProjectsProofs ----------------------------
(***************************************************************************)
(* Proofs about Projects for any number of projects, workspaces, members,  *)
(* revisions and threads.                                                  *)
(*                                                                         *)
(* The database and the store agree because a creation works alone, on an  *)
(* identifier that nobody else can have (Alone, Creation), and because all *)
(* others came to their project through its row, which stays (Visit): what *)
(* they have looked up, a branch, a revision or a role, can only be added  *)
(* to until they use it.                                                   *)
(***************************************************************************)
EXTENDS Projects, FiniteSetTheorems, TLAPS

(* A request that creates a project, in the state of the two stores. *)
Creation(q) == q.op = "create" =>
    /\ q.at \in {"create", "commit", "insert", "cleanup"}
    /\ q.id \in Ids /\ q.workspace \in Workspaces
    /\ ~Listed(q.id)
    /\ q.at = "create" => store[q.id] = "absent"
    /\ q.at \in {"commit", "insert"} => store[q.id] = "ready"
    /\ q.at = "insert" => q.source \in heads[q.id] /\ q.revision \in revisions[q.id]

(* A request for a project that is there. *)
Visit(q) ==
    /\ q.at = "branches" => q.op \in {"update", "propose"}
    /\ q.op \in {"update", "propose", "record", "git"} =>
          q.id \in Ids /\ Listed(q.id)
    /\ q.op = "update" /\ q.at = "update" => q.source \in heads[q.id]
    /\ q.op = "propose" /\ q.at = "insert" => {q.source, q.target} \subseteq heads[q.id]
    /\ q.op = "record" =>
          /\ q.kind \in Kinds /\ q.user \in Members
          /\ HasRole(q.user, project[q.id].workspace, Required(q.kind))
          /\ q.at = "record" /\ q.revision # Absent => q.revision \in revisions[q.id]
    /\ q.op = "git" =>
          q.user \in Members /\ HasRole(q.user, project[q.id].workspace, reader)
    /\ q.op = "rename" => q.slug \in WorkspaceSlugs /\ q.workspace \in Workspaces

Underway == \A t \in Threads : Creation(handler[t]) /\ Visit(handler[t])

Alone ==
    \A t, u \in Threads :
        handler[t].op = "create" /\ handler[u].id = handler[t].id => t = u

ProposalsKept ==
    \A i \in Ids : proposals[i] # {} => Listed(i)

ServedListed == \A g \in served : Listed(g.id)

PInv ==
    /\ ProjectsTypeOK
    /\ Underway
    /\ Alone
    /\ RepositoriesAccounted
    /\ RecordsHold
    /\ ProposalsKept
    /\ \A i \in Ids : IsFiniteSet(proposals[i])
    /\ ProposalsInOrder
    /\ ServedListed
    /\ GitServesWhatWasAuthorised
-----------------------------------------------------------------------------
(* What a step leaves of a project: it stays listed, or unlisted, in its   *)
(* workspace, and its repository loses no branch and no revision.          *)
Kept(i) ==
    /\ Listed(i)' <=> Listed(i)
    /\ project'[i].workspace = project[i].workspace
    /\ store'[i] = store[i]
    /\ heads[i] \subseteq heads'[i]
    /\ revisions[i] \subseteq revisions'[i]

(* A thread goes from one request, or none, to another. *)
Turn(t, q) ==
    /\ q \in Request
    /\ handler' = [handler EXCEPT ![t] = q]

(* NoRequest is a request like the others. *)
LEMMA NoRequestType == NoRequest \in Request
BY DEF NoRequest, Request, Maybe, Operations, Places

(* A request is still in order after a step that kept its project. *)
LEMMA RequestKept ==
    ASSUME NEW q \in Request, Creation(q), Visit(q),
           \A i \in Ids : i = q.id => Kept(i)
    PROVE  Creation(q)' /\ Visit(q)'
<1>1. Creation(q)'
  BY DEF Creation, Kept, Listed
<1>2. Visit(q)'
  BY DEF Visit, Kept, Listed, HasRole
<1> QED BY <1>1, <1>2

(* A turn of one thread leaves the requests of the others in order, when   *)
(* the projects it changes are not theirs.                                 *)
LEMMA UnderwayKept ==
    ASSUME PInv, NEW t \in Threads, NEW q, Turn(t, q), Creation(q)', Visit(q)',
           \A i \in Ids : Kept(i) \/ \A u \in Threads \ {t} : handler[u].id # i
    PROVE  Underway'
<1> SUFFICES ASSUME NEW u \in Threads
             PROVE  Creation(handler[u])' /\ Visit(handler[u])'
  BY DEF Underway
<1>1. handler \in [Threads -> Request]
  BY DEF PInv, ProjectsTypeOK
<1>2. CASE u = t
  <2>1. handler'[u] = q
    BY <1>1, <1>2 DEF Turn
  <2> QED BY <2>1 DEF Creation, Visit, Listed
<1>3. CASE u # t
  <2>1. handler'[u] = handler[u] /\ handler[u] \in Request
    BY <1>1, <1>3 DEF Turn
  <2>2. Creation(handler[u]) /\ Visit(handler[u])
    BY DEF PInv, Underway
  <2>3. \A i \in Ids : i = handler[u].id => Kept(i)
    BY <1>3
  <2>4. PICK r \in Request : r = handler[u]
    BY <2>1
  <2>5. Creation(r) /\ Visit(r)
    BY <2>2, <2>4
  <2>6. Creation(r)' /\ Visit(r)'
    BY <2>3, <2>4, <2>5, RequestKept
  <2>7. handler'[u] = r
    BY <2>1, <2>4
  <2> QED BY <2>6, <2>7 DEF Creation, Visit, Listed
<1> QED BY <1>2, <1>3

(* A creation stays alone when no thread takes its identifier. *)
LEMMA AloneKept ==
    ASSUME PInv, NEW t \in Threads, NEW q, Turn(t, q),
           q.op = "create" => \A u \in Threads \ {t} : handler[u].id # q.id,
           \A u \in Threads \ {t} : handler[u].op = "create" => handler[u].id # q.id
    PROVE  Alone'
<1>1. handler \in [Threads -> Request] /\ Alone
  BY DEF PInv, ProjectsTypeOK
<1>2. handler'[t] = q /\ \A u \in Threads \ {t} : handler'[u] = handler[u]
  BY <1>1 DEF Turn
<1> QED BY <1>1, <1>2 DEF Alone

(* Proposals, records and responses stand while the listed projects do. *)
LEMMA ProposalsStand ==
    ASSUME PInv, UNCHANGED proposals, \A i \in Ids : Listed(i) => Kept(i)
    PROVE  /\ ProposalsKept' /\ ProposalsInOrder'
           /\ (\A i \in Ids : IsFiniteSet(proposals[i]))'
<1>1. ProposalsKept'
  BY DEF PInv, ProposalsKept, Kept, Listed
<1>2. ASSUME NEW i \in Ids
      PROVE  /\ Numbers(i)' = 1..Cardinality(proposals'[i])
             /\ \A p \in proposals'[i] : {p.source, p.target} \subseteq heads'[i]
  <2>1. Numbers(i)' = Numbers(i) /\ proposals'[i] = proposals[i]
    BY DEF Numbers
  <2>2. Numbers(i) = 1..Cardinality(proposals[i])
    BY DEF PInv, ProposalsInOrder
  <2>3. ASSUME NEW p \in proposals[i] PROVE {p.source, p.target} \subseteq heads'[i]
    BY DEF PInv, ProposalsInOrder, ProposalsKept, Kept
  <2> QED BY <2>1, <2>2, <2>3
<1>3. ProposalsInOrder'
  BY <1>2 DEF ProposalsInOrder
<1>4. (\A i \in Ids : IsFiniteSet(proposals[i]))'
  BY DEF PInv
<1> QED BY <1>1, <1>3, <1>4

(* A record needs its project, its revision and the workspace.             *)
LEMMA RecordsStand ==
    ASSUME PInv, UNCHANGED records, \A i \in Ids : Listed(i) => Kept(i)
    PROVE  RecordsHold'
BY DEF PInv, RecordsHold, Kept, Listed, HasRole

(* A response needs its project, and the workspace.                        *)
LEMMA ServedStand ==
    ASSUME PInv, UNCHANGED served, \A i \in Ids : Listed(i) => Kept(i)
    PROVE  ServedListed' /\ GitServesWhatWasAuthorised'
<1>1. \A g \in served : g.id \in Ids /\ Kept(g.id)
  BY DEF PInv, ServedListed, ProjectsTypeOK
<1> QED BY <1>1 DEF PInv, ServedListed, GitServesWhatWasAuthorised, Kept, Listed, HasRole

(* The repositories stay accounted for in a turn that changes no project   *)
(* and no directory, unless it ends a creation.                            *)
LEMMA AccountedKept ==
    ASSUME PInv, NEW t \in Threads, NEW q, Turn(t, q),
           UNCHANGED <<project, disk, strays>>,
           handler[t].op = "create" => q.op = "create" /\ q.id = handler[t].id
    PROVE  RepositoriesAccounted'
<1>1. handler \in [Threads -> Request]
  BY DEF PInv, ProjectsTypeOK
<1>2. handler'[t] = q /\ \A u \in Threads \ {t} : handler'[u] = handler[u]
  BY <1>1 DEF Turn
<1>3. ListedHasRepository'
  BY DEF PInv, RepositoriesAccounted, ListedHasRepository, Listed, disk
<1>4. NoStrayRepository'
  <2>1. NoStrayRepository
    BY DEF PInv, RepositoriesAccounted
  <2> QED BY <1>2, <2>1 DEF NoStrayRepository, Listed, disk
<1> QED BY <1>3, <1>4 DEF RepositoriesAccounted

(* A turn that changes neither the database nor the store. *)
LEMMA TurnKept ==
    ASSUME PInv, NEW t \in Threads, NEW q, Turn(t, q), Creation(q)', Visit(q)',
           UNCHANGED <<database, disk, strays, served>>,
           requests' \in 0..MaxRequests,
           q.op = "create" => \A u \in Threads \ {t} : handler[u].id # q.id,
           \A u \in Threads \ {t} : handler[u].op = "create" => handler[u].id # q.id,
           handler[t].op = "create" => q.op = "create" /\ q.id = handler[t].id
    PROVE  PInv'
<1>1. \A i \in Ids : Kept(i)
  BY DEF Kept, Listed, database, disk
<1>2. ProjectsTypeOK'
  BY DEF PInv, ProjectsTypeOK, database, disk, Turn
<1>3. Underway'
  BY <1>1, UnderwayKept
<1>4. Alone'
  BY AloneKept
<1>5. RepositoriesAccounted'
  BY AccountedKept DEF database
<1>6. RecordsHold'
  BY <1>1, RecordsStand DEF database
<1>7. ProposalsKept' /\ ProposalsInOrder' /\ (\A i \in Ids : IsFiniteSet(proposals[i]))'
  BY <1>1, ProposalsStand DEF database
<1>8. ServedListed' /\ GitServesWhatWasAuthorised'
  BY <1>1, ServedStand
<1> QED BY <1>2, <1>3, <1>4, <1>5, <1>6, <1>7, <1>8 DEF PInv
-----------------------------------------------------------------------------
(* A request that is received is idle no more: it names a new identifier,  *)
(* or a project that it has found listed, or none.                         *)
LEMMA ReceiveKept ==
    ASSUME PInv, NEW t \in Threads, NEW q \in Request, Receive(t, q),
           UNCHANGED <<database, disk, strays, served>>,
           Creation(q), Visit(q),
           \/ q.op = "create" /\ Fresh(q.id)
           \/ q.op # "create" /\ (q.id = Absent \/ Listed(q.id))
    PROVE  PInv'
<1>1. Turn(t, q)
  BY DEF Turn, Receive
<1>2. Creation(q)' /\ Visit(q)'
  BY RequestKept DEF Kept, Listed, database, disk
<1>3. requests' \in 0..MaxRequests
  BY ProjectsAssumption DEF Receive, PInv, ProjectsTypeOK
<1>4. handler[t].op # "create"
  BY DEF Receive, NoRequest
<1>5. q.op = "create" => \A u \in Threads \ {t} : handler[u].id # q.id
  BY DEF Fresh, Used
<1>6. \A u \in Threads \ {t} : handler[u].op = "create" => handler[u].id # q.id
  <2>1. \A u \in Threads : handler[u].op = "create" =>
            handler[u].id \in Ids /\ ~Listed(handler[u].id)
    BY DEF PInv, Underway, Creation
  <2> QED BY <1>5, <2>1, ProjectsAssumption
<1> QED BY <1>1, <1>2, <1>3, <1>4, <1>5, <1>6, TurnKept

(* create_project takes an identifier that nothing has used.               *)
LEMMA CreateReceived ==
    ASSUME PInv, NEW t \in Threads, NEW m \in Members, NEW w \in Workspaces,
           NEW i \in Ids, create_project(t, m, w, i)
    PROVE  PInv'
<1> DEFINE q == [NoRequest EXCEPT !.user = m, !.op = "create", !.at = "create",
                                  !.id = i, !.workspace = w]
<1>1. q \in Request
  BY DEF Request, NoRequest, Maybe, Operations, Places
<1>2. q.op = "create" /\ q.at = "create" /\ q.id = i /\ q.workspace = w
  BY DEF NoRequest
<1>3. Fresh(i) /\ Receive(t, q) /\ UNCHANGED <<database, disk, strays, served>>
  BY DEF create_project
<1>4. ~Listed(i) /\ store[i] = "absent"
  BY <1>3 DEF Fresh, Used
<1> HIDE DEF q
<1>5. Creation(q) /\ Visit(q)
  BY <1>2, <1>4 DEF Creation, Visit
<1> QED BY <1>1, <1>2, <1>3, <1>5, ReceiveKept

(* update_workspace looks at no project.                                   *)
LEMMA RenameReceived ==
    ASSUME PInv, NEW t \in Threads, NEW m \in Members, NEW w \in Workspaces,
           NEW a \in WorkspaceSlugs, update_workspace(t, m, w, a)
    PROVE  PInv'
<1> DEFINE q == [NoRequest EXCEPT !.user = m, !.op = "rename", !.at = "rename",
                                  !.workspace = w, !.slug = a]
<1>1. q \in Request
  BY DEF Request, NoRequest, Maybe, Operations, Places
<1>2. q.op = "rename" /\ q.at = "rename" /\ q.id = Absent /\ q.workspace = w /\ q.slug = a
  BY DEF NoRequest
<1>3. Receive(t, q) /\ UNCHANGED <<database, disk, strays, served>>
  BY DEF update_workspace
<1> HIDE DEF q
<1>4. Creation(q) /\ Visit(q)
  BY <1>2 DEF Creation, Visit
<1> QED BY <1>1, <1>2, <1>3, <1>4, ReceiveKept

(* update_project and create_pr have found the project's row.              *)
LEMMA BranchesReceived ==
    ASSUME PInv, NEW t \in Threads, NEW m \in Members, NEW i \in Ids,
           (\E w \in Workspaces : update_project(t, m, i, w)) \/ create_pr(t, m, i)
    PROVE  PInv'
<1>1. ASSUME NEW o \in {"update", "propose"}, Listed(i),
             Receive(t, [NoRequest EXCEPT !.user = m, !.op = o, !.at = "branches", !.id = i]),
             UNCHANGED <<database, disk, strays, served>>
      PROVE  PInv'
  <2> DEFINE q == [NoRequest EXCEPT !.user = m, !.op = o, !.at = "branches", !.id = i]
  <2>1. q \in Request
    BY DEF Request, NoRequest, Maybe, Operations, Places
  <2>2. q.op = o /\ q.at = "branches" /\ q.id = i
    BY DEF NoRequest
  <2>3. Receive(t, q)
    BY <1>1
  <2> HIDE DEF q
  <2>4. Creation(q) /\ Visit(q)
    BY <1>1, <2>2 DEF Creation, Visit
  <2> QED BY <1>1, <2>1, <2>2, <2>3, <2>4, ReceiveKept
<1>2. CASE \E w \in Workspaces : update_project(t, m, i, w)
  BY <1>1, <1>2 DEF update_project, project_auth
<1>3. CASE create_pr(t, m, i)
  BY <1>1, <1>3 DEF create_pr, project_auth
<1> QED BY <1>2, <1>3

(* create_run, create_deployment, create_schedule, create_secret_metadata: *)
(* the project's row, the role, and a revision that is not verified yet.   *)
LEMMA RecordReceived ==
    ASSUME PInv, NEW t \in Threads, NEW m \in Members, NEW i \in Ids,
           \/ create_run(t, m, i) \/ create_deployment(t, m, i)
           \/ create_schedule(t, m, i) \/ create_secret_metadata(t, m, i)
    PROVE  PInv'
<1>1. ASSUME NEW kind \in Kinds, NEW at \in {"revision", "record"},
             NEW c \in Maybe(Revisions), at = "record" => c = Absent,
             Records(t, m, i, kind, at, c)
      PROVE  PInv'
  <2> DEFINE q == [NoRequest EXCEPT !.user = m, !.op = "record", !.at = at, !.id = i,
                                    !.kind = kind, !.revision = c]
  <2>1. q \in Request
    BY DEF Request, NoRequest, Maybe, Operations, Places
  <2>2. /\ q.op = "record" /\ q.at = at /\ q.id = i
        /\ q.user = m /\ q.kind = kind /\ q.revision = c
    BY DEF NoRequest
  <2>3. /\ Receive(t, q) /\ Listed(i)
        /\ HasRole(m, project[i].workspace, Required(kind))
        /\ UNCHANGED <<database, disk, strays, served>>
    BY <1>1 DEF Records, project_auth
  <2> HIDE DEF q
  <2>4. Creation(q)
    BY <2>2 DEF Creation
  <2>5. Visit(q)
    BY <1>1, <2>2, <2>3 DEF Visit
  <2> QED BY <2>1, <2>2, <2>3, <2>4, <2>5, ReceiveKept
<1>2. \A c \in Revisions : c \in Maybe(Revisions)
  BY DEF Maybe
<1>3. CASE create_run(t, m, i)
  <2>1. Listed(i) => project_head(i) \in Revisions
    BY DEF PInv, ProjectsTypeOK, Listed, Maybe, ProjectRow, project_head
  <2> QED BY <1>1, <1>2, <1>3, <2>1 DEF create_run, Kinds
<1>4. CASE create_deployment(t, m, i)
  BY <1>1, <1>2, <1>4 DEF create_deployment, Kinds
<1>5. CASE create_schedule(t, m, i) \/ create_secret_metadata(t, m, i)
  BY <1>1, <1>5 DEF create_schedule, create_secret_metadata, Kinds, Maybe
<1> QED BY <1>3, <1>4, <1>5

(* authorize_git_project: the row at that address, and the role.           *)
LEMMA GitReceived ==
    ASSUME PInv, NEW t \in Threads, NEW m \in Members, NEW a \in WorkspaceSlugs,
           NEW s \in ProjectSlugs, NEW i \in Ids, authorize_git_project(t, m, a, s, i)
    PROVE  PInv'
<1> DEFINE q == [NoRequest EXCEPT !.user = m, !.op = "git", !.at = "open", !.id = i,
                                  !.slug = s, !.workspace = project[i].workspace]
<1>1. /\ Receive(t, q) /\ Listed(i)
      /\ HasRole(m, project[i].workspace, reader)
      /\ UNCHANGED <<database, disk, strays, served>>
  BY DEF authorize_git_project
<1>2. project[i].workspace \in Workspaces
  BY <1>1 DEF PInv, ProjectsTypeOK, Listed, Maybe, ProjectRow
<1>3. q \in Request
  BY <1>2 DEF Request, NoRequest, Maybe, Operations, Places
<1>4. q.op = "git" /\ q.at = "open" /\ q.id = i /\ q.user = m
  BY DEF NoRequest
<1>5. PICK r \in Request : r = q
  BY <1>3
<1> HIDE DEF q
<1>6. Creation(r) /\ Visit(r)
  BY <1>1, <1>4, <1>5 DEF Creation, Visit
<1> QED BY <1>1, <1>4, <1>5, <1>6, ReceiveKept
-----------------------------------------------------------------------------
(* A thread at rest has no project.                                        *)
LEMMA AtRest ==
    ASSUME PInv, NEW t \in Threads, Respond(t)
    PROVE  /\ Turn(t, NoRequest) /\ Creation(NoRequest)' /\ Visit(NoRequest)'
           /\ NoRequest.op # "create"
           /\ \A u \in Threads : handler[u].op = "create" => handler[u].id # NoRequest.id
<1>1. NoRequest.op = "none" /\ NoRequest.at = "idle" /\ NoRequest.id = Absent
  BY DEF NoRequest
<1>2. Turn(t, NoRequest)
  BY NoRequestType DEF Turn, Respond
<1>3. Creation(NoRequest)' /\ Visit(NoRequest)'
  BY <1>1 DEF Creation, Visit
<1>4. \A u \in Threads : handler[u].op = "create" => handler[u].id \in Ids
  BY DEF PInv, Underway, Creation
<1> QED BY <1>1, <1>2, <1>3, <1>4, ProjectsAssumption

(* What a thread at work on a request of its own keeps of it: the project. *)
LEMMA AtWork ==
    ASSUME PInv, NEW t \in Threads, NEW q \in Request,
           handler' = [handler EXCEPT ![t] = q],
           q.op = handler[t].op, q.id = handler[t].id
    PROVE  /\ Turn(t, q)
           /\ q.op = "create" => \A u \in Threads \ {t} : handler[u].id # q.id
           /\ \A u \in Threads \ {t} : handler[u].op = "create" => handler[u].id # q.id
BY DEF PInv, Alone, Turn

(* Every handler may answer with an error at any place but in a creation.  *)
LEMMA RespondKept ==
    ASSUME PInv, NEW t \in Threads, Respond(t), handler[t].op # "create",
           UNCHANGED <<database, disk, requests, strays, served>>
    PROVE  PInv'
<1>1. requests' \in 0..MaxRequests
  BY DEF PInv, ProjectsTypeOK
<1> QED BY <1>1, AtRest, TurnKept

(* list_branches: the branches are there, and stay.                        *)
LEMMA BranchesKept ==
    ASSUME PInv, NEW t \in Threads, NEW b \in Heads, NEW c \in Heads, list_branches(t, b, c)
    PROVE  PInv'
<1>1. handler \in [Threads -> Request] /\ requests' \in 0..MaxRequests
  BY DEF PInv, ProjectsTypeOK, list_branches
<1>2. /\ handler[t].at = "branches" /\ handler[t].op \in {"update", "propose"}
      /\ handler[t].id \in Ids /\ Listed(handler[t].id)
  BY DEF list_branches, PInv, Underway, Visit
<1>3. CASE Respond(t)
  BY <1>2, <1>3, RespondKept DEF list_branches
<1>4. CASE ~Respond(t)
  <2> DEFINE at == IF handler[t].op = "update" THEN "update" ELSE "insert"
             target == IF handler[t].op = "update" THEN Absent ELSE c
             q == [handler[t] EXCEPT !.at = at, !.source = b, !.target = target]
  <2>1. {b, c} \subseteq heads[handler[t].id] /\ UNCHANGED <<database, disk, strays, served>>
    BY <1>4 DEF list_branches
  <2>2. handler' = [handler EXCEPT ![t] = q]
    BY <1>1, <1>4 DEF list_branches
  <2>3. q \in Request
    BY <1>1 DEF Request, Places, Maybe
  <2>4. /\ q.op = handler[t].op /\ q.id = handler[t].id
        /\ q.at = at /\ q.source = b /\ q.target = target
    BY <1>1 DEF Request
  <2>5. PICK r \in Request : r = q
    BY <2>3
  <2> HIDE DEF q
  <2>6. Creation(r) /\ Visit(r)
    BY <1>2, <2>1, <2>4, <2>5 DEF Creation, Visit
  <2>7. Creation(r)' /\ Visit(r)'
    BY <2>1, <2>6, RequestKept DEF Kept, Listed, database, disk
  <2>8. /\ Turn(t, r)
        /\ r.op # "create" /\ handler[t].op # "create"
        /\ \A u \in Threads \ {t} : handler[u].op = "create" => handler[u].id # r.id
    BY <1>2, <2>2, <2>4, <2>5, AtWork
  <2> QED BY <1>1, <2>1, <2>7, <2>8, TurnKept
<1> QED BY <1>3, <1>4

(* validate_revision_exists: the revision is there, and stays.             *)
LEMMA RevisionKept ==
    ASSUME PInv, NEW t \in Threads, validate_revision_exists(t)
    PROVE  PInv'
<1>1. handler \in [Threads -> Request] /\ requests' \in 0..MaxRequests
  BY DEF PInv, ProjectsTypeOK, validate_revision_exists
<1>2. handler[t].op = "record" /\ Visit(handler[t])
  BY DEF validate_revision_exists, At, PInv, Underway
<1>3. CASE Respond(t)
  BY <1>2, <1>3, RespondKept DEF validate_revision_exists
<1>4. CASE ~Respond(t)
  <2> DEFINE q == [handler[t] EXCEPT !.at = "record"]
  <2>1. /\ handler[t].revision \in revisions[handler[t].id]
        /\ UNCHANGED <<database, disk, strays, served>>
    BY <1>4 DEF validate_revision_exists
  <2>2. handler' = [handler EXCEPT ![t] = q]
    BY <1>1, <1>4 DEF validate_revision_exists, Proceed
  <2>3. q \in Request
    BY <1>1 DEF Request, Places
  <2>4. /\ q.op = "record" /\ q.id = handler[t].id /\ q.at = "record"
        /\ q.kind = handler[t].kind /\ q.user = handler[t].user
        /\ q.revision = handler[t].revision
    BY <1>1, <1>2 DEF Request
  <2>5. PICK r \in Request : r = q
    BY <2>3
  <2> HIDE DEF q
  <2>6. Creation(r) /\ Visit(r)
    BY <1>2, <2>1, <2>4, <2>5 DEF Creation, Visit
  <2>7. Creation(r)' /\ Visit(r)'
    BY <2>1, <2>6, RequestKept DEF Kept, Listed, database, disk
  <2>8. /\ Turn(t, r)
        /\ r.op # "create" /\ handler[t].op # "create"
        /\ \A u \in Threads \ {t} : handler[u].op = "create" => handler[u].id # r.id
    BY <1>2, <2>2, <2>4, <2>5, AtWork
  <2> QED BY <1>1, <2>1, <2>7, <2>8, TurnKept
<1> QED BY <1>3, <1>4
-----------------------------------------------------------------------------
(* The part of the invariant that an answer leaves alone while it changes  *)
(* the database, or what is served, of projects that it keeps.             *)
LEMMA AnswerKept ==
    ASSUME PInv, NEW t \in Threads, Respond(t), \A i \in Ids : Kept(i)
    PROVE  Underway' /\ Alone'
<1>1. /\ Turn(t, NoRequest) /\ Creation(NoRequest)' /\ Visit(NoRequest)'
      /\ NoRequest.op # "create"
      /\ \A u \in Threads : handler[u].op = "create" => handler[u].id # NoRequest.id
  BY AtRest
<1>2. Underway'
  BY <1>1, UnderwayKept
<1>3. Alone'
  BY <1>1, AloneKept
<1> QED BY <1>2, <1>3

(* UPDATE of a workspace's slug, which is UNIQUE.                          *)
LEMMA RenameKept ==
    ASSUME PInv, NEW t \in Threads, RenameWorkspace(t)
    PROVE  PInv'
<1>1. /\ handler[t].op = "rename" /\ Respond(t)
      /\ UNCHANGED <<project, proposals, records, disk, requests, strays, served>>
  BY DEF RenameWorkspace, At
<1>2. handler[t].slug \in WorkspaceSlugs /\ handler[t].workspace \in Workspaces
  BY <1>1 DEF PInv, Underway, Visit
<1>3. \A i \in Ids : Kept(i)
  BY <1>1 DEF Kept, Listed, disk
<1>4. ProjectsTypeOK'
  <2>1. /\ workspace' \in [Workspaces -> WorkspaceSlugs]
        /\ \A v, w \in Workspaces : workspace'[v] = workspace'[w] => v = w
    BY <1>2 DEF RenameWorkspace, PInv, ProjectsTypeOK
  <2>2. handler' \in [Threads -> Request]
    BY <1>1, NoRequestType DEF Respond, PInv, ProjectsTypeOK
  <2> QED BY <1>1, <2>1, <2>2 DEF PInv, ProjectsTypeOK, disk
<1>5. Underway' /\ Alone'
  BY <1>1, <1>3, AnswerKept
<1>6. RepositoriesAccounted'
  BY <1>1, AtRest, AccountedKept
<1>7. RecordsHold' /\ ServedListed' /\ GitServesWhatWasAuthorised'
  BY <1>1, <1>3, RecordsStand, ServedStand
<1>8. ProposalsKept' /\ ProposalsInOrder' /\ (\A i \in Ids : IsFiniteSet(proposals[i]))'
  BY <1>1, <1>3, ProposalsStand
<1> QED BY <1>4, <1>5, <1>6, <1>7, <1>8 DEF PInv

(* UPDATE of a project's slug and default branch, which it has looked up.  *)
LEMMA UpdateKept ==
    ASSUME PInv, NEW t \in Threads, NEW s \in ProjectSlugs, UpdateProject(t, s)
    PROVE  PInv'
<1> DEFINE x == handler[t].id
<1>1. /\ handler[t].op = "update" /\ handler[t].at = "update" /\ Respond(t)
      /\ UNCHANGED <<workspace, proposals, records, disk, requests, strays, served>>
  BY DEF UpdateProject, At
<1>2. /\ x \in Ids /\ Listed(x) /\ handler[t].source \in heads[x]
      /\ handler[t].source \in Heads
  BY <1>1 DEF PInv, Underway, Visit, ProjectsTypeOK
<1>3. /\ project' \in [Ids -> Maybe(ProjectRow)]
      /\ \A i \in Ids \ {x} : project'[i] = project[i]
      /\ project[x] \in ProjectRow /\ project'[x] \in ProjectRow
      /\ project'[x].workspace = project[x].workspace
      /\ project'[x].head = project[x].head
      /\ project'[x].default \in {project[x].default, handler[t].source}
  <2>1. project[x] \in ProjectRow /\ project \in [Ids -> Maybe(ProjectRow)]
    BY <1>2 DEF PInv, ProjectsTypeOK, Listed, Maybe
  <2>2. CASE UNCHANGED project
    BY <2>1, <2>2
  <2>3. CASE project' = [project EXCEPT ![x].slug = s, ![x].default = handler[t].source]
    <3>1. [[project[x] EXCEPT !.slug = s] EXCEPT !.default = handler[t].source] \in ProjectRow
      BY <1>2, <2>1 DEF ProjectRow
    <3> QED BY <1>2, <2>1, <2>3, <3>1 DEF ProjectRow, Maybe
  <2> QED BY <2>2, <2>3 DEF UpdateProject
<1> HIDE DEF x
<1>4. \A i \in Ids : Listed(i)' <=> Listed(i)
  BY <1>2, <1>3, ProjectsAssumption DEF Listed
<1>5. \A i \in Ids : Kept(i)
  BY <1>1, <1>3, <1>4 DEF Kept, disk
<1>6. ProjectsTypeOK'
  <2>1. handler' \in [Threads -> Request]
    BY <1>1, NoRequestType DEF Respond, PInv, ProjectsTypeOK
  <2> QED BY <1>1, <1>3, <2>1 DEF PInv, ProjectsTypeOK, disk
<1>7. Underway' /\ Alone'
  BY <1>1, <1>5, AnswerKept
<1>8. RepositoriesAccounted'
  <2>1. ListedHasRepository'
    <3>1. ListedHasRepository
      BY DEF PInv, RepositoriesAccounted
    <3> QED BY <1>1, <1>2, <1>3, <1>4, <3>1 DEF ListedHasRepository, disk
  <2>2. NoStrayRepository'
    <3>1. NoStrayRepository
      BY DEF PInv, RepositoriesAccounted
    <3>2. \A u \in Threads : handler[u].op = "create" => handler'[u] = handler[u]
      BY <1>1 DEF Respond, PInv, ProjectsTypeOK
    <3> QED BY <1>1, <1>4, <3>1, <3>2 DEF NoStrayRepository, disk
  <2> QED BY <2>1, <2>2 DEF RepositoriesAccounted
<1>9. RecordsHold' /\ ServedListed' /\ GitServesWhatWasAuthorised'
  BY <1>1, <1>5, RecordsStand, ServedStand
<1>10. ProposalsKept' /\ ProposalsInOrder' /\ (\A i \in Ids : IsFiniteSet(proposals[i]))'
  BY <1>1, <1>5, ProposalsStand
<1> QED BY <1>6, <1>7, <1>8, <1>9, <1>10 DEF PInv

(* The row of a run, a deployment, a schedule or a secret.                 *)
LEMMA RecordKept ==
    ASSUME PInv, NEW t \in Threads, InsertRecord(t)
    PROVE  PInv'
<1> DEFINE x == handler[t].id
           r == [kind |-> handler[t].kind, revision |-> handler[t].revision,
                 author |-> handler[t].user]
<1>1. /\ handler[t].op = "record" /\ handler[t].at = "record" /\ Respond(t)
      /\ UNCHANGED <<workspace, project, proposals, disk, requests, strays, served>>
  BY DEF InsertRecord, At
<1>2. /\ x \in Ids /\ Listed(x) /\ r \in Record
      /\ r.revision # Absent => r.revision \in revisions[x]
      /\ HasRole(r.author, project[x].workspace, Required(r.kind))
  <2>1. handler[t] \in Request /\ Visit(handler[t])
    BY DEF PInv, ProjectsTypeOK, Underway
  <2> QED BY <1>1, <2>1 DEF Visit, Request, Record
<1>3. /\ records' \in [Ids -> SUBSET Record]
      /\ \A i \in Ids : records'[i] \subseteq records[i] \cup (IF i = x THEN {r} ELSE {})
  BY <1>2 DEF InsertRecord, PInv, ProjectsTypeOK
<1> HIDE DEF x, r
<1>4. \A i \in Ids : Kept(i)
  BY <1>1 DEF Kept, Listed, disk
<1>5. ProjectsTypeOK'
  <2>1. handler' \in [Threads -> Request]
    BY <1>1, NoRequestType DEF Respond, PInv, ProjectsTypeOK
  <2> QED BY <1>1, <1>3, <2>1 DEF PInv, ProjectsTypeOK, disk
<1>6. Underway' /\ Alone'
  BY <1>1, <1>4, AnswerKept
<1>7. RepositoriesAccounted'
  BY <1>1, AtRest, AccountedKept
<1>8. RecordsHold'
  <2> SUFFICES ASSUME NEW i \in Ids, NEW d \in records'[i]
               PROVE  /\ Listed(i)'
                      /\ d.revision # Absent => d.revision \in revisions'[i]
                      /\ HasRole(d.author, project'[i].workspace, Required(d.kind))
    BY DEF RecordsHold, HasRole
  <2>1. CASE d \in records[i]
    BY <1>1, <2>1 DEF PInv, RecordsHold, Listed, disk
  <2>2. CASE i = x /\ d = r
    BY <1>1, <1>2, <2>2 DEF Listed, disk
  <2> QED BY <1>3, <2>1, <2>2
<1>9. ServedListed' /\ GitServesWhatWasAuthorised'
  BY <1>1, <1>4, ServedStand
<1>10. ProposalsKept' /\ ProposalsInOrder' /\ (\A i \in Ids : IsFiniteSet(proposals[i]))'
  BY <1>1, <1>4, ProposalsStand
<1> QED BY <1>5, <1>6, <1>7, <1>8, <1>9, <1>10 DEF PInv

(* The repository that is opened is the one that was authorised.           *)
LEMMA ServeKept ==
    ASSUME PInv, NEW t \in Threads, Serve(t)
    PROVE  PInv'
<1> DEFINE g == [user |-> handler[t].user, id |-> handler[t].id, asked |-> handler[t].id]
<1>1. handler[t].op = "git" /\ Respond(t) /\ UNCHANGED <<database, disk, requests, strays>>
  BY DEF Serve, At
<1>2. /\ g.id \in Ids /\ Listed(g.id) /\ g.user \in Members /\ g.asked = g.id
      /\ HasRole(g.user, project[g.id].workspace, reader)
  BY <1>1 DEF PInv, Underway, Visit
<1>3. served' \subseteq served \cup {g} /\ g \in [user : Members, id : Ids, asked : Ids]
  BY <1>2 DEF Serve
<1> HIDE DEF g
<1>4. \A i \in Ids : Kept(i)
  BY <1>1 DEF Kept, Listed, database, disk
<1>5. ProjectsTypeOK'
  <2>1. handler' \in [Threads -> Request]
    BY <1>1, NoRequestType DEF Respond, PInv, ProjectsTypeOK
  <2> QED BY <1>1, <1>3, <2>1 DEF PInv, ProjectsTypeOK, database, disk
<1>6. Underway' /\ Alone'
  BY <1>1, <1>4, AnswerKept
<1>7. RepositoriesAccounted'
  BY <1>1, AtRest, AccountedKept DEF database
<1>8. RecordsHold'
  BY <1>1, <1>4, RecordsStand DEF database
<1>9. ServedListed' /\ GitServesWhatWasAuthorised'
  BY <1>1, <1>2, <1>3
  DEF PInv, ServedListed, GitServesWhatWasAuthorised, Listed, HasRole, database
<1>10. ProposalsKept' /\ ProposalsInOrder' /\ (\A i \in Ids : IsFiniteSet(proposals[i]))'
  BY <1>1, <1>4, ProposalsStand DEF database
<1> QED BY <1>5, <1>6, <1>7, <1>8, <1>9, <1>10 DEF PInv
-----------------------------------------------------------------------------
(* COALESCE(MAX(number), 0) + 1 over numbers that have no gap.             *)
LEMMA NextNumber ==
    ASSUME NEW i \in Ids, NEW n \in Nat, Numbers(i) = 1..n
    PROVE  next_number(i) = n + 1
<1> DEFINE all == {0} \cup Numbers(i)
<1>1. all = 0..n
  OBVIOUS
<1>2. n \in all /\ \A k \in all : k <= n
  BY <1>1
<1>3. \A m \in all : (\A k \in all : k <= m) => m = n
  BY <1>1
<1> DEFINE top == CHOOSE m \in all : \A k \in all : k <= m
<1> HIDE DEF all
<1>4. top = n
  BY <1>2, <1>3
<1>5. next_number(i) = 1 + top
  BY DEF next_number, all
<1> HIDE DEF top
<1> QED BY <1>4, <1>5

(* The number and the row of a proposal, in one transaction.               *)
LEMMA ProposalKept ==
    ASSUME PInv, NEW t \in Threads, InsertProposal(t)
    PROVE  PInv'
<1>1. /\ handler[t].op = "propose" /\ handler[t].at = "insert" /\ Respond(t)
      /\ UNCHANGED <<workspace, project, records, disk, requests, strays, served>>
  BY DEF InsertProposal, At
<1>2. PICK x \in Ids :
        /\ x = handler[t].id /\ Listed(x)
        /\ {handler[t].source, handler[t].target} \subseteq heads[x]
  BY <1>1 DEF PInv, Underway, Visit
<1> DEFINE n == Cardinality(proposals[x])
           new == [number |-> next_number(x), source |-> handler[t].source,
                   target |-> handler[t].target]
<1>3. IsFiniteSet(proposals[x]) /\ n \in Nat /\ Numbers(x) = 1..n
  BY <1>2, FS_CardinalityType DEF PInv, ProposalsInOrder
<1>4. new.number = n + 1 /\ new \in Proposal /\ {new.source, new.target} \subseteq heads[x]
  <2>1. next_number(x) = n + 1
    BY <1>2, <1>3, NextNumber
  <2>2. heads[x] \subseteq Heads
    BY <1>2 DEF PInv, ProjectsTypeOK
  <2> QED BY <1>2, <1>3, <2>1, <2>2 DEF Proposal
<1>5. proposals \in [Ids -> SUBSET Proposal]
  BY DEF PInv, ProjectsTypeOK
<1>6. \/ UNCHANGED proposals
      \/ proposals' = [proposals EXCEPT ![x] = @ \cup {new}]
  BY <1>2 DEF InsertProposal
<1> HIDE DEF n, new
<1>7. \A i \in Ids : Kept(i)
  BY <1>1 DEF Kept, Listed, disk
<1>8. ProjectsTypeOK'
  <2>1. handler' \in [Threads -> Request]
    BY <1>1, NoRequestType DEF Respond, PInv, ProjectsTypeOK
  <2>2. proposals' \in [Ids -> SUBSET Proposal]
    BY <1>2, <1>4, <1>5, <1>6
  <2> QED BY <1>1, <2>1, <2>2 DEF PInv, ProjectsTypeOK, disk
<1>9. Underway' /\ Alone'
  BY <1>1, <1>7, AnswerKept
<1>10. RepositoriesAccounted'
  BY <1>1, AtRest, AccountedKept
<1>11. RecordsHold' /\ ServedListed' /\ GitServesWhatWasAuthorised'
  BY <1>1, <1>7, RecordsStand, ServedStand
<1>12. ProposalsKept' /\ ProposalsInOrder' /\ (\A i \in Ids : IsFiniteSet(proposals[i]))'
  <2>1. CASE UNCHANGED proposals
    BY <1>7, <2>1, ProposalsStand
  <2>2. CASE proposals' = [proposals EXCEPT ![x] = @ \cup {new}]
    <3>1. proposals'[x] = proposals[x] \cup {new}
      BY <1>2, <1>5, <2>2
    <3>2. \A i \in Ids \ {x} : proposals'[i] = proposals[i]
      BY <1>5, <2>2
    <3>3. new \notin proposals[x]
      BY <1>3, <1>4 DEF Numbers
    <3>4. IsFiniteSet(proposals'[x]) /\ Cardinality(proposals'[x]) = n + 1
      BY <1>3, <3>1, <3>3, FS_AddElement DEF n
    <3>5. Numbers(x)' = 1..(n + 1)
      <4>1. Numbers(x)' = Numbers(x) \cup {n + 1}
        BY <1>4, <3>1 DEF Numbers
      <4> QED BY <1>3, <4>1
    <3>6. \A p \in proposals'[x] : {p.source, p.target} \subseteq heads'[x]
      BY <1>1, <1>2, <1>4, <3>1 DEF PInv, ProposalsInOrder, disk
    <3>7. ASSUME NEW i \in Ids
          PROVE  /\ Numbers(i)' = 1..Cardinality(proposals'[i])
                 /\ \A p \in proposals'[i] : {p.source, p.target} \subseteq heads'[i]
      <4>1. CASE i = x
        BY <3>4, <3>5, <3>6, <4>1
      <4>2. CASE i # x
        <5>1. proposals'[i] = proposals[i] /\ heads'[i] = heads[i]
          BY <1>1, <3>2, <4>2 DEF disk
        <5> QED BY <5>1 DEF PInv, ProposalsInOrder, Numbers
      <4> QED BY <4>1, <4>2
    <3>8. ProposalsInOrder'
      BY <3>7 DEF ProposalsInOrder
    <3>9. ProposalsKept'
      BY <1>1, <1>2, <3>2 DEF PInv, ProposalsKept, Listed
    <3>10. (\A i \in Ids : IsFiniteSet(proposals[i]))'
      BY <3>2, <3>4 DEF PInv
    <3> QED BY <3>8, <3>9, <3>10
  <2> QED BY <1>6, <2>1, <2>2
<1> QED BY <1>8, <1>9, <1>10, <1>11, <1>12 DEF PInv
-----------------------------------------------------------------------------
(* What a creation changes is of a project that is not listed before, that *)
(* no other thread has in hand, and that nothing refers to.                *)
LEMMA CreationKept ==
    ASSUME PInv, NEW t \in Threads, NEW x \in Ids, NEW q, Turn(t, q),
           handler[t].op = "create", handler[t].id = x,
           Creation(q)', Visit(q)',
           q = NoRequest \/ (q.op = "create" /\ q.id = x),
           UNCHANGED <<proposals, records, served>>,
           \A i \in Ids \ {x} : Kept(i),
           ProjectsTypeOK', RepositoriesAccounted'
    PROVE  PInv'
<1>1. ~Listed(x)
  BY DEF PInv, Underway, Creation
<1>2. \A u \in Threads \ {t} : handler[u].id # x
  BY DEF PInv, Alone
<1>3. Underway'
  BY <1>2, UnderwayKept
<1>4. Alone'
  <2>1. \A u \in Threads : handler[u].op = "create" => handler[u].id \in Ids
    BY DEF PInv, Underway, Creation
  <2>2. NoRequest.op # "create" /\ NoRequest.id = Absent
    BY DEF NoRequest
  <2> QED BY <1>2, <2>1, <2>2, AloneKept, ProjectsAssumption
<1>5. \A i \in Ids : Listed(i) => Kept(i)
  BY <1>1
<1>6. RecordsHold' /\ ServedListed' /\ GitServesWhatWasAuthorised'
  BY <1>5, RecordsStand, ServedStand
<1>7. ProposalsKept' /\ ProposalsInOrder' /\ (\A i \in Ids : IsFiniteSet(proposals[i]))'
  BY <1>5, ProposalsStand
<1> QED BY <1>3, <1>4, <1>6, <1>7 DEF PInv

(* The projects other than x, and their repositories, are still accounted  *)
(* for when the thread that creates x goes on.                             *)
LEMMA OthersAccounted ==
    ASSUME PInv, NEW t \in Threads, NEW x \in Ids, NEW q, Turn(t, q),
           handler[t].op = "create", handler[t].id = x,
           \A i \in Ids \ {x} : /\ project'[i] = project[i] /\ store'[i] = store[i]
                                /\ heads'[i] = heads[i] /\ revisions'[i] = revisions[i],
           strays \subseteq strays',
           Listed(x)' => /\ store'[x] = "ready" /\ project'[x].default \in heads'[x]
                         /\ project'[x].head \in revisions'[x],
           store'[x] = "absent" \/ Listed(x)' \/ x \in strays'
             \/ (q.op = "create" /\ q.id = x)
    PROVE  RepositoriesAccounted'
<1>1. ListedHasRepository /\ NoStrayRepository
  BY DEF PInv, RepositoriesAccounted
<1>2. ListedHasRepository'
  BY <1>1 DEF ListedHasRepository, Listed
<1>3. handler'[t] = q /\ \A u \in Threads \ {t} : handler'[u] = handler[u]
  BY DEF Turn, PInv, ProjectsTypeOK
<1>4. NoStrayRepository'
  <2>1. \A i \in Ids \ {x} : store[i] # "absent" =>
            Listed(i) \/ i \in strays
              \/ \E u \in Threads \ {t} : handler[u].op = "create" /\ handler[u].id = i
    BY <1>1 DEF NoStrayRepository
  <2> QED BY <1>3, <2>1 DEF NoStrayRepository, Listed
<1> QED BY <1>2, <1>4 DEF RepositoriesAccounted

(* RepositoryStore::create.                                                *)
LEMMA RepositoryKept ==
    ASSUME PInv, NEW t \in Threads, CreateRepository(t)
    PROVE  PInv'
<1>1. /\ handler[t].op = "create" /\ handler[t].at = "create"
      /\ UNCHANGED <<database, heads, revisions, requests, served>>
  BY DEF CreateRepository, At
<1>2. PICK x \in Ids : x = handler[t].id /\ ~Listed(x) /\ store[x] = "absent"
  BY <1>1 DEF PInv, Underway, Creation
<1>3. PICK q \in Request : q = [handler[t] EXCEPT !.at = "commit"]
  BY DEF PInv, ProjectsTypeOK, Request, Places
<1>4. handler[t] \in Request /\ handler[t].workspace \in Workspaces
  BY <1>1 DEF PInv, ProjectsTypeOK, Underway, Creation
<1>5. q.op = "create" /\ q.id = x /\ q.at = "commit" /\ q.workspace \in Workspaces
  BY <1>1, <1>2, <1>3, <1>4 DEF Request
<1>6. store \in [Ids -> {"absent", "empty", "ready"}] /\ strays \subseteq Ids
  BY DEF PInv, ProjectsTypeOK
<1>7. CASE store' = [store EXCEPT ![x] = "ready"] /\ Proceed(t, "commit") /\ UNCHANGED strays
  <2>1. Turn(t, q)
    BY <1>3, <1>7 DEF Turn, Proceed, PInv, ProjectsTypeOK
  <2>2. Creation(q)' /\ Visit(q)'
    BY <1>1, <1>2, <1>5, <1>6, <1>7 DEF Creation, Visit, Listed, database
  <2>3. \A i \in Ids \ {x} : Kept(i)
    BY <1>1, <1>6, <1>7 DEF Kept, Listed, database
  <2>4. ProjectsTypeOK'
    BY <1>1, <1>6, <1>7, <2>1 DEF PInv, ProjectsTypeOK, Turn, database
  <2>5. RepositoriesAccounted'
    BY <1>1, <1>2, <1>5, <1>6, <1>7, <2>1, OthersAccounted DEF Listed, database
  <2> QED BY <1>1, <1>2, <1>5, <2>1, <2>2, <2>3, <2>4, <2>5, CreationKept DEF database
<1>8. CASE /\ Respond(t)
           /\ \/ store' = [store EXCEPT ![x] = "empty"] /\ strays' = strays \cup {x}
              \/ UNCHANGED <<store, strays>>
  <2>1. Turn(t, NoRequest) /\ Creation(NoRequest)' /\ Visit(NoRequest)'
    BY <1>8, AtRest
  <2>2. \A i \in Ids \ {x} : Kept(i)
    BY <1>1, <1>6, <1>8 DEF Kept, Listed, database
  <2>3. ProjectsTypeOK'
    BY <1>1, <1>6, <1>8, <2>1 DEF PInv, ProjectsTypeOK, Turn, database
  <2>4. \A i \in Ids \ {x} : store'[i] = store[i]
    BY <1>6, <1>8
  <2>5. strays \subseteq strays' /\ (store'[x] = "absent" \/ x \in strays')
    BY <1>2, <1>8
  <2>6. ~Listed(x)' /\ UNCHANGED <<project, heads, revisions>>
    BY <1>1, <1>2 DEF Listed, database
  <2>7. RepositoriesAccounted'
    BY <1>1, <1>2, <2>1, <2>4, <2>5, <2>6, OthersAccounted
  <2> QED BY <1>1, <1>2, <2>1, <2>2, <2>3, <2>7, CreationKept DEF database
<1> QED BY <1>2, <1>7, <1>8 DEF CreateRepository

(* The initial commit, or its error.                                       *)
LEMMA CommitKept ==
    ASSUME PInv, NEW t \in Threads, CommitInitial(t)
    PROVE  PInv'
<1>1. /\ handler[t].op = "create" /\ handler[t].at = "commit"
      /\ UNCHANGED <<database, store, requests, strays, served>>
  BY DEF CommitInitial, At
<1>2. PICK x \in Ids : x = handler[t].id /\ ~Listed(x) /\ store[x] = "ready"
  BY <1>1 DEF PInv, Underway, Creation
<1>3. handler[t] \in Request /\ handler[t].workspace \in Workspaces
  BY <1>1 DEF PInv, ProjectsTypeOK, Underway, Creation
<1>4. /\ heads \in [Ids -> SUBSET Heads] /\ revisions \in [Ids -> SUBSET Revisions]
      /\ handler \in [Threads -> Request]
  BY DEF PInv, ProjectsTypeOK
<1>5. ASSUME NEW b \in Heads, NEW c \in Revisions,
             heads' = [heads EXCEPT ![x] = {b}], revisions' = [revisions EXCEPT ![x] = {c}],
             handler' = [handler EXCEPT ![t].at = "insert", ![t].source = b,
                                        ![t].revision = c]
      PROVE  PInv'
  <2> DEFINE r == [handler[t] EXCEPT !.at = "insert", !.source = b, !.revision = c]
  <2>1. r \in Request
    BY <1>3 DEF Request, Places, Maybe
  <2>2. /\ r.op = "create" /\ r.id = x /\ r.at = "insert" /\ r.source = b
        /\ r.revision = c /\ r.workspace \in Workspaces
    BY <1>1, <1>2, <1>3 DEF Request
  <2>3. handler' = [handler EXCEPT ![t] = r]
    BY <1>4, <1>5
  <2>4. PICK q \in Request : q = r
    BY <2>1
  <2> HIDE DEF r
  <2>5. Turn(t, q)
    BY <2>3, <2>4 DEF Turn
  <2>6. Creation(q)' /\ Visit(q)'
    BY <1>1, <1>2, <1>4, <1>5, <2>2, <2>4 DEF Creation, Visit, Listed, database
  <2>7. \A i \in Ids \ {x} : Kept(i)
    BY <1>1, <1>4, <1>5 DEF Kept, Listed, database
  <2>8. ProjectsTypeOK'
    <3>1. heads' \in [Ids -> SUBSET Heads] /\ revisions' \in [Ids -> SUBSET Revisions]
      BY <1>4, <1>5
    <3> QED BY <1>1, <2>5, <3>1 DEF PInv, ProjectsTypeOK, Turn, database
  <2>9. RepositoriesAccounted'
    BY <1>1, <1>2, <1>4, <1>5, <2>2, <2>4, <2>5, OthersAccounted DEF Listed, database
  <2> QED BY <1>1, <1>2, <2>2, <2>4, <2>5, <2>6, <2>7, <2>8, <2>9, CreationKept DEF database
<1>6. CASE Proceed(t, "cleanup") /\ UNCHANGED <<heads, revisions>>
  <2>1. PICK q \in Request : q = [handler[t] EXCEPT !.at = "cleanup"]
    BY <1>3 DEF Request, Places
  <2>2. q.op = "create" /\ q.id = x /\ q.at = "cleanup" /\ q.workspace \in Workspaces
    BY <1>1, <1>2, <1>3, <2>1 DEF Request
  <2>3. Turn(t, q)
    BY <1>4, <1>6, <2>1 DEF Turn, Proceed
  <2>4. Creation(q)' /\ Visit(q)'
    BY <1>1, <1>2, <2>2 DEF Creation, Visit, Listed, database
  <2>5. \A i \in Ids \ {x} : Kept(i)
    BY <1>1, <1>6 DEF Kept, Listed, database
  <2>6. ProjectsTypeOK'
    BY <1>1, <1>6, <2>3 DEF PInv, ProjectsTypeOK, Turn, database
  <2>7. RepositoriesAccounted'
    BY <1>1, <1>2, <1>6, <2>2, <2>3, OthersAccounted DEF Listed, database
  <2> QED BY <1>1, <1>2, <2>2, <2>3, <2>4, <2>5, <2>6, <2>7, CreationKept DEF database
<1> QED BY <1>2, <1>5, <1>6 DEF CommitInitial

(* The row is inserted when its repository, its default branch and its     *)
(* head are there.                                                         *)
LEMMA InsertKept ==
    ASSUME PInv, NEW t \in Threads, NEW s \in ProjectSlugs, InsertProject(t, s)
    PROVE  PInv'
<1>1. /\ handler[t].op = "create" /\ handler[t].at = "insert"
      /\ UNCHANGED <<workspace, proposals, records, disk, requests, strays, served>>
  BY DEF InsertProject, At
<1>2. PICK x \in Ids :
        /\ x = handler[t].id /\ ~Listed(x) /\ store[x] = "ready"
        /\ handler[t].source \in heads[x] /\ handler[t].revision \in revisions[x]
  BY <1>1 DEF PInv, Underway, Creation
<1>3. handler[t] \in Request /\ handler[t].workspace \in Workspaces
  BY <1>1 DEF PInv, ProjectsTypeOK, Underway, Creation
<1>4. project \in [Ids -> Maybe(ProjectRow)] /\ handler \in [Threads -> Request]
  BY DEF PInv, ProjectsTypeOK
<1>5. CASE Proceed(t, "cleanup") /\ UNCHANGED project
  <2>1. PICK q \in Request : q = [handler[t] EXCEPT !.at = "cleanup"]
    BY <1>3 DEF Request, Places
  <2>2. q.op = "create" /\ q.id = x /\ q.at = "cleanup" /\ q.workspace \in Workspaces
    BY <1>1, <1>2, <1>3, <2>1 DEF Request
  <2>3. Turn(t, q)
    BY <1>4, <1>5, <2>1 DEF Turn, Proceed
  <2>4. Creation(q)' /\ Visit(q)'
    BY <1>1, <1>2, <1>5, <2>2 DEF Creation, Visit, Listed
  <2>5. \A i \in Ids \ {x} : Kept(i)
    BY <1>1, <1>5 DEF Kept, Listed, disk
  <2>6. ProjectsTypeOK'
    BY <1>1, <1>5, <2>3 DEF PInv, ProjectsTypeOK, Turn, disk
  <2>7. RepositoriesAccounted'
    BY <1>1, <1>2, <1>5, <2>2, <2>3, OthersAccounted DEF Listed, disk
  <2> QED BY <1>1, <1>2, <2>2, <2>3, <2>4, <2>5, <2>6, <2>7, CreationKept
<1> DEFINE row == [workspace |-> handler[t].workspace, slug |-> s,
                   default |-> handler[t].source, head |-> handler[t].revision]
<1>6. CASE Respond(t) /\ project' = [project EXCEPT ![x] = row]
  <2>1. project' = [project EXCEPT ![x] = row]
    BY <1>6
  <2>2. row \in ProjectRow
    <3>1. heads[x] \subseteq Heads /\ revisions[x] \subseteq Revisions
      BY DEF PInv, ProjectsTypeOK
    <3> QED BY <1>2, <1>3, <3>1 DEF ProjectRow
  <2>3. row.default \in heads[x] /\ row.head \in revisions[x]
    BY <1>2
  <2> HIDE DEF row
  <2>4. project' \in [Ids -> Maybe(ProjectRow)] /\ project'[x] = row
    BY <1>4, <2>1, <2>2 DEF Maybe
  <2>5. Turn(t, NoRequest) /\ Creation(NoRequest)' /\ Visit(NoRequest)'
    BY <1>6, AtRest
  <2>6. \A i \in Ids \ {x} : Kept(i) /\ project'[i] = project[i]
    BY <1>1, <1>4, <2>1 DEF Kept, Listed, disk
  <2>7. ProjectsTypeOK'
    BY <1>1, <2>4, <2>5 DEF PInv, ProjectsTypeOK, Turn, disk
  <2>8. RepositoriesAccounted'
    <3>1. Listed(x)'
      BY <2>2, <2>4, ProjectsAssumption DEF Listed
    <3> QED BY <1>1, <1>2, <2>3, <2>4, <2>5, <2>6, <3>1, OthersAccounted DEF disk
  <2> QED BY <1>1, <1>2, <2>5, <2>6, <2>7, <2>8, CreationKept
<1> QED BY <1>2, <1>5, <1>6 DEF InsertProject

(* cleanup_new_repository removes what only its own creation has made.     *)
LEMMA CleanupKept ==
    ASSUME PInv, NEW t \in Threads, Cleanup(t)
    PROVE  PInv'
<1>1. /\ handler[t].op = "create" /\ handler[t].at = "cleanup" /\ Respond(t)
      /\ UNCHANGED <<database, requests, served>>
  BY DEF Cleanup, At
<1>2. PICK x \in Ids : x = handler[t].id /\ ~Listed(x)
  BY <1>1 DEF PInv, Underway, Creation
<1>3. Turn(t, NoRequest) /\ Creation(NoRequest)' /\ Visit(NoRequest)'
  BY <1>1, AtRest
<1>4. /\ store \in [Ids -> {"absent", "empty", "ready"}] /\ strays \subseteq Ids
      /\ heads \in [Ids -> SUBSET Heads] /\ revisions \in [Ids -> SUBSET Revisions]
  BY DEF PInv, ProjectsTypeOK
<1>5. /\ strays \subseteq strays' /\ strays' \subseteq Ids
      /\ store'[x] = "absent" \/ x \in strays'
      /\ \A i \in Ids \ {x} : /\ store'[i] = store[i]
                               /\ heads'[i] = heads[i] /\ revisions'[i] = revisions[i]
      /\ store' \in [Ids -> {"absent", "empty", "ready"}]
      /\ heads' \in [Ids -> SUBSET Heads] /\ revisions' \in [Ids -> SUBSET Revisions]
  BY <1>2, <1>4 DEF Cleanup, disk
<1>6. \A i \in Ids \ {x} : Kept(i)
  BY <1>1, <1>5 DEF Kept, Listed, database
<1>7. ProjectsTypeOK'
  BY <1>1, <1>3, <1>5 DEF PInv, ProjectsTypeOK, Turn, database
<1>8. RepositoriesAccounted'
  BY <1>1, <1>2, <1>3, <1>5, OthersAccounted DEF Listed, database
<1> QED BY <1>1, <1>2, <1>3, <1>6, <1>7, <1>8, CreationKept DEF database

(* A commit of the library adds a revision, and perhaps a branch.          *)
LEMMA AdvanceKept ==
    ASSUME PInv, NEW x \in Ids, NEW b \in Heads, NEW c \in Revisions, Advance(x, b, c)
    PROVE  PInv'
<1>1. /\ heads \in [Ids -> SUBSET Heads] /\ revisions \in [Ids -> SUBSET Revisions]
      /\ handler \in [Threads -> Request]
  BY DEF PInv, ProjectsTypeOK
<1>2. /\ heads' \in [Ids -> SUBSET Heads] /\ revisions' \in [Ids -> SUBSET Revisions]
      /\ \A i \in Ids : heads[i] \subseteq heads'[i] /\ revisions[i] \subseteq revisions'[i]
      /\ UNCHANGED <<database, store, handler, requests, strays, served>>
  BY <1>1 DEF Advance
<1>3. \A i \in Ids : Kept(i)
  BY <1>2 DEF Kept, Listed, database
<1>4. ProjectsTypeOK'
  BY <1>2 DEF PInv, ProjectsTypeOK, database
<1>5. Underway'
  <2> SUFFICES ASSUME NEW u \in Threads
               PROVE  Creation(handler[u])' /\ Visit(handler[u])'
    BY DEF Underway
  <2>1. PICK r \in Request : r = handler[u]
    BY <1>1
  <2>2. Creation(r)' /\ Visit(r)'
    BY <1>3, <2>1, RequestKept DEF PInv, Underway
  <2>3. handler'[u] = r
    BY <1>2, <2>1
  <2> QED BY <2>2, <2>3 DEF Creation, Visit, Listed
<1>6. Alone'
  BY <1>2 DEF PInv, Alone
<1>7. RepositoriesAccounted'
  BY <1>2 DEF PInv, RepositoriesAccounted, ListedHasRepository, NoStrayRepository, Listed, database
<1>8. RecordsHold' /\ ServedListed' /\ GitServesWhatWasAuthorised'
  BY <1>2, <1>3, RecordsStand, ServedStand DEF database
<1>9. ProposalsKept' /\ ProposalsInOrder' /\ (\A i \in Ids : IsFiniteSet(proposals[i]))'
  BY <1>2, <1>3, ProposalsStand DEF database
<1> QED BY <1>4, <1>5, <1>6, <1>7, <1>8, <1>9 DEF PInv

(* A crash ends every request; what it leaves of a creation is a stray.    *)
LEMMA CrashKept ==
    ASSUME PInv, ServerCrash
    PROVE  PInv'
<1>1. /\ UNCHANGED <<database, disk, requests, served>>
      /\ handler' = [t \in Threads |-> NoRequest]
      /\ strays' = strays \cup {i \in Ids : ~Listed(i) /\ store[i] # "absent"}
  BY DEF ServerCrash
<1>2. \A i \in Ids : Kept(i)
  BY <1>1 DEF Kept, Listed, database, disk
<1>3. ProjectsTypeOK'
  <2>1. handler' \in [Threads -> Request] /\ strays' \subseteq Ids
    BY <1>1, NoRequestType DEF PInv, ProjectsTypeOK
  <2> QED BY <1>1, <2>1 DEF PInv, ProjectsTypeOK, database, disk
<1>4. \A t \in Threads : handler'[t].op = "none" /\ handler'[t].at = "idle"
  BY <1>1 DEF NoRequest
<1>5. Underway' /\ Alone'
  BY <1>4 DEF Underway, Alone, Creation, Visit
<1>6. RepositoriesAccounted'
  BY <1>1 DEF PInv, RepositoriesAccounted, ListedHasRepository, NoStrayRepository, Listed, database, disk
<1>7. RecordsHold' /\ ServedListed' /\ GitServesWhatWasAuthorised'
  BY <1>1, <1>2, RecordsStand, ServedStand DEF database
<1>8. ProposalsKept' /\ ProposalsInOrder' /\ (\A i \in Ids : IsFiniteSet(proposals[i]))'
  BY <1>1, <1>2, ProposalsStand DEF database
<1> QED BY <1>3, <1>5, <1>6, <1>7, <1>8 DEF PInv
-----------------------------------------------------------------------------
(* Nothing is stored, listed or under way at first.                        *)
LEMMA PInvInit == ProjectsInit => PInv
<1> SUFFICES ASSUME ProjectsInit PROVE PInv
  OBVIOUS
<1>1. ProjectsTypeOK
  BY NoRequestType, ProjectsAssumption DEF ProjectsInit, ProjectsTypeOK, Maybe
<1>2. \A t \in Threads : handler[t].op = "none" /\ handler[t].at = "idle"
  BY DEF ProjectsInit, NoRequest
<1>3. Underway /\ Alone
  BY <1>2 DEF Underway, Alone, Creation, Visit
<1>4. RepositoriesAccounted
  BY DEF ProjectsInit, RepositoriesAccounted, ListedHasRepository, NoStrayRepository, Listed
<1>5. RecordsHold /\ ServedListed /\ GitServesWhatWasAuthorised
  BY DEF ProjectsInit, RecordsHold, ServedListed, GitServesWhatWasAuthorised
<1>6. ProposalsKept /\ ProposalsInOrder /\ \A i \in Ids : IsFiniteSet(proposals[i])
  <2>1. \A i \in Ids : proposals[i] = {}
    BY DEF ProjectsInit
  <2>2. \A i \in Ids : Numbers(i) = 1..Cardinality(proposals[i]) /\ IsFiniteSet(proposals[i])
    BY <2>1, FS_EmptySet DEF Numbers
  <2> QED BY <2>1, <2>2 DEF ProposalsKept, ProposalsInOrder
<1> QED BY <1>1, <1>3, <1>4, <1>5, <1>6 DEF PInv

(* Every step of every handler, of the library and a crash keep it.        *)
LEMMA PInvStep == PInv /\ [ProjectsNext]_projectsVars => PInv'
<1> SUFFICES ASSUME PInv, [ProjectsNext]_projectsVars PROVE PInv'
  OBVIOUS
<1>1. ASSUME NEW t \in Threads, CreateProjectStep(t) PROVE PInv'
  BY <1>1, CreateReceived, RepositoryKept, CommitKept, InsertKept, CleanupKept
  DEF CreateProjectStep
<1>2. ASSUME NEW t \in Threads, ProjectStep(t) PROVE PInv'
  BY <1>2, RenameReceived, RenameKept, BranchesReceived, RecordReceived, BranchesKept,
     UpdateKept, ProposalKept, RevisionKept, RecordKept
  DEF ProjectStep
<1>3. ASSUME NEW t \in Threads, GitStep(t) PROVE PInv'
  BY <1>3, GitReceived, ServeKept DEF GitStep
<1>4. CASE UNCHANGED projectsVars
  BY <1>4 DEF projectsVars, database, disk, PInv, ProjectsTypeOK, Underway, Alone, Creation,
     Visit, RepositoriesAccounted, ListedHasRepository, NoStrayRepository, RecordsHold,
     ProposalsKept, ProposalsInOrder, Numbers, ServedListed, GitServesWhatWasAuthorised,
     Listed, HasRole
<1> QED BY <1>1, <1>2, <1>3, <1>4, AdvanceKept, CrashKept DEF ProjectsNext

(* The inductive invariant holds throughout.                               *)
THEOREM ProjectsInvariant == ProjectsSpec => []PInv
BY PInvInit, PInvStep, PTL DEF ProjectsSpec

(* Every row, directory and request stays of its type.                     *)
THEOREM ProjectsTypeCorrect == ProjectsSpec => []ProjectsTypeOK
<1>1. PInv => ProjectsTypeOK
  BY DEF PInv
<1> QED BY <1>1, ProjectsInvariant, PTL

(* create_project and cleanup_new_repository: a listed project has its     *)
(* repository, its default branch and its head, and a repository that no   *)
(* project names is being created or was left by an error or a crash.      *)
THEOREM ProjectsAccounted == ProjectsSpec => []RepositoriesAccounted
<1>1. PInv => RepositoriesAccounted
  BY DEF PInv
<1> QED BY <1>1, ProjectsInvariant, PTL

(* create_pr: proposals are numbered without a gap or a repetition, on     *)
(* branches that are there.                                                *)
THEOREM ProposalsNumbered == ProjectsSpec => []ProposalsInOrder
<1>1. PInv => ProposalsInOrder
  BY DEF PInv
<1> QED BY <1>1, ProjectsInvariant, PTL

(* create_run, create_deployment, create_schedule, create_secret_metadata: *)
(* what is recorded is of a listed project, a revision of its own and an   *)
(* author with the role.                                                   *)
THEOREM RecordsVerified == ProjectsSpec => []RecordsHold
<1>1. PInv => RecordsHold
  BY DEF PInv
<1> QED BY <1>1, ProjectsInvariant, PTL

(* git_info_refs and git_upload_pack answer from the repository that was   *)
(* authorised, to one who may read it.                                     *)
THEOREM GitAuthorised == ProjectsSpec => []GitServesWhatWasAuthorised
<1>1. PInv => GitServesWhatWasAuthorised
  BY DEF PInv
<1> QED BY <1>1, ProjectsInvariant, PTL
=============================================================================
