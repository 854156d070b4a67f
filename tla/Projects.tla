------------------------------- MODULE Projects -------------------------------
(***************************************************************************)
(* Projects of c6-server: a row of the database that names a repository of *)
(* the Git store, and what refers to the two: proposals, recorded runs,    *)
(* deployments, schedules and secrets, and Git requests that are addressed *)
(* by names.  The database is behind one lock, the store behind none, and  *)
(* nothing spans the two: a handler takes and leaves the lock several      *)
(* times, with Git operations in between.                                  *)
(*                                                                         *)
(* Roles are the ranks of role_rank.  Memberships are only ever inserted,  *)
(* and who is authenticated is Identity's; here roles are a constant.  Of  *)
(* a repository, BranchLog is assumed: branches and commits are added and  *)
(* stay.  An argument of a request is chosen when it is first looked at.   *)
(***************************************************************************)
EXTENDS Naturals, FiniteSets

CONSTANTS
    Ids,            \* the UUIDs the server generates, in their order
    Workspaces, WorkspaceSlugs, Members, ProjectSlugs, Heads, Revisions,
    FirstSlug,      \* the slug a workspace starts with
    Rank(_, _),     \* the role of a member in a workspace, or NoRole
    Threads, MaxRequests,
    NoRole, Absent

Ranks == 0..5
reader == 1
runner == 2
contributor == 3
maintainer == 4
owner == 5

ProjectRow == [workspace : Workspaces, slug : ProjectSlugs, default : Heads, head : Revisions]

ASSUME ProjectsAssumption ==
    /\ Ids \subseteq Nat /\ Revisions \subseteq Nat
    /\ MaxRequests \in Nat
    /\ FirstSlug \in [Workspaces -> WorkspaceSlugs]
    /\ \A v, w \in Workspaces : FirstSlug[v] = FirstSlug[w] => v = w
    /\ \A w \in Workspaces, m \in Members : Rank(w, m) \in Ranks \cup {NoRole}
    /\ NoRole \notin Ranks
    /\ Absent \notin Ids \cup Workspaces \cup WorkspaceSlugs \cup Members \cup ProjectSlugs \cup Heads \cup Revisions
    /\ Absent \notin ProjectRow

VARIABLES
    workspace,   \* workspace -> its slug
    project,     \* id -> its row in projects, or Absent
    proposals,   \* id -> its rows in pull_requests
    records,     \* id -> its rows in runs, deployments, schedules and secret_metadata
    store,       \* id -> "absent", "empty" or "ready"
    heads,       \* id -> its branches
    revisions,   \* id -> its commits
    handler,     \* thread -> the request it handles
    requests,    \* how many there have been; bounded by MaxRequests
    strays,      \* history: repositories a crash or an error has left
    served       \* history: the Git responses, with what was asked for

database == <<workspace, project, proposals, records>>
disk == <<store, heads, revisions>>
projectsVars == <<database, disk, handler, requests, strays, served>>

NoRequest == [op |-> "none", at |-> "idle", user |-> Absent, id |-> Absent,
              workspace |-> Absent, slug |-> Absent, source |-> Absent,
              target |-> Absent, revision |-> Absent, kind |-> Absent]

Kinds == {"run", "deployment", "setting"}
Required(kind) == IF kind = "run" THEN runner ELSE maintainer
Maybe(S) == S \cup {Absent}

Proposal == [number : Nat, source : Heads, target : Heads]
Record == [kind : Kinds, revision : Maybe(Revisions), author : Members]
Operations == {"none", "create", "update", "propose", "record", "git", "rename"}
Places == {"idle", "create", "commit", "insert", "cleanup", "branches", "update",
           "revision", "record", "open", "rename"}

Request == [op : Operations, at : Places, user : Maybe(Members), id : Maybe(Ids),
            workspace : Maybe(Workspaces), slug : Maybe(ProjectSlugs \cup WorkspaceSlugs),
            source : Maybe(Heads), target : Maybe(Heads),
            revision : Maybe(Revisions), kind : Maybe(Kinds)]

ProjectsTypeOK ==
    /\ workspace \in [Workspaces -> WorkspaceSlugs]
    /\ \A v, w \in Workspaces : workspace[v] = workspace[w] => v = w
    /\ project \in [Ids -> Maybe(ProjectRow)]
    /\ proposals \in [Ids -> SUBSET Proposal]
    /\ records \in [Ids -> SUBSET Record]
    /\ store \in [Ids -> {"absent", "empty", "ready"}]
    /\ heads \in [Ids -> SUBSET Heads]
    /\ revisions \in [Ids -> SUBSET Revisions]
    /\ handler \in [Threads -> Request]
    /\ requests \in 0..MaxRequests
    /\ strays \subseteq Ids
    /\ served \subseteq [user : Members, id : Ids, asked : Ids]

ProjectsInit ==
    /\ workspace = FirstSlug
    /\ project = [i \in Ids |-> Absent]
    /\ proposals = [i \in Ids |-> {}]
    /\ records = [i \in Ids |-> {}]
    /\ store = [i \in Ids |-> "absent"]
    /\ heads = [i \in Ids |-> {}]
    /\ revisions = [i \in Ids |-> {}]
    /\ handler = [t \in Threads |-> NoRequest]
    /\ requests = 0
    /\ strays = {}
    /\ served = {}
-----------------------------------------------------------------------------
Listed(i) == project[i] # Absent
HasRole(m, w, rank) == Rank(w, m) # NoRole /\ Rank(w, m) >= rank

At(t, op, at) == handler[t].op = op /\ handler[t].at = at
Proceed(t, at) == handler' = [handler EXCEPT ![t].at = at]
(* The response is sent, of a success or an error. *)
Respond(t) == handler' = [handler EXCEPT ![t] = NoRequest]

(* authenticate, in a lock section of its own. *)
Receive(t, request) ==
    /\ handler[t] = NoRequest
    /\ requests < MaxRequests
    /\ requests' = requests + 1
    /\ handler' = [handler EXCEPT ![t] = request]

(* project_auth: the project's workspace, then the role in it. *)
project_auth(m, i, rank) == Listed(i) /\ HasRole(m, project[i].workspace, rank)

Used(i) == store[i] # "absent" \/ Listed(i) \/ i \in strays
             \/ \E t \in Threads : handler[t].id = i
Fresh(i) == ~Used(i) /\ \A j \in Ids : j < i => Used(j)
NewRevision(c) == \A d \in Revisions : (d < c) <=> (\E i \in Ids : d \in revisions[i])
-----------------------------------------------------------------------------
update_workspace(t, m, w, a) ==
    /\ HasRole(m, w, owner)
    /\ Receive(t, [NoRequest EXCEPT
                      !.user = m, !.op = "rename", !.at = "rename",
                      !.workspace = w, !.slug = a])
    /\ UNCHANGED <<database, disk, strays, served>>

(* UPDATE, of a slug that is UNIQUE; or an error. *)
RenameWorkspace(t) ==
    LET q == handler[t] IN
    /\ At(t, "rename", "rename")
    /\ Respond(t)
    /\ \/ UNCHANGED workspace
       \/ /\ \A w \in Workspaces \ {q.workspace} : workspace[w] # q.slug
          /\ workspace' = [workspace EXCEPT ![q.workspace] = q.slug]
    /\ UNCHANGED <<project, proposals, records, disk, requests, strays, served>>
-----------------------------------------------------------------------------
create_project(t, m, w, i) ==
    /\ HasRole(m, w, maintainer)
    /\ Fresh(i)
    /\ Receive(t, [NoRequest EXCEPT
                      !.user = m, !.op = "create", !.at = "create",
                      !.id = i, !.workspace = w])
    /\ UNCHANGED <<database, disk, strays, served>>

(* RepositoryStore::create: an error may leave the directory it has made.  *)
CreateRepository(t) ==
    LET i == handler[t].id IN
    /\ At(t, "create", "create")
    /\ \/ store' = [store EXCEPT ![i] = "ready"] /\ Proceed(t, "commit") /\ UNCHANGED strays
       \/ store' = [store EXCEPT ![i] = "empty"] /\ Respond(t) /\ strays' = strays \cup {i}
       \/ Respond(t) /\ UNCHANGED <<store, strays>>
    /\ UNCHANGED <<database, heads, revisions, requests, served>>

(* The initial commit, on the default branch; or its error. *)
CommitInitial(t) ==
    /\ At(t, "create", "commit")
    /\ \/ \E b \in Heads, c \in Revisions :
             /\ NewRevision(c)
             /\ heads' = [heads EXCEPT ![handler[t].id] = {b}]
             /\ revisions' = [revisions EXCEPT ![handler[t].id] = {c}]
             /\ handler' = [handler EXCEPT ![t].at = "insert", ![t].source = b,
                                           ![t].revision = c]
       \/ Proceed(t, "cleanup") /\ UNCHANGED <<heads, revisions>>
    /\ UNCHANGED <<database, store, requests, strays, served>>

(* UNIQUE(workspace_id, slug) *)
Taken(w, s, except) ==
    \E j \in Ids \ {except} : Listed(j) /\ project[j].workspace = w /\ project[j].slug = s

(* Mutant: the row is committed before the audit event, which fails. *)
InsertThenAudit(t, s) ==
    LET q == handler[t] IN
    /\ At(t, "create", "insert")
    /\ Proceed(t, "cleanup")
    /\ \/ UNCHANGED project
       \/ /\ ~Taken(q.workspace, s, q.id)
          /\ project' = [project EXCEPT ![q.id] =
                [workspace |-> q.workspace, slug |-> s,
                 default |-> q.source, head |-> q.revision]]
    /\ UNCHANGED <<workspace, proposals, records, disk, requests, strays, served>>

(* The transaction: it conflicts with another project of that name, fails  *)
(* or commits.                                                             *)
InsertProject(t, s) ==
    LET q == handler[t] IN
    /\ At(t, "create", "insert")
    /\ \/ Proceed(t, "cleanup") /\ UNCHANGED project
       \/ /\ ~Taken(q.workspace, s, q.id)
          /\ project' = [project EXCEPT ![q.id] =
                [workspace |-> q.workspace, slug |-> s,
                 default |-> q.source, head |-> q.revision]]
          /\ Respond(t)
    /\ UNCHANGED <<workspace, proposals, records, disk, requests, strays, served>>

(* cleanup_new_repository; its own error replaces the one that led here.   *)
Cleanup(t) ==
    LET i == handler[t].id IN
    /\ At(t, "create", "cleanup")
    /\ Respond(t)
    /\ \/ /\ store' = [store EXCEPT ![i] = "absent"]
          /\ heads' = [heads EXCEPT ![i] = {}]
          /\ revisions' = [revisions EXCEPT ![i] = {}]
          /\ UNCHANGED strays
       \/ strays' = strays \cup {i} /\ UNCHANGED disk
    /\ UNCHANGED <<database, requests, served>>
-----------------------------------------------------------------------------
(* A project cannot move to another workspace. *)
update_project(t, m, i, w) ==
    /\ project_auth(m, i, maintainer)
    /\ w = project[i].workspace
    /\ Receive(t, [NoRequest EXCEPT
                      !.user = m, !.op = "update", !.at = "branches",
                      !.id = i])
    /\ UNCHANGED <<database, disk, strays, served>>

create_pr(t, m, i) ==
    /\ project_auth(m, i, contributor)
    /\ Receive(t, [NoRequest EXCEPT
                      !.user = m, !.op = "propose", !.at = "branches",
                      !.id = i])
    /\ UNCHANGED <<database, disk, strays, served>>

(* open and list_branches: what the request names, a default branch, or a  *)
(* source and a target, must be there.                                     *)
list_branches(t, b, c) ==
    LET q == handler[t] IN
    /\ q.at = "branches"
    /\ IF store[q.id] = "ready" /\ {b, c} \subseteq heads[q.id]
         THEN handler' = [handler EXCEPT
                ![t].at = IF q.op = "update" THEN "update" ELSE "insert",
                ![t].source = b, ![t].target = IF q.op = "update" THEN Absent ELSE c]
         ELSE Respond(t)
    /\ UNCHANGED <<database, disk, requests, strays, served>>

(* UPDATE, or an error; head_sha stays. *)
UpdateProject(t, s) ==
    LET q == handler[t] IN
    /\ At(t, "update", "update")
    /\ Respond(t)
    /\ \/ UNCHANGED project
       \/ /\ ~Taken(project[q.id].workspace, s, q.id)
          /\ project' = [project EXCEPT ![q.id].slug = s, ![q.id].default = q.source]
    /\ UNCHANGED <<workspace, proposals, records, disk, requests, strays, served>>

Numbers(i) == {p.number : p \in proposals[i]}

(* Mutant: MAX(number) without WHERE. *)
next_number_global(i) ==
    LET all == {0} \cup UNION {Numbers(j) : j \in Ids} IN
    1 + CHOOSE n \in all : \A k \in all : k <= n

(* SELECT COALESCE(MAX(number),0)+1 *)
next_number(i) ==
    LET all == {0} \cup Numbers(i) IN
    1 + CHOOSE n \in all : \A k \in all : k <= n

(* The number and the row in one transaction. *)
InsertProposal(t) ==
    LET q == handler[t] IN
    /\ At(t, "propose", "insert")
    /\ Respond(t)
    /\ \/ UNCHANGED proposals
       \/ proposals' = [proposals EXCEPT ![q.id] = @ \cup
                {[number |-> next_number(q.id), source |-> q.source, target |-> q.target]}]
    /\ UNCHANGED <<workspace, project, records, disk, requests, strays, served>>
-----------------------------------------------------------------------------
(* A request to record something: the project's row gives the revision of  *)
(* a run that names none (project_head).                                   *)
Records(t, m, i, kind, at, revision) ==
    /\ project_auth(m, i, Required(kind))
    /\ Receive(t, [NoRequest EXCEPT
                      !.user = m, !.op = "record", !.at = at, !.id = i,
                      !.kind = kind, !.revision = revision])
    /\ UNCHANGED <<database, disk, strays, served>>

project_head(i) == project[i].head

create_run(t, m, i) ==
    \/ \E c \in Revisions : Records(t, m, i, "run", "revision", c)
    \/ Listed(i) /\ Records(t, m, i, "run", "revision", project_head(i))

create_deployment(t, m, i) ==
    \E c \in Revisions : Records(t, m, i, "deployment", "revision", c)

(* These do not look at the store; create_secret_metadata conflicts with   *)
(* a secret of that name.                                                  *)
create_schedule(t, m, i) == Records(t, m, i, "setting", "record", Absent)
create_secret_metadata(t, m, i) == Records(t, m, i, "setting", "record", Absent)

(* Mutant: any object id will do. *)
validate_revision_format(t) ==
    /\ At(t, "record", "revision")
    /\ Proceed(t, "record")
    /\ UNCHANGED <<database, disk, requests, strays, served>>

validate_revision_exists(t) ==
    LET q == handler[t] IN
    /\ At(t, "record", "revision")
    /\ IF store[q.id] = "ready" /\ q.revision \in revisions[q.id]
         THEN Proceed(t, "record")
         ELSE Respond(t)
    /\ UNCHANGED <<database, disk, requests, strays, served>>

InsertRecord(t) ==
    LET q == handler[t] IN
    /\ At(t, "record", "record")
    /\ Respond(t)
    /\ \/ UNCHANGED records
       \/ records' = [records EXCEPT ![q.id] = @ \cup
                {[kind |-> q.kind, revision |-> q.revision, author |-> q.user]}]
    /\ UNCHANGED <<workspace, project, proposals, disk, requests, strays, served>>
-----------------------------------------------------------------------------
(* git_info_refs and git_upload_pack: authenticate_git; then               *)
(* authorize_git_project looks up the address and the role in one query; a *)
(* credential restricted to another project is refused there.              *)
authorize_git_project(t, m, a, s, i) ==
    /\ Listed(i) /\ workspace[project[i].workspace] = a /\ project[i].slug = s
    /\ HasRole(m, project[i].workspace, reader)
    /\ Receive(t, [NoRequest EXCEPT
                      !.user = m, !.op = "git", !.at = "open", !.id = i,
                      !.slug = s, !.workspace = project[i].workspace])
    /\ UNCHANGED <<database, disk, strays, served>>

(* Mutant: the repository is looked up by its address once more. *)
ServeAddress(t) ==
    LET q == handler[t] IN
    /\ At(t, "git", "open")
    /\ Respond(t)
    /\ \/ UNCHANGED served
       \/ \E i \in Ids :
             /\ Listed(i) /\ project[i].workspace = q.workspace /\ project[i].slug = q.slug
             /\ store[i] = "ready"
             /\ served' = served \cup {[user |-> q.user, id |-> i, asked |-> q.id]}
    /\ UNCHANGED <<database, disk, requests, strays>>

(* open, then the backend, which SmartHttp models. *)
Serve(t) ==
    LET q == handler[t] IN
    /\ At(t, "git", "open")
    /\ Respond(t)
    /\ \/ UNCHANGED served
       \/ /\ store[q.id] = "ready"
          /\ served' = served \cup {[user |-> q.user, id |-> q.id, asked |-> q.id]}
    /\ UNCHANGED <<database, disk, requests, strays>>
-----------------------------------------------------------------------------
(* A commit of the library, on a new branch or an old one. *)
Advance(i, b, c) ==
    /\ Listed(i) /\ store[i] = "ready"
    /\ NewRevision(c)
    /\ heads' = [heads EXCEPT ![i] = @ \cup {b}]
    /\ revisions' = [revisions EXCEPT ![i] = @ \cup {c}]
    /\ UNCHANGED <<database, store, handler, requests, strays, served>>

(* Transactions that have not committed are gone, directories stay. *)
ServerCrash ==
    /\ \E t \in Threads : handler[t] # NoRequest
    /\ handler' = [t \in Threads |-> NoRequest]
    /\ strays' = strays \cup {i \in Ids : ~Listed(i) /\ store[i] # "absent"}
    /\ UNCHANGED <<database, disk, requests, served>>

CreateProjectStep(t) ==
    \/ \E m \in Members, w \in Workspaces, i \in Ids : create_project(t, m, w, i)
    \/ CreateRepository(t)
    \/ CommitInitial(t)
    \/ \E s \in ProjectSlugs : InsertProject(t, s)
    \/ Cleanup(t)

ProjectStep(t) ==
    \/ \E m \in Members, w \in Workspaces, a \in WorkspaceSlugs :
          update_workspace(t, m, w, a)
    \/ RenameWorkspace(t)
    \/ \E m \in Members, i \in Ids :
          \/ \E w \in Workspaces : update_project(t, m, i, w)
          \/ create_pr(t, m, i)
          \/ create_run(t, m, i) \/ create_deployment(t, m, i)
          \/ create_schedule(t, m, i) \/ create_secret_metadata(t, m, i)
    \/ \E b, c \in Heads : list_branches(t, b, c)
    \/ \E s \in ProjectSlugs : UpdateProject(t, s)
    \/ InsertProposal(t)
    \/ validate_revision_exists(t)
    \/ InsertRecord(t)

GitStep(t) ==
    \/ \E m \in Members, a \in WorkspaceSlugs, s \in ProjectSlugs, i \in Ids :
          authorize_git_project(t, m, a, s, i)
    \/ Serve(t)

ProjectsNext ==
    \/ \E t \in Threads : CreateProjectStep(t) \/ ProjectStep(t) \/ GitStep(t)
    \/ \E i \in Ids, b \in Heads, c \in Revisions : Advance(i, b, c)
    \/ ServerCrash

ProjectsSpec == ProjectsInit /\ [][ProjectsNext]_projectsVars
-----------------------------------------------------------------------------
(* create_project: the row is written after the repository and nothing     *)
(* takes either back, so a project that is listed has its repository, with *)
(* the default branch and the head the row names.                          *)
ListedHasRepository ==
    \A i \in Ids : Listed(i) =>
        /\ store[i] = "ready"
        /\ project[i].default \in heads[i]
        /\ project[i].head \in revisions[i]

(* STORAGE_AND_CONSISTENCY ("a failed project metadata transaction may     *)
(* remove only the newly created UUID repository"): a repository without a *)
(* project is one that is being created, or a crash or an error of the     *)
(* file system has left it.                                                *)
NoStrayRepository ==
    \A i \in Ids : store[i] # "absent" =>
        \/ Listed(i)
        \/ i \in strays
        \/ \E t \in Threads : handler[t].op = "create" /\ handler[t].id = i

(* Rows and repositories match, but for what an error or a crash has left. *)
RepositoriesAccounted == ListedHasRepository /\ NoStrayRepository

(* create_pr: two proposals at once get different numbers without a gap,   *)
(* and branches that were looked up earlier are still there.               *)
ProposalsInOrder ==
    \A i \in Ids :
        /\ Numbers(i) = 1..Cardinality(proposals[i])
        /\ \A p \in proposals[i] : {p.source, p.target} \subseteq heads[i]

(* create_run, create_deployment: the revision was verified before the     *)
(* transaction and is still one of this project's own, and the author had  *)
(* the role in the workspace the project is still in.                      *)
RecordsHold ==
    \A i \in Ids : \A r \in records[i] :
        /\ Listed(i)
        /\ r.revision # Absent => r.revision \in revisions[i]
        /\ HasRole(r.author, project[i].workspace, Required(r.kind))

(* git_info_refs, git_upload_pack: a response is of the repository that    *)
(* was authorised, although a project may give up its name to another one  *)
(* meanwhile, and goes to a member of that project's workspace.            *)
GitServesWhatWasAuthorised ==
    \A g \in served : g.id = g.asked /\ HasRole(g.user, project[g.id].workspace, reader)
=============================================================================
