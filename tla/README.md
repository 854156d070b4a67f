# A TLA+ model of cresix

This directory specifies the parts of cresix whose correctness depends on the
order in which things happen, checks them with TLC on small instances, and
proves the most important results with TLAPS for instances of every size.
`PROJECT.json` ties every definition to the lines it models.

## 1. The system

| Component | State it keeps | Operations | Talks to |
|---|---|---|---|
| runner daemon (`c6-runner`) | `active` map of running runs, one result file and one temporary file per run, nonce cache, key file | execute, cancel, inspect, ping | its callers over an authenticated socket; a backend |
| scheduler (`c6-scheduler`) | none: a pure evaluation of a durable `TickState` | tick, evaluate | a control plane that stores claims and the checkpoint |
| Cloud relay (`c6-cloud`) | registry of relay sessions, installation rows (`revoked_at`, `connected_at`) | connect, proxy a request, revoke, restart | connectors over WebSocket, browsers over HTTP |
| relay protocol (`c6-cloud-core`) | a `RelaySessionState` at each end: ready or not, open requests, ID budget | observe a control or body frame | used by Cloud and connector |
| connector (`c6-connector`) | pending and active requests of a session, outgoing channel, catalog revision | reconnect, serve a session, publish the catalog | the Cloud; the local server |
| Cloud accounts, workspaces, catalog (`c6-cloud`) | SQLite rows, bootstrap token file | bootstrap, claim, sign in, register, bind, put catalog | the browser, connectors |
| server (`c6-server`) | SQLite rows: server, peers, devices, sessions, invitations, credentials, projects, proposals | claim, invite, renew, log out, revoke, authenticate, create and rename projects, proposals, records | CLI, web, connector; the Git store |
| Git store (`c6-git`) | bare repositories, refs, tombstones | commit, merge, atomic ref update, staged deletion | the `git` program |
| CLI (`c6-cli`, `c6-client`) | config and credential files under a lock | commands | the server |
| core types (`c6-core`) | none | manifest validation, permissions | everyone |
| web interfaces | browser state | presentation | server, Cloud |

### What is hard

* **Runner.** Every connection is a task. A record is looked up before the lock
  that registers a run, and the registration is dropped before the record is
  saved. Saves of one run share a temporary path. The daemon can die between any
  two file operations. Correct means: one execution of a run at a time, no
  execution of a run that has a result, no record under the wrong run, a
  cancellation only when one was asked for, an answer for every command.
* **Scheduler.** The state is read before the tick and persisted after it, with
  crashes and clock steps in between. Correct means: an occurrence is enqueued at
  most once, occurrences do not overlap, an outage causes at most one catch-up
  run, the checkpoint never goes back.
* **Relay registry.** Authentication, registration, revocation, replacement and
  cleanup are separate critical sections over two stores (a map and a database),
  and proxies hold clones of a session's sender. Correct means: a revoked
  installation has no route, an old session does not remove its successor,
  presence is backed by a session, sessions without a route end, every proxied
  request is answered.
* **Relay session.** Two validators must agree although deadlines, lost links and
  late upstream answers cut exchanges anywhere. Correct means: neither end sees a
  frame it refuses, bodies are neither cut nor mixed, every request is answered,
  and the connector survives whatever is not an operator's business.
* **Identity (server).** Authentication, the right of the caller and the change are
  separate sections of the database lock, on several threads; anything may be revoked,
  expire or be redeemed in between, also by the peer that is being served. Correct
  means: a revocation holds for the next request and for good, an invitation enrols one
  peer, the administrator cannot be removed, nobody gets a role that was not granted.
* **Server bootstrap, key and token files.** Several processes may start on one
  directory and die between a file and the transaction that refers to it. Correct
  means: the announced token opens the server, whoever has a key has the same one.
* **Projects and Git over HTTP (server).** The database is behind one lock, the
  repository store behind none, and a handler takes and leaves the lock several times
  with Git operations in between. Correct means: a listed project has its repository,
  a repository without a project is one that an error or a crash has left, what is
  recorded refers to revisions and branches that are there, and a Git response is of
  the repository that was authorised although names change meanwhile.
* **Git store.** There is no lock at all: every operation finds its repository by path,
  and creations, imports, staged deletions, their rollbacks, commits and merges of
  several callers interleave; a removal goes file by file and may stop anywhere. Correct
  means: a branch keeps what it has accepted and reaches only objects that are there, and
  only a deliberate deletion erases.
* **Git transport.** A caller, three threads and two processes share pipes and limits.
  Correct means: a response is whole or an error, nothing is left running, every
  request returns.
* **Cloud accounts and catalog.** A one-time token with its file, requests that are
  authenticated in one section and carried out in another, publications that are given
  up and served later, clocks that are set back. Correct means: a token that was
  handed out stays good until the claim, the directory shows what an authorised
  connector published last, and never goes back. A list that the directory's contract
  refuses is not published at all.
* **Command line.** Commands are processes that share two files under a lock with a
  timeout; some read without it; any may be killed. Correct means: no change of another
  command is lost, tokens stay with the host that issued them, Git may read a token
  only after consent.

`PROJECT.json` lists the hazards one by one, at the line where each bites.

## 2. The modules

```
Runner           ]                            MCRunner
  RunnerDaemon   ] <- RunnerProofs            MCDaemon
RunnerKey        ]                            MCDaemon
Scheduler          <- SchedulerProofs         MCServer
RelayRegistry      <- RelayRegistryProofs     MCRelayRegistry
RelaySession       <- RelaySessionProofs      MCRelaySession
Identity         ] <- IdentityProofs          MCServer
  ServerBootstrap]                            MCServer
GitStore         ] <- GitProofs               MCHosting
SmartHttp        ]                            MCDaemon
BranchLog             (abstract; GitStore implements it)
Projects           <- ProjectsProofs          MCHosting
CloudDirectory
  CatalogPublication  (extends CloudDirectory)
                 ] <- ClientProofs            MCClients
CliState, CliRemote                           MCClients
```

A component module declares constants, variables, one action per operation or
step, `Next`, a specification and its properties. `MC*` modules add the values
the configurations need. `*Proofs` modules extend the component and TLAPS.
Definitions commented as *Mutant* are faulty variants of the definition that
follows; no specification uses them. They show that a property notices the fault.

Some `MC*` modules put components side by side that share no state and no step. A
behaviour then exercises one of them, the `subject`, and leaves the others in their
initial state; the state space is the sum of the components', not the product. A
component's own fairness is stated for the behaviours whose subject it is. In the
same way `MCRelayRegistry` lets a behaviour choose among several sizes.

### Runner (`c6-runner/src/lib.rs`)

One process per connection (`Handlers`). `pc` is the await the task is at:
`Receive` is the dispatch in `handle()`, `LoadRecord`/`Register`/`Decide`/
`Deregister` are the sections of `execute()`, `OpenTmp`/`WriteTmp`/`Chmod`/
`Rename` are the file operations of `FileResultStore::save`, `Cancel`/
`CancelLoad`/`Inspect` the other commands. `ReadFails` and `SaveFails` are I/O
errors; `Crash` loses the tasks and `active` and keeps the files. Files are modelled
as directory entries (`final`, `tmp`) pointing to inodes whose `content` is a
record, `Empty` or `Torn`, because two saves of one run open the same temporary
file and may still write to an inode the other has already renamed. The watch
channel is the set `cancelled`; `Outcomes` is the biased select. A request is
reduced to its identity, its run and whether `validate()` accepts it. `late` is a
history variable.

### Scheduler (`c6-scheduler/src/lib.rs`)

`next_after`, `Decide` and `Evaluate` are the pure functions of the crate, over a
set of instants instead of a cron expression. The control plane around them is not
in the repository; `ReadState`, `Commit`, `CommitCheckpoint`, `Crash` and
`RestartControlPlane` model what the crate's documentation asks of it and are marked external.
The variable `schedule`, which no step changes, holds the policy of the schedule and
whether the claim and the checkpoint share a transaction.
`ClockForward` and `ClockBack` are the injected clock. `lapse` and `enqueued` are
history.

### RelayRegistry (`c6-cloud/src/lib.rs`)

Tasks: `Sessions` (`relay_connect`, `relay_session`), `Proxies` (`relay_proxy`)
and revokers (`revoke_installation`). State: the rows (`revoked`, `connected`), the
map `relays`, and per session its phase, channel (`queue`, capacity one) and current
exchange. A revoker holds the registry lock across its database commit, so it is
two actions with the lock (`revoker`) taken in between; every other locked section
is one action. `HasSender` is reference counting of the channel's senders: the
registration and the clones held by proxies. `ClearPresence` is an action of its own
because the code clears the row after releasing the registry lock. `Restart` stops
the process and runs `Cloud::open`.

### RelaySession (`c6-cloud`, `c6-cloud-core/src/relay.rs`, `c6-connector/src/runtime.rs`)

Two ends, two FIFO queues of frames (`toConn`, `toCloud`), one validator per end
(`cloudState`, `connState`, with `Legal` and `Observe` for `RelaySessionState`).
The Cloud's actions are the steps of `execute_exchange`; the connector's are the
branches of `run_session`. Spawned upstream calls (`calls`) remember the session that
made them, outlive it, and deliver their answer to it only. A head is `plain`,
`invalid` (the validator refuses it) or `long` (the validator accepts it and
`decode_control` does not). Bodies are counted in chunks. `conn = "protocol"` is
the return of `run_reconnecting` with an error that is not `Transport`.

`RelayRegistry` and `RelaySession` describe the same session task at two levels:
an exchange is one step of the first (`ExchangeSucceeds`, `ExchangeFails`) and a
conversation of frames in the second. The rule that a failed or late exchange closes
its session is in both; `EndsAgree` shows why it is needed.

### Identity (`c6-server/src/main.rs`)

Threads (`Handlers`) serve requests, one critical section of the database lock per
action: `Arrive` takes the token of a request, `Authenticate` is `authenticate` or
`authenticate_opaque_token`, `require_global_owner` and
`validate_credential_restriction` are the checks of their names, and an action named
for its handler (`revoke_peer`, `session`, `create_credential`, ...) is the transaction
at its end. `claim` and `redeem_invite` are one transaction and take no thread.
`Answer` is a refusal before the transaction, or the end of a read. A public key is
unique in the schema, and every enrolment creates one user, one device and one session,
the only ones that user will have; so one model value, a *peer*, names all four. The
columns `revoked_at` and `expires_at` are sets of what is revoked and expired; expiry is
an action that may come at any time, because lifetimes only bound it from above.
`who` is the `Principal` a handler holds. `via` and `stale` are history: the invitation
a peer enrolled with, and the requests whose token was dead when they arrived.
`Restart` stops the process, loses the requests and runs `backfill_server_owner`.

### RunnerDaemon, RunnerKey (`c6-runner/src/lib.rs`)

`RunnerDaemon` extends `Runner` with what stands before it: `Connect` reads a frame
and then the clock, `VerifyFails` and `VerifyNonce` are `Authenticator::verify`, which
takes the lock of the nonce cache only then, so a later reading may be used first
(`overtaken`). A payload that does not decode is refused after its nonce was spent. Once an envelope is admitted its command goes through all the steps
of `Runner`. `DaemonCrash` forgets the cache, as a restart does. `RunnerKey` is
`load_or_create_auth_key` by several processes: temporary file, hard link, load.

### ServerBootstrap (`c6-server/src/main.rs`)

`ensure_server` and the token file, step by step, for any number of processes on one
data directory: look, create the file (`create_new`), write it, commit the transaction,
announce. A token is a number in the order of generation; `Torn` is a file without a
valid token. The operator removes such a file only when no process runs, and reads the
file once after the announcement. `claim_server` consumes the token. What comes after
the claim is `Identity`'s.

### GitStore and BranchLog (`c6-git/src/lib.rs`)

`GitStore` has the callers of the store as processes, one file system operation or one
run of git per action: `create`/`InitBare`, `import_local`/`Clone`,
`stage_delete`/`Rename`, the guard's `commit`, `rollback` and `drop` with their failures,
and `commit_changes`/`merge` up to `update_ref`, git's compare-and-swap. A
repository has an identity of its own, which a rename does not change, so an operation that
looked up a path and finds another repository there is a behaviour of the model. A
commit is its object id and `history` what it reaches. `staged` is the tombstone a guard
holds, `abandoned` the tombstones a crash has left. `created`, `accepted` and `contended`
(slugs whose creations or deletions overlapped) are history variables.

`remove_dir_all` ends in one of three ways: `Erase` takes the whole repository, `Damage`
any part of it, that is any of its objects and any of its branches (one that was imported
may fall back to what `packed-refs` says), or nothing happens. After a failing `commit`
what is left is put back (`Restore`), and may be opened and committed to again; the same
removals follow a failing `git init` or `git clone` (`Removed`).

`BranchLog` is what the store promises: a branch is a set of commits, an accepted commit
is added to what was published at that moment in one step, and nothing is taken away but
from a repository whose removal was begun (`removed`), of which nothing is promised any
more. `GitStore` implements it with `published` read off `refs` and `history` and
`removed` off `stage` (`BranchesKeepWhatTheyAccept`). `Projects` assumes of its
repositories what `BranchLog` promises; the only ones the server removes are those of
creations that failed, which no row has named.

### Projects (`c6-server/src/main.rs`)

Request threads over the database and the store: creation (repository, initial commit,
row, cleanup), renames of projects and workspaces, default branches, proposals with
their numbers, runs, deployments, schedules and secret metadata, and Git requests
(`authorize_git_project`, then `Serve`). Each action is one lock section or one call of
the store. Slugs are data that rows exchange, so addresses can be taken over while a
request is under way. Roles are the constant `Rank`; who a caller is belongs to
`Identity`. `strays` and `served` are history.

### SmartHttp (`c6-git/src/smart_http.rs`)

One request with its caller, writer thread, two reader threads, `git http-backend` and
`git upload-pack`, which shares the pipes and survives when its parent is killed. Bytes
are counted in units; pipes have a capacity. The poll looks at the overflow flag and at
the child one after the other, so an overflow may be noticed only at the end.

### CloudDirectory and CatalogPublication (`c6-cloud/src/lib.rs`, `c6-connector`)

`CloudDirectory` is the Cloud as a directory: the bootstrap row and its file with a crash
between any two steps, the claim and its answer, the one session, workspaces,
installations, bindings, `put_catalog` and the two pages that show it. A handler's
authentication (`user`) and its transaction (`Does`) are two actions.
`CatalogPublication` adds the connectors: `run_periodic`, `publish_snapshot`,
`next_revision`, requests in flight, timeouts, lost requests and answers, crashes of both
ends, a clock that may stand still or be set back. `fits` says whether the contract
allows the list as it is, which any local change may alter: the local server accepts
descriptions up to 4096 bytes with several lines and slugs like `a--b`, and lists of any
length. A list that does not fit is refused as a whole, by the connector (`InvalidLocalCatalog`)
or for its size by the Cloud, and tried again (`PublishFails`). Assumptions: there is one account (the
code creates no other), an installation publishes one local workspace, a restarted
connector's clock has passed all revisions it used before, and a connector publishes when
the directory does not yet show its snapshot (what else it sends changes only a revision).

### CliState and CliRemote (`c6-cli`)

`CliState` has commands and Git's credential helper as processes: reading both files,
waiting for the lock or giving up, loading again, and the write of each file through a
temporary one and a rename. A process identifier, which names the temporary file, is used
again after its process has ended. Which alias is the default is left out: a command may
be given any. `CliRemote` is `remote add`: four git commands, each of which may fail and
end it, and Git's rule for lists of credential helpers.

## 3. The runs

| Run | Configuration | Result |
|---|---|---|
| `runner` | 3 handlers, 2 runs, 3 requests | `ActiveExclusive`, `ReplayNeverReexecutes`, `RecordProvenance`, `LoneExecutionDurable`, `CancelledOnlyIfAsked` hold |
| `daemon` | 2 connections with an execution and its cancellation, or 3 with envelopes that are answered at once; 3 processes that create a key; 1 Git request | `AcceptedOnce`, `OneKey`, `ReturnsCleanly`, `EveryConnectionAnswered`, `EveryRequestReturns` hold |
| `runner_final` | 2 handlers, 1 run, one invalid request | `TerminalRecordIsFinal` is violated (finding 1) |
| `registry` | 1 installation with 2 sessions and 2 proxies, or 3 sessions and 1 proxy; 2 installations with 2 sessions and 1 proxy | `RevokedNeverRouted`, `NoGhostPresence`, `CleanupSparesReplacement`, `UnroutedSessionEnds`, `EveryProxyAnswered` hold |
| `registry_presence` | 1 installation, 2 sessions | `RoutedIsPresent` is violated (finding 2) |
| `registry_revoked` | 1 of each | `NoExchangeAfterRevocation` is violated (finding 3) |
| `session` | 3 requests, 2 sessions, bodies of up to 1 chunk, all heads | `EndsAgree`, `BodiesIntact`, `EveryRequestAnswered` hold |
| `session_heads` | 1 request, all heads | `ConnectorKeepsRunning` is violated (finding 4) |
| `server` | 3 peers, 1 invitation, 1 workspace; or 2 peers, 1 invitation, 1 credential, each with 2 threads; or 2 processes that start the server up to 4 times; or a schedule with occurrences 1, 2, 4, horizon 4, 2 outages, both policies, one transaction and two | `EnrolledByAdministrator`, `RoleProvenance`, `NextRequestDenied`, `RevocationSticks`, `TokenOpens`, `AtMostOnce`, `NoOverlap`, `BoundedCatchUp` hold |
| `hosting` | 2 callers of the store, 2 repositories, 2 branches, 4 commits, 4 calls, or 5 without deletions and crashes; or 2 threads, 2 projects, 2 workspaces, 4 requests | `BranchesKeepWhatTheyAccept` (the refinement of `BranchLog`), `RefsResolve`, `ErasedFromTombstone`, `RepositoriesAccounted`, `ProposalsInOrder`, `RecordsHold`, `GitServesWhatWasAuthorised` hold |
| `clients` | the Cloud from its first start with 1 connector, or bound to 2 with revocations or with pages; 2 processes and 4 commands on the files of the command line; 3 `remote add` | `BootstrapHonoured`, `PublishedUnderAuthority`, `PublicationsInOrder`, `EventuallyPublished`, `NothingLost`, `TokensKept`, `OnlyC6IsAsked` hold |
| `catalog_refused` | as `clients` | `EventuallyConsistent` is violated (finding 5) |

The type invariants (`TypeOK`, and a name of its own where a module is combined with
others) state the domains of the variables. All of them are proved, so the runs do not
repeat them; TLC confirms them when they are added to a configuration.

Three properties are conjunctions of two facts about one question, each with its own
definition: `EnrolledByAdministrator` (`InviteSingleUse`, `AdministratorStays`),
`RepositoriesAccounted` (`ListedHasRepository`, `NoStrayRepository`), `ReturnsCleanly`
(`ResponseIsWhole`, `NothingLeftRunning`); so is `TokensKept` (`TokensStayHome`,
`GitTokensByConsent`).

### Bounds

* *Runner*: the sharing of a temporary file needs two saves of a run and somebody who
  looks at the result, hence three handlers. Two runs are needed for mixing records
  up. Each handler serves one command, so the number of commands is bounded by the
  handlers; crashes are bounded because each one kills a live handler.
* *RunnerDaemon*: a window of 1 on a clock of 0..3 lets an envelope be too early, good
  and expired; a cache of one entry is full as soon as it is used. `MaxTime` bounds the
  readings, which may go back.
* *RunnerKey*: two processes race for the link, the third comes when it is there.
* *SmartHttp*: a chunk and a pipe of 2, limits of 3 and bodies of 0, 3 and 7 put the end
  of the output below, at and beyond the limit and across a chunk, and fill a pipe.
* *Scheduler*: 1 and 2 are adjacent, 3 is a gap, 4 is on the horizon; two
  outages let the second interrupt the recovery from the first. `Horizon` bounds the
  clock and `MaxOutages` the crashes. The clock may go back and forth without limit.
* *RelayRegistry*: three sessions are an old one, its replacement and a third that
  replaces that one. A channel of capacity one is contended by two proxies. Each session
  and proxy runs once; restarts and revocations are not bounded.
* *RelaySession*: `MaxSessions` lets an answer of the first session arrive in the
  second. `MaxIds = 2` with three requests spends the ID budget of a session. A body
  has no chunk or one, so an exchange is cut off before, between and after the frames
  of a body; the links are FIFO, so more chunks only repeat the middle. `MaxInFlight` and
  `MaxConcurrent` are 1, which the Cloud's one exchange at a time never exceeds.
* *Identity*: an administrator and two who compete for one invitation make three peers;
  two threads let any request overtake another between its sections. Rows are
  independent of each other, so the behaviours about tokens have two peers, one credential
  and no workspace, and those about enrolment have no credential. Invited roles are a
  reader and an owner. Requests, expiries and restarts are not bounded.
* *ServerBootstrap*: two processes race; four starts (`MaxStarts`) let each die once.
* *GitStore*: a slug, a repository and the one that takes its place, two branches so that
  merges have a source, four commits for two branches that diverge and are merged. Five
  calls (`MaxCalls`) are a creation, commits that race and a merge. Where there are
  deletions as well they are four: a creation, two commits that race, and a deletion with
  its restoration, half-way removals included, or the creation of a successor.
* *Projects*: two projects whose names and workspaces may be exchanged, and four requests
  (`MaxRequests`): two creations and what races after them. Two revisions tell one's own
  from another's.
* *CatalogPublication*: two snapshots of a list (`MaxVersion`), a fault and a crash
  (`MaxFaults`, `MaxCrashes`), `MaxClock` revisions; a publication of a list that is refused
  counts as a fault, or the retries would use up the revisions, so a behaviour in which a
  refused list is never changed waits in the end, as it would go on being refused; lists
  that do not fit are those of one server; two servers only where they compete
  for one workspace, by revocation and a binding of the other's.
* *CliState*: two processes, aliases and hosts; four commands (`MaxCommands`) are two that
  set the scene and two that race. *CliRemote*: `MaxAdds` of 3 repeats over what an earlier
  failure left while another command runs.

Handlers, threads, peers and, in the `hosting` run, processes, branches and
project names are interchangeable, so their permutations are symmetries; no liveness run
uses symmetry. Deadlock checking is off where a finite supply of tasks ends in a state
with nothing left to do.

### Fairness

* tokio polls a ready task again, so a handler, a session task and a proxy that can
  go on do (weak fairness of `Step`, `SessionStep`, `ProxyStep`, `CloudStep`,
  `ConnectorStep`).
* A wait with a deadline ends: the backend by its timeout (in `Step`), the proxy by
  its own (`ProxyStep`), an exchange by success or failure (`SessionStep`), a call of
  the connector to the local server by the client's timeout (`UpstreamReturns`).
* tokio's mutex is FIFO, so a session that waits for the registry lock, which revokers
  take and release over and over, gets it: strong fairness of `Unregister`.
* The lock of the nonce cache is granted and an admitted command goes on (`DaemonFairness`).
* The caller of the Git backend and its three threads run, so its deadline passes; of the
  backend nothing is assumed but that upload-pack, once its parent is gone, does not stay
  for ever (`HttpFairness`; it fails on the closed pipes).
* The Cloud is started again after a crash, serves the requests that have reached it,
  and a connector publishes every interval and gives up at its timeout (`CloudStarts`,
  `Serves`, `Publish`, `GiveUp`). Faults are bounded; claims, registrations, bindings and
  the start of a connector are not assumed.
* Nothing is assumed about `Crash`, `Restart`, lost links, clients that go away or the
  arrival of requests. In `RelaySession` the Cloud's deadline is not assumed
  to fire either: requests are answered without its help.

## 4. What the checks found

1. **A terminal record can be replaced** (`runner_final`). `execute()` looks for a
   record before it takes the lock and deregisters before it saves. A retry that looks
   while the first execution runs, and takes the lock after the first deregisters,
   executes the run again. `docs/RUNNER.md` lines 33-34 promise idempotent replay and
   durable terminal results. What does hold, and is proved: no retry that *arrives*
   after a result exists executes.
2. **A served installation can be shown offline** (`registry_presence`). The row is
   cleared after the registry lock is released; a successor that registers in between
   loses its `connected_at` until it reconnects.
   `docs/architecture/CONNECTOR_AND_RELAY.md` lines 74-75.
3. **A request can be carried out after the revocation** (`registry_revoked`). A proxy
   that looked the route up earlier still has the sender. `docs/OPERATIONS.md`
   lines 164-165. The session does end once such proxies have answered
   (`UnroutedSessionEnds`).
4. **One head ends the connector** (`session_heads`). A request head that the
   Cloud's validator accepts and the connector's frame limit does not, or a response
   head the connector's own validator refuses, is a protocol error, after which
   `run_reconnecting` returns. Its comment (`runtime.rs` line 59) names cancellation
   and authentication failure as the only ends. These two kinds of head are the whole
   cause: without them no session ends the connector (`OnlyHeadsEndTheConnector`, proved).
5. **One project keeps the whole list from the directory** (`catalog_refused`). A project
   that `c6-server` accepts and the Cloud contract does not makes `snapshot_request` fail,
   and `run_periodic` retries for ever; changes of all other projects stay unpublished
   with it. `docs/architecture/SYSTEM_CONTEXT.md` line 68 calls the catalog an eventually
   consistent projection. It is, while the list fits (`EventuallyPublished`), and again
   once the project is changed.

What the proofs of `GitStore` had to except is worth knowing. `commit` removes the
tombstone recursively; if that fails half-way (`lib.rs` line 263), `Drop` renames what is
left to the live path, where `open` takes any bare repository, with objects or branches
missing, although the comment of `delete` (lines 212-213) says that the move to the
tombstone "ensures requests can no longer open it before recursive removal begins". The
server answers deletions with 501 today, so this waits for the first caller. What does
hold, and is proved: only a repository whose own removal was begun loses anything
(`Resolvable`, `Implements`, `AcceptedIsKept`), and removals begin only in the tombstone of
a guard, or under a slug whose creations and deletions overlap (`ErasedOnlyStaged`).

The proof of `ReturnsCleanly` showed what it depends on: `RoomForHeader`, that a header
and one read of 16 KiB fit into `max_header_bytes`. `stdout_reader` drops a chunk that
would exceed the limit for header and body together, and the caller sees the overflow
only while it polls; if it misses it, the response is refused because what was kept of
the body exceeds `max_response_bytes`, or because no header ends within its limit.
`validate_limits` accepts header limits from 128 bytes on, and for one without that room
(in the model, header 2, chunk 2 and a limit of 3) a response that was cut can pass both
tests. The server uses only the defaults, which leave 32 KiB.

## 5. What is proved

Every safety property of the passing runs, and every type invariant, is a theorem. It
holds for any number of handlers, runs, requests, occurrences, installations, sessions,
proxies, peers, repositories, projects, commands and processes; the sets need not be
finite. Each proof has the same shape: a lemma that `Init` implies an inductive
invariant, lemmas that `[Next]_vars` preserves it, with a step per action, the theorem
that it always holds, and corollaries for the properties.

* **RunnerProofs**, from `RunnerAssumption` (run IDs of requests exist, the markers are
  not handlers). `IInv` adds to `TypeOK`: *Registered*, `active` names
  exactly the executing handlers (gives `ActiveExclusive`); *LateBlocked*, a late handler is in
  none of the phases behind the lookup, which needs that a result file, once there,
  stays (gives `ReplayNeverReexecutes`); *RunOwnsInodes*, inodes reachable through a
  run's paths or open file descriptors were created by and contain only handlers of
  that run (gives `RecordProvenance`). The last is what makes torn and shared temporary
  files harmless to provenance: tearing never crosses runs. `RunnerInv` adds
  *CancelsAnswered*, whose channel is set has been the target of a cancel command that was
  acknowledged (gives `CancelledOnlyIfAsked`), and *LoneSaves*, a handler that alone has
  built a record of its run has the temporary inode, then the result, to itself (gives
  `LoneExecutionDurable`).
  From `DaemonAssumption`: *Remembered*, an accepted envelope is in the cache or has expired
  at the newest reading; while readings reach the cache in order, what has expired stays so.
  This gives `AcceptedOnce` for every window and every size of the cache. `DaemonIsRunner`
  is a refinement: each step of the daemon with its gate is a step of `Runner` or a
  stutter, so the five properties hold behind the gate too (`ServiceBehindTheGate`); and what a
  handler serves is what was signed for its own connection (`OnlySignedDispatched`).
  From `KeyAssumption`, `KeyInv` gives `OneKey`: whoever is about to link has written its own
  key, and the key file stays the first that was linked.
* **SchedulerProofs**, from `SchedulerAssumption`. `IInv` adds: *Fresh*, what the
  control plane has read is still so, except that a run may have ended; *Pending*, an
  outcome that is to be committed was decided on claims and an active run that nothing has outdated in the
  harmful direction (runs only end, claims only come from this control plane);
  *ClaimCounts*, an occurrence is enqueued at most once and is then claimed. These give
  `AtMostOnce`, `NoOverlap` and `CheckpointMonotone` (the checkpoint never goes back), with or without an atomic commit.
  `BoundedCatchUp` needs `CatchUpInv` on top: *Settled*, what lapsed and was not enqueued is
  behind the checkpoint once a tick has been evaluated, or the clock will pass it again;
  *Hidden*, of the occurrences of one outage, one that was enqueued hides the others, because
  the evaluation always takes the first after the checkpoint; *CatchUpPending*, a pending
  decision is for that first occurrence, and for a lapsed one only under `run_once`. *Hidden*
  is what holds when the clock steps back over occurrences and passes them again.
* **RelayRegistryProofs**, from `RegistryAssumption` (`None` is not a task or an
  installation). `IInv` adds: *Routed*, a registered session is registered for its own
  installation and has not ended; *Known*, a live session has an
  installation, and the revoker that holds the lock has committed. These give
  `RevokedNeverRouted`,
  `NoGhostPresence` and `CleanupSparesReplacement`.
* **RelaySessionProofs**, from `SessionAssumption`. `SessionInv` numbers the frames of an
  exchange in each direction. *ToConnector* and *ToCloud*: the frames on a link are those
  between what the sender has sent (`Written`, `replied`) and what the receiver has taken
  (`Read`, `Taken`), each the one its number calls for; both counts are read off the
  validators. *CloudEnd* and *ConnectorEnd* tie the ends' own variables to their validators,
  *OneExchange* says that the flows of all other requests are equal and closed, and *Once*
  that a request is relayed, called and answered once, however late the answer comes. So
  the next frame is one the receiver's validator accepts: `EndsAgree`, and `BodiesIntact`
  with it. `OnlyHeadsEndTheConnector` shows that finding 4 is complete: if request
  heads fit a frame and response heads are valid, no session ends the connector, however it
  ends. `NothingServedTwice`: a request, which has a fresh identifier, reaches the local server
  at most once over all sessions.

* **IdentityProofs**, from `IdentityAssumption` (peers and credentials are disjoint,
  `None` is neither). `IInv` adds: *Administered*, a claimed server has an administrator
  who is enrolled and not revoked; *Principals*, a handler past authentication holds the
  user of its token, and past `require_global_owner` that user is the administrator;
  *Enrolled*, the invitation of a peer is redeemed by that peer and was created by the
  administrator; *StaleDenied*, a request whose token came dead still waits for
  authentication with a dead token. `revoke_peer` compares its target only with the
  caller, so `AdministratorStays` needs *Principals* across the gap between the check and
  the transaction; `NextRequestDenied` needs *DeadStays*, the lemma that no step revives
  a token, which is also `RevocationSticks`. `InviteSingleUse` and `RoleProvenance`
  follow from *Enrolled*, and `EnrolledByAdministrator` from both.
  From `BootstrapAssumption`, `BootstrapInv` adds *AfterSettings*, *Held* and *FileLeads*:
  before anybody has read or claimed, one process at a time fills the file, whoever is about
  to commit a token of the file holds what the file holds, and from the announcement on the
  file holds what was committed. `TokenOpens` speaks of the time after that and is not
  inductive without it.
* **GitProofs**, from `GitAssumption`. `GInv` adds: *HistoriesClosed*, a commit that
  has been made keeps its history, which holds those of all it reaches; *ObjectsComplete*, an
  object store that has a commit has what it reaches; *RefsPresent*, a branch names a commit
  that was made and points into the store of its own repository (both but for a repository
  that a removal has left damaged, of which only the commits it names are known to have been
  made); *Callers*, what a caller is about to publish extends what
  it has read by a commit that was not there. They give `RefsResolve`. `PathInv` adds
  *Apart*, a repository is at one path or in one tombstone and is not erased while it is
  there, and *Undisturbed*, under a slug whose creations and deletions have not overlapped
  one caller is at work and what it might remove was returned by no call; they give
  `ErasedFromTombstone`. With *Apart* no step makes a removed repository count as kept
  again, so every step of the store is an `Accept` or a `Remove` of `BranchLog` or leaves
  it alone (`Implements`: `BranchesKeepWhatTheyAccept`). `AcceptedIsKept` carries the
  abstract invariant `Kept` over: what a caller was told was published is never lost from a
  repository whose removal was not begun.
  From `SmartHttpAssumption` and `RoomForHeader`, `HttpInv` gives `ReturnsCleanly`: *Kept*,
  the reader has kept all that left the pipe or dropped a chunk of a response that is too large;
  *Drained*, a reader that has ended saw every process close its pipe; *CallerKnows*, what the
  caller's progress says of child and threads.
* **ProjectsProofs**, from `ProjectsAssumption`. `PInv` adds *Creation* and *Alone*, a creation
  works on an identifier that is not listed, that no other request has, and whose repository is in
  the state its progress says; *Visit*, any other request came to its project through its
  row, which stays listed, and the branch, revision or role that it looked up is
  still there when it uses it, because these only grow; *ProposalsKept*, proposals belong to
  listed projects. They give `RepositoriesAccounted`, `RecordsHold`,
  `GitServesWhatWasAuthorised` and, with finite sets of proposals, `ProposalsInOrder`.
* **ClientProofs.** `CliInv`: *Current*, what a command under the lock is about to write is the
  files as they are with its own change, and what a command without it has read of the
  servers still stands, because no command gives an alias another host; *OneHolder*. They give
  `NothingLost` and `TokensKept`. `RemoteInv`: from the first `git config` of a `remote add` on
  the list of helpers is an empty one followed by C6 (gives `OnlyC6IsAsked`). From
  `CloudAssumption` and `CatalogAssumption`, `CatalogInv`: *TokenInv* for the bootstrap
  token; *Numbered*, a revision in use is one the connector will not give again;
  *RequestsInOrder* and *CatalogCurrent*, among what is on its way and what is published
  a larger revision never carries an older snapshot; *ShownBehind*, a page is what is
  published or was with a smaller revision. They give `BootstrapHonoured`,
  `PublishedUnderAuthority` and `PublicationsInOrder`.

Model-checked only: liveness (`EveryConnectionAnswered`, `EveryRequestReturns`,
`UnroutedSessionEnds`, `EveryProxyAnswered`, `EveryRequestAnswered`,
`EventuallyPublished`). Liveness under fairness and `ENABLED` are out of the prover's reach,
as are induction over data and `RECURSIVE` operators; the modules use neither of the last
two.

## 6. What is left out

* *Runner*: socket framing beyond a frame that fails, the simulator's plan (the backend may
  end in any way), the truncation of logs, and the socket file: a daemon that shuts down
  removes the file at its path, also one that a successor has bound meanwhile.
* *Scheduler*: cron parsing and time zones, which decide only which instants are
  occurrences; several schedules, which share no state.
* *Registry*: failing database statements, among them the one that clears the presence and
  whose error is dropped; HTTP details.
* *Session*: `Cancel`, which neither end sends (one that crossed the last frame of its
  response would be an unknown request for the connector); keepalive pings; the byte codec
  and the header rules beyond accepted and refused; backoff times; more than one exchange of
  a session at a time, which the Cloud never starts; the limit on upstream calls across
  sessions (calls of an ended session are not counted by the next).
* *Identity*: names and labels, CSRF tokens (a request without one is refused like any
  malformed request), scopes of credentials, `last_used_at`, audit rows, lists.
* *Projects*: deletions, which answer 501; lists and read-only pages; the contents of
  manifests. *Git store*: queries, contents of files, what a `git init` or `git clone` that is
  killed leaves where nothing was (a directory that no call returned), and the case of an import whose
  cleanup removes what another caller has created under the same slug, which
  `ErasedFromTombstone` excludes (the server names repositories by fresh UUIDs).
* *Git transport*: an error of `try_wait`, which ends the request as its timeout does, and
  the size check before the backend is started, which changes nothing.
* *Catalog*: a project that is refused before the list is numbered, or a list too long to be
  read, leaves everything as it was; only the refusal that uses up a revision is a step.
* *Cloud*: heartbeat, which only reads; the local workspaces of an installation beyond one.
  The answer of a claim or of a registration may be lost, and the model has it lost;
  nothing in the code recovers from it, so no property speaks of it.
* *Command line*: the default alias, argument parsing, printing, and the commands that only
  ask a server.
* *Not modelled at all*: value types, parsing and serialisation, the tables of
  `c6-core`'s permissions (the server compares ranks by a function of its own, which is
  modelled), the stateless HTTP client, the web interfaces, packaging.

## 7. Plan

1. An abstract specification of an exchange (a request is refused, or served and answered
   once or cut off), implemented by `RelaySession` and used by `RelayRegistry`.
2. An abstract specification of `Scheduler`'s claims (an occurrence goes from open to
   enqueued or skipped, once) and of the runner's results, with proofs that they are
   implemented.
3. The abstract invariants of `Projects` about repositories stated over `BranchLog`, so that
   the two modules compose.
