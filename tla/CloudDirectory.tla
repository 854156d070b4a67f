--------------------------- MODULE CloudDirectory ---------------------------
(***************************************************************************)
(* The Cloud process as a directory: its one-time bootstrap token, the     *)
(* account's session, workspaces, installations, bindings and the catalog  *)
(* a connector publishes.  Every handler authenticates in one critical     *)
(* section of the database lock and acts in a transaction of a second, so  *)
(* whatever happens between the two is an interleaving of this module.     *)
(*                                                                         *)
(* There is one account, the claimer's: nothing else creates one, and one  *)
(* session, which claiming opens.  A workspace is named by its namespace,  *)
(* an installation by the local server it is of, since both are unique for *)
(* an account; an installation publishes one local workspace.              *)
(***************************************************************************)
EXTENDS Naturals, FiniteSets

CONSTANTS Namespaces, Servers,
          Tabs,             \* concurrent requests of the account
          MaxCrashes,       \* bound on the crashes of Cloud and connectors
          NoServer

ASSUME CloudAssumption == NoServer \notin Servers /\ MaxCrashes \in Nat

VARIABLES cloud,            \* phase of the process
          hash,             \* setting bootstrap_hash: the token, 0 if none
          issued,           \* bootstrap tokens ever generated
          file,             \* the token file: absent, or what it holds
          claimed,          \* setting bootstrap_claimed
          removing,         \* a claim has yet to remove the file
          session,          \* "none", "live" or "dead"
          cookie,           \* whether the browser got the session's cookie
          pending,          \* tab -> what its authenticated request will do
          workspaces,
          installation,     \* server -> "none", "active" or "revoked"
          delivered,        \* servers whose connector token was received
          bound,            \* workspace -> the server bound to it
          catalog,          \* workspace -> what is published, by whom
          shown,            \* history: workspace -> what a page showed last
          handed,           \* history: tokens the operator has read
          crashes

bootstrapVars == <<hash, issued, file, claimed, removing, handed>>
directoryVars == <<workspaces, installation, delivered, bound>>
projection == <<catalog, shown>>
cloudVars == <<cloud, bootstrapVars, session, cookie, pending, directoryVars,
               projection, crashes>>

Absent == [exists |-> FALSE, token |-> 0]
Holding(t) == [exists |-> TRUE, token |-> t]
Unpublished == [revision |-> 0, version |-> 0, by |-> NoServer]

Operations == {"create_workspace", "register_installation", "bind_installation",
               "revoke_installation", "logout", "list_workspaces", "directory_project"}

CloudInit ==
    /\ cloud = "down"
    /\ hash = 0 /\ issued = 0 /\ file = Absent
    /\ claimed = FALSE /\ removing = FALSE /\ handed = {}
    /\ session = "none" /\ cookie = FALSE
    /\ pending = [h \in Tabs |-> "none"]
    /\ workspaces = {}
    /\ installation = [s \in Servers |-> "none"]
    /\ delivered = {}
    /\ bound = [w \in Namespaces |-> NoServer]
    /\ catalog = [w \in Namespaces |-> Unpublished]
    /\ shown = catalog
    /\ crashes = 0
-----------------------------------------------------------------------------
(* Mutant: a token file that is missing is made again, with a new token. *)
OpenRegenerating ==
    /\ cloud = "down"
    /\ IF ~claimed /\ (hash = 0 \/ ~file.exists)
         THEN /\ issued < 2
              /\ hash' = issued + 1
              /\ issued' = issued + 1
              /\ cloud' = "create"
         ELSE cloud' = "serving" /\ UNCHANGED <<hash, issued>>
    /\ UNCHANGED <<file, claimed, removing, handed, session, cookie, pending,
                   directoryVars, projection, crashes>>

(* open and ensure_bootstrap: the hash is stored before the file is made;  *)
(* a file that is missing later is not made again.                         *)
Open ==
    /\ cloud = "down"
    /\ IF ~claimed /\ hash = 0
         THEN /\ hash' = issued + 1
              /\ issued' = issued + 1
              /\ cloud' = "create"
         ELSE cloud' = "serving" /\ UNCHANGED <<hash, issued>>
    /\ UNCHANGED <<file, claimed, removing, handed, session, cookie, pending,
                   directoryVars, projection, crashes>>

(* write_private: create_new, then the token. *)
CreateTokenFile ==
    /\ cloud = "create"
    /\ IF file.exists THEN cloud' = "down" /\ UNCHANGED file
                      ELSE cloud' = "fill" /\ file' = Holding(0)
    /\ UNCHANGED <<hash, issued, claimed, removing, handed, session, cookie, pending,
                   directoryVars, projection, crashes>>

FillTokenFile ==
    /\ cloud = "fill"
    /\ cloud' = "serving"
    /\ file' = Holding(hash)
    /\ UNCHANGED <<hash, issued, claimed, removing, handed, session, cookie, pending,
                   directoryVars, projection, crashes>>

(* The operator reads the file, and may put it away. *)
OperatorReads ==
    /\ file.exists /\ file.token # 0 /\ ~claimed
    /\ handed' = handed \cup {file.token}
    /\ file' \in {file, Absent}
    /\ UNCHANGED <<cloud, hash, issued, claimed, removing, session, cookie, pending,
                   directoryVars, projection, crashes>>

(* The process dies, or a write of the start fails, which ends it too.     *)
CloudStops ==
    /\ cloud' = "down"
    /\ removing' = FALSE
    /\ pending' = [h \in Tabs |-> "none"]
    /\ crashes' = crashes + 1
    /\ crashes < MaxCrashes
    /\ UNCHANGED <<hash, issued, file, claimed, handed, session, cookie,
                   directoryVars, projection>>

(* claim_bootstrap: one transaction.  If the process dies before it has    *)
(* answered, the only session there will be is nobody's.                   *)
claim_bootstrap(t) ==
    /\ cloud = "serving"
    /\ ~claimed
    /\ hash = t
    /\ claimed' = TRUE
    /\ hash' = 0
    /\ session' = "live"
    /\ removing' = TRUE
    /\ UNCHANGED <<cloud, issued, file, handed, cookie, pending, directoryVars,
                   projection, crashes>>

(* The consumed file is removed after the commit, then comes the answer.   *)
ClaimAnswered ==
    /\ removing
    /\ removing' = FALSE
    /\ file' = Absent
    /\ cookie' \in BOOLEAN
    /\ UNCHANGED <<cloud, hash, issued, claimed, handed, session, pending,
                   directoryVars, projection, crashes>>
-----------------------------------------------------------------------------
SessionEnds ==
    /\ session = "live"
    /\ session' = "dead"
    /\ UNCHANGED <<cloud, bootstrapVars, cookie, pending, directoryVars, projection,
                   crashes>>

(* user: the session is live when it is looked up. *)
user(h, operation) ==
    /\ cloud = "serving"
    /\ pending[h] = "none"
    /\ cookie /\ session = "live"
    /\ pending' = [pending EXCEPT ![h] = operation]
    /\ UNCHANGED <<cloud, bootstrapVars, session, cookie, directoryVars, projection,
                   crashes>>

(* The second critical section; an error answers and changes nothing. *)
Does(h, operation) ==
    /\ pending[h] = operation
    /\ pending' = [pending EXCEPT ![h] = "none"]
    /\ UNCHANGED <<cloud, bootstrapVars, cookie, crashes>>

Fails(h) ==
    /\ \E operation \in Operations : Does(h, operation)
    /\ UNCHANGED <<session, directoryVars, projection>>

logout(h) ==
    /\ Does(h, "logout")
    /\ session' = "dead"
    /\ UNCHANGED <<directoryVars, projection>>

create_workspace(h, w) ==
    /\ Does(h, "create_workspace")
    /\ w \notin workspaces
    /\ workspaces' = workspaces \cup {w}
    /\ UNCHANGED <<session, installation, delivered, bound, projection>>

(* The answer carries the connector token, once; it may not arrive, and    *)
(* then nothing brings the token back.                                     *)
register_installation(h, s) ==
    /\ Does(h, "register_installation")
    /\ installation[s] = "none"
    /\ installation' = [installation EXCEPT ![s] = "active"]
    /\ delivered' \in {delivered, delivered \cup {s}}
    /\ UNCHANGED <<session, workspaces, bound, projection>>

(* A revoked installation may still be bound. *)
bind_installation(h, w, s) ==
    /\ Does(h, "bind_installation")
    /\ installation[s] # "none"
    /\ w \in workspaces
    /\ bound[w] = NoServer
    /\ \A v \in Namespaces : bound[v] # s
    /\ bound' = [bound EXCEPT ![w] = s]
    /\ UNCHANGED <<session, workspaces, installation, delivered, projection>>

revoke_installation(h, s) ==
    /\ Does(h, "revoke_installation")
    /\ installation[s] # "none"
    /\ installation' = [installation EXCEPT ![s] = "revoked"]
    /\ UNCHANGED <<session, workspaces, delivered, bound, projection>>

(* Every workspace, with what is published there, be its installation      *)
(* revoked or not.                                                         *)
list_workspaces(h) ==
    /\ Does(h, "list_workspaces")
    /\ shown' = [w \in Namespaces |-> IF w \in workspaces /\ bound[w] # NoServer
                                      THEN catalog[w] ELSE shown[w]]
    /\ UNCHANGED <<session, directoryVars, catalog>>

(* A project of an installation that is not revoked. *)
directory_project(h, w) ==
    /\ Does(h, "directory_project")
    /\ w \in workspaces /\ catalog[w] # Unpublished
    /\ installation[bound[w]] = "active"
    /\ shown' = [shown EXCEPT ![w] = catalog[w]]
    /\ UNCHANGED <<session, directoryVars, catalog>>
-----------------------------------------------------------------------------
(* connector: the credential and its installation are not revoked. *)
connector(s) == cloud = "serving" /\ installation[s] = "active"

(* Mutants: the revision need not be new; what connector saw is enough.    *)
AcceptsAny(s, w, revision) ==
    bound[w] = s /\ installation[s] = "active"

AcceptsAuthenticated(s, w, revision) ==
    bound[w] = s /\ revision > catalog[w].revision

(* put_catalog: the conditions its transaction looks up again. *)
Accepts(s, w, revision) ==
    /\ bound[w] = s
    /\ installation[s] = "active"
    /\ revision > catalog[w].revision

(* The projects of the binding are replaced as a whole. *)
put_catalog(s, w, revision, version) ==
    /\ UNCHANGED shown
    /\ catalog' = IF Accepts(s, w, revision)
                  THEN [catalog EXCEPT ![w] =
                           [revision |-> revision, version |-> version, by |-> s]]
                  ELSE catalog

CloudHandlers ==
    \/ Open
    \/ CreateTokenFile
    \/ FillTokenFile
    \/ OperatorReads
    \/ \E t \in handed : claim_bootstrap(t)
    \/ ClaimAnswered
    \/ SessionEnds
    \/ \E h \in Tabs, operation \in Operations : user(h, operation)
    \/ \E h \in Tabs : Fails(h)
    \/ \E h \in Tabs : logout(h)
    \/ \E h \in Tabs, w \in Namespaces : create_workspace(h, w)
    \/ \E h \in Tabs, s \in Servers : register_installation(h, s)
    \/ \E h \in Tabs, w \in Namespaces, s \in Servers : bind_installation(h, w, s)
    \/ \E h \in Tabs, s \in Servers : revoke_installation(h, s)
    \/ \E h \in Tabs : list_workspaces(h)
    \/ \E h \in Tabs, w \in Namespaces : directory_project(h, w)
-----------------------------------------------------------------------------
(* ensure_bootstrap ("would replace the credential represented by the      *)
(* persisted verifier"): a token the operator has read opens the Cloud     *)
(* until it is claimed, whatever crash and restart come in between.        *)
BootstrapHonoured == \A t \in handed : claimed \/ hash = t

(* connector and put_catalog: what is published for a workspace was        *)
(* published by the installation bound to it, and nothing is from the      *)
(* moment it is revoked, although its request may have been authenticated  *)
(* before.                                                                 *)
PublishedUnderAuthority ==
    [][\A w \in Namespaces : catalog'[w] # catalog[w] =>
          /\ catalog'[w].by = bound[w]
          /\ installation[bound[w]] = "active"]_cloudVars
=============================================================================
