------------------------------ MODULE Identity ------------------------------
(***************************************************************************)
(* Peers, invitations, sessions and credentials of the C6 server.  A       *)
(* handler authenticates in one critical section of the database lock,     *)
(* checks the caller's rights in the next, and changes rows in a           *)
(* transaction of a third; handlers run on several threads, so anything    *)
(* may be revoked, expire or be redeemed in between.  Enrolment (claim and *)
(* redeem_invite) is one transaction and needs no handler.                 *)
(*                                                                         *)
(* A public key is unique and every enrolment creates one user, one device *)
(* and one session, the only ones they will ever have: all three are named *)
(* by the public key, a peer.  A secret is named by what it opens, so a    *)
(* token is a peer (the cookie of its session) or a credential; nobody     *)
(* else can present it.  Roles are their ranks.  Expiry may strike         *)
(* whenever it likes; the clock does not go back.                          *)
(***************************************************************************)
EXTENDS Naturals, FiniteSets

CONSTANTS Peers, Invites, Credentials, Workspaces,
          Handlers,   \* threads that serve requests, one after the other
          Roles,      \* ranks an invitation may carry
          None

Reader == 1
Owner == 5

ASSUME IdentityAssumption ==
    /\ Roles \subseteq Nat
    /\ Owner \in Roles
    /\ Peers \cap Credentials = {}
    /\ None \notin Peers \cup Invites \cup Credentials \cup Workspaces \cup Roles

VARIABLES server_owner,     \* setting, None until the server is claimed
          bootstrap,        \* whether bootstrap_hash is still there
          users,            \* enrolled peers
          user_revoked, device_revoked, session_revoked, session_expired,
          invited_by,       \* invitation -> its creator, None if not created
          invite_role, invite_workspace, redeemed_by, invite_expired,
          holder,           \* credential -> its user, None if not issued
          credential_revoked, credential_expired,
          member,           \* workspace -> peer -> role, or None
          pc, op, token, who,   \* handlers; who is the Principal
          via,              \* history: the invitation a peer enrolled with
          stale             \* history: handlers whose token came dead

sessions == <<user_revoked, device_revoked, session_revoked, session_expired>>
invitations == <<invited_by, invite_role, invite_workspace, redeemed_by,
                 invite_expired>>
credentials == <<holder, credential_revoked, credential_expired>>
enrolment == <<server_owner, bootstrap, users, via>>
handlers == <<pc, op, token, who, stale>>
vars == <<enrolment, sessions, invitations, credentials, member, handlers>>

OwnerOps == {"create_invite", "revoke_peer", "create_workspace"}
SelfOps == {"revoke_device", "revoke_session", "logout", "session",
            "revoke_credential"}
BrowserOps == OwnerOps \cup SelfOps \cup {"create_credential"}
Phases == {"idle", "authenticate", "owner", "restriction", "act"}

(* Rows refer to rows that exist. *)
TypeOK ==
    /\ server_owner \in Peers \cup {None}
    /\ bootstrap \in BOOLEAN
    /\ users \in SUBSET Peers
    /\ user_revoked \in SUBSET users
    /\ device_revoked \in SUBSET users
    /\ session_revoked \in SUBSET users
    /\ session_expired \in SUBSET users
    /\ invited_by \in [Invites -> users \cup {None}]
    /\ invite_role \in [Invites -> Roles]
    /\ invite_workspace \in [Invites -> Workspaces \cup {None}]
    /\ redeemed_by \in [Invites -> users \cup {None}]
    /\ invite_expired \in SUBSET Invites
    /\ holder \in [Credentials -> users \cup {None}]
    /\ credential_revoked \in SUBSET Credentials
    /\ credential_expired \in SUBSET Credentials
    /\ member \in [Workspaces -> [Peers -> Roles \cup {None}]]
    /\ pc \in [Handlers -> Phases]
    /\ op \in [Handlers -> BrowserOps \cup {"read"}]
    /\ token \in [Handlers -> Peers \cup Credentials \cup {None}]
    /\ who \in [Handlers -> users \cup {None}]
    /\ via \in [Peers -> Invites \cup {None}]
    /\ stale \in SUBSET Handlers

Init ==
    /\ server_owner = None
    /\ bootstrap = TRUE
    /\ users = {}
    /\ user_revoked = {} /\ device_revoked = {}
    /\ session_revoked = {} /\ session_expired = {}
    /\ invited_by = [i \in Invites |-> None]
    /\ invite_role = [i \in Invites |-> Owner]
    /\ invite_workspace = [i \in Invites |-> None]
    /\ redeemed_by = [i \in Invites |-> None]
    /\ invite_expired = {}
    /\ holder = [c \in Credentials |-> None]
    /\ credential_revoked = {} /\ credential_expired = {}
    /\ member = [w \in Workspaces |-> [u \in Peers |-> None]]
    /\ pc = [h \in Handlers |-> "idle"]
    /\ op = [h \in Handlers |-> "read"]
    /\ token = [h \in Handlers |-> None]
    /\ who = [h \in Handlers |-> None]
    /\ via = [u \in Peers |-> None]
    /\ stale = {}
-----------------------------------------------------------------------------
(* The WHERE clauses of authenticate and authenticate_opaque_token. *)
SessionLive(u) ==
    u \in users \ (user_revoked \cup device_revoked
                      \cup session_revoked \cup session_expired)

(* Mutant: the device a credential was issued on is not looked up. *)
CredentialLiveAnyDevice(c) ==
    /\ holder[c] # None
    /\ c \notin credential_revoked \cup credential_expired
    /\ holder[c] \notin user_revoked

CredentialLive(c) ==
    /\ holder[c] # None
    /\ c \notin credential_revoked \cup credential_expired
    /\ holder[c] \notin user_revoked \cup device_revoked

TokenLive(t) == IF t \in Peers THEN SessionLive(t) ELSE CredentialLive(t)
UserOf(t) == IF t \in Peers THEN t ELSE holder[t]

(* What the documentation counts as revoked or expired; `stale` uses it.   *)
Dead(t) ==
    \/ UserOf(t) \in user_revoked \cup device_revoked
    \/ t \in session_revoked \cup session_expired
    \/ t \in credential_revoked \cup credential_expired

require_role(u, w, min) == member[w][u] # None /\ member[w][u] >= min

Goto(h, phase) == pc' = [pc EXCEPT ![h] = phase]

(* The answer is sent and the thread free for another request. *)
Finish(h) ==
    /\ pc' = [pc EXCEPT ![h] = "idle"]
    /\ op' = [op EXCEPT ![h] = "read"]
    /\ token' = [token EXCEPT ![h] = None]
    /\ who' = [who EXCEPT ![h] = None]
    /\ stale' = stale \ {h}
-----------------------------------------------------------------------------
(* claim: the first user, with the right bootstrap token. *)
claim(u) ==
    /\ users = {}
    /\ bootstrap
    /\ users' = {u}
    /\ server_owner' = u
    /\ bootstrap' = FALSE
    /\ UNCHANGED <<via, sessions, invitations, credentials, member, handlers>>

(* Mutant: a redeemed invitation is taken again. *)
redeem_again(u, i) ==
    /\ u \notin users
    /\ invited_by[i] # None
    /\ i \notin invite_expired
    /\ users' = users \cup {u}
    /\ redeemed_by' = [redeemed_by EXCEPT ![i] = u]
    /\ member' = IF invite_workspace[i] = None THEN member
                 ELSE [member EXCEPT ![invite_workspace[i]][u] = invite_role[i]]
    /\ via' = [via EXCEPT ![u] = i]
    /\ UNCHANGED <<server_owner, bootstrap, sessions, credentials, handlers,
                   invited_by, invite_role, invite_workspace, invite_expired>>

(* Mutant: the invitee names the role. *)
redeem_as_owner(u, i) ==
    /\ u \notin users
    /\ invited_by[i] # None
    /\ redeemed_by[i] = None
    /\ i \notin invite_expired
    /\ users' = users \cup {u}
    /\ redeemed_by' = [redeemed_by EXCEPT ![i] = u]
    /\ \E w \in Workspaces : member' = [member EXCEPT ![w][u] = Owner]
    /\ via' = [via EXCEPT ![u] = i]
    /\ UNCHANGED <<server_owner, bootstrap, sessions, credentials, handlers,
                   invited_by, invite_role, invite_workspace, invite_expired>>

(* redeem_invite: a key that is taken is a conflict and rolls back. *)
redeem_invite(u, i) ==
    /\ u \notin users
    /\ invited_by[i] # None
    /\ redeemed_by[i] = None
    /\ i \notin invite_expired
    /\ users' = users \cup {u}
    /\ redeemed_by' = [redeemed_by EXCEPT ![i] = u]
    /\ member' = IF invite_workspace[i] = None THEN member
                 ELSE [member EXCEPT ![invite_workspace[i]][u] = invite_role[i]]
    /\ via' = [via EXCEPT ![u] = i]
    /\ UNCHANGED <<server_owner, bootstrap, sessions, credentials, handlers,
                   invited_by, invite_role, invite_workspace, invite_expired>>

(* Time passes. *)
SessionExpires(u) ==
    /\ u \in users \ session_expired
    /\ session_expired' = session_expired \cup {u}
    /\ UNCHANGED <<enrolment, user_revoked, device_revoked, session_revoked,
                   invitations, credentials, member, handlers>>

InviteExpires(i) ==
    /\ invited_by[i] # None /\ i \notin invite_expired
    /\ invite_expired' = invite_expired \cup {i}
    /\ UNCHANGED <<enrolment, sessions, invited_by, invite_role, invite_workspace,
                   redeemed_by, credentials, member, handlers>>

CredentialExpires(c) ==
    /\ holder[c] # None /\ c \notin credential_expired
    /\ credential_expired' = credential_expired \cup {c}
    /\ UNCHANGED <<enrolment, sessions, invitations, holder, credential_revoked,
                   member, handlers>>
-----------------------------------------------------------------------------
(* A request arrives with a token that has been issued. *)
Arrive(h, o, t) ==
    /\ pc[h] = "idle"
    /\ IF o = "read" THEN t \in Credentials /\ holder[t] # None ELSE t \in users
    /\ Goto(h, "authenticate")
    /\ op' = [op EXCEPT ![h] = o]
    /\ token' = [token EXCEPT ![h] = t]
    /\ stale' = IF Dead(t) THEN stale \cup {h} ELSE stale
    /\ UNCHANGED <<enrolment, sessions, invitations, credentials, member, who>>

FirstCheck(o) ==
    IF o \in OwnerOps THEN "owner"
    ELSE IF o = "create_credential" THEN "restriction" ELSE "act"

Authenticate(h) ==
    /\ pc[h] = "authenticate"
    /\ IF TokenLive(token[h])
         THEN /\ Goto(h, FirstCheck(op[h]))
              /\ who' = [who EXCEPT ![h] = UserOf(token[h])]
              /\ UNCHANGED <<op, token, stale>>
         ELSE Finish(h)
    /\ UNCHANGED <<enrolment, sessions, invitations, credentials, member>>

require_global_owner(h) ==
    /\ pc[h] = "owner"
    /\ IF who[h] = server_owner
         THEN Goto(h, "act") /\ UNCHANGED <<op, token, who, stale>>
         ELSE Finish(h)
    /\ UNCHANGED <<enrolment, sessions, invitations, credentials, member>>

(* A credential may be restricted to a workspace its user may read. *)
validate_credential_restriction(h) ==
    /\ pc[h] = "restriction"
    /\ \E w \in Workspaces \cup {None} :
          w # None => require_role(who[h], w, Reader)
    /\ Goto(h, "act")
    /\ UNCHANGED <<enrolment, sessions, invitations, credentials, member, op, token,
                   who, stale>>

(* A malformed request, a target that does not exist or is not the         *)
(* caller's, a right that is missing; and the end of every read.           *)
Answer(h) ==
    /\ pc[h] \in {"restriction", "act"}
    /\ Finish(h)
    /\ UNCHANGED <<enrolment, sessions, invitations, credentials, member>>

Acting(h, o) ==
    /\ pc[h] = "act"
    /\ op[h] = o
    /\ Finish(h)

create_invite(h, i, r, w) ==
    /\ Acting(h, "create_invite")
    /\ invited_by[i] = None
    /\ w # None => require_role(who[h], w, Owner)
    /\ invited_by' = [invited_by EXCEPT ![i] = who[h]]
    /\ invite_role' = [invite_role EXCEPT ![i] = r]
    /\ invite_workspace' = [invite_workspace EXCEPT ![i] = w]
    /\ UNCHANGED <<enrolment, sessions, redeemed_by, invite_expired, credentials,
                   member>>

create_workspace(h, w) ==
    /\ Acting(h, "create_workspace")
    /\ \A u \in Peers : member[w][u] = None
    /\ member' = [member EXCEPT ![w][who[h]] = Owner]
    /\ UNCHANGED <<enrolment, sessions, invitations, credentials>>

revoke_peer(h, u) ==
    /\ Acting(h, "revoke_peer")
    /\ u # who[h]
    /\ u \in users \ user_revoked
    /\ user_revoked' = user_revoked \cup {u}
    /\ session_revoked' = session_revoked \cup {u}
    /\ UNCHANGED <<enrolment, device_revoked, session_expired, invitations,
                   credentials, member>>

(* A peer revokes its own device, and the sessions on it. *)
revoke_device(h) ==
    /\ Acting(h, "revoke_device")
    /\ who[h] \notin device_revoked
    /\ device_revoked' = device_revoked \cup {who[h]}
    /\ session_revoked' = session_revoked \cup {who[h]}
    /\ UNCHANGED <<enrolment, user_revoked, session_expired, invitations,
                   credentials, member>>

revoke_session(h) ==
    /\ Acting(h, "revoke_session")
    /\ who[h] \notin session_revoked
    /\ session_revoked' = session_revoked \cup {who[h]}
    /\ UNCHANGED <<enrolment, user_revoked, device_revoked, session_expired,
                   invitations, credentials, member>>

logout(h) ==
    /\ Acting(h, "logout")
    /\ session_revoked' = session_revoked \cup {token[h]}
    /\ UNCHANGED <<enrolment, user_revoked, device_revoked, session_expired,
                   invitations, credentials, member>>

(* Mutant: the session is renewed on the word of the authentication. *)
session_unchecked(h) ==
    /\ Acting(h, "session")
    /\ session_expired' = session_expired \ {token[h]}
    /\ UNCHANGED <<enrolment, user_revoked, device_revoked, session_revoked,
                   invitations, credentials, member>>

(* session: the UPDATE asks again for everything authenticate asked for;   *)
(* what it renews expires later, what it does not is unauthenticated.      *)
session(h) ==
    /\ Acting(h, "session")
    /\ session_expired' = IF SessionLive(token[h]) THEN session_expired \ {token[h]}
                                                   ELSE session_expired
    /\ UNCHANGED <<enrolment, user_revoked, device_revoked, session_revoked,
                   invitations, credentials, member>>

create_credential(h, c) ==
    /\ Acting(h, "create_credential")
    /\ holder[c] = None
    /\ holder' = [holder EXCEPT ![c] = who[h]]
    /\ UNCHANGED <<enrolment, sessions, invitations, credential_revoked,
                   credential_expired, member>>

revoke_credential(h, c) ==
    /\ Acting(h, "revoke_credential")
    /\ holder[c] = who[h]
    /\ credential_revoked' = credential_revoked \cup {c}
    /\ UNCHANGED <<enrolment, sessions, invitations, holder, credential_expired,
                   member>>

(* The process stops and starts; a database without an owner setting gets  *)
(* its earliest active user (backfill_server_owner).                       *)
Restart ==
    /\ \E h \in Handlers : pc[h] # "idle"
    /\ LET active == users \ user_revoked IN
       server_owner' \in IF server_owner = None /\ active # {} THEN active
                                                              ELSE {server_owner}
    /\ pc' = [h \in Handlers |-> "idle"]
    /\ op' = [h \in Handlers |-> "read"]
    /\ token' = [h \in Handlers |-> None]
    /\ who' = [h \in Handlers |-> None]
    /\ stale' = {}
    /\ UNCHANGED <<bootstrap, users, via, sessions, invitations, credentials, member>>

Step(h) ==
    \/ Authenticate(h)
    \/ require_global_owner(h)
    \/ validate_credential_restriction(h)
    \/ Answer(h)
    \/ \E i \in Invites, r \in Roles, w \in Workspaces \cup {None} :
          create_invite(h, i, r, w)
    \/ \E w \in Workspaces : create_workspace(h, w)
    \/ \E u \in Peers : revoke_peer(h, u)
    \/ revoke_device(h)
    \/ revoke_session(h)
    \/ logout(h)
    \/ session(h)
    \/ \E c \in Credentials : create_credential(h, c)
    \/ \E c \in Credentials : revoke_credential(h, c)

Next ==
    \/ \E u \in Peers : claim(u)
    \/ \E u \in Peers, i \in Invites : redeem_invite(u, i)
    \/ \E u \in Peers : SessionExpires(u)
    \/ \E i \in Invites : InviteExpires(i)
    \/ \E c \in Credentials : CredentialExpires(c)
    \/ \E h \in Handlers, o \in BrowserOps \cup {"read"},
          t \in Peers \cup Credentials : Arrive(h, o, t)
    \/ \E h \in Handlers : Step(h)
    \/ Restart

Spec == Init /\ [][Next]_vars
-----------------------------------------------------------------------------
(* authenticate and authenticate_opaque_token ("take effect on the next    *)
(* request"): a request that arrives once its session or credential is     *)
(* revoked or expired, or its peer or device revoked, is never             *)
(* authenticated, whatever other requests are in flight.                   *)
NextRequestDenied == \A h \in stale : who[h] = None

(* session, logout and the revocations: a token that is dead stays dead,   *)
(* although a renewal may have passed authentication before the revocation *)
(* or the expiry.                                                          *)
RevocationSticks ==
    [][\A t \in Peers \cup Credentials : Dead(t) => Dead(t)']_vars

(* redeem_invite ("single-use invitation"): no two peers enrol with one    *)
(* invitation.                                                             *)
InviteSingleUse ==
    \A u, v \in users : via[u] # None /\ via[u] = via[v] => u = v

(* claim, require_global_owner and revoke_peer ("the immutable server      *)
(* administrator"): the administrator is never revoked, and everybody else *)
(* was invited by the administrator.                                       *)
AdministratorStays ==
    \A u \in users :
        /\ server_owner \in users \ user_revoked
        /\ u # server_owner => via[u] # None /\ invited_by[via[u]] = server_owner

(* How peers come to be: of all of them at any time, the administrator     *)
(* claimed the server and every other one has an invitation of its own.    *)
EnrolledByAdministrator == InviteSingleUse /\ AdministratorStays

(* redeem_invite and create_workspace ("assigned role cannot be            *)
(* escalated"): a peer's role in a workspace is the one its invitation     *)
(* carried, or that of the administrator who created the workspace.        *)
RoleProvenance ==
    \A w \in Workspaces, u \in Peers : member[w][u] # None =>
        \/ u = server_owner /\ member[w][u] = Owner
        \/ /\ via[u] # None
           /\ redeemed_by[via[u]] = u
           /\ invite_workspace[via[u]] = w
           /\ invite_role[via[u]] = member[w][u]
=============================================================================
