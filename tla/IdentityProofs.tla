--------------------------- MODULE IdentityProofs ---------------------------
(***************************************************************************)
(* Proofs about who is let in.  Identity, for any number of peers,         *)
(* invitations, credentials, workspaces and threads:                       *)
(*                                                                         *)
(* A handler that is past the administrator check acts for the             *)
(* administrator (Principals), who therefore is nobody's target            *)
(* (Administered); the row of a redeemed invitation names the one peer     *)
(* that enrolled with it (Enrolled); and a token that came dead is still   *)
(* dead when it is looked up (StaleDenied), because nothing revives one    *)
(* (DeadStays).                                                            *)
(*                                                                         *)
(* ServerBootstrap, for any number of processes and starts:                *)
(* TokenOpens is not inductive: it speaks of the time after the operator   *)
(* has read the file.  What makes it true happens before (FileLeads): the  *)
(* file is filled by one process at a time, a process that is about to     *)
(* commit a token of the file holds what the file holds, and from the      *)
(* announcement on the file holds what was committed.                      *)
(***************************************************************************)
EXTENDS Identity, ServerBootstrap, TLAPS

Administered ==
    /\ server_owner = None => users = {}
    /\ server_owner # None => server_owner \in users \ user_revoked

Enrolled ==
    /\ \A u \in Peers : via[u] # None =>
          u \in users /\ redeemed_by[via[u]] = u /\ invited_by[via[u]] # None
    /\ \A u \in users : u # server_owner =>
          via[u] # None /\ invited_by[via[u]] = server_owner
    /\ \A i \in Invites : invited_by[i] \in {None, server_owner}

PrincipalOf(h) ==
    /\ pc[h] # "idle" =>
          IF op[h] = "read"
            THEN token[h] \in Credentials /\ holder[token[h]] # None
            ELSE token[h] \in users
    /\ pc[h] \in {"idle", "authenticate"} <=> who[h] = None
    /\ pc[h] \in {"owner", "restriction", "act"} => who[h] = UserOf(token[h])
    /\ pc[h] = "restriction" => op[h] \notin OwnerOps
    /\ pc[h] = "act" /\ op[h] \in OwnerOps => who[h] = server_owner

Principals == \A h \in Handlers : PrincipalOf(h)

StaleDenied ==
    \A h \in stale : pc[h] = "authenticate" /\ Dead(token[h])

IInv ==
    /\ TypeOK
    /\ Administered
    /\ Enrolled
    /\ Principals
    /\ StaleDenied
    /\ RoleProvenance

USE DEF OwnerOps, SelfOps, BrowserOps, Phases, Reader, Owner

(* The unclaimed server satisfies the inductive invariant. *)
LEMMA InitIInv ==
    ASSUME Init PROVE IInv
BY IdentityAssumption
   DEF Init, IInv, TypeOK, Administered, Enrolled, Principals, PrincipalOf, StaleDenied,
       RoleProvenance
-----------------------------------------------------------------------------
(* A handler that is done is idle again. *)
LEMMA FinishTypes ==
    ASSUME TypeOK, NEW h \in Handlers, Finish(h)
    PROVE  /\ pc' \in [Handlers -> Phases]
           /\ op' \in [Handlers -> BrowserOps \cup {"read"}]
           /\ token' \in [Handlers -> Peers \cup Credentials \cup {None}]
           /\ who' \in [Handlers -> users \cup {None}]
           /\ stale' \in SUBSET Handlers
BY DEF TypeOK, Finish

(* Each action assigns every variable a value of its type; rows refer to   *)
(* peers that have enrolled, and no row of a peer is ever deleted.         *)
LEMMA TypeStep ==
    ASSUME IInv, [Next]_vars PROVE TypeOK'
<1>. USE IdentityAssumption
     DEF IInv, TypeOK, enrolment, sessions, invitations, credentials, handlers
<1>1. ASSUME NEW u \in Peers, claim(u) PROVE TypeOK'
  BY <1>1 DEF claim
<1>2. ASSUME NEW u \in Peers, NEW i \in Invites, redeem_invite(u, i) PROVE TypeOK'
  BY <1>2 DEF redeem_invite
<1>3. ASSUME NEW u \in Peers, SessionExpires(u) PROVE TypeOK'
  BY <1>3 DEF SessionExpires
<1>4. ASSUME NEW i \in Invites, InviteExpires(i) PROVE TypeOK'
  BY <1>4 DEF InviteExpires
<1>5. ASSUME NEW c \in Credentials, CredentialExpires(c) PROVE TypeOK'
  BY <1>5 DEF CredentialExpires
<1>6. ASSUME NEW h \in Handlers, NEW o \in BrowserOps \cup {"read"},
             NEW t \in Peers \cup Credentials, Arrive(h, o, t)
      PROVE TypeOK'
  BY <1>6 DEF Arrive, Goto
<1>7. ASSUME NEW h \in Handlers, Authenticate(h) PROVE TypeOK'
  <2>1. CASE TokenLive(token[h])
    <3>1. UserOf(token[h]) \in users
      BY <1>7, <2>1
         DEF Authenticate, Principals, PrincipalOf, UserOf, TokenLive, SessionLive, CredentialLive
    <3>2. FirstCheck(op[h]) \in Phases
      BY DEF FirstCheck
    <3>. QED BY <1>7, <2>1, <3>1, <3>2 DEF Authenticate, Goto
  <2>2. CASE ~TokenLive(token[h])
    BY <1>7, <2>2, FinishTypes DEF Authenticate
  <2>. QED BY <2>1, <2>2
<1>8. ASSUME NEW h \in Handlers, require_global_owner(h) PROVE TypeOK'
  <2>1. CASE Finish(h)
    BY <1>8, <2>1, FinishTypes DEF require_global_owner
  <2>2. CASE Goto(h, "act") /\ UNCHANGED <<op, token, who, stale>>
    BY <1>8, <2>2 DEF require_global_owner, Goto
  <2>. QED BY <1>8, <2>1, <2>2 DEF require_global_owner
<1>9. ASSUME NEW h \in Handlers, validate_credential_restriction(h) PROVE TypeOK'
  BY <1>9 DEF validate_credential_restriction, Goto
<1>10. ASSUME NEW h \in Handlers, Answer(h) PROVE TypeOK'
  BY <1>10, FinishTypes DEF Answer
<1>11. ASSUME NEW h \in Handlers, NEW i \in Invites, NEW r \in Roles,
              NEW w \in Workspaces \cup {None}, create_invite(h, i, r, w)
       PROVE TypeOK'
  BY <1>11, FinishTypes DEF create_invite, Acting
<1>12. ASSUME NEW h \in Handlers, NEW w \in Workspaces, create_workspace(h, w)
       PROVE TypeOK'
  BY <1>12, FinishTypes DEF create_workspace, Acting
<1>13. ASSUME NEW h \in Handlers, NEW u \in Peers, revoke_peer(h, u) PROVE TypeOK'
  BY <1>13, FinishTypes DEF revoke_peer, Acting
<1>14. ASSUME NEW h \in Handlers, revoke_device(h) PROVE TypeOK'
  BY <1>14, FinishTypes DEF revoke_device, Acting, Principals, PrincipalOf, UserOf
<1>15. ASSUME NEW h \in Handlers, revoke_session(h) PROVE TypeOK'
  BY <1>15, FinishTypes DEF revoke_session, Acting, Principals, PrincipalOf, UserOf
<1>16. ASSUME NEW h \in Handlers, logout(h) PROVE TypeOK'
  BY <1>16, FinishTypes DEF logout, Acting, Principals, PrincipalOf, UserOf
<1>17. ASSUME NEW h \in Handlers, session(h) PROVE TypeOK'
  BY <1>17, FinishTypes DEF session, Acting
<1>18. ASSUME NEW h \in Handlers, NEW c \in Credentials, create_credential(h, c)
       PROVE TypeOK'
  BY <1>18, FinishTypes DEF create_credential, Acting
<1>19. ASSUME NEW h \in Handlers, NEW c \in Credentials, revoke_credential(h, c)
       PROVE TypeOK'
  BY <1>19, FinishTypes DEF revoke_credential, Acting
<1>20. CASE Restart
  BY <1>20 DEF Restart
<1>21. CASE UNCHANGED vars
  BY <1>21 DEF vars
<1>. QED
  BY <1>1, <1>2, <1>3, <1>4, <1>5, <1>6, <1>7, <1>8, <1>9, <1>10, <1>11, <1>12,
     <1>13, <1>14, <1>15, <1>16, <1>17, <1>18, <1>19, <1>20, <1>21 DEF Next, Step

(* The administrator is set once, and a revocation names somebody else.    *)
LEMMA AdministeredStep ==
    ASSUME IInv, [Next]_vars PROVE Administered'
<1>. USE IdentityAssumption DEF IInv, TypeOK, Principals, PrincipalOf, Administered
<1>1. ASSUME NEW u \in Peers, claim(u) PROVE Administered'
  BY <1>1 DEF claim, sessions
<1>2. ASSUME NEW u \in Peers, NEW i \in Invites, redeem_invite(u, i)
      PROVE Administered'
  BY <1>2 DEF redeem_invite, sessions, Enrolled
<1>3. ASSUME NEW h \in Handlers, NEW u \in Peers, revoke_peer(h, u)
      PROVE Administered'
  BY <1>3 DEF revoke_peer, Acting, enrolment
<1>4. CASE Restart
  BY <1>4 DEF Restart, sessions
<1>5. CASE UNCHANGED <<server_owner, users, user_revoked>>
  BY <1>5
<1>. QED
  BY <1>1, <1>2, <1>3, <1>4, <1>5
     DEF Next, Step, vars, enrolment, sessions, SessionExpires, InviteExpires,
         CredentialExpires, Arrive, Authenticate, require_global_owner,
         validate_credential_restriction, Answer, create_invite,
         create_workspace, revoke_device, revoke_session, logout, session,
         create_credential, revoke_credential

(* An invitation that has been redeemed has a creator and is not redeemed  *)
(* again, so what a peer enrolled with never changes.                      *)
LEMMA EnrolledStep ==
    ASSUME IInv, [Next]_vars PROVE Enrolled'
<1>. USE IdentityAssumption DEF IInv, TypeOK, Administered, Enrolled
<1>1. ASSUME NEW u \in Peers, claim(u) PROVE Enrolled'
  BY <1>1 DEF claim, invitations
<1>2. ASSUME NEW u \in Peers, NEW i \in Invites, redeem_invite(u, i)
      PROVE Enrolled'
  <2>1. server_owner \in users /\ via[u] = None
    BY <1>2 DEF redeem_invite
  <2>2. \A v \in Peers : via[v] # i
    BY <1>2 DEF redeem_invite
  <2>3. ASSUME NEW v \in Peers, via'[v] # None
        PROVE v \in users' /\ redeemed_by'[via'[v]] = v /\ invited_by'[via'[v]] # None
    <3>1. CASE v = u
      BY <1>2, <2>3, <3>1 DEF redeem_invite
    <3>2. CASE v # u
      <4>1. via'[v] = via[v] /\ via[v] \in Invites /\ via[v] # i
        BY <1>2, <2>2, <2>3, <3>2 DEF redeem_invite
      <4>. QED BY <1>2, <2>3, <4>1 DEF redeem_invite
    <3>. QED BY <3>1, <3>2
  <2>4. ASSUME NEW v \in users', v # server_owner'
        PROVE via'[v] # None /\ invited_by'[via'[v]] = server_owner'
    <3>1. invited_by[i] = server_owner
      BY <1>2, <2>1 DEF redeem_invite
    <3>2. CASE v = u
      BY <1>2, <3>1, <3>2 DEF redeem_invite
    <3>3. CASE v # u
      BY <1>2, <2>4, <3>3 DEF redeem_invite
    <3>. QED BY <3>2, <3>3
  <2>5. \A j \in Invites : invited_by'[j] \in {None, server_owner'}
    BY <1>2 DEF redeem_invite
  <2>. QED BY <2>3, <2>4, <2>5
<1>3. ASSUME NEW h \in Handlers, NEW i \in Invites, NEW r \in Roles,
             NEW w \in Workspaces \cup {None}, create_invite(h, i, r, w)
      PROVE Enrolled'
  BY <1>3 DEF create_invite, Acting, Principals, PrincipalOf, enrolment
<1>4. CASE Restart
  BY <1>4 DEF Restart, invitations
<1>5. CASE UNCHANGED <<server_owner, users, via, invited_by, redeemed_by>>
  BY <1>5
<1>. QED
  BY <1>1, <1>2, <1>3, <1>4, <1>5
     DEF Next, Step, vars, enrolment, invitations, SessionExpires, InviteExpires,
         CredentialExpires, Arrive, Authenticate, require_global_owner,
         validate_credential_restriction, Answer, create_workspace, revoke_peer,
         revoke_device, revoke_session, logout, session, create_credential,
         revoke_credential

(* Roles are written by the enrolment and by the administrator only.       *)
LEMMA RoleStep ==
    ASSUME IInv, [Next]_vars PROVE RoleProvenance'
<1>. USE IdentityAssumption
     DEF IInv, TypeOK, Administered, Principals, PrincipalOf, Enrolled, RoleProvenance
<1>1. ASSUME NEW u \in Peers, claim(u) PROVE RoleProvenance'
  BY <1>1 DEF claim, invitations
<1>2. ASSUME NEW u \in Peers, NEW i \in Invites, redeem_invite(u, i)
      PROVE RoleProvenance'
  BY <1>2 DEF redeem_invite
<1>3. ASSUME NEW h \in Handlers, NEW i \in Invites, NEW r \in Roles,
             NEW w \in Workspaces \cup {None}, create_invite(h, i, r, w)
      PROVE RoleProvenance'
  BY <1>3 DEF create_invite, Acting, enrolment
<1>4. ASSUME NEW h \in Handlers, NEW w \in Workspaces, create_workspace(h, w)
      PROVE RoleProvenance'
  BY <1>4 DEF create_workspace, Acting, enrolment, invitations
<1>5. CASE Restart
  BY <1>5 DEF Restart, invitations
<1>6. CASE UNCHANGED <<server_owner, via, invite_role, invite_workspace,
                       redeemed_by, member>>
  BY <1>6
<1>. QED
  BY <1>1, <1>2, <1>3, <1>4, <1>5, <1>6
     DEF Next, Step, vars, enrolment, invitations, SessionExpires, InviteExpires,
         CredentialExpires, Arrive, Authenticate, require_global_owner,
         validate_credential_restriction, Answer, revoke_peer, revoke_device,
         revoke_session, logout, session, create_credential, revoke_credential
-----------------------------------------------------------------------------
(* Nothing revives a token: a session is renewed only if it is live, and a *)
(* credential that is issued has the holder it was issued to.              *)
LEMMA DeadStays ==
    ASSUME IInv, [Next]_vars, NEW t \in Peers \cup Credentials, Dead(t)
    PROVE  Dead(t)'
<1>. USE IdentityAssumption DEF IInv, TypeOK, Dead, UserOf
<1>1. ASSUME NEW h \in Handlers, session(h) PROVE Dead(t)'
  <2>1. session_expired' = session_expired
    BY <1>1 DEF session, SessionLive
  <2>. QED BY <1>1, <2>1 DEF session, credentials
<1>2. ASSUME NEW h \in Handlers, NEW c \in Credentials, create_credential(h, c)
      PROVE Dead(t)'
  BY <1>2 DEF create_credential, sessions
<1>3. CASE /\ holder' = holder
           /\ user_revoked \subseteq user_revoked'
           /\ device_revoked \subseteq device_revoked'
           /\ session_revoked \subseteq session_revoked'
           /\ session_expired \subseteq session_expired'
           /\ credential_revoked \subseteq credential_revoked'
           /\ credential_expired \subseteq credential_expired'
  BY <1>3
<1>. HIDE DEF IInv, TypeOK, Dead, UserOf
<1>. QED
  BY <1>1, <1>2, <1>3
     DEF Next, Step, vars, sessions, credentials, claim, redeem_invite,
         SessionExpires, InviteExpires, CredentialExpires, Arrive, Authenticate,
         require_global_owner, validate_credential_restriction, Answer,
         create_invite, create_workspace, revoke_peer, revoke_device,
         revoke_session, logout, revoke_credential, Restart

(* A token that is dead and has been issued is not live. *)
LEMMA DeadNotLive ==
    ASSUME TypeOK, NEW t \in Peers \cup Credentials, Dead(t)
    PROVE  ~TokenLive(t)
BY IdentityAssumption
   DEF TypeOK, Dead, UserOf, TokenLive, SessionLive, CredentialLive

(* A request whose token was dead on arrival waits to be refused. *)
LEMMA StaleStep ==
    ASSUME IInv, [Next]_vars PROVE StaleDenied'
<1>. USE DEF StaleDenied
<1>0. \A g \in stale : token[g] \in Peers \cup Credentials
  BY DEF IInv, TypeOK, Principals, PrincipalOf
<1>1. ASSUME NEW h \in Handlers, NEW o \in BrowserOps \cup {"read"},
             NEW t \in Peers \cup Credentials, Arrive(h, o, t)
      PROVE StaleDenied'
  <2>. SUFFICES ASSUME NEW g \in stale' PROVE (pc[g] = "authenticate" /\ Dead(token[g]))'
    OBVIOUS
  <2>1. UNCHANGED <<sessions, credentials>>
    BY <1>1 DEF Arrive
  <2>2. CASE g = h
    <3>1. Dead(t)
      BY <1>1, <2>2 DEF Arrive, IInv
    <3>2. pc'[g] = "authenticate" /\ token'[g] = t
      BY <1>1, <2>2 DEF Arrive, Goto, IInv, TypeOK
    <3>. QED BY <2>1, <3>1, <3>2 DEF Dead, UserOf, sessions, credentials
  <2>3. CASE g # h
    <3>1. g \in stale /\ pc'[g] = pc[g] /\ token'[g] = token[g]
      BY <1>1, <2>3 DEF Arrive, Goto, IInv, TypeOK
    <3>. QED BY <2>1, <3>1 DEF Dead, UserOf, sessions, credentials, IInv
  <2>. QED BY <2>2, <2>3
<1>2. ASSUME NEW h \in Handlers, Step(h) PROVE StaleDenied'
  <2>1. CASE pc[h] = "authenticate" /\ ~TokenLive(token[h])
    <3>1. stale' = stale \ {h}
          /\ \A g \in Handlers \ {h} : pc'[g] = pc[g] /\ token'[g] = token[g]
      BY <1>2, <2>1 DEF Step, Authenticate, Finish, require_global_owner,
         validate_credential_restriction, Answer, Acting, create_invite,
         create_workspace, revoke_peer, revoke_device, revoke_session, logout,
         session, create_credential, revoke_credential, IInv, TypeOK
    <3>2. UNCHANGED <<sessions, credentials>>
      BY <1>2, <2>1 DEF Step, Authenticate, require_global_owner,
         validate_credential_restriction, Answer, Acting, create_invite,
         create_workspace, revoke_peer, revoke_device, revoke_session, logout,
         session, create_credential, revoke_credential
    <3>. QED BY <3>1, <3>2 DEF Dead, UserOf, sessions, credentials, IInv, TypeOK
  <2>2. CASE h \notin stale
    <3>1. stale' = stale
          /\ \A g \in Handlers \ {h} : pc'[g] = pc[g] /\ token'[g] = token[g]
      <4>1. \/ Finish(h)
            \/ \E phase \in Phases : Goto(h, phase) /\ UNCHANGED <<token, stale>>
        BY <1>2 DEF Step, Authenticate, FirstCheck, require_global_owner,
           validate_credential_restriction, Answer, Acting, create_invite,
           create_workspace, revoke_peer, revoke_device, revoke_session, logout,
           session, create_credential, revoke_credential
      <4>2. CASE Finish(h)
        BY <2>2, <4>2 DEF Finish, IInv, TypeOK
      <4>3. CASE \E phase \in Phases : Goto(h, phase) /\ UNCHANGED <<token, stale>>
        <5>1. PICK phase \in Phases : Goto(h, phase) /\ UNCHANGED <<token, stale>>
          BY <4>3
        <5>. QED BY <5>1 DEF Goto, IInv, TypeOK
      <4>. QED BY <4>1, <4>2, <4>3
    <3>2. \A g \in stale : (Dead(token[g]))'
      <4>. SUFFICES ASSUME NEW g \in stale PROVE (Dead(token[g]))'
        OBVIOUS
      <4>1. g \in Handlers \ {h} /\ token[g] \in Peers \cup Credentials
            /\ Dead(token[g])
        BY <1>0, <2>2 DEF IInv, TypeOK
      <4>2. \A t \in Peers \cup Credentials : Dead(t) => Dead(t)'
        BY DeadStays
      <4>. QED BY <3>1, <4>1, <4>2 DEF Dead, UserOf
    <3>. QED BY <2>2, <3>1, <3>2 DEF IInv, TypeOK
  <2>3. h \in stale => pc[h] = "authenticate" /\ ~TokenLive(token[h])
    BY <1>0, DeadNotLive DEF IInv
  <2>. QED BY <2>1, <2>2, <2>3
<1>3. CASE Restart
  BY <1>3 DEF Restart
<1>4. CASE UNCHANGED <<pc, token, stale>>
  <2>1. \A t \in Peers \cup Credentials : Dead(t) => Dead(t)'
    BY DeadStays
  <2>. QED BY <1>0, <1>4, <2>1 DEF IInv, Dead, UserOf
<1>. QED
  BY <1>1, <1>2, <1>3, <1>4
     DEF Next, vars, handlers, claim, redeem_invite, SessionExpires, InviteExpires,
         CredentialExpires
-----------------------------------------------------------------------------
(* Requests in flight keep what they read: the tables they rest on lose no *)
(* enrolment, no holder and no administrator.                              *)
LEMMA OthersKept ==
    ASSUME IInv, NEW g \in Handlers,
           UNCHANGED <<pc[g], op[g], token[g], who[g]>>,
           users \subseteq users',
           \A c \in Credentials : holder[c] # None => holder'[c] = holder[c],
           server_owner' = server_owner \/ server_owner = None
    PROVE  PrincipalOf(g)'
<1>1. PrincipalOf(g)
  BY DEF IInv, Principals, PrincipalOf
<1>2. server_owner = None => who[g] = None
  BY DEF IInv, TypeOK, Administered
<1>3. CASE pc[g] \in {"idle", "authenticate"}
  BY <1>1, <1>3, IdentityAssumption DEF PrincipalOf, IInv, TypeOK
<1>4. CASE pc[g] \notin {"idle", "authenticate"}
  <2>1. pc[g] \in {"owner", "restriction", "act"} /\ who[g] # None
        /\ server_owner' = server_owner
    BY <1>1, <1>2, <1>4 DEF PrincipalOf, IInv, TypeOK
  <2>2. UserOf(token[g])' = UserOf(token[g])
    BY <1>1, <2>1, IdentityAssumption DEF PrincipalOf, UserOf, IInv, TypeOK
  <2>. QED BY <1>1, <2>1, <2>2 DEF PrincipalOf, IInv, TypeOK
<1>. QED BY <1>3, <1>4

(* An idle handler has no principal. *)
LEMMA FinishKept ==
    ASSUME TypeOK, NEW h \in Handlers, Finish(h)
    PROVE  PrincipalOf(h)'
BY DEF TypeOK, Finish, PrincipalOf

(* Authentication binds a handler to the user its token belongs to, and    *)
(* only the administrator passes require_global_owner.                     *)
LEMMA PrincipalsStep ==
    ASSUME IInv, [Next]_vars PROVE Principals'
<1>0. SUFFICES ASSUME NEW g \in Handlers PROVE PrincipalOf(g)'
  BY DEF Principals, PrincipalOf
<1>1. users \subseteq users'
  BY DEF Next, Step, vars, enrolment, claim, redeem_invite, SessionExpires,
         InviteExpires, CredentialExpires, Arrive, Authenticate,
         require_global_owner, validate_credential_restriction, Answer,
         create_invite, create_workspace, revoke_peer, revoke_device,
         revoke_session, logout, session, create_credential,
         revoke_credential, Restart
<1>2. \A c \in Credentials : holder[c] # None => holder'[c] = holder[c]
  <2>1. ASSUME NEW h \in Handlers, NEW c \in Credentials, create_credential(h, c)
        PROVE \A d \in Credentials : holder[d] # None => holder'[d] = holder[d]
    BY <2>1 DEF create_credential, IInv, TypeOK
  <2>2. CASE holder' = holder
    BY <2>2
  <2>. QED
    BY <2>1, <2>2
       DEF Next, Step, vars, credentials, claim, redeem_invite, SessionExpires,
           InviteExpires, CredentialExpires, Arrive, Authenticate,
           require_global_owner, validate_credential_restriction, Answer,
           create_invite, create_workspace, revoke_peer, revoke_device,
           revoke_session, logout, session, revoke_credential, Restart
<1>3. server_owner' = server_owner \/ server_owner = None
  <2>1. ASSUME NEW u \in Peers, claim(u) PROVE server_owner = None
    BY <2>1 DEF claim, IInv, TypeOK, Administered
  <2>. QED
    BY <2>1
       DEF Next, Step, vars, enrolment, redeem_invite, SessionExpires,
           InviteExpires, CredentialExpires, Arrive, Authenticate,
           require_global_owner, validate_credential_restriction, Answer,
           create_invite, create_workspace, revoke_peer, revoke_device,
           revoke_session, logout, session, create_credential,
           revoke_credential, Restart
<1>4. CASE UNCHANGED <<pc[g], op[g], token[g], who[g]>>
  BY <1>1, <1>2, <1>3, <1>4, OthersKept
<1>5. CASE Finish(g)
  BY <1>5, FinishKept DEF IInv
<1>6. ASSUME NEW o \in BrowserOps \cup {"read"}, NEW t \in Peers \cup Credentials,
             Arrive(g, o, t)
      PROVE PrincipalOf(g)'
  <2>1. pc'[g] = "authenticate" /\ op'[g] = o /\ token'[g] = t /\ who'[g] = who[g]
    BY <1>6 DEF Arrive, Goto, IInv, TypeOK
  <2>2. who[g] = None
    BY <1>6 DEF Arrive, IInv, Principals, PrincipalOf
  <2>. QED
    BY <1>6, <2>1, <2>2, IdentityAssumption
       DEF Arrive, PrincipalOf, enrolment, credentials, IInv, TypeOK
<1>7. CASE Authenticate(g) /\ TokenLive(token[g])
  <2>1. /\ pc'[g] = FirstCheck(op[g]) /\ who'[g] = UserOf(token[g])
        /\ op'[g] = op[g] /\ token'[g] = token[g]
        /\ UNCHANGED <<users, holder>>
    BY <1>7 DEF Authenticate, Goto, enrolment, credentials, IInv, TypeOK
  <2>2. pc[g] = "authenticate" /\ PrincipalOf(g)
    BY <1>7 DEF Authenticate, IInv, Principals, PrincipalOf
  <2>3. UserOf(token[g])' = UserOf(token[g]) /\ UserOf(token[g]) # None
    BY <2>1, <2>2, IdentityAssumption DEF UserOf, PrincipalOf, IInv, TypeOK
  <2>. QED BY <2>1, <2>2, <2>3 DEF PrincipalOf, FirstCheck
<1>8. CASE require_global_owner(g) /\ ~Finish(g)
  <2>1. /\ pc[g] = "owner" /\ pc'[g] = "act" /\ who[g] = server_owner
        /\ UNCHANGED <<op, token, who, users, holder, server_owner>>
    BY <1>8 DEF require_global_owner, Goto, enrolment, credentials, IInv, TypeOK
  <2>2. PrincipalOf(g)
    BY DEF IInv, Principals, PrincipalOf
  <2>. QED BY <2>1, <2>2 DEF PrincipalOf, UserOf
<1>9. CASE validate_credential_restriction(g)
  <2>1. /\ pc[g] = "restriction" /\ pc'[g] = "act"
        /\ UNCHANGED <<op, token, who, users, holder, server_owner>>
    BY <1>9 DEF validate_credential_restriction, Goto, enrolment, credentials,
                IInv, TypeOK
  <2>2. PrincipalOf(g)
    BY DEF IInv, Principals, PrincipalOf
  <2>. QED BY <2>1, <2>2 DEF PrincipalOf, UserOf
<1>10. ASSUME NEW h \in Handlers, Step(h) PROVE PrincipalOf(g)'
  <2>1. CASE h = g
    <3>1. \/ Finish(g)
          \/ Authenticate(g) /\ TokenLive(token[g])
          \/ require_global_owner(g) /\ ~Finish(g)
          \/ validate_credential_restriction(g)
      BY <1>10, <2>1
         DEF Step, Authenticate, Answer, Acting, create_invite, create_workspace,
             revoke_peer, revoke_device, revoke_session, logout, session,
             create_credential, revoke_credential
    <3>. QED BY <3>1, <1>5, <1>7, <1>8, <1>9
  <2>2. CASE h # g
    <3>1. \/ Finish(h)
          \/ \E phase \in Phases, u \in users \cup {None} :
                /\ Goto(h, phase)
                /\ who' = [who EXCEPT ![h] = u]
                /\ UNCHANGED <<op, token>>
      <4>1. CASE Authenticate(h) /\ TokenLive(token[h])
        <5>1. FirstCheck(op[h]) \in Phases /\ UserOf(token[h]) \in users
          BY <4>1 DEF FirstCheck, UserOf, TokenLive, SessionLive, CredentialLive,
                      Authenticate, IInv, TypeOK, Principals, PrincipalOf
        <5>. QED BY <4>1, <5>1 DEF Authenticate
      <4>2. CASE UNCHANGED <<op, token, who>> /\ \E phase \in Phases : Goto(h, phase)
        <5>1. who[h] \in users \cup {None} /\ who' = [who EXCEPT ![h] = who[h]]
          BY <4>2 DEF IInv, TypeOK
        <5>. QED BY <4>2, <5>1
      <4>. QED
        BY <1>10, <4>1, <4>2
           DEF Step, Authenticate, require_global_owner,
               validate_credential_restriction, Answer, Acting, create_invite,
               create_workspace, revoke_peer, revoke_device, revoke_session,
               logout, session, create_credential, revoke_credential
    <3>2. UNCHANGED <<pc[g], op[g], token[g], who[g]>>
      <4>1. CASE Finish(h)
        BY <2>2, <4>1 DEF Finish, IInv, TypeOK
      <4>2. CASE ~Finish(h)
        BY <2>2, <3>1, <4>2 DEF Goto, IInv, TypeOK
      <4>. QED BY <4>1, <4>2
    <3>. QED BY <1>4, <3>2
  <2>. QED BY <2>1, <2>2
<1>11. ASSUME NEW h \in Handlers, NEW o \in BrowserOps \cup {"read"},
              NEW t \in Peers \cup Credentials, Arrive(h, o, t), h # g
       PROVE PrincipalOf(g)'
  <2>1. UNCHANGED <<pc[g], op[g], token[g], who[g]>>
    BY <1>11 DEF Arrive, Goto, IInv, TypeOK
  <2>. QED BY <1>4, <2>1
<1>12. CASE Restart
  BY <1>12 DEF Restart, PrincipalOf
<1>. QED
  BY <1>4, <1>6, <1>10, <1>11, <1>12
     DEF Next, vars, handlers, claim, redeem_invite, SessionExpires, InviteExpires,
         CredentialExpires
-----------------------------------------------------------------------------
(* Any behaviour keeps the inductive invariant, whatever the constants. *)
THEOREM Inductive == Spec => []IInv
<1>1. Init => IInv
  BY InitIInv
<1>2. IInv /\ [Next]_vars => IInv'
  BY TypeStep, AdministeredStep, EnrolledStep, PrincipalsStep, StaleStep, RoleStep
     DEF IInv
<1>. QED BY <1>1, <1>2, PTL DEF Spec

(* Rows refer to peers that have enrolled. *)
THEOREM TypeCorrect == Spec => []TypeOK
<1>1. IInv => TypeOK
  BY DEF IInv
<1>. QED BY <1>1, Inductive, PTL

(* redeem_invite: no two peers enrol with one invitation. *)
THEOREM SingleUse == Spec => []InviteSingleUse
<1>1. IInv => InviteSingleUse
  BY DEF IInv, TypeOK, Enrolled, InviteSingleUse
<1>. QED BY <1>1, Inductive, PTL

(* claim, require_global_owner and revoke_peer: the administrator is never *)
(* revoked and has invited everybody else.                                 *)
THEOREM AdministratorKept == Spec => []AdministratorStays
<1>1. IInv => AdministratorStays
  BY DEF IInv, TypeOK, Administered, Enrolled, AdministratorStays
<1>. QED BY <1>1, Inductive, PTL

(* Of all peers at any time, the administrator claimed the server and      *)
(* every other one was enrolled with an invitation of its own.             *)
THEOREM Enrolment == Spec => []EnrolledByAdministrator
BY SingleUse, AdministratorKept, PTL DEF EnrolledByAdministrator

(* redeem_invite and create_workspace: roles come from an invitation or    *)
(* from having created the workspace.                                      *)
THEOREM RolesAssigned == Spec => []RoleProvenance
<1>1. IInv => RoleProvenance
  BY DEF IInv
<1>. QED BY <1>1, Inductive, PTL

(* authenticate and authenticate_opaque_token: a request with a token that *)
(* is dead on arrival is never authenticated.                              *)
THEOREM RevokedDenied == Spec => []NextRequestDenied
<1>1. IInv => NextRequestDenied
  BY DEF IInv, TypeOK, StaleDenied, Principals, PrincipalOf, NextRequestDenied
<1>. QED BY <1>1, Inductive, PTL

(* session, logout and the revocations: nothing revives a dead token. *)
THEOREM RevocationLasts == Spec => RevocationSticks
<1>1. IInv /\ [Next]_vars =>
        [\A t \in Peers \cup Credentials : Dead(t) => Dead(t)']_vars
  BY DeadStays
<1>. QED BY <1>1, Inductive, PTL DEF Spec, RevocationSticks
-----------------------------------------------------------------------------
(* Nothing is announced, read or owned before the transaction. *)
AfterSettings ==
    /\ announced => settings
    /\ obtained # 0 => settings
    /\ owned => settings

Held(p) ==
    /\ state[p] \in {"fill", "commit"} => holds[p] # 0
    /\ state[p] = "fill" => IsGenerated(holds[p])

Filling(p) ==
    /\ state[p] = "fill" =>
          /\ tokenFile = Torn
          /\ \A q \in Starters : state[q] = "fill" => p = q
    /\ state[p] = "commit" /\ holds[p] # Supplied => tokenFile = holds[p]

FileLeads ==
    ~owned /\ obtained = 0 =>
        /\ \A p \in Starters : Filling(p)
        /\ announced => tokenFile = verifier

BootstrapInv ==
    /\ BootstrapTypeOK
    /\ AfterSettings
    /\ \A p \in Starters : Held(p)
    /\ FileLeads
    /\ TokenOpens

USE DEF NoFile, Torn, Supplied, IsGenerated

(* An empty directory satisfies the invariant. *)
LEMMA BootstrapStart ==
    ASSUME BootstrapInit PROVE BootstrapInv
<1>1. BootstrapTypeOK
  <2>1. /\ starts \in 0..MaxStarts /\ generated \in Nat
        /\ verifier \in Nat \ {Torn} /\ tokenFile \in Nat \ {Supplied}
        /\ obtained \in Nat \ {Torn, Supplied}
    BY BootstrapAssumption DEF BootstrapInit
  <2>2. /\ state \in [Starters -> {"down", "create", "fill", "commit", "serving"}]
        /\ holds \in [Starters -> Nat \ {Torn}]
    BY DEF BootstrapInit
  <2>3. /\ (verifier # 0) <=> (settings /\ ~owned)
        /\ \A p \in Starters : state[p] # "serving"
    BY DEF BootstrapInit
  <2>. QED BY <2>1, <2>2, <2>3 DEF BootstrapInit, BootstrapTypeOK
<1>2. AfterSettings /\ TokenOpens
  BY DEF BootstrapInit, AfterSettings, TokenOpens
<1>3. FileLeads /\ \A p \in Starters : Held(p)
  BY DEF BootstrapInit, FileLeads, Filling, Held
<1>. QED BY <1>1, <1>2, <1>3 DEF BootstrapInv
-----------------------------------------------------------------------------
(* Every process that starts reads the file as it is. *)
LEMMA StartKeeps ==
    ASSUME BootstrapInv, NEW p \in Starters, NEW supplied \in BOOLEAN,
           ensure_server(p, supplied)
    PROVE  BootstrapInv'
<1>. USE DEF ensure_server, load_or_create_bootstrap_token, Becomes
<1>1. BootstrapTypeOK'
  BY BootstrapAssumption DEF BootstrapInv, BootstrapTypeOK
<1>2. AfterSettings' /\ TokenOpens'
  BY DEF BootstrapInv, AfterSettings, TokenOpens
<1>3. \A q \in Starters : Held(q)'
  BY DEF BootstrapInv, BootstrapTypeOK, Held
<1>4. FileLeads'
  BY DEF BootstrapInv, BootstrapTypeOK, FileLeads, Filling
<1>. QED BY <1>1, <1>2, <1>3, <1>4 DEF BootstrapInv

(* The file is created by one process, when nobody else depends on it. *)
LEMMA CreateKeeps ==
    ASSUME BootstrapInv, NEW p \in Starters, create_token_file(p)
    PROVE  BootstrapInv'
<1>. USE DEF create_token_file, Becomes, NewToken
<1>1. BootstrapTypeOK'
  BY DEF BootstrapInv, BootstrapTypeOK
<1>2. AfterSettings' /\ TokenOpens'
  BY DEF BootstrapInv, AfterSettings, TokenOpens
<1>3. \A q \in Starters : Held(q)'
  BY DEF BootstrapInv, BootstrapTypeOK, Held
<1>4. FileLeads'
  BY DEF BootstrapInv, BootstrapTypeOK, AfterSettings, Held, FileLeads, Filling
<1>. QED BY <1>1, <1>2, <1>3, <1>4 DEF BootstrapInv

(* What is written is what the process goes on to commit. *)
LEMMA WriteKeeps ==
    ASSUME BootstrapInv, NEW p \in Starters, write_bootstrap_token(p)
    PROVE  BootstrapInv'
<1>. USE DEF write_bootstrap_token, Becomes
<1>1. BootstrapTypeOK'
  BY DEF BootstrapInv, BootstrapTypeOK, Held
<1>2. AfterSettings' /\ TokenOpens'
  BY DEF BootstrapInv, AfterSettings, TokenOpens
<1>3. \A q \in Starters : Held(q)'
  BY DEF BootstrapInv, BootstrapTypeOK, Held
<1>4. FileLeads'
  BY DEF BootstrapInv, BootstrapTypeOK, AfterSettings, Held, FileLeads, Filling
<1>. QED BY <1>1, <1>2, <1>3, <1>4 DEF BootstrapInv

(* The first transaction finds its token in the file; the others fail. *)
LEMMA CommitKeeps ==
    ASSUME BootstrapInv, NEW p \in Starters, commit_settings(p)
    PROVE  BootstrapInv'
<1>. USE DEF commit_settings, Becomes
<1>1. holds[p] \in Nat \ {0, Torn}
  BY DEF BootstrapInv, BootstrapTypeOK, Held
<1>2. BootstrapTypeOK'
  <2>1. /\ state' \in [Starters -> {"down", "create", "fill", "commit", "serving"}]
        /\ holds' \in [Starters -> Nat \ {Torn}]
    BY DEF BootstrapInv, BootstrapTypeOK
  <2>2. verifier' \in Nat \ {Torn} /\ ((verifier' # 0) <=> (settings' /\ ~owned'))
    BY <1>1 DEF BootstrapInv, BootstrapTypeOK, AfterSettings
  <2>3. \A q \in Starters : state'[q] = "serving" => settings'
    BY DEF BootstrapInv, BootstrapTypeOK
  <2>. QED BY <2>1, <2>2, <2>3 DEF BootstrapInv, BootstrapTypeOK
<1>3. AfterSettings' /\ TokenOpens'
  BY DEF BootstrapInv, BootstrapTypeOK, AfterSettings, TokenOpens
<1>4. \A q \in Starters : Held(q)'
  BY DEF BootstrapInv, BootstrapTypeOK, Held
<1>5. FileLeads'
  BY DEF BootstrapInv, BootstrapTypeOK, AfterSettings, FileLeads, Filling
<1>. QED BY <1>2, <1>3, <1>4, <1>5 DEF BootstrapInv

(* The claim, the death of a process and the two steps of the operator. *)
LEMMA OthersKeep ==
    ASSUME BootstrapInv,
           \/ \E p \in Starters : process_dies(p)
           \/ \E p \in Starters, n \in {obtained, Supplied} \ {0} :
                 claim_server(p, n)
           \/ operator_reads \/ operator_removes
    PROVE  BootstrapInv'
<1>1. CASE \E p \in Starters : process_dies(p)
  BY <1>1 DEF process_dies, Becomes, BootstrapInv, BootstrapTypeOK, AfterSettings, Held,
              FileLeads, Filling, TokenOpens
<1>2. CASE \E p \in Starters, n \in {obtained, Supplied} \ {0} : claim_server(p, n)
  BY <1>2 DEF claim_server, BootstrapInv, BootstrapTypeOK, AfterSettings, Held,
              FileLeads, TokenOpens
<1>3. CASE operator_reads
  BY <1>3 DEF operator_reads, BootstrapInv, BootstrapTypeOK, AfterSettings, Held,
              FileLeads, TokenOpens
<1>4. CASE operator_removes
  BY <1>4 DEF operator_removes, BootstrapInv, BootstrapTypeOK, AfterSettings, Held,
              FileLeads, Filling, TokenOpens
<1>. QED BY <1>1, <1>2, <1>3, <1>4
-----------------------------------------------------------------------------
(* The file leads the transaction in every reachable state. *)
THEOREM BootstrapInductive == BootstrapSpec => []BootstrapInv
<1>1. BootstrapInit => BootstrapInv
  BY BootstrapStart
<1>2. BootstrapInv /\ [BootstrapNext]_bootstrapState => BootstrapInv'
  <2>. SUFFICES ASSUME BootstrapInv, [BootstrapNext]_bootstrapState PROVE BootstrapInv'
    OBVIOUS
  <2>1. CASE UNCHANGED bootstrapState
    BY <2>1 DEF bootstrapState, BootstrapInv, BootstrapTypeOK, AfterSettings, Held,
                FileLeads, Filling, TokenOpens
  <2>2. CASE BootstrapNext
    BY <2>2, StartKeeps, CreateKeeps, WriteKeeps, CommitKeeps, OthersKeep
       DEF BootstrapNext
  <2>. QED BY <2>1, <2>2
<1>. QED BY <1>1, <1>2, PTL DEF BootstrapSpec

(* ensure_server, however many processes start on the directory and die:   *)
(* the token of the file that was announced opens the server.              *)
THEOREM AnnouncedOpens == BootstrapSpec => []TokenOpens
<1>1. BootstrapInv => TokenOpens
  BY DEF BootstrapInv
<1>. QED BY <1>1, BootstrapInductive, PTL
=============================================================================
