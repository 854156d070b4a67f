------------------------ MODULE RelayRegistryProofs ------------------------
(***************************************************************************)
(* Proofs about RelayRegistry for any number of installations, sessions    *)
(* and proxies.                                                            *)
(*                                                                         *)
(* A registration names a session of that very installation which has not  *)
(* yet cleaned up (Routed); with it, revocation and publication exclude    *)
(* one another under the registry lock, presence is always someone's to    *)
(* clear, and a cleanup finds nothing but its own registration.            *)
(***************************************************************************)
EXTENDS RelayRegistry, TLAPS

RoutedPhases == {"serving", "exchange", "closing"}

Routed ==
    \A i \in Installations : relays[i] # None =>
        inst[relays[i]] = i /\ sess[relays[i]] \in RoutedPhases

Known ==
    /\ \A s \in Sessions : sess[s] # "new" /\ sess[s] # "ended" =>
          inst[s] \in Installations
    /\ revoker # None => revoker \in revoked

IInv == TypeOK /\ Routed /\ Known /\ RevokedNeverRouted /\ NoGhostPresence

USE DEF SessionPhases, ProxyPhases, Answers, RoutedPhases

(* The first state, with no session, satisfies the inductive invariant. *)
LEMMA InitIInv ==
    ASSUME Init PROVE IInv
BY RegistryAssumption
   DEF Init, IInv, TypeOK, Routed, Known, RevokedNeverRouted, NoGhostPresence

(* Each action assigns every variable a value of its type. *)
LEMMA TypeStep ==
    ASSUME IInv, [Next]_vars PROVE TypeOK'
<1>. USE RegistryAssumption DEF IInv, TypeOK, Known
<1>1. ASSUME NEW s \in Sessions, NEW i \in Installations, Connect(s, i)
     PROVE TypeOK'
  BY <1>1 DEF Connect, channels, proxies
<1>2. ASSUME NEW s \in Sessions, HandshakeFails(s) PROVE TypeOK'
  BY <1>2 DEF HandshakeFails, channels, proxies
<1>3. ASSUME NEW s \in Sessions, Register(s) PROVE TypeOK'
  BY <1>3 DEF Register, channels, proxies
<1>4. ASSUME NEW s \in Sessions, SocketLost(s) PROVE TypeOK'
  BY <1>4 DEF SocketLost, channels, proxies
<1>5. ASSUME NEW s \in Sessions, Unregister(s) PROVE TypeOK'
  BY <1>5 DEF Unregister, channels, proxies
<1>6. ASSUME NEW s \in Sessions, TakeExchange(s) PROVE TypeOK'
  BY <1>6 DEF TakeExchange, proxies
<1>7. ASSUME NEW s \in Sessions, ExchangeSucceeds(s) PROVE TypeOK'
  BY <1>7 DEF ExchangeSucceeds, Reply, Answered
<1>8. ASSUME NEW s \in Sessions, ExchangeFails(s) PROVE TypeOK'
  BY <1>8 DEF ExchangeFails, Reply, Answered
<1>9. ASSUME NEW s \in Sessions, SendersGone(s) PROVE TypeOK'
  BY <1>9 DEF SendersGone, channels, proxies
<1>10. ASSUME NEW s \in Sessions, ClearPresence(s) PROVE TypeOK'
  BY <1>10 DEF ClearPresence, channels, proxies
<1>11. ASSUME NEW p \in Proxies, NEW i \in Installations, Lookup(p, i)
     PROVE TypeOK'
  BY <1>11 DEF Lookup, Answered, channels
<1>12. ASSUME NEW p \in Proxies, RejectRequest(p) PROVE TypeOK'
  BY <1>12 DEF RejectRequest, Answered, channels
<1>13. ASSUME NEW p \in Proxies, Admit(p) PROVE TypeOK'
  BY <1>13 DEF Admit
<1>14. ASSUME NEW p \in Proxies, SendFails(p) PROVE TypeOK'
  BY <1>14 DEF SendFails, Answered, channels
<1>15. ASSUME NEW p \in Proxies, ProxyTimeout(p) PROVE TypeOK'
  BY <1>15 DEF ProxyTimeout, Answered, channels
<1>16. ASSUME NEW p \in Proxies, ClientGone(p) PROVE TypeOK'
  BY <1>16 DEF ClientGone, Answered, channels
<1>17. ASSUME NEW i \in Installations, RevokeCommit(i) PROVE TypeOK'
  BY <1>17 DEF RevokeCommit, channels, proxies
<1>18. CASE RevokeRemove
  BY <1>18 DEF RevokeRemove, channels, proxies
<1>19. CASE Restart
  BY <1>19 DEF Restart
<1>20. CASE UNCHANGED vars
  BY <1>20 DEF vars
<1>. QED
  BY <1>1, <1>2, <1>3, <1>4, <1>5, <1>6, <1>7, <1>8, <1>9, <1>10,
     <1>11, <1>12, <1>13, <1>14, <1>15, <1>16, <1>17, <1>18, <1>19, <1>20
     DEF Next, SessionStep, ProxyStep

(* Only Register adds a registration, and a session leaves the routed      *)
(* phases only by removing it.                                             *)
LEMMA RoutedStep ==
    ASSUME IInv, [Next]_vars PROVE Routed'
<1>. USE RegistryAssumption DEF IInv, TypeOK, Known, Routed
<1>1. ASSUME NEW s \in Sessions, NEW i \in Installations, Connect(s, i)
     PROVE Routed'
  BY <1>1 DEF Connect, channels, proxies
<1>2. ASSUME NEW s \in Sessions, HandshakeFails(s) PROVE Routed'
  BY <1>2 DEF HandshakeFails, channels, proxies
<1>3. ASSUME NEW s \in Sessions, Register(s) PROVE Routed'
  BY <1>3 DEF Register, channels, proxies
<1>4. ASSUME NEW s \in Sessions, SocketLost(s) PROVE Routed'
  BY <1>4 DEF SocketLost, channels, proxies
<1>5. ASSUME NEW s \in Sessions, Unregister(s) PROVE Routed'
  BY <1>5 DEF Unregister, channels, proxies
<1>6. ASSUME NEW s \in Sessions, TakeExchange(s) PROVE Routed'
  BY <1>6 DEF TakeExchange, proxies
<1>7. ASSUME NEW s \in Sessions, ExchangeSucceeds(s) PROVE Routed'
  BY <1>7 DEF ExchangeSucceeds, Reply, Answered
<1>8. ASSUME NEW s \in Sessions, ExchangeFails(s) PROVE Routed'
  BY <1>8 DEF ExchangeFails, Reply, Answered
<1>9. ASSUME NEW s \in Sessions, SendersGone(s) PROVE Routed'
  BY <1>9 DEF SendersGone, channels, proxies
<1>10. ASSUME NEW s \in Sessions, ClearPresence(s) PROVE Routed'
  BY <1>10 DEF ClearPresence, channels, proxies
<1>11. ASSUME NEW p \in Proxies, NEW i \in Installations, Lookup(p, i)
     PROVE Routed'
  BY <1>11 DEF Lookup, Answered, channels
<1>12. ASSUME NEW p \in Proxies, RejectRequest(p) PROVE Routed'
  BY <1>12 DEF RejectRequest, Answered, channels
<1>13. ASSUME NEW p \in Proxies, Admit(p) PROVE Routed'
  BY <1>13 DEF Admit
<1>14. ASSUME NEW p \in Proxies, SendFails(p) PROVE Routed'
  BY <1>14 DEF SendFails, Answered, channels
<1>15. ASSUME NEW p \in Proxies, ProxyTimeout(p) PROVE Routed'
  BY <1>15 DEF ProxyTimeout, Answered, channels
<1>16. ASSUME NEW p \in Proxies, ClientGone(p) PROVE Routed'
  BY <1>16 DEF ClientGone, Answered, channels
<1>17. ASSUME NEW i \in Installations, RevokeCommit(i) PROVE Routed'
  BY <1>17 DEF RevokeCommit, channels, proxies
<1>18. CASE RevokeRemove
  BY <1>18 DEF RevokeRemove, channels, proxies
<1>19. CASE Restart
  BY <1>19 DEF Restart
<1>20. CASE UNCHANGED vars
  BY <1>20 DEF vars
<1>. QED
  BY <1>1, <1>2, <1>3, <1>4, <1>5, <1>6, <1>7, <1>8, <1>9, <1>10,
     <1>11, <1>12, <1>13, <1>14, <1>15, <1>16, <1>17, <1>18, <1>19, <1>20
     DEF Next, SessionStep, ProxyStep

(* A task knows its installation, and a revoker has committed. *)
LEMMA KnownStep ==
    ASSUME IInv, [Next]_vars PROVE Known'
<1>. USE RegistryAssumption DEF IInv, TypeOK, Known
<1>1. ASSUME NEW s \in Sessions, NEW i \in Installations, Connect(s, i)
     PROVE Known'
  BY <1>1 DEF Connect, channels, proxies
<1>2. ASSUME NEW s \in Sessions, HandshakeFails(s) PROVE Known'
  BY <1>2 DEF HandshakeFails, channels, proxies
<1>3. ASSUME NEW s \in Sessions, Register(s) PROVE Known'
  BY <1>3 DEF Register, channels, proxies
<1>4. ASSUME NEW s \in Sessions, SocketLost(s) PROVE Known'
  BY <1>4 DEF SocketLost, channels, proxies
<1>5. ASSUME NEW s \in Sessions, Unregister(s) PROVE Known'
  BY <1>5 DEF Unregister, channels, proxies
<1>6. ASSUME NEW s \in Sessions, TakeExchange(s) PROVE Known'
  BY <1>6 DEF TakeExchange, proxies
<1>7. ASSUME NEW s \in Sessions, ExchangeSucceeds(s) PROVE Known'
  BY <1>7 DEF ExchangeSucceeds, Reply, Answered
<1>8. ASSUME NEW s \in Sessions, ExchangeFails(s) PROVE Known'
  BY <1>8 DEF ExchangeFails, Reply, Answered
<1>9. ASSUME NEW s \in Sessions, SendersGone(s) PROVE Known'
  BY <1>9 DEF SendersGone, channels, proxies
<1>10. ASSUME NEW s \in Sessions, ClearPresence(s) PROVE Known'
  BY <1>10 DEF ClearPresence, channels, proxies
<1>11. ASSUME NEW p \in Proxies, NEW i \in Installations, Lookup(p, i)
     PROVE Known'
  BY <1>11 DEF Lookup, Answered, channels
<1>12. ASSUME NEW p \in Proxies, RejectRequest(p) PROVE Known'
  BY <1>12 DEF RejectRequest, Answered, channels
<1>13. ASSUME NEW p \in Proxies, Admit(p) PROVE Known'
  BY <1>13 DEF Admit
<1>14. ASSUME NEW p \in Proxies, SendFails(p) PROVE Known'
  BY <1>14 DEF SendFails, Answered, channels
<1>15. ASSUME NEW p \in Proxies, ProxyTimeout(p) PROVE Known'
  BY <1>15 DEF ProxyTimeout, Answered, channels
<1>16. ASSUME NEW p \in Proxies, ClientGone(p) PROVE Known'
  BY <1>16 DEF ClientGone, Answered, channels
<1>17. ASSUME NEW i \in Installations, RevokeCommit(i) PROVE Known'
  BY <1>17 DEF RevokeCommit, channels, proxies
<1>18. CASE RevokeRemove
  BY <1>18 DEF RevokeRemove, channels, proxies
<1>19. CASE Restart
  BY <1>19 DEF Restart
<1>20. CASE UNCHANGED vars
  BY <1>20 DEF vars
<1>. QED
  BY <1>1, <1>2, <1>3, <1>4, <1>5, <1>6, <1>7, <1>8, <1>9, <1>10,
     <1>11, <1>12, <1>13, <1>14, <1>15, <1>16, <1>17, <1>18, <1>19, <1>20
     DEF Next, SessionStep, ProxyStep

(* The registry lock makes revocation and publication exclude each other. *)
LEMMA RevokedStep ==
    ASSUME IInv, [Next]_vars PROVE RevokedNeverRouted'
<1>. USE RegistryAssumption DEF IInv, TypeOK, Known, RevokedNeverRouted
<1>1. ASSUME NEW s \in Sessions, NEW i \in Installations, Connect(s, i)
     PROVE RevokedNeverRouted'
  BY <1>1 DEF Connect, channels, proxies
<1>2. ASSUME NEW s \in Sessions, HandshakeFails(s) PROVE RevokedNeverRouted'
  BY <1>2 DEF HandshakeFails, channels, proxies
<1>3. ASSUME NEW s \in Sessions, Register(s) PROVE RevokedNeverRouted'
  BY <1>3 DEF Register, channels, proxies
<1>4. ASSUME NEW s \in Sessions, SocketLost(s) PROVE RevokedNeverRouted'
  BY <1>4 DEF SocketLost, channels, proxies
<1>5. ASSUME NEW s \in Sessions, Unregister(s) PROVE RevokedNeverRouted'
  BY <1>5 DEF Unregister, channels, proxies
<1>6. ASSUME NEW s \in Sessions, TakeExchange(s) PROVE RevokedNeverRouted'
  BY <1>6 DEF TakeExchange, proxies
<1>7. ASSUME NEW s \in Sessions, ExchangeSucceeds(s) PROVE RevokedNeverRouted'
  BY <1>7 DEF ExchangeSucceeds, Reply, Answered
<1>8. ASSUME NEW s \in Sessions, ExchangeFails(s) PROVE RevokedNeverRouted'
  BY <1>8 DEF ExchangeFails, Reply, Answered
<1>9. ASSUME NEW s \in Sessions, SendersGone(s) PROVE RevokedNeverRouted'
  BY <1>9 DEF SendersGone, channels, proxies
<1>10. ASSUME NEW s \in Sessions, ClearPresence(s) PROVE RevokedNeverRouted'
  BY <1>10 DEF ClearPresence, channels, proxies
<1>11. ASSUME NEW p \in Proxies, NEW i \in Installations, Lookup(p, i)
     PROVE RevokedNeverRouted'
  BY <1>11 DEF Lookup, Answered, channels
<1>12. ASSUME NEW p \in Proxies, RejectRequest(p) PROVE RevokedNeverRouted'
  BY <1>12 DEF RejectRequest, Answered, channels
<1>13. ASSUME NEW p \in Proxies, Admit(p) PROVE RevokedNeverRouted'
  BY <1>13 DEF Admit
<1>14. ASSUME NEW p \in Proxies, SendFails(p) PROVE RevokedNeverRouted'
  BY <1>14 DEF SendFails, Answered, channels
<1>15. ASSUME NEW p \in Proxies, ProxyTimeout(p) PROVE RevokedNeverRouted'
  BY <1>15 DEF ProxyTimeout, Answered, channels
<1>16. ASSUME NEW p \in Proxies, ClientGone(p) PROVE RevokedNeverRouted'
  BY <1>16 DEF ClientGone, Answered, channels
<1>17. ASSUME NEW i \in Installations, RevokeCommit(i) PROVE RevokedNeverRouted'
  BY <1>17 DEF RevokeCommit, channels, proxies
<1>18. CASE RevokeRemove
  BY <1>18 DEF RevokeRemove, channels, proxies
<1>19. CASE Restart
  BY <1>19 DEF Restart
<1>20. CASE UNCHANGED vars
  BY <1>20 DEF vars
<1>. QED
  BY <1>1, <1>2, <1>3, <1>4, <1>5, <1>6, <1>7, <1>8, <1>9, <1>10,
     <1>11, <1>12, <1>13, <1>14, <1>15, <1>16, <1>17, <1>18, <1>19, <1>20
     DEF Next, SessionStep, ProxyStep

(* Whoever takes a route away goes on to clear its presence. *)
LEMMA PresenceStep ==
    ASSUME IInv, [Next]_vars PROVE NoGhostPresence'
<1>. USE RegistryAssumption DEF IInv, TypeOK, Known, Routed, NoGhostPresence
<1>1. ASSUME NEW s \in Sessions, NEW i \in Installations, Connect(s, i)
     PROVE NoGhostPresence'
  BY <1>1 DEF Connect, channels, proxies
<1>2. ASSUME NEW s \in Sessions, HandshakeFails(s) PROVE NoGhostPresence'
  BY <1>2 DEF HandshakeFails, channels, proxies
<1>3. ASSUME NEW s \in Sessions, Register(s) PROVE NoGhostPresence'
  BY <1>3 DEF Register, channels, proxies
<1>4. ASSUME NEW s \in Sessions, SocketLost(s) PROVE NoGhostPresence'
  BY <1>4 DEF SocketLost, channels, proxies
<1>5. ASSUME NEW s \in Sessions, Unregister(s) PROVE NoGhostPresence'
  BY <1>5 DEF Unregister, channels, proxies
<1>6. ASSUME NEW s \in Sessions, TakeExchange(s) PROVE NoGhostPresence'
  BY <1>6 DEF TakeExchange, proxies
<1>7. ASSUME NEW s \in Sessions, ExchangeSucceeds(s) PROVE NoGhostPresence'
  BY <1>7 DEF ExchangeSucceeds, Reply, Answered
<1>8. ASSUME NEW s \in Sessions, ExchangeFails(s) PROVE NoGhostPresence'
  BY <1>8 DEF ExchangeFails, Reply, Answered
<1>9. ASSUME NEW s \in Sessions, SendersGone(s) PROVE NoGhostPresence'
  BY <1>9 DEF SendersGone, channels, proxies
<1>10. ASSUME NEW s \in Sessions, ClearPresence(s) PROVE NoGhostPresence'
  BY <1>10 DEF ClearPresence, channels, proxies
<1>11. ASSUME NEW p \in Proxies, NEW i \in Installations, Lookup(p, i)
     PROVE NoGhostPresence'
  BY <1>11 DEF Lookup, Answered, channels
<1>12. ASSUME NEW p \in Proxies, RejectRequest(p) PROVE NoGhostPresence'
  BY <1>12 DEF RejectRequest, Answered, channels
<1>13. ASSUME NEW p \in Proxies, Admit(p) PROVE NoGhostPresence'
  BY <1>13 DEF Admit
<1>14. ASSUME NEW p \in Proxies, SendFails(p) PROVE NoGhostPresence'
  BY <1>14 DEF SendFails, Answered, channels
<1>15. ASSUME NEW p \in Proxies, ProxyTimeout(p) PROVE NoGhostPresence'
  BY <1>15 DEF ProxyTimeout, Answered, channels
<1>16. ASSUME NEW p \in Proxies, ClientGone(p) PROVE NoGhostPresence'
  BY <1>16 DEF ClientGone, Answered, channels
<1>17. ASSUME NEW i \in Installations, RevokeCommit(i) PROVE NoGhostPresence'
  BY <1>17 DEF RevokeCommit, channels, proxies
<1>18. CASE RevokeRemove
  BY <1>18 DEF RevokeRemove, channels, proxies
<1>19. CASE Restart
  BY <1>19 DEF Restart
<1>20. CASE UNCHANGED vars
  BY <1>20 DEF vars
<1>. QED
  BY <1>1, <1>2, <1>3, <1>4, <1>5, <1>6, <1>7, <1>8, <1>9, <1>10,
     <1>11, <1>12, <1>13, <1>14, <1>15, <1>16, <1>17, <1>18, <1>19, <1>20
     DEF Next, SessionStep, ProxyStep

(* Any behaviour keeps the inductive invariant, whatever the constants. *)
THEOREM Inductive == Spec => []IInv
<1>1. Init => IInv
  BY InitIInv
<1>2. IInv /\ [Next]_vars => IInv'
  BY TypeStep, RoutedStep, KnownStep, RevokedStep, PresenceStep DEF IInv
<1>. QED BY <1>1, <1>2, PTL DEF Spec

(* The registry, the rows and the tasks stay well typed. *)
THEOREM TypeCorrect == Spec => []TypeOK
<1>1. IInv => TypeOK
  BY DEF IInv
<1>. QED BY <1>1, Inductive, PTL

(* relay_session and revoke_installation: a revoked installation is never  *)
(* routed again, even to a connector that authenticated before.            *)
THEOREM RevocationFences == Spec => []RevokedNeverRouted
<1>1. IInv => RevokedNeverRouted
  BY DEF IInv
<1>. QED BY <1>1, Inductive, PTL

(* relay_session and Cloud::open: presence never outlives both the route   *)
(* and its cleanup.                                                        *)
THEOREM PresenceBacked == Spec => []NoGhostPresence
<1>1. IInv => NoGhostPresence
  BY DEF IInv
<1>. QED BY <1>1, Inductive, PTL

(* relay_session: the cleanup of a stale session never takes the route of  *)
(* the session that replaced it.                                           *)
THEOREM ReplacementSpared == Spec => CleanupSparesReplacement
<1>. DEFINE Spared(i) ==
        LET s == relays[i] IN
        /\ s # None
        /\ sess[s] \in {"serving", "exchange"}
        /\ sess'[s] \in {"serving", "exchange"}
        /\ relays'[i] = None
        => i \in revoked
<1>1. ASSUME IInv, Next, NEW i \in Installations PROVE Spared(i)
  <2>. USE RegistryAssumption DEF IInv, TypeOK, Known, Routed
  <2>1. ASSUME NEW s \in Sessions, Unregister(s) PROVE Spared(i)
    BY <1>1, <2>1 DEF Unregister
  <2>2. ASSUME NEW s \in Sessions, Register(s) PROVE Spared(i)
    BY <1>1, <2>2 DEF Register
  <2>3. CASE RevokeRemove
    BY <1>1, <2>3 DEF RevokeRemove
  <2>4. CASE Restart
    BY <1>1, <2>4 DEF Restart
  <2>5. CASE UNCHANGED relays
    BY <1>1, <2>5
  <2>. QED
    BY <1>1, <2>1, <2>2, <2>3, <2>4, <2>5
       DEF Next, SessionStep, ProxyStep, Connect, HandshakeFails, SocketLost,
           TakeExchange, ExchangeSucceeds, ExchangeFails, SendersGone,
           ClearPresence, Lookup, RejectRequest, Admit, SendFails,
           ProxyTimeout, ClientGone, RevokeCommit
<1>2. IInv /\ [Next]_vars => [\A i \in Installations : Spared(i)]_vars
  BY <1>1
<1>. QED BY <1>2, Inductive, PTL DEF Spec, CleanupSparesReplacement
=============================================================================
