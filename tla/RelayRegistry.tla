---------------------------- MODULE RelayRegistry ----------------------------
(***************************************************************************)
(* The relay side of the Cloud: the in-memory registry of relay sessions,  *)
(* the durable installation rows, and the tasks that share them.  Each     *)
(* WebSocket is a relay_session task, each proxied HTTP request a          *)
(* relay_proxy task, each DELETE /installations/{id} a revoker.            *)
(*                                                                         *)
(* The registry lock is asynchronous and modelled as such: a section that  *)
(* neither awaits nor leaves the database lock between two changes is one  *)
(* action; revocation changes the database and then the registry, so it is *)
(* two with the lock held.  A session serves one exchange at a time from a *)
(* channel of capacity one; the channel stays open while a sender is left, *)
(* and every proxy keeps a clone of the sender until it answers.           *)
(*                                                                         *)
(* Deadlines are nondeterministic: a bounded wait may end at any time.     *)
(* Frames, headers and bodies are left out (RelayRegistry is about         *)
(* routing); database statements succeed.                                  *)
(***************************************************************************)
EXTENDS Naturals, FiniteSets

CONSTANTS Installations, Sessions, Proxies,
          None            \* no session, no proxy, no installation

ASSUME RegistryAssumption ==
    /\ None \notin Installations
    /\ None \notin Sessions
    /\ None \notin Proxies

VARIABLES revoked,    \* durable: installations with revoked_at
          connected,  \* durable: installations with connected_at
          relays,     \* registry: installation's route -> session, or None
          revoker,    \* the installation whose revoker holds the registry lock
          sess,       \* where each relay_session task is
          inst,       \* the installation a session authenticated for
          queue,      \* the exchange in a session's channel, lost when it ends
          current,    \* the exchange a session is executing
          proxy,      \* where each relay_proxy task is
          via,        \* the session whose sender a proxy has cloned
          answer      \* the proxy's HTTP answer

vars == <<revoked, connected, relays, revoker, sess, inst, queue, current,
          proxy, via, answer>>
proxies == <<proxy, via, answer>>
channels == <<queue, current>>

SessionPhases == {"new", "hello", "serving", "exchange", "closing", "clearing",
                  "ended"}
ProxyPhases == {"new", "body", "waiting", "done"}
Answers == {"none", "ok", "bad_request", "unavailable", "upstream_failed",
            "timeout", "lost"}

TypeOK ==
    /\ revoked \in SUBSET Installations
    /\ connected \in SUBSET Installations
    /\ relays \in [Installations -> Sessions \cup {None}]
    /\ revoker \in Installations \cup {None}
    /\ sess \in [Sessions -> SessionPhases]
    /\ inst \in [Sessions -> Installations \cup {None}]
    /\ queue \in [Sessions -> Proxies \cup {None}]
    /\ current \in [Sessions -> Proxies \cup {None}]
    /\ proxy \in [Proxies -> ProxyPhases]
    /\ via \in [Proxies -> Sessions \cup {None}]
    /\ answer \in [Proxies -> Answers]

Init ==
    /\ revoked = {}
    /\ connected = {}
    /\ relays = [i \in Installations |-> None]
    /\ revoker = None
    /\ sess = [s \in Sessions |-> "new"]
    /\ inst = [s \in Sessions |-> None]
    /\ queue = [s \in Sessions |-> None]
    /\ current = [s \in Sessions |-> None]
    /\ proxy = [p \in Proxies |-> "new"]
    /\ via = [p \in Proxies |-> None]
    /\ answer = [p \in Proxies |-> "none"]

(* Mutant: the session keeps a sender of its own channel. *)
HasSenderOwn(s) == sess[s] # "ended"

(* Tasks hold a sender of s: its registration, or a proxy's clone of it. *)
HasSender(s) ==
    \/ \E i \in Installations : relays[i] = s
    \/ \E p \in Proxies : proxy[p] \in {"body", "waiting"} /\ via[p] = s

(* The proxy answers, which drops its clone of the sender. *)
Answered(p, a) ==
    /\ proxy' = [proxy EXCEPT ![p] = "done"]
    /\ answer' = [answer EXCEPT ![p] = a]
-----------------------------------------------------------------------------
(* relay_connect: the credential is checked before the upgrade. *)
Connect(s, i) ==
    /\ sess[s] = "new"
    /\ i \notin revoked
    /\ inst' = [inst EXCEPT ![s] = i]
    /\ sess' = [sess EXCEPT ![s] = "hello"]
    /\ UNCHANGED <<revoked, connected, relays, revoker, channels, proxies>>

(* The hello does not arrive or is refused, or ready cannot be sent. *)
HandshakeFails(s) ==
    /\ sess[s] = "hello"
    /\ sess' = [sess EXCEPT ![s] = "ended"]
    /\ UNCHANGED <<revoked, connected, relays, revoker, inst, channels, proxies>>

(* Mutant: the check made before the upgrade is not repeated. *)
RegisterUnchecked(s) ==
    /\ sess[s] = "hello"
    /\ revoker = None
    /\ connected' = connected \cup {inst[s]}
    /\ relays' = [relays EXCEPT ![inst[s]] = s]
    /\ sess' = [sess EXCEPT ![s] = "serving"]
    /\ UNCHANGED <<revoked, revoker, inst, channels, proxies>>

(* register_relay_if_active, under the registry lock and the database      *)
(* lock; it replaces an older session of the route.                        *)
Register(s) ==
    /\ sess[s] = "hello"
    /\ revoker = None
    /\ \/ /\ inst[s] \notin revoked
          /\ connected' = connected \cup {inst[s]}
          /\ relays' = [relays EXCEPT ![inst[s]] = s]
          /\ sess' = [sess EXCEPT ![s] = "serving"]
       \/ /\ inst[s] \in revoked
          /\ sess' = [sess EXCEPT ![s] = "ended"]
          /\ UNCHANGED <<connected, relays>>
    /\ UNCHANGED <<revoked, revoker, inst, channels, proxies>>

(* The loop takes the next exchange, even one whose proxy gave up. *)
TakeExchange(s) ==
    /\ sess[s] = "serving"
    /\ queue[s] # None
    /\ current' = [current EXCEPT ![s] = queue[s]]
    /\ queue' = [queue EXCEPT ![s] = None]
    /\ sess' = [sess EXCEPT ![s] = "exchange"]
    /\ UNCHANGED <<revoked, connected, relays, revoker, inst, proxies>>

(* The reply reaches the proxy if it still waits for it. *)
Reply(s, a) ==
    LET p == current[s] IN
    IF proxy[p] = "waiting" THEN Answered(p, a) ELSE UNCHANGED <<proxy, answer>>

ExchangeSucceeds(s) ==
    /\ sess[s] = "exchange"
    /\ Reply(s, "ok")
    /\ current' = [current EXCEPT ![s] = None]
    /\ sess' = [sess EXCEPT ![s] = "serving"]
    /\ UNCHANGED <<revoked, connected, relays, revoker, inst, queue, via>>

(* A failed or late exchange ends the loop, which fences late frames. *)
ExchangeFails(s) ==
    /\ sess[s] = "exchange"
    /\ Reply(s, "upstream_failed")
    /\ current' = [current EXCEPT ![s] = None]
    /\ sess' = [sess EXCEPT ![s] = "closing"]
    /\ UNCHANGED <<revoked, connected, relays, revoker, inst, queue, via>>

(* recv() yields None once no sender is left. *)
SendersGone(s) ==
    /\ sess[s] = "serving"
    /\ queue[s] = None
    /\ ~HasSender(s)
    /\ sess' = [sess EXCEPT ![s] = "closing"]
    /\ UNCHANGED <<revoked, connected, relays, revoker, inst, channels, proxies>>

(* The socket closes or carries a frame that is not a ping. *)
SocketLost(s) ==
    /\ sess[s] = "serving"
    /\ sess' = [sess EXCEPT ![s] = "closing"]
    /\ UNCHANGED <<revoked, connected, relays, revoker, inst, channels, proxies>>

(* Mutant: the cleanup does not look whose registration it removes. *)
UnregisterAny(s) ==
    /\ sess[s] = "closing"
    /\ revoker = None
    /\ relays' = [relays EXCEPT ![inst[s]] = None]
    /\ sess' = [sess EXCEPT ![s] = "clearing"]
    /\ UNCHANGED <<revoked, connected, revoker, inst, channels, proxies>>

(* Mutant: a session whose registration is its own leaves the row alone. *)
UnregisterOnly(s) ==
    /\ sess[s] = "closing"
    /\ revoker = None
    /\ relays' = [relays EXCEPT ![inst[s]] = IF @ = s THEN None ELSE @]
    /\ sess' = [sess EXCEPT ![s] = "ended"]
    /\ UNCHANGED <<revoked, connected, revoker, inst, channels, proxies>>

(* After the loop, under the registry lock: remove the registration if it  *)
(* is still this session's.                                                *)
Unregister(s) ==
    /\ sess[s] = "closing"
    /\ revoker = None
    /\ \/ /\ relays[inst[s]] = s
          /\ relays' = [relays EXCEPT ![inst[s]] = None]
          /\ sess' = [sess EXCEPT ![s] = "clearing"]
       \/ /\ relays[inst[s]] # s
          /\ sess' = [sess EXCEPT ![s] = "ended"]
          /\ UNCHANGED relays
    /\ UNCHANGED <<revoked, connected, revoker, inst, channels, proxies>>

(* The registry lock is free again when the row's presence is cleared. *)
ClearPresence(s) ==
    /\ sess[s] = "clearing"
    /\ connected' = IF inst[s] \in revoked THEN connected ELSE connected \ {inst[s]}
    /\ sess' = [sess EXCEPT ![s] = "ended"]
    /\ UNCHANGED <<revoked, relays, revoker, inst, channels, proxies>>
-----------------------------------------------------------------------------
(* relay_proxy: the route's registration is cloned under the lock. *)
Lookup(p, i) ==
    /\ proxy[p] = "new"
    /\ revoker = None
    /\ \/ /\ relays[i] = None
          /\ Answered(p, "unavailable")
          /\ UNCHANGED via
       \/ /\ relays[i] # None
          /\ via' = [via EXCEPT ![p] = relays[i]]
          /\ proxy' = [proxy EXCEPT ![p] = "body"]
          /\ UNCHANGED answer
    /\ UNCHANGED <<revoked, connected, relays, revoker, sess, inst, channels>>

(* An unsupported method or header, or a body that is too large. *)
RejectRequest(p) ==
    /\ proxy[p] = "body"
    /\ Answered(p, "bad_request")
    /\ UNCHANGED <<revoked, connected, relays, revoker, sess, inst, channels, via>>

(* The body has arrived and the channel has room. *)
Admit(p) ==
    /\ proxy[p] = "body"
    /\ sess[via[p]] # "ended"
    /\ queue[via[p]] = None
    /\ queue' = [queue EXCEPT ![via[p]] = p]
    /\ proxy' = [proxy EXCEPT ![p] = "waiting"]
    /\ UNCHANGED <<revoked, connected, relays, revoker, sess, inst, current, via,
                   answer>>

(* The session's task, and with it the receiver, is gone. *)
SendFails(p) ==
    /\ proxy[p] = "body"
    /\ sess[via[p]] = "ended"
    /\ Answered(p, "unavailable")
    /\ UNCHANGED <<revoked, connected, relays, revoker, sess, inst, channels, via>>

(* Mutant: the wait for the reply has no deadline of its own. *)
ProxyTimeoutUnqueued(p) ==
    /\ proxy[p] = "body"
    /\ Answered(p, "timeout")
    /\ UNCHANGED <<revoked, connected, relays, revoker, sess, inst, channels, via>>

(* The deadline passes while the body, the channel or the reply is awaited; *)
(* a reply dropped unsent is reported in the same way.                      *)
ProxyTimeout(p) ==
    /\ proxy[p] \in {"body", "waiting"}
    /\ Answered(p, "timeout")
    /\ UNCHANGED <<revoked, connected, relays, revoker, sess, inst, channels, via>>

(* The client goes away: its handler is dropped wherever it waits, and an  *)
(* exchange already in the channel stays there.                            *)
ClientGone(p) ==
    /\ proxy[p] \in {"body", "waiting"}
    /\ Answered(p, "lost")
    /\ UNCHANGED <<revoked, connected, relays, revoker, sess, inst, channels, via>>
-----------------------------------------------------------------------------
(* revoke_installation: the registry lock is taken, the database commits.  *)
RevokeCommit(i) ==
    /\ revoker = None
    /\ revoker' = i
    /\ revoked' = revoked \cup {i}
    /\ UNCHANGED <<connected, relays, sess, inst, channels, proxies>>

(* Then the registration is removed and the lock released. *)
RevokeRemove ==
    /\ revoker # None
    /\ relays' = [relays EXCEPT ![revoker] = None]
    /\ revoker' = None
    /\ UNCHANGED <<revoked, connected, sess, inst, channels, proxies>>

(* The process stops; Cloud::open clears the presence of every             *)
(* installation that is not revoked.                                       *)
Restart ==
    /\ connected' = connected \cap revoked
    /\ relays' = [i \in Installations |-> None]
    /\ revoker' = None
    /\ sess' = [s \in Sessions |-> IF sess[s] = "new" THEN "new" ELSE "ended"]
    /\ queue' = [s \in Sessions |-> None]
    /\ current' = [s \in Sessions |-> None]
    /\ proxy' = [p \in Proxies |-> IF proxy[p] = "new" THEN "new" ELSE "done"]
    /\ answer' = [p \in Proxies |->
                     IF proxy[p] \in {"body", "waiting"} THEN "lost" ELSE answer[p]]
    /\ UNCHANGED <<revoked, inst, via>>

SessionStep(s) ==
    \/ TakeExchange(s)
    \/ ExchangeSucceeds(s)
    \/ ExchangeFails(s)
    \/ SendersGone(s)
    \/ ClearPresence(s)

ProxyStep(p) ==
    \/ RejectRequest(p)
    \/ Admit(p)
    \/ SendFails(p)
    \/ ProxyTimeout(p)

Next ==
    \/ \E s \in Sessions, i \in Installations : Connect(s, i)
    \/ \E s \in Sessions : \/ HandshakeFails(s)
                           \/ Register(s)
                           \/ SocketLost(s)
                           \/ Unregister(s)
                           \/ SessionStep(s)
    \/ \E p \in Proxies, i \in Installations : Lookup(p, i)
    \/ \E p \in Proxies : ProxyStep(p) \/ ClientGone(p)
    \/ \E i \in Installations : RevokeCommit(i)
    \/ RevokeRemove
    \/ Restart

Spec == Init /\ [][Next]_vars

(* Ready tasks run, waits have deadlines, and the registry lock is a fair  *)
(* FIFO mutex, so a task that keeps asking for it gets it.                 *)
Fairness ==
    /\ \A s \in Sessions : WF_vars(SessionStep(s)) /\ SF_vars(Unregister(s))
    /\ \A p \in Proxies : WF_vars(ProxyStep(p))
    /\ WF_vars(RevokeRemove)

FairSpec == Spec /\ Fairness
-----------------------------------------------------------------------------
(* relay_session ("an active route cannot be published after its           *)
(* credential/installation has been revoked"): once its revoker is done, a *)
(* revoked installation has no route, whenever its connector passed the    *)
(* credential check.                                                       *)
RevokedNeverRouted ==
    \A i \in revoked : revoker # i => relays[i] = None

(* Cloud::open and relay_session: an installation shown as connected has a *)
(* session in the registry, or one that is about to clear its presence.    *)
NoGhostPresence ==
    \A i \in connected \ revoked :
        \/ /\ relays[i] # None
           /\ sess[relays[i]] \in {"serving", "exchange", "closing"}
        \/ \E s \in Sessions : sess[s] = "clearing" /\ inst[s] = i

(* "stale-session cleanup cannot remove the replacement": the route of a   *)
(* session that goes on serving disappears only by revocation.             *)
CleanupSparesReplacement ==
    [][\A i \in Installations :
          LET s == relays[i] IN
          /\ s # None
          /\ sess[s] \in {"serving", "exchange"}
          /\ sess'[s] \in {"serving", "exchange"}
          /\ relays'[i] = None
          => i \in revoked]_vars

(* "Installation revoked: Relay session terminates", and a replaced one    *)
(* with it: a session out of the registry ends, once the proxies that hold *)
(* its sender have answered.                                               *)
UnroutedSessionEnds ==
    \A s \in Sessions :
        /\ sess[s] \in {"serving", "exchange", "closing"}
        /\ \A i \in Installations : relays[i] # s
        ~> sess[s] = "ended"

(* relay_proxy: every request is answered, whatever its session does.      *)
EveryProxyAnswered ==
    \A p \in Proxies : proxy[p] = "body" ~> proxy[p] = "done"

(* docs/architecture/CONNECTOR_AND_RELAY.md ("stale-session cleanup cannot *)
(* remove the replacement"): an installation whose session serves a route  *)
(* is shown as connected.                                                  *)
RoutedIsPresent ==
    \A i \in Installations \ revoked :
        relays[i] # None /\ sess[relays[i]] = "serving" => i \in connected

(* docs/OPERATIONS.md ("Revoking an installation must terminate its active *)
(* route"): no exchange begins for an installation once its revocation is  *)
(* complete.                                                               *)
NoExchangeAfterRevocation ==
    [][\A s \in Sessions :
          sess[s] = "serving" /\ sess'[s] = "exchange"
              => inst[s] \notin revoked \/ revoker = inst[s]]_vars
==============================================================================
