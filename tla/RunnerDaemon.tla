------------------------------ MODULE RunnerDaemon ------------------------------
(***************************************************************************)
(* The whole daemon: connections whose envelopes pass the Authenticator    *)
(* before RunnerService dispatches the command they carry (Runner).  The   *)
(* clock is read before the cache of nonces is locked, so verifications    *)
(* take the lock in another order than they read the clock; and the clock  *)
(* is the system's, which may go back.                                     *)
(***************************************************************************)
EXTENDS Runner

CONSTANTS
    Envelopes,      \* signed by a holder of the key
    Decodable,      \* those whose payload is a command
    Forged,         \* any other envelope
    Issued,         \* envelope -> issued_at_ms
    Command,        \* envelope -> its type and request
    Window,         \* MAX_CLOCK_SKEW_MS
    MaxTime,        \* bounds the readings of the clock
    MaxReplay       \* MAX_REPLAY_ENTRIES

ASSUME DaemonAssumption ==
    /\ Window \in Nat /\ MaxTime \in Nat /\ MaxReplay \in Nat
    /\ Issued \in [Envelopes -> 0..MaxTime]
    /\ Decodable \subseteq Envelopes
    /\ Command \in [Envelopes -> [op : Ops, req : Requests]]
    /\ Forged \notin Envelopes /\ Nobody \notin Envelopes \cup {Forged}

VARIABLES gate,      \* where each connection is
          envelope,  \* what it has sent
          now,       \* the reading it is verified with
          seen,      \* nonces in the cache; an envelope has one of its own
          newest,    \* history: the latest reading the cache was pruned with
          accepted,  \* history: envelopes accepted since the daemon started
          twice,     \* history: those accepted more than once
          overtaken  \* history: whether a reading below `newest` was used

authenticator == <<gate, envelope, now, seen, newest, accepted, twice, overtaken>>

DaemonTypeOK ==
    /\ gate \in [Handlers -> {"waiting", "closed", "verify", "admitted", "rejected", "dead"}]
    /\ envelope \in [Handlers -> Envelopes \cup {Forged, Nobody}]
    /\ now \in [Handlers -> 0..MaxTime]
    /\ seen \in SUBSET Envelopes
    /\ newest \in 0..MaxTime
    /\ accepted \in SUBSET Envelopes
    /\ twice \in SUBSET Envelopes
    /\ overtaken \in BOOLEAN

DaemonInit ==
    /\ Init
    /\ gate = [h \in Handlers |-> "waiting"]
    /\ envelope = [h \in Handlers |-> Nobody]
    /\ now = [h \in Handlers |-> 0]
    /\ seen = {}
    /\ newest = 0
    /\ accepted = {}
    /\ twice = {}
    /\ overtaken = FALSE
-----------------------------------------------------------------------------
(* read_frame: too long, empty, cut off, or more than one; the connection  *)
(* is closed without an answer.                                            *)
FrameFails(h) ==
    /\ gate[h] = "waiting"
    /\ gate' = [gate EXCEPT ![h] = "closed"]
    /\ UNCHANGED <<vars, envelope, now, seen, newest, accepted, twice, overtaken>>

(* handle_connection and handle: a frame is read, then the clock. *)
Connect(h, e, t) ==
    /\ gate[h] = "waiting"
    /\ gate' = [gate EXCEPT ![h] = "verify"]
    /\ envelope' = [envelope EXCEPT ![h] = e]
    /\ now' = [now EXCEPT ![h] = t]
    /\ UNCHANGED <<vars, seen, newest, accepted, twice, overtaken>>

Within(e, t) == Issued[e] - t <= Window /\ t - Issued[e] <= Window

(* The MAC is that of the envelope's fields under the key. *)
Signed(e) == e # Forged

Acceptable(h) == Signed(envelope[h]) /\ Within(envelope[h], now[h])

Verdict(h, verdict) == gate' = [gate EXCEPT ![h] = verdict]

(* The version, the skew, the format or the MAC is not right. *)
VerifyFails(h) ==
    /\ gate[h] = "verify"
    /\ ~Acceptable(h)
    /\ Verdict(h, "rejected")
    /\ UNCHANGED <<vars, envelope, now, seen, newest, accepted, twice, overtaken>>

(* Mutant: an entry leaves the cache when it is as old as the window. *)
RetainedLess(t) == {e \in seen : Issued[e] - t < Window /\ t - Issued[e] < Window}

(* seen.retain *)
Retained(t) == {e \in seen : Within(e, t)}

(* The lock section of verify: expired entries leave the cache, then the   *)
(* nonce is looked up; a full cache refuses what it does not hold.  The    *)
(* payload is decoded afterwards: one that is no command has spent its     *)
(* nonce.                                                                  *)
VerifyNonce(h) ==
    LET e == envelope[h]
        kept == Retained(now[h])
        refused == e \in kept \/ Cardinality(kept) >= MaxReplay
    IN
    /\ gate[h] = "verify"
    /\ Acceptable(h)
    /\ newest' = IF now[h] > newest THEN now[h] ELSE newest
    /\ overtaken' = (overtaken \/ now[h] < newest)
    /\ seen' = IF refused THEN kept ELSE kept \cup {e}
    /\ IF refused \/ e \notin Decodable
         THEN /\ Verdict(h, "rejected")
              /\ UNCHANGED <<vars, accepted, twice>>
         ELSE /\ Verdict(h, "admitted")
              /\ accepted' = accepted \cup {e}
              /\ twice' = twice \cup ({e} \cap accepted)
              /\ Receive(h, Command[e].op, Command[e].req)
    /\ UNCHANGED <<envelope, now>>

(* The daemon dies and is started again, with an empty cache. *)
DaemonCrash ==
    /\ \E h \in Handlers : gate[h] = "verify" \/ pc[h] \in Live
    /\ IF \E h \in Handlers : pc[h] \in Live THEN Crash ELSE UNCHANGED vars
    /\ gate' = [h \in Handlers |-> IF gate[h] = "verify" THEN "dead" ELSE gate[h]]
    /\ seen' = {}
    /\ newest' = 0
    /\ accepted' = {}
    /\ twice' = {}
    /\ overtaken' = FALSE
    /\ UNCHANGED <<envelope, now>>

Verify(h) == VerifyFails(h) \/ VerifyNonce(h)

Work(h) == Step(h) /\ UNCHANGED authenticator

DaemonNext ==
    \/ \E h \in Handlers :
          \/ \E e \in Envelopes \cup {Forged}, t \in 0..MaxTime : Connect(h, e, t)
          \/ FrameFails(h)
          \/ Verify(h)
          \/ Work(h)
    \/ DaemonCrash

DaemonSpec == DaemonInit /\ [][DaemonNext]_<<vars, authenticator>>

(* As FairSpec of Runner; the lock of the cache is fair too. *)
DaemonFairness ==
    \A h \in Handlers : WF_<<vars, authenticator>>(Verify(h)) /\ WF_vars(Work(h))
-----------------------------------------------------------------------------
(* Authenticator::verify ("Base64url-encoded 16-byte random value, unique  *)
(* within the skew window"): while verifications take the lock in the      *)
(* order of the clocks they have read, a running daemon accepts an         *)
(* envelope at most once, whatever is pruned meanwhile.                    *)
AcceptedOnce == ~overtaken => twice = {}

(* handle_connection: every connection that has sent its frame is answered *)
(* unless the daemon dies, first by the Authenticator, then by the service.*)
EveryConnectionAnswered ==
    \A h \in Handlers : gate[h] = "verify" ~>
        (\/ gate[h] \in {"rejected", "dead"}
         \/ gate[h] = "admitted" /\ pc[h] \in {"done", "dead"})
=============================================================================
