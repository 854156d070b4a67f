------------------------------- MODULE MCDaemon -------------------------------
(***************************************************************************)
(* What starts and serves processes of its own: the runner daemon, the     *)
(* creation of its key, and the Git transport of the server.  They share   *)
(* no state, so a behaviour exercises one, the subject, and leaves the     *)
(* others at rest.                                                         *)
(***************************************************************************)
EXTENDS RunnerDaemon, RunnerKey, SmartHttp, TLC

CONSTANTS r1, a, bad, e1, e2, e3, e4, e5, h1, h2

VARIABLE subject

OneRun == (a :> r1) @@ (bad :> r1)
IssuedAt == (e1 :> 1) @@ (e2 :> 2) @@ (e3 :> 1) @@ (e4 :> 2) @@ (e5 :> 1)
Commands == (e1 :> [op |-> "execute", req |-> a]) @@ (e2 :> [op |-> "cancel", req |-> a])
              @@ (e3 :> [op |-> "ping", req |-> a])
              @@ (e4 :> [op |-> "execute", req |-> bad])
              @@ (e5 :> [op |-> "ping", req |-> a])   \* which it does not carry

daemonVars == <<vars, authenticator>>

(* A run is executed and cancelled over two connections; or three send     *)
(* what the service answers at once, and their verifications interleave.   *)
Connecting(connections, envelopes) ==
    /\ DaemonNext
    /\ \A h \in Handlers : envelope'[h] # Nobody =>
          h \in connections /\ envelope'[h] \in envelopes \cup {Forged}

ProcessesInit ==
    /\ DaemonInit /\ KeyInit /\ HttpInit
    /\ subject \in {"daemon", "replay", "key", "http"}
    /\ subject # "http" => \A n \in RequestSizes : request <= n
    /\ subject # "http" => \A n \in Bodies : body <= n
    /\ subject # "http" => \A n \in Complaints : complaint <= n

ProcessesNext ==
    /\ UNCHANGED subject
    /\ \/ /\ \/ subject = "daemon" /\ Connecting({h1, h2}, {e1, e2})
             \/ subject = "replay" /\ Connecting(Handlers, {e3, e4, e5})
          /\ UNCHANGED <<keyVars, httpVars>>
       \/ subject = "key" /\ KeyNext /\ UNCHANGED <<daemonVars, httpVars>>
       \/ subject = "http" /\ HttpNext /\ UNCHANGED <<daemonVars, keyVars>>

(* DaemonFairness and HttpFairness, each for its subject. *)
ProcessesFairness ==
    /\ \A h \in Handlers :
          /\ WF_daemonVars(subject \in {"daemon", "replay"} /\ Verify(h))
          /\ WF_daemonVars(subject = "daemon" /\ Work(h))
    /\ WF_httpVars(subject = "http" /\ CallerStep)
    /\ WF_httpVars(subject = "http" /\ WriteRequest)
    /\ WF_httpVars(subject = "http" /\ read_bounded)
    /\ WF_httpVars(subject = "http" /\ read_errors)
    /\ WF_httpVars(subject = "http" /\ child # "running" /\ PackEnds)

ProcessesSpec ==
    /\ ProcessesInit
    /\ [][ProcessesNext]_<<subject, daemonVars, keyVars, httpVars>>
    /\ ProcessesFairness
=============================================================================
