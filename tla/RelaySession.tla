---------------------------- MODULE RelaySession ----------------------------
(***************************************************************************)
(* One relay session after another between the Cloud's end (relay_session  *)
(* with execute_exchange) and the connector's end (run_session under       *)
(* run_reconnecting), over a FIFO link each way.  Both ends run the same   *)
(* validator, RelaySessionState, over the frames they send and receive.    *)
(* An end that fails closes the session; upstream calls the connector has  *)
(* spawned go on past it.                                                  *)
(*                                                                         *)
(* A request ID is fresh for each exchange (a random UUID), so requests    *)
(* are named by it.  Bodies are counted in chunks, the byte limits being   *)
(* MaxChunks.  The head of a start frame (target or status, and headers)   *)
(* is a class: "plain"; "long", which RequestStartFrame::validate accepts  *)
(* and decode_control's size limit does not; "invalid", which the frame's  *)
(* validate() refuses.  Keepalives change nothing, and the Cloud never     *)
(* sends Cancel; both are left out.                                        *)
(***************************************************************************)
EXTENDS Naturals, Sequences, FiniteSets

CONSTANTS Requests,       \* request IDs
          MaxChunks,      \* MAX_REQUEST_BODY_BYTES, MAX_RESPONSE_BODY_BYTES
          MaxConcurrent,  \* MAX_CONCURRENT_REQUESTS
          MaxIds,         \* MAX_REQUEST_IDS_PER_SESSION
          MaxInFlight,    \* the connector's max_in_flight
          RequestHeads,   \* heads of the HTTP requests to relay
          ResponseHeads,  \* heads of the local server's responses
          MaxSessions,    \* bound: connections the connector makes
          None            \* no request

(* What the local server may answer, or the failure to answer. *)
Answers == [ok : {TRUE}, head : ResponseHeads, len : 0..MaxChunks]
              \cup {[ok |-> FALSE, head |-> "plain", len |-> 0]}

ASSUME SessionAssumption ==
    /\ MaxChunks \in Nat
    /\ {MaxConcurrent, MaxIds, MaxInFlight, MaxSessions} \subseteq Nat \ {0}
    /\ RequestHeads \subseteq {"plain", "long", "invalid"}
    /\ ResponseHeads \subseteq {"plain", "invalid"}
    /\ None \notin Requests \cup Answers

VARIABLES cloud,      \* where the Cloud's end is
          cloudState, \* its validator
          current,    \* the request of its exchange
          sent,       \* request chunks it has sent
          received,   \* response chunks it has received
          toConn,     \* frames on the way to the connector
          toCloud,    \* frames on the way to the Cloud
          conn,       \* where the connector's end is
          connState,  \* its validator
          pending,    \* requests whose body is arriving -> chunks so far
          rejected,   \* pending requests over the concurrency limit
          active,     \* requests handed to the local server
          ready,      \* answers in its outgoing channel
          answering,  \* the request whose response it is sending
          replied,    \* response chunks it has sent
          calls,      \* upstream calls in progress, of any session
          session,    \* number of the session
          len,        \* history: chunks of the request's body
          executed,   \* history: chunks the local server was handed
          answer,     \* history: what the local server answered
          result      \* history: how the exchange ended

cloudVars == <<cloud, cloudState, current, sent, received>>
connVars == <<conn, connState, pending, rejected, active, ready, answering, replied>>
history == <<len, executed, answer, result>>
vars == <<cloudVars, toConn, toCloud, connVars, calls, session, history>>

Controls == {"client_hello", "server_ready", "request_start", "request_end",
             "response_start", "response_end", "request_failed"}
Chunks == {"request_chunk", "response_chunk"}
Frames == [type : Controls \cup Chunks, id : Requests \cup {None}, seq : Nat,
           head : {"plain", "long", "invalid"}]
Frame(t, q) == [type |-> t, id |-> q, seq |-> 0, head |-> "plain"]
Start(t, q, head) == [Frame(t, q) EXCEPT !.head = head]
Chunk(t, q, n) == [Frame(t, q) EXCEPT !.seq = n]
-----------------------------------------------------------------------------
(* RelaySessionState: the flow of each request and its next sequence       *)
(* number.                                                                 *)
FlowPhases == {"none", "request_body", "awaiting_response", "response_body", "over"}
Validators == [handshake : {"awaiting_hello", "awaiting_ready", "ready"},
               flow : [Requests -> FlowPhases], next : [Requests -> Nat]]
Fresh == [handshake |-> "awaiting_hello",
          flow |-> [q \in Requests |-> "none"], next |-> [q \in Requests |-> 0]]

Open == {"request_body", "awaiting_response", "response_body"}
Flows(v) == {q \in Requests : v.flow[q] \in Open}
Seen(v) == {q \in Requests : v.flow[q] # "none"}

(* The flow phases a frame may arrive in, and the one it leads to. *)
From == [request_start |-> {"none"}, request_chunk |-> {"request_body"},
         request_end |-> {"request_body"}, response_start |-> {"awaiting_response"},
         response_chunk |-> {"response_body"}, response_end |-> {"response_body"},
         request_failed |-> Open]
Into == [request_start |-> "request_body", request_chunk |-> "request_body",
         request_end |-> "awaiting_response", response_start |-> "response_body",
         response_chunk |-> "response_body", response_end |-> "over",
         request_failed |-> "over"]

(* observe_control and observe_body: whether the frame is accepted. *)
Legal(v, f) ==
    CASE f.type = "client_hello" -> v.handshake = "awaiting_hello"
      [] f.type = "server_ready" -> v.handshake = "awaiting_ready"
      [] OTHER ->
            /\ v.handshake = "ready"
            /\ f.head # "invalid"
            /\ v.flow[f.id] \in From[f.type]
            /\ f.type = "request_start" =>
                  /\ Cardinality(Flows(v)) < MaxConcurrent
                  /\ Cardinality(Seen(v)) < MaxIds
            /\ f.type \in Chunks => f.seq = v.next[f.id] /\ f.seq < MaxChunks

(* ... and the state it leaves. *)
Observe(v, f) ==
    CASE f.type = "client_hello" -> [v EXCEPT !.handshake = "awaiting_ready"]
      [] f.type = "server_ready" -> [v EXCEPT !.handshake = "ready"]
      [] OTHER -> [v EXCEPT !.flow[f.id] = Into[f.type],
                            !.next[f.id] = IF f.type \in Chunks THEN @ + 1 ELSE 0]
-----------------------------------------------------------------------------
TypeOK ==
    /\ cloud \in {"none", "hello", "idle", "request", "response", "closed"}
    /\ conn \in {"backoff", "hello", "serving", "answering", "rejected", "protocol"}
    /\ {cloudState, connState} \subseteq Validators
    /\ {current, answering} \subseteq Requests \cup {None}
    /\ {sent, received, replied} \subseteq 0..MaxChunks
    /\ toConn \in Seq(Frames) /\ toCloud \in Seq(Frames)
    /\ DOMAIN pending \subseteq Requests
    /\ rejected \subseteq DOMAIN pending
    /\ active \subseteq Requests /\ ready \subseteq active
    /\ Cardinality(active) <= MaxInFlight
    /\ calls \subseteq Requests \X (1..MaxSessions)
    /\ session \in 0..MaxSessions
    /\ len \in [Requests -> 0..MaxChunks]
    /\ executed \in [Requests -> 0..MaxChunks \cup {None}]
    /\ answer \in [Requests -> Answers \cup {None}]
    /\ result \in [Requests -> {"none", "started", "ok", "failed", "timeout"}]

Init ==
    /\ cloud = "none"
    /\ conn = "backoff"
    /\ cloudState = Fresh /\ connState = Fresh
    /\ current = None /\ answering = None
    /\ sent = 0 /\ received = 0 /\ replied = 0
    /\ toConn = <<>> /\ toCloud = <<>>
    /\ pending = <<>>
    /\ rejected = {} /\ active = {} /\ ready = {} /\ calls = {}
    /\ session = 0
    /\ len = [q \in Requests |-> 0]
    /\ executed = [q \in Requests |-> None]
    /\ answer = [q \in Requests |-> None]
    /\ result = [q \in Requests |-> "none"]

(* run_reconnecting connects again: fresh state at both ends, the first    *)
(* frame sent.  What was left of the old session is dropped.               *)
Connect ==
    LET hello == Frame("client_hello", None) IN
    /\ conn = "backoff"
    /\ cloud \in {"none", "closed"}
    /\ session < MaxSessions
    /\ session' = session + 1
    /\ conn' = "hello"
    /\ connState' = Observe(Fresh, hello)
    /\ toCloud' = <<hello>> /\ toConn' = <<>>
    /\ cloud' = "hello" /\ cloudState' = Fresh
    /\ current' = None /\ answering' = None
    /\ sent' = 0 /\ received' = 0 /\ replied' = 0
    /\ pending' = <<>>
    /\ rejected' = {} /\ active' = {} /\ ready' = {}
    /\ UNCHANGED <<calls, history>>

(* 401 or 403: the credential was revoked; the connector ends. *)
AuthenticationRejected ==
    /\ conn = "backoff"
    /\ cloud \in {"none", "closed"}
    /\ conn' = "rejected"
    /\ UNCHANGED <<cloudVars, toConn, toCloud, connState, pending, rejected, active,
                   ready, answering, replied, calls, session, history>>
-----------------------------------------------------------------------------
(* send_control and the body's loop: the sender validates its own frame.   *)
CloudSends(f) ==
    /\ Legal(cloudState, f)
    /\ cloudState' = Observe(cloudState, f)
    /\ toConn' = Append(toConn, f)

(* An exchange that ends otherwise than well closes the session. *)
CloudCloses(how) ==
    /\ cloud' = "closed"
    /\ result' = IF current # None /\ cloud \in {"request", "response"}
                   THEN [result EXCEPT ![current] = how] ELSE result

CloudReady ==
    /\ cloud = "hello"
    /\ toCloud # <<>>
    /\ Legal(cloudState, Head(toCloud))
    /\ LET v == Observe(cloudState, Head(toCloud))
           f == Frame("server_ready", None)
       IN  Legal(v, f) /\ cloudState' = Observe(v, f) /\ toConn' = Append(toConn, f)
    /\ toCloud' = Tail(toCloud)
    /\ cloud' = "idle"
    /\ UNCHANGED <<current, sent, received, connVars, calls, session, history>>

(* Mutant: the response buffer is kept from one exchange to the next. *)
StartExchangeBuffered(q, head, n) ==
    LET f == Start("request_start", q, head) IN
    /\ cloud = "idle"
    /\ result[q] = "none"
    /\ current' = q
    /\ len' = [len EXCEPT ![q] = n]
    /\ sent' = 0
    /\ \/ /\ CloudSends(f)
          /\ cloud' = "request"
          /\ result' = [result EXCEPT ![q] = "started"]
       \/ /\ ~Legal(cloudState, f)
          /\ cloud' = "closed"
          /\ result' = [result EXCEPT ![q] = "failed"]
          /\ UNCHANGED <<cloudState, toConn>>
    /\ UNCHANGED <<received, toCloud, connVars, calls, session, executed, answer>>

(* execute_exchange begins with a fresh ID; a frame its own validator      *)
(* refuses (the ID budget is spent, the head is invalid) ends the session. *)
StartExchange(q, head, n) ==
    LET f == Start("request_start", q, head) IN
    /\ cloud = "idle"
    /\ result[q] = "none"
    /\ current' = q
    /\ len' = [len EXCEPT ![q] = n]
    /\ sent' = 0 /\ received' = 0
    /\ \/ /\ CloudSends(f)
          /\ cloud' = "request"
          /\ result' = [result EXCEPT ![q] = "started"]
       \/ /\ ~Legal(cloudState, f)
          /\ cloud' = "closed"
          /\ result' = [result EXCEPT ![q] = "failed"]
          /\ UNCHANGED <<cloudState, toConn>>
    /\ UNCHANGED <<toCloud, connVars, calls, session, executed, answer>>

SendRequestChunk ==
    /\ cloud = "request"
    /\ sent < len[current]
    /\ CloudSends(Chunk("request_chunk", current, sent))
    /\ sent' = sent + 1
    /\ UNCHANGED <<cloud, current, received, toCloud, connVars, calls, session, history>>

SendRequestEnd ==
    /\ cloud = "request"
    /\ sent = len[current]
    /\ CloudSends(Frame("request_end", current))
    /\ cloud' = "response"
    /\ UNCHANGED <<current, sent, received, toCloud, connVars, calls, session, history>>

(* What the Cloud's end takes: between exchanges nothing but pings, in the *)
(* response loop of execute_exchange the legal frames of its request.      *)
Expected(f) == cloud = "response" /\ f.id = current /\ Legal(cloudState, f)

(* A frame arrives; one that is not expected closes the session. *)
ReceiveResponse ==
    LET f == Head(toCloud) IN
    /\ cloud \in {"idle", "response"}
    /\ toCloud # <<>>
    /\ toCloud' = Tail(toCloud)
    /\ IF Expected(f)
         THEN /\ cloudState' = Observe(cloudState, f)
              /\ \/ /\ f.type = "response_start"
                    /\ UNCHANGED <<cloud, received, result>>
                 \/ /\ f.type = "response_chunk"
                    /\ received' = received + 1
                    /\ UNCHANGED <<cloud, result>>
                 \/ /\ f.type = "response_end"
                    /\ cloud' = "idle"
                    /\ result' = [result EXCEPT ![current] = "ok"]
                    /\ UNCHANGED received
                 \/ /\ f.type = "request_failed"
                    /\ CloudCloses("failed")
                    /\ UNCHANGED received
         ELSE /\ CloudCloses("failed")
              /\ UNCHANGED <<cloudState, received>>
    /\ UNCHANGED <<current, sent, toConn, connVars, calls, session, len, executed,
                   answer>>

(* Mutant: the session outlives an exchange that missed its deadline. *)
CloudTimeoutStays ==
    /\ cloud \in {"request", "response"}
    /\ cloud' = "idle"
    /\ result' = [result EXCEPT ![current] = "timeout"]
    /\ UNCHANGED <<cloudState, current, sent, received, toConn, toCloud, connVars,
                   calls, session, len, executed, answer>>

(* The exchange misses its deadline, wherever it is; its session closes. *)
CloudTimeout ==
    /\ cloud \in {"request", "response"}
    /\ CloudCloses("timeout")
    /\ UNCHANGED <<cloudState, current, sent, received, toConn, toCloud, connVars,
                   calls, session, len, executed, answer>>
-----------------------------------------------------------------------------
(* send_observed_control: the connector validates its own frame, and a     *)
(* frame it refuses is a protocol error of its own.                        *)
ConnectorSends(f, next) ==
    IF Legal(connState, f)
      THEN /\ connState' = Observe(connState, f)
           /\ toCloud' = Append(toCloud, f)
           /\ conn' = next
      ELSE /\ conn' = "protocol"
           /\ UNCHANGED <<connState, toCloud>>

(* decode_control's limit and the validator. *)
Accepted(f) == f.head # "long" /\ Legal(connState, f)

ReceiveReady ==
    /\ conn = "hello"
    /\ toConn # <<>>
    /\ Legal(connState, Head(toConn))
    /\ connState' = Observe(connState, Head(toConn))
    /\ toConn' = Tail(toConn)
    /\ conn' = "serving"
    /\ UNCHANGED <<cloudVars, toCloud, pending, rejected, active, ready, answering,
                   replied, calls, session, history>>

Incoming(t) ==
    /\ conn = "serving"
    /\ toConn # <<>>
    /\ Head(toConn).type = t
    /\ Accepted(Head(toConn))
    /\ toConn' = Tail(toConn)
    /\ UNCHANGED <<cloudVars, answering, replied, session, len, answer, result>>

Without(f, q) == [r \in DOMAIN f \ {q} |-> f[r]]

ReceiveStart ==
    LET q == Head(toConn).id IN
    /\ Incoming("request_start")
    /\ connState' = Observe(connState, Head(toConn))
    /\ pending' = [r \in DOMAIN pending \cup {q} |-> IF r = q THEN 0 ELSE pending[r]]
    /\ rejected' = IF Cardinality(DOMAIN pending) + Cardinality(active) >= MaxInFlight
                     THEN rejected \cup {q} ELSE rejected
    /\ UNCHANGED <<conn, toCloud, active, ready, calls, executed>>

ReceiveChunk ==
    LET q == Head(toConn).id IN
    /\ Incoming("request_chunk")
    /\ connState' = Observe(connState, Head(toConn))
    /\ pending' = [pending EXCEPT ![q] = @ + 1]
    /\ UNCHANGED <<conn, toCloud, rejected, active, ready, calls, executed>>

(* The request is complete and within its deadline: call the local server. *)
ReceiveEnd ==
    LET q == Head(toConn).id IN
    /\ Incoming("request_end")
    /\ q \notin rejected
    /\ connState' = Observe(connState, Head(toConn))
    /\ pending' = Without(pending, q)
    /\ active' = active \cup {q}
    /\ calls' = calls \cup {<<q, session>>}
    /\ executed' = [executed EXCEPT ![q] = pending[q]]
    /\ UNCHANGED <<conn, toCloud, rejected, ready>>

(* Mutant: the request is refused without an answer. *)
RefuseSilently ==
    LET q == Head(toConn).id IN
    /\ Incoming("request_end")
    /\ connState' = Observe(connState, Head(toConn))
    /\ pending' = Without(pending, q)
    /\ rejected' = rejected \ {q}
    /\ UNCHANGED <<conn, toCloud, active, ready, calls, executed>>

(* Over the limit, or past its deadline: answer with a failure. *)
Refuse ==
    LET q == Head(toConn).id
        v == Observe(connState, Head(toConn))
        f == Frame("request_failed", q)
    IN  /\ Incoming("request_end")
        /\ connState' = Observe(v, f)
        /\ toCloud' = Append(toCloud, f)
        /\ pending' = Without(pending, q)
        /\ rejected' = rejected \ {q}
        /\ UNCHANGED <<conn, active, ready, calls, executed>>

(* A frame the connector does not accept ends it for good. *)
ProtocolError ==
    /\ conn = "serving"
    /\ toConn # <<>>
    /\ ~Accepted(Head(toConn))
    /\ conn' = "protocol"
    /\ UNCHANGED <<cloudVars, toConn, toCloud, connState, pending, rejected, active,
                   ready, answering, replied, calls, session, history>>

(* The spawned call returns, fails or times out; its answer reaches the    *)
(* session that asked, if that session is still there.                     *)
UpstreamReturns(c, a) ==
    /\ c \in calls
    /\ calls' = calls \ {c}
    /\ answer' = [answer EXCEPT ![c[1]] = a]
    /\ ready' = IF c[2] = session /\ conn \in {"serving", "answering"}
                  THEN ready \cup {c[1]} ELSE ready
    /\ UNCHANGED <<cloudVars, toConn, toCloud, conn, connState, pending, rejected,
                   active, answering, replied, session, len, executed, result>>

AnswerFailure(q) ==
    /\ conn = "serving"
    /\ q \in ready
    /\ ~answer[q].ok
    /\ ready' = ready \ {q}
    /\ active' = active \ {q}
    /\ ConnectorSends(Frame("request_failed", q), "serving")
    /\ UNCHANGED <<cloudVars, toConn, pending, rejected, answering, replied, calls,
                   session, history>>

AnswerStart(q) ==
    /\ conn = "serving"
    /\ q \in ready
    /\ answer[q].ok
    /\ ready' = ready \ {q}
    /\ active' = active \ {q}
    /\ answering' = q
    /\ replied' = 0
    /\ ConnectorSends(Start("response_start", q, answer[q].head), "answering")
    /\ UNCHANGED <<cloudVars, toConn, pending, rejected, calls, session, history>>

AnswerChunk ==
    /\ conn = "answering"
    /\ replied < answer[answering].len
    /\ replied' = replied + 1
    /\ ConnectorSends(Chunk("response_chunk", answering, replied), "answering")
    /\ UNCHANGED <<cloudVars, toConn, pending, rejected, active, ready, answering,
                   calls, session, history>>

AnswerEnd ==
    /\ conn = "answering"
    /\ replied = answer[answering].len
    /\ ConnectorSends(Frame("response_end", answering), "serving")
    /\ UNCHANGED <<cloudVars, toConn, pending, rejected, active, ready, answering,
                   replied, calls, session, history>>

(* The connector notices that the session is closed, with frames unread or *)
(* in the middle of an answer, and backs off.                              *)
Transport ==
    /\ conn \in {"hello", "serving", "answering"}
    /\ cloud = "closed"
    /\ conn' = "backoff"
    /\ UNCHANGED <<cloudVars, toConn, toCloud, connState, pending, rejected, active,
                   ready, answering, replied, calls, session, history>>

(* The network fails; the Cloud's end notices first. *)
LinkLost ==
    /\ cloud \in {"hello", "idle", "request", "response"}
    /\ CloudCloses("failed")
    /\ UNCHANGED <<cloudState, current, sent, received, toConn, toCloud, connVars,
                   calls, session, len, executed, answer>>

(* The connector's process has ended, and its socket with it. *)
ConnectorGone ==
    /\ conn = "protocol"
    /\ LinkLost

CloudStep ==
    \/ CloudReady
    \/ SendRequestChunk
    \/ SendRequestEnd
    \/ ReceiveResponse
    \/ ConnectorGone

ConnectorStep ==
    \/ ReceiveReady
    \/ ReceiveStart
    \/ ReceiveChunk
    \/ ReceiveEnd
    \/ Refuse
    \/ ProtocolError
    \/ \E q \in Requests : AnswerFailure(q) \/ AnswerStart(q)
    \/ AnswerChunk
    \/ AnswerEnd
    \/ Transport

Next ==
    \/ Connect
    \/ AuthenticationRejected
    \/ \E q \in Requests, head \in RequestHeads, n \in 0..MaxChunks :
          StartExchange(q, head, n)
    \/ CloudStep
    \/ CloudTimeout
    \/ LinkLost
    \/ ConnectorStep
    \/ \E c \in calls, a \in Answers : UpstreamReturns(c, a)

Spec == Init /\ [][Next]_vars

(* Both ends take their ready steps and upstream calls end by their        *)
(* timeout; no deadline of the Cloud is needed, and none is assumed.       *)
FairSpec ==
    /\ Spec
    /\ WF_vars(CloudStep)
    /\ WF_vars(ConnectorStep)
    /\ \A q \in Requests, n \in 1..MaxSessions :
          WF_vars(\E a \in Answers : UpstreamReturns(<<q, n>>, a))
-----------------------------------------------------------------------------
(* RelaySessionState at both ends: neither validator ever receives a frame *)
(* it refuses, although exchanges are cut off anywhere and answers to them *)
(* are still under way.                                                    *)
EndsAgree ==
    /\ cloud = "idle" => toCloud = <<>>
    /\ cloud = "response" /\ toCloud # <<>> => Expected(Head(toCloud))
    /\ conn = "serving" /\ toConn # <<>> => Legal(connState, Head(toConn))

(* execute_exchange and run_session: the local server is handed the whole  *)
(* body of the request, and an exchange that succeeds has returned the     *)
(* whole body of the answer to that very request.                          *)
BodiesIntact ==
    /\ \A q \in Requests : executed[q] # None => executed[q] = len[q]
    /\ current # None /\ result[current] = "ok" =>
          /\ answer[current] # None
          /\ answer[current].ok
          /\ received = answer[current].len

(* run_session: a request that was sent in full is answered, or its        *)
(* session is gone, without help from the Cloud's deadline.                *)
EveryRequestAnswered == cloud = "response" ~> cloud # "response"

(* run_reconnecting ("Runs until cancelled or an authentication failure    *)
(* requires operator action"): the connector does not end otherwise.       *)
ConnectorKeepsRunning == conn # "protocol"
==============================================================================
