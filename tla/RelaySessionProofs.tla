------------------------- MODULE RelaySessionProofs -------------------------
(***************************************************************************)
(* Proofs about RelaySession for any requests, limits, heads and number of *)
(* sessions.                                                               *)
(*                                                                         *)
(* SessionInv numbers the frames of an exchange in each direction.  The    *)
(* frames on a link are exactly those between what the sender has sent and *)
(* what the receiver has taken, each the one its number calls for; so the  *)
(* receiver's validator, which counts alike, accepts them.  Both counts    *)
(* are read off the validators: a flow's phase and its next sequence       *)
(* number.  The rest relates the ends (one exchange at a time, the flows   *)
(* of all others equal) and the history: a request is relayed, called and  *)
(* answered once, however late the answer comes.                           *)
(***************************************************************************)
EXTENDS RelaySession, SequenceTheorems, FiniteSetTheorems, TLAPS

(* The frames of a session to the connector are numbered: server_ready,    *)
(* then those of the exchange.  Written is how many the Cloud has sent and *)
(* Read how many the connector has taken.                                  *)
Written ==
    IF cloudState.handshake # "ready" THEN 0
    ELSE IF current = None \/ cloudState.flow[current] = "none" THEN 1
    ELSE IF cloudState.flow[current] = "request_body" THEN sent + 2 ELSE sent + 3

Read ==
    IF connState.handshake # "ready" THEN 0
    ELSE IF current = None \/ connState.flow[current] = "none" THEN 1
    ELSE IF connState.flow[current] = "request_body" THEN connState.next[current] + 2
    ELSE sent + 3

IsRequestFrame(f, i) ==
    /\ f.head # "invalid"
    /\ i = 0 => f.type = "server_ready"
    /\ i > 0 => f.id = current /\ current # None
    /\ i = 1 => f.type = "request_start"
    /\ i > 1 /\ i < sent + 2 => f.type = "request_chunk" /\ f.seq = i - 2
    /\ i = sent + 2 => f.type = "request_end"

ToConnector ==
    /\ Len(toConn) = Written - Read
    /\ \A i \in 1..Len(toConn) : IsRequestFrame(toConn[i], Read + i - 1)

(* The frames of an answer, likewise: the Cloud has taken Taken of them.   *)
Taken == IF cloudState.flow[current] = "response_body" THEN received + 1 ELSE 0

IsResponseFrame(f, i) ==
    /\ f.id = current
    /\ f.head # "invalid"
    /\ i = 0 => f.type = "response_start"
    /\ i > 0 /\ i < replied + 1 => f.type = "response_chunk" /\ f.seq = i - 1
    /\ i = replied + 1 => f.type = "response_end"

Replying(n) ==
    /\ answering = current
    /\ answer[current] \in Answers /\ answer[current].ok
    /\ replied <= answer[current].len
    /\ Len(toCloud) = n - Taken
    /\ \A i \in 1..Len(toCloud) : IsResponseFrame(toCloud[i], Taken + i - 1)

ToCloud ==
    /\ cloud = "hello" => toCloud = <<Frame("client_hello", None)>>
    /\ cloud \in {"idle", "request"} => toCloud = <<>>
    /\ cloud = "response" =>
          \/ /\ connState.flow[current] \in {"none", "request_body", "awaiting_response"}
             /\ cloudState.flow[current] = "awaiting_response"
             /\ toCloud = <<>>
          \/ /\ connState.flow[current] = "over"
             /\ cloudState.flow[current] = "awaiting_response"
             /\ toCloud = <<Frame("request_failed", current)>>
          \/ connState.flow[current] = "response_body" /\ Replying(replied + 1)
          \/ /\ connState.flow[current] = "over"
             /\ Replying(replied + 2)
             /\ replied = answer[current].len

(* Where the Cloud's end is, and what its validator has seen by then.      *)
CloudEnd ==
    /\ cloud \in {"none", "hello"} => cloudState = Fresh /\ current = None
    /\ cloud \in {"idle", "request", "response"} => cloudState.handshake = "ready"
    /\ cloud \in {"request", "response"} => current # None /\ result[current] = "started"
    /\ cloud = "idle" => connState.flow = cloudState.flow
    /\ cloud = "request" => cloudState.flow[current] = "request_body" /\ received = 0
    /\ cloud = "response" =>
          /\ cloudState.flow[current] \in {"awaiting_response", "response_body"}
          /\ received = IF cloudState.flow[current] = "response_body"
                          THEN cloudState.next[current] ELSE 0
    /\ current # None =>
          /\ sent <= len[current]
          /\ cloudState.flow[current] = "request_body" => cloudState.next[current] = sent
          /\ cloudState.flow[current] \notin {"none", "request_body"} => sent = len[current]
          /\ cloudState.flow[current] # "none" =>
                Cardinality(Seen(cloudState) \ {current}) < MaxIds

(* Only the current exchange is open, at either end.                       *)
OneExchange ==
    /\ \A q \in Requests \ {current} :
          connState.flow[q] = cloudState.flow[q] /\ cloudState.flow[q] \in {"none", "over"}
    /\ cloud = "idle" /\ current # None => cloudState.flow[current] \in {"none", "over"}

ConnectorEnd ==
    /\ conn \in {"backoff", "rejected"} => cloud \in {"none", "closed"}
    /\ conn \in {"hello", "serving", "answering"} => session > 0
    /\ conn = "hello" => connState.handshake = "awaiting_ready"
    /\ conn \in {"serving", "answering"} => connState.handshake = "ready"
    /\ connState.handshake # "ready" => \A q \in Requests : connState.flow[q] = "none"
    /\ conn = "answering" =>
          /\ answering = current /\ current # None
          /\ connState.flow[current] = "response_body"
          /\ connState.next[current] = replied
          /\ answer[current] \in Answers /\ answer[current].ok
          /\ replied <= answer[current].len
    /\ DOMAIN pending = {q \in Requests : connState.flow[q] = "request_body"}
    /\ \A q \in DOMAIN pending : pending[q] = connState.next[q]
    /\ \A q \in active : q = current /\ connState.flow[q] = "awaiting_response"
    /\ \A q \in ready : q \in active /\ answer[q] \in Answers

(* A request is relayed once, called once and answered once.               *)
Once ==
    /\ \A q \in Requests : result[q] = "none" =>
          /\ cloudState.flow[q] = "none" /\ connState.flow[q] = "none"
          /\ q # current /\ executed[q] = None /\ answer[q] = None
          /\ \A c \in calls : c[1] # q
    /\ current # None /\ connState.flow[current] \in {"none", "request_body"} =>
          /\ answer[current] = None /\ executed[current] = None
          /\ \A c \in calls : c[1] # current
    /\ \A c \in calls :
          /\ answer[c[1]] = None
          /\ c[2] <= session
          /\ c[2] = session => c[1] \in active \ ready
          /\ result[c[1]] # "none"
    /\ \A c, d \in calls : c[1] = d[1] => c = d

SessionInv ==
    /\ TypeOK
    /\ ToConnector
    /\ ToCloud
    /\ CloudEnd
    /\ OneExchange
    /\ ConnectorEnd
    /\ Once
    /\ BodiesIntact

(* What the sequence operators of the links do.                            *)
LEMMA Links ==
    ASSUME NEW s \in Seq(Frames)
    PROVE  /\ Len(s) \in Nat
           /\ \A i \in 1..Len(s) : s[i] \in Frames
           /\ s = <<>> <=> Len(s) = 0
           /\ s # <<>> => /\ Head(s) = s[1] /\ Head(s) \in Frames
                          /\ Tail(s) \in Seq(Frames) /\ Len(Tail(s)) = Len(s) - 1
                          /\ \A i \in 1..Len(Tail(s)) : Tail(s)[i] = s[i + 1]
           /\ \A f \in Frames :
                 /\ Append(s, f) \in Seq(Frames) /\ Len(Append(s, f)) = Len(s) + 1
                 /\ Append(s, f)[Len(s) + 1] = f
                 /\ \A i \in 1..Len(s) : Append(s, f)[i] = s[i]
BY HeadTailProperties, AppendProperties, LenProperties, ElementOfSeq, EmptySeq

(* What a validator keeps.                                                 *)
LEMMA Validator ==
    ASSUME NEW v \in Validators
    PROVE  /\ v.handshake \in {"awaiting_hello", "awaiting_ready", "ready"}
           /\ v.flow \in [Requests -> FlowPhases]
           /\ v.next \in [Requests -> Nat]
BY DEF Validators

(* The frames of the model, with their fields.                             *)
LEMMA FrameFields ==
    /\ \A t \in Controls \cup Chunks, q \in Requests \cup {None} :
          /\ Frame(t, q) \in Frames /\ Frame(t, q).type = t /\ Frame(t, q).id = q
          /\ Frame(t, q).head = "plain" /\ Frame(t, q).seq = 0
    /\ \A t \in Controls \cup Chunks, q \in Requests, head \in {"plain", "long", "invalid"} :
          /\ Start(t, q, head) \in Frames /\ Start(t, q, head).type = t
          /\ Start(t, q, head).id = q /\ Start(t, q, head).head = head
    /\ \A t \in Controls \cup Chunks, q \in Requests, n \in Nat :
          /\ Chunk(t, q, n) \in Frames /\ Chunk(t, q, n).type = t /\ Chunk(t, q, n).id = q
          /\ Chunk(t, q, n).head = "plain" /\ Chunk(t, q, n).seq = n
BY DEF Frame, Start, Chunk, Frames

(* observe_control and observe_body after the handshake touch one request. *)
LEMMA Observes ==
    ASSUME NEW v \in Validators, NEW f \in Frames, f.id \in Requests,
           f.type \notin {"client_hello", "server_ready"}
    PROVE  /\ Observe(v, f) \in Validators
           /\ Observe(v, f).handshake = v.handshake
           /\ Observe(v, f).flow[f.id] = Into[f.type]
           /\ Observe(v, f).next[f.id] = IF f.type \in Chunks THEN v.next[f.id] + 1 ELSE 0
           /\ \A q \in Requests \ {f.id} :
                 /\ Observe(v, f).flow[q] = v.flow[q]
                 /\ Observe(v, f).next[q] = v.next[q]
<1>1. PICK h, g, n : /\ v = [handshake |-> h, flow |-> g, next |-> n]
                     /\ h \in {"awaiting_hello", "awaiting_ready", "ready"}
                     /\ g \in [Requests -> FlowPhases] /\ n \in [Requests -> Nat]
  BY DEF Validators
<1>2. Into[f.type] \in FlowPhases
  BY DEF Into, FlowPhases, Frames, Controls, Chunks
<1>3. PICK m \in Nat : m = IF f.type \in Chunks THEN n[f.id] + 1 ELSE 0
  <2>1. n[f.id] \in Nat
    BY <1>1
  <2> QED BY <2>1
<1>4. Observe(v, f) = [v EXCEPT !.flow[f.id] = Into[f.type],
                                !.next[f.id] = IF f.type \in Chunks THEN @ + 1 ELSE 0]
  BY DEF Observe
<1>5. Observe(v, f) = [handshake |-> h, flow |-> [g EXCEPT ![f.id] = Into[f.type]],
                       next |-> [n EXCEPT ![f.id] = m]]
  BY <1>1, <1>3, <1>4
<1>6. v.flow = g /\ v.next = n /\ v.handshake = h
  BY <1>1
<1>7. /\ Observe(v, f).handshake = h
      /\ Observe(v, f).flow = [g EXCEPT ![f.id] = Into[f.type]]
      /\ Observe(v, f).next = [n EXCEPT ![f.id] = m]
  BY <1>5
<1>8. Observe(v, f) \in Validators
  BY <1>1, <1>2, <1>5 DEF Validators
<1>9. \A q \in Requests : /\ [g EXCEPT ![f.id] = Into[f.type]][q] = IF q = f.id THEN Into[f.type] ELSE g[q]
                          /\ [n EXCEPT ![f.id] = m][q] = IF q = f.id THEN m ELSE n[q]
  BY <1>1
<1> QED BY <1>3, <1>6, <1>7, <1>8, <1>9

(* What the proofs use of the types.                                       *)
LEMMA Typed ==
    ASSUME SessionInv
    PROVE  /\ cloudState \in Validators /\ connState \in Validators
           /\ sent \in Nat /\ received \in Nat /\ replied \in Nat
           /\ toConn \in Seq(Frames) /\ toCloud \in Seq(Frames)
           /\ current # None => current \in Requests
           /\ None \notin Requests
BY SessionAssumption DEF SessionInv, TypeOK

(* What the model's answers are limited to.                                *)
LEMMA AnswerLen == \A a \in Answers : a.len \in 0..MaxChunks /\ a.head \in {"plain", "invalid"}
<1>1. \A a \in [ok : {TRUE}, head : ResponseHeads, len : 0..MaxChunks] :
         a.len \in 0..MaxChunks /\ a.head \in {"plain", "invalid"}
  BY SessionAssumption
<1>2. [ok |-> FALSE, head |-> "plain", len |-> 0].len \in 0..MaxChunks
      /\ [ok |-> FALSE, head |-> "plain", len |-> 0].head \in {"plain", "invalid"}
  BY SessionAssumption
<1> QED BY <1>1, <1>2 DEF Answers

(* What the connector reads next is what the Cloud sent next.              *)
LEMMA ConnectorHead ==
    ASSUME SessionInv, connState.handshake = "ready", toConn # <<>>
    PROVE  /\ current \in Requests /\ cloudState.handshake = "ready"
           /\ cloudState.flow[current] # "none"
           /\ Head(toConn) \in Frames /\ Head(toConn).id = current
           /\ Head(toConn).head # "invalid"
           /\ \/ /\ connState.flow[current] = "none"
                 /\ Head(toConn).type = "request_start"
              \/ /\ connState.flow[current] = "request_body"
                 /\ connState.next[current] < sent
                 /\ Head(toConn).type = "request_chunk"
                 /\ Head(toConn).seq = connState.next[current]
              \/ /\ connState.flow[current] = "request_body"
                 /\ connState.next[current] = sent
                 /\ Head(toConn).type = "request_end"
                 /\ cloudState.flow[current] # "request_body"
           /\ Tail(toConn) \in Seq(Frames)
           /\ Len(Tail(toConn)) = Written - (Read + 1)
           /\ \A i \in 1..Len(Tail(toConn)) : IsRequestFrame(Tail(toConn)[i], Read + i)
<1>1. /\ Len(toConn) \in Nat /\ Len(toConn) > 0
      /\ Head(toConn) = toConn[1] /\ Head(toConn) \in Frames
      /\ Tail(toConn) \in Seq(Frames) /\ Len(Tail(toConn)) = Len(toConn) - 1
      /\ \A i \in 1..Len(Tail(toConn)) : Tail(toConn)[i] = toConn[i + 1]
  BY Typed, Links
<1>2. Len(toConn) = Written - Read /\ \A i \in 1..Len(toConn) : IsRequestFrame(toConn[i], Read + i - 1)
  BY DEF SessionInv, ToConnector
<1>3. /\ connState.flow \in [Requests -> FlowPhases] /\ connState.next \in [Requests -> Nat]
      /\ cloudState.flow \in [Requests -> FlowPhases]
  BY Typed, Validator
<1>4. Read \in Nat /\ Read >= 1 /\ Written \in Nat
  BY <1>3, Typed DEF Read, Written
<1>5. /\ current # None /\ current \in Requests /\ cloudState.handshake = "ready"
      /\ cloudState.flow[current] # "none"
  <2>1. Written > 1
    BY <1>1, <1>2, <1>4
  <2>2. /\ cloudState.handshake = "ready"
        /\ ~(current = None \/ cloudState.flow[current] = "none")
    BY <2>1 DEF Written
  <2> QED BY <2>2, Typed
<1>6. \/ connState.flow[current] = "none" /\ Read = 1
      \/ /\ connState.flow[current] = "request_body"
         /\ Read = connState.next[current] + 2
      \/ connState.flow[current] \notin {"none", "request_body"} /\ Read = sent + 3
  BY <1>5 DEF Read
<1>7. \/ cloudState.flow[current] = "request_body" /\ Written = sent + 2
      \/ cloudState.flow[current] # "request_body" /\ Written = sent + 3
  BY <1>5 DEF Written
<1>8. IsRequestFrame(Head(toConn), Read)
  <2>1. IsRequestFrame(toConn[1], Read + 1 - 1) /\ Read + 1 - 1 = Read
    BY <1>1, <1>2, <1>4
  <2> QED BY <1>1, <2>1
<1>9. sent \in Nat /\ connState.next[current] \in Nat
  BY <1>3, <1>5, Typed
<1>10. \A i \in 1..Len(Tail(toConn)) : IsRequestFrame(Tail(toConn)[i], Read + i)
  <2> SUFFICES ASSUME NEW i \in 1..Len(Tail(toConn))
               PROVE  IsRequestFrame(Tail(toConn)[i], Read + i)
    OBVIOUS
  <2>1. i + 1 \in 1..Len(toConn) /\ Read + (i + 1) - 1 = Read + i
    BY <1>1, <1>4
  <2>2. IsRequestFrame(toConn[i + 1], Read + (i + 1) - 1)
    BY <1>2, <2>1
  <2> QED BY <1>1, <2>1, <2>2
<1>11. Len(Tail(toConn)) = Written - (Read + 1)
  BY <1>1, <1>2, <1>4
<1>12. CASE connState.flow[current] = "none"
  BY <1>1, <1>5, <1>6, <1>8, <1>10, <1>11, <1>12 DEF IsRequestFrame
<1>13. CASE connState.flow[current] = "request_body"
  <2>1. Read = connState.next[current] + 2
    BY <1>6, <1>13
  <2>2. CASE connState.next[current] < sent
    <3>1. Read > 1 /\ Read < sent + 2 /\ Read - 2 = connState.next[current]
      BY <1>9, <2>1, <2>2
    <3>2. /\ Head(toConn).type = "request_chunk" /\ Head(toConn).id = current
          /\ Head(toConn).seq = connState.next[current] /\ Head(toConn).head # "invalid"
      BY <1>4, <1>8, <3>1 DEF IsRequestFrame
    <3> QED BY <1>1, <1>5, <1>10, <1>11, <1>13, <2>2, <3>2
  <2>3. CASE ~ (connState.next[current] < sent)
    <3>1. connState.next[current] = sent /\ cloudState.flow[current] # "request_body"
      <4>1. Written - Read >= 1
        BY <1>1, <1>2
      <4>2. CASE Written = sent + 2
        BY <1>9, <2>1, <2>3, <4>1, <4>2
      <4>3. CASE Written = sent + 3 /\ cloudState.flow[current] # "request_body"
        BY <1>9, <2>1, <2>3, <4>1, <4>3
      <4> QED BY <1>7, <4>2, <4>3
    <3>2. Read = sent + 2 /\ Read > 0
      BY <1>4, <2>1, <3>1
    <3>3. /\ Head(toConn).type = "request_end" /\ Head(toConn).id = current
          /\ Head(toConn).head # "invalid"
      BY <1>8, <3>2 DEF IsRequestFrame
    <3> QED BY <1>1, <1>5, <1>10, <1>11, <1>13, <3>1, <3>3
  <2> QED BY <2>2, <2>3
<1>14. CASE connState.flow[current] \notin {"none", "request_body"}
  BY <1>1, <1>2, <1>6, <1>7, <1>9, <1>14
<1> QED BY <1>12, <1>13, <1>14

(* What the Cloud reads next is what the connector sent next.              *)
LEMMA CloudHead ==
    ASSUME SessionInv, cloud = "response", toCloud # <<>>
    PROVE  /\ current \in Requests
           /\ Head(toCloud) \in Frames /\ Head(toCloud).id = current
           /\ Head(toCloud).head # "invalid"
           /\ Tail(toCloud) \in Seq(Frames) /\ Len(Tail(toCloud)) = Len(toCloud) - 1
           /\ \/ /\ Head(toCloud).type = "request_failed"
                 /\ cloudState.flow[current] = "awaiting_response"
              \/ /\ connState.flow[current] \in {"response_body", "over"}
                 /\ answer[current] \in Answers /\ answer[current].ok
                 /\ answer[current].len \in 0..MaxChunks
                 /\ replied <= answer[current].len /\ answering = current
                 /\ Len(toCloud) = (IF connState.flow[current] = "over" THEN replied + 2
                                    ELSE replied + 1) - Taken
                 /\ connState.flow[current] = "over" => replied = answer[current].len
                 /\ \A i \in 1..Len(Tail(toCloud)) :
                       IsResponseFrame(Tail(toCloud)[i], Taken + i)
                 /\ \/ /\ Head(toCloud).type = "response_start"
                       /\ cloudState.flow[current] = "awaiting_response"
                       /\ Taken = 0 /\ received = 0
                    \/ /\ Head(toCloud).type = "response_chunk"
                       /\ cloudState.flow[current] = "response_body"
                       /\ Taken = received + 1 /\ received < replied
                       /\ Head(toCloud).seq = received
                       /\ cloudState.next[current] = received
                    \/ /\ Head(toCloud).type = "response_end"
                       /\ cloudState.flow[current] = "response_body"
                       /\ connState.flow[current] = "over"
                       /\ received = replied
                       /\ Tail(toCloud) = <<>>
<1>1. /\ Len(toCloud) \in Nat /\ Len(toCloud) > 0
      /\ Head(toCloud) = toCloud[1] /\ Head(toCloud) \in Frames
      /\ Tail(toCloud) \in Seq(Frames) /\ Len(Tail(toCloud)) = Len(toCloud) - 1
      /\ \A i \in 1..Len(Tail(toCloud)) : Tail(toCloud)[i] = toCloud[i + 1]
      /\ Tail(toCloud) = <<>> <=> Len(Tail(toCloud)) = 0
  <2>1. /\ Len(toCloud) \in Nat /\ Len(toCloud) > 0
        /\ Head(toCloud) = toCloud[1] /\ Head(toCloud) \in Frames
        /\ Tail(toCloud) \in Seq(Frames) /\ Len(Tail(toCloud)) = Len(toCloud) - 1
        /\ \A i \in 1..Len(Tail(toCloud)) : Tail(toCloud)[i] = toCloud[i + 1]
    BY Typed, Links
  <2>2. Tail(toCloud) = <<>> <=> Len(Tail(toCloud)) = 0
    BY <2>1, Links
  <2> QED BY <2>1, <2>2
<1>2. /\ current # None /\ current \in Requests
      /\ cloudState.flow[current] \in {"awaiting_response", "response_body"}
      /\ received = IF cloudState.flow[current] = "response_body"
                      THEN cloudState.next[current] ELSE 0
  BY Typed DEF SessionInv, CloudEnd
<1>3. CASE toCloud = <<Frame("request_failed", current)>> /\ cloudState.flow[current] = "awaiting_response"
  <2>1. toCloud[1] = Frame("request_failed", current)
    BY <1>3
  <2>2. /\ Frame("request_failed", current).type = "request_failed"
        /\ Frame("request_failed", current).id = current
        /\ Frame("request_failed", current).head = "plain"
    BY <1>2, FrameFields DEF Controls
  <2> QED BY <1>1, <1>2, <1>3, <2>1, <2>2
<1>4. CASE ~(toCloud = <<Frame("request_failed", current)>> /\ cloudState.flow[current] = "awaiting_response")
  <2>1. \/ connState.flow[current] = "response_body" /\ Replying(replied + 1)
        \/ /\ connState.flow[current] = "over"
           /\ Replying(replied + 2)
           /\ replied = answer[current].len
    BY <1>4 DEF SessionInv, ToCloud
  <2>2. PICK n \in {replied + 1, replied + 2} :
           /\ connState.flow[current] \in {"response_body", "over"}
           /\ n = IF connState.flow[current] = "over" THEN replied + 2 ELSE replied + 1
           /\ Replying(n)
           /\ connState.flow[current] = "over" => replied = answer[current].len
    BY <2>1
  <2>3. /\ answering = current
        /\ answer[current] \in Answers /\ answer[current].ok
        /\ replied <= answer[current].len
        /\ Len(toCloud) = n - Taken
        /\ \A i \in 1..Len(toCloud) : IsResponseFrame(toCloud[i], Taken + i - 1)
    BY <2>2 DEF Replying
  <2>4. answer[current].len \in 0..MaxChunks
    BY <2>3, AnswerLen
  <2>5. Taken \in Nat /\ replied \in Nat /\ received \in Nat
    BY Typed DEF Taken
  <2>6. IsResponseFrame(Head(toCloud), Taken)
    <3>1. IsResponseFrame(toCloud[1], Taken + 1 - 1) /\ Taken + 1 - 1 = Taken
      BY <1>1, <2>3, <2>5
    <3> QED BY <1>1, <3>1
  <2>7. \A i \in 1..Len(Tail(toCloud)) : IsResponseFrame(Tail(toCloud)[i], Taken + i)
    <3> SUFFICES ASSUME NEW i \in 1..Len(Tail(toCloud))
                 PROVE  IsResponseFrame(Tail(toCloud)[i], Taken + i)
      OBVIOUS
    <3>1. i + 1 \in 1..Len(toCloud) /\ Taken + (i + 1) - 1 = Taken + i
      BY <1>1, <2>5
    <3>2. IsResponseFrame(toCloud[i + 1], Taken + (i + 1) - 1)
      BY <2>3, <3>1
    <3> QED BY <1>1, <3>1, <3>2
  <2>8. Head(toCloud).id = current /\ Head(toCloud).head # "invalid"
    BY <2>6 DEF IsResponseFrame
  <2>9. \/ /\ Head(toCloud).type = "response_start"
           /\ cloudState.flow[current] = "awaiting_response"
           /\ Taken = 0 /\ received = 0
        \/ /\ Head(toCloud).type = "response_chunk"
           /\ cloudState.flow[current] = "response_body"
           /\ Taken = received + 1 /\ received < replied
           /\ Head(toCloud).seq = received
           /\ cloudState.next[current] = received
        \/ /\ Head(toCloud).type = "response_end"
           /\ cloudState.flow[current] = "response_body"
           /\ connState.flow[current] = "over"
           /\ received = replied
           /\ Tail(toCloud) = <<>>
    <3>1. CASE cloudState.flow[current] = "awaiting_response"
      BY <1>2, <2>6, <3>1 DEF Taken, IsResponseFrame
    <3>2. CASE cloudState.flow[current] = "response_body"
      <4>1. Taken = received + 1 /\ cloudState.next[current] = received
        BY <1>2, <3>2 DEF Taken
      <4>2. CASE received < replied
        BY <2>5, <2>6, <3>2, <4>1, <4>2 DEF IsResponseFrame
      <4>3. CASE ~(received < replied)
        <5>1. /\ received = replied /\ connState.flow[current] = "over"
              /\ Len(Tail(toCloud)) = 0
          BY <1>1, <2>2, <2>3, <2>5, <4>1, <4>3
        <5>2. Head(toCloud).type = "response_end"
          BY <2>5, <2>6, <4>1, <5>1 DEF IsResponseFrame
        <5> QED BY <1>1, <3>2, <5>1, <5>2
      <4> QED BY <4>2, <4>3
    <3> QED BY <1>2, <3>1, <3>2
  <2> QED BY <1>1, <1>2, <2>2, <2>3, <2>4, <2>7, <2>8, <2>9
<1> QED BY <1>3, <1>4

(* observe_control and observe_body, after the handshake.                  *)
LEMMA LegalFrame ==
    ASSUME NEW v, NEW f, f.type \notin {"client_hello", "server_ready"}
    PROVE  Legal(v, f) <=>
              /\ v.handshake = "ready"
              /\ f.head # "invalid"
              /\ v.flow[f.id] \in From[f.type]
              /\ f.type = "request_start" =>
                    /\ Cardinality(Flows(v)) < MaxConcurrent
                    /\ Cardinality(Seen(v)) < MaxIds
              /\ f.type \in Chunks => f.seq = v.next[f.id] /\ f.seq < MaxChunks
BY DEF Legal

(* The flow phases a frame leads from and to.                              *)
LEMMA Transitions ==
    /\ From["request_start"] = {"none"} /\ Into["request_start"] = "request_body"
    /\ From["request_chunk"] = {"request_body"} /\ Into["request_chunk"] = "request_body"
    /\ From["request_end"] = {"request_body"} /\ Into["request_end"] = "awaiting_response"
    /\ From["response_start"] = {"awaiting_response"}
    /\ Into["response_start"] = "response_body"
    /\ From["response_chunk"] = {"response_body"}
    /\ Into["response_chunk"] = "response_body"
    /\ From["response_end"] = {"response_body"} /\ Into["response_end"] = "over"
    /\ From["request_failed"] = Open /\ Into["request_failed"] = "over"
BY DEF From, Into

(* The connector accepts what the Cloud's validator accepted.              *)
LEMMA ConnectorLegal ==
    ASSUME SessionInv, connState.handshake = "ready", toConn # <<>>
    PROVE  Legal(connState, Head(toConn))
<1> DEFINE f == Head(toConn)
<1>1. f.id = current /\ f.head # "invalid" /\ current \in Requests
  BY ConnectorHead
<1>2. sent <= MaxChunks /\ sent \in Nat /\ MaxChunks \in Nat
  BY SessionAssumption DEF SessionInv, TypeOK
<1>3. CASE f.type = "request_start" /\ connState.flow[current] = "none"
  <2>1. Flows(connState) = {}
    BY <1>1, <1>3 DEF SessionInv, OneExchange, Flows, Open
  <2>2. Cardinality(Flows(connState)) < MaxConcurrent
    BY <2>1, FS_EmptySet, SessionAssumption
  <2>3. Seen(connState) = Seen(cloudState) \ {current}
    BY <1>1, <1>3 DEF SessionInv, OneExchange, Seen
  <2>4. Cardinality(Seen(connState)) < MaxIds
    BY <1>1, <2>3, ConnectorHead, Typed DEF SessionInv, CloudEnd
  <2>5. f.type \notin Chunks
    BY <1>3 DEF Chunks
  <2> HIDE DEF f
  <2> QED BY <1>1, <1>3, <2>2, <2>4, <2>5, LegalFrame, Transitions DEF f
<1>4. CASE /\ f.type = "request_chunk" /\ connState.flow[current] = "request_body"
           /\ f.seq = connState.next[current] /\ connState.next[current] < sent
  <2>1. f.seq < MaxChunks
    BY <1>1, <1>2, <1>4, Typed, Validator
  <2> HIDE DEF f
  <2> QED BY <1>1, <1>4, <2>1, LegalFrame, Transitions
<1>5. CASE f.type = "request_end" /\ connState.flow[current] = "request_body"
  <2>1. f.type \notin Chunks
    BY <1>5 DEF Chunks
  <2> HIDE DEF f
  <2> QED BY <1>1, <1>5, <2>1, LegalFrame, Transitions DEF f
<1> QED BY <1>3, <1>4, <1>5, ConnectorHead

(* The Cloud accepts what the connector's validator accepted.              *)
LEMMA CloudLegal ==
    ASSUME SessionInv, cloud = "response", toCloud # <<>>
    PROVE  Expected(Head(toCloud))
<1> DEFINE f == Head(toCloud)
<1>1. f.id = current /\ f.head # "invalid" /\ current \in Requests
  BY CloudHead
<1>2. cloudState.handshake = "ready"
  BY DEF SessionInv, CloudEnd
<1>3. CASE /\ f.type \in {"request_failed", "response_start"}
           /\ cloudState.flow[current] = "awaiting_response"
  <2>1. f.type \notin Chunks
    BY <1>3 DEF Chunks
  <2> HIDE DEF f
  <2> QED BY <1>1, <1>2, <1>3, <2>1, LegalFrame, Transitions DEF Open, Expected, f
<1>4. CASE /\ f.type = "response_chunk" /\ cloudState.flow[current] = "response_body"
           /\ f.seq = cloudState.next[current] /\ f.seq < MaxChunks
  <2> HIDE DEF f
  <2> QED BY <1>1, <1>2, <1>4, LegalFrame, Transitions DEF Expected, f
<1>5. CASE f.type = "response_end" /\ cloudState.flow[current] = "response_body"
  <2>1. f.type \notin Chunks
    BY <1>5 DEF Chunks
  <2> HIDE DEF f
  <2> QED BY <1>1, <1>2, <1>5, <2>1, LegalFrame, Transitions DEF Expected, f
<1>6. ASSUME received < replied, replied <= answer[current].len,
             answer[current].len \in 0..MaxChunks
      PROVE  received < MaxChunks
  BY <1>6, SessionAssumption, Typed
<1> QED BY <1>3, <1>4, <1>5, <1>6, CloudHead

(* Neither end meets a frame it refuses.                                   *)
LEMMA InvEndsAgree == ASSUME SessionInv PROVE EndsAgree
<1>1. cloud = "idle" => toCloud = <<>>
  BY DEF SessionInv, ToCloud
<1>2. conn = "serving" => connState.handshake = "ready"
  BY DEF SessionInv, ConnectorEnd
<1> QED BY <1>1, <1>2, CloudLegal, ConnectorLegal DEF EndsAgree

(* The connector stops: nothing else changes.                              *)
LEMMA ConnectorStops ==
    ASSUME SessionInv, AuthenticationRejected \/ ProtocolError \/ Transport
    PROVE  SessionInv'
<1>1. /\ UNCHANGED <<cloudVars, toConn, toCloud, connState, pending, rejected, active,
                     ready, answering, replied, calls, session, history>>
      /\ conn' \in {"rejected", "protocol", "backoff"}
      /\ conn' \in {"rejected", "backoff"} => cloud \in {"none", "closed"}
  BY DEF AuthenticationRejected, ProtocolError, Transport
<1>2. TypeOK'
  BY <1>1 DEF cloudVars, history, SessionInv, TypeOK
<1>3. ToConnector'
  BY <1>1 DEF cloudVars, SessionInv, ToConnector, Written, Read, IsRequestFrame
<1>4. ToCloud'
  BY <1>1 DEF cloudVars, history, SessionInv, ToCloud, Replying, Taken, IsResponseFrame
<1>5. CloudEnd' /\ OneExchange'
  BY <1>1 DEF cloudVars, history, SessionInv, CloudEnd, OneExchange, Seen
<1>6. ConnectorEnd'
  BY <1>1 DEF cloudVars, history, SessionInv, ConnectorEnd
<1>7. Once' /\ BodiesIntact'
  BY <1>1 DEF cloudVars, history, SessionInv, Once, BodiesIntact
<1> QED BY <1>2, <1>3, <1>4, <1>5, <1>6, <1>7 DEF SessionInv

(* The Cloud's end closes the session, and its exchange ends with it.      *)
LEMMA CloudStops ==
    ASSUME SessionInv, cloud \in {"hello", "idle", "request", "response"},
           NEW how \in {"failed", "timeout"}, CloudCloses(how),
           \/ cloudState' = cloudState
           \/ /\ cloudState' \in Validators /\ cloudState'.handshake = cloudState.handshake
              /\ current \in Requests /\ cloudState.flow[current] = "awaiting_response"
              /\ cloudState'.flow[current] = "over"
              /\ \A q \in Requests \ {current} : cloudState'.flow[q] = cloudState.flow[q],
           UNCHANGED <<current, sent, received, toConn, connVars,
                       calls, session, len, executed, answer>>,
           toCloud' \in Seq(Frames)
    PROVE  SessionInv'
<1>1. /\ cloud' = "closed"
      /\ \A q \in Requests : \/ result'[q] = result[q]
                             \/ result'[q] = how /\ result[q] = "started"
      /\ result' \in [Requests -> {"none", "started", "ok", "failed", "timeout"}]
  BY Typed DEF CloudCloses, SessionInv, CloudEnd, TypeOK
<1>2. TypeOK'
  BY <1>1 DEF connVars, SessionInv, TypeOK
<1>3. ToConnector'
  BY DEF connVars, SessionInv, ToConnector, Written, Read, IsRequestFrame
<1>4. ToCloud'
  BY <1>1 DEF ToCloud
<1>5. CloudEnd'
  <2>1. CASE cloudState' = cloudState
    BY <1>1, <2>1 DEF connVars, SessionInv, CloudEnd, Seen
  <2>2. CASE ~(cloudState' = cloudState)
    <3>1. Seen(cloudState)' \ {current} = Seen(cloudState) \ {current}
      BY <2>2 DEF Seen
    <3>2. CloudEnd
      BY DEF SessionInv
    <3>3. sent = len[current] /\ Cardinality(Seen(cloudState) \ {current}) < MaxIds
      BY <2>2, <3>2, Typed DEF CloudEnd
    <3>4. sent <= len[current]
      BY <3>3, Typed
    <3>5. /\ current' = current /\ sent' = sent /\ len' = len
          /\ cloudState'.flow[current] = "over"
      BY <2>2
    <3> QED BY <1>1, <3>1, <3>3, <3>4, <3>5 DEF CloudEnd
  <2> QED BY <2>1, <2>2
<1>6. OneExchange'
  BY <1>1 DEF connVars, SessionInv, OneExchange
<1>7. ConnectorEnd'
  BY <1>1 DEF connVars, SessionInv, ConnectorEnd
<1>8. Once'
  <2>1. \A c \in calls : c[1] \in Requests
    BY DEF SessionInv, TypeOK
  <2> QED BY <1>1, <2>1 DEF connVars, SessionInv, Once
<1>9. BodiesIntact'
  BY <1>1, Typed DEF SessionInv, BodiesIntact
<1> QED BY <1>2, <1>3, <1>4, <1>5, <1>6, <1>7, <1>8, <1>9 DEF SessionInv

(* A deadline missed or a link that is lost ends the session.              *)
LEMMA CloseStep ==
    ASSUME SessionInv, CloudTimeout \/ LinkLost \/ ConnectorGone PROVE SessionInv'
<1>1. toCloud \in Seq(Frames)
  BY Typed
<1> QED BY <1>1, CloudStops DEF CloudTimeout, LinkLost, ConnectorGone

(* The local server answers a call, of this session or of an earlier one.  *)
LEMMA UpstreamStep ==
    ASSUME SessionInv, NEW c \in calls, NEW a \in Answers, UpstreamReturns(c, a)
    PROVE  SessionInv'
<1>1. /\ calls' = calls \ {c} /\ answer' = [answer EXCEPT ![c[1]] = a]
      /\ ready' = IF c[2] = session /\ conn \in {"serving", "answering"}
                    THEN ready \cup {c[1]} ELSE ready
      /\ UNCHANGED <<cloudVars, toConn, toCloud, conn, connState, pending, rejected,
                     active, answering, replied, session, len, executed, result>>
  BY DEF UpstreamReturns
<1>2. /\ c[1] \in Requests /\ answer[c[1]] = None /\ result[c[1]] # "none"
      /\ c[2] = session => c[1] \in active \ ready
      /\ \A d \in calls : d[1] \in Requests /\ (d[1] = c[1] => d = c)
      /\ answer \in [Requests -> Answers \cup {None}]
  BY DEF SessionInv, Once, TypeOK
<1>3. \A q \in Requests : answer'[q] = IF q = c[1] THEN a ELSE answer[q]
  BY <1>1, <1>2
<1>4. answer[c[1]] \notin Answers
  BY <1>2, SessionAssumption
<1>5. TypeOK'
  BY <1>1, <1>2 DEF cloudVars, SessionInv, TypeOK
<1>6. ToConnector'
  BY <1>1 DEF cloudVars, SessionInv, ToConnector, Written, Read, IsRequestFrame
<1>7. ToCloud'
  <2>1. current # None /\ answer[current] \in Answers => answer'[current] = answer[current]
    BY <1>3, <1>4, Typed
  <2>2. cloud = "response" => current # None
    BY DEF SessionInv, CloudEnd
  <2> QED BY <1>1, <2>1, <2>2 DEF cloudVars, SessionInv, ToCloud, Replying, Taken, IsResponseFrame
<1>8. CloudEnd' /\ OneExchange'
  BY <1>1 DEF cloudVars, SessionInv, CloudEnd, OneExchange, Seen
<1>9. ConnectorEnd'
  <2>1. \A q \in Requests : answer[q] \in Answers => answer'[q] = answer[q]
    BY <1>3, <1>4
  <2>2. \A q \in ready' : q \in active /\ answer'[q] \in Answers
    BY <1>1, <1>2, <1>3, <2>1 DEF SessionInv, ConnectorEnd, TypeOK
  <2>3. current # None /\ answer[current] \in Answers => answer'[current] = answer[current]
    BY <2>1, Typed
  <2> QED BY <1>1, <2>2, <2>3 DEF cloudVars, SessionInv, ConnectorEnd
<1>10. Once'
  <2>1. \A q \in Requests : result[q] = "none" => answer'[q] = None
    BY <1>2, <1>3 DEF SessionInv, Once
  <2>2. current # None /\ connState.flow[current] \in {"none", "request_body"} => answer'[current] = None
    BY <1>2, <1>3, Typed DEF SessionInv, Once
  <2>3. \A d \in calls' : /\ answer'[d[1]] = None
                          /\ d[2] = session => d[1] \in active \ ready'
    BY <1>1, <1>2, <1>3 DEF SessionInv, Once
  <2> QED BY <1>1, <2>1, <2>2, <2>3 DEF cloudVars, SessionInv, Once
<1>11. BodiesIntact'
  BY <1>1, <1>2, <1>3, <1>4, Typed DEF cloudVars, SessionInv, BodiesIntact
<1> QED BY <1>5, <1>6, <1>7, <1>8, <1>9, <1>10, <1>11 DEF SessionInv

(* run_reconnecting: both ends begin afresh.                               *)
LEMMA ConnectStep == ASSUME SessionInv, Connect PROVE SessionInv'
<1> DEFINE hello == Frame("client_hello", None)
<1>1. /\ conn = "backoff" /\ session < MaxSessions /\ session' = session + 1
      /\ conn' = "hello" /\ connState' = Observe(Fresh, hello)
      /\ toCloud' = <<hello>> /\ toConn' = <<>>
      /\ cloud' = "hello" /\ cloudState' = Fresh
      /\ current' = None /\ answering' = None
      /\ sent' = 0 /\ received' = 0 /\ replied' = 0
      /\ pending' = <<>> /\ rejected' = {} /\ active' = {} /\ ready' = {}
      /\ calls' = calls /\ len' = len /\ executed' = executed /\ answer' = answer
      /\ result' = result
  BY DEF Connect, history
<1>2. /\ hello \in Frames /\ hello.type = "client_hello"
  BY FrameFields DEF Controls
<1>3. /\ Fresh \in Validators /\ Fresh.handshake = "awaiting_hello"
      /\ \A q \in Requests : Fresh.flow[q] = "none"
  BY DEF Fresh, Validators, FlowPhases
<1>4. connState' = [Fresh EXCEPT !.handshake = "awaiting_ready"]
  BY <1>1, <1>2 DEF Observe
<1>5. /\ connState' \in Validators /\ connState'.handshake = "awaiting_ready"
      /\ connState'.flow = Fresh.flow
  BY <1>4 DEF Fresh, Validators, FlowPhases
<1>6. DOMAIN pending' = {}
  BY <1>1
<1> HIDE DEF hello
<1>7. /\ session \in Nat /\ MaxSessions \in Nat /\ None \notin Requests
      /\ \A c \in calls : c[1] \in Requests /\ c[2] \in Nat /\ c[2] <= session
  BY SessionAssumption DEF SessionInv, TypeOK, Once
<1>8. TypeOK'
  <2>1. toCloud' \in Seq(Frames) /\ toConn' \in Seq(Frames)
    BY <1>1, <1>2
  <2>2. Cardinality(active') <= MaxInFlight
    BY <1>1, FS_EmptySet, SessionAssumption
  <2>3. session' \in 0..MaxSessions
    BY <1>1, <1>7
  <2>4. {sent', received', replied'} \subseteq 0..MaxChunks
    BY <1>1, SessionAssumption
  <2> QED BY <1>1, <1>3, <1>5, <1>6, <2>1, <2>2, <2>3, <2>4 DEF SessionInv, TypeOK
<1>9. ToConnector'
  <2>1. Written' = 0 /\ Read' = 0
    BY <1>1, <1>3, <1>5 DEF Written, Read
  <2>2. Len(toConn') = 0
    BY <1>1
  <2> QED BY <2>1, <2>2 DEF ToConnector
<1>10. ToCloud'
  BY <1>1 DEF ToCloud, hello
<1>11. CloudEnd' /\ OneExchange'
  BY <1>1, <1>3, <1>5 DEF CloudEnd, OneExchange
<1>12. ConnectorEnd'
  BY <1>1, <1>3, <1>5, <1>6, <1>7 DEF ConnectorEnd
<1>13. Once'
  <2>1. \A c \in calls : c[2] # session' /\ c[2] <= session'
    BY <1>1, <1>7
  <2> QED BY <1>1, <1>3, <1>5, <1>7, <2>1 DEF SessionInv, Once
<1>14. BodiesIntact'
  BY <1>1 DEF SessionInv, BodiesIntact
<1> QED BY <1>8, <1>9, <1>10, <1>11, <1>12, <1>13, <1>14 DEF SessionInv

(* server_ready is the first frame of a session to the connector.          *)
LEMMA ReadyStep == ASSUME SessionInv, CloudReady PROVE SessionInv'
<1> DEFINE hello == Frame("client_hello", None)
           f == Frame("server_ready", None)
           v == Observe(Fresh, hello)
<1>1. /\ cloud = "hello" /\ toCloud # <<>> /\ toCloud' = Tail(toCloud)
      /\ cloudState' = Observe(Observe(cloudState, Head(toCloud)), f)
      /\ toConn' = Append(toConn, f) /\ cloud' = "idle"
      /\ UNCHANGED <<current, sent, received, connVars, calls, session, history>>
  BY DEF CloudReady
<1>2. cloudState = Fresh /\ current = None /\ toCloud = <<hello>>
  BY <1>1 DEF SessionInv, CloudEnd, ToCloud
<1>3. /\ hello \in Frames /\ hello.type = "client_hello"
      /\ f \in Frames /\ f.type = "server_ready" /\ f.head = "plain"
  BY FrameFields DEF Controls
<1>4. cloudState' = [[Fresh EXCEPT !.handshake = "awaiting_ready"] EXCEPT !.handshake = "ready"]
  <2>1. Head(toCloud) = hello
    BY <1>2
  <2>2. v = [Fresh EXCEPT !.handshake = "awaiting_ready"]
    BY <1>3 DEF Observe
  <2>3. Observe(v, f) = [v EXCEPT !.handshake = "ready"]
    BY <1>3 DEF Observe
  <2> HIDE DEF hello, f
  <2> QED BY <1>1, <1>2, <2>1, <2>2, <2>3
<1>5. /\ cloudState' \in Validators /\ cloudState'.handshake = "ready"
      /\ cloudState'.flow = [q \in Requests |-> "none"]
  BY <1>4 DEF Fresh, Validators, FlowPhases
<1>6. toCloud' = <<>>
  BY <1>1, <1>2
<1>7. Fresh.handshake = "awaiting_hello"
  BY DEF Fresh
<1> HIDE DEF hello, f
<1>8. toConn = <<>> /\ connState.handshake # "ready"
  <2>1. Written = 0
    BY <1>2, <1>7 DEF Written
  <2>2. Read = IF connState.handshake # "ready" THEN 0 ELSE 1
    BY <1>2 DEF Read
  <2>3. Len(toConn) = 0 - Read /\ Len(toConn) \in Nat
    BY <2>1, Links, Typed DEF SessionInv, ToConnector
  <2>4. Read \in {0, 1} /\ (Read = 0 => connState.handshake # "ready")
    BY <2>2
  <2>5. Read = 0 /\ Len(toConn) = 0
    BY <2>3, <2>4
  <2> QED BY <2>4, <2>5, Links, Typed
<1>9. /\ Len(toConn') = 1 /\ toConn'[1] = f /\ toConn' \in Seq(Frames)
  BY <1>1, <1>3, <1>8
<1>10. connState.flow = [q \in Requests |-> "none"]
  BY <1>8, Typed, Validator DEF SessionInv, ConnectorEnd
<1>11. TypeOK'
  BY <1>1, <1>5, <1>6, <1>9 DEF connVars, history, SessionInv, TypeOK
<1>12. ToConnector'
  <2>1. Written' = 1 /\ Read' = 0
    BY <1>1, <1>2, <1>5, <1>8 DEF Written, Read, connVars
  <2>2. IsRequestFrame(f, 0)'
    BY <1>1, <1>3, Typed DEF IsRequestFrame
  <2>3. Len(toConn') = Written' - Read'
    BY <1>9, <2>1
  <2>4. \A i \in 1..Len(toConn') : i = 1 /\ Read' + i - 1 = 0
    BY <1>9, <2>1
  <2> QED BY <1>9, <2>2, <2>3, <2>4 DEF ToConnector
<1>13. ToCloud'
  BY <1>1, <1>6 DEF ToCloud
<1>14. CloudEnd' /\ OneExchange'
  BY <1>1, <1>2, <1>5, <1>10 DEF connVars, CloudEnd, OneExchange
<1>15. ConnectorEnd'
  BY <1>1 DEF connVars, history, SessionInv, ConnectorEnd
<1>16. Once'
  BY <1>1, <1>2, <1>5 DEF connVars, history, SessionInv, Once
<1>17. BodiesIntact'
  BY <1>1 DEF history, SessionInv, BodiesIntact
<1> QED BY <1>11, <1>12, <1>13, <1>14, <1>15, <1>16, <1>17 DEF SessionInv

(* Between exchanges nothing is open and nothing is on the way, unless the *)
(* connector has yet to read server_ready.                                 *)
LEMMA Between ==
    ASSUME SessionInv, cloud = "idle"
    PROVE  /\ cloudState.handshake = "ready"
           /\ \A r \in Requests : /\ connState.flow[r] = cloudState.flow[r]
                                  /\ cloudState.flow[r] \in {"none", "over"}
           /\ active = {} /\ ready = {} /\ conn \in {"hello", "serving", "protocol"}
           /\ Len(toConn) = IF connState.handshake = "ready" THEN 0 ELSE 1
           /\ \A i \in 1..Len(toConn) : /\ i = 1 /\ toConn[i].type = "server_ready"
                                        /\ toConn[i].head # "invalid"
<1>1. /\ cloudState.handshake = "ready" /\ connState.flow = cloudState.flow
      /\ conn \in {"hello", "serving", "answering", "protocol"}
  BY DEF SessionInv, CloudEnd, ConnectorEnd, TypeOK
<1>2. \A r \in Requests : cloudState.flow[r] \in {"none", "over"}
  BY Typed DEF SessionInv, OneExchange
<1>3. active = {} /\ ready = {} /\ conn # "answering"
  BY <1>1, <1>2, Typed DEF SessionInv, ConnectorEnd, TypeOK
<1>4. Len(toConn) = Written - Read /\ \A i \in 1..Len(toConn) : IsRequestFrame(toConn[i], Read + i - 1)
  BY DEF SessionInv, ToConnector
<1>5. CASE connState.handshake = "ready"
  <2>1. Read = Written /\ Written \in Nat
    BY <1>1, <1>2, <1>5, Typed DEF Read, Written
  <2>2. Len(toConn) = 0
    BY <1>4, <2>1
  <2> QED BY <1>1, <1>2, <1>3, <1>5, <2>2
<1>6. CASE connState.handshake # "ready"
  <2>1. \A r \in Requests : connState.flow[r] = "none"
    BY <1>6 DEF SessionInv, ConnectorEnd
  <2>2. Read = 0 /\ Written = 1
    BY <1>1, <1>6, <2>1, Typed DEF Read, Written
  <2>3. Len(toConn) = 1
    BY <1>4, <2>2
  <2>4. IsRequestFrame(toConn[1], 0)
    BY <1>4, <2>2, <2>3
  <2>5. toConn[1].type = "server_ready" /\ toConn[1].head # "invalid"
    BY <2>4 DEF IsRequestFrame
  <2> QED BY <1>1, <1>2, <1>3, <1>6, <2>3, <2>5
<1> QED BY <1>5, <1>6

(* execute_exchange begins: its request_start is the next frame, or the    *)
(* Cloud's own validator refuses it and the session closes.                *)
LEMMA StartStep ==
    ASSUME SessionInv, NEW q \in Requests, NEW head \in RequestHeads, NEW n \in 0..MaxChunks,
           StartExchange(q, head, n)
    PROVE  SessionInv'
<1> DEFINE f == Start("request_start", q, head)
<1>1. /\ cloud = "idle" /\ result[q] = "none" /\ current' = q
      /\ len' = [len EXCEPT ![q] = n] /\ sent' = 0 /\ received' = 0
      /\ UNCHANGED <<toCloud, connVars, calls, session, executed, answer>>
      /\ \/ /\ Legal(cloudState, f) /\ cloudState' = Observe(cloudState, f)
            /\ toConn' = Append(toConn, f) /\ cloud' = "request"
            /\ result' = [result EXCEPT ![q] = "started"]
         \/ /\ cloud' = "closed" /\ result' = [result EXCEPT ![q] = "failed"]
            /\ UNCHANGED <<cloudState, toConn>>
  BY DEF StartExchange, CloudSends
<1>2. /\ f \in Frames /\ f.type = "request_start" /\ f.id = q /\ f.head = head
      /\ f.type \notin {"client_hello", "server_ready"} /\ f.type \notin Chunks
      /\ f.id \in Requests
  BY FrameFields, SessionAssumption DEF Controls, Chunks
<1>3. /\ cloudState.flow[q] = "none" /\ connState.flow[q] = "none" /\ q # current
      /\ executed[q] = None /\ answer[q] = None /\ \A c \in calls : c[1] # q
  BY <1>1 DEF SessionInv, Once
<1>4. /\ len \in [Requests -> 0..MaxChunks]
      /\ result \in [Requests -> {"none", "started", "ok", "failed", "timeout"}]
      /\ \A c \in calls : c[1] \in Requests
      /\ q # None /\ None \notin Requests
  BY SessionAssumption DEF SessionInv, TypeOK
<1>5. /\ len'[q] = n /\ len' \in [Requests -> 0..MaxChunks]
      /\ \A r \in Requests \ {q} : len'[r] = len[r] /\ result'[r] = result[r]
      /\ result'[q] \in {"started", "failed"}
      /\ result' \in [Requests -> {"none", "started", "ok", "failed", "timeout"}]
  BY <1>1, <1>4
<1> HIDE DEF f
<1>6. /\ cloudState' \in Validators /\ cloudState'.handshake = "ready"
      /\ \A r \in Requests \ {q} : cloudState'.flow[r] = cloudState.flow[r]
      /\ \/ /\ cloud' = "request" /\ cloudState'.flow[q] = "request_body"
            /\ cloudState'.next[q] = 0 /\ toConn' = Append(toConn, f)
            /\ head # "invalid" /\ Cardinality(Seen(cloudState)) < MaxIds
            /\ result'[q] = "started"
         \/ cloud' = "closed" /\ cloudState'.flow[q] = "none" /\ toConn' = toConn
  <2>1. CASE UNCHANGED <<cloudState, toConn>> /\ cloud' = "closed"
    BY <1>3, <2>1, Between, Typed, <1>1
  <2>2. CASE /\ Legal(cloudState, f) /\ cloudState' = Observe(cloudState, f)
             /\ toConn' = Append(toConn, f) /\ cloud' = "request"
             /\ result' = [result EXCEPT ![q] = "started"]
    <3>1. head # "invalid" /\ Cardinality(Seen(cloudState)) < MaxIds
      BY <1>2, <2>2, LegalFrame
    <3>2. result'[q] = "started"
      BY <1>4, <2>2
    <3>3. cloudState.handshake = "ready"
      BY <1>1, Between
    <3> QED BY <1>2, <2>2, <3>1, <3>2, <3>3, Observes, Transitions, Typed
  <2> QED BY <1>1, <2>1, <2>2
<1>7. /\ toConn' \in Seq(Frames)
      /\ Len(toConn') = Len(toConn) + (IF cloud' = "request" THEN 1 ELSE 0)
      /\ \A i \in 1..Len(toConn) : toConn'[i] = toConn[i]
      /\ cloud' = "request" => toConn'[Len(toConn) + 1] = f
      /\ Len(toConn) \in Nat
  <2>1. CASE cloud' = "request" /\ toConn' = Append(toConn, f)
    BY <1>2, <2>1, Links, Typed
  <2>2. CASE cloud' = "closed" /\ toConn' = toConn
    BY <2>2, Links, Typed
  <2> QED BY <1>6, <2>1, <2>2
<1>8. TypeOK'
  <2>1. sent' \in 0..MaxChunks /\ received' \in 0..MaxChunks
    BY <1>1, SessionAssumption
  <2> QED BY <1>1, <1>5, <1>6, <1>7, <2>1 DEF connVars, SessionInv, TypeOK
<1>9. ToConnector'
  <2>1. Read' = IF connState.handshake # "ready" THEN 0 ELSE 1
    BY <1>1, <1>3 DEF Read, connVars
  <2>2. Written' = IF cloud' = "request" THEN 2 ELSE 1
    BY <1>1, <1>4, <1>6 DEF Written
  <2>3. Len(toConn) = IF connState.handshake = "ready" THEN 0 ELSE 1
    BY <1>1, Between
  <2>4. Read' + Len(toConn) = 1 /\ Read' \in Nat
    BY <2>1, <2>3
  <2>5. Len(toConn') = Written' - Read'
    BY <1>7, <2>2, <2>4
  <2>6. ASSUME NEW i \in 1..Len(toConn')
        PROVE  IsRequestFrame(toConn[i], Read + i - 1)'
    <3>1. CASE i \in 1..Len(toConn)
      <4>1. i = 1 /\ toConn'[i].type = "server_ready" /\ toConn'[i].head # "invalid"
        BY <1>1, <1>7, <3>1, Between
      <4>2. Len(toConn) \in {0, 1} /\ Len(toConn) >= 1
        BY <1>7, <2>3, <3>1
      <4>3. Read' = 0
        <5>1. Len(toConn) # 0
          BY <4>2
        <5> QED BY <2>1, <2>3, <5>1
      <4>4. Read' + i - 1 = 0
        BY <4>1, <4>3
      <4> QED BY <1>1, <4>1, <4>4 DEF IsRequestFrame
    <3>2. CASE ~(i \in 1..Len(toConn))
      <4>1. i = Len(toConn) + 1 /\ cloud' = "request"
        BY <1>7, <3>2
      <4>2. toConn'[i] = f /\ Read' + i - 1 = 1
        BY <1>7, <2>4, <4>1
      <4>3. head # "invalid"
        BY <1>6, <4>1
      <4> QED BY <1>1, <1>2, <1>4, <4>2, <4>3 DEF IsRequestFrame
    <3> QED BY <3>1, <3>2
  <2> QED BY <2>5, <2>6 DEF ToConnector
<1>10. ToCloud'
  BY <1>1, <1>6 DEF SessionInv, ToCloud
<1>11. OneExchange'
  BY <1>1, <1>6, Between DEF OneExchange, connVars
<1>12. CloudEnd'
  <2>1. sent' <= len'[q]
    BY <1>1, <1>4, <1>5
  <2>2. cloud' = "request" => Cardinality(Seen(cloudState') \ {q}) < MaxIds
    <3>1. Seen(cloudState') \ {q} = Seen(cloudState)
      BY <1>3, <1>6 DEF Seen
    <3> QED BY <1>6, <3>1
  <2>3. CASE cloud' = "request"
    <3>1. cloudState'.flow[q] = "request_body" /\ cloudState'.next[q] = 0 /\ result'[q] = "started"
      BY <1>6, <2>3
    <3> QED BY <1>1, <1>4, <1>6, <2>1, <2>2, <2>3, <3>1 DEF CloudEnd
  <2>4. CASE cloud' = "closed" /\ cloudState'.flow[q] = "none"
    BY <1>1, <2>1, <2>4 DEF CloudEnd
  <2> QED BY <1>6, <2>3, <2>4
<1>13. ConnectorEnd'
  BY <1>1, Between DEF SessionInv, ConnectorEnd, connVars
<1>14. Once'
  <2>1. \A r \in Requests : result'[r] = "none" =>
           /\ cloudState'.flow[r] = "none" /\ connState.flow[r] = "none"
           /\ r # current' /\ executed[r] = None /\ answer[r] = None
           /\ \A c \in calls : c[1] # r
    BY <1>1, <1>5, <1>6 DEF SessionInv, Once
  <2>2. \A c \in calls : result'[c[1]] # "none"
    BY <1>3, <1>4, <1>5 DEF SessionInv, Once
  <2> QED BY <1>1, <1>3, <2>1, <2>2 DEF SessionInv, Once, connVars
<1>15. BodiesIntact'
  BY <1>1, <1>3, <1>5 DEF SessionInv, BodiesIntact
<1> QED BY <1>8, <1>9, <1>10, <1>11, <1>12, <1>13, <1>14, <1>15 DEF SessionInv

(* While the Cloud sends a request the connector has not read past it.     *)
LEMMA Requesting ==
    ASSUME SessionInv, cloud = "request"
    PROVE  /\ current \in Requests /\ cloudState.handshake = "ready"
           /\ cloudState.flow[current] = "request_body" /\ cloudState.next[current] = sent
           /\ received = 0 /\ result[current] = "started"
           /\ connState.flow[current] \in {"none", "request_body"}
           /\ Written = sent + 2 /\ sent <= len[current]
           /\ Cardinality(Seen(cloudState) \ {current}) < MaxIds
           /\ conn \notin {"backoff", "rejected", "answering"}
<1>1. /\ current \in Requests /\ cloudState.handshake = "ready" /\ current # None
      /\ cloudState.flow[current] = "request_body" /\ cloudState.next[current] = sent
      /\ received = 0 /\ result[current] = "started" /\ sent <= len[current]
      /\ Cardinality(Seen(cloudState) \ {current}) < MaxIds
  BY Typed DEF SessionInv, CloudEnd
<1>2. Written = sent + 2
  BY <1>1 DEF Written
<1>3. connState.flow[current] \in {"none", "request_body"}
  <2> SUFFICES ASSUME connState.flow[current] \notin {"none", "request_body"} PROVE FALSE
    OBVIOUS
  <2>1. connState.handshake = "ready"
    BY <1>1 DEF SessionInv, ConnectorEnd
  <2>2. Read = sent + 3
    BY <1>1, <2>1 DEF Read
  <2>3. Len(toConn) = (sent + 2) - (sent + 3) /\ Len(toConn) \in Nat /\ sent \in Nat
    BY <1>2, <2>2, Links, Typed DEF SessionInv, ToConnector
  <2> QED BY <2>3
<1> QED BY <1>1, <1>2, <1>3 DEF SessionInv, ConnectorEnd

(* The next frame of the request: a chunk of its body, or its end.         *)
LEMMA RequestStep ==
    ASSUME SessionInv, SendRequestChunk \/ SendRequestEnd PROVE SessionInv'
<1>1. PICK f \in Frames :
         /\ cloud = "request" /\ Legal(cloudState, f) /\ cloudState' = Observe(cloudState, f)
         /\ toConn' = Append(toConn, f) /\ f.id = current /\ f.head = "plain"
         /\ UNCHANGED <<current, received, toCloud, connVars, calls, session, history>>
         /\ \/ /\ f.type = "request_chunk" /\ f.seq = sent /\ sent < len[current]
               /\ sent' = sent + 1 /\ cloud' = "request"
            \/ /\ f.type = "request_end" /\ sent = len[current] /\ sent' = sent
               /\ cloud' = "response"
  <2>1. CASE SendRequestChunk
    <3>1. cloud = "request" /\ current \in Requests /\ sent \in Nat
      BY <2>1, Requesting, Typed DEF SendRequestChunk
    <3>2. /\ Chunk("request_chunk", current, sent) \in Frames
          /\ Chunk("request_chunk", current, sent).type = "request_chunk"
          /\ Chunk("request_chunk", current, sent).id = current
          /\ Chunk("request_chunk", current, sent).head = "plain"
          /\ Chunk("request_chunk", current, sent).seq = sent
      BY <3>1, FrameFields DEF Chunks
    <3> QED BY <2>1, <3>1, <3>2 DEF SendRequestChunk, CloudSends
  <2>2. CASE SendRequestEnd
    <3>1. cloud = "request" /\ current \in Requests
      BY <2>2, Requesting DEF SendRequestEnd
    <3>2. /\ Frame("request_end", current) \in Frames
          /\ Frame("request_end", current).type = "request_end"
          /\ Frame("request_end", current).id = current
          /\ Frame("request_end", current).head = "plain"
      BY <3>1, FrameFields DEF Controls
    <3> QED BY <2>2, <3>1, <3>2 DEF SendRequestEnd, CloudSends
  <2> QED BY <2>1, <2>2
<1>2. /\ current \in Requests /\ cloudState.handshake = "ready"
      /\ cloudState.flow[current] = "request_body" /\ cloudState.next[current] = sent
      /\ received = 0 /\ result[current] = "started"
      /\ connState.flow[current] \in {"none", "request_body"}
      /\ Written = sent + 2 /\ sent <= len[current]
      /\ Cardinality(Seen(cloudState) \ {current}) < MaxIds
      /\ current # None /\ sent \in Nat
  BY <1>1, Requesting, Typed
<1>3. /\ cloudState' \in Validators /\ cloudState'.handshake = "ready"
      /\ cloudState'.flow[current] = Into[f.type]
      /\ cloudState'.next[current] = IF f.type \in Chunks THEN cloudState.next[current] + 1 ELSE 0
      /\ \A r \in Requests \ {current} : cloudState'.flow[r] = cloudState.flow[r]
  BY <1>1, <1>2, Observes, Typed
<1>4. \/ /\ cloud' = "request" /\ cloudState'.flow[current] = "request_body"
         /\ cloudState'.next[current] = sent' /\ sent' = sent + 1 /\ sent' <= len[current]
         /\ f.type = "request_chunk" /\ f.seq = sent
      \/ /\ cloud' = "response" /\ cloudState'.flow[current] = "awaiting_response"
         /\ sent' = sent /\ sent = len[current] /\ f.type = "request_end"
  <2>1. CASE f.type = "request_chunk"
    <3>1. sent < len[current] /\ sent' = sent + 1 /\ cloud' = "request" /\ f.seq = sent
      BY <1>1, <2>1
    <3>2. len[current] \in Nat
      BY <1>2, SessionAssumption DEF SessionInv, TypeOK
    <3>3. f.type \in Chunks
      BY <2>1 DEF Chunks
    <3> QED BY <1>2, <1>3, <2>1, <3>1, <3>2, <3>3, Transitions
  <2>2. CASE f.type = "request_end"
    BY <1>1, <1>3, <2>2, Transitions
  <2> QED BY <1>1, <2>1, <2>2
<1>5. /\ toConn' \in Seq(Frames) /\ Len(toConn') = Len(toConn) + 1 /\ Len(toConn) \in Nat
      /\ \A i \in 1..Len(toConn) : toConn'[i] = toConn[i]
      /\ toConn'[Len(toConn) + 1] = f
  BY <1>1, Links, Typed
<1>6. TypeOK'
  <2>1. len[current] \in 0..MaxChunks /\ MaxChunks \in Nat
    BY <1>2, SessionAssumption DEF SessionInv, TypeOK
  <2>2. sent' \in 0..MaxChunks
    BY <1>2, <1>4, <2>1
  <2> QED BY <1>1, <1>3, <1>4, <1>5, <2>2 DEF connVars, history, SessionInv, TypeOK
<1>7. ToConnector'
  <2>1. Read' = Read /\ Read \in Nat
    BY <1>1, <1>2, Typed, Validator DEF connVars, Read
  <2>2. Written' = sent + 3
    <3>1. current' = current /\ cloudState'.handshake = "ready"
      BY <1>1, <1>3
    <3>2. CASE cloudState'.flow[current] = "request_body" /\ sent' = sent + 1
      <4>1. Written' = sent' + 2
        BY <1>2, <3>1, <3>2 DEF Written
      <4> QED BY <1>2, <3>2, <4>1
    <3>3. CASE cloudState'.flow[current] = "awaiting_response" /\ sent' = sent
      BY <1>2, <3>1, <3>3 DEF Written
    <3> QED BY <1>4, <3>2, <3>3
  <2>3. Len(toConn) = (sent + 2) - Read
    <3>1. Len(toConn) = Written - Read
      BY DEF SessionInv, ToConnector
    <3>2. Written = sent + 2
      BY <1>2
    <3> QED BY <3>1, <3>2
  <2>4. Len(toConn') = Written' - Read'
    BY <1>2, <1>5, <2>1, <2>2, <2>3
  <2>5. ASSUME NEW i \in 1..Len(toConn')
        PROVE  IsRequestFrame(toConn[i], Read + i - 1)'
    <3>1. CASE i \in 1..Len(toConn)
      <4>1. IsRequestFrame(toConn[i], Read + i - 1)
        BY <3>1 DEF SessionInv, ToConnector
      <4>2. Read + i - 1 < sent + 2 /\ Read + i - 1 \in Int
        BY <1>2, <2>1, <2>3, <3>1
      <4>3. toConn'[i] = toConn[i] /\ current' = current
        BY <1>1, <1>5, <3>1
      <4>4. sent' = sent \/ sent' = sent + 1
        BY <1>4
      <4> DEFINE k == Read + i - 1
      <4>5. k < sent + 2 /\ k \in Int /\ IsRequestFrame(toConn[i], k)
        BY <4>1, <4>2
      <4>6. Read' + i - 1 = k
        BY <2>1
      <4> HIDE DEF k
      <4>7. k # sent' + 2 /\ (k < sent' + 2 => k < sent + 2)
        BY <1>2, <4>4, <4>5
      <4> QED BY <4>3, <4>5, <4>6, <4>7 DEF IsRequestFrame
    <3>2. CASE ~(i \in 1..Len(toConn))
      <4>1. i = Len(toConn) + 1
        BY <1>5, <3>2
      <4>2. toConn'[i] = f /\ Read' + i - 1 = sent + 2
        BY <1>2, <1>5, <2>1, <2>3, <4>1
      <4>3. CASE f.type = "request_chunk"
        <5>1. sent' = sent + 1 /\ f.seq = (sent + 2) - 2
          BY <1>2, <1>4, <4>3
        <5> QED BY <1>1, <1>2, <4>2, <4>3, <5>1 DEF IsRequestFrame
      <4>4. CASE f.type = "request_end"
        <5>1. sent' = sent
          BY <1>4, <4>4
        <5> QED BY <1>1, <1>2, <4>2, <4>4, <5>1 DEF IsRequestFrame
      <4> QED BY <1>4, <4>3, <4>4
    <3> QED BY <3>1, <3>2
  <2> QED BY <2>4, <2>5 DEF ToConnector
<1>8. ToCloud'
  <2>1. toCloud = <<>>
    BY <1>1 DEF SessionInv, ToCloud
  <2> QED BY <1>1, <1>2, <1>4, <2>1 DEF ToCloud, connVars
<1>9. OneExchange'
  BY <1>1, <1>3, <1>4 DEF SessionInv, OneExchange, connVars
<1>10. CloudEnd'
  <2>1. Seen(cloudState') \ {current} = Seen(cloudState) \ {current}
    BY <1>3 DEF Seen
  <2>2. sent' <= len[current]
    BY <1>2, <1>4
  <2>3. result'[current] = "started" /\ received' = 0 /\ len' = len /\ current' = current
    BY <1>1, <1>2 DEF history
  <2>4. CASE cloud' = "request"
    <3>1. cloudState'.flow[current] = "request_body" /\ cloudState'.next[current] = sent'
      BY <1>4, <2>4
    <3> QED BY <1>2, <1>3, <2>1, <2>2, <2>3, <2>4, <3>1 DEF CloudEnd
  <2>5. CASE cloud' = "response"
    <3>1. cloudState'.flow[current] = "awaiting_response" /\ sent' = len[current]
      BY <1>4, <2>5
    <3> QED BY <1>2, <1>3, <2>1, <2>2, <2>3, <2>5, <3>1 DEF CloudEnd
  <2> QED BY <1>4, <2>4, <2>5
<1>11. ConnectorEnd'
  BY <1>1, Requesting DEF SessionInv, ConnectorEnd, connVars, history
<1>12. Once'
  BY <1>1, <1>3 DEF SessionInv, Once, connVars, history
<1>13. BodiesIntact'
  BY <1>1 DEF SessionInv, BodiesIntact, history
<1> QED BY <1>6, <1>7, <1>8, <1>9, <1>10, <1>11, <1>12, <1>13 DEF SessionInv

(* The response loop of execute_exchange takes the next frame of the       *)
(* answer; it is always the one expected.                                  *)
LEMMA ResponseStep == ASSUME SessionInv, ReceiveResponse PROVE SessionInv'
<1> DEFINE f == Head(toCloud)
<1>1. /\ cloud \in {"idle", "response"} /\ toCloud # <<>> /\ toCloud' = Tail(toCloud)
      /\ UNCHANGED <<current, sent, toConn, connVars, calls, session, len, executed, answer>>
  BY DEF ReceiveResponse
<1>2. cloud = "response"
  BY <1>1 DEF SessionInv, ToCloud
<1>3. Expected(f)
  BY <1>1, <1>2, CloudLegal
<1>4. /\ cloudState' = Observe(cloudState, f)
      /\ \/ f.type = "response_start" /\ UNCHANGED <<cloud, received, result>>
         \/ f.type = "response_chunk" /\ received' = received + 1 /\ UNCHANGED <<cloud, result>>
         \/ /\ f.type = "response_end" /\ cloud' = "idle"
            /\ result' = [result EXCEPT ![current] = "ok"] /\ UNCHANGED received
         \/ f.type = "request_failed" /\ CloudCloses("failed") /\ UNCHANGED received
  BY <1>3 DEF ReceiveResponse
<1>5. /\ current \in Requests /\ f \in Frames /\ f.id = current
      /\ toCloud' \in Seq(Frames) /\ Len(toCloud') = Len(toCloud) - 1
      /\ f.type \notin {"client_hello", "server_ready"}
  BY <1>1, <1>2, <1>4, CloudHead
<1>6. /\ cloudState' \in Validators /\ cloudState'.handshake = cloudState.handshake
      /\ cloudState'.flow[current] = Into[f.type]
      /\ cloudState'.next[current] = IF f.type \in Chunks THEN cloudState.next[current] + 1 ELSE 0
      /\ \A r \in Requests \ {current} : cloudState'.flow[r] = cloudState.flow[r]
  BY <1>4, <1>5, Observes, Typed
<1>7. /\ cloudState.handshake = "ready" /\ current # None /\ result[current] = "started"
      /\ cloudState.flow[current] \in {"awaiting_response", "response_body"}
      /\ sent = len[current] /\ Cardinality(Seen(cloudState) \ {current}) < MaxIds
      /\ sent <= len[current]
  BY <1>2 DEF SessionInv, CloudEnd
<1> HIDE DEF f
<1>8. CASE f.type = "request_failed"
  <2>1. cloudState.flow[current] = "awaiting_response"
    BY <1>1, <1>2, <1>8, CloudHead DEF f
  <2>2. CloudCloses("failed") /\ received' = received
    BY <1>4, <1>8
  <2>3. cloudState'.flow[current] = "over"
    BY <1>6, <1>8, Transitions
  <2> QED BY <1>1, <1>2, <1>5, <1>6, <2>1, <2>2, <2>3, CloudStops
<1>9. CASE f.type # "request_failed"
  <2>1. /\ connState.flow[current] \in {"response_body", "over"}
        /\ answer[current] \in Answers /\ answer[current].ok
        /\ answer[current].len \in 0..MaxChunks
        /\ replied <= answer[current].len /\ answering = current
        /\ Len(toCloud) = (IF connState.flow[current] = "over" THEN replied + 2
                           ELSE replied + 1) - Taken
        /\ connState.flow[current] = "over" => replied = answer[current].len
        /\ \A i \in 1..Len(toCloud') : IsResponseFrame(toCloud'[i], Taken + i)
    BY <1>1, <1>2, <1>9, CloudHead DEF f
  <2>2. \/ /\ f.type = "response_start"
           /\ cloudState.flow[current] = "awaiting_response"
           /\ Taken = 0 /\ received = 0
        \/ /\ f.type = "response_chunk"
           /\ cloudState.flow[current] = "response_body"
           /\ Taken = received + 1 /\ received < replied
           /\ cloudState.next[current] = received
        \/ /\ f.type = "response_end"
           /\ cloudState.flow[current] = "response_body"
           /\ connState.flow[current] = "over"
           /\ received = replied
           /\ toCloud' = <<>>
    BY <1>1, <1>2, <1>9, CloudHead DEF f
  <2>3. received \in Nat /\ replied \in Nat /\ sent \in Nat
    BY Typed
  <2>4. \/ /\ f.type \in {"response_start", "response_chunk"} /\ cloud' = "response"
           /\ result' = result /\ cloudState'.flow[current] = "response_body"
           /\ cloudState'.next[current] = received' /\ received' <= replied /\ received' \in Nat
           /\ Taken' = Taken + 1 /\ Taken \in Nat
        \/ /\ f.type = "response_end" /\ cloud' = "idle" /\ received' = received
           /\ received = replied /\ toCloud' = <<>>
           /\ result' = [result EXCEPT ![current] = "ok"]
           /\ connState.flow[current] = "over" /\ cloudState'.flow[current] = "over"
    <3>1. CASE f.type = "response_start"
      <4>1. f.type \notin Chunks
        BY <3>1 DEF Chunks
      <4>2. cloudState'.flow[current] = "response_body" /\ cloudState'.next[current] = 0
        BY <1>6, <3>1, <4>1, Transitions
      <4>3. received' = 0 /\ cloud' = "response" /\ result' = result
        BY <1>2, <1>4, <2>2, <3>1
      <4>4. Taken' = 0 + 1
        BY <1>1, <4>2, <4>3 DEF Taken
      <4> QED BY <2>2, <2>3, <3>1, <4>2, <4>3, <4>4
    <3>2. CASE f.type = "response_chunk"
      <4>1. f.type \in Chunks
        BY <3>2 DEF Chunks
      <4>2. cloudState'.flow[current] = "response_body"
        BY <1>6, <3>2, Transitions
      <4>3. cloudState'.next[current] = received + 1
        BY <1>6, <2>2, <3>2, <4>1
      <4>4. received' = received + 1 /\ cloud' = "response" /\ result' = result
        BY <1>2, <1>4, <3>2
      <4>5. Taken' = received' + 1
        BY <1>1, <4>2 DEF Taken
      <4> QED BY <2>2, <2>3, <3>2, <4>2, <4>3, <4>4, <4>5
    <3>3. CASE f.type = "response_end"
      <4>1. cloudState'.flow[current] = "over"
        BY <1>6, <3>3, Transitions
      <4> QED BY <1>4, <2>2, <3>3, <4>1
    <3> QED BY <2>2, <3>1, <3>2, <3>3
  <2>5. /\ result' \in [Requests -> {"none", "started", "ok", "failed", "timeout"}]
        /\ \A r \in Requests \ {current} : result'[r] = result[r]
        /\ result'[current] = IF cloud' = "idle" THEN "ok" ELSE "started"
    <3>1. result \in [Requests -> {"none", "started", "ok", "failed", "timeout"}]
      BY DEF SessionInv, TypeOK
    <3> QED BY <1>5, <1>7, <2>4, <3>1
  <2>6. TypeOK'
    <3>1. received' \in 0..MaxChunks
      <4>1. received' \in Nat /\ received' <= replied
        BY <2>3, <2>4
      <4>2. replied \in 0..MaxChunks /\ MaxChunks \in Nat
        BY SessionAssumption DEF SessionInv, TypeOK
      <4> QED BY <4>1, <4>2
    <3> QED BY <1>1, <1>5, <1>6, <2>4, <2>5, <3>1 DEF connVars, SessionInv, TypeOK
  <2>7. ToConnector'
    <3>1. Read' = Read
      BY <1>1 DEF connVars, Read
    <3>2. Written = sent + 3
      BY <1>7 DEF Written
    <3>3. Written' = sent + 3
      <4>1. cloudState'.flow[current] \in {"response_body", "over"}
        BY <2>4
      <4> QED BY <1>1, <1>6, <1>7, <4>1 DEF Written
    <3> QED BY <1>1, <3>1, <3>2, <3>3 DEF SessionInv, ToConnector, IsRequestFrame
  <2>8. ToCloud'
    <3>1. CASE cloud' = "idle"
      BY <2>4, <3>1 DEF ToCloud
    <3>2. CASE cloud' = "response"
      <4>1. Taken' = Taken + 1 /\ Taken \in Nat
        BY <2>4, <3>2
      <4>2. PICK n \in {replied + 1, replied + 2} :
               /\ n = IF connState.flow[current] = "over" THEN replied + 2 ELSE replied + 1
               /\ Len(toCloud) = n - Taken
        BY <2>1
      <4>3. Len(toCloud') = n - Taken' /\ Len(toCloud') \in Nat
        BY <1>5, <2>3, <4>1, <4>2, Links
      <4>4. \A i \in 1..Len(toCloud') : Taken' + i - 1 = Taken + i
        BY <4>1
      <4>5. \A i \in 1..Len(toCloud') : IsResponseFrame(toCloud[i], Taken + i - 1)'
        BY <1>1, <2>1, <4>4 DEF IsResponseFrame, connVars
      <4>6. /\ answering' = current' /\ answer'[current'] \in Answers /\ answer'[current'].ok
            /\ replied' <= answer'[current'].len /\ replied' = replied
            /\ connState' = connState /\ current' = current
            /\ connState.flow[current] = "over" => replied' = answer'[current'].len
        BY <1>1, <2>1 DEF connVars
      <4>7. CASE connState.flow[current] = "over"
        BY <3>2, <4>2, <4>3, <4>5, <4>6, <4>7 DEF ToCloud, Replying
      <4>8. CASE connState.flow[current] = "response_body"
        BY <3>2, <4>2, <4>3, <4>5, <4>6, <4>8 DEF ToCloud, Replying
      <4> QED BY <2>1, <4>7, <4>8
    <3> QED BY <2>4, <3>1, <3>2
  <2>9. OneExchange'
    BY <1>1, <1>6, <2>4 DEF SessionInv, OneExchange, connVars
  <2>10. CloudEnd'
    <3>1. Seen(cloudState') \ {current} = Seen(cloudState) \ {current}
      BY <1>6 DEF Seen
    <3>2. CASE cloud' = "response"
      <4>1. cloudState'.flow[current] = "response_body" /\ cloudState'.next[current] = received'
        BY <2>4, <3>2
      <4> QED BY <1>1, <1>6, <1>7, <2>5, <3>1, <3>2, <4>1 DEF CloudEnd
    <3>3. CASE cloud' = "idle"
      <4>1. connState.flow[current] = "over" /\ cloudState'.flow[current] = "over"
        BY <2>4, <3>3
      <4>2. \A r \in Requests : connState.flow[r] = cloudState'.flow[r]
        BY <1>6, <4>1 DEF SessionInv, OneExchange
      <4>3. connState.flow = cloudState'.flow
        BY <1>6, <4>2, Typed, Validator
      <4> QED BY <1>1, <1>6, <1>7, <3>1, <3>3, <4>1, <4>3 DEF CloudEnd, connVars
    <3> QED BY <2>4, <3>2, <3>3
  <2>11. ConnectorEnd'
    BY <1>1, <1>2, <2>4 DEF SessionInv, ConnectorEnd, connVars
  <2>12. Once'
    <3>1. \A r \in Requests : result'[r] = "none" => r # current /\ result[r] = "none"
      BY <2>5
    <3>2. \A c \in calls : c[1] \in Requests /\ (result'[c[1]] = "none" => result[c[1]] = "none")
      BY <2>5 DEF SessionInv, TypeOK
    <3> QED BY <1>1, <1>6, <3>1, <3>2 DEF SessionInv, Once, connVars
  <2>13. BodiesIntact'
    <3>1. \A q \in Requests : executed'[q] # None => executed'[q] = len'[q]
      BY <1>1 DEF SessionInv, BodiesIntact
    <3>2. CASE cloud' = "response"
      BY <1>1, <2>5, <3>1, <3>2 DEF BodiesIntact
    <3>3. CASE cloud' = "idle"
      <4>1. received' = answer[current].len
        BY <2>1, <2>4, <3>3
      <4> QED BY <1>1, <2>1, <3>1, <4>1, SessionAssumption DEF BodiesIntact
    <3> QED BY <2>4, <3>2, <3>3
  <2> QED BY <2>6, <2>7, <2>8, <2>9, <2>10, <2>11, <2>12, <2>13 DEF SessionInv
<1> QED BY <1>8, <1>9

(* server_ready arrives.                                                   *)
LEMMA ConnectorReadyStep == ASSUME SessionInv, ReceiveReady PROVE SessionInv'
<1>1. /\ conn = "hello" /\ toConn # <<>> /\ connState' = Observe(connState, Head(toConn))
      /\ toConn' = Tail(toConn) /\ conn' = "serving"
      /\ UNCHANGED <<cloudVars, toCloud, pending, rejected, active, ready, answering,
                     replied, calls, session, history>>
  BY DEF ReceiveReady
<1>2. /\ connState.handshake = "awaiting_ready" /\ \A q \in Requests : connState.flow[q] = "none"
      /\ session > 0
  BY <1>1 DEF SessionInv, ConnectorEnd
<1>3. Read = 0
  BY <1>2 DEF Read
<1>4. /\ Len(toConn) \in Nat /\ Len(toConn) > 0 /\ Head(toConn) = toConn[1]
      /\ toConn' \in Seq(Frames) /\ Len(toConn') = Len(toConn) - 1
      /\ \A i \in 1..Len(toConn') : toConn'[i] = toConn[i + 1]
  BY <1>1, Links, Typed
<1>5. Len(toConn) = Written - 0 /\ \A i \in 1..Len(toConn) : IsRequestFrame(toConn[i], i - 1)
  BY <1>3 DEF SessionInv, ToConnector
<1>6. Head(toConn).type = "server_ready"
  <2>1. IsRequestFrame(Head(toConn), 0)
    BY <1>4, <1>5
  <2> QED BY <2>1 DEF IsRequestFrame
<1>7. connState' = [connState EXCEPT !.handshake = "ready"]
  BY <1>1, <1>6 DEF Observe
<1>8. /\ connState' \in Validators /\ connState'.handshake = "ready"
      /\ connState'.flow = connState.flow /\ connState'.next = connState.next
  BY <1>7, Typed DEF Validators
<1>9. TypeOK'
  BY <1>1, <1>4, <1>8 DEF SessionInv, TypeOK, cloudVars, history
<1>10. ToConnector'
  <2>1. Read' = 1 /\ Written' = Written
    BY <1>1, <1>2, <1>8, Typed DEF Read, Written, cloudVars
  <2>2. Written \in Nat
    BY Typed DEF Written
  <2>3. Len(toConn') = Written' - Read'
    BY <1>4, <1>5, <2>1, <2>2
  <2>4. ASSUME NEW i \in 1..Len(toConn')
        PROVE  IsRequestFrame(toConn[i], Read + i - 1)'
    <3>1. i + 1 \in 1..Len(toConn) /\ (i + 1) - 1 = i /\ Read' + i - 1 = i
      BY <1>4, <2>1
    <3>2. IsRequestFrame(toConn[i + 1], i) /\ toConn'[i] = toConn[i + 1]
      BY <1>4, <1>5, <3>1
    <3> QED BY <1>1, <3>1, <3>2 DEF IsRequestFrame, cloudVars
  <2> QED BY <2>3, <2>4 DEF ToConnector
<1>11. ToCloud'
  BY <1>1, <1>8 DEF SessionInv, ToCloud, Replying, Taken, IsResponseFrame, cloudVars, history
<1>12. CloudEnd' /\ OneExchange'
  BY <1>1, <1>8 DEF SessionInv, CloudEnd, OneExchange, Seen, cloudVars, history
<1>13. ConnectorEnd'
  BY <1>1, <1>2, <1>8 DEF SessionInv, ConnectorEnd, cloudVars, history
<1>14. Once' /\ BodiesIntact'
  BY <1>1, <1>8 DEF SessionInv, Once, BodiesIntact, cloudVars, history
<1> QED BY <1>9, <1>10, <1>11, <1>12, <1>13, <1>14 DEF SessionInv

(* While the connector reads a request the Cloud's end is at that exchange *)
(* and has nothing on the way to it.                                       *)
LEMMA Reading ==
    ASSUME SessionInv, conn = "serving", toConn # <<>>
    PROVE  /\ cloud \notin {"none", "hello", "idle"}
           /\ connState.handshake = "ready"
           /\ connState.flow[current] \in {"none", "request_body"}
           /\ active = {} /\ ready = {} /\ \A c \in calls : c[1] # current
           /\ answer[current] = None /\ executed[current] = None /\ result[current] # "none"
           /\ cloud = "response" => /\ toCloud = <<>>
                                    /\ cloudState.flow[current] = "awaiting_response"
           /\ cloudState.flow[current] # "request_body" => sent = len[current] /\ cloud # "request"
           /\ DOMAIN pending = IF connState.flow[current] = "none" THEN {} ELSE {current}
           /\ session \in Nat /\ session > 0
<1>1. connState.handshake = "ready" /\ session > 0 /\ session \in Nat
  BY SessionAssumption DEF SessionInv, ConnectorEnd, TypeOK
<1>2. /\ current \in Requests /\ cloudState.handshake = "ready"
      /\ cloudState.flow[current] # "none" /\ current # None
      /\ connState.flow[current] \in {"none", "request_body"}
  BY <1>1, ConnectorHead, Typed
<1>3. cloud \notin {"none", "hello", "idle"}
  <2>1. cloud \notin {"none", "hello"}
    BY <1>2 DEF SessionInv, CloudEnd
  <2>2. cloud # "idle"
    <3> SUFFICES ASSUME cloud = "idle" PROVE FALSE
      OBVIOUS
    <3>1. connState.flow[current] = cloudState.flow[current] /\ cloudState.flow[current] \in {"none", "over"}
      BY <1>2, Between
    <3> QED BY <1>2, <3>1
  <2> QED BY <2>1, <2>2
<1>4. active = {} /\ ready = {}
  BY <1>2 DEF SessionInv, ConnectorEnd, TypeOK
<1>5. /\ \A c \in calls : c[1] # current
      /\ answer[current] = None /\ executed[current] = None /\ result[current] # "none"
  BY <1>2 DEF SessionInv, Once
<1>6. cloud = "response" => toCloud = <<>> /\ cloudState.flow[current] = "awaiting_response"
  BY <1>2 DEF SessionInv, ToCloud
<1>7. cloudState.flow[current] # "request_body" => sent = len[current] /\ cloud # "request"
  BY <1>2 DEF SessionInv, CloudEnd
<1>8. DOMAIN pending = IF connState.flow[current] = "none" THEN {} ELSE {current}
  <2>1. DOMAIN pending = {q \in Requests : connState.flow[q] = "request_body"}
    BY DEF SessionInv, ConnectorEnd
  <2>2. \A q \in Requests \ {current} : connState.flow[q] # "request_body"
    BY DEF SessionInv, OneExchange
  <2> QED BY <1>2, <2>1, <2>2
<1> QED BY <1>1, <1>2, <1>3, <1>4, <1>5, <1>6, <1>7, <1>8

(* The connector moves on in the current exchange: what is said of the     *)
(* Cloud's end stays true.                                                 *)
LEMMA CloudUntouched ==
    ASSUME SessionInv, UNCHANGED <<cloudVars, len, result>>, cloud # "idle",
           \A r \in Requests \ {current} : connState'.flow[r] = connState.flow[r]
    PROVE  CloudEnd' /\ OneExchange'
BY DEF SessionInv, CloudEnd, OneExchange, Seen, cloudVars

(* The connector takes one frame.                                          *)
LEMMA FrameTaken ==
    ASSUME SessionInv, connState.handshake = "ready", toConn # <<>>, toConn' = Tail(toConn),
           UNCHANGED cloudVars, Read' = Read + 1
    PROVE  ToConnector' /\ toConn' \in Seq(Frames)
<1>1. /\ toConn' \in Seq(Frames) /\ Len(toConn') = Written - (Read + 1)
      /\ \A i \in 1..Len(toConn') : IsRequestFrame(toConn'[i], Read + i)
  BY ConnectorHead
<1>2. Read \in Nat
  BY Typed, Validator DEF Read
<1>3. Written' = Written
  BY DEF Written, cloudVars
<1>4. Len(toConn') = Written' - Read'
  BY <1>1, <1>3
<1>5. \A i \in 1..Len(toConn') : Read' + i - 1 = Read + i
  BY <1>2
<1>6. \A i \in 1..Len(toConn') : IsRequestFrame(toConn[i], Read + i - 1)'
  BY <1>1, <1>5 DEF IsRequestFrame, cloudVars
<1> QED BY <1>1, <1>4, <1>6 DEF ToConnector

(* Nothing is on the way to the Cloud and nothing is put there.            *)
LEMMA StillSilent ==
    ASSUME SessionInv, conn = "serving", toConn # <<>>, UNCHANGED <<cloudVars, toCloud>>,
           connState'.flow[current] \in {"none", "request_body", "awaiting_response"}
    PROVE  ToCloud'
BY Reading DEF SessionInv, ToCloud, cloudVars

(* run_session takes a request_start or a chunk of the body.               *)
LEMMA BodyStep == ASSUME SessionInv, ReceiveStart \/ ReceiveChunk PROVE SessionInv'
<1> DEFINE f == Head(toConn)
<1>1. /\ conn = "serving" /\ toConn # <<>> /\ toConn' = Tail(toConn)
      /\ connState' = Observe(connState, f)
      /\ UNCHANGED <<cloudVars, answering, replied, session, len, answer, result,
                     conn, toCloud, active, ready, calls, executed>>
  BY DEF ReceiveStart, ReceiveChunk, Incoming
<1>2. /\ connState.handshake = "ready" /\ connState.flow[current] \in {"none", "request_body"}
      /\ active = {} /\ cloud # "idle" /\ session > 0
      /\ DOMAIN pending = IF connState.flow[current] = "none" THEN {} ELSE {current}
  BY <1>1, Reading
<1>3. /\ current \in Requests /\ f \in Frames /\ f.id = current
      /\ \/ ReceiveStart /\ f.type = "request_start" /\ connState.flow[current] = "none"
         \/ /\ ReceiveChunk /\ f.type = "request_chunk"
            /\ connState.flow[current] = "request_body"
  <2>1. ReceiveStart => f.type = "request_start"
    BY DEF ReceiveStart, Incoming
  <2>2. ReceiveChunk => f.type = "request_chunk"
    BY DEF ReceiveChunk, Incoming
  <2> QED BY <1>1, <1>2, <2>1, <2>2, ConnectorHead
<1>4. f.type \notin {"client_hello", "server_ready"}
  BY <1>3
<1> HIDE DEF f
<1>5. /\ connState' \in Validators /\ connState'.handshake = "ready"
      /\ connState'.flow[current] = "request_body"
      /\ connState'.next[current] = IF f.type \in Chunks THEN connState.next[current] + 1 ELSE 0
      /\ \A r \in Requests \ {current} : /\ connState'.flow[r] = connState.flow[r]
                                         /\ connState'.next[r] = connState.next[r]
  <2>1. Into[f.type] = "request_body"
    BY <1>3, Transitions
  <2> QED BY <1>1, <1>2, <1>3, <1>4, <2>1, Observes, Typed
<1>6. /\ DOMAIN pending' = {current} /\ pending'[current] = connState'.next[current]
      /\ rejected' \subseteq {current}
      /\ connState'.next[current] = IF connState.flow[current] = "none" THEN 0
                                    ELSE connState.next[current] + 1
  <2>1. rejected \subseteq DOMAIN pending
    BY DEF SessionInv, TypeOK
  <2>2. CASE ReceiveStart /\ f.type = "request_start" /\ connState.flow[current] = "none"
    <3>1. f.type \notin Chunks
      BY <2>2 DEF Chunks
    <3>2. /\ pending' = [r \in DOMAIN pending \cup {current} |->
                            IF r = current THEN 0 ELSE pending[r]]
          /\ rejected' \subseteq rejected \cup {current}
      BY <1>3, <2>2 DEF ReceiveStart, f
    <3> QED BY <1>2, <1>5, <2>1, <2>2, <3>1, <3>2
  <2>3. CASE ReceiveChunk /\ f.type = "request_chunk" /\ connState.flow[current] = "request_body"
    <3>1. f.type \in Chunks
      BY <2>3 DEF Chunks
    <3>2. pending' = [pending EXCEPT ![current] = @ + 1] /\ rejected' = rejected
      BY <1>3, <2>3 DEF ReceiveChunk, f
    <3>3. pending[current] = connState.next[current]
      BY <1>2, <2>3 DEF SessionInv, ConnectorEnd
    <3>4. DOMAIN pending = {current}
      BY <1>2, <2>3
    <3>5. DOMAIN pending' = {current} /\ pending'[current] = pending[current] + 1
      BY <3>2, <3>4
    <3> QED BY <1>5, <2>1, <2>3, <3>1, <3>2, <3>3, <3>4, <3>5
  <2> QED BY <1>3, <2>2, <2>3
<1>7. Read' = Read + 1
  <2>1. current # None /\ current' = current
    BY <1>1, <1>3, Typed DEF cloudVars
  <2>2. Read' = connState'.next[current] + 2
    BY <1>5, <2>1 DEF Read
  <2>3. Read = IF connState.flow[current] = "none" THEN 1 ELSE connState.next[current] + 2
    BY <1>2, <2>1 DEF Read
  <2>4. connState.next[current] \in Nat
    BY <1>3, Typed, Validator
  <2>5. CASE connState.flow[current] = "none"
    BY <1>6, <2>2, <2>3, <2>5
  <2>6. CASE connState.flow[current] # "none"
    BY <1>6, <2>2, <2>3, <2>4, <2>6
  <2> QED BY <2>5, <2>6
<1>8. ToConnector' /\ toConn' \in Seq(Frames)
  BY <1>1, <1>2, <1>7, FrameTaken
<1>9. TypeOK'
  BY <1>1, <1>3, <1>5, <1>6, <1>8 DEF SessionInv, TypeOK, cloudVars
<1>10. ToCloud'
  BY <1>1, <1>5, StillSilent
<1>11. CloudEnd' /\ OneExchange'
  BY <1>1, <1>2, <1>5, CloudUntouched
<1>12. ConnectorEnd'
  <2>1. {q \in Requests : connState'.flow[q] = "request_body"} = {current}
    <3>1. \A q \in Requests \ {current} : connState.flow[q] # "request_body"
      BY DEF SessionInv, OneExchange
    <3> QED BY <1>3, <1>5, <3>1
  <2>2. active' = {} /\ ready' = {} /\ conn' = "serving" /\ session' > 0
    BY <1>1, <1>2 DEF SessionInv, TypeOK
  <2> QED BY <1>5, <1>6, <2>1, <2>2 DEF ConnectorEnd
<1>13. Once'
  BY <1>1, <1>2, <1>5 DEF SessionInv, Once, cloudVars
<1>14. BodiesIntact'
  BY <1>1 DEF SessionInv, BodiesIntact, cloudVars
<1> QED BY <1>8, <1>9, <1>10, <1>11, <1>12, <1>13, <1>14 DEF SessionInv

(* The frame that ends a request, and what was counted by then.            *)
LEMMA EndRead ==
    ASSUME SessionInv, Incoming("request_end")
    PROVE  /\ conn = "serving" /\ toConn # <<>> /\ toConn' = Tail(toConn)
           /\ Head(toConn).type = "request_end" /\ Head(toConn).id = current
           /\ Head(toConn) \in Frames /\ current \in Requests /\ current # None
           /\ connState.handshake = "ready" /\ connState.flow[current] = "request_body"
           /\ DOMAIN pending = {current} /\ pending[current] = len[current]
           /\ DOMAIN Without(pending, current) = {} /\ Read + 1 = sent + 3
           /\ cloud \notin {"none", "hello", "idle", "request"}
<1>1. /\ conn = "serving" /\ toConn # <<>> /\ toConn' = Tail(toConn)
      /\ Head(toConn).type = "request_end"
  BY DEF Incoming
<1>2. connState.handshake = "ready"
  BY <1>1, Reading
<1>3. /\ current \in Requests /\ Head(toConn) \in Frames /\ Head(toConn).id = current
      /\ connState.flow[current] = "request_body" /\ connState.next[current] = sent
      /\ cloudState.flow[current] # "request_body" /\ current # None
  BY <1>1, <1>2, ConnectorHead, Typed
<1>4. DOMAIN pending = {current} /\ sent = len[current] /\ cloud \notin {"none", "hello", "idle", "request"}
  BY <1>1, <1>3, Reading
<1>5. pending[current] = len[current]
  BY <1>3, <1>4 DEF SessionInv, ConnectorEnd
<1>6. Read = sent + 2 /\ sent \in Nat
  BY <1>2, <1>3, Typed DEF Read
<1> QED BY <1>1, <1>2, <1>3, <1>4, <1>5, <1>6 DEF Without

(* A complete request is handed to the local server, whole.                *)
LEMMA HandOverStep == ASSUME SessionInv, ReceiveEnd PROVE SessionInv'
<1> DEFINE f == Head(toConn)
<1>1. /\ Incoming("request_end") /\ connState' = Observe(connState, f)
      /\ pending' = Without(pending, f.id) /\ active' = active \cup {f.id}
      /\ calls' = calls \cup {<<f.id, session>>}
      /\ executed' = [executed EXCEPT ![f.id] = pending[f.id]]
      /\ f.id \notin rejected
      /\ UNCHANGED <<cloudVars, answering, replied, session, len, answer, result,
                     conn, toCloud, rejected, ready>>
  BY DEF ReceiveEnd, Incoming
<1>2. /\ conn = "serving" /\ toConn # <<>> /\ toConn' = Tail(toConn)
      /\ f.type = "request_end" /\ f.id = current
      /\ f \in Frames /\ current \in Requests /\ current # None
      /\ connState.handshake = "ready" /\ connState.flow[current] = "request_body"
      /\ DOMAIN pending = {current} /\ pending[current] = len[current]
      /\ DOMAIN Without(pending, current) = {} /\ Read + 1 = sent + 3
      /\ cloud \notin {"none", "hello", "idle", "request"}
  BY <1>1, EndRead
<1>3. /\ active = {} /\ ready = {} /\ session \in Nat /\ session > 0
      /\ (\A c \in calls : c[1] # current) /\ answer[current] = None /\ result[current] # "none"
  BY <1>2, Reading
<1> HIDE DEF f
<1>4. /\ connState' \in Validators /\ connState'.handshake = "ready"
      /\ connState'.flow[current] = "awaiting_response"
      /\ \A r \in Requests \ {current} : connState'.flow[r] = connState.flow[r]
  <2>1. f.type \notin {"client_hello", "server_ready"} /\ Into[f.type] = "awaiting_response"
    BY <1>2, Transitions
  <2> QED BY <1>1, <1>2, <2>1, Observes, Typed
<1>5. Read' = Read + 1
  <2>1. Read' = sent + 3
    BY <1>1, <1>2, <1>4 DEF Read, cloudVars
  <2> QED BY <1>2, <2>1
<1>6. ToConnector' /\ toConn' \in Seq(Frames)
  BY <1>1, <1>2, <1>5, FrameTaken
<1>7. /\ active' = {current} /\ DOMAIN pending' = {} /\ rejected' = {} /\ ready' = {}
      /\ calls' = calls \cup {<<current, session>>}
  <2>1. rejected \subseteq {current} /\ current \notin rejected
    BY <1>1, <1>2 DEF SessionInv, TypeOK
  <2> QED BY <1>1, <1>2, <1>3, <2>1
<1>8. /\ executed'[current] = len[current] /\ len[current] \in 0..MaxChunks
      /\ \A r \in Requests \ {current} : executed'[r] = executed[r]
      /\ executed' \in [Requests -> 0..MaxChunks \cup {None}]
  <2>1. executed \in [Requests -> 0..MaxChunks \cup {None}] /\ len[current] \in 0..MaxChunks
    BY <1>2 DEF SessionInv, TypeOK
  <2>2. executed' = [executed EXCEPT ![current] = len[current]]
    BY <1>1, <1>2
  <2> QED BY <1>2, <2>1, <2>2
<1>9. TypeOK'
  <2>1. Cardinality({current}) = 1
    BY FS_Singleton
  <2>2. MaxInFlight \in Nat \ {0}
    BY SessionAssumption
  <2>3. Cardinality(active') <= MaxInFlight
    BY <1>7, <2>1, <2>2
  <2>4. <<current, session>> \in Requests \X (1..MaxSessions)
    BY <1>2, <1>3 DEF SessionInv, TypeOK
  <2> QED BY <1>1, <1>2, <1>4, <1>6, <1>7, <1>8, <2>3, <2>4 DEF SessionInv, TypeOK, cloudVars
<1>10. ToCloud'
  BY <1>1, <1>2, <1>4, StillSilent
<1>11. CloudEnd' /\ OneExchange'
  BY <1>1, <1>2, <1>4, CloudUntouched
<1>12. ConnectorEnd'
  <2>1. {q \in Requests : connState'.flow[q] = "request_body"} = {}
    <3>1. \A q \in Requests \ {current} : connState.flow[q] # "request_body"
      BY DEF SessionInv, OneExchange
    <3> QED BY <1>2, <1>4, <3>1
  <2>2. current' = current /\ conn' = "serving" /\ session' > 0
    BY <1>1, <1>2, <1>3 DEF cloudVars
  <2> QED BY <1>4, <1>7, <2>1, <2>2 DEF ConnectorEnd
<1>13. Once'
  <2>1. current' = current /\ UNCHANGED <<answer, result, session, cloudState>>
    BY <1>1 DEF cloudVars
  <2>2. \A q \in Requests : result[q] = "none" =>
           /\ cloudState.flow[q] = "none" /\ connState.flow[q] = "none"
           /\ q # current /\ executed[q] = None /\ answer[q] = None
           /\ \A c \in calls : c[1] # q
    BY DEF SessionInv, Once
  <2>3. \A c \in calls' : \/ c \in calls /\ c[1] # current
                          \/ c = <<current, session>> /\ c[1] = current /\ c[2] = session
    BY <1>3, <1>7
  <2>4. \A q \in Requests : result[q] = "none" =>
           /\ connState'.flow[q] = "none" /\ executed'[q] = None
           /\ \A c \in calls' : c[1] # q
    BY <1>4, <1>8, <2>2, <2>3
  <2>5. \A c \in calls' :
          /\ answer[c[1]] = None
          /\ c[2] <= session
          /\ c[2] = session => c[1] \in active' \ ready'
          /\ result[c[1]] # "none"
    BY <1>3, <1>7, <2>3 DEF SessionInv, Once
  <2>6. \A c, d \in calls' : c[1] = d[1] => c = d
    BY <2>3 DEF SessionInv, Once
  <2> QED BY <1>4, <2>1, <2>2, <2>4, <2>5, <2>6 DEF Once
<1>14. BodiesIntact'
  BY <1>1, <1>8 DEF SessionInv, BodiesIntact, cloudVars
<1> QED BY <1>6, <1>9, <1>10, <1>11, <1>12, <1>13, <1>14 DEF SessionInv

(* The request's end is read and a failure is answered in the same step.   *)
LEMMA RefuseStep == ASSUME SessionInv, Refuse PROVE SessionInv'
<1> DEFINE f == Head(toConn)
           v == Observe(connState, f)
           g == Frame("request_failed", current)
<1>1. /\ Incoming("request_end") /\ connState' = Observe(v, Frame("request_failed", f.id))
      /\ toCloud' = Append(toCloud, Frame("request_failed", f.id))
      /\ pending' = Without(pending, f.id) /\ rejected' = rejected \ {f.id}
      /\ UNCHANGED <<cloudVars, answering, replied, session, len, answer, result,
                     conn, active, ready, calls, executed>>
  BY DEF Refuse, Incoming
<1>2. /\ conn = "serving" /\ toConn # <<>> /\ toConn' = Tail(toConn)
      /\ f.type = "request_end" /\ f.id = current
      /\ f \in Frames /\ current \in Requests /\ current # None
      /\ connState.handshake = "ready" /\ connState.flow[current] = "request_body"
      /\ DOMAIN pending = {current}
      /\ DOMAIN Without(pending, current) = {} /\ Read + 1 = sent + 3
      /\ cloud \notin {"none", "hello", "idle", "request"}
  BY <1>1, EndRead
<1>3. /\ active = {} /\ ready = {} /\ session > 0
      /\ cloud = "response" => toCloud = <<>> /\ cloudState.flow[current] = "awaiting_response"
  BY <1>2, Reading
<1>4. /\ g \in Frames /\ g.type = "request_failed" /\ g.id = current
      /\ g.type \notin {"client_hello", "server_ready"}
  BY <1>2, FrameFields DEF Controls
<1> HIDE DEF f, g
<1>5. /\ v \in Validators /\ v.handshake = "ready"
      /\ \A r \in Requests \ {current} : v.flow[r] = connState.flow[r]
  BY <1>2, Observes, Typed
<1>6. /\ connState' = Observe(v, g) /\ toCloud' = Append(toCloud, g)
      /\ DOMAIN pending' = {} /\ rejected' = {}
  <2>1. rejected \subseteq {current}
    BY <1>2 DEF SessionInv, TypeOK
  <2> QED BY <1>1, <1>2, <2>1 DEF g
<1> HIDE DEF v
<1>7. /\ connState' \in Validators /\ connState'.handshake = "ready"
      /\ connState'.flow[current] = "over"
      /\ \A r \in Requests \ {current} : connState'.flow[r] = connState.flow[r]
  BY <1>2, <1>4, <1>5, <1>6, Observes, Transitions
<1>8. Read' = Read + 1
  <2>1. Read' = sent + 3
    BY <1>1, <1>2, <1>7 DEF Read, cloudVars
  <2> QED BY <1>2, <2>1
<1>9. ToConnector' /\ toConn' \in Seq(Frames)
  BY <1>1, <1>2, <1>8, FrameTaken
<1>10. toCloud' \in Seq(Frames) /\ (cloud = "response" => toCloud' = <<g>>)
  <2>1. toCloud' \in Seq(Frames)
    BY <1>4, <1>6, Typed, Links
  <2>2. Append(<<>>, g) = <<g>>
    OBVIOUS
  <2> QED BY <1>3, <1>6, <2>1, <2>2
<1>11. TypeOK'
  BY <1>1, <1>6, <1>7, <1>9, <1>10 DEF SessionInv, TypeOK, cloudVars
<1>12. ToCloud'
  BY <1>1, <1>2, <1>3, <1>7, <1>10 DEF SessionInv, ToCloud, cloudVars, g
<1>13. CloudEnd' /\ OneExchange'
  BY <1>1, <1>2, <1>7, CloudUntouched
<1>14. ConnectorEnd'
  <2>1. {q \in Requests : connState'.flow[q] = "request_body"} = {}
    <3>1. \A q \in Requests \ {current} : connState.flow[q] # "request_body"
      BY DEF SessionInv, OneExchange
    <3> QED BY <1>2, <1>7, <3>1
  <2>2. /\ conn' = "serving" /\ session' > 0 /\ active' = {} /\ ready' = {}
    BY <1>1, <1>2, <1>3
  <2> QED BY <1>6, <1>7, <2>1, <2>2 DEF ConnectorEnd
<1>15. Once'
  BY <1>1, <1>2, <1>3, <1>7 DEF SessionInv, Once, cloudVars
<1>16. BodiesIntact'
  BY <1>1 DEF SessionInv, BodiesIntact, cloudVars
<1> QED BY <1>9, <1>11, <1>12, <1>13, <1>14, <1>15, <1>16 DEF SessionInv

(* Once a request has been read, the Cloud's end is waiting for its answer *)
(* or gone, and nothing more is sent to the connector.                     *)
LEMMA Answering ==
    ASSUME SessionInv, current # None,
           connState.flow[current] \in {"awaiting_response", "response_body"}
    PROVE  /\ connState.handshake = "ready" /\ cloud \in {"response", "closed"}
           /\ current \in Requests /\ Read = sent + 3
           /\ DOMAIN pending = {}
           /\ connState.flow[current] = "awaiting_response" /\ cloud = "response" =>
                 toCloud = <<>> /\ cloudState.flow[current] = "awaiting_response"
           /\ connState.flow[current] = "response_body" /\ cloud = "response" =>
                 Replying(replied + 1)
           /\ result[current] # "none"
<1>1. connState.handshake = "ready" /\ current \in Requests
  BY Typed DEF SessionInv, ConnectorEnd
<1>2. Read = sent + 3
  BY <1>1 DEF Read
<1>3. cloud \notin {"none", "hello"}
  BY DEF SessionInv, CloudEnd
<1>4. cloud # "idle"
  BY <1>1, Between
<1>5. cloud # "request"
  BY <1>1, Requesting
<1>6. DOMAIN pending = {}
  <2>1. \A q \in Requests : connState.flow[q] # "request_body"
    BY DEF SessionInv, OneExchange
  <2> QED BY <2>1 DEF SessionInv, ConnectorEnd
<1>7. result[current] # "none"
  BY <1>1 DEF SessionInv, Once
<1>8. connState.flow[current] = "awaiting_response" /\ cloud = "response" =>
         toCloud = <<>> /\ cloudState.flow[current] = "awaiting_response"
  BY DEF SessionInv, ToCloud
<1>9. connState.flow[current] = "response_body" /\ cloud = "response" => Replying(replied + 1)
  BY DEF SessionInv, ToCloud
<1>10. cloud \in {"response", "closed"}
  BY <1>3, <1>4, <1>5 DEF SessionInv, TypeOK
<1> QED BY <1>1, <1>2, <1>6, <1>7, <1>8, <1>9, <1>10

(* What a frame of the answer leaves as it was.                            *)
LEMMA AnswerKeeps ==
    ASSUME SessionInv, current # None,
           connState.flow[current] \in {"awaiting_response", "response_body"},
           connState'.handshake = "ready",
           connState'.flow[current] \notin {"none", "request_body"},
           \A r \in Requests \ {current} : connState'.flow[r] = connState.flow[r],
           UNCHANGED <<cloudVars, toConn, pending, calls, session, history>>
    PROVE  /\ ToConnector' /\ CloudEnd' /\ OneExchange' /\ BodiesIntact'
           /\ DOMAIN pending' = {q \in Requests : connState'.flow[q] = "request_body"}
           /\ DOMAIN pending' = {}
           /\ (\A c \in calls : c[2] = session => c[1] \in active' \ ready') => Once'
<1>1. /\ connState.handshake = "ready" /\ cloud \in {"response", "closed"}
      /\ current \in Requests /\ Read = sent + 3 /\ DOMAIN pending = {}
      /\ result[current] # "none"
  BY Answering
<1>2. Read' = Read
  BY <1>1 DEF Read, cloudVars
<1>3. ToConnector'
  BY <1>2 DEF SessionInv, ToConnector, Written, IsRequestFrame, cloudVars
<1>4. CloudEnd' /\ OneExchange'
  BY <1>1, CloudUntouched DEF history
<1>5. BodiesIntact'
  BY DEF SessionInv, BodiesIntact, cloudVars, history
<1>6. /\ DOMAIN pending' = {q \in Requests : connState'.flow[q] = "request_body"}
      /\ DOMAIN pending' = {}
  <2>1. \A q \in Requests : connState'.flow[q] # "request_body"
    BY DEF SessionInv, OneExchange
  <2> QED BY <1>1, <2>1
<1>7. (\A c \in calls : c[2] = session => c[1] \in active' \ ready') => Once'
  BY <1>1 DEF SessionInv, Once, cloudVars, history
<1> QED BY <1>3, <1>4, <1>5, <1>6, <1>7

(* The connector answers with a failure, or begins an answer; its own      *)
(* validator refuses the head of an answer the local server got wrong.     *)
LEMMA FirstAnswerStep ==
    ASSUME SessionInv, NEW q \in Requests, AnswerFailure(q) \/ AnswerStart(q)
    PROVE  SessionInv'
<1>1. /\ conn = "serving" /\ q \in ready /\ ready' = ready \ {q} /\ active' = active \ {q}
      /\ UNCHANGED <<cloudVars, toConn, pending, rejected, calls, session, history>>
  BY DEF AnswerFailure, AnswerStart
<1>2. /\ q = current /\ connState.flow[current] = "awaiting_response" /\ answer[q] \in Answers
      /\ current # None /\ connState.handshake = "ready" /\ session > 0
      /\ active' = {} /\ ready' = {} /\ q \in active
  BY <1>1, Typed DEF SessionInv, ConnectorEnd, TypeOK
<1>3. /\ cloud \in {"response", "closed"}
      /\ cloud = "response" => toCloud = <<>> /\ cloudState.flow[current] = "awaiting_response"
  BY <1>2, Answering
<1>4. PICK f \in Frames, next \in {"serving", "answering"} :
         /\ ConnectorSends(f, next) /\ f.id = current
         /\ \/ /\ f = Frame("request_failed", q) /\ f.type = "request_failed"
               /\ f.head = "plain" /\ next = "serving"
               /\ answering' = answering /\ replied' = replied
            \/ /\ f.type = "response_start" /\ next = "answering" /\ answer[q].ok
               /\ answering' = q /\ replied' = 0
  <2>1. CASE AnswerFailure(q)
    <3>1. /\ Frame("request_failed", q) \in Frames
          /\ Frame("request_failed", q).type = "request_failed"
          /\ Frame("request_failed", q).id = q /\ Frame("request_failed", q).head = "plain"
      BY FrameFields DEF Controls
    <3> QED BY <1>2, <2>1, <3>1 DEF AnswerFailure
  <2>2. CASE AnswerStart(q)
    <3> DEFINE h == answer[q].head
    <3>1. h \in {"plain", "invalid"}
      BY <1>2, AnswerLen
    <3> HIDE DEF h
    <3>2. /\ Start("response_start", q, h) \in Frames
          /\ Start("response_start", q, h).type = "response_start"
          /\ Start("response_start", q, h).id = q
      BY <3>1, FrameFields DEF Controls
    <3> QED BY <1>2, <2>2, <3>2 DEF AnswerStart, h
  <2> QED BY <2>1, <2>2
<1>5. f.type \notin {"client_hello", "server_ready"} /\ f.type \notin Chunks
  BY <1>4 DEF Chunks
<1>6. \/ /\ Legal(connState, f) /\ connState' = Observe(connState, f)
         /\ toCloud' = Append(toCloud, f) /\ conn' = next
      \/ ~Legal(connState, f) /\ conn' = "protocol" /\ UNCHANGED <<connState, toCloud>>
  BY <1>4 DEF ConnectorSends
<1>7. answering' \in Requests \cup {None} /\ replied' \in 0..MaxChunks
  <2>1. 0 \in 0..MaxChunks
    BY SessionAssumption
  <2> QED BY <1>4, <2>1 DEF SessionInv, TypeOK
<1>8. rejected' = rejected /\ rejected \subseteq DOMAIN pending /\ DOMAIN pending \subseteq Requests
  BY <1>1 DEF SessionInv, TypeOK
<1>9. \A c \in calls : c[2] # session
  BY <1>1, <1>2 DEF SessionInv, Once, ConnectorEnd
<1>10. Cardinality(active') <= MaxInFlight
  BY <1>2, FS_EmptySet, SessionAssumption
<1>11. CASE ~Legal(connState, f) /\ conn' = "protocol" /\ UNCHANGED <<connState, toCloud>>
  <2>1. connState'.handshake = "ready" /\ connState'.flow[current] \notin {"none", "request_body"}
    BY <1>2, <1>11
  <2>2. /\ ToConnector' /\ CloudEnd' /\ OneExchange' /\ BodiesIntact' /\ Once'
        /\ DOMAIN pending' = {r \in Requests : connState'.flow[r] = "request_body"}
        /\ DOMAIN pending' = {}
    BY <1>1, <1>2, <1>9, <1>11, <2>1, AnswerKeeps
  <2>3. TypeOK'
    BY <1>1, <1>2, <1>7, <1>8, <1>10, <1>11 DEF SessionInv, TypeOK, cloudVars, history
  <2>4. ToCloud'
    BY <1>1, <1>2, <1>3, <1>11 DEF ToCloud, cloudVars
  <2>5. ConnectorEnd'
    BY <1>2, <1>11, <2>1, <2>2 DEF ConnectorEnd
  <2> QED BY <2>2, <2>3, <2>4, <2>5 DEF SessionInv
<1>12. CASE /\ Legal(connState, f) /\ connState' = Observe(connState, f)
            /\ toCloud' = Append(toCloud, f) /\ conn' = next
  <2>1. /\ connState' \in Validators /\ connState'.handshake = "ready"
        /\ connState'.flow[current] = Into[f.type] /\ connState'.next[current] = 0
        /\ \A r \in Requests \ {current} : connState'.flow[r] = connState.flow[r]
    BY <1>2, <1>4, <1>5, <1>12, Observes, Typed
  <2>2. connState'.flow[current] \in {"response_body", "over"}
    BY <1>4, <2>1, Transitions
  <2>3. /\ ToConnector' /\ CloudEnd' /\ OneExchange' /\ BodiesIntact' /\ Once'
        /\ DOMAIN pending' = {r \in Requests : connState'.flow[r] = "request_body"}
        /\ DOMAIN pending' = {}
    BY <1>1, <1>2, <1>9, <2>1, <2>2, AnswerKeeps
  <2>4. toCloud' \in Seq(Frames) /\ (cloud = "response" => toCloud' = <<f>>)
    <3>1. toCloud' \in Seq(Frames)
      BY <1>12, Typed, Links
    <3>2. Append(<<>>, f) = <<f>>
      OBVIOUS
    <3> QED BY <1>3, <1>12, <3>1, <3>2
  <2>5. TypeOK'
    BY <1>1, <1>2, <1>4, <1>7, <1>8, <1>10, <1>12, <2>1, <2>4
    DEF SessionInv, TypeOK, cloudVars, history
  <2>6. f.head # "invalid"
    BY <1>5, <1>12, LegalFrame
  <2>7. answer' = answer /\ current' = current /\ cloud' = cloud /\ cloudState' = cloudState
        /\ received' = received /\ session' = session
    BY <1>1 DEF cloudVars, history
  <2>8. ToCloud'
    <3> SUFFICES ASSUME cloud = "response" PROVE ToCloud'
      BY <1>3, <2>7 DEF ToCloud
    <3>1. toCloud' = <<f>> /\ cloudState.flow[current] = "awaiting_response"
      BY <1>3, <2>4
    <3>2. CASE f = Frame("request_failed", q) /\ f.type = "request_failed"
      <4>1. connState'.flow[current] = "over"
        BY <2>1, <3>2, Transitions
      <4> QED BY <1>2, <2>7, <3>1, <3>2, <4>1 DEF ToCloud
    <3>3. CASE f.type = "response_start" /\ answering' = q /\ replied' = 0 /\ answer[q].ok
      <4>1. connState'.flow[current] = "response_body"
        BY <2>1, <3>3, Transitions
      <4>2. Taken' = 0
        BY <2>7, <3>1 DEF Taken
      <4>3. IsResponseFrame(f, 0)'
        BY <1>4, <2>6, <2>7, <3>3 DEF IsResponseFrame
      <4>4. Len(toCloud') = 1 /\ toCloud'[1] = f
        BY <3>1
      <4>5. \A i \in 1..Len(toCloud') : i = 1 /\ Taken' + i - 1 = 0
        BY <4>2, <4>4
      <4>6. \A i \in 1..Len(toCloud') : IsResponseFrame(toCloud[i], Taken + i - 1)'
        BY <4>3, <4>4, <4>5
      <4>7. Len(toCloud') = (replied' + 1) - Taken'
        BY <3>3, <4>2, <4>4
      <4>8. replied' <= answer[q].len
        BY <1>2, <3>3, AnswerLen
      <4>9. Replying(replied + 1)'
        BY <1>2, <2>7, <3>3, <4>6, <4>7, <4>8 DEF Replying
      <4> QED BY <2>7, <4>1, <4>9 DEF ToCloud
    <3> QED BY <1>4, <3>2, <3>3
  <2>9. ConnectorEnd'
    <3>1. CASE conn' = "serving"
      BY <1>2, <2>1, <2>3, <2>7, <3>1 DEF ConnectorEnd
    <3>2. CASE conn' = "answering"
      <4>1. /\ answering' = current /\ replied' = 0 /\ f.type = "response_start"
            /\ answer[current].ok /\ replied' <= answer[current].len
        BY <1>2, <1>4, <1>12, <3>2, AnswerLen
      <4>2. connState'.flow[current] = "response_body"
        BY <2>1, <4>1, Transitions
      <4> QED BY <1>2, <2>1, <2>3, <2>7, <3>2, <4>1, <4>2 DEF ConnectorEnd
    <3> QED BY <1>4, <1>12, <3>1, <3>2
  <2> QED BY <2>3, <2>5, <2>8, <2>9 DEF SessionInv
<1> QED BY <1>6, <1>11, <1>12

(* The rest of the answer, which the connector's own validator accepts.    *)
LEMMA AnswerStep == ASSUME SessionInv, AnswerChunk \/ AnswerEnd PROVE SessionInv'
<1>1. /\ conn = "answering"
      /\ UNCHANGED <<cloudVars, toConn, pending, rejected, active, ready, answering,
                     calls, session, history>>
  BY DEF AnswerChunk, AnswerEnd
<1>2. /\ answering = current /\ current # None /\ connState.flow[current] = "response_body"
      /\ connState.next[current] = replied /\ answer[current] \in Answers /\ answer[current].ok
      /\ replied <= answer[current].len /\ connState.handshake = "ready" /\ session > 0
      /\ current \in Requests /\ replied \in Nat
  BY <1>1, Typed DEF SessionInv, ConnectorEnd
<1>3. /\ cloud \in {"response", "closed"} /\ (cloud = "response" => Replying(replied + 1))
  BY <1>2, Answering
<1>4. active = {} /\ ready = {} /\ \A c \in calls : c[2] # session
  <2>1. active = {} /\ ready = {}
    BY <1>2 DEF SessionInv, ConnectorEnd, TypeOK
  <2> QED BY <2>1 DEF SessionInv, Once
<1>5. answer[current].len \in 0..MaxChunks /\ MaxChunks \in Nat
  BY <1>2, AnswerLen, SessionAssumption
<1>6. PICK f \in Frames :
         /\ Legal(connState, f) /\ connState' = Observe(connState, f)
         /\ toCloud' = Append(toCloud, f) /\ f.id = current /\ f.head = "plain"
         /\ \/ /\ f.type = "response_chunk" /\ f.seq = replied /\ replied < answer[current].len
               /\ replied' = replied + 1 /\ conn' = "answering"
            \/ /\ f.type = "response_end" /\ replied = answer[current].len
               /\ replied' = replied /\ conn' = "serving"
  <2>1. CASE AnswerChunk
    <3> DEFINE g == Chunk("response_chunk", current, replied)
    <3>1. /\ g \in Frames /\ g.type = "response_chunk" /\ g.id = current /\ g.head = "plain"
          /\ g.seq = replied
      BY <1>2, FrameFields DEF Chunks
    <3>2. replied < answer[current].len /\ replied' = replied + 1 /\ ConnectorSends(g, "answering")
      BY <1>2, <2>1 DEF AnswerChunk
    <3>3. replied < MaxChunks
      BY <1>2, <1>5, <3>2
    <3> HIDE DEF g
    <3>4. g.type \notin {"client_hello", "server_ready"}
      BY <3>1
    <3>5. Legal(connState, g)
      BY <1>2, <3>1, <3>3, <3>4, LegalFrame, Transitions
    <3> QED BY <3>1, <3>2, <3>5 DEF ConnectorSends
  <2>2. CASE AnswerEnd
    <3> DEFINE g == Frame("response_end", current)
    <3>1. /\ g \in Frames /\ g.type = "response_end" /\ g.id = current /\ g.head = "plain"
      BY <1>2, FrameFields DEF Controls
    <3>2. replied = answer[current].len /\ replied' = replied /\ ConnectorSends(g, "serving")
      BY <1>2, <2>2 DEF AnswerEnd
    <3> HIDE DEF g
    <3>3. g.type \notin {"client_hello", "server_ready"} /\ g.type \notin Chunks
      BY <3>1 DEF Chunks
    <3>4. Legal(connState, g)
      BY <1>2, <3>1, <3>3, LegalFrame, Transitions
    <3> QED BY <3>1, <3>2, <3>4 DEF ConnectorSends
  <2> QED BY <2>1, <2>2
<1>7. f.type \notin {"client_hello", "server_ready"}
  BY <1>6
<1>8. /\ connState' \in Validators /\ connState'.handshake = "ready"
      /\ connState'.flow[current] = Into[f.type]
      /\ connState'.next[current] = IF f.type \in Chunks THEN connState.next[current] + 1 ELSE 0
      /\ \A r \in Requests \ {current} : connState'.flow[r] = connState.flow[r]
  BY <1>2, <1>6, <1>7, Observes, Typed
<1>9. \/ /\ f.type = "response_chunk" /\ f.seq = replied /\ replied' = replied + 1
         /\ replied' <= answer[current].len /\ conn' = "answering"
         /\ connState'.flow[current] = "response_body" /\ connState'.next[current] = replied'
      \/ /\ f.type = "response_end" /\ replied' = replied /\ replied = answer[current].len
         /\ conn' = "serving" /\ connState'.flow[current] = "over"
  <2>1. CASE f.type = "response_chunk"
    <3>1. f.type \in Chunks
      BY <2>1 DEF Chunks
    <3>2. connState'.flow[current] = "response_body" /\ connState'.next[current] = replied + 1
      BY <1>2, <1>8, <2>1, <3>1, Transitions
    <3>3. replied < answer[current].len /\ replied' = replied + 1 /\ f.seq = replied
          /\ conn' = "answering"
      BY <1>6, <2>1
    <3>4. replied' <= answer[current].len
      BY <1>2, <1>5, <3>3
    <3> QED BY <2>1, <3>2, <3>3, <3>4
  <2>2. CASE f.type = "response_end"
    BY <1>6, <1>8, <2>2, Transitions
  <2> QED BY <1>6, <2>1, <2>2
<1>10. connState'.flow[current] \in {"response_body", "over"}
  BY <1>9
<1>11. /\ ToConnector' /\ CloudEnd' /\ OneExchange' /\ BodiesIntact' /\ Once'
       /\ DOMAIN pending' = {r \in Requests : connState'.flow[r] = "request_body"}
       /\ DOMAIN pending' = {}
  BY <1>1, <1>2, <1>4, <1>8, <1>10, AnswerKeeps
<1>12. /\ toCloud' \in Seq(Frames) /\ Len(toCloud') = Len(toCloud) + 1 /\ Len(toCloud) \in Nat
       /\ \A i \in 1..Len(toCloud) : toCloud'[i] = toCloud[i]
       /\ toCloud'[Len(toCloud) + 1] = f
  BY <1>6, Links, Typed
<1>13. TypeOK'
  <2>1. replied' \in 0..MaxChunks
    BY <1>2, <1>5, <1>9
  <2> QED BY <1>1, <1>8, <1>9, <1>12, <2>1 DEF SessionInv, TypeOK, cloudVars, history
<1>14. ToCloud'
  <2> SUFFICES ASSUME cloud = "response" PROVE ToCloud'
    BY <1>1, <1>3 DEF ToCloud, cloudVars
  <2>1. /\ Len(toCloud) = (replied + 1) - Taken
        /\ \A i \in 1..Len(toCloud) : IsResponseFrame(toCloud[i], Taken + i - 1)
    BY <1>3 DEF Replying
  <2>2. /\ Taken' = Taken /\ Taken \in Nat /\ current' = current /\ answering' = current
        /\ answer' = answer /\ cloud' = cloud
    BY <1>1, <1>2, Typed DEF Taken, cloudVars, history
  <2>3. Len(toCloud') = (replied + 2) - Taken'
    BY <1>2, <1>12, <2>1, <2>2
  <2>4. ASSUME NEW i \in 1..Len(toCloud')
        PROVE  IsResponseFrame(toCloud[i], Taken + i - 1)'
    <3>1. CASE i \in 1..Len(toCloud)
      <4> DEFINE k == Taken + i - 1
      <4>1. IsResponseFrame(toCloud[i], k) /\ toCloud'[i] = toCloud[i]
        BY <1>12, <2>1, <3>1
      <4>2. k < replied + 1 /\ k \in Nat /\ Taken' + i - 1 = k
        BY <1>2, <2>1, <2>2, <3>1
      <4> HIDE DEF k
      <4>3. k # replied' + 1 /\ (k < replied' + 1 => k < replied + 1)
        BY <1>2, <1>9, <4>2
      <4> QED BY <2>2, <4>1, <4>2, <4>3 DEF IsResponseFrame
    <3>2. CASE ~(i \in 1..Len(toCloud))
      <4>1. i = Len(toCloud) + 1
        BY <1>12, <3>2
      <4>2. toCloud'[i] = f /\ Taken' + i - 1 = replied + 1
        BY <1>2, <1>12, <2>1, <2>2, <4>1
      <4>3. CASE f.type = "response_chunk"
        <5>1. replied' = replied + 1 /\ f.seq = (replied + 1) - 1
          BY <1>2, <1>9, <4>3
        <5> QED BY <1>2, <1>6, <2>2, <4>2, <4>3, <5>1 DEF IsResponseFrame
      <4>4. CASE f.type = "response_end"
        <5>1. replied' = replied
          BY <1>9, <4>4
        <5> QED BY <1>2, <1>6, <2>2, <4>2, <4>4, <5>1 DEF IsResponseFrame
      <4> QED BY <1>9, <4>3, <4>4
    <3> QED BY <3>1, <3>2
  <2>5. CASE f.type = "response_chunk"
    <3>1. replied' = replied + 1 /\ replied' <= answer[current].len
          /\ connState'.flow[current] = "response_body"
      BY <1>9, <2>5
    <3>2. Len(toCloud') = (replied' + 1) - Taken'
      BY <1>2, <2>2, <2>3, <3>1
    <3>3. Replying(replied + 1)'
      BY <1>2, <2>2, <2>4, <3>1, <3>2 DEF Replying
    <3> QED BY <2>2, <3>1, <3>3 DEF ToCloud
  <2>6. CASE f.type = "response_end"
    <3>1. replied' = replied /\ replied' = answer[current].len
          /\ connState'.flow[current] = "over"
      BY <1>9, <2>6
    <3>2. Replying(replied + 2)'
      BY <1>2, <2>2, <2>3, <2>4, <3>1 DEF Replying
    <3> QED BY <2>2, <3>1, <3>2 DEF ToCloud
  <2> QED BY <1>9, <2>5, <2>6
<1>15. ConnectorEnd'
  <2>1. /\ current' = current /\ answering' = current /\ answer' = answer /\ session' = session
        /\ active' = {} /\ ready' = {}
    BY <1>1, <1>2, <1>4 DEF cloudVars, history
  <2>2. CASE conn' = "answering"
    BY <1>2, <1>8, <1>9, <1>11, <2>1, <2>2 DEF ConnectorEnd
  <2>3. CASE conn' = "serving"
    BY <1>2, <1>8, <1>11, <2>1, <2>3 DEF ConnectorEnd
  <2> QED BY <1>9, <2>2, <2>3
<1> QED BY <1>11, <1>13, <1>14, <1>15 DEF SessionInv

(* A session that has not begun.                                           *)
LEMMA SessionInit == ASSUME Init PROVE SessionInv
<1>1. /\ Fresh \in Validators /\ Fresh.handshake = "awaiting_hello"
      /\ \A q \in Requests : Fresh.flow[q] = "none"
  BY DEF Fresh, Validators, FlowPhases
<1>2. /\ DOMAIN pending = {} /\ Cardinality(active) = 0 /\ Len(toConn) = 0
      /\ None \notin Requests /\ MaxChunks \in Nat /\ MaxSessions \in Nat /\ MaxInFlight \in Nat
  BY FS_EmptySet, SessionAssumption DEF Init
<1>3. TypeOK
  BY <1>1, <1>2 DEF Init, TypeOK
<1>4. ToConnector
  <2>1. Written = 0 /\ Read = 0
    BY <1>1 DEF Init, Written, Read
  <2> QED BY <1>2, <2>1 DEF ToConnector
<1>5. ToCloud /\ CloudEnd /\ OneExchange
  BY <1>1 DEF Init, ToCloud, CloudEnd, OneExchange
<1>6. ConnectorEnd
  BY <1>1, <1>2 DEF Init, ConnectorEnd
<1>7. Once
  BY <1>1, <1>2 DEF Init, Once
<1>8. BodiesIntact
  BY DEF Init, BodiesIntact
<1> QED BY <1>3, <1>4, <1>5, <1>6, <1>7, <1>8 DEF SessionInv

(* Every step of either end and of the local server keeps the invariant.   *)
LEMMA SessionStep == ASSUME SessionInv, [Next]_vars PROVE SessionInv'
<1>1. CASE UNCHANGED vars
  <2>1. UNCHANGED <<cloud, cloudState, current, sent, received, toConn, toCloud, conn, connState,
                    pending, rejected, active, ready, answering, replied, calls, session,
                    len, executed, answer, result>>
    BY <1>1 DEF vars, cloudVars, connVars, history
  <2>2. TypeOK'
    BY <2>1 DEF SessionInv, TypeOK
  <2>3. ToConnector'
    BY <2>1 DEF SessionInv, ToConnector, Written, Read, IsRequestFrame
  <2>4. ToCloud'
    BY <2>1 DEF SessionInv, ToCloud, Replying, Taken, IsResponseFrame
  <2>5. CloudEnd' /\ OneExchange'
    BY <2>1 DEF SessionInv, CloudEnd, OneExchange, Seen
  <2>6. ConnectorEnd'
    BY <2>1 DEF SessionInv, ConnectorEnd
  <2>7. Once' /\ BodiesIntact'
    BY <2>1 DEF SessionInv, Once, BodiesIntact
  <2> QED BY <2>2, <2>3, <2>4, <2>5, <2>6, <2>7 DEF SessionInv
<1>2. CASE Connect
  BY <1>2, ConnectStep
<1>3. CASE AuthenticationRejected
  BY <1>3, ConnectorStops
<1>4. ASSUME NEW q \in Requests, NEW head \in RequestHeads, NEW n \in 0..MaxChunks,
             StartExchange(q, head, n)
      PROVE  SessionInv'
  BY <1>4, StartStep
<1>5. CASE CloudStep
  BY <1>5, ReadyStep, RequestStep, ResponseStep, CloseStep DEF CloudStep
<1>6. CASE CloudTimeout \/ LinkLost
  BY <1>6, CloseStep
<1>7. CASE ConnectorStep
  BY <1>7, ConnectorReadyStep, BodyStep, HandOverStep, RefuseStep, ConnectorStops,
     FirstAnswerStep, AnswerStep DEF ConnectorStep
<1>8. ASSUME NEW c \in calls, NEW a \in Answers, UpstreamReturns(c, a) PROVE SessionInv'
  BY <1>8, UpstreamStep
<1> QED BY <1>1, <1>2, <1>3, <1>4, <1>5, <1>6, <1>7, <1>8 DEF Next

(* RelaySessionState at both ends, with what is on the way between them.   *)
THEOREM SessionInvariant == Spec => []SessionInv
<1>1. Init => SessionInv
  BY SessionInit
<1>2. SessionInv /\ [Next]_vars => SessionInv'
  BY SessionStep
<1> QED BY <1>1, <1>2, PTL DEF Spec

(* The types of relay_session and run_session.                             *)
THEOREM SessionTypeCorrect == Spec => []TypeOK
<1>1. SessionInv => TypeOK
  BY DEF SessionInv
<1> QED BY <1>1, SessionInvariant, PTL

(* RelaySessionState: whatever is cut off and whatever answers late,       *)
(* neither end's validator refuses a frame of the other.                   *)
THEOREM ValidatorsAgree == Spec => []EndsAgree
<1>1. SessionInv => EndsAgree
  BY InvEndsAgree
<1> QED BY <1>1, SessionInvariant, PTL

(* execute_exchange and run_session: the local server is handed whole      *)
(* requests, and an exchange that succeeds returns its own request's whole *)
(* answer.                                                                 *)
THEOREM BodiesWhole == Spec => []BodiesIntact
<1>1. SessionInv => BodiesIntact
  BY DEF SessionInv
<1> QED BY <1>1, SessionInvariant, PTL

(* Only a head ends the connector for good.                                *)
ShortHeads ==
    /\ ConnectorKeepsRunning
    /\ \A i \in 1..Len(toConn) : toConn[i].head # "long"

(* The connector's validator accepts the answers it sends itself, but for  *)
(* one whose head the local server got wrong.                              *)
LEMMA OwnFramesLegal ==
    ASSUME SessionInv
    PROVE  /\ \A q \in Requests : conn = "serving" /\ q \in ready =>
                 /\ Legal(connState, Frame("request_failed", q))
                 /\ answer[q].head # "invalid" =>
                       Legal(connState, Start("response_start", q, answer[q].head))
           /\ conn = "answering" =>
                 /\ replied < answer[answering].len =>
                       Legal(connState, Chunk("response_chunk", answering, replied))
                 /\ Legal(connState, Frame("response_end", answering))
<1>1. ASSUME NEW q \in Requests, conn = "serving", q \in ready
      PROVE  /\ Legal(connState, Frame("request_failed", q))
             /\ answer[q].head # "invalid" =>
                   Legal(connState, Start("response_start", q, answer[q].head))
  <2>1. /\ connState.flow[q] = "awaiting_response" /\ answer[q] \in Answers
        /\ connState.handshake = "ready"
    BY <1>1 DEF SessionInv, ConnectorEnd
  <2> DEFINE f == Frame("request_failed", q)
             h == answer[q].head
             g == Start("response_start", q, h)
  <2>2. /\ f.type = "request_failed" /\ f.id = q /\ f.head = "plain"
        /\ f.type \notin {"client_hello", "server_ready"} /\ f.type \notin Chunks
    BY FrameFields DEF Controls, Chunks
  <2>3. h \in {"plain", "invalid"}
    BY <2>1, AnswerLen
  <2>4. /\ g.type = "response_start" /\ g.id = q /\ g.head = h
        /\ g.type \notin {"client_hello", "server_ready"} /\ g.type \notin Chunks
    <3> HIDE DEF h
    <3> QED BY <2>3, FrameFields DEF Controls, Chunks
  <2> HIDE DEF f, g, h
  <2>5. Legal(connState, f)
    BY <2>1, <2>2, LegalFrame, Transitions DEF Open
  <2>6. h # "invalid" => Legal(connState, g)
    BY <2>1, <2>4, LegalFrame, Transitions
  <2> QED BY <2>5, <2>6 DEF f, g, h
<1>2. ASSUME conn = "answering"
      PROVE  /\ replied < answer[answering].len =>
                   Legal(connState, Chunk("response_chunk", answering, replied))
             /\ Legal(connState, Frame("response_end", answering))
  <2>1. /\ answering = current /\ current \in Requests /\ connState.handshake = "ready"
        /\ connState.flow[current] = "response_body" /\ connState.next[current] = replied
        /\ answer[current] \in Answers /\ replied \in Nat
    BY <1>2, Typed DEF SessionInv, ConnectorEnd
  <2>2. answer[current].len \in 0..MaxChunks /\ MaxChunks \in Nat
    BY <2>1, AnswerLen, SessionAssumption
  <2>3. replied < answer[current].len => replied < MaxChunks
    BY <2>1, <2>2
  <2> DEFINE f == Chunk("response_chunk", current, replied)
             g == Frame("response_end", current)
  <2>4. /\ f.type = "response_chunk" /\ f.id = current /\ f.head = "plain" /\ f.seq = replied
        /\ g.type = "response_end" /\ g.id = current /\ g.head = "plain" /\ g.type \notin Chunks
        /\ f.type \notin {"client_hello", "server_ready"}
        /\ g.type \notin {"client_hello", "server_ready"}
    BY <2>1, FrameFields DEF Controls, Chunks
  <2> HIDE DEF f, g
  <2>5. replied < answer[current].len => Legal(connState, f)
    BY <2>1, <2>3, <2>4, LegalFrame, Transitions
  <2>6. Legal(connState, g)
    BY <2>1, <2>4, LegalFrame, Transitions
  <2> QED BY <2>1, <2>5, <2>6 DEF f, g
<1> QED BY <1>1, <1>2

(* Frames without long heads never end the connector.                      *)
LEMMA ShortHeadsStep ==
    ASSUME SessionInv, ShortHeads, [Next]_vars,
           "long" \notin RequestHeads, "invalid" \notin ResponseHeads
    PROVE  ShortHeads'
<1>1. /\ conn # "protocol" /\ Len(toConn) \in Nat
      /\ \A i \in 1..Len(toConn) : toConn[i].head # "long"
  BY Links, Typed DEF ShortHeads, ConnectorKeepsRunning
<1>2. ASSUME toConn' = toConn, conn' = conn PROVE ShortHeads'
  BY <1>1, <1>2 DEF ShortHeads, ConnectorKeepsRunning
<1>3. ASSUME toConn' = toConn, conn' # "protocol" PROVE ShortHeads'
  BY <1>1, <1>3 DEF ShortHeads, ConnectorKeepsRunning
<1>4. ASSUME toConn # <<>>, toConn' = Tail(toConn), conn' # "protocol" PROVE ShortHeads'
  <2>1. /\ Len(toConn') = Len(toConn) - 1
        /\ \A i \in 1..Len(toConn') : toConn'[i] = toConn[i + 1]
    BY <1>4, Links, Typed
  <2>2. \A i \in 1..Len(toConn') : i + 1 \in 1..Len(toConn)
    BY <1>1, <2>1
  <2> QED BY <1>1, <1>4, <2>1, <2>2 DEF ShortHeads, ConnectorKeepsRunning
<1>5. ASSUME NEW f \in Frames, f.head # "long", toConn' = Append(toConn, f), conn' = conn
      PROVE  ShortHeads'
  <2>1. /\ Len(toConn') = Len(toConn) + 1 /\ toConn'[Len(toConn) + 1] = f
        /\ \A i \in 1..Len(toConn) : toConn'[i] = toConn[i]
    BY <1>5, Links, Typed
  <2>2. \A i \in 1..Len(toConn') : i \in 1..Len(toConn) \/ i = Len(toConn) + 1
    BY <1>1, <2>1
  <2> QED BY <1>1, <1>5, <2>1, <2>2 DEF ShortHeads, ConnectorKeepsRunning
<1>6. CASE UNCHANGED vars
  BY <1>2, <1>6 DEF vars, connVars
<1>7. CASE Connect
  <2>1. Len(toConn') = 0 /\ conn' = "hello"
    BY <1>7 DEF Connect
  <2> QED BY <2>1 DEF ShortHeads, ConnectorKeepsRunning
<1>8. CASE AuthenticationRejected
  BY <1>3, <1>8 DEF AuthenticationRejected
<1>9. ASSUME NEW q \in Requests, NEW head \in RequestHeads, NEW n \in 0..MaxChunks,
             StartExchange(q, head, n)
      PROVE  ShortHeads'
  <2>1. /\ Start("request_start", q, head) \in Frames
        /\ Start("request_start", q, head).head # "long"
    BY FrameFields, SessionAssumption DEF Controls
  <2>2. conn' = conn /\ (toConn' = toConn \/ toConn' = Append(toConn, Start("request_start", q, head)))
    BY <1>9 DEF StartExchange, CloudSends, connVars
  <2> QED BY <1>2, <1>5, <2>1, <2>2
<1>10. CASE CloudReady
  <2>1. Frame("server_ready", None) \in Frames /\ Frame("server_ready", None).head # "long"
    BY FrameFields DEF Controls
  <2>2. conn' = conn /\ toConn' = Append(toConn, Frame("server_ready", None))
    BY <1>10 DEF CloudReady, connVars
  <2> QED BY <1>5, <2>1, <2>2
<1>11. CASE SendRequestChunk
  <2>1. /\ Chunk("request_chunk", current, sent) \in Frames
        /\ Chunk("request_chunk", current, sent).head # "long"
    BY <1>11, FrameFields, Requesting, Typed DEF Chunks, SendRequestChunk
  <2>2. conn' = conn /\ toConn' = Append(toConn, Chunk("request_chunk", current, sent))
    BY <1>11 DEF SendRequestChunk, CloudSends, connVars
  <2> QED BY <1>5, <2>1, <2>2
<1>12. CASE SendRequestEnd
  <2>1. /\ Frame("request_end", current) \in Frames
        /\ Frame("request_end", current).head # "long"
    BY <1>12, FrameFields, Requesting, Typed DEF Controls, SendRequestEnd
  <2>2. conn' = conn /\ toConn' = Append(toConn, Frame("request_end", current))
    BY <1>12 DEF SendRequestEnd, CloudSends, connVars
  <2> QED BY <1>5, <2>1, <2>2
<1>13. CASE ReceiveResponse \/ ConnectorGone \/ CloudTimeout \/ LinkLost
  BY <1>2, <1>13 DEF ReceiveResponse, ConnectorGone, CloudTimeout, LinkLost, connVars
<1>14. CASE ReceiveReady
  BY <1>4, <1>14 DEF ReceiveReady
<1>15. CASE ReceiveStart \/ ReceiveChunk \/ ReceiveEnd \/ Refuse
  <2>1. toConn # <<>> /\ toConn' = Tail(toConn) /\ conn' = conn
    BY <1>15 DEF ReceiveStart, ReceiveChunk, ReceiveEnd, Refuse, Incoming
  <2> QED BY <1>1, <1>4, <2>1
<1>16. CASE ProtocolError
  <2>1. conn = "serving" /\ toConn # <<>> /\ ~Accepted(Head(toConn))
    BY <1>16 DEF ProtocolError
  <2>2. connState.handshake = "ready"
    BY <2>1 DEF SessionInv, ConnectorEnd
  <2>3. Head(toConn).head # "long"
    <3>1. Head(toConn) = toConn[1] /\ 1 \in 1..Len(toConn)
      BY <1>1, <2>1, Links, Typed
    <3> QED BY <1>1, <3>1
  <2> QED BY <2>1, <2>2, <2>3, ConnectorLegal DEF Accepted
<1>17. ASSUME NEW q \in Requests, AnswerFailure(q) \/ AnswerStart(q) PROVE ShortHeads'
  <2>1. conn = "serving" /\ q \in ready /\ toConn' = toConn
    BY <1>17 DEF AnswerFailure, AnswerStart
  <2>2. answer[q] \in Answers
    BY <2>1 DEF SessionInv, ConnectorEnd
  <2>3. \A a \in Answers : a.head # "invalid"
    <3>1. \A a \in [ok : {TRUE}, head : ResponseHeads, len : 0..MaxChunks] : a.head # "invalid"
      OBVIOUS
    <3>2. [ok |-> FALSE, head |-> "plain", len |-> 0].head # "invalid"
      OBVIOUS
    <3> QED BY <3>1, <3>2 DEF Answers
  <2>4. /\ Legal(connState, Frame("request_failed", q))
        /\ Legal(connState, Start("response_start", q, answer[q].head))
    BY <2>1, <2>2, <2>3, OwnFramesLegal
  <2>5. conn' \in {"serving", "answering"}
    BY <1>17, <2>4 DEF AnswerFailure, AnswerStart, ConnectorSends
  <2> QED BY <1>3, <2>1, <2>5
<1>18. CASE AnswerChunk \/ AnswerEnd
  <2>1. toConn' = toConn /\ conn' \in {"serving", "answering"}
    BY <1>18, OwnFramesLegal DEF AnswerChunk, AnswerEnd, ConnectorSends
  <2> QED BY <1>3, <2>1
<1>19. CASE Transport
  BY <1>3, <1>19 DEF Transport
<1>20. ASSUME NEW c \in calls, NEW a \in Answers, UpstreamReturns(c, a) PROVE ShortHeads'
  BY <1>2, <1>20 DEF UpstreamReturns
<1> QED BY <1>6, <1>7, <1>8, <1>9, <1>10, <1>11, <1>12, <1>13, <1>14, <1>15, <1>16, <1>17,
           <1>18, <1>19, <1>20 DEF Next, CloudStep, ConnectorStep

(* run_reconnecting: but for heads decode_control finds too long and       *)
(* answers whose head validate() refuses, no session, whatever its end,    *)
(* makes the connector stop for good.                                      *)
THEOREM OnlyHeadsEndTheConnector ==
    ASSUME "long" \notin RequestHeads, "invalid" \notin ResponseHeads
    PROVE  Spec => []ConnectorKeepsRunning
<1>1. Init => ShortHeads
  <2>1. Init => Len(toConn) = 0 /\ conn # "protocol"
    BY DEF Init
  <2> QED BY <2>1 DEF ShortHeads, ConnectorKeepsRunning
<1>2. SessionInv /\ ShortHeads /\ [Next]_vars => ShortHeads'
  BY ShortHeadsStep
<1>3. ShortHeads => ConnectorKeepsRunning
  BY DEF ShortHeads
<1> QED BY <1>1, <1>2, <1>3, SessionInvariant, PTL DEF Spec

(* run_session: the local server is called for a request at most once,     *)
(* whatever is cut off, retried or answered late.                          *)
ServedOnce == [][\A c \in calls' \ calls : executed[c[1]] = None]_vars

(* A call begins only when its request has just been read to the end.      *)
LEMMA ServedStep ==
    ASSUME SessionInv, [Next]_vars PROVE \A c \in calls' \ calls : executed[c[1]] = None
<1>1. ASSUME NEW c \in calls' \ calls PROVE executed[c[1]] = None
  <2>1. CASE ReceiveEnd
    <3>1. /\ Incoming("request_end")
          /\ calls' = calls \cup {<<Head(toConn).id, session>>}
      BY <2>1 DEF ReceiveEnd
    <3>2. Head(toConn).id = current /\ conn = "serving" /\ toConn # <<>>
      BY <3>1, EndRead
    <3>3. c[1] = current
      BY <1>1, <3>1, <3>2
    <3> QED BY <3>2, <3>3, Reading
  <2>2. CASE ~ReceiveEnd
    <3>1. CASE Connect \/ AuthenticationRejected
      BY <1>1, <3>1 DEF Connect, AuthenticationRejected
    <3>2. ASSUME NEW q \in Requests, NEW head \in RequestHeads, NEW n \in 0..MaxChunks,
                 StartExchange(q, head, n)
          PROVE  FALSE
      BY <1>1, <3>2 DEF StartExchange
    <3>3. CASE CloudStep \/ CloudTimeout \/ LinkLost
      BY <1>1, <3>3 DEF CloudStep, CloudReady, SendRequestChunk, SendRequestEnd, ReceiveResponse,
         ConnectorGone, LinkLost, CloudTimeout
    <3>4. CASE ReceiveReady \/ ReceiveStart \/ ReceiveChunk \/ Refuse \/ ProtocolError \/ Transport
      BY <1>1, <3>4 DEF ReceiveReady, ReceiveStart, ReceiveChunk, Refuse, ProtocolError, Transport
    <3>5. ASSUME NEW q \in Requests, AnswerFailure(q) \/ AnswerStart(q) PROVE FALSE
      BY <1>1, <3>5 DEF AnswerFailure, AnswerStart
    <3>6. CASE AnswerChunk \/ AnswerEnd
      BY <1>1, <3>6 DEF AnswerChunk, AnswerEnd
    <3>7. ASSUME NEW d \in calls, NEW a \in Answers, UpstreamReturns(d, a) PROVE FALSE
      BY <1>1, <3>7 DEF UpstreamReturns
    <3>8. CASE UNCHANGED vars
      BY <1>1, <3>8 DEF vars
    <3> QED BY <1>1, <2>2, <3>1, <3>2, <3>3, <3>4, <3>5, <3>6, <3>7, <3>8 DEF Next, ConnectorStep
  <2> QED BY <2>1, <2>2
<1> QED BY <1>1

(* run_session: a request, which has a fresh identifier in every exchange, *)
(* is served at most once over all sessions.                               *)
THEOREM NothingServedTwice == Spec => ServedOnce
<1>1. SessionInv /\ [Next]_vars => [\A c \in calls' \ calls : executed[c[1]] = None]_vars
  BY ServedStep
<1> QED BY <1>1, SessionInvariant, PTL DEF Spec, ServedOnce
=============================================================================
