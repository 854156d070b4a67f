------------------------------- MODULE SmartHttp -------------------------------
(***************************************************************************)
(* SmartHttpBackend of c6-git: one request, served by `git http-backend`   *)
(* in a child process.  A thread writes the request to the child, two      *)
(* threads read what it says, and the caller polls until the child exits,  *)
(* says too much or is too late; then it joins the threads and parses.     *)
(* The child runs git upload-pack in a process of its own, which shares    *)
(* its pipes and outlives it when the child is killed.                     *)
(*                                                                         *)
(* Bytes are counted, in units of which a read takes at most Chunk.        *)
(***************************************************************************)
EXTENDS Naturals

CONSTANTS
    Chunk,          \* the buffer of read_bounded
    Pipe,           \* what a pipe holds
    Header,         \* the CGI header the backend sends
    MaxRequestBytes, MaxResponseBytes, MaxHeaderBytes, MaxStderrBytes,
    RequestSizes,       \* sizes of request bodies
    Bodies,         \* sizes of the bodies the backend would send
    Complaints      \* sizes of what it writes to stderr

ASSUME SmartHttpAssumption ==
    /\ {Chunk, Pipe, Header, MaxResponseBytes, MaxHeaderBytes} \subseteq Nat \ {0}
    /\ {MaxRequestBytes, MaxStderrBytes} \subseteq Nat
    /\ RequestSizes \cup Bodies \cup Complaints \subseteq Nat

(* SmartHttpLimits::default leaves 32 KiB for a header, of which           *)
(* http-backend uses a few hundred bytes, and a read takes 16 KiB.         *)
ASSUME RoomForHeader == Header + Chunk <= MaxHeaderBytes

VARIABLES
    step,       \* of the caller, in execute()
    result,     \* of its polling loop
    answer,     \* what it returns
    child,      \* the http-backend process
    pack,       \* whether upload-pack runs
    request,    \* bytes of the request not written to the pipe yet
    stdin,      \* bytes in the pipe to the child
    writer, stdout_reader, stderr_reader,   \* threads
    body,       \* size of the body of the whole response
    said,       \* bytes of the response written so far
    stdout,     \* bytes in the pipe from the child
    bytes, overflow,          \* of stdout_reader
    complaint, stderr, errors \* to be written, in the pipe, kept

caller == <<step, result, answer>>
processes == <<child, pack>>
input == <<request, stdin, writer>>
output == <<body, said, stdout, stdout_reader, bytes, overflow>>
chatter == <<complaint, stderr, stderr_reader, errors>>
httpVars == <<caller, processes, input, output, chatter>>

Results == {"running", "success", "failure", "too_large", "timeout"}
Answers == {"none", "refused", "ok", "invalid", "too_large", "timeout", "failed"}
stdout_limit == MaxResponseBytes + MaxHeaderBytes
Response == Header + body

(* read_bounded keeps at most its limit. *)
HttpTypeOK ==
    /\ step \in {"validate", "poll", "join", "parse", "returned"}
    /\ result \in Results
    /\ answer \in Answers
    /\ child \in {"none", "running", "success", "failure", "killed"}
    /\ pack \in BOOLEAN
    /\ request \in Nat /\ stdin \in 0..Pipe
    /\ writer \in {"running", "ok", "error"}
    /\ {stdout_reader, stderr_reader} \subseteq {"running", "done"}
    /\ body \in Nat /\ said \in 0..Response /\ stdout \in 0..Pipe
    /\ bytes \in 0..stdout_limit /\ overflow \in BOOLEAN
    /\ complaint \in Nat /\ stderr \in 0..Pipe /\ errors \in 0..MaxStderrBytes

HttpInit ==
    /\ step = "validate" /\ result = "running" /\ answer = "none"
    /\ child = "none" /\ pack = FALSE
    /\ request \in RequestSizes /\ stdin = 0
    /\ writer = "running" /\ stdout_reader = "running" /\ stderr_reader = "running"
    /\ body \in Bodies /\ said = 0 /\ stdout = 0
    /\ bytes = 0 /\ overflow = FALSE
    /\ complaint \in Complaints /\ stderr = 0 /\ errors = 0

Smaller(m, n) == IF m < n THEN m ELSE n

(* Somebody holds the other ends of the pipes. *)
Backend == child = "running" \/ pack
-----------------------------------------------------------------------------
(* advertise, upload_pack and the checks of execute: the query, the media  *)
(* type, the actor, the protocol, the repository, or the spawn.            *)
Refuse ==
    /\ step = "validate"
    /\ step' = "returned"
    /\ answer' = "refused"
    /\ UNCHANGED <<result, processes, input, output, chatter>>

Spawn ==
    /\ step = "validate"
    /\ request <= MaxRequestBytes
    /\ step' = "poll"
    /\ child' = "running"
    /\ pack' = TRUE
    /\ UNCHANGED <<result, answer, input, output, chatter>>

Stop(r) == step' = "join" /\ result' = r

(* The loop looks at the overflow flag first, then at the child.  What it  *)
(* kills, it reaps.                                                        *)
PollOverflow ==
    /\ step = "poll"
    /\ overflow
    /\ Stop("too_large")
    /\ child' = IF child = "running" THEN "killed" ELSE child
    /\ UNCHANGED <<answer, pack, input, output, chatter>>

(* The flag may be set after it was looked at and before the child is.     *)
PollExited ==
    /\ step = "poll"
    /\ child \in {"success", "failure"}
    /\ Stop(child)
    /\ UNCHANGED <<answer, processes, input, output, chatter>>

(* Mutant: the caller gives up without killing the child. *)
PollTimeoutOnly ==
    /\ step = "poll"
    /\ child = "running"
    /\ Stop("timeout")
    /\ UNCHANGED <<answer, processes, input, output, chatter>>

(* The deadline, or an error of try_wait. *)
PollTimeout ==
    /\ step = "poll"
    /\ child = "running"
    /\ Stop("timeout")
    /\ child' = "killed"
    /\ UNCHANGED <<answer, pack, input, output, chatter>>

Join ==
    /\ step = "join"
    /\ writer # "running"
    /\ stdout_reader = "done"
    /\ stderr_reader = "done"
    /\ step' = "parse"
    /\ UNCHANGED <<result, answer, processes, input, output, chatter>>

(* parse_cgi_response, of a header that is well-formed and may be allowed. *)
parse_cgi_response ==
    CASE bytes < Header \/ Header > MaxHeaderBytes -> "invalid"
      [] bytes - Header > MaxResponseBytes -> "too_large"
      [] OTHER -> "ok"

(* The backend may send a header that is refused. *)
Answer ==
    /\ step = "parse"
    /\ step' = "returned"
    /\ answer' \in CASE result \in {"too_large", "timeout"} -> {result}
                     [] result = "failure" \/ writer = "error" -> {"failed"}
                     [] OTHER -> {parse_cgi_response, "invalid"}
    /\ UNCHANGED <<result, processes, input, output, chatter>>
-----------------------------------------------------------------------------
(* The writer thread; it closes the pipe when it is through. *)
WriteRequest ==
    /\ step # "validate" /\ writer = "running"
    /\ IF request = 0 THEN writer' = "ok" /\ UNCHANGED <<request, stdin>>
       ELSE IF ~Backend THEN writer' = "error" /\ UNCHANGED <<request, stdin>>
       ELSE /\ stdin < Pipe
            /\ stdin' = stdin + 1 /\ request' = request - 1
            /\ UNCHANGED writer
    /\ UNCHANGED <<caller, processes, output, chatter>>

(* Mutant: what still fits is kept of a chunk that is too long. *)
read_some ==
    /\ step # "validate" /\ stdout_reader = "running"
    /\ LET read == Smaller(stdout, Chunk) IN
       \/ /\ stdout = 0 /\ ~Backend
          /\ stdout_reader' = "done"
          /\ UNCHANGED <<stdout, bytes, overflow>>
       \/ /\ stdout > 0
          /\ stdout' = stdout - read
          /\ bytes' = Smaller(bytes + read, MaxResponseBytes)
          /\ overflow' = (overflow \/ bytes + read > MaxResponseBytes)
          /\ UNCHANGED stdout_reader
    /\ UNCHANGED <<caller, processes, input, body, said, chatter>>

(* read_bounded, for stdout: a chunk that does not fit is dropped, and     *)
(* all that follow, but the pipe is drained.                               *)
read_bounded ==
    /\ step # "validate" /\ stdout_reader = "running"
    /\ LET read == Smaller(stdout, Chunk)
           over == overflow \/ bytes + read > stdout_limit
       IN
       \/ /\ stdout = 0 /\ ~Backend
          /\ stdout_reader' = "done"
          /\ UNCHANGED <<stdout, bytes, overflow>>
       \/ /\ stdout > 0
          /\ stdout' = stdout - read
          /\ bytes' = IF over THEN bytes ELSE bytes + read
          /\ overflow' = over
          /\ UNCHANGED stdout_reader
    /\ UNCHANGED <<caller, processes, input, body, said, chatter>>

(* read_bounded, for stderr: nobody looks at its flag. *)
read_errors ==
    /\ step # "validate" /\ stderr_reader = "running"
    /\ \/ /\ stderr = 0 /\ ~Backend
          /\ stderr_reader' = "done"
          /\ UNCHANGED <<stderr, errors>>
       \/ /\ stderr > 0
          /\ stderr' = stderr - 1
          /\ errors' = Smaller(errors + 1, MaxStderrBytes)
          /\ UNCHANGED stderr_reader
    /\ UNCHANGED <<caller, processes, input, output, complaint>>
-----------------------------------------------------------------------------
(* http-backend and upload-pack, which may do any of this or nothing. *)
ReadRequest ==
    /\ Backend /\ stdin > 0
    /\ stdin' = stdin - 1
    /\ UNCHANGED <<caller, processes, request, writer, output, chatter>>

Say ==
    /\ Backend /\ said < Response /\ stdout < Pipe
    /\ said' = said + 1
    /\ stdout' = stdout + 1
    /\ UNCHANGED <<caller, processes, input, body, stdout_reader, bytes, overflow,
                   chatter>>

Complain ==
    /\ Backend /\ complaint > 0 /\ stderr < Pipe
    /\ complaint' = complaint - 1
    /\ stderr' = stderr + 1
    /\ UNCHANGED <<caller, processes, input, output, stderr_reader, errors>>

PackEnds ==
    /\ pack
    /\ pack' = FALSE
    /\ UNCHANGED <<caller, child, input, output, chatter>>

(* It reports success when it has said everything. *)
ChildExits ==
    /\ child = "running" /\ ~pack
    /\ \/ said = Response /\ complaint = 0 /\ child' = "success"
       \/ child' = "failure"
    /\ UNCHANGED <<caller, pack, input, output, chatter>>

CallerStep ==
    Spawn \/ Refuse \/ PollOverflow \/ PollExited \/ PollTimeout \/ Join \/ Answer
BackendStep == ReadRequest \/ Say \/ Complain \/ PackEnds \/ ChildExits

HttpNext == CallerStep \/ WriteRequest \/ read_bounded \/ read_errors \/ BackendStep

HttpSpec == HttpInit /\ [][HttpNext]_httpVars

(* The caller and its threads run, so the deadline passes.  Of the         *)
(* backend, only that upload-pack does not survive its parent for ever.    *)
HttpFairness ==
    /\ WF_httpVars(CallerStep) /\ WF_httpVars(WriteRequest)
    /\ WF_httpVars(read_bounded) /\ WF_httpVars(read_errors)
    /\ WF_httpVars(child # "running" /\ PackEnds)
-----------------------------------------------------------------------------
(* execute ("bounded request/response/stderr sizes"): a response is        *)
(* returned whole or not at all, although what is dropped beyond the limit *)
(* may not be noticed while the child runs.                                *)
ResponseIsWhole == answer = "ok" => bytes = Response

(* execute ("kills_and_reaps_a_backend_that_exceeds_its_deadline"): no     *)
(* child is left behind, and none holds a pipe of a request that returned. *)
NothingLeftRunning == step = "returned" => ~Backend

(* What a request that returned leaves: all of the response or none of it, *)
(* and no process.                                                         *)
ReturnsCleanly == ResponseIsWhole /\ NothingLeftRunning

(* execute: every request that started a child returns, whatever the       *)
(* backend does; the threads and the child do not wait for each other.     *)
EveryRequestReturns == step = "poll" ~> step = "returned"
=============================================================================
