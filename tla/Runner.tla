------------------------------- MODULE Runner -------------------------------
(***************************************************************************)
(* The runner daemon: RunnerService over FileResultStore.  Every accepted  *)
(* connection is a task of its own (a handler) that serves one             *)
(* authenticated command, so handlers interleave at every await: loading a *)
(* record, taking the `active` lock, waiting for the backend, and each of  *)
(* the file operations of FileResultStore::save.  The daemon may crash;    *)
(* files survive, `active` and the tasks do not.                           *)
(*                                                                         *)
(* A request is a value with a run ID (RunOf); its policy and simulation   *)
(* plan are abstracted to its identity and to whether validate() accepts   *)
(* it.  A RunRecord is named by the handler that built it.  A file is an   *)
(* inode named by the handler that created it, because the temporary path  *)
(* of a run is shared by every save of that run.                           *)
(***************************************************************************)
EXTENDS Naturals, FiniteSets

CONSTANTS Handlers,   \* connection tasks; each serves one command
          RunIds,     \* run identifiers
          Requests,   \* distinct ExecutionRequest values
          RunOf,      \* the run_id field of a request
          Valid,      \* the requests ExecutionRequest::validate accepts
          Nobody,     \* no handler, no inode
          Empty,      \* content of a file just truncated
          Torn        \* content that is not one record's JSON

ASSUME RunnerAssumption ==
    /\ Requests # {}
    /\ RunOf \in [Requests -> RunIds]
    /\ Valid \subseteq Requests
    /\ Nobody \notin Handlers
    /\ Empty \notin Handlers
    /\ Torn \notin Handlers
    /\ Empty # Torn

VARIABLES pc,         \* where each handler is
          op,         \* its command's type
          req,        \* the request it carries (Cancel and Inspect use its run)
          status,     \* RunStatus of the record the handler built, or "none"
          resp,       \* its response, "none" until it answers
          shown,      \* whose record or registration the response is about
          active,     \* run -> the handler registered for it
          cancelled,  \* handlers whose watch channel holds true
          final,      \* run -> inode at <run_id>.json
          tmp,        \* run -> inode at .<run_id>.tmp
          fd,         \* inode a saving handler has open
          content,    \* inode -> the record in it, Empty or Torn
          late        \* history: handlers whose command came after a result

files == <<final, tmp, fd, content>>
vars == <<pc, op, req, status, resp, shown, active, cancelled, files, late>>

Ops == {"execute", "cancel", "inspect", "ping"}
RunStatus == {"succeeded", "failed", "interrupted", "timed_out", "cancelled"}
Executing == {"running", "decided"}
Saving == {"open", "write", "chmod", "rename"}
Live == {"load", "register", "cancel", "cancel_load", "inspect"}
            \cup Executing \cup Saving
Responses == {"none", "pong", "finished", "status", "cancel_ack",
              "cancel_terminal", "invalid", "conflict", "not_found",
              "persistence_failed"}

Run(h) == RunOf[req[h]]
SharedTmpPath(r) == CHOOSE x \in RunIds : TRUE   \* mutant: one path for all
TmpPath(r) == r                      \* root/.<run_id>.tmp: one per run ID
Readable(i) == i # Nobody /\ content[i] \in Handlers

TypeOK ==
    /\ pc \in [Handlers -> {"idle", "done", "dead"} \cup Live]
    /\ op \in [Handlers -> Ops]
    /\ req \in [Handlers -> Requests]
    /\ status \in [Handlers -> RunStatus \cup {"none"}]
    /\ resp \in [Handlers -> Responses]
    /\ shown \in [Handlers -> Handlers \cup {Nobody}]
    /\ active \in [RunIds -> Handlers \cup {Nobody}]
    /\ cancelled \in SUBSET Handlers
    /\ final \in [RunIds -> Handlers \cup {Nobody}]
    /\ tmp \in [RunIds -> Handlers \cup {Nobody}]
    /\ fd \in [Handlers -> Handlers \cup {Nobody}]
    /\ content \in [Handlers -> Handlers \cup {Empty, Torn}]
    /\ late \in SUBSET Handlers

Init ==
    /\ pc = [h \in Handlers |-> "idle"]
    /\ op = [h \in Handlers |-> "ping"]
    /\ req = [h \in Handlers |-> CHOOSE q \in Requests : TRUE]
    /\ status = [h \in Handlers |-> "none"]
    /\ resp = [h \in Handlers |-> "none"]
    /\ shown = [h \in Handlers |-> Nobody]
    /\ active = [r \in RunIds |-> Nobody]
    /\ cancelled = {}
    /\ final = [r \in RunIds |-> Nobody]
    /\ tmp = [r \in RunIds |-> Nobody]
    /\ fd = [h \in Handlers |-> Nobody]
    /\ content = [h \in Handlers |-> Empty]
    /\ late = {}
-----------------------------------------------------------------------------
(* The handler's answer ends its task. *)
Respond(h, body, about) ==
    /\ pc' = [pc EXCEPT ![h] = "done"]
    /\ resp' = [resp EXCEPT ![h] = body]
    /\ shown' = [shown EXCEPT ![h] = about]

Goto(h, label) ==
    /\ pc' = [pc EXCEPT ![h] = label]
    /\ UNCHANGED <<resp, shown>>

(* handle(): the command is dispatched; an execute is validated at once. *)
Entry == [execute |-> "load", cancel |-> "cancel", inspect |-> "inspect"]

Receive(h, o, q) ==
    /\ pc[h] = "idle"
    /\ op' = [op EXCEPT ![h] = o]
    /\ req' = [req EXCEPT ![h] = q]
    /\ \/ o = "ping" /\ Respond(h, "pong", Nobody)
       \/ o = "execute" /\ q \notin Valid /\ Respond(h, "invalid", Nobody)
       \/ o # "ping" /\ ~(o = "execute" /\ q \notin Valid) /\ Goto(h, Entry[o])
    /\ late' = IF final[RunOf[q]] # Nobody THEN late \cup {h} ELSE late
    /\ UNCHANGED <<status, active, cancelled, files>>

(* Mutant: a result that cannot be parsed counts as no result. *)
LoadRecordIgnoringTorn(h) ==
    LET i == final[Run(h)] IN
    /\ pc[h] = "load"
    /\ \/ ~Readable(i) /\ Goto(h, "register")
       \/ Readable(i) /\ Respond(h, "finished", content[i])
    /\ UNCHANGED <<op, req, status, active, cancelled, files, late>>

(* execute(): the idempotency lookup, before the active lock is taken. *)
LoadRecord(h) ==
    LET i == final[Run(h)] IN
    /\ pc[h] = "load"
    /\ \/ i = Nobody /\ Goto(h, "register")
       \/ Readable(i) /\ req[content[i]] = req[h]
            /\ Respond(h, "finished", content[i])
       \/ Readable(i) /\ req[content[i]] # req[h]
            /\ Respond(h, "conflict", Nobody)
       \/ i # Nobody /\ ~Readable(i) /\ Respond(h, "persistence_failed", Nobody)
    /\ UNCHANGED <<op, req, status, active, cancelled, files, late>>

(* FileResultStore::load may fail with an I/O error. *)
ReadFails(h) ==
    /\ pc[h] \in {"load", "cancel_load", "inspect"}
    /\ Respond(h, "persistence_failed", Nobody)
    /\ UNCHANGED <<op, req, status, active, cancelled, files, late>>

(* Mutant: the error of save is dropped and the run reported Finished. *)
SaveFailsUnseen(h) ==
    /\ pc[h] \in Saving
    /\ Respond(h, "finished", h)
    /\ UNCHANGED <<op, req, status, active, cancelled, files, late>>

(* So may each file operation of save; a write that fails half way leaves  *)
(* a torn file, and nothing is rolled back.                                *)
SaveFails(h) ==
    /\ pc[h] \in Saving
    /\ Respond(h, "persistence_failed", Nobody)
    /\ \/ UNCHANGED content
       \/ pc[h] = "write" /\ content' = [content EXCEPT ![fd[h]] = Torn]
    /\ UNCHANGED <<op, req, status, active, cancelled, final, tmp, fd, late>>

(* Mutant: the insertion replaces an existing registration. *)
RegisterReplacing(h) ==
    /\ pc[h] = "register"
    /\ active' = [active EXCEPT ![Run(h)] = h]
    /\ Goto(h, "running")
    /\ UNCHANGED <<op, req, status, cancelled, files, late>>

(* Under the active lock: refuse a registered run, else register it. *)
Register(h) ==
    /\ pc[h] = "register"
    /\ \/ /\ active[Run(h)] = Nobody
          /\ active' = [active EXCEPT ![Run(h)] = h]
          /\ Goto(h, "running")
       \/ /\ active[Run(h)] # Nobody
          /\ Respond(h, "conflict", Nobody)
          /\ UNCHANGED active
    /\ UNCHANGED <<op, req, status, cancelled, files, late>>

(* Mutants: the sender is dropped before the select, which changed() also  *)
(* reports; the backend is awaited without a timeout.                      *)
OutcomesSenderDropped(h) == IF h \in cancelled THEN {"cancelled"} ELSE RunStatus
OutcomesNoTimeout(h) == IF h \in cancelled THEN {"cancelled"} ELSE {}

(* The biased select: a pending cancellation wins over the backend, whose  *)
(* wait the timeout bounds.                                                *)
Outcomes(h) == IF h \in cancelled THEN {"cancelled"} ELSE RunStatus \ {"cancelled"}

Decide(h) ==
    /\ pc[h] = "running"
    /\ \E s \in Outcomes(h) : status' = [status EXCEPT ![h] = s]
    /\ Goto(h, "decided")
    /\ UNCHANGED <<op, req, active, cancelled, files, late>>

Deregister(h) ==
    /\ pc[h] = "decided"
    /\ active' = [active EXCEPT ![Run(h)] = Nobody]
    /\ Goto(h, "open")
    /\ UNCHANGED <<op, req, status, cancelled, files, late>>

(* FileResultStore::save: fs::write opens (creating or truncating) the     *)
(* run's temporary file and then writes it; the mode is set; the rename    *)
(* publishes it.                                                           *)
OpenTmp(h) ==
    LET p == TmpPath(Run(h))
        i == IF tmp[p] = Nobody THEN h ELSE tmp[p]
    IN  /\ pc[h] = "open"
        /\ tmp' = [tmp EXCEPT ![p] = i]
        /\ fd' = [fd EXCEPT ![h] = i]
        /\ content' = [content EXCEPT ![i] = Empty]
        /\ Goto(h, "write")
        /\ UNCHANGED <<op, req, status, active, cancelled, final, late>>

(* Over another save's bytes the shorter record leaves a torn tail. *)
WriteTmp(h) ==
    /\ pc[h] = "write"
    /\ \E c \in IF content[fd[h]] = Empty THEN {h} ELSE {h, Torn} :
          content' = [content EXCEPT ![fd[h]] = c]
    /\ Goto(h, "chmod")
    /\ UNCHANGED <<op, req, status, active, cancelled, final, tmp, fd, late>>

Chmod(h) ==
    /\ pc[h] = "chmod"
    /\ IF tmp[TmpPath(Run(h))] = Nobody
         THEN Respond(h, "persistence_failed", Nobody)
         ELSE Goto(h, "rename")
    /\ UNCHANGED <<op, req, status, active, cancelled, files, late>>

Rename(h) ==
    LET p == TmpPath(Run(h)) IN
    /\ pc[h] = "rename"
    /\ \/ /\ tmp[p] # Nobody
          /\ final' = [final EXCEPT ![Run(h)] = tmp[p]]
          /\ tmp' = [tmp EXCEPT ![p] = Nobody]
          /\ Respond(h, "finished", h)
       \/ /\ tmp[p] = Nobody
          /\ Respond(h, "persistence_failed", Nobody)
          /\ UNCHANGED <<final, tmp>>
    /\ UNCHANGED <<op, req, status, active, cancelled, fd, content, late>>

(* cancel(): signal a registered run, else look for its record. *)
Cancel(h) ==
    LET target == active[Run(h)] IN
    /\ pc[h] = "cancel"
    /\ \/ /\ target # Nobody
          /\ cancelled' = cancelled \cup {target}
          /\ Respond(h, "cancel_ack", target)
       \/ /\ target = Nobody
          /\ Goto(h, "cancel_load")
          /\ UNCHANGED cancelled
    /\ UNCHANGED <<op, req, status, active, files, late>>

CancelLoad(h) ==
    LET i == final[Run(h)] IN
    /\ pc[h] = "cancel_load"
    /\ \/ i = Nobody /\ Respond(h, "not_found", Nobody)
       \/ Readable(i) /\ Respond(h, "cancel_terminal", content[i])
       \/ i # Nobody /\ ~Readable(i) /\ Respond(h, "persistence_failed", Nobody)
    /\ UNCHANGED <<op, req, status, active, cancelled, files, late>>

Inspect(h) ==
    LET i == final[Run(h)] IN
    /\ pc[h] = "inspect"
    /\ \/ i = Nobody /\ Respond(h, "status", Nobody)
       \/ Readable(i) /\ Respond(h, "status", content[i])
       \/ i # Nobody /\ ~Readable(i) /\ Respond(h, "persistence_failed", Nobody)
    /\ UNCHANGED <<op, req, status, active, cancelled, files, late>>

(* The process dies and is started again: tasks and `active` are gone, the *)
(* files stay.                                                             *)
Crash ==
    /\ \E h \in Handlers : pc[h] \in Live
    /\ pc' = [h \in Handlers |-> IF pc[h] \in Live THEN "dead" ELSE pc[h]]
    /\ active' = [r \in RunIds |-> Nobody]
    /\ cancelled' = {}
    /\ UNCHANGED <<op, req, status, resp, shown, files, late>>

(* What a running task does without waiting for anyone but the backend. *)
Step(h) ==
    \/ LoadRecord(h)
    \/ Register(h)
    \/ Decide(h)
    \/ Deregister(h)
    \/ OpenTmp(h)
    \/ WriteTmp(h)
    \/ Chmod(h)
    \/ Rename(h)
    \/ Cancel(h)
    \/ CancelLoad(h)
    \/ Inspect(h)
    \/ ReadFails(h)
    \/ SaveFails(h)

Next ==
    \/ \E h \in Handlers, o \in Ops, q \in Requests : Receive(h, o, q)
    \/ \E h \in Handlers : Step(h)
    \/ Crash

Spec == Init /\ [][Next]_vars

(* tokio polls every ready task; the backend's wait ends by its timeout. *)
FairSpec == Spec /\ \A h \in Handlers : WF_vars(Step(h))
-----------------------------------------------------------------------------
(* RunnerService::execute: two handlers are never inside the backend for   *)
(* the same run ID, whatever they loaded before taking the active lock.    *)
ActiveExclusive ==
    \A g, h \in Handlers :
        /\ pc[g] \in Executing
        /\ pc[h] \in Executing
        /\ Run(g) = Run(h)
        => g = h

(* RunnerService::execute: an execute command that arrives once the run's  *)
(* result file exists never executes again, across crashes of the daemon   *)
(* and even when the file is torn.                                         *)
ReplayNeverReexecutes ==
    \A h \in late :
        /\ pc[h] \notin {"register"} \cup Executing \cup Saving
        /\ status[h] = "none"

(* FileResultStore::save: a record that can be read at a run's path was    *)
(* built by a handler that executed a request of that very run, and the    *)
(* run had ended.                                                          *)
RecordProvenance ==
    \A r \in RunIds :
        Readable(final[r]) =>
            LET g == content[final[r]] IN Run(g) = r /\ status[g] # "none"

(* FileResultStore::save: when no other handler built a record of the run, *)
(* a Finished answer means the record is at the run's path, for good.      *)
LoneExecutionDurable ==
    \A h \in Handlers :
        /\ resp[h] = "finished"
        /\ \A g \in Handlers \ {h} : Run(g) = Run(h) => status[g] = "none"
        => final[Run(h)] # Nobody /\ content[final[Run(h)]] = h

(* RunnerService::cancel and the biased select: a run ends Cancelled only  *)
(* when a cancel command was acknowledged for that very registration.      *)
CancelledOnlyIfAsked ==
    \A h \in Handlers : status[h] = "cancelled" =>
        \E c \in Handlers :
            op[c] = "cancel" /\ resp[c] = "cancel_ack" /\ shown[c] = h

(* What docs/RUNNER.md promises ("idempotent request replay, and durable   *)
(* terminal results"): a record readable at a run's path is never replaced *)
(* by another nor made unreadable.                                         *)
TerminalRecordIsFinal ==
    [][\A r \in RunIds : Readable(final[r]) =>
          /\ final'[r] # Nobody
          /\ content'[final'[r]] = content[final[r]]]_vars
=============================================================================
