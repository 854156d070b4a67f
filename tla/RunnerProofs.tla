---------------------------- MODULE RunnerProofs ----------------------------
(***************************************************************************)
(* Proofs about Runner for any number of handlers, runs and requests.      *)
(*                                                                         *)
(* IInv strengthens the checked invariants until each step preserves it:   *)
(* `active` names exactly the handlers that are executing (Registered), a  *)
(* late command meets a result that never goes away (LateBlocked), and an  *)
(* inode only ever carries records of the run it was created for           *)
(* (RunOwnsInodes).  RunnerInv adds what an answer stands for: who was     *)
(* cancelled has an acknowledged cancel command (CancelsAnswered), and who *)
(* alone built a record of a run holds its files until they say so         *)
(* (LoneSaves).                                                            *)
(*                                                                         *)
(* Then what stands before the service: the Authenticator (RunnerDaemon),  *)
(* for any envelopes, window and size of its cache, the service behind it, *)
(* and the key its envelopes are signed with (RunnerKey), for any number   *)
(* of processes.                                                           *)
(***************************************************************************)
EXTENDS RunnerDaemon, RunnerKey, TLAPS

Registered ==
    \A r \in RunIds, h \in Handlers :
        active[r] = h <=> (pc[h] \in Executing /\ Run(h) = r)

LateBlocked ==
    /\ \A h \in Handlers : pc[h] = "idle" => h \notin late
    /\ \A h \in Handlers :
          pc[h] \in {"idle", "load", "register"} => status[h] = "none"
    /\ \A h \in late :
          /\ final[Run(h)] # Nobody
          /\ pc[h] \notin {"register"} \cup Executing \cup Saving
          /\ status[h] = "none"

HoldsFd == {"write", "chmod", "rename"}

(* i was created for run r, so it is the inode of a task that has begun. *)
InodeOf(i, r) == pc[i] # "idle" /\ Run(i) = r

RunOwnsInodes ==
    /\ \A r \in RunIds : tmp[r] # Nobody => InodeOf(tmp[r], r)
    /\ \A r \in RunIds : final[r] # Nobody => InodeOf(final[r], r)
    /\ \A h \in Handlers :
          pc[h] \in HoldsFd => fd[h] \in Handlers /\ InodeOf(fd[h], Run(h))
    /\ \A i \in Handlers : content[i] \in Handlers =>
          /\ pc[i] # "idle"
          /\ InodeOf(content[i], Run(i))
          /\ status[content[i]] # "none"
    /\ \A h \in Handlers :
          pc[h] \in {"decided"} \cup Saving => status[h] # "none"
    /\ \A h \in Handlers : status[h] # "none" => pc[h] \notin {"idle", "load",
          "register", "running"}

IInv == TypeOK /\ Registered /\ LateBlocked /\ RunOwnsInodes

USE DEF Ops, RunStatus, Executing, Saving, Live, Responses

(* The operators of the model keep to the types of their arguments. *)
LEMMA RunType ==
    ASSUME TypeOK, NEW h \in Handlers
    PROVE  Run(h) \in RunIds /\ TmpPath(Run(h)) = Run(h)
BY RunnerAssumption DEF TypeOK, Run, TmpPath

(* Init: the first state satisfies each part of the inductive invariant. *)
LEMMA InitIInv ==
    ASSUME Init PROVE IInv
<1>1. (CHOOSE q \in Requests : TRUE) \in Requests
  BY RunnerAssumption
<1>2. TypeOK
  BY <1>1 DEF Init, TypeOK
<1>3. Registered
  BY RunnerAssumption DEF Init, Registered
<1>4. LateBlocked
  BY DEF Init, LateBlocked
<1>5. RunOwnsInodes
  BY RunnerAssumption DEF Init, RunOwnsInodes, HoldsFd
<1>. QED BY <1>2, <1>3, <1>4, <1>5 DEF IInv

(* Each action assigns every variable a value of its type. *)
LEMMA TypeStep ==
    ASSUME IInv, [Next]_vars PROVE TypeOK'
<1>. USE RunnerAssumption DEF TypeOK, IInv
<1>1. ASSUME NEW h \in Handlers, NEW o \in Ops, NEW q \in Requests,
           Receive(h, o, q)
     PROVE TypeOK'
  BY <1>1 DEF Receive, Respond, Goto, Entry, files
<1>2. ASSUME NEW h \in Handlers, LoadRecord(h) PROVE TypeOK'
  BY <1>2, RunType DEF LoadRecord, Respond, Goto, files, Readable
<1>3. ASSUME NEW h \in Handlers, ReadFails(h) PROVE TypeOK'
  BY <1>3, RunType DEF ReadFails, Respond, files
<1>4. ASSUME NEW h \in Handlers, SaveFails(h) PROVE TypeOK'
  BY <1>4, RunType DEF SaveFails, Respond, files
<1>5. ASSUME NEW h \in Handlers, Register(h) PROVE TypeOK'
  BY <1>5, RunType DEF Register, Respond, Goto, files
<1>6. ASSUME NEW h \in Handlers, Decide(h) PROVE TypeOK'
  BY <1>6, RunType DEF Decide, Goto, files, Outcomes
<1>7. ASSUME NEW h \in Handlers, Deregister(h) PROVE TypeOK'
  BY <1>7, RunType DEF Deregister, Goto, files
<1>8. ASSUME NEW h \in Handlers, OpenTmp(h) PROVE TypeOK'
  BY <1>8, RunType DEF OpenTmp, Goto, files
<1>9. ASSUME NEW h \in Handlers, WriteTmp(h) PROVE TypeOK'
  <2>1. PICK c \in {h, Torn} : content' = [content EXCEPT ![fd[h]] = c]
    BY <1>9 DEF WriteTmp
  <2>2. pc[h] = "write" /\ pc' = [pc EXCEPT ![h] = "chmod"]
    BY <1>9 DEF WriteTmp, Goto
  <2>3. UNCHANGED <<op, req, status, resp, shown, active, cancelled, final, tmp,
                    fd, late>>
    BY <1>9 DEF WriteTmp, Goto
  <2>. QED BY <2>1, <2>2, <2>3
<1>10. ASSUME NEW h \in Handlers, Chmod(h) PROVE TypeOK'
  BY <1>10, RunType DEF Chmod, Respond, Goto, files
<1>11. ASSUME NEW h \in Handlers, Rename(h) PROVE TypeOK'
  BY <1>11, RunType DEF Rename, Respond, files
<1>12. ASSUME NEW h \in Handlers, Cancel(h) PROVE TypeOK'
  BY <1>12, RunType DEF Cancel, Respond, Goto, files
<1>13. ASSUME NEW h \in Handlers, CancelLoad(h) PROVE TypeOK'
  BY <1>13, RunType DEF CancelLoad, Respond, files, Readable
<1>14. ASSUME NEW h \in Handlers, Inspect(h) PROVE TypeOK'
  BY <1>14, RunType DEF Inspect, Respond, files, Readable
<1>15. CASE Crash
  BY <1>15 DEF Crash, files
<1>16. CASE UNCHANGED vars
  BY <1>16 DEF vars, files
<1>. QED
    BY <1>1, <1>2, <1>3, <1>4, <1>5, <1>6, <1>7, <1>8, <1>9, <1>10, <1>11, <1>12,
     <1>13, <1>14, <1>15, <1>16 DEF Next, Step

(* The active map gains a handler exactly when it starts to execute and    *)
(* loses it exactly when it stops.                                         *)
LEMMA RegisteredStep ==
    ASSUME IInv, [Next]_vars PROVE Registered'
<1>. USE RunnerAssumption DEF TypeOK, IInv, Registered, Run
<1>1. ASSUME NEW h \in Handlers, NEW o \in Ops, NEW q \in Requests,
           Receive(h, o, q)
     PROVE Registered'
  BY <1>1 DEF Receive, Respond, Goto, Entry, files
<1>2. ASSUME NEW h \in Handlers, LoadRecord(h) PROVE Registered'
  BY <1>2, RunType DEF LoadRecord, Respond, Goto, files, Readable
<1>3. ASSUME NEW h \in Handlers, ReadFails(h) PROVE Registered'
  BY <1>3, RunType DEF ReadFails, Respond, files
<1>4. ASSUME NEW h \in Handlers, SaveFails(h) PROVE Registered'
  BY <1>4, RunType DEF SaveFails, Respond, files
<1>5. ASSUME NEW h \in Handlers, Register(h) PROVE Registered'
  BY <1>5, RunType DEF Register, Respond, Goto, files
<1>6. ASSUME NEW h \in Handlers, Decide(h) PROVE Registered'
  BY <1>6, RunType DEF Decide, Goto, files, Outcomes
<1>7. ASSUME NEW h \in Handlers, Deregister(h) PROVE Registered'
  BY <1>7, RunType DEF Deregister, Goto, files
<1>8. ASSUME NEW h \in Handlers, OpenTmp(h) PROVE Registered'
  BY <1>8, RunType DEF OpenTmp, Goto, files
<1>9. ASSUME NEW h \in Handlers, WriteTmp(h) PROVE Registered'
  BY <1>9, RunType DEF WriteTmp, Goto, files
<1>10. ASSUME NEW h \in Handlers, Chmod(h) PROVE Registered'
  BY <1>10, RunType DEF Chmod, Respond, Goto, files
<1>11. ASSUME NEW h \in Handlers, Rename(h) PROVE Registered'
  BY <1>11, RunType DEF Rename, Respond, files
<1>12. ASSUME NEW h \in Handlers, Cancel(h) PROVE Registered'
  BY <1>12, RunType DEF Cancel, Respond, Goto, files
<1>13. ASSUME NEW h \in Handlers, CancelLoad(h) PROVE Registered'
  BY <1>13, RunType DEF CancelLoad, Respond, files, Readable
<1>14. ASSUME NEW h \in Handlers, Inspect(h) PROVE Registered'
  BY <1>14, RunType DEF Inspect, Respond, files, Readable
<1>15. CASE Crash
  BY <1>15 DEF Crash, files
<1>16. CASE UNCHANGED vars
  BY <1>16 DEF vars, files
<1>. QED
    BY <1>1, <1>2, <1>3, <1>4, <1>5, <1>6, <1>7, <1>8, <1>9, <1>10, <1>11, <1>12,
     <1>13, <1>14, <1>15, <1>16 DEF Next, Step

(* A result, once at its path, stays there, so a command that came after   *)
(* it never passes the lookup.                                             *)
LEMMA LateStep ==
    ASSUME IInv, [Next]_vars PROVE LateBlocked'
<1>. USE RunnerAssumption DEF TypeOK, IInv, LateBlocked, Run, TmpPath
<1>1. ASSUME NEW h \in Handlers, NEW o \in Ops, NEW q \in Requests,
           Receive(h, o, q)
     PROVE LateBlocked'
  BY <1>1 DEF Receive, Respond, Goto, Entry, files
<1>2. ASSUME NEW h \in Handlers, LoadRecord(h) PROVE LateBlocked'
  BY <1>2, RunType DEF LoadRecord, Respond, Goto, files, Readable
<1>3. ASSUME NEW h \in Handlers, ReadFails(h) PROVE LateBlocked'
  BY <1>3, RunType DEF ReadFails, Respond, files
<1>4. ASSUME NEW h \in Handlers, SaveFails(h) PROVE LateBlocked'
  BY <1>4, RunType DEF SaveFails, Respond, files
<1>5. ASSUME NEW h \in Handlers, Register(h) PROVE LateBlocked'
  BY <1>5, RunType DEF Register, Respond, Goto, files
<1>6. ASSUME NEW h \in Handlers, Decide(h) PROVE LateBlocked'
  BY <1>6, RunType DEF Decide, Goto, files, Outcomes
<1>7. ASSUME NEW h \in Handlers, Deregister(h) PROVE LateBlocked'
  BY <1>7, RunType DEF Deregister, Goto, files
<1>8. ASSUME NEW h \in Handlers, OpenTmp(h) PROVE LateBlocked'
  BY <1>8, RunType DEF OpenTmp, Goto, files
<1>9. ASSUME NEW h \in Handlers, WriteTmp(h) PROVE LateBlocked'
  BY <1>9, RunType DEF WriteTmp, Goto, files
<1>10. ASSUME NEW h \in Handlers, Chmod(h) PROVE LateBlocked'
  BY <1>10, RunType DEF Chmod, Respond, Goto, files
<1>11. ASSUME NEW h \in Handlers, Rename(h) PROVE LateBlocked'
  BY <1>11, RunType DEF Rename, Respond, files
<1>12. ASSUME NEW h \in Handlers, Cancel(h) PROVE LateBlocked'
  BY <1>12, RunType DEF Cancel, Respond, Goto, files
<1>13. ASSUME NEW h \in Handlers, CancelLoad(h) PROVE LateBlocked'
  BY <1>13, RunType DEF CancelLoad, Respond, files, Readable
<1>14. ASSUME NEW h \in Handlers, Inspect(h) PROVE LateBlocked'
  BY <1>14, RunType DEF Inspect, Respond, files, Readable
<1>15. CASE Crash
  BY <1>15 DEF Crash, files
<1>16. CASE UNCHANGED vars
  BY <1>16 DEF vars, files
<1>. QED
    BY <1>1, <1>2, <1>3, <1>4, <1>5, <1>6, <1>7, <1>8, <1>9, <1>10, <1>11, <1>12,
     <1>13, <1>14, <1>15, <1>16 DEF Next, Step

(* Temporary paths are per run, so a record never reaches an inode of      *)
(* another run.                                                            *)
LEMMA InodeStep ==
    ASSUME IInv, [Next]_vars PROVE RunOwnsInodes'
<1>. USE RunnerAssumption DEF TypeOK, IInv, RunOwnsInodes, InodeOf, HoldsFd, Run, TmpPath
<1>1. ASSUME NEW h \in Handlers, NEW o \in Ops, NEW q \in Requests,
           Receive(h, o, q)
     PROVE RunOwnsInodes'
  BY <1>1 DEF Receive, Respond, Goto, Entry, files
<1>2. ASSUME NEW h \in Handlers, LoadRecord(h) PROVE RunOwnsInodes'
  BY <1>2, RunType DEF LoadRecord, Respond, Goto, files, Readable
<1>3. ASSUME NEW h \in Handlers, ReadFails(h) PROVE RunOwnsInodes'
  BY <1>3, RunType DEF ReadFails, Respond, files
<1>4. ASSUME NEW h \in Handlers, SaveFails(h) PROVE RunOwnsInodes'
  BY <1>4, RunType DEF SaveFails, Respond, files
<1>5. ASSUME NEW h \in Handlers, Register(h) PROVE RunOwnsInodes'
  BY <1>5, RunType DEF Register, Respond, Goto, files
<1>6. ASSUME NEW h \in Handlers, Decide(h) PROVE RunOwnsInodes'
  BY <1>6, RunType DEF Decide, Goto, files, Outcomes
<1>7. ASSUME NEW h \in Handlers, Deregister(h) PROVE RunOwnsInodes'
  BY <1>7, RunType DEF Deregister, Goto, files
<1>8. ASSUME NEW h \in Handlers, OpenTmp(h) PROVE RunOwnsInodes'
  <2>. DEFINE i == IF tmp[Run(h)] = Nobody THEN h ELSE tmp[Run(h)]
  <2>0. Run(h) \in RunIds /\ pc[h] = "open"
    BY <1>8, RunType DEF OpenTmp
  <2>1. i \in Handlers /\ pc[i] # "idle" /\ Run(i) = Run(h)
    <3>1. CASE tmp[Run(h)] = Nobody
      BY <2>0, <3>1
    <3>2. CASE tmp[Run(h)] # Nobody
      BY <2>0, <3>2
    <3>. QED BY <3>1, <3>2
  <2>2. /\ pc[h] = "open"
        /\ tmp' = [tmp EXCEPT ![Run(h)] = i]
        /\ fd' = [fd EXCEPT ![h] = i]
        /\ content' = [content EXCEPT ![i] = Empty]
        /\ pc' = [pc EXCEPT ![h] = "write"]
        /\ UNCHANGED <<req, status, final>>
    BY <1>8 DEF OpenTmp, Goto
  <2>. HIDE DEF i
  <2>. QED BY <2>1, <2>2, RunType
<1>9. ASSUME NEW h \in Handlers, WriteTmp(h) PROVE RunOwnsInodes'
  <2>1. PICK c \in {h, Torn} : content' = [content EXCEPT ![fd[h]] = c]
    BY <1>9 DEF WriteTmp
  <2>2. pc[h] = "write" /\ pc' = [pc EXCEPT ![h] = "chmod"]
    BY <1>9 DEF WriteTmp, Goto
  <2>3. UNCHANGED <<op, req, status, resp, shown, active, cancelled, final, tmp,
                    fd, late>>
    BY <1>9 DEF WriteTmp, Goto
  <2>. QED BY <2>1, <2>2, <2>3
<1>10. ASSUME NEW h \in Handlers, Chmod(h) PROVE RunOwnsInodes'
  BY <1>10, RunType DEF Chmod, Respond, Goto, files
<1>11. ASSUME NEW h \in Handlers, Rename(h) PROVE RunOwnsInodes'
  BY <1>11, RunType DEF Rename, Respond, files
<1>12. ASSUME NEW h \in Handlers, Cancel(h) PROVE RunOwnsInodes'
  BY <1>12, RunType DEF Cancel, Respond, Goto, files
<1>13. ASSUME NEW h \in Handlers, CancelLoad(h) PROVE RunOwnsInodes'
  BY <1>13, RunType DEF CancelLoad, Respond, files, Readable
<1>14. ASSUME NEW h \in Handlers, Inspect(h) PROVE RunOwnsInodes'
  BY <1>14, RunType DEF Inspect, Respond, files, Readable
<1>15. CASE Crash
  BY <1>15 DEF Crash, files
<1>16. CASE UNCHANGED vars
  BY <1>16 DEF vars, files
<1>. QED
    BY <1>1, <1>2, <1>3, <1>4, <1>5, <1>6, <1>7, <1>8, <1>9, <1>10, <1>11, <1>12,
     <1>13, <1>14, <1>15, <1>16 DEF Next, Step

(* Any behaviour keeps the inductive invariant, whatever the constants. *)
THEOREM Inductive == Spec => []IInv
<1>1. Init => IInv
  BY InitIInv
<1>2. IInv /\ [Next]_vars => IInv'
  BY TypeStep, RegisteredStep, LateStep, InodeStep DEF IInv
<1>. QED BY <1>1, <1>2, PTL DEF Spec

(* The daemon's state stays well typed. *)
THEOREM TypeCorrect == Spec => []TypeOK
<1>1. IInv => TypeOK
  BY DEF IInv
<1>. QED BY <1>1, Inductive, PTL

(* RunnerService::execute: at most one handler is executing a run, although *)
(* the lookup in the store precedes the active lock.                       *)
THEOREM Exclusion == Spec => []ActiveExclusive
<1>1. IInv => ActiveExclusive
  BY RunType DEF IInv, Registered, ActiveExclusive
<1>. QED BY <1>1, Inductive, PTL

(* RunnerService::execute: a command that arrives after a run's result was *)
(* published never executes the run again, crashes included.               *)
THEOREM NoReexecution == Spec => []ReplayNeverReexecutes
<1>1. IInv => ReplayNeverReexecutes
  BY DEF IInv, LateBlocked, ReplayNeverReexecutes
<1>. QED BY <1>1, Inductive, PTL

(* FileResultStore: a readable result belongs to its run and to a handler  *)
(* that ended it, whatever saves shared the temporary path.                *)
THEOREM Provenance == Spec => []RecordProvenance
<1>1. IInv => RecordProvenance
  BY RunnerAssumption DEF IInv, TypeOK, RunOwnsInodes, InodeOf, Readable,
     RecordProvenance, Run
<1>. QED BY <1>1, Inductive, PTL

(* A cancel command was acknowledged for the registration of h.           *)
Asked(h) ==
    \E c \in Handlers : op[c] = "cancel" /\ resp[c] = "cancel_ack" /\ shown[c] = h

(* Only an answered cancel command sets the channel of a handler.          *)
CancelsAnswered ==
    /\ \A c \in Handlers : resp[c] # "none" => pc[c] = "done"
    /\ \A c \in Handlers : pc[c] = "cancel" => op[c] = "cancel"
    /\ \A h \in Handlers : h \in cancelled \/ status[h] = "cancelled" => Asked(h)

(* i has been opened by the handler that it is named for.                  *)
Opened(i) == pc[i] \in {"write", "chmod", "rename", "done", "dead"} /\ status[i] # "none"

Alone(h) == \A g \in Handlers \ {h} : Run(g) = Run(h) => status[g] = "none"

(* A handler that alone built a record of its run has the files of the run *)
(* to itself.                                                              *)
LoneSaves ==
    /\ \A r \in RunIds : /\ tmp[r] # Nobody => Opened(tmp[r])
                         /\ final[r] # Nobody => Opened(final[r])
    /\ \A h \in Handlers : Alone(h) =>
          /\ pc[h] \in {"write", "chmod", "rename"} => tmp[Run(h)] = h /\ fd[h] = h
          /\ pc[h] = "write" => content[h] = Empty
          /\ pc[h] \in {"chmod", "rename"} => content[h] = h
          /\ resp[h] = "finished" => final[Run(h)] = h /\ content[h] = h

RunnerInv == IInv /\ CancelsAnswered /\ LoneSaves

(* An answer is the end of its handler, so it stays what it is.            *)
LEMMA CancelsStep ==
    ASSUME RunnerInv, [Next]_vars PROVE CancelsAnswered'
<1>. USE RunnerAssumption DEF TypeOK, IInv, RunnerInv, CancelsAnswered, Asked
<1>1. ASSUME NEW h \in Handlers, NEW o \in Ops, NEW q \in Requests,
           Receive(h, o, q)
     PROVE CancelsAnswered'
  <2>1. /\ pc[h] = "idle" /\ pc' = [pc EXCEPT ![h] = pc'[h]]
        /\ resp'[h] # "none" => pc'[h] = "done"
        /\ pc'[h] = "cancel" => op'[h] = "cancel"
        /\ UNCHANGED <<status, cancelled>>
    BY <1>1 DEF Receive, Respond, Goto, Entry
  <2>2. \A c \in Handlers \ {h} : /\ pc'[c] = pc[c] /\ op'[c] = op[c]
                                  /\ resp'[c] = resp[c] /\ shown'[c] = shown[c]
    BY <1>1 DEF Receive, Respond, Goto
  <2>3. ASSUME NEW g \in Handlers, Asked(g) PROVE Asked(g)'
    <3>1. PICK c \in Handlers : op[c] = "cancel" /\ resp[c] = "cancel_ack" /\ shown[c] = g
      BY <2>3
    <3>2. c # h
      BY <2>1, <3>1
    <3> QED BY <2>2, <3>1, <3>2
  <2> HIDE DEF Asked
  <2> QED BY <2>1, <2>2, <2>3
<1>2. ASSUME NEW h \in Handlers, LoadRecord(h) PROVE CancelsAnswered'
  BY <1>2 DEF LoadRecord, Respond, Goto
<1>3. ASSUME NEW h \in Handlers, ReadFails(h) PROVE CancelsAnswered'
  BY <1>3 DEF ReadFails, Respond
<1>4. ASSUME NEW h \in Handlers, SaveFails(h) PROVE CancelsAnswered'
  BY <1>4 DEF SaveFails, Respond
<1>5. ASSUME NEW h \in Handlers, Register(h) PROVE CancelsAnswered'
  BY <1>5 DEF Register, Respond, Goto
<1>6. ASSUME NEW h \in Handlers, Decide(h) PROVE CancelsAnswered'
  BY <1>6 DEF Decide, Goto, Outcomes
<1>7. ASSUME NEW h \in Handlers, Deregister(h) PROVE CancelsAnswered'
  BY <1>7 DEF Deregister, Goto
<1>8. ASSUME NEW h \in Handlers, OpenTmp(h) PROVE CancelsAnswered'
  BY <1>8 DEF OpenTmp, Goto
<1>9. ASSUME NEW h \in Handlers, WriteTmp(h) PROVE CancelsAnswered'
  BY <1>9 DEF WriteTmp, Goto
<1>10. ASSUME NEW h \in Handlers, Chmod(h) PROVE CancelsAnswered'
  BY <1>10 DEF Chmod, Respond, Goto
<1>11. ASSUME NEW h \in Handlers, Rename(h) PROVE CancelsAnswered'
  BY <1>11 DEF Rename, Respond
<1>12. ASSUME NEW h \in Handlers, Cancel(h) PROVE CancelsAnswered'
  BY <1>12 DEF Cancel, Respond, Goto
<1>13. ASSUME NEW h \in Handlers, CancelLoad(h) PROVE CancelsAnswered'
  BY <1>13 DEF CancelLoad, Respond
<1>14. ASSUME NEW h \in Handlers, Inspect(h) PROVE CancelsAnswered'
  BY <1>14 DEF Inspect, Respond
<1>15. CASE Crash
  BY <1>15 DEF Crash
<1>16. CASE UNCHANGED vars
  BY <1>16 DEF vars
<1>. QED
    BY <1>1, <1>2, <1>3, <1>4, <1>5, <1>6, <1>7, <1>8, <1>9, <1>10, <1>11, <1>12,
     <1>13, <1>14, <1>15, <1>16 DEF Next, Step

(* Who shares no run with a record touches none of its files.              *)
LEMMA LoneStep ==
    ASSUME RunnerInv, [Next]_vars PROVE LoneSaves'
<1>. USE RunnerAssumption DEF TypeOK, IInv, RunnerInv, LoneSaves, Opened, Alone, Run, TmpPath
<1>1. ASSUME NEW h \in Handlers, NEW o \in Ops, NEW q \in Requests,
           Receive(h, o, q)
     PROVE LoneSaves'
  <2>1. /\ pc[h] = "idle" /\ pc'[h] \in {"load", "cancel", "inspect", "done"}
        /\ resp'[h] # "finished" /\ status[h] = "none"
        /\ \A g \in Handlers \ {h} : pc'[g] = pc[g] /\ resp'[g] = resp[g] /\ Run(g)' = Run(g)
        /\ UNCHANGED <<status, tmp, final, fd, content>>
    BY <1>1 DEF Receive, Respond, Goto, Entry, files, LateBlocked, CancelsAnswered
  <2>2. \A g \in Handlers \ {h} : Alone(g)' => Alone(g)
    BY <2>1
  <2>3. \A g \in Handlers : Alone(g)' =>
          /\ pc'[g] \in {"write", "chmod", "rename"} => tmp'[Run(g)'] = g /\ fd'[g] = g
          /\ pc'[g] = "write" => content'[g] = Empty
          /\ pc'[g] \in {"chmod", "rename"} => content'[g] = g
          /\ resp'[g] = "finished" => final'[Run(g)'] = g /\ content'[g] = g
    BY <2>1, <2>2
  <2> QED BY <2>1, <2>3
<1>2. ASSUME NEW h \in Handlers, LoadRecord(h) PROVE LoneSaves'
    BY <1>2, RunType DEF LoadRecord, Respond, Goto, files, Readable, RunOwnsInodes,
     InodeOf, HoldsFd, CancelsAnswered
<1>3. ASSUME NEW h \in Handlers, ReadFails(h) PROVE LoneSaves'
    BY <1>3, RunType DEF ReadFails, Respond, files, RunOwnsInodes, InodeOf, HoldsFd,
     CancelsAnswered
<1>4. ASSUME NEW h \in Handlers, SaveFails(h) PROVE LoneSaves'
    BY <1>4, RunType DEF SaveFails, Respond, files, RunOwnsInodes, InodeOf, HoldsFd,
     CancelsAnswered
<1>5. ASSUME NEW h \in Handlers, Register(h) PROVE LoneSaves'
    BY <1>5, RunType DEF Register, Respond, Goto, files, RunOwnsInodes, InodeOf,
     HoldsFd, CancelsAnswered
<1>6. ASSUME NEW h \in Handlers, Decide(h) PROVE LoneSaves'
    BY <1>6, RunType DEF Decide, Goto, files, Outcomes, RunOwnsInodes, InodeOf,
     HoldsFd, CancelsAnswered
<1>7. ASSUME NEW h \in Handlers, Deregister(h) PROVE LoneSaves'
    BY <1>7, RunType DEF Deregister, Goto, files, RunOwnsInodes, InodeOf, HoldsFd,
     CancelsAnswered
<1>8. ASSUME NEW h \in Handlers, OpenTmp(h) PROVE LoneSaves'
    BY <1>8, RunType DEF OpenTmp, Goto, files, RunOwnsInodes, InodeOf, HoldsFd,
     CancelsAnswered
<1>9. ASSUME NEW h \in Handlers, WriteTmp(h) PROVE LoneSaves'
    BY <1>9, RunType DEF WriteTmp, Goto, files, RunOwnsInodes, InodeOf, HoldsFd,
     CancelsAnswered
<1>10. ASSUME NEW h \in Handlers, Chmod(h) PROVE LoneSaves'
    BY <1>10, RunType DEF Chmod, Respond, Goto, files, RunOwnsInodes, InodeOf,
     HoldsFd, CancelsAnswered
<1>11. ASSUME NEW h \in Handlers, Rename(h) PROVE LoneSaves'
    BY <1>11, RunType DEF Rename, Respond, files, RunOwnsInodes, InodeOf, HoldsFd,
     CancelsAnswered
<1>12. ASSUME NEW h \in Handlers, Cancel(h) PROVE LoneSaves'
    BY <1>12, RunType DEF Cancel, Respond, Goto, files, RunOwnsInodes, InodeOf,
     HoldsFd, CancelsAnswered
<1>13. ASSUME NEW h \in Handlers, CancelLoad(h) PROVE LoneSaves'
    BY <1>13, RunType DEF CancelLoad, Respond, files, Readable, RunOwnsInodes,
     InodeOf, HoldsFd, CancelsAnswered
<1>14. ASSUME NEW h \in Handlers, Inspect(h) PROVE LoneSaves'
    BY <1>14, RunType DEF Inspect, Respond, files, Readable, RunOwnsInodes, InodeOf,
     HoldsFd, CancelsAnswered
<1>15. CASE Crash
  BY <1>15 DEF Crash, files
<1>16. CASE UNCHANGED vars
  BY <1>16 DEF vars, files
<1>. QED
    BY <1>1, <1>2, <1>3, <1>4, <1>5, <1>6, <1>7, <1>8, <1>9, <1>10, <1>11, <1>12,
     <1>13, <1>14, <1>15, <1>16 DEF Next, Step

(* What both theorems below rest on, at every state of every behaviour.    *)
LEMMA RunnerInvariant == Spec => []RunnerInv
<1>1. Init => CancelsAnswered /\ LoneSaves
  BY RunnerAssumption DEF Init, CancelsAnswered, LoneSaves
<1>2. RunnerInv /\ [Next]_vars => (CancelsAnswered /\ LoneSaves)'
  BY CancelsStep, LoneStep
<1>. QED BY <1>1, <1>2, Inductive, PTL DEF Spec, RunnerInv

(* RunnerService::cancel and the biased select: a run ends Cancelled only  *)
(* when a cancel command was acknowledged for that very registration.      *)
THEOREM CancelledWhenAsked == Spec => []CancelledOnlyIfAsked
<1>1. RunnerInv => CancelledOnlyIfAsked
  BY DEF RunnerInv, CancelsAnswered, Asked, CancelledOnlyIfAsked
<1>. QED BY <1>1, RunnerInvariant, PTL

(* FileResultStore::save: when no other handler built a record of the run, *)
(* a Finished answer means the record is at the run's path, for good.      *)
THEOREM LoneRecordKept == Spec => []LoneExecutionDurable
<1>1. RunnerInv => LoneExecutionDurable
  BY RunnerAssumption DEF RunnerInv, LoneSaves, Alone, LoneExecutionDurable
<1>. QED BY <1>1, RunnerInvariant, PTL
-----------------------------------------------------------------------------
(* The gate: an envelope that was accepted leaves the cache only when it   *)
(* has expired, and what has expired stays so while the readings of the    *)
(* clock reach the cache in order.                                         *)
Remembered ==
    \A e \in accepted :
        /\ Issued[e] - newest <= Window
        /\ e \in seen \/ newest - Issued[e] > Window

(* A connection is verified with what it has sent. *)
Sent == \A h \in Handlers : gate[h] = "verify" => envelope[h] # Nobody

AcceptedInv ==
    /\ DaemonTypeOK
    /\ Sent
    /\ ~overtaken => Remembered /\ twice = {}

(* A daemon that starts has accepted nothing. *)
LEMMA DaemonStart ==
    ASSUME DaemonInit PROVE AcceptedInv
<1>1. /\ gate \in [Handlers -> {"waiting", "closed", "verify", "admitted", "rejected", "dead"}]
      /\ envelope \in [Handlers -> Envelopes \cup {Forged, Nobody}]
  BY DEF DaemonInit
<1>2. now \in [Handlers -> 0..MaxTime] /\ newest \in 0..MaxTime
  BY DaemonAssumption DEF DaemonInit
<1>. QED BY <1>1, <1>2 DEF DaemonInit, AcceptedInv, DaemonTypeOK, Sent, Remembered

(* Before the lock of the cache, and once an envelope is through, nothing  *)
(* of the cache changes.                                                   *)
LEMMA CacheUntouched ==
    ASSUME AcceptedInv, NEW h \in Handlers,
           \/ \E e \in Envelopes \cup {Forged}, t \in 0..MaxTime : Connect(h, e, t)
           \/ FrameFails(h) \/ VerifyFails(h) \/ Work(h)
    PROVE  AcceptedInv'
<1>1. CASE \E e \in Envelopes \cup {Forged}, t \in 0..MaxTime : Connect(h, e, t)
  BY <1>1, DaemonAssumption DEF Connect, AcceptedInv, DaemonTypeOK, Sent, Remembered
<1>2. CASE FrameFails(h)
  BY <1>2 DEF FrameFails, AcceptedInv, DaemonTypeOK, Sent, Remembered
<1>3. CASE VerifyFails(h)
  BY <1>3 DEF VerifyFails, Verdict, AcceptedInv, DaemonTypeOK, Sent, Remembered
<1>5. CASE Work(h)
  BY <1>5 DEF Work, authenticator, AcceptedInv, DaemonTypeOK, Sent, Remembered
<1>. QED BY <1>1, <1>2, <1>3, <1>5

(* Authenticator::verify in its lock section. *)
LEMMA VerifyKeeps ==
    ASSUME AcceptedInv, NEW h \in Handlers, VerifyNonce(h)
    PROVE  AcceptedInv'
<1>. DEFINE e == envelope[h]
            t == now[h]
<1>1. /\ e \in Envelopes /\ t \in Nat /\ newest \in Nat /\ Window \in Nat
      /\ Within(e, t)
      /\ \A d \in Envelopes : Issued[d] \in Nat
  BY DaemonAssumption DEF VerifyNonce, Acceptable, Signed, AcceptedInv, DaemonTypeOK, Sent
<1>2. /\ newest' \in Nat /\ newest <= newest' /\ newest' \in 0..MaxTime
      /\ ~overtaken' => ~overtaken /\ newest' = t
      /\ seen' \in {Retained(t), Retained(t) \cup {e}}
      /\ Retained(t) \subseteq seen'
  <2>1. newest \in 0..MaxTime /\ t \in 0..MaxTime /\ overtaken \in BOOLEAN
    BY DEF AcceptedInv, DaemonTypeOK
  <2>2. /\ newest' = IF t > newest THEN t ELSE newest
        /\ overtaken' = (overtaken \/ t < newest)
    BY DEF VerifyNonce
  <2>3. seen' \in {Retained(t), Retained(t) \cup {e}}
    BY DEF VerifyNonce
  <2>4. newest' \in 0..MaxTime /\ newest <= newest' /\ (~(t < newest) => newest' = t)
    <3>. HIDE DEF t
    <3>. QED BY <2>1, <2>2
  <2>5. ~overtaken' => ~overtaken /\ ~(t < newest)
    BY <2>2
  <2>6. newest' \in Nat
    BY <2>4
  <2>7. Retained(t) \subseteq seen'
    BY <2>3
  <2>. QED BY <2>3, <2>4, <2>5, <2>6, <2>7
<1>3. DaemonTypeOK'
  <2>1. gate' \in [Handlers -> {"waiting", "closed", "verify", "admitted", "rejected", "dead"}]
    BY DEF VerifyNonce, Verdict, AcceptedInv, DaemonTypeOK
  <2>2. /\ seen' \in SUBSET Envelopes /\ overtaken' \in BOOLEAN
        /\ accepted' \in SUBSET Envelopes /\ twice' \in SUBSET Envelopes
    BY <1>1, <1>2 DEF VerifyNonce, Retained, AcceptedInv, DaemonTypeOK
  <2>3. UNCHANGED <<envelope, now>>
    BY DEF VerifyNonce
  <2>4. newest' \in 0..MaxTime
    BY <1>2
  <2>. HIDE DEF e, t
  <2>. QED BY <2>1, <2>2, <2>3, <2>4 DEF AcceptedInv, DaemonTypeOK
<1>4. Sent'
  BY DEF VerifyNonce, Verdict, AcceptedInv, DaemonTypeOK, Sent
<1>5. \/ UNCHANGED <<accepted, twice>>
      \/ /\ e \notin Retained(t) /\ seen' = Retained(t) \cup {e}
         /\ accepted' = accepted \cup {e}
         /\ twice' = twice \cup ({e} \cap accepted)
  BY DEF VerifyNonce
<1>6. ASSUME ~overtaken' PROVE Remembered' /\ twice' = {}
  <2>1. Remembered /\ twice = {} /\ newest' = t /\ newest <= t
    BY <1>2, <1>6 DEF AcceptedInv
  <2>2. ASSUME NEW d \in accepted
        PROVE  /\ Issued[d] - t <= Window
               /\ d \in Retained(t) \/ t - Issued[d] > Window
    <3>1. d \in Envelopes /\ Issued[d] \in Nat
      BY <1>1 DEF AcceptedInv, DaemonTypeOK
    <3>2. /\ Issued[d] - newest <= Window
          /\ d \in seen \/ newest - Issued[d] > Window
      BY <2>1 DEF Remembered
    <3>3. Issued[d] - t <= Window
      BY <1>1, <2>1, <3>1, <3>2
    <3>4. CASE d \in seen
      BY <1>1, <3>1, <3>3, <3>4 DEF Retained, Within
    <3>5. CASE newest - Issued[d] > Window
      BY <1>1, <2>1, <3>1, <3>5
    <3>. QED BY <3>2, <3>3, <3>4, <3>5
  <2>3. e \in Retained(t) \/ e \notin accepted
    BY <1>1, <2>2 DEF Within
  <2>4. ASSUME NEW d \in accepted'
        PROVE  /\ Issued[d] - newest' <= Window
               /\ d \in seen' \/ newest' - Issued[d] > Window
    <3>1. CASE d \in accepted
      BY <1>2, <2>1, <2>2, <3>1
    <3>2. CASE d \notin accepted
      BY <1>1, <1>5, <2>1, <2>4, <3>2 DEF Within
    <3>. QED BY <3>1, <3>2
  <2>5. twice' = {}
    BY <1>5, <2>1, <2>3
  <2>. QED BY <2>4, <2>5 DEF Remembered
<1>. QED BY <1>3, <1>4, <1>6 DEF AcceptedInv

(* A crash forgets the cache and everything it has accepted. *)
LEMMA CrashKeeps ==
    ASSUME AcceptedInv, DaemonCrash PROVE AcceptedInv'
<1>1. gate' \in [Handlers -> {"waiting", "closed", "verify", "admitted", "rejected", "dead"}]
  BY DEF DaemonCrash, AcceptedInv, DaemonTypeOK
<1>2. newest' \in 0..MaxTime
  BY DaemonAssumption DEF DaemonCrash
<1>. QED BY <1>1, <1>2 DEF DaemonCrash, AcceptedInv, DaemonTypeOK, Sent, Remembered

(* The cache remembers what it must in every reachable state. *)
THEOREM AcceptedInductive == DaemonSpec => []AcceptedInv
<1>1. DaemonInit => AcceptedInv
  BY DaemonStart
<1>2. AcceptedInv /\ [DaemonNext]_<<vars, authenticator>> => AcceptedInv'
  <2>. SUFFICES ASSUME AcceptedInv, [DaemonNext]_<<vars, authenticator>>
                PROVE  AcceptedInv'
    OBVIOUS
  <2>1. CASE UNCHANGED <<vars, authenticator>>
    BY <2>1 DEF authenticator, AcceptedInv, DaemonTypeOK, Sent, Remembered
  <2>2. CASE DaemonNext
    BY <2>2, CacheUntouched, VerifyKeeps, CrashKeeps DEF DaemonNext, Verify
  <2>. QED BY <2>1, <2>2
<1>. QED BY <1>1, <1>2, PTL DEF DaemonSpec

(* Authenticator::verify: no envelope is accepted twice by one daemon      *)
(* unless a verification overtook another on the way to the lock.          *)
THEOREM NoReplay == DaemonSpec => []AcceptedOnce
<1>1. AcceptedInv => AcceptedOnce
  BY DEF AcceptedInv, AcceptedOnce
<1>. QED BY <1>1, AcceptedInductive, PTL
-----------------------------------------------------------------------------
(* Whoever is about to link has written its key, and the key file is there *)
(* from the first link on.                                                 *)
KeyOf(p) ==
    /\ written[p] \in {NoKey, p}
    /\ at[p] = "link" => written[p] = p
    /\ at[p] = "load" => linked # NoKey

KeyInv ==
    /\ at \in [Starters -> {"start", "create", "write", "link", "load", "done", "failed"}]
    /\ written \in [Starters -> Starters \cup {NoKey}]
    /\ key \in [Starters -> Starters \cup {NoKey}]
    /\ linked \in Starters \cup {NoKey}
    /\ \A p \in Starters : KeyOf(p)
    /\ OneKey

(* load_or_create_auth_key: any number of processes may start and die at   *)
(* once, and all that get a key get the same.                              *)
THEOREM SingleKey == KeySpec => []OneKey
<1>1. KeyInit => KeyInv
  BY KeyAssumption DEF KeyInit, KeyInv, KeyOf, OneKey
<1>2. KeyInv /\ [KeyNext]_keyVars => KeyInv'
  <2>. SUFFICES ASSUME KeyInv, [KeyNext]_keyVars PROVE KeyInv'
    OBVIOUS
  <2>. USE KeyAssumption DEF KeyInv, KeyOf, OneKey, Move
  <2>1. CASE UNCHANGED keyVars
    BY <2>1 DEF keyVars
  <2>2. ASSUME NEW p \in Starters, LoadFirst(p) PROVE KeyInv'
    BY <2>2 DEF LoadFirst, Load
  <2>3. ASSUME NEW p \in Starters, CreateTemporary(p) PROVE KeyInv'
    BY <2>3 DEF CreateTemporary
  <2>4. ASSUME NEW p \in Starters, WriteKey(p) PROVE KeyInv'
    BY <2>4 DEF WriteKey
  <2>5. ASSUME NEW p \in Starters, LinkKey(p) PROVE KeyInv'
    BY <2>5 DEF LinkKey
  <2>6. ASSUME NEW p \in Starters, LoadLinked(p) PROVE KeyInv'
    BY <2>6 DEF LoadLinked, Load
  <2>7. ASSUME NEW p \in Starters, KeyFails(p) PROVE KeyInv'
    BY <2>7 DEF KeyFails
  <2>8. ASSUME NEW p \in Starters, KeyCrash(p) PROVE KeyInv'
    BY <2>8 DEF KeyCrash
  <2>. QED BY <2>1, <2>2, <2>3, <2>4, <2>5, <2>6, <2>7, <2>8 DEF KeyNext
<1>3. KeyInv => OneKey
  BY DEF KeyInv
<1>. QED BY <1>1, <1>2, <1>3, PTL DEF KeySpec

-----------------------------------------------------------------------------
(* RunnerService behind the gate is the RunnerService of Runner: a         *)
(* connection's verification is a stutter or the reception of a command,   *)
(* and a daemon that dies while it only verifies loses no handler.         *)
THEOREM DaemonIsRunner == DaemonSpec => Spec
<1>1. DaemonInit => Init
  BY DEF DaemonInit
<1>2. AcceptedInv /\ [DaemonNext]_<<vars, authenticator>> => [Next]_vars
  <2>. SUFFICES ASSUME AcceptedInv, [DaemonNext]_<<vars, authenticator>>
                PROVE  [Next]_vars
    OBVIOUS
  <2>1. CASE UNCHANGED <<vars, authenticator>>
    BY <2>1
  <2>2. ASSUME NEW h \in Handlers, NEW e \in Envelopes \cup {Forged}, NEW t \in 0..MaxTime,
               Connect(h, e, t)
        PROVE  UNCHANGED vars
    BY <2>2 DEF Connect
  <2>3. ASSUME NEW h \in Handlers, FrameFails(h) \/ VerifyFails(h) PROVE UNCHANGED vars
    BY <2>3 DEF FrameFails, VerifyFails
  <2>4. ASSUME NEW h \in Handlers, VerifyNonce(h) PROVE [Next]_vars
    <3>1. envelope[h] \in Envelopes
      BY <2>4 DEF AcceptedInv, DaemonTypeOK, Sent, VerifyNonce, Acceptable, Signed
    <3>2. Command[envelope[h]].op \in Ops /\ Command[envelope[h]].req \in Requests
      BY <3>1, DaemonAssumption
    <3>3. UNCHANGED vars \/ Receive(h, Command[envelope[h]].op, Command[envelope[h]].req)
      BY <2>4 DEF VerifyNonce
    <3>. QED BY <3>2, <3>3 DEF Next
  <2>5. ASSUME NEW h \in Handlers, Work(h) PROVE Next
    BY <2>5 DEF Work, Next
  <2>6. CASE DaemonCrash
    BY <2>6 DEF DaemonCrash, Next
  <2>. QED BY <2>1, <2>2, <2>3, <2>4, <2>5, <2>6 DEF DaemonNext, Verify
<1>. QED BY <1>1, <1>2, AcceptedInductive, PTL DEF DaemonSpec, Spec

(* What is proved of RunnerService holds of it in the running daemon.      *)
THEOREM ServiceBehindTheGate ==
    DaemonSpec => [](/\ ActiveExclusive /\ ReplayNeverReexecutes /\ RecordProvenance
                     /\ CancelledOnlyIfAsked /\ LoneExecutionDurable)
BY DaemonIsRunner, Exclusion, NoReexecution, Provenance, CancelledWhenAsked, LoneRecordKept, PTL

(* handle: what a handler serves is the command of the envelope that was   *)
(* verified on its own connection, which a holder of the key signed and    *)
(* which carries it.                                                       *)
DispatchedAsSigned ==
    \A h \in Handlers :
        IF pc[h] = "idle" THEN TRUE
        ELSE /\ gate[h] = "admitted"
             /\ envelope[h] \in Decodable
             /\ op[h] = Command[envelope[h]].op
             /\ req[h] = Command[envelope[h]].req

(* No step of the daemon changes the command of an admitted connection.    *)
LEMMA DispatchStep ==
    ASSUME TypeOK, AcceptedInv, DispatchedAsSigned, DaemonNext PROVE DispatchedAsSigned'
<1>1. /\ gate \in [Handlers -> {"waiting", "closed", "verify", "admitted", "rejected", "dead"}]
      /\ envelope \in [Handlers -> Envelopes \cup {Forged, Nobody}]
      /\ pc \in [Handlers -> {"idle", "done", "dead"} \cup Live]
      /\ op \in [Handlers -> Ops] /\ req \in [Handlers -> Requests]
  BY DEF AcceptedInv, DaemonTypeOK, TypeOK
<1>2. ASSUME NEW h \in Handlers, NEW e \in Envelopes \cup {Forged}, NEW t \in 0..MaxTime,
             Connect(h, e, t)
      PROVE  DispatchedAsSigned'
  BY <1>1, <1>2 DEF Connect, vars, DispatchedAsSigned
<1>3. ASSUME NEW h \in Handlers, FrameFails(h) \/ VerifyFails(h) PROVE DispatchedAsSigned'
  BY <1>1, <1>3 DEF FrameFails, VerifyFails, Verdict, vars, DispatchedAsSigned
<1>4. ASSUME NEW h \in Handlers, VerifyNonce(h) PROVE DispatchedAsSigned'
  <2>1. envelope[h] \in Envelopes /\ gate[h] = "verify" /\ envelope' = envelope
    BY <1>1, <1>4 DEF AcceptedInv, Sent, VerifyNonce, Acceptable, Signed
  <2>2. CASE UNCHANGED vars /\ Verdict(h, "rejected")
    BY <1>1, <2>1, <2>2 DEF vars, Verdict, DispatchedAsSigned
  <2>3. CASE /\ Receive(h, Command[envelope[h]].op, Command[envelope[h]].req)
             /\ Verdict(h, "admitted") /\ envelope[h] \in Decodable
    <3>1. /\ op' = [op EXCEPT ![h] = Command[envelope[h]].op]
          /\ req' = [req EXCEPT ![h] = Command[envelope[h]].req]
          /\ \A g \in Handlers \ {h} : pc'[g] = pc[g]
          /\ gate' = [gate EXCEPT ![h] = "admitted"]
      BY <1>1, <2>3 DEF Receive, Respond, Goto, Verdict
    <3>. QED BY <1>1, <2>1, <2>3, <3>1 DEF DispatchedAsSigned
  <2>. QED BY <1>4, <2>2, <2>3 DEF VerifyNonce
<1>5. ASSUME NEW h \in Handlers, Work(h) PROVE DispatchedAsSigned'
  <2>1. UNCHANGED <<op, req, gate, envelope>>
    BY <1>5 DEF Work, authenticator, Step, LoadRecord, Register, Decide, Deregister, OpenTmp,
       WriteTmp, Chmod, Rename, Cancel, CancelLoad, Inspect, ReadFails, SaveFails
  <2>2. pc[h] # "idle" /\ \A g \in Handlers \ {h} : pc'[g] = pc[g]
    BY <1>1, <1>5 DEF Work, Step, LoadRecord, Register, Decide, Deregister, OpenTmp,
       WriteTmp, Chmod, Rename, Cancel, CancelLoad, Inspect, ReadFails, SaveFails, Respond, Goto, Executing, Saving, Live
  <2>. QED BY <2>1, <2>2 DEF DispatchedAsSigned
<1>6. CASE DaemonCrash
  <2>1. UNCHANGED <<op, req, envelope>>
    BY <1>6 DEF DaemonCrash, Crash, vars
  <2>2. \A g \in Handlers : pc'[g] # "idle" => pc[g] # "idle"
    BY <1>1, <1>6 DEF DaemonCrash, Crash, vars, Live, Executing, Saving
  <2>3. \A g \in Handlers : gate[g] = "admitted" => gate'[g] = "admitted"
    BY <1>6 DEF DaemonCrash
  <2>. QED BY <2>1, <2>2, <2>3 DEF DispatchedAsSigned
<1>. QED BY <1>2, <1>3, <1>4, <1>5, <1>6 DEF DaemonNext, Verify

(* handle: no handler serves anything but what was verified on its own     *)
(* connection, in any behaviour of the daemon.                             *)
THEOREM OnlySignedDispatched == DaemonSpec => []DispatchedAsSigned
<1>1. DaemonInit => DispatchedAsSigned
  BY DEF DaemonInit, Init, DispatchedAsSigned
<1>2. TypeOK /\ AcceptedInv /\ DispatchedAsSigned /\ [DaemonNext]_<<vars, authenticator>>
         => DispatchedAsSigned'
  <2>1. CASE UNCHANGED <<vars, authenticator>>
    BY <2>1 DEF vars, authenticator, DispatchedAsSigned
  <2>. QED BY <2>1, DispatchStep
<1>. QED BY <1>1, <1>2, DaemonIsRunner, TypeCorrect, AcceptedInductive, PTL DEF DaemonSpec
=============================================================================
