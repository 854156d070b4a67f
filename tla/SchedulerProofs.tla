--------------------------- MODULE SchedulerProofs ---------------------------
(***************************************************************************)
(* Proofs about Scheduler for any schedule, policy, horizon and number of  *)
(* outages, and whether or not the claim and the checkpoint are persisted  *)
(* together.                                                               *)
(*                                                                         *)
(* What the control plane has read stays true until it commits (Fresh),    *)
(* except that the active run may end: then the tick is blocked although   *)
(* it need not be, never the other way round.  So a decision to enqueue    *)
(* still finds an unclaimed occurrence and no active run (Pending).        *)
(*                                                                         *)
(* BoundedCatchUp needs more (CatchUpInv): of the occurrences that lapsed  *)
(* in one outage, the one that was enqueued comes before the others, so    *)
(* evaluate() finds it first until the checkpoint has passed them all      *)
(* (Hidden), and a tick in live mode finds none of them (Settled).         *)
(***************************************************************************)
EXTENDS Scheduler, TLAPS

Fresh ==
    phase = "read" =>
        /\ tick_state.evaluated_through = checkpoint
        /\ tick_state.claimed = claimed
        /\ tick_state.active = NoOccurrence => running = {}

Pending ==
    /\ phase \in {"commit", "checkpoint"} =>
          outcome.evaluated_through >= checkpoint
    /\ phase = "commit" /\ outcome.decision = "enqueue" =>
          /\ outcome.due \in Occurrences \ claimed
          /\ running = {}

ClaimCounts ==
    \A o \in Occurrences :
        enqueued[o] <= 1 /\ (enqueued[o] > 0 => o \in claimed)

IInv == SchedulerTypeOK /\ Fresh /\ Pending /\ ClaimCounts /\ NoOverlap

USE DEF MissedRunPolicy, Schedule, Mode, TickPhases, Decisions, Key, TickState,
        TickOutcome

(* next_after yields an occurrence of the schedule after the instant, or   *)
(* none.                                                                   *)
LEMMA NextAfterType ==
    ASSUME NEW t \in Nat
    PROVE  next_after(t) \in Key
BY DEF next_after

(* Decide yields a decision, and enqueues only an unclaimed occurrence     *)
(* while no run is active.                                                 *)
LEMMA DecideSafe ==
    ASSUME NEW s \in TickState, NEW due \in Occurrences
    PROVE  /\ Decide(s, due) \in Decisions
           /\ Decide(s, due) = "enqueue" => due \notin s.claimed /\ s.active = NoOccurrence
BY DEF Decide

(* evaluate() returns the clock as the checkpoint, and enqueues only an    *)
(* unclaimed occurrence while no run is active.                            *)
LEMMA EvaluateSafe ==
    ASSUME NEW s \in TickState, NEW t \in Nat
    PROVE  /\ Evaluate(s, t) \in TickOutcome
           /\ Evaluate(s, t).evaluated_through = t
           /\ Evaluate(s, t).decision = "enqueue" =>
                 /\ Evaluate(s, t).due \in Occurrences \ s.claimed
                 /\ s.active = NoOccurrence
<1>. DEFINE due == next_after(s.evaluated_through)
            isDue == due # NoOccurrence /\ due <= t
<1>1. due \in Key
  BY NextAfterType
<1>2. CASE isDue
  <2>1. due \in Occurrences
    BY <1>1, <1>2
  <2>2. Evaluate(s, t) = [evaluated_through |-> t, decision |-> Decide(s, due),
                          due |-> due]
    BY <1>2 DEF Evaluate
  <2>. HIDE DEF due
  <2>. QED BY <2>1, <2>2, DecideSafe
<1>3. CASE ~isDue
  <2>1. Evaluate(s, t) = [evaluated_through |-> t,
                          decision |-> "no_occurrence_due", due |-> NoOccurrence]
    BY <1>3 DEF Evaluate
  <2>. QED BY <2>1
<1>. QED BY <1>2, <1>3

(* The first state satisfies the inductive invariant. *)
LEMMA InitIInv ==
    ASSUME SchedulerInit PROVE IInv
BY SchedulerAssumption
   DEF SchedulerInit, IInv, SchedulerTypeOK, Fresh, Pending, ClaimCounts, NoOverlap

(* Every step of the clock, the control plane and the runs preserves it. *)
LEMMA Step ==
    ASSUME IInv, [SchedulerNext]_schedulerVars PROVE IInv'
<1>. USE SchedulerAssumption
     DEF IInv, SchedulerTypeOK, Fresh, Pending, ClaimCounts, NoOverlap
<1>1. ASSUME NEW t \in 0..Horizon, ClockForward(t) PROVE IInv'
  BY <1>1 DEF ClockForward
<1>2. ASSUME NEW t \in 0..Horizon, ClockBack(t) PROVE IInv'
  BY <1>2 DEF ClockBack
<1>3. CASE ReadState
  <2>1. PICK a \in Key :
          /\ a = NoOccurrence => running = {}
          /\ tick_state' = [evaluated_through |-> checkpoint, mode |-> mode,
                       active |-> a, claimed |-> claimed]
    <3>1. CASE running = {}
      BY <1>3, <3>1 DEF ReadState
    <3>2. CASE running # {}
      BY <1>3, <3>2 DEF ReadState
    <3>. QED BY <3>1, <3>2
  <2>2. phase' = "read" /\ UNCHANGED <<schedule, now, checkpoint, claimed,
                                       running, mode, outcome, enqueued,
                                       lapse, outages>>
    BY <1>3 DEF ReadState
  <2>3. tick_state' \in TickState
    BY <2>1
  <2>. QED BY <2>1, <2>2, <2>3
<1>4. CASE Tick
  <2>1. CASE now < tick_state.evaluated_through
    BY <1>4, <2>1 DEF Tick
  <2>2. CASE now >= tick_state.evaluated_through
    <3>1. /\ outcome' \in TickOutcome
          /\ outcome'.evaluated_through = now
          /\ outcome'.decision = "enqueue" =>
                outcome'.due \in Occurrences \ claimed /\ running = {}
      BY <1>4, <2>2, EvaluateSafe DEF Tick
    <3>. QED BY <1>4, <2>2, <3>1 DEF Tick
  <2>. QED BY <2>1, <2>2
<1>5. CASE Commit
  <2>1. /\ phase = "commit"
        /\ phase' \in {"idle", "checkpoint"}
        /\ mode' \in Mode
        /\ checkpoint' \in Nat
        /\ outcome.evaluated_through >= checkpoint'
        /\ UNCHANGED <<schedule, now, tick_state, outcome, lapse, outages>>
    BY <1>5 DEF Commit, SaveCheckpoint
  <2>2. CASE outcome.decision = "enqueue"
    <3>1. PICK d \in Occurrences \ claimed :
            /\ running = {}
            /\ claimed' = claimed \cup {d}
            /\ running' = running \cup {d}
            /\ enqueued' = [enqueued EXCEPT ![d] = @ + 1]
      BY <1>5, <2>1, <2>2 DEF Commit
    <3>2. enqueued[d] = 0
      <4>1. enqueued[d] \in Nat /\ (enqueued[d] > 0 => d \in claimed)
        OBVIOUS
      <4>. QED BY <4>1
    <3>3. SchedulerTypeOK'
      BY <2>1, <3>1
    <3>4. ClaimCounts'
      BY <3>1, <3>2
    <3>5. Fresh' /\ Pending' /\ NoOverlap'
      BY <2>1, <3>1
    <3>. QED BY <3>3, <3>4, <3>5
  <2>3. CASE outcome.decision # "enqueue"
    BY <1>5, <2>1, <2>3 DEF Commit
  <2>. QED BY <2>2, <2>3
<1>6. CASE CommitCheckpoint
  BY <1>6 DEF CommitCheckpoint, SaveCheckpoint
<1>7. ASSUME NEW o \in Occurrences, RunEnds(o) PROVE IInv'
  BY <1>7 DEF RunEnds
<1>8. CASE Crash
  BY <1>8 DEF Crash
<1>9. CASE RestartControlPlane
  BY <1>9 DEF RestartControlPlane
<1>10. CASE UNCHANGED schedulerVars
  BY <1>10 DEF schedulerVars
<1>. QED
  BY <1>1, <1>2, <1>3, <1>4, <1>5, <1>6, <1>7, <1>8, <1>9, <1>10 DEF SchedulerNext

(* Any behaviour keeps the inductive invariant, whatever the constants. *)
THEOREM Inductive == SchedulerSpec => []IInv
<1>1. SchedulerInit => IInv
  BY InitIInv
<1>2. IInv /\ [SchedulerNext]_schedulerVars => IInv'
  BY Step
<1>. QED BY <1>1, <1>2, PTL DEF SchedulerSpec

(* The scheduler's durable and volatile state stays well typed. *)
THEOREM TypeCorrect == SchedulerSpec => []SchedulerTypeOK
<1>1. IInv => SchedulerTypeOK
  BY DEF IInv
<1>. QED BY <1>1, Inductive, PTL

(* evaluate(): an occurrence is enqueued at most once, across crashes      *)
(* between claim and checkpoint and backward steps of the clock.           *)
THEOREM OncePerOccurrence == SchedulerSpec => []AtMostOnce
<1>1. IInv => AtMostOnce
  BY DEF IInv, ClaimCounts, AtMostOnce
<1>. QED BY <1>1, Inductive, PTL

(* evaluate(): `forbid` concurrency holds although the active run is read  *)
(* before the tick and committed after it.                                 *)
THEOREM Forbid == SchedulerSpec => []NoOverlap
<1>1. IInv => NoOverlap
  BY DEF IInv
<1>. QED BY <1>1, Inductive, PTL

(* evaluate(): the durable checkpoint never moves back. *)
THEOREM CheckpointForward == SchedulerSpec => CheckpointMonotone
<1>1. IInv /\ [SchedulerNext]_schedulerVars => [checkpoint' >= checkpoint]_schedulerVars
  <2>. SUFFICES ASSUME IInv, SchedulerNext PROVE checkpoint' >= checkpoint
    OBVIOUS
  <2>. USE DEF IInv, SchedulerTypeOK, Pending
  <2>1. CASE Commit
    BY <2>1 DEF Commit, SaveCheckpoint
  <2>2. CASE CommitCheckpoint
    BY <2>2 DEF CommitCheckpoint, SaveCheckpoint
  <2>3. CASE ~Commit /\ ~CommitCheckpoint
    BY <2>3 DEF SchedulerNext, ClockForward, ClockBack, ReadState, Tick, RunEnds, Crash,
                RestartControlPlane
  <2>. QED BY <2>1, <2>2, <2>3
<1>. QED BY <1>1, Inductive, PTL DEF SchedulerSpec, CheckpointMonotone
-----------------------------------------------------------------------------
(* An occurrence that lapsed and has not been enqueued.                    *)
Missed(o) == lapse[o] > 0 /\ enqueued[o] = 0

(* No occurrence is enqueued in the outage that it lapsed in.              *)
LapsedEarlier ==
    \A o \in Occurrences : /\ lapse[o] <= outages
                           /\ phase = "down" /\ enqueued[o] > 0 => lapse[o] < outages

(* Once a tick has been evaluated after a restart, what lapsed before is   *)
(* behind the checkpoint, or the clock will pass it again.                 *)
Settled ==
    \A o \in Occurrences : Missed(o) =>
        /\ mode = "live" /\ phase # "down" => o <= checkpoint \/ now < o
        /\ phase \in {"commit", "checkpoint"} =>
              o <= outcome.evaluated_through \/ now < o

(* Of one outage, an occurrence that was enqueued hides the others from    *)
(* evaluate() until the checkpoint has passed both.                        *)
Hidden ==
    \A o, p \in Occurrences :
        Missed(o) /\ enqueued[p] > 0 /\ lapse[p] = lapse[o] =>
            \/ o <= checkpoint
            \/ now < o
            \/ checkpoint < p /\ p < o

(* A decision to enqueue is about the first occurrence, and about one that *)
(* lapsed only when the policy is to run once.                             *)
CatchUpPending ==
    /\ phase = "read" => tick_state.mode = mode
    /\ phase = "commit" /\ outcome.decision = "enqueue" =>
          /\ IsNext(outcome.due, checkpoint)
          /\ lapse[outcome.due] > 0 =>
                /\ schedule.missed_run_policy = "run_once"
                /\ \A p \in Occurrences : enqueued[p] > 0 => lapse[p] # lapse[outcome.due]

CatchUpInv ==
    /\ LapsedEarlier
    /\ Settled
    /\ Hidden
    /\ CatchUpPending
    /\ BoundedCatchUp

(* What evaluate() decides to enqueue is the first occurrence after the    *)
(* checkpoint it was given; a recovery tick enqueues only to run once.     *)
LEMMA EvaluateFirst ==
    ASSUME NEW s \in TickState, NEW t \in Nat, Evaluate(s, t).decision = "enqueue"
    PROVE  /\ IsNext(Evaluate(s, t).due, s.evaluated_through)
           /\ Evaluate(s, t).due <= t
           /\ s.mode = "recovery" => schedule.missed_run_policy # "skip"
<1>. DEFINE due == next_after(s.evaluated_through)
            isDue == due # NoOccurrence /\ due <= t
<1>1. CASE isDue
  <2>1. IsNext(due, s.evaluated_through)
    BY <1>1 DEF next_after
  <2>2. Evaluate(s, t) = [evaluated_through |-> t, decision |-> Decide(s, due),
                          due |-> due]
    BY <1>1 DEF Evaluate
  <2>3. Decide(s, due) = "enqueue"
    BY <2>2
  <2>4. s.mode = "recovery" => schedule.missed_run_policy # "skip"
    BY <2>3 DEF Decide
  <2>5. Evaluate(s, t).due = due
    BY <2>2
  <2>. QED BY <1>1, <2>1, <2>4, <2>5
<1>2. CASE ~isDue
  <2>1. Evaluate(s, t) = [evaluated_through |-> t,
                          decision |-> "no_occurrence_due", due |-> NoOccurrence]
    BY <1>2 DEF Evaluate
  <2>. QED BY <2>1
<1>. QED BY <1>1, <1>2

(* The clock passes occurrences, and may come back to pass them again.     *)
LEMMA ClockCatchUp ==
    ASSUME IInv, CatchUpInv, NEW t \in 0..Horizon, ClockForward(t) \/ ClockBack(t)
    PROVE  CatchUpInv'
<1>. USE SchedulerAssumption DEF IInv, SchedulerTypeOK
<1>1. CASE ClockBack(t)
  BY <1>1 DEF ClockBack, CatchUpInv, LapsedEarlier, Settled, Hidden, CatchUpPending,
             BoundedCatchUp, Missed
<1>2. CASE ClockForward(t)
  <2>1. /\ now < t /\ now' = t /\ t \in Nat
        /\ UNCHANGED <<schedule, checkpoint, claimed, running, mode, phase,
                       tick_state, outcome, enqueued, outages>>
    BY <1>2 DEF ClockForward
  <2>2. \A o \in Occurrences :
          lapse'[o] = IF now < o /\ o <= t /\ enqueued[o] = 0
                        THEN IF phase = "down" THEN outages ELSE 0
                        ELSE lapse[o]
    BY <1>2 DEF ClockForward
  <2>3. \A o \in Occurrences : enqueued[o] > 0 => lapse'[o] = lapse[o]
    BY <2>2
  <2>4. \A o \in Occurrences : Missed(o)' =>
          \/ phase = "down" /\ lapse'[o] = outages
          \/ Missed(o) /\ lapse'[o] = lapse[o] /\ (now < o => now' < o)
    BY <2>1, <2>2 DEF Missed
  <2>5. LapsedEarlier'
    BY <2>1, <2>2 DEF CatchUpInv, LapsedEarlier
  <2>6. Settled'
    BY <2>1, <2>4 DEF CatchUpInv, Settled
  <2>7. Hidden'
    BY <2>1, <2>3, <2>4 DEF CatchUpInv, Hidden, LapsedEarlier
  <2>8. CatchUpPending'
    <3>1. ASSUME phase = "commit", outcome.decision = "enqueue"
          PROVE  /\ outcome.due \in Occurrences
                 /\ lapse'[outcome.due] > 0 => lapse'[outcome.due] = lapse[outcome.due]
      <4>1. PICK d \in Occurrences : d = outcome.due
        BY <3>1 DEF Pending
      <4>2. lapse'[d] \in {0, lapse[d]}
        BY <2>2, <3>1
      <4> QED BY <4>1, <4>2
    <3> QED BY <2>1, <2>3, <3>1 DEF CatchUpInv, CatchUpPending
  <2>9. BoundedCatchUp'
    BY <2>1, <2>3 DEF CatchUpInv, BoundedCatchUp
  <2> QED BY <2>5, <2>6, <2>7, <2>8, <2>9 DEF CatchUpInv
<1> QED BY <1>1, <1>2

(* Between reading the durable state and persisting what was decided.      *)
LEMMA TickCatchUp ==
    ASSUME IInv, CatchUpInv, ReadState \/ Tick
    PROVE  CatchUpInv'
<1>. USE SchedulerAssumption DEF IInv, SchedulerTypeOK
<1>1. CASE ReadState
  <2>1. tick_state'.mode = mode /\ phase = "idle" /\ phase' = "read"
        /\ UNCHANGED <<schedule, now, checkpoint, mode, outcome, enqueued, lapse, outages>>
    BY <1>1 DEF ReadState
  <2> QED BY <2>1 DEF CatchUpInv, LapsedEarlier, Settled, Hidden, CatchUpPending,
                      BoundedCatchUp, Missed
<1>2. CASE Tick
  <2>1. /\ phase = "read" /\ phase' \in {"idle", "commit"}
        /\ UNCHANGED <<schedule, now, checkpoint, claimed, running, mode, tick_state,
                       enqueued, lapse, outages>>
        /\ phase' = "commit" => outcome' = Evaluate(tick_state, now)
    BY <1>2 DEF Tick
  <2>2. phase' = "commit" => outcome'.evaluated_through = now
    BY <2>1, EvaluateSafe
  <2>3. LapsedEarlier' /\ Settled' /\ Hidden' /\ BoundedCatchUp'
    BY <2>1, <2>2 DEF CatchUpInv, LapsedEarlier, Settled, Hidden, BoundedCatchUp, Missed
  <2>4. ASSUME phase' = "commit", outcome'.decision = "enqueue"
        PROVE  /\ IsNext(outcome'.due, checkpoint)
               /\ lapse[outcome'.due] > 0 =>
                     /\ schedule.missed_run_policy = "run_once"
                     /\ \A p \in Occurrences : enqueued[p] > 0 => lapse[p] # lapse[outcome'.due]
    <3>1. PICK d : d = outcome'.due
      OBVIOUS
    <3>2. /\ d \in Occurrences \ claimed /\ IsNext(d, checkpoint) /\ d <= now
          /\ mode = "recovery" => schedule.missed_run_policy # "skip"
      BY <2>1, <2>4, <3>1, EvaluateSafe, EvaluateFirst DEF Fresh, CatchUpInv, CatchUpPending
    <3>3. enqueued[d] = 0 /\ checkpoint < d
      BY <3>2 DEF ClaimCounts, IsNext
    <3>4. lapse[d] > 0 => mode = "recovery"
      BY <2>1, <3>2, <3>3 DEF CatchUpInv, Settled, Missed
    <3>5. \A p \in Occurrences : ~(checkpoint < p /\ p < d)
      BY <3>2 DEF IsNext
    <3>6. lapse[d] > 0 => \A p \in Occurrences : enqueued[p] > 0 => lapse[p] # lapse[d]
      BY <3>2, <3>3, <3>5 DEF CatchUpInv, Hidden, Missed
    <3>7. lapse[d] > 0 => schedule.missed_run_policy = "run_once"
      BY <3>2, <3>4
    <3> QED BY <3>1, <3>2, <3>6, <3>7
  <2>5. CatchUpPending'
    BY <2>1, <2>4 DEF CatchUpPending, IsNext
  <2> QED BY <2>3, <2>5 DEF CatchUpInv
<1> QED BY <1>1, <1>2

(* A claim hides what lapsed in the same outage, and the checkpoint then   *)
(* leaves it behind.                                                       *)
LEMMA CommitCatchUp ==
    ASSUME IInv, CatchUpInv, Commit \/ CommitCheckpoint
    PROVE  CatchUpInv'
<1>. USE SchedulerAssumption DEF IInv, SchedulerTypeOK
<1>1. /\ phase \in {"commit", "checkpoint"} /\ phase' \in {"idle", "checkpoint"}
      /\ UNCHANGED <<schedule, now, tick_state, outcome, lapse, outages>>
      /\ \/ checkpoint' = checkpoint /\ mode' = mode /\ phase' = "checkpoint"
         \/ checkpoint' = outcome.evaluated_through /\ phase' = "idle"
  BY DEF Commit, CommitCheckpoint, SaveCheckpoint
<1>2. \/ UNCHANGED enqueued
      \/ /\ phase = "commit" /\ outcome.decision = "enqueue"
         /\ enqueued' = [enqueued EXCEPT ![outcome.due] = @ + 1]
  BY DEF Commit, CommitCheckpoint
<1>3. \A o \in Occurrences : Missed(o)' => Missed(o)
  <2>1. \A o \in Occurrences : enqueued'[o] = 0 => enqueued[o] = 0
    BY <1>2 DEF Pending
  <2> QED BY <1>1, <2>1 DEF Missed
<1>4. LapsedEarlier' /\ CatchUpPending'
  BY <1>1 DEF CatchUpInv, LapsedEarlier, CatchUpPending
<1>5. Settled'
  BY <1>1, <1>3 DEF CatchUpInv, Settled
<1>6. \A p \in Occurrences : enqueued'[p] > 0 => enqueued[p] > 0 \/
          /\ p = outcome.due /\ phase = "commit" /\ outcome.decision = "enqueue"
  BY <1>2
<1>7. Hidden'
  <2>1. CASE checkpoint' = outcome.evaluated_through
    BY <1>1, <1>3, <2>1 DEF CatchUpInv, Settled, Hidden
  <2>2. CASE checkpoint' = checkpoint
    <3>1. ASSUME NEW o \in Occurrences, NEW p \in Occurrences, Missed(o)', enqueued'[p] > 0,
                 lapse[p] = lapse[o]
          PROVE  o <= checkpoint \/ now < o \/ (checkpoint < p /\ p < o)
      <4>1. CASE enqueued[p] > 0
        BY <1>3, <3>1, <4>1 DEF CatchUpInv, Hidden
      <4>2. CASE p = outcome.due /\ phase = "commit" /\ outcome.decision = "enqueue"
        <5>1. checkpoint < p /\ (checkpoint < o => p <= o)
          BY <4>2 DEF CatchUpInv, CatchUpPending, IsNext
        <5>2. p # o
          BY <1>2, <3>1 DEF Missed
        <5> QED BY <5>1, <5>2
      <4> QED BY <1>6, <3>1, <4>1, <4>2
    <3> QED BY <1>1, <2>2, <3>1 DEF Hidden
  <2> QED BY <1>1, <2>1, <2>2
<1>8. BoundedCatchUp'
  BY <1>1, <1>6 DEF CatchUpInv, BoundedCatchUp, CatchUpPending
<1> QED BY <1>4, <1>5, <1>7, <1>8 DEF CatchUpInv

(* MissedRunPolicy: of the occurrences that pass in one outage, skip       *)
(* enqueues none and run_once at most one, although the clock may step     *)
(* back and pass them again and the control plane may crash in between.    *)
THEOREM CatchUpBounded == SchedulerSpec => []BoundedCatchUp
<1>1. SchedulerInit => CatchUpInv
  BY SchedulerAssumption
     DEF SchedulerInit, CatchUpInv, LapsedEarlier, Settled, Hidden, CatchUpPending, BoundedCatchUp, Missed
<1>2. ASSUME IInv, CatchUpInv, [SchedulerNext]_schedulerVars PROVE CatchUpInv'
  <2>1. CASE RestartControlPlane \/ UNCHANGED schedulerVars \/ \E o \in Occurrences : RunEnds(o)
    BY <1>2, <2>1 DEF RestartControlPlane, schedulerVars, RunEnds, CatchUpInv, LapsedEarlier, Settled, Hidden,
                      CatchUpPending, BoundedCatchUp, Missed
  <2>2. CASE Crash
    BY <1>2, <2>2 DEF Crash, CatchUpInv, LapsedEarlier, Settled, Hidden,
                      CatchUpPending, BoundedCatchUp, Missed, IInv, SchedulerTypeOK
  <2> QED BY <1>2, <2>1, <2>2, ClockCatchUp, TickCatchUp, CommitCatchUp DEF SchedulerNext
<1>3. CatchUpInv => BoundedCatchUp
  BY DEF CatchUpInv
<1>. QED BY <1>1, <1>2, <1>3, Inductive, PTL DEF SchedulerSpec
==============================================================================
