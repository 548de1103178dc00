--------------------------- MODULE TaskQueueProofs ---------------------------
(***************************************************************************)
(* What TaskQueue guarantees for every table, batch size and number of     *)
(* crashes and failed commits.  The inductive invariant IInv adds to the   *)
(* checked invariants where the worker's own variables stand in each phase *)
(* and why a loaded batch stays the oldest part of the queue.              *)
(***************************************************************************)
EXTENDS TaskQueue, TLAPS

\* Where the worker is agrees with what it holds.
PhaseAgrees ==
    /\ phase \in {"handling", "finished"} => current \in Handled
    /\ phase = "finished" => status[current] = "succeeded"
    /\ phase \in {"down", "idle"} => batch = {}
    /\ \A j \in batch : status[j] # "none"

\* Everything pending outside the batch is younger than the batch, except a row
\* that deferred itself; timestamps come from the clock.
BatchIsOldest ==
    /\ \A j \in Jobs : createdAt[j] <= clock
    /\ \A j \in batch, k \in Handled \ batch :
           status[k] = "pending" => createdAt[j] <= createdAt[k] \/ k \in deferred

IInv == TypeOK /\ PhaseAgrees /\ BatchIsFresh /\ RunningIsOwned /\ DocStatusIsTrue
          /\ BatchIsOldest

\* The kinds of rows are disjoint where the proofs need it.
LEMMA Kinds ==
    /\ Handled \subseteq Jobs /\ External \subseteq Jobs /\ Extraction \subseteq Handled
    /\ Handled \cap External = {}
    /\ Recoverable \subseteq Handled \ Extraction
    /\ Deferrable \subseteq Handled \ Extraction
    /\ \A j \in Extraction : DocOf[j] \in Docs /\ TypeOf[j] \in ExtractionTypes
    /\ \A i, j \in Extraction :
          DocOf[i] = DocOf[j] /\ TypeOf[i] = TypeOf[j] => i = j
  BY TaskQueueAssumption DEF Handled, External, Extraction, Recoverable, Deferrable,
     ExtractionTypes, ExternalTypes, JobTypes

\* An empty queue breaks nothing.
LEMMA InitInv == Init => IInv
  BY Kinds, TaskQueueAssumption
  DEF Init, IInv, TypeOK, PhaseAgrees, BatchIsFresh, RunningIsOwned, DocStatusIsTrue,
      BatchIsOldest, Status, Phases

\* Every step keeps the invariant.
LEMMA StepInv == IInv /\ [Next]_vars => IInv'
  <1> SUFFICES ASSUME IInv, [Next]_vars PROVE IInv'
    OBVIOUS
  <1> USE Kinds
  <1> USE DEF IInv, TypeOK, PhaseAgrees, BatchIsFresh, RunningIsOwned, DocStatusIsTrue,
              BatchIsOldest, Status, Phases
  <1>1. ASSUME NEW S \in Inserts, Enqueue(S) PROVE IInv'
    <2>1. S \subseteq Jobs
      BY DEF Inserts
    <2>2. PICK now \in {clock, clock + 1} :
             /\ clock' = now
             /\ createdAt' = [j \in Jobs |-> IF j \in S THEN now ELSE createdAt[j]]
      BY <1>1 DEF Enqueue
    <2>3. now \in Nat /\ clock <= now
      OBVIOUS
    <2> HIDE DEF PhaseAgrees, BatchIsFresh, RunningIsOwned, DocStatusIsTrue, BatchIsOldest
    <2>4. TypeOK'
      BY <1>1, <2>1, <2>2, <2>3 DEF Enqueue, dataVars, tickVars, faultVars
    <2>5. PhaseAgrees' /\ BatchIsFresh' /\ RunningIsOwned' /\ DocStatusIsTrue'
      BY <1>1, <2>1
      DEF Enqueue, dataVars, tickVars, faultVars,
          PhaseAgrees, BatchIsFresh, RunningIsOwned, DocStatusIsTrue
    <2>6. BatchIsOldest'
      <3>1. \A j \in Jobs : createdAt'[j] <= clock'
        BY <2>1, <2>2, <2>3 DEF BatchIsOldest
      <3>2. \A j \in S : createdAt'[j] = now /\ j \notin batch
        BY <1>1, <2>1, <2>2 DEF Enqueue, PhaseAgrees
      <3>3. ASSUME NEW j \in batch', NEW k \in Handled \ batch', status'[k] = "pending"
            PROVE createdAt'[j] <= createdAt'[k] \/ k \in deferred'
        <4>1. batch' = batch /\ deferred' = deferred /\ j \in Jobs /\ k \in Jobs
          BY <1>1, <3>3 DEF Enqueue, tickVars
        <4>2. CASE k \in S
          BY <3>1, <3>2, <4>1, <4>2, <2>2
        <4>3. CASE k \notin S
          BY <1>1, <2>2, <3>2, <3>3, <4>1, <4>3 DEF Enqueue, BatchIsOldest
        <4>4. QED
          BY <4>2, <4>3
      <3>4. QED
        BY <3>1, <3>3 DEF BatchIsOldest
    <2>7. QED
      BY <2>4, <2>5, <2>6
  <1>2. CASE CollectorClaim
    BY <1>2 DEF CollectorClaim, Pending, dataVars, tickVars, faultVars
  <1>3. ASSUME NEW j \in Jobs, CollectorComplete(j) PROVE IInv'
    BY <1>3 DEF CollectorComplete, Finished, dataVars, tickVars, faultVars
  <1>4. CASE QueryGraph
    BY <1>4 DEF QueryGraph, queueVars, tickVars, faultVars
  <1>5. CASE SelectBatch
    BY <1>5 DEF SelectBatch, Oldest, Limited, Pending, queueVars, dataVars, faultVars
  <1>6. ASSUME NEW j \in Jobs, PassOver(j) PROVE IInv'
    BY <1>6 DEF PassOver, IsNext, queueVars, dataVars, faultVars
  <1>7. ASSUME NEW j \in Jobs, Reject(j) PROVE IInv'
    BY <1>7 DEF Reject, IsNext, dataVars, faultVars
  <1>8. ASSUME NEW j \in Jobs, Claim(j) PROVE IInv'
    BY <1>8 DEF Claim, IsNext, dataVars, faultVars
  <1>9. CASE CommitChunk
    BY <1>9 DEF CommitChunk, queueVars, tickVars, faultVars
  <1>10. CASE Return
    BY <1>10 DEF Return, dataVars, faultVars
  <1>11. CASE Raise
    BY <1>11 DEF Raise, faultVars
  <1>12. CASE Defer
    BY <1>12 DEF Defer, dataVars, faultVars
  <1>13. CASE AfterExtraction
    BY <1>13 DEF AfterExtraction, queueVars, faultVars
  <1>14. CASE SyncGraph
    BY <1>14 DEF SyncGraph, queueVars, faultVars
  <1>15. CASE SyncGraphFails
    BY <1>15 DEF SyncGraphFails, queueVars, dataVars
  <1>16. CASE EndTick
    BY <1>16 DEF EndTick, queueVars, dataVars, faultVars
  <1>17. CASE AbortTick
    BY <1>17 DEF AbortTick, queueVars, dataVars
  <1>18. CASE Crash
    BY <1>18 DEF Crash, queueVars, dataVars
  <1>19. CASE Restart
    BY <1>19 DEF Restart, dataVars, faultVars
  <1>20. CASE UNCHANGED vars
    BY <1>20 DEF vars, queueVars, dataVars, tickVars, faultVars
  <1>21. QED
    BY <1>1, <1>2, <1>3, <1>4, <1>5, <1>6, <1>7, <1>8, <1>9, <1>10, <1>11, <1>12, <1>13,
       <1>14, <1>15, <1>16, <1>17, <1>18, <1>19, <1>20
    DEF Next, Requests, BatchStep, HandlerEnds, Finish

\* The invariant holds of the queue at all times.
LEMMA Invariance == Spec => []IInv
  <1>1. Init => IInv
    BY InitInv
  <1>2. IInv /\ [Next]_vars => IInv'
    BY StepInv
  <1>3. QED
    BY <1>1, <1>2, PTL DEF Spec

\* Whatever is inserted, claimed, deferred or lost, the columns and the worker's
\* variables keep their types.
THEOREM TypeCorrect == Spec => []TypeOK
  <1>1. IInv => TypeOK
    BY DEF IInv
  <1>2. QED
    BY <1>1, Invariance, PTL

\* The stale list of a tick is never wrong about a row the worker may touch.
THEOREM FreshBatch == Spec => []BatchIsFresh
  <1>1. IInv => BatchIsFresh
    BY DEF IInv
  <1>2. QED
    BY <1>1, Invariance, PTL

\* A running row has the worker as its owner, or a crash or failed commit to blame.
THEOREM OwnedRows == Spec => []RunningIsOwned
  <1>1. IInv => RunningIsOwned
    BY DEF IInv
  <1>2. QED
    BY <1>1, Invariance, PTL

\* A document's extraction status never claims what its job did not do.
THEOREM TrueDocStatus == Spec => []DocStatusIsTrue
  <1>1. IInv => DocStatusIsTrue
    BY DEF IInv
  <1>2. QED
    BY <1>1, Invariance, PTL

\* No step changes a row that the worker has finished.
THEOREM FinishedForGood == Spec => FinishedStays
  <1>1. ASSUME IInv, [Next]_vars, NEW j \in Jobs \ External, status[j] \in Finished
        PROVE  status'[j] = status[j]
    <2> USE <1>1, Kinds
    <2> USE DEF IInv, TypeOK, Finished
    <2>1. ASSUME NEW S \in Inserts, Enqueue(S) PROVE status'[j] = status[j]
      BY <2>1 DEF Enqueue
    <2>2. CASE CollectorClaim \/ (\E k \in Jobs : CollectorComplete(k))
      BY <2>2 DEF CollectorClaim, CollectorComplete
    <2>3. ASSUME NEW k \in Jobs, Reject(k) \/ Claim(k) PROVE status'[j] = status[j]
      <3>1. k # j
        BY <2>3 DEF Reject, Claim, IsNext, BatchIsFresh
      <3>2. QED
        BY <2>3, <3>1 DEF Reject, Claim
    <2>4. CASE HandlerEnds
      <3>1. current # j
        BY <2>4 DEF HandlerEnds, Return, Raise, Defer, RunningIsOwned
      <3>2. QED
        BY <2>4, <3>1 DEF HandlerEnds, Return, Raise, Defer
    <2>5. CASE Restart
      BY <2>5 DEF Restart
    <2>6. CASE UNCHANGED status
      BY <2>6
    <2>7. QED
      BY <2>1, <2>2, <2>3, <2>4, <2>5, <2>6
      DEF Next, Requests, BatchStep, Finish, QueryGraph, SelectBatch, PassOver, EndTick,
          CommitChunk, AfterExtraction, SyncGraph, SyncGraphFails, AbortTick, Crash,
          queueVars, vars
  <1>2. IInv /\ [Next]_vars
          => [\A j \in Jobs \ External : status[j] \in Finished => status'[j] = status[j]]_vars
    BY <1>1
  <1>3. QED
    BY <1>2, Invariance, PTL DEF Spec, FinishedStays

\* Rows of a registered type start oldest first, deferred ones aside.
THEOREM StartsInOrder == Spec => OldestFirst
  <1> DEFINE InOrder(j, k) ==
        (status[j] = "pending" /\ status'[j] = "running"
           /\ status[k] = "pending" /\ createdAt[k] < createdAt[j]) => k \in deferred
  <1>1. ASSUME IInv, [Next]_vars, NEW j \in Handled, NEW k \in Handled,
               status[j] = "pending", status'[j] = "running", status[k] = "pending"
        PROVE  createdAt[j] <= createdAt[k] \/ k \in deferred
    <2> USE <1>1, Kinds
    <2> USE DEF IInv, TypeOK
    <2>1. Claim(j)
      <3>1. ASSUME NEW S \in Inserts, Enqueue(S) PROVE FALSE
        BY <3>1 DEF Enqueue
      <3>2. CASE CollectorClaim \/ (\E i \in Jobs : CollectorComplete(i))
        BY <3>2 DEF CollectorClaim, CollectorComplete, Finished
      <3>3. ASSUME NEW i \in Jobs, Reject(i) PROVE FALSE
        BY <3>3 DEF Reject
      <3>4. ASSUME NEW i \in Jobs, Claim(i) PROVE i = j
        BY <3>4 DEF Claim
      <3>5. CASE HandlerEnds
        BY <3>5 DEF HandlerEnds, Return, Raise, Defer
      <3>6. CASE Restart
        BY <3>6 DEF Restart
      <3>7. CASE UNCHANGED status
        BY <3>7
      <3>8. QED
        BY <3>1, <3>2, <3>3, <3>4, <3>5, <3>6, <3>7
        DEF Next, Requests, BatchStep, Finish, QueryGraph, SelectBatch, PassOver, EndTick,
            CommitChunk, AfterExtraction, SyncGraph, SyncGraphFails, AbortTick, Crash,
            queueVars, vars
    <2>2. QED
      BY <2>1 DEF Claim, IsNext, BatchIsOldest
  <1>2. IInv /\ [Next]_vars => [\A j, k \in Handled : InOrder(j, k)]_vars
    BY <1>1, Kinds DEF IInv, TypeOK
  <1>3. QED
    BY <1>2, Invariance, PTL DEF Spec, OldestFirst

\* The table refines the lifecycle its readers rely on: each step of the worker,
\* the handlers, the collector and the restart is a lifecycle step or changes
\* neither the table nor who runs what.
THEOREM RefinesLifecycle == Spec => Implements
  <1> DEFINE runner == IF phase = "handling" THEN current ELSE NoJob
  <1>1. Init => Lifecycle!Init
    BY DEF Init, Lifecycle!Init
  <1>2. ASSUME IInv, [Next]_vars
        PROVE  Lifecycle!Next \/ UNCHANGED <<status, runner>>
    <2> USE <1>2, Kinds, TaskQueueAssumption
    <2> USE DEF IInv, TypeOK, Lifecycle!Next, Status
    <2>1. ASSUME NEW S \in Inserts, Enqueue(S) PROVE Lifecycle!Insert
      <3>1. S \in SUBSET {j \in Jobs : status[j] = "none"}
        <4>1. S \subseteq Jobs
          BY DEF Inserts
        <4>2. QED
          BY <2>1, <4>1 DEF Enqueue
      <3>2. QED
        BY <2>1, <3>1 DEF Enqueue, Lifecycle!Insert, tickVars
    <2>2. CASE CollectorClaim
      <3>1. Lifecycle!Collect
        BY <2>2 DEF CollectorClaim, Pending, Lifecycle!Collect, tickVars
      <3>2. QED
        BY <3>1
    <2>3. ASSUME NEW j \in Jobs, CollectorComplete(j) PROVE Lifecycle!Collect
      BY <2>3 DEF CollectorComplete, Finished, Lifecycle!Collect, Lifecycle!Finished, tickVars
    <2>4. ASSUME NEW j \in Jobs, Reject(j) PROVE Lifecycle!Refuse(j)
      BY <2>4 DEF Reject, IsNext, BatchIsFresh, Lifecycle!Refuse
    <2>5. ASSUME NEW j \in Jobs, Claim(j) PROVE Lifecycle!Start(j)
      BY <2>5 DEF Claim, IsNext, BatchIsFresh, Lifecycle!Start
    <2>6. CASE HandlerEnds
      <3>1. Lifecycle!Stop
        BY <2>6
        DEF HandlerEnds, Return, Raise, Defer, RunningIsOwned, Lifecycle!Stop, Lifecycle!Finished
      <3>2. QED
        BY <3>1
    <2>7. CASE AbortTick \/ Crash
      <3>1. Lifecycle!Lose \/ UNCHANGED <<status, runner>>
        BY <2>7 DEF AbortTick, Crash, Lifecycle!Lose, queueVars, RunningIsOwned
      <3>2. QED
        BY <3>1
    <2>8. CASE Restart
      <3>1. Lifecycle!Recover
        BY <2>8 DEF Restart, Lifecycle!Recover
      <3>2. QED
        BY <3>1
    <2>9. CASE SelectBatch \/ (\E j \in Jobs : PassOver(j)) \/ EndTick \/ CommitChunk
                 \/ Finish \/ QueryGraph \/ UNCHANGED vars
      BY <2>9
      DEF SelectBatch, PassOver, EndTick, CommitChunk, Finish, AfterExtraction, SyncGraph,
          SyncGraphFails, QueryGraph, IsNext, vars, queueVars, tickVars
    <2>10. QED
      BY <2>1, <2>2, <2>3, <2>4, <2>5, <2>6, <2>7, <2>8, <2>9
      DEF Next, Requests, BatchStep
  <1>3. IInv /\ [Next]_vars => [Lifecycle!Next]_<<status, runner>>
    BY <1>2
  <1>4. QED
    BY <1>1, <1>3, Invariance, PTL DEF Spec, Implements, Lifecycle!Spec
=============================================================================
