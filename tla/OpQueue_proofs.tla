--------------------------- MODULE OpQueue_proofs ---------------------------
(***************************************************************************)
(* Proofs about OpQueue for every set of tasks and workers.                *)
(***************************************************************************)
EXTENDS OpQueueInv, FiniteSetTheorems, TLAPS

-----------------------------------------------------------------------------
(* Part 1: types.                                                            *)

(* Every variable starts within its type. *)
LEMMA TypeInit == Init => TypeOK
<1> SUFFICES ASSUME Init PROVE TypeOK
  OBVIOUS
<1> USE DEF Init
<1>1. queue \in [{"hi", "lo"} -> Seq(Tasks)]
  OBVIOUS
<1>2. fires \in [Tasks \X LedgerState -> Nat]
  OBVIOUS
<1>3. pc \in [Workers -> WorkerPc] /\ awaited \in [Workers -> LedgerState \cup {"none"}]
  BY DEF WorkerPc
<1>4. ledger \in [Tasks -> RowState] /\ bulk \in Nat
  BY ConstantsAssumption DEF ConstantsAssumption, RowState
<1>5. retries \in [Tasks -> 0 .. MaxRetries] /\ pauses \in 0 .. MaxPauses
      /\ shutdowns \in 0 .. MaxShutdowns
  BY ConstantsAssumption DEF ConstantsAssumption
<1>6. /\ ends \in [Tasks -> Nat] /\ outcome \in [Tasks -> Terminal \cup {"none"}]
      /\ paused \in [Tasks -> {"no", "slot", "held"}]
      /\ sub \in [Tasks -> {"new", "writing", "written", "in"}]
      /\ cur \in [Workers -> Tasks \cup {"none"}]
  OBVIOUS
<1>7. shuttingDown \in BOOLEAN
  OBVIOUS
<1>8. QED
  BY <1>1, <1>2, <1>3, <1>4, <1>5, <1>6, <1>7 DEF TypeOK, QueueTypes, OpTypes,
     WorkerTypes, LedgerTypes, ObserverTypes

(* No action takes a variable out of its type; one case per action.          *)
LEMMA TypeStep == TypeInv /\ [Next]_vars => TypeInv'
<1> SUFFICES ASSUME TypeInv, [Next]_vars PROVE TypeInv'
  OBVIOUS
<1> USE DEF TypeInv, TypeOK, WorkerHasOp, AwaitsWrite
<1>1. ASSUME NEW t \in Tasks, Submit(t) PROVE TypeInv'
  <2>1. QueueTypes'
    BY <1>1 DEF Submit, QueueTypes, indexVars
  <2>2. WorkerTypes'
    BY <1>1 DEF Submit, WorkerTypes, Goto, WorkerPc, InExecute, Working,
         workerVars
  <2>3. ObserverTypes'
    BY <1>1 DEF Submit, ObserverTypes, endVars, clickVars, lifeVars
  <2>4. OpTypes' /\ LedgerTypes'
    BY <1>1 DEF Submit, OpTypes, LedgerTypes, opVars, ledgerVars
  <2>5. WorkerHasOp'
    BY <1>1 DEF Submit, WorkerTypes, Goto
  <2>6. QED
    BY <2>1, <2>2, <2>3, <2>4, <2>5
<1>2. ASSUME NEW t \in Tasks, SubmitWritten(t) PROVE TypeInv'
  <2>1. QueueTypes'
    BY <1>2 DEF SubmitWritten, QueueTypes, indexVars
  <2>2. LedgerTypes'
    BY <1>2 DEF SubmitWritten, LedgerTypes, Persist, Upsert, RowState,
         LedgerState, ledgerVars
  <2>3. OpTypes' /\ WorkerTypes' /\ ObserverTypes'
    BY <1>2 DEF SubmitWritten, OpTypes, WorkerTypes, ObserverTypes, opVars,
         workerVars, endVars, clickVars, lifeVars
  <2>4. WorkerHasOp'
    BY <1>2 DEF SubmitWritten, workerVars
  <2>5. QED
    BY <2>1, <2>2, <2>3, <2>4
<1>3. ASSUME NEW t \in Tasks, SubmitEnqueues(t) PROVE TypeInv'
  <2>1. QueueTypes'
    BY <1>3 DEF SubmitEnqueues, QueueTypes, Enqueue, QueueOf, indexVars
  <2>2. OpTypes' /\ WorkerTypes' /\ LedgerTypes' /\ ObserverTypes'
    BY <1>3 DEF SubmitEnqueues, OpTypes, WorkerTypes, LedgerTypes,
         ObserverTypes, opVars, workerVars, ledgerVars, endVars, clickVars,
         lifeVars
  <2>3. WorkerHasOp'
    BY <1>3 DEF SubmitEnqueues, workerVars
  <2>4. QED
    BY <2>1, <2>2, <2>3
<1>4. ASSUME NEW w \in Workers, DequeueDropped(w) PROVE TypeInv'
  <2>1. QueueTypes'
    BY <1>4 DEF DequeueDropped, QueueTypes, Take, PoolOf, indexVars
  <2>2. WorkerTypes'
    BY <1>4 DEF DequeueDropped, WorkerTypes, Leave, Goto, WorkerPc, InExecute,
         Working, workerVars
  <2>3. ObserverTypes'
    BY <1>4 DEF DequeueDropped, ObserverTypes, endVars, clickVars, lifeVars
  <2>4. OpTypes' /\ LedgerTypes'
    BY <1>4 DEF DequeueDropped, OpTypes, LedgerTypes, opVars, ledgerVars
  <2>5. WorkerHasOp'
    BY <1>4 DEF DequeueDropped, WorkerTypes, Leave, Goto, Take, QueueTypes
  <2>6. QED
    BY <2>1, <2>2, <2>3, <2>4, <2>5
<1>5. ASSUME NEW w \in Workers, DequeueInterrupted(w) PROVE TypeInv'
  <2>1. QueueTypes'
    BY <1>5 DEF DequeueInterrupted, QueueTypes, Take, PoolOf, indexVars
  <2>2. WorkerTypes'
    BY <1>5 DEF DequeueInterrupted, WorkerTypes, Goto, WorkerPc, InExecute,
         Working, Await, LedgerState, Terminal, workerVars
  <2>3. ObserverTypes'
    BY <1>5 DEF DequeueInterrupted, ObserverTypes, Announce, Terminal,
         endVars, clickVars, lifeVars
  <2>4. OpTypes' /\ LedgerTypes'
    BY <1>5 DEF DequeueInterrupted, OpTypes, LedgerTypes, opVars, ledgerVars
  <2>5. WorkerHasOp'
    BY <1>5 DEF DequeueInterrupted, WorkerTypes, Goto, Await, Take, QueueTypes
  <2>6. QED
    BY <2>1, <2>2, <2>3, <2>4, <2>5
<1>6. ASSUME NEW w \in Workers, DequeueHeld(w) PROVE TypeInv'
  <2>1. QueueTypes'
    BY <1>6 DEF DequeueHeld, QueueTypes, Take, PoolOf, Hold, indexVars
  <2>2. WorkerTypes'
    BY <1>6 DEF DequeueHeld, WorkerTypes, Goto, WorkerPc, InExecute, Working,
         Await, LedgerState, workerVars
  <2>3. OpTypes' /\ LedgerTypes' /\ ObserverTypes'
    BY <1>6 DEF DequeueHeld, OpTypes, LedgerTypes, ObserverTypes, opVars,
         ledgerVars, endVars, clickVars, lifeVars
  <2>4. WorkerHasOp'
    BY <1>6 DEF DequeueHeld, WorkerTypes, Goto, Await, Take, QueueTypes
  <2>5. QED
    BY <2>1, <2>2, <2>3, <2>4
<1>7. ASSUME NEW w \in Workers, DequeueCancelled(w) PROVE TypeInv'
  <2>1. QueueTypes'
    BY <1>7 DEF DequeueCancelled, QueueTypes, Take, PoolOf, indexVars
  <2>2. WorkerTypes'
    BY <1>7 DEF DequeueCancelled, WorkerTypes, Goto, WorkerPc, InExecute,
         Working, Await, LedgerState, Terminal, workerVars, workerVars
  <2>3. ObserverTypes'
    BY <1>7 DEF DequeueCancelled, ObserverTypes, Announce, Terminal, endVars,
         clickVars, lifeVars
  <2>4. OpTypes' /\ LedgerTypes'
    BY <1>7 DEF DequeueCancelled, OpTypes, LedgerTypes, opVars, ledgerVars
  <2>5. WorkerHasOp'
    BY <1>7 DEF DequeueCancelled, WorkerTypes, Goto, Await, workerVars, Take,
         QueueTypes
  <2>6. QED
    BY <2>1, <2>2, <2>3, <2>4, <2>5
<1>8. ASSUME NEW w \in Workers, DequeueRun(w) PROVE TypeInv'
  <2>1. QueueTypes'
    BY <1>8 DEF DequeueRun, QueueTypes, Take, PoolOf, indexVars
  <2>2. WorkerTypes'
    BY <1>8 DEF DequeueRun, WorkerTypes, Goto, WorkerPc, InExecute, Working,
         workerVars
  <2>3. OpTypes' /\ LedgerTypes' /\ ObserverTypes'
    BY <1>8 DEF DequeueRun, OpTypes, LedgerTypes, ObserverTypes, opVars,
         ledgerVars, endVars, clickVars, lifeVars
  <2>4. WorkerHasOp'
    BY <1>8 DEF DequeueRun, WorkerTypes, Goto, Take, QueueTypes
  <2>5. QED
    BY <2>1, <2>2, <2>3, <2>4
<1>9. ASSUME NEW w \in Workers, Acquire(w) PROVE TypeInv'
  <2>1. WorkerTypes'
    BY <1>9, ConstantsAssumption DEF Acquire, WorkerTypes, Goto, WorkerPc,
         InExecute, Working, Await, LedgerState, Terminal,
         ConstantsAssumption, workerVars
  <2>2. ObserverTypes'
    BY <1>9 DEF Acquire, ObserverTypes, Announce, Terminal, endVars,
         clickVars, lifeVars
  <2>3. QueueTypes' /\ OpTypes' /\ LedgerTypes'
    BY <1>9 DEF Acquire, QueueTypes, OpTypes, LedgerTypes, indexVars, opVars,
         ledgerVars
  <2>4. WorkerHasOp'
    BY <1>9 DEF Acquire, WorkerTypes, Goto, Await
  <2>5. QED
    BY <2>1, <2>2, <2>3, <2>4
<1>10. ASSUME NEW w \in Workers, HandlerStarts(w) PROVE TypeInv'
  <2>1. WorkerTypes'
    BY <1>10 DEF HandlerStarts, WorkerTypes, Written, Goto, WorkerPc,
         InExecute, Working, workerVars
  <2>2. ObserverTypes'
    BY <1>10 DEF HandlerStarts, ObserverTypes, Written, endVars, clickVars,
         lifeVars
  <2>3. QueueTypes' /\ OpTypes' /\ LedgerTypes'
    BY <1>10 DEF HandlerStarts, QueueTypes, OpTypes, LedgerTypes, indexVars,
         opVars, ledgerVars
  <2>4. WorkerHasOp'
    BY <1>10 DEF HandlerStarts, WorkerTypes, Written, Goto
  <2>5. QED
    BY <2>1, <2>2, <2>3, <2>4
<1>11. ASSUME NEW w \in Workers, HandlerSaves(w) PROVE TypeInv'
  <2>1. WorkerTypes'
    BY <1>11 DEF HandlerSaves, WorkerTypes, Goto, WorkerPc, InExecute,
         Working, Await, LedgerState, workerVars
  <2>2. QueueTypes' /\ OpTypes' /\ LedgerTypes' /\ ObserverTypes'
    BY <1>11 DEF HandlerSaves, QueueTypes, OpTypes, LedgerTypes,
         ObserverTypes, indexVars, opVars, ledgerVars, endVars, clickVars,
         lifeVars
  <2>3. WorkerHasOp'
    BY <1>11 DEF HandlerSaves, WorkerTypes, Goto, Await
  <2>4. QED
    BY <2>1, <2>2, <2>3
<1>12. ASSUME NEW w \in Workers, HandlerSaved(w) PROVE TypeInv'
  <2>1. WorkerTypes'
    BY <1>12 DEF HandlerSaved, WorkerTypes, Written, Goto, WorkerPc,
         InExecute, Working, workerVars
  <2>2. QueueTypes' /\ OpTypes' /\ LedgerTypes' /\ ObserverTypes'
    BY <1>12 DEF HandlerSaved, QueueTypes, OpTypes, LedgerTypes,
         ObserverTypes, indexVars, opVars, ledgerVars, endVars, clickVars,
         lifeVars
  <2>3. WorkerHasOp'
    BY <1>12 DEF HandlerSaved, WorkerTypes, Written, Goto
  <2>4. QED
    BY <2>1, <2>2, <2>3
<1>13. ASSUME NEW w \in Workers, HandlerReturns(w) PROVE TypeInv'
  <2>1. WorkerTypes'
    BY <1>13 DEF HandlerReturns, WorkerTypes, Goto, WorkerPc, InExecute,
         Working, Await, LedgerState, Terminal, workerVars
  <2>2. ObserverTypes'
    BY <1>13 DEF HandlerReturns, ObserverTypes, Announce, Terminal, endVars,
         clickVars, lifeVars
  <2>3. QueueTypes' /\ OpTypes' /\ LedgerTypes'
    BY <1>13 DEF HandlerReturns, QueueTypes, OpTypes, LedgerTypes, indexVars,
         opVars, ledgerVars
  <2>4. WorkerHasOp'
    BY <1>13 DEF HandlerReturns, WorkerTypes, Goto, Await
  <2>5. QED
    BY <2>1, <2>2, <2>3, <2>4
<1>14. ASSUME NEW w \in Workers, HandlerParks(w) PROVE TypeInv'
  <2>1. QueueTypes'
    BY <1>14 DEF HandlerParks, QueueTypes, Hold, indexVars
  <2>2. OpTypes'
    BY <1>14 DEF HandlerParks, OpTypes, ArmReplay, opVars
  <2>3. WorkerTypes'
    BY <1>14 DEF HandlerParks, WorkerTypes, Goto, WorkerPc, InExecute,
         Working, Await, LedgerState, workerVars
  <2>4. LedgerTypes' /\ ObserverTypes'
    BY <1>14 DEF HandlerParks, LedgerTypes, ObserverTypes, ledgerVars,
         endVars, clickVars, lifeVars
  <2>5. WorkerHasOp'
    BY <1>14 DEF HandlerParks, WorkerTypes, Goto, Await
  <2>6. QED
    BY <2>1, <2>2, <2>3, <2>4, <2>5
<1>15. ASSUME NEW w \in Workers, HandlerFailsRetriably(w) PROVE TypeInv'
  <2>1. OpTypes'
    BY <1>15, ConstantsAssumption DEF HandlerFailsRetriably, OpTypes,
         ArmReplay, RetryLeft, ConstantsAssumption, opVars
  <2>2. WorkerTypes'
    BY <1>15 DEF HandlerFailsRetriably, WorkerTypes, Goto, WorkerPc,
         InExecute, Working, Await, LedgerState, workerVars
  <2>3. QueueTypes' /\ LedgerTypes' /\ ObserverTypes'
    BY <1>15 DEF HandlerFailsRetriably, QueueTypes, LedgerTypes,
         ObserverTypes, indexVars, ledgerVars, endVars, clickVars, lifeVars
  <2>4. WorkerHasOp'
    BY <1>15 DEF HandlerFailsRetriably, WorkerTypes, Goto, Await
  <2>5. QED
    BY <2>1, <2>2, <2>3, <2>4
<1>16. ASSUME NEW w \in Workers, HandlerFails(w) PROVE TypeInv'
  <2>1. WorkerTypes'
    BY <1>16 DEF HandlerFails, WorkerTypes, Goto, WorkerPc, InExecute,
         Working, Await, LedgerState, Terminal, workerVars
  <2>2. ObserverTypes'
    BY <1>16 DEF HandlerFails, ObserverTypes, Announce, Terminal, endVars,
         clickVars, lifeVars
  <2>3. QueueTypes' /\ OpTypes' /\ LedgerTypes'
    BY <1>16 DEF HandlerFails, QueueTypes, OpTypes, LedgerTypes, indexVars,
         opVars, ledgerVars
  <2>4. WorkerHasOp'
    BY <1>16 DEF HandlerFails, WorkerTypes, Goto, Await
  <2>5. QED
    BY <2>1, <2>2, <2>3, <2>4
<1>17. ASSUME NEW w \in Workers, BackoffStarts(w) PROVE TypeInv'
  <2>1. QueueTypes'
    BY <1>17 DEF BackoffStarts, QueueTypes, Written, indexVars
  <2>2. WorkerTypes'
    BY <1>17 DEF BackoffStarts, WorkerTypes, Written, ReleaseBulk, Goto,
         WorkerPc, InExecute, Working, workerVars
  <2>3. OpTypes' /\ LedgerTypes' /\ ObserverTypes'
    BY <1>17 DEF BackoffStarts, OpTypes, LedgerTypes, ObserverTypes, opVars,
         ledgerVars, endVars, clickVars, lifeVars
  <2>4. WorkerHasOp'
    BY <1>17 DEF BackoffStarts, WorkerTypes, Written, Goto
  <2>5. QED
    BY <2>1, <2>2, <2>3, <2>4
<1>18. ASSUME NEW w \in Workers, BackoffEnds(w) PROVE TypeInv'
  <2>1. QueueTypes'
    BY <1>18 DEF BackoffEnds, QueueTypes, Enqueue, QueueOf, Finally, indexVars
  <2>2. WorkerTypes'
    BY <1>18 DEF BackoffEnds, WorkerTypes, Leave, Finally, ReleaseBulk, Goto,
         WorkerPc, InExecute, Working, workerVars
  <2>3. OpTypes' /\ LedgerTypes' /\ ObserverTypes'
    BY <1>18 DEF BackoffEnds, OpTypes, LedgerTypes, ObserverTypes, opVars,
         ledgerVars, endVars, clickVars, lifeVars
  <2>4. WorkerHasOp'
    BY <1>18 DEF BackoffEnds, WorkerTypes, Leave, Goto
  <2>5. QED
    BY <2>1, <2>2, <2>3, <2>4
<1>19. ASSUME NEW w \in Workers, Finish(w) PROVE TypeInv'
  <2>1. QueueTypes'
    BY <1>19 DEF Finish, QueueTypes, Finally, indexVars
  <2>2. WorkerTypes'
    BY <1>19 DEF Finish, WorkerTypes, Written, Leave, Finally, ReleaseBulk,
         Goto, WorkerPc, InExecute, Working, workerVars
  <2>3. OpTypes' /\ LedgerTypes' /\ ObserverTypes'
    BY <1>19 DEF Finish, OpTypes, LedgerTypes, ObserverTypes, opVars,
         ledgerVars, endVars, clickVars, lifeVars
  <2>4. WorkerHasOp'
    BY <1>19 DEF Finish, WorkerTypes, Written, Leave, Goto
  <2>5. QED
    BY <2>1, <2>2, <2>3, <2>4
<1>20. ASSUME NEW w \in Workers, LoopAgain(w) PROVE TypeInv'
  <2>1. WorkerTypes'
    BY <1>20 DEF LoopAgain, WorkerTypes, Written, Leave, Goto, WorkerPc,
         InExecute, Working, workerVars
  <2>2. QueueTypes' /\ OpTypes' /\ LedgerTypes' /\ ObserverTypes'
    BY <1>20 DEF LoopAgain, QueueTypes, OpTypes, LedgerTypes, ObserverTypes,
         indexVars, opVars, ledgerVars, endVars, clickVars, lifeVars
  <2>3. WorkerHasOp'
    BY <1>20 DEF LoopAgain, WorkerTypes, Written, Leave, Goto
  <2>4. QED
    BY <2>1, <2>2, <2>3
<1>21. ASSUME NEW w \in Workers, CommitAwaited(w) PROVE TypeInv'
  <2>1. WorkerTypes'
    BY <1>21 DEF CommitAwaited, WorkerTypes, Await, workerVars
  <2>2. LedgerTypes'
    BY <1>21 DEF CommitAwaited, LedgerTypes, WorkerTypes, Persist, Upsert,
         RowState, LedgerState, ledgerVars
  <2>3. QueueTypes' /\ OpTypes' /\ ObserverTypes'
    BY <1>21 DEF CommitAwaited, QueueTypes, OpTypes, ObserverTypes, indexVars,
         opVars, endVars, clickVars, lifeVars
  <2>4. WorkerHasOp'
    BY <1>21 DEF CommitAwaited, WorkerTypes, Await
  <2>5. QED
    BY <2>1, <2>2, <2>3, <2>4
<1>22. ASSUME NEW t \in Tasks, CommitFired(t) PROVE TypeInv'
  <2>1. LedgerTypes'
    BY <1>22 DEF CommitFired, LedgerTypes, Persist, Upsert, RowState,
         LedgerState, ledgerVars
  <2>2. QueueTypes' /\ OpTypes' /\ WorkerTypes' /\ ObserverTypes'
    BY <1>22 DEF CommitFired, QueueTypes, OpTypes, WorkerTypes, ObserverTypes,
         indexVars, opVars, workerVars, endVars, clickVars, lifeVars
  <2>3. WorkerHasOp'
    BY <1>22 DEF CommitFired, workerVars
  <2>4. QED
    BY <2>1, <2>2, <2>3
<1>23. ASSUME NEW t \in Tasks, PauseTask(t) PROVE TypeInv'
  <2>1. QueueTypes'
    BY <1>23 DEF PauseTask, QueueTypes, indexVars
  <2>2. OpTypes'
    BY <1>23 DEF PauseTask, OpTypes, opVars
  <2>3. LedgerTypes'
    BY <1>23 DEF PauseTask, LedgerTypes, Fire, LedgerState, ledgerVars
  <2>4. ObserverTypes'
    BY <1>23, ConstantsAssumption DEF PauseTask, ObserverTypes,
         ConstantsAssumption, endVars, clickVars, lifeVars
  <2>5. WorkerTypes'
    BY <1>23 DEF PauseTask, WorkerTypes, workerVars
  <2>6. WorkerHasOp'
    BY <1>23 DEF PauseTask, workerVars
  <2>7. QED
    BY <2>1, <2>2, <2>3, <2>4, <2>5, <2>6
<1>24. ASSUME NEW t \in Tasks, ResumeTask(t) PROVE TypeInv'
  <2>1. QueueTypes'
    <3>1. queue' \in [{"hi", "lo"} -> Seq(Tasks)]
      <4>1. Enqueue(t) \/ UNCHANGED queue
        BY <1>24 DEF ResumeTask
      <4>2. CASE Enqueue(t)
        BY <4>2 DEF QueueTypes, Enqueue, QueueOf
      <4>3. CASE UNCHANGED queue
        BY <4>3 DEF QueueTypes
      <4>4. QED
        BY <4>1, <4>2, <4>3
    <3>2. paused' \in [Tasks -> {"no", "slot", "held"}] /\ pending' \subseteq Tasks
      BY <1>24 DEF ResumeTask, QueueTypes
    <3>3. QED
      BY <1>24, <3>1, <3>2 DEF ResumeTask, QueueTypes, indexVars
  <2>2. OpTypes'
    BY <1>24 DEF ResumeTask, OpTypes, opVars
  <2>3. LedgerTypes'
    BY <1>24 DEF ResumeTask, LedgerTypes, Fire, LedgerState, ledgerVars
  <2>4. ObserverTypes'
    BY <1>24 DEF ResumeTask, ObserverTypes, endVars, clickVars, lifeVars
  <2>5. WorkerTypes'
    BY <1>24 DEF ResumeTask, WorkerTypes, workerVars
  <2>6. WorkerHasOp'
    BY <1>24 DEF ResumeTask, workerVars
  <2>7. QED
    BY <2>1, <2>2, <2>3, <2>4, <2>5, <2>6
<1>25. ASSUME NEW t \in Tasks, CancelTask(t) PROVE TypeInv'
  <2>1. QueueTypes'
    BY <1>25 DEF CancelTask, QueueTypes, indexVars
  <2>2. OpTypes'
    BY <1>25 DEF CancelTask, OpTypes, opVars
  <2>3. LedgerTypes'
    BY <1>25 DEF CancelTask, LedgerTypes, Fire, LedgerState, Terminal,
         ledgerVars
  <2>4. ObserverTypes'
    BY <1>25 DEF CancelTask, ObserverTypes, Announce, Terminal, endVars,
         clickVars, lifeVars
  <2>5. WorkerTypes'
    BY <1>25 DEF CancelTask, WorkerTypes, workerVars
  <2>6. WorkerHasOp'
    BY <1>25 DEF CancelTask, workerVars
  <2>7. QED
    BY <2>1, <2>2, <2>3, <2>4, <2>5, <2>6
<1>26. ASSUME NEW w \in Workers, WorkerCancelled(w) PROVE TypeInv'
  <2>1. QueueTypes'
    BY <1>26 DEF WorkerCancelled, QueueTypes, Finally, indexVars
  <2>2. WorkerTypes'
    BY <1>26 DEF WorkerCancelled, WorkerTypes, Leave, Await, Finally,
         ReleaseBulk, Goto, WorkerPc, InExecute, Working, workerVars
  <2>3. LedgerTypes'
    BY <1>26 DEF WorkerCancelled, LedgerTypes, Fire, ledgerVars
  <2>4. ObserverTypes'
    BY <1>26 DEF WorkerCancelled, ObserverTypes, endVars, clickVars, lifeVars
  <2>5. OpTypes'
    BY <1>26 DEF WorkerCancelled, OpTypes, opVars
  <2>6. WorkerHasOp'
    BY <1>26 DEF WorkerCancelled, WorkerTypes, Leave, Await, Goto
  <2>7. QED
    BY <2>1, <2>2, <2>3, <2>4, <2>5, <2>6
<1>27. CASE Shutdown
  BY <1>27, ConstantsAssumption DEF Shutdown, ConstantsAssumption, QueueTypes,
       OpTypes, WorkerTypes, LedgerTypes, ObserverTypes, indexVars, opVars,
       workerVars, ledgerVars, endVars, clickVars, lifeVars
<1>28. CASE UNCHANGED vars
  BY <1>28 DEF vars, QueueTypes, OpTypes, WorkerTypes, LedgerTypes,
       ObserverTypes, indexVars, opVars, workerVars, ledgerVars, endVars,
       clickVars, lifeVars
<1>29. QED
  BY <1>1, <1>2, <1>3, <1>4, <1>5, <1>6, <1>7, <1>8, <1>9, <1>10, <1>11,
       <1>12, <1>13, <1>14, <1>15, <1>16, <1>17, <1>18, <1>19, <1>20, <1>21,
       <1>22, <1>23, <1>24, <1>25, <1>26, <1>27, <1>28 DEF Next, Worker, Task,
       Dequeue, HandlerEnds, Continue

(* Every variable keeps its type. *)
THEOREM TypeCorrect == Spec => []TypeInv
<1>1. Init => TypeInv
  BY TypeInit DEF Init, TypeInv, WorkerHasOp
<1>2. TypeInv /\ [Next]_vars => TypeInv'
  BY TypeStep
<1>3. QED
  BY <1>1, <1>2, PTL DEF Spec

-----------------------------------------------------------------------------
(* Part 2: where a task is, and how often it ends.                           *)

(* A worker takes the head of a queue: that entry leaves, the others stay.   *)
LEMMA TakeLemma ==
  ASSUME QueueTypes, QueueSorted, NoDuplicates,
         NEW w \in Workers, NEW t \in Tasks, Take(w, t)
  PROVE  /\ Queued(t) /\ ~Queued(t)'
         /\ \A u \in Tasks \ {t} : Queued(u)' <=> Queued(u)
         /\ NoDuplicates' /\ QueueSorted'
<1> DEFINE c == PoolOf(w)
<1> USE DEF QueueTypes
<1>1. /\ c \in {"hi", "lo"}
      /\ queue[c] \in Seq(Tasks) /\ queue[c] # <<>> /\ t = queue[c][1]
      /\ queue' = [queue EXCEPT ![c] = Tail(@)]
  BY DEF Take, PoolOf
<1> HIDE DEF c
<1>2. QueueOf(t) = c /\ 1 \in 1 .. Len(queue[c])
  BY <1>1 DEF QueueSorted
<1>3. /\ Len(queue'[c]) = Len(queue[c]) - 1
      /\ \A i \in 1 .. Len(queue'[c]) : queue'[c][i] = queue[c][i + 1]
      /\ \A d \in {"hi", "lo"} \ {c} : queue'[d] = queue[d]
  BY <1>1
<1>4. Queued(t)
  BY <1>1, <1>2 DEF Queued
<1>5. ~Queued(t)'
  BY <1>1, <1>2, <1>3 DEF Queued, NoDuplicates
<1>6. ASSUME NEW u \in Tasks \ {t} PROVE Queued(u)' <=> Queued(u)
  <2>1. QueueOf(u) \in {"hi", "lo"}
    BY DEF QueueOf
  <2>2. CASE QueueOf(u) # c
    BY <1>3, <2>1, <2>2 DEF Queued
  <2>3. CASE QueueOf(u) = c
    <3>1. ASSUME NEW i \in 1 .. Len(queue[c]), queue[c][i] = u PROVE Queued(u)'
      <4>1. i - 1 \in 1 .. Len(queue'[c]) /\ queue'[c][i - 1] = u
        BY <1>1, <1>3, <3>1
      <4>2. QED
        BY <4>1, <2>3 DEF Queued
    <3>2. ASSUME NEW i \in 1 .. Len(queue'[c]), queue'[c][i] = u PROVE Queued(u)
      <4>1. i + 1 \in 1 .. Len(queue[c]) /\ queue[c][i + 1] = u
        BY <1>1, <1>3, <3>2
      <4>2. QED
        BY <4>1, <2>3 DEF Queued
    <3>3. QED
      BY <3>1, <3>2, <2>3 DEF Queued
  <2>4. QED
    BY <2>2, <2>3
<1>7. NoDuplicates'
  BY <1>1, <1>3 DEF NoDuplicates
<1>8. QueueSorted'
  BY <1>1, <1>3 DEF QueueSorted
<1>9. QED
  BY <1>4, <1>5, <1>6, <1>7, <1>8

(* A task put at the end of its queue joins those that are there.            *)
LEMMA EnqueueLemma ==
  ASSUME QueueTypes, QueueSorted, NoDuplicates,
         NEW t \in Tasks, ~Queued(t), Enqueue(t)
  PROVE  /\ Queued(t)'
         /\ \A u \in Tasks \ {t} : Queued(u)' <=> Queued(u)
         /\ NoDuplicates' /\ QueueSorted'
<1> DEFINE c == QueueOf(t)
<1> USE DEF QueueTypes
<1>1. /\ c \in {"hi", "lo"} /\ queue[c] \in Seq(Tasks)
      /\ queue' = [queue EXCEPT ![c] = Append(@, t)]
  BY DEF Enqueue, QueueOf
<1>2. \A i \in 1 .. Len(queue[c]) : queue[c][i] # t
  BY DEF Queued
<1>a. QueueOf(t)' = c
  OBVIOUS
<1>b. QueueOf(t) = c
  OBVIOUS
<1> HIDE DEF c
<1>3. /\ Len(queue'[c]) = Len(queue[c]) + 1
      /\ queue'[c][Len(queue[c]) + 1] = t
      /\ \A i \in 1 .. Len(queue[c]) : queue'[c][i] = queue[c][i]
      /\ \A d \in {"hi", "lo"} \ {c} : queue'[d] = queue[d]
  BY <1>1
<1>4. Queued(t)'
  BY <1>1, <1>a, <1>3 DEF Queued
<1>5. ASSUME NEW u \in Tasks \ {t} PROVE Queued(u)' <=> Queued(u)
  <2>1. QueueOf(u) \in {"hi", "lo"} /\ QueueOf(u)' = QueueOf(u)
    BY DEF QueueOf
  <2>2. CASE QueueOf(u) # c
    BY <1>3, <2>1, <2>2 DEF Queued
  <2>3. CASE QueueOf(u) = c
    BY <1>1, <1>3, <2>1, <2>3 DEF Queued
  <2>4. QED
    BY <2>2, <2>3
<1>6. NoDuplicates'
  BY <1>1, <1>2, <1>3 DEF NoDuplicates
<1>7. QueueSorted'
  BY <1>1, <1>b, <1>3 DEF QueueSorted
<1>8. QED
  BY <1>4, <1>5, <1>6, <1>7

(* A step that leaves the queues alone leaves their entries alone.           *)
LEMMA SameQueueLemma ==
  ASSUME UNCHANGED queue, NoDuplicates, QueueSorted
  PROVE  /\ \A u \in Tasks : Queued(u)' <=> Queued(u)
         /\ NoDuplicates' /\ QueueSorted'
BY DEF Queued, NoDuplicates, QueueSorted

(* A worker goes from one stage of a run to another.                         *)
LEMMA LifeMoves ==
  ASSUME TypeInv, LifeInv, NEW w \in Workers, NEW s \in Active,
         pc[w] \in Active, pc' = [pc EXCEPT ![w] = s],
         UNCHANGED <<queue, pending, index, paused, opCancel, sub, cur, ends>>
  PROVE  LifeInv'
<1> USE DEF LifeInv, TypeInv, TypeOK, WorkerHasOp
<1>1. /\ \A u \in Tasks : Queued(u)' <=> Queued(u)
      /\ NoDuplicates' /\ QueueSorted'
  BY SameQueueLemma DEF NoDoubleExecution
<1>2. FreshIsUntouched'
  BY <1>1 DEF FreshIsUntouched, Untouched
<1>3. \A u \in Tasks : OnePlace(u)'
  BY <1>1 DEF NoDoubleExecution, OnePlace, OnWorker, Runs, Submitting, Held,
     Active
<1>4. PauseIsLive'
  BY <1>1 DEF PauseIsLive, Active, Somewhere, OnWorker, Runs, Submitting, Held
<1>5. RunnerIsAlone'
  BY <1>1 DEF RunnerIsAlone, Active, Runs
<1>6. IndexedIsLive'
  BY <1>1 DEF IndexedIsLive, Runs, Active
<1>7. StoppableUntilTheEnd'
  BY <1>1 DEF StoppableUntilTheEnd, Active, Somewhere, OnWorker, Runs,
     Submitting, Held
<1>8. TerminalOnce'
  BY <1>1 DEF TerminalOnce
<1>9. QED
  <2>1. NoDuplicates' /\ QueueSorted'
    BY <1>1
  <2>2. NoDoubleExecution'
    BY <2>1, <1>3 DEF NoDoubleExecution
  <2>3. QED
    BY <2>1, <2>2, <1>2, <1>4, <1>5, <1>6, <1>7, <1>8

(* A worker announces the end of the task it runs, which had none.           *)
LEMMA LifeEnds ==
  ASSUME TypeInv, LifeInv, NEW w \in Workers,
         pc[w] \in Active, pc' = [pc EXCEPT ![w] = "ending"],
         ends' = [ends EXCEPT ![cur[w]] = @ + 1],
         UNCHANGED <<queue, pending, index, paused, opCancel, sub, cur>>
  PROVE  LifeInv'
<1> USE DEF LifeInv, TypeInv, TypeOK, WorkerHasOp
<1>1. /\ \A u \in Tasks : Queued(u)' <=> Queued(u)
      /\ NoDuplicates' /\ QueueSorted'
  BY SameQueueLemma DEF NoDoubleExecution
<1>2. FreshIsUntouched'
  BY <1>1 DEF FreshIsUntouched, Untouched
<1>3. \A u \in Tasks : OnePlace(u)'
  BY <1>1 DEF NoDoubleExecution, OnePlace, OnWorker, Runs, Submitting, Held,
     Active
<1>4. PauseIsLive'
  BY <1>1 DEF PauseIsLive, Active, Somewhere, OnWorker, Runs, Submitting, Held
<1>5. RunnerIsAlone'
  BY <1>1 DEF RunnerIsAlone, Active, Runs
<1>6. IndexedIsLive'
  BY <1>1 DEF IndexedIsLive, Runs, WorkerTypes, Working
<1>7. StoppableUntilTheEnd'
  BY <1>1 DEF StoppableUntilTheEnd, Active, Somewhere, OnWorker, Runs,
     Submitting, Held
<1>8. TerminalOnce'
  BY <1>1 DEF TerminalOnce, IndexedIsLive, NoDoubleExecution, OnePlace,
     RunnerIsAlone, Active, Runs
<1>9. QED
  <2>1. NoDuplicates' /\ QueueSorted'
    BY <1>1
  <2>2. NoDoubleExecution'
    BY <2>1, <1>3 DEF NoDoubleExecution
  <2>3. QED
    BY <2>1, <2>2, <1>2, <1>4, <1>5, <1>6, <1>7, <1>8

(* A step that touches none of the variables of LifeInv.                     *)
LEMMA LifeStutters ==
  ASSUME LifeInv,
         UNCHANGED <<queue, pending, index, paused, opCancel, sub, cur, pc, ends>>
  PROVE  LifeInv'
<1> USE DEF LifeInv
<1>1. /\ \A u \in Tasks : Queued(u)' <=> Queued(u)
      /\ NoDuplicates' /\ QueueSorted'
  BY SameQueueLemma DEF NoDoubleExecution
<1>2. FreshIsUntouched'
  BY <1>1 DEF FreshIsUntouched, Untouched
<1>3. \A u \in Tasks : OnePlace(u)'
  BY <1>1 DEF NoDoubleExecution, OnePlace, OnWorker, Runs, Submitting, Held
<1>4. PauseIsLive'
  BY <1>1 DEF PauseIsLive, Somewhere, OnWorker, Runs, Submitting, Held
<1>5. RunnerIsAlone'
  BY <1>1 DEF RunnerIsAlone, Runs
<1>6. IndexedIsLive'
  BY <1>1 DEF IndexedIsLive, Runs
<1>7. StoppableUntilTheEnd'
  BY <1>1 DEF StoppableUntilTheEnd, Somewhere, OnWorker, Runs, Submitting, Held
<1>8. TerminalOnce'
  BY <1>1 DEF TerminalOnce
<1>9. QED
  <2>1. NoDuplicates' /\ QueueSorted'
    BY <1>1
  <2>2. NoDoubleExecution'
    BY <2>1, <1>3 DEF NoDoubleExecution
  <2>3. QED
    BY <2>1, <2>2, <1>2, <1>4, <1>5, <1>6, <1>7, <1>8

(* submit() of a fresh task: it was untouched, so it is nowhere else.        *)
LEMMA SubmitLife ==
  ASSUME TypeInv, LifeInv, NEW t \in Tasks, Submit(t) PROVE LifeInv'
<1> USE DEF LifeInv, TypeInv, TypeOK, WorkerHasOp
<1>1. /\ \A u \in Tasks : Queued(u)' <=> Queued(u)
      /\ NoDuplicates' /\ QueueSorted'
  BY SameQueueLemma DEF Submit, NoDoubleExecution
<1>2. /\ sub[t] = "new" /\ sub' = [sub EXCEPT ![t] = "writing"]
      /\ pc' = [w \in Workers |-> IF pc[w] = "off" THEN "idle" ELSE pc[w]]
      /\ pending' = pending \cup {t} /\ index' = index \cup {t}
      /\ UNCHANGED <<paused, opCancel, ends, cur>>
  BY DEF Submit, opVars, endVars
<1>3. FreshIsUntouched'
  BY <1>1, <1>2 DEF FreshIsUntouched, Untouched, QueueTypes
<1>4. \A u \in Tasks : OnePlace(u)'
  BY <1>1, <1>2 DEF NoDoubleExecution, OnePlace, OnWorker, Runs, Submitting,
     Held, Working, FreshIsUntouched, Untouched
<1>5. PauseIsLive'
  BY <1>1, <1>2 DEF PauseIsLive, Somewhere, OnWorker, Runs, Submitting, Held,
     Working
<1>6. RunnerIsAlone'
  BY <1>1, <1>2 DEF RunnerIsAlone, FreshIsUntouched, Untouched, Runs, Working
<1>7. IndexedIsLive'
  BY <1>1, <1>2 DEF IndexedIsLive, FreshIsUntouched, Untouched, Runs
<1>8. StoppableUntilTheEnd'
  BY <1>1, <1>2 DEF StoppableUntilTheEnd, Somewhere, OnWorker, Runs,
     Submitting, Held, Working
<1>9. TerminalOnce'
  BY <1>1, <1>2 DEF TerminalOnce
<1>10. QED
  <2>1. NoDuplicates' /\ QueueSorted'
    BY <1>1
  <2>2. NoDoubleExecution'
    BY <2>1, <1>4 DEF NoDoubleExecution
  <2>3. QED
    BY <2>1, <2>2, <1>3, <1>5, <1>6, <1>7, <1>8, <1>9

(* The pending row is written, and only submit() holds the task.             *)
LEMMA SubmitWrittenLife ==
  ASSUME TypeInv, LifeInv, NEW t \in Tasks, SubmitWritten(t) PROVE LifeInv'
<1> USE DEF LifeInv, TypeInv, TypeOK, WorkerHasOp
<1>1. /\ \A u \in Tasks : Queued(u)' <=> Queued(u)
      /\ NoDuplicates' /\ QueueSorted'
  BY SameQueueLemma DEF SubmitWritten, NoDoubleExecution
<1>2. /\ sub[t] = "writing" /\ sub' = [sub EXCEPT ![t] = "written"]
      /\ UNCHANGED <<pending, index, paused, opCancel, ends, pc, cur>>
  BY DEF SubmitWritten, indexVars, opVars, workerVars, endVars
<1>3. FreshIsUntouched'
  BY <1>1, <1>2 DEF FreshIsUntouched, Untouched
<1>4. \A u \in Tasks : OnePlace(u)'
  BY <1>1, <1>2 DEF NoDoubleExecution, OnePlace, OnWorker, Runs, Submitting,
     Held
<1>5. PauseIsLive'
  BY <1>1, <1>2 DEF PauseIsLive, Somewhere, OnWorker, Runs, Submitting, Held
<1>6. RunnerIsAlone'
  BY <1>1, <1>2 DEF RunnerIsAlone, Runs
<1>7. IndexedIsLive'
  BY <1>1, <1>2 DEF IndexedIsLive, Runs
<1>8. StoppableUntilTheEnd'
  BY <1>1, <1>2 DEF StoppableUntilTheEnd, Somewhere, OnWorker, Runs,
     Submitting, Held
<1>9. TerminalOnce'
  BY <1>1, <1>2 DEF TerminalOnce
<1>10. QED
  <2>1. NoDuplicates' /\ QueueSorted'
    BY <1>1
  <2>2. NoDoubleExecution'
    BY <2>1, <1>4 DEF NoDoubleExecution
  <2>3. QED
    BY <2>1, <2>2, <1>3, <1>5, <1>6, <1>7, <1>8, <1>9

(* submit() hands the task to the queue, or drops one ended meanwhile.       *)
LEMMA SubmitEnqueuesLife ==
  ASSUME TypeInv, LifeInv, NEW t \in Tasks, SubmitEnqueues(t) PROVE LifeInv'
<1> USE DEF LifeInv, TypeInv, TypeOK, WorkerHasOp
<1>1. /\ sub[t] = "written" /\ sub' = [sub EXCEPT ![t] = "in"]
      /\ UNCHANGED <<pending, index, paused, opCancel, ends, pc, cur>>
  BY DEF SubmitEnqueues, indexVars, opVars, workerVars, endVars
<1>2. Enqueue(t) /\ ~Queued(t)
  BY <1>1 DEF SubmitEnqueues, NoDoubleExecution, OnePlace, Submitting
<1>3. /\ Queued(t)'
      /\ \A u \in Tasks \ {t} : Queued(u)' <=> Queued(u)
      /\ NoDuplicates' /\ QueueSorted'
  BY <1>2, EnqueueLemma DEF NoDoubleExecution
<1>4. FreshIsUntouched'
  BY <1>3, <1>1 DEF FreshIsUntouched, Untouched
<1>5. \A u \in Tasks : OnePlace(u)'
  BY <1>3, <1>1 DEF NoDoubleExecution, OnePlace, OnWorker, Runs, Submitting,
     Held, QueueTypes
<1>6. PauseIsLive'
  BY <1>3, <1>1 DEF PauseIsLive, Somewhere, OnWorker, Runs, Submitting, Held
<1>7. RunnerIsAlone'
  BY <1>3, <1>1 DEF RunnerIsAlone, Runs
<1>8. IndexedIsLive'
  BY <1>3, <1>1 DEF IndexedIsLive, Runs
<1>9. StoppableUntilTheEnd'
  BY <1>3, <1>1 DEF StoppableUntilTheEnd, Somewhere, OnWorker, Runs,
     Submitting, Held
<1>10. TerminalOnce'
  BY <1>3, <1>1 DEF TerminalOnce
<1>11. QED
  <2>1. NoDuplicates' /\ QueueSorted'
    BY <1>3
  <2>2. NoDoubleExecution'
    BY <2>1, <1>5 DEF NoDoubleExecution
  <2>3. QED
    BY <2>1, <2>2, <1>4, <1>6, <1>7, <1>8, <1>9, <1>10

(* At a shutdown the entry is lost, and with it the only place of the task.  *)
LEMMA DequeueDroppedLife ==
  ASSUME TypeInv, LifeInv, NEW w \in Workers, DequeueDropped(w) PROVE LifeInv'
<1> USE DEF LifeInv, TypeInv, TypeOK, WorkerHasOp
<1>1. PICK t \in Tasks : Take(w, t)
  BY DEF DequeueDropped
<1>2. /\ Queued(t) /\ ~Queued(t)'
      /\ \A u \in Tasks \ {t} : Queued(u)' <=> Queued(u)
      /\ NoDuplicates' /\ QueueSorted'
  BY <1>1, TakeLemma DEF NoDoubleExecution
<1>3. /\ pc[w] = "idle" /\ pc' = [pc EXCEPT ![w] = "off"]
      /\ UNCHANGED <<pending, index, paused, opCancel, ends, sub, cur>>
  BY <1>1 DEF DequeueDropped, Take, Goto, indexVars, opVars, endVars
<1>4. FreshIsUntouched'
  BY <1>2, <1>3 DEF FreshIsUntouched, Untouched
<1>5. \A u \in Tasks : OnePlace(u)'
  BY <1>2, <1>3 DEF NoDoubleExecution, OnePlace, OnWorker, Runs, Submitting,
     Held, Working
<1>6. PauseIsLive'
  BY <1>2, <1>3 DEF PauseIsLive, Somewhere, OnWorker, Runs, Submitting, Held,
     Working
<1>7. RunnerIsAlone'
  BY <1>2, <1>3 DEF RunnerIsAlone, Runs, Working
<1>8. IndexedIsLive'
  BY <1>2, <1>3 DEF IndexedIsLive, Runs
<1>9. StoppableUntilTheEnd'
  BY <1>2, <1>3 DEF StoppableUntilTheEnd, Somewhere, OnWorker, Runs,
     Submitting, Held, Working
<1>10. TerminalOnce'
  BY <1>2, <1>3 DEF TerminalOnce
<1>11. QED
  <2>1. NoDuplicates' /\ QueueSorted'
    BY <1>2
  <2>2. NoDoubleExecution'
    BY <2>1, <1>5 DEF NoDoubleExecution
  <2>3. QED
    BY <2>1, <2>2, <1>4, <1>6, <1>7, <1>8, <1>9, <1>10

(* A paused and interrupted task ends where it is dequeued.                  *)
LEMMA DequeueInterruptedLife ==
  ASSUME TypeInv, LifeInv, NEW w \in Workers, DequeueInterrupted(w) PROVE LifeInv'
<1> USE DEF LifeInv, TypeInv, TypeOK, WorkerHasOp
<1>1. PICK t \in Tasks : DequeueInterrupted(w)!2!(t)
  BY DEF DequeueInterrupted
<1>2. /\ Queued(t) /\ ~Queued(t)'
      /\ \A u \in Tasks \ {t} : Queued(u)' <=> Queued(u)
      /\ NoDuplicates' /\ QueueSorted'
  BY <1>1, TakeLemma DEF NoDoubleExecution
<1>3. /\ pc[w] = "idle" /\ pc' = [pc EXCEPT ![w] = "closing"]
      /\ cur' = [cur EXCEPT ![w] = t] /\ paused[t] # "no"
      /\ paused' = [paused EXCEPT ![t] = "no"] /\ index' = index \ {t}
      /\ ends' = [ends EXCEPT ![t] = @ + 1]
      /\ UNCHANGED <<pending, opCancel, sub>>
  BY <1>1 DEF DequeueInterrupted, PauseEntry, Take, Goto, Announce, opVars
<1>4. FreshIsUntouched'
  BY <1>2, <1>3 DEF FreshIsUntouched, Untouched
<1>5. \A u \in Tasks : OnePlace(u)'
  BY <1>2, <1>3 DEF NoDoubleExecution, OnePlace, OnWorker, Runs, Submitting,
     Held, Working
<1>6. PauseIsLive'
  BY <1>2, <1>3 DEF PauseIsLive, NoDoubleExecution, OnePlace, Somewhere,
     OnWorker, Runs, Submitting, Held, Working
<1>7. RunnerIsAlone'
  BY <1>2, <1>3 DEF RunnerIsAlone, NoDoubleExecution, OnePlace, OnWorker, Runs,
     Working
<1>8. IndexedIsLive'
  BY <1>2, <1>3 DEF IndexedIsLive, Runs, WorkerTypes
<1>9. StoppableUntilTheEnd'
  BY <1>2, <1>3 DEF StoppableUntilTheEnd, NoDoubleExecution, OnePlace,
     Somewhere, OnWorker, Runs, Submitting, Held, Working
<1>10. TerminalOnce'
  <2>1. t \in index
    BY <1>2, <1>3 DEF PauseIsLive, Somewhere, QueueTypes
  <2>2. ends[t] = 0
    BY <1>2, <1>3, <2>1 DEF IndexedIsLive, NoDoubleExecution, OnePlace,
       OnWorker
  <2>3. QED
    BY <1>2, <1>3, <2>2 DEF TerminalOnce
<1>11. QED
  <2>1. NoDuplicates' /\ QueueSorted'
    BY <1>2
  <2>2. NoDoubleExecution'
    BY <2>1, <1>5 DEF NoDoubleExecution
  <2>3. QED
    BY <2>1, <2>2, <1>4, <1>6, <1>7, <1>8, <1>9, <1>10

(* A paused entry moves from the queue to the hold.                          *)
LEMMA DequeueHeldLife ==
  ASSUME TypeInv, LifeInv, NEW w \in Workers, DequeueHeld(w) PROVE LifeInv'
<1> USE DEF LifeInv, TypeInv, TypeOK, WorkerHasOp
<1>1. PICK t \in Tasks : DequeueHeld(w)!2!(t)
  BY DEF DequeueHeld
<1>2. /\ Queued(t) /\ ~Queued(t)'
      /\ \A u \in Tasks \ {t} : Queued(u)' <=> Queued(u)
      /\ NoDuplicates' /\ QueueSorted'
  BY <1>1, TakeLemma DEF NoDoubleExecution
<1>3. /\ pc[w] = "idle" /\ pc' = [pc EXCEPT ![w] = "holding"]
      /\ cur' = [cur EXCEPT ![w] = t] /\ paused[t] # "no" /\ t \notin opCancel
      /\ paused' = [paused EXCEPT ![t] = "held"]
      /\ UNCHANGED <<pending, index, opCancel, ends, sub>>
  BY <1>1 DEF DequeueHeld, PauseEntry, Stopped, Take, Goto, Hold, opVars,
     endVars
<1>4. FreshIsUntouched'
  BY <1>2, <1>3 DEF FreshIsUntouched, Untouched
<1>5. \A u \in Tasks : OnePlace(u)'
  BY <1>2, <1>3 DEF NoDoubleExecution, OnePlace, OnWorker, Runs, Submitting,
     Held, Working
<1>6. PauseIsLive'
  BY <1>2, <1>3 DEF PauseIsLive, Somewhere, OnWorker, Runs, Submitting, Held,
     Working, QueueTypes
<1>7. RunnerIsAlone'
  BY <1>2, <1>3 DEF RunnerIsAlone, Runs, Working
<1>8. IndexedIsLive'
  BY <1>2, <1>3 DEF IndexedIsLive, Runs, WorkerTypes
<1>9. StoppableUntilTheEnd'
  BY <1>2, <1>3 DEF StoppableUntilTheEnd, Somewhere, OnWorker, Runs,
     Submitting, Held, Working
<1>10. TerminalOnce'
  BY <1>2, <1>3 DEF TerminalOnce
<1>11. QED
  <2>1. NoDuplicates' /\ QueueSorted'
    BY <1>2
  <2>2. NoDoubleExecution'
    BY <2>1, <1>5 DEF NoDoubleExecution
  <2>3. QED
    BY <2>1, <2>2, <1>4, <1>6, <1>7, <1>8, <1>9, <1>10

(* A cancelled entry ends where it is dequeued, unless it ended before.      *)
LEMMA DequeueCancelledLife ==
  ASSUME TypeInv, LifeInv, NEW w \in Workers, DequeueCancelled(w) PROVE LifeInv'
<1> USE DEF LifeInv, TypeInv, TypeOK, WorkerHasOp
<1>1. PICK t \in Tasks : DequeueCancelled(w)!2!(t)
  BY DEF DequeueCancelled
<1>2. /\ Queued(t) /\ ~Queued(t)'
      /\ \A u \in Tasks \ {t} : Queued(u)' <=> Queued(u)
      /\ NoDuplicates' /\ QueueSorted'
  BY <1>1, TakeLemma DEF NoDoubleExecution
<1>3. /\ pc[w] = "idle" /\ pending' = pending \ {t} /\ paused[t] = "no"
      /\ \/ /\ t \in index /\ index' = index \ {t}
            /\ ends' = [ends EXCEPT ![t] = @ + 1]
            /\ cur' = [cur EXCEPT ![w] = t] /\ pc' = [pc EXCEPT ![w] = "closing"]
         \/ t \notin index /\ UNCHANGED <<index, ends, cur, pc>>
      /\ UNCHANGED <<paused, opCancel, sub>>
  BY <1>1 DEF DequeueCancelled, PauseEntry, EndIsOwed, Take, Goto, Announce,
     workerVars, endVars, opVars
<1>4. FreshIsUntouched'
  BY <1>2, <1>3 DEF FreshIsUntouched, Untouched, WorkerTypes, ObserverTypes
<1>5. \A u \in Tasks : OnePlace(u)'
  BY <1>2, <1>3 DEF NoDoubleExecution, OnePlace, OnWorker, Runs, Submitting,
     Held, WorkerTypes
<1>6. PauseIsLive'
  BY <1>2, <1>3 DEF PauseIsLive, Somewhere, OnWorker, Runs, Submitting, Held,
     WorkerTypes
<1>7. RunnerIsAlone'
  BY <1>2, <1>3 DEF RunnerIsAlone, NoDoubleExecution, OnePlace, OnWorker, Runs,
     WorkerTypes, Working
<1>8. IndexedIsLive'
  BY <1>2, <1>3 DEF IndexedIsLive, Runs, WorkerTypes, ObserverTypes
<1>9. StoppableUntilTheEnd'
  BY <1>2, <1>3 DEF StoppableUntilTheEnd, NoDoubleExecution, OnePlace,
     Somewhere, OnWorker, Runs, Submitting, Held, WorkerTypes, Working
<1>10. TerminalOnce'
  BY <1>2, <1>3 DEF TerminalOnce, IndexedIsLive, NoDoubleExecution, OnePlace,
     ObserverTypes, OnWorker
<1>11. QED
  <2>1. NoDuplicates' /\ QueueSorted'
    BY <1>2
  <2>2. NoDoubleExecution'
    BY <2>1, <1>5 DEF NoDoubleExecution
  <2>3. QED
    BY <2>1, <2>2, <1>4, <1>6, <1>7, <1>8, <1>9, <1>10

(* The entry moves from the queue to the worker.                             *)
LEMMA DequeueRunLife ==
  ASSUME TypeInv, LifeInv, NEW w \in Workers, DequeueRun(w) PROVE LifeInv'
<1> USE DEF LifeInv, TypeInv, TypeOK, WorkerHasOp
<1>1. PICK t \in Tasks : DequeueRun(w)!2!(t)
  BY DEF DequeueRun
<1>2. /\ Queued(t) /\ ~Queued(t)'
      /\ \A u \in Tasks \ {t} : Queued(u)' <=> Queued(u)
      /\ NoDuplicates' /\ QueueSorted'
  BY <1>1, TakeLemma DEF NoDoubleExecution
<1>3. /\ pc[w] = "idle" /\ pc' = [pc EXCEPT ![w] = "acquire"]
      /\ cur' = [cur EXCEPT ![w] = t]
      /\ paused[t] = "no" /\ t \notin opCancel
      /\ pending' = pending \ {t}
      /\ UNCHANGED <<index, paused, opCancel, ends, sub>>
  BY <1>1 DEF DequeueRun, PauseEntry, Stopped, Take, Goto, opVars, endVars
<1>4. FreshIsUntouched'
  BY <1>2, <1>3 DEF FreshIsUntouched, Untouched
<1>5. \A u \in Tasks : OnePlace(u)'
  BY <1>2, <1>3 DEF NoDoubleExecution, OnePlace, OnWorker, Runs, Submitting,
     Held, WorkerTypes
<1>6. PauseIsLive'
  BY <1>2, <1>3 DEF PauseIsLive, Somewhere, OnWorker, Runs, Submitting, Held,
     WorkerTypes
<1>7. RunnerIsAlone'
  BY <1>2, <1>3 DEF RunnerIsAlone, StoppableUntilTheEnd, Somewhere, Runs,
     WorkerTypes
<1>8. IndexedIsLive'
  BY <1>2, <1>3 DEF IndexedIsLive, Runs
<1>9. StoppableUntilTheEnd'
  BY <1>2, <1>3 DEF StoppableUntilTheEnd, Somewhere, OnWorker, Runs,
     Submitting, Held, WorkerTypes
<1>10. TerminalOnce'
  BY <1>2, <1>3 DEF TerminalOnce
<1>11. QED
  <2>1. NoDuplicates' /\ QueueSorted'
    BY <1>2
  <2>2. NoDoubleExecution'
    BY <2>1, <1>5 DEF NoDoubleExecution
  <2>3. QED
    BY <2>1, <2>2, <1>4, <1>6, <1>7, <1>8, <1>9, <1>10

(* The task moves from its worker to the hold.                               *)
LEMMA HandlerParksLife ==
  ASSUME TypeInv, LifeInv, NEW w \in Workers, HandlerParks(w) PROVE LifeInv'
<1> USE DEF LifeInv, TypeInv, TypeOK, WorkerHasOp
<1>1. /\ \A u \in Tasks : Queued(u)' <=> Queued(u)
      /\ NoDuplicates' /\ QueueSorted'
  BY SameQueueLemma DEF HandlerParks, NoDoubleExecution
<1>2. /\ pc[w] = "handler" /\ pc' = [pc EXCEPT ![w] = "parking"]
      /\ cur[w] \notin opCancel
      /\ paused' = [paused EXCEPT ![cur[w]] = "held"]
      /\ UNCHANGED <<pending, index, opCancel, ends, sub, cur>>
  BY DEF HandlerParks, Goto, Hold, endVars
<1>3. FreshIsUntouched'
  BY <1>1, <1>2 DEF FreshIsUntouched, Untouched
<1>4. \A u \in Tasks : OnePlace(u)'
  BY <1>1, <1>2 DEF NoDoubleExecution, OnePlace, OnWorker, Runs, Submitting,
     Held, WorkerTypes, Working
<1>5. PauseIsLive'
  BY <1>1, <1>2 DEF PauseIsLive, StoppableUntilTheEnd, Somewhere, OnWorker,
     Runs, Submitting, Held, Working
<1>6. RunnerIsAlone'
  BY <1>1, <1>2 DEF RunnerIsAlone, NoDoubleExecution, OnePlace, Runs,
     WorkerTypes, Working
<1>7. IndexedIsLive'
  BY <1>1, <1>2 DEF IndexedIsLive, Runs, WorkerTypes
<1>8. StoppableUntilTheEnd'
  BY <1>1, <1>2 DEF StoppableUntilTheEnd, Somewhere, OnWorker, Runs,
     Submitting, Held, Working
<1>9. TerminalOnce'
  BY <1>1, <1>2 DEF TerminalOnce
<1>10. QED
  <2>1. NoDuplicates' /\ QueueSorted'
    BY <1>1
  <2>2. NoDoubleExecution'
    BY <2>1, <1>4 DEF NoDoubleExecution
  <2>3. QED
    BY <2>1, <2>2, <1>3, <1>5, <1>6, <1>7, <1>8, <1>9

(* The task is pending again, and its worker still has it.                   *)
LEMMA BackoffStartsLife ==
  ASSUME TypeInv, LifeInv, NEW w \in Workers, BackoffStarts(w) PROVE LifeInv'
<1> USE DEF LifeInv, TypeInv, TypeOK, WorkerHasOp
<1>1. /\ \A u \in Tasks : Queued(u)' <=> Queued(u)
      /\ NoDuplicates' /\ QueueSorted'
  BY SameQueueLemma DEF BackoffStarts, NoDoubleExecution
<1>2. /\ pc[w] = "retrying" /\ pc' = [pc EXCEPT ![w] = "backoff"]
      /\ pending' = pending \cup {cur[w]}
      /\ UNCHANGED <<index, paused, opCancel, ends, sub, cur>>
  BY DEF BackoffStarts, Written, Goto, opVars, endVars
<1>3. FreshIsUntouched'
  BY <1>1, <1>2 DEF FreshIsUntouched, Untouched
<1>4. \A u \in Tasks : OnePlace(u)'
  BY <1>1, <1>2 DEF NoDoubleExecution, OnePlace, OnWorker, Runs, Submitting,
     Held, Working
<1>5. PauseIsLive'
  BY <1>1, <1>2 DEF PauseIsLive, RunnerIsAlone, Active, Somewhere, OnWorker,
     Runs, Submitting, Held, Working
<1>6. RunnerIsAlone'
  BY <1>1, <1>2 DEF RunnerIsAlone, Active, NoDoubleExecution, OnePlace, Runs,
     WorkerTypes, Working
<1>7. IndexedIsLive'
  BY <1>1, <1>2 DEF IndexedIsLive, Runs
<1>8. StoppableUntilTheEnd'
  BY <1>1, <1>2 DEF StoppableUntilTheEnd, Somewhere, OnWorker, Runs,
     Submitting, Held, Working
<1>9. TerminalOnce'
  BY <1>1, <1>2 DEF TerminalOnce
<1>10. QED
  <2>1. NoDuplicates' /\ QueueSorted'
    BY <1>1
  <2>2. NoDoubleExecution'
    BY <2>1, <1>4 DEF NoDoubleExecution
  <2>3. QED
    BY <2>1, <2>2, <1>3, <1>5, <1>6, <1>7, <1>8, <1>9

(* The task moves from its worker back to the queue.                         *)
LEMMA BackoffEndsLife ==
  ASSUME TypeInv, LifeInv, NEW w \in Workers, BackoffEnds(w) PROVE LifeInv'
<1> USE DEF LifeInv, TypeInv, TypeOK, WorkerHasOp
<1>1. PICK t \in Tasks : t = cur[w]
  BY DEF BackoffEnds
<1>2. /\ t = cur[w]
      /\ pc[w] = "backoff" /\ pc' = [pc EXCEPT ![w] = "idle"]
      /\ cur' = [cur EXCEPT ![w] = "none"]
      /\ UNCHANGED <<pending, index, paused, opCancel, ends, sub>>
  BY <1>1 DEF BackoffEnds, Goto, Leave, Finally, opVars, endVars
<1>3. Enqueue(t) /\ ~Queued(t)
  BY <1>2 DEF BackoffEnds, NoDoubleExecution, OnePlace, OnWorker, Runs, Working
<1>4. /\ Queued(t)'
      /\ \A u \in Tasks \ {t} : Queued(u)' <=> Queued(u)
      /\ NoDuplicates' /\ QueueSorted'
  BY <1>3, EnqueueLemma DEF NoDoubleExecution
<1>5. FreshIsUntouched'
  BY ConstantsAssumption, <1>4, <1>2 DEF FreshIsUntouched, Untouched
<1>6. \A u \in Tasks : OnePlace(u)'
  BY ConstantsAssumption, <1>4, <1>2 DEF NoDoubleExecution, OnePlace, OnWorker,
     Runs, Submitting, Held, WorkerTypes, Working
<1>7. PauseIsLive'
  BY ConstantsAssumption, <1>4, <1>2 DEF PauseIsLive, Somewhere, OnWorker,
     Runs, Submitting, Held, Working
<1>8. RunnerIsAlone'
  BY ConstantsAssumption, <1>4, <1>2 DEF RunnerIsAlone, Runs, Working
<1>9. IndexedIsLive'
  BY ConstantsAssumption, <1>4, <1>2 DEF IndexedIsLive, Runs
<1>10. StoppableUntilTheEnd'
  BY ConstantsAssumption, <1>4, <1>2 DEF StoppableUntilTheEnd, Somewhere,
     OnWorker, Runs, Submitting, Held, Working
<1>11. TerminalOnce'
  BY ConstantsAssumption, <1>4, <1>2 DEF TerminalOnce
<1>12. QED
  <2>1. NoDuplicates' /\ QueueSorted'
    BY <1>4
  <2>2. NoDoubleExecution'
    BY <2>1, <1>6 DEF NoDoubleExecution
  <2>3. QED
    BY <2>1, <2>2, <1>5, <1>7, <1>8, <1>9, <1>10, <1>11

(* The finally block lets go of a task that ended, or that is held.          *)
LEMMA FinishLife ==
  ASSUME TypeInv, LifeInv, NEW w \in Workers, Finish(w) PROVE LifeInv'
<1> USE DEF LifeInv, TypeInv, TypeOK, WorkerHasOp
<1>1. /\ \A u \in Tasks : Queued(u)' <=> Queued(u)
      /\ NoDuplicates' /\ QueueSorted'
  BY SameQueueLemma DEF Finish, NoDoubleExecution
<1>2. /\ pc' = [pc EXCEPT ![w] = "idle"] /\ cur' = [cur EXCEPT ![w] = "none"]
      /\ \/ pc[w] = "ending" /\ index' = index \ {cur[w]}
         \/ pc[w] = "parking" /\ UNCHANGED index
      /\ UNCHANGED <<pending, paused, opCancel, ends, sub>>
  BY DEF Finish, Written, Goto, Leave, Finally, opVars, endVars
<1>3. FreshIsUntouched'
  BY ConstantsAssumption, <1>1, <1>2 DEF FreshIsUntouched, Untouched
<1>4. \A u \in Tasks : OnePlace(u)'
  BY ConstantsAssumption, <1>1, <1>2 DEF NoDoubleExecution, OnePlace, OnWorker,
     Runs, Submitting, Held, Working
<1>5. PauseIsLive'
  BY ConstantsAssumption, <1>1, <1>2 DEF PauseIsLive, RunnerIsAlone, Somewhere,
     OnWorker, Runs, Submitting, Held, Working
<1>6. RunnerIsAlone'
  BY ConstantsAssumption, <1>1, <1>2 DEF RunnerIsAlone, NoDoubleExecution,
     OnePlace, Runs, WorkerTypes, Working
<1>7. IndexedIsLive'
  BY ConstantsAssumption, <1>1, <1>2 DEF IndexedIsLive, Runs
<1>8. StoppableUntilTheEnd'
  BY ConstantsAssumption, <1>1, <1>2 DEF StoppableUntilTheEnd,
     NoDoubleExecution, OnePlace, Somewhere, OnWorker, Runs, Submitting, Held,
     WorkerTypes, Working
<1>9. TerminalOnce'
  BY ConstantsAssumption, <1>1, <1>2 DEF TerminalOnce
<1>10. QED
  <2>1. NoDuplicates' /\ QueueSorted'
    BY <1>1
  <2>2. NoDoubleExecution'
    BY <2>1, <1>4 DEF NoDoubleExecution
  <2>3. QED
    BY <2>1, <2>2, <1>3, <1>5, <1>6, <1>7, <1>8, <1>9

(* The worker lets go of a task that the queue no longer has.                *)
LEMMA LoopAgainLife ==
  ASSUME TypeInv, LifeInv, NEW w \in Workers, LoopAgain(w) PROVE LifeInv'
<1> USE DEF LifeInv, TypeInv, TypeOK, WorkerHasOp
<1>1. /\ \A u \in Tasks : Queued(u)' <=> Queued(u)
      /\ NoDuplicates' /\ QueueSorted'
  BY SameQueueLemma DEF LoopAgain, NoDoubleExecution
<1>2. /\ pc[w] \in {"holding", "closing"}
      /\ pc' = [pc EXCEPT ![w] = "idle"] /\ cur' = [cur EXCEPT ![w] = "none"]
      /\ UNCHANGED <<pending, index, paused, opCancel, ends, sub>>
  BY DEF LoopAgain, Written, Goto, Leave, indexVars, opVars, endVars
<1>3. FreshIsUntouched'
  BY ConstantsAssumption, <1>1, <1>2 DEF FreshIsUntouched, Untouched
<1>4. \A u \in Tasks : OnePlace(u)'
  BY ConstantsAssumption, <1>1, <1>2 DEF NoDoubleExecution, OnePlace, OnWorker,
     Runs, Submitting, Held, Working
<1>5. PauseIsLive'
  BY ConstantsAssumption, <1>1, <1>2 DEF PauseIsLive, Somewhere, OnWorker,
     Runs, Submitting, Held, Working
<1>6. RunnerIsAlone'
  BY ConstantsAssumption, <1>1, <1>2 DEF RunnerIsAlone, Runs, Working
<1>7. IndexedIsLive'
  BY ConstantsAssumption, <1>1, <1>2 DEF IndexedIsLive, Runs
<1>8. StoppableUntilTheEnd'
  BY ConstantsAssumption, <1>1, <1>2 DEF StoppableUntilTheEnd, Somewhere,
     OnWorker, Runs, Submitting, Held, Working
<1>9. TerminalOnce'
  BY ConstantsAssumption, <1>1, <1>2 DEF TerminalOnce
<1>10. QED
  <2>1. NoDuplicates' /\ QueueSorted'
    BY <1>1
  <2>2. NoDoubleExecution'
    BY <2>1, <1>4 DEF NoDoubleExecution
  <2>3. QED
    BY <2>1, <2>2, <1>3, <1>5, <1>6, <1>7, <1>8, <1>9

(* pause_task never makes a place of its own: a placeholder needs an entry.  *)
LEMMA PauseTaskLife ==
  ASSUME TypeInv, LifeInv, NEW t \in Tasks, PauseTask(t) PROVE LifeInv'
<1> USE DEF LifeInv, TypeInv, TypeOK, WorkerHasOp
<1>1. /\ \A u \in Tasks : Queued(u)' <=> Queued(u)
      /\ NoDuplicates' /\ QueueSorted'
  BY SameQueueLemma DEF PauseTask, NoDoubleExecution
<1>2. /\ paused[t] = "no"
      /\ \/ t \in pending /\ paused' = [paused EXCEPT ![t] = "slot"]
         \/ UNCHANGED paused
      /\ UNCHANGED <<pending, index, opCancel, ends, sub, pc, cur>>
  BY DEF PauseTask, PauseEntry, workerVars, endVars
<1>3. FreshIsUntouched'
  BY <1>1, <1>2 DEF FreshIsUntouched, Untouched, QueueTypes
<1>4. \A u \in Tasks : OnePlace(u)'
  BY <1>1, <1>2 DEF NoDoubleExecution, OnePlace, OnWorker, Runs, Submitting,
     Held, QueueTypes
<1>5. PauseIsLive'
  BY <1>1, <1>2 DEF PauseIsLive, Somewhere, OnWorker, Runs, Submitting, Held,
     QueueTypes
<1>6. RunnerIsAlone'
  BY <1>1, <1>2 DEF RunnerIsAlone, Runs, QueueTypes
<1>7. IndexedIsLive'
  BY <1>1, <1>2 DEF IndexedIsLive, Runs
<1>8. StoppableUntilTheEnd'
  BY <1>1, <1>2 DEF StoppableUntilTheEnd, Somewhere, OnWorker, Runs,
     Submitting, Held, QueueTypes
<1>9. TerminalOnce'
  BY <1>1, <1>2 DEF TerminalOnce
<1>10. QED
  <2>1. NoDuplicates' /\ QueueSorted'
    BY <1>1
  <2>2. NoDoubleExecution'
    BY <2>1, <1>4 DEF NoDoubleExecution
  <2>3. QED
    BY <2>1, <2>2, <1>3, <1>5, <1>6, <1>7, <1>8, <1>9

(* A held task is nowhere in the queue, so to enqueue it is safe.            *)
LEMMA ResumeTaskLife ==
  ASSUME TypeInv, LifeInv, NEW t \in Tasks, ResumeTask(t) PROVE LifeInv'
<1> USE DEF LifeInv, TypeInv, TypeOK, WorkerHasOp
<1>1. /\ \/ /\ paused[t] = "held" /\ Enqueue(t)
            /\ paused' = [paused EXCEPT ![t] = "no"] /\ pending' = pending \cup {t}
         \/ /\ paused[t] = "slot" /\ UNCHANGED <<queue, pending>>
            /\ paused' = [paused EXCEPT ![t] = "no"]
         \/ UNCHANGED <<queue, paused, pending>>
      /\ UNCHANGED <<index, opCancel, ends, sub, pc, cur>>
  BY DEF ResumeTask, EntryIsOp, workerVars, endVars, QueueTypes
<1>2. /\ \A u \in Tasks \ {t} : Queued(u)' <=> Queued(u)
      /\ IF paused[t] = "held" /\ paused'[t] = "no" THEN Queued(t)'
           ELSE Queued(t)' <=> Queued(t)
      /\ NoDuplicates' /\ QueueSorted'
  <2>1. CASE paused[t] = "held" /\ Enqueue(t) /\ paused'[t] = "no"
    <3>1. ~Queued(t)
      BY <2>1 DEF NoDoubleExecution, OnePlace, Held
    <3>2. QED
      BY <2>1, <3>1, EnqueueLemma DEF NoDoubleExecution
  <2>2. CASE UNCHANGED queue /\ ~(paused[t] = "held" /\ paused'[t] = "no")
    BY <2>2, SameQueueLemma DEF NoDoubleExecution
  <2>3. QED
    BY <1>1, <2>1, <2>2 DEF QueueTypes
<1>3. FreshIsUntouched'
  BY <1>2, <1>1 DEF FreshIsUntouched, Untouched, QueueTypes
<1>4. \A u \in Tasks : OnePlace(u)'
  BY <1>2, <1>1 DEF NoDoubleExecution, OnePlace, OnWorker, Runs, Submitting,
     Held, QueueTypes
<1>5. PauseIsLive'
  BY <1>2, <1>1 DEF PauseIsLive, Somewhere, OnWorker, Runs, Submitting, Held,
     QueueTypes
<1>6. RunnerIsAlone'
  BY <1>2, <1>1 DEF RunnerIsAlone, Runs, QueueTypes
<1>7. IndexedIsLive'
  BY <1>2, <1>1 DEF IndexedIsLive, Runs
<1>8. StoppableUntilTheEnd'
  BY <1>2, <1>1 DEF StoppableUntilTheEnd, Somewhere, OnWorker, Runs,
     Submitting, Held, QueueTypes
<1>9. TerminalOnce'
  BY <1>2, <1>1 DEF TerminalOnce
<1>10. QED
  <2>1. NoDuplicates' /\ QueueSorted'
    BY <1>2
  <2>2. NoDoubleExecution'
    BY <2>1, <1>4 DEF NoDoubleExecution
  <2>3. QED
    BY <2>1, <2>2, <1>3, <1>5, <1>6, <1>7, <1>8, <1>9

(* cancel_task ends only what no worker runs, and what has not ended.        *)
LEMMA CancelTaskLife ==
  ASSUME TypeInv, LifeInv, NEW t \in Tasks, CancelTask(t) PROVE LifeInv'
<1> USE DEF LifeInv, TypeInv, TypeOK, WorkerHasOp
<1>1. /\ \A u \in Tasks : Queued(u)' <=> Queued(u)
      /\ NoDuplicates' /\ QueueSorted'
  BY SameQueueLemma DEF CancelTask, NoDoubleExecution
<1>2. /\ t \in index \/ paused[t] # "no"
      /\ paused' = [paused EXCEPT ![t] = "no"] /\ pending' = pending \ {t}
      /\ opCancel' = IF t \in index THEN opCancel \cup {t} ELSE opCancel
      /\ \/ /\ FinalizedByCancel(t)
            /\ index' = index \ {t} /\ ends' = [ends EXCEPT ![t] = @ + 1]
         \/ ~FinalizedByCancel(t) /\ UNCHANGED <<index, ends>>
      /\ UNCHANGED <<sub, pc, cur>>
  BY DEF CancelTask, PauseEntry, Announce, workerVars, endVars
<1>3. FreshIsUntouched'
  BY <1>1, <1>2 DEF FreshIsUntouched, Untouched, ObserverTypes
<1>4. \A u \in Tasks : OnePlace(u)'
  BY <1>1, <1>2 DEF NoDoubleExecution, OnePlace, OnWorker, Runs, Submitting,
     Held
<1>5. PauseIsLive'
  BY <1>1, <1>2 DEF PauseIsLive, Somewhere, OnWorker, Runs, Submitting, Held,
     QueueTypes
<1>6. RunnerIsAlone'
  BY <1>1, <1>2 DEF RunnerIsAlone, Active, Runs, FinalizedByCancel, PauseEntry
<1>7. IndexedIsLive'
  BY <1>1, <1>2 DEF IndexedIsLive, Runs, ObserverTypes
<1>8. StoppableUntilTheEnd'
  BY <1>1, <1>2 DEF StoppableUntilTheEnd, Somewhere, OnWorker, Runs,
     Submitting, Held
<1>9. TerminalOnce'
  <2>1. FinalizedByCancel(t) => ends[t] = 0
    BY DEF FinalizedByCancel, EntryIsOp, PauseEntry, PauseIsLive,
       IndexedIsLive, RunnerIsAlone
  <2>2. QED
    BY <1>1, <1>2, <2>1 DEF TerminalOnce, ObserverTypes
<1>10. QED
  <2>1. NoDuplicates' /\ QueueSorted'
    BY <1>1
  <2>2. NoDoubleExecution'
    BY <2>1, <1>4 DEF NoDoubleExecution
  <2>3. QED
    BY <2>1, <2>2, <1>3, <1>5, <1>6, <1>7, <1>8, <1>9

(* A cancelled worker drops its task for good.                               *)
LEMMA WorkerCancelledLife ==
  ASSUME TypeInv, LifeInv, NEW w \in Workers, WorkerCancelled(w) PROVE LifeInv'
<1> USE DEF LifeInv, TypeInv, TypeOK, WorkerHasOp
<1>1. /\ \A u \in Tasks : Queued(u)' <=> Queued(u)
      /\ NoDuplicates' /\ QueueSorted'
  BY SameQueueLemma DEF WorkerCancelled, NoDoubleExecution
<1>2. /\ pc' = [pc EXCEPT ![w] = IF shuttingDown THEN "off" ELSE "idle"]
      /\ cur' = [cur EXCEPT ![w] = "none"]
      /\ \/ /\ pc[w] \in Working \ {"backoff"}
            /\ index' = index \ {cur[w]}
         \/ pc[w] \notin Working \ {"backoff"} /\ UNCHANGED index
      /\ UNCHANGED <<pending, paused, opCancel, ends, sub>>
  BY DEF WorkerCancelled, Goto, Leave, Finally, opVars, endVars, InExecute,
     Working
<1>3. FreshIsUntouched'
  BY ConstantsAssumption, <1>1, <1>2 DEF FreshIsUntouched, Untouched
<1>4. \A u \in Tasks : OnePlace(u)'
  BY ConstantsAssumption, <1>1, <1>2 DEF NoDoubleExecution, OnePlace, OnWorker,
     Runs, Submitting, Held, Working
<1>5. PauseIsLive'
  BY ConstantsAssumption, <1>1, <1>2 DEF PauseIsLive, RunnerIsAlone, Somewhere,
     OnWorker, Runs, Submitting, Held, Working
<1>6. RunnerIsAlone'
  BY ConstantsAssumption, <1>1, <1>2 DEF RunnerIsAlone, NoDoubleExecution,
     OnePlace, Runs, WorkerTypes
<1>7. IndexedIsLive'
  BY ConstantsAssumption, <1>1, <1>2 DEF IndexedIsLive, Runs
<1>8. StoppableUntilTheEnd'
  BY ConstantsAssumption, <1>1, <1>2 DEF StoppableUntilTheEnd,
     NoDoubleExecution, OnePlace, Somewhere, OnWorker, Runs, Submitting, Held,
     WorkerTypes
<1>9. TerminalOnce'
  BY ConstantsAssumption, <1>1, <1>2 DEF TerminalOnce
<1>10. QED
  <2>1. NoDuplicates' /\ QueueSorted'
    BY <1>1
  <2>2. NoDoubleExecution'
    BY <2>1, <1>4 DEF NoDoubleExecution
  <2>3. QED
    BY <2>1, <2>2, <1>3, <1>5, <1>6, <1>7, <1>8, <1>9

(* Nothing is submitted, so nothing is anywhere.                             *)
LEMMA LifeInit == Init => LifeInv
<1> SUFFICES ASSUME Init PROVE LifeInv
  OBVIOUS
<1>1. \A t \in Tasks : ~Queued(t) /\ ~OnWorker(t) /\ ~Submitting(t) /\ ~Held(t)
  BY DEF Init, Queued, QueueOf, OnWorker, Runs, Working, Submitting, Held
<1>2. FreshIsUntouched
  BY <1>1, ConstantsAssumption DEF Init, FreshIsUntouched, Untouched
<1>3. NoDoubleExecution /\ QueueSorted
  BY <1>1 DEF Init, NoDoubleExecution, NoDuplicates, OnePlace, OnWorker,
     QueueSorted
<1>4. PauseIsLive /\ IndexedIsLive /\ StoppableUntilTheEnd /\ TerminalOnce
  BY <1>1 DEF Init, PauseIsLive, IndexedIsLive, StoppableUntilTheEnd,
     Somewhere, TerminalOnce
<1>5. RunnerIsAlone
  BY <1>1 DEF RunnerIsAlone, OnWorker
<1>6. QED
  BY <1>2, <1>3, <1>4, <1>5 DEF LifeInv

(* One case per action; those that change nothing here go by LifeStutters.   *)
LEMMA LifeStep == TypeInv /\ LifeInv /\ [Next]_vars => LifeInv'
<1> SUFFICES ASSUME TypeInv, LifeInv, [Next]_vars PROVE LifeInv'
  OBVIOUS
<1>1. ASSUME NEW t \in Tasks, Task(t) PROVE LifeInv'
  <2>1. CASE CommitFired(t)
    BY <2>1, LifeStutters DEF CommitFired, indexVars, opVars, workerVars,
       endVars
  <2>2. QED
    BY <1>1, <2>1, SubmitLife, SubmitWrittenLife, SubmitEnqueuesLife,
       PauseTaskLife, ResumeTaskLife, CancelTaskLife DEF Task
<1>2. ASSUME NEW w \in Workers, Dequeue(w) PROVE LifeInv'
  BY <1>2, DequeueDroppedLife, DequeueInterruptedLife, DequeueHeldLife,
     DequeueCancelledLife, DequeueRunLife DEF Dequeue
<1>3. ASSUME NEW w \in Workers, Acquire(w) PROVE LifeInv'
  <2>1. /\ pc[w] \in Active
        /\ \/ /\ pc' = [pc EXCEPT ![w] = "ending"]
              /\ ends' = [ends EXCEPT ![cur[w]] = @ + 1]
           \/ pc' = [pc EXCEPT ![w] = "starting"] /\ UNCHANGED ends
        /\ UNCHANGED <<queue, pending, index, paused, opCancel, sub, cur>>
    BY <1>3 DEF Acquire, Active, Working, Goto, Announce, indexVars, opVars,
       endVars
  <2>2. "starting" \in Active
    BY DEF Active, Working
  <2>3. QED
    BY <2>1, <2>2, LifeEnds, LifeMoves
<1>4. ASSUME NEW w \in Workers,
             HandlerStarts(w) \/ HandlerSaves(w) \/ HandlerSaved(w)
               \/ HandlerFailsRetriably(w)
      PROVE  LifeInv'
  <2>1. PICK s \in {"handler", "saving", "retrying"} :
          /\ pc[w] \in {"starting", "handler", "saving"}
          /\ pc' = [pc EXCEPT ![w] = s]
          /\ UNCHANGED <<queue, pending, index, paused, opCancel, sub, cur, ends>>
    BY <1>4 DEF HandlerStarts, HandlerSaves, HandlerSaved,
       HandlerFailsRetriably, Written, Goto, indexVars, opVars, endVars
  <2>2. pc[w] \in Active /\ s \in Active
    BY <2>1 DEF Active, Working
  <2>3. QED
    BY <2>1, <2>2, LifeMoves
<1>5. ASSUME NEW w \in Workers, HandlerReturns(w) \/ HandlerFails(w)
      PROVE  LifeInv'
  <2>1. /\ pc[w] \in Active
        /\ pc' = [pc EXCEPT ![w] = "ending"]
        /\ ends' = [ends EXCEPT ![cur[w]] = @ + 1]
        /\ UNCHANGED <<queue, pending, index, paused, opCancel, sub, cur>>
    BY <1>5 DEF HandlerReturns, HandlerFails, Active, Working, Goto, Announce,
       indexVars, opVars
  <2>2. QED
    BY <2>1, LifeEnds
<1>6. ASSUME NEW w \in Workers, CommitAwaited(w) PROVE LifeInv'
  BY <1>6, LifeStutters DEF CommitAwaited, indexVars, opVars, endVars
<1>7. ASSUME NEW w \in Workers, Worker(w) PROVE LifeInv'
  BY <1>2, <1>3, <1>4, <1>5, <1>6, <1>7, HandlerParksLife, BackoffStartsLife,
     BackoffEndsLife, FinishLife, LoopAgainLife, WorkerCancelledLife DEF
     Worker, HandlerEnds, Continue
<1>8. CASE Shutdown \/ UNCHANGED vars
  BY <1>8, LifeStutters DEF Shutdown, vars, indexVars, opVars, workerVars,
     endVars
<1>9. QED
  BY <1>1, <1>7, <1>8 DEF Next

(* The inductive invariant, of which the next four theorems state parts.     *)
LEMMA LifeInvariant == Spec => [](TypeInv /\ LifeInv)
<1>1. Init => TypeInv /\ LifeInv
  BY TypeInit, LifeInit DEF Init, TypeInv, WorkerHasOp
<1>2. TypeInv /\ LifeInv /\ [Next]_vars => TypeInv' /\ LifeInv'
  BY TypeStep, LifeStep
<1>3. QED
  BY <1>1, <1>2, PTL DEF Spec

(* One run of a task at a time, for any number of tasks, workers, retries,   *)
(* pauses and shutdowns: a task queued twice, or run by two workers, would   *)
(* repeat its side effects on QQ.                                            *)
THEOREM NoDoubleExecutionHolds == Spec => []NoDoubleExecution
<1>1. LifeInv => NoDoubleExecution
  BY DEF LifeInv
<1>2. QED
  BY <1>1, LifeInvariant, PTL

(* A task is announced done, failed or cancelled at most once, whichever of  *)
(* the eight places of the code announces it first.                          *)
THEOREM TerminalOnceHolds == Spec => []TerminalOnce
<1>1. LifeInv => TerminalOnce
  BY DEF LifeInv
<1>2. QED
  BY <1>1, LifeInvariant, PTL

(* cancel_task finds every task that can still run, or stopped it before.    *)
THEOREM StoppableHolds == Spec => []StoppableUntilTheEnd
<1>1. LifeInv => StoppableUntilTheEnd
  BY DEF LifeInv
<1>2. QED
  BY <1>1, LifeInvariant, PTL

(* While _paused has an entry for a task, no handler of it runs.             *)
THEOREM PauseHoldsAlways == Spec => []PauseHolds
<1>1. TypeInv /\ LifeInv => PauseHolds
  BY DEF TypeInv, LifeInv, RunnerIsAlone, Runs, PauseHolds
<1>2. QED
  BY <1>1, LifeInvariant, PTL

-----------------------------------------------------------------------------
(* Part 3: what the ledger says of an end.                                   *)

(* A write that is fired flies from then on; all others fly as they did. *)
LEMMA FireLemma ==
  ASSUME TypeInv, NEW t \in Tasks, NEW s \in LedgerState, Fire(t, s)
  PROVE  \A u \in Tasks, x \in LedgerState :
           fires'[<<u, x>>] > 0 <=> fires[<<u, x>>] > 0 \/ (u = t /\ x = s)
<1> SUFFICES ASSUME NEW u \in Tasks, NEW x \in LedgerState
             PROVE  fires'[<<u, x>>] > 0
                      <=> fires[<<u, x>>] > 0 \/ (u = t /\ x = s)
  OBVIOUS
<1>1. fires \in [Tasks \X LedgerState -> Nat]
  BY DEF TypeInv, TypeOK, LedgerTypes
<1>2. <<u, x>> \in Tasks \X LedgerState /\ fires[<<u, x>>] \in Nat
  BY <1>1
<1>3. fires'[<<u, x>>] = IF <<u, x>> = <<t, s>> THEN fires[<<u, x>>] + 1
                                                 ELSE fires[<<u, x>>]
  BY <1>1, <1>2 DEF Fire
<1>4. QED
  BY <1>2, <1>3

(* A step that neither ends a task nor commits a write keeps the record, if  *)
(* it starts no terminal write and gives up none but as a lost one.          *)
LEMMA RecordMoves ==
  ASSUME RecordInv, UNCHANGED <<ledger, endVars>>, lost \subseteq lost',
         \A u \in Tasks, x \in Terminal :
           /\ Flying(u, x)' => Flying(u, x)
           /\ Flying(u, x) => Flying(u, x)' \/ u \in lost',
         \A u \in Tasks : outcome[u] \in Terminal \cup {"none"}
  PROVE  RecordInv'
BY DEF RecordInv, endVars

(* The end of a task that had none, with the terminal write under way. *)
LEMMA RecordEnds ==
  ASSUME TypeInv, RecordInv, TerminalOnce', NEW t \in Tasks,
         NEW s \in Terminal, Announce(t, s), UNCHANGED <<ledger, lost>>,
         Flying(t, s)',
         \A u \in Tasks, x \in Terminal :
           Flying(u, x)' <=> Flying(u, x) \/ (u = t /\ x = s)
  PROVE  RecordInv'
<1>1. /\ ends \in [Tasks -> Nat] /\ outcome \in [Tasks -> Terminal \cup {"none"}]
      /\ ledger \in [Tasks -> RowState]
  BY DEF TypeInv, TypeOK, ObserverTypes, LedgerTypes
<1>2. ends'[t] = ends[t] + 1 /\ outcome'[t] = s
  BY <1>1 DEF Announce
<1>3. ends[t] = 0
  BY <1>1, <1>2 DEF TerminalOnce
<1>4. outcome[t] = "none" /\ "none" \notin Terminal
  BY <1>3 DEF RecordInv, Terminal
<1>5. \A u \in Tasks \ {t} : ends'[u] = ends[u] /\ outcome'[u] = outcome[u]
  BY <1>1 DEF Announce
<1>6. ASSUME NEW u \in Tasks, u # t
      PROVE  /\ ends'[u] = 0 <=> outcome'[u] = "none"
             /\ \A x \in Terminal : Flying(u, x)' => outcome'[u] = x
             /\ ledger'[u] \in Terminal => ledger'[u] = outcome'[u]
             /\ outcome'[u] # "none" /\ u \notin lost' =>
                  ledger'[u] = outcome'[u] \/ Flying(u, outcome[u])'
  BY <1>1, <1>5, <1>6 DEF RecordInv
<1>7. /\ ends'[t] # 0 /\ outcome'[t] # "none"
      /\ \A x \in Terminal : Flying(t, x)' => outcome'[t] = x
      /\ ledger'[t] \notin Terminal
  BY <1>2, <1>3, <1>4 DEF RecordInv
<1>8. QED
  BY <1>2, <1>5, <1>6, <1>7 DEF RecordInv

(* A write that lands, or fails: a terminal one is the announced one, and    *)
(* any other does not get past the guard of the upsert.                      *)
LEMMA RecordCommits ==
  ASSUME TypeInv, RecordInv, UNCHANGED endVars, NEW t \in Tasks,
         NEW s \in LedgerState, s \in Terminal => Flying(t, s), Persist(t, s),
         \A u \in Tasks, x \in Terminal :
           /\ Flying(u, x)' => Flying(u, x)
           /\ Flying(u, x) => Flying(u, x)' \/ (u = t /\ x = s)
  PROVE  RecordInv'
<1>1. /\ ends \in [Tasks -> Nat] /\ outcome \in [Tasks -> Terminal \cup {"none"}]
      /\ ledger \in [Tasks -> RowState] /\ "none" \notin Terminal
  BY DEF TypeInv, TypeOK, ObserverTypes, LedgerTypes, Terminal
<1>2. \A u \in Tasks \ {t} : ledger'[u] = ledger[u] /\ (u \in lost' <=> u \in lost)
  BY <1>1 DEF Persist
<1>3. \/ ledger'[t] = Upsert(ledger[t], s) /\ lost' = lost
      \/ ledger'[t] = ledger[t] /\ t \in lost'
  BY <1>1 DEF Persist
<1>4. lost \subseteq lost'
  BY DEF Persist
<1>5. ASSUME NEW u \in Tasks, u # t
      PROVE  /\ \A x \in Terminal : Flying(u, x)' => outcome'[u] = x
             /\ ledger'[u] \in Terminal => ledger'[u] = outcome'[u]
             /\ outcome'[u] # "none" /\ u \notin lost' =>
                  ledger'[u] = outcome'[u] \/ Flying(u, outcome[u])'
  BY <1>1, <1>2, <1>5 DEF RecordInv, endVars
<1>6. \A x \in Terminal : Flying(t, x)' => outcome'[t] = x
  BY DEF RecordInv, endVars
<1>7. /\ ledger'[t] \in Terminal => ledger'[t] = outcome'[t]
      /\ outcome'[t] # "none" /\ t \notin lost' =>
           ledger'[t] = outcome'[t] \/ Flying(t, outcome[t])'
  <2>1. CASE s \in Terminal
    <3>1. outcome[t] = s
      BY <2>1 DEF RecordInv
    <3>2. Upsert(ledger[t], s) = s
      BY <2>1, <3>1 DEF RecordInv, Upsert, UpsertApplies
    <3>3. QED
      BY <1>3, <3>1, <3>2 DEF RecordInv, endVars
  <2>2. CASE s \notin Terminal
    <3>1. \/ ledger[t] \in Terminal /\ Upsert(ledger[t], s) = ledger[t]
          \/ ledger[t] \notin Terminal /\ Upsert(ledger[t], s) = s
      BY <2>2 DEF Upsert, UpsertApplies, Terminal
    <3>2. outcome[t] # "none" => outcome[t] \in Terminal
      BY <1>1
    <3>3. QED
      BY <1>3, <1>4, <2>2, <3>1, <3>2 DEF RecordInv, endVars
  <2>3. QED
    BY <2>1, <2>2
<1>8. \A u \in Tasks : ends'[u] = ends[u] /\ outcome'[u] = outcome[u]
  BY DEF endVars
<1>9. QED
  BY <1>5, <1>6, <1>7, <1>8 DEF RecordInv

(* What flies after a write is fired. *)
LEMMA FiredFlies ==
  ASSUME TypeInv, NEW t \in Tasks, NEW s \in LedgerState, Fire(t, s),
         UNCHANGED <<awaited, cur>>
  PROVE  \A u \in Tasks, x \in Terminal :
           Flying(u, x)' <=> Flying(u, x) \/ (u = t /\ x = s)
<1>1. \A u \in Tasks, x \in Terminal :
        fires'[<<u, x>>] > 0 <=> fires[<<u, x>>] > 0 \/ (u = t /\ x = s)
  BY FireLemma DEF LedgerState
<1>2. QED
  BY <1>1 DEF Flying

(* What flies after a worker that awaited nothing awaits s for a task, or    *)
(* awaits nothing.                                                           *)
LEMMA AwaitFlies ==
  ASSUME NEW w \in Workers, NEW s, awaited[w] = "none", UNCHANGED fires,
         awaited'[w] = s,
         \A v \in Workers \ {w} : awaited'[v] = awaited[v] /\ cur'[v] = cur[v]
  PROVE  \A u \in Tasks, x \in Terminal :
           Flying(u, x)' <=> Flying(u, x) \/ (u = cur'[w] /\ x = s)
BY DEF Flying, Terminal

(* A step that leaves every write as it is keeps the record. *)
LEMMA RecordStutters ==
  ASSUME TypeInv, RecordInv, UNCHANGED <<ledgerVars, endVars, awaited, cur>>
  PROVE  RecordInv'
BY RecordMoves DEF Flying, ledgerVars, endVars, TypeInv, TypeOK, ObserverTypes

(* A worker goes on to, or from, a write that records no end. *)
LEMMA RecordAwaits ==
  ASSUME TypeInv, RecordInv, NEW w \in Workers, NEW s, s \notin Terminal,
         awaited[w] = "none", awaited'[w] = s,
         UNCHANGED <<ledgerVars, endVars>>,
         \A v \in Workers \ {w} : awaited'[v] = awaited[v] /\ cur'[v] = cur[v]
  PROVE  RecordInv'
<1>1. \A u \in Tasks, x \in Terminal : Flying(u, x)' <=> Flying(u, x)
  BY AwaitFlies DEF ledgerVars
<1>2. QED
  BY <1>1, RecordMoves DEF ledgerVars, TypeInv, TypeOK, ObserverTypes

(* A worker announces the end of its task and awaits the row. *)
LEMMA RecordAnnounces ==
  ASSUME TypeInv, RecordInv, TerminalOnce', NEW w \in Workers,
         NEW s \in Terminal, NEW t \in Tasks, Announce(t, s),
         awaited[w] = "none", awaited'[w] = s, cur'[w] = t,
         UNCHANGED ledgerVars,
         \A v \in Workers \ {w} : awaited'[v] = awaited[v] /\ cur'[v] = cur[v]
  PROVE  RecordInv'
<1>1. \A u \in Tasks, x \in Terminal :
        Flying(u, x)' <=> Flying(u, x) \/ (u = t /\ x = s)
  BY AwaitFlies DEF ledgerVars
<1>2. QED
  BY <1>1, RecordEnds DEF ledgerVars

(* The dequeues: the worker awaited nothing, since it was idle. *)
LEMMA DequeueRecord ==
  ASSUME TypeInv, RecordInv, TerminalOnce', NEW w \in Workers, Dequeue(w)
  PROVE  RecordInv'
<1>1. /\ awaited \in [Workers -> LedgerState \cup {"none"}]
      /\ cur \in [Workers -> Tasks \cup {"none"}]
  BY DEF TypeInv, TypeOK, WorkerTypes
<1>2. awaited[w] = "none"
  BY DEF Dequeue, DequeueDropped, DequeueInterrupted, DequeueHeld,
     DequeueCancelled, DequeueRun, Take, TypeInv, WorkerHasOp, AwaitsWrite
<1>3. CASE DequeueDropped(w)
  BY <1>3, RecordStutters DEF DequeueDropped
<1>4. CASE DequeueInterrupted(w)
  <2>1. PICK t \in Tasks : Announce(t, "cancelled") /\ cur' = [cur EXCEPT ![w] = t]
    BY <1>4 DEF DequeueInterrupted
  <2>2. UNCHANGED ledgerVars /\ awaited' = [awaited EXCEPT ![w] = "cancelled"]
    BY <1>4 DEF DequeueInterrupted, Await
  <2>3. QED
    BY <1>1, <1>2, <2>1, <2>2, RecordAnnounces DEF Terminal
<1>5. CASE DequeueHeld(w)
  <2>1. /\ UNCHANGED <<ledgerVars, endVars>>
        /\ awaited' = [awaited EXCEPT ![w] = "paused"]
        /\ \E t \in Tasks : cur' = [cur EXCEPT ![w] = t]
    BY <1>5 DEF DequeueHeld, Await
  <2>2. QED
    BY <1>1, <1>2, <2>1, RecordAwaits DEF Terminal
<1>6. CASE DequeueCancelled(w)
  <2>1. PICK t \in Tasks :
          \/ /\ Announce(t, "cancelled") /\ cur' = [cur EXCEPT ![w] = t]
             /\ awaited' = [awaited EXCEPT ![w] = "cancelled"]
          \/ UNCHANGED <<awaited, cur, endVars>>
    BY <1>6 DEF DequeueCancelled, Await, workerVars
  <2>2. UNCHANGED ledgerVars
    BY <1>6 DEF DequeueCancelled
  <2>3. CASE UNCHANGED <<awaited, cur, endVars>>
    BY <2>2, <2>3, RecordStutters
  <2>4. CASE /\ Announce(t, "cancelled") /\ cur' = [cur EXCEPT ![w] = t]
             /\ awaited' = [awaited EXCEPT ![w] = "cancelled"]
    BY <1>1, <1>2, <2>2, <2>4, RecordAnnounces DEF Terminal
  <2>5. QED
    BY <2>1, <2>3, <2>4
<1>7. CASE DequeueRun(w)
  <2>1. /\ UNCHANGED <<ledgerVars, endVars, awaited>>
        /\ \E t \in Tasks : cur' = [cur EXCEPT ![w] = t]
    BY <1>7 DEF DequeueRun
  <2>2. QED
    BY <1>1, <1>2, <2>1, RecordAwaits DEF Terminal
<1>8. QED
  BY <1>3, <1>4, <1>5, <1>6, <1>7 DEF Dequeue

(* The steps of a run up to its end. *)
LEMMA RunRecord ==
  ASSUME TypeInv, RecordInv, TerminalOnce', NEW w \in Workers,
         Acquire(w) \/ HandlerSaves(w) \/ HandlerEnds(w)
  PROVE  RecordInv'
<1>1. /\ awaited \in [Workers -> LedgerState \cup {"none"}]
      /\ cur[w] \in Tasks /\ awaited[w] = "none"
  BY DEF TypeInv, TypeOK, WorkerTypes, WorkerHasOp, AwaitsWrite, Acquire,
     HandlerSaves, HandlerEnds, HandlerReturns, HandlerParks,
     HandlerFailsRetriably, HandlerFails
<1>2. UNCHANGED <<ledgerVars, cur>>
  BY DEF Acquire, HandlerSaves, HandlerEnds, HandlerReturns, HandlerParks,
     HandlerFailsRetriably, HandlerFails
<1>3. PICK s \in LedgerState :
        /\ awaited' = [awaited EXCEPT ![w] = s]
        /\ \/ s \in Terminal /\ Announce(cur[w], s)
           \/ s \notin Terminal /\ UNCHANGED endVars
  BY DEF Acquire, HandlerSaves, HandlerEnds, HandlerReturns, HandlerParks,
     HandlerFailsRetriably, HandlerFails, Await, LedgerState, Terminal
<1>4. CASE s \in Terminal /\ Announce(cur[w], s)
  BY <1>1, <1>2, <1>3, <1>4, RecordAnnounces
<1>5. CASE s \notin Terminal /\ UNCHANGED endVars
  BY <1>1, <1>2, <1>3, <1>5, RecordAwaits
<1>6. QED
  BY <1>3, <1>4, <1>5

(* The steps after a write, a sleep or a save: nothing is awaited. *)
LEMMA ContinueRecord ==
  ASSUME TypeInv, RecordInv, NEW w \in Workers, Continue(w) PROVE RecordInv'
<1>1. /\ awaited[w] = "none" /\ cur \in [Workers -> Tasks \cup {"none"}]
  BY DEF TypeInv, TypeOK, WorkerTypes, WorkerHasOp, AwaitsWrite, Continue,
     HandlerStarts, HandlerSaved, BackoffStarts, BackoffEnds, Finish,
     LoopAgain, Written
<1>2. /\ UNCHANGED <<ledgerVars, endVars, awaited>>
      /\ UNCHANGED cur \/ cur' = [cur EXCEPT ![w] = "none"]
  BY DEF Continue, HandlerStarts, HandlerSaved, BackoffStarts, BackoffEnds,
     Finish, LoopAgain, Leave
<1>3. QED
  BY <1>1, <1>2, RecordAwaits DEF Terminal

(* A writer thread commits what a worker awaits. *)
LEMMA CommitAwaitedRecord ==
  ASSUME TypeInv, RecordInv, NEW w \in Workers, CommitAwaited(w)
  PROVE  RecordInv'
<1>1. /\ awaited \in [Workers -> LedgerState \cup {"none"}]
      /\ awaited[w] \in LedgerState /\ cur[w] \in Tasks
  BY DEF TypeInv, TypeOK, WorkerTypes, WorkerHasOp, AwaitsWrite, CommitAwaited
<1>2. /\ Persist(cur[w], awaited[w]) /\ awaited' = [awaited EXCEPT ![w] = "none"]
      /\ UNCHANGED <<cur, fires, endVars>>
  BY DEF CommitAwaited, Await
<1>3. Flying(cur[w], awaited[w])
  BY DEF Flying
<1>4. \A u \in Tasks, x \in Terminal :
        /\ Flying(u, x)' => Flying(u, x)
        /\ Flying(u, x) => Flying(u, x)' \/ (u = cur[w] /\ x = awaited[w])
  BY <1>1, <1>2 DEF Flying, Terminal
<1>5. QED
  BY <1>1, <1>2, <1>3, <1>4, RecordCommits

(* A writer thread commits a write nobody waits for. *)
LEMMA CommitFiredRecord ==
  ASSUME TypeInv, RecordInv, NEW t \in Tasks, CommitFired(t)
  PROVE  RecordInv'
<1>1. PICK s \in LedgerState :
        /\ fires[<<t, s>>] > 0 /\ fires' = [fires EXCEPT ![<<t, s>>] = @ - 1]
        /\ Persist(t, s)
  BY DEF CommitFired
<1>2. UNCHANGED <<awaited, cur, endVars>>
  BY DEF CommitFired, workerVars
<1>3. fires \in [Tasks \X LedgerState -> Nat]
  BY DEF TypeInv, TypeOK, LedgerTypes
<1>4. ASSUME NEW u \in Tasks, NEW x \in Terminal
      PROVE  /\ fires'[<<u, x>>] > 0 => fires[<<u, x>>] > 0
             /\ fires[<<u, x>>] > 0 => fires'[<<u, x>>] > 0 \/ (u = t /\ x = s)
  <2>1. <<u, x>> \in Tasks \X LedgerState /\ fires[<<u, x>>] \in Nat
    BY <1>3 DEF LedgerState
  <2>2. fires'[<<u, x>>] = IF <<u, x>> = <<t, s>> THEN fires[<<u, x>>] - 1
                                                  ELSE fires[<<u, x>>]
    BY <1>1, <1>3, <2>1
  <2>3. QED
    BY <2>1, <2>2
<1>5. \A u \in Tasks, x \in Terminal :
        /\ Flying(u, x)' => Flying(u, x)
        /\ Flying(u, x) => Flying(u, x)' \/ (u = t /\ x = s)
  BY <1>2, <1>4 DEF Flying
<1>6. Flying(t, s)
  BY <1>1 DEF Flying
<1>7. QED
  BY <1>1, <1>2, <1>5, <1>6, RecordCommits

(* The clicks: pause and resume fire no terminal write, cancel the one that  *)
(* belongs to the end it announces.                                          *)
LEMMA ClickRecord ==
  ASSUME TypeInv, RecordInv, TerminalOnce', NEW t \in Tasks,
         PauseTask(t) \/ ResumeTask(t) \/ CancelTask(t)
  PROVE  RecordInv'
<1>1. UNCHANGED <<ledger, lost, awaited, cur>>
  BY DEF PauseTask, ResumeTask, CancelTask, workerVars
<1>2. \/ UNCHANGED <<fires, endVars>>
      \/ UNCHANGED endVars /\ (Fire(t, "paused") \/ Fire(t, "pending"))
      \/ Fire(t, "cancelled") /\ Announce(t, "cancelled")
  BY DEF PauseTask, ResumeTask, CancelTask
<1>3. CASE UNCHANGED <<fires, endVars>>
  BY <1>1, <1>3, RecordStutters DEF ledgerVars
<1>4. CASE UNCHANGED endVars /\ (Fire(t, "paused") \/ Fire(t, "pending"))
  <2>1. \A u \in Tasks, x \in Terminal : Flying(u, x)' <=> Flying(u, x)
    BY <1>1, <1>4, FiredFlies DEF LedgerState, Terminal
  <2>2. QED
    BY <1>1, <1>4, <2>1, RecordMoves DEF TypeInv, TypeOK, ObserverTypes
<1>5. CASE Fire(t, "cancelled") /\ Announce(t, "cancelled")
  <2>1. \A u \in Tasks, x \in Terminal :
          Flying(u, x)' <=> Flying(u, x) \/ (u = t /\ x = "cancelled")
    BY <1>1, <1>5, FiredFlies DEF LedgerState, Terminal
  <2>2. "cancelled" \in Terminal
    BY DEF Terminal
  <2>3. QED
    BY <1>1, <1>5, <2>1, <2>2, RecordEnds
<1>6. QED
  BY <1>2, <1>3, <1>4, <1>5

(* The write of a cancelled worker goes on without it, or is lost. *)
LEMMA WorkerCancelledRecord ==
  ASSUME TypeInv, RecordInv, NEW w \in Workers, WorkerCancelled(w)
  PROVE  RecordInv'
<1>1. /\ awaited \in [Workers -> LedgerState \cup {"none"}]
      /\ cur \in [Workers -> Tasks \cup {"none"}]
      /\ awaited[w] # "none" => cur[w] \in Tasks /\ awaited[w] \in LedgerState
  BY DEF TypeInv, TypeOK, WorkerTypes, WorkerHasOp, AwaitsWrite
<1>2. /\ UNCHANGED <<ledger, endVars>>
      /\ awaited' = [awaited EXCEPT ![w] = "none"]
      /\ cur' = [cur EXCEPT ![w] = "none"]
      /\ \/ awaited[w] = "none" /\ UNCHANGED <<fires, lost>>
         \/ awaited[w] # "none" /\ Fire(cur[w], awaited[w]) /\ UNCHANGED lost
         \/ awaited[w] # "none" /\ lost' = lost \cup {cur[w]} /\ UNCHANGED fires
  BY DEF WorkerCancelled, Await, Leave
<1>3. CASE awaited[w] = "none" /\ UNCHANGED <<fires, lost>>
  BY <1>1, <1>2, <1>3, RecordAwaits DEF ledgerVars, Terminal
<1>4. CASE awaited[w] # "none" /\ Fire(cur[w], awaited[w]) /\ UNCHANGED lost
  <2>1. \A u \in Tasks, x \in Terminal :
          fires'[<<u, x>>] > 0
            <=> fires[<<u, x>>] > 0 \/ (u = cur[w] /\ x = awaited[w])
    BY <1>1, <1>4, FireLemma DEF LedgerState
  <2>2. \A u \in Tasks, x \in Terminal : Flying(u, x)' <=> Flying(u, x)
    BY <1>1, <1>2, <2>1 DEF Flying, Terminal
  <2>3. QED
    BY <1>2, <1>4, <2>2, RecordMoves DEF TypeInv, TypeOK, ObserverTypes
<1>5. CASE awaited[w] # "none" /\ lost' = lost \cup {cur[w]} /\ UNCHANGED fires
  <2>1. \A u \in Tasks, x \in Terminal :
          /\ Flying(u, x)' => Flying(u, x)
          /\ Flying(u, x) => Flying(u, x)' \/ u \in lost'
    BY <1>1, <1>2, <1>5 DEF Flying, Terminal
  <2>2. QED
    BY <1>2, <1>5, <2>1, RecordMoves DEF TypeInv, TypeOK, ObserverTypes
<1>6. QED
  BY <1>2, <1>3, <1>4, <1>5

(* submit() writes a row that is not terminal. *)
LEMMA SubmitWrittenRecord ==
  ASSUME TypeInv, RecordInv, NEW t \in Tasks, SubmitWritten(t)
  PROVE  RecordInv'
<1>1. /\ Persist(t, "pending") /\ UNCHANGED <<fires, awaited, cur, endVars>>
  BY DEF SubmitWritten, workerVars
<1>2. \A u \in Tasks, x \in Terminal : Flying(u, x)' <=> Flying(u, x)
  BY <1>1 DEF Flying
<1>3. "pending" \in LedgerState \ Terminal
  BY DEF LedgerState, Terminal
<1>4. QED
  BY <1>1, <1>2, <1>3, RecordCommits

(* At the start there are no rows, no writes and no ends. *)
LEMMA RecordInit == Init => RecordInv
BY DEF Init, RecordInv, Flying, LedgerState, Terminal

(* One case per action; submit(), its enqueue and shutdown write nothing.    *)
LEMMA RecordStep ==
  TypeInv /\ LifeInv /\ RecordInv /\ [Next]_vars => RecordInv'
<1> SUFFICES ASSUME TypeInv, LifeInv, RecordInv, [Next]_vars PROVE RecordInv'
  OBVIOUS
<1>1. TerminalOnce'
  BY LifeStep DEF LifeInv
<1>2. ASSUME NEW w \in Workers, Worker(w) PROVE RecordInv'
  BY <1>1, <1>2, DequeueRecord, RunRecord, ContinueRecord, CommitAwaitedRecord,
     WorkerCancelledRecord DEF Worker
<1>3. ASSUME NEW t \in Tasks, Task(t) PROVE RecordInv'
  <2>1. CASE Submit(t) \/ SubmitEnqueues(t)
    BY <2>1, RecordStutters DEF Submit, SubmitEnqueues, workerVars
  <2>2. QED
    BY <1>1, <1>3, <2>1, SubmitWrittenRecord, CommitFiredRecord, ClickRecord
    DEF Task
<1>4. CASE Shutdown \/ UNCHANGED vars
  BY <1>4, RecordStutters DEF Shutdown, vars, workerVars
<1>5. QED
  BY <1>2, <1>3, <1>4 DEF Next

(* The inductive invariant, of which the next theorem states a part.         *)
LEMMA RecordInvariant == Spec => [](TypeInv /\ LifeInv /\ RecordInv)
<1>1. Init => TypeInv /\ LifeInv /\ RecordInv
  BY TypeInit, LifeInit, RecordInit DEF Init, TypeInv, WorkerHasOp
<1>2. TypeInv /\ LifeInv /\ RecordInv /\ [Next]_vars
        => TypeInv' /\ LifeInv' /\ RecordInv'
  BY TypeStep, LifeStep, RecordStep
<1>3. QED
  BY <1>1, <1>2, PTL DEF Spec

(* Once the writes of an ended task are committed, and none of them failed,  *)
(* its row is the announced end, whatever order they were committed in (the  *)
(* guard of the upsert, and the awaited or fired write of each end).         *)
THEOREM LedgerConvergesAlways == Spec => []LedgerConverges
<1>1. TypeInv /\ RecordInv => LedgerConverges
  <2> SUFFICES ASSUME TypeInv, RecordInv, NEW t \in Tasks,
                      outcome[t] # "none", ~InFlight(t), t \notin lost
               PROVE  ledger[t] = outcome[t]
    BY DEF LedgerConverges
  <2>1. outcome[t] \in LedgerState /\ outcome[t] # "none"
    BY DEF TypeInv, TypeOK, ObserverTypes, LedgerState
  <2>2. ~Flying(t, outcome[t])
    BY <2>1 DEF InFlight, Flying
  <2>3. QED
    BY <2>2 DEF RecordInv
<1>2. QED
  BY <1>1, RecordInvariant, PTL

(* A step changes a row by an upsert, if at all. *)
LEMMA RowsByUpsert ==
  ASSUME TypeInv, Next, NEW t \in Tasks
  PROVE  ledger'[t] = ledger[t] \/ \E s : ledger'[t] = Upsert(ledger[t], s)
<1>1. ledger \in [Tasks -> RowState]
  BY DEF TypeInv, TypeOK, LedgerTypes
<1>2. \/ UNCHANGED ledger
      \/ \E u \in Tasks : \E s : Persist(u, s)
  <2>1. ASSUME NEW w \in Workers, Worker(w)
        PROVE  UNCHANGED ledger \/ CommitAwaited(w)
    BY <2>1 DEF Worker, Dequeue, DequeueDropped, DequeueInterrupted,
       DequeueHeld, DequeueCancelled, DequeueRun, Acquire, HandlerSaves,
       HandlerEnds, HandlerReturns, HandlerParks, HandlerFailsRetriably,
       HandlerFails, Continue, HandlerStarts, HandlerSaved, BackoffStarts,
       BackoffEnds, Finish, LoopAgain, WorkerCancelled, ledgerVars
  <2>2. ASSUME NEW w \in Workers, CommitAwaited(w)
        PROVE  \E u \in Tasks : \E s : Persist(u, s)
    BY <2>2 DEF CommitAwaited, TypeInv, WorkerHasOp, AwaitsWrite
  <2>3. ASSUME NEW u \in Tasks, Task(u)
        PROVE  UNCHANGED ledger \/ \E s : Persist(u, s)
    BY <2>3 DEF Task, Submit, SubmitWritten, SubmitEnqueues, CommitFired,
       PauseTask, ResumeTask, CancelTask, ledgerVars
  <2>4. CASE Shutdown
    BY <2>4 DEF Shutdown, ledgerVars
  <2>5. QED
    BY <2>1, <2>2, <2>3, <2>4 DEF Next
<1>3. QED
  BY <1>1, <1>2 DEF Persist

(* An announced end stays announced. *)
LEMMA EndsStay ==
  ASSUME TypeInv, RecordInv, TerminalOnce', Next, NEW t \in Tasks,
         outcome[t] # "none"
  PROVE  outcome'[t] = outcome[t]
<1>1. /\ ends \in [Tasks -> Nat] /\ outcome \in [Tasks -> Terminal \cup {"none"}]
      /\ cur \in [Workers -> Tasks \cup {"none"}] /\ ends[t] # 0
  BY DEF TypeInv, TypeOK, ObserverTypes, WorkerTypes, RecordInv
<1>2. \/ UNCHANGED endVars
      \/ \E u : \E s : Announce(u, s)
  <2>1. ASSUME NEW w \in Workers, Worker(w)
        PROVE  UNCHANGED endVars \/ \E u : \E s : Announce(u, s)
    <3>1. CASE Dequeue(w)
      BY <3>1 DEF Dequeue, DequeueDropped, DequeueInterrupted, DequeueHeld,
         DequeueCancelled, DequeueRun
    <3>2. CASE Acquire(w) \/ HandlerSaves(w) \/ HandlerEnds(w)
      BY <3>2 DEF Acquire, HandlerSaves, HandlerEnds, HandlerReturns,
         HandlerParks, HandlerFailsRetriably, HandlerFails
    <3>3. CASE Continue(w) \/ CommitAwaited(w) \/ WorkerCancelled(w)
      BY <3>3 DEF Continue, HandlerStarts, HandlerSaved, BackoffStarts,
         BackoffEnds, Finish, LoopAgain, CommitAwaited, WorkerCancelled
    <3>4. QED
      BY <2>1, <3>1, <3>2, <3>3 DEF Worker
  <2>2. ASSUME NEW u \in Tasks, Task(u)
        PROVE  UNCHANGED endVars \/ \E s : Announce(u, s)
    BY <2>2 DEF Task, Submit, SubmitWritten, SubmitEnqueues, CommitFired,
       PauseTask, ResumeTask, CancelTask
  <2>3. CASE Shutdown
    BY <2>3 DEF Shutdown
  <2>4. QED
    BY <2>1, <2>2, <2>3 DEF Next
<1>3. ASSUME NEW u, NEW s, Announce(u, s) PROVE outcome'[t] = outcome[t]
  <2>1. u # t
    BY <1>1, <1>3 DEF Announce, TerminalOnce
  <2>2. QED
    BY <1>1, <1>3, <2>1 DEF Announce
<1>4. QED
  BY <1>2, <1>3 DEF endVars

(* A row that says done, failed or cancelled says it for good: an upsert can *)
(* take it only to another end, and no write in flight claims another end.   *)
THEOREM LedgerFinalAlways == Spec => LedgerFinal
<1>1. ASSUME TypeInv, LifeInv, RecordInv, Next, NEW t \in Tasks,
             ledger[t] \in Terminal
      PROVE  ledger'[t] = ledger[t]
  <2>1. RecordInv' /\ TerminalOnce'
    BY <1>1, RecordStep, LifeStep DEF LifeInv
  <2>2. ledger[t] = outcome[t] /\ outcome[t] # "none"
    BY <1>1 DEF RecordInv, Terminal
  <2>3. outcome'[t] = outcome[t]
    BY <1>1, <2>1, <2>2, EndsStay
  <2>4. ledger'[t] \in Terminal
    BY <1>1, RowsByUpsert DEF Upsert, UpsertApplies, Terminal
  <2>5. QED
    BY <2>1, <2>2, <2>3, <2>4 DEF RecordInv
<1>2. TypeInv /\ LifeInv /\ RecordInv /\ [Next]_vars
        => [\A t \in Tasks : ledger[t] \in Terminal => ledger'[t] = ledger[t]]_vars
  BY <1>1
<1>3. QED
  BY <1>2, RecordInvariant, PTL DEF Spec, LedgerFinal

-----------------------------------------------------------------------------
(* Part 4: the permits of the semaphore.                                     *)

(* Until a shutdown no worker is cancelled, and every permit is either free  *)
(* or with one worker.                                                       *)
PermitInv ==
  shutdowns = 0 =>
    /\ doomed = {}
    /\ IsFiniteSet(PermitHolders)
    /\ bulk + Cardinality(PermitHolders) = BulkSlots

(* A step of one worker leaves the others where they are. *)
OthersStay(w) == \A v \in Workers \ {w} : pc'[v] = pc[v] /\ cur'[v] = cur[v]

(* A worker that enters or leaves the code under a permit takes its permit   *)
(* from the semaphore or gives it back, and the rest stays.                  *)
LEMMA PermitMoves ==
  ASSUME TypeInv, PermitInv, UNCHANGED shutdowns, doomed' \subseteq doomed,
         NEW w \in Workers,
         \/ UNCHANGED bulk /\ PermitHolders' = PermitHolders
         \/ /\ bulk' = bulk - 1 /\ w \notin PermitHolders
            /\ PermitHolders' = PermitHolders \cup {w}
         \/ /\ bulk' = bulk + 1 /\ w \in PermitHolders
            /\ PermitHolders' = PermitHolders \ {w}
  PROVE  PermitInv'
<1> SUFFICES ASSUME shutdowns = 0 PROVE PermitInv'
  BY DEF PermitInv
<1> DEFINE H == PermitHolders
<1>1. /\ doomed' = {} /\ IsFiniteSet(H) /\ bulk + Cardinality(H) = BulkSlots
      /\ bulk \in Nat /\ Cardinality(H) \in Nat
  BY FS_CardinalityType DEF PermitInv, TypeInv, TypeOK, WorkerTypes
<1> HIDE DEF H
<1>2. CASE UNCHANGED bulk /\ PermitHolders' = H
  BY <1>1, <1>2 DEF PermitInv
<1>3. CASE bulk' = bulk - 1 /\ w \notin H /\ PermitHolders' = H \cup {w}
  <2>1. IsFiniteSet(H \cup {w}) /\ Cardinality(H \cup {w}) = Cardinality(H) + 1
    BY <1>1, <1>3, FS_AddElement
  <2>2. QED
    BY <1>1, <1>3, <2>1 DEF PermitInv
<1>4. CASE bulk' = bulk + 1 /\ w \in H /\ PermitHolders' = H \ {w}
  <2>1. IsFiniteSet(H \ {w}) /\ Cardinality(H \ {w}) = Cardinality(H) - 1
    BY <1>1, <1>4, FS_RemoveElement
  <2>2. QED
    BY <1>1, <1>4, <2>1 DEF PermitInv
<1>5. QED
  BY <1>2, <1>3, <1>4 DEF H

(* What one worker does to its own place and op decides what it holds.       *)
LEMMA PermitPlaces ==
  ASSUME TypeInv, NEW w \in Workers,
         OthersStay(w)
  PROVE  /\ w \in PermitHolders <=> pc[w] \in HoldsPermit /\ cur[w] \in Bulk
         /\ PermitHolders' = IF pc'[w] \in HoldsPermit /\ cur'[w] \in Bulk
                               THEN PermitHolders \cup {w}
                               ELSE PermitHolders \ {w}
BY DEF PermitHolders, OthersStay

(* A worker takes its permit in Acquire.                                     *)
LEMMA AcquirePermit ==
  ASSUME TypeInv, PermitInv, NEW w \in Workers, Acquire(w) PROVE PermitInv'
<1>1. /\ pc[w] = "acquire" /\ pc'[w] \in {"ending", "starting"}
      /\ cur'[w] = cur[w]
      /\ OthersStay(w)
      /\ UNCHANGED <<shutdowns, doomed>>
  BY DEF Acquire, Goto, OthersStay, lifeVars, TypeInv, TypeOK,
     WorkerTypes
<1>2. IF cur[w] \in Bulk THEN bulk' = bulk - 1 ELSE UNCHANGED bulk
  BY DEF Acquire
<1>3. pc[w] \notin HoldsPermit /\ pc'[w] \in HoldsPermit
  BY <1>1 DEF HoldsPermit, InExecute, Working
<1>4. PermitHolders' = IF cur[w] \in Bulk THEN PermitHolders \cup {w}
                                          ELSE PermitHolders
  BY <1>1, <1>3, PermitPlaces
<1>5. QED
  BY <1>1, <1>2, <1>3, <1>4, PermitMoves, PermitPlaces

(* It gives it back before the backoff, or when _execute is over.            *)
LEMMA ReleasePermit ==
  ASSUME TypeInv, PermitInv, NEW w \in Workers, BackoffStarts(w) \/ Finish(w)
  PROVE  PermitInv'
<1>1. /\ pc[w] \in {"retrying", "ending", "parking"}
      /\ pc'[w] \in {"backoff", "idle"}
      /\ OthersStay(w)
      /\ UNCHANGED <<shutdowns, doomed>>
      /\ ReleaseBulk(cur[w])
  BY DEF BackoffStarts, Finish, Written, Finally, Goto, Leave, OthersStay, lifeVars,
     TypeInv, TypeOK, WorkerTypes
<1>2. pc[w] \in HoldsPermit /\ pc'[w] \notin HoldsPermit
  BY <1>1 DEF HoldsPermit, InExecute, Working
<1>3. PermitHolders' = PermitHolders \ {w}
  BY <1>1, <1>2, PermitPlaces
<1>4. QED
  BY <1>1, <1>2, <1>3, PermitMoves, PermitPlaces DEF ReleaseBulk

(* All other steps leave who is under a permit, and the semaphore.           *)
LEMMA SamePermit ==
  ASSUME TypeInv, PermitInv, NEW w \in Workers,
         OthersStay(w),
         pc[w] \in HoldsPermit <=> pc'[w] \in HoldsPermit,
         pc[w] \in HoldsPermit => cur'[w] = cur[w],
         UNCHANGED <<bulk, shutdowns>>, doomed' \subseteq doomed
  PROVE  PermitInv'
<1>1. PermitHolders' = PermitHolders
  BY PermitPlaces
<1>2. QED
  BY <1>1, PermitMoves

(* All permits are free at the start. *)
LEMMA PermitInit == Init => PermitInv
<1> SUFFICES ASSUME Init PROVE PermitInv
  OBVIOUS
<1>1. PermitHolders = {}
  BY DEF Init, PermitHolders, HoldsPermit, InExecute, Working
<1>2. QED
  BY <1>1, FS_EmptySet, ConstantsAssumption
  DEF Init, PermitInv, ConstantsAssumption

(* One case per action.                                                      *)
LEMMA PermitStep == TypeInv /\ PermitInv /\ [Next]_vars => PermitInv'
<1> SUFFICES ASSUME TypeInv, PermitInv, [Next]_vars PROVE PermitInv'
  OBVIOUS
<1>t. /\ pc \in [Workers -> WorkerPc] /\ cur \in [Workers -> Tasks \cup {"none"}]
      /\ shutdowns \in Nat
  BY ConstantsAssumption DEF TypeInv, TypeOK, WorkerTypes, ObserverTypes,
     ConstantsAssumption
<1>1. ASSUME NEW w \in Workers, Dequeue(w) PROVE PermitInv'
  <2>1. /\ pc[w] = "idle"
        /\ pc'[w] \in {"idle", "off", "closing", "holding", "acquire"}
        /\ OthersStay(w)
        /\ UNCHANGED <<bulk, shutdowns>> /\ doomed' \subseteq doomed
    <3>1. CASE DequeueDropped(w)
      BY <3>1, <1>t DEF DequeueDropped, Take, Goto, OthersStay
    <3>2. CASE DequeueInterrupted(w) \/ DequeueHeld(w) \/ DequeueRun(w)
      BY <3>2, <1>t DEF DequeueInterrupted, DequeueHeld, DequeueRun, Take, Goto,
         OthersStay, lifeVars
    <3>3. CASE DequeueCancelled(w)
      BY <3>3, <1>t DEF DequeueCancelled, Take, Goto, OthersStay, lifeVars,
         workerVars
    <3>4. QED
      BY <1>1, <3>1, <3>2, <3>3 DEF Dequeue
  <2>2. pc[w] \notin HoldsPermit /\ pc'[w] \notin HoldsPermit
    BY <2>1 DEF HoldsPermit, InExecute, Working
  <2>3. QED
    BY <2>1, <2>2, SamePermit
<1>2. ASSUME NEW w \in Workers,
             \/ HandlerStarts(w) \/ HandlerSaved(w) \/ HandlerSaves(w)
             \/ HandlerEnds(w)
      PROVE  PermitInv'
  <2>1. /\ pc[w] \in {"starting", "saving", "handler"}
        /\ pc'[w] \in {"handler", "saving", "ending", "parking", "retrying"}
        /\ OthersStay(w)
        /\ UNCHANGED <<cur, bulk, shutdowns, doomed>>
    BY <1>2, <1>t DEF HandlerStarts, HandlerSaved, HandlerSaves, HandlerEnds,
       HandlerReturns, HandlerParks, HandlerFailsRetriably, HandlerFails,
       Written, Goto, OthersStay, lifeVars
  <2>2. pc[w] \in HoldsPermit /\ pc'[w] \in HoldsPermit
    BY <2>1 DEF HoldsPermit, InExecute, Working
  <2>3. QED
    BY <2>1, <2>2, SamePermit
<1>3. ASSUME NEW w \in Workers, BackoffEnds(w) \/ LoopAgain(w) PROVE PermitInv'
  <2>1. /\ pc[w] \in {"backoff", "holding", "closing"} /\ pc'[w] = "idle"
        /\ OthersStay(w)
        /\ UNCHANGED <<bulk, shutdowns, doomed>>
    BY <1>3, <1>t DEF BackoffEnds, LoopAgain, Written, Finally, Leave, Goto,
       OthersStay, lifeVars
  <2>2. pc[w] \notin HoldsPermit /\ pc'[w] \notin HoldsPermit
    BY <2>1 DEF HoldsPermit, InExecute, Working
  <2>3. QED
    BY <2>1, <2>2, SamePermit
<1>4. ASSUME NEW w \in Workers, WorkerCancelled(w) PROVE PermitInv'
  BY <1>4 DEF WorkerCancelled, PermitInv
<1>5. ASSUME NEW t \in Tasks, Submit(t) PROVE PermitInv'
  <2>1. PermitHolders' = PermitHolders
    BY <1>5, <1>t DEF Submit, PermitHolders, HoldsPermit, InExecute, Working
  <2>2. QED
    BY <1>5, <2>1 DEF Submit, PermitInv
<1>6. ASSUME UNCHANGED <<pc, cur, bulk, shutdowns, doomed>> PROVE PermitInv'
  BY <1>6 DEF PermitInv, PermitHolders
<1>7. ASSUME NEW w \in Workers, CommitAwaited(w) PROVE PermitInv'
  BY <1>7, <1>6 DEF CommitAwaited, lifeVars
<1>8. ASSUME NEW t \in Tasks, Task(t) PROVE PermitInv'
  BY <1>8, <1>5, <1>6 DEF Task, SubmitWritten, SubmitEnqueues, CommitFired,
     PauseTask, ResumeTask, CancelTask, workerVars, lifeVars
<1>9. CASE Shutdown
  BY <1>9, <1>t DEF Shutdown, PermitInv
<1>10. CASE UNCHANGED vars
  BY <1>10, <1>6 DEF vars, workerVars, lifeVars
<1>11. ASSUME NEW w \in Workers, Worker(w) PROVE PermitInv'
  BY <1>11, <1>1, <1>2, <1>3, <1>4, <1>7, AcquirePermit, ReleasePermit
  DEF Worker, Continue
<1>12. QED
  BY <1>8, <1>9, <1>10, <1>11 DEF Next

(* No retry, pause, stop or resume loses a permit of _bulk or makes one.     *)
THEOREM PermitsConservedAlways == Spec => []PermitsConserved
<1>1. Init => TypeInv /\ PermitInv
  BY TypeInit, PermitInit DEF Init, TypeInv, WorkerHasOp
<1>2. TypeInv /\ PermitInv /\ [Next]_vars => TypeInv' /\ PermitInv'
  BY TypeStep, PermitStep
<1>3. PermitInv => PermitsConserved
  BY DEF PermitInv, PermitsConserved
<1>4. QED
  BY <1>1, <1>2, <1>3, PTL DEF Spec

-----------------------------------------------------------------------------
(* Part 5: the queue implements the life cycle of TaskLife.                  *)

(* A handler of the task runs, or is about to. *)
ActiveRun(t) == \E w \in Workers : Runs(w, t) /\ pc[w] # "backoff"

Row(t) == IF ledger[t] \in Terminal THEN ledger[t] ELSE "none"

(* What the life cycle sees of a task is unchanged. *)
SameStatus(t) == LifeStatus(t)' = LifeStatus(t)

(* The moves of a task that has not ended, as TaskLife has them. *)
StatusMoves ==
  {<<"new", "waiting">>, <<"waiting", "active">>, <<"active", "waiting">>,
   <<"waiting", "paused">>, <<"active", "paused">>, <<"paused", "waiting">>}

LifeNext == [Life!Next]_(Life!vars)

(* What LifeStatus reads, now and after the step.                            *)
LEMMA StatusOf ==
  ASSUME NEW t \in Tasks
  PROVE  /\ LifeStatus(t) =
              IF outcome[t] # "none" THEN "over"
              ELSE IF sub[t] = "new" THEN "new"
              ELSE IF paused[t] # "no" THEN "paused"
              ELSE IF ActiveRun(t) THEN "active" ELSE "waiting"
         /\ LifeStatus(t)' =
              IF outcome'[t] # "none" THEN "over"
              ELSE IF sub'[t] = "new" THEN "new"
              ELSE IF paused'[t] # "no" THEN "paused"
              ELSE IF ActiveRun(t)' THEN "active" ELSE "waiting"
BY DEF LifeStatus, ActiveRun

(* A step that shows nothing is a stutter of the life cycle.                 *)
LEMMA LifeStays ==
  ASSUME UNCHANGED <<outcome, ledger>>, \A u \in Tasks : SameStatus(u)
  PROVE  LifeNext
BY DEF LifeNext, SameStatus, Life!vars

(* One task changes its stage: a step of TaskLife, or a stutter.             *)
LEMMA StatusMove ==
  ASSUME UNCHANGED <<outcome, ledger>>, NEW t \in Tasks,
         \A u \in Tasks \ {t} : SameStatus(u),
         SameStatus(t) \/ <<LifeStatus(t), LifeStatus(t)'>> \in StatusMoves
  PROVE  LifeNext
<1>1. CASE SameStatus(t)
  BY <1>1, LifeStays
<1>2. CASE <<LifeStatus(t), LifeStatus(t)'>> \in StatusMoves
  <2>1. \A s : LifeStatus(t)' = s => Life!Becomes(t, s)
    BY DEF Life!Becomes, SameStatus
  <2>2. Life!Accept(t) \/ Life!Start(t) \/ Life!Retry(t) \/ Life!Pause(t)
          \/ Life!Resume(t)
    BY <1>2, <2>1 DEF StatusMoves, Life!Accept, Life!Start, Life!Retry,
       Life!Pause, Life!Resume
  <2>3. QED
    BY <2>2 DEF LifeNext, Life!Next
<1>3. QED
  BY <1>1, <1>2

(* One task is announced ended: TaskLife's End.                              *)
LEMMA StatusEnd ==
  ASSUME TypeInv, UNCHANGED ledger, NEW t \in Tasks, NEW v \in Terminal,
         Announce(t, v),
         \A u \in Tasks \ {t} : SameStatus(u),
         LifeStatus(t) \in {"waiting", "active", "paused"},
         v # "cancelled" => LifeStatus(t) = "active"
  PROVE  LifeNext
<1>1. outcome' = [outcome EXCEPT ![t] = v] /\ outcome'[t] = v /\ v # "none"
  BY DEF Announce, TypeInv, TypeOK, ObserverTypes, Terminal
<1>2. LifeStatus(t)' = "over"
  BY <1>1, StatusOf
<1>3. Life!End(t, v)
  BY <1>1, <1>2 DEF Life!End, SameStatus
<1>4. QED
  BY <1>3 DEF LifeNext, Life!Next, Life!Verdicts, Terminal

(* The worker w runs the task, past its last backoff. *)
Acts(w, t) == Runs(w, t) /\ pc[w] # "backoff"

(* A step of one worker changes at most the activity of the op it has, or    *)
(* that it takes.                                                            *)
LEMMA SameActivity ==
  ASSUME NEW w \in Workers, OthersStay(w), NEW t \in Tasks,
         Acts(w, t)' <=> Acts(w, t)
  PROVE  ActiveRun(t)' <=> ActiveRun(t)
BY DEF ActiveRun, Acts, Runs, OthersStay

(* When the one worker that runs a task leaves it, nobody runs it.           *)
LEMMA RunnerGone ==
  ASSUME LifeInv, NEW w \in Workers, OthersStay(w), NEW t \in Tasks,
         Runs(w, t), ~Acts(w, t)'
  PROVE  ~ActiveRun(t)'
<1>1. \A v \in Workers : Runs(v, t) => v = w
  BY DEF LifeInv, NoDoubleExecution, OnePlace
<1>2. QED
  BY <1>1 DEF ActiveRun, Acts, Runs, OthersStay

(* A task keeps its status when what StatusOf reads stays.                   *)
LEMMA StatusStays ==
  ASSUME NEW t \in Tasks, outcome'[t] = outcome[t],
         \/ outcome[t] # "none"
         \/ /\ sub'[t] = "new" <=> sub[t] = "new"
            /\ paused'[t] = "no" <=> paused[t] = "no"
            /\ \/ paused[t] # "no"
               \/ ActiveRun(t)' <=> ActiveRun(t)
  PROVE  SameStatus(t)
BY StatusOf DEF SameStatus

(* An announcement is the first one, of a task that was submitted.           *)
LEMMA FirstEnd ==
  ASSUME TypeInv, RecordInv, TerminalOnce', NEW t \in Tasks, NEW v \in Terminal,
         Announce(t, v)
  PROVE  outcome[t] = "none" /\ \A u \in Tasks \ {t} : outcome'[u] = outcome[u]
<1>1. /\ ends \in [Tasks -> Nat] /\ outcome \in [Tasks -> Terminal \cup {"none"}]
      /\ ends' = [ends EXCEPT ![t] = @ + 1] /\ outcome' = [outcome EXCEPT ![t] = v]
  BY DEF Announce, TypeInv, TypeOK, ObserverTypes
<1>2. ends[t] = 0
  BY <1>1 DEF TerminalOnce
<1>3. QED
  BY <1>1, <1>2 DEF RecordInv

(* The steps of a worker inside a run: the op stays, and it is active until  *)
(* the worker sleeps, parks it, or is done with it.                          *)
LEMMA RunStepLife ==
  ASSUME TypeInv, LifeInv, NEW w \in Workers, OthersStay(w),
         UNCHANGED <<outcome, ledger, sub, paused>>,
         pc[w] \in Working \ {"backoff"},
         cur'[w] = cur[w] \/ pc'[w] \notin Working \ {"backoff"}
  PROVE  LifeNext
<1>t. PICK t \in Tasks : t = cur[w]
  BY DEF TypeInv, WorkerHasOp, Working
<1>1. Runs(w, t) /\ Acts(w, t)
  BY <1>t DEF Runs, Acts
<1>2. paused[t] = "no" /\ sub[t] # "new"
  BY <1>t, <1>1 DEF LifeInv, RunnerIsAlone, FreshIsUntouched, Untouched
<1>3. \A u \in Tasks \ {t} : SameStatus(u)
  <2>1. \A u \in Tasks \ {t} : ~Acts(w, u) /\ ~Acts(w, u)'
    BY <1>t DEF Acts, Runs
  <2>2. QED
    BY <2>1, SameActivity, StatusStays
<1>4. CASE pc'[w] \in Working \ {"backoff"} /\ cur'[w] = cur[w]
  <2>1. Acts(w, t)' <=> Acts(w, t)
    BY <1>t, <1>1, <1>4 DEF Acts, Runs
  <2>2. SameStatus(t)
    BY <1>1, <2>1, SameActivity, StatusStays
  <2>3. QED
    BY <1>3, <2>2, LifeStays
<1>5. CASE pc'[w] \notin Working \ {"backoff"}
  <2>1. ~Acts(w, t)'
    BY <1>5 DEF Acts, Runs
  <2>2. ~ActiveRun(t)' /\ ActiveRun(t)
    BY <1>1, <2>1, RunnerGone DEF ActiveRun, Acts
  <2>3. SameStatus(t) \/ <<LifeStatus(t), LifeStatus(t)'>> = <<"active", "waiting">>
    BY <1>1, <1>2, <2>2, StatusOf DEF SameStatus
  <2>4. QED
    BY <1>1, <1>3, <2>3, StatusMove DEF StatusMoves
<1>6. QED
  BY <1>4, <1>5

(* The end of a run: the handler was active until its end is announced.      *)
LEMMA RunEndLife ==
  ASSUME TypeInv, LifeInv, RecordInv, TerminalOnce', NEW w \in Workers,
         OthersStay(w), NEW v \in Terminal, Announce(cur[w], v),
         UNCHANGED <<ledger, sub, paused, cur>>,
         pc[w] \in Working \ {"backoff"}
  PROVE  LifeNext
<1>t. PICK t \in Tasks : t = cur[w]
  BY DEF TypeInv, WorkerHasOp, Working
<1>1. Runs(w, t) /\ Acts(w, t)
  BY <1>t DEF Runs, Acts
<1>2. paused[t] = "no" /\ sub[t] # "new"
  BY <1>t, <1>1 DEF LifeInv, RunnerIsAlone, FreshIsUntouched, Untouched
<1>3. Announce(t, v)
  BY <1>t
<1>4. outcome[t] = "none" /\ \A u \in Tasks \ {t} : outcome'[u] = outcome[u]
  BY <1>3, FirstEnd
<1>5. LifeStatus(t) = "active"
  BY <1>1, <1>2, <1>4, StatusOf DEF ActiveRun, Acts
<1>6. \A u \in Tasks \ {t} : SameStatus(u)
  <2>1. \A u \in Tasks \ {t} : ~Acts(w, u) /\ ~Acts(w, u)'
    BY <1>t DEF Acts, Runs
  <2>2. QED
    BY <2>1, <1>4, SameActivity, StatusStays
<1>7. QED
  BY <1>3, <1>5, <1>6, StatusEnd

(* A worker outside a run, or in its backoff, changes no activity.           *)
LEMMA OffRun ==
  ASSUME NEW w \in Workers, OthersStay(w),
         pc[w] \notin Working \ {"backoff"}, pc'[w] \notin Working \ {"backoff"},
         NEW t \in Tasks
  PROVE  ActiveRun(t)' <=> ActiveRun(t)
<1>1. ~Acts(w, t) /\ ~Acts(w, t)'
  BY DEF Acts, Runs
<1>2. QED
  BY <1>1, SameActivity

(* So if nothing else is touched, the step shows nothing.                    *)
LEMMA OffRunLife ==
  ASSUME NEW w \in Workers, OthersStay(w),
         pc[w] \notin Working \ {"backoff"}, pc'[w] \notin Working \ {"backoff"},
         UNCHANGED <<outcome, ledger, sub, paused>>
  PROVE  LifeNext
<1>1. \A u \in Tasks : SameStatus(u)
  BY OffRun, StatusStays
<1>2. QED
  BY <1>1, LifeStays

(* A commit records the announced end, or nothing the life cycle sees.       *)
LEMMA CommitLife ==
  ASSUME TypeInv, RecordInv', NEW t \in Tasks, NEW s, Persist(t, s),
         UNCHANGED outcome, \A u \in Tasks : SameStatus(u)
  PROVE  LifeNext
<1>1. /\ ledger \in [Tasks -> RowState]
      /\ \A u \in Tasks \ {t} : Row(u)' = Row(u)
      /\ ledger[t] \in Terminal => ledger'[t] \in Terminal
  BY DEF Persist, TypeInv, TypeOK, LedgerTypes, Upsert, UpsertApplies, Row,
     Terminal
<1>2. CASE Row(t)' = Row(t)
  BY <1>1, <1>2 DEF LifeNext, SameStatus, Life!vars, Row
<1>3. CASE Row(t)' # Row(t)
  <2>1. /\ ledger'[t] \in Terminal /\ ledger'[t] = outcome[t]
        /\ outcome[t] # "none"
    BY <1>1, <1>3 DEF Row, RecordInv, Terminal
  <2>2. LifeStatus(t) = "over"
    BY <2>1, StatusOf
  <2>3. Life!Record(t)
    BY <1>1, <2>1, <2>2 DEF Life!Record, SameStatus, Row
  <2>4. QED
    BY <2>3 DEF LifeNext, Life!Next
<1>4. QED
  BY <1>2, <1>3

(* submit() accepts a task: nothing was known of it.                         *)
LEMMA SubmitLives ==
  ASSUME TypeInv, LifeInv, RecordInv, NEW t \in Tasks, Submit(t)
  PROVE  LifeNext
<1>1. /\ sub[t] = "new" /\ sub' = [sub EXCEPT ![t] = "writing"]
      /\ pc' = [w \in Workers |-> IF pc[w] = "off" THEN "idle" ELSE pc[w]]
      /\ UNCHANGED <<cur, paused, outcome, ends, ledger>>
      /\ sub \in [Tasks -> {"new", "writing", "written", "in"}]
  BY DEF Submit, endVars, ledgerVars, TypeInv, TypeOK, QueueTypes
<1>2. /\ paused[t] = "no" /\ outcome[t] = "none"
      /\ \A w \in Workers : cur[w] # t
  BY <1>1 DEF LifeInv, FreshIsUntouched, Untouched, RecordInv
<1>3. \A u \in Tasks : ActiveRun(u)' <=> ActiveRun(u)
  BY <1>1 DEF ActiveRun, Runs, Working
<1>4. \A u \in Tasks \ {t} : SameStatus(u)
  BY <1>1, <1>3, StatusStays
<1>5. ~ActiveRun(t)
  BY <1>2 DEF ActiveRun, Runs
<1>6. <<LifeStatus(t), LifeStatus(t)'>> = <<"new", "waiting">>
  BY <1>1, <1>2, <1>3, <1>5, StatusOf
<1>7. QED
  BY <1>1, <1>4, <1>6, StatusMove DEF StatusMoves

(* A dequeued task is submitted and run by nobody.                           *)
LEMMA TakenIsIdle ==
  ASSUME TypeInv, LifeInv, NEW w \in Workers, NEW t \in Tasks, Take(w, t)
  PROVE  sub[t] # "new" /\ ~ActiveRun(t)
<1>1. Queued(t)
  BY TakeLemma DEF TypeInv, TypeOK, LifeInv, NoDoubleExecution
<1>2. sub[t] # "new"
  BY <1>1 DEF LifeInv, FreshIsUntouched, Untouched
<1>3. ~OnWorker(t)
  BY <1>1 DEF LifeInv, NoDoubleExecution, OnePlace
<1>4. QED
  BY <1>2, <1>3 DEF OnWorker, ActiveRun

(* A dequeue starts a waiting task, ends a stopped one, or shows nothing.    *)
LEMMA DequeueLives ==
  ASSUME TypeInv, LifeInv, RecordInv, TerminalOnce', NEW w \in Workers, Dequeue(w)
  PROVE  LifeNext
<1>t. /\ pc \in [Workers -> WorkerPc] /\ cur \in [Workers -> Tasks \cup {"none"}]
      /\ paused \in [Tasks -> {"no", "slot", "held"}]
  BY DEF TypeInv, TypeOK, WorkerTypes, QueueTypes
<1>1. PICK t \in Tasks : Take(w, t) /\
        (\/ DequeueDropped(w)
         \/ Announce(t, "cancelled") /\ pc'[w] = "closing"
              /\ OthersStay(w) /\ UNCHANGED <<ledger, sub>>
              /\ \A u \in Tasks \ {t} : paused'[u] = paused[u]
         \/ pc'[w] = "holding" /\ OthersStay(w) /\ paused[t] # "no"
              /\ paused' = [paused EXCEPT ![t] = "held"]
              /\ UNCHANGED <<ledger, sub, outcome>>
         \/ UNCHANGED <<pc, cur, outcome, ledger, sub, paused>>
         \/ pc'[w] = "acquire" /\ cur'[w] = t /\ OthersStay(w)
              /\ paused[t] = "no" /\ UNCHANGED <<outcome, ledger, sub, paused>>)
  <2>1. CASE DequeueDropped(w)
    BY <2>1 DEF DequeueDropped
  <2>2. CASE DequeueInterrupted(w)
    BY <2>2, <1>t DEF DequeueInterrupted, Goto, OthersStay, ledgerVars
  <2>3. CASE DequeueHeld(w)
    BY <2>3, <1>t DEF DequeueHeld, Goto, Hold, PauseEntry, OthersStay,
       ledgerVars, endVars
  <2>4. CASE DequeueCancelled(w)
    BY <2>4, <1>t DEF DequeueCancelled, Goto, OthersStay, ledgerVars, endVars,
       workerVars
  <2>5. CASE DequeueRun(w)
    BY <2>5, <1>t DEF DequeueRun, Goto, PauseEntry, OthersStay, ledgerVars,
       endVars
  <2>6. QED
    BY <2>1, <2>2, <2>3, <2>4, <2>5 DEF Dequeue
<1>2. pc[w] = "idle" /\ pc[w] \notin Working \ {"backoff"}
  BY <1>1 DEF Take, Working
<1>3. sub[t] # "new" /\ ~ActiveRun(t)
  BY <1>1, TakenIsIdle
<1>4. CASE DequeueDropped(w)
  <2>1. /\ pc'[w] \notin Working \ {"backoff"} /\ OthersStay(w)
        /\ UNCHANGED <<outcome, ledger, sub, paused>>
    BY <1>4, <1>t DEF DequeueDropped, Goto, OthersStay, Working, indexVars,
       endVars, ledgerVars
  <2>2. QED
    BY <1>2, <2>1, OffRunLife
<1>5. CASE /\ Announce(t, "cancelled") /\ pc'[w] = "closing"
           /\ OthersStay(w) /\ UNCHANGED <<ledger, sub>>
           /\ \A u \in Tasks \ {t} : paused'[u] = paused[u]
  <2>1. pc'[w] \notin Working \ {"backoff"} /\ "cancelled" \in Terminal
    BY <1>5 DEF Working, Terminal
  <2>2. outcome[t] = "none" /\ \A u \in Tasks \ {t} : outcome'[u] = outcome[u]
    BY <1>5, <2>1, FirstEnd
  <2>3. \A u \in Tasks \ {t} : SameStatus(u)
    BY <1>2, <1>5, <2>1, <2>2, OffRun, StatusStays
  <2>4. LifeStatus(t) \in {"waiting", "paused"}
    BY <1>3, <2>2, StatusOf
  <2>5. QED
    BY <1>5, <2>1, <2>3, <2>4, StatusEnd
<1>6. CASE /\ pc'[w] = "holding" /\ OthersStay(w) /\ paused[t] # "no"
           /\ paused' = [paused EXCEPT ![t] = "held"]
           /\ UNCHANGED <<ledger, sub, outcome>>
  <2>1. pc'[w] \notin Working \ {"backoff"}
    BY <1>6 DEF Working
  <2>2. \A u \in Tasks : paused'[u] = "no" <=> paused[u] = "no"
    BY <1>6, <1>t
  <2>3. \A u \in Tasks : SameStatus(u)
    BY <1>2, <1>6, <2>1, <2>2, OffRun, StatusStays
  <2>4. QED
    BY <1>6, <2>3, LifeStays
<1>7. CASE UNCHANGED <<pc, cur, outcome, ledger, sub, paused>>
  BY <1>2, <1>7, OffRunLife DEF OthersStay
<1>8. CASE /\ pc'[w] = "acquire" /\ cur'[w] = t /\ OthersStay(w)
           /\ paused[t] = "no" /\ UNCHANGED <<outcome, ledger, sub, paused>>
  <2>1. \A u \in Tasks \ {t} : ~Acts(w, u) /\ ~Acts(w, u)'
    BY <1>2, <1>8 DEF Acts, Runs, Working
  <2>2. \A u \in Tasks \ {t} : SameStatus(u)
    BY <1>8, <2>1, SameActivity, StatusStays
  <2>3. ActiveRun(t)'
    BY <1>8 DEF ActiveRun, Runs, Working
  <2>4. SameStatus(t) \/ <<LifeStatus(t), LifeStatus(t)'>> = <<"waiting", "active">>
    BY <1>3, <1>8, <2>3, StatusOf DEF SameStatus
  <2>5. QED
    BY <1>8, <2>2, <2>4, StatusMove DEF StatusMoves
<1>9. QED
  BY <1>1, <1>4, <1>5, <1>6, <1>7, <1>8

(* pause_check parks the op: the task is paused.                             *)
LEMMA HandlerParksLives ==
  ASSUME TypeInv, LifeInv, NEW w \in Workers, HandlerParks(w) PROVE LifeNext
<1>t. PICK t \in Tasks : t = cur[w]
  BY DEF HandlerParks, TypeInv, WorkerHasOp
<1>1. /\ pc[w] = "handler" /\ pc'[w] = "parking" /\ OthersStay(w)
      /\ UNCHANGED <<cur, sub, outcome, ledger>>
      /\ paused'[t] = "held" /\ \A u \in Tasks \ {t} : paused'[u] = paused[u]
  BY <1>t DEF HandlerParks, Hold, Goto, OthersStay, endVars, ledgerVars, TypeInv,
     TypeOK, WorkerTypes, QueueTypes
<1>2. Runs(w, t) /\ Acts(w, t)
  BY <1>t, <1>1 DEF Runs, Acts, Working
<1>3. paused[t] = "no" /\ sub[t] # "new"
  BY <1>t, <1>1, <1>2 DEF LifeInv, RunnerIsAlone, FreshIsUntouched, Untouched
<1>4. \A u \in Tasks \ {t} : SameStatus(u)
  <2>1. \A u \in Tasks \ {t} : ~Acts(w, u) /\ ~Acts(w, u)'
    BY <1>t, <1>1 DEF Acts, Runs
  <2>2. QED
    BY <1>1, <2>1, SameActivity, StatusStays
<1>5. SameStatus(t) \/ <<LifeStatus(t), LifeStatus(t)'>> = <<"active", "paused">>
  BY <1>1, <1>2, <1>3, StatusOf DEF SameStatus, ActiveRun, Acts
<1>6. QED
  BY <1>1, <1>4, <1>5, StatusMove DEF StatusMoves

(* The controls: a click that is no stop moves one task between waiting,     *)
(* active and paused, or nothing.                                            *)
LEMMA ClickLives ==
  ASSUME TypeInv, LifeInv, NEW t \in Tasks, PauseTask(t) \/ ResumeTask(t)
  PROVE  LifeNext
<1>1. /\ UNCHANGED <<pc, cur, sub, outcome, ledger>>
      /\ \A u \in Tasks \ {t} : paused'[u] = paused[u]
  BY DEF PauseTask, ResumeTask, workerVars, endVars, TypeInv, TypeOK, QueueTypes
<1>2. \A u \in Tasks : ActiveRun(u)' <=> ActiveRun(u)
  BY <1>1 DEF ActiveRun, Runs
<1>3. \A u \in Tasks \ {t} : SameStatus(u)
  BY <1>1, <1>2, StatusStays
<1>4. \/ paused'[t] = paused[t]
      \/ sub[t] # "new" /\ paused[t] = "no" /\ paused'[t] = "slot"
      \/ sub[t] # "new" /\ ~ActiveRun(t) /\ paused[t] # "no" /\ paused'[t] = "no"
  <2>1. CASE PauseTask(t)
    BY <2>1 DEF PauseTask, PauseEntry, TypeInv, TypeOK, QueueTypes, LifeInv,
       FreshIsUntouched, Untouched
  <2>2. CASE ResumeTask(t) /\ paused[t] # "no"
    <3>1. paused'[t] = "no" /\ paused[t] \in {"slot", "held"}
      BY <2>2 DEF ResumeTask, PauseEntry, EntryIsOp, TypeInv, TypeOK, QueueTypes
    <3>2. sub[t] # "new"
      BY <2>2 DEF LifeInv, FreshIsUntouched, Untouched
    <3>3. ~ActiveRun(t)
      BY <3>1 DEF ActiveRun, LifeInv, RunnerIsAlone
    <3>4. QED
      BY <2>2, <3>1, <3>2, <3>3
  <2>3. CASE ResumeTask(t) /\ paused[t] = "no"
    BY <2>3 DEF ResumeTask, PauseEntry, EntryIsOp
  <2>4. QED
    BY <2>1, <2>2, <2>3
<1>5. SameStatus(t) \/ <<LifeStatus(t), LifeStatus(t)'>> \in StatusMoves
  BY <1>1, <1>2, <1>4, StatusOf DEF SameStatus, StatusMoves
<1>6. QED
  BY <1>1, <1>3, <1>5, StatusMove

(* cancel_task ends a task that waits or is held, or clears its placeholder. *)
LEMMA CancelLives ==
  ASSUME TypeInv, LifeInv, RecordInv, TerminalOnce', NEW t \in Tasks,
         CancelTask(t)
  PROVE  LifeNext
<1>1. /\ UNCHANGED <<pc, cur, sub, ledger>>
      /\ paused' = [paused EXCEPT ![t] = "no"]
      /\ paused \in [Tasks -> {"no", "slot", "held"}]
      /\ t \in index \/ paused[t] # "no"
      /\ \/ FinalizedByCancel(t) /\ Announce(t, "cancelled")
         \/ ~FinalizedByCancel(t) /\ UNCHANGED outcome
  BY DEF CancelTask, PauseEntry, workerVars, endVars, TypeInv, TypeOK, QueueTypes
<1>2. \A u \in Tasks : ActiveRun(u)' <=> ActiveRun(u)
  BY <1>1 DEF ActiveRun, Runs
<1>3. sub[t] # "new"
  BY <1>1 DEF LifeInv, FreshIsUntouched, Untouched
<1>4. paused[t] # "no" => ~ActiveRun(t)
  BY <1>1 DEF ActiveRun, LifeInv, RunnerIsAlone
<1>5. CASE Announce(t, "cancelled")
  <2>1. "cancelled" \in Terminal
    BY DEF Terminal
  <2>2. outcome[t] = "none" /\ \A u \in Tasks \ {t} : outcome'[u] = outcome[u]
    BY <1>5, <2>1, FirstEnd
  <2>3. \A u \in Tasks \ {t} : SameStatus(u)
    BY <1>1, <1>2, <2>2, StatusStays
  <2>4. LifeStatus(t) \in {"waiting", "active", "paused"}
    BY <1>3, <2>2, StatusOf
  <2>5. QED
    BY <1>1, <1>5, <2>1, <2>3, <2>4, StatusEnd
<1>6. CASE UNCHANGED outcome
  <2>1. \A u \in Tasks \ {t} : SameStatus(u)
    BY <1>1, <1>2, <1>6, StatusStays
  <2>2. SameStatus(t) \/ <<LifeStatus(t), LifeStatus(t)'>> \in StatusMoves
    BY <1>1, <1>2, <1>3, <1>4, <1>6, StatusOf DEF SameStatus, StatusMoves
  <2>3. QED
    BY <1>1, <1>6, <2>1, <2>2, StatusMove
<1>7. QED
  BY <1>1, <1>5, <1>6

(* Writes and enqueues are below what the life cycle shows.                  *)
LEMMA CommitLives ==
  ASSUME TypeInv, RecordInv',
         \/ \E w \in Workers : CommitAwaited(w)
         \/ \E t \in Tasks : CommitFired(t) \/ SubmitWritten(t)
  PROVE  LifeNext
<1> DEFINE OneWrite ==
      /\ UNCHANGED <<pc, cur, paused, outcome>>
      /\ \A u \in Tasks : sub'[u] = "new" <=> sub[u] = "new"
      /\ \E x \in Tasks : \E s : Persist(x, s)
<1>1. OneWrite
  <2>1. ASSUME NEW w \in Workers, CommitAwaited(w) PROVE OneWrite
    BY <2>1 DEF CommitAwaited, indexVars, endVars, TypeInv, WorkerHasOp,
       AwaitsWrite
  <2>2. ASSUME NEW t \in Tasks, CommitFired(t) PROVE OneWrite
    BY <2>2 DEF CommitFired, indexVars, workerVars, endVars
  <2>3. ASSUME NEW t \in Tasks, SubmitWritten(t) PROVE OneWrite
    BY <2>3 DEF SubmitWritten, indexVars, workerVars, endVars, TypeInv, TypeOK,
       QueueTypes
  <2>4. QED
    BY <2>1, <2>2, <2>3
<1>2. \A u \in Tasks : ActiveRun(u)' <=> ActiveRun(u)
  BY <1>1 DEF ActiveRun, Runs
<1>3. \A u \in Tasks : SameStatus(u)
  BY <1>1, <1>2, StatusStays
<1>4. QED
  BY <1>1, <1>3, CommitLife

(* Every step of a worker is a step of the life cycle.                       *)
LEMMA WorkerLives ==
  ASSUME TypeInv, LifeInv, RecordInv, TerminalOnce', RecordInv',
         NEW w \in Workers, Worker(w)
  PROVE  LifeNext
<1>t. /\ pc \in [Workers -> WorkerPc] /\ cur \in [Workers -> Tasks \cup {"none"}]
  BY DEF TypeInv, TypeOK, WorkerTypes
<1>1. CASE Acquire(w)
  <2>1. /\ pc[w] \in Working \ {"backoff"} /\ pc'[w] \in Working \ {"backoff"}
        /\ OthersStay(w) /\ UNCHANGED <<ledger, sub, paused, cur>>
    BY <1>1, <1>t DEF Acquire, Goto, OthersStay, Working, indexVars, ledgerVars
  <2>2. Announce(cur[w], "cancelled") \/ UNCHANGED outcome
    BY <1>1 DEF Acquire, endVars
  <2>3. "cancelled" \in Terminal
    BY DEF Terminal
  <2>4. QED
    BY <2>1, <2>2, <2>3, RunEndLife, RunStepLife
<1>2. CASE HandlerReturns(w) \/ HandlerFails(w)
  <2>1. /\ pc[w] \in Working \ {"backoff"} /\ OthersStay(w)
        /\ UNCHANGED <<ledger, sub, paused, cur>>
    BY <1>2, <1>t DEF HandlerReturns, HandlerFails, Goto, OthersStay, Working,
       indexVars, ledgerVars
  <2>2. \E v \in Terminal : Announce(cur[w], v)
    BY <1>2 DEF HandlerReturns, HandlerFails, Terminal
  <2>3. QED
    BY <2>1, <2>2, RunEndLife
<1>3. CASE \/ HandlerStarts(w) \/ HandlerSaves(w) \/ HandlerSaved(w)
           \/ HandlerFailsRetriably(w) \/ BackoffStarts(w)
  <2>1. /\ pc[w] \in Working \ {"backoff"} /\ OthersStay(w)
        /\ UNCHANGED <<outcome, ledger, sub, paused, cur>>
    BY <1>3, <1>t DEF HandlerStarts, HandlerSaves, HandlerSaved,
       HandlerFailsRetriably, BackoffStarts, Written, Goto, OthersStay, Working,
       indexVars, ledgerVars, endVars
  <2>2. QED
    BY <2>1, RunStepLife
<1>4. CASE BackoffEnds(w) \/ Finish(w) \/ LoopAgain(w) \/ WorkerCancelled(w)
  <2>1. /\ pc'[w] \notin Working \ {"backoff"} /\ OthersStay(w)
        /\ UNCHANGED <<outcome, ledger, sub, paused>>
    BY <1>4, <1>t DEF BackoffEnds, Finish, LoopAgain, WorkerCancelled, Finally,
       Leave, Goto, OthersStay, Working, indexVars, ledgerVars, endVars
  <2>2. QED
    BY <2>1, RunStepLife, OffRunLife
<1>5. CASE CommitAwaited(w)
  BY <1>5, CommitLives
<1>6. QED
  BY <1>1, <1>2, <1>3, <1>4, <1>5, DequeueLives, HandlerParksLives
  DEF Worker, HandlerEnds, Continue

(* So is every step of submit(), of a write and of a control.                *)
LEMMA TaskLives ==
  ASSUME TypeInv, LifeInv, RecordInv, TerminalOnce', RecordInv',
         NEW t \in Tasks, Task(t)
  PROVE  LifeNext
<1>1. CASE SubmitEnqueues(t)
  <2>1. /\ UNCHANGED <<pc, cur, paused, outcome, ledger>>
        /\ \A u \in Tasks : sub'[u] = "new" <=> sub[u] = "new"
    BY <1>1 DEF SubmitEnqueues, indexVars, workerVars, endVars, ledgerVars,
       TypeInv, TypeOK, QueueTypes
  <2>2. \A u \in Tasks : ActiveRun(u)' <=> ActiveRun(u)
    BY <2>1 DEF ActiveRun, Runs
  <2>3. \A u \in Tasks : SameStatus(u)
    BY <2>1, <2>2, StatusStays
  <2>4. QED
    BY <2>1, <2>3, LifeStays
<1>2. CASE SubmitWritten(t) \/ CommitFired(t)
  BY <1>2, CommitLives
<1>3. QED
  BY <1>1, <1>2, SubmitLives, ClickLives, CancelLives DEF Task

(* Step by step the queue is the life cycle: the clicks, retries, shutdowns  *)
(* and racing writes of any number of tasks and workers show a task that     *)
(* ends at most once, starts again only from the queue, and a recorded end   *)
(* that is the announced one and stays.                                      *)
THEOREM QueueImplementsLife == Spec => ImplementsLife
<1>1. Init => Life!Init
  <2> SUFFICES ASSUME Init PROVE Life!Init
    OBVIOUS
  <2>1. \A t \in Tasks : LifeStatus(t) = "new"
    BY StatusOf DEF Init
  <2>2. QED
    BY <2>1 DEF Init, Life!Init, Terminal
<1>2. /\ TypeInv /\ LifeInv /\ RecordInv /\ [Next]_vars
      /\ TypeInv' /\ LifeInv' /\ RecordInv'
      => LifeNext
  <2> SUFFICES ASSUME TypeInv, LifeInv, RecordInv, [Next]_vars, LifeInv', RecordInv'
               PROVE  LifeNext
    OBVIOUS
  <2>1. TerminalOnce'
    BY DEF LifeInv
  <2>2. CASE Shutdown \/ UNCHANGED vars
    <3>1. UNCHANGED <<pc, cur, sub, paused, outcome, ledger>>
      BY <2>2 DEF Shutdown, vars, indexVars, workerVars, endVars, ledgerVars
    <3>2. \A u \in Tasks : ActiveRun(u)' <=> ActiveRun(u)
      BY <3>1 DEF ActiveRun, Runs
    <3>3. \A u \in Tasks : SameStatus(u)
      BY <3>1, <3>2, StatusStays
    <3>4. QED
      BY <3>1, <3>3, LifeStays
  <2>3. QED
    BY <2>1, <2>2, WorkerLives, TaskLives DEF Next
<1>3. QED
  BY <1>1, <1>2, RecordInvariant, PTL DEF Spec, ImplementsLife, Life!Spec, LifeNext

-----------------------------------------------------------------------------
(* Part 6: the replay mark.                                                  *)

(* A spent task stays so under a step that puts it nowhere.                  *)
LEMMA SpentStays ==
  ASSUME NEW u \in Tasks, Spent(u),
         sub'[u] = sub[u], Queued(u)' => Queued(u), Held(u)' => Held(u),
         \A v \in Workers : Runs(v, u)' =>
           \/ Runs(v, u) /\ pc'[v] = pc[v]
           \/ pc'[v] \in {"handler", "saving", "ending"}
  PROVE  Spent(u)'
BY DEF Spent

(* The task a worker dequeues was in the queue, the others are not put there. *)
LEMMA DequeueSpent ==
  ASSUME TypeInv, LifeInv, NEW w \in Workers, Dequeue(w),
         NEW u \in Tasks, Spent(u)
  PROVE  Spent(u)'
<1>t. /\ pc \in [Workers -> WorkerPc] /\ cur \in [Workers -> Tasks \cup {"none"}]
      /\ paused \in [Tasks -> {"no", "slot", "held"}]
  BY DEF TypeInv, TypeOK, WorkerTypes, QueueTypes
<1>1. PICK t \in Tasks :
        /\ Take(w, t) /\ UNCHANGED sub /\ OthersStay(w)
        /\ pc'[w] \in {"idle", "off", "closing", "holding", "acquire"}
        /\ pc'[w] = "acquire" => cur'[w] = t
        /\ \A x \in Tasks \ {t} : paused'[x] = paused[x]
  <2>1. CASE DequeueDropped(w)
    BY <2>1, <1>t DEF DequeueDropped, Goto, OthersStay, indexVars
  <2>2. CASE DequeueInterrupted(w)
    BY <2>2, <1>t DEF DequeueInterrupted, Goto, OthersStay
  <2>3. CASE DequeueHeld(w)
    BY <2>3, <1>t DEF DequeueHeld, Goto, Hold, OthersStay
  <2>4. CASE DequeueCancelled(w)
    BY <2>4, <1>t DEF DequeueCancelled, Take, Goto, OthersStay, workerVars
  <2>5. CASE DequeueRun(w)
    BY <2>5, <1>t DEF DequeueRun, Goto, OthersStay
  <2>6. QED
    BY <2>1, <2>2, <2>3, <2>4, <2>5 DEF Dequeue
<1>2. /\ Queued(t) /\ \A x \in Tasks \ {t} : Queued(x)' <=> Queued(x)
  BY <1>1, TakeLemma DEF TypeInv, TypeOK, LifeInv, NoDoubleExecution
<1>3. u # t
  BY <1>2 DEF Spent
<1>4. \A v \in Workers : Runs(v, u)' => Runs(v, u) /\ pc'[v] = pc[v]
  BY <1>1, <1>3 DEF Runs, Working, OthersStay
<1>5. QED
  BY <1>1, <1>2, <1>3, <1>4, SpentStays DEF Held

(* A worker inside _execute arms the task, ends it, or was not inside its    *)
(* handler before.                                                           *)
LEMMA RunSpent ==
  ASSUME TypeInv, LifeInv, NEW w \in Workers,
         Acquire(w) \/ HandlerSaves(w) \/ HandlerEnds(w) \/ Continue(w),
         NEW u \in Tasks, Spent(u), u \notin replayed'
  PROVE  Spent(u)'
<1>t. /\ pc \in [Workers -> WorkerPc] /\ cur \in [Workers -> Tasks \cup {"none"}]
      /\ paused \in [Tasks -> {"no", "slot", "held"}]
  BY DEF TypeInv, TypeOK, WorkerTypes, QueueTypes
<1>q. UNCHANGED queue => (Queued(u)' => Queued(u))
  BY DEF Queued
<1>1. CASE HandlerStarts(w) \/ HandlerSaves(w) \/ HandlerSaved(w)
             \/ HandlerReturns(w) \/ HandlerFails(w)
  <2>1. /\ UNCHANGED <<queue, sub, paused>> /\ OthersStay(w)
        /\ pc'[w] \in {"handler", "saving", "ending"}
    BY <1>1, <1>t DEF HandlerStarts, HandlerSaves, HandlerSaved, HandlerReturns,
       HandlerFails, Goto, OthersStay, indexVars
  <2>2. \A v \in Workers : Runs(v, u)' =>
          \/ Runs(v, u) /\ pc'[v] = pc[v]
          \/ pc'[v] \in {"handler", "saving", "ending"}
    BY <2>1 DEF Runs, OthersStay
  <2>3. QED
    BY <1>q, <2>1, <2>2, SpentStays DEF Held
<1>2. CASE Acquire(w) \/ BackoffStarts(w)
  <2>1. /\ UNCHANGED <<queue, sub, paused, cur>> /\ OthersStay(w)
        /\ pc[w] \in {"acquire", "retrying"}
    BY <1>2, <1>t DEF Acquire, BackoffStarts, Written, Goto, OthersStay, indexVars
  <2>2. cur[w] # u
    BY <2>1 DEF Spent, Runs, Working
  <2>3. \A v \in Workers : Runs(v, u)' => Runs(v, u) /\ pc'[v] = pc[v]
    BY <2>1, <2>2 DEF Runs, OthersStay
  <2>4. QED
    BY <1>q, <2>1, <2>3, SpentStays DEF Held
<1>3. CASE HandlerParks(w) \/ HandlerFailsRetriably(w)
  <2>1. cur[w] # u
    BY <1>3 DEF HandlerParks, HandlerFailsRetriably, ArmReplay
  <2>2. /\ UNCHANGED <<queue, sub, cur>> /\ OthersStay(w) /\ paused'[u] = paused[u]
    BY <1>3, <1>t, <2>1 DEF HandlerParks, HandlerFailsRetriably, Hold, Goto,
       OthersStay, indexVars
  <2>3. \A v \in Workers : Runs(v, u)' => Runs(v, u) /\ pc'[v] = pc[v]
    BY <2>1, <2>2 DEF Runs, OthersStay
  <2>4. QED
    BY <1>q, <2>2, <2>3, SpentStays DEF Held
<1>4. CASE Finish(w) \/ LoopAgain(w) \/ BackoffEnds(w)
  <2>1. UNCHANGED <<sub, paused>> /\ OthersStay(w) /\ pc'[w] = "idle"
    BY <1>4, <1>t DEF Finish, LoopAgain, BackoffEnds, Leave, Goto, OthersStay,
       indexVars
  <2>2. \A v \in Workers : Runs(v, u)' => Runs(v, u) /\ pc'[v] = pc[v]
    BY <2>1 DEF Runs, OthersStay, Working
  <2>3. CASE UNCHANGED queue
    BY <1>q, <2>1, <2>2, <2>3, SpentStays DEF Held
  <2>4. CASE BackoffEnds(w)
    <3>1. PICK t \in Tasks : t = cur[w] /\ Enqueue(t) /\ pc[w] = "backoff"
      BY <2>4 DEF BackoffEnds, TypeInv, WorkerHasOp
    <3>2. Runs(w, t) /\ OnWorker(t)
      BY <3>1 DEF Runs, OnWorker, Working
    <3>3. ~Queued(t)
      BY <3>2 DEF LifeInv, NoDoubleExecution, OnePlace
    <3>4. u # t
      BY <3>1, <3>2 DEF Spent
    <3>5. Queued(u)' <=> Queued(u)
      BY <3>1, <3>3, <3>4, EnqueueLemma DEF TypeInv, TypeOK, LifeInv,
         NoDoubleExecution
    <3>6. QED
      BY <2>1, <2>2, <3>5, SpentStays DEF Held
  <2>5. QED
    BY <1>4, <2>3, <2>4 DEF Finish, LoopAgain
<1>5. QED
  BY <1>1, <1>2, <1>3, <1>4 DEF HandlerEnds, Continue

(* submit() is over for a spent task, and no click puts it in the queue.     *)
LEMMA TaskSpent ==
  ASSUME TypeInv, LifeInv, NEW t \in Tasks, Task(t), NEW u \in Tasks, Spent(u)
  PROVE  Spent(u)'
<1>t. /\ pc \in [Workers -> WorkerPc] /\ cur \in [Workers -> Tasks \cup {"none"}]
      /\ paused \in [Tasks -> {"no", "slot", "held"}]
      /\ sub \in [Tasks -> {"new", "writing", "written", "in"}]
  BY DEF TypeInv, TypeOK, WorkerTypes, QueueTypes
<1>1. sub'[u] = sub[u]
  <2>1. CASE Submit(t) \/ SubmitWritten(t) \/ SubmitEnqueues(t)
    <3>1. sub[t] # "in" /\ \A x \in Tasks \ {t} : sub'[x] = sub[x]
      BY <2>1, <1>t DEF Submit, SubmitWritten, SubmitEnqueues
    <3>2. QED
      BY <3>1 DEF Spent
  <2>2. CASE CommitFired(t) \/ PauseTask(t) \/ ResumeTask(t) \/ CancelTask(t)
    BY <2>2 DEF CommitFired, PauseTask, ResumeTask, CancelTask
  <2>3. QED
    BY <2>1, <2>2 DEF Task
<1>2. Queued(u)' => Queued(u)
  <2>1. CASE UNCHANGED queue
    BY <2>1 DEF Queued
  <2>2. CASE Enqueue(t) /\ (sub[t] = "written" \/ Held(t))
    <3>1. ~Queued(t) /\ u # t
      BY <2>2 DEF LifeInv, NoDoubleExecution, OnePlace, Submitting, Spent
    <3>2. QED
      BY <2>2, <3>1, EnqueueLemma DEF TypeInv, TypeOK, LifeInv, NoDoubleExecution
  <2>3. QED
    BY <2>1, <2>2 DEF Task, Submit, SubmitWritten, SubmitEnqueues, CommitFired,
       PauseTask, ResumeTask, CancelTask, EntryIsOp, Held
<1>3. Held(u)' => Held(u)
  BY <1>t DEF Task, Submit, SubmitWritten, SubmitEnqueues, CommitFired, PauseTask,
     ResumeTask, CancelTask, Held, indexVars
<1>4. UNCHANGED cur /\ \A v \in Workers : pc'[v] = pc[v] \/ pc'[v] = "idle"
  BY <1>t DEF Task, Submit, SubmitWritten, SubmitEnqueues, CommitFired, PauseTask,
     ResumeTask, CancelTask, workerVars
<1>5. \A v \in Workers : Runs(v, u)' => Runs(v, u) /\ pc'[v] = pc[v]
  BY <1>4 DEF Runs, Working
<1>6. QED
  BY <1>1, <1>2, <1>3, <1>5, SpentStays

(* Whoever enters the handler is in the queue no more.                       *)
LEMMA EnterSpent ==
  ASSUME TypeInv, LifeInv, NEW w \in Workers, HandlerStarts(w),
         NEW u \in Tasks, u = cur[w]
  PROVE  Spent(u)'
<1>1. /\ pc[w] = "starting" /\ pc' = [pc EXCEPT ![w] = "handler"]
      /\ UNCHANGED <<queue, sub, paused, cur>>
      /\ pc \in [Workers -> WorkerPc]
      /\ sub \in [Tasks -> {"new", "writing", "written", "in"}]
  BY DEF HandlerStarts, Written, Goto, indexVars, TypeInv, TypeOK, WorkerTypes,
     QueueTypes
<1>2. Runs(w, u) /\ OnWorker(u)
  BY <1>1 DEF Runs, OnWorker, Working
<1>3. ~Queued(u) /\ ~Submitting(u) /\ ~Held(u)
  BY <1>2 DEF LifeInv, NoDoubleExecution, OnePlace
<1>4. \A v \in Workers : Runs(v, u) => v = w
  BY <1>2 DEF LifeInv, NoDoubleExecution, OnePlace
<1>5. sub[u] = "in"
  BY <1>1, <1>3 DEF Submitting, LifeInv, FreshIsUntouched, Untouched
<1>6. ~Queued(u)'
  BY <1>1, <1>3 DEF Queued
<1>7. \A v \in Workers : Runs(v, u)' => pc'[v] = "handler"
  BY <1>1, <1>4 DEF Runs
<1>8. QED
  BY <1>1, <1>3, <1>5, <1>6, <1>7 DEF Spent, Held

(* One case per kind of step; an entry is the only one to add a task.        *)
LEMMA ArmedStep == TypeInv /\ LifeInv /\ ArmedInv /\ [Next]_vars => ArmedInv'
<1> SUFFICES ASSUME TypeInv, LifeInv, ArmedInv, [Next]_vars PROVE ArmedInv'
  OBVIOUS
<1>e. entered' \subseteq Tasks
  BY TypeStep DEF TypeInv, TypeOK, ObserverTypes
<1> SUFFICES ASSUME NEW u \in Tasks, u \in entered', u \notin replayed'
             PROVE  Spent(u)'
  BY <1>e DEF ArmedInv
<1>1. u \notin replayed
  BY DEF Next, Worker, Task, Dequeue, HandlerEnds, Continue, Submit, SubmitWritten,
     SubmitEnqueues, CommitFired, PauseTask, ResumeTask, CancelTask, DequeueDropped,
     DequeueInterrupted, DequeueHeld, DequeueCancelled, DequeueRun, Acquire,
     HandlerStarts, HandlerSaves, HandlerSaved, HandlerReturns, HandlerParks,
     HandlerFailsRetriably, HandlerFails, BackoffStarts, BackoffEnds, Finish,
     LoopAgain, CommitAwaited, WorkerCancelled, Shutdown, ArmReplay, opVars, vars
<1>2. ASSUME NEW w \in Workers, HandlerStarts(w), u = cur[w] PROVE Spent(u)'
  BY <1>2, EnterSpent
<1>3. CASE u \in entered
  <2>1. Spent(u)
    BY <1>1, <1>3 DEF ArmedInv
  <2>2. ASSUME NEW w \in Workers, CommitAwaited(w) \/ WorkerCancelled(w)
        PROVE  Spent(u)'
    <3>1. /\ UNCHANGED <<queue, sub, paused>> /\ OthersStay(w)
          /\ \/ UNCHANGED <<pc, cur>>
             \/ pc'[w] \in {"off", "idle"}
      BY <2>2 DEF CommitAwaited, WorkerCancelled, Leave, Goto, OthersStay, indexVars,
         TypeInv, TypeOK, WorkerTypes
    <3>2. \A v \in Workers : Runs(v, u)' => Runs(v, u) /\ pc'[v] = pc[v]
      BY <3>1 DEF Runs, OthersStay, Working
    <3>3. Queued(u)' => Queued(u)
      BY <3>1 DEF Queued
    <3>4. QED
      BY <2>1, <3>1, <3>2, <3>3, SpentStays DEF Held
  <2>3. CASE Shutdown \/ UNCHANGED vars
    <3>1. UNCHANGED <<queue, sub, paused, pc, cur>>
      BY <2>3 DEF Shutdown, vars, indexVars, workerVars
    <3>2. QED
      BY <2>1, <3>1 DEF Spent, Queued, Held, Runs
  <2>4. QED
    BY <2>1, <2>2, <2>3, DequeueSpent, RunSpent, TaskSpent DEF Next, Worker
<1>4. CASE u \notin entered
  <2>1. \E w \in Workers : HandlerStarts(w) /\ u = cur[w]
    BY <1>4 DEF Next, Worker, Task, Dequeue, HandlerEnds, Continue, Submit,
     SubmitWritten, SubmitEnqueues, CommitFired, PauseTask, ResumeTask, CancelTask,
     DequeueDropped, DequeueInterrupted, DequeueHeld, DequeueCancelled, DequeueRun,
     Acquire, HandlerStarts, HandlerSaves, HandlerSaved, HandlerReturns,
     HandlerParks, HandlerFailsRetriably, HandlerFails, BackoffStarts, BackoffEnds,
     Finish, LoopAgain, CommitAwaited, WorkerCancelled, Shutdown, vars
  <2>2. QED
    BY <1>2, <2>1
<1>5. QED
  BY <1>3, <1>4

(* Whoever is about to enter a handler for the second time deduplicates:     *)
(* after a retry, a parking or both, for any number of them.                 *)
THEOREM ReplayArmedAlways == Spec => []ReplayArmed
<1>1. Init => TypeInv /\ LifeInv /\ ArmedInv
  BY TypeInit, LifeInit DEF Init, TypeInv, WorkerHasOp, ArmedInv
<1>2. TypeInv /\ LifeInv /\ ArmedInv /\ [Next]_vars
        => TypeInv' /\ LifeInv' /\ ArmedInv'
  BY TypeStep, LifeStep, ArmedStep
<1>3. TypeInv /\ LifeInv /\ ArmedInv => ReplayArmed
  BY DEF ArmedInv, Spent, ReplayArmed, Runs, Working
<1>4. QED
  BY <1>1, <1>2, <1>3, PTL DEF Spec

-----------------------------------------------------------------------------
(* Part 7: no ghosts.                                                        *)

(* A task that keeps its places and its worker stays swept.                  *)
LEMMA SweptStays ==
  ASSUME NEW u \in Tasks, Swept(u),
         Somewhere(u) => Somewhere(u)',
         Executes(u) => Executes(u)', Parks(u) => Parks(u)',
         Held(u)' => Held(u),
         u \in index' => u \in index, u \in running' => u \in running,
         u \in cancelled' => u \in cancelled, u \in opCancel => u \in opCancel'
  PROVE  Swept(u)'
BY DEF Swept

(* What a worker does with other tasks moves none of this one's places.      *)
LEMMA SweptBesides ==
  ASSUME NEW u \in Tasks, Swept(u), NEW w \in Workers, OthersStay(w),
         cur[w] # u, Queued(u) => Queued(u)', UNCHANGED <<sub, opCancel>>,
         paused'[u] = paused[u],
         u \in index' => u \in index, u \in running' => u \in running,
         u \in cancelled' => u \in cancelled
  PROVE  Swept(u)'
<1>1. OnWorker(u) => OnWorker(u)'
  BY DEF OnWorker, Runs, OthersStay
<1>2. Somewhere(u) => Somewhere(u)'
  BY <1>1 DEF Somewhere, Submitting, Held
<1>3. (Executes(u) => Executes(u)') /\ (Parks(u) => Parks(u)')
  BY DEF Executes, Parks, OthersStay
<1>4. QED
  BY <1>2, <1>3, SweptStays DEF Held

(* The same, of a step that also leaves the worker its task.                 *)
LEMMA SweptAlong ==
  ASSUME NEW u \in Tasks, Swept(u), NEW w \in Workers, OthersStay(w),
         cur'[w] = cur[w], pc'[w] \in Working, pc[w] # "parking",
         UNCHANGED <<queue, sub, paused, index, running, cancelled, opCancel>>
  PROVE  Swept(u)'
<1>q. Queued(u)' <=> Queued(u)
  BY DEF Queued
<1>1. OnWorker(u) => OnWorker(u)'
  BY DEF OnWorker, Runs, OthersStay
<1>2. Somewhere(u) => Somewhere(u)'
  BY <1>q, <1>1 DEF Somewhere, Submitting, Held
<1>3. (Executes(u) => Executes(u)') /\ (Parks(u) => Parks(u)')
  BY DEF Executes, Parks, OthersStay, InExecute
<1>4. QED
  BY <1>2, <1>3, SweptStays DEF Held

(* A dequeued task leaves the indexes, is held, or has a worker.             *)
LEMMA DequeueSwept ==
  ASSUME TypeInv, LifeInv, ~shuttingDown, NEW w \in Workers, Dequeue(w),
         NEW u \in Tasks, Swept(u)
  PROVE  Swept(u)'
<1>t. /\ pc \in [Workers -> WorkerPc] /\ cur \in [Workers -> Tasks \cup {"none"}]
      /\ paused \in [Tasks -> {"no", "slot", "held"}]
  BY DEF TypeInv, TypeOK, WorkerTypes, QueueTypes
<1>1. PICK t \in Tasks :
        /\ Take(w, t) /\ pc[w] = "idle" /\ OthersStay(w)
        /\ UNCHANGED <<sub, opCancel>>
        /\ \A x \in Tasks \ {t} : paused'[x] = paused[x]
        /\ running' \subseteq running \cup {t} /\ cancelled' \subseteq cancelled
        /\ index' \subseteq index
        /\ \/ /\ t \notin index' /\ t \notin cancelled'
              /\ running' = running /\ (Held(t)' => Held(t))
           \/ /\ Held(t)' /\ ~Stopped(t) /\ running' = running
           \/ /\ ~Stopped(t) /\ cur'[w] = t /\ pc'[w] = "acquire"
              /\ paused' = paused
  <2>1. CASE DequeueInterrupted(w)
    BY <2>1, <1>t DEF DequeueInterrupted, Take, Goto, OthersStay, opVars, Held
  <2>2. CASE DequeueHeld(w)
    BY <2>2, <1>t DEF DequeueHeld, Take, Goto, Hold, OthersStay, opVars, Held
  <2>3. CASE DequeueCancelled(w)
    BY <2>3, <1>t DEF DequeueCancelled, Take, Goto, OthersStay, workerVars, opVars,
       EndIsOwed, Held
  <2>4. CASE DequeueRun(w)
    BY <2>4, <1>t DEF DequeueRun, Take, Goto, OthersStay, opVars, Held
  <2>5. QED
    BY <2>1, <2>2, <2>3, <2>4 DEF Dequeue, DequeueDropped
<1>2. /\ Queued(t) /\ \A x \in Tasks \ {t} : Queued(x)' <=> Queued(x)
  BY <1>1, TakeLemma DEF TypeInv, TypeOK, LifeInv, NoDoubleExecution
<1>3. ~Held(t)
  BY <1>2 DEF LifeInv, NoDoubleExecution, OnePlace
<1>w. \A x \in Tasks : /\ OnWorker(x) => OnWorker(x)'
                       /\ Executes(x) => Executes(x)'
                       /\ Parks(x) => Parks(x)'
  BY <1>1 DEF OnWorker, Runs, Executes, Parks, OthersStay, InExecute, Working
<1>4. CASE u # t
  <2>1. Somewhere(u) => Somewhere(u)'
    BY <1>1, <1>2, <1>4, <1>w DEF Somewhere, Submitting, Held
  <2>2. QED
    BY <1>1, <1>4, <1>w, <2>1, SweptStays DEF Held
<1>5. CASE /\ u = t /\ t \notin index' /\ t \notin cancelled'
           /\ running' = running
  BY <1>5, <1>w DEF Swept
<1>6. CASE u = t /\ Held(t)' /\ ~Stopped(t) /\ running' = running
  <2>1. Somewhere(t)' /\ t \notin cancelled'
    BY <1>1, <1>6 DEF Somewhere, Stopped
  <2>2. QED
    BY <1>6, <1>w, <2>1 DEF Swept
<1>7. CASE u = t /\ ~Stopped(t) /\ cur'[w] = t /\ pc'[w] = "acquire"
  <2>1. OnWorker(t)' /\ Executes(t)' /\ t \notin cancelled'
    BY <1>1, <1>7 DEF OnWorker, Runs, Executes, InExecute, Working, Stopped
  <2>2. QED
    BY <1>7, <2>1 DEF Swept, Somewhere
<1>8. QED
  BY <1>1, <1>4, <1>5, <1>6, <1>7

(* The finally block clears what its task has in the indexes, unless the     *)
(* task is back in the queue, held, or resumed by another worker.            *)
LEMMA LeaveSwept ==
  ASSUME TypeInv, LifeInv, NEW w \in Workers,
         Finish(w) \/ LoopAgain(w) \/ BackoffEnds(w),
         NEW u \in Tasks, Swept(u)
  PROVE  Swept(u)'
<1>t. /\ pc \in [Workers -> WorkerPc] /\ cur \in [Workers -> Tasks \cup {"none"}]
      /\ QueueTypes
  BY DEF TypeInv, TypeOK, WorkerTypes
<1>1. PICK t \in Tasks : t = cur[w]
  BY DEF Finish, LoopAgain, BackoffEnds, Written, TypeInv, WorkerHasOp
<1>2. /\ OthersStay(w) /\ UNCHANGED <<sub, opCancel, paused>>
      /\ index' \subseteq index /\ running' \subseteq running
      /\ cancelled' \subseteq cancelled
  BY <1>t DEF Finish, LoopAgain, BackoffEnds, Written, Leave, Goto, Finally,
     OthersStay, opVars, indexVars
<1>3. Queued(u) => Queued(u)'
  <2>1. CASE BackoffEnds(w)
    <3>1. Enqueue(t) /\ Runs(w, t)
      BY <1>1, <2>1 DEF BackoffEnds, Runs, Working
    <3>2. ~Queued(t)
      BY <3>1 DEF LifeInv, NoDoubleExecution, OnePlace, OnWorker
    <3>3. Queued(t)' /\ \A x \in Tasks \ {t} : Queued(x)' <=> Queued(x)
      BY <1>t, <3>1, <3>2, EnqueueLemma DEF LifeInv, NoDoubleExecution
    <3>4. QED
      BY <3>3
  <2>2. CASE UNCHANGED queue
    BY <2>2 DEF Queued
  <2>3. QED
    BY <2>1, <2>2 DEF Finish, LoopAgain
<1>4. CASE u # t
  BY <1>1, <1>2, <1>3, <1>4, SweptBesides
<1>5. CASE u = t /\ LoopAgain(w)
  <2>1. pc[w] \in {"holding", "closing"} /\ UNCHANGED <<index, running, cancelled>>
    BY <1>5 DEF LoopAgain, Written, indexVars
  <2>2. OnWorker(u) => OnWorker(u)'
    BY <1>2, <2>1 DEF OnWorker, Runs, OthersStay, Working
  <2>3. Somewhere(u) => Somewhere(u)'
    BY <1>2, <1>3, <2>2 DEF Somewhere, Submitting, Held
  <2>4. (Executes(u) => Executes(u)') /\ (Parks(u) => Parks(u)')
    BY <1>2, <2>1 DEF Executes, Parks, OthersStay, InExecute, Working
  <2>5. QED
    BY <1>2, <2>1, <2>3, <2>4, SweptStays DEF Held
<1>6. CASE u = t /\ (Finish(w) \/ BackoffEnds(w))
  <2>1. u \notin running' /\ u \notin cancelled'
    BY <1>1, <1>6 DEF Finish, BackoffEnds, Finally
  <2>2. CASE pc[w] = "ending"
    BY <1>1, <1>6, <2>1, <2>2 DEF Finish, BackoffEnds, Written, Finally, Swept
  <2>3. CASE BackoffEnds(w)
    <3>1. Runs(w, t) /\ Enqueue(t)
      BY <1>1, <2>3 DEF BackoffEnds, Runs, Working
    <3>2. ~Queued(t)
      BY <3>1 DEF LifeInv, NoDoubleExecution, OnePlace, OnWorker
    <3>3. Queued(t)'
      BY <1>t, <3>1, <3>2, EnqueueLemma DEF LifeInv, NoDoubleExecution
    <3>4. QED
      BY <1>6, <2>1, <3>3 DEF Swept, Somewhere
  <2>4. CASE pc[w] = "parking"
    <3>1. OnWorker(u) => OnWorker(u)'
      BY <1>2, <2>4 DEF OnWorker, Runs, OthersStay, Working
    <3>2. Somewhere(u) => Somewhere(u)'
      BY <1>2, <1>3, <3>1 DEF Somewhere, Submitting, Held
    <3>3. QED
      BY <1>2, <2>1, <3>2 DEF Swept
  <2>5. QED
    BY <1>6, <2>2, <2>3, <2>4 DEF Finish, Written
<1>7. QED
  BY <1>4, <1>5, <1>6

(* A handler that parks was not stopped.                                     *)
LEMMA ParkSwept ==
  ASSUME TypeInv, LifeInv, NEW w \in Workers, HandlerParks(w),
         NEW u \in Tasks, Swept(u)
  PROVE  Swept(u)'
<1>1. /\ pc[w] = "handler" /\ pc'[w] = "parking" /\ OthersStay(w)
      /\ cur[w] \notin opCancel /\ paused' = [paused EXCEPT ![cur[w]] = "held"]
      /\ paused \in [Tasks -> {"no", "slot", "held"}]
      /\ UNCHANGED <<queue, sub, index, running, cancelled, opCancel, cur>>
  BY DEF HandlerParks, Goto, Hold, OthersStay, TypeInv, TypeOK, WorkerTypes,
     QueueTypes
<1>2. CASE cur[w] # u
  <2>1. Queued(u) => Queued(u)'
    BY <1>1 DEF Queued
  <2>2. QED
    BY <1>1, <1>2, <2>1, SweptBesides
<1>3. CASE cur[w] = u
  <2>1. Held(u)' /\ Executes(u)'
    BY <1>1, <1>3 DEF Held, Executes, InExecute
  <2>2. QED
    BY <1>1, <1>3, <2>1 DEF Swept, Somewhere
<1>4. QED
  BY <1>2, <1>3

(* submit(): an indexed task is being submitted, or queued.                  *)
LEMMA SubmitSwept ==
  ASSUME TypeInv, LifeInv, NEW t \in Tasks,
         Submit(t) \/ SubmitWritten(t) \/ SubmitEnqueues(t),
         NEW u \in Tasks, Swept(u)
  PROVE  Swept(u)'
<1>t. /\ pc \in [Workers -> WorkerPc] /\ QueueTypes
      /\ sub \in [Tasks -> {"new", "writing", "written", "in"}]
  BY DEF TypeInv, TypeOK, WorkerTypes, QueueTypes
<1>1. /\ UNCHANGED <<paused, running, cancelled, opCancel, cur>>
      /\ \A v \in Workers : pc'[v] = pc[v] \/ (pc[v] = "off" /\ pc'[v] = "idle")
      /\ index' \subseteq index \cup {t}
      /\ \A x \in Tasks \ {t} : sub'[x] = sub[x]
  BY <1>t DEF Submit, SubmitWritten, SubmitEnqueues, indexVars, opVars, workerVars
<1>2. /\ OnWorker(u) => OnWorker(u)'
      /\ Executes(u) => Executes(u)'
      /\ Parks(u) => Parks(u)'
  BY <1>1 DEF OnWorker, Runs, Executes, Parks, InExecute, Working
<1>3. Queued(u) => Queued(u)'
  <2>1. CASE SubmitEnqueues(t)
    <3>1. Enqueue(t) /\ ~Queued(t)
      BY <2>1 DEF SubmitEnqueues, LifeInv, NoDoubleExecution, OnePlace, Submitting
    <3>2. Queued(t)' /\ \A x \in Tasks \ {t} : Queued(x)' <=> Queued(x)
      BY <1>t, <3>1, EnqueueLemma DEF LifeInv, NoDoubleExecution
    <3>3. QED
      BY <3>2
  <2>2. CASE UNCHANGED queue
    BY <2>2 DEF Queued
  <2>3. QED
    BY <2>1, <2>2 DEF Submit, SubmitWritten
<1>4. Somewhere(t)'
  <2>1. CASE SubmitEnqueues(t)
    <3>1. Enqueue(t) /\ ~Queued(t)
      BY <2>1 DEF SubmitEnqueues, LifeInv, NoDoubleExecution, OnePlace, Submitting
    <3>2. Queued(t)'
      BY <1>t, <3>1, EnqueueLemma DEF LifeInv, NoDoubleExecution
    <3>3. QED
      BY <3>2 DEF Somewhere
  <2>2. CASE Submit(t) \/ SubmitWritten(t)
    BY <1>t, <2>2 DEF Submit, SubmitWritten, Somewhere, Submitting
  <2>3. QED
    BY <2>1, <2>2
<1>5. Somewhere(u) => Somewhere(u)'
  BY <1>1, <1>2, <1>3, <1>4 DEF Somewhere, Submitting, Held
<1>6. QED
  BY <1>1, <1>2, <1>4, <1>5 DEF Swept, Held

(* The clicks: a stop leaves its mark only where a worker will find it.      *)
LEMMA ClickSwept ==
  ASSUME TypeInv, LifeInv, NEW t \in Tasks,
         PauseTask(t) \/ ResumeTask(t) \/ CancelTask(t),
         NEW u \in Tasks, Swept(u)
  PROVE  Swept(u)'
<1>t. /\ paused \in [Tasks -> {"no", "slot", "held"}] /\ QueueTypes
  BY DEF TypeInv, TypeOK, QueueTypes
<1>1. /\ UNCHANGED <<pc, cur, sub, running>>
      /\ \A x \in Tasks \ {t} : paused'[x] = paused[x]
      /\ paused'[t] = "held" => paused[t] = "held"
      /\ index' \subseteq index /\ opCancel \subseteq opCancel'
      /\ cancelled \subseteq cancelled' /\ cancelled' \subseteq cancelled \cup {t}
  BY <1>t DEF PauseTask, ResumeTask, CancelTask, PauseEntry, EntryIsOp, workerVars
<1>2. \A x \in Tasks : /\ OnWorker(x)' <=> OnWorker(x)
                       /\ Executes(x)' <=> Executes(x)
                       /\ Parks(x)' <=> Parks(x)
  BY <1>1 DEF OnWorker, Runs, Executes, Parks
<1>3. \/ UNCHANGED queue /\ (Held(t) => Held(t)' \/ CancelTask(t))
      \/ Held(t) /\ Enqueue(t)
  BY <1>t DEF PauseTask, ResumeTask, CancelTask, PauseEntry, EntryIsOp, Held
<1>4. /\ Queued(u) => Queued(u)'
      /\ Enqueue(t) /\ Held(t) => Queued(t)'
  <2>1. CASE UNCHANGED queue /\ ~(Enqueue(t) /\ Held(t))
    BY <2>1 DEF Queued
  <2>2. CASE Held(t) /\ Enqueue(t)
    <3>1. ~Queued(t)
      BY <2>2 DEF LifeInv, NoDoubleExecution, OnePlace
    <3>2. Queued(t)' /\ \A x \in Tasks \ {t} : Queued(x)' <=> Queued(x)
      BY <1>t, <2>2, <3>1, EnqueueLemma DEF LifeInv, NoDoubleExecution
    <3>3. QED
      BY <3>2
  <2>3. QED
    BY <1>3, <2>1, <2>2
<1>5. CASE u # t \/ ~CancelTask(t)
  <2>1. Somewhere(u) => Somewhere(u)'
    BY <1>1, <1>2, <1>3, <1>4, <1>5 DEF Somewhere, Submitting, Held
  <2>2. u \in cancelled' => u \in cancelled
    BY <1>1, <1>5 DEF PauseTask, ResumeTask
  <2>3. QED
    BY <1>1, <1>2, <2>1, <2>2, SweptStays DEF Held
<1>6. CASE u = t /\ CancelTask(t)
  <2>1. paused'[t] = "no" /\ ~Held(t)'
    BY <1>t, <1>6 DEF CancelTask, Held
  <2>2. Somewhere(t) /\ ~Held(t) => Somewhere(t)'
    BY <1>1, <1>2, <1>4, <1>6 DEF Somewhere, Submitting
  <2>3. t \in index' => t \in index /\ ~Held(t)
    BY <1>6 DEF CancelTask, FinalizedByCancel, PauseEntry, EntryIsOp, Held
  <2>4. t \in cancelled' => t \in opCancel'
    BY <1>1, <1>6 DEF CancelTask, Swept
  <2>5. t \in cancelled' => Somewhere(t)' \/ Parks(t)'
    <3>1. CASE t \in cancelled
      BY <1>2, <1>6, <2>2, <3>1 DEF Swept
    <3>2. CASE t \in index /\ ~Held(t)
      BY <1>6, <2>2, <3>2 DEF Swept
    <3>3. CASE t \in running /\ Held(t)
      <4>1. Executes(t) /\ ~OnWorker(t)
        BY <1>6, <3>3 DEF Swept, LifeInv, NoDoubleExecution, OnePlace
      <4>2. Parks(t)
        BY <4>1 DEF Executes, OnWorker, Runs, Parks, InExecute
      <4>3. QED
        BY <1>2, <4>2
    <3>4. t \in cancelled' => \/ t \in cancelled
                              \/ t \in index /\ (t \in running \/ ~PauseEntry(t))
      BY <1>6 DEF CancelTask
    <3>5. QED
      BY <3>1, <3>2, <3>3, <3>4 DEF PauseEntry, Held
  <2>6. QED
    BY <1>1, <1>2, <1>6, <2>1, <2>2, <2>3, <2>4, <2>5 DEF Swept
<1>7. QED
  BY <1>5, <1>6

(* One case per kind of step.                                                *)
LEMMA GhostStep == TypeInv /\ LifeInv /\ GhostInv /\ [Next]_vars => GhostInv'
<1> SUFFICES ASSUME TypeInv, LifeInv, GhostInv, [Next]_vars PROVE GhostInv'
  OBVIOUS
<1> SUFFICES ASSUME shutdowns' = 0 PROVE GhostInv'
  BY DEF GhostInv
<1>t. /\ shutdowns \in Nat
      /\ pc \in [Workers -> WorkerPc] /\ cur \in [Workers -> Tasks \cup {"none"}]
  BY ConstantsAssumption DEF TypeInv, TypeOK, ObserverTypes, WorkerTypes,
     ConstantsAssumption
<1>1. CASE Shutdown
  BY <1>1, <1>t DEF Shutdown
<1>2. CASE ~Shutdown
  <2>1. UNCHANGED shutdowns
    BY <1>2 DEF Next, Worker, Task, Dequeue, HandlerEnds, Continue, Submit,
     SubmitWritten, SubmitEnqueues, CommitFired, PauseTask, ResumeTask, CancelTask,
     DequeueDropped, DequeueInterrupted, DequeueHeld, DequeueCancelled, DequeueRun,
     Acquire, HandlerStarts, HandlerSaves, HandlerSaved, HandlerReturns,
     HandlerParks, HandlerFailsRetriably, HandlerFails, BackoffStarts, BackoffEnds,
     Finish, LoopAgain, CommitAwaited, WorkerCancelled, lifeVars, vars
  <2>2. ~shuttingDown /\ doomed = {} /\ \A x \in Tasks : Swept(x)
    BY <2>1 DEF GhostInv
  <2>3. \A w \in Workers : ~WorkerCancelled(w) /\ ~DequeueDropped(w)
    BY <2>2 DEF WorkerCancelled, DequeueDropped
  <2>4. ~shuttingDown' /\ doomed' = {}
    <3>1. CASE UNCHANGED vars
      BY <2>2, <3>1 DEF vars, lifeVars
    <3>2. ASSUME NEW t \in Tasks, Task(t) PROVE ~shuttingDown' /\ doomed' = {}
      BY <2>2, <3>2 DEF Task, Submit, SubmitWritten, SubmitEnqueues, CommitFired,
         PauseTask, ResumeTask, CancelTask, lifeVars
    <3>3. ASSUME NEW w \in Workers, Worker(w) PROVE UNCHANGED lifeVars
      BY <2>3, <3>3 DEF Worker, Dequeue, HandlerEnds, Continue, DequeueInterrupted,
         DequeueHeld, DequeueCancelled, DequeueRun, Acquire, HandlerStarts,
         HandlerSaves, HandlerSaved, HandlerReturns, HandlerParks,
         HandlerFailsRetriably, HandlerFails, BackoffStarts, BackoffEnds, Finish,
         LoopAgain, CommitAwaited
    <3>4. QED
      BY <1>2, <2>2, <3>1, <3>2, <3>3 DEF Next, lifeVars
  <2>5. ASSUME NEW u \in Tasks PROVE Swept(u)'
    <3>1. Swept(u)
      BY <2>2
    <3>2. ASSUME NEW w \in Workers,
                 \/ Acquire(w) \/ HandlerStarts(w) \/ HandlerSaves(w) \/ HandlerSaved(w)
                 \/ HandlerReturns(w) \/ HandlerFails(w) \/ HandlerFailsRetriably(w)
                 \/ BackoffStarts(w)
          PROVE  Swept(u)'
      <4>1. /\ OthersStay(w) /\ cur'[w] = cur[w] /\ pc'[w] \in Working
            /\ pc[w] # "parking"
            /\ UNCHANGED <<queue, sub, paused, index, running, cancelled, opCancel>>
        BY <1>t, <3>2 DEF Acquire, HandlerStarts, HandlerSaves, HandlerSaved,
           HandlerReturns, HandlerFails, HandlerFailsRetriably, BackoffStarts,
           Written, Goto, OthersStay, Working, indexVars, opVars
      <4>2. QED
        BY <3>1, <4>1, SweptAlong
    <3>3. ASSUME UNCHANGED <<queue, sub, paused, index, running, cancelled, opCancel,
                             pc, cur>>
          PROVE  Swept(u)'
      BY <3>1, <3>3 DEF Swept, Somewhere, Queued, OnWorker, Runs, Submitting, Held,
         Executes, Parks
    <3>4. ASSUME NEW w \in Workers, CommitAwaited(w) PROVE Swept(u)'
      BY <3>3, <3>4 DEF CommitAwaited, indexVars, opVars
    <3>5. ASSUME NEW t \in Tasks, Task(t) PROVE Swept(u)'
      <4>1. CASE CommitFired(t)
        BY <3>3, <4>1 DEF CommitFired, indexVars, opVars, workerVars
      <4>2. QED
        BY <3>1, <3>5, <4>1, SubmitSwept, ClickSwept DEF Task
    <3>6. CASE UNCHANGED vars
      BY <3>3, <3>6 DEF vars, indexVars, opVars, workerVars
    <3>7. ASSUME NEW w \in Workers, Worker(w) PROVE Swept(u)'
      BY <2>2, <2>3, <3>1, <3>2, <3>4, <3>7, DequeueSwept, LeaveSwept, ParkSwept
      DEF Worker, HandlerEnds, Continue
    <3>8. QED
      BY <1>2, <3>5, <3>6, <3>7 DEF Next
  <2>6. QED
    BY <2>4, <2>5 DEF GhostInv
<1>3. QED
  BY <1>1, <1>2

(* No exit path of a task leaves it in an index, whatever clicks, retries    *)
(* and resumes came before and whoever else had the task in hand.            *)
THEOREM NoGhostAlways == Spec => []NoGhost
<1>1. Init => TypeInv /\ LifeInv /\ GhostInv
  BY TypeInit, LifeInit DEF Init, TypeInv, WorkerHasOp, GhostInv, Swept
<1>2. TypeInv /\ LifeInv /\ GhostInv /\ [Next]_vars
        => TypeInv' /\ LifeInv' /\ GhostInv'
  BY TypeStep, LifeStep, GhostStep
<1>3. GhostInv => NoGhost
  BY DEF GhostInv, Swept, NoGhost, Executes, Parks, Touched
<1>4. QED
  BY <1>1, <1>2, <1>3, PTL DEF Spec

=============================================================================
