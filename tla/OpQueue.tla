------------------------------- MODULE OpQueue ------------------------------
(***************************************************************************)
(* The operation queue of core/application/queue: two pools of resident    *)
(* workers, the cooperative pause / resume / cancel of the task page, the  *)
(* retry loop, and the task ledger the transitions are written to.         *)
(*                                                                         *)
(* Everything runs on one asyncio loop, so a step of the model is the code *)
(* between two points where a coroutine really suspends.  Ledger writes go *)
(* to a thread: a write that was issued commits at any later time, and two *)
(* writes in flight commit in either order.                                *)
(***************************************************************************)
EXTENDS Ledger, Integers, Sequences, FiniteSets

CONSTANTS
  Tasks,         \* the operations that are ever submitted
  High,          \* those whose kind is in _high_priority (queue _q_hi)
  Bulk,          \* those whose kind is in BULK_KINDS
  Workers,       \* the resident workers, _slots of them
  HiWorkers,     \* those that consume _q_hi
  MaxRetries,    \* _max_retries
  BulkSlots,     \* permits of the semaphore _bulk (2 in the code)
  Lossy,         \* tasks whose ledger writes may raise (and are swallowed)
  MaxPauses,     \* bound: effective pause clicks, over all tasks
  MaxShutdowns   \* bound: calls of shutdown()

ASSUME ConstantsAssumption ==
  /\ High \subseteq Tasks /\ Bulk \subseteq Tasks /\ Lossy \subseteq Tasks
  /\ HiWorkers \subseteq Workers /\ "none" \notin Tasks
  /\ MaxRetries \in Nat /\ BulkSlots \in Nat
  /\ MaxPauses \in Nat /\ MaxShutdowns \in Nat

VARIABLES
  queue,         \* _q_hi and _q, as sequences of tasks
  pending, cancelled, running, index,   \* _pending, _cancelled, _running, _ops_by_id
  paused,        \* _paused: no entry, a None placeholder, or a held op
  opCancel, opPause, replayed, retries, \* the fields of Op
  pc, cur, awaited,   \* per worker: where it is suspended, its op, its write
  bulk,          \* value of the semaphore
  sub,           \* per task: how far its submit() call got
  shuttingDown,
  doomed,        \* workers that shutdown() cancelled and that did not end yet
  ledger, fires, lost,   \* rows; fire-and-forget writes in flight; failed writes
  ends, outcome, \* observers: terminal events pushed, and the last of them
  entered,       \* observer: tasks whose handler was entered
  stopHit,       \* observer: tasks for which cancel_task answered True
  pauseWanted,   \* observer: tasks whose last answered click was a pause
  pauses, shutdowns   \* counters of the two bounds

indexVars  == <<pending, cancelled, running, index, paused>>
opVars     == <<opCancel, opPause, replayed, retries>>
workerVars == <<pc, cur, awaited>>
ledgerVars == <<ledger, fires, lost>>
endVars    == <<ends, outcome>>
clickVars  == <<stopHit, pauseWanted, pauses>>
lifeVars   == <<shuttingDown, doomed, shutdowns>>

vars == <<queue, indexVars, opVars, workerVars, bulk, sub, ledgerVars,
          endVars, entered, clickVars, lifeVars>>

-----------------------------------------------------------------------------
(* Where a worker is suspended. *)

(* In the try block of _execute, the op being this worker's to run. *)
Working == {"acquire", "starting", "saving", "handler", "ending", "retrying",
            "backoff"}

(* "parking": the op is already a pause hold, and the worker is still in its *)
(* except branch, awaiting the "paused" write.                               *)
InExecute == Working \cup {"parking"}

HoldsPermit == InExecute \ {"acquire", "backoff"}

(* "idle": awaiting q.get(); "holding" and "closing": awaiting a write of    *)
(* _worker_loop or of _finalize_cancelled; "off": no such worker task.       *)
WorkerPc == InExecute \cup {"idle", "holding", "closing", "off"}

QueueOf(t) == IF t \in High THEN "hi" ELSE "lo"
PoolOf(w)  == IF w \in HiWorkers THEN "hi" ELSE "lo"

Enqueue(t) == queue' = [queue EXCEPT ![QueueOf(t)] = Append(@, t)]

Goto(w, label) == pc' = [pc EXCEPT ![w] = label]

(* The worker is done with its op. *)
Leave(w, label) == Goto(w, label) /\ cur' = [cur EXCEPT ![w] = "none"]

(* One awaited ledger write: the worker is suspended until it is committed. *)
Await(w, s) == awaited' = [awaited EXCEPT ![w] = s]

(* A terminal event of _push; it always comes with its _record entry. *)
Announce(t, s) ==
  /\ ends' = [ends EXCEPT ![t] = @ + 1]
  /\ outcome' = [outcome EXCEPT ![t] = s]

(* _ledger_fire: a write nobody waits for. *)
Fire(t, s) == fires' = [fires EXCEPT ![<<t, s>>] = @ + 1]

(* on_state: the upsert, or an exception that is logged and swallowed. *)
Persist(t, s) ==
  \/ /\ ledger' = [ledger EXCEPT ![t] = Upsert(@, s)]
     /\ UNCHANGED lost
  \/ /\ t \in Lossy
     /\ lost' = lost \cup {t}
     /\ UNCHANGED ledger

-----------------------------------------------------------------------------
(* Wrong forms of the operators of the next section, each a slip the code    *)
(* could have made.  Nothing uses them: a property is tried on them in turn. *)

PauseEntry_HoldsOnly(t)   == paused[t] = "held"
EntryIsOp_Placeholder(t)  == paused[t] # "no"
EndIsOwed_Always(t)       == TRUE
EndIsOwed_Never(t)        == FALSE
Hold_AfterTheWrite(t)     == UNCHANGED paused
Finally_ReleasesTwice(t, keepIndex, released) ==
  /\ IF t \in Bulk THEN bulk' = bulk + 1 ELSE UNCHANGED bulk
  /\ running' = running \ {t} /\ cancelled' = cancelled \ {t}
  /\ index' = IF keepIndex THEN index ELSE index \ {t}

Finally_DropsIndex(t, keepIndex, released) ==
  /\ IF t \in Bulk /\ ~released THEN bulk' = bulk + 1 ELSE UNCHANGED bulk
  /\ running' = running \ {t} /\ cancelled' = cancelled \ {t}
  /\ index' = index \ {t}

-----------------------------------------------------------------------------
(* Small pieces of the code that several actions share.                      *)

(* `op.cancel or op.task_id in self._cancelled` *)
Stopped(t) == t \in opCancel \/ t \in cancelled

(* `op.task_id in self._paused`: a placeholder counts as well as a hold. *)
PauseEntry(t) == paused[t] # "no"

(* `entry is not None`: the entry is an op that was dequeued or parked. *)
EntryIsOp(t) == paused[t] = "held"

(* The single-fire guard of _finalize_cancelled: no terminal event so far. *)
EndIsOwed(t) == t \in index

RetryLeft(t) == retries[t] < MaxRetries

(* M2: a handler that is going to be entered again deduplicates on this. *)
ArmReplay(t) == replayed' = replayed \cup {t}

Hold(t) == paused' = [paused EXCEPT ![t] = "held"]

ReleaseBulk(t) == IF t \in Bulk THEN bulk' = bulk + 1 ELSE UNCHANGED bulk

(* The finally block of _execute, with its two flags. *)
Finally(t, keepIndex, released) ==
  /\ IF released THEN UNCHANGED bulk ELSE ReleaseBulk(t)
  /\ running' = running \ {t}
  /\ cancelled' = cancelled \ {t}
  /\ index' = IF keepIndex THEN index ELSE index \ {t}

-----------------------------------------------------------------------------
Init ==
  /\ queue = [c \in {"hi", "lo"} |-> <<>>]
  /\ pending = {} /\ cancelled = {} /\ running = {} /\ index = {}
  /\ paused = [t \in Tasks |-> "no"]
  /\ opCancel = {} /\ opPause = {} /\ replayed = {}
  /\ retries = [t \in Tasks |-> 0]
  /\ pc = [w \in Workers |-> "off"]
  /\ cur = [w \in Workers |-> "none"]
  /\ awaited = [w \in Workers |-> "none"]
  /\ bulk = BulkSlots
  /\ sub = [t \in Tasks |-> "new"]
  /\ shuttingDown = FALSE /\ doomed = {}
  /\ ledger = [t \in Tasks |-> "absent"]
  /\ fires = [x \in Tasks \X LedgerState |-> 0]
  /\ lost = {}
  /\ ends = [t \in Tasks |-> 0]
  /\ outcome = [t \in Tasks |-> "none"]
  /\ entered = {} /\ stopHit = {} /\ pauseWanted = {}
  /\ pauses = 0 /\ shutdowns = 0

-----------------------------------------------------------------------------
(* submit(): start() refills the pools, the op is registered, the "pending"  *)
(* row is awaited, and only then is the op put on its queue.                 *)

Submit(t) ==
  /\ sub[t] = "new"
  /\ sub' = [sub EXCEPT ![t] = "writing"]
  /\ shuttingDown' = FALSE
  /\ pc' = [w \in Workers |-> IF pc[w] = "off" THEN "idle" ELSE pc[w]]
  /\ pending' = pending \cup {t}
  /\ index' = index \cup {t}
  /\ UNCHANGED <<queue, cancelled, running, paused, opVars, cur, awaited, bulk,
                 ledgerVars, endVars, entered, clickVars, doomed, shutdowns>>

SubmitWritten(t) ==
  /\ sub[t] = "writing"
  /\ sub' = [sub EXCEPT ![t] = "written"]
  /\ Persist(t, "pending")
  /\ UNCHANGED <<queue, indexVars, opVars, workerVars, bulk, fires, endVars,
                 entered, clickVars, lifeVars>>

SubmitEnqueues(t) ==
  /\ sub[t] = "written"
  /\ sub' = [sub EXCEPT ![t] = "in"]
  /\ Enqueue(t)
  /\ UNCHANGED <<indexVars, opVars, workerVars, bulk, ledgerVars, endVars,
                 entered, clickVars, lifeVars>>

-----------------------------------------------------------------------------
(* _worker_loop: one dequeue.                                                *)

Take(w, t) ==
  /\ pc[w] = "idle"
  /\ queue[PoolOf(w)] # <<>>
  /\ t = Head(queue[PoolOf(w)])
  /\ queue' = [queue EXCEPT ![PoolOf(w)] = Tail(@)]

(* A worker that wakes up during shutdown drops what it dequeued and ends. *)
DequeueDropped(w) ==
  /\ shuttingDown
  /\ \E t \in Tasks : Take(w, t)
  /\ Goto(w, "off")
  /\ doomed' = doomed \ {w}
  /\ UNCHANGED <<indexVars, opVars, cur, awaited, bulk, sub, ledgerVars,
                 endVars, entered, clickVars, shuttingDown, shutdowns>>

(* Paused while queued, then interrupted: finalized here, without _execute. *)
DequeueInterrupted(w) ==
  /\ ~shuttingDown
  /\ \E t \in Tasks :
       /\ Take(w, t)
       /\ PauseEntry(t) /\ Stopped(t)
       /\ paused' = [paused EXCEPT ![t] = "no"]
       /\ cancelled' = cancelled \ {t}
       /\ index' = index \ {t}
       /\ Announce(t, "cancelled")
       /\ cur' = [cur EXCEPT ![w] = t]
  /\ Goto(w, "closing")
  /\ Await(w, "cancelled")
  /\ UNCHANGED <<pending, running, opVars, bulk, sub, ledgerVars, entered,
                 clickVars, lifeVars>>

(* Paused while queued: the placeholder becomes a hold. *)
DequeueHeld(w) ==
  /\ ~shuttingDown
  /\ \E t \in Tasks :
       /\ Take(w, t)
       /\ PauseEntry(t) /\ ~Stopped(t)
       /\ Hold(t)
       /\ cur' = [cur EXCEPT ![w] = t]
  /\ Goto(w, "holding")
  /\ Await(w, "paused")
  /\ UNCHANGED <<pending, cancelled, running, index, opVars, bulk, sub,
                 ledgerVars, endVars, entered, clickVars, lifeVars>>

(* The two cancelled branches of _execute with _finalize_cancelled: the      *)
(* terminal state is written only while the op is still in the index.        *)
DequeueCancelled(w) ==
  /\ ~shuttingDown
  /\ \E t \in Tasks :
       /\ Take(w, t)
       /\ ~PauseEntry(t) /\ Stopped(t)
       /\ pending' = pending \ {t}
       /\ cancelled' = cancelled \ {t}
       /\ \/ /\ EndIsOwed(t)
             /\ index' = index \ {t}
             /\ Announce(t, "cancelled")
             /\ cur' = [cur EXCEPT ![w] = t]
             /\ Goto(w, "closing")
             /\ Await(w, "cancelled")
          \/ /\ ~EndIsOwed(t)
             /\ UNCHANGED <<index, workerVars, endVars>>
  /\ UNCHANGED <<running, paused, opVars, bulk, sub, ledgerVars, entered,
                 clickVars, lifeVars>>

DequeueRun(w) ==
  /\ ~shuttingDown
  /\ \E t \in Tasks :
       /\ Take(w, t)
       /\ ~PauseEntry(t) /\ ~Stopped(t)
       /\ pending' = pending \ {t}
       /\ running' = running \cup {t}
       /\ cur' = [cur EXCEPT ![w] = t]
  /\ Goto(w, "acquire")
  /\ UNCHANGED <<cancelled, index, paused, opVars, awaited, bulk, sub,
                 ledgerVars, endVars, entered, clickVars, lifeVars>>

-----------------------------------------------------------------------------
(* _execute, inside its try block.                                           *)

(* The permit (bulk kinds) or the rate limiter lets the op through. *)
Acquire(w) ==
  LET t == cur[w] IN
  /\ pc[w] = "acquire"
  /\ IF t \in Bulk THEN bulk > 0 /\ bulk' = bulk - 1 ELSE UNCHANGED bulk
  /\ \/ /\ t \in opCancel
        /\ Announce(t, "cancelled")
        /\ Goto(w, "ending")
        /\ Await(w, "cancelled")
     \/ /\ t \notin opCancel
        /\ Goto(w, "starting")
        /\ Await(w, "running")
        /\ UNCHANGED endVars
  /\ UNCHANGED <<queue, indexVars, opVars, cur, sub, ledgerVars, entered,
                 clickVars, lifeVars>>

(* A worker's continuation once the write it awaits is committed. *)
Written(w, label) == pc[w] = label /\ awaited[w] = "none"

HandlerStarts(w) ==
  /\ Written(w, "starting")
  /\ Goto(w, "handler")
  /\ entered' = entered \cup {cur[w]}
  /\ UNCHANGED <<queue, indexVars, opVars, cur, awaited, bulk, sub, ledgerVars,
                 endVars, clickVars, lifeVars>>

(* checkpoint_payload: the handler persists its payload as "running" again. *)
HandlerSaves(w) ==
  /\ pc[w] = "handler"
  /\ Goto(w, "saving")
  /\ Await(w, "running")
  /\ UNCHANGED <<queue, indexVars, opVars, cur, bulk, sub, ledgerVars, endVars,
                 entered, clickVars, lifeVars>>

HandlerSaved(w) ==
  /\ Written(w, "saving")
  /\ Goto(w, "handler")
  /\ UNCHANGED <<queue, indexVars, opVars, cur, awaited, bulk, sub, ledgerVars,
                 endVars, entered, clickVars, lifeVars>>

(* The handler returns, or pause_check raises OpCancelError.  Either way a   *)
(* cancelled op is reported cancelled.                                       *)
HandlerReturns(w) ==
  LET verdict == IF cur[w] \in opCancel THEN "cancelled" ELSE "done" IN
  /\ pc[w] = "handler"
  /\ Announce(cur[w], verdict)
  /\ Goto(w, "ending")
  /\ Await(w, verdict)
  /\ UNCHANGED <<queue, indexVars, opVars, cur, bulk, sub, ledgerVars, entered,
                 clickVars, lifeVars>>

(* pause_check raises OpPausedError: the hold is registered before the write. *)
HandlerParks(w) ==
  LET t == cur[w] IN
  /\ pc[w] = "handler"
  /\ t \notin opCancel /\ t \in opPause
  /\ Hold(t)
  /\ ArmReplay(t)
  /\ Goto(w, "parking")
  /\ Await(w, "paused")
  /\ UNCHANGED <<queue, pending, cancelled, running, index, opCancel, opPause,
                 retries, cur, bulk, sub, ledgerVars, endVars, entered,
                 clickVars, lifeVars>>

HandlerFailsRetriably(w) ==
  LET t == cur[w] IN
  /\ pc[w] = "handler"
  /\ RetryLeft(t)
  /\ retries' = [retries EXCEPT ![t] = @ + 1]
  /\ ArmReplay(t)
  /\ Goto(w, "retrying")
  /\ Await(w, "retry")
  /\ UNCHANGED <<queue, indexVars, opCancel, opPause, cur, bulk, sub,
                 ledgerVars, endVars, entered, clickVars, lifeVars>>

(* A LOCAL_ERROR at any time, or any error once the retries are used up. *)
HandlerFails(w) ==
  /\ pc[w] = "handler"
  /\ Announce(cur[w], "failed")
  /\ Goto(w, "ending")
  /\ Await(w, "failed")
  /\ UNCHANGED <<queue, indexVars, opVars, cur, bulk, sub, ledgerVars, entered,
                 clickVars, lifeVars>>

(* The retry write is committed: release the permit, sleep the backoff. *)
BackoffStarts(w) ==
  /\ Written(w, "retrying")
  /\ ReleaseBulk(cur[w])
  /\ pending' = pending \cup {cur[w]}
  /\ Goto(w, "backoff")
  /\ UNCHANGED <<queue, cancelled, running, index, paused, opVars, cur, awaited,
                 sub, ledgerVars, endVars, entered, clickVars, lifeVars>>

(* The requeue and the finally block, in one step (put never suspends). *)
BackoffEnds(w) ==
  /\ pc[w] = "backoff"
  /\ Enqueue(cur[w])
  /\ Finally(cur[w], TRUE, TRUE)
  /\ Leave(w, "idle")
  /\ UNCHANGED <<pending, paused, opVars, awaited, sub, ledgerVars, endVars,
                 entered, clickVars, lifeVars>>

(* finally after a terminal write, and after the "paused" write, where       *)
(* keep_index leaves the op in the index.                                    *)
Finish(w) ==
  /\ \/ Written(w, "ending") /\ Finally(cur[w], FALSE, FALSE)
     \/ Written(w, "parking") /\ Finally(cur[w], TRUE, FALSE)
  /\ Leave(w, "idle")
  /\ UNCHANGED <<queue, pending, paused, opVars, awaited, sub, ledgerVars,
                 endVars, entered, clickVars, lifeVars>>

(* Back to q.get() after a write of _worker_loop or _finalize_cancelled. *)
LoopAgain(w) ==
  /\ Written(w, "holding") \/ Written(w, "closing")
  /\ Leave(w, "idle")
  /\ UNCHANGED <<queue, indexVars, opVars, awaited, bulk, sub, ledgerVars,
                 endVars, entered, clickVars, lifeVars>>

-----------------------------------------------------------------------------
(* The writer threads.                                                       *)

CommitAwaited(w) ==
  /\ awaited[w] # "none"
  /\ Persist(cur[w], awaited[w])
  /\ Await(w, "none")
  /\ UNCHANGED <<queue, indexVars, opVars, pc, cur, bulk, sub, fires, endVars,
                 entered, clickVars, lifeVars>>

CommitFired(t) ==
  /\ \E s \in LedgerState :
       /\ fires[<<t, s>>] > 0
       /\ fires' = [fires EXCEPT ![<<t, s>>] = @ - 1]
       /\ Persist(t, s)
  /\ UNCHANGED <<queue, indexVars, opVars, workerVars, bulk, sub, endVars,
                 entered, clickVars, lifeVars>>

-----------------------------------------------------------------------------
(* The synchronous controls of TaskControlMixin.  A call that is answered    *)
(* "unknown", "paused" or False changes nothing and is no step of the model. *)

PauseTask(t) ==
  /\ pauses < MaxPauses
  /\ ~PauseEntry(t)
  /\ \/ /\ t \in pending
        /\ paused' = [paused EXCEPT ![t] = "slot"]
        /\ IF t \in index THEN Fire(t, "paused") ELSE UNCHANGED fires
        /\ UNCHANGED opPause
     \/ /\ t \notin pending /\ t \in running
        /\ opPause' = opPause \cup {t}
        /\ UNCHANGED <<paused, fires>>
  /\ pauses' = pauses + 1
  /\ pauseWanted' = pauseWanted \cup {t}
  /\ UNCHANGED <<queue, pending, cancelled, running, index, opCancel, replayed,
                 retries, workerVars, bulk, sub, ledger, lost, endVars, entered,
                 stopHit, lifeVars>>

(* Each disjunct one branch of resume_task: a hold is requeued, a placeholder *)
(* is dropped, a running task loses its pause flag.                           *)
ResumeTask(t) ==
  /\ \/ /\ EntryIsOp(t)
        /\ paused' = [paused EXCEPT ![t] = "no"]
        /\ opPause' = opPause \ {t}
        /\ pending' = pending \cup {t}
        /\ Enqueue(t)
        /\ Fire(t, "pending")
     \/ /\ PauseEntry(t) /\ ~EntryIsOp(t)
        /\ paused' = [paused EXCEPT ![t] = "no"]
        /\ IF t \in index /\ t \in pending THEN Fire(t, "pending")
                                           ELSE UNCHANGED fires
        /\ UNCHANGED <<opPause, pending, queue>>
     \/ /\ ~PauseEntry(t) /\ t \in running /\ t \in opPause
        /\ opPause' = opPause \ {t}
        /\ UNCHANGED <<paused, pending, queue, fires>>
  /\ pauseWanted' = pauseWanted \ {t}
  /\ UNCHANGED <<cancelled, running, index, opCancel, replayed, retries,
                 workerVars, bulk, sub, ledger, lost, endVars, entered, stopHit,
                 pauses, lifeVars>>

(* cancel_task finalizes at once what no worker is running: a hold, or a     *)
(* known op that is still pending (paused placeholder or not).               *)
FinalizedByCancel(t) ==
  \/ PauseEntry(t) /\ (EntryIsOp(t) \/ t \in index)
  \/ t \in index /\ t \in pending

CancelTask(t) ==
  /\ t \in index \/ PauseEntry(t)
  /\ paused' = [paused EXCEPT ![t] = "no"]
  /\ pending' = pending \ {t}
  /\ cancelled' = IF t \in index /\ (\/ t \in running
                                     \/ ~PauseEntry(t) /\ t \in pending)
                    THEN cancelled \cup {t} ELSE cancelled
  /\ opCancel' = IF t \in index THEN opCancel \cup {t} ELSE opCancel
  /\ IF FinalizedByCancel(t)
       THEN Announce(t, "cancelled") /\ Fire(t, "cancelled") /\ index' = index \ {t}
       ELSE UNCHANGED <<endVars, fires, index>>
  /\ stopHit' = stopHit \cup {t}
  /\ UNCHANGED <<queue, running, opPause, replayed, retries, workerVars, bulk,
                 sub, ledger, lost, entered, pauseWanted, pauses, lifeVars>>

-----------------------------------------------------------------------------
(* shutdown(): every worker is cancelled (cancel_tasks) and gets the         *)
(* CancelledError where it is suspended, be it after a submit() that started *)
(* the pools again.                                                          *)

Shutdown ==
  /\ shutdowns < MaxShutdowns
  /\ shuttingDown' = TRUE
  /\ doomed' = {w \in Workers : pc[w] # "off"}
  /\ shutdowns' = shutdowns + 1
  /\ UNCHANGED <<queue, indexVars, opVars, workerVars, bulk, sub, ledgerVars,
                 endVars, entered, clickVars>>

(* The CancelledError runs the finally block: the permit is released unless  *)
(* the backoff released it, also by a worker still waiting for one.  The     *)
(* write it awaited goes on in its thread, or never starts.  If start() has  *)
(* run since, another worker is there in its place.                          *)
WorkerCancelled(w) ==
  LET t == cur[w] IN
  /\ w \in doomed
  /\ doomed' = doomed \ {w}
  /\ Leave(w, IF shuttingDown THEN "off" ELSE "idle")
  /\ Await(w, "none")
  /\ IF pc[w] \in InExecute
       THEN Finally(t, pc[w] \in {"backoff", "parking"}, pc[w] = "backoff")
       ELSE UNCHANGED <<running, cancelled, index, bulk>>
  /\ \/ awaited[w] = "none" /\ UNCHANGED <<fires, lost>>
     \/ awaited[w] # "none" /\ Fire(t, awaited[w]) /\ UNCHANGED lost
     \/ awaited[w] # "none" /\ lost' = lost \cup {t} /\ UNCHANGED fires
  /\ UNCHANGED <<queue, pending, paused, opVars, sub, ledger, endVars,
                 entered, clickVars, shuttingDown, shutdowns>>

-----------------------------------------------------------------------------
Dequeue(w) ==
  \/ DequeueDropped(w) \/ DequeueInterrupted(w) \/ DequeueHeld(w)
  \/ DequeueCancelled(w) \/ DequeueRun(w)

HandlerEnds(w) ==
  \/ HandlerReturns(w) \/ HandlerParks(w)
  \/ HandlerFailsRetriably(w) \/ HandlerFails(w)

(* What a worker does by itself after a write, a sleep or a save. *)
Continue(w) ==
  \/ HandlerStarts(w) \/ HandlerSaved(w) \/ BackoffStarts(w) \/ BackoffEnds(w)
  \/ Finish(w) \/ LoopAgain(w)

Worker(w) ==
  \/ Dequeue(w) \/ Acquire(w) \/ HandlerSaves(w) \/ HandlerEnds(w)
  \/ Continue(w) \/ CommitAwaited(w) \/ WorkerCancelled(w)

Task(t) ==
  \/ Submit(t) \/ SubmitWritten(t) \/ SubmitEnqueues(t) \/ CommitFired(t)
  \/ PauseTask(t) \/ ResumeTask(t) \/ CancelTask(t)

Next ==
  \/ \E w \in Workers : Worker(w)
  \/ \E t \in Tasks : Task(t)
  \/ Shutdown

Spec == Init /\ [][Next]_vars

(* Fairness: the loop runs what is ready and threads commit what was issued; *)
(* a handler ends although it may save any number of times before (its loops *)
(* are finite and its calls have timeouts), and the semaphore and the        *)
(* limiter's lock serve their waiters in arrival order.  No click is fair.   *)
Fairness ==
  /\ \A w \in Workers :
       /\ WF_vars(Dequeue(w)) /\ SF_vars(Acquire(w)) /\ SF_vars(HandlerEnds(w))
       /\ WF_vars(Continue(w)) /\ WF_vars(CommitAwaited(w))
  /\ \A t \in Tasks :
       /\ WF_vars(SubmitWritten(t)) /\ WF_vars(SubmitEnqueues(t))
       /\ WF_vars(CommitFired(t))

FairSpec == Spec /\ Fairness

-----------------------------------------------------------------------------
QueueTypes ==
  /\ queue \in [{"hi", "lo"} -> Seq(Tasks)]
  /\ pending \subseteq Tasks /\ cancelled \subseteq Tasks
  /\ running \subseteq Tasks /\ index \subseteq Tasks
  /\ paused \in [Tasks -> {"no", "slot", "held"}]
  /\ sub \in [Tasks -> {"new", "writing", "written", "in"}]

OpTypes ==
  /\ opCancel \subseteq Tasks /\ opPause \subseteq Tasks
  /\ replayed \subseteq Tasks
  /\ retries \in [Tasks -> 0 .. MaxRetries]

WorkerTypes ==
  /\ pc \in [Workers -> WorkerPc]
  /\ cur \in [Workers -> Tasks \cup {"none"}]
  /\ awaited \in [Workers -> LedgerState \cup {"none"}]
  /\ bulk \in Nat

LedgerTypes ==
  /\ ledger \in [Tasks -> RowState]
  /\ fires \in [Tasks \X LedgerState -> Nat]
  /\ lost \subseteq Tasks

ObserverTypes ==
  /\ ends \in [Tasks -> Nat]
  /\ outcome \in [Tasks -> Terminal \cup {"none"}]
  /\ entered \subseteq Tasks /\ stopHit \subseteq Tasks
  /\ pauseWanted \subseteq Tasks
  /\ pauses \in 0 .. MaxPauses
  /\ shuttingDown \in BOOLEAN /\ doomed \subseteq Workers
  /\ shutdowns \in 0 .. MaxShutdowns

TypeOK == QueueTypes /\ OpTypes /\ WorkerTypes /\ LedgerTypes /\ ObserverTypes

-----------------------------------------------------------------------------
(* Where a task is.  It has at most one place at any time. *)

Queued(t)     == \E i \in 1 .. Len(queue[QueueOf(t)]) : queue[QueueOf(t)][i] = t
Runs(w, t)   == pc[w] \in Working /\ cur[w] = t
OnWorker(t)   == \E w \in Workers : Runs(w, t)
Submitting(t) == sub[t] \in {"writing", "written"}
Held(t)       == paused[t] = "held"

Somewhere(t) == Queued(t) \/ OnWorker(t) \/ Submitting(t) \/ Held(t)

(* A worker has this op in hand, be it only to await a last write. *)
Touched(t) == \E w \in Workers : cur[w] = t

(* No entry twice in a queue. *)
NoDuplicates ==
  \A c \in {"hi", "lo"} : \A i, j \in 1 .. Len(queue[c]) :
    queue[c][i] = queue[c][j] => i = j

OnePlace(t) ==
  /\ \A v, w \in Workers : Runs(v, t) /\ Runs(w, t) => v = w
  /\ Queued(t) => ~OnWorker(t) /\ ~Submitting(t) /\ ~Held(t)
  /\ OnWorker(t) => ~Submitting(t) /\ ~Held(t)
  /\ Submitting(t) => ~Held(t)

(* One run of a task at a time.  No interleaving of pause, resume, cancel,   *)
(* retry and requeue leaves the same op in two places: queued twice, queued  *)
(* while a worker runs it, run by two workers, or held while it can run.     *)
(* (execution.py: every requeue path; control.py: resume_task.)              *)
NoDoubleExecution == NoDuplicates /\ \A t \in Tasks : OnePlace(t)

(* A task ends once: done, failed and cancelled are announced to the page    *)
(* at most once in the life of a task, although eight places announce them   *)
(* (the single-fire guard of _finalize_cancelled, cancel_task's two          *)
(* write-throughs, the exits of _execute, the interrupted hold).             *)
TerminalOnce == \A t \in Tasks : ends[t] <= 1

(* No ghost: a task that is nowhere any more is in none of the indexes that  *)
(* has_pending, pause_task and cancel_task read.  (The queue's own regression *)
(* tests check this after each single exit path.)                            *)
NoGhost ==
  shutdowns = 0 =>
    \A t \in Tasks : ~Somewhere(t) /\ ~Touched(t) =>
                        t \notin index /\ t \notin running /\ t \notin cancelled

(* A task that can still run can be stopped: until its terminal event it is  *)
(* in _ops_by_id, where cancel_task and has_pending look, or it was stopped  *)
(* already and its next dequeue drops it.                                    *)
StoppableUntilTheEnd ==
  \A t \in Tasks : Somewhere(t) => t \in index \/ t \in opCancel

(* An acknowledged pause holds: while _paused has an entry, no worker runs   *)
(* the task's handler or is about to.                                        *)
PauseHolds ==
  \A t \in Tasks : paused[t] # "no" =>
    \A w \in Workers : cur[w] = t => pc[w] \notin Working \ {"backoff"}

(* Side effects are deduplicated on op.replayed: whoever enters a handler a  *)
(* second time, after a retry or after pause and resume, has it armed.       *)
ReplayArmed ==
  \A w \in Workers : pc[w] = "starting" /\ cur[w] \in entered
                        => cur[w] \in replayed

(* The permits of _bulk are neither lost nor multiplied by retries, pauses   *)
(* and cancels: each is free or held by one worker inside _execute.  (After  *)
(* a shutdown it is not so: a worker cancelled while it waits for a permit   *)
(* releases one it never had.)                                               *)
PermitHolders == {w \in Workers : pc[w] \in HoldsPermit /\ cur[w] \in Bulk}

PermitsConserved ==
  shutdowns = 0 => bulk + Cardinality(PermitHolders) = BulkSlots

(* The ledger converges: when no write of an ended task is in flight and     *)
(* none failed, its row is the announced terminal state, in whatever order   *)
(* the racing writes were committed.                                         *)
InFlight(t) ==
  \/ \E s \in LedgerState : fires[<<t, s>>] > 0
  \/ \E w \in Workers : cur[w] = t /\ awaited[w] # "none"
  \/ sub[t] = "writing"

LedgerConverges ==
  \A t \in Tasks : outcome[t] # "none" /\ ~InFlight(t) /\ t \notin lost
                      => ledger[t] = outcome[t]

(* A row that says done, failed or cancelled says it for good. *)
LedgerFinal ==
  [][\A t \in Tasks : ledger[t] \in Terminal => ledger'[t] = ledger[t]]_vars

Settled(t) == outcome[t] # "none" /\ (ledger[t] = outcome[t] \/ t \in lost)

(* Every submitted task ends and is recorded (or a write of its row failed,  *)
(* which is only logged), unless the user holds it: the                      *)
(* queue loses no task to a retry, a resume, a missed wake-up or a           *)
(* combination of clicks.                                                    *)
EventuallyEnds ==
  \A t \in Tasks : sub[t] # "new" ~> Settled(t) \/ paused[t] # "no"

(* A task the user stopped ends, whatever is clicked afterwards: no pause    *)
(* hold keeps a stopped task.                                                *)
StopConverges == \A t \in Tasks : t \in stopHit ~> Settled(t)

-----------------------------------------------------------------------------
(* The life cycle of TaskLife, read off the queue's state. *)

LifeStatus(t) ==
  IF outcome[t] # "none" THEN "over"
  ELSE IF sub[t] = "new" THEN "new"
  ELSE IF paused[t] # "no" THEN "paused"
  ELSE IF \E w \in Workers : Runs(w, t) /\ pc[w] # "backoff" THEN "active"
  ELSE "waiting"

Life == INSTANCE TaskLife WITH
          status  <- [t \in Tasks |-> LifeStatus(t)],
          verdict <- outcome,
          record  <- [t \in Tasks |->
                       IF ledger[t] \in Terminal THEN ledger[t] ELSE "none"]

(* The queue, its races included, implements the life cycle. *)
ImplementsLife == Life!Spec

-----------------------------------------------------------------------------
(* What comments and tests of the code say, and the code does not keep.      *)

(* execution.py: a task stopped by the user is not reported "done" next to   *)
(* an "interrupted" response.                                                *)
StopIsReported ==
  \A t \in Tasks : t \in stopHit => outcome[t] \in {"none", "cancelled"}

(* control.py: a resume click is not lost, so a task that was answered       *)
(* "resumed" does not park again without another pause.                      *)
ResumeIsKept == \A t \in Tasks : Held(t) => t \in pauseWanted

=============================================================================
