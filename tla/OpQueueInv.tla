----------------------------- MODULE OpQueueInv -----------------------------
(***************************************************************************)
(* The inductive invariant behind the safety properties of OpQueue: why a  *)
(* task is in one place, ends once, and is recorded as it ended.           *)
(***************************************************************************)
EXTENDS OpQueue

-----------------------------------------------------------------------------
(* Where a worker is suspended inside a task's code, it has that task, and   *)
(* only at the labels of a write does it await one.                          *)
AwaitsWrite == {"starting", "saving", "ending", "retrying", "parking",
                "holding", "closing"}

WorkerHasOp ==
  \A w \in Workers :
    /\ pc[w] \notin {"idle", "off"} => cur[w] \in Tasks
    /\ awaited[w] # "none" => pc[w] \in AwaitsWrite

TypeInv == TypeOK /\ WorkerHasOp

-----------------------------------------------------------------------------
(* A task that was not submitted has left no trace. *)
Untouched(t) ==
  /\ t \notin pending /\ t \notin index /\ paused[t] = "no"
  /\ ends[t] = 0
  /\ ~Queued(t)
  /\ \A w \in Workers : cur[w] # t

FreshIsUntouched == \A t \in Tasks : sub[t] = "new" => Untouched(t)

QueueSorted ==
  \A c \in {"hi", "lo"} : \A i \in 1 .. Len(queue[c]) : QueueOf(queue[c][i]) = c

(* A placeholder belongs to a pending task, a hold to an indexed one, and a  *)
(* pending task that can still run is indexed.                               *)
PauseIsLive ==
  \A t \in Tasks :
    /\ paused[t] = "slot" => t \in pending
    /\ paused[t] = "held" => t \in index
    /\ t \in pending /\ Somewhere(t) => t \in index

(* From the moment a worker starts a task to its last write or its backoff. *)
Active == Working \ {"backoff", "ending"}

(* What no control may touch while a worker runs the task. *)
RunnerIsAlone ==
  \A w \in Workers : \A t \in Tasks :
    /\ Runs(w, t) /\ pc[w] # "backoff" => t \notin pending /\ paused[t] = "no"
    /\ Runs(w, t) /\ pc[w] \in Active => t \in index

(* An ended task is out of the index, but for the time of its last write. *)
IndexedIsLive ==
  \A t \in Tasks : t \in index /\ ends[t] # 0 =>
    \E w \in Workers : Runs(w, t) /\ pc[w] = "ending"

LifeInv ==
  /\ FreshIsUntouched /\ QueueSorted /\ NoDoubleExecution /\ PauseIsLive
  /\ RunnerIsAlone /\ IndexedIsLive /\ StoppableUntilTheEnd /\ TerminalOnce

-----------------------------------------------------------------------------
(* The write of state s for task t is on its way. *)
Flying(t, s) ==
  \/ fires[<<t, s>>] > 0
  \/ \E w \in Workers : cur[w] = t /\ awaited[w] = s

(* Rows and writes in flight never claim an end other than the announced     *)
(* one, and an announced end is in the row, on its way to it, or lost.       *)
RecordInv ==
  \A t \in Tasks :
    /\ ends[t] = 0 <=> outcome[t] = "none"
    /\ \A s \in Terminal : Flying(t, s) => outcome[t] = s
    /\ ledger[t] \in Terminal => ledger[t] = outcome[t]
    /\ outcome[t] # "none" /\ t \notin lost =>
         ledger[t] = outcome[t] \/ Flying(t, outcome[t])

-----------------------------------------------------------------------------
(* A task that entered its handler and is not armed is still inside, or it   *)
(* is over: no place from which it could reach the handler again has it.     *)
Spent(t) ==
  /\ sub[t] = "in" /\ ~Queued(t) /\ ~Held(t)
  /\ \A w \in Workers : Runs(w, t) => pc[w] \in {"handler", "saving", "ending"}

ArmedInv == \A t \in entered \ replayed : Spent(t)

-----------------------------------------------------------------------------
(* The worker with a task in _execute, and one in its last write of a hold.  *)
Executes(t) == \E w \in Workers : cur[w] = t /\ pc[w] \in InExecute
Parks(t)    == \E w \in Workers : cur[w] = t /\ pc[w] = "parking"

(* What an index says of a task, somebody will clean up: the worker that has *)
(* it, or the next one to dequeue it.  A stop mark is on no hold, from which *)
(* it would never be removed.                                                *)
Swept(t) ==
  /\ t \in index => Somewhere(t)
  /\ t \in running => Executes(t)
  /\ t \in cancelled => Somewhere(t) \/ Parks(t)
  /\ t \in cancelled => t \in opCancel /\ ~Held(t)

GhostInv ==
  shutdowns = 0 =>
    ~shuttingDown /\ doomed = {} /\ \A t \in Tasks : Swept(t)

=============================================================================
