----------------------------- MODULE TaskControl ----------------------------
(***************************************************************************)
(* Tasks across restarts: the start-up reconciliation of the ledger, undo, *)
(* and the resubmission of pending rows.  Each of these reads the ledger,  *)
(* suspends, and then acts on what it read, while the queue goes on.       *)
(*                                                                         *)
(* The queue is the coarse one of TaskLife here, a stage per task, with    *)
(* the ledger writes of its transitions, awaited by the worker (write) or  *)
(* fired (fires).  OpQueue has it in detail.                               *)
(***************************************************************************)
EXTENDS Ledger, FiniteSets, Integers

CONSTANTS
  Ids,        \* task ids, one per call of submit()
  Jobs,       \* what a task is to do: its kind, target and payload
  Resumable,  \* the jobs whose kind is in LEDGER_BREAKPOINT_KINDS
  Callers,    \* web requests under way at the same time
  MaxCrashes, \* bound: crashes of the process
  MaxUndos    \* bound: undo requests

ASSUME TaskControlAssumption ==
  /\ Resumable \subseteq Jobs
  /\ "none" \notin Jobs \cup Ids
  /\ MaxCrashes \in Nat /\ MaxUndos \in Nat

VARIABLES
  job,      \* the job of each id, "none" until it is submitted
  ledger,   \* op_ledger
  stage,    \* what the queue knows of a task; "gone": not in _ops_by_id
  stopped,  \* running tasks that were interrupted (op.cancel)
  write,    \* per task: the state its worker awaits to be committed
  fires,    \* writes nobody waits for
  gone,     \* jobs whose inputs no longer exist
  call,     \* the web requests
  up,       \* the process runs and is initialized
  finished, \* observer: tasks whose handler returned and that ended "done"
  undone,   \* observer: tasks for which an undo has answered, since the start
  crashes, undos

taskVars  == <<job, stage, stopped, write, fires>>
otherVars == <<gone, up, crashes, undos>>
controlVars == <<ledger, taskVars, call, finished, undone, otherVars>>

Idle == [at |-> "idle"]

-----------------------------------------------------------------------------
(* Wrong forms of definitions below, each a slip the code could have made.   *)

ReconciledState_ForgetsRetry(row, j) ==
  IF row \in {"running", "paused"}
    THEN IF j \in Resumable THEN "pending" ELSE "failed"
    ELSE IF row = "pending" /\ j \notin Resumable THEN "failed" ELSE row

ReconciledState_KeepsPending(row, j) ==
  IF row \in {"running", "paused", "retry"}
    THEN IF j \in Resumable THEN "pending" ELSE "failed"
    ELSE row

Interrupted_KeepsRow(id) == UNCHANGED fires

-----------------------------------------------------------------------------
ControlInit ==
  /\ job = [id \in Ids |-> "none"]
  /\ ledger = [id \in Ids |-> "absent"]
  /\ stage = [id \in Ids |-> "gone"]
  /\ stopped = {} /\ fires = {} /\ gone = {}
  /\ write = [id \in Ids |-> "none"]
  /\ call = [c \in Callers |-> Idle]
  /\ up = TRUE
  /\ finished = {} /\ undone = {}
  /\ crashes = 0 /\ undos = 0

Put(id, s) == ledger' = [ledger EXCEPT ![id] = Upsert(@, s)]

(* `op is not None` in cancel_task: the id is in _ops_by_id. *)
InLiveQueue(id) == stage[id] # "gone"

-----------------------------------------------------------------------------
(* The queue.  A worker moves a task on only when its last write is done.    *)

Moves(id, from, to, s) ==
  /\ up /\ stage[id] = from /\ write[id] = "none"
  /\ stage' = [stage EXCEPT ![id] = to]
  /\ write' = [write EXCEPT ![id] = s]
  /\ UNCHANGED <<ledger, job, fires, call, undone, otherVars>>

(* submit() of a new id: indexed, and not runnable before the pending write. *)
Enter(id, j) ==
  /\ job[id] = "none"
  /\ job' = [job EXCEPT ![id] = j]
  /\ stage' = [stage EXCEPT ![id] = "queued"]
  /\ write' = [write EXCEPT ![id] = "pending"]
  /\ UNCHANGED <<stopped, fires>>

Submit(id, j) ==
  /\ up /\ j \notin gone
  /\ Enter(id, j)
  /\ UNCHANGED <<ledger, call, finished, undone, otherVars>>

Starts(id) ==
  Moves(id, "queued", "running", "running") /\ UNCHANGED <<stopped, finished>>

Retries(id) ==
  Moves(id, "running", "queued", "retry") /\ UNCHANGED <<stopped, finished>>

(* An interrupted task ends cancelled, unless its handler fails for good. *)
Ends(id, s) ==
  /\ Moves(id, "running", "ending", s)
  /\ s = "done" => id \notin stopped
  /\ s = "cancelled" => id \in stopped
  /\ finished' = IF s = "done" THEN finished \cup {id} ELSE finished
  /\ UNCHANGED stopped

(* After the last write the worker takes the task out of the index. *)
Leaves(id) ==
  /\ Moves(id, "ending", "gone", "none")
  /\ stopped' = stopped \ {id}
  /\ UNCHANGED finished

(* At a checkpoint of the handler. *)
Parks(id) ==
  /\ id \notin stopped
  /\ Moves(id, "running", "held", "paused")
  /\ UNCHANGED <<stopped, finished>>

Resumes(id) ==
  /\ up /\ stage[id] = "held"
  /\ stage' = [stage EXCEPT ![id] = "queued"]
  /\ fires' = fires \cup {<<id, "pending">>}
  /\ UNCHANGED <<ledger, job, stopped, write, call, finished, undone, otherVars>>

Commit(id) ==
  /\ \/ /\ write[id] # "none"
        /\ Put(id, write[id])
        /\ write' = [write EXCEPT ![id] = "none"]
        /\ UNCHANGED fires
     \/ \E s \in LedgerState :
          /\ <<id, s>> \in fires
          /\ Put(id, s)
          /\ fires' = fires \ {<<id, s>>}
          /\ UNCHANGED write
  /\ UNCHANGED <<job, stage, stopped, call, finished, undone, otherVars>>

(* The row an interrupt of a task that no worker runs leaves behind. *)
Interrupted(id) == fires' = fires \cup {<<id, "cancelled">>}

(* interrupt_task answered True: what waits or is held ends here. *)
Interrupt(id) ==
  \/ /\ stage[id] \in {"queued", "held"}
     /\ stage' = [stage EXCEPT ![id] = "gone"]
     /\ Interrupted(id)
     /\ UNCHANGED stopped
  \/ /\ stage[id] \in {"running", "ending"}
     /\ stopped' = stopped \cup {id}
     /\ UNCHANGED <<stage, fires>>

-----------------------------------------------------------------------------
(* undo(): the row is read, and what follows goes by the state it had.       *)

UndoReads(c, id) ==
  /\ up /\ undos < MaxUndos
  /\ call[c] = Idle
  /\ ledger[id] # "absent"
  /\ call' = [call EXCEPT ![c] = [at |-> "undo", id |-> id, seen |-> ledger[id]]]
  /\ undos' = undos + 1
  /\ UNCHANGED <<ledger, taskVars, finished, undone, gone, up, crashes>>

(* failed, cancelled and done answer at once (done submits a compensation,   *)
(* which is another task); a task of the live queue is interrupted; any      *)
(* other row is taken for a stale one and is going to be marked failed.      *)
UndoActs(c) ==
  LET id == call[c].id IN
  /\ up /\ call[c].at = "undo"
  /\ \/ /\ call[c].seen \in Terminal
        /\ call' = [call EXCEPT ![c] = Idle]
        /\ UNCHANGED <<taskVars, undone>>
     \/ /\ call[c].seen \notin Terminal /\ InLiveQueue(id)
        /\ Interrupt(id)
        /\ call' = [call EXCEPT ![c] = Idle]
        /\ undone' = undone \cup {id}
        /\ UNCHANGED <<job, write>>
     \/ /\ call[c].seen \notin Terminal /\ ~InLiveQueue(id)
        /\ call' = [call EXCEPT ![c] = [at |-> "marks", id |-> id]]
        /\ UNCHANGED <<taskVars, undone>>
  /\ UNCHANGED <<ledger, finished, otherVars>>

UndoMarks(c) ==
  LET id == call[c].id IN
  /\ up /\ call[c].at = "marks"
  /\ Put(id, "failed")
  /\ call' = [call EXCEPT ![c] = Idle]
  /\ undone' = undone \cup {id}
  /\ UNCHANGED <<taskVars, finished, otherVars>>

-----------------------------------------------------------------------------
(* resume_pending: the pending rows are read page by page (as one read), and *)
(* each is checked and submitted under a new id, or marked failed.  The      *)
(* request waits for each of its writes; here it may be ahead of them.       *)

ResumeReads(c) ==
  LET rows == {id \in Ids : ledger[id] = "pending" /\ job[id] \in Resumable} IN
  /\ up /\ call[c] = Idle /\ rows # {}
  /\ call' = [call EXCEPT ![c] = [at |-> "resume", rows |-> rows]]
  /\ UNCHANGED <<ledger, taskVars, finished, undone, otherVars>>

(* The row is out of the way of this request. *)
NextRow(c, id) ==
  call' = [call EXCEPT ![c] = IF @.rows = {id} THEN Idle
                              ELSE [at |-> "resume", rows |-> @.rows \ {id}]]

ResumeRow(c) ==
  /\ up /\ call[c].at = "resume"
  /\ \E id \in call[c].rows :
       /\ NextRow(c, id)
       /\ \/ /\ job[id] \in gone
             /\ fires' = fires \cup {<<id, "failed">>}
             /\ UNCHANGED <<job, stage, stopped, write>>
          \/ /\ job[id] \notin gone
             /\ \E new \in Ids : Enter(new, job[id])
          \/ /\ job[id] \notin gone
             /\ \A new \in Ids : job[new] # "none"
             /\ UNCHANGED taskVars
  /\ UNCHANGED <<ledger, finished, undone, otherVars>>

(* The inputs of a job go away: the file was moved, the staged copy deleted, *)
(* the resource converted (by the task itself, when it is done).             *)
InputsVanish(j) ==
  /\ j \notin gone
  /\ gone' = gone \cup {j}
  /\ UNCHANGED <<ledger, taskVars, call, finished, undone, up, crashes, undos>>

-----------------------------------------------------------------------------
(* The process dies: rows stay, everything else is forgotten.                *)

Crash ==
  /\ up /\ crashes < MaxCrashes
  /\ up' = FALSE
  /\ crashes' = crashes + 1
  /\ stage' = [id \in Ids |-> "gone"]
  /\ write' = [id \in Ids |-> "none"]
  /\ stopped' = {} /\ fires' = {} /\ undone' = {}
  /\ call' = [c \in Callers |-> Idle]
  /\ UNCHANGED <<ledger, job, gone, finished, undos>>

(* The two UPDATEs of ledger_reconcile, for one row. *)
ReconciledState(row, j) ==
  IF row \in {"running", "paused", "retry"}
    THEN IF j \in Resumable THEN "pending" ELSE "failed"
    ELSE IF row = "pending" /\ j \notin Resumable THEN "failed" ELSE row

(* init(): the ledger is reconciled before the queue starts. *)
Boot ==
  /\ ~up
  /\ up' = TRUE
  /\ ledger' = [id \in Ids |-> ReconciledState(ledger[id], job[id])]
  /\ UNCHANGED <<taskVars, call, finished, undone, gone, crashes, undos>>

-----------------------------------------------------------------------------
Work(id) ==
  \/ Starts(id) \/ Leaves(id) \/ Commit(id)
  \/ \E s \in Terminal : Ends(id, s)

Request(c) == UndoActs(c) \/ UndoMarks(c) \/ ResumeRow(c)

ControlNext ==
  \/ \E id \in Ids :
       \/ Work(id) \/ Retries(id) \/ Parks(id) \/ Resumes(id)
       \/ \E j \in Jobs : Submit(id, j)
       \/ \E c \in Callers : UndoReads(c, id)
  \/ \E c \in Callers : Request(c) \/ ResumeReads(c)
  \/ \E j \in Jobs : InputsVanish(j)
  \/ Crash \/ Boot

ControlSpec == ControlInit /\ [][ControlNext]_controlVars

(* Writes are committed, requests go on, and a handler ends sooner or later; *)
(* whether a process that died is started again is not ours to say.          *)
Fairness ==
  /\ \A id \in Ids :
       /\ WF_controlVars(Starts(id)) /\ WF_controlVars(Leaves(id)) /\ WF_controlVars(Commit(id))
       /\ SF_controlVars(\E s \in Terminal : Ends(id, s))
  /\ \A c \in Callers : WF_controlVars(Request(c))

ControlFairSpec == ControlSpec /\ Fairness

-----------------------------------------------------------------------------
Call ==
  {Idle}
  \cup [at : {"undo"}, id : Ids, seen : LedgerState]
  \cup [at : {"marks"}, id : Ids]
  \cup [at : {"resume"}, rows : SUBSET Ids]

ControlTypeOK ==
  /\ job \in [Ids -> Jobs \cup {"none"}]
  /\ ledger \in [Ids -> RowState]
  /\ stage \in [Ids -> {"gone", "queued", "running", "ending", "held"}]
  /\ write \in [Ids -> LedgerState \cup {"none"}]
  /\ stopped \subseteq Ids /\ fires \subseteq Ids \X LedgerState
  /\ gone \subseteq Jobs
  /\ call \in [Callers -> Call]
  /\ up \in BOOLEAN
  /\ finished \subseteq Ids /\ undone \subseteq Ids
  /\ crashes \in 0 .. MaxCrashes /\ undos \in 0 .. MaxUndos

InFlight(id) == write[id] # "none" \/ \E s \in LedgerState : <<id, s>> \in fires

(* A row of the task page that says running, paused or retry belongs to a    *)
(* task of this process, or is about to change: no restart leaves a task     *)
(* that never ends.  (ledger_reconcile, before queue.start in init.)         *)
LiveRows ==
  up => \A id \in Ids : ledger[id] \in {"running", "paused", "retry"}
                          => InLiveQueue(id) \/ InFlight(id)

(* A pending row without a task is one the page can resume.                  *)
PendingIsResumable ==
  up => \A id \in Ids : ledger[id] = "pending" /\ ~InLiveQueue(id) /\ ~InFlight(id)
                          => job[id] \in Resumable

(* An undo that was answered is not taken back by a racing write: the row    *)
(* ends, although the undo goes by a state it read before (no zombie rows,   *)
(* task_control.py:155).                                                     *)
UndoConverges ==
  \A id \in Ids : id \in undone ~> ledger[id] \in Terminal \/ id \notin undone

(* A cancelled row stays cancelled, whatever undo, resume-pending or the     *)
(* reconciliation write on the strength of an older read.                    *)
CancelledIsFinal ==
  [][\A id \in Ids : ledger[id] = "cancelled" => ledger'[id] = "cancelled"]_controlVars

(* task_control.py: a row that undo marks failed is a stale one, of a run    *)
(* that crashed without a terminal write.  So no task that finished, and     *)
(* whose writes are all done, has such a row.                                *)
FailedIsUnfinished ==
  \A id \in Ids : ledger[id] = "failed" /\ ~InLiveQueue(id) /\ ~InFlight(id)
                     => id \notin finished

(* The interface contract: resume-pending removes duplicates, what is in the *)
(* queue already is not put there again.                                     *)
NoSecondCopy ==
  [][\A c \in Callers, id \in Ids :
       ResumeRow(c) /\ job[id] = "none" /\ job'[id] # "none"
         => \A other \in Ids : InLiveQueue(other) => job[other] # job'[id]]_controlVars

=============================================================================
