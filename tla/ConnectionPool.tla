--------------------------- MODULE ConnectionPool ---------------------------
(***************************************************************************)
(* The pool of SQLite connections, and the operations that swap the        *)
(* database file under it.                                                 *)
(*                                                                         *)
(* A store call is submitted on the event loop, to the manager that is     *)
(* current then, and runs in a thread (_run).  restore(), a rebuild and    *)
(* close() are coroutines of the event loop; they close a manager, drain   *)
(* it, replace the file in a thread and install a new manager.  Threads    *)
(* interleave at any point; coroutines only where they await.              *)
(*                                                                         *)
(* A connection is not told from another: pool and created count them.     *)
(***************************************************************************)
EXTENDS Integers, FiniteSets

CONSTANTS
  Calls,       \* store calls, each made once
  Hung,        \* the calls whose statement may never end
  Restores,    \* calls of IntegrityMixin.restore
  Rebuilds,    \* calls of SqliteMetaStore.reset_and_rebuild
  Closers,     \* calls of SqliteMetaStore.close at teardown
  Cancellable, \* the swaps whose caller may be cancelled while it waits
  First,       \* the manager the store starts with
  PoolSize,    \* connections of one manager
  Threads      \* threads of the loop's default executor

Swaps   == Restores \cup Rebuilds
Coros   == Swaps \cup Closers
Managers == {First} \cup Swaps \* a swap gives its name to the manager it installs

(* The default executor has at least five threads and the pool is of four. *)
ASSUME PoolAssumption ==
  /\ IsFiniteSet(Calls) /\ Hung \subseteq Calls
  /\ Restores \cap Rebuilds = {} /\ Closers \cap Swaps = {}
  /\ First \notin Coros /\ Cancellable \subseteq Swaps
  /\ "none" \notin Calls
  /\ PoolSize \in Nat \ {0} /\ Threads \in Nat \ {0}

VARIABLES
  pc,       \* where each call is
  mgr,      \* the manager of a submitted call
  pool,     \* idle connections of a manager
  created,  \* its _created
  closed,   \* its _closed
  inflight, \* its _inflight
  idle,     \* its _idle event
  lock,     \* the call that is in _connect() under its _lock, or "none"
  at,       \* where each coroutine is
  target,   \* the manager a coroutine closes
  drained,  \* what drain() answered it
  thread,   \* the job of a swap that a thread is in: "drain", "copy" or "none"
  cur       \* SharedState.conn

callVars == <<pc, mgr>>
mgrVars  == <<pool, created, closed, inflight, idle, lock>>
coroVars == <<at, target, drained, thread>>
vars == <<callVars, mgrVars, coroVars, cur>>

CallStages == {"new", "queued", "enter", "counted", "checked", "empty", "connecting",
               "waiting", "run", "release", "put", "leave", "done"}
CoroStages == {"new", "closing", "drain queued", "draining", "copy queued", "copying",
               "installing", "done"}

(* A call is in flight from the moment it is counted until it is uncounted. *)
InFlight == {"counted", "checked", "empty", "connecting", "waiting", "run", "release",
             "put", "leave"}
(* It has a connection of its own. *)
Holding  == {"run", "release", "put"}

InFlightOn(m) == {c \in Calls : mgr[c] = m /\ pc[c] \in InFlight}
HoldersOn(m)  == {c \in Calls : mgr[c] = m /\ pc[c] \in Holding}

OnThread == {c \in Calls : pc[c] \notin {"new", "queued", "done"}}
              \cup {r \in Coros : thread[r] # "none"}
FreeThread == Cardinality(OnThread) < Threads

(* close() suspends nowhere, and drain() starts in the same breath. *)
LoopFree == \A r \in Coros : at[r] # "closing"

Init ==
  /\ pc = [c \in Calls |-> "new"]
  /\ mgr = [c \in Calls |-> First]
  /\ pool = [m \in Managers |-> 0]
  /\ created = [m \in Managers |-> 0]
  /\ closed = [m \in Managers |-> FALSE]
  /\ inflight = [m \in Managers |-> 0]
  /\ idle = [m \in Managers |-> TRUE]
  /\ lock = [m \in Managers |-> "none"]
  /\ at = [r \in Coros |-> "new"]
  /\ target = [r \in Coros |-> First]
  /\ drained = [r \in Coros |-> FALSE]
  /\ thread = [r \in Coros |-> "none"]
  /\ cur = First

Moves(c, from, to) == pc[c] = from /\ pc' = [pc EXCEPT ![c] = to]
Steps(r, from, to) == at[r] = from /\ at' = [at EXCEPT ![r] = to]

-----------------------------------------------------------------------------
(* Wrong forms of actions below, each a slip the code could have made or once
   made.                                                                     *)

CheckClosed_Forgotten(c) ==
  /\ Moves(c, "counted", "checked")
  /\ UNCHANGED <<mgr, mgrVars, coroVars, cur>>

ConnectFails_KeepsSlot(c) ==
  /\ Moves(c, "connecting", "leave")
  /\ lock' = [lock EXCEPT ![mgr[c]] = "none"]
  /\ UNCHANGED <<mgr, pool, created, closed, inflight, idle, coroVars, cur>>

GetTimesOut_Never(c) == FALSE /\ UNCHANGED vars

AfterCancel_DrainOutsideTry(r) ==
  IF at[r] \in {"drain queued", "draining"} THEN "done" ELSE "installing"

-----------------------------------------------------------------------------
(* A call.                                                                   *)

(* execute(): the manager is looked up now, the thread runs later. *)
Submit(c) ==
  /\ LoopFree
  /\ Moves(c, "new", "queued")
  /\ mgr' = [mgr EXCEPT ![c] = cur]
  /\ UNCHANGED <<mgrVars, coroVars, cur>>

StartThread(c) ==
  /\ FreeThread
  /\ Moves(c, "queued", "enter")
  /\ UNCHANGED <<mgr, mgrVars, coroVars, cur>>

(* _run counts the call before it looks for a connection. *)
Count(c) == LET m == mgr[c] IN
  /\ lock[m] = "none"
  /\ Moves(c, "enter", "counted")
  /\ inflight' = [inflight EXCEPT ![m] = @ + 1]
  /\ idle' = [idle EXCEPT ![m] = FALSE]
  /\ UNCHANGED <<mgr, pool, created, closed, lock, coroVars, cur>>

(* _acquire refuses on a closed manager. *)
CheckClosed(c) ==
  /\ Moves(c, "counted", IF closed[mgr[c]] THEN "leave" ELSE "checked")
  /\ UNCHANGED <<mgr, mgrVars, coroVars, cur>>

GetNowait(c) == LET m == mgr[c] IN
  /\ Moves(c, "checked", IF pool[m] > 0 THEN "run" ELSE "empty")
  /\ pool' = [pool EXCEPT ![m] = IF @ > 0 THEN @ - 1 ELSE @]
  /\ UNCHANGED <<mgr, created, closed, inflight, idle, lock, coroVars, cur>>

(* A slot is reserved under the lock, which is kept until _connect() ends. *)
Reserve(c) == LET m == mgr[c] IN
  /\ lock[m] = "none"
  /\ \/ /\ created[m] < PoolSize
        /\ Moves(c, "empty", "connecting")
        /\ created' = [created EXCEPT ![m] = @ + 1]
        /\ lock' = [lock EXCEPT ![m] = c]
     \/ /\ created[m] >= PoolSize
        /\ Moves(c, "empty", "waiting")
        /\ UNCHANGED <<created, lock>>
  /\ UNCHANGED <<mgr, pool, closed, inflight, idle, coroVars, cur>>

ConnectOk(c) ==
  /\ Moves(c, "connecting", "run")
  /\ lock' = [lock EXCEPT ![mgr[c]] = "none"]
  /\ UNCHANGED <<mgr, pool, created, closed, inflight, idle, coroVars, cur>>

(* The slot of a failed connect is given back. *)
ConnectFails(c) == LET m == mgr[c] IN
  /\ Moves(c, "connecting", "leave")
  /\ created' = [created EXCEPT ![m] = @ - 1]
  /\ lock' = [lock EXCEPT ![m] = "none"]
  /\ UNCHANGED <<mgr, pool, closed, inflight, idle, coroVars, cur>>

(* get(timeout=30) *)
GetWaiting(c) == LET m == mgr[c] IN
  /\ pool[m] > 0
  /\ Moves(c, "waiting", "run")
  /\ pool' = [pool EXCEPT ![m] = @ - 1]
  /\ UNCHANGED <<mgr, created, closed, inflight, idle, lock, coroVars, cur>>

GetTimesOut(c) ==
  /\ pool[mgr[c]] = 0
  /\ Moves(c, "waiting", "leave")
  /\ UNCHANGED <<mgr, mgrVars, coroVars, cur>>

(* fn returned or raised; what it left open is rolled back. *)
StatementEnds(c) ==
  /\ Moves(c, "run", "release")
  /\ UNCHANGED <<mgr, mgrVars, coroVars, cur>>

(* _closed is read, and only afterwards acted upon. *)
Release(c) ==
  /\ Moves(c, "release", IF closed[mgr[c]] THEN "leave" ELSE "put")
  /\ UNCHANGED <<mgr, mgrVars, coroVars, cur>>

PutBack(c) ==
  /\ Moves(c, "put", "leave")
  /\ pool' = [pool EXCEPT ![mgr[c]] = @ + 1]
  /\ UNCHANGED <<mgr, created, closed, inflight, idle, lock, coroVars, cur>>

Leave(c) == LET m == mgr[c] IN
  /\ lock[m] = "none"
  /\ Moves(c, "leave", "done")
  /\ inflight' = [inflight EXCEPT ![m] = @ - 1]
  /\ idle' = [idle EXCEPT ![m] = IF inflight[m] = 1 THEN TRUE ELSE @]
  /\ UNCHANGED <<mgr, pool, created, closed, lock, coroVars, cur>>

-----------------------------------------------------------------------------
(* Closing, and the swaps.                                                   *)

(* close() raises the flag.  A second rebuild waits for _rebuild_lock. *)
Close(r) ==
  /\ LoopFree
  /\ r \in Rebuilds => \A o \in Rebuilds : at[o] \in {"new", "done"}
  /\ Steps(r, "new", "closing")
  /\ target' = [target EXCEPT ![r] = cur]
  /\ closed' = [closed EXCEPT ![cur] = TRUE]
  /\ UNCHANGED <<callVars, pool, created, inflight, idle, lock, drained, thread, cur>>

(* It closes the idle connections one by one. *)
CloseConnection(r) == LET m == target[r] IN
  /\ at[r] = "closing" /\ pool[m] > 0
  /\ pool' = [pool EXCEPT ![m] = @ - 1]
  /\ UNCHANGED <<callVars, created, closed, inflight, idle, lock, coroVars, cur>>

(* A swap goes on with drain(), which answers at once if nothing is in flight. *)
Closed(r) == LET m == target[r] IN
  /\ pool[m] = 0
  /\ IF r \in Closers THEN Steps(r, "closing", "done") /\ UNCHANGED drained
     ELSE /\ Steps(r, "closing", IF inflight[m] = 0 THEN "copy queued" ELSE "drain queued")
          /\ drained' = [drained EXCEPT ![r] = inflight[m] = 0]
  /\ UNCHANGED <<callVars, mgrVars, target, thread, cur>>

Job(r, from, to) == thread[r] = from /\ thread' = [thread EXCEPT ![r] = to]

DrainStarts(r) ==
  /\ FreeThread
  /\ Steps(r, "drain queued", "draining")
  /\ Job(r, "none", "drain")
  /\ UNCHANGED <<callVars, mgrVars, target, drained, cur>>

(* _idle.wait(timeout) returns the event, or FALSE after five seconds. *)
DrainEnds(r) ==
  /\ Job(r, "drain", "none")
  /\ \/ /\ Steps(r, "draining", "copy queued")
        /\ drained' = [drained EXCEPT ![r] = idle[target[r]]]
     \/ at[r] # "draining" /\ UNCHANGED <<at, drained>>
  /\ UNCHANGED <<callVars, mgrVars, target, cur>>

(* The answer of drain() is not looked at. *)
CopyStarts(r) ==
  /\ FreeThread
  /\ Steps(r, "copy queued", "copying")
  /\ Job(r, "none", "copy")
  /\ UNCHANGED <<callVars, mgrVars, target, drained, cur>>

(* The copy or the rebuild succeeds or fails. *)
CopyEnds(r) ==
  /\ Job(r, "copy", "none")
  /\ \/ Steps(r, "copying", "installing")
     \/ at[r] # "copying" /\ UNCHANGED at
  /\ UNCHANGED <<callVars, mgrVars, target, drained, cur>>

(* Where a swap goes when its caller is cancelled.  A rebuild closes and drains
   inside the try, a restore before it.                                      *)
AfterCancel(r) ==
  IF r \in Restores /\ at[r] \in {"drain queued", "draining"} THEN "done" ELSE "installing"

(* A job that no thread has begun is withdrawn; one that has begun goes on. *)
Cancel(r) ==
  /\ r \in Cancellable
  /\ at[r] \in {"drain queued", "draining", "copy queued", "copying"}
  /\ at' = [at EXCEPT ![r] = AfterCancel(r)]
  /\ UNCHANGED <<callVars, mgrVars, target, drained, thread, cur>>

(* finally: a new manager, also after a failure. *)
Install(r) ==
  /\ LoopFree
  /\ Steps(r, "installing", "done")
  /\ cur' = r
  /\ UNCHANGED <<callVars, mgrVars, target, drained, thread>>

-----------------------------------------------------------------------------
CallStep(c) ==
  \/ StartThread(c) \/ Count(c) \/ CheckClosed(c) \/ GetNowait(c) \/ Reserve(c)
  \/ ConnectOk(c) \/ ConnectFails(c) \/ GetWaiting(c) \/ GetTimesOut(c)
  \/ StatementEnds(c) \/ Release(c) \/ PutBack(c) \/ Leave(c)

CoroStep(r) ==
  \/ CloseConnection(r) \/ Closed(r) \/ DrainStarts(r) \/ DrainEnds(r)
  \/ CopyStarts(r) \/ CopyEnds(r) \/ Install(r)

Next ==
  \/ \E c \in Calls : Submit(c) \/ CallStep(c)
  \/ \E r \in Coros : Close(r) \/ CoroStep(r) \/ Cancel(r)

Spec == Init /\ [][Next]_vars

(* Threads and the loop run; statements end, except for the hung ones.  Nobody
   has to make a call or to ask for a swap.                                  *)
Fairness ==
  /\ \A c \in Calls \ Hung : WF_vars(CallStep(c))
  /\ \A c \in Hung : WF_vars(CallStep(c) /\ pc[c] # "run")
  /\ \A r \in Coros : WF_vars(CoroStep(r))
FairSpec == Spec /\ Fairness

-----------------------------------------------------------------------------
TypeOK ==
  /\ pc \in [Calls -> CallStages] /\ mgr \in [Calls -> Managers]
  /\ pool \in [Managers -> Nat] /\ created \in [Managers -> Nat]
  /\ closed \in [Managers -> BOOLEAN]
  /\ inflight \in [Managers -> Nat] /\ idle \in [Managers -> BOOLEAN]
  /\ lock \in [Managers -> Calls \cup {"none"}]
  /\ at \in [Coros -> CoroStages] /\ target \in [Coros -> Managers]
  /\ drained \in [Coros -> BOOLEAN]
  /\ thread \in [Coros -> {"none", "drain", "copy"}]
  /\ cur \in Managers

(* While a file is replaced after a successful drain, no call of the pool that
   was closed for it runs a statement: a call is counted before it looks at
   _closed, and drain() looks at the count after the flag is up.             *)
SwapIsQuiet ==
  \A r \in Swaps : thread[r] = "copy" /\ drained[r]
     => \A c \in Calls : mgr[c] = target[r] => pc[c] \notin {"connecting", "run"}

(* A call waits for a connection only while all of them exist: the slot of a
   failed connect is back before anyone can look at _created, and as long as
   the pool is open every connection is idle or in a call's hands.           *)
WaitsForBusyPool ==
  \A c \in Calls : pc[c] = "waiting" /\ ~closed[mgr[c]]
     => pool[mgr[c]] + Cardinality(HoldersOn(mgr[c])) = PoolSize

(* The store is closed only while a swap is under way that will install a new
   manager, or after the teardown: a failed, refused or cancelled swap does not
   leave it closed.                                                          *)
StoreUsable ==
  closed[cur] => \/ \E r \in Swaps : at[r] \notin {"new", "done"}
                 \/ \E r \in Closers : at[r] # "new"

(* restore() retires the connections first "so no connection keeps stale page
   cache / WAL state across the restore": no open manager has connections to a
   file that is being replaced.                                              *)
NoHandleAcrossSwap ==
  \A r \in Swaps : thread[r] = "copy" => \A m \in Managers : ~closed[m] => created[m] = 0

(* Every call returns, also one that waits on a pool that was closed or whose
   connections hang; every swap ends, although a statement hangs.  Each call
   and each swap is made once, so this is that the store comes to rest.      *)
ComesToRest ==
  <>[](/\ \A c \in Calls \ Hung : pc[c] \in {"new", "done"}
       /\ \A r \in Coros : at[r] \in {"new", "done"} /\ thread[r] = "none")
=============================================================================
