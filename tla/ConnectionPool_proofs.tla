------------------------ MODULE ConnectionPool_proofs -----------------------
(***************************************************************************)
(* Theorems about ConnectionPool, for any finite set of calls, any number  *)
(* of swaps, connections and threads.                                      *)
(***************************************************************************)
EXTENDS ConnectionPool, FiniteSetTheorems, TLAPS

(* Past the look at _closed, and not back yet. *)
Past == {"checked", "empty", "connecting", "waiting", "run", "release", "put"}

(* _inflight counts the calls in flight, and _idle says that there is none. *)
CountIsExact ==
  \A m \in Managers : /\ inflight[m] = Cardinality(InFlightOn(m))
                      /\ idle[m] <=> inflight[m] = 0

(* A coroutine that has begun has closed its target. *)
TargetIsClosed == \A r \in Coros : at[r] # "new" => closed[target[r]]

(* After a successful drain no call gets past the look at _closed any more. *)
DrainedIsEmpty ==
  \A r \in Coros : drained[r]
     => at[r] # "new" /\ \A c \in Calls : mgr[c] = target[r] => pc[c] \notin Past

(* The lock is held exactly by the call that connects, in a slot it has reserved. *)
LockIsHeld ==
  /\ \A m \in Managers, c \in Calls : lock[m] = c <=> mgr[c] = m /\ pc[c] = "connecting"
  /\ \A m \in Managers : lock[m] # "none" => created[m] > 0

Connecting(m) == IF lock[m] = "none" THEN 0 ELSE 1

(* In an open pool every slot is an idle connection, one in a call's hands, or
   a connect under way; a call that waits has found all slots taken.         *)
SlotsOf(m) ==
  /\ created[m] = pool[m] + Cardinality(HoldersOn(m)) + Connecting(m)
  /\ created[m] <= PoolSize
  /\ \A c \in Calls : mgr[c] = m /\ pc[c] = "waiting" => created[m] = PoolSize /\ lock[m] =
       "none"
SlotsAreConserved == \A m \in Managers : ~closed[m] => SlotsOf(m)

(* A manager is closed only after it was installed. *)
FreshIsOpen ==
  /\ \A r \in Swaps : closed[r] => at[r] = "done"
  /\ cur \in Swaps => at[cur] = "done"

(* A teardown does nothing but close. *)
ClosersOnlyClose == \A r \in Closers : at[r] \in {"new", "closing", "done"}

PoolInv ==
  /\ TypeOK
  /\ ClosersOnlyClose
  /\ CountIsExact
  /\ TargetIsClosed
  /\ DrainedIsEmpty
  /\ LockIsHeld
  /\ SlotsAreConserved
  /\ FreshIsOpen
(* The counter is positive while a call is in flight. *)
LEMMA InFlightCounted ==
  ASSUME PoolInv, NEW c \in Calls, pc[c] \in InFlight
  PROVE  inflight[mgr[c]] > 0
<1> DEFINE S == InFlightOn(mgr[c])
<1>1. IsFiniteSet(S)
  BY PoolAssumption, FS_Subset DEF InFlightOn
<1>2. c \in S BY DEF InFlightOn
<1>3. Cardinality(S) \in Nat /\ Cardinality(S) # 0
  BY <1>1, <1>2, FS_CardinalityType, FS_EmptySet
<1>4. mgr[c] \in Managers /\ inflight[mgr[c]] = Cardinality(S)
  BY DEF PoolInv, TypeOK, CountIsExact
<1> QED BY <1>3, <1>4

(* Types: the two counters that go down are positive when they do. *)
LEMMA TypeStep == ASSUME PoolInv, Next PROVE TypeOK'
<1>1. ASSUME NEW c \in Calls, Submit(c) PROVE TypeOK'
  BY <1>1, PoolAssumption DEF Submit, Moves, Steps, Job, PoolInv, TypeOK, callVars,
       mgrVars, coroVars, CallStages, CoroStages
<1>2. ASSUME NEW c \in Calls, StartThread(c) PROVE TypeOK'
  BY <1>2, PoolAssumption DEF StartThread, Moves, Steps, Job, PoolInv, TypeOK, callVars,
       mgrVars, coroVars, CallStages, CoroStages
<1>3. ASSUME NEW c \in Calls, Count(c) PROVE TypeOK'
  <2>1. c \in Calls /\ mgr[c] \in Managers BY <1>3 DEF PoolInv, TypeOK
  <2>2. /\ pool[mgr[c]] \in Nat /\ created[mgr[c]] \in Nat /\ inflight[mgr[c]] \in Nat
        /\ idle[mgr[c]] \in BOOLEAN /\ closed[mgr[c]] \in BOOLEAN
    BY <2>1 DEF PoolInv, TypeOK
  <2>3. pc' \in [Calls -> CallStages]
    BY <1>3, <2>1 DEF PoolInv, TypeOK, Count, Moves, CallStages
  <2>4. /\ pool' \in [Managers -> Nat] /\ created' \in [Managers -> Nat]
        /\ inflight' \in [Managers -> Nat] /\ idle' \in [Managers -> BOOLEAN]
        /\ lock' \in [Managers -> Calls \cup {"none"}]
    BY <1>3, <2>1, <2>2 DEF PoolInv, TypeOK, Count
  <2> QED BY <1>3, <2>3, <2>4 DEF PoolInv, TypeOK, Count, coroVars
<1>4. ASSUME NEW c \in Calls, CheckClosed(c) PROVE TypeOK'
  BY <1>4, PoolAssumption DEF CheckClosed, Moves, Steps, Job, PoolInv, TypeOK, callVars,
       mgrVars, coroVars, CallStages, CoroStages
<1>5. ASSUME NEW c \in Calls, GetNowait(c) PROVE TypeOK'
  <2>1. c \in Calls /\ mgr[c] \in Managers BY <1>5 DEF PoolInv, TypeOK
  <2>2. /\ pool[mgr[c]] \in Nat /\ created[mgr[c]] \in Nat /\ inflight[mgr[c]] \in Nat
        /\ idle[mgr[c]] \in BOOLEAN /\ closed[mgr[c]] \in BOOLEAN
    BY <2>1 DEF PoolInv, TypeOK
  <2>3. pc' \in [Calls -> CallStages]
    BY <1>5, <2>1 DEF PoolInv, TypeOK, GetNowait, Moves, CallStages
  <2>4. /\ pool' \in [Managers -> Nat] /\ created' \in [Managers -> Nat]
        /\ inflight' \in [Managers -> Nat] /\ idle' \in [Managers -> BOOLEAN]
        /\ lock' \in [Managers -> Calls \cup {"none"}]
    BY <1>5, <2>1, <2>2 DEF PoolInv, TypeOK, GetNowait
  <2> QED BY <1>5, <2>3, <2>4 DEF PoolInv, TypeOK, GetNowait, coroVars
<1>6. ASSUME NEW c \in Calls, Reserve(c) PROVE TypeOK'
  <2>1. c \in Calls /\ mgr[c] \in Managers BY <1>6 DEF PoolInv, TypeOK
  <2>2. /\ pool[mgr[c]] \in Nat /\ created[mgr[c]] \in Nat /\ inflight[mgr[c]] \in Nat
        /\ idle[mgr[c]] \in BOOLEAN /\ closed[mgr[c]] \in BOOLEAN
    BY <2>1 DEF PoolInv, TypeOK
  <2>3. pc' \in [Calls -> CallStages]
    BY <1>6, <2>1 DEF PoolInv, TypeOK, Reserve, Moves, CallStages
  <2>4. /\ pool' \in [Managers -> Nat] /\ created' \in [Managers -> Nat]
        /\ inflight' \in [Managers -> Nat] /\ idle' \in [Managers -> BOOLEAN]
        /\ lock' \in [Managers -> Calls \cup {"none"}]
    BY <1>6, <2>1, <2>2 DEF PoolInv, TypeOK, Reserve
  <2> QED BY <1>6, <2>3, <2>4 DEF PoolInv, TypeOK, Reserve, coroVars
<1>7. ASSUME NEW c \in Calls, ConnectOk(c) PROVE TypeOK'
  BY <1>7, PoolAssumption DEF ConnectOk, Moves, Steps, Job, PoolInv, TypeOK, callVars,
       mgrVars, coroVars, CallStages, CoroStages
<1>8. ASSUME NEW c \in Calls, ConnectFails(c) PROVE TypeOK'
  <2>1. c \in Calls /\ mgr[c] \in Managers BY <1>8 DEF PoolInv, TypeOK
  <2>2. /\ pool[mgr[c]] \in Nat /\ created[mgr[c]] \in Nat /\ inflight[mgr[c]] \in Nat
        /\ idle[mgr[c]] \in BOOLEAN /\ closed[mgr[c]] \in BOOLEAN
    BY <2>1 DEF PoolInv, TypeOK
  <2>5. created[mgr[c]] > 0
    BY <1>8, <2>1, PoolAssumption DEF PoolInv, TypeOK, LockIsHeld, ConnectFails, Moves
  <2>3. pc' \in [Calls -> CallStages]
    BY <1>8, <2>1 DEF PoolInv, TypeOK, ConnectFails, Moves, CallStages
  <2>4. /\ pool' \in [Managers -> Nat] /\ created' \in [Managers -> Nat]
        /\ inflight' \in [Managers -> Nat] /\ idle' \in [Managers -> BOOLEAN]
        /\ lock' \in [Managers -> Calls \cup {"none"}]
    BY <1>8, <2>1, <2>2, <2>5 DEF PoolInv, TypeOK, ConnectFails
  <2> QED BY <1>8, <2>3, <2>4 DEF PoolInv, TypeOK, ConnectFails, coroVars
<1>9. ASSUME NEW c \in Calls, GetWaiting(c) PROVE TypeOK'
  <2>1. c \in Calls /\ mgr[c] \in Managers BY <1>9 DEF PoolInv, TypeOK
  <2>2. /\ pool[mgr[c]] \in Nat /\ created[mgr[c]] \in Nat /\ inflight[mgr[c]] \in Nat
        /\ idle[mgr[c]] \in BOOLEAN /\ closed[mgr[c]] \in BOOLEAN
    BY <2>1 DEF PoolInv, TypeOK
  <2>3. pc' \in [Calls -> CallStages]
    BY <1>9, <2>1 DEF PoolInv, TypeOK, GetWaiting, Moves, CallStages
  <2>4. /\ pool' \in [Managers -> Nat] /\ created' \in [Managers -> Nat]
        /\ inflight' \in [Managers -> Nat] /\ idle' \in [Managers -> BOOLEAN]
        /\ lock' \in [Managers -> Calls \cup {"none"}]
    BY <1>9, <2>1, <2>2 DEF PoolInv, TypeOK, GetWaiting
  <2> QED BY <1>9, <2>3, <2>4 DEF PoolInv, TypeOK, GetWaiting, coroVars
<1>10. ASSUME NEW c \in Calls, GetTimesOut(c) PROVE TypeOK'
  BY <1>10, PoolAssumption DEF GetTimesOut, Moves, Steps, Job, PoolInv, TypeOK, callVars,
       mgrVars, coroVars, CallStages, CoroStages
<1>11. ASSUME NEW c \in Calls, StatementEnds(c) PROVE TypeOK'
  BY <1>11, PoolAssumption DEF StatementEnds, Moves, Steps, Job, PoolInv, TypeOK, callVars,
       mgrVars, coroVars, CallStages, CoroStages
<1>12. ASSUME NEW c \in Calls, Release(c) PROVE TypeOK'
  BY <1>12, PoolAssumption DEF Release, Moves, Steps, Job, PoolInv, TypeOK, callVars,
       mgrVars, coroVars, CallStages, CoroStages
<1>13. ASSUME NEW c \in Calls, PutBack(c) PROVE TypeOK'
  <2>1. c \in Calls /\ mgr[c] \in Managers BY <1>13 DEF PoolInv, TypeOK
  <2>2. /\ pool[mgr[c]] \in Nat /\ created[mgr[c]] \in Nat /\ inflight[mgr[c]] \in Nat
        /\ idle[mgr[c]] \in BOOLEAN /\ closed[mgr[c]] \in BOOLEAN
    BY <2>1 DEF PoolInv, TypeOK
  <2>3. pc' \in [Calls -> CallStages]
    BY <1>13, <2>1 DEF PoolInv, TypeOK, PutBack, Moves, CallStages
  <2>4. /\ pool' \in [Managers -> Nat] /\ created' \in [Managers -> Nat]
        /\ inflight' \in [Managers -> Nat] /\ idle' \in [Managers -> BOOLEAN]
        /\ lock' \in [Managers -> Calls \cup {"none"}]
    BY <1>13, <2>1, <2>2 DEF PoolInv, TypeOK, PutBack
  <2> QED BY <1>13, <2>3, <2>4 DEF PoolInv, TypeOK, PutBack, coroVars
<1>14. ASSUME NEW c \in Calls, Leave(c) PROVE TypeOK'
  <2>1. c \in Calls /\ mgr[c] \in Managers BY <1>14 DEF PoolInv, TypeOK
  <2>2. /\ pool[mgr[c]] \in Nat /\ created[mgr[c]] \in Nat /\ inflight[mgr[c]] \in Nat
        /\ idle[mgr[c]] \in BOOLEAN /\ closed[mgr[c]] \in BOOLEAN
    BY <2>1 DEF PoolInv, TypeOK
  <2>3. pc' \in [Calls -> CallStages]
    BY <1>14, <2>1 DEF PoolInv, TypeOK, Leave, Moves, CallStages
  <2>4. inflight' \in [Managers -> Nat]
    <3>1. inflight[mgr[c]] > 0
      BY <1>14, <2>1, InFlightCounted DEF Leave, Moves, InFlight
    <3> QED BY <1>14, <2>1, <2>2, <3>1 DEF PoolInv, TypeOK, Leave
  <2>5. idle' \in [Managers -> BOOLEAN]
    <3>1. CASE inflight[mgr[c]] = 1
      BY <1>14, <3>1 DEF PoolInv, TypeOK, Leave
    <3>2. CASE inflight[mgr[c]] # 1
      BY <1>14, <2>2, <3>2 DEF PoolInv, TypeOK, Leave
    <3> QED BY <3>1, <3>2
  <2> QED BY <1>14, <2>3, <2>4, <2>5 DEF PoolInv, TypeOK, Leave, coroVars
<1>15. ASSUME NEW r \in Coros, Close(r) PROVE TypeOK'
  BY <1>15, PoolAssumption DEF Close, Moves, Steps, Job, PoolInv, TypeOK, callVars,
       mgrVars, coroVars, CallStages, CoroStages
<1>16. ASSUME NEW r \in Coros, CloseConnection(r) PROVE TypeOK'
  <2>1. target[r] \in Managers /\ pool[target[r]] \in Nat
    BY <1>16 DEF PoolInv, TypeOK
  <2>2. pool' \in [Managers -> Nat]
    BY <1>16, <2>1 DEF PoolInv, TypeOK, CloseConnection
  <2> QED BY <1>16, <2>2 DEF PoolInv, TypeOK, CloseConnection, callVars, mgrVars, coroVars
<1>17. ASSUME NEW r \in Coros, Closed(r) PROVE TypeOK'
  <2>1. target[r] \in Managers /\ (inflight[target[r]] = 0) \in BOOLEAN
    BY <1>17 DEF PoolInv, TypeOK
  <2>2. at' \in [Coros -> CoroStages]
    <3>1. CASE r \in Closers
      BY <1>17, <3>1 DEF PoolInv, TypeOK, Closed, Steps, CoroStages
    <3>2. CASE r \notin Closers
      <4>1. \E to \in CoroStages : at' = [at EXCEPT ![r] = to]
        BY <1>17, <3>2 DEF Closed, Steps, CoroStages
      <4> QED BY <4>1 DEF PoolInv, TypeOK
    <3> QED BY <3>1, <3>2
  <2>3. drained' \in [Coros -> BOOLEAN]
    BY <1>17, <2>1 DEF PoolInv, TypeOK, Closed
  <2> QED BY <1>17, <2>2, <2>3 DEF PoolInv, TypeOK, Closed, callVars, mgrVars, coroVars
<1>18. ASSUME NEW r \in Coros, DrainStarts(r) PROVE TypeOK'
  BY <1>18, PoolAssumption DEF DrainStarts, Moves, Steps, Job, PoolInv, TypeOK, callVars,
       mgrVars, coroVars, CallStages, CoroStages
<1>19. ASSUME NEW r \in Coros, DrainEnds(r) PROVE TypeOK'
  <2>1. idle[target[r]] \in BOOLEAN
    BY <1>19 DEF PoolInv, TypeOK
  <2>2. at' \in [Coros -> CoroStages]
    BY <1>19 DEF PoolInv, TypeOK, DrainEnds, Steps, CoroStages
  <2>3. drained' \in [Coros -> BOOLEAN]
    BY <1>19, <2>1 DEF PoolInv, TypeOK, DrainEnds
  <2>4. thread' \in [Coros -> {"none", "drain", "copy"}]
    BY <1>19 DEF PoolInv, TypeOK, DrainEnds, Job
  <2> QED BY <1>19, <2>2, <2>3, <2>4 DEF PoolInv, TypeOK, DrainEnds, callVars, mgrVars, coroVars
<1>20. ASSUME NEW r \in Coros, CopyStarts(r) PROVE TypeOK'
  BY <1>20, PoolAssumption DEF CopyStarts, Moves, Steps, Job, PoolInv, TypeOK, callVars,
       mgrVars, coroVars, CallStages, CoroStages
<1>21. ASSUME NEW r \in Coros, CopyEnds(r) PROVE TypeOK'
  BY <1>21, PoolAssumption DEF CopyEnds, Moves, Steps, Job, PoolInv, TypeOK, callVars,
       mgrVars, coroVars, CallStages, CoroStages
<1>22. ASSUME NEW r \in Coros, Install(r) PROVE TypeOK'
  <2>1. r \in Swaps
    BY <1>22 DEF PoolInv, ClosersOnlyClose, Install, Steps, Coros
  <2> QED BY <1>22, <2>1 DEF PoolInv, TypeOK, Install, Steps, CoroStages, Managers,
       callVars, mgrVars, coroVars
<1>23. ASSUME NEW r \in Coros, Cancel(r) PROVE TypeOK'
  <2>1. AfterCancel(r) \in CoroStages BY DEF AfterCancel, CoroStages
  <2> QED BY <1>23, <2>1 DEF PoolInv, TypeOK, Cancel, callVars, mgrVars, coroVars
<1> QED BY <1>1, <1>2, <1>3, <1>4, <1>5, <1>6, <1>7, <1>8, <1>9, <1>10, <1>11, <1>12,
     <1>13, <1>14, <1>15, <1>16, <1>17, <1>18, <1>19, <1>20, <1>21, <1>22, <1>23 DEF Next,
     CallStep, CoroStep

(* A teardown only closes. *)
LEMMA ClosersStep == ASSUME PoolInv, Next PROVE ClosersOnlyClose'
<1>1. ASSUME NEW c \in Calls, Submit(c) PROVE ClosersOnlyClose'
  BY <1>1, PoolAssumption DEF Submit, Moves, Steps, Job, PoolInv, TypeOK, ClosersOnlyClose,
       callVars, mgrVars, coroVars, AfterCancel, Coros, Swaps
<1>2. ASSUME NEW c \in Calls, StartThread(c) PROVE ClosersOnlyClose'
  BY <1>2, PoolAssumption DEF StartThread, Moves, Steps, Job, PoolInv, TypeOK,
       ClosersOnlyClose, callVars, mgrVars, coroVars, AfterCancel, Coros, Swaps
<1>3. ASSUME NEW c \in Calls, Count(c) PROVE ClosersOnlyClose'
  BY <1>3, PoolAssumption DEF Count, Moves, Steps, Job, PoolInv, TypeOK, ClosersOnlyClose,
       callVars, mgrVars, coroVars, AfterCancel, Coros, Swaps
<1>4. ASSUME NEW c \in Calls, CheckClosed(c) PROVE ClosersOnlyClose'
  BY <1>4, PoolAssumption DEF CheckClosed, Moves, Steps, Job, PoolInv, TypeOK,
       ClosersOnlyClose, callVars, mgrVars, coroVars, AfterCancel, Coros, Swaps
<1>5. ASSUME NEW c \in Calls, GetNowait(c) PROVE ClosersOnlyClose'
  BY <1>5, PoolAssumption DEF GetNowait, Moves, Steps, Job, PoolInv, TypeOK,
       ClosersOnlyClose, callVars, mgrVars, coroVars, AfterCancel, Coros, Swaps
<1>6. ASSUME NEW c \in Calls, Reserve(c) PROVE ClosersOnlyClose'
  BY <1>6, PoolAssumption DEF Reserve, Moves, Steps, Job, PoolInv, TypeOK,
       ClosersOnlyClose, callVars, mgrVars, coroVars, AfterCancel, Coros, Swaps
<1>7. ASSUME NEW c \in Calls, ConnectOk(c) PROVE ClosersOnlyClose'
  BY <1>7, PoolAssumption DEF ConnectOk, Moves, Steps, Job, PoolInv, TypeOK,
       ClosersOnlyClose, callVars, mgrVars, coroVars, AfterCancel, Coros, Swaps
<1>8. ASSUME NEW c \in Calls, ConnectFails(c) PROVE ClosersOnlyClose'
  BY <1>8, PoolAssumption DEF ConnectFails, Moves, Steps, Job, PoolInv, TypeOK,
       ClosersOnlyClose, callVars, mgrVars, coroVars, AfterCancel, Coros, Swaps
<1>9. ASSUME NEW c \in Calls, GetWaiting(c) PROVE ClosersOnlyClose'
  BY <1>9, PoolAssumption DEF GetWaiting, Moves, Steps, Job, PoolInv, TypeOK,
       ClosersOnlyClose, callVars, mgrVars, coroVars, AfterCancel, Coros, Swaps
<1>10. ASSUME NEW c \in Calls, GetTimesOut(c) PROVE ClosersOnlyClose'
  BY <1>10, PoolAssumption DEF GetTimesOut, Moves, Steps, Job, PoolInv, TypeOK,
       ClosersOnlyClose, callVars, mgrVars, coroVars, AfterCancel, Coros, Swaps
<1>11. ASSUME NEW c \in Calls, StatementEnds(c) PROVE ClosersOnlyClose'
  BY <1>11, PoolAssumption DEF StatementEnds, Moves, Steps, Job, PoolInv, TypeOK,
       ClosersOnlyClose, callVars, mgrVars, coroVars, AfterCancel, Coros, Swaps
<1>12. ASSUME NEW c \in Calls, Release(c) PROVE ClosersOnlyClose'
  BY <1>12, PoolAssumption DEF Release, Moves, Steps, Job, PoolInv, TypeOK,
       ClosersOnlyClose, callVars, mgrVars, coroVars, AfterCancel, Coros, Swaps
<1>13. ASSUME NEW c \in Calls, PutBack(c) PROVE ClosersOnlyClose'
  BY <1>13, PoolAssumption DEF PutBack, Moves, Steps, Job, PoolInv, TypeOK,
       ClosersOnlyClose, callVars, mgrVars, coroVars, AfterCancel, Coros, Swaps
<1>14. ASSUME NEW c \in Calls, Leave(c) PROVE ClosersOnlyClose'
  BY <1>14, PoolAssumption DEF Leave, Moves, Steps, Job, PoolInv, TypeOK, ClosersOnlyClose,
       callVars, mgrVars, coroVars, AfterCancel, Coros, Swaps
<1>15. ASSUME NEW r \in Coros, Close(r) PROVE ClosersOnlyClose'
  BY <1>15, PoolAssumption DEF Close, Moves, Steps, Job, PoolInv, TypeOK, ClosersOnlyClose,
       callVars, mgrVars, coroVars, AfterCancel, Coros, Swaps
<1>16. ASSUME NEW r \in Coros, CloseConnection(r) PROVE ClosersOnlyClose'
  BY <1>16, PoolAssumption DEF CloseConnection, Moves, Steps, Job, PoolInv, TypeOK,
       ClosersOnlyClose, callVars, mgrVars, coroVars, AfterCancel, Coros, Swaps
<1>17. ASSUME NEW r \in Coros, Closed(r) PROVE ClosersOnlyClose'
  BY <1>17, PoolAssumption DEF Closed, Moves, Steps, Job, PoolInv, TypeOK,
       ClosersOnlyClose, callVars, mgrVars, coroVars, AfterCancel, Coros, Swaps
<1>18. ASSUME NEW r \in Coros, DrainStarts(r) PROVE ClosersOnlyClose'
  BY <1>18, PoolAssumption DEF DrainStarts, Moves, Steps, Job, PoolInv, TypeOK,
       ClosersOnlyClose, callVars, mgrVars, coroVars, AfterCancel, Coros, Swaps
<1>19. ASSUME NEW r \in Coros, DrainEnds(r) PROVE ClosersOnlyClose'
  BY <1>19, PoolAssumption DEF DrainEnds, Moves, Steps, Job, PoolInv, TypeOK,
       ClosersOnlyClose, callVars, mgrVars, coroVars, AfterCancel, Coros, Swaps
<1>20. ASSUME NEW r \in Coros, CopyStarts(r) PROVE ClosersOnlyClose'
  BY <1>20, PoolAssumption DEF CopyStarts, Moves, Steps, Job, PoolInv, TypeOK,
       ClosersOnlyClose, callVars, mgrVars, coroVars, AfterCancel, Coros, Swaps
<1>21. ASSUME NEW r \in Coros, CopyEnds(r) PROVE ClosersOnlyClose'
  BY <1>21, PoolAssumption DEF CopyEnds, Moves, Steps, Job, PoolInv, TypeOK,
       ClosersOnlyClose, callVars, mgrVars, coroVars, AfterCancel, Coros, Swaps
<1>22. ASSUME NEW r \in Coros, Install(r) PROVE ClosersOnlyClose'
  BY <1>22, PoolAssumption DEF Install, Moves, Steps, Job, PoolInv, TypeOK,
       ClosersOnlyClose, callVars, mgrVars, coroVars, AfterCancel, Coros, Swaps
<1>23. ASSUME NEW r \in Coros, Cancel(r) PROVE ClosersOnlyClose'
  BY <1>23, PoolAssumption DEF Cancel, Moves, Steps, Job, PoolInv, TypeOK,
       ClosersOnlyClose, callVars, mgrVars, coroVars, AfterCancel, Coros, Swaps
<1> QED BY <1>1, <1>2, <1>3, <1>4, <1>5, <1>6, <1>7, <1>8, <1>9, <1>10, <1>11, <1>12,
     <1>13, <1>14, <1>15, <1>16, <1>17, <1>18, <1>19, <1>20, <1>21, <1>22, <1>23 DEF Next,
     CallStep, CoroStep

(* No flag is ever lowered. *)
LEMMA TargetStep == ASSUME PoolInv, Next PROVE TargetIsClosed'
<1>1. ASSUME NEW c \in Calls, Submit(c) PROVE TargetIsClosed'
  BY <1>1, PoolAssumption DEF Submit, Moves, Steps, Job, PoolInv, TypeOK, TargetIsClosed,
       callVars, mgrVars, coroVars
<1>2. ASSUME NEW c \in Calls, StartThread(c) PROVE TargetIsClosed'
  BY <1>2, PoolAssumption DEF StartThread, Moves, Steps, Job, PoolInv, TypeOK,
       TargetIsClosed, callVars, mgrVars, coroVars
<1>3. ASSUME NEW c \in Calls, Count(c) PROVE TargetIsClosed'
  BY <1>3, PoolAssumption DEF Count, Moves, Steps, Job, PoolInv, TypeOK, TargetIsClosed,
       callVars, mgrVars, coroVars
<1>4. ASSUME NEW c \in Calls, CheckClosed(c) PROVE TargetIsClosed'
  BY <1>4, PoolAssumption DEF CheckClosed, Moves, Steps, Job, PoolInv, TypeOK,
       TargetIsClosed, callVars, mgrVars, coroVars
<1>5. ASSUME NEW c \in Calls, GetNowait(c) PROVE TargetIsClosed'
  BY <1>5, PoolAssumption DEF GetNowait, Moves, Steps, Job, PoolInv, TypeOK,
       TargetIsClosed, callVars, mgrVars, coroVars
<1>6. ASSUME NEW c \in Calls, Reserve(c) PROVE TargetIsClosed'
  BY <1>6, PoolAssumption DEF Reserve, Moves, Steps, Job, PoolInv, TypeOK, TargetIsClosed,
       callVars, mgrVars, coroVars
<1>7. ASSUME NEW c \in Calls, ConnectOk(c) PROVE TargetIsClosed'
  BY <1>7, PoolAssumption DEF ConnectOk, Moves, Steps, Job, PoolInv, TypeOK,
       TargetIsClosed, callVars, mgrVars, coroVars
<1>8. ASSUME NEW c \in Calls, ConnectFails(c) PROVE TargetIsClosed'
  BY <1>8, PoolAssumption DEF ConnectFails, Moves, Steps, Job, PoolInv, TypeOK,
       TargetIsClosed, callVars, mgrVars, coroVars
<1>9. ASSUME NEW c \in Calls, GetWaiting(c) PROVE TargetIsClosed'
  BY <1>9, PoolAssumption DEF GetWaiting, Moves, Steps, Job, PoolInv, TypeOK,
       TargetIsClosed, callVars, mgrVars, coroVars
<1>10. ASSUME NEW c \in Calls, GetTimesOut(c) PROVE TargetIsClosed'
  BY <1>10, PoolAssumption DEF GetTimesOut, Moves, Steps, Job, PoolInv, TypeOK,
       TargetIsClosed, callVars, mgrVars, coroVars
<1>11. ASSUME NEW c \in Calls, StatementEnds(c) PROVE TargetIsClosed'
  BY <1>11, PoolAssumption DEF StatementEnds, Moves, Steps, Job, PoolInv, TypeOK,
       TargetIsClosed, callVars, mgrVars, coroVars
<1>12. ASSUME NEW c \in Calls, Release(c) PROVE TargetIsClosed'
  BY <1>12, PoolAssumption DEF Release, Moves, Steps, Job, PoolInv, TypeOK, TargetIsClosed,
       callVars, mgrVars, coroVars
<1>13. ASSUME NEW c \in Calls, PutBack(c) PROVE TargetIsClosed'
  BY <1>13, PoolAssumption DEF PutBack, Moves, Steps, Job, PoolInv, TypeOK, TargetIsClosed,
       callVars, mgrVars, coroVars
<1>14. ASSUME NEW c \in Calls, Leave(c) PROVE TargetIsClosed'
  BY <1>14, PoolAssumption DEF Leave, Moves, Steps, Job, PoolInv, TypeOK, TargetIsClosed,
       callVars, mgrVars, coroVars
<1>15. ASSUME NEW r \in Coros, Close(r) PROVE TargetIsClosed'
  BY <1>15, PoolAssumption DEF Close, Moves, Steps, Job, PoolInv, TypeOK, TargetIsClosed,
       callVars, mgrVars, coroVars
<1>16. ASSUME NEW r \in Coros, CloseConnection(r) PROVE TargetIsClosed'
  BY <1>16, PoolAssumption DEF CloseConnection, Moves, Steps, Job, PoolInv, TypeOK,
       TargetIsClosed, callVars, mgrVars, coroVars
<1>17. ASSUME NEW r \in Coros, Closed(r) PROVE TargetIsClosed'
  BY <1>17, PoolAssumption DEF Closed, Moves, Steps, Job, PoolInv, TypeOK, TargetIsClosed,
       callVars, mgrVars, coroVars
<1>18. ASSUME NEW r \in Coros, DrainStarts(r) PROVE TargetIsClosed'
  BY <1>18, PoolAssumption DEF DrainStarts, Moves, Steps, Job, PoolInv, TypeOK,
       TargetIsClosed, callVars, mgrVars, coroVars
<1>19. ASSUME NEW r \in Coros, DrainEnds(r) PROVE TargetIsClosed'
  BY <1>19, PoolAssumption DEF DrainEnds, Moves, Steps, Job, PoolInv, TypeOK,
       TargetIsClosed, callVars, mgrVars, coroVars
<1>20. ASSUME NEW r \in Coros, CopyStarts(r) PROVE TargetIsClosed'
  BY <1>20, PoolAssumption DEF CopyStarts, Moves, Steps, Job, PoolInv, TypeOK,
       TargetIsClosed, callVars, mgrVars, coroVars
<1>21. ASSUME NEW r \in Coros, CopyEnds(r) PROVE TargetIsClosed'
  BY <1>21, PoolAssumption DEF CopyEnds, Moves, Steps, Job, PoolInv, TypeOK,
       TargetIsClosed, callVars, mgrVars, coroVars
<1>22. ASSUME NEW r \in Coros, Install(r) PROVE TargetIsClosed'
  BY <1>22, PoolAssumption DEF Install, Moves, Steps, Job, PoolInv, TypeOK, TargetIsClosed,
       callVars, mgrVars, coroVars
<1>23. ASSUME NEW r \in Coros, Cancel(r) PROVE TargetIsClosed'
  BY <1>23, PoolAssumption DEF Cancel, Moves, Steps, Job, PoolInv, TypeOK, TargetIsClosed,
       callVars, mgrVars, coroVars
<1> QED BY <1>1, <1>2, <1>3, <1>4, <1>5, <1>6, <1>7, <1>8, <1>9, <1>10, <1>11, <1>12,
     <1>13, <1>14, <1>15, <1>16, <1>17, <1>18, <1>19, <1>20, <1>21, <1>22, <1>23 DEF Next,
     CallStep, CoroStep

(* A drain succeeds when the count is zero, and the flag keeps later calls out. *)
LEMMA DrainedStep == ASSUME PoolInv, Next PROVE DrainedIsEmpty'
<1>1. ASSUME NEW c \in Calls, Submit(c) PROVE DrainedIsEmpty'
  BY <1>1, PoolAssumption DEF Submit, Moves, Steps, Job, PoolInv, TypeOK, TargetIsClosed,
       DrainedIsEmpty, Past, callVars, mgrVars, coroVars
<1>2. ASSUME NEW c \in Calls, StartThread(c) PROVE DrainedIsEmpty'
  BY <1>2, PoolAssumption DEF StartThread, Moves, Steps, Job, PoolInv, TypeOK,
       TargetIsClosed, DrainedIsEmpty, Past, callVars, mgrVars, coroVars
<1>3. ASSUME NEW c \in Calls, Count(c) PROVE DrainedIsEmpty'
  BY <1>3, PoolAssumption DEF Count, Moves, Steps, Job, PoolInv, TypeOK, TargetIsClosed,
       DrainedIsEmpty, Past, callVars, mgrVars, coroVars
<1>4. ASSUME NEW c \in Calls, CheckClosed(c) PROVE DrainedIsEmpty'
  BY <1>4, PoolAssumption DEF CheckClosed, Moves, Steps, Job, PoolInv, TypeOK,
       TargetIsClosed, DrainedIsEmpty, Past, callVars, mgrVars, coroVars
<1>5. ASSUME NEW c \in Calls, GetNowait(c) PROVE DrainedIsEmpty'
  BY <1>5, PoolAssumption DEF GetNowait, Moves, Steps, Job, PoolInv, TypeOK,
       TargetIsClosed, DrainedIsEmpty, Past, callVars, mgrVars, coroVars
<1>6. ASSUME NEW c \in Calls, Reserve(c) PROVE DrainedIsEmpty'
  BY <1>6, PoolAssumption DEF Reserve, Moves, Steps, Job, PoolInv, TypeOK, TargetIsClosed,
       DrainedIsEmpty, Past, callVars, mgrVars, coroVars
<1>7. ASSUME NEW c \in Calls, ConnectOk(c) PROVE DrainedIsEmpty'
  BY <1>7, PoolAssumption DEF ConnectOk, Moves, Steps, Job, PoolInv, TypeOK,
       TargetIsClosed, DrainedIsEmpty, Past, callVars, mgrVars, coroVars
<1>8. ASSUME NEW c \in Calls, ConnectFails(c) PROVE DrainedIsEmpty'
  BY <1>8, PoolAssumption DEF ConnectFails, Moves, Steps, Job, PoolInv, TypeOK,
       TargetIsClosed, DrainedIsEmpty, Past, callVars, mgrVars, coroVars
<1>9. ASSUME NEW c \in Calls, GetWaiting(c) PROVE DrainedIsEmpty'
  BY <1>9, PoolAssumption DEF GetWaiting, Moves, Steps, Job, PoolInv, TypeOK,
       TargetIsClosed, DrainedIsEmpty, Past, callVars, mgrVars, coroVars
<1>10. ASSUME NEW c \in Calls, GetTimesOut(c) PROVE DrainedIsEmpty'
  BY <1>10, PoolAssumption DEF GetTimesOut, Moves, Steps, Job, PoolInv, TypeOK,
       TargetIsClosed, DrainedIsEmpty, Past, callVars, mgrVars, coroVars
<1>11. ASSUME NEW c \in Calls, StatementEnds(c) PROVE DrainedIsEmpty'
  BY <1>11, PoolAssumption DEF StatementEnds, Moves, Steps, Job, PoolInv, TypeOK,
       TargetIsClosed, DrainedIsEmpty, Past, callVars, mgrVars, coroVars
<1>12. ASSUME NEW c \in Calls, Release(c) PROVE DrainedIsEmpty'
  BY <1>12, PoolAssumption DEF Release, Moves, Steps, Job, PoolInv, TypeOK, TargetIsClosed,
       DrainedIsEmpty, Past, callVars, mgrVars, coroVars
<1>13. ASSUME NEW c \in Calls, PutBack(c) PROVE DrainedIsEmpty'
  BY <1>13, PoolAssumption DEF PutBack, Moves, Steps, Job, PoolInv, TypeOK, TargetIsClosed,
       DrainedIsEmpty, Past, callVars, mgrVars, coroVars
<1>14. ASSUME NEW c \in Calls, Leave(c) PROVE DrainedIsEmpty'
  BY <1>14, PoolAssumption DEF Leave, Moves, Steps, Job, PoolInv, TypeOK, TargetIsClosed,
       DrainedIsEmpty, Past, callVars, mgrVars, coroVars
<1>15. ASSUME NEW r \in Coros, Close(r) PROVE DrainedIsEmpty'
  BY <1>15, PoolAssumption DEF Close, Moves, Steps, Job, PoolInv, TypeOK, TargetIsClosed,
       DrainedIsEmpty, Past, callVars, mgrVars, coroVars
<1>16. ASSUME NEW r \in Coros, CloseConnection(r) PROVE DrainedIsEmpty'
  BY <1>16, PoolAssumption DEF CloseConnection, Moves, Steps, Job, PoolInv, TypeOK,
       TargetIsClosed, DrainedIsEmpty, Past, callVars, mgrVars, coroVars
<1>17. ASSUME NEW r \in Coros, Closed(r) PROVE DrainedIsEmpty'
  <2>1. closed' = closed /\ callVars' = callVars /\ target' = target /\ at' = [at EXCEPT
       ![r] = at'[r]]
        /\ at'[r] # "new" /\ at[r] # "new"
    BY <1>17 DEF PoolInv, TypeOK, Closed, Steps, mgrVars, callVars
  <2>2. ASSUME NEW o \in Coros, drained'[o], o # r \/ r \in Closers
        PROVE  at'[o] # "new" /\ \A c \in Calls : mgr'[c] = target'[o] => pc'[c] \notin Past
    BY <1>17, <2>1, <2>2 DEF PoolInv, TypeOK, DrainedIsEmpty, Closed, callVars
  <2>3. ASSUME drained'[r], r \notin Closers
        PROVE  \A c \in Calls : mgr'[c] = target'[r] => pc'[c] \notin Past
    <3>1. inflight[target[r]] = 0
      BY <1>17, <2>3 DEF PoolInv, TypeOK, Closed
    <3>2. \A c \in Calls : mgr[c] = target[r] => pc[c] \notin InFlight
      BY <3>1, InFlightCounted
    <3> QED BY <2>1, <3>2 DEF callVars, Past, InFlight
  <2> QED BY <2>1, <2>2, <2>3 DEF DrainedIsEmpty
<1>18. ASSUME NEW r \in Coros, DrainStarts(r) PROVE DrainedIsEmpty'
  BY <1>18, PoolAssumption DEF DrainStarts, Moves, Steps, Job, PoolInv, TypeOK,
       TargetIsClosed, DrainedIsEmpty, Past, callVars, mgrVars, coroVars
<1>19. ASSUME NEW r \in Coros, DrainEnds(r) PROVE DrainedIsEmpty'
  <2>1. closed' = closed /\ callVars' = callVars /\ target' = target
        /\ (at[r] = "draining" \/ (at' = at /\ drained' = drained))
    BY <1>19 DEF DrainEnds, Steps, mgrVars
  <2>2. CASE at[r] # "draining"
    BY <2>1, <2>2 DEF PoolInv, DrainedIsEmpty, callVars
  <2>3. CASE at[r] = "draining"
    <3>1. at' = [at EXCEPT ![r] = "copy queued"] /\ drained' = [drained EXCEPT ![r] =
         idle[target[r]]]
      BY <1>19, <2>3 DEF DrainEnds, Steps
    <3>2. ASSUME NEW o \in Coros, drained'[o], o # r
          PROVE  at'[o] # "new" /\ \A c \in Calls : mgr'[c] = target'[o] => pc'[c] \notin Past
      BY <2>1, <3>1, <3>2 DEF PoolInv, TypeOK, DrainedIsEmpty, callVars
    <3>3. ASSUME drained'[r]
          PROVE  \A c \in Calls : mgr'[c] = target'[r] => pc'[c] \notin Past
      <4>1. idle[target[r]] /\ target[r] \in Managers
        BY <3>1, <3>3 DEF PoolInv, TypeOK
      <4>2. inflight[target[r]] = 0
        BY <4>1 DEF PoolInv, CountIsExact
      <4>3. \A c \in Calls : mgr[c] = target[r] => pc[c] \notin InFlight
        BY <4>2, InFlightCounted
      <4> QED BY <2>1, <4>3 DEF callVars, Past, InFlight
    <3>4. at'[r] # "new"
      BY <3>1 DEF PoolInv, TypeOK
    <3> QED BY <3>2, <3>3, <3>4 DEF DrainedIsEmpty
  <2> QED BY <2>2, <2>3
<1>20. ASSUME NEW r \in Coros, CopyStarts(r) PROVE DrainedIsEmpty'
  BY <1>20, PoolAssumption DEF CopyStarts, Moves, Steps, Job, PoolInv, TypeOK,
       TargetIsClosed, DrainedIsEmpty, Past, callVars, mgrVars, coroVars
<1>21. ASSUME NEW r \in Coros, CopyEnds(r) PROVE DrainedIsEmpty'
  BY <1>21, PoolAssumption DEF CopyEnds, Moves, Steps, Job, PoolInv, TypeOK,
       TargetIsClosed, DrainedIsEmpty, Past, callVars, mgrVars, coroVars
<1>22. ASSUME NEW r \in Coros, Install(r) PROVE DrainedIsEmpty'
  BY <1>22, PoolAssumption DEF Install, Moves, Steps, Job, PoolInv, TypeOK, TargetIsClosed,
       DrainedIsEmpty, Past, callVars, mgrVars, coroVars
<1>23. ASSUME NEW r \in Coros, Cancel(r) PROVE DrainedIsEmpty'
  <2>1. AfterCancel(r) # "new" BY DEF AfterCancel
  <2> QED BY <1>23, <2>1 DEF PoolInv, TypeOK, DrainedIsEmpty, Cancel, callVars, mgrVars,
       coroVars
<1> QED BY <1>1, <1>2, <1>3, <1>4, <1>5, <1>6, <1>7, <1>8, <1>9, <1>10, <1>11, <1>12,
     <1>13, <1>14, <1>15, <1>16, <1>17, <1>18, <1>19, <1>20, <1>21, <1>22, <1>23 DEF Next,
     CallStep, CoroStep

(* The event loop leaves calls and counters alone. *)
LEMMA CoroFrame ==
  ASSUME NEW r \in Coros, Close(r) \/ CoroStep(r) \/ Cancel(r)
  PROVE  UNCHANGED <<callVars, created, inflight, idle, lock>>
<1>1. CASE Close(r) BY <1>1 DEF Close
<1>2. CASE CoroStep(r)
  BY <1>2 DEF CoroStep, CloseConnection, Closed, DrainStarts, DrainEnds, CopyStarts,
              CopyEnds, Install, mgrVars
<1>3. CASE Cancel(r) BY <1>3 DEF Cancel, mgrVars
<1> QED BY <1>1, <1>2, <1>3

(* The lock changes hands with the stage "connecting". *)
LEMMA LockStep == ASSUME PoolInv, Next PROVE LockIsHeld'
<1>1. ASSUME NEW c \in Calls, Submit(c) PROVE LockIsHeld'
  BY <1>1, PoolAssumption DEF Submit, Moves, PoolInv, TypeOK, LockIsHeld, callVars,
       mgrVars, coroVars
<1>2. ASSUME NEW c \in Calls, StartThread(c) PROVE LockIsHeld'
  BY <1>2, PoolAssumption DEF StartThread, Moves, PoolInv, TypeOK, LockIsHeld, callVars,
       mgrVars, coroVars
<1>3. ASSUME NEW c \in Calls, Count(c) PROVE LockIsHeld'
  BY <1>3, PoolAssumption DEF Count, Moves, PoolInv, TypeOK, LockIsHeld, callVars, mgrVars,
       coroVars
<1>4. ASSUME NEW c \in Calls, CheckClosed(c) PROVE LockIsHeld'
  BY <1>4, PoolAssumption DEF CheckClosed, Moves, PoolInv, TypeOK, LockIsHeld, callVars,
       mgrVars, coroVars
<1>5. ASSUME NEW c \in Calls, GetNowait(c) PROVE LockIsHeld'
  BY <1>5, PoolAssumption DEF GetNowait, Moves, PoolInv, TypeOK, LockIsHeld, callVars,
       mgrVars, coroVars
<1>6. ASSUME NEW c \in Calls, Reserve(c) PROVE LockIsHeld'
  BY <1>6, PoolAssumption DEF Reserve, Moves, PoolInv, TypeOK, LockIsHeld, callVars,
       mgrVars, coroVars
<1>7. ASSUME NEW c \in Calls, ConnectOk(c) PROVE LockIsHeld'
  BY <1>7, PoolAssumption DEF ConnectOk, Moves, PoolInv, TypeOK, LockIsHeld, callVars,
       mgrVars, coroVars
<1>8. ASSUME NEW c \in Calls, ConnectFails(c) PROVE LockIsHeld'
  BY <1>8, PoolAssumption DEF ConnectFails, Moves, PoolInv, TypeOK, LockIsHeld, callVars,
       mgrVars, coroVars
<1>9. ASSUME NEW c \in Calls, GetWaiting(c) PROVE LockIsHeld'
  BY <1>9, PoolAssumption DEF GetWaiting, Moves, PoolInv, TypeOK, LockIsHeld, callVars,
       mgrVars, coroVars
<1>10. ASSUME NEW c \in Calls, GetTimesOut(c) PROVE LockIsHeld'
  BY <1>10, PoolAssumption DEF GetTimesOut, Moves, PoolInv, TypeOK, LockIsHeld, callVars,
       mgrVars, coroVars
<1>11. ASSUME NEW c \in Calls, StatementEnds(c) PROVE LockIsHeld'
  BY <1>11, PoolAssumption DEF StatementEnds, Moves, PoolInv, TypeOK, LockIsHeld, callVars,
       mgrVars, coroVars
<1>12. ASSUME NEW c \in Calls, Release(c) PROVE LockIsHeld'
  BY <1>12, PoolAssumption DEF Release, Moves, PoolInv, TypeOK, LockIsHeld, callVars,
       mgrVars, coroVars
<1>13. ASSUME NEW c \in Calls, PutBack(c) PROVE LockIsHeld'
  BY <1>13, PoolAssumption DEF PutBack, Moves, PoolInv, TypeOK, LockIsHeld, callVars,
       mgrVars, coroVars
<1>14. ASSUME NEW c \in Calls, Leave(c) PROVE LockIsHeld'
  BY <1>14, PoolAssumption DEF Leave, Moves, PoolInv, TypeOK, LockIsHeld, callVars,
       mgrVars, coroVars
<1>15. ASSUME NEW r \in Coros, Close(r) \/ CoroStep(r) \/ Cancel(r) PROVE LockIsHeld'
  BY <1>15, CoroFrame DEF PoolInv, LockIsHeld, callVars
<1> QED BY <1>1, <1>2, <1>3, <1>4, <1>5, <1>6, <1>7, <1>8, <1>9, <1>10, <1>11, <1>12,
     <1>13, <1>14, <1>15 DEF Next, CallStep

(* A swap is done when its manager becomes current, and only the current one is closed. *)
LEMMA FreshStep == ASSUME PoolInv, Next PROVE FreshIsOpen'
<1>1. ASSUME NEW c \in Calls, Submit(c) PROVE FreshIsOpen'
  BY <1>1, PoolAssumption DEF Submit, Moves, Steps, Job, PoolInv, TypeOK, FreshIsOpen,
       callVars, mgrVars, coroVars, Managers, Coros, Swaps
<1>2. ASSUME NEW c \in Calls, StartThread(c) PROVE FreshIsOpen'
  BY <1>2, PoolAssumption DEF StartThread, Moves, Steps, Job, PoolInv, TypeOK, FreshIsOpen,
       callVars, mgrVars, coroVars, Managers, Coros, Swaps
<1>3. ASSUME NEW c \in Calls, Count(c) PROVE FreshIsOpen'
  BY <1>3, PoolAssumption DEF Count, Moves, Steps, Job, PoolInv, TypeOK, FreshIsOpen,
       callVars, mgrVars, coroVars, Managers, Coros, Swaps
<1>4. ASSUME NEW c \in Calls, CheckClosed(c) PROVE FreshIsOpen'
  BY <1>4, PoolAssumption DEF CheckClosed, Moves, Steps, Job, PoolInv, TypeOK, FreshIsOpen,
       callVars, mgrVars, coroVars, Managers, Coros, Swaps
<1>5. ASSUME NEW c \in Calls, GetNowait(c) PROVE FreshIsOpen'
  BY <1>5, PoolAssumption DEF GetNowait, Moves, Steps, Job, PoolInv, TypeOK, FreshIsOpen,
       callVars, mgrVars, coroVars, Managers, Coros, Swaps
<1>6. ASSUME NEW c \in Calls, Reserve(c) PROVE FreshIsOpen'
  BY <1>6, PoolAssumption DEF Reserve, Moves, Steps, Job, PoolInv, TypeOK, FreshIsOpen,
       callVars, mgrVars, coroVars, Managers, Coros, Swaps
<1>7. ASSUME NEW c \in Calls, ConnectOk(c) PROVE FreshIsOpen'
  BY <1>7, PoolAssumption DEF ConnectOk, Moves, Steps, Job, PoolInv, TypeOK, FreshIsOpen,
       callVars, mgrVars, coroVars, Managers, Coros, Swaps
<1>8. ASSUME NEW c \in Calls, ConnectFails(c) PROVE FreshIsOpen'
  BY <1>8, PoolAssumption DEF ConnectFails, Moves, Steps, Job, PoolInv, TypeOK,
       FreshIsOpen, callVars, mgrVars, coroVars, Managers, Coros, Swaps
<1>9. ASSUME NEW c \in Calls, GetWaiting(c) PROVE FreshIsOpen'
  BY <1>9, PoolAssumption DEF GetWaiting, Moves, Steps, Job, PoolInv, TypeOK, FreshIsOpen,
       callVars, mgrVars, coroVars, Managers, Coros, Swaps
<1>10. ASSUME NEW c \in Calls, GetTimesOut(c) PROVE FreshIsOpen'
  BY <1>10, PoolAssumption DEF GetTimesOut, Moves, Steps, Job, PoolInv, TypeOK,
       FreshIsOpen, callVars, mgrVars, coroVars, Managers, Coros, Swaps
<1>11. ASSUME NEW c \in Calls, StatementEnds(c) PROVE FreshIsOpen'
  BY <1>11, PoolAssumption DEF StatementEnds, Moves, Steps, Job, PoolInv, TypeOK,
       FreshIsOpen, callVars, mgrVars, coroVars, Managers, Coros, Swaps
<1>12. ASSUME NEW c \in Calls, Release(c) PROVE FreshIsOpen'
  BY <1>12, PoolAssumption DEF Release, Moves, Steps, Job, PoolInv, TypeOK, FreshIsOpen,
       callVars, mgrVars, coroVars, Managers, Coros, Swaps
<1>13. ASSUME NEW c \in Calls, PutBack(c) PROVE FreshIsOpen'
  BY <1>13, PoolAssumption DEF PutBack, Moves, Steps, Job, PoolInv, TypeOK, FreshIsOpen,
       callVars, mgrVars, coroVars, Managers, Coros, Swaps
<1>14. ASSUME NEW c \in Calls, Leave(c) PROVE FreshIsOpen'
  BY <1>14, PoolAssumption DEF Leave, Moves, Steps, Job, PoolInv, TypeOK, FreshIsOpen,
       callVars, mgrVars, coroVars, Managers, Coros, Swaps
<1>15. ASSUME NEW r \in Coros, Close(r) PROVE FreshIsOpen'
  BY <1>15, PoolAssumption DEF Close, Moves, Steps, Job, PoolInv, TypeOK, FreshIsOpen,
       callVars, mgrVars, coroVars, Managers, Coros, Swaps
<1>16. ASSUME NEW r \in Coros, CloseConnection(r) PROVE FreshIsOpen'
  BY <1>16, PoolAssumption DEF CloseConnection, Moves, Steps, Job, PoolInv, TypeOK,
       FreshIsOpen, callVars, mgrVars, coroVars, Managers, Coros, Swaps
<1>17. ASSUME NEW r \in Coros, Closed(r) PROVE FreshIsOpen'
  <2>1. at[r] = "closing" /\ \A x \in Coros \ {r} : at'[x] = at[x]
    BY <1>17 DEF Closed, Steps, PoolInv, TypeOK
  <2>2. UNCHANGED <<closed, cur>> BY <1>17 DEF Closed, mgrVars
  <2> QED BY <2>1, <2>2 DEF PoolInv, FreshIsOpen, Coros
<1>18. ASSUME NEW r \in Coros, DrainStarts(r) PROVE FreshIsOpen'
  BY <1>18, PoolAssumption DEF DrainStarts, Moves, Steps, Job, PoolInv, TypeOK,
       FreshIsOpen, callVars, mgrVars, coroVars, Managers, Coros, Swaps
<1>19. ASSUME NEW r \in Coros, DrainEnds(r) PROVE FreshIsOpen'
  BY <1>19, PoolAssumption DEF DrainEnds, Moves, Steps, Job, PoolInv, TypeOK, FreshIsOpen,
       callVars, mgrVars, coroVars, Managers, Coros, Swaps
<1>20. ASSUME NEW r \in Coros, CopyStarts(r) PROVE FreshIsOpen'
  BY <1>20, PoolAssumption DEF CopyStarts, Moves, Steps, Job, PoolInv, TypeOK, FreshIsOpen,
       callVars, mgrVars, coroVars, Managers, Coros, Swaps
<1>21. ASSUME NEW r \in Coros, CopyEnds(r) PROVE FreshIsOpen'
  BY <1>21, PoolAssumption DEF CopyEnds, Moves, Steps, Job, PoolInv, TypeOK, FreshIsOpen,
       callVars, mgrVars, coroVars, Managers, Coros, Swaps
<1>22. ASSUME NEW r \in Coros, Install(r) PROVE FreshIsOpen'
  BY <1>22, PoolAssumption DEF Install, Moves, Steps, Job, PoolInv, TypeOK, FreshIsOpen,
       callVars, mgrVars, coroVars, Managers, Coros, Swaps
<1>23. ASSUME NEW r \in Coros, Cancel(r) PROVE FreshIsOpen'
  BY <1>23, PoolAssumption DEF Cancel, Moves, Steps, Job, PoolInv, TypeOK, FreshIsOpen,
       callVars, mgrVars, coroVars, Managers, Coros, Swaps
<1> QED BY <1>1, <1>2, <1>3, <1>4, <1>5, <1>6, <1>7, <1>8, <1>9, <1>10, <1>11, <1>12,
     <1>13, <1>14, <1>15, <1>16, <1>17, <1>18, <1>19, <1>20, <1>21, <1>22, <1>23 DEF Next,
     CallStep, CoroStep

(* A call that stays in flight, or out of it, does not change the count. *)
LEMMA FlightStays ==
  ASSUME TypeOK, NEW c \in Calls, NEW to, mgr' = mgr, pc' = [pc EXCEPT ![c] = to],
         pc[c] \in InFlight <=> to \in InFlight
  PROVE  \A m : InFlightOn(m)' = InFlightOn(m)
BY DEF TypeOK, InFlightOn

(* Calls in flight are counted by a number. *)
LEMMA FlightsFinite == \A m : /\ IsFiniteSet(InFlightOn(m))
                            /\ Cardinality(InFlightOn(m)) \in Nat
BY PoolAssumption, FS_Subset, FS_CardinalityType DEF InFlightOn

(* Only Count and Leave change who is in flight, with the counter. *)
LEMMA CountStep == ASSUME PoolInv, Next PROVE CountIsExact'
<1>1. ASSUME NEW c \in Calls, Submit(c) PROVE CountIsExact'
  <2>1. \A m : InFlightOn(m)' = InFlightOn(m)
    BY <1>1 DEF PoolInv, TypeOK, Submit, Moves, InFlight, InFlightOn
  <2> QED BY <1>1, <2>1 DEF PoolInv, CountIsExact, Submit, mgrVars
<1>2. ASSUME NEW c \in Calls, StartThread(c) PROVE CountIsExact'
  <2>1. \A m : InFlightOn(m)' = InFlightOn(m)
    BY <1>2, FlightStays DEF PoolInv, StartThread, Moves, InFlight
  <2> QED BY <1>2, <2>1 DEF PoolInv, CountIsExact, StartThread, mgrVars
<1>3. ASSUME NEW c \in Calls, Count(c) PROVE CountIsExact'
  <2>1. PICK m \in Managers : m = mgr[c] BY DEF PoolInv, TypeOK
  <2>2. c \notin InFlightOn(m) /\ InFlightOn(m)' = InFlightOn(m) \cup {c}
    BY <1>3, <2>1 DEF PoolInv, TypeOK, Count, Moves, InFlight, InFlightOn
  <2>3. Cardinality(InFlightOn(m)') = Cardinality(InFlightOn(m)) + 1
    BY <2>2, FlightsFinite, FS_AddElement
  <2>4. inflight[m] \in Nat /\ inflight'[m] = inflight[m] + 1 /\ idle'[m] = FALSE
    BY <1>3, <2>1 DEF PoolInv, TypeOK, Count
  <2>5. ASSUME NEW o \in Managers, o # m
        PROVE  InFlightOn(o)' = InFlightOn(o) /\ inflight'[o] = inflight[o] /\ idle'[o] =
             idle[o]
    BY <1>3, <2>1, <2>5 DEF PoolInv, TypeOK, Count, Moves, InFlightOn
  <2> QED
    <3> SUFFICES ASSUME NEW o \in Managers
                 PROVE  inflight'[o] = Cardinality(InFlightOn(o)') /\ (idle'[o] <=>
                      inflight'[o] = 0)
      BY DEF CountIsExact
    <3>1. CASE o # m
      BY <2>5, <3>1 DEF PoolInv, CountIsExact
    <3>2. CASE o = m
      <4>1. inflight'[m] = Cardinality(InFlightOn(m)')
        BY <2>1, <2>3, <2>4 DEF PoolInv, CountIsExact
      <4>2. idle[m] <=> inflight[m] = 0
        BY <2>1 DEF PoolInv, CountIsExact
      <4>3. idle'[m] <=> inflight'[m] = 0
        <5>1. inflight'[m] # 0 BY <2>4
        <5>2. idle'[m] = FALSE BY <2>4
        <5> QED BY <5>1, <5>2
      <4> QED BY <3>2, <4>1, <4>3
    <3> QED BY <3>1, <3>2
<1>4. ASSUME NEW c \in Calls, CheckClosed(c) PROVE CountIsExact'
  <2>1. \A m : InFlightOn(m)' = InFlightOn(m)
    BY <1>4, FlightStays DEF PoolInv, CheckClosed, Moves, InFlight
  <2> QED BY <1>4, <2>1 DEF PoolInv, CountIsExact, CheckClosed, mgrVars
<1>5. ASSUME NEW c \in Calls, GetNowait(c) PROVE CountIsExact'
  <2>1. \A m : InFlightOn(m)' = InFlightOn(m)
    BY <1>5, FlightStays DEF PoolInv, GetNowait, Moves, InFlight
  <2> QED BY <1>5, <2>1 DEF PoolInv, CountIsExact, GetNowait, mgrVars
<1>6. ASSUME NEW c \in Calls, Reserve(c) PROVE CountIsExact'
  <2>1. \A m : InFlightOn(m)' = InFlightOn(m)
    BY <1>6, FlightStays DEF PoolInv, Reserve, Moves, InFlight
  <2> QED BY <1>6, <2>1 DEF PoolInv, CountIsExact, Reserve, mgrVars
<1>7. ASSUME NEW c \in Calls, ConnectOk(c) PROVE CountIsExact'
  <2>1. \A m : InFlightOn(m)' = InFlightOn(m)
    BY <1>7, FlightStays DEF PoolInv, ConnectOk, Moves, InFlight
  <2> QED BY <1>7, <2>1 DEF PoolInv, CountIsExact, ConnectOk, mgrVars
<1>8. ASSUME NEW c \in Calls, ConnectFails(c) PROVE CountIsExact'
  <2>1. \A m : InFlightOn(m)' = InFlightOn(m)
    BY <1>8, FlightStays DEF PoolInv, ConnectFails, Moves, InFlight
  <2> QED BY <1>8, <2>1 DEF PoolInv, CountIsExact, ConnectFails, mgrVars
<1>9. ASSUME NEW c \in Calls, GetWaiting(c) PROVE CountIsExact'
  <2>1. \A m : InFlightOn(m)' = InFlightOn(m)
    BY <1>9, FlightStays DEF PoolInv, GetWaiting, Moves, InFlight
  <2> QED BY <1>9, <2>1 DEF PoolInv, CountIsExact, GetWaiting, mgrVars
<1>10. ASSUME NEW c \in Calls, GetTimesOut(c) PROVE CountIsExact'
  <2>1. \A m : InFlightOn(m)' = InFlightOn(m)
    BY <1>10, FlightStays DEF PoolInv, GetTimesOut, Moves, InFlight
  <2> QED BY <1>10, <2>1 DEF PoolInv, CountIsExact, GetTimesOut, mgrVars
<1>11. ASSUME NEW c \in Calls, StatementEnds(c) PROVE CountIsExact'
  <2>1. \A m : InFlightOn(m)' = InFlightOn(m)
    BY <1>11, FlightStays DEF PoolInv, StatementEnds, Moves, InFlight
  <2> QED BY <1>11, <2>1 DEF PoolInv, CountIsExact, StatementEnds, mgrVars
<1>12. ASSUME NEW c \in Calls, Release(c) PROVE CountIsExact'
  <2>1. \A m : InFlightOn(m)' = InFlightOn(m)
    BY <1>12, FlightStays DEF PoolInv, Release, Moves, InFlight
  <2> QED BY <1>12, <2>1 DEF PoolInv, CountIsExact, Release, mgrVars
<1>13. ASSUME NEW c \in Calls, PutBack(c) PROVE CountIsExact'
  <2>1. \A m : InFlightOn(m)' = InFlightOn(m)
    BY <1>13, FlightStays DEF PoolInv, PutBack, Moves, InFlight
  <2> QED BY <1>13, <2>1 DEF PoolInv, CountIsExact, PutBack, mgrVars
<1>14. ASSUME NEW c \in Calls, Leave(c) PROVE CountIsExact'
  <2>1. PICK m \in Managers : m = mgr[c] BY DEF PoolInv, TypeOK
  <2>2. c \in InFlightOn(m) /\ InFlightOn(m)' = InFlightOn(m) \ {c}
    BY <1>14, <2>1 DEF PoolInv, TypeOK, Leave, Moves, InFlight, InFlightOn
  <2>3. Cardinality(InFlightOn(m)') = Cardinality(InFlightOn(m)) - 1
    BY <2>2, FlightsFinite, FS_RemoveElement
  <2>4. inflight[m] \in Nat /\ inflight'[m] = inflight[m] - 1 /\ idle'[m] = IF inflight[m]
       = 1 THEN TRUE ELSE idle[m]
    BY <1>14, <2>1 DEF PoolInv, TypeOK, Leave
  <2>5. ASSUME NEW o \in Managers, o # m
        PROVE  InFlightOn(o)' = InFlightOn(o) /\ inflight'[o] = inflight[o] /\ idle'[o] =
             idle[o]
    BY <1>14, <2>1, <2>5 DEF PoolInv, TypeOK, Leave, Moves, InFlightOn
  <2>6. inflight[m] > 0
    BY <1>14, <2>1, InFlightCounted DEF Leave, Moves, InFlight
  <2> QED
    <3> SUFFICES ASSUME NEW o \in Managers
                 PROVE  inflight'[o] = Cardinality(InFlightOn(o)') /\ (idle'[o] <=>
                      inflight'[o] = 0)
      BY DEF CountIsExact
    <3>1. CASE o # m
      BY <2>5, <3>1 DEF PoolInv, CountIsExact
    <3>2. CASE o = m
      <4>1. inflight'[m] = Cardinality(InFlightOn(m)')
        BY <2>1, <2>3, <2>4 DEF PoolInv, CountIsExact
      <4>2. idle[m] <=> inflight[m] = 0
        BY <2>1 DEF PoolInv, CountIsExact
      <4>3. idle'[m] <=> inflight'[m] = 0
        <5>1. CASE inflight[m] = 1
          <6>1. idle'[m] = TRUE BY <2>4, <5>1
          <6>2. inflight'[m] = 0 BY <2>4, <5>1
          <6> QED BY <6>1, <6>2
        <5>2. CASE inflight[m] # 1
          <6>1. idle'[m] = idle[m] BY <2>4, <5>2
          <6>2. inflight'[m] # 0 BY <2>4, <5>2
          <6>3. inflight[m] # 0 BY <2>4, <2>6
          <6> QED BY <4>2, <6>1, <6>2, <6>3
        <5> QED BY <5>1, <5>2
      <4> QED BY <3>2, <4>1, <4>3
    <3> QED BY <3>1, <3>2
<1>15. ASSUME NEW r \in Coros, Close(r) \/ CoroStep(r) \/ Cancel(r) PROVE CountIsExact'
  <2>1. \A m : InFlightOn(m)' = InFlightOn(m)
    BY <1>15, CoroFrame DEF callVars, InFlightOn
  <2> QED BY <1>15, <2>1, CoroFrame DEF PoolInv, CountIsExact
<1> QED BY <1>1, <1>2, <1>3, <1>4, <1>5, <1>6, <1>7, <1>8, <1>9, <1>10, <1>11, <1>12,
     <1>13, <1>14, <1>15 DEF Next, CallStep

(* What a call does to the connections in the hands of calls. *)
LEMMA HoldersStay ==
  ASSUME TypeOK, NEW c \in Calls, NEW to, mgr' = mgr, pc' = [pc EXCEPT ![c] = to],
         pc[c] \in Holding <=> to \in Holding
  PROVE  \A m : HoldersOn(m)' = HoldersOn(m)
BY DEF TypeOK, HoldersOn

(* And so are those with a connection. *)
LEMMA HoldersFinite == \A m : /\ IsFiniteSet(HoldersOn(m))
                            /\ Cardinality(HoldersOn(m)) \in Nat
BY PoolAssumption, FS_Subset, FS_CardinalityType DEF HoldersOn

(* One call more has a connection. *)
LEMMA HoldersGain ==
  ASSUME TypeOK, NEW c \in Calls, NEW to \in Holding, mgr' = mgr, pc' = [pc EXCEPT ![c] = to],
         pc[c] \notin Holding
  PROVE  /\ Cardinality(HoldersOn(mgr[c])') = Cardinality(HoldersOn(mgr[c])) + 1
         /\ \A m : m # mgr[c] => HoldersOn(m)' = HoldersOn(m)
<1>1. c \notin HoldersOn(mgr[c]) /\ HoldersOn(mgr[c])' = HoldersOn(mgr[c]) \cup {c}
  BY DEF TypeOK, HoldersOn
<1>2. \A m : m # mgr[c] => HoldersOn(m)' = HoldersOn(m)
  BY DEF TypeOK, HoldersOn
<1>3. Cardinality(HoldersOn(mgr[c]) \cup {c}) = Cardinality(HoldersOn(mgr[c])) + 1
  <2> HIDE DEF HoldersOn
  <2>1. c \notin HoldersOn(mgr[c]) BY <1>1
  <2> QED BY ONLY <2>1, HoldersFinite, FS_AddElement
<1> QED BY <1>1, <1>2, <1>3

(* One call less has a connection. *)
LEMMA HoldersLose ==
  ASSUME TypeOK, NEW c \in Calls, NEW to, mgr' = mgr, pc' = [pc EXCEPT ![c] = to],
         pc[c] \in Holding, to \notin Holding
  PROVE  /\ Cardinality(HoldersOn(mgr[c])') = Cardinality(HoldersOn(mgr[c])) - 1
         /\ \A m : m # mgr[c] => HoldersOn(m)' = HoldersOn(m)
<1>1. c \in HoldersOn(mgr[c]) /\ HoldersOn(mgr[c])' = HoldersOn(mgr[c]) \ {c}
  BY DEF TypeOK, HoldersOn
<1>2. \A m : m # mgr[c] => HoldersOn(m)' = HoldersOn(m)
  BY DEF TypeOK, HoldersOn
<1> QED BY <1>1, <1>2, HoldersFinite, FS_RemoveElement

(* A step that leaves slots and waiters of a manager alone. *)
LEMMA SlotsFrame ==
  ASSUME PoolInv, NEW m \in Managers, ~closed[m],
         Cardinality(HoldersOn(m)') = Cardinality(HoldersOn(m)),
         created'[m] = created[m], pool'[m] = pool[m], lock'[m] = lock[m],
         \A c \in Calls : mgr'[c] = m /\ pc'[c] = "waiting" => mgr[c] = m /\ pc[c] = "waiting"
  PROVE  SlotsOf(m)'
BY DEF PoolInv, SlotsAreConserved, SlotsOf, Connecting

(* A connection moves between pool, call and lock; none is lost in an open pool. *)
LEMMA SlotsStep == ASSUME PoolInv, Next PROVE SlotsAreConserved'
<1>1. ASSUME NEW c \in Calls, Submit(c) PROVE SlotsAreConserved'
  <2> SUFFICES ASSUME NEW m \in Managers, ~closed'[m] PROVE SlotsOf(m)'
    BY DEF SlotsAreConserved
  <2>1. ~closed[m] /\ closed' = closed
    BY <1>1 DEF Submit, mgrVars
  <2>2. HoldersOn(m)' = HoldersOn(m)
    BY <1>1 DEF PoolInv, TypeOK, Submit, Moves, Holding, HoldersOn
  <2> QED BY <1>1, <2>1, <2>2, SlotsFrame DEF PoolInv, TypeOK, Submit, Moves, mgrVars
<1>2. ASSUME NEW c \in Calls, StartThread(c) PROVE SlotsAreConserved'
  <2> SUFFICES ASSUME NEW m \in Managers, ~closed'[m] PROVE SlotsOf(m)'
    BY DEF SlotsAreConserved
  <2>1. ~closed[m] /\ closed' = closed
    BY <1>2 DEF StartThread, mgrVars
  <2>2. HoldersOn(m)' = HoldersOn(m)
    BY <1>2, HoldersStay DEF PoolInv, StartThread, Moves, Holding
  <2> QED BY <1>2, <2>1, <2>2, SlotsFrame DEF PoolInv, TypeOK, StartThread, Moves, mgrVars
<1>3. ASSUME NEW c \in Calls, Count(c) PROVE SlotsAreConserved'
  <2> SUFFICES ASSUME NEW m \in Managers, ~closed'[m] PROVE SlotsOf(m)'
    BY DEF SlotsAreConserved
  <2>1. ~closed[m] /\ closed' = closed
    BY <1>3 DEF Count, mgrVars
  <2>2. HoldersOn(m)' = HoldersOn(m)
    BY <1>3, HoldersStay DEF PoolInv, Count, Moves, Holding
  <2> QED BY <1>3, <2>1, <2>2, SlotsFrame DEF PoolInv, TypeOK, Count, Moves, mgrVars
<1>4. ASSUME NEW c \in Calls, CheckClosed(c) PROVE SlotsAreConserved'
  <2> SUFFICES ASSUME NEW m \in Managers, ~closed'[m] PROVE SlotsOf(m)'
    BY DEF SlotsAreConserved
  <2>1. ~closed[m] /\ closed' = closed
    BY <1>4 DEF CheckClosed, mgrVars
  <2>2. HoldersOn(m)' = HoldersOn(m)
    BY <1>4, HoldersStay DEF PoolInv, CheckClosed, Moves, Holding
  <2> QED BY <1>4, <2>1, <2>2, SlotsFrame DEF PoolInv, TypeOK, CheckClosed, Moves, mgrVars
<1>5. ASSUME NEW c \in Calls, GetNowait(c) PROVE SlotsAreConserved'
  <2> SUFFICES ASSUME NEW m \in Managers, ~closed'[m] PROVE SlotsOf(m)'
    BY DEF SlotsAreConserved
  <2>1. ~closed[m] /\ closed' = closed
    BY <1>5 DEF GetNowait, mgrVars
  <2>2. CASE m # mgr[c]
    <3>1. HoldersOn(m)' = HoldersOn(m)
      BY <1>5, <2>2 DEF PoolInv, TypeOK, GetNowait, Moves, HoldersOn
    <3> QED BY <1>5, <2>1, <2>2, <3>1, SlotsFrame DEF PoolInv, TypeOK, GetNowait, Moves, mgrVars
  <2>3. CASE m = mgr[c]
    <3>0. pool[m] \in Nat /\ created[m] \in Nat /\ Cardinality(HoldersOn(m)) \in Nat
      BY HoldersFinite DEF PoolInv, TypeOK
    <3>1. SlotsOf(m) BY <2>1 DEF PoolInv, SlotsAreConserved
    <3>2. CASE pool[m] = 0
      <4>1. /\ pool'[m] = pool[m] /\ created' = created /\ lock' = lock
            /\ pc' = [pc EXCEPT ![c] = "empty"] /\ pc[c] = "checked" /\ mgr' = mgr
        BY <1>5, <2>3, <3>2 DEF PoolInv, TypeOK, GetNowait, Moves
      <4>2. HoldersOn(m)' = HoldersOn(m)
        BY <4>1, HoldersStay DEF PoolInv, Holding
      <4> QED BY <2>1, <4>1, <4>2, SlotsFrame DEF PoolInv, TypeOK
    <3>3. CASE pool[m] > 0
      <4>1. /\ pool'[m] = pool[m] - 1 /\ created' = created /\ lock' = lock
            /\ pc' = [pc EXCEPT ![c] = "run"] /\ pc[c] = "checked" /\ mgr' = mgr
        BY <1>5, <2>3, <3>3 DEF PoolInv, TypeOK, GetNowait, Moves
      <4>2. Cardinality(HoldersOn(mgr[c])') = Cardinality(HoldersOn(mgr[c])) + 1
        BY <4>1, HoldersGain DEF PoolInv, Holding
      <4>3. Cardinality(HoldersOn(m)') = Cardinality(HoldersOn(m)) + 1
        BY <2>3, <4>1, <4>2 DEF HoldersOn
      <4> QED BY <3>0, <3>1, <3>3, <4>1, <4>3 DEF PoolInv, TypeOK, SlotsOf, Connecting
    <3> QED BY <3>0, <3>2, <3>3
  <2> QED BY <2>2, <2>3
<1>6. ASSUME NEW c \in Calls, Reserve(c) PROVE SlotsAreConserved'
  <2> SUFFICES ASSUME NEW m \in Managers, ~closed'[m] PROVE SlotsOf(m)'
    BY DEF SlotsAreConserved
  <2>1. ~closed[m] /\ closed' = closed
    BY <1>6 DEF Reserve, mgrVars
  <2>2. CASE m # mgr[c]
    <3>1. HoldersOn(m)' = HoldersOn(m)
      BY <1>6, <2>2 DEF PoolInv, TypeOK, Reserve, Moves, HoldersOn
    <3> QED BY <1>6, <2>1, <2>2, <3>1, SlotsFrame DEF PoolInv, TypeOK, Reserve, Moves, mgrVars
  <2>3. CASE m = mgr[c]
    <3>0. pool[m] \in Nat /\ created[m] \in Nat /\ Cardinality(HoldersOn(m)) \in Nat
      BY HoldersFinite DEF PoolInv, TypeOK
    <3>1. SlotsOf(m) BY <2>1 DEF PoolInv, SlotsAreConserved
    <3>2. HoldersOn(m)' = HoldersOn(m)
      BY <1>6, HoldersStay DEF PoolInv, Reserve, Moves, Holding
    <3>3. CASE created[m] < PoolSize
      <4>1. /\ created'[m] = created[m] + 1 /\ lock[m] = "none" /\ lock'[m] = c /\ c # "none"
            /\ pool' = pool /\ pc' = [pc EXCEPT ![c] = "connecting"] /\ mgr' = mgr
        BY <1>6, <2>3, <3>3, PoolAssumption DEF PoolInv, TypeOK, Reserve, Moves
      <4> QED
        BY <3>0, <3>1, <3>2, <3>3, <4>1, PoolAssumption DEF PoolInv, TypeOK, SlotsOf, Connecting
    <3>4. CASE created[m] >= PoolSize
      <4>1. /\ created' = created /\ lock' = lock /\ lock[m] = "none"
            /\ pool' = pool /\ pc' = [pc EXCEPT ![c] = "waiting"] /\ mgr' = mgr
        BY <1>6, <2>3, <3>0, <3>4, PoolAssumption DEF PoolInv, TypeOK, Reserve, Moves
      <4>2. created[m] = PoolSize
        BY <3>0, <3>1, <3>4, PoolAssumption DEF SlotsOf
      <4> QED BY <3>1, <3>2, <4>1, <4>2 DEF PoolInv, TypeOK, SlotsOf, Connecting
    <3> QED BY <3>0, <3>3, <3>4, PoolAssumption
  <2> QED BY <2>2, <2>3
<1>7. ASSUME NEW c \in Calls, ConnectOk(c) PROVE SlotsAreConserved'
  <2> SUFFICES ASSUME NEW m \in Managers, ~closed'[m] PROVE SlotsOf(m)'
    BY DEF SlotsAreConserved
  <2>1. ~closed[m] /\ closed' = closed
    BY <1>7 DEF ConnectOk, mgrVars
  <2>2. CASE m # mgr[c]
    <3>1. HoldersOn(m)' = HoldersOn(m)
      BY <1>7, <2>2 DEF PoolInv, TypeOK, ConnectOk, Moves, HoldersOn
    <3> QED BY <1>7, <2>1, <2>2, <3>1, SlotsFrame DEF PoolInv, TypeOK, ConnectOk, Moves, mgrVars
  <2>3. CASE m = mgr[c]
    <3>0. pool[m] \in Nat /\ created[m] \in Nat /\ Cardinality(HoldersOn(m)) \in Nat
      BY HoldersFinite DEF PoolInv, TypeOK
    <3>1. SlotsOf(m) BY <2>1 DEF PoolInv, SlotsAreConserved
    <3>2. Cardinality(HoldersOn(m)') = Cardinality(HoldersOn(m)) + 1
      <4>1. PICK to \in Holding : pc' = [pc EXCEPT ![c] = to] /\ pc[c] \notin Holding /\
           mgr' = mgr
        BY <1>7 DEF ConnectOk, Moves, Holding
      <4>2. Cardinality(HoldersOn(mgr[c])') = Cardinality(HoldersOn(mgr[c])) + 1
        BY <4>1, HoldersGain DEF PoolInv
      <4> QED BY <2>3, <4>1, <4>2 DEF HoldersOn
    <3>3. Connecting(m) = 1 /\ Connecting(m)' = 0
      BY <1>7, <2>3, PoolAssumption
      DEF PoolInv, TypeOK, LockIsHeld, Connecting, ConnectOk, Moves
    <3>4. \A d \in Calls : mgr'[d] = m /\ pc'[d] = "waiting" => mgr[d] = m /\ pc[d] = "waiting"
      BY <1>7 DEF PoolInv, TypeOK, ConnectOk, Moves
    <3>5. lock[m] # "none" BY <3>3 DEF Connecting
    <3>6. UNCHANGED <<created, pool>> BY <1>7 DEF ConnectOk
    <3> QED BY <3>0, <3>1, <3>2, <3>3, <3>4, <3>5, <3>6 DEF SlotsOf
  <2> QED BY <2>2, <2>3
<1>8. ASSUME NEW c \in Calls, ConnectFails(c) PROVE SlotsAreConserved'
  <2> SUFFICES ASSUME NEW m \in Managers, ~closed'[m] PROVE SlotsOf(m)'
    BY DEF SlotsAreConserved
  <2>1. ~closed[m] /\ closed' = closed
    BY <1>8 DEF ConnectFails, mgrVars
  <2>2. CASE m # mgr[c]
    <3>1. HoldersOn(m)' = HoldersOn(m)
      BY <1>8, <2>2 DEF PoolInv, TypeOK, ConnectFails, Moves, HoldersOn
    <3> QED BY <1>8, <2>1, <2>2, <3>1, SlotsFrame DEF PoolInv, TypeOK, ConnectFails, Moves,
         mgrVars
  <2>3. CASE m = mgr[c]
    <3>0. pool[m] \in Nat /\ created[m] \in Nat /\ Cardinality(HoldersOn(m)) \in Nat
      BY HoldersFinite DEF PoolInv, TypeOK
    <3>1. SlotsOf(m) BY <2>1 DEF PoolInv, SlotsAreConserved
    <3>2. HoldersOn(m)' = HoldersOn(m)
      BY <1>8, HoldersStay DEF PoolInv, ConnectFails, Moves, Holding
    <3> QED
      BY <1>8, <2>3, <3>0, <3>1, <3>2, PoolAssumption
      DEF PoolInv, TypeOK, LockIsHeld, SlotsOf, Connecting, ConnectFails, Moves, mgrVars
  <2> QED BY <2>2, <2>3
<1>9. ASSUME NEW c \in Calls, GetWaiting(c) PROVE SlotsAreConserved'
  <2> SUFFICES ASSUME NEW m \in Managers, ~closed'[m] PROVE SlotsOf(m)'
    BY DEF SlotsAreConserved
  <2>1. ~closed[m] /\ closed' = closed
    BY <1>9 DEF GetWaiting, mgrVars
  <2>2. CASE m # mgr[c]
    <3>1. HoldersOn(m)' = HoldersOn(m)
      BY <1>9, <2>2 DEF PoolInv, TypeOK, GetWaiting, Moves, HoldersOn
    <3> QED BY <1>9, <2>1, <2>2, <3>1, SlotsFrame DEF PoolInv, TypeOK, GetWaiting, Moves,
         mgrVars
  <2>3. CASE m = mgr[c]
    <3>0. pool[m] \in Nat /\ created[m] \in Nat /\ Cardinality(HoldersOn(m)) \in Nat
      BY HoldersFinite DEF PoolInv, TypeOK
    <3>1. SlotsOf(m) BY <2>1 DEF PoolInv, SlotsAreConserved
    <3>2. Cardinality(HoldersOn(m)') = Cardinality(HoldersOn(m)) + 1
      <4>1. PICK to \in Holding : pc' = [pc EXCEPT ![c] = to] /\ pc[c] \notin Holding /\
           mgr' = mgr
        BY <1>9 DEF GetWaiting, Moves, Holding
      <4>2. Cardinality(HoldersOn(mgr[c])') = Cardinality(HoldersOn(mgr[c])) + 1
        BY <4>1, HoldersGain DEF PoolInv
      <4> QED BY <2>3, <4>1, <4>2 DEF HoldersOn
    <3> QED
      BY <1>9, <2>3, <3>0, <3>1, <3>2, PoolAssumption
      DEF PoolInv, TypeOK, LockIsHeld, SlotsOf, Connecting, GetWaiting, Moves, mgrVars
  <2> QED BY <2>2, <2>3
<1>10. ASSUME NEW c \in Calls, GetTimesOut(c) PROVE SlotsAreConserved'
  <2> SUFFICES ASSUME NEW m \in Managers, ~closed'[m] PROVE SlotsOf(m)'
    BY DEF SlotsAreConserved
  <2>1. ~closed[m] /\ closed' = closed
    BY <1>10 DEF GetTimesOut, mgrVars
  <2>2. HoldersOn(m)' = HoldersOn(m)
    BY <1>10, HoldersStay DEF PoolInv, GetTimesOut, Moves, Holding
  <2> QED BY <1>10, <2>1, <2>2, SlotsFrame DEF PoolInv, TypeOK, GetTimesOut, Moves, mgrVars
<1>11. ASSUME NEW c \in Calls, StatementEnds(c) PROVE SlotsAreConserved'
  <2> SUFFICES ASSUME NEW m \in Managers, ~closed'[m] PROVE SlotsOf(m)'
    BY DEF SlotsAreConserved
  <2>1. ~closed[m] /\ closed' = closed
    BY <1>11 DEF StatementEnds, mgrVars
  <2>2. HoldersOn(m)' = HoldersOn(m)
    BY <1>11, HoldersStay DEF PoolInv, StatementEnds, Moves, Holding
  <2> QED BY <1>11, <2>1, <2>2, SlotsFrame DEF PoolInv, TypeOK, StatementEnds, Moves, mgrVars
<1>12. ASSUME NEW c \in Calls, Release(c) PROVE SlotsAreConserved'
  <2> SUFFICES ASSUME NEW m \in Managers, ~closed'[m] PROVE SlotsOf(m)'
    BY DEF SlotsAreConserved
  <2>1. ~closed[m] /\ closed' = closed
    BY <1>12 DEF Release, mgrVars
  <2>2. CASE m # mgr[c]
    <3>1. HoldersOn(m)' = HoldersOn(m)
      BY <1>12, <2>2 DEF PoolInv, TypeOK, Release, Moves, HoldersOn
    <3> QED BY <1>12, <2>1, <2>2, <3>1, SlotsFrame DEF PoolInv, TypeOK, Release, Moves, mgrVars
  <2>3. CASE m = mgr[c]
    <3>0. pool[m] \in Nat /\ created[m] \in Nat /\ Cardinality(HoldersOn(m)) \in Nat
      BY HoldersFinite DEF PoolInv, TypeOK
    <3>1. SlotsOf(m) BY <2>1 DEF PoolInv, SlotsAreConserved
    <3>2. HoldersOn(m)' = HoldersOn(m)
      BY <2>1, <2>3, <1>12, HoldersStay DEF PoolInv, Release, Moves, Holding
    <3> QED
      BY <1>12, <2>3, <3>0, <3>1, <3>2, PoolAssumption
      DEF PoolInv, TypeOK, LockIsHeld, SlotsOf, Connecting, Release, Moves, mgrVars
  <2> QED BY <2>2, <2>3
<1>13. ASSUME NEW c \in Calls, PutBack(c) PROVE SlotsAreConserved'
  <2> SUFFICES ASSUME NEW m \in Managers, ~closed'[m] PROVE SlotsOf(m)'
    BY DEF SlotsAreConserved
  <2>1. ~closed[m] /\ closed' = closed
    BY <1>13 DEF PutBack, mgrVars
  <2>2. CASE m # mgr[c]
    <3>1. HoldersOn(m)' = HoldersOn(m)
      BY <1>13, <2>2 DEF PoolInv, TypeOK, PutBack, Moves, HoldersOn
    <3> QED BY <1>13, <2>1, <2>2, <3>1, SlotsFrame DEF PoolInv, TypeOK, PutBack, Moves, mgrVars
  <2>3. CASE m = mgr[c]
    <3>0. pool[m] \in Nat /\ created[m] \in Nat /\ Cardinality(HoldersOn(m)) \in Nat
      BY HoldersFinite DEF PoolInv, TypeOK
    <3>1. SlotsOf(m) BY <2>1 DEF PoolInv, SlotsAreConserved
    <3>2. Cardinality(HoldersOn(m)') = Cardinality(HoldersOn(m)) - 1
      <4>1. PICK to : pc' = [pc EXCEPT ![c] = to] /\ pc[c] \in Holding /\ to \notin Holding
           /\ mgr' = mgr
        BY <1>13 DEF PutBack, Moves, Holding
      <4>2. Cardinality(HoldersOn(mgr[c])') = Cardinality(HoldersOn(mgr[c])) - 1
        BY <4>1, HoldersLose DEF PoolInv
      <4> QED BY <2>3, <4>1, <4>2 DEF HoldersOn
    <3> QED
      BY <1>13, <2>3, <3>0, <3>1, <3>2, PoolAssumption
      DEF PoolInv, TypeOK, LockIsHeld, SlotsOf, Connecting, PutBack, Moves, mgrVars
  <2> QED BY <2>2, <2>3
<1>14. ASSUME NEW c \in Calls, Leave(c) PROVE SlotsAreConserved'
  <2> SUFFICES ASSUME NEW m \in Managers, ~closed'[m] PROVE SlotsOf(m)'
    BY DEF SlotsAreConserved
  <2>1. ~closed[m] /\ closed' = closed
    BY <1>14 DEF Leave, mgrVars
  <2>2. HoldersOn(m)' = HoldersOn(m)
    BY <1>14, HoldersStay DEF PoolInv, Leave, Moves, Holding
  <2> QED BY <1>14, <2>1, <2>2, SlotsFrame DEF PoolInv, TypeOK, Leave, Moves, mgrVars
<1>15. ASSUME NEW r \in Coros, Close(r) \/ CoroStep(r) \/ Cancel(r) PROVE SlotsAreConserved'
  <2> SUFFICES ASSUME NEW m \in Managers, ~closed'[m] PROVE SlotsOf(m)'
    BY DEF SlotsAreConserved
  <2>1. ~closed[m] /\ pool'[m] = pool[m]
    BY <1>15 DEF PoolInv, TypeOK, TargetIsClosed, CoroStep, Close, CloseConnection, Closed,
         DrainStarts,
       DrainEnds, CopyStarts, CopyEnds, Install, Cancel, mgrVars
  <2>2. UNCHANGED <<callVars, created, lock>> BY <1>15, CoroFrame
  <2>3. HoldersOn(m)' = HoldersOn(m) BY <2>2 DEF callVars, HoldersOn
  <2> QED BY <2>1, <2>2, <2>3, SlotsFrame DEF callVars
<1> QED BY <1>1, <1>2, <1>3, <1>4, <1>5, <1>6, <1>7, <1>8, <1>9, <1>10, <1>11, <1>12,
     <1>13, <1>14, <1>15 DEF Next, CallStep

-----------------------------------------------------------------------------
(* It holds of a store that nobody has called. *)
LEMMA PoolInit == Init => PoolInv
<1> SUFFICES ASSUME Init PROVE PoolInv OBVIOUS
<1>1. \A m : InFlightOn(m) = {} /\ HoldersOn(m) = {}
  BY DEF Init, InFlightOn, HoldersOn, InFlight, Holding
<1>2. TypeOK
  BY PoolAssumption DEF Init, TypeOK, CallStages, CoroStages, Managers
<1>3. \A m \in Managers : /\ inflight[m] = 0 /\ idle[m] = TRUE /\ lock[m] = "none"
                           /\ created[m] = 0 /\ pool[m] = 0
  BY DEF Init
<1>4. Cardinality({}) = 0 BY FS_EmptySet
<1>5. CountIsExact
  BY <1>1, <1>3, <1>4 DEF CountIsExact
<1>6. SlotsAreConserved
  <2>1. \A c \in Calls : pc[c] # "waiting" BY DEF Init
  <2> QED BY <1>1, <1>3, <1>4, <2>1, PoolAssumption DEF SlotsAreConserved, SlotsOf, Connecting
<1>7. ClosersOnlyClose /\ TargetIsClosed /\ DrainedIsEmpty
  BY DEF Init, ClosersOnlyClose, TargetIsClosed, DrainedIsEmpty, Coros
<1>8. LockIsHeld /\ FreshIsOpen
  BY PoolAssumption DEF Init, LockIsHeld, FreshIsOpen, Coros, Managers
<1> QED BY <1>2, <1>7, <1>8, <1>5, <1>6 DEF PoolInv

(* Every step preserves it, one lemma per conjunct. *)
LEMMA PoolStep == PoolInv /\ [Next]_vars => PoolInv'
<1> SUFFICES ASSUME PoolInv, [Next]_vars PROVE PoolInv' OBVIOUS
<1>1. CASE Next
  BY <1>1, TypeStep, ClosersStep, CountStep, TargetStep, DrainedStep, LockStep, SlotsStep,
       FreshStep
  DEF PoolInv
<1>2. CASE UNCHANGED vars
  <2>1. UNCHANGED <<callVars, mgrVars, coroVars, cur>> BY <1>2 DEF vars
  <2>2. TypeOK' BY <2>1 DEF PoolInv, TypeOK, callVars, mgrVars, coroVars
  <2>3. CountIsExact' /\ LockIsHeld'
    BY <2>1 DEF PoolInv, CountIsExact, LockIsHeld, InFlightOn, callVars, mgrVars
  <2>4. SlotsAreConserved'
    BY <2>1 DEF PoolInv, SlotsAreConserved, SlotsOf, Connecting, HoldersOn, callVars, mgrVars
  <2>5. /\ ClosersOnlyClose' /\ TargetIsClosed' /\ DrainedIsEmpty' /\ FreshIsOpen'
    BY <2>1 DEF PoolInv, ClosersOnlyClose, TargetIsClosed, DrainedIsEmpty, FreshIsOpen,
                callVars, mgrVars, coroVars
  <2> QED BY <2>2, <2>3, <2>4, <2>5 DEF PoolInv
<1> QED BY <1>1, <1>2

(* The inductive invariant: counters, lock, slots, and who has been closed. *)
THEOREM PoolInvHolds == Spec => []PoolInv
BY PoolInit, PoolStep, PTL DEF Spec

(* Types, which need the counters: _inflight and _created never go below zero. *)
THEOREM PoolTypes == Spec => []TypeOK
<1>1. PoolInv => TypeOK BY DEF PoolInv
<1> QED BY <1>1, PoolInvHolds, PTL

(* A drained manager is quiet while the file is replaced. *)
THEOREM SwapIsQuietAlways == Spec => []SwapIsQuiet
<1>1. PoolInv => SwapIsQuiet
  BY DEF PoolInv, DrainedIsEmpty, SwapIsQuiet, Past, Coros
<1> QED BY <1>1, PoolInvHolds, PTL

(* A call of an open pool waits only while every slot is a live connection. *)
THEOREM WaitsForBusyPoolAlways == Spec => []WaitsForBusyPool
<1>1. PoolInv => WaitsForBusyPool
  <2> SUFFICES ASSUME PoolInv, NEW c \in Calls, pc[c] = "waiting", ~closed[mgr[c]]
               PROVE  pool[mgr[c]] + Cardinality(HoldersOn(mgr[c])) = PoolSize
    BY DEF WaitsForBusyPool
  <2>1. mgr[c] \in Managers /\ pool[mgr[c]] \in Nat BY DEF PoolInv, TypeOK
  <2>2. SlotsOf(mgr[c]) BY <2>1 DEF PoolInv, SlotsAreConserved
  <2>3. Connecting(mgr[c]) = 0 /\ created[mgr[c]] = PoolSize
    BY <2>2 DEF SlotsOf, Connecting
  <2> QED BY <2>1, <2>2, <2>3, HoldersFinite DEF SlotsOf
<1> QED BY <1>1, PoolInvHolds, PTL

(* The store is open at the start, and a step that closes it is of a swap that
   will install a new manager, or of the teardown.                          *)
LEMMA UsableInit == Init => StoreUsable
BY DEF Init, StoreUsable, Managers

(* Every step, by what it does to flags, the current manager and swaps at work. *)
LEMMA UsableStep ==
  ASSUME Cancellable \cap Restores = {}
  PROVE  PoolInv /\ StoreUsable /\ [Next]_vars => StoreUsable'
<1> SUFFICES ASSUME PoolInv, StoreUsable, [Next]_vars PROVE StoreUsable' OBVIOUS
<1>1. ASSUME NEW c \in Calls, Submit(c) \/ CallStep(c) PROVE UNCHANGED <<at, closed, cur>>
  BY <1>1 DEF CallStep, Submit, StartThread, Count, CheckClosed, GetNowait, Reserve, ConnectOk,
     ConnectFails, GetWaiting, GetTimesOut, StatementEnds, Release, PutBack, Leave,
          mgrVars, coroVars
<1>2. ASSUME UNCHANGED <<at, closed, cur>> PROVE StoreUsable'
  BY <1>2 DEF StoreUsable
<1>3. ASSUME NEW r \in Coros, Close(r) PROVE StoreUsable'
  BY <1>3 DEF PoolInv, TypeOK, StoreUsable, Close, Steps, Coros
<1>4. ASSUME NEW r \in Coros, Install(r) PROVE StoreUsable'
  BY <1>4, PoolAssumption
  DEF PoolInv, TypeOK, ClosersOnlyClose, FreshIsOpen, StoreUsable, Install, Steps, Coros,
       mgrVars
(* Every other step leaves the manager alone and a swap at work. *)
<1>5. ASSUME NEW r \in Coros, UNCHANGED <<closed, cur>>,
             NEW to, at' = [at EXCEPT ![r] = to], at[r] # "new",
             r \in Closers => to # "new", r \notin Closers => to \notin {"new", "done"}
      PROVE  StoreUsable'
  BY <1>5 DEF PoolInv, TypeOK, StoreUsable, Coros
<1>6. ASSUME NEW r \in Coros, Cancel(r) PROVE StoreUsable'
  <2>1. r \notin Restores /\ r \notin Closers BY <1>6, PoolAssumption DEF Cancel
  <2>2. AfterCancel(r) = "installing" BY <2>1 DEF AfterCancel
  <2> QED BY <1>5, <1>6, <2>1, <2>2 DEF Cancel, mgrVars
<1>7. ASSUME NEW r \in Coros, Closed(r) PROVE StoreUsable'
  <2>1. CASE r \in Closers
    BY <1>5, <1>7, <2>1 DEF Closed, Steps, mgrVars
  <2>2. CASE r \notin Closers
    <3>1. \E to \in {"copy queued", "drain queued"} : at' = [at EXCEPT ![r] = to]
      BY <1>7, <2>2 DEF Closed, Steps
    <3> QED BY <1>5, <1>7, <2>2, <3>1 DEF Closed, Steps, mgrVars
  <2> QED BY <2>1, <2>2
<1>8. ASSUME NEW r \in Coros, CloseConnection(r) PROVE StoreUsable'
  BY <1>2, <1>8 DEF CloseConnection, coroVars
<1>9. ASSUME NEW r \in Coros, DrainStarts(r) \/ DrainEnds(r) \/ CopyStarts(r) \/ CopyEnds(r)
      PROVE  StoreUsable'
  <2>1. UNCHANGED <<closed, cur>>
    BY <1>9 DEF DrainStarts, DrainEnds, CopyStarts, CopyEnds, mgrVars
  <2>2. CASE at' = at BY <1>2, <2>1, <2>2
  <2>3. CASE at' # at
    <3>1. \E to \in {"draining", "copy queued", "copying", "installing"} :
             /\ at' = [at EXCEPT ![r] = to]
             /\ at[r] \in {"drain queued", "draining", "copy queued", "copying"}
      BY <1>9, <2>3 DEF DrainStarts, DrainEnds, CopyStarts, CopyEnds, Steps
    <3> QED BY <1>5, <2>1, <3>1
  <2> QED BY <2>2, <2>3
<1>10. ASSUME UNCHANGED vars PROVE StoreUsable'
  BY <1>2, <1>10 DEF vars, coroVars, mgrVars
<1> QED BY <1>1, <1>2, <1>3, <1>4, <1>6, <1>7, <1>8, <1>9, <1>10 DEF Next, CoroStep

(* If no restore is cancelled, the store is closed only while a swap is at work,
   or for good after the teardown.                                          *)
THEOREM StoreUsableAlways ==
  ASSUME Cancellable \cap Restores = {}
  PROVE  Spec => []StoreUsable
BY PoolInvHolds, UsableInit, UsableStep, PTL DEF Spec
=============================================================================
