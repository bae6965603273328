----------------------------- MODULE Tasks_proofs -----------------------------
(***************************************************************************)
(* Theorems about the two components that keep tasks: Bridge, for any      *)
(* resources and operations, any mode of the watcher and any number of     *)
(* cancels, removals and restarts; then TaskControl, for any ids, jobs and *)
(* requests, and any number of crashes and undos.                          *)
(***************************************************************************)
EXTENDS Bridge, TaskControl, TLAPS

(***************************************************************************)
(* Bridge.                                                                 *)
(***************************************************************************)

(* A transfer of the resource has stored its file on the netdisk. *)
Stored(r) == \E t \in landed : subject[t] = r

(* A watcher that judges has a row left, and one that writes has a verdict. *)
WellWatched ==
  \A w \in Watchers : /\ watch[w] = "judge" => rows[w] # {}
                      /\ watch[w] = "write" => verdict[w] # NoVerdict

(* A row, a copy of one and the path an operation chose are of the resource whose
   transfer they tell of, whatever has replaced the row meanwhile. *)
OwnRows ==
  /\ \A r \in Resources : row[r].state # "none" => subject[row[r].task] = r
  /\ \A w \in Watchers : \A a \in rows[w] : subject[a.task] = a.res
  /\ \A o \in OutOps : goal[o][1] = subject[o]

(* What the netdisk shows is what was stored: the state of a task, the copy of it
   that a watcher holds, and the file at a path, renamed or not. *)
ShownIsStored ==
  /\ \A t \in Tasks : ext[t] = "succeeded" => t \in landed
  /\ \A w \in Watchers, t \in Tasks : lists[w][t] = "succeeded" => t \in landed
  /\ \A p \in Paths : file[p] # "none" => Stored(p[1])

(* So is what a watcher is about to write, and what the rows say. *)
SaidIsStored ==
  /\ \A w \in Watchers : verdict[w].state = "done" => Stored(verdict[w].row.res)
  /\ \A r \in Resources : row[r].state = "done" => Stored(r)

(* The same of a delivery to the group: its upload, its fetch and its row. *)
Delivery ==
  /\ \A i \in InOps : inAt[i] = "uploaded" => i \in delivered
  /\ \A i \in InOps : inAt[i] \in {"new", "queued", "uploaded", "fetch"} => fetch[i] = "none"
  /\ \A i \in InOps : fetch[i] = "done" => i \in delivered
  /\ \A i \in events : fetch[i] \in {"done", "failed"}
  /\ inRow.task # "none" => inRow.op = inRow.task
  /\ inRow.state = "done" => inRow.op \in delivered

BridgeInv ==
  TypeOK /\ WellWatched /\ OwnRows /\ ShownIsStored /\ SaidIsStored /\ Delivery /\ NamesHonest

-----------------------------------------------------------------------------
(* Facts about the operators of the model. *)
LEMMA TransferFacts ==
  ASSUME NEW a \in Transfers
  PROVE  /\ a.res \in Resources /\ a.task \in Tasks /\ a.state \in RowStates
         /\ a.path \in Paths /\ a.path[1] = a.res
         /\ a.state # "none"
BY DEF Transfers, RowOf, Paths, RowStates, Actionable

LEMMA TaskIsNoPath == \A t \in Tasks : t \notin Paths
BY BridgeAssumption DEF Tasks, Paths, Kinds

LEMMA NoneIsNoTask == "none" \notin Tasks
BY BridgeAssumption DEF Tasks

LEMMA RowFacts ==
  ASSUME TypeOK, NEW r \in Resources
  PROVE  /\ row[r] \in Transfers \/ row[r] = NoRow(r)
         /\ row[r].state # "none" => row[r] \in Transfers
         /\ row[r].task \in Tasks => row[r] \in Transfers
BY TransferFacts, NoneIsNoTask DEF TypeOK, NoRow

LEMMA StateFacts ==
  ASSUME NEW a \in Transfers, NEW s \in RowStates
  PROVE  /\ [a EXCEPT !.state = s] \in Transfers
         /\ [a EXCEPT !.state = s].res = a.res
         /\ [a EXCEPT !.state = s].task = a.task
         /\ [a EXCEPT !.state = s].state = s
BY DEF Transfers, RowOf

LEMMA ByKeyFacts ==
  ASSUME TypeOK, NEW a \in Transfers, NEW s \in RowStates
  PROVE  /\ ByKey(a, s) \in [Resources -> Transfers \cup {NoRow(r) : r \in Resources}]
         /\ \A r \in Resources : /\ ByKey(a, s)[r].res = r
                                 /\ ByKey(a, s)[r].task = row[r].task
                                 /\ ByKey(a, s)[r].state = "none" <=> row[r].state = "none"
                                 /\ \/ ByKey(a, s)[r].state = row[r].state
                                    \/ r = a.res /\ ByKey(a, s)[r].state = s
<1>1. a.res \in Resources BY TransferFacts
<1>2. CASE row[a.res].state = "none" BY <1>2 DEF ByKey, TypeOK
<1>3. CASE row[a.res].state # "none"
  <2>1. row[a.res] \in Transfers BY <1>1, <1>3, RowFacts
  <2>2. ByKey(a, s) = [row EXCEPT ![a.res] = [row[a.res] EXCEPT !.state = s]]
    BY <1>1, <1>3 DEF ByKey
  <2>3. s # "none" BY DEF RowStates, Actionable
  <2> HIDE DEF Transfers, ByKey
  <2> QED BY <1>1, <1>3, <2>1, <2>2, <2>3, StateFacts DEF TypeOK
<1> QED BY <1>2, <1>3

LEMMA ByTaskFacts ==
  ASSUME TypeOK, NEW t \in Tasks
  PROVE  /\ ByTask(t, "pending") \in [Resources -> Transfers \cup {NoRow(r) : r \in Resources}]
         /\ \A r \in Resources : /\ ByTask(t, "pending")[r].res = r
                                 /\ ByTask(t, "pending")[r].task = row[r].task
                                 /\ ByTask(t, "pending")[r].state \in {row[r].state, "pending"}
                                 /\ row[r].state = "none" => ByTask(t, "pending")[r].state = "none"
<1> DEFINE new == ByTask(t, "pending")
<1>1. "pending" \in RowStates BY DEF RowStates, Actionable
<1>2. ASSUME NEW r \in Resources
      PROVE  /\ new[r] \in Transfers \cup {NoRow(q) : q \in Resources}
             /\ new[r].res = r /\ new[r].task = row[r].task
             /\ new[r].state \in {row[r].state, "pending"}
             /\ row[r].state = "none" => new[r].state = "none"
  <2>1. CASE row[r].task = t
    <3>1. row[r] \in Transfers /\ row[r].state # "none" BY <2>1, RowFacts, TransferFacts
    <3>2. new[r] = [row[r] EXCEPT !.state = "pending"] BY <2>1 DEF ByTask
    <3> HIDE DEF Transfers, new
    <3> QED BY <1>1, <3>1, <3>2, StateFacts DEF TypeOK
  <2>2. CASE row[r].task # t BY <2>2 DEF ByTask, TypeOK
  <2> QED BY <2>1, <2>2
<1>3. new = [r \in Resources |-> new[r]] BY DEF ByTask
<1> HIDE DEF new
<1> QED BY <1>2, <1>3 DEF new

LEMMA RemovesFiles ==
  ASSUME TypeOK, UserRemoves PROVE \A p \in Paths : file'[p] \in {file[p], "none"}
<1>1. file' = file \/ \E n \in Names : file' = [file EXCEPT ![n] = "none"] BY DEF UserRemoves
<1>2. file \in [Names -> Tasks \cup {"none"}] BY DEF TypeOK
<1> QED BY <1>1, <1>2 DEF Names

LEMMA WatchedRows ==
  ASSUME TypeOK
  PROVE  RowsToWatch \subseteq Transfers /\ \A a \in RowsToWatch : a = row[a.res] /\ a.state # "none"
BY RowFacts DEF RowsToWatch, Actionable, TypeOK

LEMMA FirstIsMember == \A s : s # {} => First(s) \in s
BY DEF First

(* What a watcher makes of a task it saw: it says done only of one that it saw
   succeeded or whose file it found. *)
LEMMA JudgementFacts ==
  ASSUME TypeOK, NEW w \in Watchers, NEW a \in Transfers
  PROVE  LET seen == IF AsksOnce(w) THEN lists[w][a.task] ELSE Listed(a.task)
             s == Judgement(w, a, seen)
         IN  /\ s \in RowStates \cup {"none"}
             /\ s = "done" => seen = "succeeded" \/ file[a.path] # "none"
<1> DEFINE seen == IF AsksOnce(w) THEN lists[w][a.task] ELSE Listed(a.task)
<1>1. a.task \in Tasks BY TransferFacts
<1>2. seen \in {"missing", "undone", "odd", "succeeded", "failed", "canceled"}
  BY <1>1 DEF TypeOK, Listed
<1>3. seen # "missing" => /\ FromExternal(seen) \in RowStates
                          /\ FromExternal(seen) = "done" => seen = "succeeded"
  BY <1>2 DEF FromExternal, RowStates, Actionable
<1> HIDE DEF seen
<1>4. /\ Judgement(w, a, seen) \in RowStates \cup {"none"}
      /\ Judgement(w, a, seen) = "done" => seen = "succeeded" \/ file[a.path] # "none"
  BY <1>3 DEF Judgement, RowStates
<1> QED BY <1>4 DEF seen

-----------------------------------------------------------------------------
LEMMA TypesInit == ASSUME Init PROVE TypeOK
<1>1. PICK c \in Scenarios :
        /\ subject = c.subject /\ auto = c.auto
        /\ at = [o \in OutOps |-> IF o \in c.calls THEN "new" ELSE "end"]
        /\ inAt = [i \in InOps |-> IF i \in c.calls THEN "new" ELSE "end"]
  BY DEF Init
<1>2. subject \in [OutOps -> Resources] /\ auto \in BOOLEAN
  BY <1>1, BridgeAssumption
<1>3. goal \in [OutOps -> Paths] BY <1>2 DEF Init, Paths, Kinds
<1>4. row \in [Resources -> Transfers \cup {NoRow(r) : r \in Resources}]
      /\ \A r \in Resources : row[r].res = r
  BY DEF Init, NoRow
<1>5. lists \in [Watchers -> [Tasks -> {"missing", "undone", "odd", "succeeded", "failed", "canceled"}]]
      /\ verdict \in [Watchers -> [row : Transfers, state : RowStates] \cup {NoVerdict}]
  BY DEF Init, NoLists
<1>6. /\ at \in [OutOps -> {"new", "queued", "verify", "submit", "record", "end"}]
      /\ inAt \in [InOps -> {"new", "queued", "uploaded", "fetch", "record", "end"}]
  BY <1>1
<1>7. /\ indexed \subseteq Resources
      /\ ext \in [Tasks -> {"none", "undone", "odd", "succeeded", "failed", "canceled", "cleared"}]
      /\ file \in [Names -> Tasks \cup {"none"}]
      /\ watch \in [Watchers -> {"off", "start", "ask", "judge", "write", "inbound"}]
      /\ rows \in [Watchers -> SUBSET Transfers]
      /\ misses \in [Tasks -> 0..2] /\ flips \subseteq Tasks
  BY DEF Init
<1>8. /\ inRow \in [task : InOps \cup {"none"}, op : InOps \cup {"none"},
                   state : {"none", "pending", "done", "failed"}]
      /\ fetch \in [InOps -> {"none", "queued", "done", "failed"}]
      /\ tracked \subseteq InOps /\ events \subseteq InOps
      /\ consumer \in BOOLEAN /\ capable \in BOOLEAN
      /\ landed \subseteq Tasks /\ delivered \subseteq InOps
  BY DEF Init
<1> QED BY <1>2, <1>3, <1>4, <1>5, <1>6, <1>7, <1>8 DEF TypeOK

LEMMA TypesStep == ASSUME BridgeInv, Next PROVE TypeOK'
<1> USE DEF BridgeInv
<1> HIDE DEF Transfers, RowStates
<1>1. ASSUME NEW o \in OutOps, SubmitOut(o) PROVE TypeOK'
  <2>1. Armed(watch) \in [Watchers -> {"off", "start", "ask", "judge", "write", "inbound"}]
    BY DEF Armed, TypeOK, Watchers
  <2> QED BY <1>1, <2>1 DEF SubmitOut, outVars, farVars, watchVars, inVars, envVars, TypeOK
<1>2. ASSUME NEW o \in OutOps, OutLooks(o) PROVE TypeOK'
  <2>1. row[subject[o]].state # "none" => row[subject[o]].path \in Paths
    BY RowFacts, TransferFacts DEF TypeOK
  <2> QED BY <1>2, <2>1 DEF OutLooks, outVars, farVars, watchVars, inVars, envVars, TypeOK, Tasks
<1>3. ASSUME NEW o \in OutOps, OutVerifies(o) PROVE TypeOK'
  <2>1. subject[o] \in Resources /\ NoRow(subject[o]).res = subject[o] BY DEF TypeOK, NoRow
  <2>2. \/ at' = [at EXCEPT ![o] = "submit"] /\ row' = [row EXCEPT ![subject[o]] = NoRow(subject[o])]
        \/ at' = [at EXCEPT ![o] = "end"] /\ row' = row
    BY <1>3 DEF OutVerifies
  <2>3. row' \in [Resources -> Transfers \cup {NoRow(r) : r \in Resources}]
        /\ \A r \in Resources : row'[r].res = r
    <3>1. NoRow(subject[o]) \in Transfers \cup {NoRow(r) : r \in Resources} BY <2>1
    <3> DEFINE R == Transfers \cup {NoRow(r) : r \in Resources}
               n == NoRow(subject[o])
    <3>2. row \in [Resources -> R] /\ \A r \in Resources : row[r].res = r BY DEF TypeOK
    <3>3. n \in R /\ n.res = subject[o] /\ subject[o] \in Resources BY <2>1, <3>1
    <3>4. row' = [row EXCEPT ![subject[o]] = n] \/ row' = row BY <2>2
    <3> HIDE DEF R, n
    <3>5. row' \in [Resources -> R] /\ \A r \in Resources : row'[r].res = r
      BY <3>2, <3>3, <3>4
    <3> QED BY <3>5 DEF R
  <2>4. at' \in [OutOps -> {"new", "queued", "verify", "submit", "record", "end"}]
    <3>1. at \in [OutOps -> {"new", "queued", "verify", "submit", "record", "end"}] BY DEF TypeOK
    <3> QED BY <2>2, <3>1
  <2> QED BY <1>3, <2>3, <2>4 DEF OutVerifies, farVars, watchVars, inVars, envVars, TypeOK
<1>4. ASSUME NEW o \in OutOps, OutSubmits(o) PROVE TypeOK'
  <2>1. Intended(subject[o]) \in Paths BY DEF Intended, Paths, Kinds, TypeOK
  <2>2. at' \in [OutOps -> {"new", "queued", "verify", "submit", "record", "end"}]
        /\ goal' \in [OutOps -> Paths]
    BY <1>4, <2>1 DEF OutSubmits, TypeOK
  <2>3. ext' \in [Tasks -> {"none", "undone", "odd", "succeeded", "failed", "canceled", "cleared"}]
    <3>1. ext \in [Tasks -> {"none", "undone", "odd", "succeeded", "failed", "canceled", "cleared"}]
      BY DEF TypeOK
    <3> QED BY <1>4, <3>1 DEF OutSubmits
  <2> QED BY <1>4, <2>2, <2>3 DEF OutSubmits, watchVars, inVars, envVars, TypeOK
<1>5. ASSUME NEW o \in OutOps, OutRecords(o) PROVE TypeOK'
  <2>1. Recorded(o) \in Transfers /\ Recorded(o).res = subject[o] /\ subject[o] \in Resources
    BY DEF Recorded, TypeOK, OwnRows, Transfers, RowOf, Tasks, Paths,
       RowStates, Actionable
  <2> QED BY <1>5, <2>1 DEF OutRecords, outVars, farVars, watchVars, inVars, envVars, TypeOK
<1>6. ASSUME NEW t \in Tasks, RemoteStores(t) PROVE TypeOK'
  <2>1. \A n \in {t, <<subject[t], "plain">>} : [file EXCEPT ![n] = t] \in [Names -> Tasks \cup {"none"}]
    BY DEF TypeOK
  <2>2. file' \in [Names -> Tasks \cup {"none"}] BY <1>6, <2>1 DEF RemoteStores
  <2>3. ext' \in [Tasks -> {"none", "undone", "odd", "succeeded", "failed", "canceled", "cleared"}]
        /\ landed' \subseteq Tasks
    BY <1>6 DEF RemoteStores, TypeOK
  <2> QED BY <1>6, <2>2, <2>3 DEF RemoteStores, outVars, watchVars, inVars, envVars, TypeOK
<1>7. ASSUME NEW t \in Tasks, RemoteFails(t) PROVE TypeOK'
  BY <1>7 DEF RemoteFails, outVars, watchVars, inVars, envVars, TypeOK
<1>8. ASSUME NEW t \in Tasks, RemoteHides(t) PROVE TypeOK'
  BY <1>8 DEF RemoteHides, outVars, watchVars, inVars, TypeOK
<1>9. ASSUME NEW t \in Tasks, Control(t) PROVE TypeOK'
  <2>1. ext \in [Tasks -> {"none", "undone", "odd", "succeeded", "failed", "canceled", "cleared"}]
        /\ flips \subseteq Tasks
    BY DEF TypeOK
  <2>2. ext' \in [Tasks -> {"none", "undone", "odd", "succeeded", "failed", "canceled", "cleared"}]
        /\ flips' \subseteq Tasks
    BY <1>9, <2>1 DEF Control
  <2> QED BY <1>9, <2>2 DEF Control, outVars, watchVars, inVars, TypeOK
<1>10. ASSUME NEW t \in Tasks, Flip(t) PROVE TypeOK'
  <2>1. ByTask(t, "pending") \in [Resources -> Transfers \cup {NoRow(r) : r \in Resources}]
        /\ \A r \in Resources : ByTask(t, "pending")[r].res = r
    BY ByTaskFacts
  <2> QED BY <1>10, <2>1 DEF Flip, Armed, outVars, farVars, inVars, envVars, TypeOK, Watchers
<1>11. CASE UserRemoves
  <2>1. file' \in [Names -> Tasks \cup {"none"}] /\ indexed' \subseteq Resources
    BY <1>11 DEF UserRemoves, TypeOK
  <2> QED BY <1>11, <2>1 DEF UserRemoves, outVars, watchVars, inVars, TypeOK
<1>12. CASE LoopSleeps
  <2>1. RowsToWatch \subseteq Transfers BY WatchedRows
  <2> QED BY <1>12, <2>1 DEF LoopSleeps, outVars, farVars, inVars, envVars, TypeOK, Watchers
<1>13. CASE SweepExpires
  BY <1>13 DEF SweepExpires, outVars, farVars, watchVars, inVars, envVars,
     TypeOK
<1>14. CASE ReaderReads
  <2>1. \A a \in RowsToWatch : {a} \subseteq Transfers BY WatchedRows
  <2> QED BY <1>14, <2>1 DEF ReaderReads, outVars, farVars, inVars, envVars, TypeOK, Watchers
<1>15. ASSUME NEW w \in Watchers, Asks(w) PROVE TypeOK'
  <2>1. \A t \in Tasks : Listed(t) \in {"missing", "undone", "odd", "succeeded", "failed", "canceled"}
    BY DEF Listed, TypeOK
  <2>2. After(w) \in {"off", "start", "inbound"} BY DEF After
  <2> QED BY <1>15, <2>1, <2>2 DEF Asks, NoLists, outVars, farVars, inVars, envVars, TypeOK
<1>16. ASSUME NEW w \in Watchers, NoAnswer(w) PROVE TypeOK'
  <2>1. After(w) \in {"off", "start", "inbound"} BY DEF After
  <2> QED BY <1>16, <2>1 DEF NoAnswer, outVars, farVars, inVars, envVars, TypeOK
<1>17. ASSUME NEW w \in Watchers, Judges(w) PROVE TypeOK'
  <2> DEFINE a == First(rows[w])
             seen == IF AsksOnce(w) THEN lists[w][a.task] ELSE Listed(a.task)
             s == Judgement(w, a, seen)
             quiet == s = "none" \/ (s = a.state /\ ~AsksOnce(w))
  <2>1. a \in Transfers /\ a.task \in Tasks
    BY <1>17, FirstIsMember, TransferFacts DEF Judges, WellWatched, TypeOK
  <2>2. s \in RowStates \cup {"none"} BY <2>1, JudgementFacts DEF TypeOK
  <2>3. /\ rows' = [rows EXCEPT ![w] = @ \ {a}]
        /\ misses' = misses \/ misses' = [misses EXCEPT ![a.task] = (@ + 1) % 3]
        /\ verdict' = [verdict EXCEPT ![w] = IF quiet THEN NoVerdict ELSE [row |-> a, state |-> s]]
        /\ watch' = [watch EXCEPT ![w] = IF quiet THEN Onward(w, rows'[w]) ELSE "write"]
        /\ lists' = lists \/ lists' = [lists EXCEPT ![w] = NoLists]
        /\ UNCHANGED <<outVars, farVars, inVars, envVars, flips>>
    BY <1>17 DEF Judges
  <2>4. Onward(w, rows'[w]) \in {"off", "start", "inbound", "judge", "ask"} BY DEF Onward, After
  <2>5. misses' \in [Tasks -> 0..2] BY <2>1, <2>3 DEF TypeOK
  <2>6. verdict' \in [Watchers -> [row : Transfers, state : RowStates] \cup {NoVerdict}]
    BY <2>1, <2>2, <2>3 DEF TypeOK
  <2>7. rows' \in [Watchers -> SUBSET Transfers] BY <2>3 DEF TypeOK
  <2>8. watch' \in [Watchers -> {"off", "start", "ask", "judge", "write", "inbound"}]
    BY <2>3, <2>4 DEF TypeOK
  <2>9. lists' \in [Watchers -> [Tasks -> {"missing", "undone", "odd", "succeeded", "failed", "canceled"}]]
    BY <2>3 DEF TypeOK, NoLists
  <2> QED BY <2>3, <2>5, <2>6, <2>7, <2>8, <2>9 DEF outVars, farVars, inVars, envVars, TypeOK
<1>18. ASSUME NEW w \in Watchers, Writes(w) PROVE TypeOK'
  <2> DEFINE v == verdict[w]
  <2>1. v.row \in Transfers /\ v.state \in RowStates BY <1>18 DEF Writes, WellWatched, TypeOK
  <2>2. /\ row' = ByKey(v.row, v.state)
        /\ file' = file \/ Renames(v.row)
        /\ verdict' = [verdict EXCEPT ![w] = NoVerdict]
        /\ lists' = lists \/ lists' = [lists EXCEPT ![w] = NoLists]
        /\ watch' = [watch EXCEPT ![w] = Onward(w, rows[w])]
        /\ UNCHANGED <<at, goal, ext, landed, rows, misses, inVars, envVars, flips>>
    BY <1>18 DEF Writes
  <2>3. row' \in [Resources -> Transfers \cup {NoRow(r) : r \in Resources}]
        /\ \A r \in Resources : row'[r].res = r
    BY <2>1, <2>2, ByKeyFacts
  <2>4. file' \in [Names -> Tasks \cup {"none"}]
    <3>1. v.row.path \in Names BY <2>1, TransferFacts DEF Names
    <3>2. CASE file' = file BY <3>2 DEF TypeOK
    <3>3. ASSUME NEW n \in Names, file' = [file EXCEPT ![n] = "none", ![v.row.path] = file[n]]
          PROVE file' \in [Names -> Tasks \cup {"none"}]
      BY <3>1, <3>3 DEF TypeOK
    <3> QED BY <2>2, <3>2, <3>3 DEF Renames
  <2>5. Onward(w, rows[w]) \in {"off", "start", "inbound", "judge", "ask"} BY DEF Onward, After
  <2>6. lists' \in [Watchers -> [Tasks -> {"missing", "undone", "odd", "succeeded", "failed", "canceled"}]]
    <3>1. NoLists \in [Tasks -> {"missing", "undone", "odd", "succeeded", "failed", "canceled"}]
      BY DEF NoLists
    <3>2. lists \in [Watchers -> [Tasks -> {"missing", "undone", "odd", "succeeded", "failed", "canceled"}]]
      BY DEF TypeOK
    <3> QED BY <2>2, <3>1, <3>2
  <2>7. verdict' \in [Watchers -> [row : Transfers, state : RowStates] \cup {NoVerdict}]
        /\ watch' \in [Watchers -> {"off", "start", "ask", "judge", "write", "inbound"}]
    BY <2>2, <2>5 DEF TypeOK
  <2> QED BY <2>2, <2>3, <2>4, <2>6, <2>7 DEF inVars, envVars, TypeOK
<1>19. ASSUME NEW i \in InOps, SubmitIn(i) PROVE TypeOK'
  <2>1. Armed(watch) \in [Watchers -> {"off", "start", "ask", "judge", "write", "inbound"}]
    BY DEF Armed, TypeOK, Watchers
  <2> QED BY <1>19, <2>1 DEF SubmitIn, outVars, farVars, watchVars, inVars, envVars, TypeOK
<1>20. ASSUME NEW i \in InOps, InUploads(i) PROVE TypeOK'
  <2>1. inAt' \in [InOps -> {"new", "queued", "uploaded", "fetch", "record", "end"}]
        /\ fetch' \in [InOps -> {"none", "queued", "done", "failed"}]
    <3>1. inAt \in [InOps -> {"new", "queued", "uploaded", "fetch", "record", "end"}]
          /\ fetch \in [InOps -> {"none", "queued", "done", "failed"}]
      BY DEF TypeOK
    <3> QED BY <1>20, <3>1 DEF InUploads
  <2>2. /\ tracked' \subseteq InOps /\ events' \subseteq InOps
        /\ consumer' \in BOOLEAN /\ capable' \in BOOLEAN /\ delivered' \subseteq InOps
    <3>1. /\ tracked \subseteq InOps /\ events \subseteq InOps
          /\ consumer \in BOOLEAN /\ capable \in BOOLEAN /\ delivered \subseteq InOps
      BY DEF TypeOK
    <3> QED BY <1>20, <3>1 DEF InUploads
  <2>3. inRow' \in [task : InOps \cup {"none"}, op : InOps \cup {"none"},
                    state : {"none", "pending", "done", "failed"}]
    <3>1. inRow \in [task : InOps \cup {"none"}, op : InOps \cup {"none"},
                     state : {"none", "pending", "done", "failed"}]
      BY DEF TypeOK
    <3> QED BY <1>20, <3>1 DEF InUploads
  <2> QED BY <1>20, <2>1, <2>2, <2>3 DEF InUploads, outVars, farVars, watchVars, envVars, TypeOK
<1>21. ASSUME NEW i \in InOps, InRecordsUpload(i) PROVE TypeOK'
  <2>1. inAt' \in [InOps -> {"new", "queued", "uploaded", "fetch", "record", "end"}]
        /\ fetch' \in [InOps -> {"none", "queued", "done", "failed"}]
    <3>1. inAt \in [InOps -> {"new", "queued", "uploaded", "fetch", "record", "end"}]
          /\ fetch \in [InOps -> {"none", "queued", "done", "failed"}]
      BY DEF TypeOK
    <3> QED BY <1>21, <3>1 DEF InRecordsUpload
  <2>2. /\ tracked' \subseteq InOps /\ events' \subseteq InOps
        /\ consumer' \in BOOLEAN /\ capable' \in BOOLEAN /\ delivered' \subseteq InOps
    <3>1. /\ tracked \subseteq InOps /\ events \subseteq InOps
          /\ consumer \in BOOLEAN /\ capable \in BOOLEAN /\ delivered \subseteq InOps
      BY DEF TypeOK
    <3> QED BY <1>21, <3>1 DEF InRecordsUpload
  <2>3. inRow' \in [task : InOps \cup {"none"}, op : InOps \cup {"none"},
                    state : {"none", "pending", "done", "failed"}]
    <3>1. inRow \in [task : InOps \cup {"none"}, op : InOps \cup {"none"},
                     state : {"none", "pending", "done", "failed"}]
      BY DEF TypeOK
    <3> QED BY <1>21, <3>1 DEF InRecordsUpload
  <2> QED BY <1>21, <2>1, <2>2, <2>3 DEF InRecordsUpload, outVars, farVars, watchVars, envVars, TypeOK
<1>22. ASSUME NEW i \in InOps, InFetches(i) PROVE TypeOK'
  <2>1. inAt' \in [InOps -> {"new", "queued", "uploaded", "fetch", "record", "end"}]
        /\ fetch' \in [InOps -> {"none", "queued", "done", "failed"}]
    <3>1. inAt \in [InOps -> {"new", "queued", "uploaded", "fetch", "record", "end"}]
          /\ fetch \in [InOps -> {"none", "queued", "done", "failed"}]
      BY DEF TypeOK
    <3> QED BY <1>22, <3>1 DEF InFetches
  <2>2. /\ tracked' \subseteq InOps /\ events' \subseteq InOps
        /\ consumer' \in BOOLEAN /\ capable' \in BOOLEAN /\ delivered' \subseteq InOps
    <3>1. /\ tracked \subseteq InOps /\ events \subseteq InOps
          /\ consumer \in BOOLEAN /\ capable \in BOOLEAN /\ delivered \subseteq InOps
      BY DEF TypeOK
    <3> QED BY <1>22, <3>1 DEF InFetches
  <2>3. inRow' \in [task : InOps \cup {"none"}, op : InOps \cup {"none"},
                    state : {"none", "pending", "done", "failed"}]
    <3>1. inRow \in [task : InOps \cup {"none"}, op : InOps \cup {"none"},
                     state : {"none", "pending", "done", "failed"}]
      BY DEF TypeOK
    <3> QED BY <1>22, <3>1 DEF InFetches
  <2> QED BY <1>22, <2>1, <2>2, <2>3 DEF InFetches, outVars, farVars, watchVars, envVars, TypeOK
<1>23. ASSUME NEW i \in InOps, InRecords(i) PROVE TypeOK'
  BY <1>23 DEF InRecords, outVars, farVars, watchVars, envVars, TypeOK
<1>24. ASSUME NEW i \in InOps, FetchEnds(i) PROVE TypeOK'
  BY <1>24 DEF FetchEnds, outVars, farVars, watchVars, envVars, TypeOK
<1>25. ASSUME NEW i \in InOps, Consumes(i) PROVE TypeOK'
  <2>1. fetch[i] \in {"done", "failed"} BY <1>25 DEF Consumes, Delivery
  <2>2. inRow' \in [task : InOps \cup {"none"}, op : InOps \cup {"none"},
                    state : {"none", "pending", "done", "failed"}]
    BY <1>25, <2>1 DEF Consumes, TypeOK
  <2> QED BY <1>25, <2>2 DEF Consumes, outVars, farVars, watchVars, envVars, TypeOK
<1>26. CASE Restart
  <2>1. at' \in [OutOps -> {"new", "queued", "verify", "submit", "record", "end"}]
        /\ inAt' \in [InOps -> {"new", "queued", "uploaded", "fetch", "record", "end"}]
        /\ fetch' \in [InOps -> {"none", "queued", "done", "failed"}]
    BY <1>26 DEF Restart, TypeOK
  <2>2. lists' \in [Watchers -> [Tasks -> {"missing", "undone", "odd", "succeeded", "failed", "canceled"}]]
        /\ watch' \in [Watchers -> {"off", "start", "ask", "judge", "write", "inbound"}]
    BY <1>26 DEF Restart, NoLists
  <2>3. verdict' \in [Watchers -> [row : Transfers, state : RowStates] \cup {NoVerdict}]
        /\ rows' \in [Watchers -> SUBSET Transfers] /\ misses' \in [Tasks -> 0..2]
    BY <1>26 DEF Restart
  <2> QED BY <1>26, <2>1, <2>2, <2>3 DEF Restart, farVars, TypeOK
<1>27. CASE RecoveryReads
  <2>1. RowsToWatch \subseteq Transfers BY WatchedRows
  <2> QED BY <1>27, <2>1 DEF RecoveryReads, outVars, farVars, inVars, envVars, TypeOK
<1>28. CASE RecoveryEnds
  <2>1. watch' \in [Watchers -> {"off", "start", "ask", "judge", "write", "inbound"}]
    BY <1>28 DEF RecoveryEnds, Armed, TypeOK, Watchers
  <2>2. inRow' \in [task : InOps \cup {"none"}, op : InOps \cup {"none"},
                    state : {"none", "pending", "done", "failed"}]
    BY <1>28 DEF RecoveryEnds, TypeOK
  <2> QED BY <1>28, <2>1, <2>2 DEF RecoveryEnds, outVars, farVars, envVars, TypeOK
<1> QED
  BY <1>1, <1>2, <1>3, <1>4, <1>5, <1>6, <1>7, <1>8, <1>9, <1>10, <1>11, <1>12,
     <1>13, <1>14,
     <1>15, <1>16, <1>17, <1>18, <1>19, <1>20, <1>21, <1>22, <1>23, <1>24, <1>25, <1>26, <1>27,
     <1>28 DEF Next, outVars, farVars, watchVars, inVars, envVars, TypeOK

LEMMA WellWatchedStep == ASSUME BridgeInv, Next PROVE WellWatched'
<1> USE DEF BridgeInv
<1> HIDE DEF Transfers, RowStates
<1>1. ASSUME NEW o \in OutOps, SubmitOut(o) PROVE WellWatched'
  <2>1. watch' = Armed(watch) /\ UNCHANGED <<rows, verdict>> BY <1>1 DEF SubmitOut, watchVars
  <2> QED BY <2>1 DEF Armed, WellWatched, TypeOK, Watchers
<1>2. ASSUME NEW t \in Tasks, Flip(t) PROVE WellWatched'
  <2>1. watch' = Armed(watch) /\ UNCHANGED <<rows, verdict>> BY <1>2 DEF Flip, watchVars
  <2> QED BY <2>1 DEF Armed, WellWatched, TypeOK, Watchers
<1>3. CASE LoopSleeps
  BY <1>3 DEF LoopSleeps, WellWatched
<1>4. CASE SweepExpires
  BY <1>4 DEF SweepExpires, WellWatched
<1>5. CASE ReaderReads
  BY <1>5 DEF ReaderReads, WellWatched
<1>6. ASSUME NEW w \in Watchers, Asks(w) PROVE WellWatched'
  BY <1>6 DEF Asks, After, WellWatched
<1>7. ASSUME NEW w \in Watchers, NoAnswer(w) PROVE WellWatched'
  BY <1>7 DEF NoAnswer, After, WellWatched
<1>8. ASSUME NEW w \in Watchers, Judges(w) PROVE WellWatched'
  <2> DEFINE a == First(rows[w])
             s == Judgement(w, a, IF AsksOnce(w) THEN lists[w][a.task] ELSE Listed(a.task))
             quiet == s = "none" \/ (s = a.state /\ ~AsksOnce(w))
  <2>1. /\ rows' = [rows EXCEPT ![w] = @ \ {a}]
        /\ verdict' = [verdict EXCEPT ![w] = IF quiet THEN NoVerdict ELSE [row |-> a, state |-> s]]
        /\ watch' = [watch EXCEPT ![w] = IF quiet THEN Onward(w, rows'[w]) ELSE "write"]
        /\ s # "none" \/ quiet
    BY <1>8 DEF Judges
  <2> HIDE DEF a, s, quiet
  <2>2. ~quiet => [row |-> a, state |-> s] # NoVerdict BY <2>1 DEF NoVerdict
  <2>3. Onward(w, rows'[w]) = "judge" => rows'[w] # {} BY DEF Onward, After
  <2>4. Onward(w, rows'[w]) # "write" BY DEF Onward, After
  <2> QED BY <2>1, <2>2, <2>3, <2>4 DEF WellWatched, TypeOK
<1>9. ASSUME NEW w \in Watchers, Writes(w) PROVE WellWatched'
  <2>1. /\ verdict' = [verdict EXCEPT ![w] = NoVerdict] /\ rows' = rows
        /\ watch' = [watch EXCEPT ![w] = Onward(w, rows[w])]
    BY <1>9 DEF Writes
  <2>2. Onward(w, rows[w]) = "judge" => rows[w] # {} BY DEF Onward, After
  <2>3. Onward(w, rows[w]) # "write" BY DEF Onward, After
  <2> QED BY <2>1, <2>2, <2>3 DEF WellWatched, TypeOK
<1>10. ASSUME NEW i \in InOps, SubmitIn(i) PROVE WellWatched'
  <2>1. watch' = Armed(watch) /\ UNCHANGED <<rows, verdict>> BY <1>10 DEF SubmitIn, watchVars
  <2> QED BY <2>1 DEF Armed, WellWatched, TypeOK, Watchers
<1>11. CASE Restart
  BY <1>11 DEF Restart, WellWatched
<1>12. CASE RecoveryReads
  BY <1>12 DEF RecoveryReads, WellWatched
<1>13. CASE RecoveryEnds
  <2>1. /\ \A x \in Watchers : watch'[x] \in {watch[x], "off", "start"}
        /\ UNCHANGED <<rows, verdict>>
    BY <1>13 DEF RecoveryEnds, Armed, TypeOK
  <2> QED BY <2>1 DEF WellWatched
<1> QED
  BY <1>1, <1>2, <1>3, <1>4, <1>5, <1>6, <1>7, <1>8, <1>9, <1>10, <1>11, <1>12,
     <1>13 DEF Next, outVars, farVars, watchVars, inVars, envVars, WellWatched,
     OutLooks, OutVerifies, OutSubmits, OutRecords, RemoteStores, RemoteFails,
     RemoteHides, Control, UserRemoves, InUploads, InRecordsUpload, InFetches,
     InRecords, FetchEnds, Consumes

LEMMA OwnRowsStep == ASSUME BridgeInv, Next PROVE OwnRows'
<1> USE DEF BridgeInv
<1> HIDE DEF Transfers, RowStates
<1>1. ASSUME NEW o \in OutOps, OutLooks(o) PROVE OwnRows'
  <2>1. row[subject[o]].state # "none" => row[subject[o]].path[1] = subject[o]
    BY RowFacts, TransferFacts DEF TypeOK
  <2> QED BY <1>1, <2>1 DEF OutLooks, outVars, farVars, watchVars, envVars, OwnRows, TypeOK
<1>2. ASSUME NEW o \in OutOps, OutVerifies(o) PROVE OwnRows'
  <2>1. row' = row \/ row' = [row EXCEPT ![subject[o]] = NoRow(subject[o])] BY <1>2 DEF OutVerifies
  <2>2. NoRow(subject[o]).state = "none" BY DEF NoRow
  <2>3. UNCHANGED <<subject, rows, goal>> BY <1>2 DEF OutVerifies, watchVars, envVars
  <2>4. subject[o] \in Resources /\ DOMAIN row = Resources BY DEF TypeOK
  <2>5. \A r \in Resources : row'[r].state # "none" => row'[r] = row[r]
    <3> HIDE DEF NoRow, BridgeInv
    <3> QED BY <2>1, <2>2, <2>4
  <2> QED BY <2>3, <2>5 DEF OwnRows
<1>3. ASSUME NEW o \in OutOps, OutSubmits(o) PROVE OwnRows'
  <2>1. Intended(subject[o])[1] = subject[o] BY DEF Intended
  <2>2. \A x \in OutOps : goal'[x][1] = subject[x]
    BY <1>3, <2>1 DEF OutSubmits, OwnRows, TypeOK
  <2>3. UNCHANGED <<subject, row, rows>> BY <1>3 DEF OutSubmits, watchVars, envVars
  <2> QED BY <2>2, <2>3 DEF OwnRows
<1>4. ASSUME NEW o \in OutOps, OutRecords(o) PROVE OwnRows'
  <2>1. subject[Recorded(o).task] = subject[o] BY DEF Recorded
  <2>2. row' = [row EXCEPT ![subject[o]] = Recorded(o)] /\ UNCHANGED <<subject, rows, goal>>
    BY <1>4 DEF OutRecords, watchVars, envVars
  <2>3. subject[o] \in Resources /\ DOMAIN row = Resources BY DEF TypeOK
  <2>4. \A r \in Resources : row'[r] = row[r] \/ subject[row'[r].task] = r
    <3> TAKE r \in Resources
    <3>1. CASE r = subject[o]
      <4>1. row'[r] = Recorded(o) BY <2>2, <2>3, <3>1
      <4> QED BY <2>1, <3>1, <4>1
    <3>2. CASE r # subject[o] BY <2>2, <2>3, <3>2
    <3> QED BY <3>1, <3>2
  <2> QED BY <2>2, <2>4 DEF OwnRows
<1>5. ASSUME NEW t \in Tasks, Flip(t) PROVE OwnRows'
  <2>1. row' = ByTask(t, "pending") /\ UNCHANGED <<subject, rows, goal>> BY <1>5 DEF Flip, envVars
  <2>2. \A r \in Resources : row'[r].state # "none" => row[r].state # "none" /\ row'[r].task = row[r].task
    BY <2>1, ByTaskFacts
  <2> QED BY <2>1, <2>2 DEF OwnRows
<1>6. CASE LoopSleeps
  <2>1. \A a \in RowsToWatch : subject[a.task] = a.res BY WatchedRows, TransferFacts DEF OwnRows
  <2>2. rows' = [rows EXCEPT !["loop"] = RowsToWatch] /\ UNCHANGED <<subject, row, goal>>
    BY <1>6 DEF LoopSleeps, outVars, envVars
  <2> QED BY <2>1, <2>2 DEF OwnRows, TypeOK
<1>7. CASE ReaderReads
  <2>1. \A a \in RowsToWatch : subject[a.task] = a.res BY WatchedRows, TransferFacts DEF OwnRows
  <2>2. (\E a \in RowsToWatch : rows' = [rows EXCEPT !["reader"] = {a}]) /\ UNCHANGED <<subject, row, goal>>
    BY <1>7 DEF ReaderReads, outVars, envVars
  <2> QED BY <2>1, <2>2 DEF OwnRows, TypeOK
<1>8. ASSUME NEW w \in Watchers, NoAnswer(w) PROVE OwnRows'
  <2>1. (\A x \in Watchers : rows'[x] \subseteq rows[x]) /\ UNCHANGED <<subject, row, goal>>
    BY <1>8 DEF NoAnswer, outVars, envVars
  <2> QED BY <2>1 DEF OwnRows
<1>9. ASSUME NEW w \in Watchers, Judges(w) PROVE OwnRows'
  <2>1. (\A x \in Watchers : rows'[x] \subseteq rows[x]) /\ UNCHANGED <<subject, row, goal>>
    BY <1>9 DEF Judges, outVars, envVars
  <2> QED BY <2>1 DEF OwnRows
<1>10. ASSUME NEW w \in Watchers, Writes(w) PROVE OwnRows'
  <2>1. verdict[w].row \in Transfers /\ verdict[w].state \in RowStates
    BY <1>10 DEF Writes, WellWatched, TypeOK
  <2>2. row' = ByKey(verdict[w].row, verdict[w].state) /\ UNCHANGED <<subject, rows, goal>>
    BY <1>10 DEF Writes, envVars
  <2>3. \A r \in Resources : row'[r].state # "none" => row[r].state # "none" /\ row'[r].task = row[r].task
    BY <2>1, <2>2, ByKeyFacts
  <2> QED BY <2>2, <2>3 DEF OwnRows
<1>11. CASE Restart
  BY <1>11 DEF Restart, OwnRows
<1>12. CASE RecoveryReads
  <2>1. \A a \in RowsToWatch : subject[a.task] = a.res BY WatchedRows, TransferFacts DEF OwnRows
  <2>2. rows' = [rows EXCEPT !["recovery"] = RowsToWatch] /\ UNCHANGED <<subject, row, goal>>
    BY <1>12 DEF RecoveryReads, outVars, envVars
  <2> QED BY <2>1, <2>2 DEF OwnRows, TypeOK
<1> QED
  BY <1>1, <1>2, <1>3, <1>4, <1>5, <1>6, <1>7, <1>8, <1>9, <1>10, <1>11, <1>12
     DEF Next, outVars, farVars, watchVars, inVars, envVars, OwnRows,
     SubmitOut, RemoteStores, RemoteFails, RemoteHides, Control, UserRemoves,
     SweepExpires, Asks, SubmitIn, InUploads, InRecordsUpload, InFetches,
     InRecords, FetchEnds, Consumes, RecoveryEnds

LEMMA ShownIsStoredStep == ASSUME BridgeInv, Next PROVE ShownIsStored'
<1> USE DEF BridgeInv
<1> HIDE DEF Transfers, RowStates
<1>1. ASSUME NEW o \in OutOps, OutSubmits(o) PROVE ShownIsStored'
  <2>1. \A t \in Tasks : ext'[t] = "succeeded" => ext[t] = "succeeded" BY <1>1 DEF OutSubmits, TypeOK
  <2> QED BY <1>1, <2>1 DEF OutSubmits, watchVars, envVars, ShownIsStored, Stored
<1>2. ASSUME NEW t \in Tasks, RemoteStores(t) PROVE ShownIsStored'
  <2>1. /\ \A x \in Tasks : ext'[x] = "succeeded" => ext[x] = "succeeded" \/ x = t
        /\ landed' = landed \cup {t} /\ UNCHANGED <<subject, lists>>
    BY <1>2 DEF RemoteStores, watchVars, envVars
  <2>2. \A p \in Paths : file'[p] # "none" => file[p] # "none" \/ p = <<subject[t], "plain">>
    BY <1>2, TaskIsNoPath DEF RemoteStores
  <2>3. \A p \in Paths : file'[p] # "none" => \E x \in landed' : subject[x] = p[1]
    BY <2>1, <2>2 DEF ShownIsStored, Stored
  <2> QED BY <2>1, <2>3 DEF ShownIsStored, Stored
<1>3. ASSUME NEW t \in Tasks, RemoteFails(t) PROVE ShownIsStored'
  <2>1. \A x \in Tasks : ext'[x] = "succeeded" => ext[x] = "succeeded"
    BY <1>3 DEF RemoteFails
  <2>2. UNCHANGED <<subject, lists, file, landed>> BY <1>3 DEF RemoteFails, watchVars, envVars
  <2> QED BY <2>1, <2>2 DEF ShownIsStored, Stored
<1>4. ASSUME NEW t \in Tasks, RemoteHides(t) PROVE ShownIsStored'
  <2>1. \A x \in Tasks : ext'[x] = "succeeded" => ext[x] = "succeeded"
    BY <1>4 DEF RemoteHides, TypeOK
  <2>2. UNCHANGED <<subject, lists, file, landed>> BY <1>4 DEF RemoteHides, watchVars, envVars
  <2> QED BY <2>1, <2>2 DEF ShownIsStored, Stored
<1>5. ASSUME NEW t \in Tasks, Control(t) PROVE ShownIsStored'
  <2>1. \A x \in Tasks : ext'[x] = "succeeded" => ext[x] = "succeeded"
    BY <1>5 DEF Control, TypeOK
  <2>2. UNCHANGED <<subject, lists, file, landed>> BY <1>5 DEF Control, watchVars, envVars
  <2> QED BY <2>1, <2>2 DEF ShownIsStored, Stored
<1>6. CASE UserRemoves
  <2>1. \A p \in Paths : file'[p] # "none" => file[p] # "none" BY <1>6, RemovesFiles
  <2> QED BY <1>6, <2>1 DEF UserRemoves, watchVars, ShownIsStored, Stored
<1>7. ASSUME NEW w \in Watchers, Asks(w) PROVE ShownIsStored'
  <2>1. \A t \in Tasks : Listed(t) = "succeeded" => ext[t] = "succeeded" BY DEF Listed
  <2>2. \A t \in Tasks : NoLists[t] # "succeeded" BY DEF NoLists
  <2>3. \A x \in Watchers, t \in Tasks :
          lists'[x][t] = "succeeded" => lists[x][t] = "succeeded" \/ ext[t] = "succeeded"
    BY <1>7, <2>1, <2>2 DEF Asks
  <2>4. UNCHANGED <<subject, ext, file, landed>> BY <1>7 DEF Asks, farVars, envVars
  <2> QED BY <2>3, <2>4 DEF ShownIsStored, Stored
<1>8. ASSUME NEW w \in Watchers, Judges(w) PROVE ShownIsStored'
  <2>1. \A t \in Tasks : NoLists[t] # "succeeded" BY DEF NoLists
  <2>2. lists' = lists \/ lists' = [lists EXCEPT ![w] = NoLists] BY <1>8 DEF Judges
  <2>3. \A x \in Watchers, t \in Tasks : lists'[x][t] = "succeeded" => lists[x][t] = "succeeded"
    <3>1. lists \in [Watchers -> [Tasks -> {"missing", "undone", "odd", "succeeded", "failed", "canceled"}]]
      BY DEF TypeOK
    <3> HIDE DEF BridgeInv
    <3> QED BY <2>1, <2>2, <3>1
  <2>4. UNCHANGED <<subject, ext, file, landed>> BY <1>8 DEF Judges, farVars, envVars
  <2> QED BY <2>3, <2>4 DEF ShownIsStored, Stored
<1>9. ASSUME NEW w \in Watchers, Writes(w) PROVE ShownIsStored'
  <2>1. \A t \in Tasks : NoLists[t] # "succeeded" BY DEF NoLists
  <2>2. lists' = lists \/ lists' = [lists EXCEPT ![w] = NoLists] BY <1>9 DEF Writes
  <2>3. \A x \in Watchers, t \in Tasks : lists'[x][t] = "succeeded" => lists[x][t] = "succeeded"
    <3>1. lists \in [Watchers -> [Tasks -> {"missing", "undone", "odd", "succeeded", "failed", "canceled"}]]
      BY DEF TypeOK
    <3> HIDE DEF BridgeInv
    <3> QED BY <2>1, <2>2, <3>1
  <2>4. UNCHANGED <<subject, ext, landed>> BY <1>9 DEF Writes, envVars
  <2>5. \A p \in Paths : file'[p] # "none" => Stored(p[1])
    <3> DEFINE v == verdict[w]
    <3>1. CASE file' = file BY <3>1 DEF ShownIsStored
    <3>2. CASE v.state = "done" /\ Renames(v.row) /\ file' # file
      <4>1. v.row \in Transfers BY <1>9 DEF Writes, WellWatched, TypeOK
      <4>2. v.row.path \in Paths /\ v.row.path[1] = v.row.res BY <4>1, TransferFacts
      <4>3. Stored(v.row.path[1]) BY <3>2, <4>2 DEF SaidIsStored
      <4>4. \A p \in Paths : p # v.row.path => file'[p] \in {file[p], "none"}
        BY <3>2 DEF Renames, TypeOK, Names
      <4> QED BY <4>3, <4>4 DEF ShownIsStored
    <3> QED BY <1>9, <3>1, <3>2 DEF Writes
  <2> QED BY <2>3, <2>4, <2>5 DEF ShownIsStored, Stored
<1>10. CASE Restart
  BY <1>10 DEF Restart, NoLists, farVars, ShownIsStored, Stored
<1>11. ASSUME UNCHANGED <<subject, ext, lists, file, landed>> PROVE ShownIsStored'
  BY <1>11 DEF ShownIsStored, Stored
<1> QED
  BY <1>1, <1>2, <1>3, <1>4, <1>5, <1>6, <1>7, <1>8, <1>9, <1>10, <1>11 DEF Next,
     outVars, farVars, watchVars, inVars, envVars, Stored, SubmitOut, OutLooks,
     OutVerifies, OutRecords, Flip, LoopSleeps, SweepExpires, ReaderReads, NoAnswer,
     SubmitIn, InUploads, InRecordsUpload, InFetches, InRecords, FetchEnds, Consumes,
     RecoveryReads, RecoveryEnds

LEMMA SaidIsStoredStep == ASSUME BridgeInv, Next PROVE SaidIsStored'
<1> USE DEF BridgeInv
<1> HIDE DEF Transfers, RowStates
<1>1. ASSUME NEW o \in OutOps, OutVerifies(o) PROVE SaidIsStored'
  <2>1. row' = row \/ row' = [row EXCEPT ![subject[o]] = NoRow(subject[o])] BY <1>1 DEF OutVerifies
  <2>2. NoRow(subject[o]).state # "done" BY DEF NoRow
  <2>3. UNCHANGED <<subject, verdict, landed>> BY <1>1 DEF OutVerifies, watchVars, envVars, farVars
  <2> HIDE DEF NoRow
  <2>4. \A r \in Resources : row'[r].state = "done" => row[r].state = "done"
    <3>1. subject[o] \in Resources /\ DOMAIN row = Resources BY DEF TypeOK
    <3> HIDE DEF BridgeInv
    <3> QED BY <2>1, <2>2, <3>1
  <2> QED BY <2>3, <2>4 DEF SaidIsStored, Stored
<1>2. ASSUME NEW o \in OutOps, OutRecords(o) PROVE SaidIsStored'
  <2>1. Recorded(o).state # "done" BY DEF Recorded
  <2>2. row' = [row EXCEPT ![subject[o]] = Recorded(o)] /\ UNCHANGED <<subject, verdict, landed>>
    BY <1>2 DEF OutRecords, watchVars, envVars, farVars
  <2> HIDE DEF Recorded
  <2>3. \A r \in Resources : row'[r].state = "done" => row[r].state = "done"
    <3>1. subject[o] \in Resources /\ DOMAIN row = Resources BY DEF TypeOK
    <3> HIDE DEF BridgeInv
    <3> QED BY <2>1, <2>2, <3>1
  <2> QED BY <2>2, <2>3 DEF SaidIsStored, Stored
<1>3. ASSUME NEW t \in Tasks, RemoteStores(t) PROVE SaidIsStored'
  <2>1. landed \subseteq landed' /\ UNCHANGED <<subject, verdict, row>>
    BY <1>3 DEF RemoteStores, watchVars, envVars, outVars
  <2> QED BY <2>1 DEF SaidIsStored, Stored
<1>4. ASSUME NEW t \in Tasks, Flip(t) PROVE SaidIsStored'
  <2>1. row' = ByTask(t, "pending") /\ UNCHANGED <<subject, verdict, landed>> BY <1>4 DEF Flip, envVars, farVars
  <2>2. \A r \in Resources : row'[r].state = "done" => row[r].state = "done"
    BY <2>1, ByTaskFacts
  <2> QED BY <2>1, <2>2 DEF SaidIsStored, Stored
<1>5. ASSUME NEW w \in Watchers, Judges(w) PROVE SaidIsStored'
  <2> DEFINE a == First(rows[w])
             seen == IF AsksOnce(w) THEN lists[w][a.task] ELSE Listed(a.task)
             s == Judgement(w, a, seen)
  <2>1. a \in rows[w] /\ a \in Transfers BY <1>5, FirstIsMember DEF Judges, WellWatched, TypeOK
  <2>2. a.task \in Tasks /\ a.path \in Paths /\ a.path[1] = a.res /\ subject[a.task] = a.res
    BY <2>1, TransferFacts DEF OwnRows
  <2>3. s = "done" => seen = "succeeded" \/ file[a.path] # "none" BY <2>1, JudgementFacts
  <2>4. seen = "succeeded" => a.task \in landed BY <2>2 DEF ShownIsStored, Listed
  <2>5. s = "done" => Stored(a.res) BY <2>2, <2>3, <2>4 DEF ShownIsStored, Stored
  <2>6. verdict' = [verdict EXCEPT ![w] = NoVerdict]
        \/ verdict' = [verdict EXCEPT ![w] = [row |-> a, state |-> s]]
    BY <1>5 DEF Judges
  <2>7. UNCHANGED <<subject, row, landed>> BY <1>5 DEF Judges, outVars, farVars, envVars
  <2>8. ASSUME NEW x \in Watchers, verdict'[x].state = "done" PROVE Stored(verdict'[x].row.res)
    <3>1. CASE x # w \/ verdict'[w] # [row |-> a, state |-> s]
      BY <2>6, <2>8, <3>1 DEF SaidIsStored, TypeOK, NoVerdict
    <3>2. CASE x = w /\ verdict'[w] = [row |-> a, state |-> s]
      <4> HIDE DEF a, s
      <4> QED BY <2>5, <2>8, <3>2
    <3> QED BY <3>1, <3>2
  <2> QED BY <2>7, <2>8 DEF SaidIsStored, Stored
<1>6. ASSUME NEW w \in Watchers, Writes(w) PROVE SaidIsStored'
  <2>1. verdict[w].row \in Transfers /\ verdict[w].state \in RowStates
    BY <1>6 DEF Writes, WellWatched, TypeOK
  <2>2. /\ row' = ByKey(verdict[w].row, verdict[w].state)
        /\ verdict' = [verdict EXCEPT ![w] = NoVerdict] /\ UNCHANGED <<subject, landed>>
    BY <1>6 DEF Writes, envVars
  <2>3. \A r \in Resources : row'[r].state = "done" => Stored(r)
    BY <2>1, <2>2, ByKeyFacts DEF SaidIsStored
  <2>4. \A x \in Watchers : verdict'[x].state = "done" => Stored(verdict'[x].row.res)
    BY <2>2 DEF SaidIsStored, NoVerdict
  <2> QED BY <2>2, <2>3, <2>4 DEF SaidIsStored, Stored
<1>7. CASE Restart
  BY <1>7 DEF Restart, NoVerdict, farVars, SaidIsStored, Stored
<1>8. ASSUME UNCHANGED <<subject, verdict, row, landed>> PROVE SaidIsStored'
  BY <1>8 DEF SaidIsStored, Stored
<1> QED
  BY <1>1, <1>2, <1>3, <1>4, <1>5, <1>6, <1>7, <1>8 DEF Next, outVars, farVars,
     watchVars, inVars, envVars, Stored, SubmitOut, OutLooks, OutSubmits, RemoteFails,
     RemoteHides, Control, UserRemoves, LoopSleeps, SweepExpires, ReaderReads, Asks,
     NoAnswer, SubmitIn, InUploads, InRecordsUpload, InFetches, InRecords, FetchEnds,
     Consumes, RecoveryReads, RecoveryEnds

LEMMA NamesHonestStep == ASSUME BridgeInv, Next PROVE NamesHonest'
<1> USE DEF BridgeInv
<1> HIDE DEF Transfers, RowStates
<1>1. ASSUME NEW t \in Tasks, RemoteStores(t) PROVE NamesHonest'
  <2>1. \A p \in Paths : \/ file'[p] = file[p]
                         \/ p = <<subject[t], "plain">> /\ file'[p] = t
    BY <1>1, TaskIsNoPath DEF RemoteStores
  <2>2. subject' = subject BY <1>1 DEF RemoteStores, envVars
  <2> QED BY <2>1, <2>2 DEF NamesHonest
<1>2. CASE UserRemoves
  <2>1. \A p \in Paths : file'[p] \in {file[p], "none"} BY <1>2, RemovesFiles
  <2>2. subject' = subject BY <1>2 DEF UserRemoves
  <2> QED BY <2>1, <2>2 DEF NamesHonest
<1>3. ASSUME NEW w \in Watchers, Writes(w) PROVE NamesHonest'
  <2> DEFINE a == verdict[w].row
  <2>1. subject' = subject BY <1>3 DEF Writes, envVars
  <2>2. CASE file' = file BY <2>1, <2>2 DEF NamesHonest
  <2>3. ASSUME NEW n \in Names, SizeMatches(n, a.res),
               file' = [file EXCEPT ![n] = "none", ![a.path] = file[n]]
        PROVE  NamesHonest'
    <3>1. a \in Transfers BY <1>3 DEF Writes, WellWatched, TypeOK
    <3>2. a.path \in Paths /\ a.path[1] = a.res BY <3>1, TransferFacts
    <3>3. \A p \in Paths : \/ file'[p] \in {file[p], "none"}
                           \/ p = a.path /\ file'[p] = file[n]
      BY <2>3, <3>2 DEF TypeOK, Names
    <3> QED BY <2>1, <2>3, <3>2, <3>3 DEF NamesHonest, SizeMatches
  <2> QED BY <1>3, <2>2, <2>3 DEF Writes, Renames
<1>4. ASSUME UNCHANGED <<subject, file>> PROVE NamesHonest'
  BY <1>4 DEF NamesHonest
<1> QED
  BY <1>1, <1>2, <1>3, <1>4 DEF Next, outVars, farVars, watchVars, inVars, envVars,
     SubmitOut, OutLooks, OutVerifies, OutSubmits, OutRecords, RemoteFails, RemoteHides,
     Control, Flip, LoopSleeps, SweepExpires, ReaderReads, Asks, NoAnswer, Judges,
     SubmitIn, InUploads, InRecordsUpload, InFetches, InRecords, FetchEnds, Consumes,
     Restart, RecoveryReads, RecoveryEnds

LEMMA DeliveryStep == ASSUME BridgeInv, Next PROVE Delivery'
<1> USE DEF BridgeInv
<1> HIDE DEF Transfers, RowStates
<1>1. ASSUME NEW i \in InOps, SubmitIn(i) PROVE Delivery'
  BY <1>1 DEF SubmitIn, Delivery
<1>2. ASSUME NEW i \in InOps, InUploads(i) PROVE Delivery'
  BY <1>2 DEF InUploads, Delivery, TypeOK
<1>3. ASSUME NEW i \in InOps, InRecordsUpload(i) PROVE Delivery'
  BY <1>3 DEF InRecordsUpload, Delivery, TypeOK
<1>4. ASSUME NEW i \in InOps, InFetches(i) PROVE Delivery'
  <2>1. \A x \in InOps : x # i => inAt'[x] = inAt[x] /\ fetch'[x] = fetch[x]
    BY <1>4 DEF InFetches, TypeOK
  <2>2. inAt'[i] \in {"record", "end"} /\ fetch'[i] \in {"none", "queued"} /\ i \notin events
    BY <1>4 DEF InFetches, Delivery, TypeOK
  <2>3. UNCHANGED <<inRow, delivered, events>> BY <1>4 DEF InFetches
  <2>4. events \subseteq InOps BY DEF TypeOK
  <2> QED BY <2>1, <2>2, <2>3, <2>4 DEF Delivery
<1>5. ASSUME NEW i \in InOps, InRecords(i) PROVE Delivery'
  BY <1>5 DEF InRecords, Delivery
<1>6. ASSUME NEW i \in InOps, FetchEnds(i) PROVE Delivery'
  BY <1>6 DEF FetchEnds, Delivery, TypeOK
<1>7. ASSUME NEW i \in InOps, Consumes(i) PROVE Delivery'
  <2>1. i \in events /\ events' \subseteq events /\ UNCHANGED <<inAt, fetch, delivered>>
    BY <1>7 DEF Consumes
  <2>2. inRow' = inRow \/ (inRow.task = i /\ inRow' = [inRow EXCEPT !.state = fetch[i]])
    BY <1>7 DEF Consumes
  <2>3. i # "none" BY BridgeAssumption DEF BridgeAssumption
  <2>4. CASE inRow' = inRow BY <2>1, <2>4 DEF Delivery
  <2>5. CASE inRow.task = i /\ inRow' = [inRow EXCEPT !.state = fetch[i]]
    <3>1. inRow.op = i BY <2>3, <2>5 DEF Delivery
    <3>2. inRow'.task = i /\ inRow'.op = i /\ inRow'.state = fetch[i] BY <2>5, <3>1 DEF TypeOK
    <3> QED BY <2>1, <3>2 DEF Delivery
  <2> QED BY <2>2, <2>4, <2>5
<1>8. CASE Restart
  BY <1>8 DEF Restart, Delivery
<1>9. CASE RecoveryEnds
  BY <1>9 DEF RecoveryEnds, Delivery
<1>10. ASSUME UNCHANGED <<inAt, fetch, events, inRow, delivered>> PROVE Delivery'
  BY <1>10 DEF Delivery
<1> QED
  BY <1>1, <1>2, <1>3, <1>4, <1>5, <1>6, <1>7, <1>8, <1>9, <1>10 DEF Next, outVars,
     farVars, watchVars, inVars, envVars, SubmitOut, OutLooks, OutVerifies, OutSubmits,
     OutRecords, RemoteStores, RemoteFails, RemoteHides, Control, Flip, UserRemoves,
     LoopSleeps, SweepExpires, ReaderReads, Asks, NoAnswer, Judges, Writes,
     RecoveryReads

-----------------------------------------------------------------------------
LEMMA BridgeInvInit == Init => BridgeInv
<1> SUFFICES ASSUME Init PROVE BridgeInv OBVIOUS
<1>1. TypeOK BY TypesInit
<1>2. WellWatched /\ ShownIsStored /\ Delivery /\ NamesHonest
  BY DEF Init, WellWatched, ShownIsStored, Delivery, NamesHonest, NoLists,
     Names
<1>3. OwnRows BY <1>1 DEF Init, OwnRows, NoRow, TypeOK
<1>4. SaidIsStored BY DEF Init, SaidIsStored, NoRow, NoVerdict
<1> QED BY <1>1, <1>2, <1>3, <1>4 DEF BridgeInv

LEMMA BridgeInvStep == BridgeInv /\ [Next]_vars => BridgeInv'
<1> SUFFICES ASSUME BridgeInv, [Next]_vars PROVE BridgeInv' OBVIOUS
<1>1. CASE Next
  BY <1>1, TypesStep, WellWatchedStep, OwnRowsStep, ShownIsStoredStep,
     SaidIsStoredStep, NamesHonestStep, DeliveryStep DEF BridgeInv
<1>2. CASE UNCHANGED vars
  <2> USE <1>2 DEF BridgeInv, vars, outVars, farVars, watchVars, inVars, envVars
  <2>1. TypeOK' BY DEF TypeOK
  <2>2. WellWatched' /\ OwnRows' BY DEF WellWatched, OwnRows
  <2>3. ShownIsStored' /\ SaidIsStored' BY DEF ShownIsStored, SaidIsStored, Stored
  <2>4. Delivery' /\ NamesHonest' BY DEF Delivery, NamesHonest
  <2> QED BY <2>1, <2>2, <2>3, <2>4
<1> QED BY <1>1, <1>2

LEMMA BridgeInvAlways == Spec => []BridgeInv
BY BridgeInvInit, BridgeInvStep, PTL DEF Spec

(* Rows, copies of rows, verdicts and the two ledgers keep their types. *)
THEOREM TypesHold == Spec => []TypeOK
BY BridgeInvAlways, PTL DEF BridgeInv

(* A row that says done is of a resource that was stored, and a delivery that
   says so has reached the group, however old the lists, the probes and the rows
   were that a watcher decided on. *)
THEOREM DoneIsStoredAlways == Spec => []DoneIsStored
<1>1. BridgeInv => DoneIsStored BY DEF BridgeInv, SaidIsStored, Delivery, Stored, DoneIsStored
<1> QED BY <1>1, BridgeInvAlways, PTL

(* The rename by size gives no file the name of a resource of another size. *)
THEOREM NamesHonestAlways == Spec => []NamesHonest
BY BridgeInvAlways, PTL DEF BridgeInv

(***************************************************************************)
(* TaskControl.                                                            *)
(***************************************************************************)

Forgotten(id) == write[id] = "none" /\ \A s \in LedgerState : <<id, s>> \notin fires

(* A row whose task is gone says how it ended, or is about to; or it is one the
   restart has left, which nothing will write and which the page can resume. *)
GoneIsSettled ==
  up => \A id \in Ids : stage[id] = "gone" =>
    \/ ledger[id] \in Terminal
    \/ \E s \in Terminal : <<id, s>> \in fires
    \/ Forgotten(id) /\ (ledger[id] = "absent" \/ (ledger[id] = "pending" /\ job[id] \in Resumable))

(* Leaves waits for the last write, and that is the one of the end. *)
EndingIsWritten ==
  \A id \in Ids : stage[id] = "ending" => write[id] \in Terminal \/ ledger[id] \in Terminal

(* A process that died has no task, and no write under way. *)
DownIsEmpty == ~up => \A id \in Ids : stage[id] = "gone" /\ Forgotten(id)

ControlInv == ControlTypeOK /\ GoneIsSettled /\ EndingIsWritten /\ DownIsEmpty

-----------------------------------------------------------------------------
(* The upsert: it writes what it is asked to or keeps an end, and an end     *)
(* that is written to a row is an end.                                       *)
LEMMA UpsertFacts ==
  ASSUME NEW old \in RowState, NEW new \in LedgerState
  PROVE  /\ Upsert(old, new) \in RowState \ {"absent"}
         /\ old \in Terminal \/ new \in Terminal => Upsert(old, new) \in Terminal
         /\ old = "cancelled" => Upsert(old, new) = "cancelled"
BY DEF Upsert, UpsertApplies, RowState, LedgerState, Terminal

LEMMA ControlTypesInit == ControlInit => ControlTypeOK
BY TaskControlAssumption DEF ControlInit, ControlTypeOK, TaskControlAssumption, Call, Idle, RowState

(* Types: an action that writes the ledger does so by Put, which keeps them. *)
LEMMA PutTypes ==
  ASSUME ControlTypeOK, NEW id \in Ids, NEW s \in LedgerState, Put(id, s)
  PROVE  ledger' \in [Ids -> RowState]
BY UpsertFacts DEF ControlTypeOK, Put

LEMMA MovesTypes ==
  ASSUME ControlTypeOK, NEW id \in Ids, NEW to \in {"gone", "queued", "running", "ending", "held"},
         NEW s \in LedgerState \cup {"none"}, NEW from, Moves(id, from, to, s)
  PROVE  /\ job' \in [Ids -> Jobs \cup {"none"}]
         /\ ledger' \in [Ids -> RowState]
         /\ stage' \in [Ids -> {"gone", "queued", "running", "ending", "held"}]
         /\ write' \in [Ids -> LedgerState \cup {"none"}]
         /\ fires' \subseteq Ids \X LedgerState
         /\ gone' \subseteq Jobs /\ call' \in [Callers -> Call]
         /\ up' \in BOOLEAN /\ undone' \subseteq Ids
         /\ crashes' \in 0 .. MaxCrashes /\ undos' \in 0 .. MaxUndos
BY DEF ControlTypeOK, Moves, otherVars

LEMMA EnterTypes ==
  ASSUME ControlTypeOK, NEW id \in Ids, NEW j \in Jobs, Enter(id, j)
  PROVE  /\ job' \in [Ids -> Jobs \cup {"none"}]
         /\ stage' \in [Ids -> {"gone", "queued", "running", "ending", "held"}]
         /\ write' \in [Ids -> LedgerState \cup {"none"}]
         /\ stopped' \subseteq Ids /\ fires' \subseteq Ids \X LedgerState
BY DEF ControlTypeOK, Enter, LedgerState

LEMMA ControlTypesStep == ASSUME ControlInv, ControlNext PROVE ControlTypeOK'
<1> USE DEF ControlInv
<1>1. ASSUME NEW id \in Ids, Starts(id) PROVE ControlTypeOK'
  <2> "running" \in LedgerState BY DEF LedgerState
  <2> QED BY <1>1, MovesTypes DEF Starts, ControlTypeOK
<1>2. ASSUME NEW id \in Ids, Retries(id) PROVE ControlTypeOK'
  <2> "retry" \in LedgerState BY DEF LedgerState
  <2> QED BY <1>2, MovesTypes DEF Retries, ControlTypeOK
<1>3. ASSUME NEW id \in Ids, NEW s \in Terminal, Ends(id, s) PROVE ControlTypeOK'
  <2> s \in LedgerState BY DEF LedgerState
  <2> QED BY <1>3, MovesTypes DEF Ends, ControlTypeOK
<1>4. ASSUME NEW id \in Ids, Leaves(id) PROVE ControlTypeOK'
  BY <1>4, MovesTypes DEF Leaves, ControlTypeOK
<1>5. ASSUME NEW id \in Ids, Parks(id) PROVE ControlTypeOK'
  <2> "paused" \in LedgerState BY DEF LedgerState
  <2> QED BY <1>5, MovesTypes DEF Parks, ControlTypeOK
<1>6. ASSUME NEW id \in Ids, Resumes(id) PROVE ControlTypeOK'
  BY <1>6 DEF Resumes, ControlTypeOK, LedgerState, otherVars
<1>7. ASSUME NEW id \in Ids, Commit(id) PROVE ControlTypeOK'
  <2>1. PICK s \in LedgerState : Put(id, s) BY <1>7 DEF Commit, ControlTypeOK
  <2>2. ledger' \in [Ids -> RowState] BY <2>1, PutTypes
  <2> QED BY <1>7, <2>2 DEF Commit, ControlTypeOK, otherVars
<1>8. ASSUME NEW id \in Ids, NEW j \in Jobs, Submit(id, j) PROVE ControlTypeOK'
  BY <1>8, EnterTypes DEF Submit, ControlTypeOK, otherVars
<1>9. ASSUME NEW c \in Callers, NEW id \in Ids, UndoReads(c, id) PROVE ControlTypeOK'
  <2>1. [at |-> "undo", id |-> id, seen |-> ledger[id]] \in Call
    BY <1>9 DEF UndoReads, ControlTypeOK, Call, RowState
  <2> QED BY <1>9, <2>1, TaskControlAssumption DEF TaskControlAssumption, UndoReads, ControlTypeOK, taskVars
<1>10. ASSUME NEW c \in Callers, UndoActs(c) PROVE ControlTypeOK'
  <2>1. call[c] \in Call /\ call[c].at = "undo" BY <1>10 DEF UndoActs, ControlTypeOK
  <2>2. call[c].id \in Ids BY <2>1 DEF Call, Idle
  <2>3. Idle \in Call /\ [at |-> "marks", id |-> call[c].id] \in Call BY <2>2 DEF Call
  <2>4. CASE UNCHANGED taskVars
    BY <1>10, <2>2, <2>3, <2>4 DEF UndoActs, ControlTypeOK, taskVars, otherVars
  <2>5. CASE Interrupt(call[c].id) /\ UNCHANGED <<job, write>>
    <3>1. stage' \in [Ids -> {"gone", "queued", "running", "ending", "held"}]
          /\ stopped' \subseteq Ids /\ fires' \subseteq Ids \X LedgerState
      BY <2>2, <2>5 DEF Interrupt, Interrupted, ControlTypeOK, LedgerState, Terminal
    <3> QED BY <1>10, <2>2, <2>3, <2>5, <3>1 DEF UndoActs, ControlTypeOK, taskVars, otherVars
  <2> QED BY <1>10, <2>4, <2>5 DEF UndoActs
<1>11. ASSUME NEW c \in Callers, UndoMarks(c) PROVE ControlTypeOK'
  <2>1. call[c] \in Call /\ call[c].at = "marks" BY <1>11 DEF UndoMarks, ControlTypeOK
  <2>2. call[c].id \in Ids /\ Idle \in Call BY <2>1 DEF Call, Idle
  <2>3. ledger' \in [Ids -> RowState]
    <3> "failed" \in LedgerState BY DEF LedgerState, Terminal
    <3> QED BY <1>11, <2>2, PutTypes DEF UndoMarks
  <2> QED BY <1>11, <2>2, <2>3 DEF UndoMarks, ControlTypeOK, taskVars, otherVars
<1>12. ASSUME NEW c \in Callers, ResumeReads(c) PROVE ControlTypeOK'
  <2> DEFINE found == {id \in Ids : ledger[id] = "pending" /\ job[id] \in Resumable}
  <2>1. [at |-> "resume", rows |-> found] \in Call BY DEF Call
  <2> QED BY <1>12, <2>1 DEF ResumeReads, ControlTypeOK, taskVars, otherVars
<1>13. ASSUME NEW c \in Callers, ResumeRow(c) PROVE ControlTypeOK'
  <2>1. call[c] \in Call /\ call[c].at = "resume" BY <1>13 DEF ResumeRow, ControlTypeOK
  <2>2. call[c] \in [at : {"resume"}, rows : SUBSET Ids] BY <2>1 DEF Call, Idle
  <2>3. PICK id \in call[c].rows :
          /\ NextRow(c, id)
          /\ \/ /\ fires' = fires \cup {<<id, "failed">>}
                /\ UNCHANGED <<job, stage, stopped, write>>
             \/ job[id] \notin gone /\ \E new \in Ids : Enter(new, job[id])
             \/ UNCHANGED taskVars
    BY <1>13 DEF ResumeRow
  <2>4. call' \in [Callers -> Call]
    <3>1. [at |-> "resume", rows |-> call[c].rows \ {id}] \in Call BY <2>2 DEF Call
    <3>2. Idle \in Call BY DEF Call
    <3> QED BY <2>3, <3>1, <3>2 DEF NextRow, ControlTypeOK
  <2>5. /\ job' \in [Ids -> Jobs \cup {"none"}]
        /\ stage' \in [Ids -> {"gone", "queued", "running", "ending", "held"}]
        /\ write' \in [Ids -> LedgerState \cup {"none"}]
        /\ stopped' \subseteq Ids /\ fires' \subseteq Ids \X LedgerState
    <3>1. CASE job[id] \notin gone /\ \E new \in Ids : Enter(new, job[id])
      <4>1. job[id] \in Jobs \cup {"none"} BY <2>2 DEF ControlTypeOK
      <4> QED BY <3>1, <4>1 DEF Enter, ControlTypeOK, LedgerState
    <3>2. CASE ~(job[id] \notin gone /\ \E new \in Ids : Enter(new, job[id]))
      BY <2>2, <2>3, <3>2 DEF ControlTypeOK, taskVars, LedgerState, Terminal
    <3> QED BY <3>1, <3>2
  <2> QED BY <1>13, <2>4, <2>5 DEF ResumeRow, ControlTypeOK, otherVars
<1>14. ASSUME NEW j \in Jobs, InputsVanish(j) PROVE ControlTypeOK'
  BY <1>14 DEF InputsVanish, ControlTypeOK, taskVars
<1>15. CASE Crash
  <2>1. Idle \in Call BY DEF Call
  <2>2. crashes' \in 0 .. MaxCrashes
    BY <1>15, TaskControlAssumption DEF Crash, ControlTypeOK, TaskControlAssumption
  <2> QED BY <1>15, <2>1, <2>2 DEF Crash, ControlTypeOK
<1>16. CASE Boot
  BY <1>16 DEF Boot, ControlTypeOK, taskVars, ReconciledState, RowState, LedgerState, Terminal
<1> QED
  BY <1>1, <1>2, <1>3, <1>4, <1>5, <1>6, <1>7, <1>8, <1>9, <1>10, <1>11, <1>12, <1>13, <1>14,
     <1>15, <1>16 DEF ControlNext, Work, Request

-----------------------------------------------------------------------------
(* The rest of the invariant.  Only the actions below touch the ledger, the  *)
(* stages or the writes.                                                     *)
EndOfRun == <<ledger, stage, write, fires, job, up>>

LEMMA QuietStep ==
  ASSUME ControlInv, UNCHANGED EndOfRun
  PROVE  GoneIsSettled' /\ EndingIsWritten' /\ DownIsEmpty'
BY DEF ControlInv, EndOfRun, GoneIsSettled, EndingIsWritten, DownIsEmpty, Forgotten

(* A write to a row that is settled leaves it settled. *)
LEMMA PutSettles ==
  ASSUME ControlTypeOK, NEW id \in Ids, NEW s \in LedgerState, Put(id, s)
  PROVE  /\ \A other \in Ids : other # id => ledger'[other] = ledger[other]
         /\ \A other \in Ids : ledger[other] \in Terminal => ledger'[other] \in Terminal
         /\ s \in Terminal => ledger'[id] \in Terminal
BY UpsertFacts DEF Put, ControlTypeOK

LEMMA MovesKeeps ==
  ASSUME ControlInv, NEW id \in Ids, NEW from,
         NEW to \in {"queued", "running", "held"}, NEW s, Moves(id, from, to, s)
  PROVE  GoneIsSettled' /\ EndingIsWritten' /\ DownIsEmpty'
BY DEF ControlInv, ControlTypeOK, Moves, otherVars, GoneIsSettled, EndingIsWritten, DownIsEmpty, Forgotten

LEMMA EnterKeeps ==
  ASSUME ControlInv, up, NEW id \in Ids, NEW j, Enter(id, j), UNCHANGED <<ledger, up>>
  PROVE  GoneIsSettled' /\ EndingIsWritten' /\ DownIsEmpty'
<1>1. EndingIsWritten' /\ DownIsEmpty'
  BY DEF ControlInv, ControlTypeOK, Enter, EndingIsWritten, DownIsEmpty
<1>2. ASSUME NEW other \in Ids, stage'[other] = "gone"
      PROVE  /\ stage[other] = "gone" /\ ledger'[other] = ledger[other]
             /\ write'[other] = write[other] /\ job'[other] = job[other] /\ fires' = fires
  BY <1>2 DEF ControlInv, ControlTypeOK, Enter
<1> QED BY <1>1, <1>2 DEF ControlInv, GoneIsSettled, Forgotten

LEMMA SettledStep ==
  ASSUME ControlInv, ControlNext
  PROVE  GoneIsSettled' /\ EndingIsWritten' /\ DownIsEmpty'
<1> DEFINE Kept == GoneIsSettled' /\ EndingIsWritten' /\ DownIsEmpty'
<1> HIDE DEF Kept
<1> ControlTypeOK BY DEF ControlInv
<1>1. ASSUME NEW id \in Ids, Starts(id) PROVE Kept
  BY <1>1, MovesKeeps DEF Starts, Kept
<1>2. ASSUME NEW id \in Ids, Retries(id) PROVE Kept
  BY <1>2, MovesKeeps DEF Retries, Kept
<1>3. ASSUME NEW id \in Ids, NEW s \in Terminal, Ends(id, s) PROVE Kept
  BY <1>3 DEF Ends, Moves, otherVars, Kept, ControlInv, ControlTypeOK, GoneIsSettled, EndingIsWritten,
             DownIsEmpty, Forgotten
<1>4. ASSUME NEW id \in Ids, Leaves(id) PROVE Kept
  <2>1. ledger[id] \in Terminal
    BY <1>4 DEF Leaves, Moves, ControlInv, EndingIsWritten, Terminal
  <2> QED BY <1>4, <2>1 DEF Leaves, Moves, otherVars, Kept, ControlInv, ControlTypeOK, GoneIsSettled,
                       EndingIsWritten, DownIsEmpty, Forgotten
<1>5. ASSUME NEW id \in Ids, Parks(id) PROVE Kept
  BY <1>5, MovesKeeps DEF Parks, Kept
<1>6. ASSUME NEW id \in Ids, Resumes(id) PROVE Kept
  BY <1>6 DEF Resumes, otherVars, Kept, ControlInv, ControlTypeOK, GoneIsSettled, EndingIsWritten,
             DownIsEmpty, Forgotten
<1>7. ASSUME NEW id \in Ids, Commit(id) PROVE Kept
  <2>1. PICK s \in LedgerState :
          /\ Put(id, s)
          /\ \/ write[id] = s /\ write' = [write EXCEPT ![id] = "none"] /\ fires' = fires
             \/ <<id, s>> \in fires /\ fires' = fires \ {<<id, s>>} /\ write' = write
    BY <1>7 DEF Commit, ControlTypeOK
  <2>2. ~Forgotten(id) BY <2>1 DEF Forgotten, LedgerState, Terminal
  <2>3. UNCHANGED <<job, stage, up>> BY <1>7 DEF Commit, otherVars
  <2>4. GoneIsSettled'
    <3> SUFFICES ASSUME up, NEW k \in Ids, stage[k] = "gone"
        PROVE \/ ledger'[k] \in Terminal
              \/ \E t \in Terminal : <<k, t>> \in fires'
              \/ /\ Forgotten(k)'
                 /\ ledger'[k] = "absent" \/ (ledger'[k] = "pending" /\ job'[k] \in Resumable)
      BY <2>3 DEF GoneIsSettled
    <3>1. CASE k = id
      <4>1. ledger[id] \in Terminal \/ \E t \in Terminal : <<id, t>> \in fires
        BY <2>2, <3>1 DEF ControlInv, GoneIsSettled
      <4> QED BY <2>1, <3>1, <4>1, PutSettles
    <3>2. CASE k # id
      <4>1. ledger'[k] = ledger[k] /\ write'[k] = write[k]
            /\ \A t : <<k, t>> \in fires' <=> <<k, t>> \in fires
        BY <2>1, <3>2, PutSettles DEF ControlTypeOK
      <4> QED BY <2>3, <4>1 DEF ControlInv, GoneIsSettled, Forgotten
    <3> QED BY <3>1, <3>2
  <2>5. EndingIsWritten'
    BY <2>1, <2>3, PutSettles DEF ControlInv, EndingIsWritten, ControlTypeOK
  <2>6. DownIsEmpty'
    BY <2>2, <2>3 DEF ControlInv, DownIsEmpty
  <2> QED BY <2>4, <2>5, <2>6 DEF Kept
<1>8. ASSUME NEW id \in Ids, NEW j \in Jobs, Submit(id, j) PROVE Kept
  BY <1>8, EnterKeeps DEF Submit, otherVars, Kept
<1>9. ASSUME NEW c \in Callers, NEW id \in Ids, UndoReads(c, id) PROVE Kept
  BY <1>9, QuietStep DEF UndoReads, taskVars, EndOfRun, Kept
<1>10. ASSUME NEW c \in Callers, UndoActs(c) PROVE Kept
  <2>1. CASE UNCHANGED taskVars
    BY <1>10, <2>1, QuietStep DEF UndoActs, taskVars, otherVars, EndOfRun, Kept
  <2>2. CASE Interrupt(call[c].id) /\ UNCHANGED <<job, write>>
    <3>1. UNCHANGED <<ledger, up, job, write>> /\ up BY <1>10, <2>2 DEF UndoActs, otherVars
    <3>2. CASE UNCHANGED <<stage, fires>>
      BY <3>1, <3>2, QuietStep DEF EndOfRun, Kept
    <3>3. CASE /\ stage' = [stage EXCEPT ![call[c].id] = "gone"]
               /\ fires' = fires \cup {<<call[c].id, "cancelled">>}
      BY <3>1, <3>3 DEF Kept, ControlInv, ControlTypeOK, GoneIsSettled, EndingIsWritten,
                        DownIsEmpty, Forgotten, Terminal
    <3> QED BY <2>2, <3>2, <3>3 DEF Interrupt, Interrupted
  <2> QED BY <1>10, <2>1, <2>2 DEF UndoActs
<1>11. ASSUME NEW c \in Callers, UndoMarks(c) PROVE Kept
  <2>1. call[c] \in Call /\ call[c].at = "marks" BY <1>11 DEF UndoMarks, ControlTypeOK
  <2>2. call[c].id \in Ids BY <2>1 DEF Call, Idle
  <2>3. "failed" \in LedgerState /\ "failed" \in Terminal BY DEF LedgerState, Terminal
  <2>4. Put(call[c].id, "failed") /\ up /\ UNCHANGED <<stage, write, fires, job, up>>
    BY <1>11 DEF UndoMarks, taskVars, otherVars
  <2>5. /\ \A k \in Ids : ledger[k] \in Terminal => ledger'[k] \in Terminal
        /\ \A k \in Ids : ledger'[k] \in Terminal \/ ledger'[k] = ledger[k]
    BY <2>2, <2>3, <2>4, PutSettles
  <2> QED BY <2>4, <2>5 DEF Kept, ControlInv, GoneIsSettled, EndingIsWritten, DownIsEmpty, Forgotten
<1>12. ASSUME NEW c \in Callers, ResumeReads(c) PROVE Kept
  BY <1>12, QuietStep DEF ResumeReads, taskVars, otherVars, EndOfRun, Kept
<1>13. ASSUME NEW c \in Callers, ResumeRow(c) PROVE Kept
  <2>1. up /\ UNCHANGED <<ledger, up>> BY <1>13 DEF ResumeRow, otherVars
  <2>2. PICK id \in call[c].rows :
          \/ /\ fires' = fires \cup {<<id, "failed">>}
             /\ UNCHANGED <<job, stage, stopped, write>>
          \/ \E new \in Ids : Enter(new, job[id])
          \/ UNCHANGED taskVars
    BY <1>13 DEF ResumeRow
  <2>3. CASE fires' = fires \cup {<<id, "failed">>} /\ UNCHANGED <<job, stage, stopped, write>>
    BY <2>1, <2>3 DEF Kept, ControlInv, GoneIsSettled, EndingIsWritten, DownIsEmpty, Forgotten,
                      Terminal
  <2>4. CASE \E new \in Ids : Enter(new, job[id])
    BY <2>1, <2>4, EnterKeeps DEF Kept
  <2>5. CASE UNCHANGED taskVars
    BY <2>1, <2>5, QuietStep DEF taskVars, EndOfRun, Kept
  <2> QED BY <2>2, <2>3, <2>4, <2>5
<1>14. ASSUME NEW j \in Jobs, InputsVanish(j) PROVE Kept
  BY <1>14, QuietStep DEF InputsVanish, taskVars, EndOfRun, Kept
<1>15. CASE Crash
  BY <1>15 DEF Crash, Kept, GoneIsSettled, EndingIsWritten, DownIsEmpty, Forgotten, LedgerState,
               Terminal
<1>16. CASE Boot
  <2>1. \A id \in Ids : stage'[id] = "gone" /\ Forgotten(id)' /\ job'[id] = job[id]
    BY <1>16 DEF Boot, taskVars, ControlInv, DownIsEmpty, Forgotten
  <2>2. \A id \in Ids : \/ ledger'[id] \in Terminal \/ ledger'[id] = "absent"
                        \/ ledger'[id] = "pending" /\ job[id] \in Resumable
    BY <1>16 DEF Boot, ReconciledState, ControlTypeOK, RowState, LedgerState, Terminal
  <2> QED BY <1>16, <2>1, <2>2 DEF Boot, Kept, GoneIsSettled, EndingIsWritten, DownIsEmpty
<1> QED
  BY <1>1, <1>2, <1>3, <1>4, <1>5, <1>6, <1>7, <1>8, <1>9, <1>10, <1>11, <1>12, <1>13, <1>14,
     <1>15, <1>16 DEF ControlNext, Work, Request, Kept

-----------------------------------------------------------------------------
LEMMA ControlInvInit == ControlInit => ControlInv
<1>1. ControlInit => GoneIsSettled /\ EndingIsWritten /\ DownIsEmpty
  BY DEF ControlInit, GoneIsSettled, EndingIsWritten, DownIsEmpty, Forgotten
<1> QED BY <1>1, ControlTypesInit DEF ControlInv

LEMMA ControlInvStep == ControlInv /\ [ControlNext]_controlVars => ControlInv'
<1> SUFFICES ASSUME ControlInv, [ControlNext]_controlVars PROVE ControlInv' OBVIOUS
<1>1. CASE ControlNext BY <1>1, ControlTypesStep, SettledStep DEF ControlInv
<1>2. CASE UNCHANGED controlVars
  <2>1. ControlTypeOK' BY <1>2 DEF ControlInv, ControlTypeOK, controlVars, taskVars, otherVars
  <2>2. UNCHANGED EndOfRun BY <1>2 DEF controlVars, taskVars, otherVars, EndOfRun
  <2> QED BY <2>1, <2>2, QuietStep DEF ControlInv
<1> QED BY <1>1, <1>2

LEMMA ControlInvAlways == ControlSpec => []ControlInv
BY ControlInvInit, ControlInvStep, PTL DEF ControlSpec

(* Every variable keeps its type: rows, stages, writes and requests. *)
THEOREM ControlTypesHold == ControlSpec => []ControlTypeOK
BY ControlInvAlways, PTL DEF ControlInv

(* No restart, undo or resume-pending leaves a row that says running, paused
   or retry without a task or a write that will change it. *)
THEOREM LiveRowsAlways == ControlSpec => []LiveRows
<1>1. ControlInv => LiveRows
  BY DEF ControlInv, GoneIsSettled, LiveRows, InLiveQueue, InFlight, LedgerState, Terminal
<1> QED BY <1>1, ControlInvAlways, PTL

(* A pending row without a task is of a kind that resume-pending resubmits. *)
THEOREM PendingIsResumableAlways == ControlSpec => []PendingIsResumable
<1>1. ControlInv => PendingIsResumable
  BY DEF ControlInv, GoneIsSettled, PendingIsResumable, InLiveQueue, InFlight, LedgerState, Terminal
<1> QED BY <1>1, ControlInvAlways, PTL

(* Whoever writes the ledger, on whatever it has read before: a cancelled row
   stays cancelled. *)
THEOREM CancelledIsFinalAlways == ControlSpec => CancelledIsFinal
<1> DEFINE Kept == \A id \in Ids : ledger[id] = "cancelled" => ledger'[id] = "cancelled"
<1>1. ASSUME ControlTypeOK, NEW id \in Ids, NEW s \in LedgerState, Put(id, s) PROVE Kept
  BY <1>1, UpsertFacts DEF Put, ControlTypeOK
<1>2. ASSUME ControlInv, [ControlNext]_controlVars PROVE Kept
  <2>1. CASE UNCHANGED ledger BY <2>1
  <2>2. ASSUME NEW id \in Ids, Commit(id) PROVE Kept
    BY <1>1, <1>2, <2>2 DEF Commit, ControlInv, ControlTypeOK
  <2>3. ASSUME NEW c \in Callers, UndoMarks(c) PROVE Kept
    <3>1. call[c] \in Call /\ call[c].at = "marks"
      BY <1>2, <2>3 DEF UndoMarks, ControlInv, ControlTypeOK
    <3>2. call[c].id \in Ids /\ "failed" \in LedgerState
      BY <3>1 DEF Call, Idle, LedgerState, Terminal
    <3> QED BY <1>1, <1>2, <2>3, <3>2 DEF UndoMarks, ControlInv
  <2>4. CASE Boot
    BY <2>4 DEF Boot, ReconciledState
  <2> QED
    BY <1>2, <2>1, <2>2, <2>3, <2>4
    DEF ControlNext, controlVars, Work, Request, Starts, Leaves, Ends, Moves, Retries, Parks, Resumes, Submit,
        UndoReads, UndoActs, ResumeReads, ResumeRow, InputsVanish, Crash
<1>3. ControlInv /\ [ControlNext]_controlVars => [Kept]_controlVars BY <1>2
<1> QED BY <1>3, ControlInvAlways, PTL DEF ControlSpec, CancelledIsFinal

=============================================================================
