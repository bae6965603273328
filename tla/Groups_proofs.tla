---------------------------- MODULE Groups_proofs ----------------------------
(***************************************************************************)
(* Theorems about Groups, for any accounts, groups and platform, any rows  *)
(* at the start and any number of faults and requests.                     *)
(***************************************************************************)
EXTENDS Groups, TLAPS

(* A worker of a scan: it heard of the groups its account is a member of, has
   only such groups to do, and what it read of the table is still known. *)
WorkerOK(b, w, table, told) ==
  \/ w.at = "end"
  \/ /\ w = [at |-> w.at, filter |-> w.filter, heard |-> w.heard, before |-> w.before,
             todo |-> w.todo, total |-> w.total, failed |-> w.failed, group |-> w.group]
     /\ w.at \in Workers /\ w.heard \subseteq told[b] /\ w.todo \subseteq told[b]
     /\ w.at \in {"next", "chain", "refresh"} =>
          /\ w.before \in [Group -> GroupRow]
          /\ \A g \in Group : w.before[g].known => table[g].known
     /\ w.at \in {"chain", "refresh"} => w.group \in Group

ScanOK ==
  scan # None =>
    /\ scan = [op |-> scan.op, solo |-> scan.solo, cancelled |-> scan.cancelled,
               part |-> scan.part]
    /\ scan.part = [b \in DOMAIN scan.part |-> scan.part[b]]
    /\ DOMAIN scan.part \subseteq Account
    /\ \A b \in DOMAIN scan.part : WorkerOK(b, scan.part[b], rows, listed)

(* The table, and a removal or a restoration whose second write is to come. *)
RowsOK ==
  /\ rows \in [Group -> GroupRow]
  /\ \A g \in Group : rows[g].known \/ rows[g] = NoRow
  /\ listed \in [Account -> SUBSET Group]
  /\ asked # None => asked.group \in Group /\ rows[asked.group].known

(* The accounts, their bots, and what the sweep and the breaker keep. *)
WorldOK ==
  /\ platform \subseteq Account /\ member \in [Account -> SUBSET Group] /\ up \subseteq Account
  /\ bots \subseteq Account /\ online \subseteq Account /\ bound \subseteq online
  /\ pin \in Account \cup {None}
  /\ hidden \subseteq Account /\ misses \in [Account -> 0 .. Limit - 1]
  /\ health \in [Account -> 0 .. 3] /\ cooling \subseteq Account
  /\ sweep = [at |-> sweep.at, stale |-> sweep.stale, alive |-> sweep.alive]
  /\ sweep.stale \subseteq Account /\ sweep.alive \subseteq Account

FileCall == [group : Group, at : {"gate", "sync"}, want : Account \cup {None}, by : Account \cup {None}]

FilesOK ==
  /\ files \in [Group -> 0 .. MaxQueued] /\ chained \subseteq Group
  /\ file = None \/ file \in FileCall

GroupsInv == ScanOK /\ RowsOK /\ WorldOK /\ FilesOK /\ OwnerListed /\ ChainBacked

-----------------------------------------------------------------------------
(* What any step may do to the row of a group: it stays known, its owner is one
   that was told of the group, and only the user's request shows it again once
   removed. *)
RowStep(g) ==
  /\ rows'[g] \in GroupRow
  /\ rows[g].known => rows'[g].known
  /\ rows'[g].known \/ rows'[g] = rows[g]
  /\ rows'[g].owner = rows[g].owner \/ g \in listed[rows'[g].owner]
  /\ rows[g].removed /\ ~rows[g].managed /\ rows'[g].managed => asked # None /\ asked.group = g

RowsStep == rows' = [g \in Group |-> rows'[g]] /\ \A g \in Group : RowStep(g)

LEMMA Unwritten == ASSUME RowsOK, UNCHANGED rows PROVE RowsStep
<1>1. rows = [g \in Group |-> rows[g]] BY DEF RowsOK
<1>2. \A g \in Group : RowStep(g) BY DEF RowsOK, RowStep
<1> QED BY <1>1, <1>2 DEF RowsStep

LEMMA WrittenFacts ==
  ASSUME RowsOK, NEW gs, NEW shown \in BOOLEAN
  PROVE  /\ Written(gs, shown) = [g \in Group |-> Written(gs, shown)[g]]
         /\ \A g \in Group :
              /\ Written(gs, shown)[g] \in GroupRow
              /\ Written(gs, shown)[g].known = rows[g].known
              /\ Written(gs, shown)[g].owner = rows[g].owner
              /\ Written(gs, shown)[g].removed = rows[g].removed
              /\ Written(gs, shown)[g].managed = IF g \in gs THEN shown ELSE rows[g].managed
              /\ g \notin gs => Written(gs, shown)[g] = rows[g]
<1>1. Written(gs, shown) = [g \in Group |-> Written(gs, shown)[g]] BY DEF Written
<1>2. ASSUME NEW g \in Group
      PROVE  /\ Written(gs, shown)[g] \in GroupRow
             /\ Written(gs, shown)[g].known = rows[g].known
             /\ Written(gs, shown)[g].owner = rows[g].owner
             /\ Written(gs, shown)[g].removed = rows[g].removed
             /\ Written(gs, shown)[g].managed = IF g \in gs THEN shown ELSE rows[g].managed
             /\ g \notin gs => Written(gs, shown)[g] = rows[g]
  <2>1. rows[g] \in GroupRow BY DEF RowsOK
  <2>2. Written(gs, shown)[g] = IF g \in gs THEN [rows[g] EXCEPT !.managed = shown] ELSE rows[g]
    BY DEF Written
  <2> QED BY <2>1, <2>2 DEF GroupRow
<1> QED BY <1>1, <1>2

(* Hiding is always safe for a known row; showing, where no removed row is shown. *)
LEMMA WrittenRows ==
  ASSUME RowsOK, NEW gs, NEW shown \in BOOLEAN, rows' = Written(gs, shown),
         \A g \in Group : g \in gs => rows[g].known,
         \A g \in Group : g \in gs /\ shown /\ rows[g].removed => asked # None /\ asked.group = g
  PROVE  RowsStep
<1>1. \A g \in Group : RowStep(g) BY WrittenFacts DEF RowStep
<1> QED BY <1>1, WrittenFacts DEF RowsStep

LEMMA RemovedRows ==
  ASSUME RowsOK, NEW h \in Group, rows[h].known, NEW r \in BOOLEAN,
         rows' = [rows EXCEPT ![h].removed = r]
  PROVE  RowsStep
<1>1. rows' = [g \in Group |-> rows'[g]] BY DEF RowsOK
<1>2. ASSUME NEW g \in Group PROVE RowStep(g)
  <2>1. rows[g] \in GroupRow BY DEF RowsOK
  <2>2. rows'[g] = IF g = h THEN [rows[g] EXCEPT !.removed = r] ELSE rows[g] BY DEF RowsOK
  <2> QED BY <2>1, <2>2 DEF RowStep, GroupRow
<1> QED BY <1>1, <1>2 DEF RowsStep

LEMMA PersistRows ==
  ASSUME GroupsInv, NEW b \in Account, NEW g \in Group, NEW asks, NEW ok, Persists(b, g, asks, ok)
  PROVE  RowsStep
<1> DEFINE judged == scan.part[b].before[g].judged \/ (asks /\ ok)
<1>1. At(b, "next") /\ g \in scan.part[b].todo /\ rows' = [rows EXCEPT ![g] = Persisted(rows[g], b, judged)]
  BY DEF Persists, Speaks
<1>2. g \in listed[b] BY <1>1 DEF At, GroupsInv, ScanOK, WorkerOK
<1>3. judged \in BOOLEAN OBVIOUS
<1> HIDE DEF judged
<1>4. rows' = [h \in Group |-> rows'[h]] BY <1>1 DEF GroupsInv, RowsOK
<1>5. ASSUME NEW h \in Group PROVE RowStep(h)
  <2>1. rows[h] \in GroupRow BY DEF GroupsInv, RowsOK
  <2>2. rows'[h] = IF h = g THEN Persisted(rows[h], b, judged) ELSE rows[h]
    BY <1>1 DEF GroupsInv, RowsOK
  <2> QED BY <1>2, <1>3, <2>1, <2>2 DEF RowStep, GroupRow, Persisted
<1> QED BY <1>4, <1>5 DEF RowsStep

(* Every step is such a step: the ones that write the table, one by one. *)
LEMMA RowsStepHolds == ASSUME GroupsInv, Next PROVE RowsStep
<1>1. ASSUME NEW b \in Account, Logs(b) PROVE RowsStep
  <2>1. rows' = Written(Restorable(b), TRUE) BY <1>1 DEF Logs, Speaks, Shows
  <2>2. \A g \in Group : g \in Restorable(b) => rows[g].known /\ ~rows[g].removed
    BY DEF Restorable, OwnedBy
  <2> QED BY <2>1, <2>2, WrittenRows DEF GroupsInv
<1>2. ASSUME NEW b \in Account, Converges(b) PROVE RowsStep
  <2> DEFINE w == scan.part[b]
  <2>1. rows' = Written(Gone(b), FALSE) /\ At(b, "next") BY <1>2 DEF Converges
  <2>2. w.before \in [Group -> GroupRow] /\ \A g \in Group : w.before[g].known => rows[g].known
    BY <2>1 DEF At, GroupsInv, ScanOK, WorkerOK
  <2>3. \A g \in Group : g \in Gone(b) => rows[g].known BY <2>2 DEF Gone
  <2> QED BY <2>1, <2>3, WrittenRows DEF GroupsInv
<1>3. ASSUME NEW b \in Account, NEW g \in Group, Collects(b, g) PROVE RowsStep
  BY <1>3, PersistRows DEF Collects
<1>4. ASSUME NEW b \in Account, NEW g \in Group, Updates(b, g) PROVE RowsStep
  BY <1>4, PersistRows DEF Updates
<1>5. CASE Applies
  <2> DEFINE hides == Hides(sweep.stale)
             shows == {g \in Group : \E a \in Reveals : g \in Restorable(a)}
  <2>1. rows' = [g \in Group |-> IF g \in hides THEN [rows[g] EXCEPT !.managed = FALSE]
                                 ELSE IF g \in shows THEN [rows[g] EXCEPT !.managed = TRUE]
                                 ELSE rows[g]]
    BY <1>5 DEF Applies, Shows
  <2>2. \A g \in Group : /\ g \in hides => rows[g].known
                         /\ g \in shows => rows[g].known /\ ~rows[g].removed
    BY DEF Hides, Hideable, Restorable, OwnedBy
  <2> HIDE DEF hides, shows
  <2>3. ASSUME NEW g \in Group PROVE RowStep(g)
    <3>1. rows[g] \in GroupRow BY DEF GroupsInv, RowsOK
    <3>2. rows'[g] = IF g \in hides THEN [rows[g] EXCEPT !.managed = FALSE]
                     ELSE IF g \in shows THEN [rows[g] EXCEPT !.managed = TRUE] ELSE rows[g]
      BY <2>1
    <3> QED BY <2>2, <3>1, <3>2 DEF RowStep, GroupRow
  <2>4. rows' = [g \in Group |-> rows'[g]] BY <2>1
  <2> QED BY <2>3, <2>4 DEF RowsStep
<1>6. CASE Misses
  <2>1. PICK out : rows' = Written(Hides(out), FALSE) BY <1>6 DEF Misses
  <2>2. \A g \in Group : g \in Hides(out) => rows[g].known BY DEF Hides, Hideable, OwnedBy
  <2> QED BY <2>1, <2>2, WrittenRows DEF GroupsInv
<1>7. CASE Answers
  <2> DEFINE h == asked.group
  <2>1. asked # None /\ \/ rows' = [rows EXCEPT ![h].removed = TRUE]
                        \/ rows' = Written({h}, TRUE)
    BY <1>7 DEF Answers
  <2>2. h \in Group /\ rows[h].known BY <2>1 DEF GroupsInv, RowsOK
  <2>3. CASE rows' = [rows EXCEPT ![h].removed = TRUE] BY <2>2, <2>3, RemovedRows DEF GroupsInv
  <2>4. CASE rows' = Written({h}, TRUE)
    <3>1. \A x \in Group : x \in {h} => rows[x].known /\ asked # None /\ asked.group = x
      BY <2>1, <2>2
    <3> QED BY <2>4, <3>1, WrittenRows DEF GroupsInv
  <2> QED BY <2>1, <2>3, <2>4
<1>8. ASSUME NEW what \in {"remove", "restore"}, NEW g \in Group, Asks(what, g) PROVE RowsStep
  <2>1. rows[g].known /\ \/ rows' = Written({g}, FALSE)
                         \/ rows' = [rows EXCEPT ![g].removed = FALSE]
    BY <1>8 DEF Asks
  <2>2. CASE rows' = Written({g}, FALSE)
    <3>1. \A x \in Group : x \in {g} => rows[x].known BY <2>1
    <3> QED BY <2>2, <3>1, WrittenRows DEF GroupsInv
  <2>3. CASE rows' = [rows EXCEPT ![g].removed = FALSE] BY <2>1, <2>3, RemovedRows DEF GroupsInv
  <2> QED BY <2>1, <2>2, <2>3
<1>9. CASE UNCHANGED rows
  BY <1>9, Unwritten DEF GroupsInv
<1> QED
  BY <1>1, <1>2, <1>3, <1>4, <1>5, <1>6, <1>7, <1>8, <1>9 DEF Next, Scan,
     FileScan, Sweep, User, world, resolver, sweeper, breaker, chain, Takes,
     PartFails, Lists, Reads, Chained, Stale, Refreshed, Stops, Ends, Gates,
     Syncs, Opens, Probes, Resolves, Claims, Cancels, Drops, PageScans, World,
     CoolsDown, Expires, Event

-----------------------------------------------------------------------------
(* The scan.  What a worker knows stays true: a row stays known, an account that
   was told of a group stays so. *)
ToldStays == listed' \in [Account -> SUBSET Group] /\ \A a \in Account : listed[a] \subseteq listed'[a]

LEMMA ToldStaysHolds == ASSUME GroupsInv, Next PROVE ToldStays
<1>1. CASE UNCHANGED listed BY <1>1 DEF ToldStays, GroupsInv, RowsOK
<1>2. ASSUME NEW b \in Account, Lists(b) PROVE ToldStays
  BY <1>2 DEF Lists, ToldStays, GroupsInv, RowsOK, WorldOK
<1>3. ASSUME Scan, \A b \in Account : ~Lists(b) PROVE UNCHANGED listed
  <2>1. ASSUME NEW b \in Account, NEW g \in Group, Collects(b, g) \/ Updates(b, g)
        PROVE  UNCHANGED listed
    BY <2>1 DEF Collects, Updates, Persists
  <2>2. ASSUME NEW s, Takes(s) PROVE UNCHANGED listed BY <2>2 DEF Takes
  <2>3. ASSUME NEW b \in Account, PartFails(b) \/ Logs(b) \/ Reads(b) \/ Converges(b) \/ Stops(b)
        PROVE  UNCHANGED listed
    BY <2>3 DEF PartFails, Logs, Reads, Converges, Stops
  <2>4. ASSUME NEW b \in Account, Chained(b) \/ Stale(b) \/ Refreshed(b) PROVE UNCHANGED listed
    BY <2>4 DEF Chained, Stale, Refreshed
  <2> QED BY <1>3, <2>1, <2>2, <2>3, <2>4 DEF Scan, Ends
<1>4. CASE FileScan \/ Sweep \/ User
  BY <1>1, <1>4 DEF FileScan, Sweep, User, Gates, Syncs, Opens, Probes,
     Applies, Misses, Resolves, Claims, Answers, Cancels, Drops, Asks,
     PageScans
<1> QED BY <1>1, <1>2, <1>3, <1>4 DEF Next, World, CoolsDown, Expires, Event

LEMMA WorkerStays ==
  ASSUME RowsStep, ToldStays, NEW b \in Account, NEW w, WorkerOK(b, w, rows, listed)
  PROVE  WorkerOK(b, w, rows', listed')
BY DEF RowsStep, RowStep, ToldStays, WorkerOK

LEMMA ScanStays ==
  ASSUME ScanOK, RowsStep, ToldStays,
         \/ scan' = None
         \/ scan' = scan
         \/ scan # None /\ scan' = [scan EXCEPT !.cancelled = TRUE]
  PROVE  ScanOK'
<1> SUFFICES ASSUME scan' # None PROVE ScanOK' BY DEF ScanOK
<1>0. scan # None OBVIOUS
<1>1. /\ scan' = [op |-> scan'.op, solo |-> scan'.solo, cancelled |-> scan'.cancelled,
                  part |-> scan'.part]
      /\ scan'.part = scan.part
  BY <1>0 DEF ScanOK
<1>2. \A b \in DOMAIN scan.part : WorkerOK(b, scan.part[b], rows', listed')
  BY <1>0, WorkerStays DEF ScanOK
<1> QED BY <1>0, <1>1, <1>2 DEF ScanOK

(* One worker moves on. *)
LEMMA PartStep ==
  ASSUME ScanOK, RowsStep, ToldStays, scan # None, NEW b \in DOMAIN scan.part, NEW w, Part(b, w),
         WorkerOK(b, w, rows', listed')
  PROVE  ScanOK'
<1> SUFFICES ASSUME scan' # None PROVE ScanOK' BY DEF ScanOK
<1>1. /\ scan' = [op |-> scan'.op, solo |-> scan'.solo, cancelled |-> scan'.cancelled,
                  part |-> scan'.part]
      /\ scan'.part = [scan.part EXCEPT ![b] = w]
  BY DEF ScanOK, Part
<1>2. \A c \in DOMAIN scan.part : WorkerOK(c, scan.part[c], rows', listed')
  BY WorkerStays DEF ScanOK
<1>3. /\ scan'.part = [c \in DOMAIN scan'.part |-> scan'.part[c]]
      /\ DOMAIN scan'.part = DOMAIN scan.part
      /\ \A c \in DOMAIN scan.part : scan'.part[c] = IF c = b THEN w ELSE scan.part[c]
  BY <1>1
<1> QED BY <1>1, <1>2, <1>3 DEF ScanOK

LEMMA ScanStep == ASSUME GroupsInv, Next PROVE ScanOK'
<1> RowsStep /\ ToldStays BY RowsStepHolds, ToldStaysHolds
<1>1. ASSUME NEW s, Takes(s) PROVE ScanOK'
  <2>1. CASE scan' = None BY <2>1 DEF ScanOK
  <2>2. ASSUME NEW ws, NEW bs, bs \subseteq Account, NEW solo,
               ws = [b \in bs |-> ws[b]], \A b \in bs : \E x : ws[b] = Worker(x),
               scan' = [op |-> s, solo |-> solo, cancelled |-> FALSE, part |-> ws]
        PROVE  ScanOK'
    <3>1. \A b \in bs : WorkerOK(b, ws[b], rows', listed')
      BY <2>2 DEF WorkerOK, Worker, Workers
    <3> HIDE DEF Worker, WorkerOK
    <3> QED BY <2>2, <3>1 DEF ScanOK
  <2>3. CASE Cardinality(bots) <= 1
    <3> DEFINE ws == [b \in {pin'} |-> Worker(s.filter)]
    <3>1. \/ scan' = None
          \/ scan' = [op |-> s, solo |-> TRUE, cancelled |-> FALSE, part |-> ws] /\ pin' # None
      <4> HIDE DEF Worker
      <4> QED BY <1>1, <2>3 DEF Takes
    <3>2. pin' # None => pin' \in Account BY <1>1, <2>3 DEF Takes, GroupsInv, WorldOK
    <3>3. ws = [b \in {pin'} |-> ws[b]] /\ \A b \in {pin'} : \E x : ws[b] = Worker(x)
      <4> HIDE DEF Worker
      <4> QED OBVIOUS
    <3> HIDE DEF ws
    <3> QED BY <2>1, <2>2, <3>1, <3>2, <3>3
  <2>4. CASE ~(Cardinality(bots) <= 1)
    <3> DEFINE bs == {c \in bots : ~Cools(c)}
               ws == [b \in bs |-> Worker(Assigned(b, s.filter))]
    <3>1. scan' = None \/ scan' = [op |-> s, solo |-> FALSE, cancelled |-> FALSE, part |-> ws]
      <4> HIDE DEF Worker
      <4> QED BY <1>1, <2>4 DEF Takes
    <3>2. bs \subseteq Account BY DEF GroupsInv, WorldOK
    <3>3. ws = [b \in bs |-> ws[b]] /\ \A b \in bs : \E x : ws[b] = Worker(x)
      <4> HIDE DEF Worker
      <4> QED OBVIOUS
    <3> HIDE DEF ws, bs
    <3> QED BY <2>1, <2>2, <3>1, <3>2, <3>3
  <2> QED BY <2>3, <2>4
<1>2. ASSUME NEW b \in Account, PartFails(b) PROVE ScanOK'
  <2> DEFINE old == scan.part[b]
             w == [at |-> "end"]
  <2>1. scan # None /\ b \in DOMAIN scan.part /\ Part(b, w) BY <1>2 DEF PartFails, At, Over, Speaks
  <2>2. WorkerOK(b, old, rows', listed') BY <2>1, WorkerStays DEF GroupsInv, ScanOK
  <2>3. WorkerOK(b, w, rows', listed') BY DEF WorkerOK
  <2> HIDE DEF w
  <2> QED BY <2>1, <2>3, PartStep DEF GroupsInv
<1>3. ASSUME NEW b \in Account, Logs(b) PROVE ScanOK'
  <2> DEFINE old == scan.part[b]
             w == [old EXCEPT !.at = "list"]
  <2>1. scan # None /\ b \in DOMAIN scan.part /\ Part(b, w) BY <1>3 DEF Logs, At, Over, Speaks
  <2>2. WorkerOK(b, old, rows', listed') BY <2>1, WorkerStays DEF GroupsInv, ScanOK
  <2>3. WorkerOK(b, w, rows', listed') BY <1>3, <2>2 DEF Logs, At, WorkerOK, Workers
  <2> HIDE DEF w
  <2> QED BY <2>1, <2>3, PartStep DEF GroupsInv
<1>4. ASSUME NEW b \in Account, Lists(b) PROVE ScanOK'
  <2> DEFINE old == scan.part[b]
             w == [old EXCEPT !.at = "read", !.heard = member[b]]
  <2>1. scan # None /\ b \in DOMAIN scan.part /\ Part(b, w) BY <1>4 DEF Lists, At, Over, Speaks
  <2>2. WorkerOK(b, old, rows', listed') BY <2>1, WorkerStays DEF GroupsInv, ScanOK
  <2>3. WorkerOK(b, w, rows', listed')
    <3>1. old.at = "list" /\ listed' = [listed EXCEPT ![b] = listed[b] \cup member[b]]
      BY <1>4 DEF Lists, At, Speaks
    <3>2. b \in Account BY <2>1 DEF GroupsInv, ScanOK
    <3>3. member[b] \subseteq listed'[b] BY <3>1, <3>2 DEF GroupsInv, RowsOK
    <3>0. old = [at |-> old.at, filter |-> old.filter, heard |-> old.heard, before |-> old.before,
                     todo |-> old.todo, total |-> old.total, failed |-> old.failed, group |-> old.group]
      BY <2>2, <3>1 DEF WorkerOK
    <3> DEFINE w1 == [at |-> "read", filter |-> old.filter, heard |-> old.heard, before |-> old.before,
                     todo |-> old.todo, total |-> old.total, failed |-> old.failed, group |-> old.group]
               w2 == [at |-> "read", filter |-> old.filter, heard |-> member[b], before |-> old.before,
                     todo |-> old.todo, total |-> old.total, failed |-> old.failed, group |-> old.group]
    <3>c1. [old EXCEPT !.at = "read"] = w1 BY <3>0
    <3>c2. [w1 EXCEPT !.heard = member[b]] = w2 OBVIOUS
    <3>4. w = w2 BY <3>c1, <3>c2
    <3> HIDE DEF w
    <3> QED BY <2>2, <3>1, <3>3, <3>4 DEF WorkerOK, Workers
  <2> HIDE DEF w
  <2> QED BY <2>1, <2>3, PartStep DEF GroupsInv
<1>5. ASSUME NEW b \in Account, Reads(b) PROVE ScanOK'
  <2> DEFINE old == scan.part[b]
             w == [old EXCEPT !.at = "next", !.before = rows, !.todo = Todo(old), !.total = Cardinality(Todo(old))]
  <2>1. scan # None /\ b \in DOMAIN scan.part /\ Part(b, w) BY <1>5 DEF Reads, At, Over, Speaks
  <2>2. WorkerOK(b, old, rows', listed') BY <2>1, WorkerStays DEF GroupsInv, ScanOK
  <2>3. WorkerOK(b, w, rows', listed')
    <3>1. old.at = "read" /\ rows' = rows BY <1>5 DEF Reads, At
    <3>2. Todo(old) \subseteq old.heard BY DEF Todo
    <3> HIDE DEF Todo
    <3>0. old = [at |-> old.at, filter |-> old.filter, heard |-> old.heard, before |-> old.before,
                     todo |-> old.todo, total |-> old.total, failed |-> old.failed, group |-> old.group]
      BY <2>2, <3>1 DEF WorkerOK
    <3> DEFINE w1 == [at |-> "next", filter |-> old.filter, heard |-> old.heard, before |-> old.before,
                     todo |-> old.todo, total |-> old.total, failed |-> old.failed, group |-> old.group]
               w2 == [at |-> "next", filter |-> old.filter, heard |-> old.heard, before |-> rows,
                     todo |-> old.todo, total |-> old.total, failed |-> old.failed, group |-> old.group]
               w3 == [at |-> "next", filter |-> old.filter, heard |-> old.heard, before |-> rows,
                     todo |-> Todo(old), total |-> old.total, failed |-> old.failed, group |-> old.group]
               w4 == [at |-> "next", filter |-> old.filter, heard |-> old.heard, before |-> rows,
                     todo |-> Todo(old), total |-> Cardinality(Todo(old)), failed |-> old.failed, group |-> old.group]
    <3>c1. [old EXCEPT !.at = "next"] = w1 BY <3>0
    <3>c2. [w1 EXCEPT !.before = rows] = w2 OBVIOUS
    <3>c3. [w2 EXCEPT !.todo = Todo(old)] = w3 OBVIOUS
    <3>c4. [w3 EXCEPT !.total = Cardinality(Todo(old))] = w4 OBVIOUS
    <3>3. w = w4 BY <3>c1, <3>c2, <3>c3, <3>c4
    <3> HIDE DEF w
    <3> QED BY <2>2, <3>1, <3>2, <3>3 DEF WorkerOK, Workers, GroupsInv, RowsOK
  <2> HIDE DEF w
  <2> QED BY <2>1, <2>3, PartStep DEF GroupsInv
<1>6. ASSUME NEW b \in Account, Chained(b) PROVE ScanOK'
  <2> DEFINE old == scan.part[b]
             w == [old EXCEPT !.at = "next", !.group = None]
  <2>1. scan # None /\ b \in DOMAIN scan.part /\ Part(b, w) BY <1>6 DEF Chained, At, Chain
  <2>2. WorkerOK(b, old, rows', listed') BY <2>1, WorkerStays DEF GroupsInv, ScanOK
  <2>3. WorkerOK(b, w, rows', listed')
    <3>1. old.at \in {"chain", "refresh"} BY <1>6 DEF Chained, At
    <3>0. old = [at |-> old.at, filter |-> old.filter, heard |-> old.heard, before |-> old.before,
                     todo |-> old.todo, total |-> old.total, failed |-> old.failed, group |-> old.group]
      BY <2>2, <3>1 DEF WorkerOK
    <3> DEFINE w1 == [at |-> "next", filter |-> old.filter, heard |-> old.heard, before |-> old.before,
                     todo |-> old.todo, total |-> old.total, failed |-> old.failed, group |-> old.group]
               w2 == [at |-> "next", filter |-> old.filter, heard |-> old.heard, before |-> old.before,
                     todo |-> old.todo, total |-> old.total, failed |-> old.failed, group |-> None]
    <3>c1. [old EXCEPT !.at = "next"] = w1 BY <3>0
    <3>c2. [w1 EXCEPT !.group = None] = w2 OBVIOUS
    <3>2. w = w2 BY <3>c1, <3>c2
    <3> HIDE DEF w
    <3> QED BY <2>2, <3>1, <3>2 DEF WorkerOK, Workers
  <2> HIDE DEF w
  <2> QED BY <2>1, <2>3, PartStep DEF GroupsInv
<1>7. ASSUME NEW b \in Account, Stale(b) PROVE ScanOK'
  <2> DEFINE old == scan.part[b]
             w == [old EXCEPT !.at = "refresh"]
  <2>1. scan # None /\ b \in DOMAIN scan.part /\ Part(b, w) BY <1>7 DEF Stale, At, Over, Speaks
  <2>2. WorkerOK(b, old, rows', listed') BY <2>1, WorkerStays DEF GroupsInv, ScanOK
  <2>3. WorkerOK(b, w, rows', listed') BY <1>7, <2>2 DEF Stale, At, WorkerOK, Workers
  <2> HIDE DEF w
  <2> QED BY <2>1, <2>3, PartStep DEF GroupsInv
<1>8. ASSUME NEW b \in Account, Refreshed(b) PROVE ScanOK'
  <2> DEFINE old == scan.part[b]
             w == [old EXCEPT !.at = "next", !.group = None]
  <2>1. scan # None /\ b \in DOMAIN scan.part /\ Part(b, w) BY <1>8 DEF Refreshed, At, Chain
  <2>2. WorkerOK(b, old, rows', listed') BY <2>1, WorkerStays DEF GroupsInv, ScanOK
  <2>3. WorkerOK(b, w, rows', listed')
    <3>1. old.at \in {"chain", "refresh"} BY <1>8 DEF Refreshed, At
    <3>0. old = [at |-> old.at, filter |-> old.filter, heard |-> old.heard, before |-> old.before,
                     todo |-> old.todo, total |-> old.total, failed |-> old.failed, group |-> old.group]
      BY <2>2, <3>1 DEF WorkerOK
    <3> DEFINE w1 == [at |-> "next", filter |-> old.filter, heard |-> old.heard, before |-> old.before,
                     todo |-> old.todo, total |-> old.total, failed |-> old.failed, group |-> old.group]
               w2 == [at |-> "next", filter |-> old.filter, heard |-> old.heard, before |-> old.before,
                     todo |-> old.todo, total |-> old.total, failed |-> old.failed, group |-> None]
    <3>c1. [old EXCEPT !.at = "next"] = w1 BY <3>0
    <3>c2. [w1 EXCEPT !.group = None] = w2 OBVIOUS
    <3>2. w = w2 BY <3>c1, <3>c2
    <3> HIDE DEF w
    <3> QED BY <2>2, <3>1, <3>2 DEF WorkerOK, Workers
  <2> HIDE DEF w
  <2> QED BY <2>1, <2>3, PartStep DEF GroupsInv
<1>9. ASSUME NEW b \in Account, Converges(b) PROVE ScanOK'
  <2> DEFINE old == scan.part[b]
             w == [at |-> "end"]
  <2>1. scan # None /\ b \in DOMAIN scan.part /\ Part(b, w) BY <1>9 DEF Converges, At, Over, Speaks
  <2>2. WorkerOK(b, old, rows', listed') BY <2>1, WorkerStays DEF GroupsInv, ScanOK
  <2>3. WorkerOK(b, w, rows', listed') BY DEF WorkerOK
  <2> HIDE DEF w
  <2> QED BY <2>1, <2>3, PartStep DEF GroupsInv
<1>10. ASSUME NEW b \in Account, Stops(b) PROVE ScanOK'
  <2> DEFINE old == scan.part[b]
             w == [at |-> "end"]
  <2>1. scan # None /\ b \in DOMAIN scan.part /\ Part(b, w) BY <1>10 DEF Stops, At, Over, Speaks
  <2>2. WorkerOK(b, old, rows', listed') BY <2>1, WorkerStays DEF GroupsInv, ScanOK
  <2>3. WorkerOK(b, w, rows', listed') BY DEF WorkerOK
  <2> HIDE DEF w
  <2> QED BY <2>1, <2>3, PartStep DEF GroupsInv
<1>11. ASSUME NEW b \in Account, NEW g \in Group, Collects(b, g) PROVE ScanOK'
  <2>1. PICK asks, ok : Persists(b, g, asks, ok) BY <1>11 DEF Collects
  <2> DEFINE old == scan.part[b]
             judged == old.before[g].judged \/ (asks /\ ok)
             w == [old EXCEPT !.todo = old.todo \ {g}, !.group = g,
                              !.failed = IF asks /\ ~ok THEN old.failed + 1 ELSE old.failed,
                              !.at = IF Wired /\ (judged \/ old.before[g].known) THEN "chain" ELSE "next"]
  <2>2. scan # None /\ b \in DOMAIN scan.part /\ old.at = "next" BY <2>1 DEF Persists, At
  <2>3. WorkerOK(b, old, rows', listed') BY <2>2, WorkerStays DEF GroupsInv, ScanOK
  <2>4. Part(b, w)
    <3>1. old = [at |-> old.at, filter |-> old.filter, heard |-> old.heard, before |-> old.before,
                 todo |-> old.todo, total |-> old.total, failed |-> old.failed, group |-> old.group]
      BY <2>2, <2>3 DEF WorkerOK
    <3> QED BY <2>1, <3>1 DEF Persists
  <2>5. WorkerOK(b, w, rows', listed')
    <3>0. old = [at |-> old.at, filter |-> old.filter, heard |-> old.heard, before |-> old.before,
                     todo |-> old.todo, total |-> old.total, failed |-> old.failed, group |-> old.group]
      BY <2>2, <2>3 DEF WorkerOK
    <3> DEFINE w1 == [at |-> old.at, filter |-> old.filter, heard |-> old.heard, before |-> old.before,
                     todo |-> old.todo \ {g}, total |-> old.total, failed |-> old.failed, group |-> old.group]
               w2 == [at |-> old.at, filter |-> old.filter, heard |-> old.heard, before |-> old.before,
                     todo |-> old.todo \ {g}, total |-> old.total, failed |-> old.failed, group |-> g]
               w3 == [at |-> old.at, filter |-> old.filter, heard |-> old.heard, before |-> old.before,
                     todo |-> old.todo \ {g}, total |-> old.total, failed |-> (IF asks /\ ~ok THEN old.failed + 1 ELSE old.failed), group |-> g]
               w4 == [at |-> (IF Wired /\ (judged \/ old.before[g].known) THEN "chain" ELSE "next"), filter |-> old.filter, heard |-> old.heard, before |-> old.before,
                     todo |-> old.todo \ {g}, total |-> old.total, failed |-> (IF asks /\ ~ok THEN old.failed + 1 ELSE old.failed), group |-> g]
    <3>c1. [old EXCEPT !.todo = old.todo \ {g}] = w1 BY <3>0
    <3>c2. [w1 EXCEPT !.group = g] = w2 OBVIOUS
    <3>c3. [w2 EXCEPT !.failed = (IF asks /\ ~ok THEN old.failed + 1 ELSE old.failed)] = w3 OBVIOUS
    <3>c4. [w3 EXCEPT !.at = (IF Wired /\ (judged \/ old.before[g].known) THEN "chain" ELSE "next")] = w4 OBVIOUS
    <3>1. w = w4 BY <3>c1, <3>c2, <3>c3, <3>c4
    <3> HIDE DEF w
    <3> QED BY <2>2, <2>3, <3>1 DEF WorkerOK, Workers
  <2> HIDE DEF w
  <2> QED BY <2>2, <2>4, <2>5, PartStep DEF GroupsInv
<1>12. ASSUME NEW b \in Account, NEW g \in Group, Updates(b, g) PROVE ScanOK'
  <2>1. PICK asks, ok : Persists(b, g, asks, ok) BY <1>12 DEF Updates
  <2> DEFINE old == scan.part[b]
             judged == old.before[g].judged \/ (asks /\ ok)
             w == [old EXCEPT !.todo = old.todo \ {g}, !.group = g,
                              !.failed = IF asks /\ ~ok THEN old.failed + 1 ELSE old.failed,
                              !.at = IF Wired /\ (judged \/ old.before[g].known) THEN "chain" ELSE "next"]
  <2>2. scan # None /\ b \in DOMAIN scan.part /\ old.at = "next" BY <2>1 DEF Persists, At
  <2>3. WorkerOK(b, old, rows', listed') BY <2>2, WorkerStays DEF GroupsInv, ScanOK
  <2>4. Part(b, w)
    <3>1. old = [at |-> old.at, filter |-> old.filter, heard |-> old.heard, before |-> old.before,
                 todo |-> old.todo, total |-> old.total, failed |-> old.failed, group |-> old.group]
      BY <2>2, <2>3 DEF WorkerOK
    <3> QED BY <2>1, <3>1 DEF Persists
  <2>5. WorkerOK(b, w, rows', listed')
    <3>0. old = [at |-> old.at, filter |-> old.filter, heard |-> old.heard, before |-> old.before,
                     todo |-> old.todo, total |-> old.total, failed |-> old.failed, group |-> old.group]
      BY <2>2, <2>3 DEF WorkerOK
    <3> DEFINE w1 == [at |-> old.at, filter |-> old.filter, heard |-> old.heard, before |-> old.before,
                     todo |-> old.todo \ {g}, total |-> old.total, failed |-> old.failed, group |-> old.group]
               w2 == [at |-> old.at, filter |-> old.filter, heard |-> old.heard, before |-> old.before,
                     todo |-> old.todo \ {g}, total |-> old.total, failed |-> old.failed, group |-> g]
               w3 == [at |-> old.at, filter |-> old.filter, heard |-> old.heard, before |-> old.before,
                     todo |-> old.todo \ {g}, total |-> old.total, failed |-> (IF asks /\ ~ok THEN old.failed + 1 ELSE old.failed), group |-> g]
               w4 == [at |-> (IF Wired /\ (judged \/ old.before[g].known) THEN "chain" ELSE "next"), filter |-> old.filter, heard |-> old.heard, before |-> old.before,
                     todo |-> old.todo \ {g}, total |-> old.total, failed |-> (IF asks /\ ~ok THEN old.failed + 1 ELSE old.failed), group |-> g]
    <3>c1. [old EXCEPT !.todo = old.todo \ {g}] = w1 BY <3>0
    <3>c2. [w1 EXCEPT !.group = g] = w2 OBVIOUS
    <3>c3. [w2 EXCEPT !.failed = (IF asks /\ ~ok THEN old.failed + 1 ELSE old.failed)] = w3 OBVIOUS
    <3>c4. [w3 EXCEPT !.at = (IF Wired /\ (judged \/ old.before[g].known) THEN "chain" ELSE "next")] = w4 OBVIOUS
    <3>1. w = w4 BY <3>c1, <3>c2, <3>c3, <3>c4
    <3> HIDE DEF w
    <3> QED BY <2>2, <2>3, <3>1 DEF WorkerOK, Workers
  <2> HIDE DEF w
  <2> QED BY <2>2, <2>4, <2>5, PartStep DEF GroupsInv
<1>13. CASE Ends
  <2>1. scan' = None BY <1>13 DEF Ends
  <2> QED BY <2>1, ScanStays DEF GroupsInv
<1>14. CASE Cancels
  <2>1. scan # None /\ scan' = [scan EXCEPT !.cancelled = TRUE] BY <1>14 DEF Cancels
  <2> QED BY <2>1, ScanStays DEF GroupsInv
<1>15. CASE UNCHANGED scan
  BY <1>15, ScanStays DEF GroupsInv
<1> QED
  BY <1>1, <1>2, <1>3, <1>4, <1>5, <1>6, <1>7, <1>8, <1>9, <1>10, <1>11, <1>12,
     <1>13, <1>14,
     <1>15 DEF Next, Scan, FileScan, Sweep, User, world, resolver, sweeper, breaker, chain,
     Gates, Syncs, Opens, Probes, Applies, Misses, Resolves, Claims, Answers, Drops, Asks,
     PageScans, World, CoolsDown, Expires, Event

-----------------------------------------------------------------------------
(* The queued file scans and the one that runs. *)
LEMMA WorkersGroup ==
  ASSUME GroupsInv, NEW b, At(b, "chain") \/ At(b, "refresh")
  PROVE  scan.part[b].group \in Group
BY DEF GroupsInv, ScanOK, WorkerOK, At

LEMMA QueuedFacts ==
  ASSUME FilesOK, NEW g \in Group
  PROVE  /\ files[g] < MaxQueued => [files EXCEPT ![g] = @ + 1] \in [Group -> 0 .. MaxQueued]
         /\ files[g] > 0 => [files EXCEPT ![g] = @ - 1] \in [Group -> 0 .. MaxQueued]
BY GroupsAssumption DEF FilesOK

Backed(g) == files[g] > 0 \/ g \in leaked \/ (file # None /\ file.group = g /\ file.at = "gate")

LEMMA ChainKeeps ==
  ASSUME GroupsInv, NEW b, NEW c, Chain(b, c), scan.part[b].group \in Group, UNCHANGED <<file, leaked>>
  PROVE  FilesOK' /\ ChainBacked'
<1> DEFINE h == scan.part[b].group
<1> USE DEF GroupsInv
<1>1. CASE UNCHANGED <<chained, files>> BY <1>1 DEF FilesOK, ChainBacked
<1>2. CASE files[h] < MaxQueued /\ chained' = chained \cup {h} /\ files' = [files EXCEPT ![h] = @ + 1]
  <2>1. files' \in [Group -> 0 .. MaxQueued] BY <1>2, QueuedFacts
  <2>2. files'[h] > 0 /\ \A g \in Group : g # h => files'[g] = files[g] BY <1>2 DEF FilesOK
  <2> QED BY <1>2, <2>1, <2>2 DEF FilesOK, ChainBacked
<1> QED BY <1>1, <1>2 DEF Chain

(* What a call is made as, and by. *)
LEMMA CallsType ==
  ASSUME WorldOK, NEW g \in Group, NEW at \in {"gate", "sync"}, NEW a, Calls(g, at, a)
  PROVE  file' \in FileCall /\ file' # None /\ file'.group = g /\ file'.at = at
<1>1. PICK by \in IF Via(a) = {} THEN {None} ELSE Via(a) :
        file' = [group |-> g, at |-> at, want |-> IF a \in bound \cap bots THEN a ELSE None, by |-> by]
  BY DEF Calls
<1>2. by \in Account \cup {None} BY <1>1 DEF Via, WorldOK
<1>3. file' \in FileCall BY <1>1, <1>2 DEF FileCall, WorldOK
<1> QED BY <1>1, <1>3, GroupsAssumption DEF GroupsAssumption, FileCall

LEMMA FilesStep == ASSUME GroupsInv, Next PROVE FilesOK' /\ ChainBacked'
<1> USE DEF GroupsInv
<1>1. ASSUME NEW b \in Account, Chained(b) PROVE FilesOK' /\ ChainBacked'
  <2>1. At(b, "chain") /\ UNCHANGED <<file, leaked>>
        /\ (Chain(b, cache) \/ UNCHANGED <<chained, files>>)
    BY <1>1 DEF Chained
  <2>2. CASE Chain(b, cache) BY <2>1, <2>2, WorkersGroup, ChainKeeps
  <2>3. CASE UNCHANGED <<chained, files>> BY <2>1, <2>3 DEF FilesOK, ChainBacked
  <2> QED BY <2>1, <2>2, <2>3
<1>2. ASSUME NEW b \in Account, Refreshed(b) PROVE FilesOK' /\ ChainBacked'
  <2>1. At(b, "refresh") /\ UNCHANGED <<file, leaked>> /\ Chain(b, Snapshot) BY <1>2 DEF Refreshed
  <2> QED BY <2>1, WorkersGroup, ChainKeeps
<1>3. CASE Gates
  <2> DEFINE h == file.group
  <2>1. file \in FileCall /\ file.at = "gate" /\ h \in Group BY <1>3 DEF Gates, FilesOK, FileCall
  <2>2. CASE Passes
    <3>1. PICK c : Calls(h, "sync", c[h].owner) /\ chained' = chained \ {h} /\ leaked' = leaked \ {h}
      BY <1>3, <2>2 DEF Gates, Forgets
    <3>2. file' \in FileCall BY <2>1, <3>1, CallsType
    <3>3. files' = files BY <1>3 DEF Gates
    <3> QED BY <3>1, <3>2, <3>3 DEF FilesOK, ChainBacked
  <2>3. CASE ~Passes
    <3>1. file' = None /\ UNCHANGED <<chained, files>> /\ Lost(h) BY <1>3, <2>3 DEF Gates
    <3>2. files[h] \in 0 .. MaxQueued BY <2>1 DEF FilesOK
    <3> QED BY <2>1, <3>1, <3>2, GroupsAssumption DEF GroupsAssumption, Lost, FilesOK, ChainBacked
  <2> QED BY <2>2, <2>3
<1>4. CASE Syncs
  <2>1. /\ file.at = "sync" /\ file' = None /\ chained' \subseteq chained
        /\ \A g \in chained' : g \in leaked => g \in leaked'
        /\ files' = files
    BY <1>4 DEF Syncs, Forgets
  <2> QED BY <2>1 DEF FilesOK, ChainBacked
<1>5. ASSUME NEW g \in Group, Opens(g) PROVE FilesOK' /\ ChainBacked'
  <2>1. file = None /\ files[g] > 0 /\ files' = [files EXCEPT ![g] = @ - 1] /\ chained' = chained
    BY <1>5 DEF Opens
  <2>2. files' \in [Group -> 0 .. MaxQueued] /\ \A h \in Group : h # g => files'[h] = files[h]
    BY <2>1, QueuedFacts
  <2>3. CASE Owned(g)
    <3>1. Calls(g, "gate", rows[g].owner) /\ leaked' = leaked BY <1>5, <2>3 DEF Opens
    <3>2. file' \in FileCall /\ file' # None /\ file'.group = g /\ file'.at = "gate" BY <3>1, CallsType
    <3> QED BY <2>1, <2>2, <3>1, <3>2 DEF FilesOK, ChainBacked
  <2>4. CASE ~Owned(g)
    <3>1. Lost(g) /\ file' = file BY <1>5, <2>4 DEF Opens
    <3>2. files'[g] \in 0 .. MaxQueued BY <2>2
    <3> QED BY <2>1, <2>2, <3>1, <3>2, GroupsAssumption
        DEF GroupsAssumption, Lost, FilesOK, ChainBacked
  <2> QED BY <2>3, <2>4
<1>6. ASSUME NEW g \in Group, Drops(g) PROVE FilesOK' /\ ChainBacked'
  <2>1. /\ files[g] > 0 /\ files' = [files EXCEPT ![g] = @ - 1] /\ chained' = chained
        /\ Lost(g) /\ file' = file
    BY <1>6 DEF Drops
  <2>2. files' \in [Group -> 0 .. MaxQueued] /\ \A h \in Group : h # g => files'[h] = files[h]
    BY <2>1, QueuedFacts
  <2>3. files'[g] \in 0 .. MaxQueued BY <2>2
  <2> QED BY <2>1, <2>2, <2>3, GroupsAssumption DEF GroupsAssumption, Lost, FilesOK, ChainBacked
<1>7. CASE UNCHANGED chain
  BY <1>7 DEF chain, FilesOK, ChainBacked
<1>8. ASSUME NEW s, Takes(s) \/ PageScans(s)
      PROVE  FilesOK' /\ ChainBacked'
  BY <1>8, <1>7 DEF Takes, PageScans
<1>9. ASSUME NEW b \in Account, PartFails(b) \/ Logs(b) \/ Lists(b) \/ Reads(b)
      PROVE  FilesOK' /\ ChainBacked'
  BY <1>9, <1>7 DEF PartFails, Logs, Lists, Reads, world, resolver, sweeper,
     breaker, chain, Persists
<1>10. ASSUME NEW b \in Account, Stale(b) \/ Converges(b) \/ Stops(b)
      PROVE  FilesOK' /\ ChainBacked'
  BY <1>10, <1>7 DEF Stale, Converges, Stops, world, resolver, sweeper,
     breaker, chain, Persists
<1>11. ASSUME NEW b \in Account, NEW g \in Group, Collects(b, g) \/ Updates(b, g)
      PROVE  FilesOK' /\ ChainBacked'
  BY <1>11, <1>7 DEF Collects, Updates, world, resolver, sweeper, breaker,
     chain, Persists
<1>12. CASE Ends \/ Probes \/ Applies \/ Misses
  BY <1>12, <1>7 DEF Ends, Probes, Applies, Misses, world, resolver, sweeper,
     breaker, chain, Persists
<1>13. CASE Resolves \/ Claims \/ Answers \/ Cancels
  BY <1>13, <1>7 DEF Resolves, Claims, Answers, Cancels, world, resolver,
     sweeper, breaker, chain, Persists
<1>14. CASE World \/ CoolsDown
  BY <1>14, <1>7 DEF World, CoolsDown
<1>15. ASSUME NEW what \in {"remove", "restore"}, NEW g \in Group, Asks(what, g)
      PROVE  FilesOK' /\ ChainBacked'
  BY <1>15, <1>7 DEF Asks
<1>16. ASSUME NEW g \in Group, Expires(g)
      PROVE  FilesOK' /\ ChainBacked'
  BY <1>16, <1>7 DEF Expires
<1>17. ASSUME NEW a \in Account, Event(a)
      PROVE  FilesOK' /\ ChainBacked'
  BY <1>17, <1>7 DEF Event
<1> QED
  BY <1>1, <1>2, <1>3, <1>4, <1>5, <1>6, <1>8, <1>9, <1>10, <1>11, <1>12,
     <1>13, <1>14, <1>15,
     <1>16, <1>17 DEF Next, Scan, FileScan, Sweep, User

-----------------------------------------------------------------------------
(* The accounts, the sweep and the breaker. *)
LEMMA MinOfTwo ==
  \A i, j \in Int : Min({i, j}) \in {i, j} /\ Min({i, j}) <= i /\ Min({i, j}) <= j
<1> SUFFICES ASSUME NEW i \in Int, NEW j \in Int
    PROVE  Min({i, j}) \in {i, j} /\ Min({i, j}) <= i /\ Min({i, j}) <= j
  OBVIOUS
<1>1. \E x \in {i, j} : \A y \in {i, j} : x <= y OBVIOUS
<1> QED BY <1>1 DEF Min

LEMMA SettlesTypes ==
  ASSUME WorldOK, NEW b \in Account, NEW bad, Settles(b, bad)
  PROVE  health' \in [Account -> 0 .. 3] /\ cooling' \subseteq Account
<1>1. CASE UNCHANGED <<health, cooling>> BY <1>1 DEF WorldOK
<1>2. CASE Failure(b)
  <2>1. health[b] \in 0 .. 3 BY DEF WorldOK
  <2>2. Min({3, health[b] + 1}) \in 0 .. 3
    <3> DEFINE n == health[b] + 1
    <3>1. n \in 1 .. 4 /\ n \in Int /\ 3 \in Int BY <2>1
    <3> HIDE DEF n
    <3>2. Min({3, n}) \in {3, n} /\ Min({3, n}) <= 3 BY <3>1, MinOfTwo
    <3>3. Min({3, n}) \in 0 .. 3 BY <3>1, <3>2
    <3> QED BY <3>3 DEF n
  <2>3. health' = [health EXCEPT ![b] = Min({3, health[b] + 1})] BY <1>2 DEF Failure, WorldOK
  <2> QED BY <1>2, <2>2, <2>3 DEF Failure, WorldOK
<1>3. CASE Success(b) BY <1>3 DEF Success, WorldOK
<1> QED BY <1>1, <1>2, <1>3 DEF Settles

LEMMA WorldStep == ASSUME GroupsInv, Next PROVE WorldOK'
<1> USE DEF GroupsInv
<1>1. ASSUME NEW s, Takes(s) PROVE WorldOK'
  <2>1. pin' \in Account \cup {None}
    BY <1>1 DEF Takes, WorldOK
  <2> QED BY <1>1, <2>1 DEF Takes, world, resolver, sweeper, WorldOK
<1>2. ASSUME NEW b \in Account, PartFails(b) PROVE WorldOK'
  <2>1. health' \in [Account -> 0 .. 3] /\ cooling' \subseteq Account BY <1>2, SettlesTypes DEF PartFails
  <2> QED BY <1>2, <2>1 DEF PartFails, world, resolver, sweeper, WorldOK
<1>3. ASSUME NEW b \in Account, Logs(b) PROVE WorldOK'
  BY <1>3 DEF Logs, world, sweeper, breaker, WorldOK
<1>4. ASSUME NEW b \in Account, Converges(b) PROVE WorldOK'
  <2>1. health' \in [Account -> 0 .. 3] /\ cooling' \subseteq Account BY <1>4, SettlesTypes DEF Converges
  <2> QED BY <1>4, <2>1 DEF Converges, world, resolver, sweeper, WorldOK
<1>5. CASE Gates
  BY <1>5 DEF Gates, world, resolver, sweeper, breaker, WorldOK
<1>6. CASE Probes
  <2>1. PICK dead : /\ bots' = bots \ dead
                    /\ online' = (online \ (dead \cap bound)) \cup (bots \ dead)
                    /\ bound' = Unbinds(dead \cap bound) \cup (bots \ dead)
                    /\ sweep' = [at |-> "hide", stale |-> dead \cap bound, alive |-> bots \ dead]
    BY <1>6 DEF Probes
  <2> QED BY <1>6, <2>1 DEF Probes, Unbinds, world, breaker, WorldOK
<1>7. CASE Applies
  <2>1. hidden' \subseteq Account BY <1>7 DEF Applies, Remembers, Marked, WorldOK
  <2>2. sweep' = [sweep EXCEPT !.at = "miss"] BY <1>7 DEF Applies
  <2> QED BY <1>7, <2>1, <2>2 DEF Applies, world, resolver, breaker, WorldOK
<1>8. CASE Misses
  <2> DEFINE out == {a \in Absent : misses[a] + 1 >= Limit}
  <2>1. hidden' \subseteq Account BY <1>8 DEF Misses, Remembers, Marked, Absent, WorldOK
  <2>2. misses' \in [Account -> 0 .. Limit - 1]
    <3>1. misses' = [a \in Account |-> IF Hideable(a) = {} THEN misses[a]
                                       ELSE IF a \in Absent \ out THEN misses[a] + 1 ELSE 0]
      BY <1>8 DEF Misses
    <3>2. \A a \in Account : misses[a] \in 0 .. Limit - 1 BY DEF WorldOK
    <3> QED BY <3>1, <3>2 DEF Limit
  <2>3. sweep' = [sweep EXCEPT !.at = "resolve"] BY <1>8 DEF Misses
  <2> QED BY <1>8, <2>1, <2>2, <2>3 DEF Misses, world, resolver, breaker, WorldOK
<1>9. CASE Resolves
  BY <1>9 DEF Resolves, Registers, world, breaker, WorldOK
<1>10. CASE Claims
  BY <1>10 DEF Claims, world, resolver, breaker, WorldOK
<1>11. CASE World
  BY <1>11 DEF World, Falls, Rises, Leaves, resolver, sweeper, breaker, WorldOK
<1>12. CASE CoolsDown
  BY <1>12 DEF CoolsDown, world, resolver, sweeper, WorldOK
<1>13. ASSUME NEW a \in Account, Event(a) PROVE WorldOK'
  BY <1>13 DEF Event, world, sweeper, breaker, WorldOK
<1>14. CASE UNCHANGED <<world, resolver, pin, hidden, misses, sweep, health, cooling>>
  BY <1>14 DEF world, resolver, WorldOK
<1>15. ASSUME NEW b \in Account, Lists(b) \/ Reads(b) \/ Chained(b) \/ Stale(b)
      PROVE  WorldOK'
  BY <1>15, <1>14 DEF Lists, Reads, Chained, Stale, sweeper, breaker
<1>16. ASSUME NEW b \in Account, Refreshed(b) \/ Stops(b)
      PROVE  WorldOK'
  BY <1>16, <1>14 DEF Refreshed, Stops, sweeper, breaker
<1>17. ASSUME NEW b \in Account, NEW g \in Group, Collects(b, g) \/ Updates(b, g)
      PROVE  WorldOK'
  BY <1>17, <1>14 DEF Collects, Updates, world, resolver, sweeper, breaker,
     Persists
<1>18. CASE Ends \/ Syncs \/ Answers \/ Cancels
  BY <1>18, <1>14 DEF Ends, Syncs, Answers, Cancels, world, resolver, sweeper,
     breaker, Persists
<1>19. ASSUME NEW g \in Group, Opens(g) \/ Drops(g) \/ Expires(g)
      PROVE  WorldOK'
  BY <1>19, <1>14 DEF Opens, Drops, Expires, sweeper, breaker
<1>20. ASSUME NEW what \in {"remove", "restore"}, NEW g \in Group, Asks(what, g)
      PROVE  WorldOK'
  BY <1>20, <1>14 DEF Asks, sweeper, breaker
<1>21. ASSUME NEW s, PageScans(s)
      PROVE  WorldOK'
  BY <1>21, <1>14 DEF PageScans, sweeper, breaker
<1> QED
  BY <1>1, <1>2, <1>3, <1>4, <1>5, <1>6, <1>7, <1>8, <1>9, <1>10, <1>11, <1>12,
     <1>13, <1>15,
     <1>16, <1>17, <1>18, <1>19, <1>20, <1>21 DEF Next, Scan, FileScan, Sweep, User

LEMMA TableStep == ASSUME GroupsInv, Next PROVE RowsOK'
<1> USE DEF GroupsInv
<1> RowsStep /\ ToldStays BY RowsStepHolds, ToldStaysHolds
<1>a. /\ rows' \in [Group -> GroupRow] /\ \A g \in Group : rows'[g].known \/ rows'[g] = NoRow
      /\ listed' \in [Account -> SUBSET Group]
  <2>1. \A g \in Group : rows[g].known \/ rows[g] = NoRow BY DEF RowsOK
  <2>2. \A g \in Group : rows'[g] \in GroupRow BY DEF RowsStep, RowStep
  <2>3. \A g \in Group : rows'[g].known \/ rows'[g] = NoRow BY <2>1 DEF RowsStep, RowStep
  <2>4. rows' \in [Group -> GroupRow] BY <2>2 DEF RowsStep
  <2> QED BY <2>3, <2>4 DEF ToldStays
<1>1. CASE Answers
  <2>1. asked' = None BY <1>1 DEF Answers
  <2> QED BY <1>a, <2>1 DEF RowsOK
<1>2. ASSUME NEW what \in {"remove", "restore"}, NEW g \in Group, Asks(what, g) PROVE RowsOK'
  <2>1. asked' = [what |-> what, group |-> g] /\ rows[g].known BY <1>2 DEF Asks
  <2>2. rows'[g].known BY <2>1 DEF RowsStep, RowStep
  <2> QED BY <1>a, <2>1, <2>2 DEF RowsOK
<1>3. CASE UNCHANGED asked
  BY <1>3, <1>a DEF RowsOK, RowsStep, RowStep
<1>4. ASSUME NEW s, Takes(s) \/ PageScans(s)
      PROVE  RowsOK'
  BY <1>4, <1>3 DEF Takes, PageScans
<1>5. ASSUME NEW b \in Account, PartFails(b) \/ Logs(b) \/ Lists(b) \/ Reads(b)
      PROVE  RowsOK'
  BY <1>5, <1>3 DEF PartFails, Logs, Lists, Reads, world, resolver, sweeper,
     breaker, chain, Persists
<1>6. ASSUME NEW b \in Account, Chained(b) \/ Stale(b) \/ Refreshed(b) \/ Converges(b)
      PROVE  RowsOK'
  BY <1>6, <1>3 DEF Chained, Stale, Refreshed, Converges, world, resolver,
     sweeper, breaker, chain, Persists
<1>7. ASSUME NEW b \in Account, Stops(b)
      PROVE  RowsOK'
  BY <1>7, <1>3 DEF Stops
<1>8. ASSUME NEW b \in Account, NEW g \in Group, Collects(b, g) \/ Updates(b, g)
      PROVE  RowsOK'
  BY <1>8, <1>3 DEF Collects, Updates, world, resolver, sweeper, breaker,
     chain, Persists
<1>9. CASE Ends \/ Gates \/ Syncs \/ Probes
  BY <1>9, <1>3 DEF Ends, Gates, Syncs, Probes
<1>10. CASE Applies \/ Misses \/ Resolves \/ Claims
  BY <1>10, <1>3 DEF Applies, Misses, Resolves, Claims, world, resolver,
     sweeper, breaker, chain, Persists
<1>11. CASE Cancels \/ World \/ CoolsDown
  BY <1>11, <1>3 DEF Cancels, World, CoolsDown
<1>12. ASSUME NEW g \in Group, Opens(g) \/ Drops(g) \/ Expires(g)
      PROVE  RowsOK'
  BY <1>12, <1>3 DEF Opens, Drops, Expires
<1>13. ASSUME NEW a \in Account, Event(a)
      PROVE  RowsOK'
  BY <1>13, <1>3 DEF Event
<1> QED
  BY <1>1, <1>2, <1>4, <1>5, <1>6, <1>7, <1>8, <1>9, <1>10, <1>11, <1>12, <1>13
     DEF Next, Scan, FileScan, Sweep, User

-----------------------------------------------------------------------------
LEMMA GroupsInvInit == Init => GroupsInv
<1> SUFFICES ASSUME Init PROVE GroupsInv OBVIOUS
<1>1. PICK s \in Scenarios :
        /\ platform = s.platform /\ member = s.member /\ up = s.up /\ bots = s.bots
        /\ online = s.bots \cap s.up /\ bound = s.bots \cap s.up
        /\ rows = s.rows /\ misses = s.misses /\ health = s.health
        /\ cooling = {a \in Account : s.health[a] = 3}
        /\ listed = [a \in Account |-> {g \in Group : s.rows[g].owner = a}]
  BY DEF Init
<1>2. /\ pin = None /\ hidden = {} /\ scan = None /\ file = None /\ chained = {} /\ asked = None
      /\ files = [g \in Group |-> 0] /\ sweep = [at |-> "idle", stale |-> {}, alive |-> {}]
  BY DEF Init
<1>3. ScanOK /\ ChainBacked BY <1>2 DEF ScanOK, ChainBacked
<1>4. FilesOK BY <1>2, GroupsAssumption DEF GroupsAssumption, FilesOK
<1>5. RowsOK BY <1>1, <1>2, GroupsAssumption DEF GroupsAssumption, RowsOK
<1>6. WorldOK BY <1>1, <1>2, GroupsAssumption DEF GroupsAssumption, WorldOK, Limit
<1>7. OwnerListed
  <2>1. \A g \in Group : rows[g] \in GroupRow BY <1>5 DEF RowsOK
  <2> QED BY <1>1, <2>1 DEF OwnerListed, GroupRow
<1> QED BY <1>3, <1>4, <1>5, <1>6, <1>7 DEF GroupsInv

LEMMA OwnerStep == ASSUME GroupsInv, RowsStep, ToldStays PROVE OwnerListed'
<1> SUFFICES ASSUME NEW g \in Group, rows'[g].owner # None PROVE g \in listed'[rows'[g].owner]
  BY DEF OwnerListed
<1>1. rows'[g].owner \in Account BY DEF RowsStep, RowStep, GroupRow
<1>2. g \in listed[rows'[g].owner] BY DEF GroupsInv, OwnerListed, RowsStep, RowStep
<1> QED BY <1>1, <1>2 DEF ToldStays

LEMMA GroupsInvStep == GroupsInv /\ [Next]_vars => GroupsInv'
<1> SUFFICES ASSUME GroupsInv, [Next]_vars PROVE GroupsInv' OBVIOUS
<1>1. CASE Next
  BY <1>1, ScanStep, TableStep, WorldStep, FilesStep, OwnerStep, RowsStepHolds,
     ToldStaysHolds
  DEF GroupsInv
<1>2. CASE UNCHANGED vars
  <2> USE <1>2 DEF GroupsInv, vars, world, resolver, sweeper, breaker, chain
  <2>1. ScanOK' BY DEF ScanOK
  <2>2. RowsOK' /\ OwnerListed' BY DEF RowsOK, OwnerListed
  <2>3. WorldOK' BY DEF WorldOK
  <2>4. FilesOK' /\ ChainBacked' BY DEF FilesOK, ChainBacked
  <2> QED BY <2>1, <2>2, <2>3, <2>4
<1> QED BY <1>1, <1>2

LEMMA GroupsInvAlways == Spec => []GroupsInv
BY GroupsInvInit, GroupsInvStep, PTL DEF Spec

(* The table, the resolver, the sweep, the breaker and the scans keep their
   types; a bound account is one of the online ones. *)
THEOREM TypesHold == Spec => []TypeOK
<1>1. GroupsInv => TypeOK
  BY DEF GroupsInv, RowsOK, WorldOK, ScanOK, FilesOK, WorkerOK, Workers, TypeOK
<1> QED BY <1>1, GroupsInvAlways, PTL

(* A row names as owner an account that was told it is a member, whichever
   scans of whichever accounts run beside each other. *)
THEOREM OwnerListedAlways == Spec => []OwnerListed
BY GroupsInvAlways, PTL DEF GroupsInv

(* The set that keeps a group from being chained twice forgets a group no later
   than its file scan has run. *)
THEOREM ChainBackedAlways == Spec => []ChainBacked
BY GroupsInvAlways, PTL DEF GroupsInv

(* Only the user's own request shows a removed group again. *)
THEOREM NeverRevivedAlways == Spec => NeverRevived
<1> DEFINE Kept == \A g \in Group : rows[g].removed /\ ~rows[g].managed /\ rows'[g].managed =>
                                      asked # None /\ asked.group = g
<1>1. GroupsInv /\ [Next]_vars => [Kept]_vars
  <2> SUFFICES ASSUME GroupsInv, Next PROVE Kept OBVIOUS
  <2> QED BY RowsStepHolds DEF RowsStep, RowStep
<1> QED BY <1>1, GroupsInvAlways, PTL DEF Spec, NeverRevived

==============================================================================
