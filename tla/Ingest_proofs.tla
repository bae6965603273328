--------------------------- MODULE Ingest_proofs ---------------------------
(***************************************************************************)
(* Theorems about Ingest, for any operations, names and faults.            *)
(***************************************************************************)
EXTENDS Ingest, FiniteSetTheorems, TLAPS

Wholes == {"image", "clip", "fetch_file", "fetch_image"}
Albums == {"image", "fetch_image"}
PlacedOK(o) ==
  /\ at[o] \in {"part", "say", "set", "keep", "index"} => Kind(o) = "text"
  /\ at[o] = "unset" => Kind(o) = "forget"
  /\ at[o] \in {"list", "reconcile"} => Kind(o) = "refresh"
  /\ at[o] = "refuse" => Kind(o) = "album_video"
  /\ at[o] = "source" => Kind(o) \in {"image", "clip", "video"}
  /\ at[o] \in {"album", "refresh", "refreshed"} => Kind(o) \in Albums
  /\ at[o] \in {"probe", "put"} => Kind(o) \in Wholes
  /\ at[o] \in {"split", "send", "row"} => Kind(o) = "video"
  /\ at[o] \in {"download", "fetched"} => Kind(o) \in Fetches
  /\ at[o] = "sync" => Kind(o) \in {"clip", "fetch_file", "video"}
  /\ at[o] \in {"end", "ended"} => Kind(o) \in Wholes \cup {"video", "refresh"}
Placed == \A o \in Ops : PlacedOK(o)

Hand(o, s) == IF at[o] = "set" /\ part[o].seq = s THEN part[o].id ELSE payload[o].sent[s]
PartOK(o, s) ==
  /\ at[o] \in {"say", "set"} /\ part[o].seq = s => payload[o].sent[s] = 0
  /\ payload[o].sent[s] \in {0} \cup Messages(o, s)
  /\ at[o] = "set" /\ part[o].seq = s => part[o].id \in Messages(o, s)
  /\ \/ ledger[o].sent[s] = payload[o].sent[s]
     \/ at[o] = "keep" /\ part[o].seq = s /\ ledger[o].sent[s] = 0
  /\ Cardinality(Messages(o, s) \ {Hand(o, s)}) <= doubt[<<o, s>>]
  /\ at[o] = "index" => payload[o].sent[s] # 0
TextOK(o) == \A s \in Seqs : PartOK(o, s)
TextsOK == \A o \in Ops : Kind(o) = "text" => TextOK(o)

-----------------------------------------------------------------------------
(* Types, variable by variable. *)
Control == /\ plan \in Scenarios /\ trouble \in 0..MaxTrouble
           /\ at \in [Ops -> Places] /\ replayed \in [Ops -> BOOLEAN]
Sending == /\ essence \in Seq([op : Ops, part : Seqs, set : BOOLEAN])
           /\ part \in [Ops -> [seq : Nat, id : Messaged]]
           /\ indexed \subseteq DOMAIN essence /\ heard \in [Ops -> SUBSET DOMAIN essence]
Rows == /\ texts \in [Titles -> [status : {"none", "active", "deleted"}, parts : [Seqs -> Messaged]]]
        /\ parents \in Seq(SUBSET Seqs)
Doubts == doubt \in [Ops \X (Seqs \cup {Whole}) -> Nat]
Storage == /\ disk \in [Paths -> Ops \cup {Nobody}]
           /\ media \in Seq([op : Ops, name : Titles, part : Seqs \cup {Whole}])

Step(x) ==
  \/ Submit(x) \/ Starts(x) \/ Fails(x) \/ Pauses(x) \/ Resumes(x)
  \/ TakesPart(x) \/ Says(x) \/ Sets(x) \/ Keeps(x) \/ IndexesText(x)
  \/ Unsets(x) \/ ForgetsText(x) \/ Hears(x) \/ Reconciles(x) \/ Ends(x) \/ Completes(x)
  \/ FindsSource(x) \/ Refuses(x) \/ TakesName(x) \/ Probes(x) \/ Puts(x) \/ SyncsGroup(x)
  \/ Splits(x) \/ SendsSegment(x) \/ RecordsSegment(x)
  \/ Downloads(x) \/ Hands(x)

LEMMA Inputs ==
  ASSUME Control
  PROVE  /\ plan.kind \in [Ops -> Kinds] /\ DOMAIN plan.name = Ops
         /\ \A o \in Ops : Kind(o) \in Kinds /\ Name(o) \in Titles
         /\ \A o \in Ops : Uuid(o) \in Paths /\ Declared(o) \in Paths
         /\ Nobody \notin Ops /\ MaxTrouble \in Nat
BY IngestAssumption DEF Control, IngestAssumption, Kind, Name, Titles, Paths, Uuid, Declared

(* A message may be set and unset, and nothing else of it changes. *)
Posts == [op : Ops, part : Seqs, set : BOOLEAN]
LEMMA Flagged ==
  ASSUME NEW e \in Seq(Posts), NEW i, NEW b \in BOOLEAN
  PROVE  /\ [e EXCEPT ![i].set = b] \in Seq(Posts)
         /\ Len([e EXCEPT ![i].set = b]) = Len(e)
         /\ DOMAIN [e EXCEPT ![i].set = b] = DOMAIN e
         /\ \A n \in DOMAIN e : /\ [e EXCEPT ![i].set = b][n].op = e[n].op
                               /\ [e EXCEPT ![i].set = b][n].part = e[n].part
<1> DEFINE f == [e EXCEPT ![i].set = b]
<1>1. f = [n \in 1..Len(e) |-> IF n = i THEN [e[n] EXCEPT !.set = b] ELSE e[n]]
  OBVIOUS
<1>2. \A n \in 1..Len(e) : e[n] \in Posts OBVIOUS
<1>3. \A n \in 1..Len(e) : /\ [e[n] EXCEPT !.set = b] \in Posts
                           /\ [e[n] EXCEPT !.set = b].op = e[n].op
                           /\ [e[n] EXCEPT !.set = b].part = e[n].part
  BY <1>2 DEF Posts
<1> HIDE DEF f
<1>4. Len(e) \in Nat /\ DOMAIN e = 1..Len(e) OBVIOUS
<1>5. f \in [1..Len(e) -> Posts] BY <1>1, <1>2, <1>3
<1>6. f \in Seq(Posts) /\ Len(f) = Len(e) BY <1>4, <1>5
<1>7. \A n \in DOMAIN e : f[n].op = e[n].op /\ f[n].part = e[n].part BY <1>1, <1>3, <1>4
<1> QED BY <1>4, <1>5, <1>6, <1>7 DEF f

LEMMA Setting ==
  ASSUME TypeOK, NEW x \in Ops, Sets(x) \/ Unsets(x)
  PROVE  /\ essence' \in Seq(Posts) /\ Len(essence') = Len(essence) /\ DOMAIN essence' = DOMAIN essence
         /\ \A n \in DOMAIN essence : essence'[n].op = essence[n].op /\ essence'[n].part = essence[n].part
<1>1. essence \in Seq(Posts) BY DEF TypeOK, Posts
<1>2. \/ \E i \in Nat, b \in BOOLEAN : essence' = [essence EXCEPT ![i].set = b]
      \/ essence' = essence
  <2>1. CASE Unsets(x)
    <3>1. PICK s \in Seqs : \/ essence' = [essence EXCEPT ![payload[x].sent[s]].set = FALSE]
                            \/ essence' = essence
      BY <2>1 DEF Unsets, Left
    <3>2. payload[x].sent[s] \in Nat BY DEF TypeOK, Payloads, Messaged
    <3> QED BY <3>1, <3>2
  <2>2. CASE Sets(x)
    <3>1. \E b \in BOOLEAN : essence' = [essence EXCEPT ![part[x].id].set = b] BY <2>2 DEF Sets
    <3>2. part[x].id \in Nat BY DEF TypeOK, Messaged
    <3> QED BY <3>1, <3>2
  <2> QED BY <2>1, <2>2
<1>3. CASE essence' = essence BY <1>1, <1>3
<1>4. CASE \E i \in Nat, b \in BOOLEAN : essence' = [essence EXCEPT ![i].set = b]
  <2>1. PICK i \in Nat, b \in BOOLEAN : essence' = [essence EXCEPT ![i].set = b] BY <1>4
  <2> QED BY ONLY <1>1, <2>1, Flagged, SMTT(30)
<1> QED BY <1>2, <1>3, <1>4

LEMMA EssenceIs == TypeOK => essence \in Seq(Posts) /\ parents \in Seq(SUBSET Seqs) /\ Len(essence) \in Nat /\ Len(parents) \in Nat
BY DEF TypeOK, Posts
LEMMA SetsKeeps ==
  ASSUME NEW x \in Ops, Sets(x)
  PROVE  UNCHANGED <<plan, media, texts, indexed, parents, heard>>
BY DEF Sets, index

(* The number of messages and of parents only grows. *)
LEMMA Grows ==
  ASSUME TypeOK, NEW x \in Ops, Step(x)
  PROVE  Len(essence) <= Len(essence') /\ Len(parents) <= Len(parents')
<1>1. CASE Says(x)
  BY <1>1 DEF Says, TypeOK, Message, Titles, index
<1>2. CASE Sets(x)
  BY <1>2, Setting, SetsKeeps, EssenceIs
<1>3. CASE Unsets(x)
  BY <1>3, Setting DEF Unsets, TypeOK, index
<1>4. CASE Hands(x)
  BY <1>4 DEF Hands, TypeOK, Message, index
<1>5. CASE Splits(x)
  BY <1>5 DEF Splits, TypeOK, cloud, index
<1>6. CASE RecordsSegment(x)
  BY <1>6 DEF RecordsSegment, TypeOK, cloud
<1>7. CASE Submit(x) \/ Starts(x) \/ Fails(x) \/ Pauses(x) \/ Resumes(x) \/ TakesPart(x)
  BY <1>7 DEF Submit, Go, Writes, Staged, Starts, Fails, Trouble, Retried, Drops, Doubted,
    Pauses, Resumes, TakesPart, cloud, index, TypeOK
<1>8. CASE Keeps(x) \/ IndexesText(x) \/ ForgetsText(x) \/ Hears(x) \/ Reconciles(x) \/ Ends(x)
  BY <1>8 DEF Keeps, Go, Writes, IndexesText, ForgetsText, Hears, Trouble, Reconciles,
    Rebuilt, Spared, Ends, cloud, index, TypeOK
<1>9. CASE Completes(x) \/ FindsSource(x) \/ Refuses(x) \/ TakesName(x) \/ Probes(x) \/ Puts(x)
  BY <1>9 DEF Completes, Go, Writes, FindsSource, GivesUp, Drops, Refuses, TakesName,
    Trouble, Probes, Doubted, Puts, Retried, cloud, index, TypeOK
<1>10. CASE SyncsGroup(x) \/ SendsSegment(x) \/ Downloads(x)
  BY <1>10 DEF SyncsGroup, Go, SendsSegment, Writes, Trouble, Retried, Drops, Doubted,
    Advances, Downloads, cloud, index, TypeOK
<1> QED BY <1>1, <1>2, <1>3, <1>4, <1>5, <1>6, <1>7, <1>8, <1>9, <1>10 DEF Step

LEMMA ControlStep ==
  ASSUME TypeOK, NEW x \in Ops, Step(x) PROVE Control'
<1>1. plan' \in Scenarios /\ trouble' \in 0..MaxTrouble
  <2>1. CASE Fails(x)
    BY <2>1, IngestAssumption DEF Fails, Trouble, Retried, GivesUp, TypeOK, IngestAssumption
  <2>2. CASE Pauses(x)
    BY <2>2, IngestAssumption DEF Pauses, Trouble, Retried, GivesUp, TypeOK,
      IngestAssumption
  <2>3. CASE Says(x)
    BY <2>3, IngestAssumption DEF Says, Trouble, Retried, GivesUp, TypeOK, IngestAssumption
  <2>4. CASE Sets(x)
    BY <2>4, IngestAssumption DEF Sets, Trouble, Retried, GivesUp, TypeOK, IngestAssumption
  <2>5. CASE Unsets(x)
    BY <2>5, IngestAssumption DEF Unsets, Trouble, Retried, GivesUp, TypeOK,
      IngestAssumption
  <2>6. CASE Hears(x)
    BY <2>6, IngestAssumption DEF Hears, Trouble, Retried, GivesUp, TypeOK, IngestAssumption
  <2>7. CASE TakesName(x)
    BY <2>7, IngestAssumption DEF TakesName, Trouble, Retried, GivesUp, TypeOK,
      IngestAssumption
  <2>8. CASE Probes(x)
    BY <2>8, IngestAssumption DEF Probes, Trouble, Retried, GivesUp, TypeOK,
      IngestAssumption
  <2>9. CASE Puts(x)
    BY <2>9, IngestAssumption DEF Puts, Trouble, Retried, GivesUp, TypeOK, IngestAssumption
  <2>10. CASE SendsSegment(x)
    BY <2>10, IngestAssumption DEF SendsSegment, Trouble, Retried, GivesUp, TypeOK,
      IngestAssumption
  <2>11. CASE Submit(x) \/ Starts(x) \/ Resumes(x) \/ TakesPart(x) \/ Keeps(x) \/
    IndexesText(x) \/ ForgetsText(x) \/ Reconciles(x) \/ Ends(x)
    BY <2>11, IngestAssumption DEF Submit, Starts, Resumes, TakesPart, Keeps, IndexesText,
      ForgetsText, Reconciles, Ends, cloud, index, TypeOK
  <2>12. CASE Completes(x) \/ FindsSource(x) \/ Refuses(x) \/ SyncsGroup(x) \/ Splits(x) \/
    RecordsSegment(x) \/ Downloads(x) \/ Hands(x)
    BY <2>12, IngestAssumption DEF Completes, FindsSource, Refuses, SyncsGroup, Splits,
      RecordsSegment, Downloads, Hands, cloud, index, GivesUp, TypeOK
  <2> QED BY <2>1, <2>2, <2>3, <2>4, <2>5, <2>6, <2>7, <2>8, <2>9, <2>10, <2>11, <2>12 DEF
    Step
<1>2. at' \in [Ops -> Places]
  <2>0. at \in [Ops -> Places] BY DEF TypeOK
  <2>1. CASE Submit(x)
    BY <2>1, <2>0 DEF Submit, Go, Places
  <2>2. CASE Starts(x)
    BY <2>2, <2>0 DEF Starts, Go, First, After, Places
  <2>3. CASE Fails(x)
    BY <2>3, <2>0 DEF Fails, Go, Retried, Places
  <2>4. CASE Pauses(x)
    BY <2>4, <2>0 DEF Pauses, Go, Places
  <2>5. CASE Resumes(x)
    BY <2>5, <2>0 DEF Resumes, Go, Places
  <2>6. CASE TakesPart(x)
    BY <2>6, <2>0 DEF TakesPart, Go, Places
  <2>7. CASE Says(x)
    BY <2>7, <2>0 DEF Says, Go, Retried, Places
  <2>8. CASE Sets(x)
    BY <2>8, <2>0 DEF Sets, Go, GivesUp, Places
  <2>9. CASE Keeps(x)
    BY <2>9, <2>0 DEF Keeps, Go, Places
  <2>10. CASE IndexesText(x)
    BY <2>10, <2>0 DEF IndexesText, Go, Places
  <2>11. CASE ForgetsText(x)
    BY <2>11, <2>0 DEF ForgetsText, Go, Places
  <2>12. CASE Hears(x)
    BY <2>12, <2>0 DEF Hears, Go, Places
  <2>13. CASE Reconciles(x)
    BY <2>13, <2>0 DEF Reconciles, Go, Places
  <2>14. CASE Ends(x)
    BY <2>14, <2>0 DEF Ends, Go, Places
  <2>15. CASE Completes(x)
    BY <2>15, <2>0 DEF Completes, Go, Places
  <2>16. CASE FindsSource(x)
    BY <2>16, <2>0 DEF FindsSource, Go, GivesUp, Places
  <2>17. CASE Refuses(x)
    BY <2>17, <2>0 DEF Refuses, Go, GivesUp, Places
  <2>18. CASE TakesName(x)
    BY <2>18, <2>0 DEF TakesName, Go, GivesUp, Places
  <2>19. CASE Probes(x)
    BY <2>19, <2>0 DEF Probes, Go, First, After, Places
  <2>20. CASE Puts(x)
    BY <2>20, <2>0 DEF Puts, Go, Retried, First, After, Places
  <2>21. CASE SyncsGroup(x)
    BY <2>21, <2>0 DEF SyncsGroup, Go, Places
  <2>22. CASE Splits(x)
    BY <2>22, <2>0 DEF Splits, Go, Places
  <2>23. CASE SendsSegment(x)
    BY <2>23, <2>0 DEF SendsSegment, Go, Retried, Places
  <2>24. CASE RecordsSegment(x)
    BY <2>24, <2>0 DEF RecordsSegment, Go, Places
  <2>25. CASE Downloads(x)
    BY <2>25, <2>0 DEF Downloads, Go, Places
  <2>26. CASE Hands(x)
    BY <2>26, <2>0 DEF Hands, Go, Places
  <2>27. CASE Unsets(x)
    BY <2>27, <2>0 DEF Unsets, cloud, index, Places
  <2> QED BY <2>1, <2>2, <2>3, <2>4, <2>5, <2>6, <2>7, <2>8, <2>9, <2>10, <2>11, <2>12,
    <2>13, <2>14, <2>15, <2>16, <2>17, <2>18, <2>19, <2>20, <2>21, <2>22, <2>23, <2>24,
    <2>25, <2>26, <2>27 DEF Step
<1>3. replayed' \in [Ops -> BOOLEAN]
  <2>1. CASE Fails(x)
    BY <2>1 DEF Fails, Retried, TypeOK
  <2>2. CASE Pauses(x)
    BY <2>2 DEF Pauses, TypeOK
  <2>3. CASE Says(x)
    BY <2>3 DEF Says, Retried, TypeOK
  <2>4. CASE Sets(x)
    BY <2>4 DEF Sets, GivesUp, TypeOK
  <2>5. CASE Puts(x)
    BY <2>5 DEF Puts, Retried, TypeOK
  <2>6. CASE SendsSegment(x)
    BY <2>6 DEF SendsSegment, Retried, TypeOK
  <2>7. CASE Submit(x) \/ Starts(x) \/ Resumes(x) \/ TakesPart(x) \/ Keeps(x) \/
    IndexesText(x) \/ Unsets(x) \/ ForgetsText(x) \/ Hears(x)
    BY <2>7 DEF Submit, Starts, Resumes, TakesPart, Keeps, IndexesText, Unsets, ForgetsText,
      Hears, cloud, index, TypeOK
  <2>8. CASE Reconciles(x) \/ Ends(x) \/ Completes(x) \/ FindsSource(x) \/ Refuses(x) \/
    TakesName(x) \/ Probes(x) \/ SyncsGroup(x) \/ Splits(x)
    BY <2>8 DEF Reconciles, Ends, Completes, FindsSource, Refuses, TakesName, Probes,
      SyncsGroup, Splits, cloud, index, GivesUp, TypeOK
  <2>9. CASE RecordsSegment(x) \/ Downloads(x) \/ Hands(x)
    BY <2>9 DEF RecordsSegment, Downloads, Hands, cloud, index, TypeOK
  <2> QED BY <2>1, <2>2, <2>3, <2>4, <2>5, <2>6, <2>7, <2>8, <2>9 DEF Step
<1> QED BY <1>1, <1>2, <1>3 DEF Control

LEMMA TypeIsControl == TypeOK => Control
BY DEF TypeOK, Control

(* Only these change a payload. *)
LEMMA PayloadRests ==
  ASSUME NEW x \in Ops, Step(x), ~(Submit(x) \/ Sets(x) \/ Unsets(x) \/ TakesName(x) \/ Splits(x))
  PROVE  payload' = payload
<1>1. CASE Starts(x) \/ Fails(x) \/ Pauses(x) \/ Resumes(x) \/ TakesPart(x) \/ Says(x)
  BY <1>1 DEF Starts, Fails, Pauses, Resumes, TakesPart, Says, cloud, index, Retried
<1>2. CASE Keeps(x) \/ IndexesText(x) \/ ForgetsText(x) \/ Hears(x) \/ Reconciles(x) \/
  Ends(x)
  BY <1>2 DEF Keeps, IndexesText, ForgetsText, Hears, Reconciles, Ends, cloud, index
<1>3. CASE Completes(x) \/ FindsSource(x) \/ Refuses(x) \/ Probes(x) \/ Puts(x) \/
  SyncsGroup(x)
  BY <1>3 DEF Completes, FindsSource, Refuses, Probes, Puts, SyncsGroup, cloud, index,
    GivesUp, Retried
<1>4. CASE SendsSegment(x) \/ RecordsSegment(x) \/ Downloads(x) \/ Hands(x)
  BY <1>4 DEF SendsSegment, RecordsSegment, Downloads, Hands, cloud, index, Retried
<1> QED BY <1>1, <1>2, <1>3, <1>4 DEF Step

(* A payload that is written, or loses or gains one part, is a payload. *)
LEMMA SetSent ==
  ASSUME TypeOK, NEW x \in Ops, NEW s \in Seqs, NEW v \in Messaged
  PROVE  /\ [payload EXCEPT ![x].sent[s] = v] \in Payloads
         /\ \A y \in Ops \ {x} : [payload EXCEPT ![x].sent[s] = v][y] = payload[y]
         /\ [payload EXCEPT ![x].sent[s] = v][x] =
              [sent |-> [payload[x].sent EXCEPT ![s] = v], renamed |-> payload[x].renamed, parent |-> payload[x].parent]
<1> DEFINE q == [sent |-> [payload[x].sent EXCEPT ![s] = v], renamed |-> payload[x].renamed, parent |-> payload[x].parent]
<1>1. payload[x] \in [sent : [Seqs -> Messaged], renamed : BOOLEAN, parent : 0..Len(parents)]
  BY DEF TypeOK, Payloads
<1>2. [payload[x] EXCEPT !.sent[s] = v] = q BY <1>1
<1>3. q \in [sent : [Seqs -> Messaged], renamed : BOOLEAN, parent : 0..Len(parents)] BY <1>1
<1> HIDE DEF q
<1>4. [payload EXCEPT ![x].sent[s] = v] = [payload EXCEPT ![x] = q] BY <1>2
<1>5. payload \in Payloads BY DEF TypeOK
<1> QED BY <1>3, <1>4, <1>5 DEF Payloads, q

LEMMA PayloadsGrow ==
  ASSUME TypeOK, NEW x \in Ops, Step(x)
  PROVE  Payloads \subseteq Payloads' /\ Messaged \subseteq Messaged'
<1>1. Messaged \subseteq Messaged' BY Grows, EssenceIs DEF Messaged
<1>2. 0..Len(parents) \subseteq 0..Len(parents') BY Grows, EssenceIs
<1> QED BY <1>1, <1>2 DEF Payloads

LEMMA LedgerStep ==
  ASSUME NEW x \in Ops, Step(x)
  PROVE  ledger' = ledger \/ ledger' = [ledger EXCEPT ![x] = payload'[x]]
<1>1. CASE Submit(x)
  BY <1>1 DEF Submit, Writes
<1>2. CASE Starts(x)
  BY <1>2 DEF Starts, Writes
<1>3. CASE Fails(x)
  BY <1>3 DEF Fails, Writes, Retried
<1>4. CASE Pauses(x)
  BY <1>4 DEF Pauses, Writes
<1>5. CASE Says(x)
  BY <1>5 DEF Says, Writes, Retried
<1>6. CASE Sets(x)
  BY <1>6 DEF Sets, Writes, GivesUp
<1>7. CASE Keeps(x)
  BY <1>7 DEF Keeps, Writes
<1>8. CASE IndexesText(x)
  BY <1>8 DEF IndexesText, Writes
<1>9. CASE ForgetsText(x)
  BY <1>9 DEF ForgetsText, Writes
<1>10. CASE Completes(x)
  BY <1>10 DEF Completes, Writes
<1>11. CASE FindsSource(x)
  BY <1>11 DEF FindsSource, Writes, GivesUp
<1>12. CASE Refuses(x)
  BY <1>12 DEF Refuses, Writes, GivesUp
<1>13. CASE TakesName(x)
  BY <1>13 DEF TakesName, Writes, GivesUp
<1>14. CASE Puts(x)
  BY <1>14 DEF Puts, Writes, Retried
<1>15. CASE SendsSegment(x)
  BY <1>15 DEF SendsSegment, Writes, Retried
<1>16. CASE Resumes(x) \/ TakesPart(x) \/ Unsets(x) \/ Hears(x) \/ Reconciles(x) \/
  Ends(x) \/ Probes(x) \/ SyncsGroup(x) \/ Splits(x)
  BY <1>16 DEF Resumes, TakesPart, Unsets, Hears, Reconciles, Ends, Probes, SyncsGroup,
    Splits, cloud, index
<1>17. CASE RecordsSegment(x) \/ Downloads(x) \/ Hands(x)
  BY <1>17 DEF RecordsSegment, Downloads, Hands, cloud, index
<1> QED BY <1>1, <1>2, <1>3, <1>4, <1>5, <1>6, <1>7, <1>8, <1>9, <1>10, <1>11, <1>12,
  <1>13, <1>14, <1>15, <1>16, <1>17 DEF Step

LEMMA PayloadStep ==
  ASSUME TypeOK, NEW x \in Ops, Step(x) PROVE payload' \in Payloads' /\ ledger' \in Payloads'
<1> Payloads \subseteq Payloads' /\ Messaged \subseteq Messaged' BY PayloadsGrow
<1>1. payload' \in Payloads'
  <2>0. payload \in Payloads /\ ledger \in Payloads BY DEF TypeOK
  <2>1. CASE Submit(x)
    <3>1. ASSUME NEW t \in [Seqs -> Messaged] PROVE [payload EXCEPT ![x].sent = t] \in Payloads
      <4> DEFINE q == [sent |-> t, renamed |-> payload[x].renamed, parent |-> payload[x].parent]
      <4>1. payload[x] \in [sent : [Seqs -> Messaged], renamed : BOOLEAN, parent : 0..Len(parents)]
        BY <2>0 DEF Payloads
      <4>2. q \in [sent : [Seqs -> Messaged], renamed : BOOLEAN, parent : 0..Len(parents)] BY <4>1
      <4>3. [payload[x] EXCEPT !.sent = t] = q BY <4>1
      <4> HIDE DEF q
      <4> QED BY <2>0, <4>2, <4>3 DEF Payloads
    <3>2. payload[x].sent \in [Seqs -> Messaged] BY <2>0 DEF Payloads
    <3>3. texts[Name(x)].parts \in [Seqs -> Messaged] BY Inputs, TypeIsControl DEF TypeOK
    <3>4. payload' = [payload EXCEPT ![x].sent = IF Kind(x) = "forget" THEN texts[Name(x)].parts ELSE payload[x].sent]
      BY <2>1 DEF Submit
    <3> QED BY <3>1, <3>2, <3>3, <3>4
  <2>2. CASE Sets(x)
    <3>1. CASE payload' = payload BY <2>0, <3>1
    <3>2. CASE payload' = [payload EXCEPT ![x].sent[part[x].seq] = part[x].id]
      <4>1. part[x].id \in Messaged BY DEF TypeOK
      <4>2. CASE part[x].seq \in Seqs BY <3>2, <4>1, <4>2, SetSent
      <4>3. CASE part[x].seq \notin Seqs
        <5>1. [payload[x] EXCEPT !.sent[part[x].seq] = part[x].id] = payload[x]
          BY <2>0, <4>3 DEF Payloads
        <5>2. payload' = payload BY <2>0, <3>2, <5>1 DEF Payloads
        <5> QED BY <2>0, <5>2
      <4> QED BY <4>2, <4>3
    <3> QED BY <2>2, <3>1, <3>2 DEF Sets, GivesUp
  <2>3. CASE Unsets(x)
    <3>1. PICK s \in Seqs : payload' = [payload EXCEPT ![x].sent[s] = 0] BY <2>3 DEF Unsets, Left
    <3>2. 0 \in Messaged BY EssenceIs DEF Messaged
    <3> QED BY <3>1, <3>2, SetSent
  <2>4. CASE TakesName(x)
    <3>1. payload' = payload \/ payload' = [payload EXCEPT ![x].renamed = (Kind(x) = "image")]
      BY <2>4 DEF TakesName, GivesUp
    <3> DEFINE b == Kind(x) = "image"
               q == [sent |-> payload[x].sent, renamed |-> b, parent |-> payload[x].parent]
    <3>2. [payload EXCEPT ![x].renamed = b] \in Payloads
      <4> b \in BOOLEAN OBVIOUS
      <4> HIDE DEF b
      <4>1. payload[x] \in [sent : [Seqs -> Messaged], renamed : BOOLEAN, parent : 0..Len(parents)]
        BY <2>0 DEF Payloads
      <4>2. q \in [sent : [Seqs -> Messaged], renamed : BOOLEAN, parent : 0..Len(parents)] BY <4>1
      <4>3. [payload[x] EXCEPT !.renamed = b] = q BY <4>1
      <4> HIDE DEF q
      <4> QED BY <2>0, <4>2, <4>3 DEF Payloads
    <3> QED BY <2>0, <3>1, <3>2
  <2>5. CASE Splits(x)
    <3> DEFINE p == IF Parent(x) # 0 THEN Parent(x) ELSE Len(parents) + 1
    <3>1. payload' = [payload EXCEPT ![x].parent = p] /\ UNCHANGED essence
          /\ parents' = IF Parent(x) # 0 THEN parents ELSE Append(parents, {})
      BY <2>5 DEF Splits, cloud
    <3>2. Parent(x) \in 0..Len(parents) BY <2>0 DEF Payloads, Parent
    <3>3. p \in 0..Len(parents') BY <3>1, <3>2, EssenceIs
    <3> HIDE DEF p
    <3>4. payload \in Payloads' BY <2>0
    <3> QED BY <3>1, <3>3, <3>4 DEF Payloads
  <2>6. CASE payload' = payload BY <2>0, <2>6
  <2>7. CASE ~(Submit(x) \/ Sets(x) \/ Unsets(x) \/ TakesName(x) \/ Splits(x))
    <3>1. payload' = payload BY <2>7, PayloadRests
    <3> QED BY <2>6, <3>1
  <2> QED BY <2>1, <2>2, <2>3, <2>4, <2>5, <2>7
<1>2. ledger' \in Payloads'
  <2>1. ledger \in Payloads' BY DEF TypeOK
  <2>2. payload'[x] \in [sent : [Seqs -> Messaged'], renamed : BOOLEAN, parent : 0..Len(parents')]
    BY <1>1 DEF Payloads, Messaged
  <2>3. [ledger EXCEPT ![x] = payload'[x]] \in Payloads' BY <2>1, <2>2 DEF Payloads, Messaged
  <2> QED BY <2>1, <2>3, LedgerStep
<1> QED BY <1>1, <1>2

LEMMA EssenceRests ==
  ASSUME NEW x \in Ops, Step(x), ~(Says(x) \/ Sets(x) \/ Unsets(x) \/ Hands(x))
  PROVE  UNCHANGED essence
<1>1. CASE Submit(x) \/ Starts(x) \/ Fails(x) \/ Pauses(x) \/ Resumes(x) \/ TakesPart(x)
  BY <1>1 DEF Submit, Starts, Fails, Pauses, Resumes, TakesPart, cloud, index
<1>2. CASE Keeps(x) \/ IndexesText(x) \/ ForgetsText(x) \/ Hears(x) \/ Reconciles(x) \/
  Ends(x)
  BY <1>2 DEF Keeps, IndexesText, ForgetsText, Hears, Reconciles, Ends, cloud, index
<1>3. CASE Completes(x) \/ FindsSource(x) \/ Refuses(x) \/ TakesName(x) \/ Probes(x) \/
  Puts(x)
  BY <1>3 DEF Completes, FindsSource, Refuses, TakesName, Probes, Puts, cloud, index
<1>4. CASE SyncsGroup(x) \/ Splits(x) \/ SendsSegment(x) \/ RecordsSegment(x) \/
  Downloads(x)
  BY <1>4 DEF SyncsGroup, Splits, SendsSegment, RecordsSegment, Downloads, cloud, index
<1> QED BY <1>1, <1>2, <1>3, <1>4 DEF Step

LEMMA PartRests ==
  ASSUME NEW x \in Ops, Step(x), ~(TakesPart(x) \/ Says(x) \/ Splits(x) \/ SendsSegment(x) \/ RecordsSegment(x))
  PROVE  UNCHANGED part
<1>1. CASE Submit(x) \/ Starts(x) \/ Fails(x) \/ Pauses(x) \/ Resumes(x) \/ Sets(x)
  BY <1>1 DEF Submit, Starts, Fails, Pauses, Resumes, Sets, cloud, index
<1>2. CASE Keeps(x) \/ IndexesText(x) \/ Unsets(x) \/ ForgetsText(x) \/ Hears(x) \/
  Reconciles(x)
  BY <1>2 DEF Keeps, IndexesText, Unsets, ForgetsText, Hears, Reconciles, cloud, index
<1>3. CASE Ends(x) \/ Completes(x) \/ FindsSource(x) \/ Refuses(x) \/ TakesName(x) \/
  Probes(x)
  BY <1>3 DEF Ends, Completes, FindsSource, Refuses, TakesName, Probes, cloud, index
<1>4. CASE Puts(x) \/ SyncsGroup(x) \/ Downloads(x) \/ Hands(x)
  BY <1>4 DEF Puts, SyncsGroup, Downloads, Hands, cloud, index
<1> QED BY <1>1, <1>2, <1>3, <1>4 DEF Step

LEMMA ListingRests ==
  ASSUME NEW x \in Ops, Step(x), ~(Hears(x) \/ Reconciles(x))
  PROVE  UNCHANGED <<indexed, heard>>
<1>1. CASE Submit(x) \/ Starts(x) \/ Fails(x) \/ Pauses(x) \/ Resumes(x) \/ TakesPart(x)
  BY <1>1 DEF Submit, Starts, Fails, Pauses, Resumes, TakesPart, cloud, index
<1>2. CASE Says(x) \/ Sets(x) \/ Keeps(x) \/ IndexesText(x) \/ Unsets(x) \/ ForgetsText(x)
  BY <1>2 DEF Says, Sets, Keeps, IndexesText, Unsets, ForgetsText, cloud, index
<1>3. CASE Ends(x) \/ Completes(x) \/ FindsSource(x) \/ Refuses(x) \/ TakesName(x) \/
  Probes(x)
  BY <1>3 DEF Ends, Completes, FindsSource, Refuses, TakesName, Probes, cloud, index
<1>4. CASE Puts(x) \/ SyncsGroup(x) \/ Splits(x) \/ SendsSegment(x) \/ RecordsSegment(x) \/
  Downloads(x)
  BY <1>4 DEF Puts, SyncsGroup, Splits, SendsSegment, RecordsSegment, Downloads, cloud,
    index
<1>5. CASE Hands(x)
  BY <1>5 DEF Hands, cloud, index
<1> QED BY <1>1, <1>2, <1>3, <1>4, <1>5 DEF Step

LEMMA RowsRest ==
  ASSUME NEW x \in Ops, Step(x), ~(IndexesText(x) \/ ForgetsText(x) \/ Reconciles(x) \/ Splits(x) \/ RecordsSegment(x))
  PROVE  UNCHANGED <<texts, parents>>
<1>1. CASE Submit(x) \/ Starts(x) \/ Fails(x) \/ Pauses(x) \/ Resumes(x) \/ TakesPart(x)
  BY <1>1 DEF Submit, Starts, Fails, Pauses, Resumes, TakesPart, cloud, index
<1>2. CASE Says(x) \/ Sets(x) \/ Keeps(x) \/ Unsets(x) \/ Hears(x) \/ Ends(x)
  BY <1>2 DEF Says, Sets, Keeps, Unsets, Hears, Ends, cloud, index
<1>3. CASE Completes(x) \/ FindsSource(x) \/ Refuses(x) \/ TakesName(x) \/ Probes(x) \/
  Puts(x)
  BY <1>3 DEF Completes, FindsSource, Refuses, TakesName, Probes, Puts, cloud, index
<1>4. CASE SyncsGroup(x) \/ SendsSegment(x) \/ Downloads(x) \/ Hands(x)
  BY <1>4 DEF SyncsGroup, SendsSegment, Downloads, Hands, cloud, index
<1> QED BY <1>1, <1>2, <1>3, <1>4 DEF Step

LEMMA DoubtRests ==
  ASSUME NEW x \in Ops, Step(x), ~(Fails(x) \/ Says(x) \/ Sets(x) \/ Probes(x) \/ SendsSegment(x))
  PROVE  UNCHANGED doubt
<1>1. CASE Submit(x) \/ Starts(x) \/ Pauses(x) \/ Resumes(x) \/ TakesPart(x) \/ Keeps(x)
  BY <1>1 DEF Submit, Starts, Pauses, Resumes, TakesPart, Keeps, cloud, index
<1>2. CASE IndexesText(x) \/ Unsets(x) \/ ForgetsText(x) \/ Hears(x) \/ Reconciles(x) \/
  Ends(x)
  BY <1>2 DEF IndexesText, Unsets, ForgetsText, Hears, Reconciles, Ends, cloud, index
<1>3. CASE Completes(x) \/ FindsSource(x) \/ Refuses(x) \/ TakesName(x) \/ Puts(x) \/
  SyncsGroup(x)
  BY <1>3 DEF Completes, FindsSource, Refuses, TakesName, Puts, SyncsGroup, cloud, index
<1>4. CASE Splits(x) \/ RecordsSegment(x) \/ Downloads(x) \/ Hands(x)
  BY <1>4 DEF Splits, RecordsSegment, Downloads, Hands, cloud, index
<1> QED BY <1>1, <1>2, <1>3, <1>4 DEF Step

LEMMA MediaRests ==
  ASSUME NEW x \in Ops, Step(x), ~(Puts(x) \/ SendsSegment(x))
  PROVE  UNCHANGED media
<1>1. CASE Submit(x) \/ Starts(x) \/ Fails(x) \/ Pauses(x) \/ Resumes(x) \/ TakesPart(x)
  BY <1>1 DEF Submit, Starts, Fails, Pauses, Resumes, TakesPart, cloud, index
<1>2. CASE Says(x) \/ Sets(x) \/ Keeps(x) \/ IndexesText(x) \/ Unsets(x) \/ ForgetsText(x)
  BY <1>2 DEF Says, Sets, Keeps, IndexesText, Unsets, ForgetsText, cloud, index
<1>3. CASE Hears(x) \/ Reconciles(x) \/ Ends(x) \/ Completes(x) \/ FindsSource(x) \/
  Refuses(x)
  BY <1>3 DEF Hears, Reconciles, Ends, Completes, FindsSource, Refuses, cloud, index
<1>4. CASE TakesName(x) \/ Probes(x) \/ SyncsGroup(x) \/ Splits(x) \/ RecordsSegment(x) \/
  Downloads(x)
  BY <1>4 DEF TakesName, Probes, SyncsGroup, Splits, RecordsSegment, Downloads, cloud, index
<1>5. CASE Hands(x)
  BY <1>5 DEF Hands, cloud, index
<1> QED BY <1>1, <1>2, <1>3, <1>4, <1>5 DEF Step

LEMMA DiskRests ==
  ASSUME NEW x \in Ops, Step(x), ~(Submit(x) \/ Fails(x) \/ Pauses(x) \/ Says(x) \/ Sets(x) \/ FindsSource(x) \/ Refuses(x) \/ TakesName(x) \/ Puts(x) \/ SendsSegment(x) \/ Ends(x) \/ Downloads(x) \/ Hands(x))
  PROVE  UNCHANGED disk
<1>1. CASE Starts(x) \/ Resumes(x) \/ TakesPart(x) \/ Keeps(x) \/ IndexesText(x) \/
  Unsets(x)
  BY <1>1 DEF Starts, Resumes, TakesPart, Keeps, IndexesText, Unsets, cloud, index
<1>2. CASE ForgetsText(x) \/ Hears(x) \/ Reconciles(x) \/ Completes(x) \/ Probes(x) \/
  SyncsGroup(x)
  BY <1>2 DEF ForgetsText, Hears, Reconciles, Completes, Probes, SyncsGroup, cloud, index
<1>3. CASE Splits(x) \/ RecordsSegment(x)
  BY <1>3 DEF Splits, RecordsSegment, cloud, index
<1> QED BY <1>1, <1>2, <1>3 DEF Step

LEMMA PlanStays ==
  ASSUME NEW x \in Ops, Step(x) PROVE UNCHANGED plan
<1>1. CASE Submit(x) \/ Starts(x) \/ Fails(x) \/ Pauses(x) \/ Resumes(x) \/ TakesPart(x)
  \/ Says(x) \/ Sets(x) \/ Keeps(x)
  BY <1>1 DEF Submit, Starts, Fails, Pauses, Resumes, TakesPart, Says, Sets, Keeps, cloud,
    index, GivesUp, Retried
<1>2. CASE IndexesText(x) \/ Unsets(x) \/ ForgetsText(x) \/ Hears(x) \/ Reconciles(x) \/
  Ends(x) \/ Completes(x) \/ FindsSource(x) \/ Refuses(x)
  BY <1>2 DEF IndexesText, Unsets, ForgetsText, Hears, Reconciles, Ends, Completes,
    FindsSource, Refuses, cloud, index, GivesUp
<1>3. CASE TakesName(x) \/ Probes(x) \/ Puts(x) \/ SyncsGroup(x) \/ Splits(x) \/
  SendsSegment(x) \/ RecordsSegment(x) \/ Downloads(x) \/ Hands(x)
  BY <1>3 DEF TakesName, Probes, Puts, SyncsGroup, Splits, SendsSegment, RecordsSegment,
    Downloads, Hands, cloud, index, GivesUp, Retried
<1> QED BY <1>1, <1>2, <1>3 DEF Step

(* A step of one operation leaves the others as they are. *)
LEMMA Stays ==
  ASSUME TypeOK, NEW x \in Ops, Step(x), NEW o \in Ops \ {x}
  PROVE  /\ at'[o] = at[o] /\ replayed'[o] = replayed[o] /\ payload'[o] = payload[o]
         /\ ledger'[o] = ledger[o] /\ part'[o] = part[o]
         /\ \A s \in Seqs \cup {Whole} : doubt'[<<o, s>>] = doubt[<<o, s>>]
         /\ UNCHANGED plan
<1>1. at'[o] = at[o] /\ UNCHANGED plan
  <2>1. CASE Submit(x)
    BY <2>1 DEF Submit, Go, TypeOK
  <2>2. CASE Starts(x)
    BY <2>2 DEF Starts, Go, TypeOK
  <2>3. CASE Fails(x)
    BY <2>3 DEF Fails, Go, Retried, TypeOK
  <2>4. CASE Pauses(x)
    BY <2>4 DEF Pauses, Go, TypeOK
  <2>5. CASE Resumes(x)
    BY <2>5 DEF Resumes, Go, TypeOK
  <2>6. CASE TakesPart(x)
    BY <2>6 DEF TakesPart, Go, TypeOK
  <2>7. CASE Says(x)
    BY <2>7 DEF Says, Go, Retried, TypeOK
  <2>8. CASE Sets(x)
    BY <2>8 DEF Sets, Go, GivesUp, TypeOK
  <2>9. CASE Keeps(x)
    BY <2>9 DEF Keeps, Go, TypeOK
  <2>10. CASE IndexesText(x)
    BY <2>10 DEF IndexesText, Go, TypeOK
  <2>11. CASE ForgetsText(x)
    BY <2>11 DEF ForgetsText, Go, TypeOK
  <2>12. CASE Hears(x)
    BY <2>12 DEF Hears, Go, TypeOK
  <2>13. CASE Reconciles(x)
    BY <2>13 DEF Reconciles, Go, TypeOK
  <2>14. CASE Ends(x)
    BY <2>14 DEF Ends, Go, TypeOK
  <2>15. CASE Completes(x)
    BY <2>15 DEF Completes, Go, TypeOK
  <2>16. CASE FindsSource(x)
    BY <2>16 DEF FindsSource, Go, GivesUp, TypeOK
  <2>17. CASE Refuses(x)
    BY <2>17 DEF Refuses, Go, GivesUp, TypeOK
  <2>18. CASE TakesName(x)
    BY <2>18 DEF TakesName, Go, GivesUp, TypeOK
  <2>19. CASE Probes(x)
    BY <2>19 DEF Probes, Go, TypeOK
  <2>20. CASE Puts(x)
    BY <2>20 DEF Puts, Go, Retried, TypeOK
  <2>21. CASE SyncsGroup(x)
    BY <2>21 DEF SyncsGroup, Go, TypeOK
  <2>22. CASE Splits(x)
    BY <2>22 DEF Splits, Go, TypeOK
  <2>23. CASE SendsSegment(x)
    BY <2>23 DEF SendsSegment, Go, Retried, TypeOK
  <2>24. CASE RecordsSegment(x)
    BY <2>24 DEF RecordsSegment, Go, TypeOK
  <2>25. CASE Downloads(x)
    BY <2>25 DEF Downloads, Go, TypeOK
  <2>26. CASE Hands(x)
    BY <2>26 DEF Hands, Go, TypeOK
  <2>27. CASE Unsets(x)
    BY <2>27 DEF Unsets, cloud, index, TypeOK
  <2> QED BY <2>1, <2>2, <2>3, <2>4, <2>5, <2>6, <2>7, <2>8, <2>9, <2>10, <2>11, <2>12,
    <2>13, <2>14, <2>15, <2>16, <2>17, <2>18, <2>19, <2>20, <2>21, <2>22, <2>23, <2>24,
    <2>25, <2>26, <2>27 DEF Step
<1>2. replayed'[o] = replayed[o]
  <2>1. CASE Fails(x)
    BY <2>1 DEF Fails, Retried, TypeOK
  <2>2. CASE Pauses(x)
    BY <2>2 DEF Pauses, TypeOK
  <2>3. CASE Says(x)
    BY <2>3 DEF Says, Retried, TypeOK
  <2>4. CASE Sets(x)
    BY <2>4 DEF Sets, GivesUp, TypeOK
  <2>5. CASE Puts(x)
    BY <2>5 DEF Puts, Retried, TypeOK
  <2>6. CASE SendsSegment(x)
    BY <2>6 DEF SendsSegment, Retried, TypeOK
  <2>7. CASE Submit(x) \/ Starts(x) \/ Resumes(x) \/ TakesPart(x) \/ Keeps(x) \/
    IndexesText(x) \/ Unsets(x) \/ ForgetsText(x) \/ Hears(x)
    BY <2>7 DEF Submit, Starts, Resumes, TakesPart, Keeps, IndexesText, Unsets, ForgetsText,
      Hears, cloud, index, TypeOK
  <2>8. CASE Reconciles(x) \/ Ends(x) \/ Completes(x) \/ FindsSource(x) \/ Refuses(x) \/
    TakesName(x) \/ Probes(x) \/ SyncsGroup(x) \/ Splits(x)
    BY <2>8 DEF Reconciles, Ends, Completes, FindsSource, Refuses, TakesName, Probes,
      SyncsGroup, Splits, cloud, index, GivesUp, TypeOK
  <2>9. CASE RecordsSegment(x) \/ Downloads(x) \/ Hands(x)
    BY <2>9 DEF RecordsSegment, Downloads, Hands, cloud, index, TypeOK
  <2> QED BY <2>1, <2>2, <2>3, <2>4, <2>5, <2>6, <2>7, <2>8, <2>9 DEF Step
<1>3. payload'[o] = payload[o]
  <2>1. CASE Submit(x)
    BY <2>1 DEF Submit, TypeOK, Payloads
  <2>2. CASE Sets(x)
    BY <2>2 DEF Sets, GivesUp, TypeOK, Payloads
  <2>3. CASE Unsets(x)
    BY <2>3 DEF Unsets, TypeOK, Payloads
  <2>4. CASE TakesName(x)
    BY <2>4 DEF TakesName, GivesUp, TypeOK, Payloads
  <2>5. CASE Splits(x)
    BY <2>5 DEF Splits, TypeOK, Payloads
  <2>6. CASE Starts(x) \/ Fails(x) \/ Pauses(x) \/ Resumes(x) \/ TakesPart(x) \/ Says(x) \/
    Keeps(x) \/ IndexesText(x) \/ ForgetsText(x)
    BY <2>6 DEF Starts, Fails, Pauses, Resumes, TakesPart, Says, Keeps, IndexesText,
      ForgetsText, cloud, index, Retried, TypeOK, Payloads
  <2>7. CASE Hears(x) \/ Reconciles(x) \/ Ends(x) \/ Completes(x) \/ FindsSource(x) \/
    Refuses(x) \/ Probes(x) \/ Puts(x) \/ SyncsGroup(x)
    BY <2>7 DEF Hears, Reconciles, Ends, Completes, FindsSource, Refuses, Probes, Puts,
      SyncsGroup, cloud, index, GivesUp, Retried, TypeOK, Payloads
  <2>8. CASE SendsSegment(x) \/ RecordsSegment(x) \/ Downloads(x) \/ Hands(x)
    BY <2>8 DEF SendsSegment, RecordsSegment, Downloads, Hands, cloud, index, Retried,
      TypeOK, Payloads
  <2> QED BY <2>1, <2>2, <2>3, <2>4, <2>5, <2>6, <2>7, <2>8 DEF Step
<1>4. ledger'[o] = ledger[o]
  <2>1. ledger \in Payloads BY DEF TypeOK
  <2> QED BY <2>1, LedgerStep DEF Payloads
<1>5. part'[o] = part[o]
  <2>1. CASE TakesPart(x)
    BY <2>1 DEF TakesPart, TypeOK
  <2>2. CASE Says(x)
    BY <2>2 DEF Says, TypeOK
  <2>3. CASE Splits(x)
    BY <2>3 DEF Splits, TypeOK
  <2>4. CASE SendsSegment(x)
    BY <2>4 DEF SendsSegment, Advances, TypeOK
  <2>5. CASE RecordsSegment(x)
    BY <2>5 DEF RecordsSegment, Advances, TypeOK
  <2>6. CASE Submit(x) \/ Starts(x) \/ Fails(x) \/ Pauses(x) \/ Resumes(x) \/ Sets(x) \/
    Keeps(x) \/ IndexesText(x) \/ Unsets(x)
    BY <2>6 DEF Submit, Starts, Fails, Pauses, Resumes, Sets, Keeps, IndexesText, Unsets,
      cloud, index, GivesUp, Retried, TypeOK
  <2>7. CASE ForgetsText(x) \/ Hears(x) \/ Reconciles(x) \/ Ends(x) \/ Completes(x) \/
    FindsSource(x) \/ Refuses(x) \/ TakesName(x) \/ Probes(x)
    BY <2>7 DEF ForgetsText, Hears, Reconciles, Ends, Completes, FindsSource, Refuses,
      TakesName, Probes, cloud, index, GivesUp, TypeOK
  <2>8. CASE Puts(x) \/ SyncsGroup(x) \/ Downloads(x) \/ Hands(x)
    BY <2>8 DEF Puts, SyncsGroup, Downloads, Hands, cloud, index, Retried, TypeOK
  <2> QED BY <2>1, <2>2, <2>3, <2>4, <2>5, <2>6, <2>7, <2>8 DEF Step
<1>6. \A s \in Seqs \cup {Whole} : doubt'[<<o, s>>] = doubt[<<o, s>>]
  <2>1. CASE Fails(x)
    BY <2>1 DEF Fails, Doubted, TypeOK
  <2>2. CASE Says(x)
    BY <2>2 DEF Says, Doubted, TypeOK
  <2>3. CASE Sets(x)
    BY <2>3 DEF Sets, Doubted, TypeOK
  <2>4. CASE Probes(x)
    BY <2>4 DEF Probes, Doubted, TypeOK
  <2>5. CASE SendsSegment(x)
    BY <2>5 DEF SendsSegment, Doubted, TypeOK
  <2>6. CASE Submit(x) \/ Starts(x) \/ Pauses(x) \/ Resumes(x) \/ TakesPart(x) \/ Keeps(x)
    \/ IndexesText(x) \/ Unsets(x) \/ ForgetsText(x)
    BY <2>6 DEF Submit, Starts, Pauses, Resumes, TakesPart, Keeps, IndexesText, Unsets,
      ForgetsText, cloud, index, TypeOK
  <2>7. CASE Hears(x) \/ Reconciles(x) \/ Ends(x) \/ Completes(x) \/ FindsSource(x) \/
    Refuses(x) \/ TakesName(x) \/ Puts(x) \/ SyncsGroup(x)
    BY <2>7 DEF Hears, Reconciles, Ends, Completes, FindsSource, Refuses, TakesName, Puts,
      SyncsGroup, cloud, index, GivesUp, Retried, TypeOK
  <2>8. CASE Splits(x) \/ RecordsSegment(x) \/ Downloads(x) \/ Hands(x)
    BY <2>8 DEF Splits, RecordsSegment, Downloads, Hands, cloud, index, TypeOK
  <2> QED BY <2>1, <2>2, <2>3, <2>4, <2>5, <2>6, <2>7, <2>8 DEF Step
<1> QED BY <1>1, <1>2, <1>3, <1>4, <1>5, <1>6

LEMMA NextPartIs ==
  ASSUME NEW x, Known(x) # Seqs PROVE NextPart(x) \in Seqs \ Known(x)
<1> DEFINE R == Seqs \ Known(x)
<1>1. R # {} /\ R \subseteq {1, 2} BY DEF Known, Seqs
<1> HIDE DEF R
<1>2. \E s \in R : \A t \in R : s <= t
  <2>1. CASE 1 \in R BY <1>1, <2>1
  <2>2. CASE 1 \notin R
    <3>1. R = {2} BY <1>1, <2>2
    <3> QED BY <3>1
  <2> QED BY <2>1, <2>2
<1>3. NextPart(x) = CHOOSE s \in R : \A t \in R : s <= t BY DEF NextPart, R
<1>4. NextPart(x) \in R BY <1>2, <1>3
<1> QED BY <1>4 DEF R

(* A part in hand is one of a text, or of a video, that is being sent. *)
InHand == \A o \in Ops : at[o] \in {"say", "set", "keep", "row"} => part[o].seq \in Seqs

LEMMA InHandStep ==
  ASSUME TypeOK, InHand, NEW x \in Ops, Step(x) PROVE InHand'
<1> SUFFICES ASSUME NEW o \in Ops, at'[o] \in {"say", "set", "keep", "row"} PROVE part'[o].seq \in Seqs
  BY DEF InHand
<1>1. CASE o # x BY <1>1, Stays DEF InHand
<1>2. CASE o = x
  <2>0. at \in [Ops -> Places] /\ part \in [Ops -> [seq : Nat, id : Messaged]] BY DEF TypeOK
  <2>1. CASE Submit(x)
    BY <1>2, <2>0, <2>1 DEF Submit, Go, InHand
  <2>2. CASE Starts(x)
    BY <1>2, <2>0, <2>2 DEF Starts, Go, InHand, First, After
  <2>3. CASE Fails(x)
    BY <1>2, <2>0, <2>3 DEF Fails, Go, Retried, InHand
  <2>4. CASE Pauses(x)
    BY <1>2, <2>0, <2>4 DEF Pauses, Go, InHand
  <2>5. CASE Resumes(x)
    BY <1>2, <2>0, <2>5 DEF Resumes, Go, InHand
  <2>6. CASE TakesPart(x)
    BY <1>2, <2>0, <2>6, NextPartIs DEF TakesPart, Go, InHand
  <2>7. CASE Says(x)
    BY <1>2, <2>0, <2>7 DEF Says, Go, Retried, InHand
  <2>8. CASE Sets(x)
    BY <1>2, <2>0, <2>8 DEF Sets, Go, GivesUp, InHand
  <2>9. CASE Keeps(x)
    BY <1>2, <2>0, <2>9 DEF Keeps, Go, InHand
  <2>10. CASE IndexesText(x)
    BY <1>2, <2>0, <2>10 DEF IndexesText, Go, InHand
  <2>11. CASE Unsets(x)
    BY <1>2, <2>0, <2>11 DEF Unsets, InHand
  <2>12. CASE ForgetsText(x)
    BY <1>2, <2>0, <2>12 DEF ForgetsText, Go, InHand
  <2>13. CASE Hears(x)
    BY <1>2, <2>0, <2>13 DEF Hears, Go, InHand
  <2>14. CASE Reconciles(x)
    BY <1>2, <2>0, <2>14 DEF Reconciles, Go, InHand
  <2>15. CASE Ends(x)
    BY <1>2, <2>0, <2>15 DEF Ends, Go, InHand
  <2>16. CASE Completes(x)
    BY <1>2, <2>0, <2>16 DEF Completes, Go, InHand
  <2>17. CASE FindsSource(x)
    BY <1>2, <2>0, <2>17 DEF FindsSource, Go, GivesUp, InHand
  <2>18. CASE Refuses(x)
    BY <1>2, <2>0, <2>18 DEF Refuses, Go, GivesUp, InHand
  <2>19. CASE TakesName(x)
    BY <1>2, <2>0, <2>19 DEF TakesName, Go, GivesUp, InHand
  <2>20. CASE Probes(x)
    BY <1>2, <2>0, <2>20 DEF Probes, Go, InHand, First, After
  <2>21. CASE Puts(x)
    BY <1>2, <2>0, <2>21 DEF Puts, Go, Retried, InHand, First, After
  <2>22. CASE SyncsGroup(x)
    BY <1>2, <2>0, <2>22 DEF SyncsGroup, Go, InHand
  <2>23. CASE Splits(x)
    BY <1>2, <2>0, <2>23 DEF Splits, Go, InHand
  <2>24. CASE SendsSegment(x)
    BY <1>2, <2>0, <2>24 DEF SendsSegment, Go, Retried, InHand
  <2>25. CASE RecordsSegment(x)
    BY <1>2, <2>0, <2>25 DEF RecordsSegment, Go, InHand
  <2>26. CASE Downloads(x)
    BY <1>2, <2>0, <2>26 DEF Downloads, Go, InHand
  <2>27. CASE Hands(x)
    BY <1>2, <2>0, <2>27 DEF Hands, Go, InHand
  <2> QED BY <2>1, <2>2, <2>3, <2>4, <2>5, <2>6, <2>7, <2>8, <2>9, <2>10, <2>11, <2>12,
    <2>13, <2>14, <2>15, <2>16, <2>17, <2>18, <2>19, <2>20, <2>21, <2>22, <2>23, <2>24,
    <2>25, <2>26, <2>27 DEF Step
<1> QED BY <1>1, <1>2

LEMMA SendingStep ==
  ASSUME TypeOK, InHand, NEW x \in Ops, Step(x) PROVE Sending'
<1>0. Messaged \subseteq Messaged' BY PayloadsGrow
<1>1. essence' \in Seq(Posts) /\ DOMAIN essence \subseteq DOMAIN essence'
  <2>0. essence \in Seq(Posts) BY EssenceIs
  <2>1. CASE Says(x)
    <3>1. essence' = Append(essence, Message(x, part[x].seq)) BY <2>1 DEF Says
    <3>2. part[x].seq \in Seqs BY <2>1 DEF Says, InHand
    <3>3. Message(x, part[x].seq) \in Posts BY <3>2 DEF Message, Posts
    <3> HIDE DEF Message
    <3> QED BY <2>0, <3>1, <3>3
  <2>2. CASE Sets(x) \/ Unsets(x) BY <2>2, Setting
  <2>3. CASE Hands(x)
    <3>1. Message(x, 1) \in Posts /\ Message(x, 2) \in Posts BY DEF Message, Posts, Seqs
    <3>2. \/ essence' = essence
          \/ essence' = essence \o <<Message(x, 1), Message(x, 2)>>
      BY <2>3 DEF Hands
    <3> HIDE DEF Message
    <3>3. <<Message(x, 1), Message(x, 2)>> \in Seq(Posts) BY <3>1
    <3> DEFINE two == <<Message(x, 1), Message(x, 2)>>
    <3> HIDE DEF two
    <3>4. two \in Seq(Posts) BY <3>3 DEF two
    <3>5. CASE essence' = essence \o two
      <4>1. Len(essence \o two) = Len(essence) + Len(two) /\ Len(two) \in Nat BY <2>0, <3>4
      <4> QED BY <2>0, <3>4, <3>5, <4>1
    <3> QED BY <2>0, <3>2, <3>5 DEF two
  <2>4. CASE essence' = essence BY <2>0, <2>4
  <2> QED BY <2>1, <2>2, <2>3, <2>4, EssenceRests
<1>2. part' \in [Ops -> [seq : Nat, id : Messaged']]
  <2>0. part \in [Ops -> [seq : Nat, id : Messaged]] BY DEF TypeOK
  <2>1. CASE TakesPart(x)
    <3>1. \/ part' = part
          \/ at'[x] = "say" /\ part' = [part EXCEPT ![x] = [seq |-> NextPart(x), id |-> 0]]
      BY <2>1 DEF TakesPart, Go, TypeOK
    <3>2. at'[x] = "say" /\ part' = [part EXCEPT ![x] = [seq |-> NextPart(x), id |-> 0]] => NextPart(x) \in Seqs
      BY <2>0, InHandStep DEF InHand
    <3>3. 0 \in Messaged BY EssenceIs DEF Messaged
    <3>4. \A n \in Seqs : n \in Nat BY DEF Seqs
    <3>5. CASE part' = part BY <1>0, <2>0, <3>5
    <3>6. CASE at'[x] = "say" /\ part' = [part EXCEPT ![x] = [seq |-> NextPart(x), id |-> 0]]
      <4>1. NextPart(x) \in Nat BY <3>2, <3>4, <3>6
      <4> QED BY <1>0, <2>0, <3>3, <3>6, <4>1
    <3> QED BY <3>1, <3>5, <3>6
  <2>2. CASE Says(x)
    <3>1. Len(essence') \in Messaged' BY <1>1 DEF Messaged
    <3>2. part' = part \/ part' = [part EXCEPT ![x].id = Len(essence')] BY <2>2 DEF Says
    <3>3. CASE part' = part BY <1>0, <2>0, <3>3
    <3>4. CASE part' = [part EXCEPT ![x].id = Len(essence')]
      <4> DEFINE n == Len(essence')
      <4> HIDE DEF n
      <4>1. n \in Messaged' BY <3>1 DEF n
      <4>2. part' = [part EXCEPT ![x].id = n] BY <3>4 DEF n
      <4> QED BY <1>0, <2>0, <4>1, <4>2
    <3> QED BY <3>2, <3>3, <3>4
  <2>3. CASE Splits(x)
    <3>1. part' = [part EXCEPT ![x] = [seq |-> 1, id |-> 0]] BY <2>3 DEF Splits
    <3>2. 0 \in Messaged BY EssenceIs DEF Messaged
    <3> QED BY <1>0, <2>0, <3>1, <3>2
  <2>4. CASE SendsSegment(x) \/ RecordsSegment(x)
    <3>1. part' = part \/ part' = [part EXCEPT ![x].seq = @ + 1]
      BY <2>4 DEF SendsSegment, RecordsSegment, Advances
    <3> QED BY <1>0, <2>0, <3>1
  <2>5. CASE part' = part BY <1>0, <2>0, <2>5
  <2> QED BY <2>1, <2>2, <2>3, <2>4, <2>5, PartRests
<1>3. indexed' \subseteq DOMAIN essence' /\ heard' \in [Ops -> SUBSET DOMAIN essence']
  <2>0. indexed \subseteq DOMAIN essence /\ heard \in [Ops -> SUBSET DOMAIN essence] BY DEF TypeOK
  <2>1. CASE Hears(x)
    <3>1. Listed \subseteq DOMAIN essence /\ indexed' = indexed
          /\ (heard' = heard \/ heard' = [heard EXCEPT ![x] = Listed])
      BY <2>1 DEF Hears, Listed, index
    <3> HIDE DEF Listed
    <3> QED BY <1>1, <2>0, <3>1
  <2>2. CASE Reconciles(x)
    <3>1. indexed' = heard[x] /\ heard' = heard BY <2>2 DEF Reconciles, Rebuilt
    <3> QED BY <1>1, <2>0, <3>1
  <2>3. CASE UNCHANGED <<indexed, heard>> BY <1>1, <2>0, <2>3
  <2> QED BY <2>1, <2>2, <2>3, ListingRests
<1> QED BY <1>1, <1>2, <1>3 DEF Sending, Posts

LEMMA RowsStep ==
  ASSUME TypeOK, InHand, NEW x \in Ops, Step(x) PROVE Rows'
<1>0. Messaged \subseteq Messaged' /\ Control /\ Control' /\ UNCHANGED plan
  BY PayloadsGrow, TypeIsControl, ControlStep, PlanStays
<1>1. Titles' = Titles /\ Name(x) \in Titles BY <1>0, Inputs DEF Titles
<1> DEFINE Row == [status : {"none", "active", "deleted"}, parts : [Seqs -> Messaged]]
<1>2. texts \in [Titles -> Row] /\ parents \in Seq(SUBSET Seqs) /\ payload \in Payloads BY DEF TypeOK
<1>3. texts' \in [Titles -> Row]
  <2>1. CASE IndexesText(x)
    <3>1. texts' = [texts EXCEPT ![Name(x)] = [status |-> "active", parts |-> payload[x].sent]]
      BY <2>1 DEF IndexesText
    <3>2. payload[x].sent \in [Seqs -> Messaged] BY <1>2 DEF Payloads
    <3> QED BY <1>1, <1>2, <3>1, <3>2
  <2>2. CASE ForgetsText(x)
    <3>1. texts' = [texts EXCEPT ![Name(x)].status = "deleted"] BY <2>2 DEF ForgetsText
    <3> QED BY <1>1, <1>2, <3>1
  <2>3. CASE Reconciles(x)
    <3>1. texts' = [t \in DOMAIN texts |-> texts[t]] BY <2>3 DEF Reconciles, Rebuilt, Spared
    <3> QED BY <1>2, <3>1
  <2>4. CASE Splits(x) BY <1>2, <2>4 DEF Splits
  <2>5. CASE RecordsSegment(x) BY <1>2, <2>5 DEF RecordsSegment
  <2>6. CASE texts' = texts BY <1>2, <2>6
  <2> QED BY <2>1, <2>2, <2>3, <2>4, <2>5, <2>6, RowsRest
<1>4. parents' \in Seq(SUBSET Seqs)
  <2>1. CASE Splits(x)
    <3>1. parents' = parents \/ parents' = Append(parents, {}) BY <2>1 DEF Splits
    <3>2. {} \in SUBSET Seqs OBVIOUS
    <3> QED BY <1>2, <3>1, <3>2
  <2>2. CASE RecordsSegment(x)
    <3>1. PICK p \in Nat, s \in Seqs : parents' = [parents EXCEPT ![p] = parents[p] \cup {s}]
      <4>1. Parent(x) \in Nat
        <5>1. payload[x].parent \in 0..Len(parents) /\ Len(parents) \in Nat BY <1>2 DEF Payloads
        <5> QED BY <5>1 DEF Parent
      <4>2. part[x].seq \in Seqs BY <2>2 DEF RecordsSegment, InHand
      <4>3. parents' = [parents EXCEPT ![Parent(x)] = parents[Parent(x)] \cup {part[x].seq}]
        BY <2>2 DEF RecordsSegment
      <4> QED BY <4>1, <4>2, <4>3
    <3>2. parents' = [n \in 1..Len(parents) |-> IF n = p THEN parents[p] \cup {s} ELSE parents[n]]
      <4>1. DOMAIN parents = 1..Len(parents) BY <1>2
      <4> QED BY <3>1, <4>1
    <3>3. \A n \in 1..Len(parents) : parents[n] \in SUBSET Seqs BY <1>2
    <3>4. parents' \in [1..Len(parents) -> SUBSET Seqs] BY <3>2, <3>3
    <3> QED BY <1>2, <3>4
  <2>3. CASE IndexesText(x) \/ ForgetsText(x) \/ Reconciles(x)
    BY <1>2, <2>3 DEF IndexesText, ForgetsText, Reconciles
  <2>4. CASE parents' = parents BY <1>2, <2>4
  <2> QED BY <2>1, <2>2, <2>3, <2>4, RowsRest
<1> QED BY <1>0, <1>1, <1>3, <1>4 DEF Rows

LEMMA DoubtStep ==
  ASSUME TypeOK, InHand, NEW x \in Ops, Step(x) PROVE Doubts'
<1>1. doubt' = doubt \/ \E s \in Seqs \cup {Whole} : Doubted(x, s)
  <2>1. CASE Fails(x) \/ Says(x) \/ Sets(x) BY <2>1 DEF Fails, Says, Sets, InHand
  <2>2. CASE Probes(x) BY <2>2 DEF Probes
  <2>3. CASE SendsSegment(x) BY <2>3 DEF SendsSegment
  <2> QED BY <2>1, <2>2, <2>3, DoubtRests
<1>2. doubt \in [Ops \X (Seqs \cup {Whole}) -> Nat] BY DEF TypeOK
<1>3. CASE doubt' = doubt BY <1>2, <1>3 DEF Doubts
<1>4. CASE \E s \in Seqs \cup {Whole} : Doubted(x, s)
  <2>1. PICK s \in Seqs \cup {Whole} : Doubted(x, s) BY <1>4
  <2>2. PICK d \in Ops \X (Seqs \cup {Whole}) : doubt' = [doubt EXCEPT ![d] = doubt[d] + 1]
    BY <2>1 DEF Doubted
  <2> QED BY <1>2, <2>2 DEF Doubts
<1> QED BY <1>1, <1>3, <1>4

LEMMA StorageStep ==
  ASSUME TypeOK, NEW x \in Ops, Step(x) PROVE Storage'
<1>0. Control /\ UNCHANGED plan BY TypeIsControl, PlanStays
<1>1. /\ Titles' = Titles /\ Name(x) \in Titles /\ Paths' = Paths
      /\ Uuid(x) \in Paths /\ Declared(x) \in Paths /\ Nobody \notin Ops
  BY <1>0, Inputs DEF Titles, Paths, Uuid
<1>2. disk \in [Paths -> Ops \cup {Nobody}]
      /\ media \in Seq([op : Ops, name : Titles, part : Seqs \cup {Whole}])
  BY DEF TypeOK
<1>3. disk' \in [Paths -> Ops \cup {Nobody}]
  <2>1. CASE TakesName(x)
    <3>1. \/ Source(x) \in Paths /\ disk' = [[disk EXCEPT ![Declared(x)] = disk[Source(x)]] EXCEPT ![Uuid(x)] = Nobody]
          \/ disk' = disk \/ GivesUp(x)
      BY <2>1 DEF TakesName
    <3>2. CASE GivesUp(x) BY <1>1, <1>2, <3>2 DEF GivesUp, Drops
    <3> QED BY <1>1, <1>2, <3>1, <3>2
  <2>2. CASE Submit(x)
    BY <1>1, <1>2, <2>2 DEF Submit, Staged
  <2>3. CASE Fails(x)
    BY <1>1, <1>2, <2>3 DEF Fails, Retried, Drops
  <2>4. CASE Pauses(x)
    BY <1>1, <1>2, <2>4 DEF Pauses, Drops
  <2>5. CASE Says(x)
    BY <1>1, <1>2, <2>5 DEF Says, Retried, Drops
  <2>6. CASE Sets(x)
    BY <1>1, <1>2, <2>6 DEF Sets, GivesUp, Drops
  <2>7. CASE FindsSource(x)
    BY <1>1, <1>2, <2>7 DEF FindsSource, GivesUp, Drops
  <2>8. CASE Refuses(x)
    BY <1>1, <1>2, <2>8 DEF Refuses, GivesUp, Drops
  <2>9. CASE Puts(x)
    BY <1>1, <1>2, <2>9 DEF Puts, Retried, Drops
  <2>10. CASE SendsSegment(x)
    BY <1>1, <1>2, <2>10 DEF SendsSegment, Retried, Drops
  <2>11. CASE Ends(x)
    BY <1>1, <1>2, <2>11 DEF Ends
  <2>12. CASE Downloads(x)
    BY <1>1, <1>2, <2>12 DEF Downloads
  <2>13. CASE Hands(x)
    BY <1>1, <1>2, <2>13 DEF Hands, Drops
  <2> QED BY <2>1, <2>2, <2>3, <2>4, <2>5, <2>6, <2>7, <2>8, <2>9, <2>10, <2>11, <2>12, <2>13, <1>2, DiskRests
<1>4. media' \in Seq([op : Ops, name : Titles, part : Seqs \cup {Whole}])
  <2> DEFINE E == [op : Ops, name : Titles, part : Seqs \cup {Whole}]
  <2>1. CASE Puts(x)
    <3>1. media' = media \/ (File(x) # Nobody /\ media' = Append(media, [Entry(x, Whole) EXCEPT !.op = File(x)]))
      BY <2>1 DEF Puts
    <3>2. File(x) \in Ops \cup {Nobody} BY <1>1, <1>2 DEF File
    <3>3. File(x) # Nobody => [Entry(x, Whole) EXCEPT !.op = File(x)] \in E BY <1>1, <3>2 DEF Entry
    <3>4. media \in Seq(E) BY <1>2
    <3> HIDE DEF E
    <3>5. media' \in Seq(E) BY <3>1, <3>3, <3>4
    <3> QED BY <3>5 DEF E
  <2>2. CASE SendsSegment(x)
    <3>1. media' = media \/ (part[x].seq \in Seqs /\ media' = Append(media, Entry(x, part[x].seq)))
      BY <2>2 DEF SendsSegment
    <3>2. part[x].seq \in Seqs => Entry(x, part[x].seq) \in E BY <1>1 DEF Entry
    <3>3. media \in Seq(E) BY <1>2
    <3> HIDE DEF E
    <3>4. media' \in Seq(E) BY <3>1, <3>2, <3>3
    <3> QED BY <3>4 DEF E
  <2>3. CASE media' = media BY <1>2, <2>3
  <2> QED BY <2>1, <2>2, <2>3, MediaRests
<1> QED BY <1>1, <1>3, <1>4 DEF Storage

TypeInv == TypeOK /\ InHand
LEMMA TypesStep == ASSUME TypeInv, Next PROVE TypeInv'
<1> USE DEF TypeInv
<1>1. CASE Crash
  <2>1. InHand' BY <1>1 DEF Crash, InHand, TypeOK, Live
  <2>2. Control'
    <3>1. trouble' \in 0..MaxTrouble BY <1>1, IngestAssumption DEF Crash, Trouble, TypeOK, IngestAssumption
    <3> QED BY <1>1, <3>1 DEF Crash, TypeOK, Control, Places
  <2>3. Doubts' /\ payload' \in Payloads' /\ ledger' \in Payloads'
    <3>1. doubt \in [Ops \X (Seqs \cup {Whole}) -> Nat] BY DEF TypeOK
    <3>2. Doubts' BY <1>1, <3>1 DEF Crash, Doubts
    <3> QED BY <1>1, <3>2 DEF Crash, TypeOK, Payloads, Messaged, cloud, index
  <2>4. Sending' /\ Rows' /\ Storage'
    BY <1>1 DEF Crash, TypeOK, Sending, Rows, Storage, cloud, index, Messaged, Titles, Paths, Uuid
  <2> QED BY <2>1, <2>2, <2>3, <2>4 DEF TypeOK, Control, Sending, Rows, Storage, Doubts
<1>2. ASSUME NEW x \in Ops, Step(x) PROVE TypeInv'
  <2>1. Control' /\ payload' \in Payloads' /\ ledger' \in Payloads'
    BY <1>2, ControlStep, PayloadStep
  <2>2. Sending' /\ Rows' BY <1>2, SendingStep, RowsStep
  <2>3. Doubts' /\ Storage' /\ InHand' BY <1>2, DoubtStep, StorageStep, InHandStep
  <2> QED BY <2>1, <2>2, <2>3 DEF TypeOK, Control, Sending, Rows, Storage, Doubts
<1> QED BY <1>1, <1>2 DEF Next, Step

LEMMA TypesInit == Init => TypeInv
<1> SUFFICES ASSUME Init PROVE TypeInv OBVIOUS
<1>0. /\ essence = <<>> /\ parents = <<>> /\ media = <<>> /\ Messaged = {0} /\ Len(parents) = 0
  BY DEF Init, Messaged
<1>1. Control BY IngestAssumption DEF Init, Control, Places, IngestAssumption
<1>2. payload \in Payloads /\ ledger \in Payloads BY <1>0 DEF Init, Payloads
<1>3. Sending BY <1>0 DEF Init, Sending
<1>4. Rows /\ Doubts BY <1>0 DEF Init, Rows, Doubts, NoText
<1>5. Storage /\ InHand BY <1>0 DEF Init, Storage, InHand
<1> QED BY <1>1, <1>2, <1>3, <1>4, <1>5 DEF TypeInv, TypeOK, Control, Sending, Rows, Storage, Doubts

LEMMA TypesStutter == ASSUME TypeInv, UNCHANGED vars PROVE TypeInv'
<1> USE DEF vars, cloud, index
<1>1. Control' /\ Doubts' /\ InHand' BY DEF TypeInv, TypeOK, Control, Doubts, InHand
<1>2. payload' \in Payloads' /\ ledger' \in Payloads' BY DEF TypeInv, TypeOK, Payloads, Messaged
<1>3. Sending' /\ Rows' BY DEF TypeInv, TypeOK, Sending, Rows, Titles, Messaged
<1>4. Storage' BY DEF TypeInv, TypeOK, Storage, Titles, Paths, Uuid
<1> QED BY <1>1, <1>2, <1>3, <1>4 DEF TypeInv, TypeOK, Control, Sending, Rows, Storage, Doubts

(* The types, and that what is in hand can be sent. *)
THEOREM TypesHold == Spec => []TypeOK
<1>1. TypeInv /\ [Next]_vars => TypeInv'
  <2> SUFFICES ASSUME TypeInv, [Next]_vars PROVE TypeInv' OBVIOUS
  <2>1. CASE Next BY <2>1, TypesStep
  <2>2. CASE UNCHANGED vars BY <2>2, TypesStutter
  <2> QED BY <2>1, <2>2
<1>2. TypeInv => TypeOK BY DEF TypeInv
<1> QED BY <1>1, <1>2, TypesInit, PTL DEF Spec

-----------------------------------------------------------------------------
(* Where an operation is follows from its kind. *)
LEMMA PlacedStep ==
  ASSUME TypeInv, Placed, NEW x \in Ops, Step(x) PROVE Placed'
<1> SUFFICES ASSUME NEW o \in Ops PROVE PlacedOK(o)' BY DEF Placed
<1>0. TypeOK /\ PlacedOK(o) /\ Kind(o) \in Kinds /\ UNCHANGED plan
  BY Inputs, TypeIsControl, PlanStays DEF TypeInv, Placed
<1>1. CASE o # x
  <2>1. at'[o] = at[o] /\ Kind(o)' = Kind(o) BY <1>0, <1>1, Stays DEF Kind
  <2> QED BY <1>0, <2>1 DEF PlacedOK
<1>2. CASE o = x
  <2>0. Kind(x)' = Kind(x) /\ PlacedOK(x) /\ Kind(x) \in Kinds BY <1>0, <1>2 DEF Kind
  <2> HIDE DEF Kind
  <2>1. CASE Submit(x)
    BY <1>2, <2>0, <2>1 DEF Submit, Go, PlacedOK, Wholes, Albums, TypeOK, TypeInv, Uploads,
      Fetches, Kinds
  <2>2. CASE Starts(x)
    BY <1>2, <2>0, <2>2 DEF Starts, Go, PlacedOK, Wholes, Albums, TypeOK, TypeInv, Uploads,
      Fetches, Kinds, First
  <2>3. CASE Fails(x)
    BY <1>2, <2>0, <2>3 DEF Fails, Go, Retried, PlacedOK, Wholes, Albums, TypeOK, TypeInv,
      Uploads, Fetches, Kinds
  <2>4. CASE Pauses(x)
    BY <1>2, <2>0, <2>4 DEF Pauses, Go, PlacedOK, Wholes, Albums, TypeOK, TypeInv, Uploads,
      Fetches, Kinds
  <2>5. CASE Resumes(x)
    BY <1>2, <2>0, <2>5 DEF Resumes, Go, PlacedOK, Wholes, Albums, TypeOK, TypeInv, Uploads,
      Fetches, Kinds
  <2>6. CASE TakesPart(x)
    BY <1>2, <2>0, <2>6 DEF TakesPart, Go, PlacedOK, Wholes, Albums, TypeOK, TypeInv, Uploads,
      Fetches, Kinds
  <2>7. CASE Says(x)
    BY <1>2, <2>0, <2>7 DEF Says, Go, Retried, PlacedOK, Wholes, Albums, TypeOK, TypeInv, Uploads,
      Fetches, Kinds
  <2>8. CASE Sets(x)
    BY <1>2, <2>0, <2>8 DEF Sets, Go, GivesUp, PlacedOK, Wholes, Albums, TypeOK, TypeInv, Uploads,
      Fetches, Kinds
  <2>9. CASE Keeps(x)
    BY <1>2, <2>0, <2>9 DEF Keeps, Go, PlacedOK, Wholes, Albums, TypeOK, TypeInv, Uploads,
      Fetches, Kinds
  <2>10. CASE IndexesText(x)
    BY <1>2, <2>0, <2>10 DEF IndexesText, Go, PlacedOK, Wholes, Albums, TypeOK, TypeInv, Uploads,
      Fetches, Kinds
  <2>11. CASE Unsets(x)
    BY <1>2, <2>0, <2>11 DEF Unsets, PlacedOK, Wholes, Albums, TypeOK, TypeInv, Uploads, Fetches,
      Kinds
  <2>12. CASE ForgetsText(x)
    BY <1>2, <2>0, <2>12 DEF ForgetsText, Go, PlacedOK, Wholes, Albums, TypeOK, TypeInv, Uploads,
      Fetches, Kinds
  <2>13. CASE Hears(x)
    BY <1>2, <2>0, <2>13 DEF Hears, Go, PlacedOK, Wholes, Albums, TypeOK, TypeInv, Uploads,
      Fetches, Kinds
  <2>14. CASE Reconciles(x)
    BY <1>2, <2>0, <2>14 DEF Reconciles, Go, PlacedOK, Wholes, Albums, TypeOK, TypeInv, Uploads,
      Fetches, Kinds
  <2>15. CASE Ends(x)
    BY <1>2, <2>0, <2>15 DEF Ends, Go, PlacedOK, Wholes, Albums, TypeOK, TypeInv, Uploads,
      Fetches, Kinds
  <2>16. CASE Completes(x)
    BY <1>2, <2>0, <2>16 DEF Completes, Go, PlacedOK, Wholes, Albums, TypeOK, TypeInv, Uploads,
      Fetches, Kinds
  <2>17. CASE FindsSource(x)
    BY <1>2, <2>0, <2>17 DEF FindsSource, Go, GivesUp, PlacedOK, Wholes, Albums, TypeOK, TypeInv,
      Uploads, Fetches, Kinds
  <2>18. CASE Refuses(x)
    BY <1>2, <2>0, <2>18 DEF Refuses, Go, GivesUp, PlacedOK, Wholes, Albums, TypeOK, TypeInv,
      Uploads, Fetches, Kinds
  <2>19. CASE TakesName(x)
    BY <1>2, <2>0, <2>19 DEF TakesName, Go, GivesUp, PlacedOK, Wholes, Albums, TypeOK, TypeInv,
      Uploads, Fetches, Kinds
  <2>20. CASE Probes(x)
    BY <1>2, <2>0, <2>20 DEF Probes, Go, PlacedOK, Wholes, Albums, TypeOK, TypeInv, Uploads,
      Fetches, Kinds, After
  <2>21. CASE Puts(x)
    BY <1>2, <2>0, <2>21 DEF Puts, Go, Retried, PlacedOK, Wholes, Albums, TypeOK, TypeInv,
      Uploads, Fetches, Kinds, After
  <2>22. CASE SyncsGroup(x)
    BY <1>2, <2>0, <2>22 DEF SyncsGroup, Go, PlacedOK, Wholes, Albums, TypeOK, TypeInv, Uploads,
      Fetches, Kinds
  <2>23. CASE Splits(x)
    BY <1>2, <2>0, <2>23 DEF Splits, Go, PlacedOK, Wholes, Albums, TypeOK, TypeInv, Uploads,
      Fetches, Kinds
  <2>24. CASE SendsSegment(x)
    BY <1>2, <2>0, <2>24 DEF SendsSegment, Go, Retried, PlacedOK, Wholes, Albums, TypeOK, TypeInv,
      Uploads, Fetches, Kinds
  <2>25. CASE RecordsSegment(x)
    BY <1>2, <2>0, <2>25 DEF RecordsSegment, Go, PlacedOK, Wholes, Albums, TypeOK, TypeInv,
      Uploads, Fetches, Kinds
  <2>26. CASE Downloads(x)
    BY <1>2, <2>0, <2>26 DEF Downloads, Go, PlacedOK, Wholes, Albums, TypeOK, TypeInv, Uploads,
      Fetches, Kinds
  <2>27. CASE Hands(x)
    BY <1>2, <2>0, <2>27 DEF Hands, Go, PlacedOK, Wholes, Albums, TypeOK, TypeInv, Uploads,
      Fetches, Kinds
  <2> QED BY <2>1, <2>2, <2>3, <2>4, <2>5, <2>6, <2>7, <2>8, <2>9, <2>10, <2>11, <2>12, <2>13, <2>14, <2>15, <2>16, <2>17, <2>18, <2>19, <2>20, <2>21, <2>22, <2>23, <2>24, <2>25, <2>26, <2>27 DEF Step
<1> QED BY <1>1, <1>2

(* Messages. *)
LEMMA MessagesFacts ==
  ASSUME TypeOK, NEW o \in Ops, NEW s \in Seqs
  PROVE  /\ Messages(o, s) \subseteq 1..Len(essence) /\ IsFiniteSet(Messages(o, s))
         /\ 0 \notin Messages(o, s) /\ Len(essence) + 1 \notin Messages(o, s)
<1>1. Len(essence) \in Nat /\ DOMAIN essence = 1..Len(essence) BY EssenceIs
<1>2. Messages(o, s) \subseteq 1..Len(essence) BY <1>1 DEF Messages
<1>3. IsFiniteSet(1..Len(essence)) BY <1>1, FS_Interval
<1> QED BY <1>1, <1>2, <1>3, FS_Subset

LEMMA MessagesSaid ==
  ASSUME TypeOK, NEW x \in Ops, NEW n \in Seqs, essence' = Append(essence, Message(x, n)),
         NEW o \in Ops, NEW s \in Seqs
  PROVE  /\ Messages(o, s)' = IF o = x /\ s = n THEN Messages(o, s) \cup {Len(essence) + 1} ELSE Messages(o, s)
         /\ Len(essence') = Len(essence) + 1
<1>1. essence \in Seq(Posts) /\ Len(essence) \in Nat BY EssenceIs
<1> DEFINE m == Message(x, n)
<1>2. m.op = x /\ m.part = n BY DEF Message
<1> HIDE DEF m
<1>3. /\ DOMAIN essence' = 1..(Len(essence) + 1) /\ DOMAIN essence = 1..Len(essence)
      /\ Len(essence') = Len(essence) + 1
      /\ \A i \in 1..Len(essence) : essence'[i] = essence[i]
      /\ essence'[Len(essence) + 1] = m
  BY <1>1 DEF m
<1>4. \A i : i \in 1..(Len(essence) + 1) <=> i \in 1..Len(essence) \/ i = Len(essence) + 1 BY <1>1
<1> QED BY <1>2, <1>3, <1>4 DEF Messages

LEMMA MessagesSet ==
  ASSUME TypeOK, NEW x \in Ops, Sets(x) \/ Unsets(x) \/ essence' = essence,
         NEW o \in Ops, NEW s \in Seqs
  PROVE  Messages(o, s)' = Messages(o, s)
BY Setting DEF Messages

(* Only o says o's parts. *)
LEMMA MessagesStay ==
  ASSUME TypeInv, NEW x \in Ops, Step(x), NEW o \in Ops, NEW s \in Seqs,
         o # x \/ ~(Says(x) \/ Hands(x))
  PROVE  Messages(o, s)' = Messages(o, s)
<1>0. TypeOK BY DEF TypeInv
<1>1. CASE Says(x)
  <2>1. part[x].seq \in Seqs /\ essence' = Append(essence, Message(x, part[x].seq))
    BY <1>1 DEF Says, TypeInv, InHand
  <2> QED BY <1>0, <1>1, <2>1, MessagesSaid
<1>2. CASE Hands(x)
  <2>1. essence \in Seq(Posts) /\ Len(essence) \in Nat BY <1>0, EssenceIs
  <2> DEFINE a == Message(x, 1)
             b == Message(x, 2)
  <2>2. essence' = essence \/ essence' = essence \o <<a, b>> BY <1>2 DEF Hands
  <2>3. a.op = x /\ b.op = x BY DEF Message
  <2> HIDE DEF a, b
  <2>4. CASE essence' = essence BY <2>4 DEF Messages
  <2>5. CASE essence' = essence \o <<a, b>>
    <3>1. /\ DOMAIN essence' = 1..(Len(essence) + 2) /\ DOMAIN essence = 1..Len(essence)
          /\ \A i \in 1..Len(essence) : essence'[i] = essence[i]
          /\ essence'[Len(essence) + 1] = a /\ essence'[Len(essence) + 2] = b
      BY <2>1, <2>5
    <3>2. \A i : i \in 1..(Len(essence) + 2) <=> i \in 1..Len(essence) \/ i = Len(essence) + 1 \/ i = Len(essence) + 2
      BY <2>1
    <3> QED BY <1>2, <2>3, <3>1, <3>2 DEF Messages
  <2> QED BY <2>2, <2>4, <2>5
<1>3. CASE ~(Says(x) \/ Hands(x))
  <2>1. Sets(x) \/ Unsets(x) \/ essence' = essence BY <1>3, EssenceRests
  <2> QED BY <1>0, <2>1, MessagesSet
<1> QED BY <1>1, <1>2, <1>3

LEMMA CardOne ==
  ASSUME NEW S, IsFiniteSet(S), NEW a
  PROVE  /\ Cardinality(S \cup {a}) \in Nat /\ Cardinality(S) \in Nat
         /\ Cardinality(S) <= Cardinality(S \ {a}) + 1
         /\ Cardinality(S \cup {a}) <= Cardinality(S) + 1
<1>1. Cardinality(S) \in Nat BY FS_CardinalityType
<1>2. CASE a \in S
  <2>1. S \cup {a} = S BY <1>2
  <2>2. Cardinality(S \ {a}) = Cardinality(S) - 1 BY <1>2, FS_RemoveElement
  <2>3. Cardinality(S \cup {a}) = Cardinality(S) BY <2>1, Zenon
  <2> DEFINE u == Cardinality(S \cup {a})
             v == Cardinality(S \ {a})
  <2>4. u = Cardinality(S) /\ v = Cardinality(S) - 1 BY <2>2, <2>3
  <2> HIDE DEF u, v
  <2>5. u \in Nat /\ Cardinality(S) <= v + 1 /\ u <= Cardinality(S) + 1 BY <1>1, <2>4
  <2> QED BY <1>1, <2>5 DEF u, v
<1>3. CASE a \notin S
  <2>1. S \ {a} = S BY <1>3
  <2>2. Cardinality(S \cup {a}) = Cardinality(S) + 1 BY <1>3, FS_AddElement
  <2> QED BY <1>1, <2>1, <2>2
<1> QED BY <1>2, <1>3

(* A step of a text that sends and learns nothing. *)
LEMMA TextRests ==
  ASSUME NEW o \in Ops, TextOK(o), \A s \in Seqs : Messages(o, s)' = Messages(o, s),
         payload'[o] = payload[o], \A s \in Seqs : doubt'[<<o, s>>] = doubt[<<o, s>>],
         at[o] # "set", at'[o] \notin {"say", "set", "keep", "index"},
         ledger'[o] = payload[o] \/ (ledger'[o] = ledger[o] /\ at[o] # "keep")
  PROVE  TextOK(o)'
BY DEF TextOK, PartOK, Hand

(* A text that loses the answer about the part in hand counts it as in doubt. *)
LEMMA TextDoubts ==
  ASSUME NEW o \in Ops, TextOK(o), NEW n \in Seqs, at[o] = "set", part[o].seq = n,
         IsFiniteSet(Messages(o, n)), 0 \notin Messages(o, n), doubt[<<o, n>>] \in Nat,
         \A s \in Seqs : Messages(o, s)' = Messages(o, s),
         payload' = payload, ledger'[o] = payload[o], at'[o] \in {"failed", "queued"},
         \A s \in Seqs : doubt'[<<o, s>>] = IF s = n THEN doubt[<<o, s>>] + 1 ELSE doubt[<<o, s>>]
  PROVE  TextOK(o)'
<1> DEFINE i == part[o].id
           M == Messages(o, n)
<1> SUFFICES ASSUME NEW s \in Seqs PROVE PartOK(o, s)' BY DEF TextOK
<1>0. PartOK(o, s) /\ Hand(o, s)' = payload[o].sent[s] BY DEF TextOK, Hand
<1>1. CASE s # n BY <1>0, <1>1 DEF PartOK, Hand
<1>2. CASE s = n
  <2>1. payload[o].sent[n] = 0 BY <1>0, <1>2 DEF PartOK
  <2>2. Cardinality(M \ {i}) <= doubt[<<o, n>>] BY <1>0, <1>2 DEF PartOK, Hand
  <2>3. IsFiniteSet(M) /\ IsFiniteSet(M \ {i}) BY FS_Subset
  <2>4. Cardinality(M \ {i}) \in Nat BY <2>3, FS_CardinalityType
  <2> HIDE DEF i, M
  <2>5. Cardinality(M) \in Nat /\ Cardinality(M) <= Cardinality(M \ {i}) + 1 BY ONLY <2>3, CardOne
  <2>6. Cardinality(M) <= doubt[<<o, n>>] + 1 BY <2>2, <2>4, <2>5
  <2>7. M \ {0} = M BY DEF M
  <2>8. Cardinality(Messages(o, s)' \ {Hand(o, s)'}) <= doubt'[<<o, s>>]
    BY <1>0, <1>2, <2>1, <2>6, <2>7 DEF M
  <2> QED BY <1>2, <2>1, <2>8 DEF PartOK
<1> QED BY <1>1, <1>2

LEMMA TextStep ==
  ASSUME TypeInv, Placed, NEW x \in Ops, Kind(x) = "text", TextOK(x), Step(x)
  PROVE  TextOK(x)'
<1> TypeOK /\ PlacedOK(x) BY DEF TypeInv, Placed
<1>m. \A s \in Seqs : /\ Messages(x, s) \subseteq 1..Len(essence) /\ IsFiniteSet(Messages(x, s))
                      /\ 0 \notin Messages(x, s) /\ Len(essence) + 1 \notin Messages(x, s)
  BY MessagesFacts
<1> USE DEF TypeOK
<1> DEFINE d(s) == doubt[<<x, s>>]
           M(s) == Messages(x, s)
<1>0. /\ \A s \in Seqs : M(s) \subseteq 1..Len(essence) /\ IsFiniteSet(M(s)) /\ 0 \notin M(s)
      /\ \A s \in Seqs : d(s) \in Nat
      /\ payload[x] = [sent |-> payload[x].sent, renamed |-> payload[x].renamed, parent |-> payload[x].parent]
      /\ payload[x].sent \in [Seqs -> Nat]
  <2>1. payload[x].sent \in [Seqs -> Messaged]
        /\ payload[x] = [sent |-> payload[x].sent, renamed |-> payload[x].renamed, parent |-> payload[x].parent]
    BY DEF Payloads
  <2>2. \A s \in Seqs : M(s) \subseteq 1..Len(essence) /\ IsFiniteSet(M(s)) /\ 0 \notin M(s)
    BY ONLY <1>m DEF M
  <2>3. payload[x].sent \in [Seqs -> Nat] BY ONLY <2>1 DEF Messaged
  <2>4. \A s \in Seqs : d(s) \in Nat OBVIOUS
  <2> HIDE DEF d, M, TypeOK
  <2> QED BY ONLY <2>1, <2>2, <2>3, <2>4
<1>00. \A s \in Seqs : PartOK(x, s) BY DEF TextOK
<1> HIDE DEF d, M
<1>1. CASE Submit(x)
  <2>1. \A s \in Seqs : Messages(x, s)' = Messages(x, s)
    BY <1>1, MessagesSet DEF Submit, cloud
  <2>2. /\ payload'[x] = payload[x] /\ at[x] # "set" /\ at'[x] \notin {"say", "set", "keep", "index"}
        /\ ledger'[x] = payload[x] \/ (ledger'[x] = ledger[x] /\ at[x] # "keep")
        /\ UNCHANGED doubt
    <3>1. payload'[x] = [payload[x] EXCEPT !.sent = payload[x].sent] BY <1>1 DEF Submit, Payloads
    <3>2. payload'[x] = payload[x] BY <1>0, <3>1
    <3> QED BY <1>1, <3>2 DEF Submit, Go, Writes, Payloads
  <2> QED BY <2>1, <2>2, TextRests
<1>2. CASE Starts(x)
  <2>1. \A s \in Seqs : Messages(x, s)' = Messages(x, s)
    BY <1>2, MessagesSet DEF Starts, cloud
  <2>2. /\ payload'[x] = payload[x] /\ at[x] # "set" /\ at'[x] \notin {"say", "set", "keep", "index"}
        /\ ledger'[x] = payload[x] \/ (ledger'[x] = ledger[x] /\ at[x] # "keep")
        /\ UNCHANGED doubt
    BY <1>2 DEF Starts, Go, Writes, First, Payloads
  <2> QED BY <2>1, <2>2, TextRests
<1>3. CASE Pauses(x)
  <2>1. \A s \in Seqs : Messages(x, s)' = Messages(x, s)
    BY <1>3, MessagesSet DEF Pauses, cloud
  <2>2. /\ payload'[x] = payload[x] /\ at[x] # "set" /\ at'[x] \notin {"say", "set", "keep", "index"}
        /\ ledger'[x] = payload[x] \/ (ledger'[x] = ledger[x] /\ at[x] # "keep")
        /\ UNCHANGED doubt
    BY <1>3 DEF Pauses, Go, Writes, Payloads
  <2> QED BY <2>1, <2>2, TextRests
<1>4. CASE Resumes(x)
  <2>1. \A s \in Seqs : Messages(x, s)' = Messages(x, s)
    BY <1>4, MessagesSet DEF Resumes, cloud
  <2>2. /\ payload'[x] = payload[x] /\ at[x] # "set" /\ at'[x] \notin {"say", "set", "keep", "index"}
        /\ ledger'[x] = payload[x] \/ (ledger'[x] = ledger[x] /\ at[x] # "keep")
        /\ UNCHANGED doubt
    BY <1>4 DEF Resumes, Go, Payloads
  <2> QED BY <2>1, <2>2, TextRests
<1>5. CASE Keeps(x)
  <2>1. \A s \in Seqs : Messages(x, s)' = Messages(x, s)
    BY <1>5, MessagesSet DEF Keeps, cloud
  <2>2. /\ payload'[x] = payload[x] /\ at[x] # "set" /\ at'[x] \notin {"say", "set", "keep", "index"}
        /\ ledger'[x] = payload[x] \/ (ledger'[x] = ledger[x] /\ at[x] # "keep")
        /\ UNCHANGED doubt
    BY <1>5 DEF Keeps, Go, Writes, Payloads
  <2> QED BY <2>1, <2>2, TextRests
<1>6. CASE IndexesText(x)
  <2>1. \A s \in Seqs : Messages(x, s)' = Messages(x, s)
    BY <1>6, MessagesSet DEF IndexesText, cloud
  <2>2. /\ payload'[x] = payload[x] /\ at[x] # "set" /\ at'[x] \notin {"say", "set", "keep", "index"}
        /\ ledger'[x] = payload[x] \/ (ledger'[x] = ledger[x] /\ at[x] # "keep")
        /\ UNCHANGED doubt
    BY <1>6 DEF IndexesText, Go, Writes, Payloads
  <2> QED BY <2>1, <2>2, TextRests
<1>7. CASE TakesPart(x)
  <2>1. \A s \in Seqs : Messages(x, s)' = Messages(x, s)
    BY <1>7, MessagesSet DEF TakesPart, cloud
  <2>2. /\ UNCHANGED <<payload, ledger, doubt>> /\ at[x] = "part"
    BY <1>7 DEF TakesPart
  <2>3. CASE Known(x) = Seqs /\ at'[x] = "index"
    <3>1. \A s \in Seqs : payload[x].sent[s] # 0 BY <2>3 DEF Known
    <3> QED BY <1>00, <2>1, <2>2, <2>3, <3>1 DEF TextOK, PartOK, Hand
  <2>4. CASE Known(x) # Seqs /\ at'[x] = "say" /\ part'[x] = [seq |-> NextPart(x), id |-> 0]
    <3>1. NextPart(x) \in Seqs /\ payload[x].sent[NextPart(x)] = 0 BY <2>4, NextPartIs DEF Known
    <3>2. part'[x].seq = NextPart(x) BY <2>4
    <3> QED BY <1>00, <2>1, <2>2, <2>4, <3>1, <3>2 DEF TextOK, PartOK, Hand
  <2> QED BY <1>7, <2>3, <2>4 DEF TakesPart, Go
<1>8. CASE Says(x)
  <2> DEFINE n == part[x].seq
             k == Len(essence) + 1
  <2>1. n \in Seqs /\ at[x] = "say" /\ essence' = Append(essence, Message(x, n))
    BY <1>8 DEF Says, TypeInv, InHand
  <2>2. /\ \A s \in Seqs : Messages(x, s)' = IF s = n THEN M(s) \cup {k} ELSE M(s)
        /\ k = Len(essence')
    <3> HIDE DEF TypeOK
    <3> QED BY <2>1, MessagesSaid DEF M
  <2>3. k \notin M(n)
    <3>1. Len(essence) + 1 \notin Messages(x, n) BY ONLY <2>1, <1>m
    <3> QED BY ONLY <3>1 DEF M, k
  <2>4. k \in Nat /\ k # 0 BY EssenceIs
  <2>5. payload[x].sent[n] = 0 BY <1>00, <2>1 DEF PartOK
  <2>6. M(n) \ {0} = M(n) BY <1>0, <2>1
  <2>7. Hand(x, n) = 0 BY <2>1, <2>5 DEF Hand
  <2>8. Cardinality(M(n)) <= d(n)
    <3>1. Cardinality(Messages(x, n) \ {Hand(x, n)}) <= doubt[<<x, n>>] BY <1>00, <2>1 DEF PartOK
    <3> QED BY <2>6, <2>7, <3>1 DEF M, d
  <2> HIDE DEF n, k
  <2>9. CASE /\ at'[x] = "set" /\ part'[x].seq = n /\ part'[x].id = k
             /\ UNCHANGED <<payload, ledger, doubt>>
    <3> SUFFICES ASSUME NEW s \in Seqs PROVE PartOK(x, s)' BY DEF TextOK
    <3>0. PartOK(x, s) BY <1>00
    <3>1. CASE s # n
      <4>1. Hand(x, s)' = payload[x].sent[s] /\ Hand(x, s) = payload[x].sent[s]
        BY <2>1, <2>9, <3>1 DEF Hand
      <4>2. Messages(x, s)' = Messages(x, s) BY <2>2, <3>1 DEF M
      <4> QED BY <2>1, <2>9, <3>0, <3>1, <4>1, <4>2 DEF PartOK
    <3>2. CASE s = n
      <4>1. Messages(x, s)' = M(n) \cup {k} /\ Hand(x, s)' = k BY <2>1, <2>2, <2>9, <3>2 DEF Hand
      <4>2. (M(n) \cup {k}) \ {k} = M(n) BY <2>3
      <4>3. Cardinality(Messages(x, s)' \ {Hand(x, s)'}) <= doubt'[<<x, s>>]
        BY <2>8, <2>9, <3>2, <4>1, <4>2 DEF d
      <4> QED BY <2>1, <2>5, <2>9, <3>0, <3>2, <4>1, <4>3 DEF PartOK
    <3> QED BY <3>1, <3>2
  <2>10. CASE /\ at'[x] = "queued" /\ payload' = payload /\ ledger'[x] = payload[x]
              /\ \A s \in Seqs : doubt'[<<x, s>>] = IF s = n THEN d(s) + 1 ELSE d(s)
    <3> SUFFICES ASSUME NEW s \in Seqs PROVE PartOK(x, s)' BY DEF TextOK
    <3>0. PartOK(x, s) /\ Hand(x, s)' = payload[x].sent[s] BY <1>00, <2>10 DEF Hand
    <3>1. CASE s # n
      <4>1. Hand(x, s) = payload[x].sent[s] BY <2>1 DEF Hand
      <4>2. Messages(x, s)' = Messages(x, s) /\ doubt'[<<x, s>>] = doubt[<<x, s>>]
        BY <2>2, <2>10, <3>1 DEF M, d
      <4> QED BY <2>10, <3>0, <4>1, <4>2 DEF PartOK
    <3>2. CASE s = n
      <4>1. Messages(x, s)' = M(n) \cup {k} BY <2>1, <2>2, <3>2
      <4>2. (M(n) \cup {k}) \ {0} = M(n) \cup {k} BY <2>4, <2>6
      <4>3. Cardinality(M(n) \cup {k}) <= d(n) + 1
        <5>1. IsFiniteSet(M(n)) /\ d(n) \in Nat BY <1>0, <2>1
        <5>2. /\ Cardinality(M(n)) \in Nat /\ Cardinality(M(n) \cup {k}) \in Nat
              /\ Cardinality(M(n) \cup {k}) <= Cardinality(M(n)) + 1
          BY ONLY <5>1, CardOne
        <5> QED BY <2>8, <5>1, <5>2
      <4>4. Cardinality(Messages(x, s)' \ {Hand(x, s)'}) <= doubt'[<<x, s>>]
        BY <2>1, <2>5, <2>10, <3>0, <3>2, <4>1, <4>2, <4>3
      <4> QED BY <2>5, <2>10, <3>0, <3>2, <4>4 DEF PartOK
    <3> QED BY <3>1, <3>2
  <2>11. CASE /\ Go(x, "set") /\ part' = [part EXCEPT ![x].id = Len(essence')]
              /\ UNCHANGED <<replayed, payload, ledger, disk, doubt, trouble>>
    <3>1. at'[x] = "set" BY <2>11 DEF Go
    <3>2. part'[x].seq = n /\ part'[x].id = k BY <2>2, <2>11 DEF n
    <3> QED BY <2>9, <2>11, <3>1, <3>2
  <2>12. CASE Retried(x) /\ Doubted(x, part[x].seq)
    <3>1. at'[x] = "queued" /\ payload' = payload /\ ledger'[x] = payload[x]
      BY <2>12 DEF Retried, Go, Writes, Payloads
    <3>2. \A s \in Seqs : doubt'[<<x, s>>] = IF s = n THEN d(s) + 1 ELSE d(s)
      BY <2>12, <2>1 DEF Doubted, d, n
    <3> QED BY <2>10, <3>1, <3>2
  <2> QED BY <1>8, <2>11, <2>12 DEF Says
<1>9. CASE Sets(x)
  <2> DEFINE n == part[x].seq
             i == part[x].id
  <2>1. n \in Seqs /\ at[x] = "set" BY <1>9 DEF Sets, TypeInv, InHand
  <2>2. \A s \in Seqs : Messages(x, s)' = Messages(x, s) BY <1>9, MessagesSet
  <2>3. CASE /\ payload' = [payload EXCEPT ![x].sent[part[x].seq] = part[x].id] /\ Go(x, "keep")
             /\ UNCHANGED <<ledger, doubt, part>>
    <3>1. at'[x] = "keep" BY <2>3 DEF Go
    <3>2. \A s \in Seqs : payload'[x].sent[s] = IF s = n THEN i ELSE payload[x].sent[s]
      BY <2>1, <2>3 DEF Payloads
    <3> SUFFICES ASSUME NEW s \in Seqs PROVE PartOK(x, s)' BY DEF TextOK
    <3>3. PartOK(x, s) BY <1>00
    <3>4. Hand(x, s)' = payload'[x].sent[s] BY <3>1 DEF Hand
    <3>5. Hand(x, s) = payload'[x].sent[s] BY <2>1, <3>2 DEF Hand
    <3>6. part'[x].seq = n BY <2>3
    <3> HIDE DEF n, i
    <3>7. CASE s # n BY <2>1, <2>2, <2>3, <3>1, <3>2, <3>3, <3>4, <3>5, <3>6, <3>7 DEF PartOK
    <3>8. CASE s = n
      <4>1. payload[x].sent[s] = 0 /\ i \in Messages(x, s) /\ ledger[x].sent[s] = 0
        BY <2>1, <3>3, <3>8 DEF PartOK, n, i
      <4>2. payload'[x].sent[s] = i /\ Messages(x, s)' = Messages(x, s) BY <2>2, <3>2, <3>8
      <4>3. Cardinality(Messages(x, s)' \ {Hand(x, s)'}) <= doubt'[<<x, s>>]
        BY <2>3, <3>3, <3>4, <3>5, <4>2 DEF PartOK
      <4> QED BY <2>3, <3>1, <3>6, <3>8, <4>1, <4>2, <4>3 DEF PartOK
    <3> QED BY <3>7, <3>8
  <2>4. CASE GivesUp(x) /\ Doubted(x, part[x].seq)
    <3>1. at'[x] = "failed" /\ payload' = payload /\ ledger'[x] = payload[x]
      BY <2>4 DEF GivesUp, Go, Writes, Payloads
    <3>2. \A s \in Seqs : doubt'[<<x, s>>] = IF s = n THEN doubt[<<x, s>>] + 1 ELSE doubt[<<x, s>>]
      BY <2>4, <2>1 DEF Doubted
    <3>3. IsFiniteSet(Messages(x, n)) /\ 0 \notin Messages(x, n) /\ doubt[<<x, n>>] \in Nat
      BY <1>0, <2>1 DEF M, d
    <3> QED BY <2>1, <2>2, <3>1, <3>2, <3>3, TextDoubts
  <2> QED BY <1>9, <2>3, <2>4 DEF Sets
<1>10. CASE Fails(x)
  <2>1. \A s \in Seqs : Messages(x, s)' = Messages(x, s) BY <1>10, MessagesSet DEF Fails, cloud
  <2>2. at'[x] = "queued" /\ payload' = payload /\ ledger'[x] = payload[x]
    BY <1>10 DEF Fails, Retried, Go, Writes, Payloads
  <2>3. CASE at[x] = "set"
    <3>1. part[x].seq \in Seqs /\ Doubted(x, part[x].seq) BY <1>10, <2>3 DEF Fails, TypeInv, InHand
    <3>2. \A s \in Seqs : doubt'[<<x, s>>] = IF s = part[x].seq THEN doubt[<<x, s>>] + 1 ELSE doubt[<<x, s>>]
      BY <3>1 DEF Doubted
    <3>3. /\ IsFiniteSet(Messages(x, part[x].seq)) /\ 0 \notin Messages(x, part[x].seq)
          /\ doubt[<<x, part[x].seq>>] \in Nat
      BY <1>0, <3>1 DEF M, d
    <3> QED BY <2>1, <2>2, <2>3, <3>1, <3>2, <3>3, TextDoubts
  <2>4. CASE at[x] = "say"
    <3>1. UNCHANGED doubt BY <1>10, <2>4 DEF Fails
    <3> QED BY <2>1, <2>2, <2>4, <3>1, TextRests
  <2>5. at[x] \in {"set", "say"} BY <1>10 DEF Fails, PlacedOK, Albums, Wholes, Fetches
  <2> QED BY <2>3, <2>4, <2>5
<1> QED
  BY <1>1, <1>2, <1>3, <1>4, <1>5, <1>6, <1>7, <1>8, <1>9, <1>10
  DEF Step, PlacedOK, Unsets, ForgetsText, Hears, Reconciles, Ends, Completes, FindsSource, Refuses,
    TakesName, Probes, Puts, SyncsGroup, Splits, SendsSegment, RecordsSegment, Downloads, Hands,
    Albums, Wholes, Fetches

(* After a crash a text goes on from its ledger; the part that was being set or
   kept is in doubt, and no other. *)
LEMMA TextCrash ==
  ASSUME TypeInv, Placed, Crash, NEW o \in Ops, Kind(o) = "text", TextOK(o) PROVE TextOK(o)'
<1> SUFFICES ASSUME NEW s \in Seqs PROVE PartOK(o, s)' BY DEF TextOK
<1> DEFINE M == Messages(o, s)
           d == doubt[<<o, s>>]
           risky == at[o] \in {"set", "keep"} /\ part[o].seq = s
           p == payload[o].sent[s]
           l == ledger[o].sent[s]
<1>0. TypeOK /\ PartOK(o, s) BY DEF TypeInv, TextOK
<1>1. M \subseteq 1..Len(essence) /\ IsFiniteSet(M) /\ 0 \notin M /\ d \in Nat
  <2>1. doubt \in [Ops \X (Seqs \cup {Whole}) -> Nat] BY <1>0 DEF TypeOK
  <2>2. <<o, s>> \in Ops \X (Seqs \cup {Whole}) OBVIOUS
  <2> QED BY <1>0, <2>1, <2>2, MessagesFacts
<1>2. /\ payload' = ledger /\ ledger' = ledger /\ essence' = essence
      /\ at'[o] \notin {"say", "set", "keep", "index"}
  BY <1>0 DEF Crash, Live, cloud, TypeOK
<1>3. doubt'[<<o, s>>] = d + (IF risky THEN 1 ELSE 0)
  <2>1. <<o, s>> \in DOMAIN doubt BY <1>0 DEF TypeOK
  <2>2. at[o] # "row" BY DEF Placed, PlacedOK
  <2>3. doubt' = [x \in DOMAIN doubt |->
          doubt[x] + IF \/ at[x[1]] \in {"set", "keep"} /\ part[x[1]].seq = x[2]
                        \/ at[x[1]] = "row" /\ part[x[1]].seq = x[2]
                        \/ Live(x[1]) /\ Kind(x[1]) \notin {"text", "video"} /\ Sent(x[1], x[2])
                     THEN 1 ELSE 0]
    BY DEF Crash
  <2> QED BY <2>1, <2>2, <2>3
<1>4. Messages(o, s)' = M /\ Hand(o, s)' = l BY <1>2 DEF Messages, Hand
<1>5. Cardinality(M \ {l}) <= doubt'[<<o, s>>]
  <2>1. IsFiniteSet(M \ {Hand(o, s)}) /\ Cardinality(M \ {Hand(o, s)}) \in Nat
    BY <1>1, FS_Subset, FS_CardinalityType
  <2>2. Cardinality(M \ {Hand(o, s)}) <= d BY <1>0 DEF PartOK
  <2>3. CASE l = Hand(o, s) BY <1>1, <1>3, <2>1, <2>2, <2>3
  <2>4. CASE l # Hand(o, s)
    <3>1. risky /\ l = 0 BY <1>0, <2>4 DEF PartOK, Hand
    <3>2. M \ {l} = M BY <1>1, <3>1
    <3> DEFINE h == Hand(o, s)
    <3> HIDE DEF M, h
    <3>3. Cardinality(M) \in Nat /\ Cardinality(M) <= Cardinality(M \ {h}) + 1
      BY ONLY <1>1, CardOne
    <3>4. Cardinality(M \ {h}) <= d /\ Cardinality(M \ {h}) \in Nat BY <2>1, <2>2 DEF h
    <3>5. doubt'[<<o, s>>] = d + 1 BY <1>3, <3>1
    <3> HIDE DEF d, l
    <3>6. Cardinality(M) <= d + 1 BY <1>1, <3>3, <3>4
    <3> QED BY <3>2, <3>5, <3>6
  <2> QED BY <2>3, <2>4
<1>6. l \in {0} \cup M BY <1>0 DEF PartOK
<1> QED BY <1>2, <1>4, <1>5, <1>6 DEF PartOK

LEMMA TextsStep == ASSUME TypeInv, Placed, TextsOK, Next PROVE TextsOK'
<1> SUFFICES ASSUME NEW o \in Ops, Kind(o)' = "text" PROVE TextOK(o)' BY DEF TextsOK
<1>1. UNCHANGED plan
  <2>1. CASE Crash BY <2>1 DEF Crash
  <2>2. ASSUME NEW x \in Ops, Step(x) PROVE UNCHANGED plan BY <2>2, PlanStays
  <2> QED BY <2>1, <2>2 DEF Next, Step
<1>2. Kind(o) = "text" /\ TextOK(o) BY <1>1 DEF Kind, TextsOK
<1>3. CASE Crash BY <1>2, <1>3, TextCrash
<1>4. ASSUME NEW x \in Ops, Step(x) PROVE TextOK(o)'
  <2>1. CASE x = o BY <1>2, <1>4, <2>1, TextStep
  <2>2. CASE x # o
    <3>0. TypeOK BY DEF TypeInv
    <3>1. /\ at'[o] = at[o] /\ payload'[o] = payload[o] /\ ledger'[o] = ledger[o] /\ part'[o] = part[o]
          /\ \A s \in Seqs : doubt'[<<o, s>>] = doubt[<<o, s>>]
      BY <1>4, <2>2, <3>0, Stays
    <3>2. \A s \in Seqs : Messages(o, s)' = Messages(o, s) BY <1>4, <2>2, MessagesStay
    <3> QED BY <1>2, <3>1, <3>2 DEF TextOK, PartOK, Hand
  <2> QED BY <2>1, <2>2
<1> QED BY <1>3, <1>4 DEF Next, Step

LEMMA TextsInit == Init => Placed /\ TextsOK
<1> SUFFICES ASSUME Init PROVE Placed /\ TextsOK OBVIOUS
<1>1. Placed BY DEF Init, Placed, PlacedOK
<1>2. \A o \in Ops, s \in Seqs : Messages(o, s) = {} BY DEF Init, Messages
<1>3. \A a : Cardinality({} \ {a}) = 0 BY FS_EmptySet
<1>4. ASSUME NEW o \in Ops, NEW s \in Seqs PROVE PartOK(o, s)
  <2>1. payload[o].sent[s] = 0 /\ ledger[o].sent[s] = 0 /\ at[o] = "idle" /\ doubt[<<o, s>>] = 0
    BY DEF Init
  <2> QED BY <1>2, <1>3, <2>1 DEF PartOK
<1> QED BY <1>1, <1>4 DEF TextsOK, TextOK

IngestInv == TypeInv /\ Placed /\ TextsOK

LEMMA InvStep == IngestInv /\ [Next]_vars => IngestInv'
<1> SUFFICES ASSUME IngestInv, [Next]_vars PROVE IngestInv' OBVIOUS
<1> USE DEF IngestInv
<1>1. CASE Next
  <2>1. Placed'
    <3>1. CASE Crash
      BY <3>1 DEF Crash, Placed, PlacedOK, Kind, Live, TypeInv, TypeOK
    <3>2. ASSUME NEW x \in Ops, Step(x) PROVE Placed' BY <3>2, PlacedStep
    <3> QED BY <1>1, <3>1, <3>2 DEF Next, Step
  <2> QED BY <1>1, <2>1, TypesStep, TextsStep
<1>2. CASE UNCHANGED vars
  <2>1. TypeInv' BY <1>2, TypesStutter
  <2>2. Placed'
    <3>1. UNCHANGED <<plan, at>> BY ONLY <1>2 DEF vars
    <3>2. Placed OBVIOUS
    <3> QED BY ONLY <3>1, <3>2 DEF Placed, PlacedOK, Kind
  <2>3. TextsOK'
    <3>1. UNCHANGED <<plan, at, payload, ledger, part, essence, doubt>> BY ONLY <1>2 DEF vars, cloud
    <3>2. TextsOK OBVIOUS
    <3>3. \A o \in Ops, s \in Seqs : Messages(o, s)' = Messages(o, s) BY ONLY <3>1 DEF Messages
    <3>4. \A o \in Ops : Kind(o)' = Kind(o) BY ONLY <3>1 DEF Kind
    <3>5. ASSUME NEW o \in Ops, NEW s \in Seqs, PartOK(o, s) PROVE PartOK(o, s)'
      BY ONLY <3>1, <3>3, <3>5 DEF PartOK, Hand
    <3> QED BY ONLY <3>2, <3>4, <3>5 DEF TextsOK, TextOK
  <2> QED BY <2>1, <2>2, <2>3
<1> QED BY <1>1, <1>2

(* The inductive invariant: types, what is at which place, and the parts of a
   text.  A crash may come at any place, so the ledger's view is part of it. *)
THEOREM InvAlways == Spec => []IngestInv
<1>1. Init => IngestInv BY TypesInit, TextsInit DEF IngestInv
<1> QED BY <1>1, InvStep, PTL DEF Spec

(* Every message of a text is known to its payload or to the row of its title,
   but for the one in hand and as many as are in doubt. *)
THEOREM DeletableAlways == Spec => []Deletable
<1>1. IngestInv => Deletable
  <2> SUFFICES ASSUME IngestInv, NEW o \in Ops, Kind(o) = "text", NEW s \in Seqs
               PROVE  LET known == {payload[o].sent[s], texts[Name(o)].parts[s]}
                                    \cup (IF at[o] = "set" THEN {part[o].id} ELSE {})
                      IN Cardinality(Messages(o, s) \ known) <= doubt[<<o, s>>]
    BY DEF Deletable
  <2> DEFINE known == {payload[o].sent[s], texts[Name(o)].parts[s]}
                      \cup (IF at[o] = "set" THEN {part[o].id} ELSE {})
             h == Hand(o, s)
             M == Messages(o, s)
  <2>0. TypeOK BY DEF IngestInv, TypeInv
  <2>1. PartOK(o, s) BY DEF IngestInv, TextsOK, TextOK
  <2>2. Cardinality(M \ {h}) <= doubt[<<o, s>>] /\ doubt[<<o, s>>] \in Nat
    BY <2>0, <2>1 DEF PartOK, TypeOK
  <2>3. h \in known BY DEF Hand
  <2>4. IsFiniteSet(M) BY <2>0, MessagesFacts
  <2> HIDE DEF known, h, M
  <2>5. M \ known \subseteq M \ {h} BY <2>3
  <2>6. IsFiniteSet(M \ {h}) BY <2>4, FS_Subset
  <2>7. /\ Cardinality(M \ known) <= Cardinality(M \ {h})
        /\ Cardinality(M \ known) \in Nat /\ Cardinality(M \ {h}) \in Nat
    BY ONLY <2>5, <2>6, FS_Subset, FS_CardinalityType
  <2>8. Cardinality(M \ known) <= doubt[<<o, s>>] BY <2>2, <2>7
  <2> QED BY <2>8 DEF known, M
<1> QED BY <1>1, InvAlways, PTL

-----------------------------------------------------------------------------
-----------------------------------------------------------------------------
(* Media: what must not be shared, and which faults are left out.           *)

(* No two operations of these kinds have one name. *)
Apart(kinds) == \A x, y \in Ops : x # y /\ Kind(x) \in kinds /\ Kind(y) \in kinds => Name(x) # Name(y)
NoCrash(kinds) == "crash" \in plan.faults => \A o \in Ops : Kind(o) \notin kinds

(* What a payload says of a file's name and of a split. *)
Renamed == \A o \in Ops : payload[o].renamed \/ ledger[o].renamed => Kind(o) = "image"
ParentsOK == \A o \in Ops : /\ ledger[o].parent \in {0, Parent(o)}
                            /\ \A x \in Ops \ {o} : Parent(o) = 0 \/ Parent(x) # Parent(o)

(* Segments in order, each with a row and on the cloud. *)
Recorded(o, s) == Parent(o) # 0 /\ s \in parents[Parent(o)]
SegmentsOK(o) ==
  IF Kind(o) # "video" THEN \A s \in Seqs : Copies(o, s) = {}
  ELSE /\ at[o] = "done" => ledger[o].parent = Parent(o)
       /\ at[o] \in {"send", "row", "sync", "end", "ended", "done"} => Parent(o) # 0
       /\ at[o] \in {"send", "row"} => part[o].seq \in 1..3
       /\ at[o] = "row" => part[o].seq \in Seqs
       /\ \A s \in Seqs :
            /\ at[o] \in {"send", "row"} /\ s < part[o].seq => Recorded(o, s)
            /\ at[o] \in {"sync", "end", "ended", "done"} => Recorded(o, s)
            /\ Recorded(o, s) \/ (at[o] = "row" /\ part[o].seq = s) => Copies(o, s) # {}
SentWell(o) ==
  Kind(o) = "video" => \A s \in Seqs :
            /\ Cardinality(Copies(o, s)) <= 1 + doubt[<<o, s>>]
            /\ Recorded(o, s) \/ (at[o] = "row" /\ part[o].seq = s) \/ Cardinality(Copies(o, s)) <= doubt[<<o, s>>]
SplitInv == Renamed /\ ParentsOK /\ \A o \in Ops : SegmentsOK(o)
SentInv == NoCrash({"video"}) => \A o \in Ops : SentWell(o)

-----------------------------------------------------------------------------
Entries == [op : Ops, name : Titles, part : Seqs \cup {Whole}]
LEMMA CopiesFacts ==
  ASSUME TypeOK, NEW o \in Ops, NEW s \in Seqs \cup {Whole}
  PROVE  /\ IsFiniteSet(Copies(o, s)) /\ Cardinality(Copies(o, s)) \in Nat
         /\ Len(media) + 1 \notin Copies(o, s) /\ media \in Seq(Entries) /\ Len(media) \in Nat
<1>1. media \in Seq(Entries) BY DEF TypeOK, Entries
<1> HIDE DEF Entries
<1>2. Len(media) \in Nat /\ DOMAIN media = 1..Len(media) BY <1>1
<1>3. Copies(o, s) \subseteq 1..Len(media) BY <1>2 DEF Copies
<1>4. IsFiniteSet(1..Len(media)) BY <1>2, FS_Interval
<1>5. IsFiniteSet(Copies(o, s)) BY ONLY <1>3, <1>4, FS_Subset
<1>6. Cardinality(Copies(o, s)) \in Nat BY ONLY <1>5, FS_CardinalityType
<1>7. Len(media) + 1 \notin 1..Len(media) BY <1>2
<1> QED BY ONLY <1>1, <1>2, <1>3, <1>5, <1>6, <1>7

LEMMA CopiesPut ==
  ASSUME TypeOK, NEW e \in Entries, media' = Append(media, e), NEW o \in Ops, NEW s \in Seqs \cup {Whole}
  PROVE  Copies(o, s)' = IF e.op = o /\ e.part = s THEN Copies(o, s) \cup {Len(media) + 1} ELSE Copies(o, s)
<1>1. media \in Seq(Entries) /\ Len(media) \in Nat BY CopiesFacts
<1> HIDE DEF Entries
<1>2. DOMAIN media = 1..Len(media) /\ Len(media') = Len(media) + 1
      /\ DOMAIN media' = 1..(Len(media) + 1) /\ media'[Len(media) + 1] = e
      /\ \A n \in 1..Len(media) : media'[n] = media[n]
  BY <1>1
<1>3. Copies(o, s)' = {n \in DOMAIN media' : media'[n].op = o /\ media'[n].part = s} BY DEF Copies
<1>4. 1..(Len(media) + 1) = (1..Len(media)) \cup {Len(media) + 1} BY <1>1
<1> QED BY <1>2, <1>3, <1>4 DEF Copies

LEMMA CopiesStay ==
  ASSUME media' = media, NEW o \in Ops, NEW s \in Seqs \cup {Whole} PROVE Copies(o, s)' = Copies(o, s)
BY DEF Copies

(* What a step puts on the cloud. *)
LEMMA MediaStep ==
  ASSUME TypeOK, NEW x \in Ops, Step(x)
  PROVE  \/ media' = media
         \/ /\ Puts(x) /\ File(x) \in Ops /\ [Entry(x, Whole) EXCEPT !.op = File(x)] \in Entries
            /\ media' = Append(media, [Entry(x, Whole) EXCEPT !.op = File(x)])
         \/ /\ SendsSegment(x) /\ part[x].seq \in Seqs /\ ~Skips(x) /\ Entry(x, part[x].seq) \in Entries
            /\ media' = Append(media, Entry(x, part[x].seq))
<1>0. Uuid(x) \in Paths /\ Declared(x) \in Paths /\ Name(x) \in Titles BY Inputs, TypeIsControl
<1>1. CASE Puts(x)
  <2>1. media' = media \/ (File(x) # Nobody /\ media' = Append(media, [Entry(x, Whole) EXCEPT !.op = File(x)]))
    BY <1>1 DEF Puts
  <2>2. File(x) \in Ops \cup {Nobody} BY <1>0 DEF File, TypeOK
  <2>3. File(x) # Nobody => [Entry(x, Whole) EXCEPT !.op = File(x)] \in Entries BY <1>0, <2>2 DEF Entry, Entries
  <2> QED BY ONLY <1>1, <2>1, <2>2, <2>3
<1>2. CASE SendsSegment(x)
  <2>1. media' = media \/ (part[x].seq \in Seqs /\ ~Skips(x) /\ media' = Append(media, Entry(x, part[x].seq)))
    BY <1>2 DEF SendsSegment
  <2>2. part[x].seq \in Seqs => Entry(x, part[x].seq) \in Entries BY <1>0 DEF Entry, Entries
  <2> QED BY ONLY <1>2, <2>1, <2>2
<1> QED BY <1>1, <1>2, MediaRests

(* Segments are sent by a video that sends them. *)
LEMMA SegmentsStep ==
  ASSUME TypeOK, NEW x \in Ops, PlacedOK(x), Step(x), NEW o \in Ops, NEW s \in Seqs
  PROVE  \/ Copies(o, s)' = Copies(o, s)
         \/ /\ o = x /\ SendsSegment(x) /\ Kind(x) = "video" /\ part[x].seq = s /\ ~Skips(x)
            /\ Copies(o, s)' = Copies(o, s) \cup {Len(media) + 1}
<1>0. s # Whole /\ s \in Seqs \cup {Whole} BY DEF Seqs, Whole
<1>1. CASE media' = media BY <1>0, <1>1, CopiesStay
<1>2. ASSUME NEW e \in Entries, media' = Append(media, e), e.part = Whole PROVE Copies(o, s)' = Copies(o, s)
  BY <1>0, <1>2, CopiesPut
<1>3. CASE Puts(x) /\ File(x) \in Ops /\ [Entry(x, Whole) EXCEPT !.op = File(x)] \in Entries
           /\ media' = Append(media, [Entry(x, Whole) EXCEPT !.op = File(x)])
  <2>1. [Entry(x, Whole) EXCEPT !.op = File(x)].part = Whole BY DEF Entry
  <2> QED BY <1>2, <1>3, <2>1
<1>4. CASE SendsSegment(x) /\ part[x].seq \in Seqs /\ ~Skips(x) /\ Entry(x, part[x].seq) \in Entries
           /\ media' = Append(media, Entry(x, part[x].seq))
  <2>1. at[x] = "send" BY <1>4 DEF SendsSegment
  <2>2. Kind(x) = "video" BY <2>1 DEF PlacedOK
  <2>3. Entry(x, part[x].seq).op = x /\ Entry(x, part[x].seq).part = part[x].seq BY DEF Entry
  <2> QED BY <1>0, <1>4, <2>2, <2>3, CopiesPut
<1> QED BY <1>1, <1>3, <1>4, MediaStep

(* What a step does to the name and the parent in a payload. *)
LEMMA PayloadParts ==
  ASSUME TypeOK, NEW x \in Ops, Step(x)
  PROVE  /\ \/ payload'[x].renamed = payload[x].renamed
            \/ TakesName(x) /\ payload'[x].renamed = (Kind(x) = "image")
         /\ \/ payload'[x].parent = payload[x].parent
            \/ Splits(x) /\ payload[x].parent = 0 /\ payload'[x].parent = Len(parents) + 1
<1>0. payload \in Payloads BY DEF TypeOK
<1>1. CASE Submit(x) BY <1>0, <1>1 DEF Submit, Payloads
<1>2. CASE Sets(x) BY <1>0, <1>2 DEF Sets, GivesUp, Payloads
<1>3. CASE Unsets(x) BY <1>0, <1>3 DEF Unsets, Payloads
<1>4. CASE TakesName(x) BY <1>0, <1>4 DEF TakesName, GivesUp, Payloads
<1>5. CASE Splits(x) BY <1>0, <1>5 DEF Splits, Payloads, Parent
<1> QED BY <1>1, <1>2, <1>3, <1>4, <1>5, PayloadRests

LEMMA LedgerIs ==
  ASSUME TypeOK, NEW x \in Ops, Step(x) PROVE ledger'[x] \in {ledger[x], payload'[x]}
<1>1. ledger \in Payloads BY DEF TypeOK
<1> QED BY <1>1, LedgerStep DEF Payloads

LEMMA RenamedStep ==
  ASSUME TypeOK, Renamed, NEW x \in Ops, Step(x) PROVE Renamed'
<1> SUFFICES ASSUME NEW o \in Ops, payload'[o].renamed \/ ledger'[o].renamed PROVE Kind(o)' = "image"
  BY DEF Renamed
<1>1. Kind(o)' = Kind(o) BY PlanStays DEF Kind
<1>2. CASE o # x BY <1>1, <1>2, Stays DEF Renamed
<1>3. CASE o = x
  <2>1. payload'[x].renamed = payload[x].renamed \/ payload'[x].renamed = (Kind(x) = "image") BY PayloadParts
  <2> QED BY <1>1, <1>3, <2>1, LedgerIs DEF Renamed
<1> QED BY <1>2, <1>3

LEMMA ParentsStep ==
  ASSUME TypeOK, ParentsOK, NEW x \in Ops, Step(x) PROVE ParentsOK'
<1>0. \A o \in Ops : payload[o].parent \in 0..Len(parents) BY DEF TypeOK, Payloads
<1>1. /\ Len(parents) \in Nat
      /\ payload'[x].parent = payload[x].parent
         \/ (payload[x].parent = 0 /\ payload'[x].parent = Len(parents) + 1)
  BY EssenceIs, PayloadParts
<1>2. \A o \in Ops \ {x} : payload'[o] = payload[o] /\ ledger'[o] = ledger[o] BY Stays
<1>3. ASSUME NEW o \in Ops PROVE ledger'[o].parent \in {0, payload'[o].parent}
  <2>1. ledger[o].parent \in {0, payload[o].parent} BY DEF ParentsOK, Parent
  <2> QED BY <1>1, <1>2, <2>1, LedgerIs
<1>4. ASSUME NEW o \in Ops, NEW y \in Ops \ {o}
      PROVE  payload'[o].parent = 0 \/ payload'[y].parent # payload'[o].parent
  <2>1. payload[o].parent = 0 \/ payload[y].parent # payload[o].parent BY DEF ParentsOK, Parent
  <2>2. payload[y].parent = 0 \/ payload[y].parent # payload[o].parent BY DEF ParentsOK, Parent
  <2>3. CASE o = x BY <1>0, <1>1, <1>2, <2>1, <2>3
  <2>4. CASE y = x BY <1>0, <1>1, <1>2, <2>1, <2>2, <2>4
  <2>5. CASE o # x /\ y # x BY <1>2, <2>1, <2>5
  <2> QED BY <2>3, <2>4, <2>5
<1> QED BY <1>3, <1>4 DEF ParentsOK, Parent

(* The rows of segments. *)
LEMMA RecordedStep ==
  ASSUME TypeOK, ParentsOK, NEW x \in Ops, Step(x), RecordsSegment(x) => Parent(x) # 0,
         NEW o \in Ops, NEW s \in Seqs
  PROVE  Recorded(o, s)' <=> Recorded(o, s) \/ (o = x /\ RecordsSegment(x) /\ s = part[x].seq)
<1>0. /\ parents \in Seq(SUBSET Seqs) /\ Len(parents) \in Nat
      /\ payload[o].parent \in 0..Len(parents) /\ payload[x].parent \in 0..Len(parents)
  BY EssenceIs DEF TypeOK, Payloads
<1>1. o # x => payload'[o] = payload[o] BY Stays
<1>2. o # x => payload[o].parent = 0 \/ payload[x].parent # payload[o].parent BY DEF ParentsOK, Parent
<1>3. CASE Splits(x)
  <2>1. ~RecordsSegment(x)
    <3>1. at[x] = "split" BY <1>3 DEF Splits
    <3> QED BY <3>1 DEF RecordsSegment
  <2>2. /\ payload'[x].parent = IF payload[x].parent # 0 THEN payload[x].parent ELSE Len(parents) + 1
        /\ parents' = IF payload[x].parent # 0 THEN parents ELSE Append(parents, {})
    <3> DEFINE p == IF payload[x].parent # 0 THEN payload[x].parent ELSE Len(parents) + 1
    <3>1. payload \in Payloads BY DEF TypeOK
    <3>2. payload' = [payload EXCEPT ![x].parent = p] BY <1>3 DEF Splits, Parent
    <3>3. parents' = IF payload[x].parent # 0 THEN parents ELSE Append(parents, {}) BY <1>3 DEF Splits, Parent
    <3> HIDE DEF p
    <3>4. payload'[x].parent = p BY <3>1, <3>2 DEF Payloads
    <3> QED BY ONLY <3>3, <3>4 DEF p
  <2>3. CASE payload[x].parent # 0 BY <1>0, <1>1, <2>1, <2>2, <2>3 DEF Recorded, Parent
  <2>4. CASE payload[x].parent = 0
    <3>1. /\ parents'[Len(parents) + 1] = {}
          /\ \A p \in 1..Len(parents) : parents'[p] = parents[p]
      BY ONLY <1>0, <2>2, <2>4
    <3> QED BY <1>0, <1>1, <2>1, <2>2, <2>4, <3>1 DEF Recorded, Parent
  <2> QED BY <2>3, <2>4
<1>4. CASE RecordsSegment(x)
  <2>1. /\ payload'[x].parent = payload[x].parent /\ payload[x].parent # 0
        /\ parents' = [parents EXCEPT ![payload[x].parent] = @ \cup {part[x].seq}]
    BY <1>4 DEF RecordsSegment, Parent
  <2>2. \A p \in 1..Len(parents) :
          parents'[p] = IF p = payload[x].parent THEN parents[p] \cup {part[x].seq} ELSE parents[p]
    <3> DEFINE E == SUBSET Seqs
               q == payload[x].parent
               v == parents[q] \cup {part[x].seq}
    <3>1. parents \in Seq(E) /\ parents' = [parents EXCEPT ![q] = v] BY <1>0, <2>1
    <3> SUFFICES ASSUME NEW p \in 1..Len(parents) PROVE parents'[p] = IF p = q THEN v ELSE parents[p]
      OBVIOUS
    <3> HIDE DEF E, q, v
    <3>2. p \in DOMAIN parents BY <3>1
    <3> QED BY ONLY <3>1, <3>2
  <2> QED BY <1>0, <1>1, <1>2, <1>4, <2>1, <2>2 DEF Recorded, Parent
<1>5. CASE ~Splits(x) /\ ~RecordsSegment(x)
  <2>1. UNCHANGED parents \/ IndexesText(x) \/ ForgetsText(x) \/ Reconciles(x) BY <1>5, RowsRest
  <2>2. UNCHANGED parents BY <2>1 DEF IndexesText, ForgetsText, Reconciles
  <2>3. payload'[x].parent = payload[x].parent BY <1>5, PayloadParts
  <2> QED BY <1>1, <1>5, <2>2, <2>3 DEF Recorded, Parent
<1> QED BY <1>3, <1>4, <1>5

(* Where a video goes that sends no segment. *)
LEMMA VideoMoves ==
  ASSUME TypeOK, NEW x \in Ops, PlacedOK(x), Kind(x) = "video", Step(x),
         ~Splits(x), ~SendsSegment(x), ~RecordsSegment(x)
  PROVE  /\ part' = part
         /\ \/ at'[x] \notin {"send", "row", "sync", "end", "ended", "done"}
            \/ at[x] = "sync" /\ at'[x] = "end"
            \/ at[x] = "end" /\ at'[x] = "ended"
            \/ at[x] = "ended" /\ at'[x] = "done" /\ ledger'[x] = payload'[x]
<1>0. at \in [Ops -> Places] /\ ledger \in Payloads BY DEF TypeOK
<1>1. at[x] \notin {"part", "say", "set", "keep", "index", "unset", "list", "reconcile", "refuse",
                    "album", "refresh", "refreshed", "probe", "put", "download", "fetched"}
  BY DEF PlacedOK, Wholes, Albums, Fetches
<1>2. ~(TakesPart(x) \/ Says(x))
  BY <1>1 DEF TakesPart, Says
<1>3. part' = part BY <1>2, PartRests
<1>4. CASE Submit(x) \/ Resumes(x) BY <1>0, <1>4 DEF Submit, Resumes, Go
<1>5. CASE Starts(x) BY <1>0, <1>5 DEF Starts, Go, First, Fetches
<1>6. CASE Fails(x) BY <1>0, <1>6 DEF Fails, Retried, Go
<1>7. CASE Pauses(x) BY <1>0, <1>7 DEF Pauses, Go
<1>8. CASE FindsSource(x) BY <1>0, <1>8 DEF FindsSource, GivesUp, Go
<1>9. CASE SyncsGroup(x) BY <1>0, <1>9 DEF SyncsGroup, Go
<1>10. CASE Ends(x) BY <1>0, <1>10 DEF Ends, Go
<1>11. CASE Completes(x) BY <1>0, <1>11 DEF Completes, Go, Writes, Payloads
<1>12. ~(Sets(x) \/ Keeps(x) \/ IndexesText(x) \/ Unsets(x) \/ ForgetsText(x) \/ Hears(x) \/ Reconciles(x))
  BY <1>1 DEF Sets, Keeps, IndexesText, Unsets, ForgetsText, Hears, Reconciles
<1>13. ~(Refuses(x) \/ TakesName(x) \/ Probes(x) \/ Puts(x) \/ Downloads(x) \/ Hands(x))
  BY <1>1 DEF Refuses, TakesName, Probes, Puts, Downloads, Hands
<1> QED BY ONLY Step(x), ~Splits(x), ~SendsSegment(x), ~RecordsSegment(x),
    <1>2, <1>3, <1>4, <1>5, <1>6, <1>7, <1>8, <1>9, <1>10, <1>11, <1>12, <1>13 DEF Step

LEMMA SegmentsOthers ==
  ASSUME TypeInv, Placed, SplitInv, NEW x \in Ops, Step(x), NEW o \in Ops, o # x \/ Kind(o) # "video"
  PROVE  SegmentsOK(o)'
<1>0. TypeOK /\ PlacedOK(x) /\ SegmentsOK(o) /\ SegmentsOK(x) /\ ParentsOK /\ Kind(o)' = Kind(o)
  BY PlanStays DEF TypeInv, Placed, SplitInv, Kind
<1>1. \A s \in Seqs : Copies(o, s)' = Copies(o, s) BY <1>0, SegmentsStep
<1>2. CASE Kind(o) # "video" BY <1>0, <1>1, <1>2 DEF SegmentsOK
<1>3. CASE o # x /\ Kind(o) = "video"
  <2>1. RecordsSegment(x) => Parent(x) # 0
    <3>1. RecordsSegment(x) => at[x] = "row" /\ Kind(x) = "video" BY <1>0 DEF RecordsSegment, PlacedOK
    <3> QED BY <1>0, <3>1 DEF SegmentsOK
  <2>2. \A s \in Seqs : Recorded(o, s)' <=> Recorded(o, s)
    <3> SUFFICES ASSUME NEW s \in Seqs PROVE Recorded(o, s)' <=> Recorded(o, s) OBVIOUS
    <3> QED BY <1>0, <1>3, <2>1, RecordedStep
  <2>3. at'[o] = at[o] /\ part'[o] = part[o] /\ payload'[o] = payload[o] /\ ledger'[o] = ledger[o]
    BY <1>0, <1>3, Stays
  <2>4. Parent(o)' = Parent(o) BY <2>3 DEF Parent
  <2> QED BY ONLY <1>0, <1>1, <1>3, <2>2, <2>3, <2>4 DEF SegmentsOK
<1> QED BY <1>2, <1>3

LEMMA SegmentsOwn ==
  ASSUME TypeInv, Placed, SplitInv, NEW x \in Ops, Step(x), Kind(x) = "video"
  PROVE  SegmentsOK(x)'
<1>0. TypeOK /\ PlacedOK(x) /\ SegmentsOK(x) /\ ParentsOK /\ Kind(x) = "video" /\ Kind(x)' = "video"
  BY PlanStays DEF TypeInv, Placed, SplitInv, Kind
<1>1. RecordsSegment(x) => Parent(x) # 0
  <2>1. RecordsSegment(x) => at[x] = "row" BY DEF RecordsSegment
  <2> QED BY <1>0, <2>1 DEF SegmentsOK
<1>2. \A s \in Seqs : Recorded(x, s)' <=> Recorded(x, s) \/ (RecordsSegment(x) /\ s = part[x].seq)
  <2> SUFFICES ASSUME NEW s \in Seqs
               PROVE  Recorded(x, s)' <=> Recorded(x, s) \/ (RecordsSegment(x) /\ s = part[x].seq) OBVIOUS
  <2> QED BY <1>0, <1>1, RecordedStep
<1>3. /\ at \in [Ops -> Places] /\ part \in [Ops -> [seq : Nat, id : Messaged]]
      /\ payload[x].parent \in Nat
  <2>1. payload[x].parent \in 0..Len(parents) /\ Len(parents) \in Nat BY <1>0, EssenceIs DEF TypeOK, Payloads
  <2> QED BY <1>0, <2>1 DEF TypeOK
<1>4. \A s \in Seqs : Copies(x, s) # {} => Copies(x, s)' # {} BY <1>0, SegmentsStep
<1>5. CASE Splits(x)
  <2>1. at'[x] = "send" /\ part'[x].seq = 1 BY <1>3, <1>5 DEF Splits, Go
  <2>2. ~RecordsSegment(x) /\ ~SendsSegment(x) BY <1>5 DEF Splits, RecordsSegment, SendsSegment
  <2>3. Parent(x)' # 0
    <3>1. payload \in Payloads /\ Len(parents) \in Nat BY <1>0, EssenceIs DEF TypeOK
    <3>2. PICK p : /\ p = IF Parent(x) # 0 THEN Parent(x) ELSE Len(parents) + 1
                   /\ payload' = [payload EXCEPT ![x].parent = p]
      BY <1>5 DEF Splits
    <3>3. p # 0 BY <3>1, <3>2
    <3>4. payload'[x].parent = p BY <3>1, <3>2 DEF Payloads
    <3> QED BY <3>3, <3>4 DEF Parent
  <2>4. \A s \in Seqs : ~(s < 1) BY DEF Seqs
  <2> QED BY ONLY <1>0, <1>2, <1>4, <2>1, <2>2, <2>3, <2>4 DEF SegmentsOK
<1>6. CASE SendsSegment(x)
  <2>0. /\ at[x] = "send" /\ ~RecordsSegment(x) /\ payload' = payload /\ Parent(x)' = Parent(x)
        /\ Parent(x) # 0 /\ part[x].seq \in 1..3
    <3>1. at[x] = "send" BY <1>6 DEF SendsSegment
    <3>2. payload' = payload BY <1>6 DEF SendsSegment, Retried
    <3> QED BY <1>0, <3>1, <3>2 DEF RecordsSegment, SegmentsOK, Parent
  <2>1. CASE part[x].seq \notin Seqs /\ Go(x, "sync") /\ part' = part /\ media' = media
    <3>1. at'[x] = "sync" BY <1>3, <2>1 DEF Go
    <3>2. \A s \in Seqs : s < part[x].seq BY <2>0, <2>1 DEF Seqs
    <3>3. \A s \in Seqs : Recorded(x, s) BY <1>0, <2>0, <3>2 DEF SegmentsOK
    <3>4. \A s \in Seqs : Copies(x, s) # {} BY <1>0, <3>3 DEF SegmentsOK
    <3> QED BY ONLY <1>0, <1>2, <1>4, <2>0, <3>1, <3>3, <3>4 DEF SegmentsOK
  <2>2. CASE part[x].seq \in Seqs /\ Skips(x) /\ Advances(x) /\ UNCHANGED <<at, media>>
    <3>1. at'[x] = "send" /\ part'[x].seq = part[x].seq + 1 BY <1>3, <2>0, <2>2 DEF Advances
    <3>2. Recorded(x, part[x].seq) BY <2>0, <2>2 DEF Recorded, Skips
    <3>3. \A s \in Seqs : s < part[x].seq + 1 => s < part[x].seq \/ s = part[x].seq BY <2>2 DEF Seqs
    <3>4. \A s \in Seqs : s < part[x].seq + 1 => Recorded(x, s) BY <1>0, <2>0, <3>2, <3>3 DEF SegmentsOK
    <3>5. part[x].seq + 1 \in 1..3 BY <2>2 DEF Seqs
    <3> QED BY ONLY <1>0, <1>2, <1>4, <2>0, <3>1, <3>4, <3>5 DEF SegmentsOK
  <2>3. CASE /\ part[x].seq \in Seqs /\ ~Skips(x) /\ media' = Append(media, Entry(x, part[x].seq))
             /\ part' = part /\ (Go(x, "row") \/ Retried(x))
    <3>1. at'[x] \in {"row", "queued"} BY <1>3, <2>3 DEF Retried, Go
    <3>2. ASSUME NEW s \in Seqs, s = part[x].seq PROVE Copies(x, s)' # {}
      <4>1. Entry(x, part[x].seq) \in Entries
        BY <1>0, <2>3, Inputs, TypeIsControl DEF Entry, Entries
      <4>2. Entry(x, part[x].seq).op = x /\ Entry(x, part[x].seq).part = part[x].seq BY DEF Entry
      <4>3. Copies(x, s)' = Copies(x, s) \cup {Len(media) + 1}
        BY <1>0, <2>3, <3>2, <4>1, <4>2, CopiesPut
      <4> QED BY <4>3
    <3>3. part'[x].seq = part[x].seq BY <2>3
    <3>4. \A s \in Seqs : s < part[x].seq => Recorded(x, s) BY <1>0, <2>0 DEF SegmentsOK
    <3> QED BY ONLY <1>0, <1>2, <1>4, <2>0, <2>3, <3>1, <3>2, <3>3, <3>4 DEF SegmentsOK
  <2> QED BY <1>6, <2>1, <2>2, <2>3 DEF SendsSegment
<1>7. CASE RecordsSegment(x)
  <2>1. at[x] = "row" /\ ~SendsSegment(x) BY <1>7 DEF RecordsSegment, SendsSegment
  <2>2. at'[x] = "send" /\ part'[x].seq = part[x].seq + 1 /\ Parent(x)' = Parent(x)
    BY <1>3, <1>7 DEF RecordsSegment, Advances, Go, Parent
  <2>3. part[x].seq \in Seqs /\ Copies(x, part[x].seq) # {} /\ Parent(x) # 0 BY <1>0, <2>1 DEF SegmentsOK
  <2>4. \A s \in Seqs : s < part[x].seq + 1 => s < part[x].seq \/ s = part[x].seq BY <2>3 DEF Seqs
  <2>5. part[x].seq + 1 \in 1..3 BY <2>3 DEF Seqs
  <2>6. \A s \in Seqs : s < part[x].seq + 1 => Recorded(x, s)' BY <1>0, <1>2, <1>7, <2>1, <2>4 DEF SegmentsOK
  <2> QED BY ONLY <1>0, <1>2, <1>4, <1>7, <2>1, <2>2, <2>3, <2>5, <2>6 DEF SegmentsOK
<1>8. CASE ~Splits(x) /\ ~SendsSegment(x) /\ ~RecordsSegment(x)
  <2>1. /\ part' = part
        /\ \/ at'[x] \notin {"send", "row", "sync", "end", "ended", "done"}
           \/ at[x] = "sync" /\ at'[x] = "end"
           \/ at[x] = "end" /\ at'[x] = "ended"
           \/ at[x] = "ended" /\ at'[x] = "done" /\ ledger'[x] = payload'[x]
    BY <1>0, <1>8, VideoMoves
  <2>2. Parent(x)' = Parent(x) BY <1>0, <1>8, PayloadParts DEF Parent
  <2>3. ledger'[x] = payload'[x] => ledger'[x].parent = Parent(x)' BY DEF Parent
  <2> QED BY ONLY <1>0, <1>2, <1>4, <1>8, <2>1, <2>2, <2>3 DEF SegmentsOK
<1> QED BY <1>5, <1>6, <1>7, <1>8

LEMMA SplitStep ==
  ASSUME TypeInv, Placed, SplitInv, NEW x \in Ops, Step(x) PROVE SplitInv'
<1>1. Renamed' /\ ParentsOK' BY RenamedStep, ParentsStep DEF TypeInv, SplitInv
<1>2. ASSUME NEW o \in Ops PROVE SegmentsOK(o)'
  <2>1. CASE o # x \/ Kind(o) # "video" BY <2>1, SegmentsOthers
  <2>2. CASE o = x /\ Kind(x) = "video" BY <2>2, SegmentsOwn
  <2> QED BY <2>1, <2>2
<1> QED BY ONLY <1>1, <1>2 DEF SplitInv

LEMMA DoubtGrows ==
  ASSUME TypeInv, NEW x \in Ops, Step(x), NEW o \in Ops, NEW s \in Seqs \cup {Whole}
  PROVE  doubt[<<o, s>>] \in Nat /\ doubt'[<<o, s>>] \in Nat /\ doubt[<<o, s>>] <= doubt'[<<o, s>>]
<1>1. doubt \in [Ops \X (Seqs \cup {Whole}) -> Nat] BY DEF TypeInv, TypeOK
<1>2. doubt' = doubt \/ \E t \in Seqs \cup {Whole} : Doubted(x, t)
  <2>1. at[x] \in {"say", "set"} => part[x].seq \in Seqs BY DEF TypeInv, InHand
  <2>2. CASE Fails(x) BY <2>1, <2>2 DEF Fails
  <2>3. CASE Says(x) BY <2>1, <2>3 DEF Says
  <2>4. CASE Sets(x) BY <2>1, <2>4 DEF Sets
  <2>5. CASE Probes(x) BY <2>5 DEF Probes
  <2>6. CASE SendsSegment(x) BY <2>6 DEF SendsSegment
  <2> QED BY <2>2, <2>3, <2>4, <2>5, <2>6, DoubtRests
<1>3. CASE doubt' = doubt BY <1>1, <1>3
<1>4. ASSUME NEW t \in Seqs \cup {Whole}, Doubted(x, t)
      PROVE  doubt[<<o, s>>] \in Nat /\ doubt'[<<o, s>>] \in Nat /\ doubt[<<o, s>>] <= doubt'[<<o, s>>]
  <2>1. <<o, s>> \in Ops \X (Seqs \cup {Whole}) OBVIOUS
  <2>2. doubt' = [doubt EXCEPT ![<<x, t>>] = @ + 1] BY <1>4 DEF Doubted
  <2> QED BY ONLY <1>1, <2>1, <2>2
<1> QED BY <1>2, <1>3, <1>4

(* No segment is sent twice without a doubt. *)
LEMMA SentWellStep ==
  ASSUME TypeInv, Placed, SplitInv, NEW x \in Ops, Step(x), NEW o \in Ops, SentWell(o)
  PROVE  SentWell(o)'
<1>0. /\ TypeOK /\ PlacedOK(x) /\ SegmentsOK(x) /\ ParentsOK /\ Kind(o)' = Kind(o)
  BY PlanStays DEF TypeInv, Placed, SplitInv, Kind
<1>1. SUFFICES ASSUME Kind(o) = "video", NEW s \in Seqs
               PROVE  /\ Cardinality(Copies(o, s))' <= 1 + doubt'[<<o, s>>]
                      /\ Recorded(o, s)' \/ (at'[o] = "row" /\ part'[o].seq = s)
                         \/ Cardinality(Copies(o, s))' <= doubt'[<<o, s>>]
  BY <1>0 DEF SentWell
<1> DEFINE c == Cardinality(Copies(o, s))
           d == doubt[<<o, s>>]
<1>2. s \in Seqs \cup {Whole} /\ <<o, s>> \in Ops \X (Seqs \cup {Whole}) OBVIOUS
<1>3. d \in Nat /\ d' \in Nat /\ d <= d' BY <1>2, DoubtGrows
<1>4. IsFiniteSet(Copies(o, s)) /\ c \in Nat BY <1>0, <1>2, CopiesFacts
<1>5. c <= 1 + d /\ (Recorded(o, s) \/ (at[o] = "row" /\ part[o].seq = s) \/ c <= d)
  BY <1>1 DEF SentWell
<1>6. RecordsSegment(x) => Parent(x) # 0
  <2>1. RecordsSegment(x) => at[x] = "row" /\ Kind(x) = "video" BY <1>0 DEF RecordsSegment, PlacedOK
  <2> QED BY <1>0, <2>1 DEF SegmentsOK
<1>7. Recorded(o, s)' <=> Recorded(o, s) \/ (o = x /\ RecordsSegment(x) /\ s = part[x].seq)
  BY <1>0, <1>6, RecordedStep
<1>8. CASE Copies(o, s)' = Copies(o, s)
  <2>1. c' = c BY <1>8
  <2>2. at[o] = "row" /\ part[o].seq = s => Recorded(o, s)' \/ (at'[o] = "row" /\ part'[o].seq = s)
    <3>1. CASE o # x BY <1>0, <3>1, Stays
    <3>2. CASE o = x
      <4>1. at[x] = "row" => RecordsSegment(x)
        BY DEF Step, Submit, Starts, Fails, Pauses, Resumes, TakesPart, Says, Sets, Keeps, IndexesText,
          Unsets, ForgetsText, Hears, Reconciles, Ends, Completes, FindsSource, Refuses, TakesName,
          Probes, Puts, SyncsGroup, Splits, SendsSegment, Downloads, Hands
      <4> QED BY <1>7, <3>2, <4>1
    <3> QED BY <3>1, <3>2
  <2> HIDE DEF c, d
  <2>3. c' <= 1 + d' /\ (Recorded(o, s)' \/ (at'[o] = "row" /\ part'[o].seq = s) \/ c' <= d')
    BY ONLY <1>3, <1>4, <1>5, <1>7, <2>1, <2>2
  <2> QED BY ONLY <2>3 DEF c, d
<1>9. CASE /\ o = x /\ SendsSegment(x) /\ part[x].seq = s /\ ~Skips(x)
           /\ Copies(o, s)' = Copies(o, s) \cup {Len(media) + 1}
  <2>1. c' <= c + 1 /\ c' \in Nat
    <3> DEFINE C == Copies(o, s)
               k == Len(media) + 1
    <3>1. C' = C \cup {k} /\ IsFiniteSet(C) BY <1>4, <1>9
    <3> HIDE DEF C, k
    <3>2. Cardinality(C \cup {k}) <= Cardinality(C) + 1 /\ Cardinality(C \cup {k}) \in Nat BY ONLY <3>1, CardOne
    <3>3. Cardinality(C') <= Cardinality(C) + 1 /\ Cardinality(C') \in Nat BY ONLY <3>1, <3>2
    <3> QED BY ONLY <3>3 DEF C
  <2>2. at[x] = "send" BY <1>9 DEF SendsSegment
  <2>3. ~Recorded(o, s)
    <3>1. s \notin parents[Parent(x)] BY <1>9 DEF Skips
    <3> QED BY <1>9, <3>1 DEF Recorded
  <2>4. c <= d BY <1>5, <1>9, <2>2, <2>3
  <2>5. (at'[o] = "row" /\ part'[o].seq = s) \/ d' = d + 1
    <3>1. part[x].seq \in Seqs BY <1>9
    <3>2. at \in [Ops -> Places] /\ doubt \in [Ops \X (Seqs \cup {Whole}) -> Nat] BY <1>0 DEF TypeOK
    <3>3. \/ Go(x, "row") /\ part' = part
          \/ Doubted(x, part[x].seq)
      BY <1>9, <3>1 DEF SendsSegment
    <3> QED BY <1>2, <1>9, <3>2, <3>3 DEF Go, Doubted
  <2> HIDE DEF c, d
  <2>6. c' <= 1 + d' /\ (Recorded(o, s)' \/ (at'[o] = "row" /\ part'[o].seq = s) \/ c' <= d')
    BY ONLY <1>3, <1>4, <2>1, <2>4, <2>5
  <2> QED BY ONLY <2>6 DEF c, d
<1> QED BY <1>0, <1>8, <1>9, SegmentsStep

-----------------------------------------------------------------------------
(* The staging directory. *)
LEMMA PathsDiffer ==
  ASSUME NEW x, NEW o
  PROVE  /\ Uuid(x) # Declared(o) /\ (Uuid(x) = Uuid(o) => x = o)
         /\ (Declared(x) = Declared(o) => Name(x) = Name(o))
         /\ <<"none", Nobody>> # Uuid(x) /\ <<"none", Nobody>> # Declared(x)
BY DEF Uuid, Declared

LEMMA DiskMoves ==
  ASSUME TypeOK, NEW x \in Ops, Step(x), NEW p \in Paths
  PROVE  \/ disk'[p] = disk[p]
         \/ p = Uuid(x) /\ disk'[p] \in {x, Nobody}
         \/ p = Declared(x) /\ payload[x].renamed /\ disk'[p] = Nobody
         \/ p = Declared(x) /\ at[x] = "album" /\ Source(x) \in Paths /\ disk'[p] = disk[Source(x)]
<1>0. disk \in [Paths -> Ops \cup {Nobody}] /\ Uuid(x) \in Paths /\ Declared(x) \in Paths /\ Uuid(x) # Declared(x)
  BY Inputs, TypeIsControl, PathsDiffer DEF TypeOK
<1>1. ASSUME disk' = Drops(x)
      PROVE  disk'[p] = disk[p] \/ (p = Uuid(x) /\ disk'[p] = Nobody)
  BY <1>0, <1>1 DEF Drops
<1>2. ASSUME GivesUp(x)
      PROVE  \/ disk'[p] = disk[p] \/ (p = Uuid(x) /\ disk'[p] = Nobody)
             \/ (p = Declared(x) /\ payload[x].renamed /\ disk'[p] = Nobody)
  BY <1>0, <1>2 DEF GivesUp, Drops
<1>3. CASE Submit(x) BY <1>0, <1>3 DEF Submit, Staged
<1>4. CASE Fails(x) BY <1>1, <1>4 DEF Fails, Retried
<1>5. CASE Pauses(x) BY <1>1, <1>5 DEF Pauses
<1>6. CASE Says(x) BY <1>1, <1>6 DEF Says, Retried
<1>7. CASE Sets(x) BY <1>2, <1>7 DEF Sets
<1>8. CASE FindsSource(x) BY <1>2, <1>8 DEF FindsSource
<1>9. CASE Refuses(x) BY <1>2, <1>9 DEF Refuses
<1>10. CASE TakesName(x)
  <2>1. \/ at[x] = "album" /\ Source(x) \in Paths
             /\ disk' = [[disk EXCEPT ![Declared(x)] = disk[Source(x)]] EXCEPT ![Uuid(x)] = Nobody]
        \/ disk' = disk \/ GivesUp(x)
    BY <1>10 DEF TakesName
  <2> QED BY <1>0, <1>2, <2>1
<1>11. CASE Puts(x) BY <1>1, <1>11 DEF Puts, Retried
<1>12. CASE SendsSegment(x) BY <1>1, <1>12 DEF SendsSegment, Retried
<1>13. CASE Ends(x) BY <1>0, <1>13 DEF Ends
<1>14. CASE Downloads(x) BY <1>0, <1>14 DEF Downloads
<1>15. CASE Hands(x) BY <1>1, <1>15 DEF Hands
<1>16. CASE disk' = disk BY <1>16
<1> QED BY <1>3, <1>4, <1>5, <1>6, <1>7, <1>8, <1>9, <1>10, <1>11, <1>12, <1>13, <1>14, <1>15, <1>16, DiskRests

-----------------------------------------------------------------------------
(* Media that are sent whole. *)
Named == \A n \in DOMAIN media : media[n].name = Name(media[n].op)
Owned == \A o \in Ops : /\ disk[Uuid(o)] \in {o, Nobody}
                        /\ Kind(o) \in Albums => disk[Declared(o)] \in {o, Nobody}
Early == {"idle", "queued", "source", "album", "probe", "download", "fetched"}
Late == {"refresh", "refreshed", "sync", "end", "ended", "done"}
WholeOK(o) ==
  IF Kind(o) \notin Wholes THEN Copies(o, Whole) = {}
  ELSE /\ at[o] = "paused" => replayed[o]
       /\ at[o] = "idle" => ~replayed[o]
       /\ Cardinality(Copies(o, Whole)) <= 1 + doubt[<<o, Whole>>]
       /\ at[o] = "put" \/ (at[o] \in Early /\ ~replayed[o]) => Cardinality(Copies(o, Whole)) <= doubt[<<o, Whole>>]
       /\ at[o] \in Late => Copies(o, Whole) # {}
WholeInv == Named /\ Owned /\ \A o \in Ops : WholeOK(o)

LEMMA OwnedStep ==
  ASSUME TypeInv, Placed, Apart(Wholes), Owned, NEW x \in Ops, Step(x) PROVE Owned'
<1>0. /\ TypeOK /\ PlacedOK(x) /\ UNCHANGED plan
      /\ \A o \in Ops : Uuid(o) \in Paths /\ Declared(o) \in Paths
  BY PlanStays, Inputs, TypeIsControl DEF TypeInv, Placed
<1>1. \A o \in Ops : Kind(o)' = Kind(o) /\ Declared(o)' = Declared(o) /\ Uuid(o)' = Uuid(o)
  BY <1>0 DEF Kind, Declared, Uuid, Name
<1>2. ASSUME NEW o \in Ops PROVE disk'[Uuid(o)] \in {o, Nobody}
  <2>1. disk[Uuid(o)] \in {o, Nobody} BY DEF Owned
  <2>2. (Uuid(o) = Uuid(x) => o = x) /\ Uuid(o) # Declared(x) BY PathsDiffer
  <2> QED BY <1>0, <2>1, <2>2, DiskMoves
<1>3. ASSUME NEW o \in Ops, Kind(o) \in Albums PROVE disk'[Declared(o)] \in {o, Nobody}
  <2>1. disk[Declared(o)] \in {o, Nobody} BY <1>3 DEF Owned
  <2>2. Declared(o) # Uuid(x) BY PathsDiffer
  <2>3. CASE Declared(o) = Declared(x) /\ at[x] = "album" /\ Source(x) \in Paths
             /\ disk'[Declared(o)] = disk[Source(x)]
    <3>1. Kind(x) \in Albums BY <1>0, <2>3 DEF PlacedOK
    <3>2. Name(x) = Name(o) BY <2>3, PathsDiffer
    <3>3. x = o BY <1>3, <3>1, <3>2 DEF Apart, Albums, Wholes
    <3>4. Source(x) \in {Uuid(x), Declared(x), <<"none", Nobody>>} BY DEF Source
    <3>5. <<"none", Nobody>> \notin Paths BY PathsDiffer DEF Paths, Declared, Uuid
    <3>6. disk[Uuid(x)] \in {x, Nobody} BY DEF Owned
    <3> QED BY <2>1, <2>3, <3>3, <3>4, <3>5, <3>6
  <2> QED BY <1>0, <2>1, <2>2, <2>3, DiskMoves
<1> QED BY <1>1, <1>2, <1>3 DEF Owned

LEMMA FileIs ==
  ASSUME Owned, NEW x \in Ops PROVE File(x) \in {x, Nobody}
BY DEF Owned, File, Albums

(* What is put is the operation's own. *)
LEMMA WholeStepIs ==
  ASSUME TypeOK, Owned, NEW x \in Ops, Step(x), NEW o \in Ops
  PROVE  \/ Copies(o, Whole)' = Copies(o, Whole) /\ (Puts(x) => Retried(x) \/ o # x)
         \/ o = x /\ Puts(x) /\ Copies(o, Whole)' = Copies(o, Whole) \cup {Len(media) + 1}
<1>0. Whole \in Seqs \cup {Whole} /\ Whole \notin Seqs BY DEF Whole, Seqs
<1>1. CASE media' = media
  <2>1. Len(media) \in Nat /\ media \in Seq(Entries) BY <1>0, CopiesFacts
  <2>2. \A e : Len(Append(media, e)) = Len(media) + 1 BY ONLY <2>1
  <2>3. \A e : Append(media, e) # media BY <2>1, <2>2
  <2>4. Puts(x) => Retried(x) BY <1>1, <2>3 DEF Puts
  <2> QED BY <1>0, <1>1, <2>4, CopiesStay
<1>2. CASE Puts(x) /\ File(x) \in Ops /\ [Entry(x, Whole) EXCEPT !.op = File(x)] \in Entries
           /\ media' = Append(media, [Entry(x, Whole) EXCEPT !.op = File(x)])
  <2>1. File(x) = x BY <1>2, FileIs, IngestAssumption DEF IngestAssumption
  <2>2. /\ [Entry(x, Whole) EXCEPT !.op = File(x)].op = x
        /\ [Entry(x, Whole) EXCEPT !.op = File(x)].part = Whole
    BY <2>1 DEF Entry
  <2> QED BY <1>0, <1>2, <2>2, CopiesPut
<1>3. CASE SendsSegment(x) /\ part[x].seq \in Seqs /\ ~Skips(x) /\ Entry(x, part[x].seq) \in Entries
           /\ media' = Append(media, Entry(x, part[x].seq))
  <2>1. Entry(x, part[x].seq).part # Whole BY <1>0, <1>3 DEF Entry
  <2>2. ~Puts(x) BY <1>3 DEF SendsSegment, Puts
  <2> QED BY <1>0, <1>3, <2>1, <2>2, CopiesPut
<1> QED BY <1>1, <1>2, <1>3, MediaStep

LEMMA NamedStep ==
  ASSUME TypeOK, Owned, Named, NEW x \in Ops, Step(x) PROVE Named'
<1>0. UNCHANGED plan /\ media \in Seq(Entries) BY PlanStays DEF TypeOK, Entries
<1>1. CASE media' = media BY <1>0, <1>1 DEF Named, Name
<1>2. ASSUME NEW e \in Entries, media' = Append(media, e), e.name = Name(e.op) PROVE Named'
  <2> HIDE DEF Entries
  <2>1. \A n \in DOMAIN media' : (n \in DOMAIN media /\ media'[n] = media[n]) \/ media'[n] = e
    BY <1>0, <1>2
  <2> QED BY <1>0, <1>2, <2>1 DEF Named, Name
<1>3. CASE Puts(x) /\ File(x) \in Ops /\ [Entry(x, Whole) EXCEPT !.op = File(x)] \in Entries
           /\ media' = Append(media, [Entry(x, Whole) EXCEPT !.op = File(x)])
  <2>1. File(x) = x BY <1>3, FileIs, IngestAssumption DEF IngestAssumption
  <2>2. /\ [Entry(x, Whole) EXCEPT !.op = File(x)].op = x
        /\ [Entry(x, Whole) EXCEPT !.op = File(x)].name = Name(x)
    BY <2>1 DEF Entry
  <2> QED BY <1>2, <1>3, <2>2
<1>4. CASE SendsSegment(x) /\ part[x].seq \in Seqs /\ ~Skips(x) /\ Entry(x, part[x].seq) \in Entries
           /\ media' = Append(media, Entry(x, part[x].seq))
  <2>1. Entry(x, part[x].seq).op = x /\ Entry(x, part[x].seq).name = Name(x) BY DEF Entry
  <2> QED BY <1>2, <1>4, <2>1
<1> QED BY <1>1, <1>3, <1>4, MediaStep

LEMMA ShowsOwn ==
  ASSUME TypeOK, WholeInv, Apart(Wholes), NEW x \in Ops, Kind(x) \in Wholes
  PROVE  /\ Shows(Name(x)) <=> Copies(x, Whole) # {}
         /\ Sent(x, Whole) <=> Copies(x, Whole) # {}
<1>1. media \in Seq(Entries) BY DEF TypeOK, Entries
<1>2. \A n \in DOMAIN media : media[n].op \in Ops
  <2>1. \A n \in DOMAIN media : media[n] \in Entries BY <1>1
  <2> QED BY <2>1 DEF Entries
<1>3. ASSUME NEW n \in DOMAIN media, media[n].name = Name(x), media[n].part = Whole PROVE n \in Copies(x, Whole)
  <2>1. PICK o \in Ops : o = media[n].op BY <1>2
  <2>2. Name(o) = Name(x) BY <1>3, <2>1 DEF WholeInv, Named
  <2>3. n \in Copies(o, Whole) BY <1>3, <2>1 DEF Copies
  <2>4. Kind(o) \in Wholes BY <2>3 DEF WholeInv, WholeOK
  <2>5. o = x BY <2>2, <2>4 DEF Apart
  <2> QED BY <2>3, <2>5
<1>4. \A n \in Copies(x, Whole) : n \in DOMAIN media /\ media[n].name = Name(x) /\ media[n].part = Whole
  BY DEF Copies, WholeInv, Named
<1>5. Shows(Name(x)) <=> Copies(x, Whole) # {} BY <1>3, <1>4 DEF Shows
<1>6. Sent(x, Whole) <=> Copies(x, Whole) # {} BY DEF Sent, Copies
<1> QED BY ONLY <1>5, <1>6

(* Where an operation goes whose step neither probes nor puts. *)
LEMMA WholeMoves ==
  ASSUME TypeOK, NEW x \in Ops, PlacedOK(x), Kind(x) \in Wholes, Step(x), ~Probes(x), ~Puts(x),
         at[x] = "paused" => replayed[x]
  PROVE  /\ at'[x] = "paused" => replayed'[x]
         /\ at'[x] \notin {"idle", "put"}
         /\ at'[x] \in Early /\ ~replayed'[x] => at[x] \in Early /\ ~replayed[x]
         /\ at'[x] \in Late => at[x] \in Late
<1>0. at \in [Ops -> Places] /\ replayed \in [Ops -> BOOLEAN] BY DEF TypeOK
<1>1. at[x] \notin {"part", "say", "set", "keep", "index", "unset", "list", "reconcile", "refuse",
                    "split", "send", "row"}
  BY DEF PlacedOK, Wholes
<1>2. CASE Submit(x) BY <1>0, <1>2 DEF Submit, Go, Early, Late
<1>3. CASE Starts(x)
  <2>1. First(x) \in {"download", "source"} BY DEF First, Wholes, Fetches
  <2> QED BY <1>0, <1>3, <2>1 DEF Starts, Go, Early, Late
<1>4. CASE Fails(x) BY <1>0, <1>4 DEF Fails, Retried, Go, Early, Late
<1>5. CASE Pauses(x) BY <1>0, <1>5 DEF Pauses, Go, Early, Late
<1>6. CASE Resumes(x) BY <1>0, <1>6 DEF Resumes, Go, Early, Late
<1>7. CASE FindsSource(x)
  <2>1. Kind(x) # "video" BY DEF Wholes
  <2> QED BY <1>0, <1>7, <2>1 DEF FindsSource, GivesUp, Go, Early, Late
<1>8. CASE TakesName(x) BY <1>0, <1>8 DEF TakesName, GivesUp, Go, Early, Late
<1>9. CASE Hears(x) BY <1>0, <1>1, <1>9 DEF Hears, Go, Early, Late
<1>10. CASE Reconciles(x) BY <1>0, <1>1, <1>10 DEF Reconciles, Go, Early, Late
<1>11. CASE Ends(x) BY <1>0, <1>11 DEF Ends, Go, Early, Late
<1>12. CASE Completes(x) BY <1>0, <1>12 DEF Completes, Go, Early, Late
<1>13. CASE SyncsGroup(x) BY <1>0, <1>13 DEF SyncsGroup, Go, Early, Late
<1>14. CASE Downloads(x) BY <1>0, <1>14 DEF Downloads, Go, Early, Late
<1>15. CASE Hands(x)
  <2>1. Kind(x) # "fetch_text" BY DEF Wholes
  <2> QED BY <1>0, <1>15, <2>1 DEF Hands, Go, Early, Late
<1>16. ~(TakesPart(x) \/ Says(x) \/ Sets(x) \/ Keeps(x) \/ IndexesText(x) \/ Unsets(x) \/ ForgetsText(x))
  BY <1>1 DEF TakesPart, Says, Sets, Keeps, IndexesText, Unsets, ForgetsText
<1>17. ~(Refuses(x) \/ Splits(x) \/ SendsSegment(x) \/ RecordsSegment(x))
  BY <1>1 DEF Refuses, Splits, SendsSegment, RecordsSegment
<1> QED BY ONLY Step(x), ~Probes(x), ~Puts(x), <1>2, <1>3, <1>4, <1>5, <1>6, <1>7, <1>8, <1>9, <1>10,
    <1>11, <1>12, <1>13, <1>14, <1>15, <1>16, <1>17 DEF Step

(* Of a count and the doubts that bound it, before and after a step. *)
LEMMA Counts ==
  ASSUME NEW c \in Nat, NEW d \in Nat, NEW e \in Nat, NEW f \in Nat, d <= f
  PROVE  /\ c <= d /\ e <= c + 1 => e <= 1 + f
         /\ c <= 1 + d /\ e = c => e <= 1 + f
         /\ c <= d /\ e = c => e <= f
OBVIOUS

LEMMA WholeStep ==
  ASSUME TypeInv, Placed, Apart(Wholes), WholeInv, NEW x \in Ops, Step(x), NEW o \in Ops
  PROVE  WholeOK(o)'
<1>0. /\ TypeOK /\ PlacedOK(x) /\ WholeOK(o) /\ Owned /\ Kind(o)' = Kind(o)
      /\ Whole \in Seqs \cup {Whole} /\ at \in [Ops -> Places] /\ replayed \in [Ops -> BOOLEAN]
  BY PlanStays DEF TypeInv, Placed, WholeInv, Kind, TypeOK
<1> DEFINE held == Copies(o, Whole)
           c == Cardinality(held)
           d == doubt[<<o, Whole>>]
<1>1. d \in Nat /\ d' \in Nat /\ d <= d' BY <1>0, DoubtGrows
<1>2. IsFiniteSet(held) /\ c \in Nat BY <1>0, CopiesFacts
<1>3. \/ held' = held /\ (Puts(x) => Retried(x) \/ o # x)
      \/ o = x /\ Puts(x) /\ held' = held \cup {Len(media) + 1}
  BY <1>0, WholeStepIs
<1>4. Kind(o) \notin Wholes => ~(o = x /\ Puts(x)) BY <1>0 DEF Puts, PlacedOK
<1>5. CASE Kind(o) \notin Wholes BY <1>0, <1>3, <1>4, <1>5 DEF WholeOK
<1>6. CASE Kind(o) \in Wholes
  <2>0. SUFFICES /\ at'[o] = "paused" => replayed'[o]
                 /\ at'[o] = "idle" => ~replayed'[o]
                 /\ c' <= 1 + d'
                 /\ at'[o] = "put" \/ (at'[o] \in Early /\ ~replayed'[o]) => c' <= d'
                 /\ at'[o] \in Late => held' # {}
    BY <1>0, <1>6 DEF WholeOK, Early, Late
  <2>1. /\ at[o] = "paused" => replayed[o]
        /\ at[o] = "idle" => ~replayed[o]
        /\ c <= 1 + d
        /\ at[o] = "put" \/ (at[o] \in Early /\ ~replayed[o]) => c <= d
        /\ at[o] \in Late => held # {}
    BY <1>0, <1>6 DEF WholeOK
  <2>2. CASE o # x
    <3>1. at'[o] = at[o] /\ replayed'[o] = replayed[o] BY <1>0, <2>2, Stays
    <3>2. held' = held /\ c' = c BY <1>3, <2>2
    <3> HIDE DEF held, c, d
    <3>3. c' <= 1 + d' /\ (c <= d => c' <= d') BY ONLY <1>1, <1>2, <2>1, <3>2, Counts, Zenon
    <3>4. held # {} => held' # {} BY ONLY <3>2
    <3> QED BY ONLY <2>1, <3>1, <3>3, <3>4
  <2>3. CASE o = x /\ Puts(x)
    <3>1. at[x] = "put" BY <2>3 DEF Puts
    <3>2. c <= d BY <2>1, <2>3, <3>1
    <3>3. CASE held' = held /\ Retried(x)
      <4>1. at'[x] = "queued" /\ replayed'[x] BY <1>0, <2>3, <3>3 DEF Retried, Go
      <4>2. c' = c BY <3>3
      <4> HIDE DEF held, c, d
      <4>3. c' <= 1 + d' BY ONLY <1>1, <1>2, <2>1, <4>2, Counts, Zenon
      <4> QED BY ONLY <2>3, <4>1, <4>3 DEF Early, Late
    <3>4. CASE held' = held \cup {Len(media) + 1}
      <4>1. c' <= c + 1 /\ c' \in Nat
        <5> DEFINE k == Len(media) + 1
        <5> HIDE DEF held, k
        <5>1. Cardinality(held \cup {k}) <= Cardinality(held) + 1 /\ Cardinality(held \cup {k}) \in Nat
          BY ONLY <1>2, CardOne
        <5>2. held' = held \cup {k} BY <3>4 DEF k
        <5> QED BY ONLY <5>1, <5>2 DEF c
      <4>2. at'[x] \in {After(x), "queued"} /\ (at'[x] = "queued" => replayed'[x])
        BY <1>0, <2>3 DEF Puts, Retried, Go, After
      <4>3. After(x) \in Late /\ After(x) \notin Early /\ After(x) \notin {"paused", "idle", "put"}
        BY DEF After, Late, Early
      <4>4. held' # {} BY <3>4
      <4> HIDE DEF held, c, d
      <4>5. c' <= 1 + d' BY ONLY <1>1, <1>2, <3>2, <4>1, Counts, Zenon
      <4> QED BY ONLY <2>3, <4>2, <4>3, <4>4, <4>5 DEF Early, Late
    <3> QED BY <1>3, <2>3, <3>3, <3>4
  <2>4. CASE o = x /\ Probes(x)
    <3>1. at[x] = "probe" /\ replayed' = replayed /\ ~Puts(x) BY <2>4 DEF Probes, Puts
    <3>2. held' = held /\ c' = c BY <1>3, <3>1
    <3>3. (Shows(Name(x)) <=> held # {}) /\ (Sent(x, Whole) <=> held # {}) BY <1>0, <1>6, <2>4, ShowsOwn
    <3>4. held = {} => c = 0
      <4> HIDE DEF held
      <4> QED BY FS_EmptySet
    <3>5. After(x) \in Late /\ After(x) \notin Early /\ After(x) \notin {"paused", "idle", "put"}
      BY DEF After, Late, Early
    <3>6. CASE Go(x, IF replayed[x] /\ Shows(Name(x)) THEN After(x) ELSE "put") /\ doubt' = doubt
      <4>1. at'[x] = IF replayed[x] /\ Shows(Name(x)) THEN After(x) ELSE "put" BY <1>0, <3>6 DEF Go
      <4>2. d' = d BY <3>6
      <4> HIDE DEF held, c, d
      <4> QED BY <1>1, <1>2, <2>1, <2>4, <3>1, <3>2, <3>3, <3>4, <3>5, <4>1, <4>2 DEF Early, Late
    <3>7. CASE replayed[x] /\ Go(x, "put") /\ IF Sent(x, Whole) THEN Doubted(x, Whole) ELSE doubt' = doubt
      <4>1. at'[x] = "put" BY <1>0, <3>7 DEF Go
      <4>2. d' = IF held # {} THEN d + 1 ELSE d
        <5>1. doubt \in [Ops \X (Seqs \cup {Whole}) -> Nat] BY <1>0 DEF TypeOK
        <5>2. <<o, Whole>> \in Ops \X (Seqs \cup {Whole}) BY <1>0
        <5>3. CASE held # {}
          <6>1. doubt' = [doubt EXCEPT ![<<o, Whole>>] = @ + 1] BY <2>4, <3>3, <3>7, <5>3 DEF Doubted
          <6> QED BY <5>1, <5>2, <5>3, <6>1
        <5>4. CASE held = {} BY <3>3, <3>7, <5>4
        <5> QED BY <5>3, <5>4
      <4> HIDE DEF held, c, d
      <4> QED BY <1>1, <1>2, <2>1, <2>4, <3>1, <3>2, <3>4, <4>1, <4>2 DEF Early, Late
    <3> QED BY <2>4, <3>6, <3>7 DEF Probes
  <2>5. CASE o = x /\ ~Puts(x) /\ ~Probes(x)
    <3>1. held' = held /\ c' = c BY <1>3, <2>5
    <3>2. /\ at'[x] = "paused" => replayed'[x]
          /\ at'[x] \notin {"idle", "put"}
          /\ at'[x] \in Early /\ ~replayed'[x] => at[x] \in Early /\ ~replayed[x]
          /\ at'[x] \in Late => at[x] \in Late
      BY <1>0, <1>6, <2>1, <2>5, WholeMoves
    <3> HIDE DEF held, c, d
    <3>3. c' <= 1 + d' /\ (c <= d => c' <= d') BY ONLY <1>1, <1>2, <2>1, <3>1, Counts, Zenon
    <3>4. held # {} => held' # {} BY ONLY <3>1
    <3> QED BY ONLY <2>1, <2>5, <3>2, <3>3, <3>4
  <2> QED BY <2>2, <2>3, <2>4, <2>5
<1> QED BY <1>5, <1>6

-----------------------------------------------------------------------------
(* A crash. *)
LEMMA CrashDoubts ==
  ASSUME TypeOK, Crash, NEW o \in Ops, NEW s \in Seqs \cup {Whole}
  PROVE  /\ doubt[<<o, s>>] \in Nat
         /\ doubt'[<<o, s>>] \in {doubt[<<o, s>>], doubt[<<o, s>>] + 1}
         /\ Live(o) /\ Kind(o) \notin {"text", "video"} /\ Sent(o, s)
            => doubt'[<<o, s>>] = doubt[<<o, s>>] + 1
<1>1. doubt \in [Ops \X (Seqs \cup {Whole}) -> Nat] BY DEF TypeOK
<1>2. <<o, s>> \in DOMAIN doubt /\ doubt[<<o, s>>] \in Nat BY <1>1
<1>3. doubt'[<<o, s>>] = doubt[<<o, s>>] +
        IF \/ at[o] \in {"set", "keep"} /\ part[o].seq = s
           \/ at[o] = "row" /\ part[o].seq = s
           \/ Live(o) /\ Kind(o) \notin {"text", "video"} /\ Sent(o, s)
        THEN 1 ELSE 0
  BY <1>2 DEF Crash
<1> QED BY <1>2, <1>3

LEMMA CrashIs ==
  ASSUME TypeOK, Crash, NEW o \in Ops
  PROVE  /\ at'[o] = (IF Live(o) THEN "queued" ELSE at[o]) /\ ~replayed'[o] /\ payload' = ledger
         /\ "crash" \in plan.faults /\ UNCHANGED <<plan, ledger, part, disk, essence, media, texts, parents>>
         /\ \A s \in Seqs \cup {Whole} : Copies(o, s)' = Copies(o, s)
<1>1. /\ at'[o] = (IF Live(o) THEN "queued" ELSE at[o]) /\ ~replayed'[o] /\ payload' = ledger
      /\ "crash" \in plan.faults /\ UNCHANGED <<plan, ledger, part, disk, essence, media, texts, parents>>
  BY DEF Crash, Trouble, cloud, index
<1>2. \A s \in Seqs \cup {Whole} : Copies(o, s)' = Copies(o, s) BY <1>1, CopiesStay
<1> QED BY <1>1, <1>2

LEMMA SplitCrash ==
  ASSUME TypeOK, SplitInv, Crash PROVE SplitInv'
<1>1. \A o \in Ops : Kind(o)' = Kind(o) /\ payload'[o] = ledger[o] /\ ledger'[o] = ledger[o]
  BY CrashIs DEF Kind, Crash
<1>2. Renamed' BY <1>1 DEF SplitInv, Renamed
<1>3. ParentsOK' BY <1>1 DEF SplitInv, ParentsOK, Parent
<1>4. ASSUME NEW o \in Ops PROVE SegmentsOK(o)'
  <2>1. SegmentsOK(o) /\ ledger[o].parent \in {0, Parent(o)} /\ Parent(o)' = ledger[o].parent
    BY <1>1 DEF SplitInv, ParentsOK, Parent
  <2>2. \A s \in Seqs : Copies(o, s)' = Copies(o, s) BY CrashIs
  <2>3. at'[o] \in {"queued", "idle", "failed", "done"} /\ (at'[o] = "done" => at[o] = "done")
    BY CrashIs DEF Live
  <2>4. \A s \in Seqs : Recorded(o, s)' <=> Parent(o)' # 0 /\ Recorded(o, s)
    BY <2>1, CrashIs DEF Recorded
  <2> QED BY ONLY <1>1, <2>1, <2>2, <2>3, <2>4 DEF SegmentsOK
<1> QED BY <1>2, <1>3, <1>4 DEF SplitInv

LEMMA WholeCrash ==
  ASSUME TypeOK, Apart(Wholes), WholeInv, Crash PROVE WholeInv'
<1>1. \A o \in Ops : Kind(o)' = Kind(o) /\ Name(o)' = Name(o) /\ Uuid(o)' = Uuid(o) /\ Declared(o)' = Declared(o)
  BY CrashIs DEF Kind, Name, Uuid, Declared, Crash
<1>2. UNCHANGED <<plan, disk, media>> BY DEF Crash, cloud
<1>3. Named' BY <1>2 DEF WholeInv, Named, Name
<1>4. Owned' BY <1>1, <1>2 DEF WholeInv, Owned
<1>5. ASSUME NEW o \in Ops PROVE WholeOK(o)'
  <2> DEFINE held == Copies(o, Whole)
             c == Cardinality(held)
             d == doubt[<<o, Whole>>]
  <2>1. WholeOK(o) /\ held' = held /\ Whole \in Seqs \cup {Whole} BY CrashIs DEF WholeInv
  <2>2. CASE Kind(o) \notin Wholes BY <1>1, <2>1, <2>2 DEF WholeOK
  <2>3. CASE Kind(o) \in Wholes
    <3>1. /\ at[o] = "idle" => ~replayed[o]
          /\ c <= 1 + d
          /\ at[o] = "put" \/ (at[o] \in Early /\ ~replayed[o]) => c <= d
          /\ at[o] \in Late => held # {}
      BY <2>1, <2>3 DEF WholeOK
    <3>2. /\ d \in Nat /\ d' \in {d, d + 1} /\ (Live(o) /\ held # {} => d' = d + 1)
          /\ at'[o] = (IF Live(o) THEN "queued" ELSE at[o]) /\ ~replayed'[o]
      <4>1. Sent(o, Whole) <=> held # {} BY <2>3, ShowsOwn
      <4>2. Kind(o) \notin {"text", "video"} BY <2>3 DEF Wholes
      <4>3. at'[o] = (IF Live(o) THEN "queued" ELSE at[o]) /\ ~replayed'[o] BY CrashIs
      <4>4. d \in Nat /\ d' \in {d, d + 1} /\ (Live(o) /\ Kind(o) \notin {"text", "video"} /\ Sent(o, Whole) => d' = d + 1)
        <5>1. Whole \in Seqs \cup {Whole} OBVIOUS
        <5> QED BY <5>1, CrashDoubts
      <4> HIDE DEF held, d
      <4> QED BY ONLY <4>1, <4>2, <4>3, <4>4
    <3>3. c \in Nat /\ c' = c /\ (held = {} => c = 0)
      <4>1. c \in Nat /\ c' = c BY <2>1, CopiesFacts
      <4>2. held = {} => c = 0
        <5> HIDE DEF held
        <5> QED BY FS_EmptySet
      <4> QED BY <4>1, <4>2
    <3>4. at'[o] \in {"queued", "idle", "failed", "done"} /\ (at'[o] = "done" => at[o] = "done")
          /\ (at'[o] = "idle" => at[o] = "idle") /\ (at'[o] = "queued" => Live(o))
      BY <3>2 DEF Live
    <3> HIDE DEF held, c, d
    <3>5. PICK n \in Nat, i \in Nat, j \in Nat : n = c /\ n = c' /\ i = d /\ j = d' BY <3>2, <3>3
    <3>6. n <= 1 + i /\ j \in {i, i + 1} BY <3>1, <3>2, <3>5
    <3>7. n <= 1 + j BY ONLY <3>6
    <3>8. at'[o] = "queued" => n <= j
      <4>1. CASE held = {} BY <3>3, <3>5, <4>1
      <4>2. CASE held # {}
        <5>1. at'[o] = "queued" => j = i + 1 BY <3>2, <3>4, <3>5, <4>2
        <5> QED BY ONLY <3>6, <5>1
      <4> QED BY <4>1, <4>2
    <3>9. at'[o] = "idle" => n <= j
      <4>1. at'[o] = "idle" => n <= i BY <3>1, <3>4, <3>5 DEF Early
      <4> QED BY ONLY <3>6, <4>1
    <3>10. c' <= 1 + d' /\ (at'[o] \in {"queued", "idle"} => c' <= d') BY <3>5, <3>7, <3>8, <3>9
    <3>11. at'[o] = "done" => held' # {} BY <2>1, <3>1, <3>4 DEF Late
    <3>12. /\ at'[o] = "paused" => replayed'[o]
           /\ at'[o] = "idle" => ~replayed'[o]
           /\ c' <= 1 + d'
           /\ at'[o] = "put" \/ (at'[o] \in Early /\ ~replayed'[o]) => c' <= d'
           /\ at'[o] \in Late => held' # {}
      BY ONLY <3>2, <3>4, <3>10, <3>11 DEF Early, Late
    <3> QED BY <1>1, <2>3, <3>12 DEF WholeOK, Early, Late, held, c, d
  <2> QED BY <2>2, <2>3
<1> QED BY <1>3, <1>4, <1>5 DEF WholeInv

-----------------------------------------------------------------------------
(* At first nothing is on the cloud and nothing is staged. *)
LEMMA MediaInit == Init => SplitInv /\ SentInv /\ WholeInv
<1> SUFFICES ASSUME Init PROVE SplitInv /\ SentInv /\ WholeInv OBVIOUS
<1>1. /\ media = <<>> /\ \A o \in Ops : at[o] = "idle" /\ ~replayed[o]
      /\ \A o \in Ops : /\ ~payload[o].renamed /\ payload[o].parent = 0
                         /\ ~ledger[o].renamed /\ ledger[o].parent = 0
      /\ \A p \in Paths : disk[p] = Nobody
      /\ \A o \in Ops, s \in Seqs \cup {Whole} : doubt[<<o, s>>] = 0
  BY DEF Init
<1>2. \A o \in Ops : Uuid(o) \in Paths /\ Declared(o) \in Paths BY DEF Uuid, Declared, Name, Paths
<1>3. \A o \in Ops, s \in Seqs \cup {Whole} : Copies(o, s) = {} BY <1>1 DEF Copies
<1>4. Cardinality({}) = 0 BY FS_EmptySet
<1>5. \A o \in Ops, s \in Seqs \cup {Whole} : Cardinality(Copies(o, s)) = 0 /\ Cardinality(Copies(o, s)) <= 0
  BY <1>3, <1>4
<1>6. SplitInv
  <2>1. Renamed /\ ParentsOK BY <1>1 DEF Renamed, ParentsOK, Parent
  <2>2. \A o \in Ops : SegmentsOK(o) BY <1>1, <1>3 DEF SegmentsOK, Recorded, Parent
  <2> QED BY <2>1, <2>2 DEF SplitInv
<1>7. SentInv
  <2> SUFFICES ASSUME NEW o \in Ops, NEW s \in Seqs
               PROVE  Cardinality(Copies(o, s)) <= 1 + doubt[<<o, s>>] /\ Cardinality(Copies(o, s)) <= doubt[<<o, s>>]
    BY DEF SentInv, SentWell
  <2> QED BY <1>1, <1>5
<1>8. WholeInv
  <2>1. Named BY <1>1 DEF Named
  <2>2. Owned BY <1>1, <1>2 DEF Owned
  <2>3. ASSUME NEW o \in Ops PROVE WholeOK(o)
    <3>1. Whole \in Seqs \cup {Whole} OBVIOUS
    <3>2. doubt[<<o, Whole>>] = 0 /\ Cardinality(Copies(o, Whole)) = 0 /\ Copies(o, Whole) = {}
      BY <1>1, <1>3, <1>5, <3>1
    <3>3. at[o] = "idle" /\ ~replayed[o] BY <1>1
    <3> QED BY <3>2, <3>3 DEF WholeOK, Late
  <2> QED BY <2>1, <2>2, <2>3 DEF WholeInv
<1> QED BY <1>6, <1>7, <1>8

LEMMA MediaStutter ==
  ASSUME UNCHANGED vars
  PROVE  (SplitInv => SplitInv') /\ (SentInv => SentInv') /\ (WholeInv => WholeInv')
<1>1. UNCHANGED <<plan, at, replayed, payload, ledger, part, disk, media, parents, doubt>> BY ONLY UNCHANGED vars DEF vars, cloud, index
<1>2. \A o \in Ops, s \in Seqs \cup {Whole} : Copies(o, s)' = Copies(o, s) BY ONLY <1>1 DEF Copies
<1>3. \A o \in Ops : /\ Kind(o)' = Kind(o) /\ Name(o)' = Name(o) /\ Parent(o)' = Parent(o)
                     /\ Uuid(o)' = Uuid(o) /\ Declared(o)' = Declared(o)
  BY ONLY <1>1 DEF Kind, Name, Parent, Uuid, Declared
<1>4. \A o \in Ops, s \in Seqs : Recorded(o, s)' <=> Recorded(o, s) BY ONLY <1>1, <1>3 DEF Recorded
<1>5. SplitInv => SplitInv'
  <2>1. Renamed => Renamed' BY ONLY <1>1, <1>3 DEF Renamed
  <2>2. ParentsOK => ParentsOK' BY ONLY <1>1, <1>3 DEF ParentsOK
  <2>3. \A o \in Ops : SegmentsOK(o) => SegmentsOK(o)' BY ONLY <1>1, <1>2, <1>3, <1>4 DEF SegmentsOK
  <2> QED BY ONLY <2>1, <2>2, <2>3 DEF SplitInv
<1>6. SentInv => SentInv'
  <2>1. \A o \in Ops : SentWell(o) => SentWell(o)' BY ONLY <1>1, <1>2, <1>3, <1>4 DEF SentWell
  <2>2. NoCrash({"video"})' => NoCrash({"video"}) BY ONLY <1>1, <1>3 DEF NoCrash
  <2> QED BY ONLY <2>1, <2>2 DEF SentInv
<1>7. WholeInv => WholeInv'
  <2>1. Named => Named' BY ONLY <1>1 DEF Named, Name
  <2>2. Owned => Owned' BY ONLY <1>1, <1>3 DEF Owned
  <2>3. \A o \in Ops : WholeOK(o) => WholeOK(o)' BY ONLY <1>1, <1>2, <1>3 DEF WholeOK
  <2> QED BY ONLY <2>1, <2>2, <2>3 DEF WholeInv
<1> QED BY ONLY <1>5, <1>6, <1>7

-----------------------------------------------------------------------------
(* The invariant of media: of segments always, of their count where no video
   meets a crash, of what is sent whole where no two of a name are staged. *)
MediaInv == SplitInv /\ SentInv /\ (Apart(Wholes) => WholeInv)
SentHolds == IngestInv /\ MediaInv

LEMMA PlanKeeps ==
  ASSUME Next
  PROVE  /\ UNCHANGED plan /\ \A o \in Ops : Kind(o)' = Kind(o)
         /\ \A kinds : (Apart(kinds)' <=> Apart(kinds)) /\ (NoCrash(kinds)' <=> NoCrash(kinds))
<1>1. UNCHANGED plan
  <2>1. CASE Crash BY <2>1 DEF Crash
  <2>2. ASSUME NEW x \in Ops, Step(x) PROVE UNCHANGED plan BY <2>2, PlanStays
  <2> QED BY <2>1, <2>2 DEF Next, Step
<1> QED BY <1>1 DEF Kind, Name, Apart, NoCrash

LEMMA MediaNext == SentHolds /\ [Next]_vars => SentHolds'
<1> SUFFICES ASSUME SentHolds, [Next]_vars PROVE MediaInv' BY InvStep DEF SentHolds
<1>1. TypeInv /\ TypeOK /\ Placed /\ SplitInv /\ SentInv /\ (Apart(Wholes) => WholeInv)
  BY DEF SentHolds, MediaInv, IngestInv, TypeInv
<1>2. CASE UNCHANGED vars
  <2>1. Apart(Wholes)' <=> Apart(Wholes)
    <3>1. UNCHANGED plan BY ONLY <1>2 DEF vars
    <3> QED BY ONLY <3>1 DEF Apart, Kind, Name
  <2> QED BY <1>1, <1>2, <2>1, MediaStutter DEF MediaInv
<1>3. CASE Next
  <2>0. /\ \A o \in Ops : Kind(o)' = Kind(o)
        /\ (Apart(Wholes)' <=> Apart(Wholes)) /\ (NoCrash({"video"})' <=> NoCrash({"video"}))
    BY <1>3, PlanKeeps
  <2>1. CASE Crash
    <3>1. SplitInv' BY <1>1, <2>1, SplitCrash
    <3>2. SentInv'
      <4>1. NoCrash({"video"}) => \A o \in Ops : Kind(o) # "video" BY <2>1 DEF Crash, Trouble, NoCrash
      <4> QED BY <2>0, <4>1 DEF SentInv, SentWell
    <3>3. Apart(Wholes)' => WholeInv' BY <1>1, <2>0, <2>1, WholeCrash
    <3> QED BY <3>1, <3>2, <3>3 DEF MediaInv
  <2>2. ASSUME NEW x \in Ops, Step(x) PROVE MediaInv'
    <3>1. SplitInv' BY <1>1, <2>2, SplitStep
    <3>2. SentInv'
      <4>1. \A o \in Ops : SentWell(o) => SentWell(o)' BY <1>1, <2>2, SentWellStep
      <4> QED BY <1>1, <2>0, <4>1 DEF SentInv
    <3>3. ASSUME Apart(Wholes) PROVE WholeInv'
      <4>1. WholeInv BY <1>1, <3>3
      <4>2. Named' /\ Owned' BY <1>1, <2>2, <3>3, <4>1, NamedStep, OwnedStep DEF WholeInv
      <4>3. \A o \in Ops : WholeOK(o)' BY <1>1, <2>2, <3>3, <4>1, WholeStep
      <4> QED BY <4>2, <4>3 DEF WholeInv
    <3> QED BY <2>0, <3>1, <3>2, <3>3 DEF MediaInv
  <2> QED BY <1>3, <2>1, <2>2 DEF Next, Step
<1> QED BY <1>2, <1>3

(* The inductive invariant with the media, of which each part holds under the
   names and faults it needs. *)
THEOREM MediaAlways == Spec => []SentHolds
<1>1. Init => SentHolds
  <2>1. Init => IngestInv BY TypesInit, TextsInit DEF IngestInv
  <2> QED BY <2>1, MediaInit DEF SentHolds, MediaInv
<1> QED BY <1>1, MediaNext, PTL DEF Spec

(* Nothing is sent more often than once and as often as nobody could know that
   it was sent, if no two operations that send a file whole have one name and
   no video meets a crash. *)
THEOREM SentOnceAlways == Spec => [](Apart(Wholes) /\ NoCrash({"video"}) => SentOnce)
<1>1. SentHolds => (Apart(Wholes) /\ NoCrash({"video"}) => SentOnce)
  <2> SUFFICES ASSUME SentHolds, Apart(Wholes), NoCrash({"video"}) PROVE SentOnce OBVIOUS
  <2>0. TypeOK /\ SplitInv /\ (\A o \in Ops : SentWell(o)) /\ WholeInv /\ TextsOK
    BY DEF SentHolds, MediaInv, SentInv, IngestInv, TypeInv
  <2>1. \A o \in Ops, s \in Seqs \cup {Whole} : doubt[<<o, s>>] \in Nat BY <2>0 DEF TypeOK
  <2>2. Cardinality({}) = 0 BY FS_EmptySet
  <2>3. ASSUME NEW o \in Ops, NEW s \in Seqs PROVE Cardinality(Copies(o, s)) <= 1 + doubt[<<o, s>>]
    <3>1. CASE Kind(o) = "video" BY <2>0, <3>1 DEF SentWell
    <3>2. CASE Kind(o) # "video"
      <4>1. Copies(o, s) = {} BY <2>0, <3>2 DEF SplitInv, SegmentsOK
      <4> QED BY <2>1, <2>2, <4>1
    <3> QED BY <3>1, <3>2
  <2>4. ASSUME NEW o \in Ops PROVE Cardinality(Copies(o, Whole)) <= 1 + doubt[<<o, Whole>>]
    <3>1. CASE Kind(o) \in Wholes BY <2>0, <3>1 DEF WholeInv, WholeOK
    <3>2. CASE Kind(o) \notin Wholes
      <4>1. Copies(o, Whole) = {} BY <2>0, <3>2 DEF WholeInv, WholeOK
      <4> QED BY <2>1, <2>2, <4>1
    <3> QED BY <3>1, <3>2
  <2>5. ASSUME NEW o \in Ops, NEW s \in Seqs, Kind(o) = "text"
        PROVE  Cardinality(Messages(o, s)) <= 1 + doubt[<<o, s>>]
    <3>1. Cardinality(Messages(o, s) \ {Hand(o, s)}) <= doubt[<<o, s>>]
      BY <2>0, <2>5 DEF TextsOK, TextOK, PartOK
    <3>2. IsFiniteSet(Messages(o, s)) BY <2>0, MessagesFacts
    <3>3. doubt[<<o, s>>] \in Nat BY <2>1
    <3> DEFINE M == Messages(o, s)
               h == Hand(o, s)
               d == doubt[<<o, s>>]
    <3> HIDE DEF M, h, d
    <3>4. /\ Cardinality(M) <= Cardinality(M \ {h}) + 1
          /\ Cardinality(M) \in Nat /\ Cardinality(M \ {h}) \in Nat
      <4>1. IsFiniteSet(M) BY <3>2 DEF M
      <4> QED BY ONLY <4>1, CardOne, FS_Subset, FS_CardinalityType
    <3>5. Cardinality(M \ {h}) <= d /\ d \in Nat BY <3>1, <3>3 DEF M, h, d
    <3>6. Cardinality(M) <= 1 + d BY ONLY <3>4, <3>5
    <3> QED BY ONLY <3>6 DEF M, d
  <2> QED BY <2>3, <2>4, <2>5 DEF SentOnce
<1> QED BY <1>1, MediaAlways, PTL

-----------------------------------------------------------------------------
(* The source of an operation that may run again. *)
Kept(o) == (payload[o].renamed /\ disk[Declared(o)] = o) \/ disk[Uuid(o)] = o
Wanted(o) == /\ Kind(o) \in {"image", "clip", "video"} /\ Live(o) /\ at[o] # "ended"
             /\ Kind(o) # "video" => Copies(o, Whole) = {}
SourcesInv == \A o \in Ops : Wanted(o) => Kept(o)

LEMMA SourceIs ==
  ASSUME TypeOK, Owned, Renamed, NEW o \in Ops, Kept(o) PROVE Source(o) \in Paths /\ disk[Source(o)] = o
<1>1. Uuid(o) \in Paths /\ Declared(o) \in Paths /\ Nobody \notin Ops BY Inputs, TypeIsControl
<1>2. payload[o].renamed => disk[Declared(o)] \in {o, Nobody} BY DEF Renamed, Owned, Albums
<1>3. disk[Uuid(o)] \in {o, Nobody} BY DEF Owned
<1> QED BY <1>1, <1>2, <1>3 DEF Kept, Source

(* What an operation with a staged source does to it. *)
LEMMA OwnSource ==
  ASSUME TypeOK, NEW x \in Ops, PlacedOK(x), Kind(x) \in {"image", "clip", "video"}, Step(x)
  PROVE  \/ at'[x] \in {"failed", "ended", "done"}
         \/ Submit(x) /\ disk'[Uuid(x)] = x
         \/ disk' = disk /\ payload'[x].renamed = payload[x].renamed /\ Live(x) /\ at[x] # "ended"
         \/ /\ TakesName(x) /\ Kind(x) = "image" /\ Live(x) /\ at[x] # "ended"
            /\ payload'[x].renamed
            /\ Source(x) \in Paths => disk'[Declared(x)] = disk[Source(x)]
<1>0. /\ at \in [Ops -> Places] /\ disk \in [Paths -> Ops \cup {Nobody}] /\ payload \in Payloads
      /\ Uuid(x) \in Paths /\ Declared(x) \in Paths /\ Uuid(x) # Declared(x)
      /\ Kind(x) \in Uploads /\ Kind(x) \notin Fetches
  BY Inputs, TypeIsControl, PathsDiffer DEF TypeOK, Uploads, Fetches
<1>1. at[x] \notin {"part", "say", "set", "keep", "index", "unset", "list", "reconcile", "refuse",
                    "download", "fetched"}
  BY <1>0 DEF PlacedOK, Uploads
<1>2. Drops(x) = disk BY <1>0 DEF Drops
<1>3. CASE Submit(x) BY <1>0, <1>3 DEF Submit, Staged
<1>4. CASE Ends(x) \/ Completes(x) BY <1>0, <1>4 DEF Ends, Completes, Go
<1>5. CASE TakesName(x)
  <2>1. at[x] = "album" /\ Live(x) BY <1>5 DEF TakesName, Live
  <2>2. Kind(x) = "image" BY <1>0, <2>1 DEF PlacedOK, Albums, Fetches
  <2>3. CASE GivesUp(x) BY <1>0, <2>3 DEF GivesUp, Go
  <2>4. CASE ~GivesUp(x)
    <3> DEFINE from == Source(x)
    <3>1. /\ payload' = [payload EXCEPT ![x].renamed = Kind(x) = "image"]
          /\ disk' = IF from \notin Paths THEN disk
                     ELSE [[disk EXCEPT ![Declared(x)] = disk[from]] EXCEPT ![Uuid(x)] = Nobody]
      BY <1>5, <2>4 DEF TakesName
    <3>2. payload'[x].renamed BY <1>0, <2>2, <3>1 DEF Payloads
    <3> HIDE DEF from
    <3>3. from \in Paths => disk'[Declared(x)] = disk[from] BY <1>0, <3>1
    <3> QED BY <1>5, <2>1, <2>2, <3>2, <3>3 DEF from
  <2> QED BY <2>3, <2>4
<1>6. CASE ~(Submit(x) \/ Ends(x) \/ Completes(x) \/ TakesName(x))
  <2>1. Live(x) /\ at[x] # "ended"
    BY <1>6 DEF Step, Starts, Fails, Pauses, Resumes, TakesPart, Says, Sets, Keeps, IndexesText,
      Unsets, ForgetsText, Hears, Reconciles, FindsSource, Refuses, Probes, Puts, SyncsGroup, Splits,
      SendsSegment, RecordsSegment, Downloads, Hands, Live
  <2>2. payload'[x].renamed = payload[x].renamed BY <1>6, PayloadParts
  <2>3. disk' = disk \/ at'[x] = "failed"
    <3>1. CASE Fails(x) BY <1>2, <3>1 DEF Fails, Retried
    <3>2. CASE Pauses(x) BY <1>2, <3>2 DEF Pauses
    <3>3. CASE FindsSource(x) BY <1>0, <3>3 DEF FindsSource, GivesUp, Go
    <3>4. CASE Puts(x) BY <1>2, <3>4 DEF Puts, Retried
    <3>5. CASE SendsSegment(x) BY <1>2, <3>5 DEF SendsSegment, Retried
    <3>6. ~(Says(x) \/ Sets(x) \/ Refuses(x) \/ Downloads(x) \/ Hands(x))
      BY <1>1 DEF Says, Sets, Refuses, Downloads, Hands
    <3> QED BY <1>6, <3>1, <3>2, <3>3, <3>4, <3>5, <3>6, DiskRests
  <2> QED BY <2>1, <2>2, <2>3
<1> QED BY <1>3, <1>4, <1>5, <1>6

LEMMA SourcesStep ==
  ASSUME TypeInv, Placed, SplitInv, Apart(Wholes), WholeInv, SourcesInv, NEW x \in Ops, Step(x)
  PROVE  SourcesInv'
<1> SUFFICES ASSUME NEW o \in Ops, Wanted(o)' PROVE Kept(o)' BY DEF SourcesInv
<1>0. /\ TypeOK /\ PlacedOK(x) /\ Owned /\ Renamed /\ UNCHANGED plan
      /\ Uuid(o) \in Paths /\ Declared(o) \in Paths
  BY PlanStays, Inputs, TypeIsControl DEF TypeInv, Placed, WholeInv, SplitInv
<1>1. Kind(o)' = Kind(o) /\ Declared(o)' = Declared(o) /\ Uuid(o)' = Uuid(o)
  BY <1>0 DEF Kind, Declared, Uuid, Name
<1>2. /\ Kind(o) \in {"image", "clip", "video"} /\ at'[o] \notin {"idle", "failed", "done", "ended"}
      /\ Kind(o) # "video" => Copies(o, Whole) = {}
  <2>1. Copies(o, Whole)' = {} => Copies(o, Whole) = {} BY <1>0, WholeStepIs
  <2> QED BY <1>1, <2>1 DEF Wanted, Live
<1>3. SUFFICES (payload'[o].renamed /\ disk'[Declared(o)] = o) \/ disk'[Uuid(o)] = o
  BY <1>1 DEF Kept
<1>4. CASE o # x
  <2>1. at'[o] = at[o] /\ payload'[o] = payload[o] BY <1>0, <1>4, Stays
  <2>2. Kept(o) BY <1>2, <2>1 DEF SourcesInv, Wanted, Live
  <2>3. Uuid(o) # Uuid(x) /\ Uuid(o) # Declared(x) /\ Declared(o) # Uuid(x) BY <1>4, PathsDiffer
  <2>4. disk'[Uuid(o)] = disk[Uuid(o)] BY <1>0, <2>3, DiskMoves
  <2>5. payload[o].renamed => disk'[Declared(o)] = disk[Declared(o)]
    <3>1. SUFFICES ASSUME payload[o].renamed, Declared(o) = Declared(x),
                          payload[x].renamed \/ at[x] = "album"
                   PROVE  FALSE
      BY <1>0, <2>3, DiskMoves
    <3>2. Kind(o) \in Wholes /\ Kind(x) \in Wholes BY <1>0, <3>1 DEF Renamed, PlacedOK, Wholes, Albums
    <3>3. Name(o) = Name(x) BY <3>1, PathsDiffer
    <3> QED BY <1>4, <3>2, <3>3 DEF Apart
  <2> QED BY <2>1, <2>2, <2>4, <2>5 DEF Kept
<1>5. CASE o = x
  <2>1. \/ Submit(x) /\ disk'[Uuid(x)] = x
        \/ disk' = disk /\ payload'[x].renamed = payload[x].renamed /\ Live(x) /\ at[x] # "ended"
        \/ /\ TakesName(x) /\ Kind(x) = "image" /\ Live(x) /\ at[x] # "ended"
           /\ payload'[x].renamed
           /\ Source(x) \in Paths => disk'[Declared(x)] = disk[Source(x)]
    BY <1>0, <1>2, <1>5, OwnSource
  <2>2. Live(x) /\ at[x] # "ended" => Kept(x) BY <1>2, <1>5 DEF SourcesInv, Wanted
  <2>3. Kept(x) => Source(x) \in Paths /\ disk[Source(x)] = x BY <1>0, SourceIs
  <2> QED BY <1>5, <2>1, <2>2, <2>3 DEF Kept
<1> QED BY <1>4, <1>5

LEMMA SourcesCrash ==
  ASSUME TypeInv, SplitInv, WholeInv, SourcesInv, NoCrash({"image", "video"}), Crash
  PROVE  SourcesInv'
<1> SUFFICES ASSUME NEW o \in Ops, Wanted(o)' PROVE Kept(o)' BY DEF SourcesInv
<1>0. TypeOK /\ Renamed /\ WholeOK(o) BY DEF TypeInv, SplitInv, WholeInv
<1>1. /\ at'[o] = (IF Live(o) THEN "queued" ELSE at[o]) /\ "crash" \in plan.faults
      /\ UNCHANGED <<plan, disk>> /\ Copies(o, Whole)' = Copies(o, Whole)
  BY <1>0, CrashIs
<1>2. Kind(o)' = Kind(o) /\ Uuid(o)' = Uuid(o) BY <1>1 DEF Kind, Uuid
<1>3. Kind(o) = "clip" BY <1>1, <1>2 DEF NoCrash, Wanted
<1>4. Live(o) /\ Copies(o, Whole) = {} BY <1>1, <1>2, <1>3 DEF Wanted, Live
<1>5. at[o] # "ended" BY <1>0, <1>3, <1>4 DEF WholeOK, Wholes, Late
<1>6. Kept(o) BY <1>3, <1>4, <1>5 DEF SourcesInv, Wanted
<1>7. ~payload[o].renamed BY <1>0, <1>3 DEF Renamed
<1> QED BY <1>1, <1>2, <1>6, <1>7 DEF Kept

SourcesHold == SentHolds /\ (Apart(Wholes) /\ NoCrash({"image", "video"}) => SourcesInv)

LEMMA SourcesNext == SourcesHold /\ [Next]_vars => SourcesHold'
<1> SUFFICES ASSUME SourcesHold, [Next]_vars, (Apart(Wholes) /\ NoCrash({"image", "video"}))' PROVE SourcesInv'
  BY MediaNext DEF SourcesHold
<1>1. TypeInv /\ Placed /\ SplitInv /\ (Apart(Wholes) => WholeInv)
  BY DEF SourcesHold, SentHolds, MediaInv, IngestInv
<1>2. CASE UNCHANGED vars
  <2>1. UNCHANGED <<plan, at, payload, disk, media>> BY ONLY <1>2 DEF vars, cloud
  <2>2. SourcesInv
    <3>1. Apart(Wholes) /\ NoCrash({"image", "video"}) BY <2>1 DEF Apart, NoCrash, Kind, Name
    <3> QED BY <3>1 DEF SourcesHold
  <2>3. \A o \in Ops : /\ Kind(o)' = Kind(o) /\ Declared(o)' = Declared(o) /\ Uuid(o)' = Uuid(o)
                       /\ (Live(o)' <=> Live(o)) /\ Copies(o, Whole)' = Copies(o, Whole)
    BY ONLY <2>1 DEF Kind, Declared, Uuid, Name, Live, Copies
  <2>4. \A o \in Ops : (Wanted(o)' <=> Wanted(o)) /\ (Kept(o)' <=> Kept(o))
    BY ONLY <2>1, <2>3 DEF Wanted, Kept
  <2> QED BY ONLY <2>2, <2>4 DEF SourcesInv
<1>3. CASE Next
  <2>1. Apart(Wholes) /\ NoCrash({"image", "video"}) BY <1>3, PlanKeeps
  <2>2. SourcesInv /\ WholeInv BY <1>1, <2>1 DEF SourcesHold
  <2>3. CASE Crash BY <1>1, <2>1, <2>2, <2>3, SourcesCrash
  <2>4. ASSUME NEW x \in Ops, Step(x) PROVE SourcesInv' BY <1>1, <2>1, <2>2, <2>4, SourcesStep
  <2> QED BY <1>3, <2>3, <2>4 DEF Next, Step
<1> QED BY <1>2, <1>3

(* An operation that may run again finds its own source, if no two operations
   that send a file whole have one name and no image or video meets a crash. *)
THEOREM SourceKeptAlways == Spec => [](Apart(Wholes) /\ NoCrash({"image", "video"}) => SourceKept)
<1>1. Init => SourcesHold
  <2>1. Init => SentHolds
    <3>1. Init => IngestInv BY TypesInit, TextsInit DEF IngestInv
    <3> QED BY <3>1, MediaInit DEF SentHolds, MediaInv
  <2>2. Init => SourcesInv BY DEF Init, SourcesInv, Wanted, Live
  <2> QED BY <2>1, <2>2 DEF SourcesHold
<1>2. SourcesHold => (Apart(Wholes) /\ NoCrash({"image", "video"}) => SourceKept)
  <2> SUFFICES ASSUME SourcesHold, Apart(Wholes), NoCrash({"image", "video"}) PROVE SourceKept OBVIOUS
  <2>1. TypeOK /\ Owned /\ Renamed /\ SourcesInv
    BY DEF SourcesHold, SentHolds, IngestInv, TypeInv, MediaInv, WholeInv, SplitInv
  <2> QED BY <2>1, SourceIs DEF SourceKept, SourcesInv, Wanted
<1> QED BY <1>1, <1>2, SourcesNext, PTL DEF Spec

-----------------------------------------------------------------------------
(* What is done was delivered. *)

(* No fetch of a text meets a failure or a pause. *)
Undisturbed == plan.faults \cap {"fail", "pause"} # {} => \A o \in Ops : Kind(o) # "fetch_text"

Stands(o) == \A s \in Seqs : texts[Name(o)].parts[s] \in Messages(o, s) /\ texts[Name(o)].status = "active"
Forgotten(o) == \E x \in Ops : Name(x) = Name(o) /\ Kind(x) = "forget" /\ at[x] = "done"
TextDone(o) == Kind(o) = "text" /\ at[o] = "done" => Stands(o) \/ Forgotten(o)
FetchOK(o) == Kind(o) = "fetch_text" => /\ ~replayed[o]
                                        /\ at[o] = "done" => \A s \in Seqs : Messages(o, s) # {}
DoneInv == /\ Apart({"text"}) => \A o \in Ops : TextDone(o)
           /\ Undisturbed => \A o \in Ops : FetchOK(o)

(* A message stays a message; both parts of a text that is handed on are there. *)
LEMMA MessagesGrow ==
  ASSUME TypeInv, NEW x \in Ops, Step(x), NEW o \in Ops, NEW s \in Seqs
  PROVE  /\ Messages(o, s) \subseteq Messages(o, s)'
         /\ o = x /\ Hands(x) /\ Kind(x) = "fetch_text" /\ ~replayed[x] => Messages(o, s)' # {}
<1>0. TypeOK BY DEF TypeInv
<1>1. CASE Says(x)
  <2>1. part[x].seq \in Seqs /\ essence' = Append(essence, Message(x, part[x].seq))
    BY <1>1 DEF Says, TypeInv, InHand
  <2>2. ~Hands(x) BY <1>1 DEF Says, Hands
  <2> QED BY <1>0, <2>1, <2>2, MessagesSaid
<1>2. CASE Hands(x)
  <2>1. essence \in Seq(Posts) /\ Len(essence) \in Nat BY <1>0, EssenceIs
  <2> DEFINE a == Message(x, 1)
             b == Message(x, 2)
  <2>2. /\ essence' = essence \/ essence' = essence \o <<a, b>>
        /\ Kind(x) = "fetch_text" /\ ~replayed[x] => essence' = essence \o <<a, b>>
    BY <1>2 DEF Hands
  <2>3. a.op = x /\ b.op = x /\ a.part = 1 /\ b.part = 2 BY DEF Message
  <2> HIDE DEF a, b
  <2>4. CASE essence' = essence
    <3>1. essence # essence \o <<a, b>>
      <4>1. Len(essence \o <<a, b>>) = Len(essence) + 2 BY <2>1
      <4> QED BY <2>1, <4>1
    <3> QED BY <2>2, <2>4, <3>1 DEF Messages
  <2>5. CASE essence' = essence \o <<a, b>>
    <3>1. /\ DOMAIN essence' = 1..(Len(essence) + 2) /\ DOMAIN essence = 1..Len(essence)
          /\ \A i \in 1..Len(essence) : essence'[i] = essence[i]
          /\ essence'[Len(essence) + 1] = a /\ essence'[Len(essence) + 2] = b
      BY <2>1, <2>5
    <3>2. /\ 1..Len(essence) \subseteq 1..(Len(essence) + 2)
          /\ Len(essence) + 1 \in 1..(Len(essence) + 2) /\ Len(essence) + 2 \in 1..(Len(essence) + 2)
      BY <2>1
    <3>3. Messages(o, s) \subseteq Messages(o, s)' BY <3>1, <3>2 DEF Messages
    <3>4. o = x => Len(essence) + s \in Messages(o, s)'
      <4>1. s = 1 \/ s = 2 BY DEF Seqs
      <4> QED BY <2>3, <3>1, <3>2, <4>1 DEF Messages
    <3> QED BY <3>3, <3>4
  <2> QED BY <2>2, <2>4, <2>5
<1>3. CASE ~(Says(x) \/ Hands(x))
  <2>1. Sets(x) \/ Unsets(x) \/ essence' = essence BY <1>3, EssenceRests
  <2> QED BY <1>0, <1>3, <2>1, MessagesSet
<1> QED BY <1>1, <1>2, <1>3

(* What is done stays done, and of these kinds is done by one action. *)
LEMMA GetsDone ==
  ASSUME TypeOK, NEW x \in Ops, PlacedOK(x), Step(x)
  PROVE  /\ at[x] = "done" => FALSE
         /\ at'[x] = "done" /\ Kind(x) = "text" => IndexesText(x)
         /\ at'[x] = "done" /\ Kind(x) = "fetch_text" => Hands(x)
         /\ ForgetsText(x) => Kind(x) = "forget" /\ at'[x] = "done"
         /\ IndexesText(x) => Kind(x) = "text"
<1>0. at \in [Ops -> Places] BY DEF TypeOK
<1>1. at[x] = "done" => FALSE
  BY DEF Step, Submit, Starts, Fails, Pauses, Resumes, TakesPart, Says, Sets, Keeps, IndexesText, Unsets,
    ForgetsText, Hears, Reconciles, Ends, Completes, FindsSource, Refuses, TakesName, Probes, Puts,
    SyncsGroup, Splits, SendsSegment, RecordsSegment, Downloads, Hands
<1>2. at'[x] = "done" => IndexesText(x) \/ ForgetsText(x) \/ Completes(x) \/ Hands(x)
  <2>1. CASE Submit(x) \/ Resumes(x) \/ Keeps(x) \/ Downloads(x) \/ Splits(x) \/ RecordsSegment(x)
             \/ SyncsGroup(x) \/ Reconciles(x) \/ Ends(x)
    BY <1>0, <2>1 DEF Submit, Resumes, Keeps, Downloads, Splits, RecordsSegment, SyncsGroup, Reconciles,
      Ends, Go
  <2>2. CASE Starts(x) BY <1>0, <2>2 DEF Starts, Go, First
  <2>3. CASE Fails(x) \/ Pauses(x) BY <1>0, <2>3 DEF Fails, Pauses, Retried, Go
  <2>4. CASE TakesPart(x) BY <1>0, <2>4 DEF TakesPart, Go
  <2>5. CASE Says(x) BY <1>0, <2>5 DEF Says, Retried, Go
  <2>6. CASE Sets(x) BY <1>0, <2>6 DEF Sets, GivesUp, Go
  <2>7. CASE Unsets(x) BY <1>1, <2>7 DEF Unsets
  <2>8. CASE Hears(x) BY <1>0, <2>8 DEF Hears, Go
  <2>9. CASE FindsSource(x) BY <1>0, <2>9 DEF FindsSource, GivesUp, Go
  <2>10. CASE Refuses(x) BY <1>0, <2>10 DEF Refuses, GivesUp, Go
  <2>11. CASE TakesName(x) BY <1>0, <2>11 DEF TakesName, GivesUp, Go
  <2>12. CASE Probes(x) BY <1>0, <2>12 DEF Probes, After, Go
  <2>13. CASE Puts(x) BY <1>0, <2>13 DEF Puts, Retried, After, Go
  <2>14. CASE SendsSegment(x) BY <1>0, <2>14 DEF SendsSegment, Retried, Go
  <2> QED BY <2>1, <2>2, <2>3, <2>4, <2>5, <2>6, <2>7, <2>8, <2>9, <2>10, <2>11, <2>12, <2>13, <2>14 DEF Step
<1>3. /\ IndexesText(x) => Kind(x) = "text"
      /\ ForgetsText(x) => Kind(x) = "forget"
      /\ Completes(x) => Kind(x) \notin {"text", "fetch_text"}
      /\ Hands(x) => Kind(x) # "text"
  <2>1. IndexesText(x) => at[x] = "index" BY DEF IndexesText
  <2>2. ForgetsText(x) => at[x] = "unset" BY DEF ForgetsText
  <2>3. Completes(x) => at[x] = "ended" BY DEF Completes
  <2>4. Hands(x) => at[x] = "fetched" BY DEF Hands
  <2> QED BY <2>1, <2>2, <2>3, <2>4 DEF PlacedOK, Wholes, Fetches
<1>4. ForgetsText(x) => at'[x] = "done" BY <1>0 DEF ForgetsText, Go
<1> QED BY ONLY <1>1, <1>2, <1>3, <1>4

(* The row of a text that is done. *)
LEMMA TextDoneStep ==
  ASSUME TypeInv, Placed, TextsOK, Apart({"text"}), NEW x \in Ops, Step(x), NEW o \in Ops, TextDone(o)
  PROVE  TextDone(o)'
<1>0. /\ TypeOK /\ PlacedOK(x) /\ UNCHANGED plan /\ Name(o) \in Titles /\ Name(x) \in Titles
      /\ texts \in [Titles -> [status : {"none", "active", "deleted"}, parts : [Seqs -> Messaged]]]
  BY PlanStays, Inputs, TypeIsControl DEF TypeInv, Placed, TypeOK
<1>1. \A y \in Ops : Kind(y)' = Kind(y) /\ Name(y)' = Name(y) BY <1>0 DEF Kind, Name
<1>2. SUFFICES ASSUME Kind(o) = "text", at'[o] = "done" PROVE Stands(o)' \/ Forgotten(o)'
  BY <1>1 DEF TextDone
<1>3. CASE o = x
  <2>1. IndexesText(x) BY <1>0, <1>2, <1>3, GetsDone
  <2>2. at[x] = "index" BY <2>1 DEF IndexesText
  <2>3. texts' = [texts EXCEPT ![Name(x)] = [status |-> "active", parts |-> payload[x].sent]]
    BY <2>1 DEF IndexesText
  <2>4. texts'[Name(x)].status = "active" /\ texts'[Name(x)].parts = payload[x].sent BY <1>0, <2>3
  <2>5. ASSUME NEW s \in Seqs PROVE payload[x].sent[s] \in Messages(x, s)'
    <3>1. payload[x].sent[s] \in Messages(x, s) BY <1>2, <1>3, <2>2 DEF TextsOK, TextOK, PartOK
    <3> QED BY <3>1, MessagesGrow
  <2> QED BY <1>1, <1>3, <2>4, <2>5 DEF Stands
<1>4. CASE o # x
  <2>1. at[o] = "done" BY <1>0, <1>2, <1>4, Stays
  <2>2. CASE Forgotten(o)
    <3>1. PICK y \in Ops : Name(y) = Name(o) /\ Kind(y) = "forget" /\ at[y] = "done" BY <2>2 DEF Forgotten
    <3>2. y # x BY <1>0, <3>1, GetsDone
    <3>3. at'[y] = "done" BY <1>0, <3>1, <3>2, Stays
    <3> QED BY <1>1, <3>1, <3>3 DEF Forgotten
  <2>3. CASE Stands(o)
    <3>1. CASE texts'[Name(o)] = texts[Name(o)]
      <4>1. \A s \in Seqs : Messages(o, s) \subseteq Messages(o, s)' BY MessagesGrow
      <4> QED BY <1>1, <2>3, <3>1, <4>1 DEF Stands
    <3>2. CASE ForgetsText(x) /\ Name(x) = Name(o)
      <4>1. Kind(x) = "forget" /\ at'[x] = "done" BY <1>0, <3>2, GetsDone
      <4> QED BY <1>1, <3>2, <4>1 DEF Forgotten
    <3>3. CASE IndexesText(x) /\ Name(x) = Name(o)
      <4>1. Kind(x) = "text" BY <1>0, <3>3, GetsDone
      <4> QED BY <1>2, <1>4, <3>3, <4>1 DEF Apart
    <3>4. \/ texts'[Name(o)] = texts[Name(o)]
          \/ (ForgetsText(x) \/ IndexesText(x)) /\ Name(x) = Name(o)
      <4>1. CASE IndexesText(x) BY <1>0, <4>1 DEF IndexesText
      <4>2. CASE ForgetsText(x) BY <1>0, <4>2 DEF ForgetsText
      <4>3. CASE Reconciles(x) BY <1>0, <4>3 DEF Reconciles, Rebuilt, Spared
      <4>4. CASE Splits(x) \/ RecordsSegment(x) BY <4>4 DEF Splits, RecordsSegment
      <4> QED BY <4>1, <4>2, <4>3, <4>4, RowsRest
    <3> QED BY <3>1, <3>2, <3>3, <3>4
  <2> QED BY <1>2, <2>1, <2>2, <2>3 DEF TextDone
<1> QED BY <1>3, <1>4

LEMMA FetchStep ==
  ASSUME TypeInv, Placed, Undisturbed, NEW x \in Ops, Step(x), NEW o \in Ops, FetchOK(o)
  PROVE  FetchOK(o)'
<1>0. TypeOK /\ PlacedOK(x) /\ UNCHANGED plan BY PlanStays DEF TypeInv, Placed
<1>1. Kind(o)' = Kind(o) BY <1>0 DEF Kind
<1>2. SUFFICES ASSUME Kind(o) = "fetch_text"
               PROVE  ~replayed'[o] /\ (at'[o] = "done" => \A s \in Seqs : Messages(o, s)' # {})
  BY <1>1 DEF FetchOK
<1>3. ~replayed[o] /\ (at[o] = "done" => \A s \in Seqs : Messages(o, s) # {}) BY <1>2 DEF FetchOK
<1>4. CASE o # x
  <2>1. at'[o] = at[o] /\ replayed'[o] = replayed[o] BY <1>0, <1>4, Stays
  <2> QED BY <1>3, <2>1, MessagesGrow
<1>5. CASE o = x
  <2>1. replayed' = replayed
    <3>1. ~(Fails(x) \/ Pauses(x))
      <4>1. plan.faults \cap {"fail", "pause"} = {} BY <1>2 DEF Undisturbed
      <4> QED BY <4>1 DEF Fails, Pauses, Trouble
    <3>2. at[x] \notin {"say", "put", "send", "set"} BY <1>0, <1>2, <1>5 DEF PlacedOK, Wholes
    <3>3. ~(Says(x) \/ Puts(x) \/ SendsSegment(x) \/ Sets(x)) BY <3>2 DEF Says, Puts, SendsSegment, Sets
    <3> QED BY <3>1, <3>3 DEF Step, Submit, Starts, Resumes, TakesPart, Keeps, IndexesText, Unsets,
      ForgetsText, Hears, Reconciles, Ends, Completes, FindsSource, GivesUp, Refuses, TakesName, Probes,
      SyncsGroup, Splits, RecordsSegment, Downloads, Hands
  <2>2. at'[x] = "done" => Hands(x) BY <1>0, <1>2, <1>5, GetsDone
  <2> QED BY <1>2, <1>3, <1>5, <2>1, <2>2, MessagesGrow
<1> QED BY <1>4, <1>5

LEMMA DoneCrash == ASSUME TypeOK, DoneInv, Crash PROVE DoneInv'
<1>1. /\ \A o \in Ops : /\ ~replayed'[o] /\ (at'[o] = "done" <=> at[o] = "done")
      /\ UNCHANGED <<plan, essence, texts>>
  <2>1. UNCHANGED <<plan, essence, texts>> BY DEF Crash, cloud, index
  <2> QED BY <2>1, CrashIs DEF Live
<1>2. \A o \in Ops : /\ Kind(o)' = Kind(o) /\ Name(o)' = Name(o)
                     /\ \A s \in Seqs : Messages(o, s)' = Messages(o, s)
  BY <1>1 DEF Kind, Name, Messages
<1>3. \A o \in Ops : TextDone(o) => TextDone(o)' BY ONLY <1>1, <1>2 DEF TextDone, Stands, Forgotten
<1>4. \A o \in Ops : FetchOK(o) => FetchOK(o)' BY ONLY <1>1, <1>2 DEF FetchOK
<1>5. (Apart({"text"})' <=> Apart({"text"})) /\ (Undisturbed' <=> Undisturbed)
  BY ONLY <1>1, <1>2 DEF Apart, Undisturbed
<1> QED BY <1>3, <1>4, <1>5 DEF DoneInv

DoneHolds == SentHolds /\ DoneInv

LEMMA DoneNext == DoneHolds /\ [Next]_vars => DoneHolds'
<1> SUFFICES ASSUME DoneHolds, [Next]_vars PROVE DoneInv' BY MediaNext DEF DoneHolds
<1>1. TypeInv /\ TypeOK /\ Placed /\ TextsOK /\ DoneInv BY DEF DoneHolds, SentHolds, IngestInv, TypeInv
<1>2. CASE UNCHANGED vars
  <2>1. UNCHANGED <<plan, at, replayed, essence, texts>> BY ONLY <1>2 DEF vars, cloud, index
  <2>2. \A o \in Ops : /\ Kind(o)' = Kind(o) /\ Name(o)' = Name(o)
                       /\ \A s \in Seqs : Messages(o, s)' = Messages(o, s)
    BY ONLY <2>1 DEF Kind, Name, Messages
  <2>3. \A o \in Ops : TextDone(o) => TextDone(o)' BY ONLY <2>1, <2>2 DEF TextDone, Stands, Forgotten
  <2>4. \A o \in Ops : FetchOK(o) => FetchOK(o)' BY ONLY <2>1, <2>2 DEF FetchOK
  <2>5. (Apart({"text"})' <=> Apart({"text"})) /\ (Undisturbed' <=> Undisturbed)
    BY ONLY <2>1, <2>2 DEF Apart, Undisturbed
  <2> QED BY <1>1, <2>3, <2>4, <2>5 DEF DoneInv
<1>3. CASE Next
  <2>0. /\ Apart({"text"})' <=> Apart({"text"})
        /\ Undisturbed' <=> Undisturbed
    <3>1. UNCHANGED plan /\ \A o \in Ops : Kind(o)' = Kind(o) BY <1>3, PlanKeeps
    <3> QED BY <1>3, <3>1, PlanKeeps DEF Undisturbed
  <2>1. CASE Crash BY <1>1, <2>1, DoneCrash
  <2>2. ASSUME NEW x \in Ops, Step(x) PROVE DoneInv'
    <3>1. Apart({"text"}) => \A o \in Ops : TextDone(o)' BY <1>1, <2>2, TextDoneStep DEF DoneInv
    <3>2. Undisturbed => \A o \in Ops : FetchOK(o)' BY <1>1, <2>2, FetchStep DEF DoneInv
    <3> QED BY <2>0, <3>1, <3>2 DEF DoneInv
  <2> QED BY <1>3, <2>1, <2>2 DEF Next, Step
<1> QED BY <1>2, <1>3

(* What is done was delivered, if no two operations that send a file whole and
   no two texts have one name, and no fetch of a text fails or is paused. *)
THEOREM DeliveredAlways == Spec => [](Apart(Wholes) /\ Apart({"text"}) /\ Undisturbed => Delivered)
<1>1. Init => DoneHolds
  <2>1. Init => SentHolds
    <3>1. Init => IngestInv BY TypesInit, TextsInit DEF IngestInv
    <3> QED BY <3>1, MediaInit DEF SentHolds, MediaInv
  <2>2. Init => DoneInv BY DEF Init, DoneInv, TextDone, FetchOK
  <2> QED BY <2>1, <2>2 DEF DoneHolds
<1>2. DoneHolds => (Apart(Wholes) /\ Apart({"text"}) /\ Undisturbed => Delivered)
  <2> SUFFICES ASSUME DoneHolds, Apart(Wholes), Apart({"text"}), Undisturbed, NEW o \in Ops, at[o] = "done"
               PROVE  CASE Kind(o) = "text" -> Stands(o) \/ Forgotten(o)
                        [] Kind(o) = "fetch_text" -> \A s \in Seqs : Messages(o, s) # {}
                        [] Kind(o) = "video" -> parents[Parent(o)] = Seqs /\ \A s \in Seqs : Copies(o, s) # {}
                        [] Kind(o) \in {"image", "clip", "fetch_file", "fetch_image"} -> Copies(o, Whole) # {}
                        [] OTHER -> TRUE
    BY DEF Delivered, Stands, Forgotten
  <2>1. /\ TypeOK /\ SegmentsOK(o) /\ WholeOK(o) /\ TextDone(o) /\ FetchOK(o)
    BY DEF DoneHolds, DoneInv, SentHolds, IngestInv, TypeInv, MediaInv, WholeInv, SplitInv
  <2>2. CASE Kind(o) = "text" BY <2>1, <2>2 DEF TextDone
  <2>3. CASE Kind(o) = "fetch_text" BY <2>1, <2>3 DEF FetchOK
  <2>4. CASE Kind(o) = "video"
    <3>1. \A s \in Seqs : Recorded(o, s) /\ Copies(o, s) # {} BY <2>1, <2>4 DEF SegmentsOK
    <3>2. Parent(o) \in 1..Len(parents) /\ parents \in Seq(SUBSET Seqs)
      <4>1. Parent(o) \in 0..Len(parents) /\ Len(parents) \in Nat BY <2>1, EssenceIs DEF TypeOK, Payloads, Parent
      <4>2. Parent(o) # 0 BY <2>1, <2>4 DEF SegmentsOK
      <4> QED BY <2>1, <4>1, <4>2, EssenceIs
    <3>3. parents[Parent(o)] \subseteq Seqs
      <4> DEFINE E == SUBSET Seqs
                 p == Parent(o)
      <4> SUFFICES parents[p] \in E OBVIOUS
      <4> HIDE DEF E, p
      <4> QED BY <3>2 DEF E, p
    <3>4. parents[Parent(o)] = Seqs BY <3>1, <3>3 DEF Recorded
    <3> QED BY <2>4, <3>1, <3>4
  <2>5. CASE Kind(o) \in {"image", "clip", "fetch_file", "fetch_image"}
    BY <2>1, <2>5 DEF WholeOK, Wholes, Late
  <2> QED BY <2>2, <2>3, <2>4, <2>5
<1> QED BY <1>1, <1>2, DoneNext, PTL DEF Spec
=============================================================================
