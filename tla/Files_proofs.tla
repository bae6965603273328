---------------------------- MODULE Files_proofs ----------------------------
(***************************************************************************)
(* Theorems about Files, for any scenarios, operations and faults.         *)
(***************************************************************************)
EXTENDS Files, FiniteSetTheorems, WellFoundedInduction, NaturalsInduction, TLAPS

-----------------------------------------------------------------------------
(* Batches.  What holds before the first statement and is handed on by each *)
(* of them holds at the end.                                                *)

LEMMA LeastNat ==
  ASSUME NEW T, T \subseteq Nat, T # {}
  PROVE  \E n \in T : \A m \in T : n <= m
<1>1. IsWellFoundedOn(OpToRel(<, Nat), Nat) BY NatLessThanWellFounded
<1>2. PICK n \in T : \A m \in Nat : <<m, n>> \in OpToRel(<, Nat) => m \notin T
  BY <1>1, WFMin, Zenon
<1>3. ASSUME NEW m \in T PROVE n <= m
  <2>1. ~(m < n) BY <1>2 DEF OpToRel
  <2> QED BY <2>1
<1> QED BY <1>3

LEMMA GreatestIn ==
  ASSUME NEW m \in Nat, NEW T, T \subseteq 1..m, T # {}
  PROVE  \E n \in T : \A k \in T : k <= n
<1> DEFINE D == {m - n : n \in T}
<1>1. D \subseteq Nat /\ D # {}
  <2>1. \A n \in T : m - n \in Nat OBVIOUS
  <2>2. PICK n \in T : TRUE OBVIOUS
  <2>3. m - n \in D BY <2>2
  <2> QED BY <2>1, <2>3
<1> HIDE DEF D
<1>2. PICK d \in D : \A e \in D : d <= e BY <1>1, LeastNat, Zenon
<1>3. PICK n \in T : d = m - n BY DEF D
<1>4. ASSUME NEW k \in T PROVE k <= n
  <2>1. m - k \in D BY DEF D
  <2> QED BY <2>1, <1>2, <1>3
<1> QED BY <1>4

Goes(g, x, ws, n) == g = [m \in 0..n |-> IF m = 0 THEN x ELSE Apply(g[m - 1], ws[m])]
LEMMA StagesAre ==
  ASSUME NEW x, NEW S, NEW ws \in Seq(S)
  PROVE  Goes(Stages(x, ws), x, ws, Len(ws))
<1>1. ASSUME NEW n \in 0..Len(ws) PROVE \E g : Goes(g, x, ws, n)
  <2> DEFINE T == {m \in 0..Len(ws) : ~\E g : Goes(g, x, ws, m)}
  <2>1. SUFFICES T = {} OBVIOUS
  <2>2. ASSUME T # {} PROVE FALSE
    <3>a. T \subseteq Nat OBVIOUS
    <3>1. PICK m \in T : \A k \in T : m <= k
      <4> HIDE DEF T
      <4> QED BY <2>2, <3>a, LeastNat
    <3>2. m # 0
      <4>1. Goes([k \in 0..0 |-> x], x, ws, 0) BY DEF Goes
      <4> QED BY <3>1, <4>1
    <3>3. m - 1 \in 0..Len(ws) /\ m - 1 \notin T BY <3>1, <3>2
    <3>4. PICK g : Goes(g, x, ws, m - 1) BY <3>3
    <3> DEFINE h == [k \in 0..m |-> IF k = m THEN Apply(g[m - 1], ws[m]) ELSE g[k]]
    <3>5. Goes(h, x, ws, m)
      <4>1. ASSUME NEW k \in 0..m PROVE h[k] = IF k = 0 THEN x ELSE Apply(h[k - 1], ws[k])
        BY <3>1, <3>2, <3>4 DEF Goes
      <4> QED BY <4>1 DEF Goes
    <3> QED BY <3>1, <3>5
  <2> QED BY <2>2
<1>2. Stages(x, ws) = CHOOSE g : Goes(g, x, ws, Len(ws)) BY DEF Stages, Goes
<1>3. Len(ws) \in 0..Len(ws) OBVIOUS
<1> QED BY <1>1, <1>2, <1>3

LEMMA BatchIn ==
  ASSUME NEW x, NEW S, NEW ws \in Seq(S), NEW G, x \in G[0],
         \A n \in 1..Len(ws) : \A y \in G[n - 1] : Apply(y, ws[n]) \in G[n]
  PROVE  Batch(x, ws) \in G[Len(ws)]
<1> DEFINE g == Stages(x, ws)
<1>1. \A n \in 0..Len(ws) : g[n] = IF n = 0 THEN x ELSE Apply(g[n - 1], ws[n])
  BY StagesAre DEF Goes
<1> HIDE DEF g
<1> DEFINE T == {n \in 0..Len(ws) : g[n] \notin G[n]}
<1>2. T = {}
  <2>1. ASSUME T # {} PROVE FALSE
    <3>1. T \subseteq Nat OBVIOUS
    <3>2. PICK n \in T : \A m \in T : n <= m
      <4> HIDE DEF T
      <4> QED BY <2>1, <3>1, LeastNat
    <3>3. n # 0 BY <1>1, <3>2
    <3>4. n - 1 \in 0..Len(ws) /\ n - 1 \notin T BY <3>2, <3>3
    <3>5. g[n - 1] \in G[n - 1] BY <3>4
    <3>6. n \in 1..Len(ws) BY <3>3
    <3>7. Apply(g[n - 1], ws[n]) \in G[n] BY <3>5, <3>6
    <3>8. g[n] = Apply(g[n - 1], ws[n]) BY <1>1, <3>3
    <3> QED BY <3>2, <3>7, <3>8
  <2> QED BY <2>1
<1>3. Len(ws) \in 0..Len(ws) OBVIOUS
<1> QED BY <1>2, <1>3 DEF Batch, g

-----------------------------------------------------------------------------
(* The tables.  A row is good when its name and its key say the same, by a *)
(* measure F, as the file its handle is of; a volume, when it is a part of *)
(* what its parent's handle is of and, if uploaded, one of U.              *)

RowSet(N, H) == [ref : H, name : N, key : N, status : {"active", "deleted"},
                 meta : {"plain", "parent", "whole"}]
VolSet(P, H) == [parent : H, part : P, status : {"pending", "uploading", "uploaded"},
                 ref : H \cup {NoRef}, sha : Nat]
GoodRows(N, H, F, T) ==
  {r \in RowSet(N, H) : F[r.name] = F[T[r.ref]] /\ F[r.key] = F[T[r.ref]]}
GoodVols(P, H, T, U) ==
  {v \in VolSet(P, H) : v.part[1] = T[v.parent][1] /\ (v.status = "uploaded" => v.part \in U)}
Tables(R, V) == [rows : Seq(R), vols : SUBSET V, ok : BOOLEAN]

(* A batch adds rows, and a row keeps the measure of its name. *)
Kept(F, r, s) == DOMAIN r \subseteq DOMAIN s /\ \A i \in DOMAIN r : F[s[i].name] = F[r[i].name]
Sorts(N, F) == \A n, m \in N : F[n] = F[m] => n[1] = m[1]

LEMMA MergedGood ==
  ASSUME NEW N, NEW H, NEW F, NEW T, NEW old \in GoodRows(N, H, F, T),
         NEW new \in GoodRows(N, H, F, T), old.ref = new.ref \/ old.key = new.key
  PROVE  /\ Merged(old, new) \in GoodRows(N, H, F, T)
         /\ Merged(old, new).ref = new.ref /\ Merged(old, new).name = new.name
         /\ Merged(old, new).status = "active"
         /\ F[new.name] = F[old.name]
<1>1. old \in RowSet(N, H) /\ new \in RowSet(N, H)
      /\ F[old.name] = F[T[old.ref]] /\ F[old.key] = F[T[old.ref]]
      /\ F[new.name] = F[T[new.ref]] /\ F[new.key] = F[T[new.ref]]
  BY DEF GoodRows
<1>2. Merged(old, new) \in RowSet(N, H)
      /\ Merged(old, new).ref = new.ref /\ Merged(old, new).name = new.name
      /\ Merged(old, new).status = "active" /\ Merged(old, new).key = old.key
  BY <1>1 DEF RowSet, Merged
<1>3. F[old.key] = F[T[new.ref]] /\ F[new.name] = F[old.name] BY <1>1
<1> QED BY <1>1, <1>2, <1>3 DEF GoodRows

LEMMA RowChanged ==
  ASSUME NEW N, NEW H, NEW F, NEW T, NEW r \in GoodRows(N, H, F, T)
  PROVE  /\ \A s \in {"active", "deleted"} : [r EXCEPT !.status = s] \in GoodRows(N, H, F, T)
         /\ \A m \in {"plain", "parent", "whole"} : [r EXCEPT !.meta = m] \in GoodRows(N, H, F, T)
         /\ r.meta \in {"plain", "parent", "whole"} /\ r.ref \in H /\ r.name \in N
BY DEF GoodRows, RowSet

LEMMA PutCases ==
  ASSUME NEW x, NEW new
  PROVE  \/ ~x.ok /\ PutRow(x, new) = x
         \/ PutRow(x, new) = [x EXCEPT !.ok = FALSE]
         \/ /\ x.ok
            /\ \E i \in DOMAIN x.rows :
                 /\ x.rows[i].ref = new.ref \/ x.rows[i].key = new.key
                 /\ PutRow(x, new) = [x EXCEPT !.rows[i] = Merged(@, new)]
         \/ x.ok /\ PutRow(x, new) = [x EXCEPT !.rows = Append(@, new)]
<1> DEFINE same == {i \in DOMAIN x.rows : x.rows[i].ref = new.ref}
           held(k) == {i \in DOMAIN x.rows : x.rows[i].status = "active" /\ x.rows[i].key = k}
           onto(i) == [x EXCEPT !.rows[i] = Merged(@, new)]
<1>1. CASE ~x.ok BY <1>1 DEF PutRow
<1>2. CASE x.ok /\ same # {}
  <2> DEFINE i == CHOOSE i \in same : TRUE
  <2>1. i \in same BY <1>2
  <2>2. PutRow(x, new) = IF held(x.rows[i].key) \subseteq {i} THEN onto(i) ELSE [x EXCEPT !.ok = FALSE]
    BY <1>2 DEF PutRow
  <2> QED BY <1>2, <2>1, <2>2
<1>3. CASE x.ok /\ same = {} /\ held(new.key) # {}
  <2> DEFINE i == CHOOSE i \in held(new.key) : TRUE
  <2>1. i \in held(new.key) BY <1>3
  <2>2. PutRow(x, new) = onto(i) BY <1>3 DEF PutRow
  <2> QED BY <1>3, <2>1, <2>2
<1>4. CASE x.ok /\ same = {} /\ held(new.key) = {}
  <2>1. PutRow(x, new) = [x EXCEPT !.rows = Append(@, new)] BY <1>4 DEF PutRow
  <2> QED BY <1>4, <2>1
<1> QED BY <1>1, <1>2, <1>3, <1>4

LEMMA PutGood ==
  ASSUME NEW N, NEW H, NEW F, NEW T, NEW V, NEW x \in Tables(GoodRows(N, H, F, T), V),
         NEW new \in GoodRows(N, H, F, T)
  PROVE  /\ PutRow(x, new) \in Tables(GoodRows(N, H, F, T), V)
         /\ Kept(F, x.rows, PutRow(x, new).rows)
<1> DEFINE R == GoodRows(N, H, F, T)
<1>1. x \in [rows : Seq(R), vols : SUBSET V, ok : BOOLEAN] BY DEF Tables
<1>a. new \in R OBVIOUS
<1>b. \A r \in R : r.ref = new.ref \/ r.key = new.key => Merged(r, new) \in R /\ F[Merged(r, new).name] = F[r.name]
  BY MergedGood
<1> HIDE DEF R
<1> SUFFICES PutRow(x, new) \in Tables(R, V) /\ Kept(F, x.rows, PutRow(x, new).rows) BY DEF R
<1>2. CASE ~x.ok /\ PutRow(x, new) = x BY <1>1, <1>2 DEF Kept, Tables, R
<1>3. CASE PutRow(x, new) = [x EXCEPT !.ok = FALSE] BY <1>1, <1>3 DEF Kept, Tables, R
<1>4. CASE /\ x.ok
           /\ \E i \in DOMAIN x.rows :
                /\ x.rows[i].ref = new.ref \/ x.rows[i].key = new.key
                /\ PutRow(x, new) = [x EXCEPT !.rows[i] = Merged(@, new)]
  <2>. PICK i \in DOMAIN x.rows :
         /\ x.rows[i].ref = new.ref \/ x.rows[i].key = new.key
         /\ PutRow(x, new) = [x EXCEPT !.rows[i] = Merged(@, new)]
    BY <1>4
  <2>1. x.rows[i] \in R BY <1>1
  <2>2. Merged(x.rows[i], new) \in R /\ F[Merged(x.rows[i], new).name] = F[x.rows[i].name]
    BY <1>b, <2>1
  <2> DEFINE s == [x.rows EXCEPT ![i] = Merged(@, new)]
  <2>3. s \in Seq(R) /\ DOMAIN s = DOMAIN x.rows
        /\ \A j \in DOMAIN x.rows : s[j] = IF j = i THEN Merged(x.rows[i], new) ELSE x.rows[j]
    BY <1>1, <2>2
  <2>4. PutRow(x, new).rows = s /\ PutRow(x, new) \in [rows : Seq(R), vols : SUBSET V, ok : BOOLEAN]
    BY <1>1, <1>4, <2>3
  <2>5. Kept(F, x.rows, s) BY <2>2, <2>3 DEF Kept
  <2> QED BY <2>4, <2>5 DEF Tables
<1>5. CASE x.ok /\ PutRow(x, new) = [x EXCEPT !.rows = Append(@, new)]
  <2> DEFINE s == Append(x.rows, new)
  <2>1. s \in Seq(R) /\ DOMAIN x.rows \subseteq DOMAIN s /\ \A j \in DOMAIN x.rows : s[j] = x.rows[j]
    BY <1>1, <1>a
  <2>2. PutRow(x, new).rows = s /\ PutRow(x, new) \in [rows : Seq(R), vols : SUBSET V, ok : BOOLEAN]
    <3>1. PutRow(x, new) = [x EXCEPT !.rows = s] BY <1>5
    <3>2. s \in Seq(R) BY <2>1
    <3> HIDE DEF s
    <3>3. PutRow(x, new) = [rows |-> s, vols |-> x.vols, ok |-> x.ok] BY <1>1, <3>1
    <3> QED BY <1>1, <3>2, <3>3
  <2>3. Kept(F, x.rows, s) BY <2>1 DEF Kept
  <2> QED BY <2>2, <2>3 DEF Tables
<1>6. \/ ~x.ok /\ PutRow(x, new) = x
      \/ PutRow(x, new) = [x EXCEPT !.ok = FALSE]
      \/ /\ x.ok
         /\ \E i \in DOMAIN x.rows :
              /\ x.rows[i].ref = new.ref \/ x.rows[i].key = new.key
              /\ PutRow(x, new) = [x EXCEPT !.rows[i] = Merged(@, new)]
      \/ x.ok /\ PutRow(x, new) = [x EXCEPT !.rows = Append(@, new)]
  BY PutCases
<1> QED BY ONLY <1>2, <1>3, <1>4, <1>5, <1>6

LEMMA MovedGood ==
  ASSUME NEW P, NEW H, NEW T, NEW U, NEW vs \in SUBSET GoodVols(P, H, T, U), NEW old, NEW new \in H,
         T[old][1] = T[new][1]
  PROVE  Moved(vs, old, new) \in SUBSET GoodVols(P, H, T, U)
<1>1. ASSUME NEW v \in vs
      PROVE  [v EXCEPT !.parent = IF @ = old THEN new ELSE @] \in GoodVols(P, H, T, U)
  <2>1. v \in VolSet(P, H) /\ v.part[1] = T[v.parent][1] /\ (v.status = "uploaded" => v.part \in U)
    BY DEF GoodVols
  <2> DEFINE w == [v EXCEPT !.parent = IF @ = old THEN new ELSE @]
  <2>2. /\ w \in VolSet(P, H) /\ w.part = v.part /\ w.status = v.status
        /\ w.parent = IF v.parent = old THEN new ELSE v.parent
    BY <2>1 DEF VolSet
  <2> QED BY <2>1, <2>2 DEF GoodVols
<1> QED BY <1>1 DEF Moved

Refs(items) == {items[n].ref : n \in DOMAIN items}

LEMMA ChasedGood ==
  ASSUME NEW P, NEW H, NEW T, NEW U, NEW R, NEW x \in Tables(R, GoodVols(P, H, T, U)),
         NEW old, NEW new \in H, T[old][1] = T[new][1]
  PROVE  /\ Chased(x, old, new) \in Tables(R, GoodVols(P, H, T, U))
         /\ Chased(x, old, new).rows = x.rows /\ (Chased(x, old, new).ok => x.ok)
<1> DEFINE V == GoodVols(P, H, T, U)
<1>1. x \in [rows : Seq(R), vols : SUBSET V, ok : BOOLEAN] BY DEF Tables
<1>2. Moved(x.vols, old, new) \in SUBSET V BY <1>1, MovedGood
<1> HIDE DEF V
<1> QED BY <1>1, <1>2 DEF Tables, V, Chased

(* What row i leaves to the row that has the handle h. *)
LeftRows(r, i, h) ==
  [j \in DOMAIN r |-> IF j = i THEN [r[i] EXCEPT !.status = "deleted"]
                      ELSE IF r[j].ref = h THEN [r[j] EXCEPT !.meta = r[i].meta] ELSE r[j]]
Left(x, i, h) == Chased([x EXCEPT !.rows = LeftRows(x.rows, i, h)], x.rows[i].ref, h)

LEMMA InheritCases ==
  ASSUME NEW x, NEW i, NEW R, NEW items \in Seq(R)
  PROVE  \/ Inherit(x, i, items) = x
         \/ \E n \in DOMAIN items :
              /\ items[n].name = x.rows[i].name /\ x.rows[i].ref \notin Refs(items)
              /\ Inherit(x, i, items) = Left(x, i, items[n].ref)
<1> DEFINE p == x.rows[i]
           heirs == {n \in DOMAIN items : items[n].name = p.name}
           last == CHOOSE n \in heirs : \A m \in heirs : m <= n
<1>1. CASE p.meta = "plain" \/ heirs = {} \/ \E n \in DOMAIN items : items[n].ref = p.ref
  BY <1>1 DEF Inherit
<1>2. CASE ~(p.meta = "plain" \/ heirs = {} \/ \E n \in DOMAIN items : items[n].ref = p.ref)
  <2>1. heirs \subseteq 1..Len(items) /\ heirs # {} /\ Len(items) \in Nat BY <1>2
  <2>2. \E n \in heirs : \A m \in heirs : m <= n
    <3> HIDE DEF heirs
    <3> QED BY <2>1, GreatestIn
  <2>3. last \in heirs BY <2>2
  <2>4. p.ref \notin Refs(items) BY <1>2 DEF Refs
  <2>5. Inherit(x, i, items) = Left(x, i, items[last].ref) BY <1>2 DEF Inherit, Left, LeftRows
  <2>6. last \in DOMAIN items /\ items[last].name = x.rows[i].name BY <2>3
  <2> HIDE DEF last
  <2> QED BY <2>4, <2>5, <2>6
<1> QED BY <1>1, <1>2

LEMMA InheritGood ==
  ASSUME NEW N, NEW P, NEW H, NEW F, NEW T, NEW U, Sorts(N, F), \A h \in H : T[h] \in N,
         NEW x \in Tables(GoodRows(N, H, F, T), GoodVols(P, H, T, U)),
         NEW items \in Seq(GoodRows(N, H, F, T)), NEW i \in DOMAIN x.rows
  PROVE  /\ Inherit(x, i, items) \in Tables(GoodRows(N, H, F, T), GoodVols(P, H, T, U))
         /\ Kept(F, x.rows, Inherit(x, i, items).rows)
         /\ DOMAIN Inherit(x, i, items).rows = DOMAIN x.rows /\ (Inherit(x, i, items).ok => x.ok)
<1> DEFINE R == GoodRows(N, H, F, T)
           V == GoodVols(P, H, T, U)
<1>1. x \in [rows : Seq(R), vols : SUBSET V, ok : BOOLEAN] /\ items \in Seq(R) BY DEF Tables
<1>2. CASE Inherit(x, i, items) = x BY <1>2 DEF Kept
<1>3. CASE \E n \in DOMAIN items :
              /\ items[n].name = x.rows[i].name /\ x.rows[i].ref \notin Refs(items)
              /\ Inherit(x, i, items) = Left(x, i, items[n].ref)
  <2> PICK n \in DOMAIN items :
              /\ items[n].name = x.rows[i].name /\ x.rows[i].ref \notin Refs(items)
              /\ Inherit(x, i, items) = Left(x, i, items[n].ref)
    BY <1>3
  <2> DEFINE s == LeftRows(x.rows, i, items[n].ref)
             y == [x EXCEPT !.rows = s]
  <2>1. Inherit(x, i, items) = Chased(y, x.rows[i].ref, items[n].ref) BY DEF Left
  <2>2. x.rows[i] \in R /\ items[n] \in R BY <1>1
  <2>3. ASSUME NEW j \in DOMAIN x.rows PROVE s[j] \in R /\ s[j].name = x.rows[j].name
    <3>1. x.rows[j] \in R BY <1>1
    <3>a. x.rows[i].meta \in {"plain", "parent", "whole"} BY <2>2, RowChanged
    <3>2. \A q \in {"active", "deleted"} : [x.rows[j] EXCEPT !.status = q] \in R BY <3>1, RowChanged
    <3>3. \A q \in {"plain", "parent", "whole"} : [x.rows[j] EXCEPT !.meta = q] \in R BY <3>1, RowChanged
    <3>4. /\ [x.rows[j] EXCEPT !.status = "deleted"].name = x.rows[j].name
          /\ [x.rows[j] EXCEPT !.meta = x.rows[i].meta].name = x.rows[j].name
      BY <3>1 DEF GoodRows, RowSet
    <3> HIDE DEF R
    <3> QED BY <3>1, <3>a, <3>2, <3>3, <3>4 DEF LeftRows
  <2>4. DOMAIN s = DOMAIN x.rows BY DEF LeftRows
  <2>5. x.rows \in Seq(R) BY <1>1
  <2>6. s \in Seq(R)
    <3>1. DOMAIN x.rows = 1..Len(x.rows) /\ Len(x.rows) \in Nat BY <2>5
    <3>2. s \in [1..Len(x.rows) -> R] BY <2>3, <3>1 DEF LeftRows
    <3> HIDE DEF s, R
    <3> QED BY <3>1, <3>2
  <2>7. Kept(F, x.rows, s) BY <2>3, <2>4 DEF Kept
  <2>8. T[x.rows[i].ref][1] = T[items[n].ref][1] /\ items[n].ref \in H
    <3>1. /\ F[x.rows[i].name] = F[T[x.rows[i].ref]] /\ F[items[n].name] = F[T[items[n].ref]]
          /\ x.rows[i].ref \in H /\ items[n].ref \in H
      BY <2>2 DEF GoodRows, RowSet
    <3>2. F[T[x.rows[i].ref]] = F[T[items[n].ref]] BY <3>1
    <3> QED BY <3>1, <3>2 DEF Sorts
  <2> HIDE DEF s
  <2>9. y \in Tables(R, V) /\ y.rows = s /\ y.ok = x.ok
    <3> HIDE DEF R, V
    <3> QED BY <1>1, <2>6 DEF Tables
  <2> HIDE DEF y
  <2>a. /\ Chased(y, x.rows[i].ref, items[n].ref) \in Tables(R, V)
        /\ Chased(y, x.rows[i].ref, items[n].ref).rows = y.rows
        /\ (Chased(y, x.rows[i].ref, items[n].ref).ok => y.ok)
    BY <2>8, <2>9, ChasedGood
  <2> QED BY <2>1, <2>a, <2>4, <2>7, <2>9
<1>4. \/ Inherit(x, i, items) = x
      \/ \E n \in DOMAIN items :
           /\ items[n].name = x.rows[i].name /\ x.rows[i].ref \notin Refs(items)
           /\ Inherit(x, i, items) = Left(x, i, items[n].ref)
  BY InheritCases
<1> QED BY <1>2, <1>3, <1>4

LEMMA BatchStays ==
  ASSUME NEW x, NEW S, NEW ws \in Seq(S), NEW G, x \in G,
         \A n \in 1..Len(ws) : \A y \in G : Apply(y, ws[n]) \in G
  PROVE  Batch(x, ws) \in G
<1> DEFINE H == [n \in 0..Len(ws) |-> G]
<1>1. Len(ws) \in Nat OBVIOUS
<1>2. \A n \in 0..Len(ws) : H[n] = G OBVIOUS
<1>3. x \in H[0] BY <1>1, <1>2
<1>4. \A n \in 1..Len(ws) : \A y \in H[n - 1] : Apply(y, ws[n]) \in H[n] BY <1>1, <1>2
<1> HIDE DEF H
<1>5. Batch(x, ws) \in H[Len(ws)] BY <1>3, <1>4, BatchIn
<1>6. Len(ws) \in 0..Len(ws) BY <1>1
<1> QED BY <1>2, <1>5, <1>6

LEMMA KeptOn ==
  ASSUME NEW F, NEW r, NEW s, NEW t, Kept(F, r, s), Kept(F, s, t)
  PROVE  Kept(F, r, t)
BY DEF Kept

(* The statements of a batch are a sequence. *)
LEMMA Listed ==
  ASSUME NEW m \in Nat, NEW f, f = [n \in 1..m |-> f[n]]
  PROVE  (\E S : f \in Seq(S)) /\ Len(f) = m
<1> DEFINE S == {f[n] : n \in 1..m}
<1>1. f \in [1..m -> S] OBVIOUS
<1>2. f \in Seq(S) /\ Len(f) = m
  <2> HIDE DEF S
  <2> QED BY <1>1
<1> QED BY <1>2

LEMMA PutStatements ==
  ASSUME NEW R, NEW items \in Seq(R)
  PROVE  /\ (\E S : Puts(items) \in Seq(S)) /\ Len(Puts(items)) = Len(items)
         /\ \A n \in 1..Len(items) : Puts(items)[n] = [do |-> "put", row |-> items[n]]
<1>1. DOMAIN items = 1..Len(items) /\ Len(items) \in Nat OBVIOUS
<1>2. Puts(items) = [n \in 1..Len(items) |-> [do |-> "put", row |-> items[n]]] BY <1>1 DEF Puts
<1>3. Puts(items) = [n \in 1..Len(items) |-> Puts(items)[n]] BY <1>2
<1> QED BY <1>1, <1>2, <1>3, Listed

LEMMA InheritStatements ==
  ASSUME NEW R, NEW r \in Seq(R), NEW items
  PROVE  /\ (\E S : Inherits(r, items) \in Seq(S)) /\ Len(Inherits(r, items)) = Len(r)
         /\ \A i \in 1..Len(r) : Inherits(r, items)[i] = [do |-> "inherit", of |-> i, items |-> items]
<1>1. DOMAIN r = 1..Len(r) /\ Len(r) \in Nat OBVIOUS
<1>2. Inherits(r, items) = [i \in 1..Len(r) |-> [do |-> "inherit", of |-> i, items |-> items]]
  BY <1>1 DEF Inherits
<1>3. Inherits(r, items) = [i \in 1..Len(r) |-> Inherits(r, items)[i]] BY <1>2
<1> QED BY <1>1, <1>2, <1>3, Listed

LEMMA ChaseStatements ==
  ASSUME NEW R, NEW items \in Seq(R)
  PROVE  /\ (\E S : Chases(items) \in Seq(S)) /\ Len(Chases(items)) = Len(items)
         /\ \A n \in 1..Len(items) :
              Chases(items)[n] = [do |-> "chase", from |-> HadRef(items[n]), to |-> items[n].ref]
<1>1. DOMAIN items = 1..Len(items) /\ Len(items) \in Nat OBVIOUS
<1>2. Chases(items) =
        [n \in 1..Len(items) |-> [do |-> "chase", from |-> HadRef(items[n]), to |-> items[n].ref]]
  BY <1>1 DEF Chases
<1>3. Chases(items) = [n \in 1..Len(items) |-> Chases(items)[n]] BY <1>2
<1> QED BY <1>1, <1>2, <1>3, Listed

LEMMA Applied ==
  /\ \A x, new : Apply(x, [do |-> "put", row |-> new]) = PutRow(x, new)
  /\ \A x, i, items : Apply(x, [do |-> "inherit", of |-> i, items |-> items]) = Inherit(x, i, items)
  /\ \A x, old, new : Apply(x, [do |-> "chase", from |-> old, to |-> new]) = Chased(x, old, new)
<1>1. ASSUME NEW x, NEW new PROVE Apply(x, [do |-> "put", row |-> new]) = PutRow(x, new) BY DEF Apply
<1>2. ASSUME NEW x, NEW i, NEW items
      PROVE  Apply(x, [do |-> "inherit", of |-> i, items |-> items]) = Inherit(x, i, items) BY DEF Apply
<1>3. ASSUME NEW x, NEW old, NEW new
      PROVE  Apply(x, [do |-> "chase", from |-> old, to |-> new]) = Chased(x, old, new)
  BY DEF Apply
<1> QED BY <1>1, <1>2, <1>3

LEMMA PutsGood ==
  ASSUME NEW N, NEW H, NEW F, NEW T, NEW V, NEW x \in Tables(GoodRows(N, H, F, T), V),
         NEW items \in Seq(GoodRows(N, H, F, T))
  PROVE  /\ Batch(x, Puts(items)) \in Tables(GoodRows(N, H, F, T), V)
         /\ Kept(F, x.rows, Batch(x, Puts(items)).rows)
<1> DEFINE R == GoodRows(N, H, F, T)
           G == {y \in Tables(R, V) : Kept(F, x.rows, y.rows)}
<1>1. x \in G BY DEF Kept
<1>2. PICK S : Puts(items) \in Seq(S) BY PutStatements
<1>3. ASSUME NEW n \in 1..Len(Puts(items)), NEW y \in G PROVE Apply(y, Puts(items)[n]) \in G
  <2>1. n \in 1..Len(items) /\ items[n] \in R
    <3>1. n \in 1..Len(items) BY PutStatements
    <3> QED BY <3>1
  <2>2. Puts(items)[n] = [do |-> "put", row |-> items[n]] BY <2>1, PutStatements
  <2>3. Apply(y, Puts(items)[n]) = PutRow(y, items[n]) BY <2>2, Applied
  <2>4. y \in Tables(R, V) /\ Kept(F, x.rows, y.rows) OBVIOUS
  <2>5. PutRow(y, items[n]) \in Tables(R, V) /\ Kept(F, y.rows, PutRow(y, items[n]).rows)
    BY <2>1, <2>4, PutGood
  <2>6. Kept(F, x.rows, PutRow(y, items[n]).rows) BY <2>4, <2>5, KeptOn
  <2> HIDE DEF R
  <2> QED BY <2>3, <2>5, <2>6
<1> HIDE DEF G
<1>4. Batch(x, Puts(items)) \in G BY <1>1, <1>2, <1>3, BatchStays
<1> QED BY <1>4 DEF G

LEMMA InheritsGood ==
  ASSUME NEW N, NEW P, NEW H, NEW F, NEW T, NEW U, Sorts(N, F), \A h \in H : T[h] \in N,
         NEW x \in Tables(GoodRows(N, H, F, T), GoodVols(P, H, T, U)),
         NEW items \in Seq(GoodRows(N, H, F, T))
  PROVE  /\ Batch(x, Inherits(x.rows, items)) \in Tables(GoodRows(N, H, F, T), GoodVols(P, H, T, U))
         /\ Kept(F, x.rows, Batch(x, Inherits(x.rows, items)).rows)
         /\ Batch(x, Inherits(x.rows, items)).ok => x.ok
<1> DEFINE R == GoodRows(N, H, F, T)
           V == GoodVols(P, H, T, U)
           G == {y \in Tables(R, V) : /\ Kept(F, x.rows, y.rows) /\ DOMAIN y.rows = DOMAIN x.rows
                                      /\ y.ok => x.ok}
<1>1. x \in G BY DEF Kept
<1>a. x.rows \in Seq(R) BY DEF Tables
<1>2. PICK S : Inherits(x.rows, items) \in Seq(S) BY <1>a, InheritStatements
<1>3. ASSUME NEW n \in 1..Len(Inherits(x.rows, items)), NEW y \in G
      PROVE  Apply(y, Inherits(x.rows, items)[n]) \in G
  <2>1. n \in 1..Len(x.rows) BY <1>a, InheritStatements
  <2>2. Inherits(x.rows, items)[n] = [do |-> "inherit", of |-> n, items |-> items]
    BY <1>a, <2>1, InheritStatements
  <2>3. Apply(y, Inherits(x.rows, items)[n]) = Inherit(y, n, items) BY <2>2, Applied
  <2>4. y \in Tables(R, V) /\ Kept(F, x.rows, y.rows) /\ DOMAIN y.rows = DOMAIN x.rows /\ (y.ok => x.ok)
    OBVIOUS
  <2>5. n \in DOMAIN y.rows BY <1>a, <2>1, <2>4
  <2>6. /\ Inherit(y, n, items) \in Tables(R, V) /\ Kept(F, y.rows, Inherit(y, n, items).rows)
        /\ DOMAIN Inherit(y, n, items).rows = DOMAIN y.rows /\ (Inherit(y, n, items).ok => y.ok)
    BY <2>4, <2>5, InheritGood
  <2>7. Kept(F, x.rows, Inherit(y, n, items).rows) BY <2>4, <2>6, KeptOn
  <2> HIDE DEF R, V
  <2> QED BY <2>3, <2>4, <2>6, <2>7
<1> HIDE DEF G
<1>4. Batch(x, Inherits(x.rows, items)) \in G BY <1>1, <1>2, <1>3, BatchStays
<1> QED BY <1>4 DEF G

(* The handle a chase starts from is of what the item is of. *)
LEMMA HadIs ==
  ASSUME NEW N, NEW H, NEW F, NEW T, Sorts(N, F), \A h \in H : T[h] \in N,
         rows \in Seq(GoodRows(N, H, F, T)), NEW it \in GoodRows(N, H, F, T)
  PROVE  T[HadRef(it)][1] = T[it.ref][1] /\ it.ref \in H
<1> DEFINE of == {i \in DOMAIN rows : Live(i) /\ rows[i].name = it.name}
<1>1. F[it.name] = F[T[it.ref]] /\ it.ref \in H /\ it.name \in N BY DEF GoodRows, RowSet
<1>2. CASE of = {} BY <1>1, <1>2 DEF HadRef
<1>3. CASE of # {}
  <2> DEFINE i == CHOOSE i \in of : TRUE
  <2>1. i \in of BY <1>3
  <2>2. HadRef(it) = rows[i].ref BY <1>3 DEF HadRef
  <2>3. rows[i] \in GoodRows(N, H, F, T) /\ rows[i].name = it.name BY <2>1
  <2> HIDE DEF i
  <2>4. HadRef(it) \in H /\ F[T[HadRef(it)]] = F[it.name] BY <2>2, <2>3 DEF GoodRows, RowSet
  <2> QED BY <1>1, <2>4 DEF Sorts
<1> QED BY <1>2, <1>3

LEMMA ChasesGood ==
  ASSUME NEW N, NEW P, NEW H, NEW F, NEW T, NEW U, Sorts(N, F), \A h \in H : T[h] \in N,
         NEW x \in Tables(GoodRows(N, H, F, T), GoodVols(P, H, T, U)),
         rows \in Seq(GoodRows(N, H, F, T)), NEW items \in Seq(GoodRows(N, H, F, T))
  PROVE  /\ Batch(x, Chases(items)) \in Tables(GoodRows(N, H, F, T), GoodVols(P, H, T, U))
         /\ Batch(x, Chases(items)).rows = x.rows /\ (Batch(x, Chases(items)).ok => x.ok)
<1> DEFINE R == GoodRows(N, H, F, T)
           V == GoodVols(P, H, T, U)
           G == {y \in Tables(R, V) : y.rows = x.rows /\ (y.ok => x.ok)}
<1>1. x \in G OBVIOUS
<1>2. PICK S : Chases(items) \in Seq(S) BY ChaseStatements
<1>3. ASSUME NEW n \in 1..Len(Chases(items)), NEW y \in G
      PROVE  Apply(y, Chases(items)[n]) \in G
  <2>1. n \in 1..Len(items)  BY ChaseStatements
  <2> DEFINE it == items[n]
             old == HadRef(it)
             new == it.ref
  <2>2. it \in R BY <2>1
  <2>3. Chases(items)[n] = [do |-> "chase", from |-> old, to |-> new] BY <2>1, ChaseStatements
  <2>4. Apply(y, Chases(items)[n]) = Chased(y, old, new) BY <2>3, Applied
  <2>5. T[old][1] = T[new][1] /\ new \in H BY <2>2, HadIs
  <2>6. y \in Tables(R, V) /\ y.rows = x.rows /\ (y.ok => x.ok) OBVIOUS
  <2> HIDE DEF old, new
  <2>7. /\ Chased(y, old, new) \in Tables(R, V)
        /\ Chased(y, old, new).rows = y.rows /\ (Chased(y, old, new).ok => y.ok)
    BY <2>5, <2>6, ChasedGood
  <2> HIDE DEF R, V
  <2> QED BY <2>4, <2>6, <2>7
<1> HIDE DEF G
<1>4. Batch(x, Chases(items)) \in G BY <1>1, <1>2, <1>3, BatchStays
<1> QED BY <1>4 DEF G

(* A batch of good rows leaves good tables. *)
LEMMA UpsertedGood ==
  ASSUME NEW N, NEW P, NEW H, NEW F, NEW T, NEW U, Sorts(N, F), \A h \in H : T[h] \in N,
         rows \in Seq(GoodRows(N, H, F, T)), vols \in SUBSET GoodVols(P, H, T, U),
         NEW items \in Seq(GoodRows(N, H, F, T))
  PROVE  /\ Upserted(items) \in Tables(GoodRows(N, H, F, T), GoodVols(P, H, T, U))
         /\ Kept(F, rows, Upserted(items).rows)
<1> DEFINE R == GoodRows(N, H, F, T)
           V == GoodVols(P, H, T, U)
           x == [rows |-> rows, vols |-> vols, ok |-> TRUE]
           put == Batch(x, Puts(items))
           left == Batch(put, Inherits(put.rows, items))
           all == Batch(left, Chases(items))
<1>1. x \in Tables(R, V) BY DEF Tables
<1>2. x.rows = rows OBVIOUS
<1> HIDE DEF x
<1>3. put \in Tables(R, V) /\ Kept(F, rows, put.rows) BY <1>1, <1>2, PutsGood
<1>4. Upserted(items) = IF all.ok THEN all ELSE [x EXCEPT !.ok = FALSE] BY DEF Upserted, x
<1>8. [x EXCEPT !.ok = FALSE] \in Tables(R, V) /\ [x EXCEPT !.ok = FALSE].rows = rows
  BY <1>1, <1>2 DEF Tables
<1>9. Kept(F, rows, rows) BY DEF Kept
<1> HIDE DEF put
<1>5. left \in Tables(R, V) /\ Kept(F, put.rows, left.rows) BY <1>3, InheritsGood
<1>6. Kept(F, rows, left.rows) BY <1>3, <1>5, KeptOn
<1> HIDE DEF left
<1>7. all \in Tables(R, V) /\ all.rows = left.rows BY <1>5, ChasesGood
<1> HIDE DEF all
<1> QED BY <1>4, <1>6, <1>7, <1>8, <1>9

-----------------------------------------------------------------------------
(* The invariant, part by part. *)

Names == plan.contents \X {0, 1, 2, 9}
PartNames == plan.contents \X {1, 2}
ByContent == [n \in Names |-> n[1]]
ByName == [n \in Names |-> n]

(* The handles there have been, in any session, and the name each is of. *)
Handles == {ref \in Nat \X Nat : IF ref[1] = 0 THEN ref[2] \in DOMAIN parents
                                 ELSE ref[1] \in DOMAIN cloud /\ cloud[ref[1]] # Never /\ ref[2] <= session}
Titles == [ref \in Handles |-> IF ref[1] = 0 THEN Whole(parents[ref[2]]) ELSE cloud[ref[1]].name]

Copies(N) == {f \in [what : N, name : N, deep : BOOLEAN, zip : Nat, on : BOOLEAN] :
                f.name[1] = f.what[1] /\ (f.what[2] # 0 => f.name = f.what)}
CloudOK == cloud \in [1..MaxCopies -> Copies(Names) \cup {Never}]
WorldOK == /\ plan \in Scenarios /\ session \in Nat /\ parents \in Seq(plan.contents) /\ CloudOK
           /\ news \subseteq {k \in DOMAIN cloud : cloud[k] # Never} /\ wanted \subseteq plan.contents
LocalOK == /\ DOMAIN at = Ops /\ DOMAIN why = Ops /\ DOMAIN target = Ops /\ DOMAIN key = Ops
           /\ DOMAIN saved = Ops /\ DOMAIN zip = Ops /\ DOMAIN todo = Ops /\ DOMAIN done = Ops
           /\ DOMAIN seen = Ops /\ DOMAIN calm = Ops
TableOK(F, U) == /\ rows \in Seq(GoodRows(Names, Handles, F, Titles))
                 /\ vols \in SUBSET GoodVols(PartNames, Handles, Titles, U)

InSync == {"sync", "unsynced", "list", "deep", "index", "prune", "synced"}
Replaces(o) == Kind(o) = "convert" \/ (Kind(o) = "upload" /\ Of(o) \in Big)
Sending(o) == at[o] \in {"split", "part", "mark", "stamp"} \/ (at[o] \in InSync /\ why[o] = "resume")
StageOK(o) ==
  /\ todo[o] \subseteq Parts(Of(o)) /\ (todo[o] # {} => Kind(o) \in {"upload", "convert"})
  /\ at[o] = "download" => Kind(o) \in {"rename", "convert"}
  /\ at[o] = "keep" => Kind(o) = "upload" /\ Of(o) \in Big
  /\ at[o] = "send" => Kind(o) \in {"upload", "rename", "convert"} /\ (Replaces(o) => todo[o] # {})
  /\ Sending(o) => Replaces(o) /\ Of(o) \in Big
  /\ at[o] = "mark" => todo[o] # {}
  /\ at[o] = "stamp" => todo[o] = {}
  /\ at[o] = "delete" => Kind(o) \in {"delete", "rename", "convert"}
  /\ at[o] = "forget" => Kind(o) = "delete"
  /\ at[o] = "rename" => Kind(o) = "rename"
  /\ Kind(o) = "convert" /\ at[o] # "idle" => Of(o) \in Big

KeyOK(o, k) == k = NoRef \/ (k \in Handles /\ Titles[k][1] = Of(o))
KeysOK(o) ==
  /\ Kind(o) \in {"upload", "convert"} => KeyOK(o, key[o]) /\ KeyOK(o, saved[o])
  /\ Kind(o) = "convert" /\ at[o] # "idle" => key[o] # NoRef /\ saved[o] # NoRef
  /\ at[o] \in {"keep", "split"} => key[o] # NoRef
TargetOK(o) ==
  Kind(o) \in {"delete", "rename"} /\ at[o] # "idle" =>
    target[o] \in DOMAIN rows /\ rows[target[o]].name[1] = Of(o)

ItemSet(N, H, T) == {r \in RowSet(N, H) : /\ r.name = T[r.ref] /\ r.key = r.name
                                          /\ r.meta = "plain" /\ r.status = "active" /\ r.ref[1] # 0}
SeenOK(o) == zip[o] \in Nat /\ seen[o] \in Seq(ItemSet(Names, Handles, Titles))

Base == /\ WorldOK /\ LocalOK /\ TableOK(ByContent, PartNames)
        /\ \A o \in Ops : StageOK(o) /\ KeysOK(o) /\ TargetOK(o) /\ SeenOK(o)

Grow == Handles \subseteq Handles' /\ \A h \in Handles : Titles'[h] = Titles[h]

-----------------------------------------------------------------------------
(* What a step of one operation leaves alone of the others. *)
SameAt(p) == /\ at'[p] = at[p] /\ why'[p] = why[p] /\ target'[p] = target[p] /\ key'[p] = key[p]
             /\ saved'[p] = saved[p] /\ zip'[p] = zip[p] /\ todo'[p] = todo[p] /\ done'[p] = done[p]
             /\ seen'[p] = seen[p]

LEMMA WorkLocal ==
  ASSUME NEW o \in Ops, LocalOK, Work(o)
  PROVE  LocalOK' /\ \A p \in Ops \ {o} : SameAt(p)
<1>1. CASE Submit(o) BY <1>1 DEF Submit, LocalOK, SameAt, Go, Then, Raise, Sync, Asked, Disturb, DisturbOthers, Quiet, Stored, local, handles, table
<1>2. CASE Fails(o) BY <1>2 DEF Fails, LocalOK, SameAt, Go, Then, Raise, Sync, Asked, Disturb, DisturbOthers, Quiet, Stored, local, handles, table
<1>3. CASE Pauses(o) BY <1>3 DEF Pauses, LocalOK, SameAt, Go, Then, Raise, Sync, Asked, Disturb, DisturbOthers, Quiet, Stored, local, handles, table
<1>4. CASE Resumes(o) BY <1>4 DEF Resumes, LocalOK, SameAt, Go, Then, Raise, Sync, Asked, Disturb, DisturbOthers, Quiet, Stored, local, handles, table
<1>5. CASE SyncStarts(o) BY <1>5 DEF SyncStarts, LocalOK, SameAt, Go, Then, Raise, Sync, Asked, Disturb, DisturbOthers, Quiet, Stored, local, handles, table
<1>6. CASE SyncLists(o) BY <1>6 DEF SyncLists, LocalOK, SameAt, Go, Then, Raise, Sync, Asked, Disturb, DisturbOthers, Quiet, Stored, local, handles, table
<1>7. CASE SyncListsDeep(o) BY <1>7 DEF SyncListsDeep, LocalOK, SameAt, Go, Then, Raise, Sync, Asked, Disturb, DisturbOthers, Quiet, Stored, local, handles, table
<1>8. CASE SyncIndexes(o) BY <1>8 DEF SyncIndexes, LocalOK, SameAt, Go, Then, Raise, Sync, Asked, Disturb, DisturbOthers, Quiet, Stored, local, handles, table
<1>9. CASE SyncPrunes(o) BY <1>9 DEF SyncPrunes, LocalOK, SameAt, Go, Then, Raise, Sync, Asked, Disturb, DisturbOthers, Quiet, Stored, local, handles, table
<1>10. CASE SyncEnds(o) BY <1>10 DEF SyncEnds, LocalOK, SameAt, Go, Then, Raise, Sync, Asked, Disturb, DisturbOthers, Quiet, Stored, local, handles, table
<1>11. CASE SyncFailed(o) BY <1>11 DEF SyncFailed, LocalOK, SameAt, Go, Then, Raise, Sync, Asked, Disturb, DisturbOthers, Quiet, Stored, local, handles, table
<1>12. CASE UploadBegins(o) BY <1>12 DEF UploadBegins, LocalOK, SameAt, Go, Then, Raise, Sync, Asked, Disturb, DisturbOthers, Quiet, Stored, local, handles, table
<1>13. CASE UploadKeeps(o) BY <1>13 DEF UploadKeeps, LocalOK, SameAt, Go, Then, Raise, Sync, Asked, Disturb, DisturbOthers, Quiet, Stored, local, handles, table
<1>14. CASE ConvertBegins(o) BY <1>14 DEF ConvertBegins, LocalOK, SameAt, Go, Then, Raise, Sync, Asked, Disturb, DisturbOthers, Quiet, Stored, local, handles, table
<1>15. CASE Downloads(o) BY <1>15 DEF Downloads, LocalOK, SameAt, Go, Then, Raise, Sync, Asked, Disturb, DisturbOthers, Quiet, Stored, local, handles, table
<1>16. CASE Splits(o) BY <1>16 DEF Splits, LocalOK, SameAt, Go, Then, Raise, Sync, Asked, Disturb, DisturbOthers, Quiet, Stored, local, handles, table
<1>17. CASE PartStarts(o) BY <1>17 DEF PartStarts, LocalOK, SameAt, Go, Then, Raise, Sync, Asked, Disturb, DisturbOthers, Quiet, Stored, local, handles, table
<1>18. CASE Sends(o) BY <1>18 DEF Sends, LocalOK, SameAt, Go, Then, Raise, Sync, Asked, Disturb, DisturbOthers, Quiet, Stored, local, handles, table
<1>19. CASE PartEnds(o) BY <1>19 DEF PartEnds, LocalOK, SameAt, Go, Then, Raise, Sync, Asked, Disturb, DisturbOthers, Quiet, Stored, local, handles, table
<1>20. CASE Stamps(o) BY <1>20 DEF Stamps, LocalOK, SameAt, Go, Then, Raise, Sync, Asked, Disturb, DisturbOthers, Quiet, Stored, local, handles, table
<1>21. CASE DeleteBegins(o) BY <1>21 DEF DeleteBegins, LocalOK, SameAt, Go, Then, Raise, Sync, Asked, Disturb, DisturbOthers, Quiet, Stored, local, handles, table
<1>22. CASE Deletes(o) BY <1>22 DEF Deletes, LocalOK, SameAt, Go, Then, Raise, Sync, Asked, Disturb, DisturbOthers, Quiet, Stored, local, handles, table
<1>23. CASE FindsNothing(o) BY <1>23 DEF FindsNothing, LocalOK, SameAt, Go, Then, Raise, Sync, Asked, Disturb, DisturbOthers, Quiet, Stored, local, handles, table
<1>24. CASE Forgets(o) BY <1>24 DEF Forgets, LocalOK, SameAt, Go, Then, Raise, Sync, Asked, Disturb, DisturbOthers, Quiet, Stored, local, handles, table
<1>25. CASE RenameBegins(o) BY <1>25 DEF RenameBegins, LocalOK, SameAt, Go, Then, Raise, Sync, Asked, Disturb, DisturbOthers, Quiet, Stored, local, handles, table
<1>26. CASE RenamesRow(o) BY <1>26 DEF RenamesRow, LocalOK, SameAt, Go, Then, Raise, Sync, Asked, Disturb, DisturbOthers, Quiet, Stored, local, handles, table
<1>27. CASE Moves(o) BY <1>27 DEF Moves, LocalOK, SameAt, Go, Then, Raise, Sync, Asked, Disturb, DisturbOthers, Quiet, Stored, local, handles, table
<1>28. CASE FolderBegins(o) BY <1>28 DEF FolderBegins, LocalOK, SameAt, Go, Then, Raise, Sync, Asked, Disturb, DisturbOthers, Quiet, Stored, local, handles, table
<1>29. CASE SyncBegins(o) BY <1>29 DEF SyncBegins, LocalOK, SameAt, Go, Then, Raise, Sync, Asked, Disturb, DisturbOthers, Quiet, Stored, local, handles, table
<1>30. CASE Reads(o) BY <1>30 DEF Reads, LocalOK, SameAt, Go, Then, Raise, Sync, Asked, Disturb, DisturbOthers, Quiet, Stored, local, handles, table
<1> QED BY <1>1, <1>2, <1>3, <1>4, <1>5, <1>6, <1>7, <1>8, <1>9, <1>10, <1>11, <1>12, <1>13, <1>14, <1>15, <1>16, <1>17, <1>18, <1>19, <1>20, <1>21, <1>22, <1>23, <1>24, <1>25, <1>26, <1>27, <1>28, <1>29, <1>30 DEF Work

LEMMA WorkStage ==
  ASSUME NEW o \in Ops, LocalOK, StageOK(o), Work(o)
  PROVE  StageOK(o)'
<1> USE DEF LocalOK, StageOK, Sending, Replaces, InSync, Kind, Of, Go, Then, Raise, Sync
<1>1. CASE Submit(o) BY <1>1 DEF Submit, Asked, Convertible, Shown
<1>2. CASE Fails(o) BY <1>2 DEF Fails, Busy
<1>3. CASE Pauses(o) BY <1>3 DEF Pauses
<1>4. CASE Resumes(o) BY <1>4 DEF Resumes
<1>5. CASE SyncStarts(o) BY <1>5 DEF SyncStarts
<1>6. CASE SyncLists(o) BY <1>6 DEF SyncLists
<1>7. CASE SyncListsDeep(o) BY <1>7 DEF SyncListsDeep
<1>8. CASE SyncIndexes(o) BY <1>8 DEF SyncIndexes
<1>9. CASE SyncPrunes(o) BY <1>9 DEF SyncPrunes
<1>10. CASE SyncEnds(o) BY <1>10 DEF SyncEnds
<1>11. CASE SyncFailed(o) BY <1>11 DEF SyncFailed
<1>12. CASE UploadBegins(o) BY <1>12 DEF UploadBegins
<1>13. CASE UploadKeeps(o) BY <1>13 DEF UploadKeeps
<1>14. CASE ConvertBegins(o) BY <1>14 DEF ConvertBegins
<1>15. CASE Downloads(o) BY <1>15 DEF Downloads
<1>16. CASE Splits(o) BY <1>16 DEF Splits
<1>17. CASE PartStarts(o) BY <1>17 DEF PartStarts, Next1
<1>18. CASE Sends(o)
  <2>1. at[o] = "send" /\ plan' = plan BY <1>18 DEF Sends
  <2>2. CASE todo[o] # {} /\ Then(o, "mark") BY <2>1, <2>2 DEF Parts
  <2>3. CASE todo[o] = {} /\ Kind(o) = "rename" /\ Then(o, "delete") BY <2>1, <2>3
  <2>4. CASE Sync(o, "final") BY <2>1, <2>4
  <2>5. CASE Raise(o) BY <2>1, <2>5
  <2> QED BY ONLY <1>18, <2>2, <2>3, <2>4, <2>5 DEF Sends
<1>19. CASE PartEnds(o) BY <1>19 DEF PartEnds, Next1
<1>20. CASE Stamps(o) BY <1>20 DEF Stamps
<1>21. CASE DeleteBegins(o) BY <1>21 DEF DeleteBegins
<1>22. CASE Deletes(o) BY <1>22 DEF Deletes
<1>23. CASE FindsNothing(o) BY <1>23 DEF FindsNothing
<1>24. CASE Forgets(o) BY <1>24 DEF Forgets
<1>25. CASE RenameBegins(o) BY <1>25 DEF RenameBegins
<1>26. CASE RenamesRow(o) BY <1>26 DEF RenamesRow
<1>27. CASE Moves(o) BY <1>27 DEF Moves
<1>28. CASE FolderBegins(o) BY <1>28 DEF FolderBegins
<1>29. CASE SyncBegins(o) BY <1>29 DEF SyncBegins
<1>30. CASE Reads(o) BY <1>30 DEF Reads
<1> QED BY <1>1, <1>2, <1>3, <1>4, <1>5, <1>6, <1>7, <1>8, <1>9, <1>10, <1>11, <1>12, <1>13, <1>14, <1>15, <1>16, <1>17, <1>18, <1>19, <1>20, <1>21, <1>22, <1>23, <1>24, <1>25, <1>26, <1>27, <1>28, <1>29, <1>30 DEF Work

-----------------------------------------------------------------------------
(* The cloud and the handles. *)

LEMMA Scenario ==
  ASSUME WorldOK
  PROVE  /\ plan.holds \in Seq(plan.contents) /\ Len(plan.holds) <= MaxCopies /\ MaxCopies \in Nat
         /\ "none" \notin plan.contents
         /\ \A o \in Ops : Of(o) \in plan.contents
BY FilesAssumption DEF FilesAssumption, WorldOK, Of

LEMMA Grown ==
  ASSUME DOMAIN cloud' = DOMAIN cloud, session \in Nat, session' \in Nat, session <= session',
         \A k \in DOMAIN cloud : cloud[k] # Never => cloud'[k] # Never /\ cloud'[k].name = cloud[k].name,
         DOMAIN parents \subseteq DOMAIN parents', \A i \in DOMAIN parents : parents'[i] = parents[i]
  PROVE  Grow
<1>1. Handles \subseteq Handles' BY DEF Handles
<1>2. ASSUME NEW h \in Handles PROVE Titles'[h] = Titles[h]
  <2>1. Titles[h] = IF h[1] = 0 THEN Whole(parents[h[2]]) ELSE cloud[h[1]].name BY DEF Titles
  <2>2. Titles'[h] = IF h[1] = 0 THEN Whole(parents'[h[2]]) ELSE cloud'[h[1]].name BY <1>1 DEF Titles
  <2>3. IF h[1] = 0 THEN h[2] \in DOMAIN parents ELSE h[1] \in DOMAIN cloud /\ cloud[h[1]] # Never
    BY DEF Handles
  <2> QED BY <2>1, <2>2, <2>3
<1> QED BY <1>1, <1>2 DEF Grow

LEMMA NotNever ==
  ASSUME WorldOK, NEW f \in Copies(Names)
  PROVE  f # Never /\ f.what # Gone /\ f.what \in Names /\ f.name \in Names
<1>1. f.what \in Names /\ f.name \in Names BY DEF Copies
<1>2. f.what[1] \in plan.contents BY <1>1 DEF Names
<1>3. f.what # Gone BY <1>2, Scenario DEF Gone
<1> QED BY <1>1, <1>3 DEF Never

LEMMA StoredWorld ==
  ASSUME WorldOK, plan' = plan, parents' = parents, session' = session, NEW what, NEW name, NEW deep, NEW z,
         File(what, name, deep, z) \in Copies(Names), Stored(what, name, deep, z)
  PROVE  /\ CloudOK' /\ Grow /\ news' \subseteq {k \in DOMAIN cloud : cloud'[k] # Never}
         /\ DOMAIN cloud' = DOMAIN cloud
         /\ \E k \in DOMAIN cloud : /\ cloud[k] = Never
                                    /\ cloud' = [cloud EXCEPT ![k] = File(what, name, deep, z)]
<1> DEFINE k == CHOOSE k \in Free : \A j \in Free : k <= j
<1>1. cloud \in [1..MaxCopies -> Copies(Names) \cup {Never}] BY DEF WorldOK, CloudOK
<1>2. Free \subseteq 1..MaxCopies /\ Free \subseteq Nat /\ Free # {} BY <1>1, Scenario DEF Free, Stored
<1>3. k \in Free BY <1>2, LeastNat
<1>4. cloud' = [cloud EXCEPT ![k] = File(what, name, deep, z)] BY DEF Stored
<1>5. news' \subseteq news \cup {k} BY DEF Stored
<1>6. k \in DOMAIN cloud /\ cloud[k] = Never BY <1>3 DEF Free
<1> HIDE DEF k
<1>7. File(what, name, deep, z) # Never BY NotNever
<1>8. cloud' \in [1..MaxCopies -> Copies(Names) \cup {Never}] BY <1>1, <1>4
<1>9. CloudOK' BY <1>8 DEF CloudOK, Names
<1>10. Grow
  <2>1. DOMAIN cloud' = DOMAIN cloud BY <1>4
  <2>2. ASSUME NEW j \in DOMAIN cloud, cloud[j] # Never
        PROVE  cloud'[j] # Never /\ cloud'[j].name = cloud[j].name
    BY <1>4, <1>6, <2>2
  <2> QED BY <2>1, <2>2, Grown DEF WorldOK
<1>11. news' \subseteq {j \in DOMAIN cloud : cloud'[j] # Never}
  <2>1. news \subseteq {j \in DOMAIN cloud : cloud[j] # Never} BY DEF WorldOK
  <2> QED BY <1>4, <1>5, <1>6, <1>7, <2>1
<1> QED BY <1>4, <1>6, <1>9, <1>10, <1>11

LEMMA ChangedWorld ==
  ASSUME WorldOK, plan' = plan, parents' = parents, session' = session,
         NEW k \in DOMAIN cloud, cloud[k] # Never, NEW f, cloud' = [cloud EXCEPT ![k] = f],
         f = [cloud[k] EXCEPT !.on = FALSE] \/ f = [cloud[k] EXCEPT !.deep = ~@]
  PROVE  CloudOK' /\ Grow /\ news \subseteq {j \in DOMAIN cloud : cloud'[j] # Never}
         /\ DOMAIN cloud' = DOMAIN cloud
<1>1. cloud \in [1..MaxCopies -> Copies(Names) \cup {Never}] BY DEF WorldOK, CloudOK
<1>2. cloud[k] \in Copies(Names) BY <1>1
<1>3. f \in Copies(Names) /\ f.name = cloud[k].name BY <1>2 DEF Copies
<1>4. f # Never BY <1>3, NotNever
<1>5. cloud' \in [1..MaxCopies -> Copies(Names) \cup {Never}] BY <1>1, <1>3
<1>6. CloudOK' BY <1>5 DEF CloudOK, Names
<1>7. DOMAIN cloud' = DOMAIN cloud OBVIOUS
<1>8. \A j \in DOMAIN cloud : cloud[j] # Never => cloud'[j] # Never /\ cloud'[j].name = cloud[j].name
  BY <1>3, <1>4
<1>9. Grow BY <1>7, <1>8, Grown DEF WorldOK
<1>10. news \subseteq {j \in DOMAIN cloud : cloud[j] # Never} BY DEF WorldOK
<1> QED BY <1>6, <1>7, <1>8, <1>9, <1>10

LEMMA FirstPart ==
  ASSUME NEW o \in Ops, todo[o] \subseteq Parts(Of(o)), todo[o] # {}
  PROVE  Next1(o) \in todo[o]
<1> DEFINE first(p) == p \in todo[o] /\ \A q \in todo[o] : p[2] <= q[2]
<1>1. todo[o] \subseteq {<<Of(o), 1>>, <<Of(o), 2>>} BY DEF Parts
<1>2. CASE <<Of(o), 1>> \in todo[o]
  <2>1. first(<<Of(o), 1>>) BY <1>1, <1>2
  <2> QED BY <2>1 DEF Next1
<1>3. CASE <<Of(o), 1>> \notin todo[o]
  <2>1. todo[o] = {<<Of(o), 2>>} BY <1>1, <1>3
  <2>2. first(<<Of(o), 2>>) BY <2>1
  <2> QED BY <2>2 DEF Next1
<1> QED BY <1>2, <1>3

LEMMA SamePlan ==
  ASSUME [Next]_vars
  PROVE  plan' = plan
<1>1. ASSUME NEW o \in Ops, Work(o) PROVE plan' = plan
  <2>1. CASE Submit(o) BY <2>1 DEF Submit
  <2>2. CASE Fails(o) BY <2>2 DEF Fails
  <2>3. CASE Pauses(o) BY <2>3 DEF Pauses
  <2>4. CASE Resumes(o) BY <2>4 DEF Resumes
  <2>5. CASE SyncStarts(o) BY <2>5 DEF SyncStarts
  <2>6. CASE SyncLists(o) BY <2>6 DEF SyncLists
  <2>7. CASE SyncListsDeep(o) BY <2>7 DEF SyncListsDeep
  <2>8. CASE SyncIndexes(o) BY <2>8 DEF SyncIndexes
  <2>9. CASE SyncPrunes(o) BY <2>9 DEF SyncPrunes
  <2>10. CASE SyncEnds(o) BY <2>10 DEF SyncEnds
  <2>11. CASE SyncFailed(o) BY <2>11 DEF SyncFailed
  <2>12. CASE UploadBegins(o) BY <2>12 DEF UploadBegins
  <2>13. CASE UploadKeeps(o) BY <2>13 DEF UploadKeeps
  <2>14. CASE ConvertBegins(o) BY <2>14 DEF ConvertBegins
  <2>15. CASE Downloads(o) BY <2>15 DEF Downloads
  <2>16. CASE Splits(o) BY <2>16 DEF Splits
  <2>17. CASE PartStarts(o) BY <2>17 DEF PartStarts
  <2>18. CASE Sends(o) BY <2>18 DEF Sends
  <2>19. CASE PartEnds(o) BY <2>19 DEF PartEnds
  <2>20. CASE Stamps(o) BY <2>20 DEF Stamps
  <2>21. CASE DeleteBegins(o) BY <2>21 DEF DeleteBegins
  <2>22. CASE Deletes(o) BY <2>22 DEF Deletes
  <2>23. CASE FindsNothing(o) BY <2>23 DEF FindsNothing
  <2>24. CASE Forgets(o) BY <2>24 DEF Forgets
  <2>25. CASE RenameBegins(o) BY <2>25 DEF RenameBegins
  <2>26. CASE RenamesRow(o) BY <2>26 DEF RenamesRow
  <2>27. CASE Moves(o) BY <2>27 DEF Moves
  <2>28. CASE FolderBegins(o) BY <2>28 DEF FolderBegins
  <2>29. CASE SyncBegins(o) BY <2>29 DEF SyncBegins
  <2>30. CASE Reads(o) BY <2>30 DEF Reads
  <2> QED BY <1>1, <2>1, <2>2, <2>3, <2>4, <2>5, <2>6, <2>7, <2>8, <2>9, <2>10, <2>11, <2>12, <2>13, <2>14, <2>15, <2>16, <2>17, <2>18, <2>19, <2>20, <2>21, <2>22, <2>23, <2>24, <2>25, <2>26, <2>27, <2>28, <2>29, <2>30 DEF Work
<1>2. CASE Crash BY <1>2 DEF Crash
<1>3. CASE NewSession BY <1>3 DEF NewSession
<1>4. ASSUME NEW c \in plan.contents, MemberUploads(c) PROVE plan' = plan BY <1>4 DEF MemberUploads
<1>5. ASSUME NEW k \in DOMAIN cloud, MemberDeletes(k) PROVE plan' = plan BY <1>5 DEF MemberDeletes
<1>6. ASSUME NEW k \in DOMAIN cloud, IndexEvent(k) PROVE plan' = plan BY <1>6 DEF IndexEvent
<1>7. CASE UNCHANGED vars BY <1>7 DEF vars
<1> QED BY <1>1, <1>2, <1>3, <1>4, <1>5, <1>6, <1>7 DEF Next

LEMMA SameWorld ==
  ASSUME WorldOK, plan' = plan, session' \in Nat, session <= session', cloud' = cloud, parents' = parents, news' \subseteq news,
         wanted' \subseteq plan.contents
  PROVE  WorldOK' /\ Grow
<1>1. Grow BY Grown DEF WorldOK
<1>2. WorldOK' BY DEF WorldOK, CloudOK, Names
<1> QED BY <1>1, <1>2

LEMMA SentFile ==
  ASSUME NEW o \in Ops, WorldOK, StageOK(o), SeenOK(o)
  PROVE  File(What(o), Name(o), FALSE, zip[o]) \in Copies(Names)
<1>1. Of(o) \in plan.contents /\ zip[o] \in Nat BY Scenario DEF SeenOK
<1>2. CASE todo[o] = {}
  <2>1. What(o) = <<Of(o), 0>> /\ Name(o) \in {<<Of(o), 0>>, <<Of(o), 9>>}
    BY <1>2 DEF What, Name, Whole, Renamed
  <2> QED BY <1>1, <2>1 DEF File, Copies, Names
<1>3. CASE todo[o] # {}
  <2>1. Next1(o) \in todo[o] BY <1>3, FirstPart DEF StageOK
  <2>2. Next1(o) \in {<<Of(o), 1>>, <<Of(o), 2>>} BY <2>1 DEF StageOK, Parts
  <2>3. What(o) = Next1(o) /\ Name(o) = Next1(o) BY <1>3 DEF What, Name
  <2> QED BY <1>1, <2>2, <2>3 DEF File, Copies, Names
<1> QED BY <1>2, <1>3

LEMMA WorkWorld ==
  ASSUME NEW o \in Ops, Base, Work(o)
  PROVE  WorldOK' /\ Grow
<1> USE DEF handles
<1>a. WorldOK /\ StageOK(o) /\ SeenOK(o) /\ session \in Nat /\ wanted \subseteq plan.contents
  BY DEF Base, WorldOK
<1>b. Of(o) \in plan.contents BY <1>a, Scenario
<1>c. parents \in Seq(plan.contents) /\ cloud \in [1..MaxCopies -> Copies(Names) \cup {Never}]
  BY <1>a DEF WorldOK, CloudOK
<1>d. There \subseteq {k \in DOMAIN cloud : cloud[k] # Never} BY DEF There, Never
<1>1. CASE Submit(o) BY <1>a, <1>b, <1>1, SameWorld DEF Submit
<1>2. CASE Fails(o) BY <1>a, <1>b, <1>2, SameWorld DEF Fails
<1>3. CASE Pauses(o) BY <1>a, <1>b, <1>3, SameWorld DEF Pauses
<1>4. CASE Resumes(o) BY <1>a, <1>b, <1>4, SameWorld DEF Resumes
<1>5. CASE SyncStarts(o) BY <1>a, <1>b, <1>5, SameWorld DEF SyncStarts
<1>6. CASE SyncLists(o) BY <1>a, <1>b, <1>6, SameWorld DEF SyncLists
<1>7. CASE SyncListsDeep(o) BY <1>a, <1>b, <1>7, SameWorld DEF SyncListsDeep
<1>8. CASE SyncIndexes(o) BY <1>a, <1>b, <1>8, SameWorld DEF SyncIndexes
<1>9. CASE SyncPrunes(o) BY <1>a, <1>b, <1>9, SameWorld DEF SyncPrunes
<1>10. CASE SyncEnds(o) BY <1>a, <1>b, <1>10, SameWorld DEF SyncEnds
<1>11. CASE SyncFailed(o) BY <1>a, <1>b, <1>11, SameWorld DEF SyncFailed
<1>12. CASE UploadBegins(o)
  <2>1. plan' = plan /\ cloud' = cloud /\ session' = session /\ news' = news /\ wanted' = wanted
    BY <1>12 DEF UploadBegins
  <2>2. CASE parents' = parents BY <1>a, <2>1, <2>2, SameWorld
  <2>3. CASE parents' = Append(parents, Of(o))
    <3>1. /\ parents' \in Seq(plan.contents) /\ DOMAIN parents \subseteq DOMAIN parents'
          /\ \A i \in DOMAIN parents : parents'[i] = parents[i]
      BY <1>b, <1>c, <2>3
    <3>2. Grow BY <1>a, <2>1, <3>1, Grown
    <3>3. WorldOK' BY <1>a, <2>1, <3>1 DEF WorldOK, CloudOK, Names
    <3> QED BY <3>2, <3>3
  <2> QED BY <1>12, <2>2, <2>3 DEF UploadBegins
<1>13. CASE UploadKeeps(o) BY <1>a, <1>b, <1>13, SameWorld DEF UploadKeeps
<1>14. CASE ConvertBegins(o) BY <1>a, <1>b, <1>14, SameWorld DEF ConvertBegins
<1>15. CASE Downloads(o) BY <1>a, <1>b, <1>15, SameWorld DEF Downloads
<1>16. CASE Splits(o) BY <1>a, <1>b, <1>16, SameWorld DEF Splits
<1>17. CASE PartStarts(o) BY <1>a, <1>b, <1>17, SameWorld DEF PartStarts
<1>18. CASE Sends(o)
  <2>1. /\ plan' = plan /\ session' = session /\ parents' = parents /\ Stored(What(o), Name(o), FALSE, zip[o])
        /\ wanted' \subseteq plan.contents
    BY <1>a, <1>b, <1>18 DEF Sends
  <2>2. CloudOK' /\ Grow /\ news' \subseteq {k \in DOMAIN cloud : cloud'[k] # Never} /\ DOMAIN cloud' = DOMAIN cloud
    BY <1>a, <2>1, SentFile, StoredWorld
  <2>3. WorldOK' BY <1>a, <2>1, <2>2 DEF WorldOK
  <2> QED BY <2>2, <2>3
<1>19. CASE PartEnds(o) BY <1>a, <1>b, <1>19, SameWorld DEF PartEnds
<1>20. CASE Stamps(o) BY <1>a, <1>b, <1>20, SameWorld DEF Stamps
<1>21. CASE DeleteBegins(o) BY <1>a, <1>b, <1>21, SameWorld DEF DeleteBegins
<1>22. CASE Deletes(o)
  <2>1. /\ plan' = plan /\ session' = session /\ parents' = parents /\ news' = news
        /\ wanted' \subseteq plan.contents
    BY <1>a, <1>22 DEF Deletes
  <2>2. PICK k \in There : Emptied(k) BY <1>22 DEF Deletes, Victims, Named
  <2>3. k \in DOMAIN cloud /\ cloud[k] # Never BY <1>d
  <2>4. cloud' = [cloud EXCEPT ![k] = [cloud[k] EXCEPT !.on = FALSE]] BY <2>2 DEF Emptied
  <2>5. CloudOK' /\ Grow /\ news \subseteq {j \in DOMAIN cloud : cloud'[j] # Never} /\ DOMAIN cloud' = DOMAIN cloud
    BY <1>a, <2>1, <2>3, <2>4, ChangedWorld
  <2>6. WorldOK' BY <1>a, <2>1, <2>5 DEF WorldOK
  <2> QED BY <2>5, <2>6
<1>23. CASE FindsNothing(o) BY <1>a, <1>b, <1>23, SameWorld DEF FindsNothing
<1>24. CASE Forgets(o) BY <1>a, <1>b, <1>24, SameWorld DEF Forgets
<1>25. CASE RenameBegins(o) BY <1>a, <1>b, <1>25, SameWorld DEF RenameBegins
<1>26. CASE RenamesRow(o) BY <1>a, <1>b, <1>26, SameWorld DEF RenamesRow
<1>27. CASE Moves(o)
  <2>1. /\ plan' = plan /\ session' = session /\ parents' = parents /\ news' = news
        /\ wanted' \subseteq plan.contents
    BY <1>a, <1>27 DEF Moves
  <2>2. PICK k \in There : cloud' = [cloud EXCEPT ![k].deep = ~@] BY <1>27 DEF Moves, Named
  <2>3. k \in DOMAIN cloud /\ cloud[k] # Never BY <1>d
  <2>4. cloud' = [cloud EXCEPT ![k] = [cloud[k] EXCEPT !.deep = ~@]] BY <2>2
  <2>5. CloudOK' /\ Grow /\ news \subseteq {j \in DOMAIN cloud : cloud'[j] # Never} /\ DOMAIN cloud' = DOMAIN cloud
    BY <1>a, <2>1, <2>3, <2>4, ChangedWorld
  <2>6. WorldOK' BY <1>a, <2>1, <2>5 DEF WorldOK
  <2> QED BY <2>5, <2>6
<1>28. CASE FolderBegins(o) BY <1>a, <1>b, <1>28, SameWorld DEF FolderBegins
<1>29. CASE SyncBegins(o) BY <1>a, <1>b, <1>29, SameWorld DEF SyncBegins
<1>30. CASE Reads(o) BY <1>a, <1>b, <1>30, SameWorld DEF Reads
<1> QED BY <1>1, <1>2, <1>3, <1>4, <1>5, <1>6, <1>7, <1>8, <1>9, <1>10, <1>11, <1>12, <1>13, <1>14, <1>15, <1>16, <1>17, <1>18, <1>19, <1>20, <1>21, <1>22, <1>23, <1>24, <1>25, <1>26, <1>27, <1>28, <1>29, <1>30 DEF Work

LEMMA NextWorld ==
  ASSUME Base, [Next]_vars
  PROVE  WorldOK' /\ Grow
<1> USE DEF handles
<1>a. WorldOK /\ session \in Nat /\ wanted \subseteq plan.contents BY DEF Base, WorldOK
<1>b. There \subseteq {k \in DOMAIN cloud : cloud[k] # Never} BY DEF There, Never
<1>1. ASSUME NEW o \in Ops, Work(o) PROVE WorldOK' /\ Grow BY <1>1, WorkWorld
<1>2. CASE Crash BY <1>a, <1>2, SameWorld DEF Crash
<1>3. CASE NewSession BY <1>a, <1>3, SameWorld DEF NewSession
<1>4. ASSUME NEW c \in plan.contents, MemberUploads(c) PROVE WorldOK' /\ Grow
  <2>1. PICK deep \in BOOLEAN : Stored(Whole(c), Whole(c), deep, 0) BY <1>4 DEF MemberUploads
  <2>2. File(Whole(c), Whole(c), deep, 0) \in Copies(Names) BY DEF File, Copies, Names, Whole
  <2>3. /\ plan' = plan /\ session' = session /\ parents' = parents /\ wanted' \subseteq plan.contents
    BY <1>a, <1>4 DEF MemberUploads
  <2>4. CloudOK' /\ Grow /\ news' \subseteq {k \in DOMAIN cloud : cloud'[k] # Never} /\ DOMAIN cloud' = DOMAIN cloud
    BY <1>a, <2>1, <2>2, <2>3, StoredWorld
  <2>5. WorldOK' BY <1>a, <2>3, <2>4 DEF WorldOK
  <2> QED BY <2>4, <2>5
<1>5. ASSUME NEW k \in DOMAIN cloud, MemberDeletes(k) PROVE WorldOK' /\ Grow
  <2>1. /\ plan' = plan /\ session' = session /\ parents' = parents /\ news' = news
        /\ wanted' \subseteq plan.contents /\ k \in There /\ Emptied(k)
    BY <1>a, <1>5 DEF MemberDeletes
  <2>2. cloud[k] # Never BY <1>b, <2>1
  <2>3. cloud' = [cloud EXCEPT ![k] = [cloud[k] EXCEPT !.on = FALSE]] BY <2>1 DEF Emptied
  <2>4. CloudOK' /\ Grow /\ news \subseteq {j \in DOMAIN cloud : cloud'[j] # Never} /\ DOMAIN cloud' = DOMAIN cloud
    BY <1>a, <2>1, <2>2, <2>3, ChangedWorld
  <2>5. WorldOK' BY <1>a, <2>1, <2>4 DEF WorldOK
  <2> QED BY <2>4, <2>5
<1>6. ASSUME NEW k \in DOMAIN cloud, IndexEvent(k) PROVE WorldOK' /\ Grow
  <2>1. /\ plan' = plan /\ session' = session /\ parents' = parents /\ cloud' = cloud /\ wanted' = wanted
        /\ news' \subseteq news
    BY <1>6 DEF IndexEvent
  <2> QED BY <1>a, <2>1, SameWorld
<1>7. CASE UNCHANGED vars BY <1>a, <1>7, SameWorld DEF vars
<1> QED BY <1>1, <1>2, <1>3, <1>4, <1>5, <1>6, <1>7 DEF Next

-----------------------------------------------------------------------------
(* What each statement leaves of good tables.                              *)

LEMMA PrunedGood ==
  ASSUME NEW N, NEW H, NEW F, NEW T, rows \in Seq(GoodRows(N, H, F, T)), NEW refs
  PROVE  /\ Pruned(refs) \in Seq(GoodRows(N, H, F, T))
         /\ Kept(F, rows, Pruned(refs))
<1> DEFINE R == GoodRows(N, H, F, T)
           s == Pruned(refs)
<1>1. s = [i \in DOMAIN rows |-> s[i]] /\ DOMAIN s = DOMAIN rows BY DEF Pruned
<1>2. ASSUME NEW i \in DOMAIN rows PROVE s[i] \in R /\ s[i].name = rows[i].name
  <2>1. rows[i] \in R OBVIOUS
  <2>2. s[i] = rows[i] \/ s[i] = [rows[i] EXCEPT !.status = "deleted"] BY DEF Pruned
  <2>3. [rows[i] EXCEPT !.status = "deleted"] \in R BY <2>1, RowChanged
  <2>4. [rows[i] EXCEPT !.status = "deleted"].name = rows[i].name BY <2>1 DEF GoodRows, RowSet
  <2> HIDE DEF R
  <2> QED BY <2>1, <2>2, <2>3, <2>4
<1>3. DOMAIN rows = 1..Len(rows) /\ Len(rows) \in Nat OBVIOUS
<1> HIDE DEF s, R
<1>4. s \in Seq(R) BY <1>1, <1>2, <1>3
<1>5. Kept(F, rows, s) BY <1>1, <1>2 DEF Kept
<1> QED BY <1>4, <1>5 DEF s, R

LEMMA StampedGood ==
  ASSUME NEW N, NEW H, NEW F, NEW T, rows \in Seq(GoodRows(N, H, F, T)), NEW k, NEW s,
         s = [i \in DOMAIN rows |-> IF rows[i].ref = k THEN [rows[i] EXCEPT !.meta = "whole"] ELSE rows[i]]
  PROVE  /\ s \in Seq(GoodRows(N, H, F, T))
         /\ Kept(F, rows, s)
<1> DEFINE R == GoodRows(N, H, F, T)
<1>2. ASSUME NEW i \in DOMAIN rows PROVE s[i] \in R /\ s[i].name = rows[i].name
  <2>1. rows[i] \in R OBVIOUS
  <2>2. s[i] = rows[i] \/ s[i] = [rows[i] EXCEPT !.meta = "whole"] OBVIOUS
  <2>3. [rows[i] EXCEPT !.meta = "whole"] \in R BY <2>1, RowChanged
  <2>4. [rows[i] EXCEPT !.meta = "whole"].name = rows[i].name BY <2>1 DEF GoodRows, RowSet
  <2> HIDE DEF R
  <2> QED BY <2>1, <2>2, <2>3, <2>4
<1>3. DOMAIN rows = 1..Len(rows) /\ Len(rows) \in Nat OBVIOUS
<1> HIDE DEF R
<1>4. s \in Seq(R) BY <1>2, <1>3
<1>5. Kept(F, rows, s) BY <1>2 DEF Kept
<1> QED BY <1>4, <1>5 DEF R

LEMMA OneRow ==
  ASSUME NEW N, NEW H, NEW F, NEW T, rows \in Seq(GoodRows(N, H, F, T)), NEW i, NEW r,
         i \in DOMAIN rows => r \in GoodRows(N, H, F, T) /\ F[r.name] = F[rows[i].name],
         NEW s, s = [rows EXCEPT ![i] = r]
  PROVE  /\ s \in Seq(GoodRows(N, H, F, T))
         /\ Kept(F, rows, s)
<1> DEFINE R == GoodRows(N, H, F, T)
<1>1. i \in DOMAIN rows => r \in R /\ F[r.name] = F[rows[i].name] OBVIOUS
<1>2. rows \in Seq(R) OBVIOUS
<1>3. DOMAIN s = DOMAIN rows /\ \A j \in DOMAIN rows : s[j] = IF j = i THEN r ELSE rows[j] OBVIOUS
<1> HIDE DEF R
<1>4. \A j \in DOMAIN rows : s[j] \in R /\ F[s[j].name] = F[rows[j].name] BY <1>1, <1>2, <1>3
<1>5. s \in Seq(R)
  <2>1. DOMAIN rows = 1..Len(rows) /\ Len(rows) \in Nat BY <1>2
  <2>2. s = [j \in 1..Len(rows) |-> s[j]] BY <2>1
  <2>3. s \in [1..Len(rows) -> R] BY <1>4, <2>1, <2>2
  <2> QED BY ONLY <2>1, <2>3
<1>6. Kept(F, rows, s) BY <1>3, <1>4 DEF Kept
<1> QED BY <1>5, <1>6 DEF R

LEMMA InsertedGood ==
  ASSUME NEW P, NEW H, NEW T, NEW U, vols \in SUBSET GoodVols(P, H, T, U), NEW parent \in H,
         NEW c, NEW z \in Nat, T[parent][1] = c, Parts(c) \subseteq P
  PROVE  Inserted(parent, c, z) \in SUBSET GoodVols(P, H, T, U)
<1> DEFINE V == GoodVols(P, H, T, U)
           had == {v \in vols : v.parent = parent}
           status(p) == IF \E v \in had : v.part = p /\ v.status = "uploaded" THEN "uploaded" ELSE "pending"
           ref(p) == IF \E v \in had : v.part = p THEN (CHOOSE v \in had : v.part = p).ref ELSE NoRef
           new(p) == [parent |-> parent, part |-> p, status |-> status(p), ref |-> ref(p), sha |-> z]
<1>1. \A v \in vols : v.ref \in H \cup {NoRef} /\ (v.status = "uploaded" => v.part \in U)
  BY DEF GoodVols, VolSet
<1>2. ASSUME NEW p \in Parts(c) PROVE new(p) \in V
  <2>1. p \in P /\ p[1] = c BY DEF Parts
  <2>2. ref(p) \in H \cup {NoRef}
    <3>1. CASE \E v \in had : v.part = p
      <4>1. (CHOOSE v \in had : v.part = p) \in vols BY <3>1
      <4> QED BY <1>1, <3>1, <4>1
    <3>2. CASE ~\E v \in had : v.part = p BY <3>2
    <3> QED BY <3>1, <3>2
  <2>3. status(p) \in {"pending", "uploaded"} /\ (status(p) = "uploaded" => p \in U) BY <1>1
  <2> HIDE DEF status, ref
  <2> QED BY <2>1, <2>2, <2>3 DEF GoodVols, VolSet
<1>3. Inserted(parent, c, z) = (vols \ had) \cup {new(p) : p \in Parts(c)} BY DEF Inserted
<1> HIDE DEF new
<1> QED BY <1>2, <1>3

LEMMA UpdatedGood ==
  ASSUME NEW P, NEW H, NEW T, NEW U, vols \in SUBSET GoodVols(P, H, T, U), NEW parent, NEW p,
         NEW status \in {"uploading", "uploaded"}, NEW z \in Nat, status = "uploaded" => p \in U
  PROVE  UpdatedPart(parent, p, status, z) \in SUBSET GoodVols(P, H, T, U)
<1>1. ASSUME NEW v \in vols, v.part = p
      PROVE  [v EXCEPT !.status = status, !.sha = IF status = "uploaded" THEN z ELSE @]
               \in GoodVols(P, H, T, U)
  BY <1>1 DEF GoodVols, VolSet
<1> QED BY <1>1 DEF UpdatedPart

LEMMA RefGood ==
  ASSUME NEW P, NEW H, NEW T, NEW U, NEW v \in GoodVols(P, H, T, U), NEW h \in H
  PROVE  [v EXCEPT !.ref = h] \in GoodVols(P, H, T, U)
BY DEF GoodVols, VolSet

LEMMA FilledGood ==
  ASSUME NEW N, NEW P, NEW H, NEW F, NEW T, NEW U, rows \in Seq(GoodRows(N, H, F, T)),
         vols \in SUBSET GoodVols(P, H, T, U), NEW parent
  PROVE  Filled(parent) \in SUBSET GoodVols(P, H, T, U)
<1>1. ASSUME NEW v \in vols, \E i \in DOMAIN rows : Live(i) /\ rows[i].name = v.part
      PROVE  [v EXCEPT !.ref = rows[CHOOSE i \in DOMAIN rows : Live(i) /\ rows[i].name = v.part].ref]
               \in GoodVols(P, H, T, U)
  <2> DEFINE i == CHOOSE i \in DOMAIN rows : Live(i) /\ rows[i].name = v.part
  <2>1. i \in DOMAIN rows BY <1>1
  <2>2. rows[i].ref \in H BY <2>1 DEF GoodRows, RowSet
  <2> HIDE DEF i
  <2>3. [v EXCEPT !.ref = rows[i].ref] \in GoodVols(P, H, T, U) BY <2>2, RefGood
  <2> QED BY <2>3 DEF i
<1> QED BY <1>1 DEF Filled

LEMMA FilledByEventGood ==
  ASSUME NEW P, NEW H, NEW T, NEW U, NEW vs \in SUBSET GoodVols(P, H, T, U), NEW k, Ref(k) \in H
  PROVE  FilledByEvent(vs, k) \in SUBSET GoodVols(P, H, T, U)
BY RefGood DEF FilledByEvent

-----------------------------------------------------------------------------
(* Every step leaves good tables.                                          *)

LEMMA GoodGrows ==
  ASSUME NEW N, NEW P, NEW H, NEW T, NEW H2, NEW T2, H \subseteq H2, \A h \in H : T2[h] = T[h],
         NEW F, NEW U, NEW U2, U \subseteq U2
  PROVE  /\ GoodRows(N, H, F, T) \subseteq GoodRows(N, H2, F, T2)
         /\ GoodVols(P, H, T, U) \subseteq GoodVols(P, H2, T2, U2)
         /\ ItemSet(N, H, T) \subseteq ItemSet(N, H2, T2)
         /\ ItemSet(N, H, T) \subseteq GoodRows(N, H, F, T)
<1>1. GoodRows(N, H, F, T) \subseteq GoodRows(N, H2, F, T2) BY DEF GoodRows, RowSet
<1>2. GoodVols(P, H, T, U) \subseteq GoodVols(P, H2, T2, U2) BY DEF GoodVols, VolSet
<1>3. ItemSet(N, H, T) \subseteq ItemSet(N, H2, T2) BY DEF ItemSet, RowSet
<1>4. ItemSet(N, H, T) \subseteq GoodRows(N, H, F, T) BY DEF ItemSet, GoodRows
<1> QED BY <1>1, <1>2, <1>3, <1>4

LEMMA SeqGrows ==
  ASSUME NEW R, NEW R2, R \subseteq R2, NEW s \in Seq(R)
  PROVE  s \in Seq(R2)
OBVIOUS

LEMMA NextTitles ==
  ASSUME WorldOK', plan' = plan
  PROVE  \A h \in Handles' : Titles'[h] \in Names
<1>1. cloud' \in [1..MaxCopies -> Copies(Names) \cup {Never}] /\ parents' \in Seq(plan.contents)
  BY DEF WorldOK, CloudOK, Names
<1>2. ASSUME NEW h \in Handles' PROVE Titles'[h] \in Names
  <2>1. Titles'[h] = IF h[1] = 0 THEN Whole(parents'[h[2]]) ELSE cloud'[h[1]].name BY DEF Titles
  <2>2. IF h[1] = 0 THEN h[2] \in DOMAIN parents' ELSE h[1] \in DOMAIN cloud' /\ cloud'[h[1]] # Never
    BY DEF Handles
  <2>3. CASE h[1] = 0
    <3>1. parents'[h[2]] \in plan.contents BY <1>1, <2>2, <2>3
    <3> QED BY <2>1, <2>3, <3>1 DEF Whole, Names
  <2>4. CASE h[1] # 0
    <3>1. cloud'[h[1]] \in Copies(Names) BY <1>1, <2>2, <2>4
    <3>2. cloud'[h[1]].name \in Names BY <3>1 DEF Copies
    <3> QED BY <2>1, <2>4, <3>2
  <2> QED BY <2>3, <2>4
<1> QED BY <1>2

LEMMA ItemGood ==
  ASSUME WorldOK, NEW k \in DOMAIN cloud, cloud[k] # Never
  PROVE  /\ Item(k) \in ItemSet(Names, Handles, Titles)
         /\ Ref(k) \in Handles /\ Titles[Ref(k)] = cloud[k].name
<1>1. cloud \in [1..MaxCopies -> Copies(Names) \cup {Never}] /\ session \in Nat /\ MaxCopies \in Nat
  BY Scenario DEF WorldOK, CloudOK
<1>2. cloud[k] \in Copies(Names) /\ k \in 1..MaxCopies BY <1>1
<1>3. cloud[k].name \in Names BY <1>2 DEF Copies
<1>4. Ref(k) \in Handles BY <1>1, <1>2 DEF Ref, Handles
<1>5. Titles[Ref(k)] = cloud[k].name BY <1>2, <1>4 DEF Titles, Ref
<1>6. Ref(k)[1] # 0 BY <1>1, <1>2 DEF Ref
<1>7. Item(k) = [ref |-> Ref(k), name |-> cloud[k].name, key |-> cloud[k].name, status |-> "active", meta |-> "plain"]
  BY DEF Item, Row
<1>8. Item(k) \in ItemSet(Names, Handles, Titles)
  <2> HIDE DEF Ref
  <2> QED BY ONLY <1>3, <1>4, <1>5, <1>6, <1>7 DEF ItemSet, RowSet
<1> QED BY <1>4, <1>5, <1>8

(* The row of a parent that is made for an upload in volumes. *)
LEMMA NewParent ==
  ASSUME WorldOK, NEW o \in Ops, NEW F, parents' = Append(parents, Of(o))
  PROVE  <<Row(<<0, Len(parents) + 1>>, Whole(Of(o)), "parent")>> \in Seq(GoodRows(Names, Handles', F, Titles'))
<1> DEFINE p == <<0, Len(parents) + 1>>
           new == Row(p, Whole(Of(o)), "parent")
<1>1. parents \in Seq(plan.contents) /\ Of(o) \in plan.contents BY Scenario DEF WorldOK
<1>2. Len(parents) + 1 \in DOMAIN parents' /\ parents'[Len(parents) + 1] = Of(o) BY <1>1
<1>3. p \in Handles' BY <1>1, <1>2 DEF Handles
<1>4. Titles'[p] = Whole(Of(o)) BY <1>2, <1>3 DEF Titles
<1>5. Whole(Of(o)) \in Names BY <1>1 DEF Whole, Names
<1>6. new \in GoodRows(Names, Handles', F, Titles') BY <1>3, <1>4, <1>5 DEF Row, GoodRows, RowSet
<1> HIDE DEF new
<1>7. <<new>> \in Seq(GoodRows(Names, Handles', F, Titles')) BY <1>6
<1> QED BY <1>7 DEF new

LEMMA NextTable ==
  ASSUME Base, [Next]_vars, WorldOK', Grow, NEW F, NEW U, NEW U2, U \subseteq U2, TableOK(F, U),
         Sorts(Names, F),
         \A o \in Ops : RenamesRow(o) => F[Renamed(Of(o))] = F[rows[target[o]].name],
         \A o \in Ops : PartEnds(o) => Next1(o) \in U2
  PROVE  /\ rows' \in Seq(GoodRows(Names, Handles', F, Titles'))
         /\ vols' \in SUBSET GoodVols(PartNames, Handles', Titles', U2)
         /\ Kept(F, rows, rows')
<1> DEFINE N == Names
           P == PartNames
           H == Handles'
           T == Titles'
           R == GoodRows(Names, H, F, T)
           V == GoodVols(PartNames, H, T, U2)
           Good == rows' \in Seq(R) /\ vols' \in SUBSET V /\ Kept(F, rows, rows')
<1>1. H \subseteq H /\ Handles \subseteq H /\ \A h \in Handles : T[h] = Titles[h] BY DEF Grow
<1>2. rows \in Seq(R) /\ vols \in SUBSET V
  <2>1. GoodRows(Names, Handles, F, Titles) \subseteq R BY <1>1, GoodGrows
  <2>2. GoodVols(PartNames, Handles, Titles, U) \subseteq V BY <1>1, GoodGrows
  <2>3. rows \in Seq(GoodRows(Names, Handles, F, Titles)) /\ vols \in SUBSET GoodVols(PartNames, Handles, Titles, U)
    BY DEF TableOK
  <2> HIDE DEF R, V
  <2> QED BY <2>1, <2>2, <2>3, SeqGrows
<1>3. WorldOK /\ \A o \in Ops : StageOK(o) /\ KeysOK(o) /\ TargetOK(o) /\ SeenOK(o) BY DEF Base
<1>4. plan' = plan BY SamePlan
<1>5. \A h \in H : T[h] \in N BY <1>4, NextTitles
<1>6. ItemSet(Names, Handles, Titles) \subseteq R
  <2>1. ItemSet(Names, Handles, Titles) \subseteq ItemSet(Names, H, T) BY <1>1, GoodGrows
  <2>2. ItemSet(Names, H, T) \subseteq R BY <1>1, GoodGrows
  <2> QED BY <2>1, <2>2
<1>7. ASSUME NEW items \in Seq(R)
      PROVE  /\ Upserted(items).rows \in Seq(R) /\ Upserted(items).vols \in SUBSET V
             /\ Kept(F, rows, Upserted(items).rows)
  <2>1. Upserted(items) \in Tables(R, V) /\ Kept(F, rows, Upserted(items).rows)
    BY <1>2, <1>5, UpsertedGood
  <2> HIDE DEF R, V
  <2> QED BY <2>1 DEF Tables
<1> HIDE DEF N, P, H, T, R, V
<1>8. SUFFICES Good BY DEF H, T, R, V
<1>9. CASE UNCHANGED <<rows, vols>> BY <1>2, <1>9 DEF Kept
<1> HIDE DEF Good
<1>10. ASSUME NEW o \in Ops, Work(o) PROVE Good
  <2>1. CASE Submit(o) BY <1>9, <2>1 DEF Submit, table
  <2>2. CASE Fails(o) BY <1>9, <2>2 DEF Fails, table
  <2>3. CASE Pauses(o) BY <1>9, <2>3 DEF Pauses, table
  <2>4. CASE Resumes(o) BY <1>9, <2>4 DEF Resumes, table
  <2>5. CASE SyncStarts(o) BY <1>9, <2>5 DEF SyncStarts, table
  <2>6. CASE SyncLists(o) BY <1>9, <2>6 DEF SyncLists, table
  <2>7. CASE SyncListsDeep(o) BY <1>9, <2>7 DEF SyncListsDeep, table
  <2>8. CASE SyncIndexes(o)
  <3>1. seen[o] \in Seq(R) BY <1>3, <1>6, SeqGrows DEF SeenOK
  <3>2. CASE rows' = Upserted(seen[o]).rows /\ vols' = Upserted(seen[o]).vols
    BY <1>7, <3>1, <3>2 DEF Good
  <3>3. CASE UNCHANGED <<rows, vols>> BY <1>9, <3>3
  <3> QED BY <2>8, <3>2, <3>3 DEF SyncIndexes, table
  <2>9. CASE SyncPrunes(o)
  <3>1. rows' = Pruned({it.ref : it \in Range(seen[o])}) /\ vols' = vols BY <2>9 DEF SyncPrunes
  <3> QED BY <1>2, <3>1, PrunedGood DEF Good, R
  <2>10. CASE SyncEnds(o)
  <3>1. rows' = rows /\ (vols' = vols \/ vols' = Filled(key[o])) BY <2>10 DEF SyncEnds
  <3>2. Filled(key[o]) \in SUBSET V BY <1>2, FilledGood DEF R, V
  <3> QED BY <1>2, <3>1, <3>2 DEF Good, Kept
  <2>11. CASE SyncFailed(o) BY <1>9, <2>11 DEF SyncFailed, table
  <2>12. CASE UploadBegins(o)
  <3> DEFINE p == <<0, Len(parents) + 1>>
             new == Row(p, Whole(Of(o)), "parent")
  <3>1. CASE UNCHANGED <<rows, vols>> BY <1>9, <3>1
  <3>2. CASE /\ parents' = Append(parents, Of(o)) /\ rows' = Upserted(<<new>>).rows
             /\ vols' = Upserted(<<new>>).vols
    <4>7. <<new>> \in Seq(R) BY <1>3, <3>2, NewParent DEF R, H, T
    <4> QED BY <1>7, <3>2, <4>7 DEF Good
  <3> QED BY <2>12, <3>1, <3>2 DEF UploadBegins, table
  <2>13. CASE UploadKeeps(o) BY <1>9, <2>13 DEF UploadKeeps, table
  <2>14. CASE ConvertBegins(o) BY <1>9, <2>14 DEF ConvertBegins, table
  <2>15. CASE Downloads(o) BY <1>9, <2>15 DEF Downloads, table
  <2>16. CASE Splits(o)
  <3>1. rows' = rows /\ vols' = Inserted(key[o], Of(o), zip[o] + 1) BY <2>16 DEF Splits
  <3>2. at[o] = "split" BY <2>16 DEF Splits
  <3>3. key[o] # NoRef /\ Kind(o) \in {"upload", "convert"}
    BY <1>3, <3>2 DEF StageOK, KeysOK, Sending, Replaces
  <3>4. key[o] \in Handles /\ Titles[key[o]][1] = Of(o) BY <1>3, <3>3 DEF KeysOK, KeyOK
  <3>5. key[o] \in H /\ T[key[o]][1] = Of(o) BY <1>1, <3>4
  <3>6. Parts(Of(o)) \subseteq PartNames BY <1>3, Scenario DEF Parts, PartNames
  <3>7. zip[o] + 1 \in Nat BY <1>3 DEF SeenOK
  <3>8. Inserted(key[o], Of(o), zip[o] + 1) \in SUBSET V BY <1>2, <3>5, <3>6, <3>7, InsertedGood DEF V
  <3> QED BY <1>2, <3>1, <3>8 DEF Good, Kept
  <2>17. CASE PartStarts(o)
  <3>1. rows' = rows /\ (vols' = vols \/ vols' = UpdatedPart(key[o], Next1(o), "uploading", 0))
    BY <2>17 DEF PartStarts
  <3>2. UpdatedPart(key[o], Next1(o), "uploading", 0) \in SUBSET V BY <1>2, UpdatedGood DEF V
  <3> QED BY <1>2, <3>1, <3>2 DEF Good, Kept
  <2>18. CASE Sends(o) BY <1>9, <2>18 DEF Sends, table
  <2>19. CASE PartEnds(o)
  <3>1. rows' = rows /\ vols' = UpdatedPart(key[o], Next1(o), "uploaded", zip[o]) BY <2>19 DEF PartEnds
  <3>2. zip[o] \in Nat /\ Next1(o) \in U2 BY <1>3, <2>19 DEF SeenOK
  <3>3. UpdatedPart(key[o], Next1(o), "uploaded", zip[o]) \in SUBSET V BY <1>2, <3>2, UpdatedGood DEF V
  <3> QED BY <1>2, <3>1, <3>3 DEF Good, Kept
  <2>20. CASE Stamps(o)
  <3>1. /\ vols' = vols
        /\ rows' = [i \in DOMAIN rows |->
                      IF rows[i].ref = key[o] THEN [rows[i] EXCEPT !.meta = "whole"] ELSE rows[i]]
    BY <2>20 DEF Stamps
  <3> QED BY <1>2, <3>1, StampedGood DEF Good, R
  <2>21. CASE DeleteBegins(o) BY <1>9, <2>21 DEF DeleteBegins, table
  <2>22. CASE Deletes(o) BY <1>9, <2>22 DEF Deletes, table
  <2>23. CASE FindsNothing(o) BY <1>9, <2>23 DEF FindsNothing, table
  <2>24. CASE Forgets(o)
  <3> DEFINE i == RowOf(o)
             r == [rows[i] EXCEPT !.status = "deleted"]
  <3>1. rows' = [rows EXCEPT ![i] = r] /\ vols' \subseteq vols BY <2>24 DEF Forgets
  <3>2. ASSUME i \in DOMAIN rows PROVE r \in R /\ F[r.name] = F[rows[i].name]
    <4>1. rows[i] \in R BY <1>2, <3>2
    <4>2. r \in R BY <4>1, RowChanged DEF R
    <4>3. r.name = rows[i].name BY <4>1 DEF R, GoodRows, RowSet
    <4> QED BY <4>2, <4>3
  <3> HIDE DEF i, r
  <3>3. rows' \in Seq(R) /\ Kept(F, rows, rows') BY <1>2, <3>1, <3>2, OneRow DEF R
  <3> QED BY <1>2, <3>1, <3>3 DEF Good
  <2>25. CASE RenameBegins(o) BY <1>9, <2>25 DEF RenameBegins, table
  <2>26. CASE RenamesRow(o)
  <3> DEFINE i == RowOf(o)
             n == Renamed(Of(o))
  <3>1. CASE UNCHANGED <<rows, vols>> BY <1>9, <3>1
  <3>2. ASSUME NEW k, k = n \/ k = rows[i].key, vols' = vols,
               rows' = [rows EXCEPT ![i] = [rows[i] EXCEPT !.name = n, !.key = k]]
        PROVE  Good
    <4> DEFINE r == [rows[i] EXCEPT !.name = n, !.key = k]
    <4>1. n \in Names BY <1>3, Scenario DEF Renamed, Names
    <4>2. F[n] = F[rows[i].name] BY <2>26 DEF RowOf
    <4>3. ASSUME i \in DOMAIN rows PROVE r \in R /\ F[r.name] = F[rows[i].name]
      <5>1. rows[i] \in R BY <1>2, <4>3
      <5>2. rows[i] \in RowSet(Names, H) /\ F[rows[i].name] = F[T[rows[i].ref]] /\ F[rows[i].key] = F[T[rows[i].ref]]
        BY <5>1 DEF R, GoodRows
      <5>3. k \in Names /\ F[k] = F[T[rows[i].ref]] BY <3>2, <4>1, <4>2, <5>2 DEF RowSet
      <5>4. r \in RowSet(Names, H) /\ r.name = n /\ r.key = k /\ r.ref = rows[i].ref
        <6> HIDE DEF n, i
        <6> QED BY <4>1, <5>2, <5>3 DEF RowSet
      <5> HIDE DEF r, n, i
      <5> QED BY <4>2, <5>2, <5>3, <5>4 DEF R, GoodRows
    <4>4. rows' = [rows EXCEPT ![i] = r] BY <3>2
    <4> HIDE DEF r, n, i
    <4>5. rows' \in Seq(R) /\ Kept(F, rows, rows') BY <1>2, <4>3, <4>4, OneRow DEF R
    <4> QED BY <1>2, <3>2, <4>5 DEF Good
  <3>3. \/ UNCHANGED <<rows, vols>>
        \/ /\ vols' = vols
           /\ \E k \in {n, rows[i].key} : rows' = [rows EXCEPT ![i] = [rows[i] EXCEPT !.name = n, !.key = k]]
    BY <2>26 DEF RenamesRow
  <3> QED BY <3>1, <3>2, <3>3
  <2>27. CASE Moves(o) BY <1>9, <2>27 DEF Moves, table
  <2>28. CASE FolderBegins(o) BY <1>9, <2>28 DEF FolderBegins, table
  <2>29. CASE SyncBegins(o) BY <1>9, <2>29 DEF SyncBegins, table
  <2>30. CASE Reads(o) BY <1>9, <2>30 DEF Reads, table
  <2> QED BY <1>10, <2>1, <2>2, <2>3, <2>4, <2>5, <2>6, <2>7, <2>8, <2>9, <2>10, <2>11, <2>12, <2>13, <2>14, <2>15, <2>16, <2>17, <2>18, <2>19, <2>20, <2>21, <2>22, <2>23, <2>24, <2>25, <2>26, <2>27, <2>28, <2>29, <2>30 DEF Work
<1>11. ASSUME NEW k \in DOMAIN cloud, IndexEvent(k) PROVE Good
  <2> DEFINE x == Upserted(<<Item(k)>>)
  <2>1. k \in news /\ rows' = x.rows /\ vols' = IF x.ok THEN FilledByEvent(x.vols, k) ELSE vols
    BY <1>11 DEF IndexEvent
  <2>2. cloud[k] # Never BY <1>3, <2>1 DEF WorldOK
  <2>3. Item(k) \in R /\ Ref(k) \in Handles BY <1>3, <1>6, <2>2, ItemGood
  <2>4. <<Item(k)>> \in Seq(R) BY <2>3
  <2>5. x.rows \in Seq(R) /\ x.vols \in SUBSET V /\ Kept(F, rows, x.rows) BY <1>7, <2>4
  <2>6. Ref(k) \in H BY <1>1, <2>3
  <2>7. FilledByEvent(x.vols, k) \in SUBSET V
    <3> HIDE DEF x
    <3> QED BY <2>5, <2>6, FilledByEventGood DEF V
  <2> HIDE DEF x
  <2> QED BY <1>2, <2>1, <2>5, <2>7 DEF Good
<1>12. CASE Crash BY <1>9, <1>12 DEF Crash, table
<1>13. CASE NewSession BY <1>9, <1>13 DEF NewSession, table
<1>14. ASSUME NEW c \in plan.contents, MemberUploads(c) PROVE Good BY <1>9, <1>14 DEF MemberUploads, table
<1>15. ASSUME NEW k \in DOMAIN cloud, MemberDeletes(k) PROVE Good BY <1>9, <1>15 DEF MemberDeletes, table
<1>16. CASE UNCHANGED vars BY <1>9, <1>16 DEF vars
<1> QED BY <1>10, <1>11, <1>12, <1>13, <1>14, <1>15, <1>16 DEF Next

-----------------------------------------------------------------------------
(* Keys, targets and listings: every step keeps what an operation has.     *)

RowsKept == DOMAIN rows \subseteq DOMAIN rows' /\ \A i \in DOMAIN rows : rows'[i].name[1] = rows[i].name[1]

LEMMA KeysStay ==
  ASSUME NEW o \in Ops, KeysOK(o), Grow, plan' = plan, key'[o] = key[o], saved'[o] = saved[o],
         at[o] # "idle" \/ at'[o] = "idle", at'[o] \notin {"keep", "split"} \/ key[o] # NoRef
  PROVE  KeysOK(o)'
BY DEF KeysOK, KeyOK, Grow, Kind, Of

LEMMA TitlesIn ==
  ASSUME WorldOK
  PROVE  \A h \in Handles : Titles[h] \in Names
<1>1. cloud \in [1..MaxCopies -> Copies(Names) \cup {Never}] /\ parents \in Seq(plan.contents)
  BY DEF WorldOK, CloudOK
<1>2. ASSUME NEW h \in Handles PROVE Titles[h] \in Names
  <2>1. Titles[h] = IF h[1] = 0 THEN Whole(parents[h[2]]) ELSE cloud[h[1]].name BY DEF Titles
  <2>2. IF h[1] = 0 THEN h[2] \in DOMAIN parents ELSE h[1] \in DOMAIN cloud /\ cloud[h[1]] # Never
    BY DEF Handles
  <2>3. CASE h[1] = 0
    <3>1. parents[h[2]] \in plan.contents BY <1>1, <2>2, <2>3
    <3> QED BY <2>1, <2>3, <3>1 DEF Whole, Names
  <2>4. CASE h[1] # 0
    <3>1. cloud[h[1]] \in Copies(Names) BY <1>1, <2>2, <2>4
    <3>2. cloud[h[1]].name \in Names BY <3>1 DEF Copies
    <3> QED BY <2>1, <2>4, <3>2
  <2> QED BY <2>3, <2>4
<1> QED BY <1>2

LEMMA NoRefIsNone ==
  ASSUME WorldOK
  PROVE  NoRef \notin Handles
<1>1. parents \in Seq(plan.contents) BY DEF WorldOK
<1> QED BY <1>1 DEF NoRef, Handles

LEMMA WorkKeys ==
  ASSUME NEW o \in Ops, Base, WorldOK', Grow, Work(o)
  PROVE  KeysOK(o)'
<1>a. LocalOK /\ KeysOK(o) /\ StageOK(o) /\ WorldOK BY DEF Base
<1>b. DOMAIN at = Ops /\ DOMAIN key = Ops /\ DOMAIN saved = Ops BY <1>a DEF LocalOK
<1>c. plan' = plan BY SamePlan DEF Next
<1>1. CASE Submit(o)
  <2>1. at[o] = "idle" /\ at'[o] = "begin" /\ saved'[o] = key'[o] BY <1>b, <1>1 DEF Submit, Go
  <2>2. CASE Kind(o) = "convert"
    <3>1. PICK i \in Convertible(o) : key' = [key EXCEPT ![o] = rows[i].ref]
      BY <1>1, <2>2 DEF Submit, Asked
    <3>2. i \in DOMAIN rows /\ rows[i].name = Whole(Of(o)) /\ Of(o) \in Big BY DEF Convertible, Shown
    <3>3. rows[i] \in GoodRows(Names, Handles, ByContent, Titles) BY <3>2 DEF Base, TableOK
    <3>4. rows[i].ref \in Handles /\ Titles[rows[i].ref][1] = Of(o)
      <4>1. /\ rows[i].ref \in Handles /\ rows[i].name \in Names
            /\ ByContent[rows[i].name] = ByContent[Titles[rows[i].ref]]
        BY <3>3 DEF GoodRows, RowSet
      <4>2. Titles[rows[i].ref] \in Names BY <1>a, <4>1, TitlesIn
      <4>3. rows[i].name[1] = Titles[rows[i].ref][1] BY <4>1, <4>2 DEF ByContent
      <4> QED BY <3>2, <4>1, <4>3 DEF Whole
    <3>5. key'[o] = rows[i].ref BY <1>b, <3>1
    <3>6. key'[o] \in Handles' /\ Titles'[key'[o]][1] = Of(o) BY <3>4, <3>5 DEF Grow
    <3>7. key'[o] # NoRef BY <1>a, <3>4, <3>5, NoRefIsNone
    <3> QED BY <1>c, <2>1, <3>6, <3>7 DEF KeysOK, KeyOK, Kind, Of
  <2>3. CASE Kind(o) = "upload"
    <3>1. key' = key BY <1>1, <2>3 DEF Submit
    <3>2. KeyOK(o, key[o]) BY <1>a, <2>3 DEF KeysOK
    <3>3. key'[o] = NoRef \/ (key'[o] \in Handles' /\ Titles'[key'[o]][1] = Of(o))
      BY <3>1, <3>2 DEF KeyOK, Grow
    <3> QED BY <1>c, <2>1, <2>3, <3>3 DEF KeysOK, KeyOK, Kind, Of
  <2>4. CASE Kind(o) \notin {"convert", "upload"} BY <1>c, <2>1, <2>4 DEF KeysOK, Kind
  <2> QED BY <2>2, <2>3, <2>4
<1>2. CASE Fails(o) BY <1>a, <1>b, <1>c, <1>2, KeysStay DEF Fails, Then, Go, Raise, Sync, Busy
<1>3. CASE Pauses(o) BY <1>a, <1>b, <1>c, <1>3, KeysStay DEF Pauses, Then, Go, Raise, Sync
<1>4. CASE Resumes(o) BY <1>a, <1>b, <1>c, <1>4, KeysStay DEF Resumes, Then, Go, Raise, Sync
<1>5. CASE SyncStarts(o) BY <1>a, <1>b, <1>c, <1>5, KeysStay DEF SyncStarts, Then, Go, Raise, Sync
<1>6. CASE SyncLists(o) BY <1>a, <1>b, <1>c, <1>6, KeysStay DEF SyncLists, Then, Go, Raise, Sync
<1>7. CASE SyncListsDeep(o) BY <1>a, <1>b, <1>c, <1>7, KeysStay DEF SyncListsDeep, Then, Go, Raise, Sync
<1>8. CASE SyncIndexes(o) BY <1>a, <1>b, <1>c, <1>8, KeysStay DEF SyncIndexes, Then, Go, Raise, Sync
<1>9. CASE SyncPrunes(o) BY <1>a, <1>b, <1>c, <1>9, KeysStay DEF SyncPrunes, Then, Go, Raise, Sync
<1>10. CASE SyncEnds(o) BY <1>a, <1>b, <1>c, <1>10, KeysStay DEF SyncEnds, Then, Go, Raise, Sync
<1>11. CASE SyncFailed(o) BY <1>a, <1>b, <1>c, <1>11, KeysStay DEF SyncFailed, Then, Go, Raise, Sync
<1>12. CASE UploadBegins(o)
  <2>1. at[o] = "begin" /\ Kind(o) = "upload" BY <1>12 DEF UploadBegins
  <2>2. CASE Then(o, "failed") \/ Then(o, "begin") BY <1>a, <1>b, <1>c, <2>1, <2>2, KeysStay DEF Then, Go
  <2>3. CASE (Of(o) \notin Big \/ key[o] # NoRef) /\ Then(o, IF Of(o) \in Big THEN "split" ELSE "send")
    BY <1>a, <1>b, <1>c, <2>1, <2>3, KeysStay DEF Then, Go
  <2>4. CASE /\ parents' = Append(parents, Of(o)) /\ key' = [key EXCEPT ![o] = <<0, Len(parents) + 1>>]
             /\ Go(o, "keep") /\ saved' = saved
    <3> DEFINE p == <<0, Len(parents) + 1>>
    <3>1. parents \in Seq(plan.contents) BY <1>a DEF WorldOK
    <3>2. Len(parents) + 1 \in DOMAIN parents' /\ parents'[Len(parents) + 1] = Of(o) /\ Len(parents) \in Nat
      BY <2>4, <3>1
    <3>3. p \in Handles' BY <3>2 DEF Handles
    <3>4. Titles'[p] = Whole(Of(o)) BY <3>2, <3>3 DEF Titles
    <3>5. key'[o] = p /\ saved'[o] = saved[o] /\ at'[o] = "keep" BY <1>b, <2>4 DEF Go
    <3>6. p # NoRef BY <3>2 DEF NoRef
    <3>7. Titles'[p][1] = Of(o) BY <3>4 DEF Whole
    <3>8. saved'[o] = NoRef \/ (saved'[o] \in Handles' /\ Titles'[saved'[o]][1] = Of(o))
      BY <1>a, <2>1, <3>5 DEF KeysOK, KeyOK, Grow
    <3> HIDE DEF p
    <3> QED BY <1>c, <2>1, <3>3, <3>5, <3>6, <3>7, <3>8 DEF KeysOK, KeyOK, Kind, Of
  <2> QED BY <1>12, <2>2, <2>3, <2>4 DEF UploadBegins
<1>13. CASE UploadKeeps(o)
  <2>1. at[o] = "keep" /\ key' = key /\ saved'[o] = key[o] /\ at'[o] = "split"
    BY <1>b, <1>13 DEF UploadKeeps, Go
  <2>2. Kind(o) = "upload" /\ key[o] # NoRef /\ KeyOK(o, key[o]) BY <1>a, <2>1 DEF StageOK, KeysOK
  <2>3. key[o] \in Handles' /\ Titles'[key[o]][1] = Of(o) BY <2>2 DEF KeyOK, Grow
  <2> QED BY <1>c, <2>1, <2>2, <2>3 DEF KeysOK, KeyOK, Kind, Of
<1>14. CASE ConvertBegins(o) BY <1>a, <1>b, <1>c, <1>14, KeysStay DEF ConvertBegins, Then, Go, Raise, Sync
<1>15. CASE Downloads(o)
  <2>1. at[o] = "download" /\ (Then(o, "failed") \/ Then(o, IF Kind(o) = "convert" THEN "split" ELSE "send"))
    BY <1>15 DEF Downloads
  <2>2. Kind(o) = "convert" => key[o] # NoRef BY <1>a, <2>1 DEF KeysOK
  <2>3. key'[o] = key[o] /\ saved'[o] = saved[o] BY <2>1 DEF Then
  <2>4. at'[o] = "split" => Kind(o) = "convert" BY <1>b, <2>1 DEF Then, Go
  <2>5. at'[o] # "keep" BY <1>b, <2>1 DEF Then, Go
  <2> QED BY <1>a, <1>c, <2>1, <2>2, <2>3, <2>4, <2>5, KeysStay
<1>16. CASE Splits(o) BY <1>a, <1>b, <1>c, <1>16, KeysStay DEF Splits, Then, Go, Raise, Sync
<1>17. CASE PartStarts(o) BY <1>a, <1>b, <1>c, <1>17, KeysStay DEF PartStarts, Then, Go, Raise, Sync
<1>18. CASE Sends(o) BY <1>a, <1>b, <1>c, <1>18, KeysStay DEF Sends, Then, Go, Raise, Sync
<1>19. CASE PartEnds(o) BY <1>a, <1>b, <1>c, <1>19, KeysStay DEF PartEnds, Then, Go, Raise, Sync
<1>20. CASE Stamps(o) BY <1>a, <1>b, <1>c, <1>20, KeysStay DEF Stamps, Then, Go, Raise, Sync
<1>21. CASE DeleteBegins(o) BY <1>a, <1>b, <1>c, <1>21, KeysStay DEF DeleteBegins, Then, Go, Raise, Sync
<1>22. CASE Deletes(o) BY <1>a, <1>b, <1>c, <1>22, KeysStay DEF Deletes, Then, Go, Raise, Sync
<1>23. CASE FindsNothing(o) BY <1>a, <1>b, <1>c, <1>23, KeysStay DEF FindsNothing, Then, Go, Raise, Sync
<1>24. CASE Forgets(o) BY <1>a, <1>b, <1>c, <1>24, KeysStay DEF Forgets, Then, Go, Raise, Sync
<1>25. CASE RenameBegins(o) BY <1>a, <1>b, <1>c, <1>25, KeysStay DEF RenameBegins, Then, Go, Raise, Sync
<1>26. CASE RenamesRow(o) BY <1>a, <1>b, <1>c, <1>26, KeysStay DEF RenamesRow, Then, Go, Raise, Sync
<1>27. CASE Moves(o) BY <1>a, <1>b, <1>c, <1>27, KeysStay DEF Moves, Then, Go, Raise, Sync
<1>28. CASE FolderBegins(o) BY <1>a, <1>b, <1>c, <1>28, KeysStay DEF FolderBegins, Then, Go, Raise, Sync
<1>29. CASE SyncBegins(o) BY <1>a, <1>b, <1>c, <1>29, KeysStay DEF SyncBegins, Then, Go, Raise, Sync
<1>30. CASE Reads(o) BY <1>a, <1>b, <1>c, <1>30, KeysStay DEF Reads, Then, Go, Raise, Sync
<1> QED BY <1>1, <1>2, <1>3, <1>4, <1>5, <1>6, <1>7, <1>8, <1>9, <1>10, <1>11, <1>12, <1>13, <1>14, <1>15, <1>16, <1>17, <1>18, <1>19, <1>20, <1>21, <1>22, <1>23, <1>24, <1>25, <1>26, <1>27, <1>28, <1>29, <1>30 DEF Work

LEMMA TargetStay ==
  ASSUME NEW o \in Ops, TargetOK(o), RowsKept, plan' = plan, target'[o] = target[o],
         at[o] # "idle" \/ at'[o] = "idle"
  PROVE  TargetOK(o)'
BY DEF TargetOK, RowsKept, Kind, Of

LEMMA WorkTarget ==
  ASSUME NEW o \in Ops, Base, RowsKept, Work(o)
  PROVE  TargetOK(o)'
<1>a. LocalOK /\ TargetOK(o) BY DEF Base
<1>b. DOMAIN at = Ops /\ DOMAIN target = Ops BY <1>a DEF LocalOK
<1>c. plan' = plan BY SamePlan DEF Next
<1>1. CASE Submit(o)
  <2>1. CASE Kind(o) \in {"delete", "rename"}
    <3>1. PICK i \in Shown(o) : target' = [target EXCEPT ![o] = i]
      BY <1>1, <2>1 DEF Submit, Asked, Deletable, Renamable
    <3>2. i \in DOMAIN rows /\ rows[i].name[1] = Of(o) BY DEF Shown, Whole
    <3>3. target'[o] = i BY <1>b, <3>1
    <3> QED BY <1>c, <3>2, <3>3 DEF TargetOK, RowsKept, Kind, Of
  <2>2. CASE Kind(o) \notin {"delete", "rename"} BY <1>c, <2>2 DEF TargetOK, Kind
  <2> QED BY <2>1, <2>2
<1>2. CASE Fails(o) BY <1>a, <1>b, <1>c, <1>2, TargetStay DEF Fails, Then, Go, Raise, Sync, Busy
<1>3. CASE Pauses(o) BY <1>a, <1>b, <1>c, <1>3, TargetStay DEF Pauses, Then, Go, Raise, Sync
<1>4. CASE Resumes(o) BY <1>a, <1>b, <1>c, <1>4, TargetStay DEF Resumes, Then, Go, Raise, Sync
<1>5. CASE SyncStarts(o) BY <1>a, <1>b, <1>c, <1>5, TargetStay DEF SyncStarts, Then, Go, Raise, Sync
<1>6. CASE SyncLists(o) BY <1>a, <1>b, <1>c, <1>6, TargetStay DEF SyncLists, Then, Go, Raise, Sync
<1>7. CASE SyncListsDeep(o) BY <1>a, <1>b, <1>c, <1>7, TargetStay DEF SyncListsDeep, Then, Go, Raise, Sync
<1>8. CASE SyncIndexes(o) BY <1>a, <1>b, <1>c, <1>8, TargetStay DEF SyncIndexes, Then, Go, Raise, Sync
<1>9. CASE SyncPrunes(o) BY <1>a, <1>b, <1>c, <1>9, TargetStay DEF SyncPrunes, Then, Go, Raise, Sync
<1>10. CASE SyncEnds(o) BY <1>a, <1>b, <1>c, <1>10, TargetStay DEF SyncEnds, Then, Go, Raise, Sync
<1>11. CASE SyncFailed(o) BY <1>a, <1>b, <1>c, <1>11, TargetStay DEF SyncFailed, Then, Go, Raise, Sync
<1>12. CASE UploadBegins(o) BY <1>a, <1>b, <1>c, <1>12, TargetStay DEF UploadBegins, Then, Go, Raise, Sync
<1>13. CASE UploadKeeps(o) BY <1>a, <1>b, <1>c, <1>13, TargetStay DEF UploadKeeps, Then, Go, Raise, Sync
<1>14. CASE ConvertBegins(o) BY <1>a, <1>b, <1>c, <1>14, TargetStay DEF ConvertBegins, Then, Go, Raise, Sync
<1>15. CASE Downloads(o) BY <1>a, <1>b, <1>c, <1>15, TargetStay DEF Downloads, Then, Go, Raise, Sync
<1>16. CASE Splits(o) BY <1>a, <1>b, <1>c, <1>16, TargetStay DEF Splits, Then, Go, Raise, Sync
<1>17. CASE PartStarts(o) BY <1>a, <1>b, <1>c, <1>17, TargetStay DEF PartStarts, Then, Go, Raise, Sync
<1>18. CASE Sends(o) BY <1>a, <1>b, <1>c, <1>18, TargetStay DEF Sends, Then, Go, Raise, Sync
<1>19. CASE PartEnds(o) BY <1>a, <1>b, <1>c, <1>19, TargetStay DEF PartEnds, Then, Go, Raise, Sync
<1>20. CASE Stamps(o) BY <1>a, <1>b, <1>c, <1>20, TargetStay DEF Stamps, Then, Go, Raise, Sync
<1>21. CASE DeleteBegins(o) BY <1>a, <1>b, <1>c, <1>21, TargetStay DEF DeleteBegins, Then, Go, Raise, Sync
<1>22. CASE Deletes(o) BY <1>a, <1>b, <1>c, <1>22, TargetStay DEF Deletes, Then, Go, Raise, Sync
<1>23. CASE FindsNothing(o) BY <1>a, <1>b, <1>c, <1>23, TargetStay DEF FindsNothing, Then, Go, Raise, Sync
<1>24. CASE Forgets(o) BY <1>a, <1>b, <1>c, <1>24, TargetStay DEF Forgets, Then, Go, Raise, Sync
<1>25. CASE RenameBegins(o) BY <1>a, <1>b, <1>c, <1>25, TargetStay DEF RenameBegins, Then, Go, Raise, Sync
<1>26. CASE RenamesRow(o) BY <1>a, <1>b, <1>c, <1>26, TargetStay DEF RenamesRow, Then, Go, Raise, Sync
<1>27. CASE Moves(o) BY <1>a, <1>b, <1>c, <1>27, TargetStay DEF Moves, Then, Go, Raise, Sync
<1>28. CASE FolderBegins(o) BY <1>a, <1>b, <1>c, <1>28, TargetStay DEF FolderBegins, Then, Go, Raise, Sync
<1>29. CASE SyncBegins(o) BY <1>a, <1>b, <1>c, <1>29, TargetStay DEF SyncBegins, Then, Go, Raise, Sync
<1>30. CASE Reads(o) BY <1>a, <1>b, <1>c, <1>30, TargetStay DEF Reads, Then, Go, Raise, Sync
<1> QED BY <1>1, <1>2, <1>3, <1>4, <1>5, <1>6, <1>7, <1>8, <1>9, <1>10, <1>11, <1>12, <1>13, <1>14, <1>15, <1>16, <1>17, <1>18, <1>19, <1>20, <1>21, <1>22, <1>23, <1>24, <1>25, <1>26, <1>27, <1>28, <1>29, <1>30 DEF Work

LEMMA SeenStay ==
  ASSUME NEW o \in Ops, SeenOK(o), Grow, plan' = plan, zip'[o] \in Nat, seen'[o] = seen[o]
  PROVE  SeenOK(o)'
<1>1. ItemSet(Names, Handles, Titles) \subseteq ItemSet(Names, Handles', Titles') BY GoodGrows DEF Grow
<1>2. seen[o] \in Seq(ItemSet(Names, Handles', Titles')) BY <1>1, SeqGrows DEF SeenOK
<1> QED BY <1>2 DEF SeenOK, Names

LEMMA ListingGood ==
  ASSUME WorldOK, NEW deep \in BOOLEAN, NEW s \in Listing(deep)
  PROVE  s \in Seq(ItemSet(Names, Handles, Titles))
         /\ Range(s) = {Item(k) : k \in {j \in There : cloud[j].deep = deep}}
<1> DEFINE S == {Item(k) : k \in {j \in There : cloud[j].deep = deep}}
<1>1. There \subseteq {k \in DOMAIN cloud : cloud[k] # Never} BY DEF There, Never
<1>2. S \subseteq ItemSet(Names, Handles, Titles) BY <1>1, ItemGood
<1>3. DOMAIN cloud = 1..MaxCopies /\ MaxCopies \in Nat BY Scenario DEF WorldOK, CloudOK
<1>4. IsFiniteSet({j \in There : cloud[j].deep = deep})
  <2>1. IsFiniteSet(1..MaxCopies) BY <1>3, FS_Interval
  <2> QED BY <1>1, <1>3, <2>1, FS_Subset
<1>5. IsFiniteSet(S)
  <2> DEFINE K == {j \in There : cloud[j].deep = deep}
             f == [k \in K |-> Item(k)]
  <2>1. f \in Surjection(K, S) BY DEF Surjection
  <2> HIDE DEF K, f
  <2> QED BY <1>4, <2>1, FS_Surjection DEF K
<1>6. Cardinality(S) \in Nat BY <1>5, FS_CardinalityType
<1>7. s \in [1..Cardinality(S) -> S] /\ Range(s) = S BY DEF Listing
<1> HIDE DEF S
<1>8. s \in Seq(S) BY <1>6, <1>7
<1>9. s \in Seq(ItemSet(Names, Handles, Titles)) BY <1>2, <1>8, SeqGrows
<1> QED BY <1>7, <1>9 DEF S

LEMMA WorkSeen ==
  ASSUME NEW o \in Ops, Base, Grow, Work(o)
  PROVE  SeenOK(o)'
<1>a. LocalOK /\ SeenOK(o) /\ WorldOK /\ zip[o] \in Nat BY DEF Base, SeenOK
<1>b. DOMAIN zip = Ops /\ DOMAIN seen = Ops BY <1>a DEF LocalOK
<1>c. plan' = plan BY SamePlan DEF Next
<1>d. ASSUME NEW s, s \in Seq(ItemSet(Names, Handles, Titles)), seen' = [seen EXCEPT ![o] = s], zip' = zip
      PROVE  SeenOK(o)'
  <2>1. ItemSet(Names, Handles, Titles) \subseteq ItemSet(Names, Handles', Titles') BY GoodGrows DEF Grow
  <2>2. s \in Seq(ItemSet(Names, Handles', Titles')) BY <1>d, <2>1, SeqGrows
  <2>3. seen'[o] = s /\ zip'[o] \in Nat BY <1>a, <1>b, <1>d
  <2> QED BY <1>c, <2>2, <2>3 DEF SeenOK, Names
<1>1. CASE Submit(o) BY <1>a, <1>b, <1>c, <1>1, SeenStay DEF Submit, Then, Go, Raise, Sync
<1>2. CASE Fails(o) BY <1>a, <1>b, <1>c, <1>2, SeenStay DEF Fails, Then, Go, Raise, Sync
<1>3. CASE Pauses(o) BY <1>a, <1>b, <1>c, <1>3, SeenStay DEF Pauses, Then, Go, Raise, Sync
<1>4. CASE Resumes(o) BY <1>a, <1>b, <1>c, <1>4, SeenStay DEF Resumes, Then, Go, Raise, Sync
<1>5. CASE SyncStarts(o) BY <1>a, <1>b, <1>c, <1>5, SeenStay DEF SyncStarts, Then, Go, Raise, Sync
<1>6. CASE SyncLists(o)
  <2>1. PICK s \in Listing(FALSE) : seen' = [seen EXCEPT ![o] = s] BY <1>6 DEF SyncLists
  <2>2. s \in Seq(ItemSet(Names, Handles, Titles)) BY <1>a, ListingGood
  <2>3. zip' = zip BY <1>6 DEF SyncLists
  <2> QED BY <1>d, <2>1, <2>2, <2>3
<1>7. CASE SyncListsDeep(o)
  <2>1. PICK s \in Listing(TRUE) : seen' = [seen EXCEPT ![o] = seen[o] \o s] BY <1>7 DEF SyncListsDeep
  <2>2. s \in Seq(ItemSet(Names, Handles, Titles)) BY <1>a, ListingGood
  <2>3. seen[o] \o s \in Seq(ItemSet(Names, Handles, Titles)) BY <1>a, <2>2 DEF SeenOK
  <2>4. zip' = zip BY <1>7 DEF SyncListsDeep
  <2> QED BY <1>d, <2>1, <2>3, <2>4
<1>8. CASE SyncIndexes(o) BY <1>a, <1>b, <1>c, <1>8, SeenStay DEF SyncIndexes, Then, Go, Raise, Sync
<1>9. CASE SyncPrunes(o)
  <2>1. seen' = [seen EXCEPT ![o] = <<>>] /\ zip' = zip BY <1>9 DEF SyncPrunes
  <2>2. <<>> \in Seq(ItemSet(Names, Handles, Titles)) OBVIOUS
  <2> QED BY <1>d, <2>1, <2>2
<1>10. CASE SyncEnds(o) BY <1>a, <1>b, <1>c, <1>10, SeenStay DEF SyncEnds, Then, Go, Raise, Sync
<1>11. CASE SyncFailed(o) BY <1>a, <1>b, <1>c, <1>11, SeenStay DEF SyncFailed, Then, Go, Raise, Sync
<1>12. CASE UploadBegins(o) BY <1>a, <1>b, <1>c, <1>12, SeenStay DEF UploadBegins, Then, Go, Raise, Sync
<1>13. CASE UploadKeeps(o) BY <1>a, <1>b, <1>c, <1>13, SeenStay DEF UploadKeeps, Then, Go, Raise, Sync
<1>14. CASE ConvertBegins(o) BY <1>a, <1>b, <1>c, <1>14, SeenStay DEF ConvertBegins, Then, Go, Raise, Sync
<1>15. CASE Downloads(o) BY <1>a, <1>b, <1>c, <1>15, SeenStay DEF Downloads, Then, Go, Raise, Sync
<1>16. CASE Splits(o) BY <1>a, <1>b, <1>c, <1>16, SeenStay DEF Splits, Then, Go, Raise, Sync
<1>17. CASE PartStarts(o) BY <1>a, <1>b, <1>c, <1>17, SeenStay DEF PartStarts, Then, Go, Raise, Sync
<1>18. CASE Sends(o) BY <1>a, <1>b, <1>c, <1>18, SeenStay DEF Sends, Then, Go, Raise, Sync
<1>19. CASE PartEnds(o) BY <1>a, <1>b, <1>c, <1>19, SeenStay DEF PartEnds, Then, Go, Raise, Sync
<1>20. CASE Stamps(o) BY <1>a, <1>b, <1>c, <1>20, SeenStay DEF Stamps, Then, Go, Raise, Sync
<1>21. CASE DeleteBegins(o) BY <1>a, <1>b, <1>c, <1>21, SeenStay DEF DeleteBegins, Then, Go, Raise, Sync
<1>22. CASE Deletes(o) BY <1>a, <1>b, <1>c, <1>22, SeenStay DEF Deletes, Then, Go, Raise, Sync
<1>23. CASE FindsNothing(o) BY <1>a, <1>b, <1>c, <1>23, SeenStay DEF FindsNothing, Then, Go, Raise, Sync
<1>24. CASE Forgets(o) BY <1>a, <1>b, <1>c, <1>24, SeenStay DEF Forgets, Then, Go, Raise, Sync
<1>25. CASE RenameBegins(o) BY <1>a, <1>b, <1>c, <1>25, SeenStay DEF RenameBegins, Then, Go, Raise, Sync
<1>26. CASE RenamesRow(o) BY <1>a, <1>b, <1>c, <1>26, SeenStay DEF RenamesRow, Then, Go, Raise, Sync
<1>27. CASE Moves(o) BY <1>a, <1>b, <1>c, <1>27, SeenStay DEF Moves, Then, Go, Raise, Sync
<1>28. CASE FolderBegins(o) BY <1>a, <1>b, <1>c, <1>28, SeenStay DEF FolderBegins, Then, Go, Raise, Sync
<1>29. CASE SyncBegins(o) BY <1>a, <1>b, <1>c, <1>29, SeenStay DEF SyncBegins, Then, Go, Raise, Sync
<1>30. CASE Reads(o) BY <1>a, <1>b, <1>c, <1>30, SeenStay DEF Reads, Then, Go, Raise, Sync
<1> QED BY <1>1, <1>2, <1>3, <1>4, <1>5, <1>6, <1>7, <1>8, <1>9, <1>10, <1>11, <1>12, <1>13, <1>14, <1>15, <1>16, <1>17, <1>18, <1>19, <1>20, <1>21, <1>22, <1>23, <1>24, <1>25, <1>26, <1>27, <1>28, <1>29, <1>30 DEF Work

LEMMA OthersStay ==
  ASSUME NEW o \in Ops, StageOK(o), KeysOK(o), TargetOK(o), SeenOK(o), Grow, RowsKept, plan' = plan,
         SameAt(o)
  PROVE  StageOK(o)' /\ KeysOK(o)' /\ TargetOK(o)' /\ SeenOK(o)'
<1>1. StageOK(o)'
  BY DEF SameAt, StageOK, Sending, Replaces, InSync, Kind, Of
<1>2. KeysOK(o)' BY DEF SameAt, KeysOK, KeyOK, Grow, Kind, Of
<1>3. TargetOK(o)' BY DEF SameAt, TargetOK, RowsKept, Kind, Of
<1>4. SeenOK(o)'
  <2>1. zip'[o] \in Nat /\ seen'[o] = seen[o] BY DEF SameAt, SeenOK
  <2> QED BY <2>1, SeenStay
<1> QED BY <1>1, <1>2, <1>3, <1>4

LEMMA ContentSorts == Sorts(Names, ByContent) BY DEF Sorts, ByContent
LEMMA NameSorts == Sorts(Names, ByName) BY DEF Sorts, ByName

(* A rename keeps what its row is of. *)
LEMMA RenameKeeps ==
  ASSUME Base, NEW o \in Ops, RenamesRow(o)
  PROVE  ByContent[Renamed(Of(o))] = ByContent[rows[target[o]].name]
<1>1. at[o] = "rename" BY DEF RenamesRow
<1>2. Kind(o) = "rename" BY <1>1 DEF Base, StageOK
<1>3. target[o] \in DOMAIN rows /\ rows[target[o]].name[1] = Of(o) BY <1>1, <1>2 DEF Base, TargetOK
<1>4. rows[target[o]] \in GoodRows(Names, Handles, ByContent, Titles) BY <1>3 DEF Base, TableOK
<1>5. rows[target[o]].name \in Names BY <1>4 DEF GoodRows, RowSet
<1>6. Renamed(Of(o)) \in Names BY Scenario DEF Base, Renamed, Names
<1> QED BY <1>3, <1>5, <1>6 DEF ByContent, Renamed

LEMMA EndedPart ==
  ASSUME Base, NEW o \in Ops, PartEnds(o)
  PROVE  Next1(o) \in PartNames
<1>1. at[o] = "mark" BY DEF PartEnds
<1>2. todo[o] # {} /\ todo[o] \subseteq Parts(Of(o)) BY <1>1 DEF Base, StageOK
<1>3. Next1(o) \in Parts(Of(o)) BY <1>2, FirstPart
<1>4. Of(o) \in plan.contents BY Scenario DEF Base
<1> QED BY <1>3, <1>4 DEF Parts, PartNames

LEMMA NextRows ==
  ASSUME Base, [Next]_vars, WorldOK', Grow
  PROVE  TableOK(ByContent, PartNames)' /\ RowsKept
<1>1. plan' = plan BY SamePlan
<1>2. Names' = Names /\ PartNames' = PartNames BY <1>1 DEF Names, PartNames
<1>3. ByContent' = ByContent BY <1>2 DEF ByContent
<1>4. TableOK(ByContent, PartNames) /\ WorldOK BY DEF Base
<1>5. ASSUME NEW o \in Ops, RenamesRow(o) PROVE ByContent[Renamed(Of(o))] = ByContent[rows[target[o]].name]
  BY <1>5, RenameKeeps
<1>6. ASSUME NEW o \in Ops, PartEnds(o) PROVE Next1(o) \in PartNames BY <1>6, EndedPart
<1>7. /\ rows' \in Seq(GoodRows(Names, Handles', ByContent, Titles'))
      /\ vols' \in SUBSET GoodVols(PartNames, Handles', Titles', PartNames)
      /\ Kept(ByContent, rows, rows')
  BY <1>4, <1>5, <1>6, NextTable, ContentSorts
<1>8. TableOK(ByContent, PartNames)' BY <1>2, <1>3, <1>7 DEF TableOK
<1>9. RowsKept
  <2>1. DOMAIN rows \subseteq DOMAIN rows' BY <1>7 DEF Kept
  <2>2. ASSUME NEW i \in DOMAIN rows PROVE rows'[i].name[1] = rows[i].name[1]
    <3>1. rows[i] \in GoodRows(Names, Handles, ByContent, Titles) BY <1>4 DEF TableOK
    <3>2. rows'[i] \in GoodRows(Names, Handles', ByContent, Titles') BY <1>7, <2>1
    <3>3. rows[i].name \in Names /\ rows'[i].name \in Names BY <3>1, <3>2 DEF GoodRows, RowSet
    <3>4. ByContent[rows'[i].name] = ByContent[rows[i].name] BY <1>7 DEF Kept
    <3> QED BY <3>3, <3>4 DEF ByContent
  <2> QED BY <2>1, <2>2 DEF RowsKept
<1> QED BY <1>8, <1>9

LEMMA CrashStay ==
  ASSUME NEW o \in Ops, Base, Grow, RowsKept, Crash
  PROVE  StageOK(o)' /\ KeysOK(o)' /\ TargetOK(o)' /\ SeenOK(o)'
<1>a. StageOK(o) /\ KeysOK(o) /\ TargetOK(o) /\ SeenOK(o) /\ LocalOK BY DEF Base
<1>1. /\ plan' = plan /\ why' = why /\ target' = target /\ saved' = saved /\ key' = saved /\ zip' = zip
      /\ todo' = todo /\ done' = done /\ seen' = seen
      /\ at'[o] \in {at[o], "begin", "failed"} /\ (at'[o] # at[o] => Busy(o)) /\ (Busy(o) => at'[o] # at[o])
  BY DEF Crash, Busy
<1>2. StageOK(o)'
  BY <1>a, <1>1 DEF StageOK, Sending, Replaces, InSync, Kind, Of, Busy
<1>3. KeysOK(o)'
  <2>1. at[o] = "idle" <=> at'[o] = "idle" BY <1>1 DEF Busy
  <2>2. at'[o] \notin {"keep", "split"} BY <1>1 DEF Busy
  <2>3. KeyOK(o, saved[o]) => saved[o] = NoRef \/ (saved[o] \in Handles' /\ Titles'[saved[o]][1] = Of(o))
    BY DEF KeyOK, Grow
  <2> QED BY <1>a, <1>1, <2>1, <2>2, <2>3 DEF KeysOK, KeyOK, Kind, Of
<1>4. TargetOK(o)' BY <1>a, <1>1 DEF TargetOK, RowsKept, Kind, Of, Busy
<1>5. SeenOK(o)' BY <1>a, <1>1, SeenStay DEF SeenOK
<1> QED BY <1>2, <1>3, <1>4, <1>5

(* The world, the tables and what each operation has of them. *)
LEMMA NextBase ==
  ASSUME Base, [Next]_vars
  PROVE  Base' /\ Grow /\ RowsKept
<1>1. WorldOK' /\ Grow BY NextWorld
<1>2. TableOK(ByContent, PartNames)' /\ RowsKept BY <1>1, NextRows
<1>3. plan' = plan BY SamePlan
<1>a. LocalOK /\ \A o \in Ops : StageOK(o) /\ KeysOK(o) /\ TargetOK(o) /\ SeenOK(o) BY DEF Base
<1> DEFINE Rest == LocalOK' /\ \A o \in Ops : StageOK(o)' /\ KeysOK(o)' /\ TargetOK(o)' /\ SeenOK(o)'
<1>b. SUFFICES Rest BY <1>1, <1>2 DEF Base
<1> HIDE DEF Rest
<1>4. ASSUME NEW o \in Ops, Work(o) PROVE Rest
  <2>1. LocalOK' /\ \A p \in Ops \ {o} : SameAt(p) BY <1>4, <1>a, WorkLocal
  <2>2. StageOK(o)' BY <1>4, <1>a, WorkStage
  <2>3. KeysOK(o)' BY <1>4, <1>1, WorkKeys
  <2>4. TargetOK(o)' BY <1>4, <1>2, WorkTarget
  <2>5. SeenOK(o)' BY <1>4, <1>1, WorkSeen
  <2>6. ASSUME NEW p \in Ops \ {o} PROVE StageOK(p)' /\ KeysOK(p)' /\ TargetOK(p)' /\ SeenOK(p)'
    BY <1>1, <1>2, <1>3, <1>a, <2>1, OthersStay
  <2> QED BY <2>1, <2>2, <2>3, <2>4, <2>5, <2>6 DEF Rest
<1>5. ASSUME local' = local, calm' = calm \/ calm' = [x \in Ops |-> FALSE] PROVE Rest
  <2>1. \A p \in Ops : SameAt(p) BY <1>5 DEF SameAt, local
  <2>2. LocalOK' BY <1>5, <1>a DEF LocalOK, local
  <2>3. ASSUME NEW p \in Ops PROVE StageOK(p)' /\ KeysOK(p)' /\ TargetOK(p)' /\ SeenOK(p)'
    BY <1>1, <1>2, <1>3, <1>a, <2>1, OthersStay
  <2> QED BY <2>2, <2>3 DEF Rest
<1>6. CASE Crash
  <2>1. LocalOK' BY <1>6, <1>a DEF LocalOK, Crash, Quiet
  <2>2. ASSUME NEW p \in Ops PROVE StageOK(p)' /\ KeysOK(p)' /\ TargetOK(p)' /\ SeenOK(p)'
    BY <1>1, <1>2, <1>6, CrashStay
  <2> QED BY <2>1, <2>2 DEF Rest
<1>7. CASE NewSession BY <1>5, <1>7 DEF NewSession, Disturb
<1>8. ASSUME NEW c \in plan.contents, MemberUploads(c) PROVE Rest BY <1>5, <1>8 DEF MemberUploads, Stored, Disturb
<1>9. ASSUME NEW k \in DOMAIN cloud, MemberDeletes(k) PROVE Rest BY <1>5, <1>9 DEF MemberDeletes, Disturb
<1>10. ASSUME NEW k \in DOMAIN cloud, IndexEvent(k) PROVE Rest BY <1>5, <1>10 DEF IndexEvent, Disturb
<1>11. CASE UNCHANGED vars BY <1>5, <1>11 DEF vars, local
<1> QED BY <1>4, <1>6, <1>7, <1>8, <1>9, <1>10, <1>11 DEF Next

-----------------------------------------------------------------------------
(* The first state.                                                        *)

LEMMA InitWorld ==
  ASSUME Init
  PROVE  /\ WorldOK /\ LocalOK
         /\ \A k \in 1..Len(plan.holds) : <<k, 0>> \in Handles /\ Titles[<<k, 0>>] = Whole(plan.holds[k])
<1>1. plan \in Scenarios BY DEF Init
<1>2. /\ plan.holds \in Seq(plan.contents) /\ Len(plan.holds) <= MaxCopies /\ MaxCopies \in Nat
      /\ "none" \notin plan.contents /\ Len(plan.holds) \in Nat
  BY <1>1, FilesAssumption DEF FilesAssumption
<1> DEFINE file(k) == File(Whole(plan.holds[k]), Whole(plan.holds[k]), FALSE, 0)
<1>3. ASSUME NEW k \in 1..Len(plan.holds) PROVE file(k) \in Copies(Names) /\ file(k) # Never
  <2>1. plan.holds[k] \in plan.contents BY <1>2
  <2>a. ASSUME NEW c \in plan.contents
        PROVE  /\ File(Whole(c), Whole(c), FALSE, 0) \in Copies(Names)
               /\ File(Whole(c), Whole(c), FALSE, 0).what = <<c, 0>>
    BY DEF File, Copies, Names, Whole
  <2>2. file(k) \in Copies(Names) /\ file(k).what = <<plan.holds[k], 0>> BY <2>1, <2>a
  <2>3. <<plan.holds[k], 0>> # Gone BY <1>2, <2>1 DEF Gone
  <2>5. Never.what = Gone BY DEF Never
  <2> HIDE DEF file
  <2> QED BY <2>2, <2>3, <2>5
<1>4. cloud = [k \in 1..MaxCopies |-> IF k <= Len(plan.holds) THEN file(k) ELSE Never] BY DEF Init
<1>5. cloud \in [1..MaxCopies -> Copies(Names) \cup {Never}]
  <2>1. ASSUME NEW k \in 1..MaxCopies
        PROVE  (IF k <= Len(plan.holds) THEN file(k) ELSE Never) \in Copies(Names) \cup {Never}
    <3>1. k <= Len(plan.holds) => k \in 1..Len(plan.holds) BY <1>2
    <3> HIDE DEF file
    <3> QED BY <1>3, <3>1
  <2> HIDE DEF file
  <2> QED BY <1>4, <2>1
<1>6. ASSUME NEW k \in 1..Len(plan.holds)
      PROVE  <<k, 0>> \in Handles /\ Titles[<<k, 0>>] = Whole(plan.holds[k])
  <2>1. k \in DOMAIN cloud /\ cloud[k] = file(k) /\ k \in Nat /\ k # 0
    <3>1. k \in 1..MaxCopies /\ k <= Len(plan.holds) BY <1>2
    <3> HIDE DEF file
    <3> QED BY <1>4, <3>1
  <2>a. session = 0 BY DEF Init
  <2>b. cloud[k] # Never BY <1>3, <2>1
  <2> HIDE DEF file
  <2>2. <<k, 0>> \in Handles BY <2>1, <2>a, <2>b DEF Handles
  <2>3. Titles[<<k, 0>>] = cloud[k].name BY <2>1, <2>2 DEF Titles
  <2> QED BY <2>1, <2>2, <2>3 DEF File, file
<1>7. /\ session \in Nat /\ parents \in Seq(plan.contents) /\ news = {} /\ wanted \subseteq plan.contents
  <2>1. wanted = {plan.holds[k] : k \in DOMAIN plan.holds} BY DEF Init
  <2> QED BY <1>2, <2>1 DEF Init
<1>8. LocalOK BY DEF Init, LocalOK
<1> QED BY <1>1, <1>5, <1>6, <1>7, <1>8 DEF WorldOK, CloudOK

LEMMA InitTable ==
  ASSUME Init, NEW F, NEW U
  PROVE  TableOK(F, U)
<1>1. /\ WorldOK
      /\ \A k \in 1..Len(plan.holds) : <<k, 0>> \in Handles /\ Titles[<<k, 0>>] = Whole(plan.holds[k])
  BY InitWorld
<1>2. plan.holds \in Seq(plan.contents) /\ Len(plan.holds) \in Nat BY <1>1, Scenario
<1> DEFINE R == GoodRows(Names, Handles, F, Titles)
           row(k) == Row(<<k, 0>>, Whole(plan.holds[k]), "plain")
<1>3. rows = [k \in 1..Len(plan.holds) |-> row(k)] BY DEF Init
<1>4. ASSUME NEW k \in 1..Len(plan.holds) PROVE row(k) \in R
  <2>1. plan.holds[k] \in plan.contents BY <1>2
  <2>2. Whole(plan.holds[k]) \in Names BY <2>1 DEF Whole, Names
  <2>3. <<k, 0>> \in Handles /\ Titles[<<k, 0>>] = Whole(plan.holds[k]) BY <1>1
  <2> QED BY <2>2, <2>3 DEF Row, GoodRows, RowSet
<1> HIDE DEF R, row
<1>5. rows \in Seq(R) BY <1>2, <1>3, <1>4
<1>6. vols = {} BY DEF Init
<1> QED BY <1>5, <1>6 DEF TableOK, R

LEMMA InitBase ==
  ASSUME Init
  PROVE  Base
<1>1. WorldOK /\ LocalOK /\ TableOK(ByContent, PartNames) BY InitWorld, InitTable
<1>2. ASSUME NEW o \in Ops PROVE StageOK(o) /\ KeysOK(o) /\ TargetOK(o) /\ SeenOK(o)
  <2>1. /\ at[o] = "idle" /\ why[o] = "none" /\ key[o] = NoRef /\ saved[o] = NoRef /\ zip[o] = 0
        /\ todo[o] = {} /\ seen[o] = <<>>
    BY DEF Init
  <2>2. StageOK(o) BY <2>1 DEF StageOK, Sending, InSync
  <2>3. KeysOK(o) BY <2>1 DEF KeysOK, KeyOK
  <2>4. TargetOK(o) BY <2>1 DEF TargetOK
  <2>5. SeenOK(o) BY <2>1 DEF SeenOK
  <2> QED BY <2>2, <2>3, <2>4, <2>5
<1> QED BY <1>1, <1>2 DEF Base

LEMMA BaseAlways == Spec => []Base
<1>1. Base /\ [Next]_vars => Base' BY NextBase
<1>2. Init => Base BY InitBase
<1> QED BY <1>1, <1>2, PTL DEF Spec

-----------------------------------------------------------------------------
(* Nothing is lost.  What an upload in volumes, a conversion or a rename is *)
(* about to rely on is on the cloud: the parts it will not send again, and  *)
(* the copy under the new name.                                             *)

Taken == {Of(d) : d \in {o \in Ops : Kind(o) = "delete"}}
OnCloud(p) == \E k \in There : cloud[k].what = p
Safe == {p \in PartNames : p[1] \in Taken \/ OnCloud(p)}
CopyThere(o) == \E k \in There : cloud[k].what = Whole(Of(o)) /\ cloud[k].name = Renamed(Of(o))
SafeOK(o) ==
  /\ done[o] \subseteq Safe
  /\ (Sending(o) /\ at[o] # "split") \/ (at[o] = "send" /\ todo[o] # {}) => Parts(Of(o)) \ todo[o] \subseteq Safe
  /\ at[o] = "mark" => Next1(o) \in Safe
  /\ at[o] = "delete" /\ Kind(o) = "convert" => Parts(Of(o)) \subseteq Safe
  /\ at[o] = "delete" /\ Kind(o) = "rename" => CopyThere(o)

(* No operation deletes what another uploads in volumes, converts or renames,
   and members keep to themselves where files are renamed. *)
DeletesApart == \A o \in Ops : Of(o) \in Taken => Kind(o) # "rename" /\ ~Replaces(o)
RenamesAlone == "member" \in plan.faults => \A o \in Ops : Kind(o) # "rename"

Stays(j) == j \in There' /\ cloud'[j].what = cloud[j].what /\ cloud'[j].name = cloud[j].name

LEMMA CopyIs ==
  ASSUME WorldOK, NEW k \in There
  PROVE  /\ k \in DOMAIN cloud /\ cloud[k] \in Copies(Names) /\ cloud[k].what \in Names
         /\ cloud[k].name \in Names /\ cloud[k].name[1] = cloud[k].what[1]
         /\ (cloud[k].what[2] # 0 => cloud[k].name = cloud[k].what)
<1>1. k \in DOMAIN cloud /\ cloud[k] # Never BY DEF There, Never
<1>2. cloud[k] \in Copies(Names) BY <1>1 DEF WorldOK, CloudOK
<1> QED BY <1>1, <1>2 DEF Copies

(* What an operation deletes is of its content; a rename or a conversion
   deletes the original. *)
LEMMA VictimIs ==
  ASSUME Base, NEW o \in Ops, at[o] = "delete", NEW k \in Victims(o)
  PROVE  /\ k \in There /\ cloud[k].what[1] = Of(o)
         /\ Kind(o) # "delete" => cloud[k].name = Whole(Of(o)) /\ cloud[k].what = Whole(Of(o))
<1>a. WorldOK /\ StageOK(o) /\ TargetOK(o) /\ TableOK(ByContent, PartNames) BY DEF Base
<1>1. k \in There BY DEF Victims, Named
<1>2. /\ cloud[k].what \in Names /\ cloud[k].name[1] = cloud[k].what[1]
      /\ (cloud[k].what[2] # 0 => cloud[k].name = cloud[k].what)
  BY <1>a, <1>1, CopyIs
<1>3. CASE Kind(o) # "delete"
  <2>1. cloud[k].name = Whole(Of(o)) BY <1>3 DEF Victims, Named
  <2>2. cloud[k].name[1] = Of(o) /\ cloud[k].name[2] = 0 BY <2>1 DEF Whole
  <2>3. cloud[k].what[2] = 0 BY <1>2, <2>2
  <2>a. \A n \in Names : n = <<n[1], n[2]>> BY DEF Names
  <2>4. cloud[k].what = <<Of(o), 0>> BY <1>2, <2>2, <2>3, <2>a
  <2> QED BY <1>1, <2>1, <2>4 DEF Whole
<1>4. CASE Kind(o) = "delete"
  <2> DEFINE r == rows[RowOf(o)]
  <2>1. RowOf(o) \in DOMAIN rows /\ r.name[1] = Of(o) BY <1>a, <1>4 DEF TargetOK, RowOf
  <2>2. cloud[k].name[1] = Of(o)
    <3>1. CASE r.meta # "plain"
      <4>1. PICK v \in vols : v.parent = r.ref /\ cloud[k].name = v.part BY <1>4, <3>1 DEF Victims
      <4>2. v.part[1] = Titles[r.ref][1] BY <1>a, <4>1 DEF TableOK, GoodVols
      <4>3. r \in GoodRows(Names, Handles, ByContent, Titles) BY <1>a, <2>1 DEF TableOK
      <4>4. r.ref \in Handles /\ r.name \in Names /\ ByContent[r.name] = ByContent[Titles[r.ref]]
        BY <4>3 DEF GoodRows, RowSet
      <4>5. Titles[r.ref] \in Names BY <1>a, <4>4, TitlesIn
      <4>6. r.name[1] = Titles[r.ref][1] BY <4>4, <4>5 DEF ByContent
      <4> QED BY <2>1, <4>1, <4>2, <4>6
    <3>2. CASE r.meta = "plain"
      <4>1. cloud[k].name = r.name BY <1>4, <3>2 DEF Victims, Named
      <4> QED BY <2>1, <4>1
    <3> QED BY <3>1, <3>2
  <2> QED BY <1>1, <1>2, <1>4, <2>2
<1> QED BY <1>3, <1>4

(* A step takes nothing from the cloud, or one file. *)
LEMMA CopiesStay ==
  ASSUME Base, [Next]_vars
  PROVE  \/ \A j \in There : Stays(j)
         \/ \E o \in Ops : Deletes(o) /\ \E k \in Victims(o) : \A j \in There \ {k} : Stays(j)
         \/ \E k \in There : MemberDeletes(k) /\ \A j \in There \ {k} : Stays(j)
<1> DEFINE Goal == \/ \A j \in There : Stays(j)
                   \/ \E o \in Ops : Deletes(o) /\ \E k \in Victims(o) : \A j \in There \ {k} : Stays(j)
                   \/ \E k \in There : MemberDeletes(k) /\ \A j \in There \ {k} : Stays(j)
<1> SUFFICES Goal OBVIOUS
<1>a. WorldOK /\ cloud \in [1..MaxCopies -> Copies(Names) \cup {Never}] BY DEF Base, WorldOK, CloudOK
<1>b. ASSUME cloud' = cloud PROVE Goal BY <1>b DEF Stays, There
<1>c. ASSUME NEW what, NEW name, NEW deep, NEW z, Stored(what, name, deep, z) PROVE Goal
  <2>1. Free \subseteq 1..MaxCopies /\ Free \subseteq Nat /\ Free # {}
    BY <1>a, <1>c, Scenario DEF Free, Stored
  <2> DEFINE k == CHOOSE k \in Free : \A j \in Free : k <= j
  <2>2. k \in Free BY <2>1, LeastNat
  <2>3. k \notin There BY <2>2 DEF Free, There, Never
  <2>4. cloud' = [cloud EXCEPT ![k] = File(what, name, deep, z)] BY <1>c DEF Stored
  <2> HIDE DEF k
  <2>5. \A j \in There : j \in DOMAIN cloud /\ cloud'[j] = cloud[j] BY <2>3, <2>4 DEF There
  <2>6. DOMAIN cloud' = DOMAIN cloud BY <2>4
  <2> QED BY <2>5, <2>6 DEF Stays, There
<1>d. ASSUME NEW k \in There, Emptied(k) PROVE \A j \in There \ {k} : Stays(j)
  BY <1>d DEF Emptied, Stays, There
<1> HIDE DEF Goal
<1>1. ASSUME NEW o \in Ops, Work(o) PROVE Goal
  <2>1. CASE Submit(o) BY <1>b, <2>1 DEF Submit
  <2>2. CASE Fails(o) BY <1>b, <2>2 DEF Fails
  <2>3. CASE Pauses(o) BY <1>b, <2>3 DEF Pauses
  <2>4. CASE Resumes(o) BY <1>b, <2>4 DEF Resumes
  <2>5. CASE SyncStarts(o) BY <1>b, <2>5 DEF SyncStarts
  <2>6. CASE SyncLists(o) BY <1>b, <2>6 DEF SyncLists
  <2>7. CASE SyncListsDeep(o) BY <1>b, <2>7 DEF SyncListsDeep
  <2>8. CASE SyncIndexes(o) BY <1>b, <2>8 DEF SyncIndexes
  <2>9. CASE SyncPrunes(o) BY <1>b, <2>9 DEF SyncPrunes
  <2>10. CASE SyncEnds(o) BY <1>b, <2>10 DEF SyncEnds
  <2>11. CASE SyncFailed(o) BY <1>b, <2>11 DEF SyncFailed
  <2>12. CASE UploadBegins(o) BY <1>b, <2>12 DEF UploadBegins
  <2>13. CASE UploadKeeps(o) BY <1>b, <2>13 DEF UploadKeeps
  <2>14. CASE ConvertBegins(o) BY <1>b, <2>14 DEF ConvertBegins
  <2>15. CASE Downloads(o) BY <1>b, <2>15 DEF Downloads
  <2>16. CASE Splits(o) BY <1>b, <2>16 DEF Splits
  <2>17. CASE PartStarts(o) BY <1>b, <2>17 DEF PartStarts
  <2>18. CASE Sends(o) BY <1>c, <2>18 DEF Sends
  <2>19. CASE PartEnds(o) BY <1>b, <2>19 DEF PartEnds
  <2>20. CASE Stamps(o) BY <1>b, <2>20 DEF Stamps
  <2>21. CASE DeleteBegins(o) BY <1>b, <2>21 DEF DeleteBegins
  <2>22. CASE Deletes(o)
  <3>1. PICK k \in Victims(o) : Emptied(k) BY <2>22 DEF Deletes
  <3>2. k \in There BY DEF Victims, Named
  <3>3. \A j \in There \ {k} : Stays(j) BY <1>d, <3>1, <3>2
  <3> QED BY <2>22, <3>3 DEF Goal
  <2>23. CASE FindsNothing(o) BY <1>b, <2>23 DEF FindsNothing
  <2>24. CASE Forgets(o) BY <1>b, <2>24 DEF Forgets
  <2>25. CASE RenameBegins(o) BY <1>b, <2>25 DEF RenameBegins
  <2>26. CASE RenamesRow(o) BY <1>b, <2>26 DEF RenamesRow
  <2>27. CASE Moves(o)
  <3>1. PICK k \in There : cloud' = [cloud EXCEPT ![k].deep = ~@] BY <2>27 DEF Moves, Named
  <3>2. cloud[k] \in Copies(Names) BY <1>a, CopyIs
  <3>3. \A j \in There : Stays(j)
    <4>1. [cloud[k] EXCEPT !.deep = ~@].on = cloud[k].on /\ [cloud[k] EXCEPT !.deep = ~@].what = cloud[k].what
          /\ [cloud[k] EXCEPT !.deep = ~@].name = cloud[k].name
      BY <3>2 DEF Copies
    <4>2. cloud' = [cloud EXCEPT ![k] = [cloud[k] EXCEPT !.deep = ~@]] BY <3>1
    <4>3. ASSUME NEW j \in There PROVE Stays(j)
      <5>1. j \in DOMAIN cloud' /\ cloud'[j] = IF j = k THEN [cloud[k] EXCEPT !.deep = ~@] ELSE cloud[j]
        BY <4>2 DEF There
      <5>2. cloud[j].on BY DEF There
      <5> QED BY <4>1, <5>1, <5>2 DEF Stays, There
    <4> QED BY <4>3
  <3> QED BY <3>3 DEF Goal
  <2>28. CASE FolderBegins(o) BY <1>b, <2>28 DEF FolderBegins
  <2>29. CASE SyncBegins(o) BY <1>b, <2>29 DEF SyncBegins
  <2>30. CASE Reads(o) BY <1>b, <2>30 DEF Reads
  <2> QED BY <1>1, <2>1, <2>2, <2>3, <2>4, <2>5, <2>6, <2>7, <2>8, <2>9, <2>10, <2>11, <2>12, <2>13, <2>14, <2>15, <2>16, <2>17, <2>18, <2>19, <2>20, <2>21, <2>22, <2>23, <2>24, <2>25, <2>26, <2>27, <2>28, <2>29, <2>30 DEF Work
<1>2. CASE Crash BY <1>b, <1>2 DEF Crash
<1>3. CASE NewSession BY <1>b, <1>3 DEF NewSession
<1>4. ASSUME NEW c \in plan.contents, MemberUploads(c) PROVE Goal BY <1>c, <1>4 DEF MemberUploads
<1>5. ASSUME NEW k \in DOMAIN cloud, MemberDeletes(k) PROVE Goal
  <2>1. k \in There /\ Emptied(k) BY <1>5 DEF MemberDeletes
  <2> QED BY <1>5, <1>d, <2>1 DEF Goal
<1>6. ASSUME NEW k \in DOMAIN cloud, IndexEvent(k) PROVE Goal BY <1>b, <1>6 DEF IndexEvent
<1>7. CASE UNCHANGED vars BY <1>b, <1>7 DEF vars
<1> QED BY <1>1, <1>2, <1>3, <1>4, <1>5, <1>6, <1>7 DEF Next

LEMMA SafeGrows ==
  ASSUME Base, [Next]_vars
  PROVE  Safe \subseteq Safe'
<1>a. WorldOK BY DEF Base
<1>1. plan' = plan BY SamePlan
<1>2. PartNames' = PartNames /\ Taken' = Taken BY <1>1 DEF PartNames, Taken, Of, Kind
<1>3. ASSUME NEW p \in PartNames, p[1] \notin Taken, OnCloud(p) PROVE OnCloud(p)'
  <2>1. PICK k \in There : cloud[k].what = p BY <1>3 DEF OnCloud
  <2>2. p[2] # 0 /\ p # Whole(p[1]) BY DEF PartNames, Whole
  <2>3. ASSUME Stays(k) PROVE OnCloud(p)' BY <2>1, <2>3 DEF Stays, OnCloud
  <2>4. ASSUME NEW o \in Ops, Deletes(o), NEW j \in Victims(o), \A i \in There \ {j} : Stays(i)
        PROVE  k # j
    <3>1. SUFFICES ASSUME k = j PROVE FALSE OBVIOUS
    <3>2. at[o] = "delete" BY <2>4 DEF Deletes
    <3>3. p[1] = Of(o) /\ (Kind(o) # "delete" => p = Whole(Of(o))) BY <2>1, <3>1, <3>2, VictimIs
    <3>4. Kind(o) # "delete" BY <1>3, <3>3 DEF Taken
    <3> QED BY <2>2, <3>3, <3>4
  <2>5. ASSUME NEW j \in There, MemberDeletes(j) PROVE k # j
    BY <2>1, <2>2, <2>5 DEF MemberDeletes
  <2> QED BY <2>3, <2>4, <2>5, CopiesStay
<1>4. ASSUME NEW p \in Safe PROVE p \in Safe'
  <2>1. p \in PartNames /\ (p[1] \in Taken \/ OnCloud(p)) BY DEF Safe
  <2>2. CASE p[1] \in Taken BY <1>2, <2>1, <2>2 DEF Safe
  <2>3. CASE p[1] \notin Taken
    <3>1. OnCloud(p)' BY <1>3, <2>1, <2>3
    <3>2. p \in PartNames' BY <1>2, <2>1
    <3> QED BY <3>1, <3>2 DEF Safe, OnCloud
  <2> QED BY <2>2, <2>3
<1> QED BY <1>4

LEMMA CopyKept ==
  ASSUME Base, [Next]_vars, RenamesAlone, NEW o \in Ops, Kind(o) = "rename", Of(o) \notin Taken, CopyThere(o)
  PROVE  CopyThere(o)'
<1>1. plan' = plan BY SamePlan
<1>2. PICK k \in There : cloud[k].what = Whole(Of(o)) /\ cloud[k].name = Renamed(Of(o)) BY DEF CopyThere
<1>3. ASSUME Stays(k) PROVE CopyThere(o)' BY <1>1, <1>2, <1>3 DEF Stays, CopyThere, Of
<1>4. ASSUME NEW p \in Ops, Deletes(p), NEW j \in Victims(p), \A i \in There \ {j} : Stays(i)
      PROVE  k # j
  <2>1. SUFFICES ASSUME k = j PROVE FALSE OBVIOUS
  <2>2. at[p] = "delete" BY <1>4 DEF Deletes
  <2>3. Of(o) = Of(p) /\ (Kind(p) # "delete" => Renamed(Of(o)) = Whole(Of(p)))
    <3>1. cloud[j].what[1] = Of(p) /\ (Kind(p) # "delete" => cloud[j].name = Whole(Of(p)))
      BY <2>2, VictimIs
    <3>2. Whole(Of(o))[1] = Of(o) BY DEF Whole
    <3> QED BY <1>2, <2>1, <3>1, <3>2
  <2>4. Kind(p) # "delete" BY <2>3 DEF Taken
  <2> QED BY <2>3, <2>4 DEF Renamed, Whole
<1>5. ASSUME NEW j \in There, MemberDeletes(j) PROVE FALSE
  BY <1>5 DEF MemberDeletes, Trouble, RenamesAlone
<1> QED BY <1>3, <1>4, <1>5, CopiesStay

LEMMA SafeStays ==
  ASSUME Base, [Next]_vars, DeletesApart, RenamesAlone, NEW o \in Ops, SafeOK(o), SameAt(o)
  PROVE  SafeOK(o)'
<1>1. plan' = plan BY SamePlan
<1>2. Safe \subseteq Safe' BY SafeGrows
<1>3. at[o] = "delete" /\ Kind(o) = "rename" => CopyThere(o)'
  <2>1. Kind(o) = "rename" => Of(o) \notin Taken BY DEF DeletesApart
  <2> QED BY <2>1, CopyKept DEF SafeOK
<1>4. Next1(o)' = Next1(o) BY DEF SameAt, Next1
<1>5. Sending(o)' = Sending(o) /\ Kind(o)' = Kind(o) /\ Of(o)' = Of(o)
  BY <1>1 DEF SameAt, Sending, InSync, Kind, Of
<1> HIDE DEF CopyThere
<1>6. /\ done'[o] = done[o] /\ at'[o] = at[o] /\ todo'[o] = todo[o] BY DEF SameAt
<1> QED BY <1>2, <1>3, <1>4, <1>5, <1>6 DEF SafeOK

LEMMA SentIs ==
  ASSUME Base, NEW o \in Ops, Sends(o)
  PROVE  \E k \in There' : cloud'[k].what = What(o) /\ cloud'[k].name = Name(o)
<1>a. Stored(What(o), Name(o), FALSE, zip[o]) BY DEF Sends
<1> DEFINE k == CHOOSE k \in Free : \A j \in Free : k <= j
<1>1. Free # {} /\ cloud' = [cloud EXCEPT ![k] = File(What(o), Name(o), FALSE, zip[o])]
  BY <1>a DEF Stored
<1>2. cloud \in [1..MaxCopies -> Copies(Names) \cup {Never}] /\ MaxCopies \in Nat
  BY Scenario DEF Base, WorldOK, CloudOK
<1>3. Free \subseteq Nat BY <1>2 DEF Free
<1>4. k \in Free BY <1>1, <1>3, LeastNat
<1> HIDE DEF k
<1>5. k \in DOMAIN cloud BY <1>4 DEF Free
<1>6. k \in There' /\ cloud'[k].what = What(o) /\ cloud'[k].name = Name(o)
  BY <1>1, <1>5 DEF There, File
<1> QED BY <1>6

LEMMA WorkSafe ==
  ASSUME Base, NEW o \in Ops, Work(o), DeletesApart, RenamesAlone, TableOK(ByContent, Safe),
         TableOK(ByContent, Safe)', SafeOK(o)
  PROVE  SafeOK(o)'
<1>a. [Next]_vars BY DEF Next
<1>b. LocalOK /\ StageOK(o) BY DEF Base
<1>c. /\ DOMAIN at = Ops /\ DOMAIN why = Ops /\ DOMAIN todo = Ops /\ DOMAIN done = Ops BY <1>b DEF LocalOK
<1>d. plan' = plan BY <1>a, SamePlan
<1>e. Kind(o)' = Kind(o) /\ Of(o)' = Of(o) BY <1>d DEF Kind, Of
<1>f. Safe \subseteq Safe' BY <1>a, SafeGrows
<1>g. \A v \in vols : v.status = "uploaded" => v.part \in Safe BY DEF TableOK, GoodVols
(* A step that sends nothing and comes to nothing that relies on the cloud. *)
<1>h. ASSUME todo'[o] = todo[o], done'[o] = done[o],
             \/ Sending(o) /\ at[o] # "split"
             \/ ~Sending(o)' \/ at'[o] = "split",
             at'[o] \notin {"send", "mark", "delete"}
      PROVE  SafeOK(o)'
  BY <1>e, <1>f, <1>h DEF SafeOK
<1>1. CASE Submit(o) BY <1>c, <1>h, <1>1 DEF Submit, Then, Go, Raise, Sync, Sending, InSync
<1>2. CASE Fails(o) BY <1>c, <1>h, <1>2 DEF Fails, Then, Go, Raise, Sync, Sending, InSync
<1>3. CASE Pauses(o) BY <1>c, <1>h, <1>3 DEF Pauses, Then, Go, Raise, Sync, Sending, InSync
<1>4. CASE Resumes(o) BY <1>c, <1>h, <1>4 DEF Resumes, Then, Go, Raise, Sync, Sending, InSync
<1>5. CASE SyncStarts(o) BY <1>c, <1>h, <1>5 DEF SyncStarts, Then, Go, Raise, Sync, Sending, InSync
<1>6. CASE SyncLists(o) BY <1>c, <1>h, <1>6 DEF SyncLists, Then, Go, Raise, Sync, Sending, InSync
<1>7. CASE SyncListsDeep(o) BY <1>c, <1>h, <1>7 DEF SyncListsDeep, Then, Go, Raise, Sync, Sending, InSync
<1>8. CASE SyncIndexes(o) BY <1>c, <1>h, <1>8 DEF SyncIndexes, Then, Go, Raise, Sync, Sending, InSync
<1>9. CASE SyncPrunes(o) BY <1>c, <1>h, <1>9 DEF SyncPrunes, Then, Go, Raise, Sync, Sending, InSync
<1>10. CASE SyncEnds(o)
  <2>1. /\ todo' = todo /\ at[o] = "synced" /\ (Sending(o)' => Sending(o)) /\ at'[o] \in {"part", "done"}
    BY <1>c, <1>10 DEF SyncEnds, Go, Sending, InSync
  <2>2. done'[o] = done[o] \/ done'[o] = {v.part : v \in {x \in vols' :
                        x.parent = key[o] /\ x.status = "uploaded" /\ x.ref # NoRef}}
    BY <1>c, <1>10 DEF SyncEnds
  <2>3. \A v \in vols' : v.status = "uploaded" => v.part \in Safe' BY DEF TableOK, GoodVols
  <2>4. done'[o] \subseteq Safe' BY <1>f, <2>2, <2>3 DEF SafeOK
  <2> QED BY <1>e, <1>f, <2>1, <2>4 DEF SafeOK
<1>11. CASE SyncFailed(o) BY <1>c, <1>h, <1>11 DEF SyncFailed, Then, Go, Raise, Sync, Sending, InSync
<1>12. CASE UploadBegins(o)
  <2>1. /\ todo' = todo /\ done' = done
        /\ at'[o] \in {"begin", "failed", "split", "keep"} \/ (at'[o] = "send" /\ Of(o) \notin Big)
    BY <1>c, <1>12 DEF UploadBegins, Then, Go
  <2>2. Of(o) \notin Big => todo[o] = {} BY <1>b DEF StageOK, Parts
  <2> QED BY <1>e, <1>f, <2>1, <2>2 DEF SafeOK, Sending, InSync
<1>13. CASE UploadKeeps(o) BY <1>c, <1>h, <1>13 DEF UploadKeeps, Then, Go, Raise, Sync, Sending, InSync
<1>14. CASE ConvertBegins(o) BY <1>c, <1>h, <1>14 DEF ConvertBegins, Then, Go, Raise, Sync, Sending, InSync
<1>15. CASE Downloads(o)
  <2>1. /\ at[o] = "download" /\ todo' = todo /\ done' = done
        /\ at'[o] = "failed" \/ at'[o] = IF Kind(o) = "convert" THEN "split" ELSE "send"
    BY <1>c, <1>15 DEF Downloads, Then, Go
  <2>2. Kind(o) = "rename" => todo[o] = {} BY <1>b DEF StageOK
  <2>3. Kind(o) \in {"rename", "convert"} BY <1>b, <2>1 DEF StageOK
  <2> QED BY <1>e, <1>f, <2>1, <2>2, <2>3 DEF SafeOK, Sending, InSync
<1>16. CASE Splits(o)
  <2>1. /\ todo'[o] = Parts(Of(o)) /\ done'[o] = Uploaded(key[o]) /\ at'[o] \in {"sync", "part"}
    BY <1>c, <1>16 DEF Splits, Go
  <2>2. done'[o] \subseteq Safe BY <1>g, <2>1 DEF Uploaded
  <2> QED BY <1>e, <1>f, <2>1, <2>2 DEF SafeOK
<1>17. CASE PartStarts(o)
  <2>1. at[o] = "part" /\ done' = done /\ Parts(Of(o)) \ todo[o] \subseteq Safe
    BY <1>17 DEF PartStarts, Then, SafeOK, Sending
  <2>2. CASE Then(o, "stamp") \/ Then(o, "send")
    BY <1>c, <1>e, <1>f, <2>1, <2>2 DEF SafeOK, Then, Go
  <2>3. CASE Next1(o) \in done[o] /\ todo' = [todo EXCEPT ![o] = @ \ {Next1(o)}] /\ at' = at
    <3>1. todo'[o] = todo[o] \ {Next1(o)} /\ Next1(o) \in Safe BY <1>c, <2>3 DEF SafeOK
    <3> QED BY <1>e, <1>f, <2>1, <2>3, <3>1 DEF SafeOK
  <2> QED BY <1>17, <2>2, <2>3 DEF PartStarts
<1>18. CASE Sends(o)
  <2>1. at[o] = "send" /\ Stored(What(o), Name(o), FALSE, zip[o]) BY <1>18 DEF Sends
  <2>2. PICK k \in There' : cloud'[k].what = What(o) /\ cloud'[k].name = Name(o) BY <1>18, SentIs
  <2>4. CASE todo[o] # {} /\ Then(o, "mark")
    <3>1. at'[o] = "mark" /\ todo' = todo /\ done' = done BY <1>c, <2>4 DEF Then, Go
    <3>2. What(o) = Next1(o) BY <2>4 DEF What
    <3>3. Next1(o)' = Next1(o) BY <3>1 DEF Next1
    <3>4. Next1(o) \in PartNames
      <4>1. Next1(o) \in Parts(Of(o)) BY <1>b, <2>4, FirstPart DEF StageOK
      <4>2. Of(o) \in plan.contents BY Scenario DEF Base
      <4> QED BY <4>1, <4>2 DEF Parts, PartNames
    <3>5. Next1(o) \in Safe' BY <1>d, <2>2, <3>2, <3>4 DEF Safe, OnCloud, PartNames
    <3>6. Parts(Of(o)) \ todo[o] \subseteq Safe BY <2>1, <2>4 DEF SafeOK
    <3> QED BY <1>e, <1>f, <3>1, <3>3, <3>5, <3>6 DEF SafeOK
  <2>5. CASE todo[o] = {} /\ Kind(o) = "rename" /\ Then(o, "delete")
    <3>1. at'[o] = "delete" /\ todo' = todo /\ done' = done BY <1>c, <2>5 DEF Then, Go
    <3>2. What(o) = Whole(Of(o)) /\ Name(o) = Renamed(Of(o)) BY <2>5 DEF What, Name
    <3>3. CopyThere(o)' BY <1>d, <2>2, <3>2 DEF CopyThere, Of
    <3>4. ~Sending(o)' BY <3>1 DEF Sending, InSync
    <3> HIDE DEF CopyThere
    <3> QED BY <1>e, <1>f, <2>5, <3>1, <3>3, <3>4 DEF SafeOK
  <2>6. CASE Sync(o, "final") BY <1>c, <1>h, <2>6 DEF Sync, Go, Sending, InSync
  <2>7. CASE Raise(o) BY <1>c, <1>h, <2>7 DEF Raise, Then, Go, Sending, InSync
  <2> QED BY ONLY <1>18, <2>4, <2>5, <2>6, <2>7 DEF Sends
<1>19. CASE PartEnds(o)
  <2>1. at[o] = "mark" /\ at'[o] = "part" /\ todo'[o] = todo[o] \ {Next1(o)} /\ done' = done
    BY <1>c, <1>19 DEF PartEnds, Go
  <2>2. Next1(o) \in Safe /\ Parts(Of(o)) \ todo[o] \subseteq Safe BY <2>1 DEF SafeOK, Sending
  <2> QED BY <1>e, <1>f, <2>1, <2>2 DEF SafeOK
<1>20. CASE Stamps(o)
  <2>1. at[o] = "stamp" /\ todo' = todo /\ done' = done BY <1>20 DEF Stamps, Then, Sync
  <2>2. Parts(Of(o)) \subseteq Safe BY <1>b, <2>1 DEF SafeOK, Sending, StageOK
  <2>3. CASE Kind(o) = "convert" /\ Then(o, "delete")
    BY <1>c, <1>e, <1>f, <2>1, <2>2, <2>3 DEF SafeOK, Then, Go
  <2>4. CASE Sync(o, "final") BY <1>c, <1>h, <2>1, <2>4 DEF Sync, Go, Sending, InSync
  <2> QED BY <1>20, <2>3, <2>4 DEF Stamps
<1>21. CASE DeleteBegins(o)
  BY <1>c, <1>e, <1>f, <1>21 DEF DeleteBegins, SafeOK, Then, Go, Sending, InSync
<1>22. CASE Deletes(o)
  <2>1. at[o] = "delete" /\ todo' = todo /\ done' = done BY <1>22 DEF Deletes, Then, Sync
  <2>2. CASE Sync(o, "final") BY <1>c, <1>h, <2>1, <2>2 DEF Sync, Go, Sending, InSync
  <2>3. CASE Then(o, "rename") \/ Then(o, "forget")
    BY <1>c, <1>h, <2>1, <2>3 DEF Then, Go, Sending, InSync
  <2>4. CASE Kind(o) \notin {"convert", "rename"} /\ Then(o, "delete")
    BY <1>c, <1>e, <1>f, <2>1, <2>4 DEF SafeOK, Then, Go, Sending, InSync
  <2> QED BY <1>22, <2>2, <2>3, <2>4 DEF Deletes
<1>23. CASE FindsNothing(o) BY <1>c, <1>h, <1>23 DEF FindsNothing, Then, Go, Raise, Sync, Sending, InSync
<1>24. CASE Forgets(o) BY <1>c, <1>h, <1>24 DEF Forgets, Then, Go, Raise, Sync, Sending, InSync
<1>25. CASE RenameBegins(o) BY <1>c, <1>h, <1>25 DEF RenameBegins, Then, Go, Raise, Sync, Sending, InSync
<1>26. CASE RenamesRow(o) BY <1>c, <1>h, <1>26 DEF RenamesRow, Then, Go, Raise, Sync, Sending, InSync
<1>27. CASE Moves(o) BY <1>c, <1>h, <1>27 DEF Moves, Then, Go, Raise, Sync, Sending, InSync
<1>28. CASE FolderBegins(o) BY <1>c, <1>h, <1>28 DEF FolderBegins, Then, Go, Raise, Sync, Sending, InSync
<1>29. CASE SyncBegins(o) BY <1>c, <1>h, <1>29 DEF SyncBegins, Then, Go, Raise, Sync, Sending, InSync
<1>30. CASE Reads(o) BY <1>c, <1>h, <1>30 DEF Reads, Then, Go, Raise, Sync, Sending, InSync
<1> QED BY <1>1, <1>2, <1>3, <1>4, <1>5, <1>6, <1>7, <1>8, <1>9, <1>10, <1>11, <1>12, <1>13, <1>14, <1>15, <1>16, <1>17, <1>18, <1>19, <1>20, <1>21, <1>22, <1>23, <1>24, <1>25, <1>26, <1>27, <1>28, <1>29, <1>30 DEF Work

LEMMA CrashSafe ==
  ASSUME Base, NEW o \in Ops, Crash, SafeOK(o)
  PROVE  SafeOK(o)'
<1>1. Safe \subseteq Safe' BY SafeGrows DEF Next
<1>2. /\ done'[o] = done[o] /\ at'[o] \in {"idle", "begin", "paused", "failed", "done"}
  BY DEF Crash, Busy
<1> QED BY <1>1, <1>2 DEF SafeOK, Sending, InSync

Ready == Base /\ TableOK(ByContent, Safe) /\ \A o \in Ops : SafeOK(o)

LEMMA NextReady ==
  ASSUME Ready, DeletesApart, RenamesAlone, [Next]_vars
  PROVE  Ready'
<1>a. Base /\ TableOK(ByContent, Safe) /\ \A o \in Ops : SafeOK(o) BY DEF Ready
<1>1. Base' /\ Grow BY <1>a, NextBase
<1>2. Safe \subseteq Safe' BY <1>a, SafeGrows
<1>3. plan' = plan BY SamePlan
<1>4. TableOK(ByContent, Safe)'
  <2>1. WorldOK' BY <1>1 DEF Base
  <2>2. \A o \in Ops : RenamesRow(o) => ByContent[Renamed(Of(o))] = ByContent[rows[target[o]].name]
    BY <1>a, RenameKeeps
  <2>3. \A o \in Ops : PartEnds(o) => Next1(o) \in Safe' BY <1>a, <1>2 DEF PartEnds, SafeOK
  <2>4. /\ rows' \in Seq(GoodRows(Names, Handles', ByContent, Titles'))
        /\ vols' \in SUBSET GoodVols(PartNames, Handles', Titles', Safe')
    BY <1>a, <1>1, <1>2, <2>1, <2>2, <2>3, NextTable, ContentSorts
  <2>5. Names' = Names /\ PartNames' = PartNames BY <1>3 DEF Names, PartNames
  <2>6. ByContent' = ByContent BY <2>5 DEF ByContent
  <2> QED BY <2>4, <2>5, <2>6 DEF TableOK
<1>5. ASSUME NEW p \in Ops, SameAt(p) PROVE SafeOK(p)' BY <1>a, <1>5, SafeStays
<1>6. ASSUME local' = local PROVE \A o \in Ops : SafeOK(o)' BY <1>5, <1>6 DEF SameAt, local
<1>7. ASSUME NEW o \in Ops, Work(o) PROVE \A p \in Ops : SafeOK(p)'
  <2>1. \A p \in Ops \ {o} : SameAt(p) BY <1>a, <1>7, WorkLocal DEF Base
  <2>2. SafeOK(o)' BY <1>a, <1>4, <1>7, WorkSafe
  <2> QED BY <1>5, <2>1, <2>2
<1>8. ASSUME Crash PROVE \A o \in Ops : SafeOK(o)' BY <1>a, <1>8, CrashSafe
<1>9. ASSUME NewSession PROVE \A o \in Ops : SafeOK(o)' BY <1>6, <1>9 DEF NewSession
<1>10. ASSUME NEW c \in plan.contents, MemberUploads(c) PROVE \A o \in Ops : SafeOK(o)'
  BY <1>6, <1>10 DEF MemberUploads
<1>11. ASSUME NEW k \in DOMAIN cloud, MemberDeletes(k) PROVE \A o \in Ops : SafeOK(o)'
  BY <1>6, <1>11 DEF MemberDeletes
<1>12. ASSUME NEW k \in DOMAIN cloud, IndexEvent(k) PROVE \A o \in Ops : SafeOK(o)'
  BY <1>6, <1>12 DEF IndexEvent
<1>13. ASSUME UNCHANGED vars PROVE \A o \in Ops : SafeOK(o)' BY <1>6, <1>13 DEF vars, local
<1>14. \A o \in Ops : SafeOK(o)' BY <1>7, <1>8, <1>9, <1>10, <1>11, <1>12, <1>13 DEF Next
<1> QED BY <1>1, <1>4, <1>14 DEF Ready

LEMMA InitReady ==
  ASSUME Init
  PROVE  Ready
<1>1. Base /\ TableOK(ByContent, Safe) BY InitBase, InitTable
<1>2. ASSUME NEW o \in Ops PROVE SafeOK(o)
  <2>1. at[o] = "idle" /\ done[o] = {} BY DEF Init
  <2> QED BY <2>1 DEF SafeOK, Sending, InSync
<1> QED BY <1>1, <1>2 DEF Ready

Held(c) == OnCloud(Whole(c)) \/ (Parts(c) # {} /\ \A p \in Parts(c) : OnCloud(p))

(* What comes to be wanted: what a member or an operation sent as a whole,
   and what an upload finished in its parts. *)
LEMMA WantedIs ==
  ASSUME [Next]_vars, NEW c \in wanted' \ wanted
  PROVE  \/ MemberUploads(c)
         \/ \E o \in Ops : /\ c = Of(o)
                          /\ \/ Sends(o) /\ todo[o] = {}
                             \/ Stamps(o) /\ Kind(o) # "convert"
<1> DEFINE Goal == \/ MemberUploads(c)
                   \/ \E o \in Ops : /\ c = Of(o)
                                    /\ \/ Sends(o) /\ todo[o] = {}
                                       \/ Stamps(o) /\ Kind(o) # "convert"
<1> SUFFICES Goal OBVIOUS
<1>a. ASSUME wanted' = wanted PROVE Goal BY <1>a
<1>1. ASSUME NEW o \in Ops, Work(o) PROVE Goal
  <2>1. CASE Submit(o) BY <1>a, <2>1 DEF Submit
  <2>2. CASE Fails(o) BY <1>a, <2>2 DEF Fails
  <2>3. CASE Pauses(o) BY <1>a, <2>3 DEF Pauses
  <2>4. CASE Resumes(o) BY <1>a, <2>4 DEF Resumes
  <2>5. CASE SyncStarts(o) BY <1>a, <2>5 DEF SyncStarts
  <2>6. CASE SyncLists(o) BY <1>a, <2>6 DEF SyncLists
  <2>7. CASE SyncListsDeep(o) BY <1>a, <2>7 DEF SyncListsDeep
  <2>8. CASE SyncIndexes(o) BY <1>a, <2>8 DEF SyncIndexes
  <2>9. CASE SyncPrunes(o) BY <1>a, <2>9 DEF SyncPrunes
  <2>10. CASE SyncEnds(o) BY <1>a, <2>10 DEF SyncEnds
  <2>11. CASE SyncFailed(o) BY <1>a, <2>11 DEF SyncFailed
  <2>12. CASE UploadBegins(o) BY <1>a, <2>12 DEF UploadBegins
  <2>13. CASE UploadKeeps(o) BY <1>a, <2>13 DEF UploadKeeps
  <2>14. CASE ConvertBegins(o) BY <1>a, <2>14 DEF ConvertBegins
  <2>15. CASE Downloads(o) BY <1>a, <2>15 DEF Downloads
  <2>16. CASE Splits(o) BY <1>a, <2>16 DEF Splits
  <2>17. CASE PartStarts(o) BY <1>a, <2>17 DEF PartStarts
  <2>18. CASE Sends(o) BY <2>18 DEF Sends
  <2>19. CASE PartEnds(o) BY <1>a, <2>19 DEF PartEnds
  <2>20. CASE Stamps(o) BY <2>20 DEF Stamps
  <2>21. CASE DeleteBegins(o) BY <1>a, <2>21 DEF DeleteBegins
  <2>22. CASE Deletes(o) BY <2>22 DEF Deletes
  <2>23. CASE FindsNothing(o) BY <1>a, <2>23 DEF FindsNothing
  <2>24. CASE Forgets(o) BY <1>a, <2>24 DEF Forgets
  <2>25. CASE RenameBegins(o) BY <1>a, <2>25 DEF RenameBegins
  <2>26. CASE RenamesRow(o) BY <1>a, <2>26 DEF RenamesRow
  <2>27. CASE Moves(o) BY <1>a, <2>27 DEF Moves
  <2>28. CASE FolderBegins(o) BY <1>a, <2>28 DEF FolderBegins
  <2>29. CASE SyncBegins(o) BY <1>a, <2>29 DEF SyncBegins
  <2>30. CASE Reads(o) BY <1>a, <2>30 DEF Reads
  <2> HIDE DEF Goal
  <2> QED BY <1>1, <2>1, <2>2, <2>3, <2>4, <2>5, <2>6, <2>7, <2>8, <2>9, <2>10, <2>11, <2>12, <2>13, <2>14, <2>15, <2>16, <2>17, <2>18, <2>19, <2>20, <2>21, <2>22, <2>23, <2>24, <2>25, <2>26, <2>27, <2>28, <2>29, <2>30 DEF Work
<1>2. ASSUME NEW d \in plan.contents, MemberUploads(d) PROVE Goal
  <2>1. c = d BY <1>2 DEF MemberUploads
  <2> QED BY <1>2, <2>1
<1>3. ASSUME NEW k \in DOMAIN cloud, MemberDeletes(k) PROVE Goal BY <1>3 DEF MemberDeletes
<1>4. ASSUME NEW k \in DOMAIN cloud, IndexEvent(k) PROVE Goal BY <1>a, <1>4 DEF IndexEvent
<1>5. CASE Crash \/ NewSession \/ UNCHANGED vars BY <1>a, <1>5 DEF Crash, NewSession, vars
<1> HIDE DEF Goal
<1> QED BY <1>1, <1>2, <1>3, <1>4, <1>5 DEF Next

LEMMA HeldComes ==
  ASSUME Ready, DeletesApart, [Next]_vars, NEW c \in wanted' \ wanted
  PROVE  Held(c)'
<1>a. Base /\ \A o \in Ops : SafeOK(o) BY DEF Ready
<1>1. CASE MemberUploads(c)
  <2>1. PICK deep \in BOOLEAN : Stored(Whole(c), Whole(c), deep, 0) BY <1>1 DEF MemberUploads
  <2> DEFINE k == CHOOSE k \in Free : \A j \in Free : k <= j
  <2>2. Free # {} /\ cloud' = [cloud EXCEPT ![k] = File(Whole(c), Whole(c), deep, 0)]
    BY <2>1 DEF Stored
  <2>3. cloud \in [1..MaxCopies -> Copies(Names) \cup {Never}] /\ MaxCopies \in Nat
    BY <1>a, Scenario DEF Base, WorldOK, CloudOK
  <2>4. Free \subseteq Nat BY <2>3 DEF Free
  <2>5. k \in Free BY <2>2, <2>4, LeastNat
  <2> HIDE DEF k
  <2>6. k \in DOMAIN cloud BY <2>5 DEF Free
  <2>7. k \in There' /\ cloud'[k].what = Whole(c) BY <2>2, <2>6 DEF There, File
  <2> QED BY <2>7 DEF Held, OnCloud
<1>2. ASSUME NEW o \in Ops, c = Of(o), Sends(o), todo[o] = {} PROVE Held(c)'
  <2>1. What(o) = Whole(c) BY <1>2 DEF What
  <2>2. \E k \in There' : cloud'[k].what = Whole(c) BY <1>a, <1>2, <2>1, SentIs
  <2> QED BY <2>2 DEF Held, OnCloud
<1>3. ASSUME NEW o \in Ops, c = Of(o), Stamps(o), Kind(o) # "convert" PROVE Held(c)'
  <2>1. at[o] = "stamp" /\ cloud' = cloud BY <1>3 DEF Stamps
  <2>2. StageOK(o) BY <1>a DEF Base
  <2>3. Parts(c) \subseteq Safe /\ Replaces(o) /\ c \in Big
    BY <1>a, <1>3, <2>1, <2>2 DEF SafeOK, StageOK, Sending
  <2>4. c \notin Taken BY <1>3, <2>3 DEF DeletesApart
  <2>5. \A p \in Parts(c) : OnCloud(p)
    <3>1. \A p \in Parts(c) : p[1] = c BY DEF Parts
    <3> QED BY <2>3, <2>4, <3>1 DEF Safe
  <2>6. \A p \in Parts(c) : OnCloud(p)' BY <2>1, <2>5 DEF OnCloud, There
  <2>7. Parts(c) # {} BY <2>3 DEF Parts
  <2> QED BY <2>6, <2>7 DEF Held, Parts
<1> QED BY <1>1, <1>2, <1>3, WantedIs

LEMMA HeldStays ==
  ASSUME Ready, DeletesApart, RenamesAlone, [Next]_vars, NEW c \in wanted \cap wanted', Held(c)
  PROVE  Held(c)'
<1>a. Base /\ WorldOK /\ \A o \in Ops : SafeOK(o) BY DEF Ready, Base
<1>b. ASSUME NEW k \in There, \A j \in There \ {k} : Stays(j), cloud[k].what[1] # c PROVE Held(c)'
  <2>1. \A x : OnCloud(x) /\ x[1] = c => OnCloud(x)' BY <1>b DEF OnCloud, Stays
  <2>2. Whole(c)[1] = c /\ \A p \in Parts(c) : p[1] = c BY DEF Whole, Parts
  <2>3. CASE OnCloud(Whole(c)) BY <2>1, <2>2, <2>3 DEF Held
  <2>4. CASE Parts(c) # {} /\ \A p \in Parts(c) : OnCloud(p)
    <3>1. \A p \in Parts(c) : OnCloud(p)' BY <2>1, <2>2, <2>4
    <3> QED BY <2>4, <3>1 DEF Held, Parts
  <2> QED BY <2>3, <2>4 DEF Held
<1>1. CASE \A j \in There : Stays(j)
  <2>1. \A x : OnCloud(x) => OnCloud(x)' BY <1>1 DEF OnCloud, Stays
  <2>2. CASE OnCloud(Whole(c)) BY <2>1, <2>2 DEF Held
  <2>3. CASE Parts(c) # {} /\ \A p \in Parts(c) : OnCloud(p)
    <3>1. \A p \in Parts(c) : OnCloud(p)' BY <2>1, <2>3
    <3> QED BY <2>3, <3>1 DEF Held, Parts
  <2> QED BY <2>2, <2>3 DEF Held
<1>2. ASSUME NEW o \in Ops, Deletes(o), NEW k \in Victims(o), \A j \in There \ {k} : Stays(j)
      PROVE  Held(c)'
  <2>1. at[o] = "delete" BY <1>2 DEF Deletes
  <2>2. /\ k \in There /\ cloud[k].what[1] = Of(o)
        /\ Kind(o) # "delete" => cloud[k].name = Whole(Of(o)) /\ cloud[k].what = Whole(Of(o))
    BY <1>a, <2>1, VictimIs
  <2>3. StageOK(o) BY <1>a DEF Base
  <2>4. CASE c # Of(o) BY <1>b, <1>2, <2>2, <2>4
  <2>5. CASE c = Of(o) /\ Kind(o) = "delete" BY <1>2, <2>5 DEF Deletes
  <2>6. CASE c = Of(o) /\ Kind(o) = "rename"
    <3>1. PICK j \in There : cloud[j].what = Whole(c) /\ cloud[j].name = Renamed(c)
      BY <1>a, <2>1, <2>6 DEF SafeOK, CopyThere
    <3>2. j # k BY <2>2, <2>6, <3>1 DEF Whole, Renamed
    <3>3. OnCloud(Whole(c))' BY <1>2, <3>1, <3>2 DEF Stays, OnCloud
    <3> QED BY <3>3 DEF Held
  <2>7. CASE c = Of(o) /\ Kind(o) = "convert"
    <3>1. Parts(c) \subseteq Safe /\ c \in Big BY <1>a, <2>1, <2>3, <2>7 DEF SafeOK, StageOK
    <3>2. c \notin Taken BY <2>7 DEF DeletesApart, Replaces
    <3>3. plan' = plan BY SamePlan
    <3>4. Safe \subseteq Safe' /\ Taken' = Taken BY <1>a, <3>3, SafeGrows DEF Taken, Of, Kind
    <3>5. ASSUME NEW p \in Parts(c) PROVE OnCloud(p)'
      <4>1. p[1] = c BY DEF Parts
      <4>2. p \in Safe' /\ p[1] \notin Taken' BY <3>1, <3>2, <3>4, <4>1
      <4> QED BY <4>2 DEF Safe, OnCloud
    <3>6. Parts(c) # {} BY <3>1 DEF Parts
    <3> QED BY <3>5, <3>6 DEF Held, Parts
  <2> QED BY <2>1, <2>3, <2>4, <2>5, <2>6, <2>7 DEF StageOK
<1>3. ASSUME NEW k \in There, MemberDeletes(k), \A j \in There \ {k} : Stays(j) PROVE Held(c)'
  <2>1. cloud[k].what[1] # c BY <1>3 DEF MemberDeletes
  <2> QED BY <1>b, <1>3, <2>1
<1> QED BY <1>a, <1>1, <1>2, <1>3, CopiesStay

(* NothingLost, where no operation deletes what another replaces and members
   keep away from files that are renamed: whatever fails, is lost, paused or
   replayed, the cloud holds a content that nobody deleted. *)
THEOREM NothingLostAlways == Spec => [](DeletesApart /\ RenamesAlone => NothingLost)
<1> DEFINE Apart == DeletesApart /\ RenamesAlone
           All == Ready /\ \A c \in wanted : Held(c)
<1>1. Init => (Apart => All)
  <2>1. ASSUME Init, NEW c \in wanted PROVE Held(c)
    <3>1. PICK k \in DOMAIN plan.holds : c = plan.holds[k] BY <2>1 DEF Init
    <3>2. Base BY <2>1, InitBase
    <3>3. /\ plan.holds \in Seq(plan.contents) /\ Len(plan.holds) <= MaxCopies /\ MaxCopies \in Nat
          /\ Len(plan.holds) \in Nat
      BY <3>2, Scenario DEF Base
    <3>4. k \in 1..MaxCopies /\ k <= Len(plan.holds) BY <3>3
    <3>5. k \in DOMAIN cloud /\ cloud[k] = File(Whole(plan.holds[k]), Whole(plan.holds[k]), FALSE, 0)
      BY <2>1, <3>4 DEF Init
    <3>6. k \in There /\ cloud[k].what = Whole(c) BY <3>1, <3>5 DEF There, File
    <3> QED BY <3>6 DEF Held, OnCloud
  <2> QED BY <2>1, InitReady
<1>2. Apart' => Apart \/ ~[Next]_vars
  BY SamePlan DEF DeletesApart, RenamesAlone, Taken, Replaces, Of, Kind
<1>3. (Apart => All) /\ [Next]_vars => (Apart => All)'
  <2> SUFFICES ASSUME Apart, All, [Next]_vars PROVE All' BY <1>2
  <2>1. Ready' BY NextReady
  <2>2. \A c \in wanted' : Held(c)' BY HeldComes, HeldStays
  <2> QED BY <2>1, <2>2
<1>4. (Apart => All) => (Apart => NothingLost)
  BY DEF Held, OnCloud, NothingLost
<1> HIDE DEF Apart, All
<1>5. Spec => [](Apart => NothingLost) BY <1>1, <1>3, <1>4, PTL DEF Spec
<1> QED BY <1>5 DEF Apart

-----------------------------------------------------------------------------
(* What a full sync leaves.  Each item of a batch that is written has, when  *)
(* the batch is done, a live row of its name with a handle of the batch: a   *)
(* later item can take the row over, and gives it another such handle.       *)

Exact(N, F) == \A n, m \in N : F[n] = F[m] => n = m
Showing(r, n, K) == \E i \in DOMAIN r : r[i].status = "active" /\ r[i].name = n /\ r[i].ref \in K

LEMMA PutShows ==
  ASSUME NEW N, NEW H, NEW F, NEW T, NEW V, NEW K, Exact(N, F), NEW x \in Tables(GoodRows(N, H, F, T), V),
         NEW new \in GoodRows(N, H, F, T), new.status = "active", new.ref \in K, PutRow(x, new).ok
  PROVE  /\ x.ok /\ Showing(PutRow(x, new).rows, new.name, K)
         /\ \A n : Showing(x.rows, n, K) => Showing(PutRow(x, new).rows, n, K)
<1> DEFINE R == GoodRows(N, H, F, T)
           Goal == /\ x.ok /\ Showing(PutRow(x, new).rows, new.name, K)
                   /\ \A n : Showing(x.rows, n, K) => Showing(PutRow(x, new).rows, n, K)
<1> SUFFICES Goal OBVIOUS
<1>1. x \in [rows : Seq(R), vols : SUBSET V, ok : BOOLEAN] BY DEF Tables
<1>b. \A r \in R : r.ref = new.ref \/ r.key = new.key =>
                     /\ Merged(r, new).name = r.name /\ Merged(r, new).name = new.name
                     /\ Merged(r, new).status = "active" /\ Merged(r, new).ref = new.ref
  <2>1. ASSUME NEW r \in R, r.ref = new.ref \/ r.key = new.key
        PROVE  /\ Merged(r, new).ref = new.ref /\ Merged(r, new).name = new.name
               /\ Merged(r, new).status = "active" /\ F[new.name] = F[r.name]
    BY <2>1, MergedGood
  <2>2. new.name \in N /\ \A r \in R : r.name \in N BY DEF GoodRows, RowSet
  <2> HIDE DEF R
  <2> QED BY <2>1, <2>2 DEF Exact
<1> HIDE DEF R, Goal
<1>3. CASE PutRow(x, new) = [x EXCEPT !.ok = FALSE] BY <1>1, <1>3
<1>4. CASE /\ x.ok
           /\ \E i \in DOMAIN x.rows :
                /\ x.rows[i].ref = new.ref \/ x.rows[i].key = new.key
                /\ PutRow(x, new) = [x EXCEPT !.rows[i] = Merged(@, new)]
  <2>. PICK i \in DOMAIN x.rows :
         /\ x.rows[i].ref = new.ref \/ x.rows[i].key = new.key
         /\ PutRow(x, new) = [x EXCEPT !.rows[i] = Merged(@, new)]
    BY <1>4
  <2>1. x.rows[i] \in R BY <1>1
  <2> DEFINE m == Merged(x.rows[i], new)
             s == PutRow(x, new).rows
  <2>2. m.name = x.rows[i].name /\ m.name = new.name /\ m.status = "active" /\ m.ref = new.ref
    BY <1>b, <2>1
  <2>3. DOMAIN s = DOMAIN x.rows /\ \A j \in DOMAIN x.rows : s[j] = IF j = i THEN m ELSE x.rows[j]
    BY <1>1
  <2> HIDE DEF m, s
  <2>4. Showing(s, new.name, K) BY <2>2, <2>3 DEF Showing
  <2>5. \A n : Showing(x.rows, n, K) => Showing(s, n, K) BY <2>2, <2>3 DEF Showing
  <2> QED BY <1>4, <2>4, <2>5 DEF s, Goal
<1>5. CASE x.ok /\ PutRow(x, new) = [x EXCEPT !.rows = Append(@, new)]
  <2> DEFINE s == Append(x.rows, new)
  <2>1. /\ DOMAIN x.rows \subseteq DOMAIN s /\ \A j \in DOMAIN x.rows : s[j] = x.rows[j]
        /\ Len(x.rows) + 1 \in DOMAIN s /\ s[Len(x.rows) + 1] = new
    <3>1. x.rows \in Seq(R) /\ new \in R BY <1>1 DEF R
    <3> QED BY <3>1
  <2>2. PutRow(x, new).rows = s BY <1>1, <1>5
  <2> HIDE DEF s
  <2>4. Showing(s, new.name, K) BY <2>1 DEF Showing
  <2>5. \A n : Showing(x.rows, n, K) => Showing(s, n, K) BY <2>1 DEF Showing
  <2> QED BY <1>5, <2>2, <2>4, <2>5 DEF Goal
<1>6. \/ ~x.ok /\ PutRow(x, new) = x
      \/ PutRow(x, new) = [x EXCEPT !.ok = FALSE]
      \/ /\ x.ok
         /\ \E i \in DOMAIN x.rows :
              /\ x.rows[i].ref = new.ref \/ x.rows[i].key = new.key
              /\ PutRow(x, new) = [x EXCEPT !.rows[i] = Merged(@, new)]
      \/ x.ok /\ PutRow(x, new) = [x EXCEPT !.rows = Append(@, new)]
  BY PutCases
<1> QED BY <1>3, <1>4, <1>5, <1>6

LEMMA PutsShow ==
  ASSUME NEW N, NEW H, NEW F, NEW T, NEW V, Exact(N, F), NEW x \in Tables(GoodRows(N, H, F, T), V),
         NEW items \in Seq(GoodRows(N, H, F, T)), \A n \in DOMAIN items : items[n].status = "active",
         Batch(x, Puts(items)).ok
  PROVE  \A n \in DOMAIN items : Showing(Batch(x, Puts(items)).rows, items[n].name, Refs(items))
<1> DEFINE R == GoodRows(N, H, F, T)
           K == Refs(items)
           Have(y, n) == y.ok => \A m \in 1..n : Showing(y.rows, items[m].name, K)
           G == [n \in 0..Len(items) |-> {y \in Tables(R, V) : Have(y, n)}]
<1>a. Len(items) \in Nat /\ DOMAIN items = 1..Len(items) OBVIOUS
<1>b. \A n \in 0..Len(items) : \A y : y \in G[n] <=> y \in Tables(R, V) /\ Have(y, n) BY <1>a
<1>c. \A y : Have(y, 0) OBVIOUS
<1>1. x \in G[0] BY <1>a, <1>b, <1>c
<1>2. PICK S : Puts(items) \in Seq(S) BY PutStatements
<1>3. Len(Puts(items)) = Len(items) BY PutStatements
<1>4. ASSUME NEW n \in 1..Len(items), NEW y \in G[n - 1] PROVE Apply(y, Puts(items)[n]) \in G[n]
  <2>1. items[n] \in R /\ items[n].status = "active" BY <1>a
  <2>2. Puts(items)[n] = [do |-> "put", row |-> items[n]] BY PutStatements
  <2>3. Apply(y, Puts(items)[n]) = PutRow(y, items[n]) BY <2>2, Applied
  <2>a. n - 1 \in 0..Len(items) /\ n \in 0..Len(items) BY <1>a
  <2>4. y \in Tables(R, V) /\ Have(y, n - 1) BY <1>b, <2>a
  <2>5. PutRow(y, items[n]) \in Tables(R, V) BY <2>1, <2>4, PutGood
  <2>6. items[n].ref \in K BY <1>a DEF Refs
  <2>7. ASSUME PutRow(y, items[n]).ok
        PROVE  \A m \in 1..n : Showing(PutRow(y, items[n]).rows, items[m].name, K)
    <3>1. /\ y.ok /\ Showing(PutRow(y, items[n]).rows, items[n].name, K)
          /\ \A m : Showing(y.rows, m, K) => Showing(PutRow(y, items[n]).rows, m, K)
      <4> HIDE DEF K
      <4> QED BY <2>1, <2>4, <2>6, <2>7, PutShows
    <3>2. \A m \in 1..(n - 1) : Showing(y.rows, items[m].name, K) BY <2>4, <3>1
    <3>3. \A m \in 1..n : m = n \/ m \in 1..(n - 1) OBVIOUS
    <3> HIDE DEF K
    <3> QED BY <3>1, <3>2, <3>3
  <2>8. Have(PutRow(y, items[n]), n) BY <2>7
  <2> HIDE DEF G, R, K, Have
  <2> QED BY <1>b, <2>a, <2>3, <2>5, <2>8
<1> HIDE DEF G
<1>5. Batch(x, Puts(items)) \in G[Len(items)] BY <1>1, <1>2, <1>3, <1>4, BatchIn
<1>6. Have(Batch(x, Puts(items)), Len(items))
  <2> HIDE DEF Have, R
  <2> QED BY <1>a, <1>b, <1>5
<1> QED BY <1>a, <1>6

LEMMA InheritsShow ==
  ASSUME NEW N, NEW P, NEW H, NEW F, NEW T, NEW U, Sorts(N, F), \A h \in H : T[h] \in N,
         NEW x \in Tables(GoodRows(N, H, F, T), GoodVols(P, H, T, U)),
         NEW items \in Seq(GoodRows(N, H, F, T)), NEW nm, Showing(x.rows, nm, Refs(items))
  PROVE  Showing(Batch(x, Inherits(x.rows, items)).rows, nm, Refs(items))
<1> DEFINE R == GoodRows(N, H, F, T)
           V == GoodVols(P, H, T, U)
           K == Refs(items)
           G == {y \in Tables(R, V) : DOMAIN y.rows = DOMAIN x.rows /\ Showing(y.rows, nm, K)}
<1>1. x \in G OBVIOUS
<1>a. x.rows \in Seq(R) BY DEF Tables
<1>2. PICK S : Inherits(x.rows, items) \in Seq(S) BY <1>a, InheritStatements
<1>3. ASSUME NEW n \in 1..Len(Inherits(x.rows, items)), NEW y \in G
      PROVE  Apply(y, Inherits(x.rows, items)[n]) \in G
  <2>1. n \in 1..Len(x.rows) BY <1>a, InheritStatements
  <2>2. Inherits(x.rows, items)[n] = [do |-> "inherit", of |-> n, items |-> items]
    BY <1>a, <2>1, InheritStatements
  <2>3. Apply(y, Inherits(x.rows, items)[n]) = Inherit(y, n, items) BY <2>2, Applied
  <2>4. y \in Tables(R, V) /\ DOMAIN y.rows = DOMAIN x.rows /\ Showing(y.rows, nm, K) OBVIOUS
  <2>5. n \in DOMAIN y.rows BY <1>a, <2>1, <2>4
  <2>6. Inherit(y, n, items) \in Tables(R, V) /\ DOMAIN Inherit(y, n, items).rows = DOMAIN y.rows
    BY <2>4, <2>5, InheritGood
  <2>7. Showing(Inherit(y, n, items).rows, nm, K)
    <3>1. CASE Inherit(y, n, items) = y BY <2>4, <3>1
    <3>2. ASSUME NEW h, y.rows[n].ref \notin K, Inherit(y, n, items) = Left(y, n, h)
          PROVE  Showing(Inherit(y, n, items).rows, nm, K)
      <4>1. y \in [rows : Seq(R), vols : SUBSET V, ok : BOOLEAN] BY <2>4 DEF Tables
      <4>2. PICK j \in DOMAIN y.rows : y.rows[j].status = "active" /\ y.rows[j].name = nm /\ y.rows[j].ref \in K
        BY <2>4 DEF Showing
      <4>3. y.rows[j] \in R /\ j # n BY <3>2, <4>1, <4>2
      <4> DEFINE s == Inherit(y, n, items).rows
                 r == y.rows[j]
      <4>a. s = LeftRows(y.rows, n, h) BY <3>2, <4>1 DEF Left, Chased
      <4>4. DOMAIN s = DOMAIN y.rows /\ s[j] \in {r, [r EXCEPT !.meta = y.rows[n].meta]}
        BY <4>a, <4>3 DEF LeftRows
      <4>5. s[j].status = r.status /\ s[j].name = r.name /\ s[j].ref = r.ref
        BY <4>3, <4>4 DEF R, GoodRows, RowSet
      <4> HIDE DEF s
      <4> QED BY <4>2, <4>4, <4>5 DEF Showing, s
    <3>3. \/ Inherit(y, n, items) = y
          \/ \E m \in DOMAIN items :
               /\ items[m].name = y.rows[n].name /\ y.rows[n].ref \notin Refs(items)
               /\ Inherit(y, n, items) = Left(y, n, items[m].ref)
      BY InheritCases
    <3> QED BY <3>1, <3>2, <3>3
  <2> HIDE DEF R, V, K
  <2> QED BY <2>3, <2>4, <2>6, <2>7
<1> HIDE DEF G
<1>4. Batch(x, Inherits(x.rows, items)) \in G BY <1>1, <1>2, <1>3, BatchStays
<1> QED BY <1>4 DEF G

LEMMA UpsertedShows ==
  ASSUME NEW N, NEW P, NEW H, NEW F, NEW T, NEW U, Exact(N, F), \A h \in H : T[h] \in N,
         rows \in Seq(GoodRows(N, H, F, T)), vols \in SUBSET GoodVols(P, H, T, U),
         NEW items \in Seq(GoodRows(N, H, F, T)), \A n \in DOMAIN items : items[n].status = "active",
         Upserted(items).ok
  PROVE  \A n \in DOMAIN items : Showing(Upserted(items).rows, items[n].name, Refs(items))
<1> DEFINE R == GoodRows(N, H, F, T)
           V == GoodVols(P, H, T, U)
           x == [rows |-> rows, vols |-> vols, ok |-> TRUE]
           put == Batch(x, Puts(items))
           left == Batch(put, Inherits(put.rows, items))
           all == Batch(left, Chases(items))
<1>0. Sorts(N, F) BY DEF Exact, Sorts
<1>1. x \in Tables(R, V) BY DEF Tables
<1>2. x.rows = rows OBVIOUS
<1>4. Upserted(items) = IF all.ok THEN all ELSE [x EXCEPT !.ok = FALSE] BY DEF Upserted
<1>5. all.ok /\ Upserted(items) = all BY <1>4
<1> HIDE DEF x
<1>3. put \in Tables(R, V) BY <1>1, PutsGood
<1>6. put.ok => \A n \in DOMAIN items : Showing(put.rows, items[n].name, Refs(items)) BY <1>1, PutsShow
<1> HIDE DEF put
<1>7. left \in Tables(R, V) /\ (left.ok => put.ok) BY <1>0, <1>3, InheritsGood
<1>8. \A n : Showing(put.rows, n, Refs(items)) => Showing(left.rows, n, Refs(items))
  BY <1>0, <1>3, InheritsShow
<1> HIDE DEF left
<1>9. all.rows = left.rows /\ (all.ok => left.ok) BY <1>0, <1>7, ChasesGood
<1> HIDE DEF all
<1> QED BY <1>5, <1>6, <1>7, <1>8, <1>9

(* No operation renames a file. *)
NoRename == \A o \in Ops : Kind(o) # "rename"

Near == {Item(k) : k \in {j \in There : cloud[j].deep = FALSE}}
All == {Item(k) : k \in There}
AllRefs == {Ref(k) : k \in There}
Syncing == {"deep", "index", "prune"}
Unmoved == cloud' = cloud /\ session' = session /\ rows' = rows

(* What a sync that nothing disturbed has listed, and what its batch left. *)
CalmOK(o) ==
  calm[o] /\ at[o] \in Syncing =>
    /\ at[o] = "deep" => Range(seen[o]) = Near
    /\ at[o] # "deep" /\ Kind(o) # "diff" => Range(seen[o]) = All
    /\ at[o] = "prune" /\ Kind(o) # "diff" => \A k \in There : Showing(rows, cloud[k].name, AllRefs)

LEMMA SyncsMove ==
  ASSUME NEW o \in Ops, LocalOK, Work(o)
  PROVE  at'[o] \in Syncing => SyncLists(o) \/ SyncListsDeep(o) \/ SyncIndexes(o)
<1> USE DEF LocalOK, Syncing, Go, Then, Raise, Sync
<1>1. CASE Submit(o) BY <1>1 DEF Submit
<1>2. CASE Fails(o) BY <1>2 DEF Fails, Busy
<1>3. CASE Pauses(o) BY <1>3 DEF Pauses
<1>4. CASE Resumes(o) BY <1>4 DEF Resumes
<1>5. CASE SyncStarts(o) BY <1>5 DEF SyncStarts
<1>6. CASE SyncLists(o) BY <1>6
<1>7. CASE SyncListsDeep(o) BY <1>7
<1>8. CASE SyncIndexes(o) BY <1>8
<1>9. CASE SyncPrunes(o) BY <1>9 DEF SyncPrunes
<1>10. CASE SyncEnds(o) BY <1>10 DEF SyncEnds
<1>11. CASE SyncFailed(o) BY <1>11 DEF SyncFailed
<1>12. CASE UploadBegins(o) BY <1>12 DEF UploadBegins
<1>13. CASE UploadKeeps(o) BY <1>13 DEF UploadKeeps
<1>14. CASE ConvertBegins(o) BY <1>14 DEF ConvertBegins
<1>15. CASE Downloads(o) BY <1>15 DEF Downloads
<1>16. CASE Splits(o) BY <1>16 DEF Splits
<1>17. CASE PartStarts(o) BY <1>17 DEF PartStarts
<1>18. CASE Sends(o)
  <2>1. CASE todo[o] # {} /\ Then(o, "mark") BY <2>1
  <2>2. CASE todo[o] = {} /\ Kind(o) = "rename" /\ Then(o, "delete") BY <2>2
  <2>3. CASE Sync(o, "final") BY <2>3
  <2>4. CASE Raise(o) BY <2>4
  <2> QED BY ONLY <1>18, <2>1, <2>2, <2>3, <2>4 DEF Sends
<1>19. CASE PartEnds(o) BY <1>19 DEF PartEnds
<1>20. CASE Stamps(o) BY <1>20 DEF Stamps
<1>21. CASE DeleteBegins(o) BY <1>21 DEF DeleteBegins
<1>22. CASE Deletes(o) BY <1>22 DEF Deletes
<1>23. CASE FindsNothing(o) BY <1>23 DEF FindsNothing
<1>24. CASE Forgets(o) BY <1>24 DEF Forgets
<1>25. CASE RenameBegins(o) BY <1>25 DEF RenameBegins
<1>26. CASE RenamesRow(o) BY <1>26 DEF RenamesRow
<1>27. CASE Moves(o) BY <1>27 DEF Moves
<1>28. CASE FolderBegins(o) BY <1>28 DEF FolderBegins
<1>29. CASE SyncBegins(o) BY <1>29 DEF SyncBegins
<1>30. CASE Reads(o) BY <1>30 DEF Reads
<1> QED BY <1>1, <1>2, <1>3, <1>4, <1>5, <1>6, <1>7, <1>8, <1>9, <1>10, <1>11, <1>12, <1>13, <1>14, <1>15, <1>16, <1>17, <1>18, <1>19, <1>20, <1>21, <1>22, <1>23, <1>24, <1>25, <1>26, <1>27, <1>28, <1>29, <1>30 DEF Work

(* A step that changes the cloud, the session or the rows disturbs the syncs
   of the others, and what the last full sync left. *)
LEMMA WorkDisturbs ==
  ASSUME NEW o \in Ops, LocalOK, Work(o)
  PROVE  /\ \A p \in Ops \ {o} : calm'[p] => calm[p] /\ Unmoved
         /\ clean' => (clean /\ Unmoved) \/ SyncPrunes(o)
<1> USE DEF LocalOK, Unmoved, handles, table, Disturb, DisturbOthers, Quiet
<1>1. CASE Submit(o) BY <1>1 DEF Submit
<1>2. CASE Fails(o) BY <1>2 DEF Fails
<1>3. CASE Pauses(o) BY <1>3 DEF Pauses
<1>4. CASE Resumes(o) BY <1>4 DEF Resumes
<1>5. CASE SyncStarts(o) BY <1>5 DEF SyncStarts
<1>6. CASE SyncLists(o) BY <1>6 DEF SyncLists
<1>7. CASE SyncListsDeep(o) BY <1>7 DEF SyncListsDeep
<1>8. CASE SyncIndexes(o) BY <1>8 DEF SyncIndexes
<1>9. CASE SyncPrunes(o) BY <1>9 DEF SyncPrunes
<1>10. CASE SyncEnds(o) BY <1>10 DEF SyncEnds
<1>11. CASE SyncFailed(o) BY <1>11 DEF SyncFailed
<1>12. CASE UploadBegins(o) BY <1>12 DEF UploadBegins
<1>13. CASE UploadKeeps(o) BY <1>13 DEF UploadKeeps
<1>14. CASE ConvertBegins(o) BY <1>14 DEF ConvertBegins
<1>15. CASE Downloads(o) BY <1>15 DEF Downloads
<1>16. CASE Splits(o) BY <1>16 DEF Splits
<1>17. CASE PartStarts(o) BY <1>17 DEF PartStarts
<1>18. CASE Sends(o)
  <2>1. Disturb BY <1>18 DEF Sends, Stored
  <2> QED BY <2>1
<1>19. CASE PartEnds(o) BY <1>19 DEF PartEnds
<1>20. CASE Stamps(o) BY <1>20 DEF Stamps
<1>21. CASE DeleteBegins(o) BY <1>21 DEF DeleteBegins
<1>22. CASE Deletes(o) BY <1>22 DEF Deletes
<1>23. CASE FindsNothing(o) BY <1>23 DEF FindsNothing
<1>24. CASE Forgets(o) BY <1>24 DEF Forgets
<1>25. CASE RenameBegins(o) BY <1>25 DEF RenameBegins
<1>26. CASE RenamesRow(o) BY <1>26 DEF RenamesRow
<1>27. CASE Moves(o) BY <1>27 DEF Moves
<1>28. CASE FolderBegins(o) BY <1>28 DEF FolderBegins
<1>29. CASE SyncBegins(o) BY <1>29 DEF SyncBegins
<1>30. CASE Reads(o) BY <1>30 DEF Reads
<1> QED BY <1>1, <1>2, <1>3, <1>4, <1>5, <1>6, <1>7, <1>8, <1>9, <1>10, <1>11, <1>12, <1>13, <1>14, <1>15, <1>16, <1>17, <1>18, <1>19, <1>20, <1>21, <1>22, <1>23, <1>24, <1>25, <1>26, <1>27, <1>28, <1>29, <1>30 DEF Work

LEMMA CalmStays ==
  ASSUME NEW p \in Ops, plan' = plan, SameAt(p), calm'[p] => calm[p] /\ Unmoved, CalmOK(p)
  PROVE  CalmOK(p)'
<1> SUFFICES ASSUME calm'[p], at'[p] \in Syncing
             PROVE  /\ at'[p] = "deep" => Range(seen'[p]) = Near'
                    /\ at'[p] # "deep" /\ Kind(p)' # "diff" => Range(seen'[p]) = All'
                    /\ at'[p] = "prune" /\ Kind(p)' # "diff" =>
                         \A k \in There' : Showing(rows', cloud'[k].name, AllRefs')
  BY DEF CalmOK
<1>1. Near' = Near /\ All' = All /\ AllRefs' = AllRefs /\ There' = There /\ rows' = rows /\ cloud' = cloud
  BY DEF Near, All, AllRefs, Unmoved, There, Item, Ref
<1>2. at'[p] = at[p] /\ seen'[p] = seen[p] /\ Kind(p)' = Kind(p) BY DEF SameAt, Kind
<1> HIDE DEF There
<1> QED BY <1>1, <1>2 DEF CalmOK

LEMMA ListedNear ==
  ASSUME Base, NEW o \in Ops, SyncLists(o)
  PROVE  CalmOK(o)'
<1>1. PICK s \in Listing(FALSE) : seen' = [seen EXCEPT ![o] = s] BY DEF SyncLists
<1>2. Range(s) = Near BY <1>1, ListingGood DEF Base, Near
<1>3. LocalOK BY DEF Base
<1>4. seen'[o] = s /\ at'[o] \in {"deep", "index"} /\ (at'[o] = "index" => Kind(o) = "diff")
  BY <1>1, <1>3 DEF SyncLists, Go, LocalOK
<1>5. Near' = Near /\ Kind(o)' = Kind(o) BY DEF SyncLists, handles, Near, There, Item, Ref, Kind
<1> QED BY <1>2, <1>4, <1>5 DEF CalmOK

LEMMA ListedAll ==
  ASSUME Base, NEW o \in Ops, SyncListsDeep(o), CalmOK(o)
  PROVE  CalmOK(o)'
<1>a. WorldOK /\ LocalOK /\ SeenOK(o) BY DEF Base
<1>1. PICK s \in Listing(TRUE) : seen' = [seen EXCEPT ![o] = @ \o s] BY DEF SyncListsDeep
<1> DEFINE I == ItemSet(Names, Handles, Titles)
<1>2. s \in Seq(I) /\ Range(s) = {Item(k) : k \in {j \in There : cloud[j].deep = TRUE}}
  BY <1>a, <1>1, ListingGood
<1>3. seen[o] \in Seq(I) BY <1>a DEF SeenOK
<1>4. at[o] = "deep" /\ at'[o] = "index" /\ calm' = calm /\ seen'[o] = seen[o] \o s
  BY <1>a, <1>1 DEF SyncListsDeep, Go, LocalOK, Quiet
<1> HIDE DEF I
<1>5. \A q \in Seq(I) : \A r \in Seq(I) : Range(q \o r) = Range(q) \cup Range(r)
  <2>1. ASSUME NEW q \in Seq(I), NEW r \in Seq(I) PROVE Range(q \o r) = Range(q) \cup Range(r)
    <3> DEFINE c == q \o r
    <3>1. /\ DOMAIN q = 1..Len(q) /\ DOMAIN r = 1..Len(r) /\ DOMAIN c = 1..(Len(q) + Len(r))
          /\ Len(q) \in Nat /\ Len(r) \in Nat
      OBVIOUS
    <3>2. \A i \in 1..Len(q) : c[i] = q[i] OBVIOUS
    <3>3. \A i \in 1..Len(r) : c[Len(q) + i] = r[i] OBVIOUS
    <3>4. \A i \in DOMAIN c : i \in 1..Len(q) \/ i - Len(q) \in 1..Len(r) BY <3>1
    <3>5. \A i \in DOMAIN c : i - Len(q) \in 1..Len(r) => c[i] = r[i - Len(q)]
      <4>1. ASSUME NEW i \in DOMAIN c, i - Len(q) \in 1..Len(r) PROVE c[i] = r[i - Len(q)]
        <5>1. Len(q) + (i - Len(q)) = i BY <3>1
        <5>2. c[Len(q) + (i - Len(q))] = r[i - Len(q)] BY <3>3, <4>1
        <5> QED BY <5>1, <5>2
      <4> QED BY <4>1
    <3>6. \A i \in 1..Len(q) : i \in DOMAIN c BY <3>1
    <3>7. \A i \in 1..Len(r) : Len(q) + i \in DOMAIN c BY <3>1
    <3> HIDE DEF c
    <3>8. Range(c) \subseteq Range(q) \cup Range(r) BY <3>1, <3>2, <3>4, <3>5 DEF Range
    <3>9. Range(q) \subseteq Range(c) BY <3>1, <3>2, <3>6 DEF Range
    <3>10. Range(r) \subseteq Range(c) BY <3>1, <3>3, <3>7 DEF Range
    <3> QED BY <3>8, <3>9, <3>10 DEF c
  <2> QED BY <2>1
<1>6. \A k \in There : cloud[k].deep \in BOOLEAN BY <1>a, CopyIs DEF Copies
<1>7. calm[o] => Range(seen'[o]) = All
  <2>1. calm[o] => Range(seen[o]) = Near BY <1>4 DEF CalmOK, Syncing
  <2>2. Range(seen'[o]) = Range(seen[o]) \cup Range(s) BY <1>2, <1>3, <1>4, <1>5
  <2> QED BY <1>2, <1>6, <2>1, <2>2 DEF All, Near
<1>8. All' = All BY DEF SyncListsDeep, handles, All, There, Item, Ref
<1> QED BY <1>4, <1>7, <1>8 DEF CalmOK

LEMMA NamesExact == Exact(Names, ByName) BY DEF Exact, ByName

LEMMA IndexedCalm ==
  ASSUME Base, TableOK(ByName, PartNames), NEW o \in Ops, SyncIndexes(o), CalmOK(o)
  PROVE  CalmOK(o)'
<1>a. WorldOK /\ LocalOK /\ SeenOK(o) BY DEF Base
<1>b. /\ plan' = plan /\ cloud' = cloud /\ session' = session
  BY DEF SyncIndexes, handles
<1>c. There' = There /\ All' = All /\ AllRefs' = AllRefs /\ Kind(o)' = Kind(o)
  BY <1>b DEF There, All, AllRefs, Item, Ref, Kind
<1> DEFINE x == Upserted(seen[o])
<1>d. /\ at[o] = "index"
      /\ IF x.ok THEN Then(o, "prune") /\ rows' = x.rows /\ DisturbOthers(o) ELSE Then(o, "unsynced")
  BY DEF SyncIndexes
<1>e. /\ x.ok => at'[o] = "prune" /\ seen' = seen /\ rows' = x.rows /\ (calm'[o] => calm[o])
      /\ ~x.ok => at'[o] = "unsynced"
  <2> HIDE DEF x
  <2> QED BY <1>a, <1>d DEF Then, Go, DisturbOthers, LocalOK
<1>1. CASE x.ok
  <2>1. /\ at[o] = "index" /\ at'[o] = "prune" /\ seen' = seen /\ rows' = x.rows /\ (calm'[o] => calm[o])
    BY <1>d, <1>e, <1>1
  <2>2. seen[o] \in Seq(ItemSet(Names, Handles, Titles)) BY <1>a DEF SeenOK
  <2>3. \A n \in DOMAIN seen[o] : seen[o][n] \in ItemSet(Names, Handles, Titles) BY <2>2
  <2>4. seen[o] \in Seq(GoodRows(Names, Handles, ByName, Titles))
    <3>1. ItemSet(Names, Handles, Titles) \subseteq GoodRows(Names, Handles, ByName, Titles)
      BY DEF ItemSet, GoodRows
    <3> QED BY <2>2, <3>1, SeqGrows
  <2>5. \A n \in DOMAIN seen[o] : seen[o][n].status = "active" BY <2>3 DEF ItemSet
  <2>6. rows \in Seq(GoodRows(Names, Handles, ByName, Titles))
        /\ vols \in SUBSET GoodVols(PartNames, Handles, Titles, PartNames)
    BY DEF TableOK
  <2>7. \A h \in Handles : Titles[h] \in Names BY <1>a, TitlesIn
  <2>8. \A n \in DOMAIN seen[o] : Showing(x.rows, seen[o][n].name, Refs(seen[o]))
    BY <1>1, <2>4, <2>5, <2>6, <2>7, NamesExact, UpsertedShows
  <2> HIDE DEF x
  <2>9. ASSUME calm[o], Kind(o) # "diff"
        PROVE  Range(seen[o]) = All /\ \A k \in There : Showing(rows', cloud[k].name, AllRefs)
    <3>1. Range(seen[o]) = All BY <2>1, <2>9 DEF CalmOK, Syncing
    <3>2. Refs(seen[o]) = {it.ref : it \in Range(seen[o])} BY DEF Refs, Range
    <3>3. \A k \in There : Item(k).ref = Ref(k) /\ Item(k).name = cloud[k].name BY DEF Item, Row
    <3>4. Refs(seen[o]) = AllRefs BY <3>1, <3>2, <3>3 DEF All, AllRefs
    <3>5. ASSUME NEW k \in There PROVE Showing(rows', cloud[k].name, AllRefs)
      <4>1. Item(k) \in Range(seen[o]) BY <3>1 DEF All
      <4>2. PICK n \in DOMAIN seen[o] : seen[o][n] = Item(k) BY <4>1 DEF Range
      <4> QED BY <2>1, <2>8, <3>3, <3>4, <4>2
    <3> QED BY <3>1, <3>5
  <2> HIDE DEF There, All, AllRefs
  <2> QED BY <1>b, <1>c, <2>1, <2>9 DEF CalmOK
<1>2. CASE ~x.ok
  <2>1. at'[o] = "unsynced" BY <1>e, <1>2
  <2> QED BY <2>1 DEF CalmOK, Syncing
<1> QED BY <1>1, <1>2

LEMMA PrunedSettles ==
  ASSUME Base, NEW o \in Ops, SyncPrunes(o), CalmOK(o), clean'
  PROVE  Settled'
<1>1. /\ at[o] = "prune" /\ calm[o] /\ Kind(o) # "diff" /\ cloud' = cloud /\ session' = session
      /\ rows' = Pruned({it.ref : it \in Range(seen[o])})
  BY DEF SyncPrunes, handles
<1>2. Range(seen[o]) = All /\ \A k \in There : Showing(rows, cloud[k].name, AllRefs)
  BY <1>1 DEF CalmOK, Syncing
<1>3. \A k \in There : Item(k).ref = Ref(k) BY DEF Item, Row
<1>4. {it.ref : it \in Range(seen[o])} = AllRefs BY <1>2, <1>3 DEF All, AllRefs
<1>5. rows' = Pruned(AllRefs) BY <1>1, <1>4
<1>6. There' = There /\ \A k : Ref(k)' = Ref(k) BY <1>1 DEF There, Ref
<1>7. DOMAIN rows' = DOMAIN rows /\ \A i \in DOMAIN rows : rows[i].ref \in AllRefs => rows'[i] = rows[i]
  BY <1>5 DEF Pruned
<1>8. ASSUME NEW k \in There
      PROVE  \E i \in DOMAIN rows' : rows'[i].status = "active" /\ rows'[i].name = cloud[k].name
  <2>1. PICK i \in DOMAIN rows : rows[i].status = "active" /\ rows[i].name = cloud[k].name /\ rows[i].ref \in AllRefs
    BY <1>2 DEF Showing
  <2> QED BY <1>7, <2>1
<1>9. ASSUME NEW i \in DOMAIN rows', rows'[i].status = "active", rows'[i].meta = "plain"
      PROVE  \E k \in There : rows'[i].ref = Ref(k)
  <2>1. i \in DOMAIN rows /\ rows'[i] = Pruned(AllRefs)[i] BY <1>5, <1>7
  <2>2. Pruned(AllRefs)[i] = IF Live(i) /\ rows[i].ref \notin AllRefs /\ rows[i].meta = "plain"
                             THEN [rows[i] EXCEPT !.status = "deleted"] ELSE rows[i]
    BY <2>1 DEF Pruned
  <2>3. CASE Live(i) /\ rows[i].ref \notin AllRefs /\ rows[i].meta = "plain"
    <3>1. rows'[i] = [rows[i] EXCEPT !.status = "deleted"] BY <2>1, <2>2, <2>3
    <3>2. rows[i] \in GoodRows(Names, Handles, ByContent, Titles) BY <2>1 DEF Base, TableOK
    <3>3. [rows[i] EXCEPT !.status = "deleted"].status = "deleted" BY <3>2 DEF GoodRows, RowSet
    <3> QED BY <1>9, <3>1, <3>3
  <2>4. CASE ~(Live(i) /\ rows[i].ref \notin AllRefs /\ rows[i].meta = "plain")
    <3>1. rows'[i] = rows[i] BY <2>1, <2>2, <2>4
    <3>2. rows[i].ref \in AllRefs BY <1>9, <2>4, <3>1 DEF Live
    <3> QED BY <3>1, <3>2 DEF AllRefs
  <2> QED BY <2>3, <2>4
<1> HIDE DEF There
<1> QED BY <1>1, <1>6, <1>8, <1>9 DEF Settled, Live

Tidy == Base /\ TableOK(ByName, PartNames) /\ (\A o \in Ops : CalmOK(o)) /\ Settled

LEMMA NextTidy ==
  ASSUME Tidy, NoRename, [Next]_vars
  PROVE  Tidy'
<1>a. Base /\ LocalOK /\ TableOK(ByName, PartNames) /\ (\A o \in Ops : CalmOK(o)) /\ Settled
  BY DEF Tidy, Base
<1>1. Base' /\ Grow BY <1>a, NextBase
<1>2. plan' = plan BY SamePlan
<1>3. TableOK(ByName, PartNames)'
  <2>1. WorldOK' BY <1>1 DEF Base
  <2>2. \A o \in Ops : RenamesRow(o) => ByName[Renamed(Of(o))] = ByName[rows[target[o]].name]
    BY <1>a DEF RenamesRow, Base, StageOK, NoRename
  <2>3. \A o \in Ops : PartEnds(o) => Next1(o) \in PartNames BY <1>a, EndedPart
  <2>4. /\ rows' \in Seq(GoodRows(Names, Handles', ByName, Titles'))
        /\ vols' \in SUBSET GoodVols(PartNames, Handles', Titles', PartNames)
    BY <1>a, <1>1, <2>1, <2>2, <2>3, NextTable, NameSorts
  <2>5. Names' = Names /\ PartNames' = PartNames BY <1>2 DEF Names, PartNames
  <2>6. ByName' = ByName BY <2>5 DEF ByName
  <2> QED BY <2>4, <2>5, <2>6 DEF TableOK
<1> DEFINE Rest == (\A o \in Ops : CalmOK(o)') /\ Settled'
<1>b. SUFFICES Rest BY <1>1, <1>3 DEF Tidy
<1>c. ASSUME clean' => clean /\ Unmoved PROVE Settled'
  <2>1. Unmoved => (There' = There /\ \A k : Ref(k)' = Ref(k)) BY DEF Unmoved, There, Ref
  <2> HIDE DEF There
  <2> QED BY <1>a, <1>c, <2>1 DEF Settled, Live, Unmoved
<1>4. ASSUME NEW o \in Ops, Work(o) PROVE Rest
  <2>1. \A p \in Ops \ {o} : SameAt(p) BY <1>4, <1>a, WorkLocal
  <2>2. /\ \A p \in Ops \ {o} : calm'[p] => calm[p] /\ Unmoved
        /\ clean' => (clean /\ Unmoved) \/ SyncPrunes(o)
    BY <1>4, <1>a, WorkDisturbs
  <2>3. \A p \in Ops \ {o} : CalmOK(p)' BY <1>2, <1>a, <2>1, <2>2, CalmStays
  <2>4. CalmOK(o)'
    <3>1. at'[o] \in Syncing => SyncLists(o) \/ SyncListsDeep(o) \/ SyncIndexes(o)
      BY <1>4, <1>a, SyncsMove
    <3>2. CASE at'[o] \notin Syncing BY <3>2 DEF CalmOK, Syncing
    <3> QED BY <1>a, <3>1, <3>2, ListedNear, ListedAll, IndexedCalm
  <2>5. Settled'
    <3>1. CASE clean' => clean /\ Unmoved BY <1>c, <3>1
    <3>2. CASE clean' /\ SyncPrunes(o) BY <1>a, <3>2, PrunedSettles
    <3> QED BY <2>2, <3>1, <3>2
  <2> QED BY <2>3, <2>4, <2>5
<1>5. ASSUME local' = local, \A p \in Ops : calm'[p] => calm[p] /\ Unmoved, clean' => clean /\ Unmoved
      PROVE Rest
  <2>1. \A p \in Ops : SameAt(p) BY <1>5 DEF SameAt, local
  <2> QED BY <1>2, <1>a, <1>c, <1>5, <2>1, CalmStays
<1>6. ASSUME Crash PROVE Rest
  <2>1. Unmoved /\ clean' = clean BY <1>6 DEF Crash, Unmoved, handles, table, Quiet
  <2>2. ASSUME NEW o \in Ops PROVE CalmOK(o)'
    <3>1. at'[o] \notin Syncing BY <1>6 DEF Crash, Busy, Syncing
    <3> QED BY <3>1 DEF CalmOK, Syncing
  <2> QED BY <1>c, <2>1, <2>2
<1>7. ASSUME NewSession PROVE Rest BY <1>5, <1>7 DEF NewSession, Disturb
<1>8. ASSUME NEW c \in plan.contents, MemberUploads(c) PROVE Rest BY <1>5, <1>8 DEF MemberUploads, Stored, Disturb
<1>9. ASSUME NEW k \in DOMAIN cloud, MemberDeletes(k) PROVE Rest BY <1>5, <1>9 DEF MemberDeletes, Disturb
<1>10. ASSUME NEW k \in DOMAIN cloud, IndexEvent(k) PROVE Rest BY <1>5, <1>10 DEF IndexEvent, Disturb
<1>11. ASSUME UNCHANGED vars PROVE Rest BY <1>5, <1>11 DEF vars, local, handles, Unmoved
<1> HIDE DEF Rest
<1> QED BY <1>4, <1>6, <1>7, <1>8, <1>9, <1>10, <1>11 DEF Next

LEMMA InitTidy ==
  ASSUME Init
  PROVE  Tidy
<1>1. Base /\ TableOK(ByName, PartNames) BY InitBase, InitTable
<1>2. \A o \in Ops : CalmOK(o)
  <2>1. \A o \in Ops : calm[o] = FALSE BY DEF Init
  <2> QED BY <2>1 DEF CalmOK
<1>3. /\ plan.holds \in Seq(plan.contents) /\ Len(plan.holds) <= MaxCopies /\ MaxCopies \in Nat
      /\ Len(plan.holds) \in Nat
  BY <1>1, Scenario DEF Base
<1> DEFINE f(k) == File(Whole(plan.holds[k]), Whole(plan.holds[k]), FALSE, 0)
           r(k) == Row(<<k, 0>>, Whole(plan.holds[k]), "plain")
<1>4. /\ cloud = [k \in 1..MaxCopies |-> IF k <= Len(plan.holds) THEN f(k) ELSE Never]
      /\ rows = [k \in 1..Len(plan.holds) |-> r(k)] /\ session = 0
  BY DEF Init
<1>5. \A k : /\ f(k).on /\ f(k).name = Whole(plan.holds[k]) /\ r(k).name = Whole(plan.holds[k])
             /\ r(k).status = "active" /\ r(k).ref = <<k, 0>>
  BY DEF File, Row
<1>6. ~Never.on BY DEF Never
<1> HIDE DEF f, r
<1>7. There = 1..Len(plan.holds) BY <1>3, <1>4, <1>5, <1>6 DEF There
<1>8. \A k \in There : /\ k \in DOMAIN rows /\ rows[k].status = "active" /\ rows[k].name = cloud[k].name
                       /\ rows[k].ref = Ref(k)
  BY <1>3, <1>4, <1>5, <1>7 DEF Ref
<1>9. DOMAIN rows = There BY <1>4, <1>7
<1> HIDE DEF There
<1>10. Settled BY <1>8, <1>9 DEF Settled, Live
<1> QED BY <1>1, <1>2, <1>10 DEF Tidy

(* Settled, where no operation renames: after a full sync beside which
   nothing happened the index is the cloud. *)
THEOREM SettledAlways == Spec => [](NoRename => Settled)
<1>1. Init => (NoRename => Tidy) BY InitTidy
<1>2. (NoRename => Tidy) /\ [Next]_vars => (NoRename => Tidy)'
  <2> SUFFICES ASSUME NoRename', NoRename => Tidy, [Next]_vars PROVE Tidy' OBVIOUS
  <2>1. plan' = plan BY SamePlan
  <2>2. NoRename BY <2>1 DEF NoRename, Kind
  <2> QED BY <2>2, NextTidy
<1>3. (NoRename => Tidy) => (NoRename => Settled) BY DEF Tidy
<1> QED BY <1>1, <1>2, <1>3, PTL DEF Spec

-----------------------------------------------------------------------------
(* Types: no statement makes two rows of one handle, two live rows of one  *)
(* key, or two volumes of one part of a parent.                            *)

LEMMA PutHolds ==
  ASSUME NEW x, NEW new
  PROVE  \/ PutRow(x, new).rows = x.rows
         \/ \E i \in DOMAIN x.rows :
              /\ PutRow(x, new) = [x EXCEPT !.rows[i] = Merged(@, new)]
              /\ x.rows[i].ref = new.ref \/ \A j \in DOMAIN x.rows : x.rows[j].ref # new.ref
              /\ \/ x.rows[i].status = "active"
                 \/ \A j \in DOMAIN x.rows \ {i} : x.rows[j].status = "active" => x.rows[j].key # x.rows[i].key
         \/ /\ PutRow(x, new) = [x EXCEPT !.rows = Append(@, new)]
            /\ \A j \in DOMAIN x.rows : /\ x.rows[j].ref # new.ref
                                        /\ x.rows[j].status = "active" => x.rows[j].key # new.key
<1> DEFINE same == {i \in DOMAIN x.rows : x.rows[i].ref = new.ref}
           held(k) == {i \in DOMAIN x.rows : x.rows[i].status = "active" /\ x.rows[i].key = k}
           onto(i) == [x EXCEPT !.rows[i] = Merged(@, new)]
<1>1. CASE ~x.ok BY <1>1 DEF PutRow
<1>2. CASE x.ok /\ same # {}
  <2> DEFINE i == CHOOSE i \in same : TRUE
  <2>1. i \in same BY <1>2
  <2>2. PutRow(x, new) = IF held(x.rows[i].key) \subseteq {i} THEN onto(i) ELSE [x EXCEPT !.ok = FALSE]
    BY <1>2 DEF PutRow
  <2>3. CASE held(x.rows[i].key) \subseteq {i}
    <3> HIDE DEF i
    <3> QED BY <2>1, <2>2, <2>3
  <2>4. CASE ~(held(x.rows[i].key) \subseteq {i})
    <3>1. PutRow(x, new) = [x EXCEPT !.ok = FALSE] BY <2>2, <2>4
    <3> QED BY <3>1
  <2> QED BY <2>3, <2>4
<1>3. CASE x.ok /\ same = {} /\ held(new.key) # {}
  <2> DEFINE i == CHOOSE i \in held(new.key) : TRUE
  <2>1. i \in held(new.key) BY <1>3
  <2>2. PutRow(x, new) = onto(i) BY <1>3 DEF PutRow
  <2> HIDE DEF i
  <2> QED BY <1>3, <2>1, <2>2
<1>4. CASE x.ok /\ same = {} /\ held(new.key) = {}
  <2>1. PutRow(x, new) = [x EXCEPT !.rows = Append(@, new)] BY <1>4 DEF PutRow
  <2> QED BY <1>4, <2>1
<1> QED BY <1>1, <1>2, <1>3, <1>4

LEMMA PutDistinct ==
  ASSUME NEW N, NEW H, NEW F, NEW T, NEW V, NEW x \in Tables(GoodRows(N, H, F, T), V),
         NEW new \in GoodRows(N, H, F, T), Distinct(x.rows)
  PROVE  Distinct(PutRow(x, new).rows)
<1> DEFINE R == GoodRows(N, H, F, T)
<1>1. x \in [rows : Seq(R), vols : SUBSET V, ok : BOOLEAN] BY DEF Tables
<1>b. \A r \in R : /\ Merged(r, new).ref = new.ref /\ Merged(r, new).key = r.key
                   /\ Merged(r, new).status = "active"
  BY DEF GoodRows, RowSet, Merged
<1>a. new \in R OBVIOUS
<1> HIDE DEF R
<1>2. CASE PutRow(x, new).rows = x.rows BY <1>2
<1>3. CASE \E i \in DOMAIN x.rows :
              /\ PutRow(x, new) = [x EXCEPT !.rows[i] = Merged(@, new)]
              /\ x.rows[i].ref = new.ref \/ \A j \in DOMAIN x.rows : x.rows[j].ref # new.ref
              /\ \/ x.rows[i].status = "active"
                 \/ \A j \in DOMAIN x.rows \ {i} : x.rows[j].status = "active" => x.rows[j].key # x.rows[i].key
  <2> PICK i \in DOMAIN x.rows :
              /\ PutRow(x, new) = [x EXCEPT !.rows[i] = Merged(@, new)]
              /\ x.rows[i].ref = new.ref \/ \A j \in DOMAIN x.rows : x.rows[j].ref # new.ref
              /\ \/ x.rows[i].status = "active"
                 \/ \A j \in DOMAIN x.rows \ {i} : x.rows[j].status = "active" => x.rows[j].key # x.rows[i].key
    BY <1>3
  <2>1. x.rows[i] \in R BY <1>1
  <2> DEFINE m == Merged(x.rows[i], new)
             s == PutRow(x, new).rows
  <2>2. m.ref = new.ref /\ m.key = x.rows[i].key /\ m.status = "active" BY <1>b, <2>1
  <2>3. DOMAIN s = DOMAIN x.rows /\ \A j \in DOMAIN x.rows : s[j] = IF j = i THEN m ELSE x.rows[j]
    BY <1>1
  <2> HIDE DEF m, s
  <2>4. \A j \in DOMAIN x.rows : j # i => x.rows[j].ref # new.ref BY DEF Distinct
  <2>5. \A j \in DOMAIN x.rows : j # i /\ x.rows[j].status = "active" => x.rows[j].key # x.rows[i].key
    BY DEF Distinct
  <2>6. Distinct(s) BY <2>2, <2>3, <2>4, <2>5 DEF Distinct
  <2> QED BY <2>6 DEF s
<1>4. CASE /\ PutRow(x, new) = [x EXCEPT !.rows = Append(@, new)]
           /\ \A j \in DOMAIN x.rows : /\ x.rows[j].ref # new.ref
                                       /\ x.rows[j].status = "active" => x.rows[j].key # new.key
  <2> DEFINE s == Append(x.rows, new)
             l == Len(x.rows) + 1
  <2>1. /\ DOMAIN s = DOMAIN x.rows \cup {l} /\ l \notin DOMAIN x.rows
        /\ (\A j \in DOMAIN x.rows : s[j] = x.rows[j]) /\ s[l] = new
    <3>1. x.rows \in Seq(R) /\ new \in R BY <1>1, <1>a
    <3> QED BY <3>1
  <2>2. PutRow(x, new).rows = s BY <1>1, <1>4
  <2> HIDE DEF s, l
  <2>3. Distinct(s) BY <1>4, <2>1 DEF Distinct
  <2> QED BY <2>2, <2>3
<1> QED BY <1>2, <1>3, <1>4, PutHolds

LEMMA ChasedOne ==
  ASSUME NEW x, NEW R, NEW V, x \in Tables(R, V), NEW P, NEW H, V \subseteq VolSet(P, H), NEW old, NEW new \in H,
         OnePart(x.vols)
  PROVE  OnePart(Chased(x, old, new).vols)
<1> DEFINE mv(v) == [v EXCEPT !.parent = IF @ = old THEN new ELSE @]
<1>1. x \in [rows : Seq(R), vols : SUBSET V, ok : BOOLEAN] BY DEF Tables
<1>2. CASE Clash(x.vols, old, new)
  <2>1. Chased(x, old, new).vols = x.vols BY <1>2 DEF Chased
  <2> QED BY <2>1
<1>3. CASE ~Clash(x.vols, old, new)
  <2>1. Chased(x, old, new).vols = {mv(v) : v \in x.vols} BY <1>1, <1>3 DEF Chased, Moved
  <2>2. \A v \in x.vols : /\ mv(v).part = v.part /\ mv(v).parent = IF v.parent = old THEN new ELSE v.parent
                          /\ (v.parent # old \/ old = new => mv(v) = v)
    <3>1. \A v \in x.vols : v \in VolSet(P, H) BY <1>1
    <3> QED BY <3>1 DEF VolSet
  <2>3. ASSUME NEW v \in x.vols, NEW w \in x.vols, mv(v).parent = mv(w).parent, mv(v).part = mv(w).part
        PROVE  v = w
    <3>1. v.part = w.part BY <2>2, <2>3
    <3>2. \/ v.parent = w.parent
          \/ v.parent = old /\ w.parent = new /\ old # new
          \/ w.parent = old /\ v.parent = new /\ old # new
      <4> HIDE DEF mv
      <4> QED BY <2>2, <2>3
    <3>3. CASE v.parent = w.parent BY <3>1, <3>3 DEF OnePart
    <3> QED BY <1>3, <3>1, <3>2, <3>3 DEF Clash
  <2> HIDE DEF mv
  <2>4. OnePart({mv(v) : v \in x.vols}) BY <2>3 DEF OnePart
  <2> QED BY <2>1, <2>4
<1> QED BY <1>2, <1>3

Typed(x) == Distinct(x.rows) /\ OnePart(x.vols)

LEMMA PutTyped ==
  ASSUME NEW N, NEW H, NEW F, NEW T, NEW V, NEW x \in Tables(GoodRows(N, H, F, T), V),
         NEW new \in GoodRows(N, H, F, T), Typed(x)
  PROVE  Typed(PutRow(x, new))
<1>1. Distinct(PutRow(x, new).rows) BY PutDistinct DEF Typed
<1>2. PutRow(x, new).vols = x.vols
  <2>1. x \in [rows : Seq(GoodRows(N, H, F, T)), vols : SUBSET V, ok : BOOLEAN] BY DEF Tables
  <2> QED BY <2>1, PutCases
<1> QED BY <1>1, <1>2 DEF Typed

LEMMA InheritTyped ==
  ASSUME NEW N, NEW P, NEW H, NEW F, NEW T, NEW U, Sorts(N, F), \A h \in H : T[h] \in N,
         NEW x \in Tables(GoodRows(N, H, F, T), GoodVols(P, H, T, U)),
         NEW items \in Seq(GoodRows(N, H, F, T)), NEW i \in DOMAIN x.rows, Typed(x)
  PROVE  Typed(Inherit(x, i, items))
<1> DEFINE R == GoodRows(N, H, F, T)
           V == GoodVols(P, H, T, U)
<1>1. x \in [rows : Seq(R), vols : SUBSET V, ok : BOOLEAN] BY DEF Tables
<1>2. CASE Inherit(x, i, items) = x BY <1>2
<1>3. CASE \E n \in DOMAIN items : Inherit(x, i, items) = Left(x, i, items[n].ref)
  <2> PICK n \in DOMAIN items : Inherit(x, i, items) = Left(x, i, items[n].ref) BY <1>3
  <2> DEFINE h == items[n].ref
             s == LeftRows(x.rows, i, h)
             y == [x EXCEPT !.rows = s]
  <2>1. Inherit(x, i, items) = Chased(y, x.rows[i].ref, h) BY DEF Left
  <2>2. h \in H
    <3>1. items[n] \in R OBVIOUS
    <3> QED BY <3>1 DEF GoodRows, RowSet
  <2>3. y = [rows |-> s, vols |-> x.vols, ok |-> x.ok] BY <1>1
  <2>4. DOMAIN s = DOMAIN x.rows BY DEF LeftRows
  <2>5. ASSUME NEW j \in DOMAIN x.rows
        PROVE  s[j].ref = x.rows[j].ref /\ s[j].key = x.rows[j].key /\ (s[j].status = "active" => x.rows[j].status = "active")
    <3>1. x.rows[j] \in R BY <1>1
    <3>2. x.rows[j] \in RowSet(N, H) BY <3>1 DEF GoodRows
    <3>3. s[j] = IF j = i THEN [x.rows[j] EXCEPT !.status = "deleted"]
                 ELSE IF x.rows[j].ref = h THEN [x.rows[j] EXCEPT !.meta = x.rows[i].meta] ELSE x.rows[j]
      BY DEF LeftRows
    <3> HIDE DEF s, h
    <3> QED BY <3>2, <3>3 DEF RowSet
  <2> HIDE DEF s
  <2>6. Distinct(s) BY <2>4, <2>5 DEF Distinct, Typed
  <2>7. y.rows = s /\ y.vols = x.vols BY <2>3
  <2>8. y \in Tables({s[j] : j \in DOMAIN s}, V)
    <3>1. DOMAIN s = 1..Len(x.rows) /\ Len(x.rows) \in Nat BY <1>1, <2>4
    <3>2. s = [j \in 1..Len(x.rows) |-> s[j]] BY <3>1 DEF LeftRows, s
    <3>3. s \in Seq({s[j] : j \in DOMAIN s}) BY <3>1, <3>2
    <3> HIDE DEF V
    <3> QED BY <1>1, <2>3, <3>3 DEF Tables
  <2>9. V \subseteq VolSet(P, H) BY DEF GoodVols
  <2> HIDE DEF y, h, V
  <2>10. OnePart(Chased(y, x.rows[i].ref, h).vols) BY <2>2, <2>7, <2>8, <2>9, ChasedOne DEF Typed
  <2>11. Chased(y, x.rows[i].ref, h).rows = s BY <2>3, <2>7 DEF Chased, y
  <2> QED BY <2>1, <2>6, <2>10, <2>11 DEF Typed
<1>4. \/ Inherit(x, i, items) = x
      \/ \E n \in DOMAIN items : Inherit(x, i, items) = Left(x, i, items[n].ref)
  BY InheritCases
<1> QED BY <1>2, <1>3, <1>4

LEMMA UpsertedTyped ==
  ASSUME NEW N, NEW P, NEW H, NEW F, NEW T, NEW U, Sorts(N, F), \A h \in H : T[h] \in N,
         rows \in Seq(GoodRows(N, H, F, T)), vols \in SUBSET GoodVols(P, H, T, U),
         Distinct(rows), OnePart(vols), NEW items \in Seq(GoodRows(N, H, F, T))
  PROVE  Typed(Upserted(items))
<1> DEFINE R == GoodRows(N, H, F, T)
           V == GoodVols(P, H, T, U)
           x == [rows |-> rows, vols |-> vols, ok |-> TRUE]
           put == Batch(x, Puts(items))
           left == Batch(put, Inherits(put.rows, items))
           all == Batch(left, Chases(items))
<1>1. x \in Tables(R, V) /\ Typed(x) BY DEF Tables, Typed
<1>2. Typed([x EXCEPT !.ok = FALSE]) BY DEF Typed
<1>3. Upserted(items) = IF all.ok THEN all ELSE [x EXCEPT !.ok = FALSE] BY DEF Upserted
<1> HIDE DEF x
<1>4. put \in Tables(R, V) /\ Typed(put)
  <2> DEFINE G == {y \in Tables(R, V) : Typed(y)}
  <2>1. x \in G BY <1>1
  <2>2. PICK S : Puts(items) \in Seq(S) BY PutStatements
  <2>3. ASSUME NEW n \in 1..Len(Puts(items)), NEW y \in G PROVE Apply(y, Puts(items)[n]) \in G
    <3>1. n \in 1..Len(items) BY PutStatements
    <3>2. items[n] \in R BY <3>1
    <3>a. Puts(items)[n] = [do |-> "put", row |-> items[n]] BY <3>1, PutStatements
    <3>3. Apply(y, Puts(items)[n]) = PutRow(y, items[n]) BY <3>a, Applied
    <3>4. PutRow(y, items[n]) \in Tables(R, V) /\ Typed(PutRow(y, items[n])) BY <3>2, PutGood, PutTyped
    <3> HIDE DEF R, V
    <3> QED BY <3>3, <3>4
  <2> HIDE DEF G
  <2>4. put \in G BY <2>1, <2>2, <2>3, BatchStays
  <2> QED BY <2>4 DEF G
<1> HIDE DEF put
<1>5. left \in Tables(R, V) /\ Typed(left)
  <2> DEFINE G == {y \in Tables(R, V) : Typed(y) /\ DOMAIN y.rows = DOMAIN put.rows}
  <2>1. put \in G BY <1>4
  <2>a. put.rows \in Seq(R) BY <1>4 DEF Tables
  <2>2. PICK S : Inherits(put.rows, items) \in Seq(S) BY <2>a, InheritStatements
  <2>3. ASSUME NEW n \in 1..Len(Inherits(put.rows, items)), NEW y \in G
        PROVE  Apply(y, Inherits(put.rows, items)[n]) \in G
    <3>1. n \in 1..Len(put.rows) BY <2>a, InheritStatements
    <3>2. Inherits(put.rows, items)[n] = [do |-> "inherit", of |-> n, items |-> items]
      BY <2>a, <3>1, InheritStatements
    <3>3. Apply(y, Inherits(put.rows, items)[n]) = Inherit(y, n, items) BY <3>2, Applied
    <3>4. y \in Tables(R, V) /\ Typed(y) /\ DOMAIN y.rows = DOMAIN put.rows OBVIOUS
    <3>5. n \in DOMAIN y.rows BY <2>a, <3>1, <3>4
    <3>6. Inherit(y, n, items) \in Tables(R, V) /\ DOMAIN Inherit(y, n, items).rows = DOMAIN y.rows
      BY <3>4, <3>5, InheritGood
    <3>7. Typed(Inherit(y, n, items)) BY <3>4, <3>5, InheritTyped
    <3> HIDE DEF R, V
    <3> QED BY <3>3, <3>4, <3>6, <3>7
  <2> HIDE DEF G
  <2>4. left \in G BY <2>1, <2>2, <2>3, BatchStays
  <2> QED BY <2>4 DEF G
<1> HIDE DEF left
<1>6. Typed(all)
  <2> DEFINE G == {y \in Tables(R, V) : Typed(y)}
  <2>1. left \in G BY <1>5
  <2>2. PICK S : Chases(items) \in Seq(S) BY ChaseStatements
  <2>3. ASSUME NEW n \in 1..Len(Chases(items)), NEW y \in G PROVE Apply(y, Chases(items)[n]) \in G
    <3>1. n \in 1..Len(items) BY ChaseStatements
    <3> DEFINE it == items[n]
               old == HadRef(it)
    <3>2. it \in R BY <3>1
    <3>a. Chases(items)[n] = [do |-> "chase", from |-> old, to |-> it.ref] BY <3>1, ChaseStatements
    <3>3. Apply(y, Chases(items)[n]) = Chased(y, old, it.ref) BY <3>a, Applied
    <3>4. T[old][1] = T[it.ref][1] /\ it.ref \in H BY <3>2, HadIs
    <3>6. y \in Tables(R, V) /\ Typed(y) OBVIOUS
    <3>7. V \subseteq VolSet(P, H) BY DEF GoodVols
    <3> HIDE DEF old, it
    <3>8. Chased(y, old, it.ref) \in Tables(R, V) /\ Chased(y, old, it.ref).rows = y.rows
      BY <3>4, <3>6, ChasedGood
    <3>9. OnePart(Chased(y, old, it.ref).vols) BY <3>4, <3>6, <3>7, ChasedOne DEF Typed
    <3> HIDE DEF R, V
    <3> QED BY <3>3, <3>6, <3>8, <3>9 DEF Typed
  <2> HIDE DEF G
  <2>4. all \in G BY <2>1, <2>2, <2>3, BatchStays
  <2> QED BY <2>4 DEF G
<1> HIDE DEF all
<1> QED BY <1>2, <1>3, <1>6

LEMMA OnePartMapped ==
  ASSUME NEW vs, OnePart(vs), NEW ws, NEW f, DOMAIN f = vs, ws = {f[v] : v \in vs},
         \A v \in vs : f[v].parent = v.parent /\ f[v].part = v.part
  PROVE  OnePart(ws)
BY DEF OnePart

LEMMA OnePartLeft ==
  ASSUME vols \in SUBSET VolSet(PartNames, Handles), OnePart(vols)
  PROVE  /\ \A parent, c, z : OnePart(Inserted(parent, c, z))
         /\ \A parent, p, status, z : OnePart(UpdatedPart(parent, p, status, z))
         /\ \A parent : OnePart(Filled(parent))
<1>1. ASSUME NEW parent, NEW c, NEW z PROVE OnePart(Inserted(parent, c, z))
  <2> DEFINE had == {v \in vols : v.parent = parent}
             status(p) == IF \E v \in had : v.part = p /\ v.status = "uploaded" THEN "uploaded" ELSE "pending"
             ref(p) == IF \E v \in had : v.part = p THEN (CHOOSE v \in had : v.part = p).ref ELSE NoRef
             new(p) == [parent |-> parent, part |-> p, status |-> status(p), ref |-> ref(p), sha |-> z]
  <2>1. Inserted(parent, c, z) = (vols \ had) \cup {new(p) : p \in Parts(c)} BY DEF Inserted
  <2>2. \A p : new(p).parent = parent /\ new(p).part = p OBVIOUS
  <2>3. \A v \in vols \ had : v.parent # parent OBVIOUS
  <2> HIDE DEF new
  <2> QED BY <2>1, <2>2, <2>3 DEF OnePart
<1>2. ASSUME NEW parent, NEW p, NEW status, NEW z PROVE OnePart(UpdatedPart(parent, p, status, z))
  <2> DEFINE f == [v \in vols |->
                     IF v.parent = parent /\ v.part = p
                     THEN [v EXCEPT !.status = status, !.sha = IF status = "uploaded" THEN z ELSE @] ELSE v]
  <2>1. \A v \in vols : f[v].parent = v.parent /\ f[v].part = v.part BY DEF VolSet
  <2>2. UpdatedPart(parent, p, status, z) = {f[v] : v \in vols} BY DEF UpdatedPart
  <2> HIDE DEF f
  <2>3. DOMAIN f = vols BY DEF f
  <2> QED BY <2>1, <2>2, <2>3, OnePartMapped
<1>3. ASSUME NEW parent PROVE OnePart(Filled(parent))
  <2> DEFINE f == [v \in vols |->
                     IF v.parent = parent /\ \E i \in DOMAIN rows : Live(i) /\ rows[i].name = v.part
                     THEN [v EXCEPT !.ref = rows[CHOOSE i \in DOMAIN rows : Live(i) /\ rows[i].name = v.part].ref]
                     ELSE v]
  <2>1. \A v \in vols : f[v].parent = v.parent /\ f[v].part = v.part BY DEF VolSet
  <2>2. Filled(parent) = {f[v] : v \in vols} BY DEF Filled
  <2> HIDE DEF f
  <2>3. DOMAIN f = vols BY DEF f
  <2> QED BY <2>1, <2>2, <2>3, OnePartMapped
<1> QED BY <1>1, <1>2, <1>3

LEMMA DistinctLeft ==
  ASSUME Distinct(rows), NEW s, DOMAIN s = DOMAIN rows,
         \A i \in DOMAIN rows : /\ s[i].ref = rows[i].ref
                                /\ s[i].status = "active" => rows[i].status = "active" /\ s[i].key = rows[i].key
  PROVE  Distinct(s)
BY DEF Distinct

LEMMA NextTyped ==
  ASSUME Base, [Next]_vars, Distinct(rows), OnePart(vols)
  PROVE  Distinct(rows') /\ OnePart(vols')
<1> DEFINE H == Handles'
           T == Titles'
           R == GoodRows(Names, H, ByContent, T)
           V == GoodVols(PartNames, H, T, PartNames)
           Good == Distinct(rows') /\ OnePart(vols')
<1>0. WorldOK' /\ Grow BY NextWorld
<1>1. H \subseteq H /\ Handles \subseteq H /\ \A h \in Handles : T[h] = Titles[h] BY <1>0 DEF Grow
<1>2. rows \in Seq(R) /\ vols \in SUBSET V
  <2>1. GoodRows(Names, Handles, ByContent, Titles) \subseteq R BY <1>1, GoodGrows
  <2>2. GoodVols(PartNames, Handles, Titles, PartNames) \subseteq V BY <1>1, GoodGrows
  <2>3. /\ rows \in Seq(GoodRows(Names, Handles, ByContent, Titles))
        /\ vols \in SUBSET GoodVols(PartNames, Handles, Titles, PartNames)
    BY DEF Base, TableOK
  <2> HIDE DEF R, V
  <2> QED BY <2>1, <2>2, <2>3, SeqGrows
<1>3. WorldOK /\ \A o \in Ops : StageOK(o) /\ KeysOK(o) /\ TargetOK(o) /\ SeenOK(o) BY DEF Base
<1>4. plan' = plan BY SamePlan
<1>5. \A h \in H : T[h] \in Names BY <1>0, <1>4, NextTitles
<1>6. ItemSet(Names, Handles, Titles) \subseteq R
  <2>1. ItemSet(Names, Handles, Titles) \subseteq ItemSet(Names, H, T) BY <1>1, GoodGrows
  <2>2. ItemSet(Names, H, T) \subseteq R BY <1>1, GoodGrows
  <2> QED BY <2>1, <2>2
<1>7. ASSUME NEW items \in Seq(R)
      PROVE  Distinct(Upserted(items).rows) /\ OnePart(Upserted(items).vols)
  BY <1>2, <1>5, ContentSorts, UpsertedTyped DEF Typed
<1>a. vols \in SUBSET VolSet(PartNames, Handles) BY DEF Base, TableOK, GoodVols
<1>b. /\ \A parent, c, z : OnePart(Inserted(parent, c, z))
      /\ \A parent, p, status, z : OnePart(UpdatedPart(parent, p, status, z))
      /\ \A parent : OnePart(Filled(parent))
  BY <1>a, OnePartLeft
<1>c. \A i \in DOMAIN rows : rows[i] \in RowSet(Names, Handles) BY DEF Base, TableOK, GoodRows
<1>d. ASSUME NEW i \in DOMAIN rows, NEW r,
             \/ r = rows[i]
             \/ \E s : r = [rows[i] EXCEPT !.status = s] /\ s # "active"
             \/ \E m : r = [rows[i] EXCEPT !.meta = m]
      PROVE  r.ref = rows[i].ref /\ (r.status = "active" => rows[i].status = "active" /\ r.key = rows[i].key)
  BY <1>c, <1>d DEF RowSet
<1> SUFFICES Good OBVIOUS
<1>9. CASE UNCHANGED <<rows, vols>> BY <1>9
<1> HIDE DEF H, T, R, V, Good
<1>10. ASSUME NEW o \in Ops, Work(o) PROVE Good
  <2>1. CASE Submit(o) BY <1>9, <2>1 DEF Submit, table
  <2>2. CASE Fails(o) BY <1>9, <2>2 DEF Fails, table
  <2>3. CASE Pauses(o) BY <1>9, <2>3 DEF Pauses, table
  <2>4. CASE Resumes(o) BY <1>9, <2>4 DEF Resumes, table
  <2>5. CASE SyncStarts(o) BY <1>9, <2>5 DEF SyncStarts, table
  <2>6. CASE SyncLists(o) BY <1>9, <2>6 DEF SyncLists, table
  <2>7. CASE SyncListsDeep(o) BY <1>9, <2>7 DEF SyncListsDeep, table
  <2>8. CASE SyncIndexes(o)
    <3>1. seen[o] \in Seq(R) BY <1>3, <1>6, SeqGrows DEF SeenOK
    <3>2. CASE rows' = Upserted(seen[o]).rows /\ vols' = Upserted(seen[o]).vols
      BY <1>7, <3>1, <3>2 DEF Good
    <3>3. CASE UNCHANGED <<rows, vols>> BY <1>9, <3>3
    <3> QED BY <2>8, <3>2, <3>3 DEF SyncIndexes, table
  <2>9. CASE SyncPrunes(o)
    <3>1. rows' = Pruned({it.ref : it \in Range(seen[o])}) /\ vols' = vols BY <2>9 DEF SyncPrunes
    <3>2. DOMAIN rows' = DOMAIN rows BY <3>1 DEF Pruned
    <3>3. \A i \in DOMAIN rows : rows'[i] \in {rows[i], [rows[i] EXCEPT !.status = "deleted"]} BY <3>1 DEF Pruned
    <3>4. ASSUME NEW i \in DOMAIN rows
          PROVE  /\ rows'[i].ref = rows[i].ref
                 /\ rows'[i].status = "active" => rows[i].status = "active" /\ rows'[i].key = rows[i].key
      BY <1>d, <3>3
    <3>5. Distinct(rows') BY <3>2, <3>4, DistinctLeft
    <3> QED BY <3>1, <3>5 DEF Good
  <2>10. CASE SyncEnds(o)
    <3>1. rows' = rows /\ (vols' = vols \/ vols' = Filled(key[o])) BY <2>10 DEF SyncEnds
    <3> QED BY <1>b, <3>1 DEF Good
  <2>11. CASE SyncFailed(o) BY <1>9, <2>11 DEF SyncFailed, table
  <2>12. CASE UploadBegins(o)
    <3> DEFINE p == <<0, Len(parents) + 1>>
               new == Row(p, Whole(Of(o)), "parent")
    <3>1. CASE UNCHANGED <<rows, vols>> BY <1>9, <3>1
    <3>2. CASE /\ parents' = Append(parents, Of(o)) /\ rows' = Upserted(<<new>>).rows
               /\ vols' = Upserted(<<new>>).vols
      <4>1. <<new>> \in Seq(R) BY <1>3, <3>2, NewParent DEF R, H, T
      <4> QED BY <1>7, <3>2, <4>1 DEF Good
    <3> QED BY <2>12, <3>1, <3>2 DEF UploadBegins, table
  <2>13. CASE UploadKeeps(o) BY <1>9, <2>13 DEF UploadKeeps, table
  <2>14. CASE ConvertBegins(o) BY <1>9, <2>14 DEF ConvertBegins, table
  <2>15. CASE Downloads(o) BY <1>9, <2>15 DEF Downloads, table
  <2>16. CASE Splits(o) BY <1>b, <2>16 DEF Splits, Good
  <2>17. CASE PartStarts(o)
    <3>1. rows' = rows /\ (vols' = vols \/ vols' = UpdatedPart(key[o], Next1(o), "uploading", 0))
      BY <2>17 DEF PartStarts
    <3> QED BY <1>b, <3>1 DEF Good
  <2>18. CASE Sends(o) BY <1>9, <2>18 DEF Sends, table
  <2>19. CASE PartEnds(o) BY <1>b, <2>19 DEF PartEnds, Good
  <2>20. CASE Stamps(o)
    <3>1. /\ vols' = vols
          /\ rows' = [i \in DOMAIN rows |->
                        IF rows[i].ref = key[o] THEN [rows[i] EXCEPT !.meta = "whole"] ELSE rows[i]]
      BY <2>20 DEF Stamps
    <3>2. \A i \in DOMAIN rows : rows'[i] \in {rows[i], [rows[i] EXCEPT !.meta = "whole"]} BY <3>1
    <3>3. ASSUME NEW i \in DOMAIN rows
          PROVE  /\ rows'[i].ref = rows[i].ref
                 /\ rows'[i].status = "active" => rows[i].status = "active" /\ rows'[i].key = rows[i].key
      BY <1>d, <3>2
    <3>4. Distinct(rows') BY <3>1, <3>3, DistinctLeft
    <3> QED BY <3>1, <3>4 DEF Good
  <2>21. CASE DeleteBegins(o) BY <1>9, <2>21 DEF DeleteBegins, table
  <2>22. CASE Deletes(o) BY <1>9, <2>22 DEF Deletes, table
  <2>23. CASE FindsNothing(o) BY <1>9, <2>23 DEF FindsNothing, table
  <2>24. CASE Forgets(o)
    <3>1. rows' = [rows EXCEPT ![RowOf(o)] = [rows[RowOf(o)] EXCEPT !.status = "deleted"]] /\ vols' \subseteq vols
      BY <2>24 DEF Forgets
    <3>2. \A i \in DOMAIN rows : rows'[i] \in {rows[i], [rows[i] EXCEPT !.status = "deleted"]} BY <3>1
    <3>3. ASSUME NEW i \in DOMAIN rows
          PROVE  /\ rows'[i].ref = rows[i].ref
                 /\ rows'[i].status = "active" => rows[i].status = "active" /\ rows'[i].key = rows[i].key
      BY <1>d, <3>2
    <3>4. Distinct(rows') BY <3>1, <3>3, DistinctLeft
    <3>5. OnePart(vols') BY <3>1 DEF OnePart
    <3> QED BY <3>4, <3>5 DEF Good
  <2>25. CASE RenameBegins(o) BY <1>9, <2>25 DEF RenameBegins, table
  <2>26. CASE RenamesRow(o)
    <3> DEFINE i == RowOf(o)
               n == Renamed(Of(o))
               others == {j \in DOMAIN rows : j # i /\ Live(j)}
               follows == \A j \in others : rows[j].name # n
    <3>1. CASE UNCHANGED <<rows, vols>> BY <1>9, <3>1
    <3>2. CASE /\ vols' = vols /\ ~(follows /\ Live(i) /\ \E j \in others : rows[j].key = n)
               /\ rows' = [rows EXCEPT ![i].name = n, ![i].key = IF follows THEN n ELSE @]
      <4> DEFINE k == IF follows THEN n ELSE rows[i].key
      <4>1. rows' = [rows EXCEPT ![i] = [rows[i] EXCEPT !.name = n, !.key = k]] BY <3>2
      <4>2. DOMAIN rows' = DOMAIN rows /\ \A j \in DOMAIN rows \ {i} : rows'[j] = rows[j] BY <4>1
      <4>3. i \in DOMAIN rows => /\ rows'[i].ref = rows[i].ref /\ rows'[i].key = k
                                 /\ rows'[i].status = rows[i].status
        <5> HIDE DEF k, n, i
        <5> QED BY <1>c, <4>1 DEF RowSet
      <4>4. i \in DOMAIN rows /\ Live(i) => \A j \in others : rows[j].key # k
        <5>1. CASE follows BY <3>2, <5>1
        <5>2. CASE ~follows BY <5>2 DEF Distinct, Live
        <5> QED BY <5>1, <5>2
      <4> HIDE DEF k, n, i
      <4>5. Distinct(rows') BY <4>2, <4>3, <4>4 DEF Distinct, Live
      <4> QED BY <3>2, <4>5 DEF Good
    <3> QED BY <2>26, <3>1, <3>2 DEF RenamesRow
  <2>27. CASE Moves(o) BY <1>9, <2>27 DEF Moves, table
  <2>28. CASE FolderBegins(o) BY <1>9, <2>28 DEF FolderBegins, table
  <2>29. CASE SyncBegins(o) BY <1>9, <2>29 DEF SyncBegins, table
  <2>30. CASE Reads(o) BY <1>9, <2>30 DEF Reads, table
  <2> QED BY <1>10, <2>1, <2>2, <2>3, <2>4, <2>5, <2>6, <2>7, <2>8, <2>9, <2>10, <2>11, <2>12, <2>13, <2>14, <2>15, <2>16, <2>17, <2>18, <2>19, <2>20, <2>21, <2>22, <2>23, <2>24, <2>25, <2>26, <2>27, <2>28, <2>29, <2>30 DEF Work
<1>11. ASSUME NEW k \in DOMAIN cloud, IndexEvent(k) PROVE Good
  <2> DEFINE x == Upserted(<<Item(k)>>)
  <2>1. k \in news /\ rows' = x.rows /\ vols' = IF x.ok THEN FilledByEvent(x.vols, k) ELSE vols
    BY <1>11 DEF IndexEvent
  <2>2. cloud[k] # Never BY <1>3, <2>1 DEF WorldOK
  <2>3. Item(k) \in R BY <1>3, <1>6, <2>2, ItemGood
  <2>4. <<Item(k)>> \in Seq(R) BY <2>3
  <2>5. Distinct(x.rows) /\ OnePart(x.vols) BY <1>7, <2>4
  <2>6. x.vols \in SUBSET V
    <3>1. x \in Tables(R, V) BY <1>2, <1>5, <2>4, ContentSorts, UpsertedGood DEF R, V
    <3> HIDE DEF x
    <3> QED BY <3>1 DEF Tables
  <2> HIDE DEF x
  <2>7. OnePart(FilledByEvent(x.vols, k))
    <3> DEFINE f == [v \in x.vols |->
                       IF v.part = cloud[k].name /\ v.ref = NoRef THEN [v EXCEPT !.ref = Ref(k)] ELSE v]
    <3>1. \A v \in x.vols : v \in VolSet(PartNames, H) BY <2>6 DEF V, GoodVols
    <3>2. \A v \in x.vols : f[v].parent = v.parent /\ f[v].part = v.part BY <3>1 DEF VolSet
    <3>3. FilledByEvent(x.vols, k) = {f[v] : v \in x.vols} BY DEF FilledByEvent
    <3>4. DOMAIN f = x.vols OBVIOUS
    <3> HIDE DEF f
    <3> QED BY <2>5, <3>2, <3>3, <3>4, OnePartMapped
  <2> QED BY <2>1, <2>5, <2>7 DEF Good
<1>12. CASE Crash BY <1>9, <1>12 DEF Crash, table
<1>13. CASE NewSession BY <1>9, <1>13 DEF NewSession, table
<1>14. ASSUME NEW c \in plan.contents, MemberUploads(c) PROVE Good BY <1>9, <1>14 DEF MemberUploads, table
<1>15. ASSUME NEW k \in DOMAIN cloud, MemberDeletes(k) PROVE Good BY <1>9, <1>15 DEF MemberDeletes, table
<1>16. CASE UNCHANGED vars BY <1>9, <1>16 DEF vars
<1> QED BY <1>10, <1>11, <1>12, <1>13, <1>14, <1>15, <1>16 DEF Next

Locked == {"list", "deep", "index", "prune"}
LockOK == /\ lock \in Ops \cup {NoOne} /\ trouble \in 0..MaxTrouble
          /\ \A o \in Ops : at[o] \in Locked <=> lock = o

LEMMA WorkLock ==
  ASSUME NEW o \in Ops, Base, Work(o), LockOK
  PROVE  LockOK'
<1>a. LocalOK /\ StageOK(o) BY DEF Base
<1>b. \A p \in Ops \ {o} : at'[p] = at[p] BY <1>a, WorkLocal DEF SameAt
<1>c. DOMAIN at = Ops BY <1>a DEF LocalOK
<1>d. trouble \in Nat /\ MaxTrouble \in Nat /\ trouble <= MaxTrouble /\ NoOne \notin Ops
  BY FilesAssumption DEF FilesAssumption, LockOK, NoOne
<1> DEFINE Goal == /\ trouble' \in {trouble, trouble + 1} /\ trouble' <= MaxTrouble
                   /\ \/ lock' = lock /\ (at'[o] \in Locked <=> at[o] \in Locked)
                      \/ lock = NoOne /\ lock' = o /\ at'[o] \in Locked
                      \/ lock = o /\ lock' = NoOne /\ at'[o] \notin Locked
<1>e. SUFFICES Goal BY <1>b, <1>d DEF LockOK
<1> USE <1>c, <1>d DEF LockOK, Locked, Go, Then, Raise, Sync
<1>1. CASE Submit(o) BY <1>1 DEF Submit, Asked
<1>2. CASE Fails(o) BY <1>2 DEF Fails, Busy, Trouble
<1>3. CASE Pauses(o) BY <1>3 DEF Pauses, Trouble
<1>4. CASE Resumes(o) BY <1>4 DEF Resumes
<1>5. CASE SyncStarts(o) BY <1>5 DEF SyncStarts
<1>6. CASE SyncLists(o) BY <1>6 DEF SyncLists
<1>7. CASE SyncListsDeep(o) BY <1>7 DEF SyncListsDeep
<1>8. CASE SyncIndexes(o) BY <1>8 DEF SyncIndexes
<1>9. CASE SyncPrunes(o) BY <1>9 DEF SyncPrunes
<1>10. CASE SyncEnds(o) BY <1>10 DEF SyncEnds
<1>11. CASE SyncFailed(o) BY <1>11 DEF SyncFailed
<1>12. CASE UploadBegins(o) BY <1>12 DEF UploadBegins
<1>13. CASE UploadKeeps(o) BY <1>13 DEF UploadKeeps
<1>14. CASE ConvertBegins(o) BY <1>14 DEF ConvertBegins
<1>15. CASE Downloads(o) BY <1>15 DEF Downloads
<1>16. CASE Splits(o) BY <1>16 DEF Splits
<1>17. CASE PartStarts(o) BY <1>17 DEF PartStarts
<1>18. CASE Sends(o)
  <2>1. at[o] = "send" BY <1>18 DEF Sends
  <2>2. CASE todo[o] # {} /\ Then(o, "mark") /\ UNCHANGED <<lock, trouble>> BY <2>1, <2>2
  <2>3. CASE Then(o, "delete") /\ UNCHANGED <<lock, trouble>> BY <2>1, <2>3
  <2>4. CASE Sync(o, "final") /\ UNCHANGED <<lock, trouble>> BY <2>1, <2>4
  <2>5. CASE Trouble("lost") /\ Raise(o) BY <2>1, <2>5 DEF Trouble
  <2> QED BY ONLY <1>18, <2>2, <2>3, <2>4, <2>5 DEF Sends
<1>19. CASE PartEnds(o) BY <1>19 DEF PartEnds
<1>20. CASE Stamps(o) BY <1>20 DEF Stamps
<1>21. CASE DeleteBegins(o) BY <1>21 DEF DeleteBegins
<1>22. CASE Deletes(o) BY <1>22 DEF Deletes
<1>23. CASE FindsNothing(o) BY <1>23 DEF FindsNothing
<1>24. CASE Forgets(o) BY <1>24 DEF Forgets
<1>25. CASE RenameBegins(o) BY <1>25 DEF RenameBegins
<1>26. CASE RenamesRow(o) BY <1>26 DEF RenamesRow
<1>27. CASE Moves(o) BY <1>27 DEF Moves
<1>28. CASE FolderBegins(o) BY <1>28 DEF FolderBegins, Trouble
<1>29. CASE SyncBegins(o) BY <1>29 DEF SyncBegins
<1>30. CASE Reads(o) BY <1>30 DEF Reads
<1> QED BY <1>a, <1>1, <1>2, <1>3, <1>4, <1>5, <1>6, <1>7, <1>8, <1>9, <1>10, <1>11, <1>12, <1>13, <1>14, <1>15, <1>16, <1>17, <1>18, <1>19, <1>20, <1>21, <1>22, <1>23, <1>24, <1>25, <1>26, <1>27, <1>28, <1>29, <1>30 DEF Work

LEMMA NextLock ==
  ASSUME Base, [Next]_vars, LockOK
  PROVE  LockOK'
<1>a. /\ trouble \in Nat /\ MaxTrouble \in Nat /\ trouble <= MaxTrouble /\ NoOne \notin Ops
      /\ DOMAIN at = Ops
  BY FilesAssumption DEF FilesAssumption, LockOK, NoOne, Base, LocalOK
<1>1. ASSUME NEW o \in Ops, Work(o) PROVE LockOK' BY <1>1, WorkLock
<1>2. ASSUME at' = at, lock' = lock, trouble' = trouble \/ (trouble' = trouble + 1 /\ trouble < MaxTrouble)
      PROVE  LockOK'
  BY <1>a, <1>2 DEF LockOK
<1>3. CASE Crash
  <2>1. lock' = NoOne /\ trouble' = trouble + 1 /\ trouble < MaxTrouble BY <1>3 DEF Crash, Trouble
  <2>2. \A o \in Ops : at'[o] \notin Locked BY <1>3 DEF Crash, Busy, Locked
  <2> QED BY <1>a, <2>1, <2>2 DEF LockOK
<1>4. CASE NewSession BY <1>2, <1>4 DEF NewSession, Trouble, local
<1>5. ASSUME NEW c \in plan.contents, MemberUploads(c) PROVE LockOK'
  BY <1>2, <1>5 DEF MemberUploads, Trouble, local
<1>6. ASSUME NEW k \in DOMAIN cloud, MemberDeletes(k) PROVE LockOK'
  BY <1>2, <1>6 DEF MemberDeletes, Trouble, local
<1>7. ASSUME NEW k \in DOMAIN cloud, IndexEvent(k) PROVE LockOK' BY <1>2, <1>7 DEF IndexEvent, local
<1>8. CASE UNCHANGED vars BY <1>2, <1>8 DEF vars
<1> QED BY <1>1, <1>3, <1>4, <1>5, <1>6, <1>7, <1>8 DEF Next

LEMMA InitTypes ==
  ASSUME Init
  PROVE  LockOK /\ Distinct(rows) /\ OnePart(vols)
<1>1. LockOK
  <2>1. \A o \in Ops : at[o] = "idle" BY DEF Init
  <2>2. lock = NoOne /\ trouble = 0 /\ MaxTrouble \in Nat /\ NoOne \notin Ops
    BY FilesAssumption DEF FilesAssumption, Init, NoOne
  <2> QED BY <2>1, <2>2 DEF LockOK, Locked
<1>2. OnePart(vols) BY DEF Init, OnePart
<1>3. Distinct(rows)
  <2> DEFINE r(k) == Row(<<k, 0>>, Whole(plan.holds[k]), "plain")
  <2>1. rows = [k \in 1..Len(plan.holds) |-> r(k)] BY DEF Init
  <2>2. ASSUME NEW i \in DOMAIN rows, NEW j \in DOMAIN rows, i # j
        PROVE  rows[i].ref # rows[j].ref /\ rows[i].key # rows[j].key
    <3>1. i \in 1..Len(plan.holds) /\ j \in 1..Len(plan.holds) BY <2>1
    <3>2. rows[i] = r(i) /\ rows[j] = r(j) BY <2>1, <3>1
    <3>3. DOMAIN plan.holds = 1..Len(plan.holds) /\ \A m, n \in DOMAIN plan.holds : plan.holds[m] = plan.holds[n] => m = n
      BY FilesAssumption DEF FilesAssumption, Init
    <3>4. plan.holds[i] # plan.holds[j] BY <2>2, <3>1, <3>3
    <3> QED BY <2>2, <3>2, <3>4 DEF Row, Whole
  <2> QED BY <2>2 DEF Distinct
<1> QED BY <1>1, <1>2, <1>3

(* TypeOK, for any scenarios: the table of the rows keeps one row of a handle
   and one live row of a key, the table of the volumes one row of a part of a
   parent, whatever a batch, an event or a rename writes; and of all the syncs
   one at most is between its lock and its end. *)
THEOREM FilesTypesHold == Spec => []TypeOK
<1> DEFINE All2 == Base /\ LockOK /\ Distinct(rows) /\ OnePart(vols)
<1>1. Init => All2 BY InitBase, InitTypes
<1>2. All2 /\ [Next]_vars => All2'
  <2> SUFFICES ASSUME All2, [Next]_vars PROVE All2' OBVIOUS
  <2>1. Base' BY NextBase
  <2>2. LockOK' BY NextLock
  <2>3. Distinct(rows') /\ OnePart(vols') BY NextTyped
  <2> QED BY <2>1, <2>2, <2>3 DEF Distinct, OnePart
<1>3. All2 => TypeOK BY DEF LockOK, TypeOK, Locked
<1> QED BY <1>1, <1>2, <1>3, PTL DEF Spec

-----------------------------------------------------------------------------
(* What a batch spares: the volumes of a handle that every item of its name *)
(* still has, and the rows of a name that no item has.                      *)

Under(vs, k) == {v \in vs : v.parent = k}

LEMMA ChasedSpares ==
  ASSUME NEW P, NEW H, NEW T, NEW U, NEW R, NEW x \in Tables(R, GoodVols(P, H, T, U)), NEW old, NEW new,
         NEW k, old # k \/ old = new
  PROVE  Under(x.vols, k) \subseteq Chased(x, old, new).vols
<1>1. x \in [rows : Seq(R), vols : SUBSET GoodVols(P, H, T, U), ok : BOOLEAN] BY DEF Tables
<1>2. CASE Clash(x.vols, old, new)
  <2>1. Chased(x, old, new).vols = x.vols BY <1>2 DEF Chased
  <2> QED BY <2>1 DEF Under
<1>3. CASE ~Clash(x.vols, old, new)
  <2>1. Chased(x, old, new).vols = Moved(x.vols, old, new) BY <1>1, <1>3 DEF Chased
  <2>2. ASSUME NEW v \in x.vols, v.parent = k PROVE v \in Moved(x.vols, old, new)
    <3>1. v \in VolSet(P, H) BY <1>1 DEF GoodVols
    <3>2. [v EXCEPT !.parent = IF @ = old THEN new ELSE @] = v BY <2>2, <3>1 DEF VolSet
    <3> QED BY <3>2 DEF Moved
  <2> QED BY <2>1, <2>2 DEF Under
<1> QED BY <1>2, <1>3

(* A row is of its handle's name, where the measure is exact. *)
LEMMA RowTitled ==
  ASSUME NEW N, NEW H, NEW F, NEW T, Exact(N, F), \A h \in H : T[h] \in N, NEW r \in GoodRows(N, H, F, T)
  PROVE  r.name = T[r.ref] /\ r.ref \in H
<1>1. r.ref \in H /\ r.name \in N /\ F[r.name] = F[T[r.ref]] BY DEF GoodRows, RowSet
<1> QED BY <1>1 DEF Exact

LEMMA UpsertedSpares ==
  ASSUME NEW N, NEW P, NEW H, NEW F, NEW T, NEW U, Exact(N, F), \A h \in H : T[h] \in N,
         rows \in Seq(GoodRows(N, H, F, T)), vols \in SUBSET GoodVols(P, H, T, U),
         NEW items \in Seq(GoodRows(N, H, F, T)),
         NEW k, \A n \in DOMAIN items : items[n].name = T[k] => items[n].ref = k
  PROVE  Under(vols, k) \subseteq Upserted(items).vols
<1> DEFINE R == GoodRows(N, H, F, T)
           V == GoodVols(P, H, T, U)
           x == [rows |-> rows, vols |-> vols, ok |-> TRUE]
           put == Batch(x, Puts(items))
           left == Batch(put, Inherits(put.rows, items))
           all == Batch(left, Chases(items))
           Good(y) == Under(vols, k) \subseteq y.vols
<1>0. Sorts(N, F) BY DEF Exact, Sorts
<1>1. x \in Tables(R, V) /\ Good(x) BY DEF Tables, Under
<1>2. Good([x EXCEPT !.ok = FALSE]) BY DEF Under
<1>3. Upserted(items) = IF all.ok THEN all ELSE [x EXCEPT !.ok = FALSE] BY DEF Upserted
<1> HIDE DEF x
<1>4. put \in Tables(R, V) /\ Good(put)
  <2> DEFINE G == {y \in Tables(R, V) : Good(y)}
  <2>1. x \in G BY <1>1
  <2>2. PICK S : Puts(items) \in Seq(S) BY PutStatements
  <2>3. ASSUME NEW n \in 1..Len(Puts(items)), NEW y \in G PROVE Apply(y, Puts(items)[n]) \in G
    <3>1. n \in 1..Len(items) BY PutStatements
    <3>2. items[n] \in R BY <3>1
    <3>a. Puts(items)[n] = [do |-> "put", row |-> items[n]] BY <3>1, PutStatements
    <3>3. Apply(y, Puts(items)[n]) = PutRow(y, items[n]) BY <3>a, Applied
    <3>4. PutRow(y, items[n]) \in Tables(R, V) BY <3>2, PutGood
    <3>5. y \in [rows : Seq(R), vols : SUBSET V, ok : BOOLEAN] BY DEF Tables
    <3>6. PutRow(y, items[n]).vols = y.vols BY <3>5, PutCases
    <3> HIDE DEF R, V
    <3> QED BY <3>3, <3>4, <3>6
  <2> HIDE DEF G
  <2>4. put \in G BY <2>1, <2>2, <2>3, BatchStays
  <2> QED BY <2>4 DEF G
<1> HIDE DEF put
<1>5. left \in Tables(R, V) /\ Good(left)
  <2> DEFINE G == {y \in Tables(R, V) : Good(y) /\ DOMAIN y.rows = DOMAIN put.rows}
  <2>1. put \in G BY <1>4
  <2>a. put.rows \in Seq(R) BY <1>4 DEF Tables
  <2>2. PICK S : Inherits(put.rows, items) \in Seq(S) BY <2>a, InheritStatements
  <2>3. ASSUME NEW n \in 1..Len(Inherits(put.rows, items)), NEW y \in G
        PROVE  Apply(y, Inherits(put.rows, items)[n]) \in G
    <3>1. n \in 1..Len(put.rows) BY <2>a, InheritStatements
    <3>2. Inherits(put.rows, items)[n] = [do |-> "inherit", of |-> n, items |-> items]
      BY <2>a, <3>1, InheritStatements
    <3>3. Apply(y, Inherits(put.rows, items)[n]) = Inherit(y, n, items) BY <3>2, Applied
    <3>4. y \in Tables(R, V) /\ Good(y) /\ DOMAIN y.rows = DOMAIN put.rows OBVIOUS
    <3>5. n \in DOMAIN y.rows BY <2>a, <3>1, <3>4
    <3>6. Inherit(y, n, items) \in Tables(R, V) /\ DOMAIN Inherit(y, n, items).rows = DOMAIN y.rows
      BY <1>0, <3>4, <3>5, InheritGood
    <3>7. Good(Inherit(y, n, items))
      <4>1. CASE Inherit(y, n, items) = y BY <3>4, <4>1
      <4>2. ASSUME NEW m \in DOMAIN items, items[m].name = y.rows[n].name, y.rows[n].ref \notin Refs(items),
                   Inherit(y, n, items) = Left(y, n, items[m].ref)
            PROVE  Good(Inherit(y, n, items))
        <5>1. y \in [rows : Seq(R), vols : SUBSET V, ok : BOOLEAN] BY <3>4 DEF Tables
        <5>2. y.rows[n] \in R BY <3>5, <5>1
        <5>3. y.rows[n].name = T[y.rows[n].ref] BY <5>2, RowTitled
        <5>4. y.rows[n].ref # k BY <4>2, <5>3 DEF Refs
        <5> DEFINE s == LeftRows(y.rows, n, items[m].ref)
                   z == [rows |-> s, vols |-> y.vols, ok |-> y.ok]
        <5>5. [y EXCEPT !.rows = s] = z BY <5>1
        <5>6. Inherit(y, n, items) = Chased(z, y.rows[n].ref, items[m].ref) BY <4>2, <5>5 DEF Left
        <5>7. z \in Tables({s[j] : j \in DOMAIN s}, V) /\ z.vols = y.vols
          <6>1. DOMAIN s = 1..Len(y.rows) /\ Len(y.rows) \in Nat BY <5>1 DEF LeftRows
          <6>2. s = [j \in 1..Len(y.rows) |-> s[j]] BY <6>1 DEF LeftRows
          <6> HIDE DEF s
          <6>3. s \in Seq({s[j] : j \in DOMAIN s}) BY <6>1, <6>2
          <6> HIDE DEF V
          <6> QED BY <5>1, <6>3 DEF Tables
        <5> HIDE DEF s, z
        <5>8. Under(z.vols, k) \subseteq Chased(z, y.rows[n].ref, items[m].ref).vols BY <5>4, <5>7, ChasedSpares
        <5> QED BY <3>4, <5>6, <5>7, <5>8 DEF Under
      <4> HIDE DEF Good
      <4> QED BY <4>1, <4>2, InheritCases
    <3> HIDE DEF R, V, Good
    <3> QED BY <3>3, <3>4, <3>6, <3>7
  <2> HIDE DEF G
  <2>4. left \in G BY <2>1, <2>2, <2>3, BatchStays
  <2> QED BY <2>4 DEF G
<1> HIDE DEF left
<1>6. Good(all)
  <2> DEFINE G == {y \in Tables(R, V) : Good(y)}
  <2>1. left \in G BY <1>5
  <2>2. PICK S : Chases(items) \in Seq(S) BY ChaseStatements
  <2>3. ASSUME NEW n \in 1..Len(Chases(items)), NEW y \in G PROVE Apply(y, Chases(items)[n]) \in G
    <3>1. n \in 1..Len(items) BY ChaseStatements
    <3> DEFINE it == items[n]
               old == HadRef(it)
               of == {i \in DOMAIN rows : Live(i) /\ rows[i].name = it.name}
    <3>2. it \in R BY <3>1
    <3>a. Chases(items)[n] = [do |-> "chase", from |-> old, to |-> it.ref] BY <3>1, ChaseStatements
    <3>3. Apply(y, Chases(items)[n]) = Chased(y, old, it.ref) BY <3>a, Applied
    <3>4. T[old][1] = T[it.ref][1] /\ it.ref \in H BY <1>0, <3>2, HadIs
    <3>5. old # k \/ old = it.ref
      <4>1. CASE of = {} BY <4>1 DEF HadRef
      <4>2. CASE of # {}
        <5> DEFINE i == CHOOSE i \in of : TRUE
        <5>1. i \in of BY <4>2
        <5>2. old = rows[i].ref BY <4>2 DEF HadRef
        <5>3. rows[i] \in R /\ rows[i].name = it.name BY <5>1
        <5> HIDE DEF i, of
        <5>4. it.name = T[old] BY <5>2, <5>3, RowTitled
        <5> QED BY <3>1, <5>4
      <4> QED BY <4>1, <4>2
    <3>6. y \in Tables(R, V) /\ Good(y) OBVIOUS
    <3> HIDE DEF old, it
    <3>8. Chased(y, old, it.ref) \in Tables(R, V) BY <3>4, <3>6, ChasedGood
    <3>9. Under(y.vols, k) \subseteq Chased(y, old, it.ref).vols BY <3>5, <3>6, ChasedSpares
    <3>10. Good(Chased(y, old, it.ref)) BY <3>6, <3>9 DEF Under
    <3> HIDE DEF R, V, Good
    <3> QED BY <3>3, <3>8, <3>10
  <2> HIDE DEF G
  <2>4. all \in G BY <2>1, <2>2, <2>3, BatchStays
  <2> QED BY <2>4 DEF G
<1> HIDE DEF all
<1> QED BY <1>2, <1>3, <1>6

LEMMA PutSpares ==
  ASSUME NEW N, NEW H, NEW F, NEW T, NEW V, NEW K, Exact(N, F), NEW x \in Tables(GoodRows(N, H, F, T), V),
         NEW new \in GoodRows(N, H, F, T), NEW nm, new.name # nm, Showing(x.rows, nm, K)
  PROVE  Showing(PutRow(x, new).rows, nm, K)
<1> DEFINE R == GoodRows(N, H, F, T)
           s == PutRow(x, new).rows
<1>1. x \in [rows : Seq(R), vols : SUBSET V, ok : BOOLEAN] BY DEF Tables
<1>2. PICK j \in DOMAIN x.rows : x.rows[j].status = "active" /\ x.rows[j].name = nm /\ x.rows[j].ref \in K
  BY DEF Showing
<1>b. \A r \in R : r.ref = new.ref \/ r.key = new.key => r.name = new.name
  <2>1. ASSUME NEW r \in R, r.ref = new.ref \/ r.key = new.key PROVE F[new.name] = F[r.name] BY <2>1, MergedGood
  <2>2. new.name \in N /\ \A r \in R : r.name \in N BY DEF GoodRows, RowSet
  <2> HIDE DEF R
  <2> QED BY <2>1, <2>2 DEF Exact
<1>a. new \in R OBVIOUS
<1>c. x.rows[j] \in R /\ \A i \in DOMAIN x.rows : x.rows[i] \in R BY <1>1
<1> HIDE DEF R
<1>3. j \in DOMAIN s /\ s[j] = x.rows[j]
  <2>1. CASE PutRow(x, new) = x \/ PutRow(x, new) = [x EXCEPT !.ok = FALSE] BY <1>1, <2>1
  <2>2. CASE \E i \in DOMAIN x.rows : /\ x.rows[i].ref = new.ref \/ x.rows[i].key = new.key
                                      /\ PutRow(x, new) = [x EXCEPT !.rows[i] = Merged(@, new)]
    <3> PICK i \in DOMAIN x.rows : /\ x.rows[i].ref = new.ref \/ x.rows[i].key = new.key
                                   /\ PutRow(x, new) = [x EXCEPT !.rows[i] = Merged(@, new)]
      BY <2>2
    <3>1. i # j BY <1>2, <1>b, <1>c
    <3> QED BY <1>1, <3>1
  <2>3. CASE PutRow(x, new) = [x EXCEPT !.rows = Append(@, new)]
    <3>1. s = Append(x.rows, new) BY <1>1, <2>3
    <3>2. x.rows \in Seq(R) BY <1>1
    <3> QED BY <1>a, <3>1, <3>2
  <2> QED BY <2>1, <2>2, <2>3, PutCases
<1> QED BY <1>2, <1>3 DEF Showing

LEMMA UpsertedLeaves ==
  ASSUME NEW N, NEW P, NEW H, NEW F, NEW T, NEW U, Exact(N, F), \A h \in H : T[h] \in N,
         rows \in Seq(GoodRows(N, H, F, T)), vols \in SUBSET GoodVols(P, H, T, U),
         NEW items \in Seq(GoodRows(N, H, F, T)), NEW nm, NEW K, Showing(rows, nm, K),
         \A n \in DOMAIN items : items[n].name # nm
  PROVE  Showing(Upserted(items).rows, nm, K)
<1> DEFINE R == GoodRows(N, H, F, T)
           V == GoodVols(P, H, T, U)
           x == [rows |-> rows, vols |-> vols, ok |-> TRUE]
           put == Batch(x, Puts(items))
           left == Batch(put, Inherits(put.rows, items))
           all == Batch(left, Chases(items))
           Good(y) == Showing(y.rows, nm, K)
<1>0. Sorts(N, F) BY DEF Exact, Sorts
<1>1. x \in Tables(R, V) /\ Good(x) BY DEF Tables
<1>2. Good([x EXCEPT !.ok = FALSE]) OBVIOUS
<1>3. Upserted(items) = IF all.ok THEN all ELSE [x EXCEPT !.ok = FALSE] BY DEF Upserted
<1> HIDE DEF x
<1>4. put \in Tables(R, V) /\ Good(put)
  <2> DEFINE G == {y \in Tables(R, V) : Good(y)}
  <2>1. x \in G BY <1>1
  <2>2. PICK S : Puts(items) \in Seq(S) BY PutStatements
  <2>3. ASSUME NEW n \in 1..Len(Puts(items)), NEW y \in G PROVE Apply(y, Puts(items)[n]) \in G
    <3>1. n \in 1..Len(items) BY PutStatements
    <3>2. items[n] \in R /\ items[n].name # nm BY <3>1
    <3>a. Puts(items)[n] = [do |-> "put", row |-> items[n]] BY <3>1, PutStatements
    <3>3. Apply(y, Puts(items)[n]) = PutRow(y, items[n]) BY <3>a, Applied
    <3>4. PutRow(y, items[n]) \in Tables(R, V) BY <3>2, PutGood
    <3>6. Good(PutRow(y, items[n])) BY <3>2, PutSpares
    <3> HIDE DEF R, V, Good
    <3> QED BY <3>3, <3>4, <3>6
  <2> HIDE DEF G
  <2>4. put \in G BY <2>1, <2>2, <2>3, BatchStays
  <2> QED BY <2>4 DEF G
<1> HIDE DEF put
<1>5. left \in Tables(R, V) /\ Good(left)
  <2> DEFINE G == {y \in Tables(R, V) : Good(y) /\ DOMAIN y.rows = DOMAIN put.rows}
  <2>1. put \in G BY <1>4
  <2>a. put.rows \in Seq(R) BY <1>4 DEF Tables
  <2>2. PICK S : Inherits(put.rows, items) \in Seq(S) BY <2>a, InheritStatements
  <2>3. ASSUME NEW n \in 1..Len(Inherits(put.rows, items)), NEW y \in G
        PROVE  Apply(y, Inherits(put.rows, items)[n]) \in G
    <3>1. n \in 1..Len(put.rows) BY <2>a, InheritStatements
    <3>2. Inherits(put.rows, items)[n] = [do |-> "inherit", of |-> n, items |-> items]
      BY <2>a, <3>1, InheritStatements
    <3>3. Apply(y, Inherits(put.rows, items)[n]) = Inherit(y, n, items) BY <3>2, Applied
    <3>4. y \in Tables(R, V) /\ Good(y) /\ DOMAIN y.rows = DOMAIN put.rows OBVIOUS
    <3>5. n \in DOMAIN y.rows BY <2>a, <3>1, <3>4
    <3>6. Inherit(y, n, items) \in Tables(R, V) /\ DOMAIN Inherit(y, n, items).rows = DOMAIN y.rows
      BY <1>0, <3>4, <3>5, InheritGood
    <3>7. Good(Inherit(y, n, items))
      <4>1. CASE Inherit(y, n, items) = y BY <3>4, <4>1
      <4>2. ASSUME NEW m \in DOMAIN items, items[m].name = y.rows[n].name, y.rows[n].ref \notin Refs(items),
                   Inherit(y, n, items) = Left(y, n, items[m].ref)
            PROVE  Good(Inherit(y, n, items))
        <5>1. y \in [rows : Seq(R), vols : SUBSET V, ok : BOOLEAN] BY <3>4 DEF Tables
        <5>2. PICK j \in DOMAIN y.rows : y.rows[j].status = "active" /\ y.rows[j].name = nm /\ y.rows[j].ref \in K
          BY <3>4 DEF Showing
        <5>3. y.rows[j] \in R /\ j # n BY <4>2, <5>1, <5>2
        <5> DEFINE s == Inherit(y, n, items).rows
                   r == y.rows[j]
        <5>a. s = LeftRows(y.rows, n, items[m].ref) BY <4>2, <5>1 DEF Left, Chased
        <5>4. DOMAIN s = DOMAIN y.rows /\ s[j] \in {r, [r EXCEPT !.meta = y.rows[n].meta]}
          BY <5>a, <5>3 DEF LeftRows
        <5>5. s[j].status = r.status /\ s[j].name = r.name /\ s[j].ref = r.ref
          BY <5>3, <5>4 DEF R, GoodRows, RowSet
        <5> HIDE DEF s
        <5> QED BY <5>2, <5>4, <5>5 DEF Showing, s
      <4> HIDE DEF Good
      <4> QED BY <4>1, <4>2, InheritCases
    <3> HIDE DEF R, V, Good
    <3> QED BY <3>3, <3>4, <3>6, <3>7
  <2> HIDE DEF G
  <2>4. left \in G BY <2>1, <2>2, <2>3, BatchStays
  <2> QED BY <2>4 DEF G
<1> HIDE DEF left
<1>6. all.rows = left.rows BY <1>0, <1>5, ChasesGood
<1>7. Good(all) BY <1>5, <1>6
<1> HIDE DEF all
<1> QED BY <1>2, <1>3, <1>7

(* A name that is shown stays shown, whether or not the batch has it. *)
LEMMA UpsertedKeeps ==
  ASSUME NEW N, NEW P, NEW H, NEW F, NEW T, NEW U, Exact(N, F), \A h \in H : T[h] \in N,
         rows \in Seq(GoodRows(N, H, F, T)), vols \in SUBSET GoodVols(P, H, T, U),
         NEW items \in Seq(GoodRows(N, H, F, T)), \A n \in DOMAIN items : items[n].status = "active",
         NEW nm, NEW K, Showing(rows, nm, K), \A n \in DOMAIN items : items[n].name = nm => items[n].ref \in K
  PROVE  Showing(Upserted(items).rows, nm, K)
<1> DEFINE R == GoodRows(N, H, F, T)
           x == Upserted(items)
<1>1. CASE ~x.ok
  <2>1. x.rows = rows BY <1>1 DEF Upserted
  <2> QED BY <2>1
<1>2. CASE \A n \in DOMAIN items : items[n].name # nm BY <1>2, UpsertedLeaves
<1>3. ASSUME x.ok, NEW n \in DOMAIN items, items[n].name = nm PROVE Showing(x.rows, nm, K)
  <2>1. Showing(x.rows, nm, Refs(items)) BY <1>3, UpsertedShows
  <2>2. x.rows \in Seq(R)
    <3>1. x \in Tables(R, GoodVols(P, H, T, U)) BY UpsertedGood DEF Exact, Sorts
    <3> HIDE DEF x, R
    <3> QED BY <3>1 DEF Tables
  <2> HIDE DEF x
  <2>3. PICK i \in DOMAIN x.rows :
          x.rows[i].status = "active" /\ x.rows[i].name = nm /\ x.rows[i].ref \in Refs(items)
    BY <2>1 DEF Showing
  <2>4. PICK m \in DOMAIN items : items[m].ref = x.rows[i].ref BY <2>3 DEF Refs
  <2>a. items \in Seq(R) OBVIOUS
  <2>5. items[m] \in R /\ x.rows[i] \in R
    <3> HIDE DEF R
    <3> QED BY <2>2, <2>a
  <2>6. items[m].name = T[items[m].ref] /\ x.rows[i].name = T[x.rows[i].ref] BY <2>5, RowTitled
  <2> QED BY <2>3, <2>4, <2>6 DEF Showing
<1> QED BY <1>1, <1>2, <1>3

-----------------------------------------------------------------------------
(* A part goes up once.  A content has one operation that sends its parts,  *)
(* and an upload's content was not on the cloud before.                     *)

Sender(o) == Replaces(o) /\ Of(o) \in Big
OneSender ==
  /\ \A o, q \in Ops : Sender(o) /\ Sender(q) /\ Of(o) = Of(q) => o = q
  /\ \A o \in Ops : Sender(o) /\ Kind(o) = "upload" => \A k \in DOMAIN plan.holds : plan.holds[k] # Of(o)
(* The handle of the original that a conversion was given stays its handle. *)
HandlesLast == \A o \in Ops : Sender(o) /\ Kind(o) = "convert" => "session" \notin plan.faults
Alone == NoRename /\ DeletesApart /\ OneSender /\ HandlesLast

CopiesOf(p) == {k \in There : cloud[k].what = p}
Doubts == UNION {Parts(c) \cup {Whole(c)} : c \in plan.contents}
Ever == {k \in DOMAIN cloud : cloud[k] # Never}

SentWorld ==
  /\ \A k \in Ever : cloud[k].what[2] # 0 =>
       cloud[k].on /\ ~cloud[k].deep /\ \E o \in Ops : Sender(o) /\ Of(o) = cloud[k].what[1]
  /\ \A k \in Ever : \A o \in Ops : Sender(o) /\ cloud[k].name = Whole(Of(o)) =>
       Kind(o) = "convert" /\ k \in DOMAIN plan.holds /\ plan.holds[k] = Of(o)
  /\ \A n \in DOMAIN parents : \E o \in Ops : Sender(o) /\ Kind(o) = "upload" /\ Of(o) = parents[n]
  /\ session = 0 \/ "session" \in plan.faults
  /\ doubt \in [Doubts -> Nat]

(* What a step does to the cloud, to the handles and to the doubts. *)
Made(k, f) == k \in Free /\ cloud' = [cloud EXCEPT ![k] = f]
CloudMoves ==
  \/ cloud' = cloud
  \/ \E k \in There : /\ cloud[k].what[2] = 0 \/ cloud[k].what[1] \in Taken
                      /\ cloud' = [cloud EXCEPT ![k] = [cloud[k] EXCEPT !.on = FALSE]]
  \/ \E k \in There : /\ cloud[k].what[2] = 0
                      /\ cloud' = [cloud EXCEPT ![k] = [cloud[k] EXCEPT !.deep = ~@]]
  \/ \E c \in plan.contents \ Big : \E deep \in BOOLEAN : \E z : \E k : Made(k, File(Whole(c), Whole(c), deep, z))
  \/ \E o \in Ops : /\ Sends(o) /\ Sender(o) /\ todo[o] # {}
                    /\ \E k : Made(k, File(Next1(o), Next1(o), FALSE, zip[o]))
HandlesMove ==
  /\ parents' = parents \/ \E o \in Ops : Sender(o) /\ Kind(o) = "upload" /\ parents' = Append(parents, Of(o))
  /\ session' = session \/ "session" \in plan.faults
DoubtsMove == doubt' = doubt \/ Crash \/ \E o \in Ops : SyncFailed(o) \/ Sends(o)
Outside == CloudMoves /\ HandlesMove /\ DoubtsMove

LEMMA StoredMade ==
  ASSUME WorldOK, NEW what, NEW name, NEW deep, NEW z, Stored(what, name, deep, z)
  PROVE  \E k : Made(k, File(what, name, deep, z))
<1>1. MaxCopies \in Nat /\ DOMAIN cloud = 1..MaxCopies BY Scenario DEF WorldOK, CloudOK
<1> DEFINE k == CHOOSE k \in Free : \A j \in Free : k <= j
<1>2. Free \subseteq Nat /\ Free # {} /\ cloud' = [cloud EXCEPT ![k] = File(what, name, deep, z)]
  BY <1>1 DEF Stored, Free
<1>3. \E j \in Free : \A i \in Free : j <= i BY <1>2, LeastNat
<1>4. k \in Free BY <1>3
<1> QED BY <1>2, <1>4 DEF Made

LEMMA WorkOutside ==
  ASSUME Base, NoRename, NEW o \in Ops, Work(o)
  PROVE  Outside
<1>a. WorldOK /\ LocalOK /\ StageOK(o) BY DEF Base
<1>b. \A k \in There : k \in DOMAIN cloud /\ (cloud[k].what[2] # 0 => cloud[k].name = cloud[k].what)
  BY <1>a, CopyIs
<1>c. ASSUME cloud' = cloud, parents' = parents, session' = session, doubt' = doubt PROVE Outside
  BY <1>c DEF Outside, CloudMoves, HandlesMove, DoubtsMove
<1> USE DEF handles
<1>1. CASE Submit(o) BY <1>c, <1>1 DEF Submit
<1>2. CASE Fails(o) BY <1>c, <1>2 DEF Fails
<1>3. CASE Pauses(o) BY <1>c, <1>3 DEF Pauses
<1>4. CASE Resumes(o) BY <1>c, <1>4 DEF Resumes
<1>5. CASE SyncStarts(o) BY <1>c, <1>5 DEF SyncStarts
<1>6. CASE SyncLists(o) BY <1>c, <1>6 DEF SyncLists
<1>7. CASE SyncListsDeep(o) BY <1>c, <1>7 DEF SyncListsDeep
<1>8. CASE SyncIndexes(o) BY <1>c, <1>8 DEF SyncIndexes
<1>9. CASE SyncPrunes(o) BY <1>c, <1>9 DEF SyncPrunes
<1>10. CASE SyncEnds(o) BY <1>c, <1>10 DEF SyncEnds
<1>11. CASE SyncFailed(o)
  <2>1. cloud' = cloud /\ parents' = parents /\ session' = session BY <1>11 DEF SyncFailed
  <2> QED BY <1>11, <2>1 DEF Outside, CloudMoves, HandlesMove, DoubtsMove
<1>12. CASE UploadBegins(o)
  <2>1. cloud' = cloud /\ session' = session /\ doubt' = doubt BY <1>12 DEF UploadBegins
  <2>2. parents' = parents \/ (Kind(o) = "upload" /\ Of(o) \in Big /\ parents' = Append(parents, Of(o)))
    BY <1>12 DEF UploadBegins
  <2> QED BY <2>1, <2>2 DEF Outside, CloudMoves, HandlesMove, DoubtsMove, Sender, Replaces
<1>13. CASE UploadKeeps(o) BY <1>c, <1>13 DEF UploadKeeps
<1>14. CASE ConvertBegins(o) BY <1>c, <1>14 DEF ConvertBegins
<1>15. CASE Downloads(o) BY <1>c, <1>15 DEF Downloads
<1>16. CASE Splits(o) BY <1>c, <1>16 DEF Splits
<1>17. CASE PartStarts(o) BY <1>c, <1>17 DEF PartStarts
<1>18. CASE Sends(o)
  <2>1. /\ at[o] = "send" /\ parents' = parents /\ session' = session
        /\ Stored(What(o), Name(o), FALSE, zip[o])
    BY <1>18 DEF Sends
  <2>2. PICK k : Made(k, File(What(o), Name(o), FALSE, zip[o])) BY <1>a, <2>1, StoredMade
  <2>3. CASE todo[o] # {}
    <3>1. What(o) = Next1(o) /\ Name(o) = Next1(o) BY <2>3 DEF What, Name
    <3>2. Sender(o) BY <1>a, <2>3 DEF StageOK, Sender, Replaces, Parts
    <3> QED BY <1>18, <2>1, <2>2, <2>3, <3>1, <3>2 DEF Outside, CloudMoves, HandlesMove, DoubtsMove
  <2>4. CASE todo[o] = {}
    <3>1. Kind(o) = "upload" /\ Of(o) \notin Big BY <1>a, <2>1, <2>4 DEF StageOK, NoRename, Replaces
    <3>2. What(o) = Whole(Of(o)) /\ Name(o) = Whole(Of(o)) BY <2>4, <3>1 DEF What, Name
    <3>3. Of(o) \in plan.contents \ Big BY <1>a, <3>1, Scenario
    <3> QED BY <1>18, <2>1, <2>2, <3>2, <3>3 DEF Outside, CloudMoves, HandlesMove, DoubtsMove
  <2> QED BY <2>3, <2>4
<1>19. CASE PartEnds(o) BY <1>c, <1>19 DEF PartEnds
<1>20. CASE Stamps(o) BY <1>c, <1>20 DEF Stamps
<1>21. CASE DeleteBegins(o) BY <1>c, <1>21 DEF DeleteBegins
<1>22. CASE Deletes(o)
  <2>1. parents' = parents /\ session' = session /\ doubt' = doubt /\ at[o] = "delete" BY <1>22 DEF Deletes
  <2>2. PICK k \in Victims(o) : Emptied(k) BY <1>22 DEF Deletes
  <2>3. /\ k \in There /\ cloud[k].what[1] = Of(o)
        /\ Kind(o) # "delete" => cloud[k].what = Whole(Of(o))
    BY <2>1, VictimIs
  <2>4. cloud[k].what[2] = 0 \/ cloud[k].what[1] \in Taken BY <2>3 DEF Whole, Taken
  <2>5. cloud' = [cloud EXCEPT ![k] = [cloud[k] EXCEPT !.on = FALSE]] BY <2>2 DEF Emptied
  <2> QED BY <2>1, <2>3, <2>4, <2>5 DEF Outside, CloudMoves, HandlesMove, DoubtsMove
<1>23. CASE FindsNothing(o) BY <1>c, <1>23 DEF FindsNothing
<1>24. CASE Forgets(o) BY <1>c, <1>24 DEF Forgets
<1>25. CASE RenameBegins(o) BY <1>c, <1>25 DEF RenameBegins
<1>26. CASE RenamesRow(o) BY <1>c, <1>26 DEF RenamesRow
<1>27. CASE Moves(o)
  <2>1. parents' = parents /\ session' = session /\ doubt' = doubt BY <1>27 DEF Moves
  <2>2. PICK k \in Named(Whole(Of(o))) : cloud' = [cloud EXCEPT ![k].deep = ~@] BY <1>27 DEF Moves
  <2>3. k \in There /\ cloud[k].what[2] = 0 BY <1>b, <2>2 DEF Named, Whole
  <2>4. cloud' = [cloud EXCEPT ![k] = [cloud[k] EXCEPT !.deep = ~@]] BY <2>2
  <2> QED BY <2>1, <2>3, <2>4 DEF Outside, CloudMoves, HandlesMove, DoubtsMove
<1>28. CASE FolderBegins(o) BY <1>c, <1>28 DEF FolderBegins
<1>29. CASE SyncBegins(o) BY <1>c, <1>29 DEF SyncBegins
<1>30. CASE Reads(o) BY <1>c, <1>30 DEF Reads
<1> QED BY <1>1, <1>2, <1>3, <1>4, <1>5, <1>6, <1>7, <1>8, <1>9, <1>10, <1>11, <1>12, <1>13, <1>14, <1>15, <1>16, <1>17, <1>18, <1>19, <1>20, <1>21, <1>22, <1>23, <1>24, <1>25, <1>26, <1>27, <1>28, <1>29, <1>30 DEF Work

LEMMA NextOutside ==
  ASSUME Base, NoRename, [Next]_vars
  PROVE  Outside
<1>a. WorldOK BY DEF Base
<1>b. ASSUME cloud' = cloud, parents' = parents, session' = session, doubt' = doubt PROVE Outside
  BY <1>b DEF Outside, CloudMoves, HandlesMove, DoubtsMove
<1>1. ASSUME NEW o \in Ops, Work(o) PROVE Outside BY <1>1, WorkOutside
<1>2. CASE Crash
  <2>1. cloud' = cloud /\ parents' = parents /\ session' = session BY <1>2 DEF Crash, handles
  <2> QED BY <1>2, <2>1 DEF Outside, CloudMoves, HandlesMove, DoubtsMove
<1>3. CASE NewSession
  <2>1. cloud' = cloud /\ parents' = parents /\ doubt' = doubt /\ "session" \in plan.faults
    BY <1>3 DEF NewSession, Trouble
  <2> QED BY <2>1 DEF Outside, CloudMoves, HandlesMove, DoubtsMove
<1>4. ASSUME NEW c \in plan.contents, MemberUploads(c) PROVE Outside
  <2>1. parents' = parents /\ session' = session /\ doubt' = doubt /\ c \notin Big
    BY <1>4 DEF MemberUploads, handles
  <2>2. PICK deep \in BOOLEAN : Stored(Whole(c), Whole(c), deep, 0) BY <1>4 DEF MemberUploads
  <2>3. \E k : Made(k, File(Whole(c), Whole(c), deep, 0)) BY <1>a, <2>2, StoredMade
  <2> QED BY <2>1, <2>3 DEF Outside, CloudMoves, HandlesMove, DoubtsMove
<1>5. ASSUME NEW k \in DOMAIN cloud, MemberDeletes(k) PROVE Outside
  <2>1. /\ parents' = parents /\ session' = session /\ doubt' = doubt
        /\ k \in There /\ cloud[k].what[2] = 0 /\ Emptied(k)
    BY <1>5 DEF MemberDeletes, handles
  <2>2. cloud' = [cloud EXCEPT ![k] = [cloud[k] EXCEPT !.on = FALSE]] BY <2>1 DEF Emptied
  <2> QED BY <2>1, <2>2 DEF Outside, CloudMoves, HandlesMove, DoubtsMove
<1>6. ASSUME NEW k \in DOMAIN cloud, IndexEvent(k) PROVE Outside BY <1>b, <1>6 DEF IndexEvent, handles
<1>7. CASE UNCHANGED vars BY <1>b, <1>7 DEF vars, handles
<1> QED BY <1>1, <1>2, <1>3, <1>4, <1>5, <1>6, <1>7 DEF Next

LEMMA DoubtGrows ==
  ASSUME doubt \in [Doubts -> Nat], DoubtsMove
  PROVE  doubt' \in [Doubts -> Nat] /\ \A p \in Doubts : doubt[p] <= doubt'[p]
<1>1. ASSUME NEW A, doubt' = [p \in DOMAIN doubt |-> doubt[p] + IF p \in A THEN 1 ELSE 0]
      PROVE  doubt' \in [Doubts -> Nat] /\ \A p \in Doubts : doubt[p] <= doubt'[p]
  BY <1>1
<1>2. CASE doubt' = doubt BY <1>2
<1>3. CASE Crash
  <2> DEFINE A == {p \in DOMAIN doubt : \E o \in Ops : at[o] = "mark" /\ \E t \in todo[o] : t = p}
  <2>1. doubt' = [p \in DOMAIN doubt |-> doubt[p] + IF p \in A THEN 1 ELSE 0] BY <1>3 DEF Crash
  <2> HIDE DEF A
  <2> QED BY <1>1, <2>1
<1>4. ASSUME NEW o \in Ops, SyncFailed(o)
      PROVE doubt' \in [Doubts -> Nat] /\ \A p \in Doubts : doubt[p] <= doubt'[p]
  <2> DEFINE A == (Unfilled(key[o]) \cup Uploaded(key[o])) \ done[o]
  <2>1. doubt' = doubt \/ doubt' = [p \in DOMAIN doubt |-> doubt[p] + IF p \in A THEN 1 ELSE 0]
    BY <1>4 DEF SyncFailed
  <2> HIDE DEF A
  <2> QED BY <1>1, <1>2, <2>1
<1>5. ASSUME NEW o \in Ops, Sends(o)
      PROVE doubt' \in [Doubts -> Nat] /\ \A p \in Doubts : doubt[p] <= doubt'[p]
  <2>1. doubt' = doubt \/ doubt' = [p \in DOMAIN doubt |-> doubt[p] + IF p \in {What(o)} THEN 1 ELSE 0]
    BY <1>5 DEF Sends
  <2> QED BY <1>1, <1>2, <2>1
<1> QED BY <1>2, <1>3, <1>4, <1>5 DEF DoubtsMove

LEMMA SameScenario ==
  ASSUME plan' = plan
  PROVE  /\ \A o \in Ops : (Sender(o)' <=> Sender(o)) /\ Kind(o)' = Kind(o) /\ Of(o)' = Of(o)
         /\ Doubts' = Doubts /\ (Alone' <=> Alone)
BY DEF Sender, Replaces, Kind, Of, Doubts, Alone, NoRename, DeletesApart, Taken, OneSender, HandlesLast

(* A file that was ever there keeps what it is; a new one is a part of a
   sender, or a small file. *)
LEMMA CloudGrows ==
  ASSUME WorldOK, CloudMoves, NEW k \in DOMAIN cloud, cloud'[k] # Never
  PROVE  \/ /\ cloud[k] # Never /\ cloud'[k].what = cloud[k].what /\ cloud'[k].name = cloud[k].name
            /\ \/ cloud'[k].on = cloud[k].on
               \/ ~cloud'[k].on /\ (cloud[k].what[2] = 0 \/ cloud[k].what[1] \in Taken)
            /\ cloud[k].what[2] # 0 => cloud'[k].deep = cloud[k].deep
         \/ /\ cloud[k] = Never
            /\ \E c \in plan.contents \ Big : cloud'[k].what = Whole(c) /\ cloud'[k].name = Whole(c)
         \/ /\ cloud[k] = Never
            /\ \E o \in Ops : /\ Sends(o) /\ Sender(o) /\ todo[o] # {} /\ cloud'[k].name = Next1(o)
                              /\ cloud'[k].what = Next1(o) /\ ~cloud'[k].deep /\ cloud'[k].on
<1>1. cloud \in [1..MaxCopies -> Copies(Names) \cup {Never}] BY DEF WorldOK, CloudOK
<1>2. \A j \in DOMAIN cloud : cloud[j] # Never => cloud[j] \in Copies(Names) BY <1>1
<1>3. CASE cloud' = cloud BY <1>3
<1>4. ASSUME NEW j \in There, cloud[j].what[2] = 0 \/ cloud[j].what[1] \in Taken,
             cloud' = [cloud EXCEPT ![j] = [cloud[j] EXCEPT !.on = FALSE]]
      PROVE  /\ cloud[k] # Never /\ cloud'[k].what = cloud[k].what /\ cloud'[k].name = cloud[k].name
             /\ \/ cloud'[k].on = cloud[k].on
                \/ ~cloud'[k].on /\ (cloud[k].what[2] = 0 \/ cloud[k].what[1] \in Taken)
             /\ cloud'[k].deep = cloud[k].deep
  <2>1. j \in DOMAIN cloud /\ cloud[j] # Never BY DEF There, Never
  <2>2. cloud[j] \in Copies(Names) BY <1>2, <2>1
  <2>3. CASE k = j
    <3>1. cloud'[k] = [cloud[j] EXCEPT !.on = FALSE] BY <1>4, <2>1, <2>3
    <3> QED BY <1>4, <2>1, <2>2, <2>3, <3>1 DEF Copies
  <2>4. CASE k # j BY <1>4, <2>4
  <2> QED BY <2>3, <2>4
<1>5. ASSUME NEW j \in There, cloud[j].what[2] = 0,
             cloud' = [cloud EXCEPT ![j] = [cloud[j] EXCEPT !.deep = ~@]]
      PROVE  /\ cloud[k] # Never /\ cloud'[k].what = cloud[k].what /\ cloud'[k].name = cloud[k].name
             /\ cloud'[k].on = cloud[k].on
             /\ cloud[k].what[2] # 0 => cloud'[k].deep = cloud[k].deep
  <2>1. j \in DOMAIN cloud /\ cloud[j] # Never BY DEF There, Never
  <2>2. cloud[j] \in Copies(Names) BY <1>2, <2>1
  <2>3. CASE k = j
    <3>1. cloud'[k] = [cloud[j] EXCEPT !.deep = ~cloud[j].deep] BY <1>5, <2>1, <2>3
    <3> QED BY <1>5, <2>1, <2>2, <2>3, <3>1 DEF Copies
  <2>4. CASE k # j BY <1>5, <2>4
  <2> QED BY <2>3, <2>4
<1>6. ASSUME NEW c \in plan.contents \ Big, NEW deep, NEW z, NEW j, Made(j, File(Whole(c), Whole(c), deep, z))
      PROVE  \/ cloud[k] # Never /\ cloud'[k] = cloud[k]
             \/ cloud[k] = Never /\ cloud'[k].what = Whole(c) /\ cloud'[k].name = Whole(c)
  BY <1>6 DEF Made, Free, File
<1>7. ASSUME NEW o \in Ops, NEW j, Made(j, File(Next1(o), Next1(o), FALSE, zip[o]))
      PROVE  \/ cloud[k] # Never /\ cloud'[k] = cloud[k]
             \/ /\ cloud[k] = Never /\ cloud'[k].name = Next1(o) /\ cloud'[k].what = Next1(o)
                /\ ~cloud'[k].deep /\ cloud'[k].on
  BY <1>7 DEF Made, Free, File
<1> QED BY <1>3, <1>4, <1>5, <1>6, <1>7 DEF CloudMoves

LEMMA NextSentWorld ==
  ASSUME Base, Alone, SentWorld, [Next]_vars
  PROVE  SentWorld' /\ \A p \in Doubts : doubt[p] <= doubt'[p]
<1>a. WorldOK /\ parents \in Seq(plan.contents) BY DEF Base, WorldOK
<1>b. plan' = plan BY SamePlan
<1>c. Outside BY NextOutside DEF Alone
<1>d. DOMAIN cloud' = DOMAIN cloud
  <2>1. WorldOK' BY NextWorld
  <2> QED BY <1>a, <2>1 DEF WorldOK, CloudOK
<1>e. /\ \A o \in Ops : (Sender(o)' <=> Sender(o)) /\ Kind(o)' = Kind(o) /\ Of(o)' = Of(o)
      /\ Doubts' = Doubts
  BY <1>b, SameScenario
<1>f. \A o \in Ops : todo[o] # {} => Next1(o)[1] = Of(o) /\ Next1(o)[2] # 0
  <2>1. ASSUME NEW o \in Ops, todo[o] # {} PROVE Next1(o)[1] = Of(o) /\ Next1(o)[2] # 0
    <3>1. todo[o] \subseteq Parts(Of(o)) BY DEF Base, StageOK
    <3>2. Next1(o) \in todo[o] BY <2>1, <3>1, FirstPart
    <3>3. Next1(o) \in Parts(Of(o)) BY <3>1, <3>2
    <3> QED BY <3>3 DEF Parts
  <2> QED BY <2>1
<1>1. ASSUME NEW k \in Ever', cloud'[k].what[2] # 0
      PROVE  cloud'[k].on /\ ~cloud'[k].deep /\ \E o \in Ops : Sender(o)' /\ Of(o)' = cloud'[k].what[1]
  <2>1. k \in DOMAIN cloud /\ cloud'[k] # Never BY <1>d DEF Ever
  <2>2. ASSUME cloud[k] # Never, cloud'[k].what = cloud[k].what,
               \/ cloud'[k].on = cloud[k].on
               \/ ~cloud'[k].on /\ (cloud[k].what[2] = 0 \/ cloud[k].what[1] \in Taken),
               cloud[k].what[2] # 0 => cloud'[k].deep = cloud[k].deep
        PROVE  cloud'[k].on /\ ~cloud'[k].deep /\ \E o \in Ops : Sender(o)' /\ Of(o)' = cloud'[k].what[1]
    <3>1. k \in Ever BY <2>1, <2>2 DEF Ever
    <3>2. PICK o \in Ops : Sender(o) /\ Of(o) = cloud[k].what[1] BY <1>1, <2>2, <3>1 DEF SentWorld
    <3>3. cloud[k].on /\ ~cloud[k].deep BY <1>1, <2>2, <3>1 DEF SentWorld
    <3>4. cloud[k].what[1] \notin Taken BY <3>2 DEF Alone, DeletesApart, Sender
    <3> QED BY <1>1, <1>e, <2>2, <3>2, <3>3, <3>4
  <2>3. ASSUME NEW c \in plan.contents \ Big, cloud'[k].what = Whole(c) PROVE FALSE
    BY <1>1, <2>3 DEF Whole
  <2>4. ASSUME NEW o \in Ops, Sender(o), todo[o] # {}, cloud'[k].what = Next1(o), ~cloud'[k].deep, cloud'[k].on
        PROVE  cloud'[k].on /\ ~cloud'[k].deep /\ \E q \in Ops : Sender(q)' /\ Of(q)' = cloud'[k].what[1]
    BY <1>e, <1>f, <2>4
  <2> QED BY <1>a, <1>c, <2>1, <2>2, <2>3, <2>4, CloudGrows DEF Outside
<1>2. ASSUME NEW k \in Ever', NEW o \in Ops, Sender(o)', cloud'[k].name = Whole(Of(o)')
      PROVE  Kind(o)' = "convert" /\ k \in DOMAIN plan.holds /\ plan.holds[k] = Of(o)
  <2>1. k \in DOMAIN cloud /\ cloud'[k] # Never BY <1>d DEF Ever
  <2>2. ASSUME cloud[k] # Never, cloud'[k].name = cloud[k].name
        PROVE  Kind(o) = "convert" /\ k \in DOMAIN plan.holds /\ plan.holds[k] = Of(o)
    <3>1. k \in Ever BY <2>1, <2>2 DEF Ever
    <3>2. Sender(o) /\ cloud[k].name = Whole(Of(o)) BY <1>2, <1>e, <2>2
    <3> QED BY <3>1, <3>2 DEF SentWorld
  <2>3. ASSUME NEW c \in plan.contents \ Big, cloud'[k].name = Whole(c) PROVE FALSE
    BY <1>2, <1>e, <2>3 DEF Whole, Sender
  <2>4. ASSUME NEW q \in Ops, todo[q] # {}, cloud'[k].name = Next1(q) PROVE FALSE
    BY <1>2, <1>f, <2>4 DEF Whole
  <2> QED BY <1>a, <1>c, <1>e, <2>1, <2>2, <2>3, <2>4, CloudGrows DEF Outside
<1>3. ASSUME NEW n \in DOMAIN parents' PROVE \E o \in Ops : Sender(o)' /\ Kind(o)' = "upload" /\ Of(o)' = parents'[n]
  <2>1. CASE parents' = parents BY <1>e, <1>3, <2>1 DEF SentWorld
  <2>2. ASSUME NEW o \in Ops, Sender(o), Kind(o) = "upload", parents' = Append(parents, Of(o))
        PROVE  \E q \in Ops : Sender(q)' /\ Kind(q)' = "upload" /\ Of(q)' = parents'[n]
    <3>1. (n \in DOMAIN parents /\ parents'[n] = parents[n]) \/ parents'[n] = Of(o) BY <1>a, <1>3, <2>2
    <3> QED BY <1>e, <2>2, <3>1 DEF SentWorld
  <2> QED BY <1>c, <2>1, <2>2 DEF Outside, HandlesMove
<1>4. session' = 0 \/ "session" \in plan'.faults BY <1>b, <1>c DEF Outside, HandlesMove, SentWorld
<1>5. doubt' \in [Doubts -> Nat] /\ \A p \in Doubts : doubt[p] <= doubt'[p]
  BY <1>c, DoubtGrows DEF SentWorld, Outside
<1> HIDE DEF Ever
<1> QED BY <1>1, <1>2, <1>3, <1>4, <1>5, <1>b, <1>e DEF SentWorld

(* The copies of a part are no more than before, or one is being sent. *)
LEMMA NextCopies ==
  ASSUME Base, Alone, [Next]_vars, NEW p, p[2] # 0
  PROVE  \/ CopiesOf(p)' \subseteq CopiesOf(p)
         \/ \E o \in Ops : /\ Sends(o) /\ Sender(o) /\ todo[o] # {} /\ Next1(o) = p
                           /\ \E k : CopiesOf(p)' \subseteq CopiesOf(p) \cup {k}
<1>a. WorldOK /\ WorldOK' BY NextWorld DEF Base
<1>b. CloudMoves BY NextOutside DEF Alone, Outside
<1>c. DOMAIN cloud' = DOMAIN cloud BY <1>a DEF WorldOK, CloudOK
<1>d. \A k \in DOMAIN cloud : cloud[k] = Never => ~cloud[k].on BY DEF Never
<1>1. ASSUME NEW k \in CopiesOf(p)', k \notin CopiesOf(p)
      PROVE  \E o \in Ops : Sends(o) /\ Sender(o) /\ todo[o] # {} /\ Next1(o) = p
  <2>1. k \in DOMAIN cloud /\ cloud'[k].on /\ cloud'[k].what = p BY <1>1, <1>c DEF CopiesOf, There
  <2>2. cloud'[k] # Never BY <2>1 DEF Never
  <2>3. cloud[k].on => cloud[k].what # p BY <1>1, <2>1 DEF CopiesOf, There
  <2>4. \A c : Whole(c) # p BY DEF Whole
  <2> QED BY <1>a, <1>b, <2>1, <2>2, <2>3, <2>4, CloudGrows
<1>2. ASSUME NEW o \in Ops, Sends(o), todo[o] # {}
      PROVE  \E k : CopiesOf(p)' \subseteq CopiesOf(p) \cup {k}
  <2>1. Stored(What(o), Name(o), FALSE, zip[o]) BY <1>2 DEF Sends
  <2>2. PICK k : Made(k, File(What(o), Name(o), FALSE, zip[o])) BY <1>a, <2>1, StoredMade
  <2>3. \A j \in DOMAIN cloud : j # k => cloud'[j] = cloud[j] BY <2>2 DEF Made
  <2> QED BY <1>c, <2>3 DEF CopiesOf, There
<1> QED BY <1>1, <1>2

-----------------------------------------------------------------------------
(* The ledger of the parts.  Between the sending of a part and its mark its *)
(* copy is known to the operation alone; from the mark on a volume tells it; *)
(* what neither tells is doubted.                                           *)

Has(vs, k, p) == \E v \in vs : v.parent = k /\ v.part = p
Up(vs, k, p) == \E v \in vs : v.parent = k /\ v.part = p /\ v.status = "uploaded"
Reffed(vs, k, p) == \A v \in vs : v.parent = k /\ v.part = p => v.ref # NoRef

SenderOK(o) ==
  /\ IF at[o] = "keep" THEN saved[o] = NoRef ELSE saved[o] = key[o]
  /\ at[o] \in {"send", "mark"} => todo[o] # {} /\ Next1(o) \notin done[o]
  /\ key[o] # NoRef => Titles[key[o]] = Whole(Of(o))
  /\ Kind(o) = "convert" /\ key[o] # NoRef =>
       \E k \in DOMAIN plan.holds : plan.holds[k] = Of(o) /\ key[o] = <<k, 0>>

(* What is listed under the name of a sender's parent has its handle. *)
LEMMA ListedParent ==
  ASSUME Base, Alone, SentWorld, NEW o \in Ops, Sender(o), SenderOK(o), key[o] # NoRef,
         NEW it \in ItemSet(Names, Handles, Titles), it.name = Titles[key[o]]
  PROVE  it.ref = key[o]
<1>1. /\ it.ref \in Nat \X Nat /\ it.ref[1] # 0 /\ it.ref[1] \in DOMAIN cloud /\ cloud[it.ref[1]] # Never
      /\ it.ref[2] <= session /\ it.name = cloud[it.ref[1]].name
  <2>1. it.ref \in Handles /\ it.name = Titles[it.ref] /\ it.ref[1] # 0 BY DEF ItemSet, RowSet
  <2> QED BY <2>1 DEF Handles, Titles
<1>2. it.ref[1] \in Ever /\ cloud[it.ref[1]].name = Whole(Of(o)) BY <1>1 DEF Ever, SenderOK
<1>3. Kind(o) = "convert" /\ it.ref[1] \in DOMAIN plan.holds /\ plan.holds[it.ref[1]] = Of(o)
  BY <1>2 DEF SentWorld
<1>4. PICK k \in DOMAIN plan.holds : plan.holds[k] = Of(o) /\ key[o] = <<k, 0>> BY <1>3 DEF SenderOK
<1>5. k = it.ref[1] BY <1>3, <1>4, FilesAssumption DEF FilesAssumption, Base, WorldOK
<1>6. session = 0 BY <1>3 DEF SentWorld, Alone, HandlesLast
<1>7. it.ref[2] = 0 BY <1>1, <1>6
<1>8. it.ref = <<it.ref[1], it.ref[2]>> BY <1>1
<1> QED BY <1>4, <1>5, <1>7, <1>8

(* Two senders have parents of different contents. *)
LEMMA OwnParent ==
  ASSUME Base, Alone, NEW o \in Ops, Sender(o), key[o] # NoRef, NEW q \in Ops, Sender(q), key[q] = key[o]
  PROVE  q = o
<1>1. KeyOK(o, key[o]) /\ KeyOK(q, key[q]) BY DEF Base, KeysOK, Sender, Replaces
<1>2. Of(o) = Of(q) BY <1>1 DEF KeyOK
<1> QED BY <1>2 DEF Alone, OneSender

LEMMA NoParentZero ==
  ASSUME WorldOK'
  PROVE  NoRef \notin Handles'
<1>1. parents' \in Seq(plan'.contents) BY DEF WorldOK
<1> QED BY <1>1 DEF NoRef, Handles

(* What becomes of the volumes of a sender's parent. *)
Carried(o) ==
  \A v \in vols : v.parent = key[o] =>
    \E w \in vols' : /\ w.parent = v.parent /\ w.part = v.part
                     /\ v.ref # NoRef => w.ref # NoRef
                     /\ v.status = "uploaded" =>
                          w.status = "uploaded" \/ (PartStarts(o) /\ Next1(o) = v.part)

LEMMA NextVols ==
  ASSUME Base, Alone, SentWorld, TableOK(ByName, PartNames), OnePart(vols), [Next]_vars,
         NEW o \in Ops, Sender(o), SenderOK(o), key[o] # NoRef
  PROVE  Carried(o)
<1> DEFINE k == key[o]
           H == Handles'
           T == Titles'
           R == GoodRows(Names, H, ByName, T)
           V == GoodVols(PartNames, H, T, PartNames)
<1>1. WorldOK' /\ Grow /\ plan' = plan BY NextWorld, SamePlan
<1>2. WorldOK /\ LocalOK /\ \A q \in Ops : StageOK(q) /\ KeysOK(q) /\ TargetOK(q) /\ SeenOK(q) BY DEF Base
<1>3. k \in Handles /\ Titles[k] = Whole(Of(o)) /\ T[k] = Whole(Of(o)) /\ k \in H
  <2>1. KeyOK(o, key[o]) BY <1>2 DEF KeysOK, Sender, Replaces
  <2> QED BY <1>1, <2>1 DEF KeyOK, SenderOK, Grow
<1>4. H \subseteq H /\ Handles \subseteq H /\ \A h \in Handles : T[h] = Titles[h] BY <1>1 DEF Grow
<1>5. rows \in Seq(R) /\ vols \in SUBSET V
  <2>1. GoodRows(Names, Handles, ByName, Titles) \subseteq R BY <1>4, GoodGrows
  <2>2. GoodVols(PartNames, Handles, Titles, PartNames) \subseteq V BY <1>4, GoodGrows
  <2>3. rows \in Seq(GoodRows(Names, Handles, ByName, Titles)) /\ vols \in SUBSET GoodVols(PartNames, Handles, Titles, PartNames)
    BY DEF TableOK
  <2> HIDE DEF R, V
  <2> QED BY <2>1, <2>2, <2>3, SeqGrows
<1>6. \A h \in H : T[h] \in Names BY <1>1, NextTitles
<1>7. ItemSet(Names, Handles, Titles) \subseteq R
  <2>1. ItemSet(Names, Handles, Titles) \subseteq ItemSet(Names, H, T) BY <1>4, GoodGrows
  <2>2. ItemSet(Names, H, T) \subseteq R BY <1>4, GoodGrows
  <2> QED BY <2>1, <2>2
<1>8. \A v \in vols : v \in VolSet(PartNames, H) BY <1>5 DEF GoodVols
<1>9. ASSUME NEW items \in Seq(R), \A n \in DOMAIN items : items[n].name = Whole(Of(o)) => items[n].ref = k
      PROVE  Under(vols, k) \subseteq Upserted(items).vols
  <2>1. \A n \in DOMAIN items : items[n].name = T[k] => items[n].ref = k BY <1>3, <1>9
  <2>2. items \in Seq(GoodRows(Names, H, ByName, T)) BY <1>9
  <2>3. rows \in Seq(GoodRows(Names, H, ByName, T)) /\ vols \in SUBSET GoodVols(PartNames, H, T, PartNames) BY <1>5
  <2> HIDE DEF H, T, R, V, k
  <2> QED BY ONLY <1>6, <2>1, <2>2, <2>3, NamesExact, UpsertedSpares, SMTT(60)
<1>10. \A it \in ItemSet(Names, Handles, Titles) : it.name = Whole(Of(o)) => it.ref = k
  BY <1>3, ListedParent
<1>11. ASSUME NEW q \in Ops, Sender(q), key[q] = k PROVE q = o BY <1>11, OwnParent
<1>a. ASSUME Under(vols, k) \subseteq vols' PROVE Carried(o) BY <1>a DEF Carried, Under
<1>b. ASSUME UNCHANGED vols PROVE Carried(o) BY <1>b DEF Carried
<1> HIDE DEF H, T, R, V
<1>12. ASSUME NEW q \in Ops, Work(q) PROVE Carried(o)
<2>1. CASE Submit(q) BY <1>b, <2>1 DEF Submit, table
<2>2. CASE Fails(q) BY <1>b, <2>2 DEF Fails, table
<2>3. CASE Pauses(q) BY <1>b, <2>3 DEF Pauses, table
<2>4. CASE Resumes(q) BY <1>b, <2>4 DEF Resumes, table
<2>5. CASE SyncStarts(q) BY <1>b, <2>5 DEF SyncStarts, table
<2>6. CASE SyncLists(q) BY <1>b, <2>6 DEF SyncLists, table
<2>7. CASE SyncListsDeep(q) BY <1>b, <2>7 DEF SyncListsDeep, table
<2>8. CASE SyncIndexes(q)
    <3>1. seen[q] \in Seq(ItemSet(Names, Handles, Titles)) BY <1>2 DEF SeenOK
    <3>2. seen[q] \in Seq(R) BY <1>7, <3>1, SeqGrows
    <3>3. \A n \in DOMAIN seen[q] : seen[q][n] \in ItemSet(Names, Handles, Titles) BY <3>1
    <3>4. Under(vols, k) \subseteq Upserted(seen[q]).vols BY <1>9, <1>10, <3>2, <3>3
    <3>5. vols' = vols \/ vols' = Upserted(seen[q]).vols BY <2>8 DEF SyncIndexes, table
    <3> QED BY <1>a, <1>b, <3>4, <3>5
<2>9. CASE SyncPrunes(q) BY <1>b, <2>9 DEF SyncPrunes, table
<2>10. CASE SyncEnds(q)
    <3>1. vols' = vols \/ vols' = Filled(key[q]) BY <2>10 DEF SyncEnds
    <3>2. CASE vols' = Filled(key[q])
      <4> DEFINE i(v) == CHOOSE i \in DOMAIN rows : Live(i) /\ rows[i].name = v.part
                 f(v) == IF v.parent = key[q] /\ \E j \in DOMAIN rows : Live(j) /\ rows[j].name = v.part
                         THEN [v EXCEPT !.ref = rows[i(v)].ref] ELSE v
      <4>1. ASSUME NEW v \in vols
            PROVE  /\ f(v) \in vols' /\ f(v).parent = v.parent /\ f(v).part = v.part /\ f(v).status = v.status
                   /\ v.ref # NoRef => f(v).ref # NoRef
        <5>1. f(v) \in vols' BY <3>2 DEF Filled
        <5>2. v \in VolSet(PartNames, H) BY <1>8
        <5>3. CASE v.parent = key[q] /\ \E j \in DOMAIN rows : Live(j) /\ rows[j].name = v.part
          <6>1. i(v) \in DOMAIN rows BY <5>3
          <6>2. f(v) = [v EXCEPT !.ref = rows[i(v)].ref] BY <5>3
          <6> HIDE DEF i, f
          <6>3. rows[i(v)] \in R BY <1>5, <6>1
          <6>4. rows[i(v)].ref \in H BY <6>3 DEF R, GoodRows, RowSet
          <6>5. NoRef \notin H BY <1>1, NoParentZero DEF H
          <6> QED BY <5>1, <5>2, <6>2, <6>4, <6>5 DEF VolSet
        <5>4. CASE ~(v.parent = key[q] /\ \E j \in DOMAIN rows : Live(j) /\ rows[j].name = v.part)
          <6>1. f(v) = v BY <5>4
          <6> QED BY <5>1, <6>1
        <5> QED BY <5>3, <5>4
      <4> HIDE DEF f
      <4> QED BY <4>1 DEF Carried
    <3> QED BY <1>b, <3>1, <3>2
<2>11. CASE SyncFailed(q) BY <1>b, <2>11 DEF SyncFailed, table
<2>12. CASE UploadBegins(q)
    <3> DEFINE new == Row(<<0, Len(parents) + 1>>, Whole(Of(q)), "parent")
    <3>1. CASE UNCHANGED vols BY <1>b, <3>1
    <3>2. CASE /\ Kind(q) = "upload" /\ Of(q) \in Big /\ key[q] = NoRef /\ parents' = Append(parents, Of(q))
               /\ vols' = Upserted(<<new>>).vols
      <4>1. <<new>> \in Seq(R) BY <1>2, <3>2, NewParent DEF R, H, T
      <4>2. q # o /\ Sender(q) BY <3>2 DEF Sender, Replaces
      <4>3. Of(q) # Of(o) BY <4>2 DEF Alone, OneSender
      <4>4. \A n \in DOMAIN <<new>> : <<new>>[n].name # Whole(Of(o)) BY <4>3 DEF Row, Whole
      <4> HIDE DEF new
      <4> QED BY <1>9, <1>a, <3>2, <4>1, <4>4
    <3> QED BY <2>12, <3>1, <3>2 DEF UploadBegins, table
<2>13. CASE UploadKeeps(q) BY <1>b, <2>13 DEF UploadKeeps, table
<2>14. CASE ConvertBegins(q) BY <1>b, <2>14 DEF ConvertBegins, table
<2>15. CASE Downloads(q) BY <1>b, <2>15 DEF Downloads, table
<2>16. CASE Splits(q)
    <3>1. at[q] = "split" /\ vols' = Inserted(key[q], Of(q), zip[q] + 1) BY <2>16 DEF Splits
    <3>2. Sender(q) BY <1>2, <3>1 DEF StageOK, Sending, Sender
    <3>3. CASE key[q] # k
      <4>1. Under(vols, k) \subseteq vols' BY <3>1, <3>3 DEF Under, Inserted
      <4> QED BY <1>a, <4>1
    <3>4. CASE key[q] = k
      <4>1. q = o BY <1>11, <3>2, <3>4
      <4> DEFINE had == {v \in vols : v.parent = k}
                 status(p) == IF \E v \in had : v.part = p /\ v.status = "uploaded" THEN "uploaded" ELSE "pending"
                 ref(p) == IF \E v \in had : v.part = p THEN (CHOOSE v \in had : v.part = p).ref ELSE NoRef
                 new(p) == [parent |-> k, part |-> p, status |-> status(p), ref |-> ref(p), sha |-> zip[o] + 1]
      <4>2. \A p \in Parts(Of(o)) : new(p) \in vols' BY <3>1, <4>1 DEF Inserted
      <4>3. ASSUME NEW v \in vols, v.parent = k
            PROVE  /\ new(v.part) \in vols' /\ new(v.part).parent = v.parent /\ new(v.part).part = v.part
                   /\ new(v.part).ref = v.ref /\ (v.status = "uploaded" => new(v.part).status = "uploaded")
        <5>1. v.part \in PartNames /\ v.part[1] = T[k][1] BY <1>5, <4>3 DEF V, GoodVols, VolSet
        <5>2. v.part \in Parts(Of(o))
          <6>1. v.part[1] = Of(o) BY <1>3, <5>1 DEF Whole
          <6>2. v.part = <<v.part[1], v.part[2]>> /\ v.part[2] \in {1, 2} BY <5>1 DEF PartNames
          <6> QED BY <6>1, <6>2 DEF Parts, Sender
        <5>3. v \in had BY <4>3
        <5>4. \A w \in had : w.part = v.part => w = v BY <4>3 DEF OnePart
        <5>5. ref(v.part) = v.ref BY <5>3, <5>4
        <5>6. v.status = "uploaded" => status(v.part) = "uploaded" BY <5>3
        <5> HIDE DEF status, ref
        <5> QED BY <4>2, <4>3, <5>2, <5>5, <5>6
      <4> HIDE DEF new
      <4> QED BY <4>3 DEF Carried
    <3> QED BY <3>3, <3>4
<2>17. CASE PartStarts(q)
    <3> DEFINE f(v) == IF v.parent = key[q] /\ v.part = Next1(q)
                       THEN [v EXCEPT !.status = "uploading", !.sha = IF "uploading" = "uploaded" THEN 0 ELSE @] ELSE v
    <3>1. CASE UNCHANGED vols BY <1>b, <3>1
    <3>2. CASE at[q] = "part" /\ vols' = UpdatedPart(key[q], Next1(q), "uploading", 0)
      <4>1. Sender(q) BY <1>2, <3>2 DEF StageOK, Sending, Sender
      <4>2. ASSUME NEW v \in vols, v.parent = k
            PROVE  /\ f(v) \in vols' /\ f(v).parent = v.parent /\ f(v).part = v.part /\ f(v).ref = v.ref
                   /\ (v.status = "uploaded" =>
                                      f(v).status = "uploaded" \/ (PartStarts(o) /\ Next1(o) = v.part))
        <5>1. f(v) \in vols' BY <3>2 DEF UpdatedPart
        <5>2. v \in VolSet(PartNames, H) BY <1>8
        <5>3. CASE v.parent = key[q] /\ v.part = Next1(q)
          <6>1. q = o BY <1>11, <4>1, <4>2, <5>3
          <6>2. f(v) = [v EXCEPT !.status = "uploading", !.sha = IF "uploading" = "uploaded" THEN 0 ELSE @] BY <5>3
          <6> HIDE DEF f
          <6> QED BY <2>17, <5>1, <5>2, <5>3, <6>1, <6>2 DEF VolSet
        <5>4. CASE ~(v.parent = key[q] /\ v.part = Next1(q)) BY <5>1, <5>4
        <5> QED BY <5>3, <5>4
      <4> HIDE DEF f
      <4> QED BY <4>2 DEF Carried
    <3> QED BY <2>17, <3>1, <3>2 DEF PartStarts
<2>18. CASE Sends(q) BY <1>b, <2>18 DEF Sends, table
<2>19. CASE PartEnds(q)
    <3> DEFINE f(v) == IF v.parent = key[q] /\ v.part = Next1(q)
                       THEN [v EXCEPT !.status = "uploaded", !.sha = IF "uploaded" = "uploaded" THEN zip[q] ELSE @] ELSE v
    <3>1. CASE UNCHANGED vols BY <1>b, <3>1
    <3>2. CASE at[q] = "mark" /\ vols' = UpdatedPart(key[q], Next1(q), "uploaded", zip[q])
      <4>1. Sender(q) BY <1>2, <3>2 DEF StageOK, Sending, Sender
      <4>2. ASSUME NEW v \in vols, v.parent = k
            PROVE  /\ f(v) \in vols' /\ f(v).parent = v.parent /\ f(v).part = v.part /\ f(v).ref = v.ref
                   /\ v.status = "uploaded" => f(v).status = "uploaded"
        <5>1. f(v) \in vols' BY <3>2 DEF UpdatedPart
        <5>2. v \in VolSet(PartNames, H) BY <1>8
        <5>3. CASE v.parent = key[q] /\ v.part = Next1(q)
          <6>1. q = o BY <1>11, <4>1, <4>2, <5>3
          <6>2. f(v) = [v EXCEPT !.status = "uploaded", !.sha = IF "uploaded" = "uploaded" THEN zip[q] ELSE @] BY <5>3
          <6> HIDE DEF f
          <6> QED BY <2>19, <5>1, <5>2, <5>3, <6>1, <6>2 DEF VolSet
        <5>4. CASE ~(v.parent = key[q] /\ v.part = Next1(q)) BY <5>1, <5>4
        <5> QED BY <5>3, <5>4
      <4> HIDE DEF f
      <4> QED BY <4>2 DEF Carried
    <3> QED BY <2>19, <3>1, <3>2 DEF PartEnds
<2>20. CASE Stamps(q) BY <1>b, <2>20 DEF Stamps, table
<2>21. CASE DeleteBegins(q) BY <1>b, <2>21 DEF DeleteBegins, table
<2>22. CASE Deletes(q) BY <1>b, <2>22 DEF Deletes, table
<2>23. CASE FindsNothing(q) BY <1>b, <2>23 DEF FindsNothing, table
<2>24. CASE Forgets(q)
    <3> DEFINE r == rows[RowOf(q)]
    <3>1. at[q] = "forget" /\ (vols' = vols \/ vols' = {v \in vols : v.parent # r.ref}) BY <2>24 DEF Forgets
    <3>2. Kind(q) = "delete" BY <1>2, <3>1 DEF StageOK
    <3>3. RowOf(q) \in DOMAIN rows /\ r.name[1] = Of(q) BY <1>2, <3>1, <3>2 DEF TargetOK, RowOf
    <3>4. r \in R BY <1>5, <3>3
    <3>5. r.name = T[r.ref] BY <1>6, <3>4, NamesExact, RowTitled DEF R
    <3>6. Of(q) \in Taken BY <3>2 DEF Taken
    <3>7. Of(o) \notin Taken BY DEF Alone, DeletesApart, Sender
    <3> HIDE DEF r
    <3>8. r.ref # k BY <1>3, <3>3, <3>5, <3>6, <3>7 DEF Whole
    <3>9. Under(vols, k) \subseteq vols' BY <3>1, <3>8 DEF Under
    <3> QED BY <1>a, <3>9
<2>25. CASE RenameBegins(q) BY <1>b, <2>25 DEF RenameBegins, table
<2>26. CASE RenamesRow(q) BY <1>b, <2>26 DEF RenamesRow, table
<2>27. CASE Moves(q) BY <1>b, <2>27 DEF Moves, table
<2>28. CASE FolderBegins(q) BY <1>b, <2>28 DEF FolderBegins, table
<2>29. CASE SyncBegins(q) BY <1>b, <2>29 DEF SyncBegins, table
<2>30. CASE Reads(q) BY <1>b, <2>30 DEF Reads, table
<2> QED BY <2>1, <2>2, <2>3, <2>4, <2>5, <2>6, <2>7, <2>8, <2>9, <2>10, <2>11, <2>12, <2>13, <2>14, <2>15, <2>16, <2>17, <2>18, <2>19, <2>20, <2>21, <2>22, <2>23, <2>24, <2>25, <2>26, <2>27, <2>28, <2>29, <2>30, <1>12 DEF Work
<1>13. ASSUME NEW j \in DOMAIN cloud, IndexEvent(j) PROVE Carried(o)
  <2> DEFINE x == Upserted(<<Item(j)>>)
  <2>1. j \in news /\ vols' = IF x.ok THEN FilledByEvent(x.vols, j) ELSE vols BY <1>13 DEF IndexEvent
  <2>2. cloud[j] # Never BY <1>2, <2>1 DEF WorldOK
  <2>3. Item(j) \in ItemSet(Names, Handles, Titles) /\ Ref(j) \in Handles BY <1>2, <2>2, ItemGood
  <2>4. <<Item(j)>> \in Seq(R) BY <1>7, <2>3
  <2>5. \A n \in DOMAIN <<Item(j)>> : <<Item(j)>>[n].name = Whole(Of(o)) => <<Item(j)>>[n].ref = k
    BY <1>10, <2>3
  <2>6. Under(vols, k) \subseteq x.vols BY <1>9, <2>4, <2>5
  <2>7. CASE x.ok
    <3> DEFINE f(v) == IF v.part = cloud[j].name /\ v.ref = NoRef THEN [v EXCEPT !.ref = Ref(j)] ELSE v
    <3>1. vols' = {f(v) : v \in x.vols} BY <2>1, <2>7 DEF FilledByEvent
    <3>2. ASSUME NEW v \in vols, v.parent = k
          PROVE  /\ f(v) \in vols' /\ f(v).parent = v.parent /\ f(v).part = v.part /\ f(v).status = v.status
                 /\ v.ref # NoRef => f(v).ref # NoRef
      <4>1. v \in x.vols BY <2>6, <3>2 DEF Under
      <4>2. f(v) \in vols' BY <3>1, <4>1
      <4>3. v \in VolSet(PartNames, H) BY <1>8
      <4> QED BY <4>2, <4>3 DEF VolSet
    <3> HIDE DEF f, x
    <3>3. \A v \in vols : v.parent = k => 
             \E w \in vols' : /\ w.parent = v.parent /\ w.part = v.part
                              /\ v.ref # NoRef => w.ref # NoRef
                              /\ v.status = "uploaded" => w.status = "uploaded"
      BY <3>2
    <3> QED BY <3>3 DEF Carried
  <2>8. CASE ~x.ok BY <1>b, <2>1, <2>8
  <2> QED BY <2>7, <2>8
<1>14. CASE Crash BY <1>b, <1>14 DEF Crash, table
<1>15. CASE NewSession BY <1>b, <1>15 DEF NewSession, table
<1>16. ASSUME NEW c \in plan.contents, MemberUploads(c) PROVE Carried(o) BY <1>b, <1>16 DEF MemberUploads, table
<1>17. ASSUME NEW j \in DOMAIN cloud, MemberDeletes(j) PROVE Carried(o) BY <1>b, <1>17 DEF MemberDeletes, table
<1>18. CASE UNCHANGED vars BY <1>b, <1>18 DEF vars
<1> QED BY <1>12, <1>13, <1>14, <1>15, <1>16, <1>17, <1>18 DEF Next

-----------------------------------------------------------------------------
SentBase == Base /\ TableOK(ByName, PartNames) /\ LockOK /\ Distinct(rows) /\ OnePart(vols) /\ SentWorld

LEMMA NextSentBase ==
  ASSUME SentBase, Alone, [Next]_vars
  PROVE  SentBase'
<1>a. Base /\ TableOK(ByName, PartNames) /\ LockOK /\ Distinct(rows) /\ OnePart(vols) /\ SentWorld
  BY DEF SentBase
<1>1. Base' /\ Grow BY <1>a, NextBase
<1>2. plan' = plan BY SamePlan
<1>3. TableOK(ByName, PartNames)'
  <2>1. WorldOK' BY <1>1 DEF Base
  <2>2. \A o \in Ops : RenamesRow(o) => ByName[Renamed(Of(o))] = ByName[rows[target[o]].name]
    BY <1>a DEF RenamesRow, Base, StageOK, NoRename, Alone
  <2>3. \A o \in Ops : PartEnds(o) => Next1(o) \in PartNames BY <1>a, EndedPart
  <2>4. /\ rows' \in Seq(GoodRows(Names, Handles', ByName, Titles'))
        /\ vols' \in SUBSET GoodVols(PartNames, Handles', Titles', PartNames)
    BY <1>a, <1>1, <2>1, <2>2, <2>3, NextTable, NameSorts
  <2>5. Names' = Names /\ PartNames' = PartNames BY <1>2 DEF Names, PartNames
  <2>6. ByName' = ByName BY <2>5 DEF ByName
  <2> QED BY <2>4, <2>5, <2>6 DEF TableOK
<1>4. LockOK' BY <1>a, NextLock
<1>5. Distinct(rows)' /\ OnePart(vols)'
  <2>1. Distinct(rows') /\ OnePart(vols') BY <1>a, NextTyped
  <2> QED BY <2>1 DEF Distinct, OnePart
<1>6. SentWorld' BY <1>a, NextSentWorld
<1> QED BY <1>1, <1>3, <1>4, <1>5, <1>6 DEF SentBase

(* The key a conversion is submitted with is the handle of the original. *)
LEMMA SubmitsKey ==
  ASSUME SentBase, Alone, NEW o \in Ops, Sender(o), Submit(o)
  PROVE  \/ Kind(o) = "upload" /\ key'[o] = key[o]
         \/ /\ Kind(o) = "convert" /\ key'[o] \in Handles /\ Titles[key'[o]] = Whole(Of(o))
            /\ \E k \in DOMAIN plan.holds : plan.holds[k] = Of(o) /\ key'[o] = <<k, 0>>
<1>a. WorldOK /\ LocalOK BY DEF SentBase, Base
<1>1. CASE Kind(o) = "upload" BY <1>1 DEF Submit
<1>2. CASE Kind(o) = "convert"
  <2>1. PICK i \in Convertible(o) : key' = [key EXCEPT ![o] = rows[i].ref] BY <1>2 DEF Submit, Asked
  <2>2. i \in DOMAIN rows /\ rows[i].name = Whole(Of(o)) /\ key'[o] = rows[i].ref
    BY <1>a, <2>1 DEF Convertible, Shown, LocalOK
  <2>3. rows[i] \in GoodRows(Names, Handles, ByName, Titles) BY <2>2 DEF SentBase, TableOK
  <2>4. rows[i].name = Titles[rows[i].ref] /\ rows[i].ref \in Handles
    BY <1>a, <2>3, NamesExact, RowTitled, TitlesIn
  <2> DEFINE h == rows[i].ref
  <2>5. h \in Handles /\ Titles[h] = Whole(Of(o)) /\ key'[o] = h BY <2>2, <2>4
  <2> HIDE DEF h
  <2>6. h = <<h[1], h[2]>> /\ h[1] \in Nat /\ h[2] \in Nat BY <2>5 DEF Handles
  <2>7. CASE h[1] = 0
    <3>1. h[2] \in DOMAIN parents /\ Whole(parents[h[2]]) = Whole(Of(o)) BY <2>5, <2>7 DEF Handles, Titles
    <3>2. parents[h[2]] = Of(o) BY <3>1 DEF Whole
    <3>3. PICK q \in Ops : Sender(q) /\ Kind(q) = "upload" /\ Of(q) = Of(o) BY <3>1, <3>2 DEF SentBase, SentWorld
    <3>4. q = o BY <3>3 DEF Alone, OneSender
    <3> QED BY <1>2, <3>3, <3>4
  <2>8. CASE h[1] # 0
    <3>1. h[1] \in Ever /\ cloud[h[1]].name = Whole(Of(o)) /\ h[2] <= session
      BY <2>5, <2>8 DEF Handles, Titles, Ever
    <3>2. h[1] \in DOMAIN plan.holds /\ plan.holds[h[1]] = Of(o) BY <3>1 DEF SentBase, SentWorld
    <3>3. session = 0 BY <1>2 DEF SentBase, SentWorld, Alone, HandlesLast
    <3>4. h[2] = 0 BY <2>6, <3>1, <3>3
    <3> QED BY <1>2, <2>5, <2>6, <3>2, <3>4
  <2> QED BY <2>7, <2>8
<1> QED BY <1>1, <1>2 DEF Sender, Replaces

(* The rest of the steps leave the key and the ledger as they were. *)
KeyStays(o) == key'[o] = key[o] /\ saved'[o] = saved[o]
InLine(o) ==
  /\ IF at[o] = "keep" THEN saved[o] = NoRef ELSE saved[o] = key[o]
  /\ at[o] \in {"send", "mark"} => todo[o] # {} /\ Next1(o) \notin done[o]

LEMMA WorkInLine ==
  ASSUME Base, NEW o \in Ops, Sender(o), InLine(o), Work(o)
  PROVE  /\ InLine(o)'
         /\ \/ Submit(o)
            \/ KeyStays(o)
            \/ UploadKeeps(o) /\ key'[o] = key[o]
            \/ UploadBegins(o) /\ key'[o] = <<0, Len(parents) + 1>> /\ parents' = Append(parents, Of(o))
<1>a. LocalOK /\ StageOK(o) BY DEF Base
<1>b. Kind(o) \in {"upload", "convert"} /\ Of(o) \in Big BY DEF Sender, Replaces
<1>c. LocalOK' BY <1>a, WorkLocal
<1>d. ASSUME KeyStays(o), at[o] # "keep", at'[o] \notin {"keep", "send", "mark"} PROVE InLine(o)'
  BY <1>d DEF InLine, KeyStays
<1> USE DEF LocalOK, KeyStays
<1>1. CASE Submit(o)
  <2>1. at'[o] = "begin" /\ saved'[o] = key'[o] BY <1>a, <1>1 DEF Submit, Go
  <2> QED BY <1>1, <2>1 DEF InLine
<1>2. CASE Fails(o) BY <1>a, <1>b, <1>d, <1>2 DEF Fails, StageOK, Then, Go, Sync, Raise, Busy
<1>3. CASE Pauses(o) BY <1>a, <1>b, <1>d, <1>3 DEF Pauses, StageOK, Then, Go, Sync, Raise, Busy
<1>4. CASE Resumes(o) BY <1>a, <1>b, <1>d, <1>4 DEF Resumes, StageOK, Then, Go, Sync, Raise, Busy
<1>5. CASE SyncStarts(o) BY <1>a, <1>b, <1>d, <1>5 DEF SyncStarts, StageOK, Then, Go, Sync, Raise, Busy
<1>6. CASE SyncLists(o) BY <1>a, <1>b, <1>d, <1>6 DEF SyncLists, StageOK, Then, Go, Sync, Raise, Busy
<1>7. CASE SyncListsDeep(o) BY <1>a, <1>b, <1>d, <1>7 DEF SyncListsDeep, StageOK, Then, Go, Sync, Raise, Busy
<1>8. CASE SyncIndexes(o) BY <1>a, <1>b, <1>d, <1>8 DEF SyncIndexes, StageOK, Then, Go, Sync, Raise, Busy
<1>9. CASE SyncPrunes(o) BY <1>a, <1>b, <1>d, <1>9 DEF SyncPrunes, StageOK, Then, Go, Sync, Raise, Busy
<1>10. CASE SyncEnds(o) BY <1>a, <1>b, <1>d, <1>10 DEF SyncEnds, StageOK, Then, Go, Sync, Raise, Busy
<1>11. CASE SyncFailed(o) BY <1>a, <1>b, <1>d, <1>11 DEF SyncFailed, StageOK, Then, Go, Sync, Raise, Busy
<1>12. CASE UploadBegins(o)
  <2>1. at[o] = "begin" /\ saved[o] = key[o] /\ saved' = saved BY <1>a, <1>12 DEF UploadBegins, Then, InLine
  <2>2. \/ key' = key /\ at'[o] \in {"failed", "split", "begin"}
        \/ /\ key[o] = NoRef /\ at'[o] = "keep" /\ key' = [key EXCEPT ![o] = <<0, Len(parents) + 1>>]
           /\ parents' = Append(parents, Of(o))
    BY <1>a, <1>b, <1>12 DEF UploadBegins, Then, Go
  <2>3. CASE key' = key /\ at'[o] \in {"failed", "split", "begin"} BY <1>d, <2>1, <2>3
  <2>4. CASE /\ key[o] = NoRef /\ at'[o] = "keep" /\ key' = [key EXCEPT ![o] = <<0, Len(parents) + 1>>]
             /\ parents' = Append(parents, Of(o))
    <3>1. key'[o] = <<0, Len(parents) + 1>> BY <1>a, <2>4
    <3>2. InLine(o)' BY <2>1, <2>4 DEF InLine
    <3> QED BY <1>12, <2>4, <3>1, <3>2
  <2> QED BY <2>2, <2>3, <2>4
<1>13. CASE UploadKeeps(o)
  <2>1. at'[o] = "split" /\ saved'[o] = key[o] /\ key'[o] = key[o] BY <1>a, <1>13 DEF UploadKeeps, Go
  <2> QED BY <1>13, <2>1 DEF InLine
<1>14. CASE ConvertBegins(o) BY <1>a, <1>b, <1>d, <1>14 DEF ConvertBegins, StageOK, Then, Go, Sync, Raise, Busy
<1>15. CASE Downloads(o)
  <2>1. Kind(o) = "convert" BY <1>a, <1>b, <1>15 DEF Downloads, StageOK
  <2>2. at'[o] \in {"split", "failed"} /\ at[o] = "download" BY <1>a, <1>15, <2>1 DEF Downloads, Then, Go
  <2> QED BY <1>d, <1>15, <2>2 DEF Downloads, Then
<1>16. CASE Splits(o) BY <1>a, <1>b, <1>d, <1>16 DEF Splits, StageOK, Then, Go, Sync, Raise, Busy
<1>17. CASE PartStarts(o)
  <2>1. at[o] = "part" /\ key' = key /\ saved' = saved /\ done' = done BY <1>17 DEF PartStarts, Then
  <2>2. CASE at'[o] # "send"
    <3>1. at'[o] \in {"part", "stamp", "send"} BY <1>a, <1>17 DEF PartStarts, Then, Go
    <3> QED BY <1>d, <2>1, <2>2, <3>1
  <2>3. CASE at'[o] = "send"
    <3>1. todo' = todo /\ todo[o] # {} /\ Next1(o) \notin done[o] BY <1>a, <2>3, <1>17 DEF PartStarts, Then, Go
    <3>2. Next1(o)' = Next1(o) BY <3>1 DEF Next1
    <3> QED BY <2>1, <2>3, <3>1, <3>2 DEF InLine
  <2> QED BY <2>2, <2>3
<1>18. CASE Sends(o)
  <2>1. at[o] = "send" /\ todo[o] # {} /\ Next1(o) \notin done[o] BY <1>18 DEF Sends, InLine
  <2>2. Then(o, "mark") \/ Raise(o) BY <1>18, <2>1 DEF Sends
  <2>3. at'[o] \in {"mark", "begin", "failed"} /\ key' = key /\ saved' = saved /\ todo' = todo /\ done' = done
    BY <1>a, <2>2 DEF Then, Raise, Go
  <2>4. Next1(o)' = Next1(o) BY <2>3 DEF Next1
  <2> QED BY <2>1, <2>3, <2>4 DEF InLine
<1>19. CASE PartEnds(o) BY <1>a, <1>b, <1>d, <1>19 DEF PartEnds, StageOK, Then, Go, Sync, Raise, Busy
<1>20. CASE Stamps(o) BY <1>a, <1>b, <1>d, <1>20 DEF Stamps, StageOK, Then, Go, Sync, Raise, Busy
<1>21. CASE DeleteBegins(o) BY <1>a, <1>b, <1>d, <1>21 DEF DeleteBegins, StageOK, Then, Go, Sync, Raise, Busy
<1>22. CASE Deletes(o) BY <1>a, <1>b, <1>d, <1>22 DEF Deletes, StageOK, Then, Go, Sync, Raise, Busy
<1>23. CASE FindsNothing(o) BY <1>a, <1>b, <1>d, <1>23 DEF FindsNothing, StageOK, Then, Go, Sync, Raise, Busy
<1>24. CASE Forgets(o) BY <1>a, <1>b, <1>d, <1>24 DEF Forgets, StageOK, Then, Go, Sync, Raise, Busy
<1>25. CASE RenameBegins(o) BY <1>a, <1>b, <1>d, <1>25 DEF RenameBegins, StageOK, Then, Go, Sync, Raise, Busy
<1>26. CASE RenamesRow(o) BY <1>a, <1>b, <1>d, <1>26 DEF RenamesRow, StageOK, Then, Go, Sync, Raise, Busy
<1>27. CASE Moves(o) BY <1>a, <1>b, <1>d, <1>27 DEF Moves, StageOK, Then, Go, Sync, Raise, Busy
<1>28. CASE FolderBegins(o) BY <1>a, <1>b, <1>d, <1>28 DEF FolderBegins, StageOK, Then, Go, Sync, Raise, Busy
<1>29. CASE SyncBegins(o) BY <1>a, <1>b, <1>d, <1>29 DEF SyncBegins, StageOK, Then, Go, Sync, Raise, Busy
<1>30. CASE Reads(o) BY <1>a, <1>b, <1>d, <1>30 DEF Reads, StageOK, Then, Go, Sync, Raise, Busy
<1> QED BY <1>1, <1>2, <1>3, <1>4, <1>5, <1>6, <1>7, <1>8, <1>9, <1>10, <1>11, <1>12, <1>13, <1>14, <1>15, <1>16, <1>17, <1>18, <1>19, <1>20, <1>21, <1>22, <1>23, <1>24, <1>25, <1>26, <1>27, <1>28, <1>29, <1>30 DEF Work

LEMMA SenderStays ==
  ASSUME SentBase, Alone, [Next]_vars, NEW o \in Ops, Sender(o), SenderOK(o)
  PROVE  SenderOK(o)'
<1>a. Base /\ LocalOK /\ WorldOK /\ KeysOK(o) BY DEF SentBase, Base
<1>b. WorldOK' /\ Grow /\ plan' = plan BY <1>a, NextWorld, SamePlan
<1>c. Kind(o)' = Kind(o) /\ Of(o)' = Of(o) /\ (Sender(o)' <=> Sender(o)) BY <1>b, SameScenario
<1>d. InLine(o) BY DEF SenderOK, InLine
<1>e. Whole(Of(o))' = Whole(Of(o)) BY <1>c DEF Whole
<1> DEFINE Titled(h) == /\ h # NoRef => Titles'[h] = Whole(Of(o))
                        /\ Kind(o) = "convert" /\ h # NoRef =>
                             \E k \in DOMAIN plan.holds : plan.holds[k] = Of(o) /\ h = <<k, 0>>
<1>1. ASSUME InLine(o)', Titled(key'[o]) PROVE SenderOK(o)'
  BY <1>1, <1>b, <1>c, <1>e DEF SenderOK, InLine
<1>2. Titled(key[o])
  <2>1. KeyOK(o, key[o]) BY <1>a DEF KeysOK, Sender, Replaces
  <2> QED BY <1>b, <2>1 DEF SenderOK, KeyOK, Grow
<1> HIDE DEF Titled
<1>3. ASSUME SameAt(o) PROVE SenderOK(o)'
  <2>1. key'[o] = key[o] BY <1>3 DEF SameAt
  <2>2. InLine(o)' BY <1>3, <1>d DEF SameAt, InLine, Next1
  <2> QED BY <1>1, <1>2, <2>1, <2>2
<1>4. ASSUME Work(o) PROVE SenderOK(o)'
  <2>1. /\ InLine(o)'
        /\ \/ Submit(o)
           \/ key'[o] = key[o]
           \/ UploadBegins(o) /\ key'[o] = <<0, Len(parents) + 1>> /\ parents' = Append(parents, Of(o))
    BY <1>4, <1>a, <1>d, WorkInLine DEF KeyStays
  <2>2. CASE Submit(o)
    <3>1. CASE key'[o] = key[o] BY <1>1, <1>2, <2>1, <3>1
    <3>2. CASE /\ Kind(o) = "convert" /\ key'[o] \in Handles /\ Titles[key'[o]] = Whole(Of(o))
               /\ \E k \in DOMAIN plan.holds : plan.holds[k] = Of(o) /\ key'[o] = <<k, 0>>
      <4>1. Titled(key'[o]) BY <1>b, <3>2 DEF Grow, Titled
      <4> QED BY <1>1, <2>1, <4>1
    <3> QED BY <2>2, <3>1, <3>2, SubmitsKey
  <2>3. CASE key'[o] = key[o] BY <1>1, <1>2, <2>1, <2>3
  <2>4. CASE UploadBegins(o) /\ key'[o] = <<0, Len(parents) + 1>> /\ parents' = Append(parents, Of(o))
    <3>1. parents \in Seq(plan.contents) /\ Of(o) \in plan.contents BY <1>a, Scenario DEF WorldOK
    <3>2. Len(parents) + 1 \in DOMAIN parents' /\ parents'[Len(parents) + 1] = Of(o) BY <2>4, <3>1
    <3>3. key'[o] \in Handles' BY <2>4, <3>1, <3>2 DEF Handles
    <3>4. Titles'[key'[o]] = Whole(Of(o)) BY <2>4, <3>2, <3>3 DEF Titles
    <3>5. Kind(o) # "convert" BY <2>4 DEF UploadBegins
    <3> QED BY <1>1, <2>1, <3>4, <3>5 DEF Titled
  <2> QED BY <2>1, <2>2, <2>3, <2>4
<1>5. ASSUME NEW q \in Ops, q # o, Work(q) PROVE SenderOK(o)'
  <2>1. SameAt(o) BY <1>5, <1>a, WorkLocal
  <2> QED BY <1>3, <2>1
<1>6. CASE Crash
  <2>1. key'[o] = saved[o] /\ saved'[o] = saved[o] /\ at'[o] \notin {"keep", "send", "mark"}
    BY <1>6 DEF Crash, Busy
  <2>2. InLine(o)' BY <2>1 DEF InLine
  <2>3. saved[o] \in {NoRef, key[o]} BY <1>d DEF InLine
  <2>4. Titled(NoRef) BY DEF Titled
  <2> QED BY <1>1, <1>2, <2>1, <2>2, <2>3, <2>4
<1>7. ASSUME local' = local PROVE SenderOK(o)'
  <2>1. SameAt(o) BY <1>7 DEF SameAt, local
  <2> QED BY <1>3, <2>1
<1>8. CASE NewSession BY <1>7, <1>8 DEF NewSession
<1>9. ASSUME NEW c \in plan.contents, MemberUploads(c) PROVE SenderOK(o)' BY <1>7, <1>9 DEF MemberUploads
<1>10. ASSUME NEW k \in DOMAIN cloud, MemberDeletes(k) PROVE SenderOK(o)' BY <1>7, <1>10 DEF MemberDeletes
<1>11. ASSUME NEW k \in DOMAIN cloud, IndexEvent(k) PROVE SenderOK(o)' BY <1>7, <1>11 DEF IndexEvent
<1>12. CASE UNCHANGED vars BY <1>7, <1>12 DEF vars, local
<1> QED BY <1>4, <1>5, <1>6, <1>8, <1>9, <1>10, <1>11, <1>12 DEF Next

-----------------------------------------------------------------------------
(* How many copies a part has, against the doubts about it. *)
Count(p) == Cardinality(CopiesOf(p))
Once(p) == Count(p) <= 1 + doubt[p]
Few(p) == Count(p) <= doubt[p]

LEMMA CopiesCounted ==
  ASSUME WorldOK, NEW p
  PROVE  /\ IsFiniteSet(CopiesOf(p)) /\ Count(p) \in Nat
         /\ CopiesOf(p) = {} => Count(p) = 0
<1>1. IsFiniteSet(1..MaxCopies)
  <2>1. MaxCopies \in Nat BY Scenario
  <2> QED BY <2>1, FS_Interval
<1>2. CopiesOf(p) \subseteq 1..MaxCopies BY DEF CopiesOf, There, WorldOK, CloudOK
<1>3. IsFiniteSet(CopiesOf(p)) BY <1>1, <1>2, FS_Subset
<1> QED BY <1>3, FS_CardinalityType, FS_EmptySet DEF Count

LEMMA Countable ==
  ASSUME NEW S, IsFiniteSet(S), NEW T
  PROVE  /\ T \subseteq S => Cardinality(T) \in Nat /\ Cardinality(T) <= Cardinality(S)
         /\ \A k : T \subseteq S \cup {k} => Cardinality(T) \in Nat /\ Cardinality(T) <= Cardinality(S) + 1
<1>1. ASSUME NEW R, IsFiniteSet(R), T \subseteq R PROVE Cardinality(T) \in Nat /\ Cardinality(T) <= Cardinality(R)
  <2>1. IsFiniteSet(T) /\ Cardinality(T) <= Cardinality(R) BY <1>1, FS_Subset
  <2> QED BY <2>1, FS_CardinalityType
<1>2. Cardinality(S) \in Nat BY FS_CardinalityType
<1>3. ASSUME NEW k, T \subseteq S \cup {k} PROVE Cardinality(T) \in Nat /\ Cardinality(T) <= Cardinality(S) + 1
  <2>1. IsFiniteSet(S \cup {k}) /\ Cardinality(S \cup {k}) <= Cardinality(S) + 1 BY <1>2, FS_AddElement
  <2>2. Cardinality(S \cup {k}) \in Nat BY <2>1, FS_CardinalityType
  <2>3. Cardinality(T) \in Nat /\ Cardinality(T) <= Cardinality(S \cup {k}) BY <1>1, <1>3, <2>1
  <2> QED BY <1>2, <2>1, <2>2, <2>3
<1> QED BY <1>1, <1>3

LEMMA PartDoubted ==
  ASSUME SentBase, NEW o \in Ops, NEW p \in Parts(Of(o))
  PROVE  p \in Doubts /\ p[1] = Of(o) /\ p[2] # 0 /\ DOMAIN doubt = Doubts /\ doubt[p] \in Nat
<1>1. Of(o) \in plan.contents BY Scenario DEF SentBase, Base, WorldOK
<1>2. p \in Doubts BY <1>1 DEF Doubts
<1>3. p[1] = Of(o) /\ p[2] # 0 BY DEF Parts
<1> QED BY <1>2, <1>3 DEF SentBase, SentWorld

(* What a step does to the count of a part. *)
LEMMA CountMoves ==
  ASSUME SentBase, Alone, [Next]_vars, NEW o \in Ops, Sender(o), NEW p \in Parts(Of(o))
  PROVE  /\ Few(p) => Once(p)'
         /\ Few(p) /\ doubt'[p] = doubt[p] + 1 => Few(p)'
         /\ ~(Sends(o) /\ Next1(o) = p) =>
              /\ CopiesOf(p)' \subseteq CopiesOf(p)
              /\ Few(p) => Few(p)'
              /\ Once(p) => Once(p)'
              /\ Once(p) /\ doubt'[p] = doubt[p] + 1 => Few(p)'
<1>a. Base /\ WorldOK /\ SentWorld BY DEF SentBase, Base
<1>b. /\ (Few(p) <=> Count(p) <= doubt[p]) /\ (Few(p)' <=> Count(p)' <= doubt'[p])
      /\ (Once(p) <=> Count(p) <= 1 + doubt[p]) /\ (Once(p)' <=> Count(p)' <= 1 + doubt'[p])
  BY DEF Few, Once
<1>1. p \in Doubts /\ p[1] = Of(o) /\ p[2] # 0 /\ doubt[p] \in Nat BY PartDoubted
<1>2. doubt'[p] \in Nat /\ doubt[p] <= doubt'[p]
  <2>1. DoubtsMove BY <1>a, NextOutside DEF Alone, Outside
  <2> QED BY <1>a, <1>1, <2>1, DoubtGrows DEF SentWorld
<1>3. IsFiniteSet(CopiesOf(p)) /\ Count(p) \in Nat BY <1>a, CopiesCounted
<1>4. ASSUME CopiesOf(p)' \subseteq CopiesOf(p) PROVE Count(p)' \in Nat /\ Count(p)' <= Count(p)
  BY <1>3, <1>4, Countable DEF Count
<1>5. ASSUME NEW k, CopiesOf(p)' \subseteq CopiesOf(p) \cup {k} PROVE Count(p)' \in Nat /\ Count(p)' <= Count(p) + 1
  BY <1>3, <1>5, Countable DEF Count
<1>6. CASE CopiesOf(p)' \subseteq CopiesOf(p)
  <2>1. /\ Count(p)' \in Nat /\ Count(p)' <= Count(p) /\ Count(p) \in Nat /\ doubt[p] \in Nat
        /\ doubt'[p] \in Nat /\ doubt[p] <= doubt'[p]
    BY <1>1, <1>2, <1>3, <1>4, <1>6
  <2>2. /\ Count(p) <= doubt[p] => Count(p)' <= 1 + doubt'[p]
        /\ Count(p) <= doubt[p] => Count(p)' <= doubt'[p]
        /\ Count(p) <= 1 + doubt[p] => Count(p)' <= 1 + doubt'[p]
        /\ Count(p) <= 1 + doubt[p] /\ doubt'[p] = doubt[p] + 1 => Count(p)' <= doubt'[p]
    BY <2>1
  <2> QED BY <1>b, <1>6, <2>2, Zenon
<1>7. ASSUME NEW q \in Ops, Sends(q), Sender(q), todo[q] # {}, Next1(q) = p,
             NEW k, CopiesOf(p)' \subseteq CopiesOf(p) \cup {k}
      PROVE  /\ Few(p) => Once(p)'
             /\ Few(p) /\ doubt'[p] = doubt[p] + 1 => Few(p)'
             /\ Sends(o) /\ Next1(o) = p
  <2>1. q = o
    <3>1. todo[q] \subseteq Parts(Of(q)) BY <1>a DEF Base, StageOK
    <3>2. Next1(q) \in Parts(Of(q)) BY <1>7, <3>1, FirstPart
    <3>3. Of(q) = Of(o) BY <1>1, <1>7, <3>2 DEF Parts
    <3> QED BY <1>7, <3>3 DEF Alone, OneSender
  <2>2. Count(p)' \in Nat /\ Count(p)' <= Count(p) + 1 BY <1>5, <1>7
  <2>3. /\ Count(p) <= doubt[p] => Count(p)' <= 1 + doubt'[p]
        /\ Count(p) <= doubt[p] /\ doubt'[p] = doubt[p] + 1 => Count(p)' <= doubt'[p]
    BY <1>1, <1>2, <1>3, <2>2
  <2> QED BY <1>b, <1>7, <2>1, <2>3, Zenon
<1> QED BY <1>a, <1>1, <1>6, <1>7, NextCopies

-----------------------------------------------------------------------------
Resuming(o) == at[o] \in InSync /\ why[o] = "resume"
Marking(o, p) == at[o] = "mark" /\ Next1(o) = p
PartOK(o, p) ==
  /\ Once(p)
  /\ Up(vols, key[o], p) \/ Marking(o, p) \/ Few(p)
  /\ at[o] \in {"part", "send", "mark"} /\ p \in todo[o] \ done[o] => Marking(o, p) \/ Few(p)
  /\ at[o] \in {"idle", "keep"} => Few(p)
  /\ at[o] \in {"part", "send", "mark", "stamp"} \/ Resuming(o) => Has(vols, key[o], p)

LEMMA NoneUnder ==
  ASSUME SentBase, NEW p
  PROVE  ~Has(vols, NoRef, p) /\ ~Up(vols, NoRef, p)
<1>1. NoRef \notin Handles BY NoRefIsNone DEF SentBase, Base
<1>2. \A v \in vols : v.parent \in Handles BY DEF SentBase, TableOK, GoodVols, VolSet
<1> QED BY <1>1, <1>2 DEF Has, Up

(* The volumes of a sender's part after a step. *)
LEMMA PartCarried ==
  ASSUME SentBase, Alone, [Next]_vars, NEW o \in Ops, Sender(o), SenderOK(o), key'[o] = key[o], NEW p
  PROVE  /\ Has(vols, key[o], p) => Has(vols', key'[o], p)
         /\ Has(vols, key[o], p) /\ Reffed(vols, key[o], p) => Reffed(vols', key'[o], p)
         /\ Up(vols, key[o], p) /\ ~(PartStarts(o) /\ Next1(o) = p) => Up(vols', key'[o], p)
<1>1. CASE key[o] = NoRef BY <1>1, NoneUnder
<1>2. CASE key[o] # NoRef
  <2>1. Carried(o) BY <1>2, NextVols DEF SentBase
  <2>2. OnePart(vols') BY NextTyped DEF SentBase
  <2>3. Has(vols, key[o], p) => Has(vols', key'[o], p) BY <2>1 DEF Has, Carried
  <2>4. Up(vols, key[o], p) /\ ~(PartStarts(o) /\ Next1(o) = p) => Up(vols', key'[o], p) BY <2>1 DEF Up, Carried
  <2>5. ASSUME Has(vols, key[o], p), Reffed(vols, key[o], p) PROVE Reffed(vols', key'[o], p)
    <3>1. PICK v \in vols : v.parent = key[o] /\ v.part = p BY <2>5 DEF Has
    <3>2. v.ref # NoRef BY <2>5, <3>1 DEF Reffed
    <3>3. PICK w \in vols' : w.parent = key[o] /\ w.part = p /\ w.ref # NoRef BY <2>1, <3>1, <3>2 DEF Carried
    <3>4. \A u \in vols' : u.parent = key'[o] /\ u.part = p => u = w BY <2>2, <3>3 DEF OnePart
    <3> QED BY <3>3, <3>4 DEF Reffed
  <2> QED BY <2>3, <2>4, <2>5
<1> QED BY <1>1, <1>2

(* After the sync of an upload that goes on: a live row has the name of a
   part that is on the cloud, or the part's volume has its ref. *)
ShownOK(o, p) ==
  at[o] = "synced" /\ why[o] = "resume" /\ CopiesOf(p) # {} =>
    Showing(rows, p, Handles) \/ Reffed(vols, key[o], p)

LEMMA WorkParts ==
  ASSUME SentBase, Alone, NEW o \in Ops, Sender(o), SenderOK(o), NEW p \in Parts(Of(o)),
         PartOK(o, p), ShownOK(o, p), Work(o)
  PROVE  PartOK(o, p)'
<1>a. Base /\ WorldOK /\ LocalOK /\ StageOK(o) BY DEF SentBase, Base
<1>b. Kind(o) \in {"upload", "convert"} /\ Of(o) \in Big BY DEF Sender, Replaces
<1>c. [Next]_vars BY DEF Next
<1>d. p \in Doubts /\ p[1] = Of(o) /\ p[2] # 0 /\ DOMAIN doubt = Doubts /\ doubt[p] \in Nat BY PartDoubted
<1>e. /\ Few(p) => Once(p)'
      /\ Few(p) /\ doubt'[p] = doubt[p] + 1 => Few(p)'
      /\ ~(Sends(o) /\ Next1(o) = p) =>
           /\ Few(p) => Few(p)'
           /\ Once(p)'
           /\ doubt'[p] = doubt[p] + 1 => Few(p)'
  BY <1>c, CountMoves DEF PartOK
<1>f. key'[o] = key[o] =>
        /\ Has(vols, key[o], p) => Has(vols', key'[o], p)
        /\ Up(vols, key[o], p) /\ ~(PartStarts(o) /\ Next1(o) = p) => Up(vols', key'[o], p)
  BY <1>c, PartCarried
<1>g. LocalOK' BY <1>a, WorkLocal
<1>h. key[o] = NoRef => ~Up(vols, key[o], p) /\ ~Has(vols, key[o], p) BY NoneUnder
<1>i. Once(p)' /\ (Up(vols', key'[o], p) \/ Marking(o, p)' \/ Few(p)') /\
      (at'[o] \in {"part", "send", "mark"} /\ p \in todo'[o] \ done'[o] => Marking(o, p)' \/ Few(p)') /\
      (at'[o] \in {"idle", "keep"} => Few(p)') /\
      (at'[o] \in {"part", "send", "mark", "stamp"} \/ Resuming(o)' => Has(vols', key'[o], p))
      => PartOK(o, p)'
  BY DEF PartOK, Has, Up
<1>j. /\ Once(p)
      /\ Up(vols, key[o], p) \/ Marking(o, p) \/ Few(p)
      /\ at[o] \in {"part", "send", "mark"} /\ p \in todo[o] \ done[o] => Marking(o, p) \/ Few(p)
      /\ at[o] \in {"idle", "keep"} => Few(p)
      /\ at[o] \in {"part", "send", "mark", "stamp"} \/ Resuming(o) => Has(vols, key[o], p)
  BY DEF PartOK
<1>k. at[o] # "mark" => ~Marking(o, p) BY DEF Marking
<1> USE DEF LocalOK
<1> HIDE DEF Once, Few, Has, Up, Marking, Reffed
(* A step that keeps the key and what the parts tell, or leaves the sending. *)
<1>m. ASSUME key'[o] = key[o], ~Sends(o), ~PartStarts(o), at[o] # "mark",
             at'[o] \notin {"part", "send", "mark", "idle", "keep"},
             at'[o] = "stamp" \/ Resuming(o)' => at[o] \in {"part", "send", "mark", "stamp"} \/ Resuming(o)
      PROVE  PartOK(o, p)'
  <2>1. Up(vols, key[o], p) \/ Few(p) BY <1>m, <1>j, <1>k
  <2>2. Once(p)' /\ (Few(p) => Few(p)') BY <1>m, <1>e
  <2>3. Up(vols', key'[o], p) \/ Few(p)' BY <1>m, <1>f, <2>1, <2>2
  <2>4. at'[o] = "stamp" \/ Resuming(o)' => Has(vols', key'[o], p) BY <1>m, <1>f, <1>j
  <2> QED BY <1>m, <1>i, <2>2, <2>3, <2>4
<1>1. CASE Submit(o)
  <2>1. at[o] = "idle" /\ at'[o] = "begin" /\ ~Sends(o) BY <1>a, <1>1 DEF Submit, Go, Sends
  <2>2. Few(p)' /\ Once(p)' BY <1>e, <1>j, <2>1
  <2>3. ~Resuming(o)' BY <2>1 DEF Resuming, InSync
  <2> QED BY <1>i, <2>1, <2>2, <2>3
<1>2. CASE Fails(o)
  <2>1. ~Sends(o)
    <3> SUFFICES ASSUME Sends(o) PROVE FALSE OBVIOUS
    <3>1. Stored(What(o), Name(o), FALSE, zip[o]) BY DEF Sends
    <3>2. PICK k : Made(k, File(What(o), Name(o), FALSE, zip[o])) BY <1>a, <3>1, StoredMade
    <3>3. cloud' = cloud BY <1>2 DEF Fails
    <3> QED BY <3>2, <3>3 DEF Made, Free, Never, File
  <2>2. /\ at[o] \notin {"mark", "part"} /\ key'[o] = key[o] /\ ~PartStarts(o)
        /\ at'[o] \in {"begin", "failed", "unsynced"}
        /\ at'[o] = "unsynced" => at[o] \in {"list", "deep"} /\ why'[o] = why[o]
    BY <1>a, <1>2 DEF Fails, PartStarts, Then, Go, Raise
  <2>3. Resuming(o)' => Resuming(o) BY <2>2 DEF Resuming, InSync
  <2> QED BY <1>m, <2>1, <2>2, <2>3
<1>3. CASE Pauses(o)
  <2>1. /\ at[o] \notin {"mark"} /\ key'[o] = key[o] /\ ~Sends(o) /\ ~PartStarts(o)
        /\ at'[o] \notin {"part", "send", "mark", "idle", "keep"}
        /\ at'[o] = "stamp" \/ Resuming(o)' => at[o] \in {"part", "send", "mark", "stamp"} \/ Resuming(o)
    BY <1>a, <1>b, <1>3 DEF Pauses, Sends, PartStarts, StageOK, Then, Go, Sync, Raise, Busy, Resuming, InSync
  <2> QED BY <1>m, <2>1
<1>4. CASE Resumes(o)
  <2>1. /\ at[o] \notin {"mark"} /\ key'[o] = key[o] /\ ~Sends(o) /\ ~PartStarts(o)
        /\ at'[o] \notin {"part", "send", "mark", "idle", "keep"}
        /\ at'[o] = "stamp" \/ Resuming(o)' => at[o] \in {"part", "send", "mark", "stamp"} \/ Resuming(o)
    BY <1>a, <1>b, <1>4 DEF Resumes, Sends, PartStarts, StageOK, Then, Go, Sync, Raise, Busy, Resuming, InSync
  <2> QED BY <1>m, <2>1
<1>5. CASE SyncStarts(o)
  <2>1. /\ at[o] \notin {"mark"} /\ key'[o] = key[o] /\ ~Sends(o) /\ ~PartStarts(o)
        /\ at'[o] \notin {"part", "send", "mark", "idle", "keep"}
        /\ at'[o] = "stamp" \/ Resuming(o)' => at[o] \in {"part", "send", "mark", "stamp"} \/ Resuming(o)
    BY <1>a, <1>b, <1>5 DEF SyncStarts, Sends, PartStarts, StageOK, Then, Go, Sync, Raise, Busy, Resuming, InSync
  <2> QED BY <1>m, <2>1
<1>6. CASE SyncLists(o)
  <2>1. /\ at[o] \notin {"mark"} /\ key'[o] = key[o] /\ ~Sends(o) /\ ~PartStarts(o)
        /\ at'[o] \notin {"part", "send", "mark", "idle", "keep"}
        /\ at'[o] = "stamp" \/ Resuming(o)' => at[o] \in {"part", "send", "mark", "stamp"} \/ Resuming(o)
    BY <1>a, <1>b, <1>6 DEF SyncLists, Sends, PartStarts, StageOK, Then, Go, Sync, Raise, Busy, Resuming, InSync
  <2> QED BY <1>m, <2>1
<1>7. CASE SyncListsDeep(o)
  <2>1. /\ at[o] \notin {"mark"} /\ key'[o] = key[o] /\ ~Sends(o) /\ ~PartStarts(o)
        /\ at'[o] \notin {"part", "send", "mark", "idle", "keep"}
        /\ at'[o] = "stamp" \/ Resuming(o)' => at[o] \in {"part", "send", "mark", "stamp"} \/ Resuming(o)
    BY <1>a, <1>b, <1>7 DEF SyncListsDeep, Sends, PartStarts, StageOK, Then, Go, Sync, Raise, Busy, Resuming, InSync
  <2> QED BY <1>m, <2>1
<1>8. CASE SyncIndexes(o)
  <2>1. /\ at[o] \notin {"mark"} /\ key'[o] = key[o] /\ ~Sends(o) /\ ~PartStarts(o)
        /\ at'[o] \notin {"part", "send", "mark", "idle", "keep"}
        /\ at'[o] = "stamp" \/ Resuming(o)' => at[o] \in {"part", "send", "mark", "stamp"} \/ Resuming(o)
    BY <1>a, <1>b, <1>8 DEF SyncIndexes, Sends, PartStarts, StageOK, Then, Go, Sync, Raise, Busy, Resuming, InSync
  <2> QED BY <1>m, <2>1
<1>9. CASE SyncPrunes(o)
  <2>1. /\ at[o] \notin {"mark"} /\ key'[o] = key[o] /\ ~Sends(o) /\ ~PartStarts(o)
        /\ at'[o] \notin {"part", "send", "mark", "idle", "keep"}
        /\ at'[o] = "stamp" \/ Resuming(o)' => at[o] \in {"part", "send", "mark", "stamp"} \/ Resuming(o)
    BY <1>a, <1>b, <1>9 DEF SyncPrunes, Sends, PartStarts, StageOK, Then, Go, Sync, Raise, Busy, Resuming, InSync
  <2> QED BY <1>m, <2>1
<1>10. CASE SyncEnds(o)
  <2>1. /\ at[o] = "synced" /\ key' = key /\ todo' = todo /\ rows' = rows /\ why' = why
        /\ vols' = IF key[o] = NoRef THEN vols ELSE Filled(key[o])
    BY <1>10 DEF SyncEnds
  <2>2. ~Sends(o) /\ ~PartStarts(o) BY <2>1 DEF Sends, PartStarts
  <2>3. CASE why[o] # "resume"
    <3>1. at'[o] = "done" BY <1>a, <1>10, <2>3 DEF SyncEnds, Go
    <3>2. ~Resuming(o)' BY <3>1 DEF Resuming, InSync
    <3> QED BY <1>m, <2>1, <2>2, <3>1, <3>2
  <2>4. CASE why[o] = "resume"
    <3>1. /\ at'[o] = "part"
          /\ done'[o] = {v.part : v \in {x \in vols' : x.parent = key[o] /\ x.status = "uploaded" /\ x.ref # NoRef}}
      BY <1>a, <1>10, <2>4 DEF SyncEnds, Go
    <3>2. Has(vols, key[o], p) /\ key[o] # NoRef BY <1>h, <1>j, <2>1, <2>4 DEF Resuming, InSync
    <3>3. Once(p)' /\ (Few(p) => Few(p)') BY <1>e, <2>2
    <3>4. Has(vols', key'[o], p) BY <1>f, <2>1, <3>2
    <3>5. Up(vols, key[o], p) \/ Few(p) BY <1>j, <1>k, <2>1
    <3>6. Up(vols', key'[o], p) \/ Few(p)' BY <1>f, <2>1, <2>2, <3>3, <3>5
    <3>7. p \notin done'[o] => Few(p)'
      <4>1. CASE Few(p) BY <3>3, <4>1
      <4>2. CASE CopiesOf(p) = {}
        <5>1. Count(p) = 0 BY <1>a, <4>2, CopiesCounted
        <5>2. Few(p) BY <1>d, <5>1 DEF Few
        <5> QED BY <3>3, <5>2
      <4>3. CASE Up(vols, key[o], p) /\ CopiesOf(p) # {}
        <5>1. PICK v \in vols : v.parent = key[o] /\ v.part = p /\ v.status = "uploaded" BY <4>3 DEF Up
        <5>2. Showing(rows, p, Handles) \/ v.ref # NoRef BY <2>1, <2>4, <4>3, <5>1 DEF ShownOK, Reffed
        <5>3. vols' = Filled(key[o]) BY <2>1, <3>2
        <5> DEFINE i == CHOOSE i \in DOMAIN rows : Live(i) /\ rows[i].name = v.part
        <5>4. CASE \E j \in DOMAIN rows : Live(j) /\ rows[j].name = v.part
          <6>1. i \in DOMAIN rows BY <5>4
          <6>2. rows \in Seq(GoodRows(Names, Handles, ByName, Titles)) BY DEF SentBase, TableOK
          <6>3. rows[i].ref # NoRef
            <7>1. rows[i] \in GoodRows(Names, Handles, ByName, Titles) BY <6>1, <6>2
            <7>2. rows[i].ref \in Handles
              <8> HIDE DEF i
              <8> QED BY <7>1 DEF GoodRows, RowSet
            <7> QED BY <1>a, <7>2, NoRefIsNone
          <6> DEFINE w == [v EXCEPT !.ref = rows[i].ref]
          <6>4. w \in vols' BY <5>1, <5>3, <5>4 DEF Filled
          <6>5. v \in VolSet(PartNames, Handles) BY DEF SentBase, TableOK, GoodVols
          <6> HIDE DEF i
          <6>6. w.parent = key[o] /\ w.part = p /\ w.status = "uploaded" /\ w.ref # NoRef
            BY <5>1, <6>3, <6>5 DEF VolSet
          <6> HIDE DEF w
          <6> QED BY <3>1, <6>4, <6>6
        <5>5. CASE ~\E j \in DOMAIN rows : Live(j) /\ rows[j].name = v.part
          <6>1. v \in vols' BY <5>1, <5>3, <5>5 DEF Filled
          <6>2. v.ref # NoRef BY <5>1, <5>2, <5>5 DEF Showing, Live
          <6> QED BY <3>1, <5>1, <6>1, <6>2
        <5> QED BY <5>4, <5>5
      <4> QED BY <3>5, <4>1, <4>2, <4>3
    <3>8. ~Resuming(o)' BY <3>1 DEF Resuming, InSync
    <3> QED BY <1>i, <3>1, <3>3, <3>4, <3>6, <3>7
  <2> QED BY <2>3, <2>4
<1>11. CASE SyncFailed(o)
  <2>1. at[o] = "unsynced" /\ key' = key BY <1>11 DEF SyncFailed, Then, Sync
  <2>2. ~Sends(o) /\ ~PartStarts(o) BY <2>1 DEF Sends, PartStarts
  <2>3. CASE why[o] # "resume"
    <3>1. at'[o] = "done" \/ (at'[o] = "sync" /\ why'[o] = "again") BY <1>a, <1>11, <2>3 DEF SyncFailed, Sync, Go
    <3>2. ~Resuming(o)' BY <3>1 DEF Resuming, InSync
    <3> QED BY <1>m, <2>1, <2>2, <3>1, <3>2
  <2>4. CASE why[o] = "resume"
    <3>1. /\ at'[o] = "part" /\ todo' = todo /\ done' = done
          /\ doubt' = [q \in DOMAIN doubt |-> doubt[q] +
                         IF q \in (Unfilled(key[o]) \cup Uploaded(key[o])) \ done[o] THEN 1 ELSE 0]
      BY <1>a, <1>11, <2>4 DEF SyncFailed, Then, Go
    <3>2. Has(vols, key[o], p) BY <1>j, <2>1, <2>4 DEF Resuming, InSync
    <3>3. Once(p)' /\ (Few(p) => Few(p)') /\ (doubt'[p] = doubt[p] + 1 => Few(p)') BY <1>e, <2>2
    <3>4. Has(vols', key'[o], p) BY <1>f, <2>1, <3>2
    <3>5. Up(vols, key[o], p) \/ Few(p) BY <1>j, <1>k, <2>1
    <3>6. Up(vols', key'[o], p) \/ Few(p)' BY <1>f, <2>1, <2>2, <3>3, <3>5
    <3>7. p \notin done[o] => Few(p)'
      <4>1. CASE Few(p) BY <3>3, <4>1
      <4>2. ASSUME Up(vols, key[o], p), p \notin done[o] PROVE Few(p)'
        <5>1. p \in Unfilled(key[o]) \cup Uploaded(key[o]) BY <4>2 DEF Up, Unfilled, Uploaded
        <5>2. doubt'[p] = doubt[p] + 1 BY <1>d, <3>1, <4>2, <5>1
        <5> QED BY <3>3, <5>2
      <4> QED BY <3>5, <4>1, <4>2
    <3> QED BY <1>i, <3>1, <3>3, <3>4, <3>6, <3>7
  <2> QED BY <2>3, <2>4
<1>12. CASE UploadBegins(o)
  <2>1. at[o] = "begin" BY <1>12 DEF UploadBegins
  <2>2. ~Sends(o) /\ ~PartStarts(o) BY <2>1 DEF Sends, PartStarts
  <2>3. \/ key' = key /\ at'[o] \in {"failed", "split", "begin"}
        \/ key[o] = NoRef /\ at'[o] = "keep"
    BY <1>a, <1>b, <1>12 DEF UploadBegins, Then, Go
  <2>4. CASE key' = key /\ at'[o] \in {"failed", "split", "begin"}
    <3>1. ~Resuming(o)' BY <2>4 DEF Resuming, InSync
    <3> QED BY <1>m, <2>1, <2>2, <2>4, <3>1
  <2>5. CASE key[o] = NoRef /\ at'[o] = "keep"
    <3>1. Few(p) BY <1>h, <1>j, <1>k, <2>1, <2>5
    <3>2. Few(p)' /\ Once(p)' BY <1>e, <2>2, <3>1
    <3>3. ~Resuming(o)' BY <2>5 DEF Resuming, InSync
    <3> QED BY <1>i, <2>5, <3>2, <3>3
  <2> QED BY <2>3, <2>4, <2>5
<1>13. CASE UploadKeeps(o)
  <2>1. /\ at[o] \notin {"mark"} /\ key'[o] = key[o] /\ ~Sends(o) /\ ~PartStarts(o)
        /\ at'[o] \notin {"part", "send", "mark", "idle", "keep"}
        /\ at'[o] = "stamp" \/ Resuming(o)' => at[o] \in {"part", "send", "mark", "stamp"} \/ Resuming(o)
    BY <1>a, <1>b, <1>13 DEF UploadKeeps, Sends, PartStarts, StageOK, Then, Go, Sync, Raise, Busy, Resuming, InSync
  <2> QED BY <1>m, <2>1
<1>14. CASE ConvertBegins(o)
  <2>1. /\ at[o] \notin {"mark"} /\ key'[o] = key[o] /\ ~Sends(o) /\ ~PartStarts(o)
        /\ at'[o] \notin {"part", "send", "mark", "idle", "keep"}
        /\ at'[o] = "stamp" \/ Resuming(o)' => at[o] \in {"part", "send", "mark", "stamp"} \/ Resuming(o)
    BY <1>a, <1>b, <1>14 DEF ConvertBegins, Sends, PartStarts, StageOK, Then, Go, Sync, Raise, Busy, Resuming, InSync
  <2> QED BY <1>m, <2>1
<1>15. CASE Downloads(o)
  <2>1. /\ at[o] \notin {"mark"} /\ key'[o] = key[o] /\ ~Sends(o) /\ ~PartStarts(o)
        /\ at'[o] \notin {"part", "send", "mark", "idle", "keep"}
        /\ at'[o] = "stamp" \/ Resuming(o)' => at[o] \in {"part", "send", "mark", "stamp"} \/ Resuming(o)
    BY <1>a, <1>b, <1>15 DEF Downloads, Sends, PartStarts, StageOK, Then, Go, Sync, Raise, Busy, Resuming, InSync
  <2> QED BY <1>m, <2>1
<1>16. CASE Splits(o)
  <2>1. at[o] = "split" /\ key' = key /\ vols' = Inserted(key[o], Of(o), zip[o] + 1) BY <1>16 DEF Splits
  <2>2. ~Sends(o) /\ ~PartStarts(o) BY <2>1 DEF Sends, PartStarts
  <2>3. done'[o] = Uploaded(key[o]) BY <1>a, <1>16 DEF Splits
  <2>4. at'[o] = "sync" \/ (at'[o] = "part" /\ Unfilled(key[o]) = {}) BY <1>a, <1>16 DEF Splits, Go
  <2>5. Once(p)' /\ (Few(p) => Few(p)') BY <1>e, <2>2
  <2>6. Up(vols, key[o], p) \/ Few(p) BY <1>j, <1>k, <2>1
  <2>7. Up(vols', key'[o], p) \/ Few(p)' BY <1>f, <2>1, <2>2, <2>5, <2>6
  <2>8. Has(vols', key'[o], p)
    <3> DEFINE had == {v \in vols : v.parent = key[o]}
               status(q) == IF \E v \in had : v.part = q /\ v.status = "uploaded" THEN "uploaded" ELSE "pending"
               ref(q) == IF \E v \in had : v.part = q THEN (CHOOSE v \in had : v.part = q).ref ELSE NoRef
               w == [parent |-> key[o], part |-> p, status |-> status(p), ref |-> ref(p), sha |-> zip[o] + 1]
    <3>1. w \in vols' BY <2>1 DEF Inserted
    <3>2. w.parent = key'[o] /\ w.part = p BY <2>1
    <3> HIDE DEF w
    <3> QED BY <3>1, <3>2 DEF Has
  <2>9. Up(vols, key[o], p) /\ Unfilled(key[o]) = {} => p \in Uploaded(key[o])
    BY DEF Up, Uploaded, Unfilled
  <2> QED BY <1>i, <2>3, <2>4, <2>5, <2>6, <2>7, <2>8, <2>9
<1>17. CASE PartStarts(o)
  <2>1. at[o] = "part" /\ key' = key /\ done' = done /\ ~Sends(o) BY <1>17 DEF PartStarts, Then, Sends
  <2>2. at'[o] \in {"part", "send", "stamp"} /\ todo'[o] \subseteq todo[o] /\ (at'[o] = "send" => Next1(o) \in todo[o] \ done[o])
    <3>1. todo[o] # {} => Next1(o) \in todo[o] BY <1>a, FirstPart DEF StageOK
    <3> QED BY <1>a, <3>1, <1>17 DEF PartStarts, Then, Go
  <2>3. Once(p)' /\ (Few(p) => Few(p)') BY <1>e, <2>1
  <2>4. Has(vols', key'[o], p) BY <1>f, <1>j, <2>1
  <2>5. p \in todo'[o] \ done'[o] => Few(p)' BY <1>j, <1>k, <2>1, <2>2, <2>3
  <2>6. Up(vols', key'[o], p) \/ Few(p)'
    <3>1. CASE Next1(o) # p BY <1>f, <1>j, <1>k, <2>1, <2>3, <3>1
    <3>2. CASE at'[o] # "send"
      <4>1. vols' = vols BY <1>a, <1>17, <3>2 DEF PartStarts, Then, Go
      <4> QED BY <1>j, <1>k, <2>1, <2>3, <4>1
    <3>3. CASE Next1(o) = p /\ at'[o] = "send" BY <1>j, <1>k, <2>1, <2>2, <2>3, <3>3
    <3> QED BY <3>1, <3>2, <3>3
  <2> QED BY <1>i, <2>1, <2>2, <2>3, <2>4, <2>5, <2>6
<1>18. CASE Sends(o)
  <2>1. at[o] = "send" /\ todo[o] # {} /\ Next1(o) \notin done[o] /\ vols' = vols BY <1>18 DEF Sends, SenderOK, table
  <2>2. \/ Then(o, "mark")
        \/ Raise(o) /\ doubt' = [q \in DOMAIN doubt |-> doubt[q] + IF q = What(o) THEN 1 ELSE 0]
    BY <1>18, <2>1 DEF Sends
  <2>3. key' = key /\ todo' = todo /\ done' = done /\ ~PartStarts(o) BY <2>1, <2>2 DEF Then, Raise, PartStarts
  <2>4. Next1(o)' = Next1(o) BY <2>3 DEF Next1
  <2>5. Next1(o) \in todo[o] BY <1>a, <2>1, FirstPart DEF StageOK
  <2>6. Has(vols', key'[o], p) BY <1>f, <1>j, <2>1, <2>3
  <2>7. CASE Next1(o) = p
    <3>1. Few(p) BY <1>j, <1>k, <2>1, <2>5, <2>7
    <3>2. Once(p)' BY <1>e, <3>1
    <3>3. CASE Then(o, "mark")
      <4>1. at'[o] = "mark" BY <1>a, <3>3 DEF Then, Go
      <4>2. Marking(o, p)' BY <2>4, <2>7, <4>1 DEF Marking
      <4> QED BY <1>i, <2>6, <3>2, <4>1, <4>2
    <3>4. CASE Raise(o) /\ doubt' = [q \in DOMAIN doubt |-> doubt[q] + IF q = What(o) THEN 1 ELSE 0]
      <4>1. at'[o] \in {"begin", "failed"} BY <1>a, <3>4 DEF Raise, Then, Go
      <4>2. What(o) = p BY <2>1, <2>7 DEF What
      <4>3. doubt'[p] = doubt[p] + 1 BY <1>d, <3>4, <4>2
      <4>4. Few(p)' BY <1>e, <3>1, <4>3
      <4>5. ~Resuming(o)' BY <4>1 DEF Resuming, InSync
      <4> QED BY <1>i, <3>2, <4>1, <4>4, <4>5
    <3> QED BY <2>2, <3>3, <3>4
  <2>8. CASE Next1(o) # p
    <3>1. Once(p)' /\ (Few(p) => Few(p)') BY <1>e, <2>8
    <3>2. Up(vols, key[o], p) \/ Few(p) BY <1>j, <1>k, <2>1
    <3>3. Up(vols', key'[o], p) \/ Few(p)' BY <1>f, <2>3, <3>1, <3>2
    <3>4. p \in todo'[o] \ done'[o] => Few(p)' BY <1>j, <1>k, <2>1, <2>3, <3>1
    <3>5. at'[o] \in {"mark", "begin", "failed"} BY <1>a, <2>2 DEF Then, Raise, Go
    <3> QED BY <1>i, <2>6, <3>1, <3>3, <3>4, <3>5
  <2> QED BY <2>7, <2>8
<1>19. CASE PartEnds(o)
  <2>1. /\ at[o] = "mark" /\ at'[o] = "part" /\ key' = key /\ done' = done /\ todo'[o] = todo[o] \ {Next1(o)}
        /\ vols' = UpdatedPart(key[o], Next1(o), "uploaded", zip[o])
    BY <1>a, <1>19 DEF PartEnds, Go
  <2>2. ~Sends(o) /\ ~PartStarts(o) BY <2>1 DEF Sends, PartStarts
  <2>3. Once(p)' /\ (Few(p) => Few(p)') BY <1>e, <2>2
  <2>4. Has(vols', key'[o], p) BY <1>f, <1>j, <2>1
  <2>5. CASE Next1(o) = p
    <3>1. PICK v \in vols : v.parent = key[o] /\ v.part = p BY <1>j, <2>1 DEF Has
    <3> DEFINE w == [v EXCEPT !.status = "uploaded", !.sha = IF "uploaded" = "uploaded" THEN zip[o] ELSE @]
    <3>2. w \in vols' BY <2>1, <2>5, <3>1 DEF UpdatedPart
    <3>3. v \in VolSet(PartNames, Handles) BY DEF SentBase, TableOK, GoodVols
    <3>4. w.parent = key[o] /\ w.part = p /\ w.status = "uploaded" BY <3>1, <3>3 DEF VolSet
    <3> HIDE DEF w
    <3>5. Up(vols', key'[o], p) BY <2>1, <3>2, <3>4 DEF Up
    <3> QED BY <1>i, <2>1, <2>3, <2>4, <2>5, <3>5
  <2>6. CASE Next1(o) # p
    <3>1. ~Marking(o, p) BY <2>6 DEF Marking
    <3>2. Up(vols', key'[o], p) \/ Few(p)' BY <1>f, <1>j, <2>1, <2>2, <2>3, <3>1
    <3>3. p \in todo'[o] \ done'[o] => Few(p)' BY <1>j, <2>1, <2>3, <3>1
    <3> QED BY <1>i, <2>1, <2>3, <2>4, <3>2, <3>3
  <2> QED BY <2>5, <2>6
<1>20. CASE Stamps(o)
  <2>1. /\ at[o] \notin {"mark"} /\ key'[o] = key[o] /\ ~Sends(o) /\ ~PartStarts(o)
        /\ at'[o] \notin {"part", "send", "mark", "idle", "keep"}
        /\ at'[o] = "stamp" \/ Resuming(o)' => at[o] \in {"part", "send", "mark", "stamp"} \/ Resuming(o)
    BY <1>a, <1>b, <1>20 DEF Stamps, Sends, PartStarts, StageOK, Then, Go, Sync, Raise, Busy, Resuming, InSync
  <2> QED BY <1>m, <2>1
<1>21. CASE DeleteBegins(o)
  <2>1. /\ at[o] \notin {"mark"} /\ key'[o] = key[o] /\ ~Sends(o) /\ ~PartStarts(o)
        /\ at'[o] \notin {"part", "send", "mark", "idle", "keep"}
        /\ at'[o] = "stamp" \/ Resuming(o)' => at[o] \in {"part", "send", "mark", "stamp"} \/ Resuming(o)
    BY <1>a, <1>b, <1>21 DEF DeleteBegins, Sends, PartStarts, StageOK, Then, Go, Sync, Raise, Busy, Resuming, InSync
  <2> QED BY <1>m, <2>1
<1>22. CASE Deletes(o)
  <2>1. /\ at[o] \notin {"mark"} /\ key'[o] = key[o] /\ ~Sends(o) /\ ~PartStarts(o)
        /\ at'[o] \notin {"part", "send", "mark", "idle", "keep"}
        /\ at'[o] = "stamp" \/ Resuming(o)' => at[o] \in {"part", "send", "mark", "stamp"} \/ Resuming(o)
    BY <1>a, <1>b, <1>22 DEF Deletes, Sends, PartStarts, StageOK, Then, Go, Sync, Raise, Busy, Resuming, InSync
  <2> QED BY <1>m, <2>1
<1>23. CASE FindsNothing(o)
  <2>1. /\ at[o] \notin {"mark"} /\ key'[o] = key[o] /\ ~Sends(o) /\ ~PartStarts(o)
        /\ at'[o] \notin {"part", "send", "mark", "idle", "keep"}
        /\ at'[o] = "stamp" \/ Resuming(o)' => at[o] \in {"part", "send", "mark", "stamp"} \/ Resuming(o)
    BY <1>a, <1>b, <1>23 DEF FindsNothing, Sends, PartStarts, StageOK, Then, Go, Sync, Raise, Busy, Resuming, InSync
  <2> QED BY <1>m, <2>1
<1>24. CASE Forgets(o)
  <2>1. /\ at[o] \notin {"mark"} /\ key'[o] = key[o] /\ ~Sends(o) /\ ~PartStarts(o)
        /\ at'[o] \notin {"part", "send", "mark", "idle", "keep"}
        /\ at'[o] = "stamp" \/ Resuming(o)' => at[o] \in {"part", "send", "mark", "stamp"} \/ Resuming(o)
    BY <1>a, <1>b, <1>24 DEF Forgets, Sends, PartStarts, StageOK, Then, Go, Sync, Raise, Busy, Resuming, InSync
  <2> QED BY <1>m, <2>1
<1>25. CASE RenameBegins(o)
  <2>1. /\ at[o] \notin {"mark"} /\ key'[o] = key[o] /\ ~Sends(o) /\ ~PartStarts(o)
        /\ at'[o] \notin {"part", "send", "mark", "idle", "keep"}
        /\ at'[o] = "stamp" \/ Resuming(o)' => at[o] \in {"part", "send", "mark", "stamp"} \/ Resuming(o)
    BY <1>a, <1>b, <1>25 DEF RenameBegins, Sends, PartStarts, StageOK, Then, Go, Sync, Raise, Busy, Resuming, InSync
  <2> QED BY <1>m, <2>1
<1>26. CASE RenamesRow(o)
  <2>1. /\ at[o] \notin {"mark"} /\ key'[o] = key[o] /\ ~Sends(o) /\ ~PartStarts(o)
        /\ at'[o] \notin {"part", "send", "mark", "idle", "keep"}
        /\ at'[o] = "stamp" \/ Resuming(o)' => at[o] \in {"part", "send", "mark", "stamp"} \/ Resuming(o)
    BY <1>a, <1>b, <1>26 DEF RenamesRow, Sends, PartStarts, StageOK, Then, Go, Sync, Raise, Busy, Resuming, InSync
  <2> QED BY <1>m, <2>1
<1>27. CASE Moves(o)
  <2>1. /\ at[o] \notin {"mark"} /\ key'[o] = key[o] /\ ~Sends(o) /\ ~PartStarts(o)
        /\ at'[o] \notin {"part", "send", "mark", "idle", "keep"}
        /\ at'[o] = "stamp" \/ Resuming(o)' => at[o] \in {"part", "send", "mark", "stamp"} \/ Resuming(o)
    BY <1>a, <1>b, <1>27 DEF Moves, Sends, PartStarts, StageOK, Then, Go, Sync, Raise, Busy, Resuming, InSync
  <2> QED BY <1>m, <2>1
<1>28. CASE FolderBegins(o)
  <2>1. /\ at[o] \notin {"mark"} /\ key'[o] = key[o] /\ ~Sends(o) /\ ~PartStarts(o)
        /\ at'[o] \notin {"part", "send", "mark", "idle", "keep"}
        /\ at'[o] = "stamp" \/ Resuming(o)' => at[o] \in {"part", "send", "mark", "stamp"} \/ Resuming(o)
    BY <1>a, <1>b, <1>28 DEF FolderBegins, Sends, PartStarts, StageOK, Then, Go, Sync, Raise, Busy, Resuming, InSync
  <2> QED BY <1>m, <2>1
<1>29. CASE SyncBegins(o)
  <2>1. /\ at[o] \notin {"mark"} /\ key'[o] = key[o] /\ ~Sends(o) /\ ~PartStarts(o)
        /\ at'[o] \notin {"part", "send", "mark", "idle", "keep"}
        /\ at'[o] = "stamp" \/ Resuming(o)' => at[o] \in {"part", "send", "mark", "stamp"} \/ Resuming(o)
    BY <1>a, <1>b, <1>29 DEF SyncBegins, Sends, PartStarts, StageOK, Then, Go, Sync, Raise, Busy, Resuming, InSync
  <2> QED BY <1>m, <2>1
<1>30. CASE Reads(o)
  <2>1. /\ at[o] \notin {"mark"} /\ key'[o] = key[o] /\ ~Sends(o) /\ ~PartStarts(o)
        /\ at'[o] \notin {"part", "send", "mark", "idle", "keep"}
        /\ at'[o] = "stamp" \/ Resuming(o)' => at[o] \in {"part", "send", "mark", "stamp"} \/ Resuming(o)
    BY <1>a, <1>b, <1>30 DEF Reads, Sends, PartStarts, StageOK, Then, Go, Sync, Raise, Busy, Resuming, InSync
  <2> QED BY <1>m, <2>1
<1> QED BY <1>1, <1>2, <1>3, <1>4, <1>5, <1>6, <1>7, <1>8, <1>9, <1>10, <1>11, <1>12, <1>13, <1>14, <1>15, <1>16, <1>17, <1>18, <1>19, <1>20, <1>21, <1>22, <1>23, <1>24, <1>25, <1>26, <1>27, <1>28, <1>29, <1>30 DEF Work

LEMMA SameMoves ==
  ASSUME SentBase, NEW o \in Ops, SenderOK(o), SameAt(o)
  PROVE  ~Sends(o) /\ ~PartStarts(o)
<1>a. LocalOK /\ StageOK(o) BY DEF SentBase, Base
<1> USE DEF LocalOK
<1>1. ASSUME Sends(o) PROVE FALSE
  <2>1. at[o] = "send" /\ todo[o] # {} BY <1>1 DEF Sends, SenderOK
  <2>2. Then(o, "mark") \/ Raise(o) BY <1>1, <2>1 DEF Sends
  <2>3. at'[o] \in {"mark", "begin", "failed"} BY <1>a, <2>2 DEF Then, Raise, Go
  <2> QED BY <2>1, <2>3 DEF SameAt
<1>2. ASSUME PartStarts(o) PROVE FALSE
  <2>1. at[o] = "part" /\ at'[o] = at[o] /\ todo'[o] = todo[o] BY <1>2 DEF PartStarts, SameAt
  <2>2. todo[o] # {} /\ todo'[o] = todo[o] \ {Next1(o)} BY <1>a, <1>2, <2>1 DEF PartStarts, Then, Go
  <2>3. Next1(o) \in todo[o] BY <1>a, <2>2, FirstPart DEF StageOK
  <2> QED BY <2>1, <2>2, <2>3
<1> QED BY <1>1, <1>2

LEMMA PartsStay ==
  ASSUME SentBase, Alone, [Next]_vars, NEW o \in Ops, Sender(o), SenderOK(o), NEW p \in Parts(Of(o)),
         PartOK(o, p), SameAt(o)
  PROVE  PartOK(o, p)'
<1>1. ~Sends(o) /\ ~PartStarts(o) BY SameMoves
<1>2. Once(p)' /\ (Few(p) => Few(p)') BY <1>1, CountMoves DEF PartOK
<1>3. /\ at'[o] = at[o] /\ why'[o] = why[o] /\ key'[o] = key[o] /\ todo'[o] = todo[o] /\ done'[o] = done[o]
      /\ Marking(o, p)' = Marking(o, p) /\ Resuming(o)' = Resuming(o)
  BY DEF SameAt, Marking, Next1, Resuming
<1>4. /\ Has(vols, key[o], p) => Has(vols', key'[o], p)
      /\ Up(vols, key[o], p) => Up(vols', key'[o], p)
  BY <1>1, <1>3, PartCarried
<1>5. Once(p)' /\ (Up(vols', key'[o], p) \/ Marking(o, p)' \/ Few(p)') /\
      (at'[o] \in {"part", "send", "mark"} /\ p \in todo'[o] \ done'[o] => Marking(o, p)' \/ Few(p)') /\
      (at'[o] \in {"idle", "keep"} => Few(p)') /\
      (at'[o] \in {"part", "send", "mark", "stamp"} \/ Resuming(o)' => Has(vols', key'[o], p))
      => PartOK(o, p)'
  BY DEF PartOK, Has, Up
<1>6. /\ Up(vols, key[o], p) \/ Marking(o, p) \/ Few(p)
      /\ at[o] \in {"part", "send", "mark"} /\ p \in todo[o] \ done[o] => Marking(o, p) \/ Few(p)
      /\ at[o] \in {"idle", "keep"} => Few(p)
      /\ at[o] \in {"part", "send", "mark", "stamp"} \/ Resuming(o) => Has(vols, key[o], p)
  BY DEF PartOK
<1> HIDE DEF Once, Few, Has, Up, Marking, Resuming
<1> QED BY <1>2, <1>3, <1>4, <1>5, <1>6

LEMMA CrashParts ==
  ASSUME SentBase, Alone, NEW o \in Ops, Sender(o), SenderOK(o), NEW p \in Parts(Of(o)), PartOK(o, p), Crash
  PROVE  PartOK(o, p)'
<1>a. LocalOK /\ StageOK(o) BY DEF SentBase, Base
<1>b. [Next]_vars BY DEF Next
<1>1. at'[o] \in {"idle", "begin", "paused", "failed", "done"} /\ (at'[o] = "idle" => at[o] = "idle")
  BY DEF Crash, Busy
<1>2. /\ vols' = vols /\ cloud' = cloud /\ key' = saved /\ todo' = todo
      /\ doubt' = [q \in DOMAIN doubt |->
                    doubt[q] + IF \E x \in Ops : at[x] = "mark" /\ \E t \in todo[x] : t = q THEN 1 ELSE 0]
  BY DEF Crash, table
<1>3. p \in Doubts /\ DOMAIN doubt = Doubts BY PartDoubted
<1>4. ~Sends(o)
  <2>1. Sends(o) => at[o] = "send" /\ todo[o] # {} /\ doubt' = [q \in DOMAIN doubt |->
                    doubt[q] + IF \E x \in Ops : at[x] = "mark" /\ \E t \in todo[x] : t = q THEN 1 ELSE 0]
    BY <1>2 DEF Sends, SenderOK
  <2>2. ASSUME Sends(o) PROVE FALSE
    <3>1. Stored(What(o), Name(o), FALSE, zip[o]) BY <2>2 DEF Sends
    <3>2. PICK k : Made(k, File(What(o), Name(o), FALSE, zip[o])) BY <3>1, StoredMade DEF SentBase, Base
    <3> QED BY <1>2, <3>2 DEF Made, Free, Never, File
  <2> QED BY <2>2
<1>5. Once(p)' /\ (Few(p) => Few(p)') /\ (doubt'[p] = doubt[p] + 1 => Few(p)')
  BY <1>b, <1>4, CountMoves DEF PartOK
<1>6. Marking(o, p) => Few(p)'
  <2> SUFFICES ASSUME Marking(o, p) PROVE Few(p)' OBVIOUS
  <2>1. at[o] = "mark" /\ p \in todo[o] BY <1>a, FirstPart DEF Marking, StageOK
  <2>2. \E x \in Ops : at[x] = "mark" /\ \E t \in todo[x] : t = p BY <2>1
  <2>3. doubt'[p] = doubt[p] + 1 BY <1>2, <1>3, <2>2
  <2> QED BY <1>5, <2>3
<1>7. Up(vols', key'[o], p) \/ Few(p)'
  <2>1. CASE at[o] = "keep" BY <1>5, <2>1 DEF PartOK
  <2>2. CASE at[o] # "keep"
    <3>1. key'[o] = key[o] BY <1>2, <2>2 DEF SenderOK
    <3> QED BY <1>2, <1>5, <1>6, <3>1 DEF PartOK
  <2> QED BY <2>1, <2>2
<1>8. at'[o] = "idle" => Few(p)' BY <1>1, <1>5 DEF PartOK
<1>9. ~Resuming(o)' BY <1>1 DEF Resuming, InSync
<1>10. Once(p)' /\ (Up(vols', key'[o], p) \/ Few(p)') /\ (at'[o] \in {"idle", "keep"} => Few(p)')
       /\ at'[o] \notin {"part", "send", "mark", "stamp"} /\ ~Resuming(o)'
       => PartOK(o, p)'
  BY DEF PartOK, Has, Up
<1> QED BY <1>1, <1>5, <1>7, <1>8, <1>9, <1>10

-----------------------------------------------------------------------------
(* What a sync has seen of a part, and what the index shows of it. *)
Watching(o, q) ==
  why[o] = "resume" /\ ((q = o /\ at[o] \in Syncing) \/ (at[o] = "synced" /\ at[q] \in Syncing))
Seeing(o, q, p) ==
  Watching(o, q) /\ CopiesOf(p) # {} =>
    /\ \E n \in DOMAIN seen[q] : seen[q][n].name = p
    /\ at[q] = "prune" => Showing(rows, p, Refs(seen[q])) \/ Reffed(vols, key[o], p)

(* A row that is shown stays, but for the batch and the prune of a sync; an
   event of the part fills the refs. *)
LEMMA ShowingStays ==
  ASSUME SentBase, Alone, [Next]_vars, NEW o \in Ops, Sender(o), NEW p \in Parts(Of(o)),
         \A x \in Ops : at[x] \in {"index", "prune"} => at'[x] = at[x],
         NEW K, Showing(rows, p, K)
  PROVE  Showing(rows', p, K) \/ \A k : Reffed(vols', k, p)
<1> DEFINE H == Handles'
           T == Titles'
           R == GoodRows(Names, H, ByName, T)
           Goal == Showing(rows', p, K) \/ \A k : Reffed(vols', k, p)
<1>a. Base /\ WorldOK /\ LocalOK /\ TableOK(ByName, PartNames) /\ (\A q \in Ops : StageOK(q) /\ TargetOK(q))
  BY DEF SentBase, Base
<1>b. WorldOK' /\ Grow BY <1>a, NextWorld
<1>c. p[1] = Of(o) /\ p[2] # 0 BY PartDoubted
<1>d. Handles \subseteq H /\ \A h \in Handles : T[h] = Titles[h] BY <1>b DEF Grow
<1>e. rows \in Seq(R) /\ vols \in SUBSET GoodVols(PartNames, H, T, PartNames)
  <2>1. GoodRows(Names, Handles, ByName, Titles) \subseteq R BY <1>d, GoodGrows
  <2>2. GoodVols(PartNames, Handles, Titles, PartNames) \subseteq GoodVols(PartNames, H, T, PartNames)
    BY <1>d, GoodGrows
  <2>3. rows \in Seq(GoodRows(Names, Handles, ByName, Titles)) /\ vols \in SUBSET GoodVols(PartNames, Handles, Titles, PartNames)
    BY <1>a DEF TableOK
  <2> HIDE DEF R
  <2> QED BY <2>1, <2>2, <2>3, SeqGrows
<1>f. \A h \in H : T[h] \in Names BY <1>b, NextTitles, SamePlan
<1>g. ItemSet(Names, Handles, Titles) \subseteq R
  <2>1. ItemSet(Names, Handles, Titles) \subseteq ItemSet(Names, H, T) BY <1>d, GoodGrows
  <2>2. ItemSet(Names, H, T) \subseteq R BY <1>d, GoodGrows
  <2> QED BY <2>1, <2>2
<1>h. ASSUME NEW items \in Seq(R), \A n \in DOMAIN items : items[n].name # p
      PROVE  Showing(Upserted(items).rows, p, K)
  <2>1. items \in Seq(GoodRows(Names, H, ByName, T)) BY <1>h
  <2>a. \A n \in DOMAIN items : items[n].name # p BY <1>h
  <2>b. Showing(rows, p, K) OBVIOUS
  <2>2. rows \in Seq(GoodRows(Names, H, ByName, T)) /\ vols \in SUBSET GoodVols(PartNames, H, T, PartNames) BY <1>e
  <2> HIDE DEF H, T, R
  <2> QED BY ONLY <1>f, <2>1, <2>a, <2>b, <2>2, NamesExact, UpsertedLeaves, Zenon
<1> SUFFICES Goal OBVIOUS
<1> HIDE DEF H, T, R
<1>i. ASSUME rows' = rows PROVE Goal BY <1>i
<1>1. ASSUME NEW q \in Ops, Work(q) PROVE Goal
<2>1. CASE Submit(q) BY <1>i, <2>1 DEF Submit, table
<2>2. CASE Fails(q) BY <1>i, <2>2 DEF Fails, table
<2>3. CASE Pauses(q) BY <1>i, <2>3 DEF Pauses, table
<2>4. CASE Resumes(q) BY <1>i, <2>4 DEF Resumes, table
<2>5. CASE SyncStarts(q) BY <1>i, <2>5 DEF SyncStarts, table
<2>6. CASE SyncLists(q) BY <1>i, <2>6 DEF SyncLists, table
<2>7. CASE SyncListsDeep(q) BY <1>i, <2>7 DEF SyncListsDeep, table
<2>8. CASE SyncIndexes(q) BY <1>a, <2>8 DEF SyncIndexes, Then, Go, LocalOK
<2>9. CASE SyncPrunes(q) BY <1>a, <2>9 DEF SyncPrunes, Go, LocalOK
<2>10. CASE SyncEnds(q) BY <1>i, <2>10 DEF SyncEnds, table
<2>11. CASE SyncFailed(q) BY <1>i, <2>11 DEF SyncFailed, table
<2>12. CASE UploadBegins(q)
    <3> DEFINE new == Row(<<0, Len(parents) + 1>>, Whole(Of(q)), "parent")
    <3>1. CASE UNCHANGED table BY <1>i, <3>1 DEF table
    <3>2. CASE parents' = Append(parents, Of(q)) /\ rows' = Upserted(<<new>>).rows
      <4>1. <<new>> \in Seq(R) BY <1>a, <3>2, NewParent DEF R, H, T
      <4>2. \A n \in DOMAIN <<new>> : <<new>>[n].name # p BY <1>c DEF Row, Whole
      <4> HIDE DEF new
      <4> QED BY <1>h, <3>2, <4>1, <4>2
    <3> QED BY <2>12, <3>1, <3>2 DEF UploadBegins, table
<2>13. CASE UploadKeeps(q) BY <1>i, <2>13 DEF UploadKeeps, table
<2>14. CASE ConvertBegins(q) BY <1>i, <2>14 DEF ConvertBegins, table
<2>15. CASE Downloads(q) BY <1>i, <2>15 DEF Downloads, table
<2>16. CASE Splits(q) BY <1>i, <2>16 DEF Splits, table
<2>17. CASE PartStarts(q) BY <1>i, <2>17 DEF PartStarts, table
<2>18. CASE Sends(q) BY <1>i, <2>18 DEF Sends, table
<2>19. CASE PartEnds(q) BY <1>i, <2>19 DEF PartEnds, table
<2>20. CASE Stamps(q)
    <3>1. PICK i \in DOMAIN rows : rows[i].status = "active" /\ rows[i].name = p /\ rows[i].ref \in K BY DEF Showing
    <3>2. rows' = [j \in DOMAIN rows |-> IF rows[j].ref = key[q] THEN [rows[j] EXCEPT !.meta = "whole"] ELSE rows[j]]
      BY <2>20 DEF Stamps
    <3>3. i \in DOMAIN rows' /\ rows'[i] \in {rows[i], [rows[i] EXCEPT !.meta = "whole"]} BY <3>1, <3>2
    <3>4. rows[i] \in R BY <1>e, <3>1
    <3>5. rows[i] \in RowSet(Names, H) BY <3>4 DEF R, GoodRows
    <3>6. rows'[i].status = rows[i].status /\ rows'[i].name = rows[i].name /\ rows'[i].ref = rows[i].ref
      BY <3>3, <3>5 DEF RowSet
    <3> QED BY <3>1, <3>3, <3>6 DEF Showing
<2>21. CASE DeleteBegins(q) BY <1>i, <2>21 DEF DeleteBegins, table
<2>22. CASE Deletes(q) BY <1>i, <2>22 DEF Deletes, table
<2>23. CASE FindsNothing(q) BY <1>i, <2>23 DEF FindsNothing, table
<2>24. CASE Forgets(q)
    <3>1. PICK i \in DOMAIN rows : rows[i].status = "active" /\ rows[i].name = p /\ rows[i].ref \in K BY DEF Showing
    <3>2. at[q] = "forget" /\ rows' = [rows EXCEPT ![RowOf(q)].status = "deleted"] BY <2>24 DEF Forgets
    <3>3. Kind(q) = "delete" BY <1>a, <3>2 DEF StageOK
    <3>4. RowOf(q) \in DOMAIN rows /\ rows[RowOf(q)].name[1] = Of(q) BY <1>a, <3>2, <3>3 DEF TargetOK, RowOf
    <3>5. Of(q) \in Taken /\ Of(o) \notin Taken BY <3>3 DEF Taken, Alone, DeletesApart, Sender
    <3>6. RowOf(q) # i BY <1>c, <3>1, <3>4, <3>5
    <3>7. i \in DOMAIN rows' /\ rows'[i] = rows[i] BY <3>1, <3>2, <3>6
    <3> QED BY <3>1, <3>7 DEF Showing
<2>25. CASE RenameBegins(q) BY <1>i, <2>25 DEF RenameBegins, table
<2>26. CASE RenamesRow(q) BY <1>a, <2>26 DEF RenamesRow, StageOK, Alone, NoRename
<2>27. CASE Moves(q) BY <1>i, <2>27 DEF Moves, table
<2>28. CASE FolderBegins(q) BY <1>i, <2>28 DEF FolderBegins, table
<2>29. CASE SyncBegins(q) BY <1>i, <2>29 DEF SyncBegins, table
<2>30. CASE Reads(q) BY <1>i, <2>30 DEF Reads, table
<2> QED BY <2>1, <2>2, <2>3, <2>4, <2>5, <2>6, <2>7, <2>8, <2>9, <2>10, <2>11, <2>12, <2>13, <2>14, <2>15, <2>16, <2>17, <2>18, <2>19, <2>20, <2>21, <2>22, <2>23, <2>24, <2>25, <2>26, <2>27, <2>28, <2>29, <2>30, <1>1 DEF Work
<1>2. ASSUME NEW j \in DOMAIN cloud, IndexEvent(j) PROVE Goal
  <2> DEFINE x == Upserted(<<Item(j)>>)
  <2>1. j \in news /\ rows' = x.rows /\ vols' = IF x.ok THEN FilledByEvent(x.vols, j) ELSE vols BY <1>2 DEF IndexEvent
  <2>2. cloud[j] # Never BY <1>a, <2>1 DEF WorldOK
  <2>3. Item(j) \in ItemSet(Names, Handles, Titles) /\ Ref(j) \in Handles BY <1>a, <2>2, ItemGood
  <2>4. Item(j).name = cloud[j].name BY DEF Item, Row
  <2>5. CASE cloud[j].name # p
    <3>1. <<Item(j)>> \in Seq(R) BY <1>g, <2>3
    <3>2. \A n \in DOMAIN <<Item(j)>> : <<Item(j)>>[n].name # p BY <2>4, <2>5
    <3> QED BY <1>h, <2>1, <3>1, <3>2
  <2>6. CASE ~x.ok
    <3>1. x.rows = rows BY <2>6 DEF Upserted
    <3> QED BY <1>i, <2>1, <3>1
  <2>7. CASE cloud[j].name = p /\ x.ok
    <3>1. vols' = FilledByEvent(x.vols, j) BY <2>1, <2>7
    <3>2. Ref(j) # NoRef BY <1>a, <2>3, NoRefIsNone
    <3>3. x.vols \in SUBSET GoodVols(PartNames, H, T, PartNames)
      <4>1. <<Item(j)>> \in Seq(R) BY <1>g, <2>3
      <4>2. x \in Tables(R, GoodVols(PartNames, H, T, PartNames)) BY <1>e, <1>f, <4>1, NameSorts, UpsertedGood DEF R
      <4> HIDE DEF x
      <4> QED BY <4>2 DEF Tables
    <3>4. ASSUME NEW v \in vols', v.part = p PROVE v.ref # NoRef
      <4> HIDE DEF x
      <4>1. PICK u \in x.vols : v = IF u.part = p /\ u.ref = NoRef THEN [u EXCEPT !.ref = Ref(j)] ELSE u
        BY <2>7, <3>1 DEF FilledByEvent
      <4>2. u \in VolSet(PartNames, H) BY <3>3 DEF GoodVols
      <4> QED BY <3>2, <3>4, <4>1, <4>2 DEF VolSet
    <3> QED BY <3>4 DEF Reffed
  <2> QED BY <2>5, <2>6, <2>7
<1>3. CASE Crash BY <1>i, <1>3 DEF Crash, table
<1>4. CASE NewSession BY <1>i, <1>4 DEF NewSession, table
<1>5. ASSUME NEW c \in plan.contents, MemberUploads(c) PROVE Goal BY <1>i, <1>5 DEF MemberUploads, table
<1>6. ASSUME NEW j \in DOMAIN cloud, MemberDeletes(j) PROVE Goal BY <1>i, <1>6 DEF MemberDeletes, table
<1>7. CASE UNCHANGED vars BY <1>i, <1>7 DEF vars
<1> HIDE DEF Goal
<1> QED BY <1>1, <1>2, <1>3, <1>4, <1>5, <1>6, <1>7 DEF Next

(* The steps a sync takes. *)
LEMMA SyncsEnd ==
  ASSUME NEW o \in Ops, Base, Work(o)
  PROVE  /\ at'[o] = "synced" => SyncPrunes(o)
         /\ at[o] = "index" => SyncIndexes(o)
         /\ at[o] = "prune" => SyncPrunes(o)
<1>a. LocalOK /\ StageOK(o) BY DEF Base
<1> USE DEF LocalOK, Go, Then, Raise, Sync, StageOK
<1>1. CASE Submit(o) BY <1>a, <1>1 DEF Submit, Busy
<1>2. CASE Fails(o) BY <1>a, <1>2 DEF Fails, Busy
<1>3. CASE Pauses(o) BY <1>a, <1>3 DEF Pauses, Busy
<1>4. CASE Resumes(o) BY <1>a, <1>4 DEF Resumes, Busy
<1>5. CASE SyncStarts(o) BY <1>a, <1>5 DEF SyncStarts, Busy
<1>6. CASE SyncLists(o) BY <1>a, <1>6 DEF SyncLists, Busy
<1>7. CASE SyncListsDeep(o) BY <1>a, <1>7 DEF SyncListsDeep, Busy
<1>8. CASE SyncIndexes(o) BY <1>a, <1>8 DEF SyncIndexes
<1>9. CASE SyncPrunes(o) BY <1>a, <1>9 DEF SyncPrunes
<1>10. CASE SyncEnds(o) BY <1>a, <1>10 DEF SyncEnds, Busy
<1>11. CASE SyncFailed(o) BY <1>a, <1>11 DEF SyncFailed, Busy
<1>12. CASE UploadBegins(o) BY <1>a, <1>12 DEF UploadBegins, Busy
<1>13. CASE UploadKeeps(o) BY <1>a, <1>13 DEF UploadKeeps, Busy
<1>14. CASE ConvertBegins(o) BY <1>a, <1>14 DEF ConvertBegins, Busy
<1>15. CASE Downloads(o) BY <1>a, <1>15 DEF Downloads, Busy
<1>16. CASE Splits(o) BY <1>a, <1>16 DEF Splits, Busy
<1>17. CASE PartStarts(o) BY <1>a, <1>17 DEF PartStarts, Busy
<1>18. CASE Sends(o)
  <2>1. Then(o, "mark") \/ Then(o, "delete") \/ Sync(o, "final") \/ Raise(o) BY <1>18 DEF Sends
  <2>2. at[o] = "send" /\ at'[o] \in {"mark", "delete", "sync", "begin", "failed"}
    BY <1>a, <1>18, <2>1 DEF Sends
  <2> QED BY <2>2
<1>19. CASE PartEnds(o) BY <1>a, <1>19 DEF PartEnds, Busy
<1>20. CASE Stamps(o) BY <1>a, <1>20 DEF Stamps, Busy
<1>21. CASE DeleteBegins(o) BY <1>a, <1>21 DEF DeleteBegins, Busy
<1>22. CASE Deletes(o) BY <1>a, <1>22 DEF Deletes, Busy
<1>23. CASE FindsNothing(o) BY <1>a, <1>23 DEF FindsNothing, Busy
<1>24. CASE Forgets(o) BY <1>a, <1>24 DEF Forgets, Busy
<1>25. CASE RenameBegins(o) BY <1>a, <1>25 DEF RenameBegins, Busy
<1>26. CASE RenamesRow(o) BY <1>a, <1>26 DEF RenamesRow, Busy
<1>27. CASE Moves(o) BY <1>a, <1>27 DEF Moves, Busy
<1>28. CASE FolderBegins(o) BY <1>a, <1>28 DEF FolderBegins, Busy
<1>29. CASE SyncBegins(o) BY <1>a, <1>29 DEF SyncBegins, Busy
<1>30. CASE Reads(o) BY <1>a, <1>30 DEF Reads, Busy
<1> QED BY <1>1, <1>2, <1>3, <1>4, <1>5, <1>6, <1>7, <1>8, <1>9, <1>10, <1>11, <1>12, <1>13, <1>14, <1>15, <1>16, <1>17, <1>18, <1>19, <1>20, <1>21, <1>22, <1>23, <1>24, <1>25, <1>26, <1>27, <1>28, <1>29, <1>30 DEF Work

LEMMA PrunesSpare ==
  ASSUME NEW refs, NEW p, NEW K, K \subseteq refs, Showing(rows, p, K), rows' = Pruned(refs)
  PROVE  Showing(rows', p, K)
<1>1. PICK i \in DOMAIN rows : rows[i].status = "active" /\ rows[i].name = p /\ rows[i].ref \in K BY DEF Showing
<1>2. i \in DOMAIN rows' /\ rows'[i] = rows[i] BY <1>1 DEF Pruned
<1> QED BY <1>1, <1>2 DEF Showing

(* The batch of a sync: what is listed is shown after it, and what was shown
   still is. *)
LEMMA IndexesShow ==
  ASSUME SentBase, NEW q \in Ops, SyncIndexes(q), NEW p
  PROVE  /\ at'[q] = "prune" /\ (\E n \in DOMAIN seen[q] : seen[q][n].name = p) => Showing(rows', p, Refs(seen[q]))
         /\ Showing(rows, p, Handles) => Showing(rows', p, Handles)
<1>a. WorldOK /\ LocalOK /\ SeenOK(q) /\ TableOK(ByName, PartNames) BY DEF SentBase, Base
<1> DEFINE R == GoodRows(Names, Handles, ByName, Titles)
           I == ItemSet(Names, Handles, Titles)
           items == seen[q]
<1>1. I \subseteq R BY GoodGrows
<1>2. items \in Seq(I) BY <1>a DEF SeenOK
<1>3. \A n \in DOMAIN items : items[n] \in I BY <1>2
<1>4. \A n \in DOMAIN items : items[n].status = "active" /\ items[n].ref \in Handles BY <1>3 DEF ItemSet, RowSet
<1> HIDE DEF I
<1>5. items \in Seq(R) BY <1>1, <1>2, SeqGrows
<1>6. rows \in Seq(R) /\ vols \in SUBSET GoodVols(PartNames, Handles, Titles, PartNames) BY <1>a DEF TableOK
<1>7. \A h \in Handles : Titles[h] \in Names BY <1>a, TitlesIn
<1> HIDE DEF items
<1>8. ASSUME at'[q] = "prune", NEW n \in DOMAIN items, items[n].name = p PROVE Showing(rows', p, Refs(items))
  <2>1. Upserted(items).ok /\ rows' = Upserted(items).rows
    BY <1>a, <1>8 DEF SyncIndexes, Then, Go, LocalOK, items
  <2>2. \A m \in DOMAIN items : Showing(Upserted(items).rows, items[m].name, Refs(items))
    BY <1>4, <1>5, <1>6, <1>7, <2>1, NamesExact, UpsertedShows
  <2> QED BY <1>8, <2>1, <2>2
<1>9. ASSUME Showing(rows, p, Handles) PROVE Showing(rows', p, Handles)
  <2>1. rows' = rows \/ rows' = Upserted(items).rows BY DEF SyncIndexes, table, items
  <2>2. \A n \in DOMAIN items : items[n].status = "active" BY <1>4
  <2>3. \A n \in DOMAIN items : items[n].name = p => items[n].ref \in Handles BY <1>4
  <2>4. Showing(Upserted(items).rows, p, Handles)
    BY ONLY <1>5, <1>6, <1>7, <1>9, <2>2, <2>3, NamesExact, UpsertedKeeps, Zenon DEF R
  <2> QED BY <1>9, <2>1, <2>4
<1> QED BY <1>8, <1>9 DEF items

(* A listing of the first level has every part there is. *)
LEMMA ListingHas ==
  ASSUME SentBase, NEW q \in Ops, SyncLists(q), NEW p, p[2] # 0, CopiesOf(p) # {}
  PROVE  \E n \in DOMAIN seen'[q] : seen'[q][n].name = p
<1>a. WorldOK /\ LocalOK /\ SentWorld BY DEF SentBase, Base
<1>1. PICK s \in Listing(FALSE) : seen' = [seen EXCEPT ![q] = s] BY DEF SyncLists
<1>2. Range(s) = Near BY <1>1, ListingGood DEF SentBase, Base, Near
<1>3. PICK k \in There : cloud[k].what = p BY DEF CopiesOf
<1>4. k \in DOMAIN cloud /\ cloud[k] # Never /\ cloud[k].name = p /\ cloud[k].deep = FALSE
  <2>1. k \in DOMAIN cloud /\ cloud[k] # Never BY <1>3 DEF There, Never
  <2>2. cloud[k].name = p BY <1>a, <1>3, CopyIs
  <2>3. ~cloud[k].deep BY <1>a, <1>3, <2>1 DEF SentWorld, Ever
  <2>4. cloud[k].deep \in BOOLEAN BY <1>a, <1>3, CopyIs DEF Copies
  <2> QED BY <2>1, <2>2, <2>3, <2>4
<1>5. Item(k) \in Range(s) BY <1>2, <1>3, <1>4 DEF Near
<1>6. PICK n \in DOMAIN s : s[n] = Item(k) BY <1>5 DEF Range
<1>7. s[n].name = p BY <1>4, <1>6 DEF Item, Row
<1>8. seen'[q] = s BY <1>a, <1>1 DEF LocalOK
<1> QED BY <1>7, <1>8

LEMMA NextSeeing ==
  ASSUME SentBase, Alone, [Next]_vars, NEW o \in Ops, Sender(o), SenderOK(o), NEW p \in Parts(Of(o)), PartOK(o, p),
         NEW q \in Ops, Seeing(o, q, p)
  PROVE  Seeing(o, q, p)'
<1>a. Base /\ WorldOK /\ LocalOK /\ LockOK /\ SeenOK(q) /\ StageOK(o) BY DEF SentBase, Base
<1>b. p[1] = Of(o) /\ p[2] # 0 BY PartDoubted
<1>c. \A x \in Ops : at[x] \in Locked => lock = x BY <1>a DEF LockOK
<1> SUFFICES ASSUME Watching(o, q)', CopiesOf(p)' # {}
             PROVE  /\ \E n \in DOMAIN seen'[q] : seen'[q][n].name = p
                    /\ at'[q] = "prune" => Showing(rows', p, Refs(seen[q])) \/ Reffed(vols', key'[o], p)
                    /\ at'[q] = "prune" => seen'[q] = seen[q]
  BY DEF Seeing, Showing, Reffed, Refs
<1>d. /\ why'[o] = "resume" /\ at'[q] \in Syncing
      /\ (q = o /\ at'[o] \in Syncing) \/ (q # o /\ at'[o] = "synced")
  BY DEF Watching, Syncing
<1> DEFINE Goal == /\ \E n \in DOMAIN seen'[q] : seen'[q][n].name = p
                   /\ at'[q] = "prune" => Showing(rows', p, Refs(seen[q])) \/ Reffed(vols', key'[o], p)
                   /\ at'[q] = "prune" => seen'[q] = seen[q]
<1> SUFFICES Goal OBVIOUS
<1> HIDE DEF Goal
(* A step of neither. *)
<1>1. ASSUME SameAt(o), SameAt(q), \A x \in Ops : at[x] \in {"index", "prune"} => at'[x] = at[x] PROVE Goal
  <2>1. at'[q] = at[q] /\ at'[o] = at[o] /\ why'[o] = why[o] /\ seen'[q] = seen[q] /\ key'[o] = key[o]
    BY <1>1 DEF SameAt
  <2>2. Watching(o, q) BY <1>d, <2>1 DEF Watching
  <2>3. ~Sends(o) BY <1>1, SameMoves
  <2>4. CopiesOf(p) # {} BY <2>3, CountMoves
  <2>5. \E n \in DOMAIN seen[q] : seen[q][n].name = p BY <2>2, <2>4 DEF Seeing
  <2>6. Has(vols, key[o], p) BY <2>2 DEF PartOK, Resuming, Watching, Syncing, InSync
  <2>7. ASSUME at[q] = "prune" PROVE Showing(rows', p, Refs(seen[q])) \/ Reffed(vols', key'[o], p)
    <3>1. Showing(rows, p, Refs(seen[q])) \/ Reffed(vols, key[o], p) BY <2>2, <2>4, <2>7 DEF Seeing
    <3>2. CASE Reffed(vols, key[o], p) BY <2>1, <2>6, <3>2, PartCarried
    <3>3. CASE Showing(rows, p, Refs(seen[q]))
      <4> DEFINE K == Refs(seen[q])
      <4>1. Showing(rows, p, K) BY <3>3
      <4> HIDE DEF K
      <4>2. Showing(rows', p, K) \/ \A k : Reffed(vols', k, p) BY <1>1, <4>1, ShowingStays
      <4> QED BY <4>2 DEF K
    <3> QED BY <3>1, <3>2, <3>3
  <2> QED BY <2>1, <2>5, <2>7 DEF Goal
<1>2. ASSUME NEW r \in Ops, Work(r) PROVE Goal
  <2>1. \A x \in Ops \ {r} : SameAt(x) BY <1>2, <1>a, WorkLocal
  <2>2. CASE r # q /\ r # o
    <3>1. SameAt(o) /\ SameAt(q) BY <2>1, <2>2
    <3>2. at[q] \in Locked BY <1>d, <3>1 DEF SameAt, Syncing, Locked
    <3>3. at[r] \notin {"index", "prune"} BY <1>c, <2>2, <3>2 DEF Locked
    <3>4. \A x \in Ops : at[x] \in {"index", "prune"} => at'[x] = at[x] BY <2>1, <3>3 DEF SameAt
    <3> QED BY <1>1, <3>1, <3>4
  <2>3. CASE r = o /\ r # q
    <3>1. at'[o] = "synced" BY <1>d, <2>3
    <3>2. SyncPrunes(o) BY <1>2, <1>a, <2>3, <3>1, SyncsEnd
    <3>3. at[o] = "prune" BY <3>2 DEF SyncPrunes
    <3>4. at[q] \in Locked BY <1>d, <2>1, <2>3 DEF SameAt, Syncing, Locked
    <3> QED BY <1>c, <2>3, <3>3, <3>4 DEF Locked
  <2>4. CASE r = q
    <3>0. SyncLists(q) \/ SyncListsDeep(q) \/ SyncIndexes(q) BY <1>2, <1>a, <1>d, <2>4, SyncsMove
    <3>1. /\ why' = why /\ key' = key /\ cloud' = cloud BY <3>0 DEF SyncLists, SyncListsDeep, SyncIndexes, Then
    <3>2. CopiesOf(p) # {}
      <4>1. CopiesOf(p)' = CopiesOf(p) BY <3>1 DEF CopiesOf, There
      <4> QED BY <4>1
    <3>3. CASE SyncLists(q)
      <4>1. at'[q] # "prune" BY <1>a, <3>3 DEF SyncLists, Go, LocalOK
      <4>2. \E n \in DOMAIN seen'[q] : seen'[q][n].name = p BY <1>b, <3>2, <3>3, ListingHas
      <4> QED BY <4>1, <4>2 DEF Goal
    <3>a. at[q] \in Syncing => Watching(o, q)
      <4>1. q # o => at'[o] = at[o] BY <2>1, <2>4 DEF SameAt
      <4> QED BY <1>d, <3>1, <4>1 DEF Watching, Syncing
    <3>4. CASE SyncListsDeep(q)
      <4>1. at[q] = "deep" /\ at'[q] = "index" BY <1>a, <3>4 DEF SyncListsDeep, Go, LocalOK
      <4>2. PICK n \in DOMAIN seen[q] : seen[q][n].name = p BY <3>2, <3>a, <4>1 DEF Seeing, Syncing
      <4>3. PICK s \in Listing(TRUE) : seen' = [seen EXCEPT ![q] = @ \o s] BY <3>4 DEF SyncListsDeep
      <4> DEFINE I == ItemSet(Names, Handles, Titles)
      <4>4. s \in Seq(I) /\ seen[q] \in Seq(I) BY <1>a, <4>3, ListingGood DEF SeenOK
      <4>5. seen'[q] = seen[q] \o s BY <1>a, <4>3 DEF LocalOK
      <4> HIDE DEF I
      <4>6. n \in DOMAIN (seen[q] \o s) /\ (seen[q] \o s)[n] = seen[q][n]
        <5> DEFINE u == seen[q]
        <5>1. u \in Seq(I) /\ n \in DOMAIN u BY <4>4
        <5> HIDE DEF u
        <5>2. n \in DOMAIN (u \o s) /\ (u \o s)[n] = u[n] BY <4>4, <5>1
        <5> QED BY <5>2 DEF u
      <4>7. \E m \in DOMAIN seen'[q] : seen'[q][m].name = p BY <4>2, <4>5, <4>6
      <4> QED BY <4>1, <4>7 DEF Goal
    <3>5. CASE SyncIndexes(q)
      <4>1. at[q] = "index" BY <3>5 DEF SyncIndexes
      <4>2. at'[q] = "prune" /\ seen' = seen BY <1>a, <1>d, <3>5 DEF SyncIndexes, Then, Go, LocalOK, Syncing
      <4>3. \E n \in DOMAIN seen[q] : seen[q][n].name = p BY <3>2, <3>a, <4>1 DEF Seeing, Syncing
      <4>4. Showing(rows', p, Refs(seen[q])) BY <3>5, <4>2, <4>3, IndexesShow
      <4> QED BY <4>2, <4>3, <4>4 DEF Goal
    <3> QED BY <3>0, <3>3, <3>4, <3>5
  <2> QED BY <2>2, <2>3, <2>4
<1>3. CASE Crash
  <2>1. at'[q] \notin Syncing BY <1>3 DEF Crash, Busy, Syncing
  <2> QED BY <1>d, <2>1
<1>4. ASSUME local' = local PROVE Goal
  <2>1. \A x \in Ops : SameAt(x) BY <1>4 DEF SameAt, local
  <2>2. \A x \in Ops : at'[x] = at[x] BY <2>1 DEF SameAt
  <2> QED BY <1>1, <2>1, <2>2
<1>5. CASE NewSession BY <1>4, <1>5 DEF NewSession
<1>6. ASSUME NEW c \in plan.contents, MemberUploads(c) PROVE Goal BY <1>4, <1>6 DEF MemberUploads
<1>7. ASSUME NEW k \in DOMAIN cloud, MemberDeletes(k) PROVE Goal BY <1>4, <1>7 DEF MemberDeletes
<1>8. ASSUME NEW k \in DOMAIN cloud, IndexEvent(k) PROVE Goal BY <1>4, <1>8 DEF IndexEvent
<1>9. CASE UNCHANGED vars BY <1>4, <1>9 DEF vars, local
<1> QED BY <1>2, <1>3, <1>5, <1>6, <1>7, <1>8, <1>9 DEF Next

LEMMA NextShown ==
  ASSUME SentBase, Alone, [Next]_vars, NEW o \in Ops, Sender(o), SenderOK(o), NEW p \in Parts(Of(o)), PartOK(o, p),
         \A q \in Ops : Seeing(o, q, p), ShownOK(o, p)
  PROVE  ShownOK(o, p)'
<1>a. Base /\ WorldOK /\ LocalOK /\ \A q \in Ops : SeenOK(q) BY DEF SentBase, Base
<1>b. WorldOK' /\ Grow BY <1>a, NextWorld
<1> SUFFICES ASSUME at'[o] = "synced", why'[o] = "resume", CopiesOf(p)' # {}
             PROVE  Showing(rows', p, Handles') \/ Reffed(vols', key'[o], p)
  BY DEF ShownOK, Showing, Reffed
<1> DEFINE Goal == Showing(rows', p, Handles') \/ Reffed(vols', key'[o], p)
<1> SUFFICES Goal OBVIOUS
<1> HIDE DEF Goal
<1>c. ASSUME Showing(rows', p, Handles) PROVE Goal BY <1>b, <1>c DEF Grow, Showing, Goal
<1>d. \A q \in Ops : Refs(seen[q]) \subseteq Handles
  <2>1. ASSUME NEW q \in Ops PROVE Refs(seen[q]) \subseteq Handles
    <3> DEFINE I == ItemSet(Names, Handles, Titles)
    <3>1. seen[q] \in Seq(I) BY <1>a DEF SeenOK
    <3>2. \A n \in DOMAIN seen[q] : seen[q][n] \in I BY <3>1
    <3>3. \A it \in I : it.ref \in Handles BY DEF ItemSet, RowSet
    <3> HIDE DEF I
    <3> QED BY <3>2, <3>3 DEF Refs
  <2> QED BY <2>1
<1>e. ASSUME NEW q \in Ops, SyncPrunes(q), Showing(rows, p, Refs(seen[q])) PROVE Goal
  <2> DEFINE refs == {it.ref : it \in Range(seen[q])}
             K == Refs(seen[q])
  <2>1. rows' = Pruned(refs) BY <1>e DEF SyncPrunes
  <2>2. K \subseteq refs BY DEF Refs, Range
  <2>3. Showing(rows, p, K) BY <1>e
  <2>4. K \subseteq Handles BY <1>d
  <2> HIDE DEF refs, K
  <2>5. Showing(rows', p, K) BY <2>1, <2>2, <2>3, PrunesSpare
  <2>6. Showing(rows', p, Handles) BY <2>4, <2>5 DEF Showing
  <2> QED BY <1>c, <2>6
(* A step of another, or of nobody. *)
<1>1. ASSUME SameAt(o)
      PROVE  /\ at[o] = "synced" /\ why[o] = "resume" /\ CopiesOf(p) # {}
             /\ Showing(rows, p, Handles) \/ Reffed(vols, key[o], p)
             /\ Reffed(vols, key[o], p) => Goal
  <2>1. at'[o] = at[o] /\ why'[o] = why[o] /\ key'[o] = key[o] BY <1>1 DEF SameAt
  <2>2. ~Sends(o) BY <1>1, SameMoves
  <2>3. CopiesOf(p) # {} BY <2>2, CountMoves
  <2>4. Has(vols, key[o], p) BY <2>1 DEF PartOK, Resuming, InSync
  <2>5. Reffed(vols, key[o], p) => Goal BY <2>1, <2>4, PartCarried DEF Goal
  <2> QED BY <2>1, <2>3, <2>5 DEF ShownOK
<1>2. ASSUME SameAt(o), \A x \in Ops : at[x] \in {"index", "prune"} => at'[x] = at[x] PROVE Goal
  <2>1. CASE Reffed(vols, key[o], p) BY <1>1, <1>2, <2>1
  <2>2. CASE Showing(rows, p, Handles)
    <3> DEFINE K == Handles
    <3>1. Showing(rows, p, K) BY <2>2
    <3> HIDE DEF K
    <3>2. Showing(rows', p, K) \/ \A k : Reffed(vols', k, p) BY <1>2, <3>1, ShowingStays
    <3>3. CASE Showing(rows', p, K) BY <1>c, <3>3 DEF K
    <3>4. CASE \A k : Reffed(vols', k, p) BY <3>4 DEF Goal
    <3> QED BY <3>2, <3>3, <3>4
  <2> QED BY <1>1, <1>2, <2>1, <2>2
<1>3. ASSUME NEW r \in Ops, Work(r) PROVE Goal
  <2>1. \A x \in Ops \ {r} : SameAt(x) BY <1>3, <1>a, WorkLocal
  <2>2. CASE r = o
    <3>1. SyncPrunes(o) BY <1>3, <1>a, <2>2, SyncsEnd
    <3>2. at[o] = "prune" /\ why' = why /\ key' = key /\ vols' = vols /\ cloud' = cloud BY <3>1 DEF SyncPrunes
    <3>3. CopiesOf(p)' = CopiesOf(p) BY <3>2 DEF CopiesOf, There
    <3>4. Seeing(o, o, p) OBVIOUS
    <3>5. Showing(rows, p, Refs(seen[o])) \/ Reffed(vols, key[o], p)
      BY <3>2, <3>3, <3>4 DEF Seeing, Watching, Syncing
    <3>6. CASE Reffed(vols, key[o], p) BY <3>2, <3>6 DEF Goal, Reffed
    <3> QED BY <1>e, <3>1, <3>5, <3>6
  <2>3. CASE r # o /\ at[r] = "index"
    <3>1. SyncIndexes(r) BY <1>3, <1>a, <2>3, SyncsEnd
    <3>2. SameAt(o) BY <2>1, <2>3
    <3>3. Showing(rows, p, Handles) => Showing(rows', p, Handles) BY <3>1, IndexesShow
    <3> QED BY <1>1, <1>c, <3>2, <3>3
  <2>4. CASE r # o /\ at[r] = "prune"
    <3>1. SyncPrunes(r) BY <1>3, <1>a, <2>4, SyncsEnd
    <3>2. SameAt(o) BY <2>1, <2>4
    <3>3. Seeing(o, r, p) OBVIOUS
    <3>4. Showing(rows, p, Refs(seen[r])) \/ Reffed(vols, key[o], p)
      BY <1>1, <2>4, <3>2, <3>3 DEF Seeing, Watching, Syncing
    <3> QED BY <1>1, <1>e, <3>1, <3>2, <3>4
  <2>5. CASE r # o /\ at[r] \notin {"index", "prune"}
    <3>1. \A x \in Ops : at[x] \in {"index", "prune"} => at'[x] = at[x] BY <2>1, <2>5 DEF SameAt
    <3> QED BY <1>2, <2>1, <2>5, <3>1
  <2> QED BY <2>2, <2>3, <2>4, <2>5
<1>4. CASE Crash BY <1>4 DEF Crash, Busy
<1>5. ASSUME local' = local PROVE Goal
  <2>1. \A x \in Ops : SameAt(x) BY <1>5 DEF SameAt, local
  <2>2. \A x \in Ops : at'[x] = at[x] BY <2>1 DEF SameAt
  <2> QED BY <1>2, <2>1, <2>2
<1>6. CASE NewSession BY <1>5, <1>6 DEF NewSession
<1>7. ASSUME NEW c \in plan.contents, MemberUploads(c) PROVE Goal BY <1>5, <1>7 DEF MemberUploads
<1>8. ASSUME NEW k \in DOMAIN cloud, MemberDeletes(k) PROVE Goal BY <1>5, <1>8 DEF MemberDeletes
<1>9. ASSUME NEW k \in DOMAIN cloud, IndexEvent(k) PROVE Goal BY <1>5, <1>9 DEF IndexEvent
<1>10. CASE UNCHANGED vars BY <1>5, <1>10 DEF vars, local
<1> QED BY <1>3, <1>4, <1>6, <1>7, <1>8, <1>9, <1>10 DEF Next

-----------------------------------------------------------------------------
SenderInv(o) ==
  /\ SenderOK(o)
  /\ \A p \in Parts(Of(o)) : PartOK(o, p) /\ ShownOK(o, p) /\ \A q \in Ops : Seeing(o, q, p)
SentInv == SentBase /\ \A o \in Ops : Sender(o) => SenderInv(o)

LEMMA NextSent ==
  ASSUME SentInv, Alone, [Next]_vars
  PROVE  SentInv'
<1>1. SentBase /\ \A o \in Ops : Sender(o) => SenderInv(o) BY DEF SentInv
<1>2. SentBase' BY <1>1, NextSentBase
<1>3. plan' = plan BY SamePlan
<1>4. ASSUME NEW o \in Ops, Sender(o)' PROVE SenderInv(o)'
  <2>1. Sender(o) /\ Parts(Of(o))' = Parts(Of(o)) BY <1>3, <1>4, SameScenario DEF Parts
  <2>2. SenderOK(o) /\ \A p \in Parts(Of(o)) : PartOK(o, p) /\ ShownOK(o, p) /\ \A q \in Ops : Seeing(o, q, p)
    BY <1>1, <2>1 DEF SenderInv
  <2>3. SenderOK(o)' BY <1>1, <2>1, <2>2, SenderStays
  <2>4. ASSUME NEW p \in Parts(Of(o)) PROVE PartOK(o, p)' /\ ShownOK(o, p)' /\ \A q \in Ops : Seeing(o, q, p)'
    <3>1. PartOK(o, p) /\ ShownOK(o, p) /\ \A q \in Ops : Seeing(o, q, p) BY <2>2
    <3>2. ShownOK(o, p)' BY <1>1, <2>1, <2>2, <3>1, NextShown
    <3>3. \A q \in Ops : Seeing(o, q, p)' BY <1>1, <2>1, <2>2, <3>1, NextSeeing
    <3>4. PartOK(o, p)'
      <4>a. Base BY <1>1 DEF SentBase
      <4>1. CASE SameAt(o) BY <1>1, <2>1, <2>2, <3>1, <4>1, PartsStay
      <4>2. CASE Work(o) BY <1>1, <2>1, <2>2, <3>1, <4>2, WorkParts
      <4>3. ASSUME NEW q \in Ops, q # o, Work(q) PROVE SameAt(o) BY <4>3, <4>a, WorkLocal DEF Base
      <4>4. CASE Crash BY <1>1, <2>1, <2>2, <3>1, <4>4, CrashParts
      <4>5. ASSUME local' = local PROVE SameAt(o) BY <4>5 DEF SameAt, local
      <4>6. CASE NewSession BY <4>1, <4>5, <4>6 DEF NewSession
      <4>7. ASSUME NEW c \in plan.contents, MemberUploads(c) PROVE SameAt(o) BY <4>5, <4>7 DEF MemberUploads
      <4>8. ASSUME NEW k \in DOMAIN cloud, MemberDeletes(k) PROVE SameAt(o) BY <4>5, <4>8 DEF MemberDeletes
      <4>9. ASSUME NEW k \in DOMAIN cloud, IndexEvent(k) PROVE SameAt(o) BY <4>5, <4>9 DEF IndexEvent
      <4>10. CASE UNCHANGED vars BY <4>1, <4>5, <4>10 DEF vars, local
      <4> QED BY <4>1, <4>2, <4>3, <4>4, <4>6, <4>7, <4>8, <4>9, <4>10 DEF Next
    <3> QED BY <3>2, <3>3, <3>4
  <2> QED BY <2>1, <2>3, <2>4 DEF SenderInv
<1> QED BY <1>2, <1>4 DEF SentInv

LEMMA InitSent ==
  ASSUME Init, Alone
  PROVE  SentInv
<1>1. Base /\ TableOK(ByName, PartNames) BY InitBase, InitTable
<1>2. LockOK /\ Distinct(rows) /\ OnePart(vols) BY InitTypes
<1>3. /\ plan.holds \in Seq(plan.contents) /\ Len(plan.holds) <= MaxCopies /\ MaxCopies \in Nat
      /\ Len(plan.holds) \in Nat /\ DOMAIN plan.holds = 1..Len(plan.holds)
  BY <1>1, Scenario DEF Base
<1> DEFINE f(k) == File(Whole(plan.holds[k]), Whole(plan.holds[k]), FALSE, 0)
<1>4. /\ cloud = [k \in 1..MaxCopies |-> IF k <= Len(plan.holds) THEN f(k) ELSE Never]
      /\ session = 0 /\ parents = <<>> /\ doubt = [p \in Doubts |-> 0]
      /\ saved = key /\ vols = {} /\ \A o \in Ops : at[o] = "idle" /\ key[o] = NoRef
  BY DEF Init, Doubts
<1>5. \A k : f(k).name = Whole(plan.holds[k]) /\ f(k).what = Whole(plan.holds[k]) BY DEF File
<1> HIDE DEF f
<1>6. \A k \in Ever : /\ k \in DOMAIN plan.holds /\ cloud[k].name = Whole(plan.holds[k])
                      /\ cloud[k].what = Whole(plan.holds[k])
  BY <1>3, <1>4, <1>5 DEF Ever
<1>7. SentWorld
  <2>1. \A k \in Ever : cloud[k].what[2] = 0 BY <1>6 DEF Whole
  <2>2. ASSUME NEW k \in Ever, NEW o \in Ops, Sender(o), cloud[k].name = Whole(Of(o))
        PROVE  Kind(o) = "convert" /\ k \in DOMAIN plan.holds /\ plan.holds[k] = Of(o)
    <3>1. k \in DOMAIN plan.holds /\ plan.holds[k] = Of(o) BY <1>6, <2>2 DEF Whole
    <3> QED BY <2>2, <3>1 DEF Alone, OneSender, Sender, Replaces
  <2>3. DOMAIN parents = {} BY <1>4
  <2>4. doubt \in [Doubts -> Nat] BY <1>4
  <2> QED BY <1>4, <2>1, <2>2, <2>3, <2>4 DEF SentWorld
<1>8. ASSUME NEW o \in Ops, Sender(o) PROVE SenderInv(o)
  <2>1. SenderOK(o) BY <1>4 DEF SenderOK
  <2>2. ASSUME NEW p \in Parts(Of(o)) PROVE PartOK(o, p) /\ ShownOK(o, p) /\ \A q \in Ops : Seeing(o, q, p)
    <3>1. SentBase BY <1>1, <1>2, <1>7 DEF SentBase
    <3>2. p \in Doubts /\ p[2] # 0 BY <3>1, PartDoubted
    <3>3. CopiesOf(p) = {}
      <4>1. \A k \in There : k \in Ever BY DEF There, Ever, Never
      <4> QED BY <1>6, <3>2, <4>1 DEF CopiesOf, Whole
    <3>4. Count(p) = 0 BY <1>1, <3>3, CopiesCounted DEF Base
    <3>5. Few(p) /\ Once(p) BY <1>4, <3>2, <3>4 DEF Few, Once
    <3>6. at[o] = "idle" BY <1>4
    <3>7. PartOK(o, p) BY <3>5, <3>6 DEF PartOK, Resuming, InSync
    <3> QED BY <3>3, <3>6, <3>7 DEF ShownOK, Seeing
  <2> QED BY <2>1, <2>2 DEF SenderInv
<1> QED BY <1>1, <1>2, <1>7, <1>8 DEF SentInv, SentBase

LEMMA SentOnceThen ==
  ASSUME SentInv
  PROVE  SentOnce
<1> SUFFICES ASSUME NEW c \in plan.contents, NEW p \in Parts(c) PROVE Once(p)
  BY DEF SentOnce, Once, Count, CopiesOf
<1>a. WorldOK /\ SentWorld BY DEF SentInv, SentBase, Base
<1>1. p[1] = c /\ p[2] # 0 BY DEF Parts
<1>2. CASE \E o \in Ops : Sender(o) /\ Of(o) = c BY <1>2 DEF SentInv, SenderInv, PartOK
<1>3. CASE ~\E o \in Ops : Sender(o) /\ Of(o) = c
  <2>1. CopiesOf(p) = {}
    <3>1. \A k \in There : k \in Ever BY DEF There, Ever, Never
    <3> QED BY <1>a, <1>1, <1>3, <3>1 DEF SentWorld, CopiesOf
  <2>2. Count(p) = 0 BY <1>a, <2>1, CopiesCounted
  <2>3. p \in Doubts BY DEF Doubts
  <2>4. doubt[p] \in Nat BY <1>a, <2>3 DEF SentWorld
  <2> QED BY <2>2, <2>4 DEF Once
<1> QED BY <1>2, <1>3

(* SentOnce: where nothing is renamed, a content is sent by one operation
   and is not deleted beside it, and a handle outlasts the operation it was
   given to, no part is on the cloud more often than once plus the doubts
   about it, however sends are lost, retried and resumed after a crash. *)
THEOREM SentOnceAlways == Spec => [](Alone => SentOnce)
<1>1. Init => (Alone => SentInv) BY InitSent
<1>2. (Alone => SentInv) /\ [Next]_vars => (Alone => SentInv)'
  <2> SUFFICES ASSUME Alone', Alone => SentInv, [Next]_vars PROVE SentInv' OBVIOUS
  <2>1. Alone BY SamePlan, SameScenario
  <2> QED BY <2>1, NextSent
<1>3. (Alone => SentInv) => (Alone => SentOnce) BY SentOnceThen
<1> QED BY <1>1, <1>2, <1>3, PTL DEF Spec

-----------------------------------------------------------------------------
(* What is in parts can be read.  The row of a parent is left as it is by    *)
(* every batch that brings no other file of its name.                        *)

OfRow(s, r) == \E i \in DOMAIN s : s[i] = r

(* A row of the batch's table that is not what is written stays. *)
LEMMA PutLeavesRow ==
  ASSUME NEW N, NEW H, NEW F, NEW T, NEW V, Exact(N, F), \A h \in H : T[h] \in N,
         NEW x \in Tables(GoodRows(N, H, F, T), V), NEW new \in GoodRows(N, H, F, T), new.key = new.name,
         NEW r, OfRow(x.rows, r), r.status = "active", r.key = r.name,
         new.name = r.name => new.ref = r.ref, new.ref = r.ref => new.meta = "plain" \/ r.meta # "plain"
  PROVE  OfRow(PutRow(x, new).rows, r)
<1> DEFINE R == GoodRows(N, H, F, T)
           s == PutRow(x, new).rows
<1>1. x \in [rows : Seq(R), vols : SUBSET V, ok : BOOLEAN] BY DEF Tables
<1>2. PICK j \in DOMAIN x.rows : x.rows[j] = r BY DEF OfRow
<1>3. new \in R /\ r \in R /\ \A i \in DOMAIN x.rows : x.rows[i] \in R BY <1>1, <1>2
<1>4. \A q \in R : q.name = T[q.ref] BY RowTitled
<1>5. r.ref = new.ref \/ r.key = new.key => Merged(r, new) = r
  <2>1. ASSUME r.ref = new.ref \/ r.key = new.key PROVE Merged(r, new) = r
    <3>1. r.ref = new.ref BY <2>1
    <3>2. r.name = new.name BY <1>3, <1>4, <3>1
    <3>3. r \in RowSet(N, H) /\ new \in RowSet(N, H) BY <1>3 DEF GoodRows
    <3> QED BY <3>1, <3>2, <3>3 DEF Merged, RowSet
  <2> QED BY <2>1
<1> HIDE DEF R
<1>6. j \in DOMAIN s /\ s[j] = x.rows[j]
  <2>1. CASE PutRow(x, new) = x \/ PutRow(x, new) = [x EXCEPT !.ok = FALSE] BY <1>1, <2>1
  <2>2. CASE \E i \in DOMAIN x.rows : /\ x.rows[i].ref = new.ref \/ x.rows[i].key = new.key
                                      /\ PutRow(x, new) = [x EXCEPT !.rows[i] = Merged(@, new)]
    <3> PICK i \in DOMAIN x.rows : /\ x.rows[i].ref = new.ref \/ x.rows[i].key = new.key
                                   /\ PutRow(x, new) = [x EXCEPT !.rows[i] = Merged(@, new)]
      BY <2>2
    <3>1. CASE i # j BY <1>1, <3>1
    <3>2. CASE i = j
      <4>1. Merged(x.rows[i], new) = x.rows[i] BY <1>2, <1>5, <3>2
      <4> QED BY <1>1, <4>1, <3>2
    <3> QED BY <3>1, <3>2
  <2>3. CASE PutRow(x, new) = [x EXCEPT !.rows = Append(@, new)]
    <3>1. s = Append(x.rows, new) BY <1>1, <2>3
    <3>2. x.rows \in Seq(R) BY <1>1
    <3> QED BY <1>3, <3>1, <3>2
  <2> QED BY <2>1, <2>2, <2>3, PutCases
<1> QED BY <1>2, <1>6 DEF OfRow

LEMMA InheritLeavesRow ==
  ASSUME NEW N, NEW H, NEW F, NEW T, NEW V, Exact(N, F), \A h \in H : T[h] \in N,
         NEW y \in Tables(GoodRows(N, H, F, T), V), NEW items \in Seq(GoodRows(N, H, F, T)), NEW n \in DOMAIN y.rows,
         NEW r, OfRow(y.rows, r),
         (\A m \in DOMAIN items : items[m].name # r.name) \/ (\A h \in H : T[h] = r.name => h = r.ref)
  PROVE  OfRow(Inherit(y, n, items).rows, r)
<1> DEFINE R == GoodRows(N, H, F, T)
<1>1. y \in [rows : Seq(R), vols : SUBSET V, ok : BOOLEAN] BY DEF Tables
<1>2. PICK j \in DOMAIN y.rows : y.rows[j] = r BY DEF OfRow
<1>3. r \in R /\ y.rows[n] \in R /\ \A m \in DOMAIN items : items[m] \in R BY <1>1, <1>2
<1>4. \A q \in R : q.name = T[q.ref] /\ q.ref \in H BY RowTitled
<1> HIDE DEF R
<1>5. CASE Inherit(y, n, items) = y BY <1>5
<1>6. ASSUME NEW m \in DOMAIN items, items[m].name = y.rows[n].name, y.rows[n].ref \notin Refs(items),
             Inherit(y, n, items) = Left(y, n, items[m].ref)
      PROVE  OfRow(Inherit(y, n, items).rows, r)
  <2>1. items[m].ref \in Refs(items) BY DEF Refs
  <2>2. items[m].name # r.name
    <3> SUFFICES ASSUME items[m].name = r.name PROVE FALSE OBVIOUS
    <3>1. \A h \in H : T[h] = r.name => h = r.ref OBVIOUS
    <3>2. items[m].ref = r.ref BY <1>3, <1>4, <3>1
    <3>3. y.rows[n].ref = r.ref BY <1>3, <1>4, <1>6, <3>1
    <3> QED BY <1>6, <2>1, <3>2, <3>3
  <2>3. r.ref # items[m].ref BY <1>3, <1>4, <2>2
  <2>4. j # n BY <1>2, <1>6, <2>2
  <2>5. Inherit(y, n, items).rows = LeftRows(y.rows, n, items[m].ref) BY <1>1, <1>6 DEF Left, Chased
  <2>6. LeftRows(y.rows, n, items[m].ref)[j] = r /\ j \in DOMAIN LeftRows(y.rows, n, items[m].ref)
    BY <1>2, <2>3, <2>4 DEF LeftRows
  <2> QED BY <2>5, <2>6 DEF OfRow
<1> QED BY <1>5, <1>6, InheritCases

(* A batch brings no other file of the name of a row. *)
Aside(items, r, H, T) ==
  /\ r.status = "active" /\ r.key = r.name
  /\ \A n \in DOMAIN items : /\ items[n].key = items[n].name
                             /\ items[n].ref = r.ref => items[n].meta = "plain" \/ r.meta # "plain"
  /\ (\A n \in DOMAIN items : items[n].name # r.name) \/ (\A h \in H : T[h] = r.name => h = r.ref)

LEMMA UpsertedLeavesRow ==
  ASSUME NEW N, NEW P, NEW H, NEW F, NEW T, NEW U, Exact(N, F), \A h \in H : T[h] \in N,
         rows \in Seq(GoodRows(N, H, F, T)), vols \in SUBSET GoodVols(P, H, T, U),
         NEW items \in Seq(GoodRows(N, H, F, T)), NEW r, OfRow(rows, r), Aside(items, r, H, T)
  PROVE  OfRow(Upserted(items).rows, r)
<1> DEFINE R == GoodRows(N, H, F, T)
           V == GoodVols(P, H, T, U)
           x == [rows |-> rows, vols |-> vols, ok |-> TRUE]
           put == Batch(x, Puts(items))
           left == Batch(put, Inherits(put.rows, items))
           all == Batch(left, Chases(items))
<1>0. Sorts(N, F) BY DEF Exact, Sorts
<1>a. \A n \in DOMAIN items : items[n] \in R /\ (items[n].name = r.name => items[n].ref = r.ref)
  <2>1. \A n \in DOMAIN items : items[n] \in R OBVIOUS
  <2>2. \A n \in DOMAIN items : items[n].name = T[items[n].ref] /\ items[n].ref \in H BY <2>1, RowTitled
  <2> HIDE DEF R
  <2> QED BY <2>1, <2>2 DEF Aside
<1>c. /\ r.status = "active" /\ r.key = r.name
      /\ (\A n \in DOMAIN items : items[n].name # r.name) \/ (\A h \in H : T[h] = r.name => h = r.ref)
  BY DEF Aside
<1>d. ASSUME NEW n \in DOMAIN items
      PROVE  items[n].key = items[n].name /\ (items[n].ref = r.ref => items[n].meta = "plain" \/ r.meta # "plain")
  BY DEF Aside
<1>1. x \in Tables(R, V) /\ OfRow(x.rows, r) BY DEF Tables
<1>3. Upserted(items) = IF all.ok THEN all ELSE [x EXCEPT !.ok = FALSE] BY DEF Upserted
<1>b. [x EXCEPT !.ok = FALSE].rows = x.rows OBVIOUS
<1> HIDE DEF x
<1>4. put \in Tables(R, V) /\ OfRow(put.rows, r)
  <2> DEFINE G == {y \in Tables(R, V) : OfRow(y.rows, r)}
  <2>1. x \in G BY <1>1
  <2>2. PICK S : Puts(items) \in Seq(S) BY PutStatements
  <2>3. ASSUME NEW n \in 1..Len(Puts(items)), NEW y \in G PROVE Apply(y, Puts(items)[n]) \in G
    <3>1. n \in DOMAIN items BY PutStatements
    <3>2. items[n] \in R BY <1>a, <3>1
    <3>a. Puts(items)[n] = [do |-> "put", row |-> items[n]] BY <3>1, PutStatements
    <3>3. Apply(y, Puts(items)[n]) = PutRow(y, items[n]) BY <3>a, Applied
    <3>4. PutRow(y, items[n]) \in Tables(R, V) BY <3>2, PutGood
    <3>5. items[n].name = r.name => items[n].ref = r.ref BY <1>a, <3>1
    <3>b. items[n].key = items[n].name /\ (items[n].ref = r.ref => items[n].meta = "plain" \/ r.meta # "plain")
      BY <1>d, <3>1
    <3>6. OfRow(PutRow(y, items[n]).rows, r) BY <1>c, <3>2, <3>5, <3>b, PutLeavesRow
    <3> HIDE DEF R, V
    <3> QED BY <3>3, <3>4, <3>6
  <2> HIDE DEF G
  <2>4. put \in G BY <2>1, <2>2, <2>3, BatchStays
  <2> QED BY <2>4 DEF G
<1> HIDE DEF put
<1>5. left \in Tables(R, V) /\ OfRow(left.rows, r)
  <2> DEFINE G == {y \in Tables(R, V) : OfRow(y.rows, r) /\ DOMAIN y.rows = DOMAIN put.rows}
  <2>1. put \in G BY <1>4
  <2>a. put.rows \in Seq(R) BY <1>4 DEF Tables
  <2>2. PICK S : Inherits(put.rows, items) \in Seq(S) BY <2>a, InheritStatements
  <2>3. ASSUME NEW n \in 1..Len(Inherits(put.rows, items)), NEW y \in G
        PROVE  Apply(y, Inherits(put.rows, items)[n]) \in G
    <3>1. n \in 1..Len(put.rows) BY <2>a, InheritStatements
    <3>2. Inherits(put.rows, items)[n] = [do |-> "inherit", of |-> n, items |-> items]
      BY <2>a, <3>1, InheritStatements
    <3>3. Apply(y, Inherits(put.rows, items)[n]) = Inherit(y, n, items) BY <3>2, Applied
    <3>4. y \in Tables(R, V) /\ OfRow(y.rows, r) /\ DOMAIN y.rows = DOMAIN put.rows OBVIOUS
    <3>5. n \in DOMAIN y.rows BY <2>a, <3>1, <3>4
    <3>6. Inherit(y, n, items) \in Tables(R, V) /\ DOMAIN Inherit(y, n, items).rows = DOMAIN y.rows
      BY <1>0, <3>4, <3>5, InheritGood
    <3>7. OfRow(Inherit(y, n, items).rows, r) BY <1>c, <3>4, <3>5, InheritLeavesRow
    <3> HIDE DEF R, V
    <3> QED BY <3>3, <3>4, <3>6, <3>7
  <2> HIDE DEF G
  <2>4. left \in G BY <2>1, <2>2, <2>3, BatchStays
  <2> QED BY <2>4 DEF G
<1> HIDE DEF left
<1>6. all.rows = left.rows BY <1>0, <1>5, ChasesGood
<1>7. OfRow(all.rows, r) BY <1>5, <1>6
<1> HIDE DEF all
<1> QED BY <1>1, <1>3, <1>7, <1>b

(* The batch of one new parent: its row, live and no plain one. *)
Heads(s, k, n) ==
  \E i \in DOMAIN s : s[i].ref = k /\ s[i].name = n /\ s[i].key = n /\ s[i].status = "active" /\ s[i].meta # "plain"

LEMMA UpsertedHeads ==
  ASSUME NEW N, NEW P, NEW H, NEW F, NEW T, NEW U, Exact(N, F), \A h \in H : T[h] \in N,
         rows \in Seq(GoodRows(N, H, F, T)), vols \in SUBSET GoodVols(P, H, T, U),
         NEW k, NEW n, Row(k, n, "parent") \in GoodRows(N, H, F, T),
         \A i \in DOMAIN rows : rows[i].ref # k, Upserted(<<Row(k, n, "parent")>>).ok
  PROVE  Heads(Upserted(<<Row(k, n, "parent")>>).rows, k, n)
<1> DEFINE R == GoodRows(N, H, F, T)
           V == GoodVols(P, H, T, U)
           new == Row(k, n, "parent")
           items == <<new>>
           x == [rows |-> rows, vols |-> vols, ok |-> TRUE]
           put == Batch(x, Puts(items))
           left == Batch(put, Inherits(put.rows, items))
           all == Batch(left, Chases(items))
<1>0. Sorts(N, F) BY DEF Exact, Sorts
<1>a. items \in Seq(R) /\ DOMAIN items = {1} /\ items[1] = new /\ Len(items) = 1 /\ new \in R OBVIOUS
<1>1. x \in Tables(R, V) BY DEF Tables
<1>3. Upserted(items) = IF all.ok THEN all ELSE [x EXCEPT !.ok = FALSE] BY DEF Upserted
<1>b. x.rows = rows /\ [x EXCEPT !.ok = FALSE].ok = FALSE OBVIOUS
<1>c. all.ok BY <1>3, <1>b
<1>d. new.ref = k /\ new.name = n /\ new.key = n /\ new.status = "active" /\ new.meta = "parent" BY DEF Row
<1> HIDE DEF x, new, items
<1>4. put \in Tables(R, V) BY <1>1, <1>a, PutsGood
<1>e. left \in Tables(R, V) /\ (left.ok => put.ok) BY <1>0, <1>4, <1>a, InheritsGood
<1>f. all.rows = left.rows /\ (all.ok => left.ok) BY <1>0, <1>e, <1>a, ChasesGood
<1>g. put.ok BY <1>c, <1>e, <1>f
<1>5. put = PutRow(x, new)
  <2>1. PICK S : Puts(items) \in Seq(S) BY <1>a, PutStatements
  <2>2. Len(Puts(items)) = 1 /\ Puts(items)[1] = [do |-> "put", row |-> new] BY <1>a, PutStatements
  <2> DEFINE g == Stages(x, Puts(items))
  <2>3. Goes(g, x, Puts(items), 1) BY <2>1, <2>2, StagesAre
  <2>4. g[0] = x /\ g[1] = Apply(g[0], Puts(items)[1]) BY <2>3 DEF Goes
  <2> QED BY <2>2, <2>4, Applied DEF Batch
<1>6. Heads(put.rows, k, n)
  <2>1. x \in [rows : Seq(R), vols : SUBSET V, ok : BOOLEAN] BY <1>1 DEF Tables
  <2>2. put.ok /\ \A i \in DOMAIN x.rows : x.rows[i].ref # k BY <1>g, <1>b
  <2>a. new \in RowSet(N, H) /\ \A i \in DOMAIN x.rows : x.rows[i] \in RowSet(N, H) BY <1>a, <2>1 DEF GoodRows
  <2>b. x.rows \in Seq(R) BY <2>1
  <2> HIDE DEF R, V, put
  <2>3. CASE put = x /\ ~x.ok BY <2>2, <2>3
  <2>4. CASE put = [x EXCEPT !.ok = FALSE] BY <2>1, <2>2, <2>4
  <2>5. CASE \E i \in DOMAIN x.rows : /\ x.rows[i].ref = new.ref \/ x.rows[i].key = new.key
                                      /\ put = [x EXCEPT !.rows[i] = Merged(@, new)]
    <3> PICK i \in DOMAIN x.rows : /\ x.rows[i].ref = new.ref \/ x.rows[i].key = new.key
                                   /\ put = [x EXCEPT !.rows[i] = Merged(@, new)]
      BY <2>5
    <3>1. x.rows[i].key = n BY <1>d, <2>2
    <3>2. i \in DOMAIN put.rows /\ put.rows[i] = Merged(x.rows[i], new) BY <2>1
    <3>3. LET m == Merged(x.rows[i], new)
          IN m.ref = k /\ m.name = n /\ m.key = n /\ m.status = "active" /\ m.meta # "plain"
      BY <1>d, <2>a, <3>1 DEF Merged, RowSet
    <3> QED BY <3>2, <3>3 DEF Heads
  <2>6. CASE put = [x EXCEPT !.rows = Append(@, new)]
    <3>1. put.rows = Append(x.rows, new) BY <2>1, <2>6
    <3>2. Len(x.rows) + 1 \in DOMAIN put.rows /\ put.rows[Len(x.rows) + 1] = new BY <1>a, <2>b, <3>1
    <3> QED BY <1>d, <3>2 DEF Heads
  <2> QED BY <1>5, <2>3, <2>4, <2>5, <2>6, PutCases
<1> HIDE DEF put
<1>7. Heads(left.rows, k, n)
  <2> DEFINE G == {y \in Tables(R, V) : Heads(y.rows, k, n) /\ DOMAIN y.rows = DOMAIN put.rows}
  <2>1. put \in G BY <1>4, <1>6
  <2>a. put.rows \in Seq(R) BY <1>4 DEF Tables
  <2>2. PICK S : Inherits(put.rows, items) \in Seq(S) BY <2>a, InheritStatements
  <2>3. ASSUME NEW j \in 1..Len(Inherits(put.rows, items)), NEW y \in G
        PROVE  Apply(y, Inherits(put.rows, items)[j]) \in G
    <3>1. j \in 1..Len(put.rows) BY <2>a, InheritStatements
    <3>2. Inherits(put.rows, items)[j] = [do |-> "inherit", of |-> j, items |-> items]
      BY <2>a, <3>1, InheritStatements
    <3>3. Apply(y, Inherits(put.rows, items)[j]) = Inherit(y, j, items) BY <3>2, Applied
    <3>4. y \in Tables(R, V) /\ Heads(y.rows, k, n) /\ DOMAIN y.rows = DOMAIN put.rows OBVIOUS
    <3>5. j \in DOMAIN y.rows BY <2>a, <3>1, <3>4
    <3>6. Inherit(y, j, items) \in Tables(R, V) /\ DOMAIN Inherit(y, j, items).rows = DOMAIN y.rows
      BY <1>0, <1>a, <3>4, <3>5, InheritGood
    <3>7. Heads(Inherit(y, j, items).rows, k, n)
      <4>1. y \in [rows : Seq(R), vols : SUBSET V, ok : BOOLEAN] BY <3>4 DEF Tables
      <4>2. PICK i \in DOMAIN y.rows : /\ y.rows[i].ref = k /\ y.rows[i].name = n /\ y.rows[i].key = n
                                       /\ y.rows[i].status = "active" /\ y.rows[i].meta # "plain"
        BY <3>4 DEF Heads
      <4>3. y.rows[i] \in RowSet(N, H) BY <4>1 DEF GoodRows
      <4>4. CASE ~(y.rows[j].meta = "plain" \/ k = y.rows[j].ref)
        <5> DEFINE s == Inherit(y, j, items).rows
        <5>1. s = y.rows \/ s = LeftRows(y.rows, j, k)
          <6>1. CASE Inherit(y, j, items) = y BY <6>1
          <6>2. ASSUME NEW m \in DOMAIN items, Inherit(y, j, items) = Left(y, j, items[m].ref) PROVE s = LeftRows(y.rows, j, k)
            BY <1>a, <1>d, <4>1, <6>2 DEF Left, Chased
          <6> QED BY <1>a, <6>1, <6>2, InheritCases
        <5>2. j # i BY <4>2, <4>4
        <5>3. i \in DOMAIN s /\ s[i] \in {y.rows[i], [y.rows[i] EXCEPT !.meta = y.rows[j].meta]}
          BY <4>2, <5>1, <5>2 DEF LeftRows
        <5>4. /\ s[i].ref = k /\ s[i].name = n /\ s[i].key = n /\ s[i].status = "active" /\ s[i].meta # "plain"
          BY <4>2, <4>3, <4>4, <5>3 DEF RowSet
        <5> HIDE DEF s
        <5> QED BY <5>3, <5>4 DEF Heads, s
      <4>5. CASE y.rows[j].meta = "plain" \/ k = y.rows[j].ref
        <5>1. Inherit(y, j, items) = y BY <1>a, <1>d, <4>5 DEF Inherit
        <5> QED BY <3>4, <5>1
      <4> QED BY <4>4, <4>5
    <3> HIDE DEF R, V
    <3> QED BY <3>3, <3>4, <3>6, <3>7
  <2> HIDE DEF G
  <2>4. left \in G BY <2>1, <2>2, <2>3, BatchStays
  <2> QED BY <2>4 DEF G
<1> QED BY <1>3, <1>7, <1>c, <1>f DEF items, new

(* The original of a conversion stays where it is listed. *)
OriginalsStay == \A o, q \in Ops : Kind(o) = "move" /\ Sender(q) /\ Kind(q) = "convert" => Of(o) # Of(q)

HasRow(k, n, m) == OfRow(rows, Row(k, n, m))

(* The handle of the row whose parts a sender sends. *)
Heading(o, k) ==
  /\ k \in Handles /\ Titles[k] = Whole(Of(o))
  /\ Kind(o) = "upload" => k = key[o]
  /\ Kind(o) = "convert" => \E h \in DOMAIN plan.holds : plan.holds[h] = Of(o) /\ k = <<h, 0>>

(* The name of what is converted has one handle; the name of what is uploaded
   in parts is on no listing. *)
LEMMA SoleHandle ==
  ASSUME Base, Alone, SentWorld, NEW o \in Ops, Sender(o), Kind(o) = "convert", NEW k, Heading(o, k),
         NEW g \in Handles, Titles[g] = Whole(Of(o))
  PROVE  g = k
<1>1. PICK h \in DOMAIN plan.holds : plan.holds[h] = Of(o) /\ k = <<h, 0>> BY DEF Heading
<1>2. CASE g[1] = 0
  <2>1. g[2] \in DOMAIN parents /\ Titles[g] = Whole(parents[g[2]]) BY <1>2 DEF Handles, Titles
  <2>2. parents[g[2]] = Of(o) BY <2>1 DEF Whole
  <2>3. PICK q \in Ops : Sender(q) /\ Kind(q) = "upload" /\ Of(q) = Of(o) BY <2>1, <2>2 DEF SentWorld
  <2> QED BY <2>3 DEF Alone, OneSender
<1>3. CASE g[1] # 0
  <2>1. g \in Nat \X Nat /\ g[1] \in DOMAIN cloud /\ cloud[g[1]] # Never /\ g[2] <= session
        /\ cloud[g[1]].name = Whole(Of(o))
    BY <1>3 DEF Handles, Titles
  <2>2. g[1] \in DOMAIN plan.holds /\ plan.holds[g[1]] = Of(o) BY <2>1 DEF SentWorld, Ever
  <2>3. g[1] = h BY <1>1, <2>2, FilesAssumption DEF FilesAssumption, Base, WorldOK
  <2>4. session = 0 BY DEF SentWorld, Alone, HandlesLast
  <2>5. g[2] = 0 /\ g = <<g[1], g[2]>> BY <2>1, <2>4
  <2> QED BY <1>1, <2>3, <2>5
<1> QED BY <1>2, <1>3

LEMMA NotListed ==
  ASSUME Base, SentWorld, NEW o \in Ops, Sender(o), Kind(o) = "upload",
         NEW it \in ItemSet(Names, Handles, Titles)
  PROVE  it.name # Whole(Of(o))
<1>1. it.ref \in Handles /\ it.name = Titles[it.ref] /\ it.ref[1] # 0 BY DEF ItemSet, RowSet
<1>2. it.ref[1] \in Ever /\ it.name = cloud[it.ref[1]].name BY <1>1 DEF Handles, Titles, Ever
<1> QED BY <1>2 DEF SentWorld

(* What becomes of that row: a sync prunes it while it is a plain one, and the
   operation makes it a composition. *)
LEMMA NextRow ==
  ASSUME SentBase, Alone, [Next]_vars, NEW o \in Ops, Sender(o), NEW k, Heading(o, k),
         NEW m \in {"plain", "parent", "whole"}, HasRow(k, Whole(Of(o)), m)
  PROVE  \/ OfRow(rows', Row(k, Whole(Of(o)), m))
         \/ m = "plain" /\ \E q \in Ops : SyncPrunes(q) /\ k \notin Refs(seen[q])
         \/ Stamps(o) /\ key[o] = k /\ OfRow(rows', Row(k, Whole(Of(o)), "whole"))
<1> DEFINE r == Row(k, Whole(Of(o)), m)
           H == Handles'
           T == Titles'
           R == GoodRows(Names, H, ByName, T)
           I == ItemSet(Names, Handles, Titles)
           Goal == \/ OfRow(rows', r)
                   \/ m = "plain" /\ \E q \in Ops : SyncPrunes(q) /\ k \notin Refs(seen[q])
                   \/ Stamps(o) /\ key[o] = k /\ OfRow(rows', Row(k, Whole(Of(o)), "whole"))
<1>a. Base /\ WorldOK /\ LocalOK /\ TableOK(ByName, PartNames) /\ SentWorld
      /\ (\A q \in Ops : StageOK(q) /\ TargetOK(q) /\ KeysOK(q) /\ SeenOK(q))
  BY DEF SentBase, Base
<1>b. WorldOK' /\ Grow BY <1>a, NextWorld
<1>c. OfRow(rows, r) BY DEF HasRow
<1>d. r.ref = k /\ r.name = Whole(Of(o)) /\ r.key = r.name /\ r.status = "active" /\ r.meta = m BY DEF Row
<1>e. k \in Handles /\ Titles[k] = Whole(Of(o)) BY DEF Heading
<1>f. Kind(o) \in {"upload", "convert"} BY DEF Sender, Replaces
<1>g. ASSUME NEW items \in Seq(I) PROVE OfRow(Upserted(items).rows, r)
  <2>1. \A n \in DOMAIN items : items[n] \in I OBVIOUS
  <2>2. \A n \in DOMAIN items : items[n].key = items[n].name /\ items[n].meta = "plain" BY <2>1 DEF ItemSet
  <2>3. (\A n \in DOMAIN items : items[n].name # r.name) \/ (\A h \in Handles : Titles[h] = r.name => h = r.ref)
    <3>1. CASE Kind(o) = "upload" BY <1>a, <1>d, <2>1, <3>1, NotListed
    <3>2. CASE Kind(o) = "convert" BY <1>a, <1>d, <3>2, SoleHandle
    <3> QED BY <1>f, <3>1, <3>2
  <2>4. I \subseteq GoodRows(Names, Handles, ByName, Titles) BY GoodGrows
  <2> HIDE DEF I, r
  <2>5. items \in Seq(GoodRows(Names, Handles, ByName, Titles)) BY <2>4, SeqGrows
  <2>6. rows \in Seq(GoodRows(Names, Handles, ByName, Titles))
        /\ vols \in SUBSET GoodVols(PartNames, Handles, Titles, PartNames) BY <1>a DEF TableOK
  <2>7. \A h \in Handles : Titles[h] \in Names BY <1>a, TitlesIn
  <2>8. Aside(items, r, Handles, Titles) BY <1>d, <2>2, <2>3 DEF Aside
  <2> QED BY ONLY <1>c, <2>5, <2>6, <2>7, <2>8, NamesExact, UpsertedLeavesRow
<1>h. rows \in Seq(R) /\ vols \in SUBSET GoodVols(PartNames, H, T, PartNames)
  <2>d. Handles \subseteq H /\ \A h \in Handles : T[h] = Titles[h] BY <1>b DEF Grow
  <2>1. GoodRows(Names, Handles, ByName, Titles) \subseteq R BY <2>d, GoodGrows
  <2>2. GoodVols(PartNames, Handles, Titles, PartNames) \subseteq GoodVols(PartNames, H, T, PartNames)
    BY <2>d, GoodGrows
  <2>3. rows \in Seq(GoodRows(Names, Handles, ByName, Titles)) /\ vols \in SUBSET GoodVols(PartNames, Handles, Titles, PartNames)
    BY <1>a DEF TableOK
  <2> HIDE DEF R
  <2> QED BY <2>1, <2>2, <2>3, SeqGrows
<1>i. \A h \in H : T[h] \in Names BY <1>b, NextTitles, SamePlan
<1>j. \E i \in DOMAIN rows : rows[i] = r BY <1>c DEF OfRow
<1> SUFFICES Goal OBVIOUS
<1> HIDE DEF H, T, R, I, r
<1>k. ASSUME rows' = rows PROVE Goal BY <1>c, <1>k
<1>1. ASSUME NEW q \in Ops, Work(q) PROVE Goal
<2>1. CASE Submit(q) BY <1>k, <2>1 DEF Submit, table
<2>2. CASE Fails(q) BY <1>k, <2>2 DEF Fails, table
<2>3. CASE Pauses(q) BY <1>k, <2>3 DEF Pauses, table
<2>4. CASE Resumes(q) BY <1>k, <2>4 DEF Resumes, table
<2>5. CASE SyncStarts(q) BY <1>k, <2>5 DEF SyncStarts, table
<2>6. CASE SyncLists(q) BY <1>k, <2>6 DEF SyncLists, table
<2>7. CASE SyncListsDeep(q) BY <1>k, <2>7 DEF SyncListsDeep, table
<2>8. CASE SyncIndexes(q)
    <3>1. rows' = rows \/ rows' = Upserted(seen[q]).rows BY <2>8 DEF SyncIndexes, table
    <3>2. seen[q] \in Seq(I) BY <1>a DEF SeenOK, I
    <3> QED BY <1>k, <1>g, <3>1, <3>2
<2>9. CASE SyncPrunes(q)
    <3>1. CASE m = "plain" /\ k \notin Refs(seen[q]) BY <2>9, <3>1
    <3>2. CASE m # "plain" \/ k \in Refs(seen[q])
      <4>1. rows' = Pruned({it.ref : it \in Range(seen[q])}) BY <2>9 DEF SyncPrunes
      <4>2. k \in Refs(seen[q]) => k \in {it.ref : it \in Range(seen[q])} BY DEF Refs, Range
      <4>3. PICK i \in DOMAIN rows : rows[i] = r BY <1>j
      <4>4. i \in DOMAIN rows' /\ rows'[i] = rows[i] BY <1>d, <3>2, <4>1, <4>2, <4>3 DEF Pruned
      <4> QED BY <4>3, <4>4 DEF OfRow
    <3> QED BY <3>1, <3>2
<2>10. CASE SyncEnds(q) BY <1>k, <2>10 DEF SyncEnds, table
<2>11. CASE SyncFailed(q) BY <1>k, <2>11 DEF SyncFailed, table
<2>12. CASE UploadBegins(q)
    <3> DEFINE new == Row(<<0, Len(parents) + 1>>, Whole(Of(q)), "parent")
    <3>1. CASE UNCHANGED table BY <1>k, <3>1 DEF table
    <3>2. CASE /\ parents' = Append(parents, Of(q)) /\ rows' = Upserted(<<new>>).rows
               /\ Kind(q) = "upload" /\ Of(q) \in Big /\ key[q] = NoRef
      <4>1. <<new>> \in Seq(R) BY <1>a, <3>2, NewParent DEF R, H, T
      <4>2. Sender(q) BY <3>2 DEF Sender, Replaces
      <4>3. q # o
        <5> SUFFICES ASSUME q = o PROVE FALSE OBVIOUS
        <5>1. k = NoRef BY <3>2 DEF Heading
        <5> QED BY <1>a, <1>e, <5>1, NoRefIsNone
      <4>4. Of(q) # Of(o) BY <4>2, <4>3 DEF Alone, OneSender
      <4>5. new.name # r.name /\ new.key = new.name BY <1>d, <4>4 DEF Row, Whole
      <4>6. new.ref # r.ref
        <5>1. <<0, Len(parents) + 1>> \notin Handles BY <1>a DEF Handles, WorldOK
        <5> QED BY <1>d, <1>e, <5>1 DEF Row
      <4> DEFINE items == <<new>>
      <4>7. DOMAIN items = {1} /\ items[1] = new OBVIOUS
      <4>8. /\ \A n \in DOMAIN items : items[n].name # r.name /\ items[n].key = items[n].name
            /\ \A n \in DOMAIN items : items[n].ref # r.ref
        BY <4>5, <4>6, <4>7
      <4>a. Aside(items, r, H, T) BY <1>d, <4>8 DEF Aside
      <4>9. items \in Seq(R) BY <4>1
      <4> HIDE DEF items, new
      <4>10. OfRow(Upserted(items).rows, r)
        BY ONLY <1>c, <1>h, <1>i, <4>a, <4>9, NamesExact, UpsertedLeavesRow DEF R
      <4> QED BY <3>2, <4>10 DEF items
    <3> QED BY <2>12, <3>1, <3>2 DEF UploadBegins, table
<2>13. CASE UploadKeeps(q) BY <1>k, <2>13 DEF UploadKeeps, table
<2>14. CASE ConvertBegins(q) BY <1>k, <2>14 DEF ConvertBegins, table
<2>15. CASE Downloads(q) BY <1>k, <2>15 DEF Downloads, table
<2>16. CASE Splits(q) BY <1>k, <2>16 DEF Splits, table
<2>17. CASE PartStarts(q) BY <1>k, <2>17 DEF PartStarts, table
<2>18. CASE Sends(q) BY <1>k, <2>18 DEF Sends, table
<2>19. CASE PartEnds(q) BY <1>k, <2>19 DEF PartEnds, table
<2>20. CASE Stamps(q)
    <3>1. at[q] = "stamp"
          /\ rows' = [j \in DOMAIN rows |-> IF rows[j].ref = key[q] THEN [rows[j] EXCEPT !.meta = "whole"] ELSE rows[j]]
      BY <2>20 DEF Stamps
    <3>2. PICK i \in DOMAIN rows : rows[i] = r BY <1>j
    <3>3. CASE key[q] # k BY <1>d, <3>1, <3>2, <3>3 DEF OfRow
    <3>4. CASE key[q] = k
      <4>1. Sender(q) BY <1>a, <3>1 DEF StageOK, Sending, Sender
      <4>2. KeyOK(q, key[q]) BY <1>a, <4>1 DEF KeysOK, Sender, Replaces
      <4>3. NoRef \notin Handles BY <1>a, NoRefIsNone
      <4>4. Of(q) = Of(o) BY <1>e, <3>4, <4>2, <4>3 DEF KeyOK, Whole
      <4>5. q = o BY <4>1, <4>4 DEF Alone, OneSender
      <4>6. rows'[i] = [r EXCEPT !.meta = "whole"] /\ i \in DOMAIN rows' BY <1>d, <3>1, <3>2, <3>4
      <4>7. [r EXCEPT !.meta = "whole"] = Row(k, Whole(Of(o)), "whole") BY DEF r, Row
      <4> QED BY <2>20, <3>4, <4>5, <4>6, <4>7 DEF OfRow
    <3> QED BY <3>3, <3>4
<2>21. CASE DeleteBegins(q) BY <1>k, <2>21 DEF DeleteBegins, table
<2>22. CASE Deletes(q) BY <1>k, <2>22 DEF Deletes, table
<2>23. CASE FindsNothing(q) BY <1>k, <2>23 DEF FindsNothing, table
<2>24. CASE Forgets(q)
    <3>1. PICK i \in DOMAIN rows : rows[i] = r BY <1>j
    <3>2. at[q] = "forget" /\ rows' = [rows EXCEPT ![RowOf(q)].status = "deleted"] BY <2>24 DEF Forgets
    <3>3. Kind(q) = "delete" BY <1>a, <3>2 DEF StageOK
    <3>4. RowOf(q) \in DOMAIN rows /\ rows[RowOf(q)].name[1] = Of(q) BY <1>a, <3>2, <3>3 DEF TargetOK, RowOf
    <3>5. Of(q) \in Taken /\ Of(o) \notin Taken BY <3>3 DEF Taken, Alone, DeletesApart, Sender
    <3>6. RowOf(q) # i BY <1>d, <3>1, <3>4, <3>5 DEF Whole
    <3>7. i \in DOMAIN rows' /\ rows'[i] = rows[i] BY <3>1, <3>2, <3>6
    <3> QED BY <3>1, <3>7 DEF OfRow
<2>25. CASE RenameBegins(q) BY <1>k, <2>25 DEF RenameBegins, table
<2>26. CASE RenamesRow(q) BY <1>a, <2>26 DEF RenamesRow, StageOK, Alone, NoRename
<2>27. CASE Moves(q) BY <1>k, <2>27 DEF Moves, table
<2>28. CASE FolderBegins(q) BY <1>k, <2>28 DEF FolderBegins, table
<2>29. CASE SyncBegins(q) BY <1>k, <2>29 DEF SyncBegins, table
<2>30. CASE Reads(q) BY <1>k, <2>30 DEF Reads, table
<2> QED BY <2>1, <2>2, <2>3, <2>4, <2>5, <2>6, <2>7, <2>8, <2>9, <2>10, <2>11, <2>12, <2>13, <2>14, <2>15, <2>16, <2>17, <2>18, <2>19, <2>20, <2>21, <2>22, <2>23, <2>24, <2>25, <2>26, <2>27, <2>28, <2>29, <2>30, <1>1 DEF Work
<1>2. ASSUME NEW j \in DOMAIN cloud, IndexEvent(j) PROVE Goal
  <2>1. j \in news /\ rows' = Upserted(<<Item(j)>>).rows BY <1>2 DEF IndexEvent
  <2>2. cloud[j] # Never BY <1>a, <2>1 DEF WorldOK
  <2>3. Item(j) \in I BY <1>a, <2>2, ItemGood DEF I
  <2>4. <<Item(j)>> \in Seq(I) BY <2>3
  <2> QED BY <1>g, <2>1, <2>4
<1>3. CASE Crash BY <1>k, <1>3 DEF Crash, table
<1>4. CASE NewSession BY <1>k, <1>4 DEF NewSession, table
<1>5. ASSUME NEW c \in plan.contents, MemberUploads(c) PROVE Goal BY <1>k, <1>5 DEF MemberUploads, table
<1>6. ASSUME NEW j \in DOMAIN cloud, MemberDeletes(j) PROVE Goal BY <1>k, <1>6 DEF MemberDeletes, table
<1>7. CASE UNCHANGED vars BY <1>k, <1>7 DEF vars
<1> HIDE DEF Goal
<1> QED BY <1>1, <1>2, <1>3, <1>4, <1>5, <1>6, <1>7 DEF Next

LEMMA StepOf ==
  ASSUME LocalOK, [Next]_vars, NEW o \in Ops
  PROVE  Work(o) \/ SameAt(o) \/ Crash
<1>1. ASSUME NEW q \in Ops, q # o, Work(q) PROVE SameAt(o) BY <1>1, WorkLocal
<1>2. ASSUME local' = local PROVE SameAt(o) BY <1>2 DEF SameAt, local
<1>3. CASE NewSession BY <1>2, <1>3 DEF NewSession
<1>4. ASSUME NEW c \in plan.contents, MemberUploads(c) PROVE SameAt(o) BY <1>2, <1>4 DEF MemberUploads
<1>5. ASSUME NEW k \in DOMAIN cloud, MemberDeletes(k) PROVE SameAt(o) BY <1>2, <1>5 DEF MemberDeletes
<1>6. ASSUME NEW k \in DOMAIN cloud, IndexEvent(k) PROVE SameAt(o) BY <1>2, <1>6 DEF IndexEvent
<1>7. CASE UNCHANGED vars BY <1>2, <1>7 DEF vars, local
<1> QED BY <1>1, <1>3, <1>4, <1>5, <1>6, <1>7 DEF Next

(* A conversion comes to the deletion of the original from its stamp. *)
LEMMA ComesToDelete ==
  ASSUME NEW o \in Ops, LocalOK, StageOK(o), Kind(o) = "convert", Work(o), at'[o] = "delete"
  PROVE  Stamps(o)
<1> USE DEF LocalOK, Go, Then, Raise, Sync, StageOK
<1>1. CASE Submit(o) BY <1>1 DEF Submit
<1>2. CASE Fails(o) BY <1>2 DEF Fails, Busy
<1>3. CASE Pauses(o) BY <1>3 DEF Pauses
<1>4. CASE Resumes(o) BY <1>4 DEF Resumes
<1>5. CASE SyncStarts(o) BY <1>5 DEF SyncStarts
<1>6. CASE SyncLists(o) BY <1>6 DEF SyncLists
<1>7. CASE SyncListsDeep(o) BY <1>7 DEF SyncListsDeep
<1>8. CASE SyncIndexes(o) BY <1>8 DEF SyncIndexes
<1>9. CASE SyncPrunes(o) BY <1>9 DEF SyncPrunes
<1>10. CASE SyncEnds(o) BY <1>10 DEF SyncEnds
<1>11. CASE SyncFailed(o) BY <1>11 DEF SyncFailed
<1>12. CASE UploadBegins(o) BY <1>12 DEF UploadBegins
<1>13. CASE UploadKeeps(o) BY <1>13 DEF UploadKeeps
<1>14. CASE ConvertBegins(o) BY <1>14 DEF ConvertBegins
<1>15. CASE Downloads(o) BY <1>15 DEF Downloads
<1>16. CASE Splits(o) BY <1>16 DEF Splits
<1>17. CASE PartStarts(o) BY <1>17 DEF PartStarts
<1>18. CASE Sends(o)
  <2>1. todo[o] # {} BY <1>18 DEF Sends, Replaces
  <2>2. Then(o, "mark") \/ Raise(o) BY <1>18, <2>1 DEF Sends
  <2> QED BY <2>2
<1>19. CASE PartEnds(o) BY <1>19 DEF PartEnds
<1>20. CASE Stamps(o) BY <1>20
<1>21. CASE DeleteBegins(o) BY <1>21 DEF DeleteBegins
<1>22. CASE Deletes(o) BY <1>22 DEF Deletes
<1>23. CASE FindsNothing(o) BY <1>23 DEF FindsNothing
<1>24. CASE Forgets(o) BY <1>24 DEF Forgets
<1>25. CASE RenameBegins(o) BY <1>25 DEF RenameBegins
<1>26. CASE RenamesRow(o) BY <1>26 DEF RenamesRow
<1>27. CASE Moves(o) BY <1>27 DEF Moves
<1>28. CASE FolderBegins(o) BY <1>28 DEF FolderBegins
<1>29. CASE SyncBegins(o) BY <1>29 DEF SyncBegins
<1>30. CASE Reads(o) BY <1>30 DEF Reads
<1> QED BY <1>1, <1>2, <1>3, <1>4, <1>5, <1>6, <1>7, <1>8, <1>9, <1>10, <1>11, <1>12, <1>13, <1>14, <1>15, <1>16, <1>17, <1>18, <1>19, <1>20, <1>21, <1>22, <1>23, <1>24, <1>25, <1>26, <1>27, <1>28, <1>29, <1>30 DEF Work

(* Only a move takes a file to another level. *)
LEMMA LevelStays ==
  ASSUME WorldOK, [Next]_vars, NEW k \in Ever
  PROVE  cloud'[k].deep = cloud[k].deep \/ \E q \in Ops : Moves(q) /\ cloud[k].name = Whole(Of(q))
<1> DEFINE Goal == cloud'[k].deep = cloud[k].deep \/ \E q \in Ops : Moves(q) /\ cloud[k].name = Whole(Of(q))
<1>a. k \in DOMAIN cloud /\ cloud[k] # Never BY DEF Ever
<1>b. ASSUME cloud' = cloud PROVE Goal BY <1>b
<1>c. ASSUME NEW what, NEW name, NEW deep, NEW z, Stored(what, name, deep, z) PROVE Goal
  <2>1. PICK j : Made(j, File(what, name, deep, z)) BY <1>c, StoredMade
  <2> QED BY <1>a, <2>1 DEF Made, Free
<1>d. ASSUME NEW j, Emptied(j) PROVE Goal BY <1>a, <1>d DEF Emptied
<1> HIDE DEF Goal
<1>1. ASSUME NEW q \in Ops, Work(q) PROVE Goal
<2>1. CASE Submit(q) BY <1>b, <2>1 DEF Submit
<2>2. CASE Fails(q) BY <1>b, <2>2 DEF Fails
<2>3. CASE Pauses(q) BY <1>b, <2>3 DEF Pauses
<2>4. CASE Resumes(q) BY <1>b, <2>4 DEF Resumes
<2>5. CASE SyncStarts(q) BY <1>b, <2>5 DEF SyncStarts
<2>6. CASE SyncLists(q) BY <1>b, <2>6 DEF SyncLists
<2>7. CASE SyncListsDeep(q) BY <1>b, <2>7 DEF SyncListsDeep
<2>8. CASE SyncIndexes(q) BY <1>b, <2>8 DEF SyncIndexes
<2>9. CASE SyncPrunes(q) BY <1>b, <2>9 DEF SyncPrunes
<2>10. CASE SyncEnds(q) BY <1>b, <2>10 DEF SyncEnds
<2>11. CASE SyncFailed(q) BY <1>b, <2>11 DEF SyncFailed
<2>12. CASE UploadBegins(q) BY <1>b, <2>12 DEF UploadBegins
<2>13. CASE UploadKeeps(q) BY <1>b, <2>13 DEF UploadKeeps
<2>14. CASE ConvertBegins(q) BY <1>b, <2>14 DEF ConvertBegins
<2>15. CASE Downloads(q) BY <1>b, <2>15 DEF Downloads
<2>16. CASE Splits(q) BY <1>b, <2>16 DEF Splits
<2>17. CASE PartStarts(q) BY <1>b, <2>17 DEF PartStarts
<2>18. CASE Sends(q) BY <1>c, <2>18 DEF Sends
<2>19. CASE PartEnds(q) BY <1>b, <2>19 DEF PartEnds
<2>20. CASE Stamps(q) BY <1>b, <2>20 DEF Stamps
<2>21. CASE DeleteBegins(q) BY <1>b, <2>21 DEF DeleteBegins
<2>22. CASE Deletes(q) BY <1>d, <2>22 DEF Deletes
<2>23. CASE FindsNothing(q) BY <1>b, <2>23 DEF FindsNothing
<2>24. CASE Forgets(q) BY <1>b, <2>24 DEF Forgets
<2>25. CASE RenameBegins(q) BY <1>b, <2>25 DEF RenameBegins
<2>26. CASE RenamesRow(q) BY <1>b, <2>26 DEF RenamesRow
<2>27. CASE Moves(q)
    <3>1. PICK j \in Named(Whole(Of(q))) : cloud' = [cloud EXCEPT ![j].deep = ~@] BY <2>27 DEF Moves
    <3>2. cloud[j].name = Whole(Of(q)) BY DEF Named
    <3> QED BY <1>a, <2>27, <3>1, <3>2 DEF Goal
<2>28. CASE FolderBegins(q) BY <1>b, <2>28 DEF FolderBegins
<2>29. CASE SyncBegins(q) BY <1>b, <2>29 DEF SyncBegins
<2>30. CASE Reads(q) BY <1>b, <2>30 DEF Reads
<2> QED BY <2>1, <2>2, <2>3, <2>4, <2>5, <2>6, <2>7, <2>8, <2>9, <2>10, <2>11, <2>12, <2>13, <2>14, <2>15, <2>16, <2>17, <2>18, <2>19, <2>20, <2>21, <2>22, <2>23, <2>24, <2>25, <2>26, <2>27, <2>28, <2>29, <2>30, <1>1 DEF Work
<1>2. CASE Crash BY <1>b, <1>2 DEF Crash
<1>3. CASE NewSession BY <1>b, <1>3 DEF NewSession
<1>4. ASSUME NEW c \in plan.contents, MemberUploads(c) PROVE Goal BY <1>c, <1>4 DEF MemberUploads
<1>5. ASSUME NEW j \in DOMAIN cloud, MemberDeletes(j) PROVE Goal BY <1>d, <1>5 DEF MemberDeletes
<1>6. ASSUME NEW j \in DOMAIN cloud, IndexEvent(j) PROVE Goal BY <1>b, <1>6 DEF IndexEvent
<1>7. CASE UNCHANGED vars BY <1>b, <1>7 DEF vars
<1> QED BY <1>1, <1>2, <1>3, <1>4, <1>5, <1>6, <1>7 DEF Next, Goal

(* The key of a sender is its own for good once the ledger has it. *)
LEMMA KeyLasts ==
  ASSUME SentBase, Alone, [Next]_vars, NEW o \in Ops, Sender(o), SenderOK(o), key[o] # NoRef, at[o] # "keep"
  PROVE  key'[o] = key[o] /\ at'[o] # "keep"
<1>a. Base /\ LocalOK /\ WorldOK /\ KeysOK(o) BY DEF SentBase, Base
<1>b. InLine(o) /\ saved[o] = key[o] BY DEF SenderOK, InLine
<1>1. CASE Work(o)
  <2>1. /\ InLine(o)'
        /\ \/ Submit(o)
           \/ key'[o] = key[o] /\ saved'[o] = saved[o]
           \/ UploadKeeps(o)
           \/ UploadBegins(o) /\ key'[o] = <<0, Len(parents) + 1>> /\ parents' = Append(parents, Of(o))
    BY <1>1, <1>a, <1>b, WorkInLine DEF KeyStays
  <2>2. CASE Submit(o)
    <3>1. at'[o] = "begin" BY <1>a, <2>2 DEF Submit, Go, LocalOK
    <3>2. CASE Kind(o) = "upload" BY <2>2, <3>1, <3>2, SubmitsKey
    <3>3. CASE Kind(o) = "convert"
      <4>1. PICK h \in DOMAIN plan.holds : plan.holds[h] = Of(o) /\ key'[o] = <<h, 0>> BY <2>2, <3>3, SubmitsKey
      <4>2. PICK j \in DOMAIN plan.holds : plan.holds[j] = Of(o) /\ key[o] = <<j, 0>> BY <3>3 DEF SenderOK
      <4>3. h = j BY <1>a, <4>1, <4>2, FilesAssumption DEF FilesAssumption, WorldOK
      <4> QED BY <3>1, <4>1, <4>2, <4>3
    <3> QED BY <3>2, <3>3 DEF Sender, Replaces
  <2>3. CASE key'[o] = key[o] /\ saved'[o] = saved[o] BY <1>b, <2>1, <2>3 DEF InLine
  <2>4. CASE UploadKeeps(o) BY <2>4 DEF UploadKeeps
  <2>5. CASE UploadBegins(o) /\ parents' = Append(parents, Of(o))
    <3>1. parents' # parents BY <1>a, <2>5, Scenario DEF WorldOK
    <3> QED BY <2>5, <3>1 DEF UploadBegins
  <2> QED BY <2>1, <2>2, <2>3, <2>4, <2>5
<1>2. CASE SameAt(o) BY <1>2 DEF SameAt
<1>3. CASE Crash BY <1>a, <1>b, <1>3 DEF Crash, LocalOK, Busy
<1> QED BY <1>1, <1>2, <1>3, <1>a, StepOf

-----------------------------------------------------------------------------
(* A content in parts has a row that lists them all. *)
Composed(o, k) == HasRow(k, Whole(Of(o)), "whole") /\ \A p \in Parts(Of(o)) : Has(vols, k, p)

(* An upload's parent has its row from the first; the content is wanted when
   the row is a composition. *)
UploadOK(o) ==
  \/ /\ Of(o) \notin wanted
     /\ key[o] # NoRef => \E m \in {"parent", "whole"} : HasRow(key[o], Whole(Of(o)), m)
  \/ key[o] # NoRef /\ at[o] # "keep" /\ Composed(o, key[o])

(* While the row of an original is a plain one the original is there, and
   every sync that may yet prune has listed it. *)
Original(o, h) ==
  /\ HasRow(<<h, 0>>, Whole(Of(o)), "plain") /\ cloud[h].on /\ ~cloud[h].deep /\ at[o] # "delete"
  /\ \A q \in Ops : at[q] \in Syncing => <<h, 0>> \in Refs(seen[q])
ConvertOK(o, h) ==
  Of(o) \in wanted => Original(o, h) \/ (key[o] = <<h, 0>> /\ at[o] # "keep" /\ Composed(o, key[o]))

HeldOK ==
  \A h \in DOMAIN plan.holds : /\ h \in DOMAIN cloud /\ cloud[h] # Never
                               /\ cloud[h].what = Whole(plan.holds[h]) /\ cloud[h].name = Whole(plan.holds[h])
WantedOK ==
  \A c \in wanted \cap Big : \/ \E h \in DOMAIN plan.holds : plan.holds[h] = c
                             \/ \E o \in Ops : Sender(o) /\ Kind(o) = "upload" /\ Of(o) = c
ReachOK ==
  \A o \in Ops : Sender(o) =>
    /\ Kind(o) = "upload" => UploadOK(o)
    /\ Kind(o) = "convert" => \A h \in DOMAIN plan.holds : plan.holds[h] = Of(o) => ConvertOK(o, h)

LEMMA ComposedStays ==
  ASSUME SentBase, Alone, [Next]_vars, NEW o \in Ops, Sender(o), SenderOK(o), key[o] # NoRef, at[o] # "keep",
         Composed(o, key[o])
  PROVE  key'[o] # NoRef /\ at'[o] # "keep" /\ key'[o] = key[o] /\ Composed(o, key[o])'
<1>1. key'[o] = key[o] /\ at'[o] # "keep" BY KeyLasts
<1>2. Base /\ KeysOK(o) BY DEF SentBase, Base
<1>3. Heading(o, key[o])
  <2>1. KeyOK(o, key[o]) BY <1>2 DEF KeysOK, Sender, Replaces
  <2> QED BY <2>1 DEF KeyOK, Heading, SenderOK
<1>4. OfRow(rows', Row(key[o], Whole(Of(o)), "whole")) BY <1>3, NextRow DEF Composed
<1>5. Of(o)' = Of(o) BY SamePlan, SameScenario
<1>6. HasRow(key[o], Whole(Of(o)), "whole")' BY <1>1, <1>4, <1>5 DEF HasRow, Row, Whole
<1>7. \A p \in Parts(Of(o)) : Has(vols', key[o], p) BY <1>1, PartCarried DEF Composed
<1>8. Parts(Of(o))' = Parts(Of(o)) BY <1>5 DEF Parts
<1>9. (\A p \in Parts(Of(o)) : Has(vols, key[o], p))' BY <1>1, <1>7, <1>8 DEF Has
<1> QED BY <1>1, <1>6, <1>9 DEF Composed

(* The stamp of a row whose parts are all in the ledger. *)
LEMMA StampComposes ==
  ASSUME SentBase, Alone, NEW o \in Ops, Sender(o), SenderOK(o), \A p \in Parts(Of(o)) : PartOK(o, p), Stamps(o),
         NEW m, HasRow(key[o], Whole(Of(o)), m)
  PROVE  key'[o] # NoRef /\ at'[o] # "keep" /\ key'[o] = key[o] /\ Composed(o, key[o])'
<1>a. LocalOK BY DEF SentBase, Base
<1>1. [Next]_vars BY DEF Next, Work
<1>2. Of(o)' = Of(o) BY <1>1, SamePlan, SameScenario
<1>3. \A p \in Parts(Of(o)) : Has(vols, key[o], p) BY DEF PartOK, Stamps
<1>4. key[o] # NoRef
  <2>1. <<Of(o), 1>> \in Parts(Of(o)) BY DEF Parts, Sender
  <2> QED BY <1>3, <2>1, NoneUnder
<1>5. vols' = vols /\ key' = key /\ at'[o] # "keep" BY <1>a DEF Stamps, Then, Sync, Go, LocalOK
<1>6. HasRow(key[o], Whole(Of(o)), "whole")'
  <2>1. PICK i \in DOMAIN rows : rows[i] = Row(key[o], Whole(Of(o)), m) BY DEF HasRow, OfRow
  <2>2. rows[i].ref = key[o] BY <2>1 DEF Row
  <2>3. i \in DOMAIN rows' /\ rows'[i] = [rows[i] EXCEPT !.meta = "whole"] BY <2>2 DEF Stamps
  <2>4. [Row(key[o], Whole(Of(o)), m) EXCEPT !.meta = "whole"] = Row(key[o], Whole(Of(o)), "whole") BY DEF Row
  <2>5. OfRow(rows', Row(key[o], Whole(Of(o)), "whole")) BY <2>1, <2>3, <2>4 DEF OfRow
  <2> QED BY <1>2, <1>5, <2>5 DEF HasRow, Row, Whole
<1>7. Parts(Of(o))' = Parts(Of(o)) BY <1>2 DEF Parts
<1>8. (\A p \in Parts(Of(o)) : Has(vols, key[o], p))' BY <1>3, <1>5, <1>7 DEF Has
<1> QED BY <1>4, <1>5, <1>6, <1>8 DEF Composed

(* What comes to be wanted in parts is what an upload has just stamped. *)
LEMMA NewlyWanted ==
  ASSUME SentBase, Alone, [Next]_vars, NEW c \in wanted' \ wanted, c \in Big
  PROVE  \E o \in Ops : Stamps(o) /\ Kind(o) = "upload" /\ Sender(o) /\ c = Of(o)
<1>a. \A q \in Ops : StageOK(q) BY DEF SentBase, Base
<1>1. ~MemberUploads(c) BY DEF MemberUploads
<1>2. ASSUME NEW q \in Ops, c = Of(q), Sends(q), todo[q] = {} PROVE FALSE
  BY <1>a, <1>2 DEF Sends, StageOK, Replaces, Alone, NoRename
<1>3. PICK o \in Ops : c = Of(o) /\ Stamps(o) /\ Kind(o) # "convert" BY <1>1, <1>2, WantedIs
<1>4. Replaces(o) /\ Of(o) \in Big BY <1>a, <1>3 DEF Stamps, StageOK, Sending
<1> QED BY <1>3, <1>4 DEF Sender, Replaces

LEMMA NextUpload ==
  ASSUME SentBase, Alone, [Next]_vars, NEW o \in Ops, Sender(o), SenderOK(o), \A p \in Parts(Of(o)) : PartOK(o, p),
         Kind(o) = "upload", UploadOK(o)
  PROVE  UploadOK(o)'
<1>a. Base /\ LocalOK /\ WorldOK /\ KeysOK(o) /\ TableOK(ByName, PartNames) BY DEF SentBase, Base
<1>b. WorldOK' /\ Grow /\ plan' = plan BY <1>a, NextWorld, SamePlan
<1>c. Of(o)' = Of(o) BY <1>b, SameScenario
<1>d. Of(o) \in Big BY DEF Sender
<1>1. CASE key[o] # NoRef /\ at[o] # "keep" /\ Composed(o, key[o]) BY <1>1, ComposedStays DEF UploadOK
<1>2. CASE /\ Of(o) \notin wanted
           /\ key[o] # NoRef => \E m \in {"parent", "whole"} : HasRow(key[o], Whole(Of(o)), m)
  <2>1. CASE Of(o) \in wanted'
    <3>1. PICK q \in Ops : Stamps(q) /\ Sender(q) /\ Of(o) = Of(q) BY <1>2, <1>d, <2>1, NewlyWanted
    <3>2. q = o BY <3>1 DEF Alone, OneSender
    <3>3. key[o] # NoRef
      <4>1. <<Of(o), 1>> \in Parts(Of(o)) BY <1>d DEF Parts
      <4>2. Has(vols, key[o], <<Of(o), 1>>) BY <3>1, <3>2, <4>1 DEF PartOK, Stamps
      <4> QED BY <4>2, NoneUnder
    <3> QED BY <1>2, <3>1, <3>2, <3>3, StampComposes DEF UploadOK
  <2>2. CASE Of(o) \notin wanted'
    <3> SUFFICES ASSUME key'[o] # NoRef
                 PROVE  \E m \in {"parent", "whole"} : OfRow(rows', Row(key'[o], Whole(Of(o)), m))
      BY <1>c, <2>2 DEF UploadOK, HasRow, Row, Whole
    <3>1. CASE key'[o] = key[o]
      <4>1. PICK m \in {"parent", "whole"} : HasRow(key[o], Whole(Of(o)), m) BY <1>2, <3>1
      <4>2. KeyOK(o, key[o]) BY <1>a DEF KeysOK
      <4>3. Heading(o, key[o]) BY <3>1, <4>2 DEF KeyOK, Heading, SenderOK
      <4>4. OfRow(rows', Row(key[o], Whole(Of(o)), m)) \/ OfRow(rows', Row(key[o], Whole(Of(o)), "whole"))
        BY <4>1, <4>3, NextRow
      <4> QED BY <3>1, <4>4
    <3>2. CASE key'[o] # key[o]
      <4>1. ~SameAt(o) BY <3>2 DEF SameAt
      <4>2. CASE Crash BY <3>2, <4>2 DEF Crash, SenderOK
      <4>3. CASE Work(o)
        <5>1. /\ UploadBegins(o) /\ key'[o] = <<0, Len(parents) + 1>> /\ parents' = Append(parents, Of(o))
          <6>1. InLine(o) BY DEF SenderOK, InLine
          <6>2. CASE Submit(o) BY <3>2, <6>2, SubmitsKey
          <6> QED BY <1>a, <3>2, <4>3, <6>1, <6>2, WorkInLine DEF KeyStays
        <5> DEFINE k == <<0, Len(parents) + 1>>
                   n == Whole(Of(o))
        <5>2. parents' # parents BY <1>a, <5>1, Scenario DEF WorldOK
        <5>3. Upserted(<<Row(k, n, "parent")>>).ok /\ rows' = Upserted(<<Row(k, n, "parent")>>).rows
          BY <5>1, <5>2 DEF UploadBegins
        <5> DEFINE H == Handles'
                   T == Titles'
                   R == GoodRows(Names, H, ByName, T)
        <5>4. rows \in Seq(R) /\ vols \in SUBSET GoodVols(PartNames, H, T, PartNames)
          <6>d. Handles \subseteq H /\ \A h \in Handles : T[h] = Titles[h] BY <1>b DEF Grow
          <6>1. GoodRows(Names, Handles, ByName, Titles) \subseteq R BY <6>d, GoodGrows
          <6>2. GoodVols(PartNames, Handles, Titles, PartNames) \subseteq GoodVols(PartNames, H, T, PartNames)
            BY <6>d, GoodGrows
          <6>3. rows \in Seq(GoodRows(Names, Handles, ByName, Titles))
                /\ vols \in SUBSET GoodVols(PartNames, Handles, Titles, PartNames)
            BY <1>a DEF TableOK
          <6> HIDE DEF R
          <6> QED BY <6>1, <6>2, <6>3, SeqGrows
        <5>5. \A h \in H : T[h] \in Names BY <1>b, NextTitles
        <5>6. Row(k, n, "parent") \in R
          <6>1. <<Row(k, n, "parent")>> \in Seq(R) BY <1>a, <5>1, NewParent
          <6> DEFINE new == Row(k, n, "parent")
          <6> HIDE DEF R, new
          <6>2. <<new>> \in Seq(R) /\ 1 \in DOMAIN <<new>> BY <6>1 DEF new
          <6>3. <<new>>[1] \in R BY <6>2
          <6> QED BY <6>3 DEF new
        <5>7. \A i \in DOMAIN rows : rows[i].ref # k
          <6>1. k \notin Handles BY <1>a DEF Handles, WorldOK
          <6>2. \A i \in DOMAIN rows : rows[i].ref \in Handles
            <7>1. \A i \in DOMAIN rows : rows[i] \in RowSet(Names, Handles) BY <1>a DEF TableOK, GoodRows
            <7> QED BY <7>1 DEF RowSet
          <6> QED BY <6>1, <6>2
        <5> HIDE DEF H, T, R, k, n
        <5>8. Heads(rows', k, n)
          BY ONLY <5>3, <5>4, <5>5, <5>6, <5>7, NamesExact, UpsertedHeads DEF R
        <5>9. PICK i \in DOMAIN rows' : /\ rows'[i].ref = k /\ rows'[i].name = n /\ rows'[i].key = n
                                        /\ rows'[i].status = "active" /\ rows'[i].meta # "plain"
          BY <5>8 DEF Heads
        <5>10. rows'[i] \in [ref : H, name : Names, key : Names, status : {"active", "deleted"},
                             meta : {"plain", "parent", "whole"}]
          <6>1. TableOK(ByName, PartNames)' BY NextSentBase DEF SentBase
          <6>2. rows'[i] \in GoodRows(Names', H, ByName', T) BY <5>9, <6>1 DEF TableOK, H, T
          <6>3. Names' = Names BY <1>b DEF Names
          <6> QED BY <6>2, <6>3 DEF GoodRows, RowSet
        <5>11. rows'[i] = Row(k, n, rows'[i].meta) /\ rows'[i].meta \in {"parent", "whole"}
          BY <5>9, <5>10 DEF Row
        <5> QED BY <5>1, <5>9, <5>11 DEF k, n, OfRow
      <4> QED BY <1>a, <4>1, <4>2, <4>3, StepOf
    <3> QED BY <3>1, <3>2
  <2> QED BY <2>1, <2>2
<1> QED BY <1>1, <1>2 DEF UploadOK

LEMMA HeldOKStays ==
  ASSUME SentBase, Alone, [Next]_vars, HeldOK
  PROVE  HeldOK'
<1>a. WorldOK /\ WorldOK' /\ plan' = plan BY NextWorld, SamePlan DEF SentBase, Base
<1>b. CloudMoves BY NextOutside DEF SentBase, Alone, Outside
<1>c. DOMAIN cloud' = DOMAIN cloud BY <1>a DEF WorldOK, CloudOK
<1>1. ASSUME NEW h \in DOMAIN plan.holds
      PROVE  /\ h \in DOMAIN cloud /\ cloud'[h] # Never
             /\ cloud'[h].what = Whole(plan.holds[h]) /\ cloud'[h].name = Whole(plan.holds[h])
  <2>1. /\ h \in DOMAIN cloud /\ cloud[h] # Never
        /\ cloud[h].what = Whole(plan.holds[h]) /\ cloud[h].name = Whole(plan.holds[h])
    BY DEF HeldOK
  <2>2. cloud'[h] # Never
    <3>1. Grow BY NextWorld DEF SentBase, Base
    <3>2. session \in Nat /\ h \in Nat /\ h # 0 BY <1>a, <2>1, Scenario DEF WorldOK, CloudOK
    <3>3. <<h, 0>> \in Handles BY <2>1, <3>2 DEF Handles
    <3>4. <<h, 0>> \in Handles' BY <3>1, <3>3 DEF Grow
    <3> QED BY <3>2, <3>4 DEF Handles
  <2> QED BY <1>a, <1>b, <2>1, <2>2, CloudGrows
<1> QED BY <1>a, <1>c, <1>1 DEF HeldOK

LEMMA WantedOKStays ==
  ASSUME SentBase, Alone, [Next]_vars, WantedOK
  PROVE  WantedOK'
<1>a. plan' = plan BY SamePlan
<1>b. \A o \in Ops : (Sender(o)' <=> Sender(o)) /\ Kind(o)' = Kind(o) /\ Of(o)' = Of(o) BY <1>a, SameScenario
<1>1. ASSUME NEW c \in wanted' \cap Big
      PROVE  \/ \E h \in DOMAIN plan.holds : plan.holds[h] = c
             \/ \E o \in Ops : Sender(o) /\ Kind(o) = "upload" /\ Of(o) = c
  <2>1. CASE c \in wanted BY <1>1, <2>1 DEF WantedOK
  <2>2. CASE c \notin wanted BY <1>1, <2>2, NewlyWanted
  <2> QED BY <2>1, <2>2
<1> QED BY <1>a, <1>b, <1>1 DEF WantedOK

(* The original stays on the cloud, and on its level. *)
LEMMA OriginalOnCloud ==
  ASSUME SentBase, Alone, OriginalsStay, HeldOK, [Next]_vars, NEW o \in Ops, Sender(o), Kind(o) = "convert",
         NEW h \in DOMAIN plan.holds, plan.holds[h] = Of(o), Original(o, h), Of(o) \in wanted'
  PROVE  cloud'[h].on /\ ~cloud'[h].deep
<1>a. Base /\ WorldOK /\ LocalOK /\ (\A q \in Ops : StageOK(q)) BY DEF SentBase, Base
<1>1. /\ h \in DOMAIN cloud /\ cloud[h] # Never /\ cloud[h].what = Whole(Of(o)) /\ cloud[h].name = Whole(Of(o))
  BY DEF HeldOK
<1>2. cloud[h].on /\ ~cloud[h].deep /\ at[o] # "delete" BY DEF Original
<1>3. h \in There /\ h \in Ever BY <1>1, <1>2 DEF There, Ever
<1>4. cloud'[h].deep = cloud[h].deep
  <2>1. ASSUME NEW q \in Ops, Moves(q), cloud[h].name = Whole(Of(q)) PROVE FALSE
    <3>1. Kind(q) = "move" BY <2>1 DEF Moves
    <3>2. Of(q) = Of(o) BY <1>1, <2>1 DEF Whole
    <3> QED BY <3>1, <3>2 DEF OriginalsStay
  <2> QED BY <1>a, <1>3, <2>1, LevelStays
<1>5. ASSUME NEW q \in Ops, Deletes(q), NEW k \in Victims(q) PROVE k # h
  <2> SUFFICES ASSUME k = h PROVE FALSE OBVIOUS
  <2>1. at[q] = "delete" BY <1>5 DEF Deletes
  <2>2. cloud[h].what[1] = Of(q) BY <1>a, <2>1, VictimIs
  <2>3. Of(q) = Of(o) BY <1>1, <2>2 DEF Whole
  <2>4. Kind(q) \in {"delete", "convert"} BY <1>a, <2>1 DEF StageOK, Alone, NoRename
  <2>5. CASE Kind(q) = "delete" BY <2>3, <2>5 DEF Taken, Alone, DeletesApart, Sender
  <2>6. CASE Kind(q) = "convert"
    <3>1. Sender(q) BY <2>3, <2>6 DEF Sender, Replaces
    <3>2. q = o BY <2>3, <3>1 DEF Alone, OneSender
    <3> QED BY <1>2, <2>1, <3>2
  <2> QED BY <2>4, <2>5, <2>6
<1>6. ~MemberDeletes(h) BY <1>1 DEF MemberDeletes, Whole
<1>7. Stays(h) BY <1>a, <1>3, <1>5, <1>6, CopiesStay
<1>8. cloud'[h].on BY <1>7 DEF Stays, There
<1> QED BY <1>2, <1>4, <1>8

(* Every sync that may yet prune has listed the original. *)
LEMMA OriginalListed ==
  ASSUME SentBase, Alone, HeldOK, [Next]_vars, NEW o \in Ops, Sender(o), Kind(o) = "convert",
         NEW h \in DOMAIN plan.holds, plan.holds[h] = Of(o), Original(o, h), NEW q \in Ops, at'[q] \in Syncing
  PROVE  <<h, 0>> \in Refs(seen'[q])
<1>a. Base /\ WorldOK /\ LocalOK /\ SeenOK(q) /\ SentWorld BY DEF SentBase, Base
<1>b. session = 0 BY <1>a DEF SentWorld, Alone, HandlesLast
<1>1. /\ h \in DOMAIN cloud /\ cloud[h] # Never /\ cloud[h].on /\ ~cloud[h].deep BY DEF HeldOK, Original
<1>2. h \in There BY <1>1 DEF There
<1>3. cloud[h].deep = FALSE
  <2>1. cloud[h].deep \in BOOLEAN BY <1>a, <1>2, CopyIs DEF Copies
  <2> QED BY <1>1, <2>1
<1>4. at[q] \in Syncing => <<h, 0>> \in Refs(seen[q]) BY DEF Original
<1>5. CASE SameAt(q) BY <1>4, <1>5 DEF SameAt
<1>6. CASE Crash BY <1>6 DEF Crash, Busy, Syncing
<1>7. CASE Work(q)
  <2>1. CASE SyncLists(q)
    <3>1. PICK s \in Listing(FALSE) : seen' = [seen EXCEPT ![q] = s] BY <2>1 DEF SyncLists
    <3>2. Range(s) = Near BY <1>a, <3>1, ListingGood DEF Near
    <3>3. Item(h) \in Range(s) BY <1>2, <1>3, <3>2 DEF Near
    <3>4. PICK n \in DOMAIN s : s[n] = Item(h) BY <3>3 DEF Range
    <3>5. s[n].ref = <<h, 0>> BY <1>b, <3>4 DEF Item, Row, Ref
    <3>6. seen'[q] = s BY <1>a, <3>1 DEF LocalOK
    <3> QED BY <3>5, <3>6 DEF Refs
  <2>2. CASE SyncListsDeep(q)
    <3>1. PICK s \in Listing(TRUE) : seen' = [seen EXCEPT ![q] = @ \o s] BY <2>2 DEF SyncListsDeep
    <3>2. at[q] = "deep" BY <2>2 DEF SyncListsDeep
    <3>3. <<h, 0>> \in Refs(seen[q]) BY <1>4, <3>2 DEF Syncing
    <3> DEFINE I == ItemSet(Names, Handles, Titles)
               t == seen[q]
    <3>4. s \in Seq(I) /\ t \in Seq(I) BY <1>a, <3>1, ListingGood DEF SeenOK
    <3>5. seen'[q] = t \o s BY <1>a, <3>1 DEF LocalOK
    <3>6. PICK n \in DOMAIN t : t[n].ref = <<h, 0>> BY <3>3 DEF Refs
    <3> HIDE DEF I, t
    <3>7. n \in DOMAIN (t \o s) /\ (t \o s)[n] = t[n] BY <3>4
    <3> QED BY <3>5, <3>6, <3>7 DEF Refs
  <2>3. CASE SyncIndexes(q)
    <3>1. at[q] = "index" /\ seen' = seen BY <2>3 DEF SyncIndexes, Then
    <3> QED BY <1>4, <3>1 DEF Syncing
  <2> QED BY <1>a, <1>7, <2>1, <2>2, <2>3, SyncsMove
<1> QED BY <1>a, <1>5, <1>6, <1>7, StepOf

LEMMA NextConvert ==
  ASSUME SentBase, Alone, OriginalsStay, HeldOK, [Next]_vars, NEW o \in Ops, Sender(o), SenderOK(o),
         \A p \in Parts(Of(o)) : PartOK(o, p), Kind(o) = "convert",
         NEW h \in DOMAIN plan.holds, plan.holds[h] = Of(o), ConvertOK(o, h)
  PROVE  ConvertOK(o, h)'
<1>a. Base /\ WorldOK /\ LocalOK /\ StageOK(o) /\ SentWorld BY DEF SentBase, Base
<1>b. WorldOK' /\ Grow /\ plan' = plan BY <1>a, NextWorld, SamePlan
<1>c. Of(o)' = Of(o) BY <1>b, SameScenario
<1> SUFFICES ASSUME Of(o) \in wanted'
             PROVE  Original(o, h)' \/ (key'[o] = <<h, 0>> /\ at'[o] # "keep" /\ Composed(o, key[o])')
  BY <1>c DEF ConvertOK
<1>1. Of(o) \in wanted
  <2> SUFFICES ASSUME Of(o) \notin wanted PROVE FALSE OBVIOUS
  <2>1. Of(o) \in Big BY DEF Sender
  <2>2. PICK q \in Ops : Kind(q) = "upload" /\ Sender(q) /\ Of(o) = Of(q) BY <2>1, NewlyWanted
  <2>3. q = o BY <2>2 DEF Alone, OneSender
  <2> QED BY <2>2, <2>3
<1>2. <<h, 0>> # NoRef /\ <<h, 0>> \in Handles /\ Titles[<<h, 0>>] = Whole(Of(o))
  <2>1. h \in DOMAIN cloud /\ cloud[h] # Never /\ cloud[h].name = Whole(Of(o)) BY DEF HeldOK
  <2>2. session \in Nat /\ h \in Nat /\ h # 0 BY <1>a, <2>1, Scenario DEF WorldOK, CloudOK
  <2>3. <<h, 0>> \in Handles BY <2>1, <2>2 DEF Handles
  <2>4. Titles[<<h, 0>>] = cloud[h].name BY <2>2, <2>3 DEF Titles
  <2> QED BY <2>1, <2>2, <2>3, <2>4 DEF NoRef
<1>3. CASE key[o] = <<h, 0>> /\ at[o] # "keep" /\ Composed(o, key[o]) BY <1>2, <1>3, ComposedStays
<1>4. CASE Original(o, h)
  <2>1. HasRow(<<h, 0>>, Whole(Of(o)), "plain") BY <1>4 DEF Original
  <2>2. CASE Stamps(o)
    <3>1. key[o] # NoRef
      <4>1. <<Of(o), 1>> \in Parts(Of(o)) BY DEF Parts, Sender
      <4>2. Has(vols, key[o], <<Of(o), 1>>) BY <2>2, <4>1 DEF PartOK, Stamps
      <4> QED BY <4>2, NoneUnder
    <3>2. PICK j \in DOMAIN plan.holds : plan.holds[j] = Of(o) /\ key[o] = <<j, 0>> BY <3>1 DEF SenderOK
    <3>3. j = h BY <1>a, <3>2, FilesAssumption DEF FilesAssumption, WorldOK
    <3>4. HasRow(key[o], Whole(Of(o)), "plain") BY <2>1, <3>2, <3>3
    <3>5. key'[o] # NoRef /\ at'[o] # "keep" /\ key'[o] = key[o] /\ Composed(o, key[o])'
      BY <2>2, <3>4, StampComposes
    <3> QED BY <3>2, <3>3, <3>5
  <2>3. CASE ~Stamps(o)
    <3>1. Heading(o, <<h, 0>>) BY <1>2 DEF Heading
    <3>2. OfRow(rows', Row(<<h, 0>>, Whole(Of(o)), "plain"))
      <4>1. ASSUME NEW q \in Ops, SyncPrunes(q), <<h, 0>> \notin Refs(seen[q]) PROVE FALSE
        BY <1>4, <4>1 DEF SyncPrunes, Original, Syncing
      <4> HIDE DEF OfRow
      <4> QED BY <2>1, <2>3, <3>1, <4>1, NextRow
    <3>3. HasRow(<<h, 0>>, Whole(Of(o)), "plain")' BY <1>c, <3>2 DEF HasRow, Row, Whole
    <3>4. cloud'[h].on /\ ~cloud'[h].deep BY <1>4, OriginalOnCloud
    <3>5. at'[o] # "delete"
      <4> SUFFICES ASSUME at'[o] = "delete" PROVE FALSE OBVIOUS
      <4>1. at[o] # "delete" BY <1>4 DEF Original
      <4>2. CASE Work(o) BY <1>a, <2>3, <4>2, ComesToDelete
      <4>3. CASE SameAt(o) BY <4>1, <4>3 DEF SameAt
      <4>4. CASE Crash BY <4>1, <4>4 DEF Crash
      <4> QED BY <1>a, <4>2, <4>3, <4>4, StepOf
    <3>6. \A q \in Ops : at'[q] \in Syncing => <<h, 0>> \in Refs(seen'[q]) BY <1>4, OriginalListed
    <3>7. \A q \in Ops : Refs(seen[q])' = Refs(seen'[q]) BY DEF Refs
    <3> QED BY <3>3, <3>4, <3>5, <3>6, <3>7 DEF Original
  <2> QED BY <2>2, <2>3
<1> QED BY <1>1, <1>3, <1>4 DEF ConvertOK

ReachInv == SentInv /\ HeldOK /\ WantedOK /\ ReachOK

LEMMA NextReach ==
  ASSUME ReachInv, Alone, OriginalsStay, [Next]_vars
  PROVE  ReachInv'
<1>1. SentBase /\ SentInv /\ HeldOK /\ WantedOK /\ ReachOK BY DEF ReachInv, SentInv
<1>2. SentInv' /\ HeldOK' /\ WantedOK' BY <1>1, NextSent, HeldOKStays, WantedOKStays
<1>3. plan' = plan BY SamePlan
<1>4. ASSUME NEW o \in Ops, Sender(o)'
      PROVE  /\ Kind(o)' = "upload" => UploadOK(o)'
             /\ Kind(o)' = "convert" => \A h \in DOMAIN plan.holds : plan.holds[h] = Of(o) => ConvertOK(o, h)'
  <2>1. Sender(o) /\ Kind(o)' = Kind(o) BY <1>3, <1>4, SameScenario
  <2>2. SenderOK(o) /\ \A p \in Parts(Of(o)) : PartOK(o, p) BY <1>1, <2>1 DEF SentInv, SenderInv
  <2>3. CASE Kind(o) = "upload"
    <3>1. UploadOK(o) BY <1>1, <2>1, <2>3 DEF ReachOK
    <3>2. UploadOK(o)' BY <1>1, <2>1, <2>2, <2>3, <3>1, NextUpload
    <3> QED BY <2>1, <2>3, <3>2
  <2>4. ASSUME Kind(o) = "convert", NEW h \in DOMAIN plan.holds, plan.holds[h] = Of(o) PROVE ConvertOK(o, h)'
    <3>1. ConvertOK(o, h) BY <1>1, <2>1, <2>4 DEF ReachOK
    <3> QED BY <1>1, <2>1, <2>2, <2>4, <3>1, NextConvert
  <2> QED BY <2>1, <2>3, <2>4
<1>5. \A o \in Ops : Of(o)' = Of(o) BY <1>3, SameScenario
<1>6. ReachOK' BY <1>3, <1>4, <1>5 DEF ReachOK
<1> QED BY <1>2, <1>6 DEF ReachInv

LEMMA InitReach ==
  ASSUME Init, Alone
  PROVE  ReachInv
<1>1. SentInv BY InitSent
<1>2. /\ plan.holds \in Seq(plan.contents) /\ Len(plan.holds) <= MaxCopies /\ MaxCopies \in Nat
      /\ Len(plan.holds) \in Nat /\ DOMAIN plan.holds = 1..Len(plan.holds)
  BY <1>1, Scenario DEF SentInv, SentBase, Base
<1>3. ASSUME NEW h \in DOMAIN plan.holds
      PROVE  /\ h \in DOMAIN cloud /\ cloud[h] = File(Whole(plan.holds[h]), Whole(plan.holds[h]), FALSE, 0)
             /\ OfRow(rows, Row(<<h, 0>>, Whole(plan.holds[h]), "plain"))
  <2>1. h \in 1..Len(plan.holds) /\ h \in 1..MaxCopies /\ h <= Len(plan.holds) BY <1>2
  <2>2. cloud[h] = File(Whole(plan.holds[h]), Whole(plan.holds[h]), FALSE, 0) /\ h \in DOMAIN cloud
    BY <2>1 DEF Init
  <2>3. h \in DOMAIN rows /\ rows[h] = Row(<<h, 0>>, Whole(plan.holds[h]), "plain") BY <2>1 DEF Init
  <2> QED BY <2>2, <2>3 DEF OfRow
<1>f. \A x : LET f == File(x, x, FALSE, 0) IN f.what = x /\ f.name = x /\ f.on = TRUE /\ f.deep = FALSE BY DEF File
<1>n. Never.on = FALSE BY DEF Never
<1>4. HeldOK
  <2>1. ASSUME NEW h \in DOMAIN plan.holds
        PROVE  /\ cloud[h] # Never
               /\ cloud[h].what = Whole(plan.holds[h]) /\ cloud[h].name = Whole(plan.holds[h])
    <3> DEFINE w == Whole(plan.holds[h])
    <3>1. cloud[h] = File(w, w, FALSE, 0) BY <1>3
    <3>2. cloud[h].what = w /\ cloud[h].name = w /\ cloud[h].on = TRUE BY <1>f, <3>1
    <3>3. cloud[h] # Never BY <1>n, <3>2
    <3> QED BY <3>2, <3>3
  <2> QED BY <1>3, <2>1 DEF HeldOK
<1>5. wanted = {plan.holds[k] : k \in DOMAIN plan.holds} /\ \A o \in Ops : at[o] = "idle" /\ key[o] = NoRef
  BY DEF Init
<1>6. WantedOK BY <1>5 DEF WantedOK
<1>7. ASSUME NEW o \in Ops, Sender(o), Kind(o) = "upload" PROVE UploadOK(o)
  BY <1>5, <1>7 DEF UploadOK, Alone, OneSender
<1>8. ASSUME NEW o \in Ops, NEW h \in DOMAIN plan.holds, plan.holds[h] = Of(o) PROVE Original(o, h)
  <2>1. HasRow(<<h, 0>>, Whole(Of(o)), "plain") BY <1>3, <1>8 DEF HasRow
  <2>2. cloud[h].on /\ ~cloud[h].deep BY <1>3, <1>f
  <2> QED BY <1>5, <2>1, <2>2 DEF Original, Syncing
<1>9. ReachOK BY <1>7, <1>8 DEF ReachOK, ConvertOK
<1> QED BY <1>1, <1>4, <1>6, <1>9 DEF ReachInv

LEMMA ReachThen ==
  ASSUME ReachInv, NothingLost
  PROVE  Reachable
<1> DEFINE Whence(c) == \/ \E k \in There : cloud[k].what = Whole(c)
                        \/ \E i \in DOMAIN rows :
                             /\ Live(i) /\ rows[i].meta = "whole" /\ rows[i].name = Whole(c)
                             /\ \A p \in Parts(c) : \E v \in vols : v.parent = rows[i].ref /\ v.part = p
<1> SUFFICES ASSUME NEW c \in wanted \cap Big PROVE Whence(c) BY DEF Reachable
<1>a. SentWorld /\ HeldOK /\ WantedOK /\ ReachOK BY DEF ReachInv, SentInv, SentBase
<1>1. ASSUME NEW o \in Ops, Of(o) = c, NEW k, Composed(o, k) PROVE Whence(c)
  <2>1. PICK i \in DOMAIN rows : rows[i] = Row(k, Whole(c), "whole") BY <1>1 DEF Composed, HasRow, OfRow
  <2>2. rows[i].ref = k /\ Live(i) /\ rows[i].meta = "whole" /\ rows[i].name = Whole(c) BY <2>1 DEF Row, Live
  <2>3. \A p \in Parts(c) : \E v \in vols : v.parent = k /\ v.part = p BY <1>1 DEF Composed, Has
  <2> QED BY <2>2, <2>3
<1> HIDE DEF Whence
<1>2. ASSUME NEW o \in Ops, Sender(o), Kind(o) = "upload", Of(o) = c PROVE Whence(c)
  <2>1. UploadOK(o) BY <1>2, <1>a DEF ReachOK
  <2> QED BY <1>1, <1>2, <2>1 DEF UploadOK
<1>3. ASSUME NEW o \in Ops, Sender(o), Kind(o) = "convert", Of(o) = c,
             NEW h \in DOMAIN plan.holds, plan.holds[h] = c
      PROVE  Whence(c)
  <2>1. ConvertOK(o, h) BY <1>3, <1>a DEF ReachOK
  <2>2. CASE Original(o, h)
    <3>1. h \in There /\ cloud[h].what = Whole(c) BY <1>3, <1>a, <2>2 DEF Original, HeldOK, There
    <3> QED BY <3>1 DEF Whence
  <2> QED BY <1>1, <1>3, <2>1, <2>2 DEF ConvertOK
<1>4. CASE ~\E o \in Ops : Sender(o) /\ Of(o) = c
  <2>1. CASE \E k \in There : cloud[k].what = Whole(c) BY <2>1 DEF Whence
  <2>2. ASSUME NEW k \in There, cloud[k].what = <<c, 1>> PROVE FALSE
    <3>1. k \in Ever BY DEF There, Ever, Never
    <3> QED BY <1>4, <1>a, <2>2, <3>1 DEF SentWorld
  <2>3. <<c, 1>> \in Parts(c) BY DEF Parts
  <2> QED BY <2>1, <2>2, <2>3 DEF NothingLost
<1>5. \/ \E h \in DOMAIN plan.holds : plan.holds[h] = c
      \/ \E o \in Ops : Sender(o) /\ Kind(o) = "upload" /\ Of(o) = c
  BY <1>a DEF WantedOK
<1> QED BY <1>2, <1>3, <1>4, <1>5 DEF Sender, Replaces

(* Reachable, where moreover no operation moves what another converts: a
   big content that nobody deleted is on the cloud whole, or one live
   composition of the index has its name and every part of it, whatever
   syncs, failures, pauses and restarts come between the sending of the
   parts, the stamp, and the deletion of the original. *)
THEOREM ReachableAlways == Spec => [](Alone /\ OriginalsStay => Reachable)
<1> DEFINE Apart == Alone /\ OriginalsStay
           Lone == DeletesApart /\ RenamesAlone
<1>1. Init => (Apart => ReachInv) BY InitReach
<1>2. (Apart => ReachInv) /\ [Next]_vars => (Apart => ReachInv)'
  <2> SUFFICES ASSUME Apart', Apart => ReachInv, [Next]_vars PROVE ReachInv' OBVIOUS
  <2>1. plan' = plan BY SamePlan
  <2>2. OriginalsStay' <=> OriginalsStay BY <2>1, SameScenario DEF OriginalsStay
  <2>3. Apart BY <2>1, <2>2, SameScenario
  <2> QED BY <2>3, NextReach
<1>3. Apart => Lone BY DEF Alone, NoRename, RenamesAlone
<1>4. (Apart => ReachInv) /\ (Lone => NothingLost) => (Apart => Reachable) BY <1>3, ReachThen
<1>5. Spec => [](Lone => NothingLost) BY NothingLostAlways
<1> HIDE DEF Apart, Lone
<1>6. Spec => [](Apart => Reachable) BY <1>1, <1>2, <1>4, <1>5, PTL DEF Spec
<1> QED BY <1>6 DEF Apart
=============================================================================
