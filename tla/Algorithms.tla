----------------------------- MODULE Algorithms -----------------------------
(***************************************************************************)
(* Pure functions of the plugin, each compared with what it is for over    *)
(* every input of a small size: how a long text is cut into essence        *)
(* messages, which group an upload goes to, and which bytes a Range header *)
(* asks for.  TLC evaluates the comparisons when it starts.                *)
(***************************************************************************)
EXTENDS Integers, SequencesExt

----------------------------------------------------------------------------
(* The text splitter.  Characters are classes: "x" a letter, "." a         *)
(* sentence end, "n" a newline, "#" what makes its line a heading.         *)

Heading(line) == line # <<>> /\ line[1] = "#"

TextLines(text) ==
  FoldLeft(LAMBDA ls, c : IF c = "n" THEN Append(ls, <<>>) ELSE [ls EXCEPT ![Len(ls)] = Append(@, c)],
           <<<<>>>>, text)

(* The last sentence end in the window, if it is in the last tenth. *)
BestCut(line, limit) ==
  LET ends == {i \in 1..limit : line[i] = "." /\ i - 1 >= (limit * 9) \div 10}
  IN IF ends = {} THEN limit ELSE CHOOSE i \in ends : \A k \in ends : k <= i

RECURSIVE HardCut(_, _, _)
HardCut(chunks, line, limit) ==
  IF Len(line) <= limit THEN [chunks |-> chunks, buf |-> line]
  ELSE LET cut == BestCut(line, limit)
       IN HardCut(Append(chunks, SubSeq(line, 1, cut)), SubSeq(line, cut + 1, Len(line)), limit)

Flushed(s) == IF s.buf = <<>> THEN s.chunks ELSE Append(s.chunks, s.buf)

PushLine(s, line, limit) ==
  IF ~(s.buf # <<>> /\ Heading(line)) /\ Len(s.buf) + Len(line) + 1 <= limit
  THEN [s EXCEPT !.buf = IF @ = <<>> THEN line ELSE @ \o <<"n">> \o line]
  ELSE HardCut(Flushed(s), line, limit)

SplitText(text, limit) ==
  IF Len(text) <= limit THEN <<text>>
  ELSE Flushed(FoldLeft(LAMBDA s, line : PushLine(s, line, limit), [chunks |-> <<>>, buf |-> <<>>], TextLines(text)))

(* A chunk is a message of its own: joined again with newlines. *)
JoinText(chunks) == FoldLeft(LAMBDA t, c : IF t = <<>> THEN c ELSE t \o <<"n">> \o c, <<>>, chunks)

Letters(text) == SelectSeq(text, LAMBDA c : c # "n")
Texts(n) == UNION {[1..k -> {"x", ".", "n", "#"}] : k \in 1..n}

(* No chunk is longer than a message may be, a heading leads its chunk,    *)
(* and but for newlines the text comes back from its chunks (splitter.py:  *)
(* "each chunk <= limit").                                                 *)
ASSUME SplitSound ==
  \A text \in Texts(6), limit \in {1, 2, 3} :
    LET chunks == SplitText(text, limit)
    IN /\ \A c \in Range(chunks) : Len(c) <= limit
       /\ Len(text) > limit => \A c \in Range(chunks) : \A k \in 2..Len(c) : c[k] = "#" => c[k - 1] # "n"
       /\ Letters(JoinText(chunks)) = Letters(text)

----------------------------------------------------------------------------
(* The storage planner.  A group is its place in the order (here its id),  *)
(* its space and whether the account owns it; a total of 0 is not known.   *)

Fits(g, need) == g.total <= 0 \/ g.total - g.used >= need
FirstOf(groups) == CHOOSE g \in groups : \A h \in groups : g.id <= h.id
Freest(groups) ==
  LET free(g) == g.total - g.used
  IN CHOOSE g \in groups : \A h \in groups : free(g) > free(h) \/ (free(g) = free(h) /\ g.id <= h.id)

PickGroup(groups, requested, preferOwned) ==
  LET need == IF requested < 1 THEN 1 ELSE requested
      owned == {g \in groups : g.owned}
      primary == IF preferOwned /\ owned # {} THEN owned ELSE groups
      usable(s) == {g \in s : Fits(g, need)}
  IN IF usable(primary) # {} THEN FirstOf(usable(primary))
     ELSE IF usable(groups) # {} THEN FirstOf(usable(groups)) ELSE FirstOf(groups)

PickForSize(groups, requested) ==
  LET need == IF requested < 1 THEN 1 ELSE requested
      usable == {g \in groups : Fits(g, need)}
  IN IF usable # {} THEN FirstOf(usable) ELSE Freest(groups)

SomeGroups ==
  LET group(i) == [id : {i}, total : {0, 2}, used : 0..2, owned : BOOLEAN]
  IN {{a, b} : a \in group(1), b \in group(2)} \cup {{a} : a \in group(1)}

(* An upload goes to a group that has room for it whenever one has, to an  *)
(* owned one if one of those has; without owned groups both rules agree    *)
(* wherever there is room.                                                 *)
ASSUME PlannerSound ==
  \A groups \in SomeGroups, n \in 0..3 :
    LET room(s) == {g \in s : Fits(g, n) /\ Fits(g, 1)}
        owned == {g \in groups : g.owned}
        hit == PickGroup(groups, n, TRUE)
    IN /\ room(groups) # {} => hit \in room(groups) /\ PickForSize(groups, n) \in room(groups)
       /\ room(owned) # {} => hit.owned
       /\ owned = {} /\ room(groups) # {} => hit = PickForSize(groups, n)

----------------------------------------------------------------------------
(* The Range header "bytes=first-last"; Absent is a number not given.      *)

Absent == -1
All == {"whole"}
ParseRange(first, last, total) ==
  LET least(a, b) == IF a <= b THEN a ELSE b
      end == IF last = Absent THEN total - 1 ELSE last
  IN IF first = Absent
     THEN IF last = Absent THEN All
          ELSE IF last <= 0 \/ total <= 0 THEN {}
          ELSE (IF total >= last THEN total - last ELSE 0)..(total - 1)
     ELSE IF first >= total \/ end < first THEN {} ELSE first..least(end, total - 1)

(* The bytes sent are those the header names, and that the body has; a     *)
(* range without any is refused.                                           *)
ASSUME RangeSound ==
  \A first \in Absent..4, last \in Absent..4, total \in 0..3 :
    LET body == 0..(total - 1)
        named == {i \in body : IF first = Absent THEN i >= total - last
                               ELSE i >= first /\ (last = Absent \/ i <= last)}
    IN ParseRange(first, last, total) = IF first = Absent /\ last = Absent THEN All ELSE named
=============================================================================
