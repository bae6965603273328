------------------------------ MODULE MCGroups ------------------------------
(* Instances of Groups: two accounts and two groups. *)
EXTENDS Groups

Row(a) == [known |-> TRUE, owner |-> a, managed |-> TRUE, removed |-> FALSE, judged |-> TRUE]
Case(fs, n, ms, ups, bs, ps, rs, h) ==
  [faults |-> fs, spent |-> MaxTrouble - n, member |-> ms, up |-> ups, bots |-> bs, platform |-> ps, rows |-> rs,
   scans |-> {Incremental(None)}, misses |-> [a \in Account |-> 0], health |-> [a \in Account |-> h]]
Own == [a \in Account |-> IF a = 1 THEN {"g"} ELSE {"h"}]
Shared == [a \in Account |-> {"g"}]
Unknown == [x \in Group |-> NoRow]
Old == [x \in Group |-> Row(IF x = "g" THEN 1 ELSE 2)]
One == [x \in Group |-> IF x = "g" THEN Row(1) ELSE NoRow]
Away == [x \in Group |-> IF x = "g" THEN Row(1) ELSE [Row(1) EXCEPT !.removed = TRUE, !.managed = FALSE]]
Both == [a \in Account |-> IF a = 1 THEN {"g", "h"} ELSE {}]
Down == Case({"down", "probe", "event"}, 1, Own, {1, 2}, {1, 2}, {1, 2}, One, 0)
Removal == [Case({"down", "restore"}, 1, Both, {1}, {1}, {1}, Away, 0) EXCEPT !.scans = {}]
Requests == Case({"remove", "restore", "page"}, 2, Own, {1}, {1}, {1}, One, 0)
New == Case({"judge", "cancel", "stale", "chain"}, 2, Shared, {1, 2}, {1, 2}, {1, 2}, Unknown, 2)
Halt == Case({}, 0, Own, {1, 2}, {1, 2}, {1, 2}, One, 3)
Dark == Case({"down", "chain"}, 1, Own, {1}, {1}, {1}, One, 0)
Ttl == [Case({"ttl", "chain"}, 0, Own, {1}, {1}, {1}, Old, 0) EXCEPT !.scans = {Full(Group)}]
Leave == Case({"leave", "chain"}, 1, Both, {1}, {1}, {1}, One, 0)
MCScenarios == {Down, Removal, Requests, New, Halt, Dark, Ttl, Leave}

(* The scan of a lone bot, and a second bot that registers after it. *)
Lone == {Case({"chain"}, 0, Own, {1, 2}, {1}, {1, 2}, Old, 0)}
=============================================================================
