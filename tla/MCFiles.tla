------------------------------- MODULE MCFiles -------------------------------
(* Instances of Files: two operations, a small content "s" and a big one "b". *)
EXTENDS Files

Op(k, c) == [kind |-> k, content |-> c]
Case(x, y, holds, faults) ==
  [op |-> [o \in Ops |-> IF o = "o1" THEN x ELSE y], holds |-> holds,
   contents |-> {"s", "b"}, faults |-> faults]

People == {"member", "event", "session"}
MCScenarios == {
  Case(Op("upload", "b"), Op("full", "s"), <<"s">>, {"fail", "lost", "pause", "crash"}),
  Case(Op("upload", "b"), Op("read", "b"), <<>>, {"pause", "session"}),
  Case(Op("convert", "b"), Op("diff", "s"), <<"b">>, {"fail", "lost", "pause", "crash"}),
  Case(Op("upload", "s"), Op("full", "s"), <<>>, {"fail", "lost", "crash"} \cup People),
  Case(Op("rename", "s"), Op("full", "s"), <<"s">>, {"fail", "crash", "member"}),
  Case(Op("move", "s"), Op("full", "s"), <<"s">>, {"lost"} \cup People),
  Case(Op("delete", "s"), Op("folder", "s"), <<"s">>, {"fail", "lost", "crash", "member", "event"})}
=============================================================================
