------------------------------ MODULE MCBridge ------------------------------
(* Two transfers of one resource or of two under the poll loop; one transfer in
   manual mode; one transfer beside one or two deliveries to the group. *)
EXTENDS Bridge, TLC

CONSTANTS o1, o2, r1, r2, i1, i2

One == [o \in OutOps |-> r1]
Two == [o \in OutOps |-> IF o = o1 THEN r1 ELSE r2]

Cases ==
  {[auto |-> TRUE, subject |-> s, calls |-> {o1, o2}] : s \in {One, Two}}
    \cup {[auto |-> FALSE, subject |-> One, calls |-> {o1}],
           [auto |-> TRUE, subject |-> One, calls |-> {i1, i2}],
           [auto |-> FALSE, subject |-> One, calls |-> {i1}]}

=============================================================================
