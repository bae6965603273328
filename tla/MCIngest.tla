------------------------------ MODULE MCIngest ------------------------------
(* Instances of Ingest: two or three operations beside each other. *)
EXTENDS Ingest, Algorithms

Case(x, y, z, faults) ==
  LET job(o) == IF o = "o1" THEN x ELSE IF o = "o2" THEN y ELSE z
  IN [kind |-> [o \in Ops |-> job(o)[1]], name |-> [o \in Ops |-> job(o)[2]], faults |-> faults]

MCScenarios == {
  Case(<<"text", "t">>, <<"forget", "t">>, <<"refresh", "r">>, {"fail", "lost", "pause", "crash", "unseen"}),
  Case(<<"image", "i">>, <<"text", "t">>, <<"album_video", "v">>, {"fail", "lost", "album"}),
  Case(<<"image", "i">>, <<"image", "j">>, <<"clip", "c">>, {"fail", "lost", "album"}),
  Case(<<"clip", "c">>, <<"fetch_file", "f">>, <<"album_video", "w">>, {"fail", "lost", "pause", "crash"}),
  Case(<<"video", "v">>, <<"refresh", "r">>, <<"album_video", "w">>, {"fail", "lost", "pause"}),
  Case(<<"fetch_image", "i">>, <<"fetch_file", "f">>, <<"album_video", "w">>, {"fail", "lost", "pause", "crash"}),
  Case(<<"fetch_text", "t">>, <<"text", "s">>, <<"clip", "c">>, {"album"})}

(* A text that is fetched, and retried. *)
Fetched == {Case(<<"fetch_text", "t">>, <<"refresh", "r">>, <<"refresh", "s">>, {"fail", "pause"})}
=============================================================================
