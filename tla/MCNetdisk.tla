------------------------------ MODULE MCNetdisk ------------------------------
(* Instances of Netdisk: two jobs on a drive of two directories. *)
EXTENDS Netdisk

Renames == Batch(<<Ask("rename", "root", "a", "c"), Ask("rename", "sub", "b", "c")>>)

Case(one, two, lie, cr, tok, fs) ==
  [plan |-> [j \in Job |-> IF j = 1 THEN one ELSE two], lying |-> lie, creds |-> cr, token |-> tok,
   faults |-> fs, drive |-> ("root" :> <<"a", "sub">>) @@ ("sub" :> <<"b">>)]

Changes == {Change("mkdir", "root", "sub", "none"), Change("remove", "root", "sub", "none"), Change("move", "sub", "b", "b"),
            Tidy("prune", "root"), Tidy("gather", "sub"), Copy("root", "a"), Renames}
Walks == {Case(Index("root"), c, FALSE, TRUE, 1, {"lost", "busy"}) : c \in Changes}
         \cup {Case(Index("sub"), Index("root"), FALSE, TRUE, 1, {"lost", "expire"})}
Sessions == {Case(Link("root", "a"), Renames, FALSE, TRUE, 1, {"expire", "lost", "unload"}),
             Case(Index("root"), Browse("root"), FALSE, TRUE, 1, {"expire", "unload", "cancel"})}
MCScenarios ==
  Walks \cup Sessions \cup
  {Case(Index("root"), Browse("root"), TRUE, TRUE, 0, {"tag", "cancel", "lost"}),
   Case(Index("root"), Browse("root"), FALSE, FALSE, 1, {"expire", "tag"})}
=============================================================================
