----------------------------- MODULE MCDownloads -----------------------------
(* Instances of Downloads: three clients, a resource in volumes and a single
   file. *)
EXTENDS Downloads

Case(kinds, ofs, sz, kept, fs) ==
  [faults |-> fs, size |-> [r \in Resource |-> sz], split |-> {"v"},
   job |-> [c \in Client |-> [kind |-> kinds[c], of |-> ofs[c]]],
   cache |-> [r \in Resource |-> IF r \in kept THEN "whole" ELSE "none"]]
All(x) == <<x, x, x>>
Same(sz, fs) == {Case(All("sftp"), All(r), sz, {}, fs) : r \in Resource}
Volumes == Case(<<"sftp", "http", "share">>, All("v"), "right", {}, {"refuse", "disk", "stall", "stop", "slow"})
Links == Case(<<"sftp", "http", "share">>, All("f"), "right", {}, {"refuse", "stall", "stop", "slow", "day"})
Texts == Case(<<"staged", "staged", "http">>, All("f"), "right", {}, {"day", "stop"})
Sweeping == Case(All("sftp"), <<"v", "f", "v">>, "right", {"v"}, {"idle", "minute"})
Drift == Case(All("sftp"), All("v"), "more", {"v"}, {"minute", "disk"})
MCScenarios ==
  {Volumes, Links, Texts, Sweeping, Drift} \cup Same("right", {"refuse", "disk", "slow", "stop"})
    \cup Same("unknown", {"disk", "slow"})
=============================================================================
