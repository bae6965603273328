------------------------------ MODULE TaskLife ------------------------------
(***************************************************************************)
(* What the queue promises of one task to the page that submitted it, with *)
(* no workers, writes or races: a small life cycle that ends at most once, *)
(* and a record of the end that never changes.                             *)
(***************************************************************************)
CONSTANT Tasks

VARIABLES
  status,    \* the stage of each task
  verdict,   \* how it ended, "none" until then
  record     \* what the ledger says of its end, "none" until it does

vars == <<status, verdict, record>>

Verdicts == {"done", "failed", "cancelled"}

Init ==
  /\ status = [t \in Tasks |-> "new"]
  /\ verdict = [t \in Tasks |-> "none"]
  /\ record = [t \in Tasks |-> "none"]

Becomes(t, stage) ==
  /\ status' = [status EXCEPT ![t] = stage]
  /\ UNCHANGED <<verdict, record>>

Accept(t) == status[t] = "new" /\ Becomes(t, "waiting")
Start(t)  == status[t] = "waiting" /\ Becomes(t, "active")
Retry(t)  == status[t] = "active" /\ Becomes(t, "waiting")
Pause(t)  == status[t] \in {"waiting", "active"} /\ Becomes(t, "paused")

(* A paused task goes back to the queue, never straight into its handler. *)
Resume(t) == status[t] = "paused" /\ Becomes(t, "waiting")

(* Any task can be stopped; only one that runs can succeed or fail. *)
End(t, v) ==
  /\ status[t] \in {"waiting", "active", "paused"}
  /\ v # "cancelled" => status[t] = "active"
  /\ status' = [status EXCEPT ![t] = "over"]
  /\ verdict' = [verdict EXCEPT ![t] = v]
  /\ UNCHANGED record

Record(t) ==
  /\ status[t] = "over"
  /\ record' = [record EXCEPT ![t] = verdict[t]]
  /\ UNCHANGED <<status, verdict>>

Next ==
  \E t \in Tasks :
    \/ Accept(t) \/ Start(t) \/ Retry(t) \/ Pause(t) \/ Resume(t) \/ Record(t)
    \/ \E v \in Verdicts : End(t, v)

Spec == Init /\ [][Next]_vars

=============================================================================
