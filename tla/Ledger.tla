------------------------------- MODULE Ledger -------------------------------
(***************************************************************************)
(* One row of the task ledger (table op_ledger), reduced to its state      *)
(* column.  The writers race by design: every write is an upsert that a    *)
(* worker thread commits at its own time, so what keeps a row meaningful   *)
(* is the WHERE clause of the upsert (outbox.py), translated here.         *)
(***************************************************************************)

Terminal == {"done", "failed", "cancelled"}

LedgerState == {"pending", "running", "paused", "retry"} \cup Terminal

(* "absent": INSERT has not happened yet, so there is no conflict to guard. *)
RowState == LedgerState \cup {"absent"}

(* A wrong form of UpsertApplies, which nothing uses: the plain upsert. *)
UpsertApplies_Unguarded(old, new) == TRUE

(* The WHERE clause of _LEDGER_UPSERT_SQL, its three disjuncts in order. *)
UpsertApplies(old, new) ==
  \/ old \notin Terminal
  \/ new = "cancelled"
  \/ old # "cancelled" /\ new \in {"done", "failed"}

Upsert(old, new) == IF UpsertApplies(old, new) THEN new ELSE old

=============================================================================
