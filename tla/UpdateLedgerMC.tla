--------------------------- MODULE UpdateLedgerMC ---------------------------
(* The update ledger with interchangeable plans, and with one disturbance.  *)
EXTENDS UpdateLedger, TLC

Interchangeable == Permutations(Request)

\* A rollback ordered by the operator does not meet an end of the process.
OneDisturbance == outages' + rollbacks' <= 1

\* The Dispatcher answers, and its worker reports what it took: what a lost answer
\* does to a report is for the run with one plan.
Answering == wire' \subseteq {note'} /\ \A n \in Notices : event'[n[1]][n[2]] # "review"
=============================================================================
