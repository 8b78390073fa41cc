-------------------------- MODULE MCReconcileLocks --------------------------
(***************************************************************************)
(* ReconcileLocks for TLC: a few handlers and the purge worker on one      *)
(* room.                                                                   *)
(***************************************************************************)
EXTENDS ReconcileLocks

=============================================================================
