------------------------- MODULE MCLBReconcileLone -------------------------
(***************************************************************************)
(* Small instances of LBReconcileLone for TLC: two callers that race.      *)
(***************************************************************************)
EXTENDS LBReconcileLone, MCLBReconcile
=============================================================================
