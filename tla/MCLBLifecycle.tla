--------------------------- MODULE MCLBLifecycle ---------------------------
(***************************************************************************)
(* Small instances of LBLifecycle for TLC.  LB ids are interchangeable.    *)
(***************************************************************************)
EXTENDS LBLifecycle, TLC

Symmetry == Permutations(LBIds)
=============================================================================
