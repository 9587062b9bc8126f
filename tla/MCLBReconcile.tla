--------------------------- MODULE MCLBReconcile ---------------------------
(***************************************************************************)
(* Small instances of LBReconcile for TLC: the Services a user may ask for.*)
(***************************************************************************)
EXTENDS LBReconcile, TLC

CONSTANTS p1, p2, n1, n2, c1, c2, acl

TCP(p, n) == [port |-> p, nodePort |-> n, tcp |-> TRUE]
UDP(p, n) == [port |-> p, nodePort |-> n, tcp |-> FALSE]

\* One port or two, node ports that change or are swapped, new settings, and
\* source ranges.
TCPSpecs ==
  {[ports |-> <<TCP(p1, n1)>>,             conf |-> c1, acl |-> NoAcl],
   [ports |-> <<TCP(p1, n2)>>,             conf |-> c2, acl |-> acl],
   [ports |-> <<TCP(p1, n1), TCP(p2, n2)>>, conf |-> c1, acl |-> acl],
   [ports |-> <<TCP(p1, n2), TCP(p2, n1)>>, conf |-> c1, acl |-> acl]}

\* The node port and the settings of the only port change.
OnePortSpecs ==
  {[ports |-> <<TCP(p1, n1)>>, conf |-> c1, acl |-> NoAcl],
   [ports |-> <<TCP(p1, n2)>>, conf |-> c2, acl |-> acl]}

OneSpec == {[ports |-> <<TCP(p1, n1)>>, conf |-> c1, acl |-> NoAcl]}

\* A DNS-like Service: the same port on UDP and TCP.
MixedSpecs ==
  {[ports |-> <<UDP(p1, n2), TCP(p1, n1)>>, conf |-> c1, acl |-> NoAcl]}

\* Sets of node addresses are compared for equality only.  Not for liveness.
PoolSymmetry == Permutations(Pools)
=============================================================================
