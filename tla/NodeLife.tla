------------------------------ MODULE NodeLife -----------------------------
(***************************************************************************)
(* What the rest of the CCM may rely on about a node, whichever servers    *)
(* there are behind it and however the calls about them interleave: it is  *)
(* registered with TaintExternalCloudProvider and without addresses, never *)
(* gets the taint back nor loses the provider ID it has got, and only ever *)
(* has addresses that belong together.  Module Nodes implements this       *)
(* specification; NodePool builds on it.                                   *)
(***************************************************************************)
EXTENDS Integers

CONSTANTS
  NodeNames,
  IPs,          \* addresses, in the order of slices.Sort
  Describable   \* for each node, the sets of addresses it may be given

Address == [type : {"ExternalIP", "InternalIP"}, ip : IPs]

ASSUME NodeLifeAssumption ==
  /\ IPs \subseteq Int
  /\ Describable \in [NodeNames -> SUBSET SUBSET Address]

VARIABLE nodes

\* known: it has a provider ID; uninit: it has the taint.
Node   == [known : BOOLEAN, uninit : BOOLEAN, addrs : SUBSET Address]
NoNode == [none |-> TRUE]

There == {n \in NodeNames : nodes[n] # NoNode}

Register(n) ==
  /\ n \notin There
  /\ \E k \in BOOLEAN :
       nodes' = [nodes EXCEPT ![n] = [known |-> k, uninit |-> TRUE, addrs |-> {}]]

\* Calls that overlap may do it twice.
Initialize(n) ==
  /\ n \in There
  /\ \E k \in BOOLEAN :
       /\ nodes[n].known => k
       /\ nodes' = [nodes EXCEPT ![n] = [known |-> k, uninit |-> FALSE, addrs |-> @.addrs]]

Describe(n) ==
  /\ n \in There
  /\ \E A \in Describable[n] : nodes' = [nodes EXCEPT ![n] = [@ EXCEPT !.addrs = A]]

Unregister(n) ==
  /\ n \in There
  /\ nodes' = [nodes EXCEPT ![n] = NoNode]

LifeInit == nodes = [n \in NodeNames |-> NoNode]
LifeNext == \E n \in NodeNames : Register(n) \/ Initialize(n) \/ Describe(n) \/ Unregister(n)
LifeSpec == LifeInit /\ [][LifeNext]_nodes
=============================================================================
