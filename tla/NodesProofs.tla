---------------------------- MODULE NodesProofs ----------------------------
(***************************************************************************)
(* Proofs about Nodes for every value of its constants: type correctness,  *)
(* that no node with a living server is deleted, and that the nodes live   *)
(* as NodeLife says.                                                       *)
(***************************************************************************)
EXTENDS Nodes, TLAPS

-----------------------------------------------------------------------------
(***************************************************************************)
(* Type correctness.                                                       *)
(***************************************************************************)
\* The records of the model that stand for "none" are not among the others.
LEMMA NoRecord ==
  /\ NoNode \notin Node
  /\ Idle \notin MetadataCall
  /\ Idle \notin LifecycleCall
<1>1. NoNode \notin Node
  <2> SUFFICES ASSUME NoNode \in Node PROVE FALSE
    OBVIOUS
  <2>1. DOMAIN NoNode = {"none"}
    BY DEF NoNode
  <2>2. DOMAIN NoNode = {"pid", "uninit", "addrs", "shut", "labels"}
    BY DEF Node
  <2> QED BY <2>1, <2>2
<1>2. Idle.pc = "idle"
  BY DEF Idle
<1>3. \A c \in MetadataCall : c.pc # "idle"
  BY DEF MetadataCall
<1>4. \A c \in LifecycleCall : c.pc # "idle"
  BY DEF LifecycleCall
<1> QED BY <1>1, <1>2, <1>3, <1>4

\* The addresses of a server are addresses.
LEMMA AddressTypes ==
  /\ \A ips \in SUBSET (IPs \cup {NoIP}) : External(ips) \subseteq Address
                                         /\ Internal(ips) \subseteq Address
  /\ \A s \in ServerIds : AddressesOf(s) \subseteq Address
<1>1. \A ips \in SUBSET (IPs \cup {NoIP}) : External(ips) \subseteq Address
                                          /\ Internal(ips) \subseteq Address
  BY DEF External, Internal, Address
<1>2. ASSUME NEW s \in ServerIds PROVE AddressesOf(s) \subseteq Address
  <2>1. {PublicIP[s]} \in SUBSET (IPs \cup {NoIP}) /\ {LegacyIP[s]} \in SUBSET (IPs \cup {NoIP})
    BY ServersAssumption
  <2>2. getPrivateNetworkAddresses(s) \in SUBSET (IPs \cup {NoIP})
    <3>1. RelevantNics(s) \subseteq PNs
      BY ServersAssumption DEF RelevantNics
    <3>2. \A pn \in PNs : NicIP[s][pn] \in IPs
      BY ServersAssumption
    <3> QED BY <3>1, <3>2 DEF getPrivateNetworkAddresses
  <2> QED BY <1>1, <2>1, <2>2 DEF AddressesOf, instanceAddresses, baremetalAddresses
<1> QED BY <1>1, <1>2

\* Each call a lookup makes is about a server.
LEMMA LookupTypes ==
  ASSUME NEW product, NEW n, NEW pid
  PROVE  Lookup(product, n, pid) \subseteq ServerIds
BY DEF Lookup, getServerByName, getServerByProviderID, Existing

\* The provider IDs and the labels of a node are well typed.
LEMMA NodeTypes ==
  /\ \A s \in ServerIds : BuildProviderID(s) \in ProviderIDs
  /\ \A s \in ServerIds, form \in PIDForms : KubeletPID(s, form) \in ProviderIDs \cup {NoPID, BadPID}
  /\ \A pid \in ProviderIDs \cup {NoPID, BadPID} : FirstProduct(pid) \in Products
  /\ \A n \in NodeNames : Labels[n] \subseteq NodeLabels
  /\ \A node \in Node : LabelMetadata(node) \in Metadata
<1>1. \A s \in ServerIds : BuildProviderID(s) \in ProviderIDs
  BY ServersAssumption DEF BuildProviderID, ProviderIDs
<1>2. \A s \in ServerIds, form \in PIDForms : KubeletPID(s, form) \in ProviderIDs \cup {NoPID, BadPID}
  <2> SUFFICES ASSUME NEW s \in ServerIds, NEW form \in PIDForms
               PROVE  KubeletPID(s, form) \in ProviderIDs \cup {NoPID, BadPID}
    OBVIOUS
  <2>1. [product |-> "instance", zone |-> NoZone, id |-> s] \in ProviderIDs
    BY DEF ProviderIDs, Products
  <2>2. form \in {"none", "full", "zoneless", "bad"}
    BY NodesAssumption
  <2> QED BY <1>1, <2>1, <2>2 DEF KubeletPID
<1>3. \A pid \in ProviderIDs \cup {NoPID, BadPID} : FirstProduct(pid) \in Products
  BY DEF FirstProduct, getImplementationByProviderID, ProviderIDs, Products
<1>4. \A n \in NodeNames : Labels[n] \subseteq NodeLabels
  BY NodesAssumption
<1>5. \A node \in Node : LabelMetadata(node) \in Metadata
  <2> SUFFICES ASSUME NEW node \in Node PROVE LabelMetadata(node) \in Metadata
    OBVIOUS
  <2>1. {node.labels.pubip} \in SUBSET (IPs \cup {NoIP}) /\ node.addrs \subseteq Address
    BY DEF Node, NodeLabels
  <2>2. External({node.labels.pubip}) \subseteq Address
    BY <2>1, AddressTypes
  <2> QED BY <2>1, <2>2 DEF LabelMetadata, Metadata
<1> QED BY <1>1, <1>2, <1>3, <1>4, <1>5

\* A call that begins, and each of its steps, is well typed.
LEMMA MetadataTypes ==
  ASSUME NodesTypeOK
  PROVE  /\ \A n \in NodeNames : BeginMetadata(n) => cn' \in MetadataCall
         /\ MetadataStep => cn' \in MetadataCall \cup {Idle}
<1>1. ASSUME NEW n \in NodeNames, BeginMetadata(n) PROVE cn' \in MetadataCall
  <2>1. nodes[n] \in Node
    BY <1>1 DEF BeginMetadata, There, NodesTypeOK
  <2>2. FirstProduct(nodes[n].pid) \in Products
    BY <2>1, NodeTypes DEF Node
  <2>3. LabelMetadata(nodes[n]) \in Metadata
    BY <2>1, NodeTypes
  <2>4. CASE nodes[n].labels.pubip # NoIP
    <3>1. cn' = [pc |-> IF nodes[n].uninit THEN "update" ELSE "patch", n |-> n,
                 copy |-> nodes[n], meta |-> LabelMetadata(nodes[n])]
      BY <1>1, <2>4 DEF BeginMetadata
    <3> QED BY <2>1, <2>3, <3>1 DEF MetadataCall
  <2>5. CASE nodes[n].labels.pubip = NoIP
    <3>1. cn' = [pc |-> "lookup", n |-> n, copy |-> nodes[n],
                 product |-> FirstProduct(nodes[n].pid)]
      BY <1>1, <2>5 DEF BeginMetadata
    <3> QED BY <2>1, <2>2, <3>1 DEF MetadataCall
  <2> QED BY <2>4, <2>5
<1>2. ASSUME LookupMetadata PROVE cn' \in MetadataCall \cup {Idle}
  <2>1. cn \in [pc : {"lookup"}, n : NodeNames, copy : Node, product : Products]
    BY <1>2 DEF LookupMetadata, NodesTypeOK, MetadataCall, Idle
  <2>2. ASSUME NEW s \in ServerIds,
               cn' = [pc |-> "addresses", n |-> cn.n, copy |-> cn.copy, server |-> s]
        PROVE  cn' \in MetadataCall
    BY <2>1, <2>2 DEF MetadataCall
  <2>3. ASSUME cn' = [cn EXCEPT !.product = "baremetal"] PROVE cn' \in MetadataCall
    BY <2>1, <2>3 DEF MetadataCall, Products
  <2> QED BY <1>2, <2>2, <2>3, LookupTypes DEF LookupMetadata
<1>3. ASSUME ReadAddresses PROVE cn' \in MetadataCall
  <2>1. cn \in [pc : {"addresses"}, n : NodeNames, copy : Node, server : ServerIds]
    BY <1>3 DEF ReadAddresses, NodesTypeOK, MetadataCall, Idle
  <2>2. BuildProviderID(cn.server) \in ProviderIDs /\ AddressesOf(cn.server) \subseteq Address
    BY <2>1, NodeTypes, AddressTypes
  <2>3. [pid |-> BuildProviderID(cn.server), addrs |-> AddressesOf(cn.server)] \in Metadata
    BY <2>2 DEF Metadata
  <2> QED BY <1>3, <2>1, <2>3 DEF ReadAddresses, MetadataCall
<1>4. ASSUME UpdateNode PROVE cn' \in MetadataCall \cup {Idle}
  <2>1. cn \in [pc : {"update", "patch"}, n : NodeNames, copy : Node, meta : Metadata]
    BY <1>4 DEF UpdateNode, NodesTypeOK, MetadataCall, Idle
  <2> QED BY <1>4, <2>1 DEF UpdateNode, MetadataCall
<1>5. ASSUME PatchAddresses PROVE cn' \in MetadataCall \cup {Idle}
  BY <1>5 DEF PatchAddresses
<1> QED BY <1>1, <1>2, <1>3, <1>4, <1>5 DEF MetadataStep

\* So is each step of a call of the lifecycle controller.
LEMMA LifecycleTypes ==
  ASSUME NodesTypeOK
  PROVE  /\ \A n \in NodeNames : BeginMonitor(n) => lc' \in LifecycleCall
         /\ LifecycleStep => lc' \in LifecycleCall \cup {Idle}
         /\ ServerStep => lc' \in LifecycleCall \cup {Idle}
<1>1. ASSUME NEW n \in NodeNames, BeginMonitor(n) PROVE lc' \in LifecycleCall
  <2>1. nodes[n] \in Node
    BY <1>1 DEF BeginMonitor, There, NodesTypeOK
  <2>2. FirstProduct(nodes[n].pid) \in Products
    BY <2>1, NodeTypes DEF Node
  <2> QED BY <1>1, <2>1, <2>2 DEF BeginMonitor, LifecycleCall, Existing
<1>2. ASSUME lc.pc # "idle", NEW pc \in {"exists", "delete", "shutdown", "taint"},
             NEW p \in Products,
             \/ lc' = [lc EXCEPT !.pc = pc]
             \/ lc' = [lc EXCEPT !.pc = pc, !.product = p]
             \/ lc' = [lc EXCEPT !.product = p]
      PROVE  lc' \in LifecycleCall
  <2>1. lc \in LifecycleCall
    BY <1>2 DEF NodesTypeOK, Idle
  <2> QED BY <1>2, <2>1 DEF LifecycleCall
<1>3. lc.pc # "idle" => FirstProduct(lc.copy.pid) \in Products
  <2>1. lc.pc # "idle" => lc.copy \in Node
    BY DEF NodesTypeOK, LifecycleCall, Idle
  <2> QED BY <2>1, NodeTypes DEF Node
<1>4. "baremetal" \in Products
  BY DEF Products
<1>5. ASSUME InstanceExists PROVE lc' \in LifecycleCall \cup {Idle}
  BY <1>2, <1>3, <1>4, <1>5 DEF InstanceExists
<1>6. ASSUME InstanceShutdown PROVE lc' \in LifecycleCall \cup {Idle}
  BY <1>2, <1>4, <1>6 DEF InstanceShutdown
<1>7. ASSUME DeleteNode \/ TaintNode PROVE lc' \in LifecycleCall \cup {Idle}
  BY <1>7 DEF DeleteNode, TaintNode
<1>8. ASSUME ServerStep PROVE lc' \in LifecycleCall \cup {Idle}
  <2>1. CASE lc = Idle
    BY <1>8, <2>1 DEF ServerStep
  <2>2. CASE lc # Idle
    <3>1. lc \in LifecycleCall
      BY <2>2 DEF NodesTypeOK
    <3>2. lc' = [lc EXCEPT !.alive = @ \cap Existing',
                           !.up = {s \in @ : srv'[s] \in {"starting", "running"}}]
      BY <1>8, <2>2 DEF ServerStep
    <3> QED BY <3>1, <3>2 DEF LifecycleCall
  <2> QED BY <2>1, <2>2
<1> QED BY <1>1, <1>5, <1>6, <1>7, <1>8 DEF LifecycleStep

\* Where the actions that write a Node leave the Nodes.
LEMMA NodesTypes ==
  ASSUME NodesTypeOK, [NodesNext]_nodesVars
  PROVE  nodes' \in [NodeNames -> Node \cup {NoNode}]
<1>1. CASE UpdateNode
  <2>1. cn \in [pc : {"update", "patch"}, n : NodeNames, copy : Node, meta : Metadata]
    BY <1>1 DEF UpdateNode, NodesTypeOK, MetadataCall, Idle
  <2>2. CASE cn.n \in There
    <3>1. nodes[cn.n] \in Node
      BY <2>2 DEF There, NodesTypeOK
    <3>2. \A pid \in ProviderIDs \cup {NoPID, BadPID} :
            [nodes[cn.n] EXCEPT !.uninit = FALSE, !.pid = pid] \in Node
      BY <3>1 DEF Node
    <3>3. (IF nodes[cn.n].pid = NoPID THEN cn.meta.pid ELSE nodes[cn.n].pid)
             \in ProviderIDs \cup {NoPID, BadPID}
      BY <2>1, <3>1 DEF Node, Metadata
    <3>4. nodes' = [nodes EXCEPT ![cn.n] =
                      [nodes[cn.n] EXCEPT !.uninit = FALSE,
                         !.pid = IF nodes[cn.n].pid = NoPID THEN cn.meta.pid
                                                            ELSE nodes[cn.n].pid]]
      BY <1>1, <2>2, <3>1 DEF UpdateNode, NodesTypeOK, Node
    <3> QED BY <3>2, <3>3, <3>4 DEF NodesTypeOK
  <2>3. CASE cn.n \notin There
    BY <1>1, <2>3 DEF UpdateNode, NodesTypeOK
  <2> QED BY <2>2, <2>3
<1>2. CASE PatchAddresses
  <2>1. cn \in [pc : {"update", "patch"}, n : NodeNames, copy : Node, meta : Metadata]
    BY <1>2 DEF PatchAddresses, NodesTypeOK, MetadataCall, Idle
  <2>2. cn.n \in There => [nodes[cn.n] EXCEPT !.addrs = cn.meta.addrs] \in Node
    BY <2>1 DEF There, NodesTypeOK, Node, Metadata
  <2> QED BY <1>2, <2>1, <2>2 DEF PatchAddresses, NodesTypeOK
<1>3. CASE DeleteNode
  BY <1>3 DEF DeleteNode, NodesTypeOK
<1>4. ASSUME NEW n \in There, NEW b \in BOOLEAN, nodes' = [nodes EXCEPT ![n].shut = b]
      PROVE  nodes' \in [NodeNames -> Node \cup {NoNode}]
  <2>1. [nodes[n] EXCEPT !.shut = b] \in Node
    BY DEF There, NodesTypeOK, Node
  <2> QED BY <1>4, <2>1 DEF NodesTypeOK, There
<1>5. CASE TaintNode
  BY <1>4, <1>5 DEF TaintNode, NodesTypeOK
<1>6. ASSUME NEW n \in NodeNames, UntaintNode(n)
      PROVE  nodes' \in [NodeNames -> Node \cup {NoNode}]
  BY <1>4, <1>6 DEF UntaintNode
<1>7. ASSUME NEW s \in ServerIds, JoinNode(s)
      PROVE  nodes' \in [NodeNames -> Node \cup {NoNode}]
  <2>1. PICK form \in PIDForms, l \in Labels[NameOf[s]] :
          nodes' = [nodes EXCEPT ![NameOf[s]] =
                      [pid |-> KubeletPID(s, form), uninit |-> TRUE, addrs |-> {},
                       shut |-> FALSE, labels |-> l]]
    BY <1>7 DEF JoinNode
  <2>2. NameOf[s] \in NodeNames
    BY ServersAssumption
  <2>3. l \in NodeLabels /\ KubeletPID(s, form) \in ProviderIDs \cup {NoPID, BadPID}
    BY <2>2, NodeTypes
  <2>4. [pid |-> KubeletPID(s, form), uninit |-> TRUE, addrs |-> {},
         shut |-> FALSE, labels |-> l] \in Node
    BY <2>3 DEF Node
  <2> QED BY <2>1, <2>2, <2>4 DEF NodesTypeOK
<1>8. CASE nodes' = nodes
  BY <1>8 DEF NodesTypeOK
<1>9. \A n \in NodeNames : BeginMetadata(n) \/ BeginMonitor(n) => nodes' = nodes
  BY DEF BeginMetadata, BeginMonitor
<1>10. LookupMetadata \/ ReadAddresses \/ InstanceExists \/ InstanceShutdown => nodes' = nodes
  BY DEF LookupMetadata, ReadAddresses, InstanceExists, InstanceShutdown
<1>11. FailMetadata \/ FailLifecycle \/ ServerStep \/ UNCHANGED nodesVars => nodes' = nodes
  BY DEF FailMetadata, FailLifecycle, ServerStep, nodesVars
<1> QED
  BY <1>1, <1>2, <1>3, <1>5, <1>6, <1>7, <1>8, <1>9, <1>10, <1>11
     DEF NodesNext, MetadataStep, LifecycleStep

\* What happens to the servers keeps their types.
LEMMA ServerTypes ==
  ASSUME ServersTypeOK, ServerStep
  PROVE  ServersTypeOK'
<1>1. ASSUME NEW s \in ServerIds, NEW from, NEW to \in ServerStates, Move(s, from, to)
      PROVE  srv' \in [ServerIds -> ServerStates] /\ leased' \subseteq ServerIds
  BY <1>1 DEF Move, ServersTypeOK
<1>2. Event => events' \in 0..MaxEvents
  BY ServersAssumption DEF Event, ServersTypeOK
<1>3. PICK s \in ServerIds : \/ CreateServer(s) \/ StopServer(s) \/ StartServer(s)
                             \/ DeleteServer(s) \/ Boot(s) \/ Lease(s)
  BY DEF ServerStep
<1>4. \A st \in {"starting", "running", "stopped", "deleted"} : st \in ServerStates
  BY DEF ServerStates
<1>5. CASE CreateServer(s) \/ StopServer(s) \/ StartServer(s) \/ DeleteServer(s)
  BY <1>1, <1>2, <1>4, <1>5
     DEF CreateServer, StopServer, StartServer, DeleteServer, ServersTypeOK
<1>6. CASE Boot(s)
  BY <1>1, <1>4, <1>6 DEF Boot, ServersTypeOK
<1>7. CASE Lease(s)
  BY <1>7 DEF Lease, ServersTypeOK
<1> QED BY <1>3, <1>5, <1>6, <1>7

\* Every action keeps the types.
LEMMA NodesTypeNext == NodesTypeOK /\ [NodesNext]_nodesVars => NodesTypeOK'
<1> SUFFICES ASSUME NodesTypeOK, [NodesNext]_nodesVars PROVE NodesTypeOK'
  OBVIOUS
<1> USE DEF serverVars
<1>1. nodes' \in [NodeNames -> Node \cup {NoNode}]
  BY NodesTypes
<1>2. ServersTypeOK /\ (serverVars' = serverVars => ServersTypeOK')
  BY DEF NodesTypeOK, ServersTypeOK
<1>3. \A n \in NodeNames : BeginMetadata(n) \/ BeginMonitor(n) \/ UntaintNode(n) => NodesTypeOK'
  BY <1>1, <1>2, MetadataTypes, LifecycleTypes
     DEF BeginMetadata, BeginMonitor, UntaintNode, NodesTypeOK
<1>4. CASE MetadataStep
  <2>1. UNCHANGED <<serverVars, lc, joins, fails>>
    BY <1>4 DEF MetadataStep, LookupMetadata, ReadAddresses, UpdateNode, PatchAddresses
  <2> QED BY <1>1, <1>2, <1>4, <2>1, MetadataTypes DEF NodesTypeOK
<1>5. CASE LifecycleStep
  <2>1. UNCHANGED <<serverVars, cn, joins, fails>>
    BY <1>5 DEF LifecycleStep, InstanceExists, InstanceShutdown, DeleteNode, TaintNode
  <2> QED BY <1>1, <1>2, <1>5, <2>1, LifecycleTypes DEF NodesTypeOK
<1>6. CASE FailMetadata \/ FailLifecycle
  <2>1. fails' \in 0..MaxFails
    BY <1>6, NodesAssumption DEF FailMetadata, FailLifecycle, NodesTypeOK
  <2> QED BY <1>1, <1>2, <1>6, <2>1 DEF FailMetadata, FailLifecycle, NodesTypeOK
<1>7. ASSUME NEW s \in ServerIds, JoinNode(s) PROVE NodesTypeOK'
  <2>1. joins' \in 0..MaxJoins
    BY <1>7, NodesAssumption DEF JoinNode, NodesTypeOK
  <2> QED BY <1>1, <1>2, <1>7, <2>1 DEF JoinNode, NodesTypeOK
<1>8. CASE ServerStep
  BY <1>1, <1>2, <1>8, ServerTypes, LifecycleTypes DEF ServerStep, NodesTypeOK
<1>9. CASE UNCHANGED nodesVars
  BY <1>1, <1>2, <1>9 DEF nodesVars, NodesTypeOK
<1> QED BY <1>3, <1>4, <1>5, <1>6, <1>7, <1>8, <1>9 DEF NodesNext

\* The initial states are well typed.
LEMMA NodesTypeInit == NodesInit => NodesTypeOK
<1> SUFFICES ASSUME NodesInit PROVE NodesTypeOK
  OBVIOUS
<1>1. srv \in [ServerIds -> ServerStates] /\ leased \subseteq ServerIds
  BY DEF NodesInit, ServerStates, Existing
<1> QED
  BY <1>1, ServersAssumption, NodesAssumption DEF NodesInit, NodesTypeOK, ServersTypeOK

\* Every reachable state is well typed.
THEOREM NodesTypeCorrect == NodesSpec => []NodesTypeOK
BY NodesTypeInit, NodesTypeNext, PTL DEF NodesSpec

-----------------------------------------------------------------------------
(***************************************************************************)
(* No node is deleted whose server has existed all along.                  *)
(***************************************************************************)
\* What the call of the lifecycle controller has found out so far: a node
\* without provider ID is only looked for among the bare metal servers once no
\* instance of its name was there.
CallInv ==
  lc # Idle =>
    /\ ~lc.copy.labels.disable
    /\ lc.alive \subseteq Existing
    /\ lc.up \subseteq {s \in ServerIds : srv[s] \in {"starting", "running"}}
    /\ lc.copy.pid \in ProviderIDs => lc.product = lc.copy.pid.product
    /\ lc.pc = "exists" /\ lc.copy.pid = NoPID /\ lc.product = "baremetal" =>
         \A s \in lc.alive : ProductOf[s] = "instance" => NameOf[s] # lc.n
    /\ lc.pc = "delete" =>
         /\ lc.copy.pid # BadPID
         /\ Locatable(lc.copy) => ServersOf(lc.n, lc.copy) \cap lc.alive = {}
    /\ lc.pc = "taint" => \E s \in ServersOf(lc.n, lc.copy) : s \notin lc.up

\* Once no API knows a server of the node, none of them has existed all along.
LEMMA NotFoundAnywhere ==
  ASSUME NodesTypeOK, CallInv, lc.pc = "exists",
         ~LookupFails(lc.product, lc.n, lc.copy.pid),
         Lookup(lc.product, lc.n, lc.copy.pid) = {},
         ~AsksBaremetalNext(lc.product, lc.copy.pid)
  PROVE  /\ lc.copy.pid # BadPID
         /\ Locatable(lc.copy) => ServersOf(lc.n, lc.copy) \cap lc.alive = {}
<1>1. /\ lc \in LifecycleCall /\ lc # Idle /\ lc.alive \subseteq Existing
      /\ lc.copy \in Node /\ lc.product \in Products
  BY DEF NodesTypeOK, Idle, LifecycleCall, CallInv
<1>2. lc.copy.pid # BadPID
  BY DEF LookupFails
<1>3. CASE lc.copy.pid = NoPID
  <2>1. lc.product = "baremetal"
    BY <1>1, <1>3 DEF AsksBaremetalNext, Products
  <2>2. \A s \in lc.alive : ProductOf[s] = "instance" => NameOf[s] # lc.n
    BY <1>1, <1>3, <2>1 DEF CallInv
  <2>3. \A s \in Existing : ProductOf[s] = "baremetal" => NameOf[s] # lc.n
    BY <1>3, <2>1 DEF Lookup, getServerByName
  <2>4. \A s \in lc.alive : ProductOf[s] \in Products
    BY <1>1, ServersAssumption DEF Existing
  <2> QED BY <1>1, <1>2, <1>3, <2>2, <2>3, <2>4 DEF ServersOf, Products
<1>4. CASE lc.copy.pid \in ProviderIDs
  <2>1. lc.product = lc.copy.pid.product /\ lc.copy.pid # NoPID
    BY <1>1, <1>4, ServersAssumption DEF CallInv
  <2>2. \A s \in Existing : ~(/\ ProductOf[s] = lc.copy.pid.product /\ s = lc.copy.pid.id
                              /\ ZoneOf[s] = RequestZone(lc.copy.pid))
    BY <2>1 DEF Lookup, getServerByProviderID
  <2> QED BY <1>1, <1>2, <1>4, <2>1, <2>2 DEF Locatable, ServersOf
<1> QED BY <1>1, <1>2, <1>3, <1>4 DEF Node

\* A server that is found for a node is one it may stand for.
LEMMA FoundIsServer ==
  ASSUME NEW product, NEW n, NEW node \in Node, NEW s \in Lookup(product, n, node.pid),
         ~LookupFails(product, n, node.pid)
  PROVE  s \in ServersOf(n, node)
BY DEF Lookup, getServerByName, getServerByProviderID, LookupFails, ServersOf, Node, Existing

\* CallInv is about the call and the servers only.
LEMMA CallFrame ==
  ASSUME CallInv, lc' = lc, srv' = srv
  PROVE  CallInv'
BY DEF CallInv, Existing

\* A step of the call keeps CallInv.
LEMMA CallLifecycle ==
  ASSUME NodesTypeOK, CallInv, LifecycleStep
  PROVE  CallInv'
<1> USE DEF serverVars
<1>1. lc \in LifecycleCall /\ lc # Idle /\ srv' = srv
  BY DEF LifecycleStep, InstanceExists, InstanceShutdown, DeleteNode, TaintNode, NodesTypeOK, Idle
<1>2. /\ ~lc.copy.labels.disable /\ lc.alive \subseteq Existing /\ Existing' = Existing
      /\ lc.up \subseteq {s \in ServerIds : srv[s] \in {"starting", "running"}}
      /\ lc.copy.pid \in ProviderIDs => lc.product = lc.copy.pid.product
  BY <1>1 DEF CallInv, Existing
<1>3. CASE lc' = Idle
  BY <1>3 DEF CallInv
<1>4. ASSUME NEW pc, lc' = [lc EXCEPT !.pc = pc]
      PROVE  /\ lc'.pc = pc /\ lc'.n = lc.n /\ lc'.copy = lc.copy
             /\ lc'.product = lc.product /\ lc'.alive = lc.alive /\ lc'.up = lc.up
  BY <1>1, <1>4 DEF LifecycleCall
<1>5. ASSUME NEW p, lc' = [lc EXCEPT !.product = p]
      PROVE  /\ lc'.product = p /\ lc'.n = lc.n /\ lc'.copy = lc.copy
             /\ lc'.pc = lc.pc /\ lc'.alive = lc.alive /\ lc'.up = lc.up
  BY <1>1, <1>5 DEF LifecycleCall
<1>6. CASE InstanceExists
  <2>1. lc.pc = "exists"
    BY <1>6 DEF InstanceExists
  <2>2. CASE LookupFails(lc.product, lc.n, lc.copy.pid)
    BY <1>3, <1>6, <2>2 DEF InstanceExists
  <2>3. CASE /\ ~LookupFails(lc.product, lc.n, lc.copy.pid)
             /\ Lookup(lc.product, lc.n, lc.copy.pid) # {}
    <3>1. lc' = [lc EXCEPT !.pc = "shutdown", !.product = FirstProduct(lc.copy.pid)]
      BY <1>6, <2>3 DEF InstanceExists
    <3>2. /\ lc'.pc = "shutdown" /\ lc'.n = lc.n /\ lc'.copy = lc.copy
          /\ lc'.product = FirstProduct(lc.copy.pid)
          /\ lc'.alive = lc.alive /\ lc'.up = lc.up
      BY <1>1, <3>1 DEF LifecycleCall
    <3>3. lc.copy.pid \in ProviderIDs => FirstProduct(lc.copy.pid) = lc.copy.pid.product
      BY ServersAssumption DEF FirstProduct, getImplementationByProviderID
    <3> QED BY <1>1, <1>2, <3>2, <3>3 DEF CallInv
  <2>4. CASE /\ ~LookupFails(lc.product, lc.n, lc.copy.pid)
             /\ Lookup(lc.product, lc.n, lc.copy.pid) = {}
             /\ AsksBaremetalNext(lc.product, lc.copy.pid)
    <3>1. lc' = [lc EXCEPT !.product = "baremetal"]
      BY <1>6, <2>4 DEF InstanceExists
    <3>2. lc.copy.pid = NoPID /\ lc.product = "instance" /\ NoPID \notin ProviderIDs
      BY <2>4, ServersAssumption DEF AsksBaremetalNext
    <3>3. \A s \in lc.alive : ProductOf[s] = "instance" => NameOf[s] # lc.n
      BY <1>2, <2>4, <3>2 DEF Lookup, getServerByName
    <3> QED BY <1>1, <1>2, <1>5, <2>1, <3>1, <3>2, <3>3 DEF CallInv
  <2>5. CASE /\ ~LookupFails(lc.product, lc.n, lc.copy.pid)
             /\ Lookup(lc.product, lc.n, lc.copy.pid) = {}
             /\ ~AsksBaremetalNext(lc.product, lc.copy.pid)
    <3>1. lc' = [lc EXCEPT !.pc = "delete"]
      BY <1>6, <2>5 DEF InstanceExists
    <3>2. /\ lc.copy.pid # BadPID
          /\ Locatable(lc.copy) => ServersOf(lc.n, lc.copy) \cap lc.alive = {}
      BY <2>1, <2>5, NotFoundAnywhere
    <3> QED BY <1>1, <1>2, <1>4, <3>1, <3>2 DEF CallInv
  <2> QED BY <2>2, <2>3, <2>4, <2>5
<1>7. CASE InstanceShutdown
  <2>1. lc.pc = "shutdown"
    BY <1>7 DEF InstanceShutdown
  <2>2. CASE lc' = [lc EXCEPT !.product = "baremetal"] /\ AsksBaremetalNext(lc.product, lc.copy.pid)
    <3>1. lc.copy.pid \notin ProviderIDs
      BY <2>2, ServersAssumption DEF AsksBaremetalNext
    <3> QED BY <1>1, <1>2, <1>5, <2>1, <2>2, <3>1 DEF CallInv
  <2>3. CASE /\ ~LookupFails(lc.product, lc.n, lc.copy.pid)
             /\ lc' = [lc EXCEPT !.pc = "taint"]
             /\ \E s \in Lookup(lc.product, lc.n, lc.copy.pid) : IsShutdown(s)
    <3>1. PICK s \in Lookup(lc.product, lc.n, lc.copy.pid) : IsShutdown(s)
      BY <2>3
    <3>2. s \in ServersOf(lc.n, lc.copy)
      BY <1>1, <2>3, FoundIsServer DEF LifecycleCall
    <3>3. s \notin lc.up
      BY <1>2, <3>1 DEF IsShutdown
    <3> QED BY <1>1, <1>2, <1>4, <2>3, <3>2, <3>3 DEF CallInv
  <2> QED BY <1>3, <1>7, <2>2, <2>3 DEF InstanceShutdown
<1>8. CASE DeleteNode \/ TaintNode
  BY <1>3, <1>8 DEF DeleteNode, TaintNode
<1> QED BY <1>6, <1>7, <1>8 DEF LifecycleStep

\* So do the servers, which the history of the call follows.
LEMMA CallServers ==
  ASSUME NodesTypeOK, CallInv, ServerStep
  PROVE  CallInv'
<1>1. CASE lc = Idle
  BY <1>1 DEF ServerStep, CallInv
<1>2. CASE lc # Idle
  <2>1. lc \in LifecycleCall
    BY <1>2 DEF NodesTypeOK
  <2>2. lc' = [lc EXCEPT !.alive = @ \cap Existing',
                         !.up = {s \in @ : srv'[s] \in {"starting", "running"}}]
    BY <1>2 DEF ServerStep
  <2>3. /\ lc'.pc = lc.pc /\ lc'.n = lc.n /\ lc'.copy = lc.copy /\ lc'.product = lc.product
        /\ lc'.alive = lc.alive \cap Existing'
        /\ lc'.up = {s \in lc.up : srv'[s] \in {"starting", "running"}}
    BY <2>1, <2>2 DEF LifecycleCall
  <2>4. lc'.up \subseteq lc.up /\ lc'.alive \subseteq lc.alive
        /\ lc'.up \subseteq {s \in ServerIds : srv'[s] \in {"starting", "running"}}
    BY <2>1, <2>3 DEF LifecycleCall
  <2> QED BY <1>2, <2>3, <2>4 DEF CallInv
<1> QED BY <1>1, <1>2

\* Every step keeps CallInv.
LEMMA CallNext ==
  ASSUME NodesTypeOK, CallInv, [NodesNext]_nodesVars
  PROVE  CallInv'
<1> USE DEF serverVars
<1>1. ASSUME NEW n \in NodeNames, BeginMonitor(n) PROVE CallInv'
  <2>1. /\ lc'.pc = "exists" /\ lc'.n = n /\ lc'.copy = nodes[n] /\ srv' = srv
        /\ lc'.product = FirstProduct(nodes[n].pid) /\ lc'.alive = Existing
        /\ lc'.up = {s \in Existing : ~IsShutdown(s)}
        /\ ~nodes[n].labels.disable
    BY <1>1 DEF BeginMonitor, LifecycleDisabled
  <2>2. FirstProduct(NoPID) = "instance"
        /\ (nodes[n].pid \in ProviderIDs => FirstProduct(nodes[n].pid) = nodes[n].pid.product)
    BY ServersAssumption DEF FirstProduct, getImplementationByProviderID
  <2> QED BY <2>1, <2>2 DEF CallInv, Existing, IsShutdown
<1>2. CASE FailLifecycle
  BY <1>2 DEF FailLifecycle, CallInv
<1>3. \A n \in NodeNames : BeginMetadata(n) \/ UntaintNode(n) => lc' = lc /\ srv' = srv
  BY DEF BeginMetadata, UntaintNode
<1>4. MetadataStep \/ FailMetadata \/ UNCHANGED nodesVars => lc' = lc /\ srv' = srv
  BY DEF MetadataStep, LookupMetadata, ReadAddresses, UpdateNode, PatchAddresses,
         FailMetadata, nodesVars
<1>5. \A s \in ServerIds : JoinNode(s) => lc' = lc /\ srv' = srv
  BY DEF JoinNode
<1> QED
  BY <1>1, <1>2, <1>3, <1>4, <1>5, CallFrame, CallLifecycle, CallServers DEF NodesNext

-----------------------------------------------------------------------------
(***************************************************************************)
(* What a step does to a node.                                             *)
(***************************************************************************)
Joins(n, new) ==
  /\ n \notin There
  /\ \E s \in ServerIds, form \in PIDForms : NameOf[s] = n /\ new.pid = KubeletPID(s, form)
  /\ new.uninit /\ new.addrs = {} /\ ~new.shut /\ new.labels \in Labels[n]

Initialized(n, new) ==
  /\ n \in There /\ cn.pc = "update" /\ cn.n = n
  /\ ~new.uninit /\ new.pid = IF nodes[n].pid = NoPID THEN cn.meta.pid ELSE nodes[n].pid
  /\ new.addrs = nodes[n].addrs /\ new.shut = nodes[n].shut /\ new.labels = nodes[n].labels

Patched(n, new) ==
  /\ n \in There /\ cn.pc = "patch" /\ cn.n = n /\ new.addrs = cn.meta.addrs
  /\ new.pid = nodes[n].pid /\ new.uninit = nodes[n].uninit
  /\ new.shut = nodes[n].shut /\ new.labels = nodes[n].labels

Tainted(n, new) ==
  /\ n \in There /\ (new.shut => TaintNode /\ lc.n = n)
  /\ new.pid = nodes[n].pid /\ new.uninit = nodes[n].uninit
  /\ new.addrs = nodes[n].addrs /\ new.labels = nodes[n].labels

Deleted(n, new) == DeleteNode /\ lc.n = n /\ new = NoNode

NodeWrite(n, new) ==
  /\ nodes' = [nodes EXCEPT ![n] = new]
  /\ \/ Deleted(n, new)
     \/ new \in Node /\ \/ Joins(n, new) \/ Initialized(n, new)
                        \/ Patched(n, new) \/ Tainted(n, new)

\* A step writes one node at most.
LEMMA WriteStep ==
  ASSUME NodesTypeOK, [NodesNext]_nodesVars
  PROVE  nodes' = nodes \/ \E n \in NodeNames, new \in Node \cup {NoNode} : NodeWrite(n, new)
<1> DEFINE Writes == \E n \in NodeNames, new \in Node \cup {NoNode} : NodeWrite(n, new)
<1>0. /\ \A n \in There : n \in NodeNames /\ nodes[n] \in Node
      /\ cn.pc \in {"update", "patch"} =>
           cn \in [pc : {"update", "patch"}, n : NodeNames, copy : Node, meta : Metadata]
      /\ lc.pc \in {"delete", "taint"} => lc.n \in NodeNames
  BY DEF There, NodesTypeOK, MetadataCall, LifecycleCall, Idle
<1>1. CASE UpdateNode /\ cn.n \in There
  <2>1. cn.pc = "update"
    BY <1>1 DEF UpdateNode
  <2> DEFINE n == cn.n
             pid == IF nodes[n].pid = NoPID THEN cn.meta.pid ELSE nodes[n].pid
             new == [nodes[n] EXCEPT !.uninit = FALSE, !.pid = pid]
  <2>2. pid \in ProviderIDs \cup {NoPID, BadPID}
    BY <1>0, <1>1, <2>1 DEF Node, Metadata
  <2>3. new \in Node
    <3>1. nodes[n] \in Node
      BY <1>0, <1>1
    <3> HIDE DEF n, pid
    <3> QED BY <2>2, <3>1 DEF Node
  <2>4. nodes' = [nodes EXCEPT ![n] = new]
    <3>1. nodes' = [nodes EXCEPT ![n].uninit = FALSE,
                                 ![n].pid = IF @ = NoPID THEN cn.meta.pid ELSE @]
      BY <1>1 DEF UpdateNode
    <3>2. nodes[n].pid = [nodes[n] EXCEPT !.uninit = FALSE].pid
      BY <1>0, <1>1 DEF Node
    <3> QED BY <3>1, <3>2, <1>0, <1>1 DEF NodesTypeOK
  <2>5. Initialized(n, new)
    BY <1>0, <1>1, <2>1 DEF Initialized, Node
  <2>6. NodeWrite(n, new)
    BY <2>3, <2>4, <2>5 DEF NodeWrite
  <2> QED BY <1>0, <1>1, <2>3, <2>6
<1>2. CASE PatchAddresses /\ cn.n \in There
  <2>1. cn.pc = "patch"
    BY <1>2 DEF PatchAddresses
  <2> DEFINE n == cn.n
             new == [nodes[n] EXCEPT !.addrs = cn.meta.addrs]
  <2>2. new \in Node
    BY <1>0, <1>2, <2>1 DEF Node, Metadata
  <2>3. CASE cn.meta.addrs # {}
    <3>1. nodes' = [nodes EXCEPT ![n] = new]
      BY <1>0, <1>2, <2>3 DEF PatchAddresses, NodesTypeOK
    <3>2. Patched(n, new)
      BY <1>0, <1>2, <2>1 DEF Patched, Node
    <3>3. NodeWrite(n, new)
      BY <2>2, <3>1, <3>2 DEF NodeWrite
    <3> QED BY <1>0, <1>2, <2>2, <3>3
  <2> QED BY <1>2, <2>3 DEF PatchAddresses
<1>3. CASE (UpdateNode \/ PatchAddresses) /\ cn.n \notin There
  BY <1>3 DEF UpdateNode, PatchAddresses
<1>4. CASE DeleteNode
  <2>1. NodeWrite(lc.n, NoNode)
    BY <1>4 DEF DeleteNode, NodeWrite, Deleted
  <2> QED BY <1>0, <1>4, <2>1 DEF DeleteNode
<1>5. ASSUME NEW n \in There, NEW b \in BOOLEAN, nodes' = [nodes EXCEPT ![n].shut = b],
             b => TaintNode /\ lc.n = n
      PROVE  Writes
  <2> DEFINE new == [nodes[n] EXCEPT !.shut = b]
  <2>1. new \in Node /\ Tainted(n, new)
    BY <1>0, <1>5 DEF Node, Tainted
  <2>2. nodes' = [nodes EXCEPT ![n] = new]
    BY <1>0, <1>5 DEF NodesTypeOK
  <2>3. NodeWrite(n, new)
    BY <2>1, <2>2 DEF NodeWrite
  <2> QED BY <1>0, <2>1, <2>3
<1>6. CASE TaintNode
  <2>1. CASE lc.n \in There
    <3>1. nodes' = [nodes EXCEPT ![lc.n].shut = TRUE]
      BY <1>6, <2>1 DEF TaintNode
    <3> QED BY <1>5, <1>6, <2>1, <3>1
  <2> QED BY <1>6, <2>1 DEF TaintNode
<1>7. ASSUME NEW n \in NodeNames, UntaintNode(n) PROVE Writes
  <2>1. n \in There /\ nodes' = [nodes EXCEPT ![n].shut = FALSE]
    BY <1>7 DEF UntaintNode
  <2> QED BY <1>5, <2>1
<1>8. ASSUME NEW s \in ServerIds, JoinNode(s) PROVE Writes
  <2> DEFINE n == NameOf[s]
  <2>1. PICK form \in PIDForms, l \in Labels[n] :
          nodes' = [nodes EXCEPT ![n] =
                      [pid |-> KubeletPID(s, form), uninit |-> TRUE, addrs |-> {},
                       shut |-> FALSE, labels |-> l]]
    BY <1>8 DEF JoinNode
  <2> DEFINE new == [pid |-> KubeletPID(s, form), uninit |-> TRUE, addrs |-> {},
                     shut |-> FALSE, labels |-> l]
  <2>2. n \in NodeNames
    BY ServersAssumption
  <2>3. new \in Node
    BY <2>2, NodeTypes DEF Node
  <2>4. Joins(n, new)
    BY <1>8 DEF Joins, JoinNode
  <2>5. NodeWrite(n, new)
    BY <2>1, <2>3, <2>4 DEF NodeWrite
  <2> QED BY <2>2, <2>3, <2>5
<1>9. \A n \in NodeNames : BeginMetadata(n) \/ BeginMonitor(n) => nodes' = nodes
  BY DEF BeginMetadata, BeginMonitor
<1>10. LookupMetadata \/ ReadAddresses \/ InstanceExists \/ InstanceShutdown => nodes' = nodes
  BY DEF LookupMetadata, ReadAddresses, InstanceExists, InstanceShutdown
<1>11. FailMetadata \/ FailLifecycle \/ ServerStep \/ UNCHANGED nodesVars => nodes' = nodes
  BY DEF FailMetadata, FailLifecycle, ServerStep, nodesVars
<1> QED
  BY <1>1, <1>2, <1>3, <1>4, <1>6, <1>7, <1>8, <1>9, <1>10, <1>11
     DEF NodesNext, MetadataStep, LifecycleStep

\* InstanceExists and InstanceShutdown cost no node whose server has been there
\* and up all along the call, whatever failed or moved in between.
THEOREM NodesKept == NodesSpec => NodeKept
<1> DEFINE Kept(n) ==
      /\ nodes[n] # NoNode /\ nodes'[n] = NoNode =>
           /\ ~lc.copy.labels.disable /\ lc.copy.pid # BadPID
           /\ Locatable(lc.copy) => ServersOf(n, lc.copy) \cap lc.alive = {}
      /\ nodes[n] # NoNode /\ nodes'[n] # NoNode /\ ~nodes[n].shut /\ nodes'[n].shut =>
           /\ ~lc.copy.labels.disable
           /\ \E s \in ServersOf(n, lc.copy) : s \notin lc.up
<1>1. NodesInit => CallInv
  BY DEF NodesInit, CallInv
<1>2. NodesTypeOK /\ CallInv /\ [NodesNext]_nodesVars => CallInv'
  BY CallNext
<1>3. NodesTypeOK /\ CallInv /\ [NodesNext]_nodesVars => [\A n \in NodeNames : Kept(n)]_nodesVars
  <2> SUFFICES ASSUME NodesTypeOK, CallInv, [NodesNext]_nodesVars, NEW n \in NodeNames
               PROVE  Kept(n)
    OBVIOUS
  <2>1. CASE nodes'[n] = nodes[n]
    BY <2>1
  <2>2. CASE nodes'[n] # nodes[n]
    <3>1. PICK new \in Node \cup {NoNode} : NodeWrite(n, new)
      <4>1. PICK m \in NodeNames, new \in Node \cup {NoNode} : NodeWrite(m, new)
        BY <2>2, WriteStep
      <4>2. m = n
        BY <2>2, <4>1 DEF NodeWrite, NodesTypeOK
      <4> QED BY <4>1, <4>2
    <3>2. nodes'[n] = new
      BY <3>1 DEF NodeWrite, NodesTypeOK
    <3>3. CASE Deleted(n, new)
      <4>1. lc.pc = "delete" /\ lc # Idle /\ lc.n = n
        BY <3>3 DEF Deleted, DeleteNode, Idle
      <4> QED BY <3>2, <3>3, <4>1 DEF CallInv, Deleted
    <3>4. CASE Tainted(n, new) /\ new \in Node
      <4>1. new # NoNode
        BY <3>4, NoRecord
      <4>2. CASE new.shut
        <5>1. lc.pc = "taint" /\ lc # Idle /\ lc.n = n
          BY <3>4, <4>2 DEF Tainted, TaintNode, Idle
        <5> QED BY <3>2, <4>1, <5>1 DEF CallInv
      <4> QED BY <3>2, <4>1, <4>2
    <3>5. CASE (Initialized(n, new) \/ Patched(n, new) \/ Joins(n, new)) /\ new \in Node
      <4>1. new # NoNode
        BY <3>5, NoRecord
      <4> QED BY <3>2, <3>5, <4>1 DEF Initialized, Patched, Joins, There
    <3> QED BY <3>1, <3>3, <3>4, <3>5 DEF NodeWrite
  <2> QED BY <2>1, <2>2
<1> QED BY <1>1, <1>2, <1>3, NodesTypeCorrect, PTL DEF NodesSpec, NodeKept

-----------------------------------------------------------------------------
(***************************************************************************)
(* The addresses that a node may be told.                                  *)
(***************************************************************************)
Told(n) == AddressSets(n) \cup LabelSets(n)

PrivatePart(A) == {a \in A : a.type # "ExternalIP"}

\* Private and public addresses do not mix.
LEMMA Parts ==
  /\ \A ips : PrivatePart(External(ips)) = {}
  /\ \A ips : \A a \in Internal(ips) : a.type = "InternalIP"
  /\ \A s : \A I \in InternalSets(s) : \A a \in I : a.type = "InternalIP"
<1>1. \A ips : PrivatePart(External(ips)) = {}
  BY DEF PrivatePart, External
<1>2. \A ips : \A a \in Internal(ips) : a.type = "InternalIP"
  BY DEF Internal
<1> QED BY <1>1, <1>2 DEF InternalSets

\* The private part of what a node is told is that of one server, or nothing.
LEMMA ToldPrivately ==
  ASSUME NEW n, NEW A \in {{}} \cup Told(n)
  PROVE  PrivatePart(A) \in PrivateSets(n)
<1>1. ASSUME NEW ips, NEW I \in PrivateSets(n), A = External(ips) \cup I
      PROVE  PrivatePart(A) = I
  <2>1. \A a \in I : a.type = "InternalIP"
    BY Parts DEF PrivateSets
  <2>2. \A a \in External(ips) : a.type = "ExternalIP"
    BY DEF External
  <2> QED BY <1>1, <2>1, <2>2 DEF PrivatePart
<1>2. CASE A = {}
  BY <1>2 DEF PrivatePart, PrivateSets
<1>3. CASE A \in AddressSets(n)
  <2>1. PICK s \in Named(n) : A \in {External({PublicIP[s]}) \cup I : I \in InternalSets(s)}
    BY <1>3 DEF AddressSets, Named
  <2>2. PICK I \in InternalSets(s) : A = External({PublicIP[s]}) \cup I
    BY <2>1
  <2>3. I \in PrivateSets(n)
    BY <2>1, <2>2 DEF PrivateSets
  <2> QED BY <1>1, <2>2, <2>3
<1>4. CASE A \in LabelSets(n)
  <2>1. PICK l \in Labels[n], I \in PrivateSets(n) : A = External({l.pubip}) \cup I
    BY <1>4 DEF LabelSets
  <2> QED BY <1>1, <2>1
<1> QED BY <1>2, <1>3, <1>4 DEF Told

\* The addresses of a server of the node's name.
LEMMA ServerTold ==
  ASSUME NEW n, NEW s \in Named(n)
  PROVE  AddressesOf(s) \in Told(n)
<1>1. ASSUME NEW I \in InternalSets(s) PROVE External({PublicIP[s]}) \cup I \in AddressSets(n)
  <2>1. External({PublicIP[s]}) \cup I \in {External({PublicIP[s]}) \cup J : J \in InternalSets(s)}
    OBVIOUS
  <2> QED BY <2>1 DEF AddressSets
<1>2. CASE ProductOf[s] = "baremetal"
  <2>1. AddressesOf(s) = External({PublicIP[s]}) \cup {}
    BY <1>2 DEF AddressesOf, baremetalAddresses
  <2>2. {} \in InternalSets(s)
    BY <1>2 DEF InternalSets
  <2> QED BY <1>1, <2>1, <2>2 DEF Told
<1>3. CASE ProductOf[s] # "baremetal"
  <2>1. ProductOf[s] = "instance"
    BY <1>3, ServersAssumption DEF Named, Products
  <2> DEFINE X == IF getPrivateNetworkAddresses(s) # {} THEN getPrivateNetworkAddresses(s)
                                                        ELSE {LegacyIP[s]}
  <2>2. AddressesOf(s) = External({PublicIP[s]}) \cup Internal(X)
    BY <2>1 DEF AddressesOf, instanceAddresses
  <2>3. Internal(X) \in InternalSets(s)
    BY <1>3 DEF InternalSets, getPrivateNetworkAddresses
  <2> QED BY <1>1, <2>2, <2>3 DEF Told
<1> QED BY <1>2, <1>3

\* A node that is what the cluster may know of it.
OwnID(n, pid) == pid \in ProviderIDs => NameOf[pid.id] = n

Honest(n, node) ==
  node # NoNode =>
    /\ OwnID(n, node.pid) /\ node.labels \in Labels[n]
    /\ node.addrs \in {{}} \cup Told(n)

\* The addresses of the node-public-ip label, with the private ones it had.
LEMMA LabelTold ==
  ASSUME NEW n, NEW node \in Node, Honest(n, node), node.labels.pubip # NoIP
  PROVE  LabelMetadata(node).addrs \in Told(n)
<1>1. node.labels \in Labels[n] /\ PrivatePart(node.addrs) \in PrivateSets(n)
  BY NoRecord, ToldPrivately DEF Honest
<1>2. ASSUME NEW l \in {m \in Labels[n] : m.pubip # NoIP}, NEW I \in PrivateSets(n)
      PROVE  External({l.pubip}) \cup I \in LabelSets(n)
  <2>1. External({l.pubip}) \cup I \in {External({l.pubip}) \cup J : J \in PrivateSets(n)}
    OBVIOUS
  <2> QED BY <2>1 DEF LabelSets
<1>3. External({node.labels.pubip}) \cup PrivatePart(node.addrs) \in LabelSets(n)
  BY <1>1, <1>2
<1> QED BY <1>3 DEF LabelMetadata, PrivatePart, Told

\* The nodes and the call of the cloud node controller are honest.
MetadataInv ==
  cn # Idle =>
    /\ Honest(cn.n, cn.copy)
    /\ cn.pc = "addresses" => cn.server \in Named(cn.n)
    /\ cn.pc \in {"update", "patch"} =>
         OwnID(cn.n, cn.meta.pid) /\ cn.meta.addrs \in Told(cn.n)

HonestInv == MetadataInv /\ \A n \in NodeNames : Honest(n, nodes[n])

\* The nodes stay so.
LEMMA HonestNodes ==
  ASSUME NodesTypeOK, HonestInv, [NodesNext]_nodesVars
  PROVE  \A n \in NodeNames : Honest(n, nodes'[n])
<1> SUFFICES ASSUME NEW n \in NodeNames, NEW new \in Node \cup {NoNode}, NodeWrite(n, new)
             PROVE  Honest(n, new)
  <2>1. CASE nodes' = nodes
    BY <2>1 DEF HonestInv
  <2>2. CASE nodes' # nodes
    <3>1. PICK n \in NodeNames, new \in Node \cup {NoNode} : NodeWrite(n, new)
      BY <2>2, WriteStep
    <3>2. nodes' = [nodes EXCEPT ![n] = new]
      BY <3>1 DEF NodeWrite
    <3>3. Honest(n, new)
      BY <3>1
    <3> QED BY <3>2, <3>3 DEF HonestInv, NodesTypeOK
  <2> QED BY <2>1, <2>2
<1>1. n \in There => Honest(n, nodes[n]) /\ nodes[n] # NoNode
  BY DEF HonestInv, There
<1>2. CASE Deleted(n, new)
  BY <1>2 DEF Deleted, Honest
<1>3. CASE Joins(n, new)
  <2>1. PICK s \in ServerIds, form \in PIDForms : NameOf[s] = n /\ new.pid = KubeletPID(s, form)
    BY <1>3 DEF Joins
  <2>2. form \in {"none", "full", "zoneless", "bad"}
    BY NodesAssumption
  <2>3. OwnID(n, new.pid)
    BY <2>1, <2>2, ServersAssumption DEF OwnID, KubeletPID, BuildProviderID
  <2> QED BY <1>3, <2>3 DEF Joins, Honest
<1>4. CASE Initialized(n, new)
  <2>1. OwnID(n, cn.meta.pid)
    BY <1>4 DEF Initialized, HonestInv, MetadataInv, Idle
  <2> QED BY <1>1, <1>4, <2>1 DEF Initialized, Honest
<1>5. CASE Patched(n, new)
  <2>1. cn.meta.addrs \in Told(n)
    BY <1>5 DEF Patched, HonestInv, MetadataInv, Idle
  <2> QED BY <1>1, <1>5, <2>1 DEF Patched, Honest
<1>6. CASE Tainted(n, new)
  BY <1>1, <1>6 DEF Tainted, Honest
<1> QED BY <1>2, <1>3, <1>4, <1>5, <1>6 DEF NodeWrite

\* A server that the cloud node controller finds bears the node's name.
LEMMA FoundIsNamed ==
  ASSUME NEW product, NEW n, NEW node \in Node, OwnID(n, node.pid),
         ~LookupFails(product, n, node.pid), NEW s \in Lookup(product, n, node.pid)
  PROVE  s \in Named(n)
BY DEF Lookup, getServerByName, getServerByProviderID, LookupFails, OwnID, Node, Named, Existing

\* So what the call brings home is honest, at every step.
LEMMA HonestCall ==
  ASSUME NodesTypeOK, HonestInv, [NodesNext]_nodesVars
  PROVE  MetadataInv'
<1>0. MetadataInv /\ \A n \in There : nodes[n] \in Node /\ Honest(n, nodes[n])
  BY DEF HonestInv, There, NodesTypeOK
<1>1. CASE cn' = Idle
  BY <1>1 DEF MetadataInv
<1>2. CASE cn' = cn
  BY <1>0, <1>2 DEF MetadataInv
<1>3. ASSUME NEW n \in NodeNames, BeginMetadata(n) PROVE MetadataInv'
  <2>1. nodes[n] \in Node /\ Honest(n, nodes[n])
    BY <1>0, <1>3 DEF BeginMetadata
  <2>2. CASE nodes[n].labels.pubip # NoIP
    <3>1. cn' = [pc |-> IF nodes[n].uninit THEN "update" ELSE "patch", n |-> n,
                 copy |-> nodes[n], meta |-> LabelMetadata(nodes[n])]
      BY <1>3, <2>2 DEF BeginMetadata
    <3>2. OwnID(n, LabelMetadata(nodes[n]).pid)
      BY ServersAssumption DEF OwnID, LabelMetadata
    <3>3. LabelMetadata(nodes[n]).addrs \in Told(n)
      BY <2>1, <2>2, LabelTold
    <3> QED BY <2>1, <3>1, <3>2, <3>3 DEF MetadataInv
  <2>3. CASE nodes[n].labels.pubip = NoIP
    <3>1. cn' = [pc |-> "lookup", n |-> n, copy |-> nodes[n],
                 product |-> FirstProduct(nodes[n].pid)]
      BY <1>3, <2>3 DEF BeginMetadata
    <3> QED BY <2>1, <3>1 DEF MetadataInv
  <2> QED BY <2>2, <2>3
<1>4. CASE LookupMetadata
  <2>1. /\ cn \in [pc : {"lookup"}, n : NodeNames, copy : Node, product : Products]
        /\ cn # Idle
    BY <1>4 DEF LookupMetadata, NodesTypeOK, MetadataCall, Idle
  <2>2. Honest(cn.n, cn.copy) /\ OwnID(cn.n, cn.copy.pid)
    BY <1>0, <2>1, NoRecord DEF MetadataInv, Honest
  <2>3. ASSUME NEW s \in Lookup(cn.product, cn.n, cn.copy.pid),
               ~LookupFails(cn.product, cn.n, cn.copy.pid),
               cn' = [pc |-> "addresses", n |-> cn.n, copy |-> cn.copy, server |-> s]
        PROVE  MetadataInv'
    <3>1. s \in Named(cn.n)
      BY <2>1, <2>2, <2>3, FoundIsNamed
    <3> QED BY <2>2, <2>3, <3>1 DEF MetadataInv
  <2>4. ASSUME cn' = [cn EXCEPT !.product = "baremetal"] PROVE MetadataInv'
    <3>1. cn'.pc = "lookup" /\ cn'.n = cn.n /\ cn'.copy = cn.copy
      BY <2>1, <2>4
    <3> QED BY <2>2, <3>1 DEF MetadataInv
  <2> QED BY <1>1, <1>4, <2>3, <2>4 DEF LookupMetadata
<1>5. CASE ReadAddresses
  <2>1. cn.pc = "addresses" /\ cn # Idle
    BY <1>5 DEF ReadAddresses, Idle
  <2>2. cn.server \in Named(cn.n) /\ Honest(cn.n, cn.copy)
    BY <1>0, <2>1 DEF MetadataInv
  <2>3. OwnID(cn.n, BuildProviderID(cn.server)) /\ AddressesOf(cn.server) \in Told(cn.n)
    BY <2>2, ServerTold DEF OwnID, BuildProviderID, Named
  <2>4. /\ cn'.pc \in {"update", "patch"} /\ cn'.n = cn.n /\ cn'.copy = cn.copy
        /\ cn'.meta.pid = BuildProviderID(cn.server) /\ cn'.meta.addrs = AddressesOf(cn.server)
    BY <1>5 DEF ReadAddresses
  <2> QED BY <2>2, <2>3, <2>4 DEF MetadataInv
<1>6. CASE UpdateNode
  <2>1. /\ cn \in [pc : {"update", "patch"}, n : NodeNames, copy : Node, meta : Metadata]
        /\ cn # Idle /\ cn.pc = "update"
    BY <1>6 DEF UpdateNode, NodesTypeOK, MetadataCall, Idle
  <2>2. CASE cn' = [cn EXCEPT !.pc = "patch"]
    <3>1. cn'.pc = "patch" /\ cn'.n = cn.n /\ cn'.copy = cn.copy /\ cn'.meta = cn.meta
      BY <2>1, <2>2
    <3> QED BY <1>0, <2>1, <3>1 DEF MetadataInv
  <2> QED BY <1>1, <1>6, <2>2 DEF UpdateNode
<1>7. PatchAddresses \/ FailMetadata => cn' = Idle
  BY DEF PatchAddresses, FailMetadata
<1>8. \A n \in NodeNames : BeginMonitor(n) \/ UntaintNode(n) => cn' = cn
  BY DEF BeginMonitor, UntaintNode
<1>9. LifecycleStep \/ FailLifecycle \/ ServerStep \/ UNCHANGED nodesVars => cn' = cn
  BY DEF LifecycleStep, InstanceExists, InstanceShutdown, DeleteNode, TaintNode,
         FailLifecycle, ServerStep, nodesVars
<1>10. \A s \in ServerIds : JoinNode(s) => cn' = cn
  BY DEF JoinNode
<1> QED
  BY <1>1, <1>2, <1>3, <1>4, <1>5, <1>6, <1>7, <1>8, <1>9, <1>10 DEF NodesNext, MetadataStep

-----------------------------------------------------------------------------
(***************************************************************************)
(* Nodes implements NodeLife.                                              *)
(***************************************************************************)
Seen(node) == IF node = NoNode THEN NoNode
              ELSE [known |-> node.pid # NoPID, uninit |-> node.uninit, addrs |-> node.addrs]

\* The two modules have the same nodes.
LEMMA SameThere ==
  ASSUME NodesTypeOK
  PROVE  /\ NL!NoNode = NoNode /\ NL!There = There
         /\ \A n \in NodeNames : View[n] = Seen(nodes[n])
<1>1. NL!NoNode = NoNode
  BY DEF NL!NoNode, NoNode
<1>2. \A n \in NodeNames : View[n] = Seen(nodes[n])
  BY DEF View, Seen
<1>3. \A node : node # NoNode => Seen(node) # NoNode
  <2> SUFFICES ASSUME NEW node, node # NoNode, Seen(node) = NoNode PROVE FALSE
    OBVIOUS
  <2>1. DOMAIN NoNode = {"none"}
    BY DEF NoNode
  <2>2. DOMAIN Seen(node) = {"known", "uninit", "addrs"}
    BY DEF Seen
  <2> QED BY <2>1, <2>2
<1>4. \A n \in NodeNames : View[n] # NoNode <=> nodes[n] # NoNode
  BY <1>2, <1>3 DEF Seen
<1> QED BY <1>1, <1>2, <1>4 DEF NL!There, There

\* A step that writes one node is a step of NodeLife, or a stutter.
LEMMA WriteRefines ==
  ASSUME NodesTypeOK, NodesTypeOK', HonestInv, NEW n \in NodeNames, NEW new \in Node \cup {NoNode},
         NodeWrite(n, new)
  PROVE  [NL!LifeNext]_View
<1>1. View' = [View EXCEPT ![n] = Seen(new)]
  <2>1. nodes' = [nodes EXCEPT ![n] = new]
    BY DEF NodeWrite
  <2>2. \A m \in NodeNames : nodes'[m] = IF m = n THEN new ELSE nodes[m]
    BY <2>1 DEF NodesTypeOK
  <2> QED BY <2>2 DEF View, Seen
<1>2. NL!NoNode = NoNode /\ NL!There = There /\ View[n] = Seen(nodes[n])
  BY SameThere
<1>3. CASE Deleted(n, new)
  <2>1. Seen(new) = NoNode
    BY <1>3 DEF Deleted, Seen
  <2>2. CASE n \in There
    BY <1>1, <1>2, <2>1, <2>2 DEF NL!Unregister, NL!LifeNext
  <2>3. CASE n \notin There
    <3>1. View[n] = NoNode
      BY <1>2, <2>3 DEF There, Seen
    <3> QED BY <1>1, <2>1, <3>1 DEF View
  <2> QED BY <2>2, <2>3
<1>4. CASE new \in Node /\ Joins(n, new)
  <2>1. Seen(new) = [known |-> new.pid # NoPID, uninit |-> TRUE, addrs |-> {}]
    BY <1>4, NoRecord DEF Joins, Seen, Node
  <2>2. n \notin There
    BY <1>4 DEF Joins
  <2>3. NL!Register(n)
    BY <1>1, <1>2, <2>1, <2>2 DEF NL!Register
  <2> QED BY <2>3 DEF NL!LifeNext
<1>5. CASE n \in There /\ new \in Node
  <2>1. /\ View[n] = [known |-> nodes[n].pid # NoPID, uninit |-> nodes[n].uninit,
                      addrs |-> nodes[n].addrs]
        /\ Seen(new) = [known |-> new.pid # NoPID, uninit |-> new.uninit, addrs |-> new.addrs]
    BY <1>2, <1>5, NoRecord DEF Seen, There
  <2>2. CASE Initialized(n, new)
    <3> DEFINE had == nodes[n].pid # NoPID
               has == new.pid # NoPID
    <3>a. new.uninit = FALSE /\ new.addrs = nodes[n].addrs /\ (had => has)
      BY <2>2, <1>5 DEF Initialized, Node
    <3>b. /\ View[n] = [known |-> had, uninit |-> nodes[n].uninit, addrs |-> nodes[n].addrs]
          /\ Seen(new) = [known |-> has, uninit |-> FALSE, addrs |-> nodes[n].addrs]
      BY <2>1, <3>a
    <3>c. had \in BOOLEAN /\ has \in BOOLEAN
      OBVIOUS
    <3> HIDE DEF had, has
    <3>1. Seen(new) = [known |-> has, uninit |-> FALSE, addrs |-> View[n].addrs]
      BY <3>b
    <3>2. View[n].known => has
      BY <3>a, <3>b, <3>c
    <3>3. View' = [View EXCEPT ![n] = [known |-> has, uninit |-> FALSE, addrs |-> @.addrs]]
      BY <1>1, <3>1
    <3>4. NL!Initialize(n)
      BY <1>2, <1>5, <3>2, <3>3, <3>c DEF NL!Initialize
    <3> QED BY <3>4 DEF NL!LifeNext
  <2>3. CASE Patched(n, new)
    <3>1. Seen(new) = [View[n] EXCEPT !.addrs = cn.meta.addrs]
      BY <2>1, <2>3 DEF Patched
    <3>2. View' = [View EXCEPT ![n] = [@ EXCEPT !.addrs = cn.meta.addrs]]
      BY <1>1, <3>1
    <3>3. cn.meta.addrs \in [m \in NodeNames |-> AddressSets(m) \cup LabelSets(m)][n]
      BY <2>3 DEF Patched, HonestInv, MetadataInv, Idle, Told
    <3>4. NL!Describe(n)
      BY <1>2, <1>5, <3>2, <3>3 DEF NL!Describe
    <3> QED BY <3>4 DEF NL!LifeNext
  <2>4. CASE Tainted(n, new)
    <3>1. Seen(new) = View[n]
      BY <2>1, <2>4 DEF Tainted
    <3> QED BY <1>1, <3>1 DEF View
  <2>5. CASE Joins(n, new)
    BY <1>4, <1>5, <2>5
  <2> QED BY <1>3, <2>2, <2>3, <2>4, <2>5 DEF NodeWrite
<1> QED BY <1>3, <1>4, <1>5 DEF NodeWrite, Initialized, Patched, Tainted

\* The nodes live as NodeLife says, however servers of one name, calls of the
\* two controllers, failures and late answers of IPAM interleave.
THEOREM NodesImplementNodeLife == NodesSpec => ImplementsNodeLife
<1>1. NodesInit => HonestInv
  BY DEF NodesInit, HonestInv, MetadataInv, Honest
<1>2. NodesTypeOK /\ HonestInv /\ [NodesNext]_nodesVars => HonestInv'
  <2> SUFFICES ASSUME NodesTypeOK, HonestInv, [NodesNext]_nodesVars PROVE HonestInv'
    OBVIOUS
  <2>1. \A n \in NodeNames : Honest(n, nodes'[n])
    BY HonestNodes
  <2>2. MetadataInv'
    BY HonestCall
  <2> QED BY <2>1, <2>2 DEF HonestInv, Honest
<1>3. NodesInit => NL!LifeInit
  BY DEF NodesInit, NL!LifeInit, View, NL!NoNode, NoNode
<1>4. NodesTypeOK /\ NodesTypeOK' /\ HonestInv /\ [NodesNext]_nodesVars => [NL!LifeNext]_View
  <2> SUFFICES ASSUME NodesTypeOK, NodesTypeOK', HonestInv, [NodesNext]_nodesVars
               PROVE  [NL!LifeNext]_View
    OBVIOUS
  <2>1. CASE nodes' = nodes
    BY <2>1 DEF View
  <2> QED BY <2>1, WriteStep, WriteRefines
<1> QED
  BY <1>1, <1>2, <1>3, <1>4, NodesTypeCorrect, PTL DEF NodesSpec, ImplementsNodeLife, NL!LifeSpec
=============================================================================
