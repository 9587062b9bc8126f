------------------------------- MODULE Nodes -------------------------------
(***************************************************************************)
(* The controllers of the cloud-provider library that keep the nodes of the*)
(* cluster in line with their servers, through the CCM (module Servers):   *)
(*   - the cloud node controller (cn) calls InstanceMetadata to initialise *)
(*     a node (provider ID, taint, then addresses) and, from time to time, *)
(*     to refresh its addresses;                                           *)
(*   - the node lifecycle controller (lc) calls InstanceExists and         *)
(*     InstanceShutdown for a node that is not ready, to delete it from the*)
(*     cluster or to taint it.                                             *)
(* One action is one call to an API, so servers come and go between two    *)
(* calls and any of them may fail (Fail).  The two controllers are external*)
(* to the CCM; the calls they make to it are not.                          *)
(***************************************************************************)
EXTENDS Servers

CONSTANTS
  Labels,     \* for each node, the values its labels may have
  PIDForms,   \* how the kubelet may set the provider ID
  MaxJoins,   \* bound: registrations of nodes
  MaxFails    \* bound: failures

\* disable: the disable-lifecycle label; pubip: the node-public-ip label.
NodeLabels == [disable : BOOLEAN, pubip : IPs \cup {NoIP}]

ASSUME NodesAssumption ==
  /\ Labels \in [NodeNames -> SUBSET NodeLabels]
  /\ PIDForms \subseteq {"none", "full", "zoneless", "bad"}
  /\ MaxJoins \in Nat /\ MaxFails \in Nat

VARIABLES
  nodes,     \* the Nodes in the API server
  cn, lc,    \* the two controllers
  joins, fails

nodesVars == <<srv, leased, events, nodes, cn, lc, joins, fails>>

Node == [pid    : ProviderIDs \cup {NoPID, BadPID},
         uninit : BOOLEAN,             \* has TaintExternalCloudProvider
         addrs  : SUBSET Address,      \* status.addresses
         shut   : BOOLEAN,             \* has the shutdown taint
         labels : NodeLabels]

NoNode == [none |-> TRUE]
There  == {n \in NodeNames : nodes[n] # NoNode}

Idle == [pc |-> "idle"]

\* InstanceMetadata as far as it is used here.
Metadata == [pid : ProviderIDs \cup {NoPID}, addrs : SUBSET Address]

MetadataCall ==
       [pc : {"lookup"}, n : NodeNames, copy : Node, product : Products]
  \cup [pc : {"addresses"}, n : NodeNames, copy : Node, server : ServerIds]
  \cup [pc : {"update", "patch"}, n : NodeNames, copy : Node, meta : Metadata]

\* alive and up are history: the servers that have existed, and those that have
\* not been shut down, ever since the call began.
LifecycleCall ==
  [pc : {"exists", "delete", "shutdown", "taint"}, n : NodeNames, copy : Node,
   product : Products, alive : SUBSET ServerIds, up : SUBSET ServerIds]

-----------------------------------------------------------------------------
(***************************************************************************)
(* InstanceMetadata, called by the cloud node controller.                  *)
(***************************************************************************)

\* Mutant: all the addresses of the node are kept beside the label's.
LabelMetadata_KeepsAll(node) ==
  [pid |-> NoPID, addrs |-> External({node.labels.pubip}) \cup node.addrs]

\* The node-public-ip label: no API is asked, no provider ID is returned.
LabelMetadata(node) ==
  [pid |-> NoPID,
   addrs |-> External({node.labels.pubip})
               \cup {a \in node.addrs : a.type # "ExternalIP"}]

\* A node with the taint is initialised; another one is refreshed.
BeginMetadata(n) ==
  /\ cn = Idle /\ n \in There
  /\ LET c == nodes[n] IN
     cn' = IF c.labels.pubip # NoIP
             THEN [pc |-> IF c.uninit THEN "update" ELSE "patch", n |-> n,
                   copy |-> c, meta |-> LabelMetadata(c)]
             ELSE [pc |-> "lookup", n |-> n, copy |-> c,
                   product |-> FirstProduct(c.pid)]
  /\ UNCHANGED <<serverVars, nodes, lc, joins, fails>>

\* getServerByName or getServerByProviderID; an error ends the call.
LookupMetadata ==
  /\ cn.pc = "lookup"
  /\ LET c == cn.copy  found == Lookup(cn.product, cn.n, c.pid) IN
     \/ /\ LookupFails(cn.product, cn.n, c.pid) /\ cn' = Idle
     \/ /\ ~LookupFails(cn.product, cn.n, c.pid)
        /\ \/ \E s \in found :
                cn' = [pc |-> "addresses", n |-> cn.n, copy |-> c, server |-> s]
           \/ found = {} /\ cn' = IF AsksBaremetalNext(cn.product, c.pid)
                                    THEN [cn EXCEPT !.product = "baremetal"]
                                    ELSE Idle
  /\ UNCHANGED <<serverVars, nodes, lc, joins, fails>>

\* instanceAddresses (IPAM is asked) or baremetalAddresses.
ReadAddresses ==
  /\ cn.pc = "addresses"
  /\ cn' = [pc |-> IF cn.copy.uninit THEN "update" ELSE "patch",
            n |-> cn.n, copy |-> cn.copy,
            meta |-> [pid |-> BuildProviderID(cn.server),
                      addrs |-> AddressesOf(cn.server)]]
  /\ UNCHANGED <<serverVars, nodes, lc, joins, fails>>

\* The node is updated first: the taint goes, the provider ID comes.  The node
\* is read again for that, and after a conflict once more.
UpdateNode ==
  /\ cn.pc = "update"
  /\ IF cn.n \in There
       THEN /\ nodes' = [nodes EXCEPT
                           ![cn.n].uninit = FALSE,
                           ![cn.n].pid = IF @ = NoPID THEN cn.meta.pid ELSE @]
            /\ cn' = [cn EXCEPT !.pc = "patch"]
       ELSE cn' = Idle /\ UNCHANGED nodes
  /\ UNCHANGED <<serverVars, lc, joins, fails>>

\* Then the addresses, if there are any: a patch of the status, by the node's
\* name.
PatchAddresses ==
  /\ cn.pc = "patch"
  /\ nodes' = IF cn.n \in There /\ cn.meta.addrs # {}
                THEN [nodes EXCEPT ![cn.n].addrs = cn.meta.addrs]
                ELSE nodes
  /\ cn' = Idle
  /\ UNCHANGED <<serverVars, lc, joins, fails>>

MetadataStep == LookupMetadata \/ ReadAddresses \/ UpdateNode \/ PatchAddresses

-----------------------------------------------------------------------------
(***************************************************************************)
(* InstanceExists and InstanceShutdown, called by the lifecycle controller.*)
(***************************************************************************)

\* The disable-lifecycle label: the server exists and is not shut down.
LifecycleDisabled(node) == node.labels.disable

\* The node is not ready (the kubelet may be out of reach at any time).
BeginMonitor(n) ==
  /\ lc = Idle /\ n \in There /\ ~LifecycleDisabled(nodes[n])
  /\ lc' = [pc |-> "exists", n |-> n, copy |-> nodes[n],
            product |-> FirstProduct(nodes[n].pid),
            alive |-> Existing, up |-> {s \in Existing : ~IsShutdown(s)}]
  /\ UNCHANGED <<serverVars, nodes, cn, joins, fails>>

InstanceExists ==
  /\ lc.pc = "exists"
  /\ LET c == lc.copy IN
     lc' = IF LookupFails(lc.product, lc.n, c.pid) THEN Idle
           ELSE IF Lookup(lc.product, lc.n, c.pid) # {}
             THEN [lc EXCEPT !.pc = "shutdown", !.product = FirstProduct(c.pid)]
           ELSE IF AsksBaremetalNext(lc.product, c.pid)
             THEN [lc EXCEPT !.product = "baremetal"]
           ELSE [lc EXCEPT !.pc = "delete"]
  /\ UNCHANGED <<serverVars, nodes, cn, joins, fails>>

\* An instance that is not found is an error of InstanceShutdown.
InstanceShutdown ==
  /\ lc.pc = "shutdown"
  /\ LET c == lc.copy  found == Lookup(lc.product, lc.n, c.pid) IN
     lc' = IF LookupFails(lc.product, lc.n, c.pid) THEN Idle
           ELSE IF found # {}
             THEN IF \E s \in found : IsShutdown(s) THEN [lc EXCEPT !.pc = "taint"]
                                                    ELSE Idle
           ELSE IF AsksBaremetalNext(lc.product, c.pid)
             THEN [lc EXCEPT !.product = "baremetal"]
           ELSE Idle
  /\ UNCHANGED <<serverVars, nodes, cn, joins, fails>>

\* The node is deleted by its name.
DeleteNode ==
  /\ lc.pc = "delete"
  /\ nodes' = [nodes EXCEPT ![lc.n] = NoNode]
  /\ lc' = Idle
  /\ UNCHANGED <<serverVars, cn, joins, fails>>

TaintNode ==
  /\ lc.pc = "taint"
  /\ nodes' = IF lc.n \in There THEN [nodes EXCEPT ![lc.n].shut = TRUE] ELSE nodes
  /\ lc' = Idle
  /\ UNCHANGED <<serverVars, cn, joins, fails>>

\* The node is ready again.
UntaintNode(n) ==
  /\ n \in There /\ nodes[n].shut
  /\ \E s \in ServerIds : NameOf[s] = n /\ srv[s] = "running"
  /\ nodes' = [nodes EXCEPT ![n].shut = FALSE]
  /\ UNCHANGED <<serverVars, cn, lc, joins, fails>>

LifecycleStep == InstanceExists \/ InstanceShutdown \/ DeleteNode \/ TaintNode

\* Any call fails, or its answer is lost.
FailMetadata ==
  /\ cn # Idle /\ fails < MaxFails
  /\ cn' = Idle /\ fails' = fails + 1
  /\ UNCHANGED <<serverVars, nodes, lc, joins>>

FailLifecycle ==
  /\ lc # Idle /\ fails < MaxFails
  /\ lc' = Idle /\ fails' = fails + 1
  /\ UNCHANGED <<serverVars, nodes, cn, joins>>

-----------------------------------------------------------------------------
(***************************************************************************)
(* The environment.                                                        *)
(***************************************************************************)

\* What the kubelet of server s passes as --provider-id.
KubeletPID(s, form) ==
  CASE form = "none"     -> NoPID
    [] form = "full"     -> BuildProviderID(s)
    [] form = "zoneless" -> [product |-> "instance", zone |-> NoZone, id |-> s]
    [] form = "bad"      -> BadPID

\* The kubelet of a running server registers its node.
JoinNode(s) ==
  /\ srv[s] = "running" /\ NameOf[s] \notin There
  /\ joins < MaxJoins /\ joins' = joins + 1
  /\ \E form \in PIDForms, l \in Labels[NameOf[s]] :
       nodes' = [nodes EXCEPT ![NameOf[s]] =
                   [pid |-> KubeletPID(s, form), uninit |-> TRUE, addrs |-> {},
                    shut |-> FALSE, labels |-> l]]
  /\ UNCHANGED <<serverVars, cn, lc, fails>>

\* The history of the lifecycle call in progress follows the servers.
ServerStep ==
  /\ \E s \in ServerIds : \/ CreateServer(s) \/ StopServer(s) \/ StartServer(s)
                          \/ DeleteServer(s) \/ Boot(s) \/ Lease(s)
  /\ lc' = IF lc = Idle THEN Idle
           ELSE [lc EXCEPT !.alive = @ \cap Existing',
                           !.up = {s \in @ : srv'[s] \in {"starting", "running"}}]
  /\ UNCHANGED <<nodes, cn, joins, fails>>

-----------------------------------------------------------------------------
\* The servers a node may stand for.
ServersOf(n, node) ==
  IF node.pid = NoPID THEN {s \in ServerIds : NameOf[s] = n}
                      ELSE {s \in ServerIds : node.pid \in ProviderIDs /\ s = node.pid.id}

\* Its provider ID leads to the server it names.
Locatable(node) ==
  node.pid \in ProviderIDs =>
    /\ node.pid.product = ProductOf[node.pid.id]
    /\ RequestZone(node.pid) = ZoneOf[node.pid.id]

NodesInit ==
  /\ srv \in [ServerIds -> {"absent", "running", "stopped"}]
  /\ leased \in SUBSET {s \in Existing : RelevantNics(s) # {}}
  /\ events = 0
  /\ nodes = [n \in NodeNames |-> NoNode]
  /\ cn = Idle /\ lc = Idle
  /\ joins = 0 /\ fails = 0

NodesNext ==
  \/ \E n \in NodeNames : BeginMetadata(n) \/ BeginMonitor(n) \/ UntaintNode(n)
  \/ MetadataStep \/ LifecycleStep
  \/ FailMetadata \/ FailLifecycle
  \/ \E s \in ServerIds : JoinNode(s)
  \/ ServerStep

NodesSpec == NodesInit /\ [][NodesNext]_nodesVars

\* A node whose server is gone for good: its kubelet reports nothing.
Ghost(n) ==
  /\ n \in There /\ ~nodes[n].labels.disable
  /\ nodes[n].pid # BadPID /\ Locatable(nodes[n])
  /\ ServersOf(n, nodes[n]) \cap Existing = {}

\* Both controllers walk over all nodes for ever: the one over the nodes it may
\* have to describe, the other over those that are not ready.
NodesFairness ==
  /\ WF_nodesVars(MetadataStep) /\ WF_nodesVars(LifecycleStep)
  /\ \A n \in NodeNames : /\ SF_nodesVars(BeginMetadata(n))
                           /\ SF_nodesVars(BeginMonitor(n) /\ Ghost(n))

NodesFairSpec == NodesSpec /\ NodesFairness

-----------------------------------------------------------------------------
(***************************************************************************)
(* Properties.                                                             *)
(***************************************************************************)

\* Type correctness.
NodesTypeOK ==
  /\ ServersTypeOK
  /\ nodes \in [NodeNames -> Node \cup {NoNode}]
  /\ cn \in MetadataCall \cup {Idle}
  /\ lc \in LifecycleCall \cup {Idle}
  /\ joins \in 0..MaxJoins /\ fails \in 0..MaxFails

\* A node is only deleted if its server has not existed all along the call that
\* says so, and a node is only tainted if its server has been down at some time
\* of it: an API that fails, a name borne twice, a malformed provider ID, a
\* bare metal server looked up by name or the disable-lifecycle label never
\* cost the cluster a node (InstanceExists and InstanceShutdown).
NodeKept ==
  [][\A n \in NodeNames :
       /\ nodes[n] # NoNode /\ nodes'[n] = NoNode =>
            /\ ~lc.copy.labels.disable /\ lc.copy.pid # BadPID
            /\ Locatable(lc.copy) => ServersOf(n, lc.copy) \cap lc.alive = {}
       /\ nodes[n] # NoNode /\ nodes'[n] # NoNode /\ ~nodes[n].shut /\ nodes'[n].shut =>
            /\ ~lc.copy.labels.disable
            /\ \E s \in ServersOf(n, lc.copy) : s \notin lc.up]_nodesVars

\* A node whose server has been deleted goes, even if the APIs failed at first.
GhostNodesGo == \A n \in NodeNames : Ghost(n) ~> ~Ghost(n)

\* The one server that InstanceMetadata finds for a node, if it does.
TheServer(n, node) ==
  LET p == FirstProduct(node.pid)
      first == Lookup(p, n, node.pid)
  IN IF LookupFails(p, n, node.pid) THEN {}
     ELSE IF first # {} \/ ~AsksBaremetalNext(p, node.pid) THEN first
     ELSE IF LookupFails("baremetal", n, node.pid) THEN {}
     ELSE Lookup("baremetal", n, node.pid)

\* Initialised, with the addresses of its server or of its label.
Described(n) ==
  /\ ~nodes[n].uninit
  /\ IF nodes[n].labels.pubip # NoIP
       THEN {a \in nodes[n].addrs : a.type = "ExternalIP"} = External({nodes[n].labels.pubip})
       ELSE \A s \in TheServer(n, nodes[n]) : AddressesOf(s) \in {{}, nodes[n].addrs}

\* Every node whose server can be found is initialised in the end and has that
\* server's addresses (InstanceMetadata), whatever late patch of another server
\* of that name, failed call or late answer of IPAM came before.
NodesDescribed ==
  <>[](\A n \in There :
         Described(n) \/ (nodes[n].labels.pubip = NoIP /\ TheServer(n, nodes[n]) = {}))

\* What a node may be told its addresses are: those of one server of its name,
\* private ones from the NICs or the legacy one, never both; with the
\* node-public-ip label, the label's and the private ones it had.
InternalSets(s) ==
  IF ProductOf[s] = "baremetal" THEN {{}}
  ELSE {Internal({LegacyIP[s]}), Internal({NicIP[s][pn] : pn \in RelevantNics(s)})}

Named(n) == {s \in ServerIds : NameOf[s] = n}

PrivateSets(n) == {{}} \cup UNION {InternalSets(s) : s \in Named(n)}

AddressSets(n) ==
  UNION {{External({PublicIP[s]}) \cup I : I \in InternalSets(s)} : s \in Named(n)}

LabelSets(n) ==
  UNION {{External({l.pubip}) \cup I : I \in PrivateSets(n)} :
           l \in {m \in Labels[n] : m.pubip # NoIP}}

View == [n \in NodeNames |->
           IF nodes[n] = NoNode THEN NoNode
           ELSE [known  |-> nodes[n].pid # NoPID,
                 uninit |-> nodes[n].uninit,
                 addrs  |-> nodes[n].addrs]]

NL == INSTANCE NodeLife WITH
        nodes <- View,
        Describable <- [n \in NodeNames |-> AddressSets(n) \cup LabelSets(n)]

\* The nodes live as NodeLife says: whatever servers share a name, come and go
\* or get their addresses between two calls, a node keeps its provider ID and
\* never has the addresses of two servers.
ImplementsNodeLife == NL!LifeSpec
=============================================================================
