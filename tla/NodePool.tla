------------------------------ MODULE NodePool -----------------------------
(***************************************************************************)
(* The nodes as the targets of a load balancer: which nodes a Service      *)
(* takes (filterNodes), when they may be used (nodesInitialized), the      *)
(* servers of its backend and the access control list (ACL) of its frontend*)
(* (scaleway/loadbalancers.go, acl.go).  LBReconcile takes the addresses   *)
(* as given and models everything else that a call of updateLoadBalancer   *)
(* does; here they come from the nodes, which live as NodeLife says.       *)
(*                                                                         *)
(* The service controller (external) calls updateLoadBalancer with the     *)
(* nodes it lists, whenever a node comes, goes or gets its provider ID and *)
(* whenever the Service changes, and again after an error.  A change of the*)
(* addresses alone makes it call nothing.                                  *)
(***************************************************************************)
EXTENDS NodeLife, Sequences, SequencesExt

CONSTANTS
  Values,            \* values of the labels of nodes
  AnyValue,          \* a target label without value
  LabelsOf,          \* for each node, its labels: a partial function
  HasPN,             \* l.pnID # "": the cluster is in a private network
  Services,          \* what users ask for: a set of [target, ranges, internal]
  InvalidCIDR,       \* a source range that net.ParseCIDR refuses
  Everyone,          \* 0.0.0.0/0 and ::/0
  MaxEntriesPerACL,
  MaxChanges         \* bound: registrations, removals and new addresses of
                     \* nodes, edits of the Service and failures

ASSUME NodePoolAssumption ==
  /\ IsFiniteSet(IPs)
  /\ AnyValue \notin Values
  /\ \A n \in NodeNames : \A k \in DOMAIN LabelsOf[n] : LabelsOf[n][k] \in Values
  /\ InvalidCIDR \notin IPs /\ Everyone \notin IPs
  /\ \A s \in Services :
       /\ \A k \in DOMAIN s.target : s.target[k] \in Values \cup {AnyValue}
       /\ s.ranges \subseteq IPs \cup {InvalidCIDR}
       /\ s.internal \in BOOLEAN
  /\ HasPN \in BOOLEAN /\ MaxEntriesPerACL \in Nat \ {0}
  /\ MaxChanges \in Nat

VARIABLES
  old,             \* nodes created more than three minutes ago
  service,         \* target-node-labels, loadBalancerSourceRanges and
                   \* force-internal-ip (or pn-ids)
  pool,            \* the servers of the backend
  acls,            \* the rules of the frontend, in the order of their index
  due,             \* the service controller has a call to make
  sync,            \* the call in progress
  passed,          \* history: nodes the last call left out because of their age
  moved,           \* history: nodes that had an address in the last call and
                   \* have got another one since
  changes

nodeVars == <<nodes, old>>
hist     == <<passed, moved>>
vars     == <<nodeVars, service, pool, acls, due, sync, hist, changes>>

-----------------------------------------------------------------------------
(***************************************************************************)
(* The nodes of the call.                                                  *)
(***************************************************************************)

\* filterNodes keeps the node.
TargetedBy(n, t) ==
  \A k \in DOMAIN t : /\ k \in DOMAIN LabelsOf[n]
                      /\ t[k] = AnyValue \/ LabelsOf[n][k] = t[k]

\* extractNodesInternalIps and extractNodesExternalIps of one node.
IPsOf(node, type) == {a.ip : a \in {b \in node.addrs : b.type = type}}

\* useInternalIPs.
TargetType(s) == IF s.internal \/ HasPN THEN "InternalIP" ELSE "ExternalIP"

IsInitialized(node, s) == ~node.uninit /\ IPsOf(node, TargetType(s)) # {}

\* A list of nodes is a function from names to copies.
filterNodes(list, s) ==
  [n \in {m \in DOMAIN list : TargetedBy(m, s.target)} |-> list[n]]

\* Mutant: a node is waited for however old it is.
nodesInitialized_Forever(list, aged, s) ==
  \A n \in DOMAIN list : IsInitialized(list[n], s)

\* Mutant: a node without the taint is taken to have its addresses.
nodesInitialized_TaintOnly(list, aged, s) ==
  \A n \in DOMAIN list : n \in aged \/ ~list[n].uninit

nodesInitialized(list, aged, s) ==
  \A n \in DOMAIN list : n \in aged \/ IsInitialized(list[n], s)

AllIPs(list, type) == UNION {IPsOf(list[n], type) : n \in DOMAIN list}

targetIPs(list, s) == AllIPs(list, TargetType(s))

-----------------------------------------------------------------------------
(***************************************************************************)
(* The access control list: rules that are tried in order.                 *)
(***************************************************************************)
Rule == [action : {"allow", "deny"}, entries : Seq(IPs \cup {Everyone})]

Allow(entries) == [action |-> "allow", entries |-> entries]
Deny(entries)  == [action |-> "deny",  entries |-> entries]

\* slices.Sort, which keeps duplicates: the k-th smallest element comes k-th.
Sorted[s \in Seq(Int)] ==
  [k \in DOMAIN s |->
     CHOOSE x \in Range(s) : /\ Cardinality({i \in DOMAIN s : s[i] < x}) < k
                             /\ k <= Cardinality({i \in DOMAIN s : s[i] <= x})]

chunkArray(s, size) ==
  [i \in 1..((Len(s) + size - 1) \div size) |->
     SubSeq(s, (i - 1) * size + 1, IF i * size < Len(s) THEN i * size ELSE Len(s))]

\* Mutant: a source range that is no CIDR is passed on.
whitelist_Unparsed(list, r) ==
  Sorted[SetToSeq(AllIPs(list, "InternalIP")) \o SetToSeq(AllIPs(list, "ExternalIP"))
           \o SetToSeq(r)]

whitelist(list, r) ==
  Sorted[SetToSeq(AllIPs(list, "InternalIP")) \o SetToSeq(AllIPs(list, "ExternalIP"))
           \o SetToSeq(r \ {InvalidCIDR})]

makeACLSpecs(list, r) ==
  IF r = {} THEN <<>>
  ELSE LET chunks == chunkArray(whitelist(list, r), MaxEntriesPerACL)
       IN  Append([i \in DOMAIN chunks |-> Allow(chunks[i])], Deny(<<Everyone>>))

\* Mutant: only the number of rules is compared.
aclsEquals_Length(got, wanted) == Len(got) = Len(wanted)

\* Rule by rule, the entries in any order.
aclsEquals(got, wanted) ==
  /\ Len(got) = Len(wanted)
  /\ \A i \in DOMAIN wanted :
       /\ got[i].action = wanted[i].action
       /\ \/ got[i].entries = wanted[i].entries
          \/ wanted[i].action = "allow" /\ Sorted[got[i].entries] = Sorted[wanted[i].entries]

-----------------------------------------------------------------------------
(***************************************************************************)
(* updateLoadBalancer, as far as the nodes go.                             *)
(***************************************************************************)
NoSync == [pc |-> "idle"]

Change == changes < MaxChanges /\ changes' = changes + 1

\* The nodes are listed and filtered.  A call that finds one which is young and
\* not initialised returns an error and is still due.
BeginSync ==
  LET list == filterNodes([n \in There |-> nodes[n]], service) IN
  /\ sync = NoSync /\ due
  /\ nodesInitialized(list, old, service)
  /\ sync' = [pc |-> "servers", list |-> list, s |-> service]
  /\ due' = FALSE
  /\ passed' = (passed \ DOMAIN list)
                 \cup {n \in DOMAIN list \cap old : ~IsInitialized(list[n], service)}
  /\ moved' = moved \ DOMAIN list
  /\ UNCHANGED <<nodeVars, service, pool, acls, changes>>

\* SetBackendServers, if the servers differ.
SetBackendServers ==
  /\ sync.pc = "servers"
  /\ pool' = targetIPs(sync.list, sync.s)
  /\ sync' = [sync EXCEPT !.pc = "acls"]
  /\ UNCHANGED <<nodeVars, service, acls, due, hist, changes>>

\* reconcileACLs: ListACLs, and SetACLs if they differ.
SetACLs ==
  /\ sync.pc = "acls"
  /\ \E specs \in {makeACLSpecs(sync.list, sync.s.ranges)} :
       acls' = IF aclsEquals(acls, specs) THEN acls ELSE specs
  /\ sync' = [sync EXCEPT !.pc = "done"]
  /\ UNCHANGED <<nodeVars, service, pool, due, hist, changes>>

ReturnSync ==
  /\ sync.pc = "done"
  /\ sync' = NoSync
  /\ UNCHANGED <<nodeVars, service, pool, acls, due, hist, changes>>

SyncStep == SetBackendServers \/ SetACLs \/ ReturnSync

FailSync ==
  /\ Change /\ sync # NoSync
  /\ sync' = NoSync /\ due' = TRUE
  /\ UNCHANGED <<nodeVars, service, pool, acls, hist>>

EditService ==
  /\ Change
  /\ \E s \in Services \ {service} : service' = s
  /\ due' = TRUE
  /\ UNCHANGED <<nodeVars, pool, acls, sync, hist>>

-----------------------------------------------------------------------------
(***************************************************************************)
(* The nodes, and what the service controller makes of them.               *)
(***************************************************************************)
NodeComes(n) ==
  /\ Change /\ Register(n) /\ due' = TRUE
  /\ UNCHANGED <<old, service, pool, acls, sync, hist>>

NodeGoes(n) ==
  /\ Change /\ Unregister(n) /\ due' = TRUE
  /\ old' = old \ {n} /\ passed' = passed \ {n} /\ moved' = moved \ {n}
  /\ UNCHANGED <<service, pool, acls, sync>>

NodeInitialized(n) ==
  /\ Initialize(n)
  /\ due' = (due \/ nodes[n].known # nodes'[n].known)
  /\ UNCHANGED <<old, service, pool, acls, sync, hist, changes>>

NodeDescribed(n) ==
  /\ Change /\ Describe(n)
  /\ moved' = IF \E t \in {"InternalIP", "ExternalIP"} :
                   IPsOf(nodes[n], t) \notin {{}, IPsOf(nodes'[n], t)}
                THEN moved \cup {n} ELSE moved
  /\ UNCHANGED <<old, service, pool, acls, due, sync, passed>>

Age(n) ==
  /\ n \in There \ old /\ old' = old \cup {n}
  /\ UNCHANGED <<nodes, service, pool, acls, due, sync, hist, changes>>

Init ==
  /\ LifeInit /\ old = {}
  /\ service \in Services
  /\ pool = {} /\ acls = <<>>
  /\ due = TRUE /\ sync = NoSync
  /\ passed = {} /\ moved = {}
  /\ changes = 0

Next ==
  \/ \E n \in NodeNames : \/ NodeComes(n) \/ NodeGoes(n) \/ NodeInitialized(n)
                          \/ NodeDescribed(n) \/ Age(n)
  \/ BeginSync \/ SyncStep \/ FailSync \/ EditService

Spec == Init /\ [][Next]_vars

\* A call of the service controller that is due is made, again and again until
\* it gets past nodesInitialized, and goes on; time passes.  Nobody owes a node
\* its initialisation.
Fairness == /\ SF_vars(BeginSync) /\ WF_vars(SyncStep)
            /\ WF_vars(\E n \in NodeNames : Age(n))

FairSpec == Spec /\ Fairness

-----------------------------------------------------------------------------
(***************************************************************************)
(* Properties.                                                             *)
(***************************************************************************)

\* Type correctness.
TypeOK ==
  /\ nodes \in [NodeNames -> Node \cup {NoNode}]
  /\ old \subseteq There /\ passed \subseteq There /\ moved \subseteq There
  /\ service \in Services
  /\ pool \subseteq IPs
  /\ acls \in Seq(Rule)
  /\ due \in BOOLEAN
  /\ \/ sync = NoSync
     \/ \E D \in SUBSET NodeNames :
          sync \in [pc : {"servers", "acls", "done"}, list : [D -> Node], s : Services]
  /\ changes \in 0..MaxChanges

\* The first rule that matches decides; without any the frontend is open.
Matches(rule, ip) ==
  \E i \in DOMAIN rule.entries : rule.entries[i] \in {ip, Everyone}
Admitted(ip) ==
  \/ \A i \in DOMAIN acls : ~Matches(acls[i], ip)
  \/ \E i \in DOMAIN acls : /\ acls[i].action = "allow" /\ Matches(acls[i], ip)
                            /\ \A j \in 1..(i - 1) : ~Matches(acls[j], ip)

\* A call that succeeds leaves a frontend that lets in exactly the nodes of the
\* call and the valid source ranges, or everyone if there are no source ranges,
\* however many rules that takes and whatever was there (makeACLSpecs,
\* aclsEquals), and a second call with the same nodes would change nothing.
SyncedExactly ==
  sync.pc = "done" =>
    /\ \A ip \in IPs :
         Admitted(ip) <=> \/ sync.s.ranges = {}
                          \/ ip \in sync.s.ranges \cup AllIPs(sync.list, "InternalIP")
                                                \cup AllIPs(sync.list, "ExternalIP")
    /\ aclsEquals(acls, makeACLSpecs(sync.list, sync.s.ranges))

\* The nodes that the target labels select, and those of them whose addresses
\* the last call was bound to use: it did not pass them over, and they have not
\* moved since.
Selected == {n \in There : TargetedBy(n, service.target)}
Awaited  == Selected \ (passed \cup moved)

SelectedNodes == [n \in Selected |-> nodes[n]]

\* The backend has the addresses of the selected nodes and no other, and the
\* frontend lets those in, and no one but the nodes and the source ranges.
FollowsNodes ==
  /\ \A n \in Awaited :
       /\ IPsOf(nodes[n], TargetType(service)) # {}
       /\ \A ip \in IPsOf(nodes[n], TargetType(service)) : ip \in pool /\ Admitted(ip)
  /\ Selected \cap moved = {} =>
       /\ pool \subseteq targetIPs(SelectedNodes, service)
       /\ service.ranges # {} =>
            \A ip \in IPs : Admitted(ip) => ip \in service.ranges
                                                \cup AllIPs(SelectedNodes, "InternalIP")
                                                \cup AllIPs(SelectedNodes, "ExternalIP")

\* Whenever no call is due or in progress, the LB follows the nodes: no node is
\* forgotten, although new addresses alone trigger no call and come after the
\* event that does (the error of nodesInitialized makes the service controller
\* come back).  Only a node that was passed over because of its age may be
\* missing, and only an address that changed afterwards may be stale.
FollowsNodesAtRest == ~due /\ sync = NoSync => FollowsNodes

\* A node that is never initialised holds up the calls for three minutes at
\* most: a call that is due is made in the end (nodesInitialized).
SyncsComplete == due ~> ~due

\* Once nodes, users and failures are quiet, the LB follows the nodes for good.
PoolComplete == <>[]FollowsNodes
=============================================================================
