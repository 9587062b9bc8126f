------------------------------ MODULE Servers ------------------------------
(***************************************************************************)
(* The Scaleway servers behind the nodes of the cluster, and what the CCM  *)
(* finds out about the server of a node: scaleway/servers.go, instances.go *)
(* and baremetal.go, the implementation of cloudprovider.InstancesV2.      *)
(*                                                                         *)
(* A server is an instance or a bare metal server; the two are different   *)
(* APIs.  A node is looked up by its provider ID, which names the API, the *)
(* zone and the server, or, when it has none, by its name in one API and   *)
(* then in the other.  A list over all zones is one step.                  *)
(***************************************************************************)
EXTENDS Integers, FiniteSets

CONSTANTS
  NodeNames,    \* names of nodes, and of servers
  ServerIds,    \* servers that may exist
  Zones,
  NoZone,       \* the zone of scaleway://uuid; an unset SCW_DEFAULT_ZONE
  DefaultZone,  \* the zone the SDK uses for a request without zone
  ProductOf, ZoneOf, NameOf,  \* of each server
  PNs,          \* private networks
  NoPN,
  pnID,         \* the cluster's private network (PN_ID) or NoPN
  Nics,         \* the private networks each server has a NIC in
  NicIP,        \* the address IPAM gives to each NIC
  LegacyIP,     \* Server.PrivateIP, or NoIP
  PublicIP,     \* the server's first (DHCP) public IPv4, or NoIP
  IPs,          \* addresses, in the order of slices.Sort
  NoIP,
  NoPID,        \* node.Spec.ProviderID is empty
  BadPID,       \* it does not match providerIDRegexp
  MaxEvents     \* bound: what happens to servers

Products == {"instance", "baremetal"}

\* scaleway://product/zone/uuid; scaleway://uuid is an instance without zone.
ProviderIDs == [product : Products, zone : Zones \cup {NoZone}, id : ServerIds]

ASSUME ServersAssumption ==
  /\ NoZone \notin Zones /\ DefaultZone \in Zones \cup {NoZone}
  /\ ProductOf \in [ServerIds -> Products]
  /\ ZoneOf \in [ServerIds -> Zones]
  /\ NameOf \in [ServerIds -> NodeNames]
  /\ NoPN \notin PNs /\ pnID \in PNs \cup {NoPN}
  /\ Nics \in [ServerIds -> SUBSET PNs]
  /\ NicIP \in [ServerIds -> [PNs -> IPs]]
  /\ IPs \subseteq Int /\ NoIP \notin IPs
  /\ LegacyIP \in [ServerIds -> IPs \cup {NoIP}]
  /\ PublicIP \in [ServerIds -> IPs \cup {NoIP}]
  /\ NoPID \notin ProviderIDs /\ BadPID \notin ProviderIDs /\ NoPID # BadPID
  /\ MaxEvents \in Nat

VARIABLES
  srv,      \* the state of each server
  leased,   \* the servers whose NICs have got their addresses from IPAM
  events    \* events so far

serverVars == <<srv, leased, events>>

ServerStates == {"absent", "starting", "running", "stopped", "deleted"}

ServersTypeOK == /\ srv \in [ServerIds -> ServerStates]
                 /\ leased \subseteq ServerIds
                 /\ events \in 0..MaxEvents

Existing == {s \in ServerIds : srv[s] \notin {"absent", "deleted"}}

-----------------------------------------------------------------------------
(***************************************************************************)
(* Which server a node is.                                                 *)
(***************************************************************************)

\* servers.getImplementationByProviderID.
getImplementationByProviderID(pid) ==
  IF pid \in ProviderIDs THEN pid.product ELSE "instance"

\* The API that is asked first.
FirstProduct(pid) ==
  IF pid = NoPID THEN "instance" ELSE getImplementationByProviderID(pid)

BuildProviderID(s) == [product |-> ProductOf[s], zone |-> ZoneOf[s], id |-> s]

\* The zone of a GetServer request: the SDK fills in an empty one.
RequestZone(pid) == IF pid.zone = NoZone THEN DefaultZone ELSE pid.zone

\* getServerByName: the servers of that exact name, in all zones.
getServerByName(product, name) ==
  {s \in Existing : ProductOf[s] = product /\ NameOf[s] = name}

\* getServerByProviderID: GetServer in the zone of the ID; 404 is {}.
getServerByProviderID(product, pid) ==
  {s \in Existing : /\ ProductOf[s] = product
                    /\ s = pid.id /\ ZoneOf[s] = RequestZone(pid)}

\* The server of a node in one of the APIs, when LookupFails does not hold.
Lookup(product, name, pid) ==
  IF pid = NoPID THEN getServerByName(product, name)
                 ELSE getServerByProviderID(product, pid)

\* Mutant: the 404 of GetServer is passed on as an error.
LookupFails_On404(product, name, pid) ==
  \/ pid = NoPID /\ \E s, t \in getServerByName(product, name) : s # t
  \/ pid = BadPID
  \/ pid \in ProviderIDs /\ RequestZone(pid) = NoZone
  \/ pid \in ProviderIDs /\ getServerByProviderID(product, pid) = {}

\* InstanceDuplicated, BadProviderID, or a request without zone.
LookupFails(product, name, pid) ==
  \/ pid = NoPID /\ \E s, t \in getServerByName(product, name) : s # t
  \/ pid = BadPID
  \/ pid \in ProviderIDs /\ RequestZone(pid) = NoZone

\* Mutant: a node without provider ID is not looked for among the bare metal
\* servers.
AsksBaremetalNext_Never(product, pid) == FALSE

\* servers.go: not an instance, so it may be a bare metal server.
AsksBaremetalNext(product, pid) == product = "instance" /\ pid = NoPID

\* instances.InstanceShutdown and baremetal.InstanceShutdown.
IsShutdown(s) == srv[s] \notin {"running", "starting"}

-----------------------------------------------------------------------------
(***************************************************************************)
(* The addresses of a server.  An address has a type and an IP; host names *)
(* and DNS names are left out.                                             *)
(***************************************************************************)
Address == [type : {"ExternalIP", "InternalIP"}, ip : IPs]

External(ips) == {[type |-> "ExternalIP", ip |-> i] : i \in ips \ {NoIP}}

\* Mutant: an address that the server does not have is given as well.
Internal_Empty(ips) == {[type |-> "InternalIP", ip |-> i] : i \in ips}

Internal(ips) == {[type |-> "InternalIP", ip |-> i] : i \in ips \ {NoIP}}

\* The NICs whose addresses are those of the node.
RelevantNics(s) == IF pnID = NoPN THEN Nics[s] ELSE Nics[s] \cap {pnID}

\* IPs of the NICs, if IPAM has given them, or else the legacy private IP.
getPrivateNetworkAddresses(s) ==
  IF s \in leased THEN {NicIP[s][pn] : pn \in RelevantNics(s)} ELSE {}

\* Mutant: the legacy private IP is given beside those of the NICs.
instanceAddresses_Both(s) ==
  External({PublicIP[s]}) \cup
  Internal(getPrivateNetworkAddresses(s) \cup {LegacyIP[s]})

instanceAddresses(s) ==
  External({PublicIP[s]}) \cup
  Internal(IF getPrivateNetworkAddresses(s) # {} THEN getPrivateNetworkAddresses(s)
                                                 ELSE {LegacyIP[s]})

\* A bare metal server has no internal address.
baremetalAddresses(s) == External({PublicIP[s]})

AddressesOf(s) ==
  IF ProductOf[s] = "instance" THEN instanceAddresses(s) ELSE baremetalAddresses(s)

-----------------------------------------------------------------------------
(***************************************************************************)
(* What happens to the servers.                                            *)
(***************************************************************************)
Move(s, from, to) ==
  /\ srv[s] \in from /\ srv' = [srv EXCEPT ![s] = to]
  /\ UNCHANGED leased

Event == events < MaxEvents /\ events' = events + 1

CreateServer(s) == Event /\ Move(s, {"absent"}, "starting")
StopServer(s)   == Event /\ Move(s, {"running"}, "stopped")
StartServer(s)  == Event /\ Move(s, {"stopped"}, "starting")
DeleteServer(s) == Event /\ Move(s, {"starting", "running", "stopped"}, "deleted")
Boot(s)         == Move(s, {"starting"}, "running") /\ UNCHANGED events

\* IPAM gives the server's NICs their addresses.
Lease(s) == /\ s \in Existing \ leased /\ RelevantNics(s) # {}
            /\ leased' = leased \cup {s}
            /\ UNCHANGED <<srv, events>>
=============================================================================
