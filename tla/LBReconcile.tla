---------------------------- MODULE LBReconcile ----------------------------
(***************************************************************************)
(* What the CCM puts into a load balancer: updateLoadBalancer and          *)
(* removeExternallyManagedResources (scaleway/loadbalancers.go, acl.go) on *)
(* one LB that exists and is ready.                                        *)
(*                                                                         *)
(* A call lists the frontends and the backends, compares them with what    *)
(* the Service wants, and applies the differences one API call at a time,  *)
(* from lists that may be stale by then.  The service worker (SvcWorker)   *)
(* and the node sync (NodeSyncs) of the service controller run such calls  *)
(* concurrently.  One action is one API call; a failure may end a call     *)
(* after any of them, and the caller tries again from the beginning.       *)
(***************************************************************************)
EXTENDS Integers, Sequences, FiniteSets

CONSTANTS
  Ports,       \* service ports (a frontend's InboundPort)
  NodePorts,   \* node ports (a backend's ForwardPort)
  Confs,       \* values of the annotations that configure the LB
  Acls,        \* values of loadBalancerSourceRanges, NoAcl among them
  NoAcl,       \* no source range: the frontend is open
  Pools,       \* sets of node addresses (targetIPs)
  Specs,       \* what a user may ask for: a set of [ports, conf, acl]
  ExtModes,    \* whether the LB is externally managed (a set of BOOLEANs)
  UniquePorts, \* whether the API refuses a second frontend on an inbound port
  MaxId,       \* bound: frontends (resp. backends) ever created on the LB
  SvcWorker, NodeSyncs,
  MaxEdits, MaxFails      \* bounds: edits by users and nodes; failures

Ids     == 1..MaxId
Workers == {SvcWorker} \cup NodeSyncs

ServicePort == [port : Ports, nodePort : NodePorts, tcp : BOOLEAN]

ASSUME ConstantsAssumption ==
  /\ NoAcl \in Acls
  /\ \A s \in Specs : /\ s.ports \in Seq(ServicePort)
                      /\ s.conf \in Confs /\ s.acl \in Acls
  /\ ExtModes \subseteq BOOLEAN /\ UniquePorts \in BOOLEAN
  /\ MaxId \in Nat /\ MaxEdits \in Nat /\ MaxFails \in Nat
  /\ SvcWorker \notin NodeSyncs

VARIABLES
  want,        \* the Service and the nodes, as they are now
  fes, bes,    \* frontends and backends of the LB, by id (ids grow)
  level,       \* type and SSL level of the LB itself
  pending,     \* which workers have a call to make
  wk,          \* the calls in progress
  edits, fails

vars    == <<want, fes, bes, level, pending, wk, edits, fails>>
lbVars  == <<fes, bes, level>>
budgets == <<edits, fails>>

\* The Service with the addresses of its nodes.  deleting is only used for an
\* externally managed LB: any other LB is deleted as a whole (LBLifecycle).
Wanted == [ports : Seq(ServicePort), conf : Confs, acl : Acls, pool : Pools,
           ext : BOOLEAN, deleting : BOOLEAN]

\* mine: the name starts with the Service's UID.
\* The ACLs of a frontend let the source ranges and the nodes in.
FrontendAcls == {NoAcl} \cup (Acls \X Pools)

Frontend == [port : Ports, be : Ids, conf : Confs, acl : FrontendAcls, mine : BOOLEAN]
Backend  == [nodePort : NodePorts, conf : Confs, health : Confs,
             pool : Pools, mine : BOOLEAN]

None == [none |-> TRUE]         \* no object has had this id yet
Gone == [gone |-> TRUE]         \* the object with this id was deleted

\* A listed frontend carries its backend, of which only ForwardPort is used.
ListedFrontend == [f : Frontend, nodePort : NodePorts]

PCs == {"idle", "listF", "listB", "delF", "backend", "health", "servers",
        "frontend", "acl", "delB", "level", "done"}

NoCall == [pc |-> "idle"]       \* a worker between two calls

Call   == [pc    : PCs \ {"idle"},
           s     : Wanted,
           F     : [Ids -> ListedFrontend \cup {None, Gone}],
           B     : [Ids -> Backend \cup {None, Gone}],
           todo  : SUBSET Ids,              \* objects still to remove
           i     : Nat,                     \* position in the loop on ports
           be    : Ids \cup {0},            \* backend of that port
           fe    : Ids \cup {0},            \* frontend of that port
           pool  : Pools,                   \* backend.Pool, as last returned
           level : Confs]                   \* the fetched LB's own settings

Existing(objs) == {i \in Ids : objs[i] \notin {None, Gone}}
SmallestOf(S) == CHOOSE i \in S : \A j \in S : i <= j

\* Ids are never reused, and lists are in the order of creation.
FreshIds(objs) == {i \in Ids : objs[i] = None}

-----------------------------------------------------------------------------
(***************************************************************************)
(* serviceToLB: the ports that have a frontend and a backend.              *)
(***************************************************************************)
ServicePorts(s) == IF s.deleting THEN <<>> ELSE s.ports

serviceToLB(s) == {ServicePorts(s)[k] : k \in
                     {j \in DOMAIN ServicePorts(s) : ServicePorts(s)[j].tcp}}

WantedPorts(s)     == {p.port : p \in serviceToLB(s)}
WantedNodePorts(s) == {p.nodePort : p \in serviceToLB(s)}

\* map[port.Port] = ...: the last port of the list wins.
NodePortOf(s, port) ==
  LET ks == {k \in DOMAIN ServicePorts(s) :
               ServicePorts(s)[k].tcp /\ ServicePorts(s)[k].port = port}
  IN  ServicePorts(s)[CHOOSE k \in ks : \A j \in ks : j <= k].nodePort

\* Mutant: the backend a frontend is wired to is not compared.
frontendEquals_IgnoresBackend(lf, s) == lf.f.mine /\ lf.f.conf = s.conf

frontendEquals(lf, s) ==
  /\ lf.f.mine
  /\ lf.nodePort = NodePortOf(s, lf.f.port)
  /\ lf.f.conf = s.conf

\* Mutant: the health check is not compared.
backendEquals_IgnoresHealth(b, s) == b.mine /\ b.conf = s.conf

backendEquals(b, s) == b.mine /\ b.conf = s.conf /\ b.health = s.conf

(***************************************************************************)
(* compareFrontends and compareBackends on the lists, in listing order: of *)
(* several objects with the same port the first is evaluated, the others   *)
(* are removed.                                                            *)
(***************************************************************************)
ConsideredF(F, s) == {i \in Existing(F) : s.ext => F[i].f.mine}

\* Mutant: no prefix filter for backends.
ConsideredB_NoFilter(B, s) == Existing(B)

ConsideredB(B, s) == {i \in Existing(B) : s.ext => B[i].mine}

FirstF(F, s) == {i \in ConsideredF(F, s) :
                   \A j \in ConsideredF(F, s) : j < i => F[j].f.port # F[i].f.port}
FirstB(B, s) == {i \in ConsideredB(B, s) :
                   \A j \in ConsideredB(B, s) : j < i => B[j].nodePort # B[i].nodePort}

\* Mutant: a frontend that differs is removed, to be created again.
RemoveF_Recreate(F, s) == {i \in ConsideredF(F, s) :
                             \/ i \notin FirstF(F, s)
                             \/ F[i].f.port \notin WantedPorts(s)
                             \/ ~frontendEquals(F[i], s)}

RemoveF(F, s) == {i \in ConsideredF(F, s) :
                    i \notin FirstF(F, s) \/ F[i].f.port \notin WantedPorts(s)}

\* Mutant: what is wanted is not looked at twice.
RemoveB_KeepsDuplicates(B, s) == {i \in ConsideredB(B, s) :
                                    B[i].nodePort \notin WantedNodePorts(s)}

RemoveB(B, s) == {i \in ConsideredB(B, s) :
                    i \notin FirstB(B, s) \/ B[i].nodePort \notin WantedNodePorts(s)}

UpdateF(F, s, port) == {i \in FirstF(F, s) \ RemoveF(F, s) :
                          F[i].f.port = port /\ ~frontendEquals(F[i], s)}
KeepF(F, s, port)   == {i \in FirstF(F, s) \ RemoveF(F, s) :
                          F[i].f.port = port /\ frontendEquals(F[i], s)}
CreateF(F, s, port) == port \in WantedPorts(s) /\ \A i \in FirstF(F, s) : F[i].f.port # port

UpdateB(B, s, np) == {i \in FirstB(B, s) \ RemoveB(B, s) :
                        B[i].nodePort = np /\ ~backendEquals(B[i], s)}
KeepB(B, s, np)   == {i \in FirstB(B, s) \ RemoveB(B, s) :
                        B[i].nodePort = np /\ backendEquals(B[i], s)}
CreateB(B, s, np) == np \in WantedNodePorts(s) /\ \A i \in FirstB(B, s) : B[i].nodePort # np

-----------------------------------------------------------------------------
(***************************************************************************)
(* Control.                                                                *)
(***************************************************************************)
Port(w) == ServicePorts(wk[w].s)[wk[w].i]

Update(w, r) == wk' = [wk EXCEPT ![w] = r]

NoList == [i \in Ids |-> None]

\* A call starts with the Service, the nodes and the LB as they are now.
NewCall == [pc |-> "listF", s |-> want, F |-> NoList, B |-> NoList, todo |-> {},
            i |-> 0, be |-> 0, fe |-> 0, pool |-> want.pool, level |-> level]

\* Mutant: an error is swallowed, and the call taken for done.
ReturnError_NoRetry(w) == Update(w, NoCall) /\ UNCHANGED pending

\* The call returns an error: it will be made again.
ReturnError(w) == Update(w, NoCall) /\ pending' = pending \cup {w}

\* Where a call goes after its frontends are removed, after a port, and after
\* its backends are removed.
AfterPort(r, k) ==
  IF k < Len(ServicePorts(r.s))
    THEN [r EXCEPT !.pc = "backend", !.i = k + 1, !.be = 0, !.fe = 0]
    ELSE LET rm == RemoveB(r.B, r.s) IN
         IF rm # {} THEN [r EXCEPT !.pc = "delB", !.todo = rm]
                    ELSE [r EXCEPT !.pc = "level"]

-----------------------------------------------------------------------------
(***************************************************************************)
(* A call begins.  updateLoadBalancer skips a Service being deleted.       *)
(***************************************************************************)
Begin(w) ==
  /\ wk[w].pc = "idle" /\ w \in pending
  /\ Update(w, IF w \in NodeSyncs /\ want.deleting THEN NoCall ELSE NewCall)
  /\ pending' = pending \ {w}
  /\ UNCHANGED <<want, lbVars, budgets>>

ListFrontends(w) ==
  /\ wk[w].pc = "listF"
  /\ Update(w, [wk[w] EXCEPT
       !.pc = "listB",
       !.F = [i \in Ids |-> IF i \notin Existing(fes) THEN fes[i]
                            ELSE [f |-> fes[i], nodePort |-> bes[fes[i].be].nodePort]]])
  /\ UNCHANGED <<want, lbVars, pending, budgets>>

ListBackends(w) ==
  LET r == [wk[w] EXCEPT !.B = bes] IN
  /\ wk[w].pc = "listB"
  /\ Update(w, IF RemoveF(r.F, r.s) # {}
                 THEN [r EXCEPT !.pc = "delF", !.todo = RemoveF(r.F, r.s)]
                 ELSE AfterPort(r, 0))
  /\ UNCHANGED <<want, lbVars, pending, budgets>>

\* One DeleteFrontend of the loop on frontendsOps.remove.
DeleteFrontend(w) ==
  LET i == SmallestOf(wk[w].todo) IN
  /\ wk[w].pc = "delF"
  /\ IF i \notin Existing(fes)
       THEN ReturnError(w) /\ UNCHANGED fes
       ELSE /\ fes' = [fes EXCEPT ![i] = Gone]
            /\ Update(w, IF wk[w].todo = {i} THEN AfterPort([wk[w] EXCEPT !.todo = {}], 0)
                                             ELSE [wk[w] EXCEPT !.todo = @ \ {i}])
            /\ UNCHANGED pending
  /\ UNCHANGED <<want, bes, level, budgets>>

-----------------------------------------------------------------------------
(***************************************************************************)
(* The loop on the Service's ports: the backend, its servers, the frontend *)
(* and its ACLs.                                                           *)
(***************************************************************************)

\* updateBackend, first call: UpdateBackend (the port never changes).
UpdateBackend(w) ==
  LET r == wk[w] IN
  /\ r.pc = "backend"
  /\ \E i \in UpdateB(r.B, r.s, Port(w).nodePort) :
       IF i \notin Existing(bes)
         THEN ReturnError(w) /\ UNCHANGED bes
         ELSE /\ bes' = [bes EXCEPT ![i].conf = r.s.conf, ![i].mine = TRUE]
              /\ Update(w, [r EXCEPT !.pc = "health", !.be = i, !.pool = bes[i].pool])
              /\ UNCHANGED pending
  /\ UNCHANGED <<want, fes, level, budgets>>

\* updateBackend, second call: UpdateHealthCheck.
UpdateHealthCheck(w) ==
  LET r == wk[w] IN
  /\ r.pc = "health"
  /\ IF r.be \notin Existing(bes)
       THEN ReturnError(w) /\ UNCHANGED bes
       ELSE /\ bes' = [bes EXCEPT ![r.be].health = r.s.conf]
            /\ Update(w, [r EXCEPT !.pc = "servers"])
            /\ UNCHANGED pending
  /\ UNCHANGED <<want, fes, level, budgets>>

CreateBackend(w) ==
  LET r == wk[w]  np == Port(w).nodePort IN
  /\ r.pc = "backend" /\ CreateB(r.B, r.s, np) /\ FreshIds(bes) # {}
  /\ LET i == SmallestOf(FreshIds(bes)) IN
       /\ bes' = [bes EXCEPT ![i] = [nodePort |-> np, conf |-> r.s.conf,
                                     health |-> r.s.conf, pool |-> r.s.pool,
                                     mine |-> TRUE]]
       /\ Update(w, [r EXCEPT !.pc = "servers", !.be = i, !.pool = r.s.pool])
  /\ UNCHANGED <<want, fes, level, pending, budgets>>

\* The backend is kept as it was listed; a port without one is an error.
KeepBackend(w) ==
  LET r == wk[w]  np == Port(w).nodePort IN
  /\ r.pc = "backend"
  /\ UpdateB(r.B, r.s, np) = {} /\ ~CreateB(r.B, r.s, np)
  /\ IF KeepB(r.B, r.s, np) = {}
       THEN ReturnError(w)                           \* undefined backend port
       ELSE /\ \E i \in KeepB(r.B, r.s, np) :
                 Update(w, [r EXCEPT !.pc = "servers", !.be = i, !.pool = r.B[i].pool])
            /\ UNCHANGED pending
  /\ UNCHANGED <<want, lbVars, budgets>>

\* Mutant: the servers of an existing backend are not compared.
PoolEqual_Always(got, targetIPs) == TRUE

PoolEqual(got, targetIPs) == got = targetIPs

SetBackendServers(w) ==
  LET r == wk[w] IN
  /\ r.pc = "servers"
  /\ IF PoolEqual(r.pool, r.s.pool)
       THEN Update(w, [r EXCEPT !.pc = "frontend"]) /\ UNCHANGED <<bes, pending>>
       ELSE IF r.be \notin Existing(bes)
         THEN ReturnError(w) /\ UNCHANGED bes
         ELSE /\ bes' = [bes EXCEPT ![r.be].pool = r.s.pool]
              /\ Update(w, [r EXCEPT !.pc = "frontend"])
              /\ UNCHANGED pending
  /\ UNCHANGED <<want, fes, level, budgets>>

\* UpdateFrontend rewires the frontend to the backend of the port.
UpdateFrontend(w) ==
  LET r == wk[w] IN
  /\ r.pc = "frontend"
  /\ \E i \in UpdateF(r.F, r.s, Port(w).port) :
       IF i \notin Existing(fes) \/ r.be \notin Existing(bes)
         THEN ReturnError(w) /\ UNCHANGED fes
         ELSE /\ fes' = [fes EXCEPT ![i].be = r.be, ![i].conf = r.s.conf,
                                    ![i].mine = TRUE]
              /\ Update(w, [r EXCEPT !.pc = "acl", !.fe = i])
              /\ UNCHANGED pending
  /\ UNCHANGED <<want, bes, level, budgets>>

\* The API may refuse a second frontend on a port.
PortRefused(port) == UniquePorts /\ \E j \in Existing(fes) : fes[j].port = port

\* Mutant: the request carries no backend id.
NewFrontend_NoBackend(s, port, be) ==
  [port |-> port, be |-> 0, conf |-> s.conf, acl |-> NoAcl, mine |-> TRUE]

\* A new frontend has no ACL: it is open until reconcileACLs.
NewFrontend(s, port, be) ==
  [port |-> port, be |-> be, conf |-> s.conf, acl |-> NoAcl, mine |-> TRUE]

CreateFrontend(w) ==
  LET r == wk[w] IN
  /\ r.pc = "frontend" /\ CreateF(r.F, r.s, Port(w).port) /\ FreshIds(fes) # {}
  /\ LET i == SmallestOf(FreshIds(fes)) IN
     IF r.be \notin Existing(bes) \/ PortRefused(Port(w).port)
       THEN ReturnError(w) /\ UNCHANGED fes
       ELSE /\ fes' = [fes EXCEPT ![i] = NewFrontend(r.s, Port(w).port, r.be)]
            /\ Update(w, [r EXCEPT !.pc = "acl", !.fe = i])
            /\ UNCHANGED pending
  /\ UNCHANGED <<want, bes, level, budgets>>

KeepFrontend(w) ==
  LET r == wk[w]  port == Port(w).port IN
  /\ r.pc = "frontend"
  /\ UpdateF(r.F, r.s, port) = {} /\ ~CreateF(r.F, r.s, port)
  /\ IF KeepF(r.F, r.s, port) = {}
       THEN ReturnError(w)                           \* undefined frontend port
       ELSE /\ \E i \in KeepF(r.F, r.s, port) :
                 Update(w, [r EXCEPT !.pc = "acl", !.fe = i])
            /\ UNCHANGED pending
  /\ UNCHANGED <<want, lbVars, budgets>>

makeACLSpecs(s) == IF s.acl = NoAcl THEN NoAcl ELSE <<s.acl, s.pool>>

\* ListACLs and SetACLs; the list decides only whether SetACLs, whose
\* argument does not depend on it, is called.
reconcileACLs(w) ==
  LET r == wk[w] IN
  /\ r.pc = "acl"
  /\ IF r.fe \notin Existing(fes)
       THEN ReturnError(w) /\ UNCHANGED fes
       ELSE /\ fes' = [fes EXCEPT ![r.fe].acl = makeACLSpecs(r.s)]
            /\ Update(w, AfterPort(r, r.i))
            /\ UNCHANGED pending
  /\ UNCHANGED <<want, bes, level, budgets>>

-----------------------------------------------------------------------------
Referenced(i) == \E f \in Existing(fes) : fes[f].be = i

\* One DeleteBackend of the loop on backendsOps.remove.  The API refuses to
\* delete a backend a frontend still points to.
DeleteBackend(w) ==
  LET i == SmallestOf(wk[w].todo) IN
  /\ wk[w].pc = "delB"
  /\ IF i \notin Existing(bes) \/ Referenced(i)
       THEN ReturnError(w) /\ UNCHANGED bes
       ELSE /\ bes' = [bes EXCEPT ![i] = Gone]
            /\ Update(w, [wk[w] EXCEPT !.todo = @ \ {i},
                                       !.pc = IF wk[w].todo = {i} THEN "level" ELSE @])
            /\ UNCHANGED pending
  /\ UNCHANGED <<want, fes, level, budgets>>

\* MigrateLB and UpdateLB: the LB's own settings, compared with the LB that
\* was fetched before the call; an externally managed LB keeps its own.
SetLevel(w) ==
  LET r == wk[w] IN
  /\ r.pc = "level"
  /\ level' = IF ~r.s.ext /\ r.level # r.s.conf THEN r.s.conf ELSE level
  /\ Update(w, [r EXCEPT !.pc = "done", !.F = NoList, !.B = NoList, !.i = 0,
                         !.be = 0, !.fe = 0])
  /\ UNCHANGED <<want, fes, bes, pending, budgets>>

\* The call has returned nil.
Return(w) ==
  /\ wk[w].pc = "done"
  /\ Update(w, NoCall)
  /\ UNCHANGED <<want, lbVars, pending, budgets>>

\* An API call fails, or its answer is lost, or the process restarts.
Fail(w) ==
  /\ wk[w].pc \notin {"idle", "done"} /\ fails < MaxFails
  /\ ReturnError(w)
  /\ fails' = fails + 1
  /\ UNCHANGED <<want, lbVars, edits>>

-----------------------------------------------------------------------------
(***************************************************************************)
(* Users and nodes.                                                        *)
(***************************************************************************)
EditService ==
  /\ edits < MaxEdits /\ ~want.deleting
  /\ \E s \in Specs :
       /\ want' = [want EXCEPT !.ports = s.ports, !.conf = s.conf, !.acl = s.acl]
       /\ want' # want
  /\ pending' = pending \cup {SvcWorker}
  /\ edits' = edits + 1
  /\ UNCHANGED <<lbVars, wk, fails>>

\* The nodes change: the node sync updates the LBs of all Services.
NodesChange ==
  /\ edits < MaxEdits /\ ~want.deleting
  /\ \E p \in Pools \ {want.pool} : want' = [want EXCEPT !.pool = p]
  /\ pending' = pending \cup (IF NodeSyncs = {} THEN {SvcWorker} ELSE NodeSyncs)
  /\ edits' = edits + 1
  /\ UNCHANGED <<lbVars, wk, fails>>

\* EnsureLoadBalancerDeleted on an externally managed LB.
DeleteService ==
  /\ want.ext /\ ~want.deleting
  /\ want' = [want EXCEPT !.deleting = TRUE]
  /\ pending' = pending \cup {SvcWorker}
  /\ UNCHANGED <<lbVars, wk, budgets>>

-----------------------------------------------------------------------------
\* The LB is new, or has a frontend and a backend its owner made: one that is
\* externally managed, or that the user named in the ID annotation.  An
\* owner's frontend that the CCM may not touch has a port of its own.
AskedPorts == UNION {{s.ports[k].port : k \in DOMAIN s.ports} : s \in Specs}

Init ==
  /\ \E s \in Specs, p \in Pools, e \in ExtModes :
       want = [ports |-> s.ports, conf |-> s.conf, acl |-> s.acl, pool |-> p,
               ext |-> e, deleting |-> FALSE]
  /\ level \in Confs
  /\ \/ fes = NoList /\ bes = NoList
     \/ \E port \in Ports, np \in NodePorts :
          /\ want.ext => port \notin AskedPorts
          /\ fes = [NoList EXCEPT ![1] = [port |-> port, be |-> 1, conf |-> level,
                                         acl |-> NoAcl, mine |-> FALSE]]
          /\ bes = [NoList EXCEPT ![1] = [nodePort |-> np, conf |-> level, health |-> level,
                                         pool |-> want.pool, mine |-> FALSE]]
  /\ pending = {SvcWorker}
  /\ wk = [w \in Workers |-> NoCall]
  /\ edits = 0 /\ fails = 0

Step(w) == \/ ListFrontends(w) \/ ListBackends(w) \/ DeleteFrontend(w)
           \/ UpdateBackend(w) \/ UpdateHealthCheck(w) \/ CreateBackend(w)
           \/ KeepBackend(w) \/ SetBackendServers(w)
           \/ UpdateFrontend(w) \/ CreateFrontend(w) \/ KeepFrontend(w)
           \/ reconcileACLs(w) \/ DeleteBackend(w) \/ SetLevel(w) \/ Return(w)

Next == \/ \E w \in Workers : Begin(w) \/ Step(w) \/ Fail(w)
        \/ EditService \/ NodesChange \/ DeleteService

Spec == Init /\ [][Next]_vars

\* A call that is due begins, and one that has begun goes on; users, nodes and
\* failures owe nothing.
FairSpec == Spec /\ \A w \in Workers : WF_vars(Begin(w) \/ Step(w))

-----------------------------------------------------------------------------
(***************************************************************************)
(* Properties.                                                             *)
(***************************************************************************)

\* Type correctness, and every frontend points to a backend that exists.
TypeOK ==
  /\ want \in Wanted
  /\ fes \in [Ids -> Frontend \cup {None, Gone}]
  /\ bes \in [Ids -> Backend \cup {None, Gone}]
  /\ \A i \in Existing(fes) : fes[i].be \in Existing(bes)
  /\ level \in Confs /\ pending \subseteq Workers
  /\ wk \in [Workers -> Call \cup {NoCall}]
  /\ edits \in 0..MaxEdits /\ fails \in 0..MaxFails

\* The objects of the LB a call for s may manage.
ManagedF(s) == {i \in Existing(fes) : s.ext => fes[i].mine}
ManagedB(s) == {i \in Existing(bes) : s.ext => bes[i].mine}

\* The LB is what s asks for: one frontend for each TCP port with its
\* settings and ACLs, wired to the one backend of the node port, which has the
\* settings, the health check and the servers asked for, and nothing else.
Matches(s) ==
  /\ \A p \in serviceToLB(s) : \E i \in ManagedF(s) :
       /\ fes[i].port = p.port /\ bes[fes[i].be].nodePort = p.nodePort
       /\ fes[i].conf = s.conf /\ fes[i].acl = makeACLSpecs(s)
       /\ fes[i].be \in ManagedB(s)
  /\ \A i \in ManagedB(s) : bes[i].conf = s.conf /\ bes[i].health = s.conf
                            /\ bes[i].pool = s.pool
  /\ Cardinality(ManagedF(s)) = Cardinality(WantedPorts(s))
  /\ Cardinality(ManagedB(s)) = Cardinality(WantedNodePorts(s))
  /\ s.ext \/ level = s.conf

\* A call of updateLoadBalancer or removeExternallyManagedResources that
\* returns nil leaves exactly what its Service asks for, wherever the calls
\* before it were interrupted (one call at a time).
SuccessMeansMatch == \A w \in Workers : wk[w].pc = "done" => Matches(wk[w].s)

\* When no call is left to make and none is in progress, the LB is what the
\* Service and the nodes ask for now: no edit made during a call, no change of
\* the nodes and no failed call is forgotten (one call at a time).
AtRest == pending = {} /\ \A w \in Workers : wk[w].pc = "idle"
MatchesAtRest == AtRest => Matches(want)

\* The comment above the removal of backends: frontends have been rewired by
\* then, so DeleteBackend meets no backend that is still referenced (one call
\* at a time).
RemovedBackendsUnreferenced ==
  \A w \in Workers : wk[w].pc = "delB" => \A i \in wk[w].todo : ~Referenced(i)

\* On an externally managed LB, the frontends and backends whose names do not
\* start with the Service's UID are never touched, by concurrent calls either
\* (prefixFilter in updateLoadBalancer).
OwnersObjectsUntouched ==
  [][want.ext => /\ \A i \in Existing(fes) : ~fes[i].mine => fes'[i] = fes[i]
                 /\ \A i \in Existing(bes) : ~bes[i].mine => bes'[i] = bes[i]]_vars

\* On an externally managed LB, a frontend of the Service never points to a
\* backend of the owner, nor the owner's to one of the Service, however calls
\* race and whatever they take a backend for by its node port.
NoCrossWiring ==
  want.ext => \A f \in Existing(fes) : fes[f].mine <=> bes[fes[f].be].mine

\* A port that the Service wants, and that the calls in progress want too, is
\* not cut while the LB is reconciled: once it has a frontend, it keeps one (a
\* frontend that differs is updated in place, and of several frontends on a
\* port the first stays), as long as no two calls race on an API that accepts
\* several frontends on a port.
Served(port) == \E i \in ManagedF(want) : fes[i].port = port
NoOutage ==
  [][\A port \in WantedPorts(want) :
       /\ Served(port)
       /\ \A w \in Workers : wk[w].pc # "idle" => port \in WantedPorts(wk[w].s)
       => Served(port)' \/ want' # want]_vars

\* Once users, nodes and failures are quiet, the LB becomes and stays what the
\* Service asks for, and no call is left to make.
Converges == <>[](Matches(want) /\ pending = {})

\* What compareBackends says ("Will remove duplicated backends with the same
\* ForwardPort."): duplicates do not stay for ever.
DuplicateBackendsRemoved ==
  []<>(\A i, j \in ManagedB(want) : bes[i].nodePort = bes[j].nodePort => i = j)

\* What serviceToLB says ("skipping unsupported protocol"): a port that is not
\* TCP does not keep the others from being served.
UnsupportedPortsSkipped == <>(\A port \in WantedPorts(want) : Served(port))
=============================================================================
