---------------------- MODULE LBReconcileSuccessProofs ----------------------
(***************************************************************************)
(* Proofs about LBReconcile for calls that run alone, which is every call  *)
(* when they are made one at a time, and the next one to run alone after   *)
(* any number that raced: such a call that succeeds leaves exactly what    *)
(* its Service asks for, and cuts no port that stays.  One at a time, no   *)
(* backend that is removed is referenced, and when nothing is left to do   *)
(* the LB is what the Service asks for.                                    *)
(***************************************************************************)
EXTENDS LBReconcileProofs, LBReconcileLone, FiniteSetTheorems

\* A TCP port shares its port and its node port with no other of the Service.
OnePerPort(ports) ==
  \A j, k \in DOMAIN ports :
    /\ ports[j].tcp
    /\ ports[j].port = ports[k].port \/ ports[j].nodePort = ports[k].nodePort
    => j = k

DistinctPorts == \A s \in Specs : OnePerPort(s.ports)

-----------------------------------------------------------------------------
(***************************************************************************)
(* What a call knows as long as no other moves, of an LB that others may   *)
(* have left with several frontends on a port and several backends on a    *)
(* node port.                                                              *)
(***************************************************************************)
\* The frontends, or the backends, that the CCM manages.
Managed(objs, e) == {i \in Existing(objs) : e => objs[i].mine}

\* Of what a call has listed, the duplicates, which it removes.
DupF(r) == ConsideredF(r.F, r.s) \ FirstF(r.F, r.s)
DupB(r) == ConsideredB(r.B, r.s) \ FirstB(r.B, r.s)

\* The objects that it does not take for duplicates: one per port.
LiveF(r, F) == Managed(F, r.s.ext) \ DupF(r)
LiveB(r, B) == Managed(B, r.s.ext) \ DupB(r)

FOnce(r, F) == \A i, j \in LiveF(r, F) : F[i].port = F[j].port => i = j
BOnce(r, B) == \A i, j \in LiveB(r, B) : B[i].nodePort = B[j].nodePort => i = j

PortAt(r, j) == ServicePorts(r.s)[j]

\* The objects of the ports after the n-th are as they were listed, those that
\* the Service wants are all there, and no other object has the id of a
\* duplicate.
FSame(r, F, B, n) ==
  /\ \A i \in LiveF(r, F) :
       (\A j \in 1..n : PortAt(r, j).port # F[i].port) =>
         /\ i \in FirstF(r.F, r.s) /\ r.F[i].f = F[i]
         /\ r.F[i].nodePort = B[F[i].be].nodePort
  /\ \A i \in FirstF(r.F, r.s) :
       r.F[i].f.port \in WantedPorts(r.s) =>
         i \in LiveF(r, F) /\ F[i].port = r.F[i].f.port
  /\ \A i \in DupF(r) : /\ F[i] # None
                        /\ i \in Existing(F) => F[i].port = r.F[i].f.port

BSame(r, B, n) ==
  /\ \A i \in LiveB(r, B) :
       (\A j \in 1..n : PortAt(r, j).nodePort # B[i].nodePort) =>
         i \in FirstB(r.B, r.s) /\ r.B[i] = B[i]
  /\ \A i \in FirstB(r.B, r.s) :
       i \in LiveB(r, B) /\ B[i].nodePort = r.B[i].nodePort
  /\ \A i \in DupB(r) : B[i] # None

\* The frontend of a port is wired to a backend of its node port.
Wired(p, i, F, B, e) ==
  /\ i \in Managed(F, e) /\ F[i].port = p.port
  /\ F[i].be \in Managed(B, e) /\ B[F[i].be].nodePort = p.nodePort

\* The ports up to the n-th are TCP and have their frontends and backends.
FDone(r, F, B, n) ==
  \A j \in 1..n : \E i \in Ids : /\ Wired(PortAt(r, j), i, F, B, r.s.ext)
                                 /\ F[i].conf = r.s.conf /\ F[i].acl = makeACLSpecs(r.s)

BReady(r, b, i) == /\ b.nodePort = PortAt(r, i).nodePort
                   /\ b.conf = r.s.conf /\ b.health = r.s.conf /\ b.pool = r.s.pool

BDone(r, B, n) ==
  \A j \in 1..n : PortAt(r, j).tcp /\ \E i \in LiveB(r, B) : BReady(r, B[i], j)

\* The objects that stay, and those that are left to remove, which are all the
\* others.
StaysF(r, F, i) == F[i].port \in WantedPorts(r.s) /\ i \notin DupF(r)
StaysB(r, B, i) == B[i].nodePort \in WantedNodePorts(r.s) /\ i \notin DupB(r)

FTodo(r, F) == \A i \in Managed(F, r.s.ext) : StaysF(r, F, i) <=> i \notin r.todo
BTodo(r, B) == \A i \in Managed(B, r.s.ext) : StaysB(r, B, i) <=> i \notin r.todo

FWanted(r, F) == \A i \in Managed(F, r.s.ext) : StaysF(r, F, i)
BWanted(r, B) == \A i \in Managed(B, r.s.ext) : StaysB(r, B, i)

\* The backend of the port in hand.
InHand(r, B) ==
  /\ r.be \in LiveB(r, B) /\ PortAt(r, r.i).tcp
  /\ B[r.be].nodePort = PortAt(r, r.i).nodePort

LoopPCs == {"backend", "health", "servers", "frontend", "acl"}

\* A call that has done the first n ports.
DonePorts(r, F, B, n, nF, nB) ==
  /\ FOnce(r, F) /\ BOnce(r, B) /\ FWanted(r, F)
  /\ FSame(r, F, B, nF) /\ BSame(r, B, nB)
  /\ FDone(r, F, B, n) /\ BDone(r, B, n)

\* How far the loop on the ports is.
Loop(r, F, B) ==
  /\ r.i \in 1..Len(ServicePorts(r.s))
  /\ DonePorts(r, F, B, r.i - 1, IF r.pc = "acl" THEN r.i ELSE r.i - 1,
                                 IF r.pc = "backend" THEN r.i - 1 ELSE r.i)
  /\ r.pc # "backend" => InHand(r, B)
  /\ r.pc \in {"health", "servers"} => B[r.be].conf = r.s.conf /\ B[r.be].pool = r.pool
  /\ r.pc = "servers" => B[r.be].health = r.s.conf
  /\ r.pc \in {"frontend", "acl"} => BReady(r, B[r.be], r.i)
  /\ r.pc = "acl" => /\ Wired(PortAt(r, r.i), r.fe, F, B, r.s.ext)
                     /\ F[r.fe].conf = r.s.conf

\* What is true of a call at each of its steps.
Progress(r, F, B, lv) ==
  LET N == Len(ServicePorts(r.s)) IN
  /\ OnePerPort(r.s.ports)
  /\ r.pc # "done" => r.level = lv
  /\ r.pc \in {"listB", "delF"} => FOnce(r, F) /\ FSame(r, F, B, 0)
  /\ r.pc = "delF" => BOnce(r, B) /\ BSame(r, B, 0) /\ FTodo(r, F)
  /\ r.pc \in LoopPCs => Loop(r, F, B)
  /\ r.pc \in {"delB", "level", "done"} =>
       /\ FOnce(r, F) /\ BOnce(r, B)
       /\ FWanted(r, F) /\ FDone(r, F, B, N) /\ BDone(r, B, N)
  /\ r.pc = "delB" => BTodo(r, B)
  /\ r.pc \in {"level", "done"} => BWanted(r, B)
  /\ r.pc = "done" => r.s.ext \/ lv = r.s.conf

\* What is true whatever calls race.
WorldInv == Apart(fes, bes, want.ext) /\ OnePerPort(want.ports)

\* What is true of a call that only its own steps have followed.
OnCourse(w) == wk[w].pc # "idle" => Progress(wk[w], fes, bes, level)

Sound(w) == TypeInv /\ WorldInv /\ OnCourse(w)

-----------------------------------------------------------------------------
(***************************************************************************)
(* Ports and lists.                                                        *)
(***************************************************************************)
LEMMA PortsOf ==
  ASSUME NEW r \in Call, OnePerPort(r.s.ports)
  PROVE  /\ ServicePorts(r.s) \in Seq(ServicePort)
         /\ \A j, k \in 1..Len(ServicePorts(r.s)) :
              /\ PortAt(r, j).tcp
              /\ \/ PortAt(r, j).port = PortAt(r, k).port
                 \/ PortAt(r, j).nodePort = PortAt(r, k).nodePort
              => j = k
         /\ WantedPorts(r.s) = {PortAt(r, j).port : j \in
                {k \in 1..Len(ServicePorts(r.s)) : PortAt(r, k).tcp}}
         /\ WantedNodePorts(r.s) = {PortAt(r, j).nodePort : j \in
                {k \in 1..Len(ServicePorts(r.s)) : PortAt(r, k).tcp}}
<1>1. ServicePorts(r.s) \in Seq(ServicePort) /\ r.s.ports \in Seq(ServicePort)
  BY PortsTyped DEF Call, Wanted
<1>2. DOMAIN ServicePorts(r.s) = 1..Len(ServicePorts(r.s))
  BY <1>1
<1>3. \A j, k \in 1..Len(ServicePorts(r.s)) :
        /\ PortAt(r, j).tcp
        /\ \/ PortAt(r, j).port = PortAt(r, k).port
           \/ PortAt(r, j).nodePort = PortAt(r, k).nodePort
        => j = k
  BY <1>1, <1>2 DEF PortAt, ServicePorts, OnePerPort
<1>4. serviceToLB(r.s) = {PortAt(r, j) : j \in
                            {k \in 1..Len(ServicePorts(r.s)) : PortAt(r, k).tcp}}
  BY <1>2 DEF serviceToLB, PortAt
<1> QED BY <1>1, <1>3, <1>4 DEF WantedPorts, WantedNodePorts

LEMMA NodePortOfPort ==
  ASSUME NEW r \in Call, OnePerPort(r.s.ports),
         NEW k \in 1..Len(ServicePorts(r.s)), PortAt(r, k).tcp
  PROVE  NodePortOf(r.s, PortAt(r, k).port) = PortAt(r, k).nodePort
<1> DEFINE ks == {j \in DOMAIN ServicePorts(r.s) :
                    ServicePorts(r.s)[j].tcp /\ ServicePorts(r.s)[j].port = PortAt(r, k).port}
<1>1. DOMAIN ServicePorts(r.s) = 1..Len(ServicePorts(r.s))
  BY PortsOf
<1>2. ks = {k}
  BY <1>1, PortsOf DEF PortAt
<1>3. k <= k
  OBVIOUS
<1>4. (CHOOSE j \in ks : \A l \in ks : l <= j) = k
  <2> HIDE DEF ks
  <2> QED BY <1>2, <1>3
<1> QED BY <1>4 DEF NodePortOf, PortAt

\* In a list without duplicates, what is removed is what is not wanted.
\* The first objects of a list are one per port, and there is one for each port
\* that the list has.
LEMMA FirstFrontends ==
  ASSUME NEW r
  PROVE  /\ FirstF(r.F, r.s) \subseteq ConsideredF(r.F, r.s)
         /\ \A i, j \in FirstF(r.F, r.s) : r.F[i].f.port = r.F[j].f.port => i = j
         /\ \A i \in ConsideredF(r.F, r.s) :
              \E j \in FirstF(r.F, r.s) : r.F[j].f.port = r.F[i].f.port
         /\ RemoveF(r.F, r.s) = DupF(r) \cup {i \in FirstF(r.F, r.s) :
                                                r.F[i].f.port \notin WantedPorts(r.s)}
<1> DEFINE C == ConsideredF(r.F, r.s)
<1>1. C \subseteq Ids /\ Ids \subseteq Int
  BY ConstantsAssumption DEF ConsideredF, Existing, Ids
<1>2. FirstF(r.F, r.s) \subseteq C
  BY DEF FirstF
<1>3. ASSUME NEW i \in FirstF(r.F, r.s), NEW j \in FirstF(r.F, r.s),
             r.F[i].f.port = r.F[j].f.port
      PROVE  i = j
  <2>1. i \in C /\ j \in C /\ ~(j < i) /\ ~(i < j)
    BY <1>3 DEF FirstF
  <2>2. i \in Int /\ j \in Int
    BY <1>1, <2>1
  <2> QED BY <2>1, <2>2
<1>4. ASSUME NEW i \in C PROVE \E j \in FirstF(r.F, r.s) : r.F[j].f.port = r.F[i].f.port
  <2> DEFINE S == {k \in C : r.F[k].f.port = r.F[i].f.port}
  <2>1. SmallestOf(S) \in S /\ \A k \in S : SmallestOf(S) <= k
    <3>1. S \in SUBSET Ids /\ S # {}
      BY <1>1
    <3> HIDE DEF S
    <3> QED BY <3>1, SmallestId
  <2>2. PICK j \in S : \A k \in S : j <= k
    BY <2>1
  <2>3. ASSUME NEW k \in C, k < j PROVE r.F[k].f.port # r.F[j].f.port
    <3>1. j \in Int /\ k \in Int
      BY <1>1
    <3>2. k \notin S
      BY <2>2, <2>3, <3>1
    <3> QED BY <3>2
  <2> QED BY <2>2, <2>3 DEF FirstF
<1>5. RemoveF(r.F, r.s) = DupF(r) \cup {i \in FirstF(r.F, r.s) :
                                          r.F[i].f.port \notin WantedPorts(r.s)}
  BY <1>2 DEF RemoveF, DupF
<1> QED BY <1>2, <1>3, <1>4, <1>5

LEMMA FirstBackends ==
  ASSUME NEW r
  PROVE  /\ FirstB(r.B, r.s) \subseteq ConsideredB(r.B, r.s)
         /\ \A i, j \in FirstB(r.B, r.s) : r.B[i].nodePort = r.B[j].nodePort => i = j
         /\ RemoveB(r.B, r.s) = DupB(r) \cup {i \in FirstB(r.B, r.s) :
                                                r.B[i].nodePort \notin WantedNodePorts(r.s)}
<1>1. ConsideredB(r.B, r.s) \subseteq Int
  BY ConstantsAssumption DEF ConsideredB, Existing, Ids
<1>2. FirstB(r.B, r.s) \subseteq ConsideredB(r.B, r.s)
  BY DEF FirstB
<1>3. \A i, j \in FirstB(r.B, r.s) : r.B[i].nodePort = r.B[j].nodePort => i = j
  BY <1>1 DEF FirstB
<1> QED BY <1>2, <1>3 DEF RemoveB, DupB

Objects(O) == O \cup {None, Gone}

\* What makes the lemmas below apply: a call in the loop, at a TCP port, on
\* objects of the right types.
AtPort(r, F, B) ==
  /\ r \in Call /\ OnePerPort(r.s.ports)
  /\ r.i \in 1..Len(ServicePorts(r.s)) /\ PortAt(r, r.i).tcp
  /\ F \in [Ids -> Objects(Frontend)] /\ B \in [Ids -> Objects(Backend)]
  /\ \A f \in Existing(F) : F[f].be \in Existing(B)

\* The other ports of the loop.
LEMMA OtherPorts ==
  ASSUME NEW r, NEW F, NEW B, AtPort(r, F, B)
  PROVE  /\ r.i \in Nat /\ 1..r.i = (1..(r.i - 1)) \cup {r.i}
         /\ r.i - 1 \in 0..Len(ServicePorts(r.s)) /\ r.i \in 0..Len(ServicePorts(r.s))
         /\ \A j \in 1..(r.i - 1) : /\ PortAt(r, j).port # PortAt(r, r.i).port
                                   /\ PortAt(r, j).nodePort # PortAt(r, r.i).nodePort
<1>1. ServicePorts(r.s) \in Seq(ServicePort) /\ r.i \in 1..Len(ServicePorts(r.s))
  BY PortsOf DEF AtPort
<1>2. Len(ServicePorts(r.s)) \in Nat
  BY <1>1
<1>3. /\ r.i \in Nat /\ 1..r.i = (1..(r.i - 1)) \cup {r.i}
      /\ r.i - 1 \in 0..Len(ServicePorts(r.s)) /\ r.i \in 0..Len(ServicePorts(r.s))
      /\ \A j \in 1..(r.i - 1) : j \in 1..Len(ServicePorts(r.s)) /\ j # r.i
  BY <1>1, <1>2
<1>4. \A j \in 1..(r.i - 1) : /\ PortAt(r, j).port # PortAt(r, r.i).port
                             /\ PortAt(r, j).nodePort # PortAt(r, r.i).nodePort
  BY <1>1, <1>3, PortsOf DEF AtPort
<1> QED BY <1>3, <1>4

Written(objs, i, x) == [objs EXCEPT ![i] = x]

\* A call writes x as the backend of the port in hand: the one that the port
\* has, or one with a new id if it has none.
WriteBackend(r, B, b, x) ==
  /\ b \in Ids /\ x \in Backend
  /\ x.nodePort = PortAt(r, r.i).nodePort /\ (r.s.ext => x.mine)
  /\ \/ b \in LiveB(r, B) /\ B[b].nodePort = x.nodePort
     \/ B[b] = None /\ \A m \in LiveB(r, B) : B[m].nodePort # x.nodePort

LEMMA BackendWritten ==
  ASSUME NEW r, NEW F, NEW B, AtPort(r, F, B), NEW b, NEW x, WriteBackend(r, B, b, x),
         NEW n \in {r.i - 1, r.i}, DonePorts(r, F, B, r.i - 1, r.i - 1, n)
  PROVE  LET B2 == Written(B, b, x) IN
         /\ b \in LiveB(r, B2) /\ B2[b] = x
         /\ DonePorts(r, F, B2, r.i - 1, r.i - 1, r.i)
<1> DEFINE e == r.s.ext
           B2 == Written(B, b, x)
<1>0. /\ b \in Ids /\ x \in Backend /\ x.nodePort = PortAt(r, r.i).nodePort
      /\ B[b] = None => b \notin Existing(B)
  BY DEF WriteBackend, Existing
<1>1. /\ B2[b] = x /\ \A i \in Ids : i # b => B2[i] = B[i]
      /\ b \in Existing(B2) /\ \A i \in Ids : i # b => (i \in Existing(B2) <=> i \in Existing(B))
  BY <1>0, BackendsExist DEF AtPort, Existing, Written
<1> HIDE DEF B2
<1>2. b \notin DupB(r)
  BY DEF WriteBackend, LiveB, DonePorts, BSame
<1>3. /\ b \in Managed(B2, e)
      /\ \A i \in Ids : i # b => (i \in Managed(B2, e) <=> i \in Managed(B, e))
  BY <1>1 DEF Managed, WriteBackend
<1>4. /\ b \in LiveB(r, B2) /\ LiveB(r, B) \subseteq Ids /\ LiveB(r, B2) \subseteq Ids
      /\ \A i \in Ids : i # b => (i \in LiveB(r, B2) <=> i \in LiveB(r, B))
  BY <1>2, <1>3 DEF LiveB, Managed, Existing
<1>5. b \in Existing(B) => b \in LiveB(r, B) /\ B[b].nodePort = x.nodePort
  BY <1>0 DEF WriteBackend
<1>6. \A i \in LiveB(r, B) : i \in LiveB(r, B2) /\ B2[i].nodePort = B[i].nodePort
  BY <1>1, <1>4, <1>5 DEF LiveB, Managed
<1>7. \A i \in Managed(B, e) : i \in Managed(B2, e) /\ B2[i].nodePort = B[i].nodePort
  BY <1>1, <1>3, <1>5 DEF Managed, Existing
<1>8. BOnce(r, B2)
  <2>1. \A i \in LiveB(r, B) : i # b => B[i].nodePort # x.nodePort
    BY DEF WriteBackend, DonePorts, BOnce
  <2> QED BY <1>1, <1>4, <2>1 DEF DonePorts, BOnce
<1>9. FSame(r, F, B2, r.i - 1)
  <2>1. \A i \in LiveF(r, F) : B2[F[i].be].nodePort = B[F[i].be].nodePort
    BY <1>1, <1>5 DEF LiveF, Managed, AtPort, Existing
  <2> QED BY <2>1 DEF DonePorts, FSame
<1>10. FDone(r, F, B2, r.i - 1)
  <2>1. ASSUME NEW j, NEW i, Wired(PortAt(r, j), i, F, B, e)
        PROVE  Wired(PortAt(r, j), i, F, B2, e)
    BY <1>7, <2>1 DEF Wired
  <2> QED BY <2>1 DEF DonePorts, FDone
<1>11. BSame(r, B2, r.i)
  <2>1. ASSUME NEW i \in LiveB(r, B2),
               \A j \in 1..r.i : PortAt(r, j).nodePort # B2[i].nodePort
        PROVE  i \in FirstB(r.B, r.s) /\ r.B[i] = B2[i]
    <3>1. i # b
      BY <1>0, <1>1, <2>1, OtherPorts
    <3>2. i \in LiveB(r, B) /\ B2[i] = B[i]
      BY <1>1, <1>4, <3>1
    <3>3. \A j \in 1..n : PortAt(r, j).nodePort # B[i].nodePort
      BY <2>1, <3>2, OtherPorts
    <3> QED BY <3>2, <3>3 DEF DonePorts, BSame
  <2>2. \A i \in DupB(r) : B2[i] # None
    <3>1. DupB(r) \subseteq Ids
      BY DEF DupB, ConsideredB, Existing
    <3> QED BY <1>1, <1>2, <3>1 DEF DonePorts, BSame
  <2> QED BY <1>6, <2>1, <2>2 DEF DonePorts, BSame
<1>12. BDone(r, B2, r.i - 1)
  <2>1. ASSUME NEW j \in 1..(r.i - 1)
        PROVE  PortAt(r, j).tcp /\ \E i \in LiveB(r, B2) : BReady(r, B2[i], j)
    <3>1. PICK i \in LiveB(r, B) : PortAt(r, j).tcp /\ BReady(r, B[i], j)
      BY DEF DonePorts, BDone
    <3>2. i # b
      BY <1>0, <1>1, <1>6, <3>1, OtherPorts DEF BReady
    <3> QED BY <1>1, <1>4, <3>1, <3>2
  <2> QED BY <2>1 DEF BDone
<1> QED BY <1>1, <1>4, <1>8, <1>9, <1>10, <1>11, <1>12 DEF DonePorts, B2

\* Every frontend that the CCM manages stays, on its port.
KeepsPorts(F, F2, e) ==
  \A i \in Managed(F, e) : i \in Managed(F2, e) /\ F2[i].port = F[i].port

\* A call writes x as the frontend of the port in hand: the one that the port
\* has, or one with a new id if it has none.
WriteFrontend(r, F, B, f, x) ==
  /\ f \in Ids /\ x \in Frontend
  /\ x.port = PortAt(r, r.i).port /\ (r.s.ext => x.mine) /\ x.be \in Managed(B, r.s.ext)
  /\ \/ f \in Managed(F, r.s.ext) /\ F[f].port = x.port
     \/ F[f] = None /\ \A m \in Managed(F, r.s.ext) : F[m].port # x.port

\* When the frontends that are not wanted are gone, no duplicate is left.
LEMMA NoneToRemove ==
  ASSUME NEW r, NEW F, FWanted(r, F) PROVE LiveF(r, F) = Managed(F, r.s.ext)
BY DEF FWanted, StaysF, LiveF

LEMMA FrontendWritten ==
  ASSUME NEW r, NEW F, NEW B, AtPort(r, F, B), NEW f, NEW x, WriteFrontend(r, F, B, f, x),
         NEW n \in {r.i - 1, r.i}, DonePorts(r, F, B, r.i - 1, n, r.i)
  PROVE  LET F2 == Written(F, f, x) IN
         /\ f \in Managed(F2, r.s.ext) /\ F2[f] = x
         /\ DonePorts(r, F2, B, r.i - 1, r.i, r.i)
         /\ KeepsPorts(F, F2, r.s.ext)
<1> DEFINE e == r.s.ext
           F2 == Written(F, f, x)
<1>0. /\ f \in Ids /\ x \in Frontend /\ x.port = PortAt(r, r.i).port
      /\ F[f] = None => f \notin Existing(F)
  BY DEF WriteFrontend, Existing
<1>1. /\ F2[f] = x /\ \A i \in Ids : i # f => F2[i] = F[i]
      /\ f \in Existing(F2) /\ \A i \in Ids : i # f => (i \in Existing(F2) <=> i \in Existing(F))
  BY <1>0, FrontendsExist DEF AtPort, Existing, Written
<1> HIDE DEF F2
<1>2. /\ f \in Managed(F2, e) /\ Managed(F, e) \subseteq Ids /\ Managed(F2, e) \subseteq Ids
      /\ \A i \in Ids : i # f => (i \in Managed(F2, e) <=> i \in Managed(F, e))
  BY <1>1 DEF Managed, Existing, WriteFrontend
<1>3. f \in Existing(F) => f \in Managed(F, e) /\ F[f].port = x.port
  BY <1>0 DEF WriteFrontend
<1>4. \A i \in Managed(F, e) : i \in Managed(F2, e) /\ F2[i].port = F[i].port
  BY <1>1, <1>2, <1>3 DEF Managed
<1>5. FWanted(r, F) /\ f \notin DupF(r) /\ DupF(r) \subseteq Ids
  BY DEF WriteFrontend, DonePorts, FWanted, StaysF, FSame, DupF, ConsideredF, Existing
<1>6. FWanted(r, F2)
  <2>1. x.port \in WantedPorts(r.s)
    BY <1>0, PortsOf DEF AtPort
  <2> QED BY <1>1, <1>2, <1>5, <2>1 DEF FWanted, StaysF
<1>7. LiveF(r, F) = Managed(F, e) /\ LiveF(r, F2) = Managed(F2, e)
  BY <1>5, <1>6, NoneToRemove
<1>8. FOnce(r, F2)
  <2>1. \A i \in Managed(F, e) : i # f => F[i].port # x.port
    BY <1>7 DEF WriteFrontend, DonePorts, FOnce
  <2> QED BY <1>1, <1>2, <1>7, <2>1 DEF DonePorts, FOnce
<1>9. FSame(r, F2, B, r.i)
  <2>1. ASSUME NEW i \in Managed(F2, e),
               \A j \in 1..r.i : PortAt(r, j).port # F2[i].port
        PROVE  /\ i \in FirstF(r.F, r.s) /\ r.F[i].f = F2[i]
               /\ r.F[i].nodePort = B[F2[i].be].nodePort
    <3>1. i # f
      BY <1>0, <1>1, <2>1, OtherPorts
    <3>2. i \in LiveF(r, F) /\ F2[i] = F[i]
      BY <1>1, <1>2, <1>7, <3>1
    <3>3. \A j \in 1..n : PortAt(r, j).port # F[i].port
      BY <2>1, <3>2, OtherPorts
    <3> QED BY <3>2, <3>3 DEF DonePorts, FSame
  <2>2. ASSUME NEW i \in FirstF(r.F, r.s), r.F[i].f.port \in WantedPorts(r.s)
        PROVE  i \in Managed(F2, e) /\ F2[i].port = r.F[i].f.port
    BY <1>4, <1>7, <2>2 DEF DonePorts, FSame
  <2>3. ASSUME NEW i \in DupF(r)
        PROVE  F2[i] # None /\ (i \in Existing(F2) => F2[i].port = r.F[i].f.port)
    BY <1>1, <1>5, <2>3 DEF DonePorts, FSame
  <2> QED BY <1>7, <2>1, <2>2, <2>3 DEF FSame
<1>10. FDone(r, F2, B, r.i - 1)
  <2>1. ASSUME NEW j \in 1..(r.i - 1)
        PROVE  \E i \in Ids : /\ Wired(PortAt(r, j), i, F2, B, e)
                              /\ F2[i].conf = r.s.conf /\ F2[i].acl = makeACLSpecs(r.s)
    <3>1. PICK i \in Ids : /\ Wired(PortAt(r, j), i, F, B, e)
                           /\ F[i].conf = r.s.conf /\ F[i].acl = makeACLSpecs(r.s)
      BY DEF DonePorts, FDone
    <3>2. i # f
      BY <1>0, <1>1, <1>4, <3>1, OtherPorts DEF Wired
    <3> QED BY <1>1, <1>4, <3>1, <3>2 DEF Wired
  <2> QED BY <2>1 DEF FDone
<1> QED BY <1>1, <1>2, <1>4, <1>6, <1>8, <1>9, <1>10 DEF DonePorts, KeepsPorts, F2

-----------------------------------------------------------------------------
(***************************************************************************)
(* From one port to the next.                                              *)
(***************************************************************************)
\* What was said of a call is said of it at its next step.
LEMMA SameCall ==
  ASSUME NEW r, NEW q, q.s = r.s, q.F = r.F, q.B = r.B, NEW F, NEW B
  PROVE  /\ DupF(q) = DupF(r) /\ LiveB(q, B) = LiveB(r, B)
         /\ FOnce(q, F) <=> FOnce(r, F)
         /\ BOnce(q, B) <=> BOnce(r, B)
         /\ \A j : PortAt(q, j) = PortAt(r, j)
         /\ \A i : StaysF(q, F, i) <=> StaysF(r, F, i)
         /\ \A i : StaysB(q, B, i) <=> StaysB(r, B, i)
         /\ FWanted(q, F) <=> FWanted(r, F)
         /\ BWanted(q, B) <=> BWanted(r, B)
         /\ \A b, n : BReady(q, b, n) <=> BReady(r, b, n)
         /\ \A n : FSame(q, F, B, n) <=> FSame(r, F, B, n)
         /\ \A n : BSame(q, B, n) <=> BSame(r, B, n)
         /\ \A n : FDone(q, F, B, n) <=> FDone(r, F, B, n)
         /\ \A n : BDone(q, B, n) <=> BDone(r, B, n)
         /\ \A n, k, l : DonePorts(q, F, B, n, k, l) <=> DonePorts(r, F, B, n, k, l)
<1>1. \A j : PortAt(q, j) = PortAt(r, j)
  BY DEF PortAt
<1>2. /\ DupF(q) = DupF(r) /\ DupB(q) = DupB(r)
      /\ LiveF(q, F) = LiveF(r, F) /\ LiveB(q, B) = LiveB(r, B)
  BY DEF DupF, DupB, LiveF, LiveB
<1>3. (FOnce(q, F) <=> FOnce(r, F)) /\ (BOnce(q, B) <=> BOnce(r, B))
  BY <1>2 DEF FOnce, BOnce
<1>4. /\ \A i : StaysF(q, F, i) <=> StaysF(r, F, i)
      /\ \A i : StaysB(q, B, i) <=> StaysB(r, B, i)
  BY <1>2 DEF StaysF, StaysB
<1>5. (FWanted(q, F) <=> FWanted(r, F)) /\ (BWanted(q, B) <=> BWanted(r, B))
  BY <1>4 DEF FWanted, BWanted
<1>6. \A n : FSame(q, F, B, n) <=> FSame(r, F, B, n)
  BY <1>1, <1>2 DEF FSame
<1>7. \A n : BSame(q, B, n) <=> BSame(r, B, n)
  BY <1>1, <1>2 DEF BSame
<1>8. \A n : FDone(q, F, B, n) <=> FDone(r, F, B, n)
  BY <1>1 DEF FDone
<1>9. \A b, n : BReady(q, b, n) <=> BReady(r, b, n)
  BY <1>1 DEF BReady
<1>10. \A n : BDone(q, B, n) <=> BDone(r, B, n)
  BY <1>1, <1>2, <1>9 DEF BDone
<1> QED
  BY <1>1, <1>2, <1>3, <1>4, <1>5, <1>6, <1>7, <1>8, <1>9, <1>10 DEF DonePorts

\* After the last port, what does not stay is left to remove.
LEMMA LeftToRemove ==
  ASSUME NEW r \in Call, OnePerPort(r.s.ports), NEW F, NEW B,
         DonePorts(r, F, B, Len(ServicePorts(r.s)), Len(ServicePorts(r.s)),
                   Len(ServicePorts(r.s)))
  PROVE  \A i \in Managed(B, r.s.ext) : StaysB(r, B, i) <=> i \notin RemoveB(r.B, r.s)
<1> SUFFICES ASSUME NEW i \in Managed(B, r.s.ext)
             PROVE  StaysB(r, B, i) <=> i \notin RemoveB(r.B, r.s)
  OBVIOUS
<1>1. RemoveB(r.B, r.s) = DupB(r) \cup {b \in FirstB(r.B, r.s) :
                                          r.B[b].nodePort \notin WantedNodePorts(r.s)}
  BY FirstBackends
<1>2. CASE i \in DupB(r)
  BY <1>1, <1>2 DEF StaysB
<1>3. CASE i \notin DupB(r) /\ B[i].nodePort \in WantedNodePorts(r.s)
  BY <1>1, <1>3 DEF DonePorts, BSame, StaysB
<1>4. CASE i \notin DupB(r) /\ B[i].nodePort \notin WantedNodePorts(r.s)
  <2>1. \A j \in 1..Len(ServicePorts(r.s)) : PortAt(r, j).tcp
    BY DEF DonePorts, BDone
  <2>2. \A j \in 1..Len(ServicePorts(r.s)) : PortAt(r, j).nodePort \in WantedNodePorts(r.s)
    BY <2>1, PortsOf
  <2>3. \A j \in 1..Len(ServicePorts(r.s)) : PortAt(r, j).nodePort # B[i].nodePort
    BY <1>4, <2>2
  <2>4. i \in LiveB(r, B)
    BY <1>4 DEF LiveB
  <2> QED BY <1>1, <1>4, <2>3, <2>4 DEF DonePorts, BSame, StaysB
<1> QED BY <1>2, <1>3, <1>4

LEMMA AfterPortProgress ==
  ASSUME NEW r \in Call, OnePerPort(r.s.ports), NEW k \in 0..Len(ServicePorts(r.s)),
         NEW F, NEW B, DonePorts(r, F, B, k, k, k)
  PROVE  Progress(AfterPort(r, k), F, B, r.level)
<1> DEFINE N == Len(ServicePorts(r.s))
<1>1. N \in Nat /\ k \in Nat /\ k <= N
  BY PortsOf
<1>2. CASE k < N
  <2> DEFINE n == k + 1
             q == [r EXCEPT !.pc = "backend", !.i = n, !.be = 0, !.fe = 0]
  <2>1. /\ q.s = r.s /\ q.F = r.F /\ q.B = r.B /\ q.pc = "backend" /\ q.level = r.level
        /\ q.i = n
    BY DEF Call
  <2>2. n \in 1..N /\ n - 1 = k
    BY <1>1, <1>2
  <2> HIDE DEF q, n
  <2>3. DonePorts(q, F, B, k, k, k)
    BY <2>1, SameCall
  <2>4. Loop(q, F, B)
    BY <2>1, <2>2, <2>3 DEF Loop
  <2>5. Progress(q, F, B, r.level)
    BY <2>1, <2>4 DEF Progress, LoopPCs
  <2> QED BY <1>2, <2>5 DEF AfterPort, q, n
<1>3. CASE ~ (k < N)
  <2> DEFINE rm == RemoveB(r.B, r.s)
             del == [r EXCEPT !.pc = "delB", !.todo = rm]
             lev == [r EXCEPT !.pc = "level"]
  <2>1. k = N
    BY <1>1, <1>3
  <2>2. FOnce(r, F) /\ BOnce(r, B) /\ FWanted(r, F) /\ FDone(r, F, B, N) /\ BDone(r, B, N)
    BY <2>1 DEF DonePorts
  <2>3. \A i \in Managed(B, r.s.ext) : StaysB(r, B, i) <=> i \notin rm
    BY <2>1, LeftToRemove
  <2>4. /\ del.s = r.s /\ del.F = r.F /\ del.B = r.B /\ del.pc = "delB"
        /\ del.level = r.level /\ del.todo = rm
    BY DEF Call
  <2>5. lev.s = r.s /\ lev.F = r.F /\ lev.B = r.B /\ lev.pc = "level" /\ lev.level = r.level
    BY DEF Call
  <2>6. AfterPort(r, k) = IF rm # {} THEN del ELSE lev
    BY <1>3 DEF AfterPort
  <2> HIDE DEF rm, del, lev
  <2>7. Progress(del, F, B, r.level)
    <3>1. /\ FOnce(del, F) /\ BOnce(del, B)
          /\ FWanted(del, F) /\ FDone(del, F, B, N) /\ BDone(del, B, N)
      BY <2>2, <2>4, SameCall
    <3>2. \A i : StaysB(del, B, i) <=> StaysB(r, B, i)
      BY <2>4, SameCall
    <3>3. BTodo(del, B)
      BY <2>3, <2>4, <3>2 DEF BTodo
    <3> QED BY <2>4, <3>1, <3>3 DEF Progress, LoopPCs
  <2>8. ASSUME rm = {} PROVE Progress(lev, F, B, r.level)
    <3>1. /\ FOnce(lev, F) /\ BOnce(lev, B)
          /\ FWanted(lev, F) /\ FDone(lev, F, B, N) /\ BDone(lev, B, N)
      BY <2>2, <2>5, SameCall
    <3>2. BWanted(r, B)
      BY <2>3, <2>8 DEF BWanted
    <3>3. BWanted(lev, B)
      BY <2>5, <3>2, SameCall
    <3> QED BY <2>5, <3>1, <3>3 DEF Progress, LoopPCs
  <2> QED BY <2>6, <2>7, <2>8
<1> QED BY <1>2, <1>3

-----------------------------------------------------------------------------
(***************************************************************************)
(* The steps of a call.                                                    *)
(***************************************************************************)
\* A step of call w keeps w on its course and cuts no port that w wants.
StillOnCourse(w) == wk'[w].pc # "idle" => Progress(wk'[w], fes', bes', level')
CutsNone(w) == \A port \in WantedPorts(wk[w].s) : Served(port) => Served(port)'

Goes(w) == StillOnCourse(w) /\ CutsNone(w)

LEMMA CallState ==
  ASSUME NEW w \in Workers, Sound(w), wk[w].pc # "idle"
  PROVE  /\ wk[w] \in Call /\ wk[w].s \in Wanted /\ wk[w].s.ext = want.ext
         /\ CallOK(wk[w], fes, bes, want.ext) /\ OnePerPort(wk[w].s.ports)
         /\ Progress(wk[w], fes, bes, level) /\ Apart(fes, bes, wk[w].s.ext)
         /\ fes \in [Ids -> Objects(Frontend)] /\ bes \in [Ids -> Objects(Backend)]
         /\ \A f \in Existing(fes) : fes[f].be \in Existing(bes)
         /\ want.ext \in BOOLEAN
<1>1. /\ wk[w] \in Call /\ wk[w].s \in Wanted /\ CallOK(wk[w], fes, bes, want.ext)
      /\ want.ext \in BOOLEAN
  BY InCall DEF Sound
<1>2. wk[w].s.ext = want.ext
  BY <1>1 DEF CallOK
<1>3. Progress(wk[w], fes, bes, level) /\ Apart(fes, bes, want.ext)
  BY DEF Sound, OnCourse, WorldInv
<1>4. OnePerPort(wk[w].s.ports)
  BY <1>3 DEF Progress
<1> QED BY <1>1, <1>2, <1>3, <1>4 DEF Sound, TypeInv, TypeOK, Objects

LEMMA PortsKept ==
  ASSUME KeepsPorts(fes, fes', want.ext), want' = want, NEW port, Served(port)
  PROVE  Served(port)'
<1>1. PICK i \in Managed(fes, want.ext) : fes[i].port = port
  BY DEF Served, ManagedF, Managed
<1>2. i \in Managed(fes', want.ext) /\ fes'[i].port = port
  BY <1>1 DEF KeepsPorts
<1> QED BY <1>2 DEF Served, ManagedF, Managed, Existing

LEMMA CallMoves ==
  ASSUME TypeOK, NEW w \in Workers, NEW q, Update(w, q), want' = want,
         q.pc # "idle" => Progress(q, fes', bes', level'),
         KeepsPorts(fes, fes', want.ext)
  PROVE  Goes(w)
<1>1. wk'[w] = q
  BY DEF TypeOK, Update
<1> QED BY <1>1, PortsKept DEF Goes, StillOnCourse, CutsNone

\* A step that leaves the objects alone.
LEMMA ObjectsKept ==
  ASSUME TypeOK, NEW w \in Workers, NEW q, Update(w, q), UNCHANGED <<want, fes, bes>>,
         q.pc # "idle" => Progress(q, fes, bes, level')
  PROVE  Goes(w)
<1>1. KeepsPorts(fes, fes', want.ext) /\ want' = want
  BY DEF KeepsPorts
<1>2. q.pc # "idle" => Progress(q, fes', bes', level')
  OBVIOUS
<1> QED BY <1>1, <1>2, CallMoves

LEMMA ErrorGoes ==
  ASSUME TypeOK, NEW w \in Workers, ReturnError(w), UNCHANGED <<want, fes, bes>>
  PROVE  Goes(w)
BY ObjectsKept DEF ReturnError, NoCall

LEMMA BeginGoes ==
  ASSUME NEW w \in Workers, Sound(w), Begin(w) PROVE Goes(w)
<1> DEFINE q == IF w \in NodeSyncs /\ want.deleting THEN NoCall ELSE NewCall
<1>1. /\ NewCall.s = want /\ NewCall.pc = "listF" /\ NewCall.level = level
  BY DEF NewCall
<1>2. Progress(NewCall, fes, bes, level)
  BY <1>1 DEF Progress, LoopPCs, Sound, WorldInv
<1>3. q.pc # "idle" => Progress(q, fes, bes, level)
  BY <1>2 DEF NoCall
<1>4. Update(w, q) /\ UNCHANGED <<want, fes, bes, level>> /\ TypeOK
  BY DEF Begin, lbVars, Sound, TypeInv
<1> HIDE DEF q
<1> QED BY <1>3, <1>4, ObjectsKept

LEMMA ListFrontendsGoes ==
  ASSUME NEW w \in Workers, Sound(w), ListFrontends(w) PROVE Goes(w)
<1> DEFINE r == wk[w]
           L == [i \in Ids |-> IF i \notin Existing(fes) THEN fes[i]
                    ELSE [f |-> fes[i], nodePort |-> bes[fes[i].be].nodePort]]
           q == [r EXCEPT !.pc = "listB", !.F = L]
<1>1. /\ r \in Call /\ OnePerPort(r.s.ports) /\ Progress(r, fes, bes, level)
      /\ r.pc = "listF" /\ TypeOK
  BY CallState DEF ListFrontends, Sound, TypeInv
<1>2. Update(w, q) /\ UNCHANGED <<want, fes, bes, level>>
  BY DEF ListFrontends, lbVars
<1>3. Existing(L) = Existing(fes)
  <2>1. \A i \in Existing(fes) : fes[i] \in Frontend /\ bes[fes[i].be] \in Backend
    BY <1>1 DEF TypeOK, Existing
  <2>2. \A i \in Existing(fes) :
          [f |-> fes[i], nodePort |-> bes[fes[i].be].nodePort] \notin {None, Gone}
    BY <2>1, FrontendsExist DEF ListedFrontend, Backend
  <2> QED BY <2>2 DEF Existing
<1>4. \A i \in Existing(fes) : L[i].f = fes[i] /\ L[i].nodePort = bes[fes[i].be].nodePort
  BY DEF Existing
<1>5. q.s = r.s /\ q.F = L /\ q.pc = "listB" /\ q.level = r.level
  <2> HIDE DEF L
  <2> QED BY <1>1 DEF Call
<1> HIDE DEF q, L
<1>6. ConsideredF(q.F, q.s) = Managed(fes, q.s.ext)
  BY <1>3, <1>4, <1>5 DEF ConsideredF, Managed
<1>7. \A i \in Managed(fes, q.s.ext) : /\ q.F[i].f = fes[i] /\ fes[i] # None
                                       /\ q.F[i].nodePort = bes[fes[i].be].nodePort
  BY <1>4, <1>5 DEF Managed, Existing
<1>8. LiveF(q, fes) = FirstF(q.F, q.s) /\ DupF(q) \subseteq Managed(fes, q.s.ext)
  BY <1>6, FirstFrontends DEF LiveF, DupF
<1>9. FOnce(q, fes)
  BY <1>6, <1>7, <1>8, FirstFrontends DEF FOnce
<1>10. FSame(q, fes, bes, 0)
  <2>1. \A i \in FirstF(q.F, q.s) : i \in Managed(fes, q.s.ext)
    BY <1>6, FirstFrontends
  <2>2. \A i \in DupF(q) : fes[i] # None /\ q.F[i].f = fes[i]
    BY <1>7, <1>8
  <2>3. \A i \in FirstF(q.F, q.s) : /\ q.F[i].f = fes[i]
                                    /\ q.F[i].nodePort = bes[fes[i].be].nodePort
    BY <1>7, <2>1
  <2> QED BY <1>8, <2>2, <2>3 DEF FSame
<1>11. Progress(q, fes, bes, level)
  BY <1>1, <1>5, <1>9, <1>10 DEF Progress, LoopPCs
<1> QED BY <1>1, <1>2, <1>11, ObjectsKept

LEMMA ListBackendsGoes ==
  ASSUME NEW w \in Workers, Sound(w), ListBackends(w) PROVE Goes(w)
<1> DEFINE r == [wk[w] EXCEPT !.B = bes]
           rm == RemoveF(r.F, r.s)
           del == [r EXCEPT !.pc = "delF", !.todo = rm]
           q == IF rm # {} THEN del ELSE AfterPort(r, 0)
<1>1. /\ wk[w] \in Call /\ OnePerPort(wk[w].s.ports) /\ Progress(wk[w], fes, bes, level)
      /\ wk[w].pc = "listB" /\ bes \in [Ids -> Objects(Backend)] /\ TypeOK
  BY CallState DEF ListBackends, Sound, TypeInv
<1>2. Update(w, q) /\ UNCHANGED <<want, fes, bes, level>>
  BY DEF ListBackends, lbVars
<1>3. /\ r \in Call /\ r.s = wk[w].s /\ r.F = wk[w].F /\ r.B = bes /\ r.level = wk[w].level
  BY <1>1 DEF Call, Objects
<1>4. /\ del.s = r.s /\ del.F = r.F /\ del.B = r.B /\ del.pc = "delF"
      /\ del.level = r.level /\ del.todo = rm
  <2> HIDE DEF r, rm
  <2> QED BY <1>3 DEF Call
<1> HIDE DEF r, rm, del
<1>5. FOnce(r, fes) /\ FSame(r, fes, bes, 0)
  <2>1. FOnce(wk[w], fes) /\ FSame(wk[w], fes, bes, 0)
    BY <1>1 DEF Progress
  <2>2. DupF(r) = DupF(wk[w]) /\ LiveF(r, fes) = LiveF(wk[w], fes)
    BY <1>3 DEF DupF, LiveF
  <2> QED BY <1>3, <2>1, <2>2 DEF FOnce, FSame, PortAt
<1>6. BOnce(r, bes) /\ BSame(r, bes, 0)
  <2>1. ConsideredB(r.B, r.s) = Managed(bes, r.s.ext)
    BY <1>3 DEF ConsideredB, Managed
  <2>2. LiveB(r, bes) = FirstB(r.B, r.s) /\ DupB(r) \subseteq Existing(bes)
    BY <2>1, FirstBackends DEF LiveB, DupB, Managed
  <2>3. BOnce(r, bes)
    BY <1>3, <2>2, FirstBackends DEF BOnce
  <2>4. BSame(r, bes, 0)
    BY <1>3, <2>2 DEF BSame, Existing
  <2> QED BY <2>3, <2>4
<1>7. rm = DupF(r) \cup {i \in FirstF(r.F, r.s) : r.F[i].f.port \notin WantedPorts(r.s)}
  BY FirstFrontends DEF rm
<1>8. \A i \in Managed(fes, r.s.ext) : StaysF(r, fes, i) <=> i \notin rm
  <2> SUFFICES ASSUME NEW i \in Managed(fes, r.s.ext)
               PROVE  StaysF(r, fes, i) <=> i \notin rm
    OBVIOUS
  <2>1. CASE i \in DupF(r)
    BY <1>7, <2>1 DEF StaysF
  <2>2. CASE i \notin DupF(r)
    <3>1. i \in FirstF(r.F, r.s) /\ r.F[i].f = fes[i]
      BY <1>5, <2>2 DEF FSame, LiveF
    <3> QED BY <1>7, <2>2, <3>1 DEF StaysF
  <2> QED BY <2>1, <2>2
<1>9. Progress(del, fes, bes, level)
  <2>1. /\ FOnce(del, fes) /\ BOnce(del, bes)
        /\ FSame(del, fes, bes, 0) /\ BSame(del, bes, 0)
    BY <1>4, <1>5, <1>6, SameCall
  <2>2. \A i : StaysF(del, fes, i) <=> StaysF(r, fes, i)
    BY <1>4, SameCall
  <2>3. FTodo(del, fes)
    BY <1>4, <1>8, <2>2 DEF FTodo
  <2> QED BY <1>1, <1>3, <1>4, <2>1, <2>3 DEF Progress, LoopPCs
<1>10. ASSUME rm = {} PROVE Progress(AfterPort(r, 0), fes, bes, level)
  <2>1. FWanted(r, fes)
    BY <1>8, <1>10 DEF FWanted
  <2>2. DonePorts(r, fes, bes, 0, 0, 0)
    BY <1>5, <1>6, <2>1 DEF DonePorts, FDone, BDone
  <2>3. 0 \in 0..Len(ServicePorts(r.s)) /\ r.level = level
    BY <1>1, <1>3, PortsOf DEF Progress
  <2> QED BY <1>1, <1>3, <2>2, <2>3, AfterPortProgress
<1>11. Progress(q, fes, bes, level)
  BY <1>9, <1>10
<1> HIDE DEF q
<1> QED BY <1>1, <1>2, <1>11, ObjectsKept

LEMMA DeleteFrontendGoes ==
  ASSUME NEW w \in Workers, Sound(w), DeleteFrontend(w) PROVE Goes(w)
<1> DEFINE r == wk[w]
           i == SmallestOf(r.todo)
           last == [r EXCEPT !.todo = {}]
           more == [r EXCEPT !.todo = @ \ {i}]
           q == IF r.todo = {i} THEN AfterPort(last, 0) ELSE more
<1>1. /\ r \in Call /\ OnePerPort(r.s.ports) /\ Progress(r, fes, bes, level)
      /\ r.pc = "delF" /\ r.s.ext = want.ext /\ TypeOK
      /\ CallOK(r, fes, bes, want.ext) /\ fes \in [Ids -> Objects(Frontend)]
  BY CallState DEF DeleteFrontend, Sound, TypeInv
<1>2. UNCHANGED <<want, bes, level>>
  BY DEF DeleteFrontend
<1>3. i \in r.todo /\ i \in Ids
  BY <1>1, SmallestId DEF CallOK, Call
<1>4. CASE ReturnError(w) /\ UNCHANGED fes
  BY <1>1, <1>2, <1>4, ErrorGoes
<1>5. CASE ~ (ReturnError(w) /\ UNCHANGED fes)
  <2>1. fes' = [fes EXCEPT ![i] = Gone] /\ Update(w, q)
    BY <1>5 DEF DeleteFrontend
  <2>2. /\ last \in Call /\ last.s = r.s /\ last.F = r.F /\ last.B = r.B
        /\ last.level = r.level
    BY <1>1 DEF Call
  <2>3. /\ more.s = r.s /\ more.F = r.F /\ more.B = r.B /\ more.pc = "delF"
        /\ more.level = r.level /\ more.todo = r.todo \ {i}
    <3> HIDE DEF i
    <3> QED BY <1>1 DEF Call
  <2> HIDE DEF i, last, more
  <2>4. \A j \in Managed(fes', r.s.ext) : j # i /\ j \in Managed(fes, r.s.ext) /\ fes'[j] = fes[j]
    BY <1>1, <1>3, <2>1 DEF Managed, Existing
  <2>5. \A j \in Managed(fes, r.s.ext) : j # i => j \in Managed(fes', r.s.ext) /\ fes'[j] = fes[j]
    BY <1>1, <1>3, <2>1 DEF Managed, Existing
  <2>6. /\ FOnce(r, fes) /\ FSame(r, fes, bes, 0) /\ BOnce(r, bes) /\ BSame(r, bes, 0)
        /\ FTodo(r, fes) /\ r.level = level
    BY <1>1 DEF Progress
  <2>7. ASSUME NEW j \in Managed(fes, r.s.ext), StaysF(r, fes, j)
        PROVE  j \in Managed(fes', r.s.ext) /\ fes'[j] = fes[j]
    <3>1. j # i
      BY <1>3, <2>6, <2>7 DEF FTodo
    <3> QED BY <2>5, <3>1
  <2>8. FOnce(r, fes')
    BY <2>4, <2>6 DEF FOnce, LiveF
  <2>9. FSame(r, fes', bes, 0)
    <3>1. ASSUME NEW j \in FirstF(r.F, r.s), r.F[j].f.port \in WantedPorts(r.s)
          PROVE  j \in LiveF(r, fes') /\ fes'[j].port = r.F[j].f.port
      <4>1. j \in LiveF(r, fes) /\ fes[j].port = r.F[j].f.port
        BY <2>6, <3>1 DEF FSame
      <4>2. StaysF(r, fes, j)
        BY <3>1, <4>1 DEF StaysF, LiveF
      <4> QED BY <2>7, <4>1, <4>2 DEF LiveF
    <3>2. ASSUME NEW j \in DupF(r)
          PROVE  fes'[j] # None /\ (j \in Existing(fes') => fes'[j].port = r.F[j].f.port)
      <4>1. j \in Ids /\ fes[j] # None /\ (j \in Existing(fes) => fes[j].port = r.F[j].f.port)
        BY <2>6, <3>2 DEF FSame, DupF, ConsideredF, Existing
      <4>2. CASE j = i
        BY <1>1, <1>3, <2>1, <4>2 DEF Existing, None, Gone
      <4>3. CASE j # i
        BY <1>1, <2>1, <4>1, <4>3 DEF Existing
      <4> QED BY <4>2, <4>3
    <3> QED BY <2>4, <2>6, <3>1, <3>2 DEF FSame, LiveF
  <2>10. Progress(more, fes', bes', level')
    <3>1. FOnce(more, fes') /\ FSame(more, fes', bes, 0) /\ BOnce(more, bes) /\ BSame(more, bes, 0)
      BY <2>3, <2>6, <2>8, <2>9, SameCall
    <3>2. FTodo(more, fes')
      <4>1. DupF(more) = DupF(r)
        BY <2>3, SameCall
      <4> QED BY <2>3, <2>4, <2>6, <4>1 DEF FTodo, StaysF
    <3> QED BY <1>1, <1>2, <2>3, <2>6, <3>1, <3>2 DEF Progress, LoopPCs
  <2>11. ASSUME r.todo = {i} PROVE Progress(AfterPort(last, 0), fes', bes', level')
    <3>1. FWanted(r, fes')
      BY <2>4, <2>6, <2>11 DEF FTodo, FWanted, StaysF
    <3>2. /\ FOnce(last, fes') /\ FSame(last, fes', bes, 0) /\ FWanted(last, fes')
          /\ BOnce(last, bes) /\ BSame(last, bes, 0)
      BY <2>2, <2>6, <2>8, <2>9, <3>1, SameCall
    <3>3. DonePorts(last, fes', bes, 0, 0, 0)
      BY <3>2 DEF DonePorts, FDone, BDone
    <3>4. 0 \in 0..Len(ServicePorts(last.s))
      BY <1>1, <2>2, PortsOf
    <3> QED BY <1>1, <1>2, <2>2, <2>6, <3>3, <3>4, AfterPortProgress
  <2>12. Progress(q, fes', bes', level')
    BY <2>10, <2>11
  <2>13. StillOnCourse(w)
    <3>1. wk'[w] = q
      BY <1>1, <2>1 DEF TypeOK, Update
    <3> QED BY <2>12, <3>1 DEF StillOnCourse
  <2>14. CutsNone(w)
    <3> SUFFICES ASSUME NEW port \in WantedPorts(r.s), Served(port)
                 PROVE  Served(port)'
      BY DEF CutsNone
    <3>1. PICK k \in Managed(fes, r.s.ext) : fes[k].port = port
      BY <1>1 DEF Served, ManagedF, Managed
    <3>2. PICK j \in Managed(fes, r.s.ext) : fes[j].port = port /\ StaysF(r, fes, j)
      <4>1. CASE k \notin DupF(r)
        BY <3>1, <4>1 DEF StaysF
      <4>2. CASE k \in DupF(r)
        <5>1. k \in ConsideredF(r.F, r.s) /\ r.F[k].f.port = port
          BY <2>6, <3>1, <4>2 DEF DupF, FSame, Managed
        <5>2. PICK j \in FirstF(r.F, r.s) : r.F[j].f.port = port
          BY <5>1, FirstFrontends
        <5>3. j \in LiveF(r, fes) /\ fes[j].port = port
          BY <2>6, <5>2 DEF FSame
        <5> QED BY <5>3 DEF StaysF, LiveF
      <4> QED BY <4>1, <4>2
    <3>3. j \in Managed(fes', r.s.ext) /\ fes'[j].port = port
      BY <2>7, <3>2
    <3> QED BY <1>1, <1>2, <3>3 DEF Served, ManagedF, Managed, Existing
  <2> QED BY <2>13, <2>14 DEF Goes
<1> QED BY <1>4, <1>5

\* Where a call stands in the loop.
LEMMA InLoop ==
  ASSUME NEW w \in Workers, Sound(w), wk[w].pc \in LoopPCs
  PROVE  /\ wk[w] \in Call /\ wk[w].s \in Wanted /\ wk[w].s.ext = want.ext
         /\ want.ext \in BOOLEAN /\ TypeOK
         /\ Loop(wk[w], fes, bes) /\ wk[w].level = level
         /\ PortAt(wk[w], wk[w].i).tcp => AtPort(wk[w], fes, bes)
<1>1. wk[w].pc # "idle" /\ wk[w].pc # "done" /\ TypeOK
  BY DEF LoopPCs, Sound, TypeInv
<1>2. Loop(wk[w], fes, bes) /\ wk[w].level = level
  BY <1>1, CallState DEF Progress
<1>3. wk[w].i \in 1..Len(ServicePorts(wk[w].s))
  BY <1>2 DEF Loop
<1> QED BY <1>1, <1>2, <1>3, CallState DEF AtPort

\* The backend of the port in hand is written, and the call goes on.
LEMMA BackendGoes ==
  ASSUME NEW w \in Workers, Sound(w), wk[w].pc \in {"backend", "health", "servers"},
         PortAt(wk[w], wk[w].i).tcp, UNCHANGED <<want, fes, level>>,
         NEW b, NEW x, WriteBackend(wk[w], bes, b, x), bes' = Written(bes, b, x),
         NEW q, Update(w, q), q.s = wk[w].s, q.F = wk[w].F, q.B = wk[w].B, q.i = wk[w].i,
         q.level = wk[w].level, q.be = b, q.pc \in {"health", "servers", "frontend"},
         x.conf = q.s.conf,
         q.pc # "frontend" => x.pool = q.pool,
         q.pc # "health" => x.health = q.s.conf,
         q.pc = "frontend" => x.pool = q.s.pool
  PROVE  Goes(w)
<1> DEFINE r == wk[w]
           n == IF r.pc = "backend" THEN r.i - 1 ELSE r.i
<1>1. /\ AtPort(r, fes, bes) /\ Loop(r, fes, bes) /\ r.level = level
      /\ r.s.ext = want.ext /\ r.pc \in LoopPCs /\ TypeOK
  BY InLoop DEF LoopPCs
<1>2. DonePorts(r, fes, bes, r.i - 1, r.i - 1, n) /\ n \in {r.i - 1, r.i}
  BY <1>1 DEF Loop
<1> HIDE DEF n
<1>3. /\ b \in LiveB(r, bes') /\ bes'[b] = x
      /\ DonePorts(r, fes, bes', r.i - 1, r.i - 1, r.i)
  <2>1. WriteBackend(r, bes, b, x) /\ AtPort(r, fes, bes)
    BY <1>1
  <2> HIDE DEF r
  <2>2. LET B2 == Written(bes, b, x) IN
        /\ b \in LiveB(r, B2) /\ B2[b] = x
        /\ DonePorts(r, fes, B2, r.i - 1, r.i - 1, r.i)
    BY <1>2, <2>1, BackendWritten
  <2> QED BY <2>2
<1>4. DonePorts(q, fes, bes', q.i - 1, q.i - 1, q.i) /\ b \in LiveB(q, bes')
  BY <1>3, SameCall
<1>5. InHand(q, bes')
  BY <1>1, <1>3, <1>4 DEF InHand, PortAt, WriteBackend
<1>6. q.pc = "frontend" => BReady(q, bes'[q.be], q.i)
  BY <1>3 DEF BReady, PortAt, WriteBackend
<1>7. Loop(q, fes, bes')
  BY <1>1, <1>3, <1>4, <1>5, <1>6 DEF Loop
<1>8. Progress(q, fes, bes', level')
  BY <1>1, <1>7 DEF Progress, LoopPCs, AtPort
<1>9. Progress(q, fes', bes', level') /\ KeepsPorts(fes, fes', want.ext)
  BY <1>8 DEF KeepsPorts
<1> QED BY <1>1, <1>9, CallMoves

\* The frontend of the port in hand is written, and its ACLs are next.
LEMMA FrontendGoes ==
  ASSUME NEW w \in Workers, Sound(w), wk[w].pc = "frontend",
         UNCHANGED <<want, bes, level>>,
         NEW f, NEW x, WriteFrontend(wk[w], fes, bes, f, x), fes' = Written(fes, f, x),
         x.conf = wk[w].s.conf, bes[x.be].nodePort = PortAt(wk[w], wk[w].i).nodePort,
         Update(w, [wk[w] EXCEPT !.pc = "acl", !.fe = f])
  PROVE  Goes(w)
<1> DEFINE r == wk[w]
           q == [r EXCEPT !.pc = "acl", !.fe = f]
<1>1. /\ Loop(r, fes, bes) /\ r.level = level /\ r \in Call
      /\ r.s.ext = want.ext /\ r.pc \in LoopPCs /\ TypeOK
  BY InLoop DEF LoopPCs
<1>2. InHand(r, bes) /\ BReady(r, bes[r.be], r.i)
  BY <1>1 DEF Loop
<1>3. AtPort(r, fes, bes)
  BY <1>1, <1>2, InLoop DEF InHand
<1>4. DonePorts(r, fes, bes, r.i - 1, r.i - 1, r.i)
  BY <1>1 DEF Loop
<1>5. /\ q.s = r.s /\ q.F = r.F /\ q.B = r.B /\ q.pc = "acl" /\ q.i = r.i
      /\ q.level = r.level /\ q.be = r.be /\ q.fe = f
  BY <1>1 DEF Call
<1> HIDE DEF q
<1>6. /\ f \in Managed(fes', want.ext) /\ fes'[f] = x
      /\ DonePorts(r, fes', bes, r.i - 1, r.i, r.i) /\ KeepsPorts(fes, fes', want.ext)
  <2>1. WriteFrontend(r, fes, bes, f, x)
    OBVIOUS
  <2>2. r.i - 1 \in {r.i - 1, r.i}
    OBVIOUS
  <2> HIDE DEF r
  <2>3. LET F2 == Written(fes, f, x) IN
        /\ f \in Managed(F2, r.s.ext) /\ F2[f] = x
        /\ DonePorts(r, F2, bes, r.i - 1, r.i, r.i) /\ KeepsPorts(fes, F2, r.s.ext)
    BY <1>3, <1>4, <2>1, <2>2, FrontendWritten
  <2> QED BY <1>1, <2>2, <2>3
<1>7. DonePorts(q, fes', bes, q.i - 1, q.i, q.i)
  BY <1>5, <1>6, SameCall
<1>8. InHand(q, bes) /\ BReady(q, bes[q.be], q.i)
  <2>1. LiveB(q, bes) = LiveB(r, bes)
    BY <1>5, SameCall
  <2> QED BY <1>2, <1>5, <2>1 DEF InHand, BReady, PortAt
<1>9. Wired(PortAt(q, q.i), q.fe, fes', bes, q.s.ext) /\ fes'[q.fe].conf = q.s.conf
  BY <1>1, <1>5, <1>6 DEF Wired, PortAt, WriteFrontend
<1>10. Loop(q, fes', bes)
  BY <1>1, <1>5, <1>7, <1>8, <1>9 DEF Loop
<1>11. Progress(q, fes', bes', level')
  BY <1>1, <1>3, <1>5, <1>10 DEF Progress, LoopPCs, AtPort
<1>12. Update(w, q)
  BY DEF q
<1> QED BY <1>1, <1>6, <1>11, <1>12, CallMoves

\* The objects of the port in hand are as they were listed.
LEMMA OtherPortsBefore ==
  ASSUME NEW r \in Call, OnePerPort(r.s.ports), r.i \in 1..Len(ServicePorts(r.s)),
         \/ PortAt(r, r.i).port \in WantedPorts(r.s)
         \/ PortAt(r, r.i).nodePort \in WantedNodePorts(r.s)
  PROVE  /\ PortAt(r, r.i).tcp
         /\ \A j \in 1..(r.i - 1) : /\ PortAt(r, j).port # PortAt(r, r.i).port
                                   /\ PortAt(r, j).nodePort # PortAt(r, r.i).nodePort
<1>1. PICK k \in 1..Len(ServicePorts(r.s)) :
        /\ PortAt(r, k).tcp
        /\ \/ PortAt(r, k).port = PortAt(r, r.i).port
           \/ PortAt(r, k).nodePort = PortAt(r, r.i).nodePort
  <2>1. WantedPorts(r.s) = {PortAt(r, j).port : j \in
           {k \in 1..Len(ServicePorts(r.s)) : PortAt(r, k).tcp}}
    BY PortsOf
  <2>2. WantedNodePorts(r.s) = {PortAt(r, j).nodePort : j \in
           {k \in 1..Len(ServicePorts(r.s)) : PortAt(r, k).tcp}}
    BY PortsOf
  <2> QED BY <2>1, <2>2
<1>2. k = r.i
  BY <1>1, PortsOf
<1>3. Len(ServicePorts(r.s)) \in Nat
  BY PortsOf
<1>4. \A j \in 1..(r.i - 1) : j \in 1..Len(ServicePorts(r.s)) /\ j # r.i
  BY <1>3
<1> QED BY <1>1, <1>2, <1>4, PortsOf

LEMMA BackendOfPort ==
  ASSUME NEW w \in Workers, Sound(w), wk[w].pc = "backend"
  PROVE  LET r == wk[w]
             np == PortAt(r, r.i).nodePort IN
         /\ \A i \in UpdateB(r.B, r.s, np) \cup KeepB(r.B, r.s, np) :
              /\ PortAt(r, r.i).tcp /\ i \in LiveB(r, bes)
              /\ bes[i] = r.B[i] /\ bes[i].nodePort = np
         /\ CreateB(r.B, r.s, np) =>
              PortAt(r, r.i).tcp /\ \A m \in LiveB(r, bes) : bes[m].nodePort # np
<1> DEFINE r == wk[w]
           np == PortAt(r, r.i).nodePort
<1>1. r \in Call /\ OnePerPort(r.s.ports) /\ Loop(r, fes, bes) /\ r.pc = "backend"
  BY InLoop, CallState DEF LoopPCs
<1> HIDE DEF r
<1>2. r.i \in 1..Len(ServicePorts(r.s)) /\ BSame(r, bes, r.i - 1)
  BY <1>1 DEF Loop, DonePorts
<1>3. np \in WantedNodePorts(r.s) =>
        PortAt(r, r.i).tcp /\ \A j \in 1..(r.i - 1) : PortAt(r, j).nodePort # np
  BY <1>1, <1>2, OtherPortsBefore
<1> HIDE DEF np
<1>4. ASSUME NEW i \in UpdateB(r.B, r.s, np) \cup KeepB(r.B, r.s, np)
      PROVE  /\ PortAt(r, r.i).tcp /\ i \in LiveB(r, bes)
             /\ bes[i] = r.B[i] /\ bes[i].nodePort = np
  <2>1. i \in FirstB(r.B, r.s) /\ r.B[i].nodePort = np /\ np \in WantedNodePorts(r.s)
    BY FirstBackends DEF UpdateB, KeepB, RemoveB
  <2>2. i \in LiveB(r, bes) /\ bes[i].nodePort = np
    BY <1>2, <2>1 DEF BSame
  <2> QED BY <1>2, <1>3, <2>1, <2>2 DEF BSame
<1>5. ASSUME CreateB(r.B, r.s, np)
      PROVE  PortAt(r, r.i).tcp /\ \A m \in LiveB(r, bes) : bes[m].nodePort # np
  <2>1. /\ np \in WantedNodePorts(r.s)
        /\ \A i \in FirstB(r.B, r.s) : r.B[i].nodePort # np
    BY <1>5 DEF CreateB
  <2> QED BY <1>2, <1>3, <2>1 DEF BSame
<1> QED BY <1>4, <1>5 DEF r, np

LEMMA FrontendOfPort ==
  ASSUME NEW w \in Workers, Sound(w), wk[w].pc = "frontend"
  PROVE  LET r == wk[w]
             port == PortAt(r, r.i).port IN
         /\ \A i \in UpdateF(r.F, r.s, port) \cup KeepF(r.F, r.s, port) :
              /\ i \in Managed(fes, want.ext) /\ fes[i].port = port
              /\ r.F[i].f = fes[i] /\ r.F[i].nodePort = bes[fes[i].be].nodePort
         /\ CreateF(r.F, r.s, port) => \A m \in Managed(fes, want.ext) : fes[m].port # port
<1> DEFINE r == wk[w]
           port == PortAt(r, r.i).port
<1>1. /\ r \in Call /\ OnePerPort(r.s.ports) /\ r.s.ext = want.ext /\ Loop(r, fes, bes)
      /\ r.pc = "frontend"
  BY InLoop, CallState DEF LoopPCs
<1> HIDE DEF r
<1>2. /\ r.i \in 1..Len(ServicePorts(r.s)) /\ FSame(r, fes, bes, r.i - 1)
      /\ LiveF(r, fes) = Managed(fes, want.ext)
  BY <1>1, NoneToRemove DEF Loop, DonePorts
<1>3. port \in WantedPorts(r.s) => \A j \in 1..(r.i - 1) : PortAt(r, j).port # port
  BY <1>1, <1>2, OtherPortsBefore
<1> HIDE DEF port
<1>4. ASSUME NEW i \in UpdateF(r.F, r.s, port) \cup KeepF(r.F, r.s, port)
      PROVE  /\ i \in Managed(fes, want.ext) /\ fes[i].port = port
             /\ r.F[i].f = fes[i] /\ r.F[i].nodePort = bes[fes[i].be].nodePort
  <2>1. i \in FirstF(r.F, r.s) /\ r.F[i].f.port = port /\ port \in WantedPorts(r.s)
    BY FirstFrontends DEF UpdateF, KeepF, RemoveF
  <2>2. i \in LiveF(r, fes) /\ fes[i].port = port
    BY <1>2, <2>1 DEF FSame
  <2> QED BY <1>2, <1>3, <2>1, <2>2 DEF FSame
<1>5. ASSUME CreateF(r.F, r.s, port)
      PROVE  \A m \in Managed(fes, want.ext) : fes[m].port # port
  <2>1. /\ port \in WantedPorts(r.s)
        /\ \A i \in FirstF(r.F, r.s) : r.F[i].f.port # port
    BY <1>5 DEF CreateF
  <2> QED BY <1>2, <1>3, <2>1 DEF FSame
<1> QED BY <1>4, <1>5 DEF r, port

LEMMA UpdateBackendGoes ==
  ASSUME NEW w \in Workers, Sound(w), UpdateBackend(w) PROVE Goes(w)
<1> DEFINE r == wk[w]
<1>1. /\ r \in Call /\ r.s \in Wanted /\ r.s.ext = want.ext /\ TypeOK /\ r.pc = "backend"
      /\ UNCHANGED <<want, fes, level>>
  BY InLoop DEF UpdateBackend, LoopPCs
<1>2. PICK i \in UpdateB(r.B, r.s, PortAt(r, r.i).nodePort) :
       IF i \notin Existing(bes)
         THEN ReturnError(w) /\ UNCHANGED bes
         ELSE /\ bes' = [bes EXCEPT ![i].conf = r.s.conf, ![i].mine = TRUE]
              /\ Update(w, [r EXCEPT !.pc = "health", !.be = i, !.pool = bes[i].pool])
              /\ UNCHANGED pending
  BY Zenon DEF UpdateBackend, Port, PortAt
<1>3. /\ PortAt(r, r.i).tcp /\ i \in LiveB(r, bes)
      /\ bes[i].nodePort = PortAt(r, r.i).nodePort
  BY <1>1, <1>2, BackendOfPort
<1> DEFINE c == r.s.conf
           x == [bes[i] EXCEPT !.conf = c, !.mine = TRUE]
           q == [r EXCEPT !.pc = "health", !.be = i, !.pool = bes[i].pool]
<1>4. i \in Ids /\ i \in Existing(bes) /\ bes[i] \in Backend /\ c \in Confs
  BY <1>1, <1>3 DEF LiveB, Managed, Existing, Sound, TypeInv, TypeOK, Wanted
<1>5. bes' = [bes EXCEPT ![i].conf = c, ![i].mine = TRUE] /\ Update(w, q)
  BY <1>2, <1>4
<1>6. /\ x \in Backend /\ x.mine /\ x.nodePort = bes[i].nodePort /\ x.conf = c
      /\ x.pool = bes[i].pool
  <2> HIDE DEF c
  <2> QED BY <1>4 DEF Backend
<1>7. bes' = Written(bes, i, x)
  BY <1>4, <1>5 DEF Sound, TypeInv, TypeOK, Written
<1>8. /\ q.s = r.s /\ q.F = r.F /\ q.B = r.B /\ q.i = r.i /\ q.level = r.level
      /\ q.be = i /\ q.pc = "health" /\ q.pool = bes[i].pool
  BY <1>1 DEF Call
<1> HIDE DEF x, q, c
<1>9. x.conf = q.s.conf
  BY <1>6, <1>8 DEF c
<1>10. WriteBackend(r, bes, i, x)
  BY <1>1, <1>3, <1>4, <1>6 DEF WriteBackend
<1> QED BY <1>1, <1>3, <1>5, <1>6, <1>7, <1>8, <1>9, <1>10, BackendGoes

LEMMA UpdateHealthCheckGoes ==
  ASSUME NEW w \in Workers, Sound(w), UpdateHealthCheck(w) PROVE Goes(w)
<1> DEFINE r == wk[w]
           b == r.be
           c == r.s.conf
           x == [bes[b] EXCEPT !.health = c]
           q == [r EXCEPT !.pc = "servers"]
<1>1. /\ r \in Call /\ r.s \in Wanted /\ r.s.ext = want.ext /\ TypeOK /\ r.pc = "health"
      /\ Loop(r, fes, bes) /\ UNCHANGED <<want, fes, level>>
  BY InLoop DEF UpdateHealthCheck, LoopPCs
<1>2. /\ InHand(r, bes) /\ bes[b].conf = c /\ bes[b].pool = r.pool
  BY <1>1 DEF Loop
<1>3. b \in Ids /\ b \in Existing(bes) /\ bes[b] \in Backend /\ c \in Confs
  BY <1>1, <1>2 DEF InHand, LiveB, Managed, Existing, Sound, TypeInv, TypeOK, Wanted
<1>4. bes' = [bes EXCEPT ![b].health = c] /\ Update(w, q)
  BY <1>3 DEF UpdateHealthCheck
<1>5. /\ x \in Backend /\ x.mine = bes[b].mine /\ x.nodePort = bes[b].nodePort
      /\ x.conf = bes[b].conf /\ x.pool = bes[b].pool /\ x.health = c
  <2> HIDE DEF c, b
  <2> QED BY <1>3 DEF Backend
<1>6. bes' = Written(bes, b, x)
  BY <1>3, <1>4 DEF Sound, TypeInv, TypeOK, Written
<1>7. /\ q.s = r.s /\ q.F = r.F /\ q.B = r.B /\ q.i = r.i /\ q.level = r.level
      /\ q.be = b /\ q.pc = "servers" /\ q.pool = r.pool
  BY <1>1 DEF Call
<1> HIDE DEF x, q
<1>8. WriteBackend(r, bes, b, x)
  BY <1>1, <1>2, <1>3, <1>5 DEF WriteBackend, InHand, LiveB, Managed
<1>9. /\ PortAt(r, r.i).tcp /\ x.conf = q.s.conf /\ x.pool = q.pool
      /\ x.health = q.s.conf
  BY <1>2, <1>5, <1>7 DEF InHand
<1> QED BY <1>1, <1>4, <1>6, <1>7, <1>8, <1>9, BackendGoes

LEMMA CreateBackendGoes ==
  ASSUME NEW w \in Workers, Sound(w), CreateBackend(w) PROVE Goes(w)
<1> DEFINE r == wk[w]
           np == Port(w).nodePort
           i == SmallestOf(FreshIds(bes))
           x == [nodePort |-> np, conf |-> r.s.conf, health |-> r.s.conf,
                 pool |-> r.s.pool, mine |-> TRUE]
           q == [r EXCEPT !.pc = "servers", !.be = i, !.pool = r.s.pool]
<1>1. /\ r \in Call /\ r.s \in Wanted /\ r.s.ext = want.ext /\ TypeOK /\ r.pc = "backend"
      /\ UNCHANGED <<want, fes, level>>
  BY InLoop DEF CreateBackend, LoopPCs
<1>2. np = PortAt(r, r.i).nodePort /\ CreateB(r.B, r.s, np)
  BY DEF CreateBackend, Port, PortAt
<1>3. PortAt(r, r.i).tcp /\ \A m \in LiveB(r, bes) : bes[m].nodePort # np
  BY <1>1, <1>2, BackendOfPort
<1>4. i \in Ids /\ bes[i] = None
  <2>1. FreshIds(bes) \in SUBSET Ids /\ FreshIds(bes) # {}
    BY DEF CreateBackend, FreshIds
  <2>2. i \in FreshIds(bes)
    BY <2>1, SmallestId
  <2> QED BY <2>1, <2>2 DEF FreshIds
<1>5. bes' = Written(bes, i, x) /\ Update(w, q)
  BY DEF CreateBackend, Written
<1>6. /\ x \in Backend /\ x.mine /\ x.nodePort = np /\ x.conf = r.s.conf
      /\ x.health = r.s.conf /\ x.pool = r.s.pool
  <2>1. np \in NodePorts
    BY <1>1, <1>2, PortsTyped DEF CreateB
  <2> HIDE DEF np, i
  <2> QED BY <1>1, <2>1 DEF Backend, Wanted
<1>7. /\ q.s = r.s /\ q.F = r.F /\ q.B = r.B /\ q.i = r.i /\ q.level = r.level
      /\ q.be = i /\ q.pc = "servers" /\ q.pool = r.s.pool
  <2> HIDE DEF i
  <2> QED BY <1>1 DEF Call
<1> HIDE DEF x, q, i, np
<1>8. WriteBackend(r, bes, i, x)
  BY <1>1, <1>2, <1>3, <1>4, <1>6 DEF WriteBackend
<1>9. x.conf = q.s.conf /\ x.health = q.s.conf /\ x.pool = q.pool
  BY <1>6, <1>7
<1> QED BY <1>1, <1>3, <1>5, <1>7, <1>8, <1>9, BackendGoes

\* A backend that is not written is as if it were written as it is.
LEMMA Rewritten ==
  ASSUME NEW S, NEW objs \in [Ids -> S], NEW i PROVE Written(objs, i, objs[i]) = objs
BY DEF Written

LEMMA KeepBackendGoes ==
  ASSUME NEW w \in Workers, Sound(w), KeepBackend(w) PROVE Goes(w)
<1> DEFINE r == wk[w]
<1>1. /\ r \in Call /\ r.s \in Wanted /\ r.s.ext = want.ext /\ TypeOK /\ r.pc = "backend"
      /\ UNCHANGED <<want, fes, bes, level>>
  BY InLoop DEF KeepBackend, LoopPCs, lbVars
<1>2. CASE ReturnError(w)
  BY <1>1, <1>2, ErrorGoes
<1>3. CASE ~ ReturnError(w)
  <2>1. PICK i \in KeepB(r.B, r.s, PortAt(r, r.i).nodePort) :
          Update(w, [r EXCEPT !.pc = "servers", !.be = i, !.pool = r.B[i].pool])
    BY <1>3, Zenon DEF KeepBackend, Port, PortAt
  <2> DEFINE q == [r EXCEPT !.pc = "servers", !.be = i, !.pool = r.B[i].pool]
             x == bes[i]
  <2>2. /\ PortAt(r, r.i).tcp /\ i \in LiveB(r, bes) /\ x = r.B[i]
        /\ x.nodePort = PortAt(r, r.i).nodePort
    BY <1>1, <2>1, BackendOfPort
  <2>3. x.conf = r.s.conf /\ x.health = r.s.conf
    BY <2>2 DEF KeepB, backendEquals
  <2>4. i \in Ids /\ x \in Backend /\ (want.ext => x.mine)
    BY <1>1, <2>2 DEF LiveB, Managed, Existing, Sound, TypeInv, TypeOK
  <2>5. bes' = Written(bes, i, x)
    BY <1>1, Rewritten DEF Sound, TypeInv, TypeOK
  <2>6. /\ q.s = r.s /\ q.F = r.F /\ q.B = r.B /\ q.i = r.i /\ q.level = r.level
        /\ q.be = i /\ q.pc = "servers" /\ q.pool = r.B[i].pool
    BY <1>1 DEF Call
  <2>7. Update(w, q)
    BY <2>1
  <2> HIDE DEF q, x
  <2>8. WriteBackend(r, bes, i, x)
    BY <1>1, <2>2, <2>4 DEF WriteBackend, x
  <2>9. x.conf = q.s.conf /\ x.health = q.s.conf /\ x.pool = q.pool
    BY <2>2, <2>3, <2>6
  <2> QED BY <1>1, <2>2, <2>5, <2>6, <2>7, <2>8, <2>9, BackendGoes
<1> QED BY <1>2, <1>3

LEMMA SetBackendServersGoes ==
  ASSUME NEW w \in Workers, Sound(w), SetBackendServers(w) PROVE Goes(w)
<1> DEFINE r == wk[w]
           b == r.be
           p == r.s.pool
           x == [bes[b] EXCEPT !.pool = p]
           q == [r EXCEPT !.pc = "frontend"]
<1>1. /\ r \in Call /\ r.s \in Wanted /\ r.s.ext = want.ext /\ TypeOK /\ r.pc = "servers"
      /\ Loop(r, fes, bes) /\ UNCHANGED <<want, fes, level>>
  BY InLoop DEF SetBackendServers, LoopPCs
<1>2. /\ InHand(r, bes) /\ bes[b].conf = r.s.conf /\ bes[b].pool = r.pool
      /\ bes[b].health = r.s.conf
  BY <1>1 DEF Loop
<1>3. b \in Ids /\ b \in Existing(bes) /\ bes[b] \in Backend /\ p \in Pools
  BY <1>1, <1>2 DEF InHand, LiveB, Managed, Existing, Sound, TypeInv, TypeOK, Wanted
<1>4. /\ x \in Backend /\ x.mine = bes[b].mine /\ x.nodePort = bes[b].nodePort
      /\ x.conf = bes[b].conf /\ x.pool = p /\ x.health = bes[b].health
  <2> HIDE DEF p, b
  <2> QED BY <1>3 DEF Backend
<1>5. Update(w, q) /\ bes' = Written(bes, b, x)
  <2>1. CASE r.pool = p
    <3>1. x = bes[b]
      <4> HIDE DEF p, b
      <4> QED BY <1>2, <1>3, <2>1 DEF Backend
    <3>2. bes' = bes
      BY <2>1 DEF SetBackendServers, PoolEqual
    <3> QED BY <2>1, <3>1, <3>2, Rewritten DEF SetBackendServers, PoolEqual, Sound, TypeInv, TypeOK
  <2>2. CASE r.pool # p
    <3>1. bes' = [bes EXCEPT ![b].pool = p] /\ Update(w, q)
      BY <1>3, <2>2 DEF SetBackendServers, PoolEqual
    <3> QED BY <1>3, <3>1 DEF Sound, TypeInv, TypeOK, Written
  <2> QED BY <2>1, <2>2
<1>6. /\ q.s = r.s /\ q.F = r.F /\ q.B = r.B /\ q.i = r.i /\ q.level = r.level
      /\ q.be = b /\ q.pc = "frontend"
  BY <1>1 DEF Call
<1> HIDE DEF x, q
<1>7. WriteBackend(r, bes, b, x)
  BY <1>1, <1>2, <1>3, <1>4 DEF WriteBackend, InHand, LiveB, Managed
<1>8. /\ PortAt(r, r.i).tcp /\ x.conf = q.s.conf /\ x.pool = q.s.pool
      /\ x.health = q.s.conf
  BY <1>2, <1>4, <1>6 DEF InHand
<1> QED BY <1>1, <1>5, <1>6, <1>7, <1>8, BackendGoes

LEMMA UpdateFrontendGoes ==
  ASSUME NEW w \in Workers, Sound(w), UpdateFrontend(w) PROVE Goes(w)
<1> DEFINE r == wk[w]
<1>1. /\ r \in Call /\ r.s \in Wanted /\ r.s.ext = want.ext /\ TypeOK /\ r.pc = "frontend"
      /\ Loop(r, fes, bes) /\ UNCHANGED <<want, bes, level>>
  BY InLoop DEF UpdateFrontend, LoopPCs
<1>2. PICK i \in UpdateF(r.F, r.s, PortAt(r, r.i).port) :
       IF i \notin Existing(fes) \/ r.be \notin Existing(bes)
         THEN ReturnError(w) /\ UNCHANGED fes
         ELSE /\ fes' = [fes EXCEPT ![i].be = r.be, ![i].conf = r.s.conf,
                                    ![i].mine = TRUE]
              /\ Update(w, [r EXCEPT !.pc = "acl", !.fe = i])
              /\ UNCHANGED pending
  BY Zenon DEF UpdateFrontend, Port, PortAt
<1>3. i \in Managed(fes, want.ext) /\ fes[i].port = PortAt(r, r.i).port
  BY <1>1, <1>2, FrontendOfPort
<1> DEFINE c == r.s.conf
           b == r.be
           x == [fes[i] EXCEPT !.be = b, !.conf = c, !.mine = TRUE]
<1>4. /\ InHand(r, bes) /\ b \in Ids /\ b \in Existing(bes)
      /\ b \in Managed(bes, r.s.ext)
  BY <1>1 DEF Loop, InHand, LiveB, Managed, Existing
<1>5. i \in Ids /\ i \in Existing(fes) /\ fes[i] \in Frontend /\ c \in Confs
  BY <1>1, <1>3 DEF Managed, Existing, Sound, TypeInv, TypeOK, Wanted
<1>6. /\ fes' = [fes EXCEPT ![i].be = b, ![i].conf = c, ![i].mine = TRUE]
      /\ Update(w, [r EXCEPT !.pc = "acl", !.fe = i])
  BY <1>2, <1>4, <1>5
<1>7. x \in Frontend /\ x.mine /\ x.port = fes[i].port /\ x.conf = c /\ x.be = b
  <2> HIDE DEF c, b
  <2> QED BY <1>4, <1>5 DEF Frontend
<1>8. fes' = Written(fes, i, x)
  <2> HIDE DEF c, b
  <2> QED BY <1>5, <1>6 DEF Sound, TypeInv, TypeOK, Written
<1> HIDE DEF x
<1>9. WriteFrontend(r, fes, bes, i, x)
  BY <1>1, <1>3, <1>4, <1>5, <1>7 DEF WriteFrontend, InHand
<1>10. bes[x.be].nodePort = PortAt(r, r.i).nodePort
  BY <1>4, <1>7 DEF InHand
<1> QED BY <1>1, <1>6, <1>7, <1>8, <1>9, <1>10, FrontendGoes, Zenon

LEMMA CreateFrontendGoes ==
  ASSUME NEW w \in Workers, Sound(w), CreateFrontend(w) PROVE Goes(w)
<1> DEFINE r == wk[w]
           port == Port(w).port
           i == SmallestOf(FreshIds(fes))
           x == NewFrontend(r.s, port, r.be)
<1>1. /\ r \in Call /\ r.s \in Wanted /\ r.s.ext = want.ext /\ TypeOK /\ r.pc = "frontend"
      /\ Loop(r, fes, bes) /\ UNCHANGED <<want, bes, level>>
  BY InLoop DEF CreateFrontend, LoopPCs
<1>2. CASE ReturnError(w) /\ UNCHANGED fes
  BY <1>1, <1>2, ErrorGoes
<1>3. CASE ~ (ReturnError(w) /\ UNCHANGED fes)
  <2>1. fes' = Written(fes, i, x) /\ Update(w, [r EXCEPT !.pc = "acl", !.fe = i])
    BY <1>3 DEF CreateFrontend, Written
  <2>2. port = PortAt(r, r.i).port /\ CreateF(r.F, r.s, port)
    BY DEF CreateFrontend, Port, PortAt
  <2>3. \A m \in Managed(fes, want.ext) : fes[m].port # port
    BY <1>1, <2>2, FrontendOfPort
  <2>4. i \in Ids /\ fes[i] = None
    <3>1. FreshIds(fes) \in SUBSET Ids /\ FreshIds(fes) # {}
      BY DEF CreateFrontend, FreshIds
    <3>2. i \in FreshIds(fes)
      BY <3>1, SmallestId
    <3> QED BY <3>1, <3>2 DEF FreshIds
  <2>5. InHand(r, bes)
    BY <1>1 DEF Loop
  <2>6. x \in Frontend /\ x.mine /\ x.port = port /\ x.conf = r.s.conf /\ x.be = r.be
    <3>1. port \in Ports
      BY <1>1, <2>2, PortsTyped DEF CreateF
    <3>2. r.be \in Ids /\ r.s.conf \in Confs /\ NoAcl \in FrontendAcls
      BY <1>1, <2>5 DEF InHand, LiveB, Managed, Existing, Wanted, FrontendAcls
    <3> HIDE DEF port
    <3> QED BY <3>1, <3>2 DEF NewFrontend, Frontend
  <2> HIDE DEF x, i, port
  <2>7. WriteFrontend(r, fes, bes, i, x)
    BY <1>1, <2>2, <2>3, <2>4, <2>5, <2>6 DEF WriteFrontend, InHand, LiveB
  <2>8. bes[x.be].nodePort = PortAt(r, r.i).nodePort
    BY <2>5, <2>6 DEF InHand
  <2> QED BY <1>1, <2>1, <2>6, <2>7, <2>8, FrontendGoes, Zenon
<1> QED BY <1>2, <1>3

LEMMA KeepFrontendGoes ==
  ASSUME NEW w \in Workers, Sound(w), KeepFrontend(w) PROVE Goes(w)
<1> DEFINE r == wk[w]
<1>1. /\ r \in Call /\ r.s \in Wanted /\ r.s.ext = want.ext /\ TypeOK /\ r.pc = "frontend"
      /\ Loop(r, fes, bes) /\ UNCHANGED <<want, fes, bes, level>>
  BY InLoop DEF KeepFrontend, LoopPCs, lbVars
<1>2. CASE ReturnError(w)
  BY <1>1, <1>2, ErrorGoes
<1>3. CASE ~ ReturnError(w)
  <2>1. PICK i \in KeepF(r.F, r.s, PortAt(r, r.i).port) :
          Update(w, [r EXCEPT !.pc = "acl", !.fe = i])
    BY <1>3, Zenon DEF KeepFrontend, Port, PortAt
  <2> DEFINE x == fes[i]
  <2>2. /\ i \in Managed(fes, want.ext) /\ x.port = PortAt(r, r.i).port
        /\ r.F[i].f = x /\ r.F[i].nodePort = bes[x.be].nodePort
    BY <1>1, <2>1, FrontendOfPort
  <2>3. x.mine /\ x.conf = r.s.conf /\ bes[x.be].nodePort = NodePortOf(r.s, x.port)
    BY <2>2 DEF KeepF, frontendEquals
  <2>4. /\ r.i \in 1..Len(ServicePorts(r.s)) /\ PortAt(r, r.i).tcp /\ OnePerPort(r.s.ports)
        /\ Apart(fes, bes, want.ext)
    BY <1>1, CallState DEF Loop, InHand
  <2>5. bes[x.be].nodePort = PortAt(r, r.i).nodePort
    BY <1>1, <2>2, <2>3, <2>4, NodePortOfPort
  <2>6. i \in Ids /\ i \in Existing(fes) /\ x \in Frontend /\ x.be \in Existing(bes)
    BY <2>2 DEF Managed, Existing, Sound, TypeInv, TypeOK
  <2>7. x.be \in Managed(bes, want.ext)
    BY <2>3, <2>4, <2>6 DEF Apart, Managed
  <2>8. fes' = Written(fes, i, x)
    BY <1>1, Rewritten DEF Sound, TypeInv, TypeOK
  <2> HIDE DEF x
  <2>9. WriteFrontend(r, fes, bes, i, x)
    BY <1>1, <2>2, <2>3, <2>6, <2>7, Zenon DEF WriteFrontend, x
  <2> QED BY <1>1, <2>1, <2>3, <2>5, <2>8, <2>9, FrontendGoes, Zenon
<1> QED BY <1>2, <1>3

LEMMA reconcileACLsGoes ==
  ASSUME NEW w \in Workers, Sound(w), reconcileACLs(w) PROVE Goes(w)
<1> DEFINE r == wk[w]
           f == r.fe
           a == makeACLSpecs(r.s)
           x == [fes[f] EXCEPT !.acl = a]
           q == AfterPort(r, r.i)
<1>1. /\ r \in Call /\ r.s \in Wanted /\ r.s.ext = want.ext /\ TypeOK /\ r.pc = "acl"
      /\ Loop(r, fes, bes) /\ r.level = level /\ UNCHANGED <<want, bes, level>>
  BY InLoop DEF reconcileACLs, LoopPCs
<1>2. /\ InHand(r, bes) /\ BReady(r, bes[r.be], r.i) /\ fes[f].conf = r.s.conf
      /\ Wired(PortAt(r, r.i), f, fes, bes, r.s.ext)
      /\ DonePorts(r, fes, bes, r.i - 1, r.i, r.i)
  BY <1>1 DEF Loop
<1>3. AtPort(r, fes, bes)
  BY <1>1, <1>2, InLoop DEF InHand, LoopPCs
<1>4. f \in Ids /\ f \in Existing(fes) /\ fes[f] \in Frontend /\ a \in FrontendAcls
  BY <1>1, <1>2 DEF Wired, Managed, Existing, Sound, TypeInv, TypeOK, Wanted, makeACLSpecs,
     FrontendAcls
<1>5. Update(w, q) /\ fes' = [fes EXCEPT ![f].acl = a]
  BY <1>4 DEF reconcileACLs
<1>6. /\ x \in Frontend /\ x.port = fes[f].port /\ x.be = fes[f].be /\ x.mine = fes[f].mine
      /\ x.conf = fes[f].conf /\ x.acl = a
  <2> HIDE DEF a, f
  <2> QED BY <1>4 DEF Frontend
<1>7. fes' = Written(fes, f, x)
  <2> HIDE DEF a, f
  <2> QED BY <1>4, <1>5 DEF Sound, TypeInv, TypeOK, Written
<1> HIDE DEF x, q
<1>8. WriteFrontend(r, fes, bes, f, x)
  BY <1>2, <1>4, <1>6 DEF WriteFrontend, Wired, Managed
<1>9. /\ f \in Managed(fes', r.s.ext) /\ fes'[f] = x
      /\ DonePorts(r, fes', bes, r.i - 1, r.i, r.i) /\ KeepsPorts(fes, fes', r.s.ext)
  <2> HIDE DEF r, f
  <2>1. LET F2 == Written(fes, f, x) IN
        /\ f \in Managed(F2, r.s.ext) /\ F2[f] = x
        /\ DonePorts(r, F2, bes, r.i - 1, r.i, r.i) /\ KeepsPorts(fes, F2, r.s.ext)
    <3>1. r.i \in {r.i - 1, r.i}
      OBVIOUS
    <3> QED BY <1>2, <1>3, <1>8, <3>1, FrontendWritten
  <2> QED BY <1>7, <2>1
<1>10. DonePorts(r, fes', bes, r.i, r.i, r.i)
  <2>1. FDone(r, fes', bes, r.i - 1) /\ BDone(r, bes, r.i - 1)
    BY <1>9 DEF DonePorts
  <2>2. 1..r.i = (1..(r.i - 1)) \cup {r.i}
    BY <1>3, OtherPorts
  <2>3. /\ Wired(PortAt(r, r.i), f, fes', bes, r.s.ext)
        /\ fes'[f].conf = r.s.conf /\ fes'[f].acl = makeACLSpecs(r.s)
    BY <1>2, <1>6, <1>9 DEF Wired
  <2>4. FDone(r, fes', bes, r.i)
    <3> HIDE DEF r, f
    <3> QED BY <1>4, <2>1, <2>2, <2>3 DEF FDone
  <2>5. BDone(r, bes, r.i)
    BY <1>2, <2>1, <2>2 DEF BDone, InHand
  <2> QED BY <1>9, <2>4, <2>5 DEF DonePorts
<1>11. r.i \in 0..Len(ServicePorts(r.s)) /\ OnePerPort(r.s.ports)
  BY <1>3, OtherPorts DEF AtPort
<1>12. Progress(q, fes', bes', level')
  BY <1>1, <1>10, <1>11, AfterPortProgress DEF q
<1> QED BY <1>1, <1>5, <1>9, <1>12, CallMoves


-----------------------------------------------------------------------------
(***************************************************************************)
(* The end of a call.                                                      *)
(***************************************************************************)
\* The frontends of a call that has done all the ports point to backends of
\* node ports that the Service wants.
LEMMA Rewired ==
  ASSUME NEW r \in Call, OnePerPort(r.s.ports), NEW F, NEW B, FOnce(r, F),
         FWanted(r, F), FDone(r, F, B, Len(ServicePorts(r.s))),
         NEW i \in Managed(F, r.s.ext)
  PROVE  /\ F[i].be \in Managed(B, r.s.ext)
         /\ B[F[i].be].nodePort \in {PortAt(r, j).nodePort : j \in 1..Len(ServicePorts(r.s))}
<1>1. PICK j \in 1..Len(ServicePorts(r.s)) : PortAt(r, j).port = F[i].port
  <2>1. WantedPorts(r.s) = {PortAt(r, j).port : j \in
           {k \in 1..Len(ServicePorts(r.s)) : PortAt(r, k).tcp}}
    BY PortsOf
  <2>2. F[i].port \in WantedPorts(r.s)
    BY DEF FWanted, StaysF
  <2> QED BY <2>1, <2>2
<1>2. PICK k \in Ids : Wired(PortAt(r, j), k, F, B, r.s.ext)
  BY DEF FDone
<1>3. k = i
  BY <1>1, <1>2, NoneToRemove DEF Wired, FOnce
<1> QED BY <1>2, <1>3 DEF Wired

\* Node ports of TCP ports are wanted.
LEMMA AllWanted ==
  ASSUME NEW r \in Call, OnePerPort(r.s.ports), NEW B,
         BDone(r, B, Len(ServicePorts(r.s)))
  PROVE  /\ WantedPorts(r.s) = {PortAt(r, j).port : j \in 1..Len(ServicePorts(r.s))}
         /\ WantedNodePorts(r.s) = {PortAt(r, j).nodePort : j \in 1..Len(ServicePorts(r.s))}
         /\ serviceToLB(r.s) = {PortAt(r, j) : j \in 1..Len(ServicePorts(r.s))}
<1>1. \A j \in 1..Len(ServicePorts(r.s)) : PortAt(r, j).tcp
  BY DEF BDone
<1>2. {k \in 1..Len(ServicePorts(r.s)) : PortAt(r, k).tcp} = 1..Len(ServicePorts(r.s))
  BY <1>1
<1>3. DOMAIN ServicePorts(r.s) = 1..Len(ServicePorts(r.s))
  BY PortsOf
<1>4. serviceToLB(r.s) = {PortAt(r, j) : j \in 1..Len(ServicePorts(r.s))}
  BY <1>1, <1>3 DEF serviceToLB, PortAt
<1> QED BY <1>2, <1>4, PortsOf

LEMMA DeleteBackendGoes ==
  ASSUME NEW w \in Workers, Sound(w), DeleteBackend(w) PROVE Goes(w)
<1> DEFINE r == wk[w]
           i == SmallestOf(r.todo)
           N == Len(ServicePorts(r.s))
           todo2 == r.todo \ {i}
           pc2 == IF r.todo = {i} THEN "level" ELSE "delB"
           q == [r EXCEPT !.todo = todo2, !.pc = pc2]
<1>1. /\ r \in Call /\ OnePerPort(r.s.ports) /\ Progress(r, fes, bes, level)
      /\ r.pc = "delB" /\ r.s.ext = want.ext /\ TypeOK
      /\ CallOK(r, fes, bes, want.ext) /\ bes \in [Ids -> Objects(Backend)]
  BY CallState DEF DeleteBackend, Sound, TypeInv
<1>2. UNCHANGED <<want, fes, level>>
  BY DEF DeleteBackend
<1>3. i \in r.todo /\ i \in Ids
  BY <1>1, SmallestId DEF CallOK, Call
<1>4. CASE ReturnError(w) /\ UNCHANGED bes
  BY <1>1, <1>2, <1>4, ErrorGoes
<1>5. CASE ~ (ReturnError(w) /\ UNCHANGED bes)
  <2>1. bes' = [bes EXCEPT ![i] = Gone] /\ ~Referenced(i) /\ Update(w, q)
    BY <1>1, <1>5 DEF DeleteBackend, Call
  <2>2. /\ q.s = r.s /\ q.F = r.F /\ q.B = r.B /\ q.level = r.level
        /\ q.todo = todo2 /\ q.pc = pc2
    <3> HIDE DEF todo2, pc2
    <3> QED BY <1>1 DEF Call
  <2> HIDE DEF q, i
  <2>3. \A j \in Managed(bes', r.s.ext) : j # i /\ j \in Managed(bes, r.s.ext) /\ bes'[j] = bes[j]
    BY <1>1, <1>3, <2>1 DEF Managed, Existing
  <2>4. \A j \in Managed(bes, r.s.ext) : j # i => j \in Managed(bes', r.s.ext) /\ bes'[j] = bes[j]
    BY <1>1, <1>3, <2>1 DEF Managed, Existing
  <2>5. /\ FOnce(r, fes) /\ BOnce(r, bes)
        /\ FWanted(r, fes) /\ FDone(r, fes, bes, N) /\ BDone(r, bes, N) /\ BTodo(r, bes)
        /\ r.level = level
    BY <1>1 DEF Progress
  <2>6. \A f \in Existing(fes) : fes[f].be # i /\ fes[f].be \in Ids
    BY <1>1, <2>1 DEF Referenced, TypeOK, Existing
  <2>7. BOnce(r, bes')
    BY <2>3, <2>5 DEF BOnce, LiveB
  <2>8. FDone(r, fes, bes', N)
    <3>1. \A p, f : Wired(p, f, fes, bes, r.s.ext) => Wired(p, f, fes, bes', r.s.ext)
      BY <2>4, <2>6 DEF Wired, Managed
    <3> QED BY <2>5, <3>1 DEF FDone
  <2>9. BDone(r, bes', N)
    <3>1. ASSUME NEW j \in 1..N
          PROVE  PortAt(r, j).tcp /\ \E b \in LiveB(r, bes') : BReady(r, bes'[b], j)
      <4>1. PICK b \in LiveB(r, bes) : PortAt(r, j).tcp /\ BReady(r, bes[b], j)
        BY <2>5 DEF BDone
      <4>2. bes[b].nodePort \in WantedNodePorts(r.s)
        BY <1>1, <2>5, <4>1, AllWanted DEF BReady
      <4>3. b # i
        BY <1>3, <2>5, <4>2 DEF BTodo, StaysB, LiveB
      <4> QED BY <2>4, <4>1, <4>3 DEF LiveB
    <3> QED BY <3>1 DEF BDone
  <2>10. /\ FOnce(q, fes) /\ BOnce(q, bes')
         /\ FWanted(q, fes) /\ FDone(q, fes, bes', N) /\ BDone(q, bes', N)
    <3>1. /\ q.s = r.s /\ q.F = r.F /\ q.B = r.B /\ FOnce(r, fes) /\ FWanted(r, fes)
          /\ BOnce(r, bes') /\ FDone(r, fes, bes', N) /\ BDone(r, bes', N)
      BY <2>2, <2>5, <2>7, <2>8, <2>9
    <3> HIDE DEF N, r
    <3>2. FOnce(q, fes) /\ FWanted(q, fes) /\ FDone(q, fes, bes', N)
      BY <3>1, SameCall
    <3>3. BOnce(q, bes') /\ BDone(q, bes', N)
      BY <3>1, SameCall
    <3> QED BY <3>2, <3>3
  <2>11. \A j \in Managed(bes', r.s.ext) : StaysB(q, bes', j) <=> j \notin todo2
    <3>1. \A j : StaysB(q, bes', j) <=> StaysB(r, bes', j)
      BY <2>2, SameCall
    <3> QED BY <2>3, <2>5, <3>1 DEF BTodo, StaysB
  <2>12. Progress(q, fes, bes', level)
    <3>1. CASE r.todo = {i}
      <4>1. BWanted(q, bes')
        BY <2>2, <2>11, <3>1 DEF BWanted
      <4> QED BY <1>1, <2>2, <2>5, <2>10, <3>1, <4>1 DEF Progress, LoopPCs
    <3>2. CASE r.todo # {i}
      <4>1. BTodo(q, bes')
        BY <2>2, <2>11 DEF BTodo
      <4> QED BY <1>1, <2>2, <2>5, <2>10, <3>2, <4>1 DEF Progress, LoopPCs
    <3> QED BY <3>1, <3>2
  <2>13. Progress(q, fes', bes', level') /\ KeepsPorts(fes, fes', want.ext)
    BY <1>2, <2>12 DEF KeepsPorts
  <2> QED BY <1>1, <1>2, <2>1, <2>13, CallMoves
<1> QED BY <1>4, <1>5

\* The call forgets its lists: by now they name no duplicate that exists.
LEMMA SetLevelGoes ==
  ASSUME NEW w \in Workers, Sound(w), SetLevel(w) PROVE Goes(w)
<1> DEFINE r == wk[w]
           N == Len(ServicePorts(r.s))
           q == [r EXCEPT !.pc = "done", !.F = NoList, !.B = NoList, !.i = 0,
                          !.be = 0, !.fe = 0]
<1>1. r \in Call /\ Progress(r, fes, bes, level) /\ r.pc = "level" /\ TypeOK
  BY CallState DEF SetLevel, Sound, TypeInv
<1>2. /\ OnePerPort(r.s.ports) /\ r.level = level /\ FOnce(r, fes) /\ BOnce(r, bes)
      /\ FWanted(r, fes) /\ BWanted(r, bes) /\ FDone(r, fes, bes, N) /\ BDone(r, bes, N)
  BY <1>1 DEF Progress
<1>3. /\ Update(w, q) /\ UNCHANGED <<want, fes, bes>>
      /\ level' = IF ~r.s.ext /\ r.level # r.s.conf THEN r.s.conf ELSE level
  BY DEF SetLevel
<1>4. q.s = r.s /\ q.pc = "done" /\ q.F = NoList /\ q.B = NoList
  BY <1>1 DEF Call
<1> HIDE DEF q
<1>5. DupF(q) = {} /\ DupB(q) = {}
  BY <1>4 DEF DupF, DupB, ConsideredF, ConsideredB, Existing, NoList
<1>6. LiveF(q, fes) = LiveF(r, fes) /\ LiveB(q, bes) = LiveB(r, bes)
  BY <1>2, <1>4, <1>5 DEF LiveF, LiveB, FWanted, BWanted, StaysF, StaysB
<1>7. FOnce(q, fes) /\ BOnce(q, bes) /\ FWanted(q, fes) /\ BWanted(q, bes)
  BY <1>2, <1>4, <1>5, <1>6 DEF FOnce, BOnce, FWanted, BWanted, StaysF, StaysB
<1>8. FDone(q, fes, bes, N) /\ BDone(q, bes, N)
  BY <1>2, <1>4, <1>6 DEF FDone, BDone, BReady, PortAt
<1>9. Progress(q, fes, bes, level')
  BY <1>2, <1>3, <1>4, <1>7, <1>8 DEF Progress, LoopPCs
<1> QED BY <1>1, <1>3, <1>9, ObjectsKept

LEMMA ReturnGoes ==
  ASSUME NEW w \in Workers, Sound(w), Return(w) PROVE Goes(w)
BY ObjectsKept DEF Return, lbVars, NoCall, Sound, TypeInv

LEMMA FailGoes ==
  ASSUME NEW w \in Workers, Sound(w), Fail(w) PROVE Goes(w)
BY ErrorGoes DEF Fail, lbVars, Sound, TypeInv

LEMMA CallStep ==
  ASSUME NEW w \in Workers, Sound(w), Begin(w) \/ Step(w) \/ Fail(w) PROVE Goes(w)
<1>1. CASE Begin(w) \/ Fail(w)
  BY <1>1, BeginGoes, FailGoes
<1>2. CASE Step(w)
  BY <1>2, ListFrontendsGoes, ListBackendsGoes, DeleteFrontendGoes,
     UpdateBackendGoes, UpdateHealthCheckGoes, CreateBackendGoes,
     KeepBackendGoes, SetBackendServersGoes, UpdateFrontendGoes,
     CreateFrontendGoes, KeepFrontendGoes, reconcileACLsGoes,
     DeleteBackendGoes, SetLevelGoes, ReturnGoes DEF Step
<1> QED BY <1>1, <1>2

\* What users and nodes do to the Service says nothing of the calls in progress.
Edit == EditService \/ NodesChange \/ DeleteService

LEMMA UsersMove ==
  ASSUME TypeOK, DistinctPorts, OnePerPort(want.ports), Edit
  PROVE  /\ UNCHANGED <<fes, bes, level, wk>> /\ want'.ext = want.ext
         /\ OnePerPort(want.ports)'
<1>1. UNCHANGED <<fes, bes, level, wk>>
  BY DEF Edit, EditService, NodesChange, DeleteService, lbVars
<1>2. want \in Wanted
  BY DEF TypeOK
<1>3. ASSUME EditService PROVE want'.ext = want.ext /\ OnePerPort(want.ports)'
  <2>1. PICK s \in Specs :
          want' = [want EXCEPT !.ports = s.ports, !.conf = s.conf, !.acl = s.acl]
    BY <1>3 DEF EditService
  <2>2. want'.ext = want.ext /\ want'.ports = s.ports
    BY <1>2, <2>1 DEF Wanted
  <2> QED BY <2>2 DEF DistinctPorts
<1>4. ASSUME NodesChange PROVE want'.ext = want.ext /\ OnePerPort(want.ports)'
  <2>1. PICK p \in Pools : want' = [want EXCEPT !.pool = p]
    BY <1>4 DEF NodesChange
  <2>2. want'.ext = want.ext /\ want'.ports = want.ports
    BY <1>2, <2>1 DEF Wanted
  <2> QED BY <2>2
<1>5. ASSUME DeleteService PROVE want'.ext = want.ext /\ OnePerPort(want.ports)'
  <2>1. want' = [want EXCEPT !.deleting = TRUE]
    BY <1>5 DEF DeleteService
  <2>2. want'.ext = want.ext /\ want'.ports = want.ports
    BY <1>2, <2>1 DEF Wanted
  <2> QED BY <2>2
<1> QED BY <1>1, <1>3, <1>4, <1>5 DEF Edit

\* Whatever calls race, the owner's objects stay apart from the Service's.
LEMMA WorldStep == DistinctPorts /\ TypeInv /\ WorldInv /\ [Next]_vars => WorldInv'
<1> SUFFICES ASSUME DistinctPorts, TypeInv, WorldInv, [Next]_vars PROVE WorldInv'
  OBVIOUS
<1>1. NoCrossWiring' <=> Apart(fes', bes', want'.ext)
  BY DEF NoCrossWiring, Apart, Existing
<1>2. Apart(fes', bes', want'.ext)
  BY <1>1, TypeStep DEF WorldInv, Kept, NoCrossWiring, Apart
<1>3. OnePerPort(want.ports)'
  <2>1. CASE Edit
    BY <2>1, UsersMove DEF TypeInv, WorldInv
  <2>2. CASE UNCHANGED vars
    BY <2>2 DEF vars, WorldInv
  <2>3. ASSUME NEW w \in Workers, Begin(w) \/ Step(w) \/ Fail(w) PROVE want' = want
    BY <2>3, Zenon DEF Begin, Fail, Step, ListFrontends, ListBackends, DeleteFrontend,
       UpdateBackend, UpdateHealthCheck, CreateBackend, KeepBackend, SetBackendServers,
       UpdateFrontend, CreateFrontend, KeepFrontend, reconcileACLs, DeleteBackend,
       SetLevel, Return
  <2> QED BY <2>1, <2>2, <2>3 DEF Next, Edit, WorldInv
<1> QED BY <1>2, <1>3 DEF WorldInv

LEMMA WorldInit == DistinctPorts /\ Init => WorldInv
<1> SUFFICES ASSUME DistinctPorts, Init PROVE WorldInv
  OBVIOUS
<1>1. OnePerPort(want.ports)
  <2>1. PICK s \in Specs, p \in Pools, e \in ExtModes :
          want = [ports |-> s.ports, conf |-> s.conf, acl |-> s.acl, pool |-> p,
                  ext |-> e, deleting |-> FALSE]
    BY DEF Init
  <2> QED BY <2>1 DEF DistinctPorts
<1> QED BY <1>1, WiringInit DEF WorldInv, NoCrossWiring, Apart


-----------------------------------------------------------------------------
\* One object for each key: as many objects as keys.
LEMMA AsManyAs ==
  ASSUME NEW S, NEW T, IsFiniteSet(S), NEW key \in [S -> T],
         \A i, j \in S : key[i] = key[j] => i = j,
         \A t \in T : \E i \in S : key[i] = t
  PROVE  Cardinality(S) = Cardinality(T)
<1>1. key \in Bijection(S, T)
  BY DEF Bijection, Injection, Surjection, IsInjective
<1> QED BY <1>1, FS_Bijection DEF ExistsBijection

LEMMA FiniteIds == ASSUME NEW S \in SUBSET Ids PROVE IsFiniteSet(S)
<1>1. IsFiniteSet(Ids)
  BY ConstantsAssumption, FS_Interval DEF Ids
<1> QED BY <1>1, FS_Subset

\* A call that has done all and removed what it had to.
LEMMA DoneMatches ==
  ASSUME NEW w \in Workers, Sound(w), wk[w].pc = "done" PROVE Matches(wk[w].s)
<1> DEFINE r == wk[w]
           s == r.s
           N == Len(ServicePorts(s))
           MF == Managed(fes, s.ext)
           MB == Managed(bes, s.ext)
<1>1. /\ r \in Call /\ OnePerPort(s.ports) /\ Progress(r, fes, bes, level) /\ r.pc = "done"
  BY CallState
<1>2. /\ FOnce(r, fes) /\ BOnce(r, bes) /\ FWanted(r, fes) /\ BWanted(r, bes)
      /\ FDone(r, fes, bes, N) /\ BDone(r, bes, N)
      /\ s.ext \/ level = s.conf
  BY <1>1 DEF Progress
<1>3. ManagedF(s) = MF /\ ManagedB(s) = MB /\ LiveF(r, fes) = MF /\ LiveB(r, bes) = MB
  BY <1>2 DEF ManagedF, ManagedB, Managed, LiveF, LiveB, FWanted, BWanted, StaysF, StaysB
<1>4. /\ WantedPorts(s) = {PortAt(r, j).port : j \in 1..N}
      /\ WantedNodePorts(s) = {PortAt(r, j).nodePort : j \in 1..N}
      /\ serviceToLB(s) = {PortAt(r, j) : j \in 1..N}
  BY <1>1, <1>2, AllWanted
<1>5. \A p \in serviceToLB(s) : \E i \in MF :
        /\ fes[i].port = p.port /\ bes[fes[i].be].nodePort = p.nodePort
        /\ fes[i].conf = s.conf /\ fes[i].acl = makeACLSpecs(s) /\ fes[i].be \in MB
  BY <1>2, <1>4 DEF FDone, Wired
<1>6. \A i \in MB : bes[i].conf = s.conf /\ bes[i].health = s.conf /\ bes[i].pool = s.pool
  <2> SUFFICES ASSUME NEW i \in MB
               PROVE  bes[i].conf = s.conf /\ bes[i].health = s.conf /\ bes[i].pool = s.pool
    OBVIOUS
  <2>1. PICK j \in 1..N : PortAt(r, j).nodePort = bes[i].nodePort
    BY <1>2, <1>4 DEF BWanted, StaysB
  <2>2. PICK k \in MB : BReady(r, bes[k], j)
    BY <1>2, <1>3 DEF BDone
  <2>3. k = i
    BY <1>2, <1>3, <2>1, <2>2 DEF BReady, BOnce
  <2> QED BY <2>2, <2>3 DEF BReady
<1>7. Cardinality(MF) = Cardinality(WantedPorts(s))
  <2> DEFINE key == [i \in MF |-> fes[i].port]
  <2>1. IsFiniteSet(MF)
    BY FiniteIds DEF Managed, Existing
  <2>2. key \in [MF -> WantedPorts(s)]
    BY <1>2 DEF FWanted, StaysF
  <2>3. \A i, j \in MF : key[i] = key[j] => i = j
    BY <1>2, <1>3 DEF FOnce
  <2>4. \A t \in WantedPorts(s) : \E i \in MF : key[i] = t
    BY <1>2, <1>4 DEF FDone, Wired
  <2> HIDE DEF key, MF
  <2> QED BY <2>1, <2>2, <2>3, <2>4, AsManyAs
<1>8. Cardinality(MB) = Cardinality(WantedNodePorts(s))
  <2> DEFINE key == [i \in MB |-> bes[i].nodePort]
  <2>1. IsFiniteSet(MB)
    BY FiniteIds DEF Managed, Existing
  <2>2. key \in [MB -> WantedNodePorts(s)]
    BY <1>2 DEF BWanted, StaysB
  <2>3. \A i, j \in MB : key[i] = key[j] => i = j
    BY <1>2, <1>3 DEF BOnce
  <2>4. \A t \in WantedNodePorts(s) : \E i \in MB : key[i] = t
    BY <1>2, <1>3, <1>4 DEF BDone, BReady
  <2> HIDE DEF key, MB
  <2> QED BY <2>1, <2>2, <2>3, <2>4, AsManyAs
<1> HIDE DEF s, MF, MB
<1>9. Matches(s)
  BY <1>2, <1>3, <1>5, <1>6, <1>7, <1>8 DEF Matches
<1> QED BY <1>9 DEF s

-----------------------------------------------------------------------------
(***************************************************************************)
(* Calls that run alone after any that raced.                              *)
(***************************************************************************)
\* The steps of a call are those of one that is running, and leave the Service.
LEMMA StepOfCall ==
  ASSUME NEW w \in Workers, Step(w), ~Return(w)
  PROVE  wk[w].pc # "idle" /\ want' = want
<1>1. wk[w].pc # "idle"
  BY Zenon DEF Step, ListFrontends, ListBackends, DeleteFrontend, UpdateBackend,
     UpdateHealthCheck, CreateBackend, KeepBackend, SetBackendServers, UpdateFrontend,
     CreateFrontend, KeepFrontend, reconcileACLs, DeleteBackend, SetLevel
<1>2. want' = want
  BY Zenon DEF Step, ListFrontends, ListBackends, DeleteFrontend, UpdateBackend,
     UpdateHealthCheck, CreateBackend, KeepBackend, SetBackendServers, UpdateFrontend,
     CreateFrontend, KeepFrontend, reconcileACLs, DeleteBackend, SetLevel, lbVars
<1> QED BY <1>1, <1>2

LoneInv == \A w \in lone : w \in Workers /\ Running = {w} /\ OnCourse(w)

\* A step that leaves the LB and call w as they were.
LEMMA NothingMoves ==
  ASSUME NEW w \in Workers, UNCHANGED <<fes, bes, level>>, want'.ext = want.ext,
         wk'[w] = wk[w], OnCourse(w)
  PROVE  StillOnCourse(w) /\ CutsNone(w)
<1>1. StillOnCourse(w)
  BY DEF OnCourse, StillOnCourse
<1>2. ManagedF(want)' = ManagedF(want) /\ fes' = fes
  BY DEF ManagedF, Existing
<1>3. CutsNone(w)
  BY <1>2 DEF CutsNone, Served
<1> QED BY <1>1, <1>3

LEMMA OneMoves ==
  ASSUME TypeOK, NEW u \in Workers, Begin(u) \/ Step(u) \/ Fail(u)
  PROVE  /\ \A w \in Workers : w # u => wk'[w] = wk[w]
         /\ wk[u].pc = "idle" => UNCHANGED <<want, fes, bes, level>>
<1>1. wk \in [Workers -> Call \cup {NoCall}]
  BY DEF TypeOK
<1>2. \E r : Update(u, r)
  <2>1. CASE Begin(u)
    BY <2>1, Zenon DEF Begin
  <2>2. CASE Fail(u)
    BY <2>2 DEF Fail, ReturnError
  <2>3. CASE Step(u)
    BY <2>3, Zenon DEF Step, ListFrontends, ListBackends, DeleteFrontend, UpdateBackend,
       UpdateHealthCheck, CreateBackend, KeepBackend, SetBackendServers, UpdateFrontend,
       CreateFrontend, KeepFrontend, reconcileACLs, DeleteBackend, SetLevel, Return,
       ReturnError
  <2> QED BY <2>1, <2>2, <2>3
<1>3. wk[u].pc = "idle" => Begin(u)
  BY StepOfCall DEF Fail, Return
<1> QED BY <1>1, <1>2, <1>3 DEF Update, Begin, lbVars

\* A call that has been alone goes on, and so does one that begins alone:
\* another worker may only find, before it begins, that it has no call to make.
LEMMA LoneMoves ==
  ASSUME DistinctPorts, TypeInv, WorldInv, LoneInv, LoneNext,
         NEW w \in Workers,
         w \in lone \/ (wk[w].pc = "idle" /\ w \in lone')
  PROVE  Goes(w)
<1>1. OnCourse(w) /\ (w \in lone => Running = {w})
  BY DEF LoneInv, OnCourse
<1>2. Sound(w)
  BY <1>1 DEF Sound
<1>3. CASE Edit
  <2>1. UNCHANGED <<fes, bes, level, wk>> /\ want'.ext = want.ext
    BY <1>3, UsersMove DEF TypeInv, WorldInv
  <2> QED BY <1>1, <2>1, NothingMoves DEF Goes
<1>4. CASE Begin(w) \/ Step(w) \/ Fail(w)
  BY <1>2, <1>4, CallStep
<1>5. ASSUME NEW u \in Workers, u # w, Begin(u) \/ Step(u) \/ Fail(u) PROVE Goes(w)
  <2>1. wk'[w] = wk[w] /\ (wk[u].pc = "idle" => UNCHANGED <<want, fes, bes, level>>)
    BY <1>5, OneMoves DEF TypeInv
  <2>2. w \in lone
    BY <2>1 DEF LoneNext, Running
  <2>3. wk[u].pc = "idle"
    BY <1>1, <1>5, <2>2 DEF Running
  <2> QED BY <1>1, <2>1, <2>3, NothingMoves DEF Goes
<1> QED BY <1>3, <1>4, <1>5 DEF LoneNext, Next, Edit

LEMMA LoneStep ==
  DistinctPorts /\ TypeInv /\ WorldInv /\ LoneInv /\ [LoneNext]_loneVars => LoneInv'
<1> SUFFICES ASSUME DistinctPorts, TypeInv, WorldInv, LoneInv, [LoneNext]_loneVars,
                    NEW w \in lone'
             PROVE  w \in Workers /\ Running' = {w} /\ StillOnCourse(w)
  BY DEF LoneInv, OnCourse, StillOnCourse
<1>1. CASE UNCHANGED loneVars
  <2>1. lone' = lone /\ wk' = wk /\ fes' = fes /\ bes' = bes /\ level' = level
    BY <1>1 DEF loneVars, vars
  <2>2. Running' = Running
    BY <2>1 DEF Running
  <2> QED BY <2>1, <2>2 DEF LoneInv, OnCourse, StillOnCourse
<1>2. CASE LoneNext
  <2>1. w \in Workers /\ Running' = {w} /\ (w \in lone \/ wk[w].pc = "idle")
    BY <1>2 DEF LoneNext, Running
  <2> QED BY <1>2, <2>1, LoneMoves DEF Goes
<1> QED BY <1>1, <1>2

LEMMA LoneInvariants ==
  ASSUME DistinctPorts PROVE LoneSpec => [](TypeInv /\ WorldInv /\ LoneInv)
<1>1. LoneInit => TypeInv /\ WorldInv /\ LoneInv
  BY TypeInit, WorldInit DEF LoneInit, LoneInv
<1>2. [LoneNext]_loneVars => [Next]_vars
  BY DEF LoneNext, loneVars
<1>3. TypeInv /\ WorldInv /\ LoneInv /\ [LoneNext]_loneVars =>
        (TypeInv /\ WorldInv /\ LoneInv)'
  BY <1>2, TypeStep, WorldStep, LoneStep DEF Kept, TypeInv
<1> QED BY <1>1, <1>3, PTL DEF LoneSpec

\* Of any number of callers, for a Service whose TCP ports share neither port
\* nor node port with another: a call of updateLoadBalancer or
\* removeExternallyManagedResources that runs alone and returns nil leaves
\* exactly what its Service asks for, whatever frontends and backends, several
\* on a port too, the calls that raced before it have left.
THEOREM LoneCallSucceeds ==
  ASSUME DistinctPorts PROVE LoneSpec => []LoneCallMatches
<1>1. TypeInv /\ WorldInv /\ LoneInv => LoneCallMatches
  BY DoneMatches DEF LoneInv, LoneCallMatches, Sound
<1> QED BY <1>1, LoneInvariants, PTL

\* Nor does it cut a port that it wants, whatever it removes.
THEOREM LoneCallServes ==
  ASSUME DistinctPorts PROVE LoneSpec => LoneCallKeepsServing
<1> DEFINE Keeps == \A w \in lone : \A port \in WantedPorts(wk[w].s) :
                      Served(port) => Served(port)'
<1>1. TypeInv /\ WorldInv /\ LoneInv /\ [LoneNext]_loneVars => [Keeps]_loneVars
  <2> SUFFICES ASSUME TypeInv, WorldInv, LoneInv, LoneNext, NEW w \in lone
               PROVE  CutsNone(w)
    BY DEF CutsNone
  <2>1. w \in Workers
    BY DEF LoneInv
  <2> QED BY <2>1, LoneMoves DEF Goes
<1> QED BY <1>1, LoneInvariants, PTL DEF LoneSpec, LoneCallKeepsServing

-----------------------------------------------------------------------------
(***************************************************************************)
(* Calls that are made one at a time: each of them is alone.               *)
(***************************************************************************)
OneCaller == \A v, w \in Workers : v = w

Inv == TypeInv /\ WorldInv /\ \A w \in Workers : OnCourse(w)

LEMMA InvInit == DistinctPorts /\ Init => Inv
<1> SUFFICES ASSUME DistinctPorts, Init PROVE Inv
  OBVIOUS
<1>1. TypeInv /\ WorldInv
  BY TypeInit, WorldInit
<1>2. \A w \in Workers : wk[w].pc = "idle"
  BY DEF Init, NoCall
<1> QED BY <1>1, <1>2 DEF Inv, OnCourse

\* Whoever moves, the calls stay on their course and cut no port.
LEMMA AllGo ==
  ASSUME OneCaller, DistinctPorts, Inv, [Next]_vars, NEW w \in Workers PROVE Goes(w)
<1>1. Sound(w) /\ OnCourse(w)
  BY DEF Inv, Sound
<1>2. CASE Edit \/ UNCHANGED vars
  <2>1. UNCHANGED <<fes, bes, level, wk>> /\ want'.ext = want.ext
    <3>1. CASE Edit
      BY <3>1, UsersMove DEF Inv, TypeInv, WorldInv
    <3>2. CASE UNCHANGED vars
      BY <3>2 DEF vars
    <3> QED BY <1>2, <3>1, <3>2
  <2> QED BY <1>1, <2>1, NothingMoves DEF Goes
<1>3. ASSUME NEW u \in Workers, Begin(u) \/ Step(u) \/ Fail(u) PROVE Goes(w)
  <2>1. u = w
    BY DEF OneCaller
  <2> QED BY <1>1, <1>3, <2>1, CallStep
<1> QED BY <1>2, <1>3 DEF Next, Edit

LEMMA InvStep ==
  ASSUME OneCaller, DistinctPorts PROVE Inv /\ [Next]_vars => Inv'
<1> SUFFICES ASSUME Inv, [Next]_vars PROVE Inv'
  OBVIOUS
<1>1. TypeInv' /\ WorldInv'
  BY TypeStep, WorldStep DEF Inv, Kept, TypeInv
<1>2. ASSUME NEW w \in Workers PROVE OnCourse(w)'
  BY AllGo DEF Goes, StillOnCourse, OnCourse
<1> QED BY <1>1, <1>2 DEF Inv

\* Calls made one at a time, for a Service whose TCP ports share neither port
\* nor node port with another: a call of updateLoadBalancer or
\* removeExternallyManagedResources that returns nil leaves exactly what its
\* Service asks for, wherever earlier calls were interrupted and whatever the
\* Service and the nodes became in the meantime.
THEOREM OneCallMatches ==
  ASSUME OneCaller, DistinctPorts PROVE Spec => []SuccessMeansMatch
<1>1. Inv => SuccessMeansMatch
  BY DoneMatches DEF SuccessMeansMatch, Inv, Sound
<1>2. Init => Inv
  BY InvInit
<1>3. Inv /\ [Next]_vars => Inv'
  BY InvStep
<1> QED BY <1>1, <1>2, <1>3, PTL DEF Spec

\* A port that the Service wants and that has a frontend keeps one at every
\* step of every reconciliation.
THEOREM OneCallKeepsServing ==
  ASSUME OneCaller, DistinctPorts PROVE Spec => NoOutage
<1> DEFINE Keeps == \A port \in WantedPorts(want) :
                      /\ Served(port)
                      /\ \A w \in Workers : wk[w].pc # "idle" => port \in WantedPorts(wk[w].s)
                      => Served(port)' \/ want' # want
<1>1. Inv /\ [Next]_vars => [Keeps]_vars
  <2> SUFFICES ASSUME Inv, [Next]_vars, want' = want, NEW port, Served(port),
                      \A w \in Workers : wk[w].pc # "idle" => port \in WantedPorts(wk[w].s)
               PROVE  Served(port)'
    OBVIOUS
  <2>1. CASE \E w \in Workers : wk[w].pc # "idle"
    BY <2>1, AllGo DEF Goes, CutsNone
  <2>2. CASE \A w \in Workers : wk[w].pc = "idle"
    <3>1. UNCHANGED <<fes, want>>
      <4>1. ASSUME NEW u \in Workers, Begin(u) \/ Step(u) \/ Fail(u) PROVE fes' = fes
        BY <2>2, <4>1, OneMoves DEF Inv, TypeInv
      <4>2. Edit => fes' = fes
        BY UsersMove DEF Inv, TypeInv, WorldInv
      <4> QED BY <4>1, <4>2 DEF Next, Edit, vars
    <3> QED BY <3>1 DEF Served, ManagedF, Existing
  <2> QED BY <2>1, <2>2
<1>2. Init => Inv
  BY InvInit
<1>3. Inv /\ [Next]_vars => Inv'
  BY InvStep
<1> QED BY <1>1, <1>2, <1>3, PTL DEF Spec, NoOutage

-----------------------------------------------------------------------------
(***************************************************************************)
(* At rest.  While nothing is left to do after the call in progress, that  *)
(* call is for the Service and the nodes as they are now.                  *)
(***************************************************************************)
RestInv ==
  pending = {} => \A w \in Workers : IF wk[w].pc = "idle" THEN Matches(want)
                                                          ELSE wk[w].s = want

\* A call keeps the Service it was made for and the backends it has listed, or
\* fails and is due again.
CallGoesOn(w) == \/ ReturnError(w)
                 \/ /\ pending' = pending /\ wk'[w].pc # "idle" /\ wk'[w].s = wk[w].s
                    /\ wk'[w].B \in {wk[w].B, bes, NoList}

LEMMA ServiceStays ==
  ASSUME TypeInv, NEW w \in Workers, Step(w), ~Return(w)
  PROVE  CallGoesOn(w) /\ want' = want
<1> DEFINE r == wk[w]
<1>1. /\ \A q : Update(w, q) => wk'[w] = q
      /\ r.pc # "idle" => r \in Call
  BY CallRecords DEF Update, TypeInv, TypeOK
<1>2. r \in Call
  BY <1>1, StepOfCall
<1> SUFFICES CallGoesOn(w)
  BY StepOfCall
<1>4. ASSUME NEW q, Update(w, q), q.s = r.s, q.B \in {r.B, bes, NoList},
             q.pc # "idle", pending' = pending
      PROVE  CallGoesOn(w)
  BY <1>1, <1>4 DEF CallGoesOn
<1>5. ASSUME NEW q \in Call, NEW k \in Nat
      PROVE  AfterPort(q, k).s = q.s /\ AfterPort(q, k).B = q.B /\ AfterPort(q, k).pc # "idle"
  <2> DEFINE rm == RemoveB(q.B, q.s)
             n == k + 1
  <2>1. /\ [q EXCEPT !.pc = "backend", !.i = n, !.be = 0, !.fe = 0].s = q.s
        /\ [q EXCEPT !.pc = "backend", !.i = n, !.be = 0, !.fe = 0].B = q.B
        /\ [q EXCEPT !.pc = "backend", !.i = n, !.be = 0, !.fe = 0].pc = "backend"
        /\ [q EXCEPT !.pc = "delB", !.todo = rm].s = q.s /\ [q EXCEPT !.pc = "delB", !.todo = rm].B = q.B
        /\ [q EXCEPT !.pc = "delB", !.todo = rm].pc = "delB"
        /\ [q EXCEPT !.pc = "level"].s = q.s /\ [q EXCEPT !.pc = "level"].B = q.B
        /\ [q EXCEPT !.pc = "level"].pc = "level"
    <3> HIDE DEF rm, n
    <3> QED BY DEF Call
  <2> QED BY <2>1 DEF AfterPort
<1>6. CASE ListFrontends(w)
  <2> DEFINE L == [i \in Ids |-> IF i \notin Existing(fes) THEN fes[i]
                      ELSE [f |-> fes[i], nodePort |-> bes[fes[i].be].nodePort]]
             q == [r EXCEPT !.pc = "listB", !.F = L]
  <2>1. Update(w, q) /\ pending' = pending
    BY <1>6 DEF ListFrontends
  <2>2. q.s = r.s /\ q.B = r.B /\ q.pc = "listB"
    <3> HIDE DEF L
    <3> QED BY <1>2 DEF Call
  <2> HIDE DEF q
  <2> QED BY <1>4, <2>1, <2>2
<1>7. CASE ListBackends(w)
  <2> DEFINE l == [r EXCEPT !.B = bes]
             rm == RemoveF(l.F, l.s)
             q == [l EXCEPT !.pc = "delF", !.todo = rm]
             a == AfterPort(l, 0)
  <2>1. Update(w, IF rm # {} THEN q ELSE a) /\ pending' = pending
    BY <1>7 DEF ListBackends
  <2>2. l \in Call /\ l.s = r.s /\ l.B = bes
    BY <1>2 DEF Call, TypeInv, TypeOK
  <2>3. q.s = r.s /\ q.B = bes /\ q.pc = "delF"
    <3> HIDE DEF l, rm
    <3> QED BY <2>2 DEF Call
  <2>4. a.s = r.s /\ a.B = bes /\ a.pc # "idle"
    <3> HIDE DEF l
    <3> QED BY <1>5, <2>2
  <2> HIDE DEF q, a, rm, l
  <2> QED BY <1>4, <2>1, <2>3, <2>4
<1>8. CASE DeleteFrontend(w)
  <2> DEFINE i == SmallestOf(r.todo)
             last == [r EXCEPT !.todo = {}]
             a == AfterPort(last, 0)
             q == [r EXCEPT !.todo = @ \ {i}]
  <2>1. \/ ReturnError(w)
        \/ Update(w, IF r.todo = {i} THEN a ELSE q) /\ pending' = pending
    BY <1>8 DEF DeleteFrontend
  <2>2. last \in Call /\ last.s = r.s /\ last.B = r.B
    BY <1>2 DEF Call
  <2>3. a.s = r.s /\ a.B = r.B /\ a.pc # "idle"
    <3> HIDE DEF last
    <3> QED BY <1>5, <2>2
  <2>4. q.s = r.s /\ q.B = r.B /\ q.pc # "idle"
    <3> HIDE DEF i
    <3> QED BY <1>2 DEF Call, PCs
  <2> HIDE DEF a, q, i
  <2> QED BY <1>4, <2>1, <2>3, <2>4 DEF CallGoesOn
<1>9. CASE reconcileACLs(w)
  <2> DEFINE a == AfterPort(r, r.i)
  <2>1. ReturnError(w) \/ (Update(w, a) /\ pending' = pending)
    BY <1>9 DEF reconcileACLs
  <2>2. a.s = r.s /\ a.B = r.B /\ a.pc # "idle"
    BY <1>2, <1>5 DEF Call
  <2> HIDE DEF a
  <2> QED BY <1>4, <2>1, <2>2 DEF CallGoesOn
<1>10. CASE SetLevel(w)
  <2> DEFINE q == [r EXCEPT !.pc = "done", !.F = NoList, !.B = NoList, !.i = 0,
                            !.be = 0, !.fe = 0]
  <2>1. Update(w, q) /\ pending' = pending
    BY <1>10 DEF SetLevel
  <2>2. q.s = r.s /\ q.B = NoList /\ q.pc = "done"
    BY <1>2 DEF Call
  <2> HIDE DEF q
  <2> QED BY <1>4, <2>1, <2>2
<1>11. CASE UpdateBackend(w)
  <2>1. PICK i : \/ ReturnError(w)
                 \/ /\ Update(w, [r EXCEPT !.pc = "health", !.be = i, !.pool = bes[i].pool])
                    /\ pending' = pending
    BY <1>11 DEF UpdateBackend
  <2> DEFINE p == bes[i].pool
             q == [r EXCEPT !.pc = "health", !.be = i, !.pool = p]
  <2>2. q.s = r.s /\ q.B = r.B /\ q.pc = "health"
    <3> HIDE DEF p
    <3> QED BY <1>2 DEF Call
  <2>3. ReturnError(w) \/ (Update(w, q) /\ pending' = pending)
    BY <2>1
  <2> HIDE DEF q
  <2> QED BY <1>4, <2>2, <2>3 DEF CallGoesOn
<1>12. CASE UpdateHealthCheck(w) \/ SetBackendServers(w)
  <2>1. \/ ReturnError(w)
        \/ \E pc \in {"servers", "frontend"} : Update(w, [r EXCEPT !.pc = pc])
                                               /\ pending' = pending
    BY <1>12 DEF UpdateHealthCheck, SetBackendServers
  <2>2. \A pc : /\ [r EXCEPT !.pc = pc].s = r.s /\ [r EXCEPT !.pc = pc].B = r.B
                /\ [r EXCEPT !.pc = pc].pc = pc
    BY <1>2 DEF Call
  <2> QED BY <1>4, <2>1, <2>2 DEF CallGoesOn
<1>13. CASE CreateBackend(w) \/ KeepBackend(w)
  <2>1. PICK i, p : \/ ReturnError(w)
                    \/ /\ Update(w, [r EXCEPT !.pc = "servers", !.be = i, !.pool = p])
                       /\ pending' = pending
    BY <1>13, Zenon DEF CreateBackend, KeepBackend
  <2> DEFINE q == [r EXCEPT !.pc = "servers", !.be = i, !.pool = p]
  <2>2. q.s = r.s /\ q.B = r.B /\ q.pc = "servers"
    BY <1>2 DEF Call
  <2>3. ReturnError(w) \/ (Update(w, q) /\ pending' = pending)
    BY <2>1
  <2> HIDE DEF q
  <2> QED BY <1>4, <2>2, <2>3 DEF CallGoesOn
<1>14. CASE UpdateFrontend(w) \/ CreateFrontend(w) \/ KeepFrontend(w)
  <2>1. \E i : \/ ReturnError(w)
               \/ Update(w, [r EXCEPT !.pc = "acl", !.fe = i]) /\ pending' = pending
    <3>1. CASE UpdateFrontend(w)
      BY <3>1, Zenon DEF UpdateFrontend
    <3>2. CASE CreateFrontend(w)
      BY <3>2, Zenon DEF CreateFrontend
    <3>3. CASE KeepFrontend(w)
      BY <3>3, Zenon DEF KeepFrontend
    <3> QED BY <1>14, <3>1, <3>2, <3>3
  <2>2. PICK i : \/ ReturnError(w)
                 \/ Update(w, [r EXCEPT !.pc = "acl", !.fe = i]) /\ pending' = pending
    BY <2>1
  <2> DEFINE q == [r EXCEPT !.pc = "acl", !.fe = i]
  <2>3. q.s = r.s /\ q.B = r.B /\ q.pc = "acl"
    BY <1>2 DEF Call
  <2>4. ReturnError(w) \/ (Update(w, q) /\ pending' = pending)
    BY <2>2
  <2> HIDE DEF q
  <2> QED BY <1>4, <2>3, <2>4 DEF CallGoesOn
<1>15. CASE DeleteBackend(w)
  <2> DEFINE i == SmallestOf(r.todo)
             pc == IF r.todo = {i} THEN "level" ELSE r.pc
             t == r.todo \ {i}
             q == [r EXCEPT !.todo = t, !.pc = pc]
  <2>1. ReturnError(w) \/ (Update(w, q) /\ pending' = pending)
    <3>1. [r EXCEPT !.todo = @ \ {i}, !.pc = IF r.todo = {i} THEN "level" ELSE @] = q
      BY <1>2 DEF Call
    <3> QED BY <1>15, <3>1 DEF DeleteBackend
  <2>2. pc # "idle"
    BY <1>15 DEF DeleteBackend
  <2>3. q.s = r.s /\ q.B = r.B /\ q.pc = pc
    <3> HIDE DEF t, pc
    <3> QED BY <1>2 DEF Call
  <2> HIDE DEF q, pc
  <2> QED BY <1>4, <2>1, <2>2, <2>3 DEF CallGoesOn
<1> QED
  BY <1>6, <1>7, <1>8, <1>9, <1>10, <1>11, <1>12, <1>13, <1>14, <1>15 DEF Step

\* What the LB is depends on its objects and on its level only.
LEMMA MatchesFrame ==
  ASSUME UNCHANGED <<want, fes, bes, level>>
  PROVE  Matches(want)' <=> Matches(want)
<1>1. ManagedF(want)' = ManagedF(want) /\ ManagedB(want)' = ManagedB(want)
  BY DEF ManagedF, ManagedB, Existing
<1>2. want' = want /\ fes' = fes /\ bes' = bes /\ level' = level
  OBVIOUS
<1> QED BY <1>1, <1>2 DEF Matches

LEMMA RestNext ==
  ASSUME OneCaller, DistinctPorts, Inv, RestInv, [Next]_vars
  PROVE  RestInv'
<1> SUFFICES ASSUME pending' = {}, NEW v \in Workers
             PROVE  IF wk'[v].pc = "idle" THEN Matches(want)' ELSE wk'[v].s = want'
  BY DEF RestInv
<1>1. \A u \in Workers : u = v
  BY DEF OneCaller
<1>2. wk \in [Workers -> Call \cup {NoCall}] /\ pending \subseteq Workers /\ SvcWorker = v
  BY <1>1 DEF Inv, TypeInv, TypeOK, Workers
<1>3. CASE UNCHANGED vars
  <2>1. UNCHANGED <<want, fes, bes, level, pending>> /\ wk'[v] = wk[v]
    BY <1>3 DEF vars, lbVars
  <2>2. Matches(want)' <=> Matches(want)
    BY <2>1, MatchesFrame
  <2> QED BY <2>1, <2>2, Zenon DEF RestInv
<1>4. CASE EditService \/ NodesChange \/ DeleteService
  BY <1>1, <1>2, <1>4 DEF EditService, NodesChange, DeleteService, Workers
<1>5. CASE Begin(v)
  <2>1. v \notin NodeSyncs
    BY <1>2, ConstantsAssumption
  <2>2. wk'[v] = NewCall
    BY <1>2, <1>5, <2>1 DEF Begin, Update
  <2>3. wk'[v].pc = "listF" /\ wk'[v].s = want
    BY <2>2 DEF NewCall
  <2> QED BY <1>5, <2>3 DEF Begin
<1>6. CASE Fail(v) \/ ReturnError(v)
  BY <1>6 DEF Fail, ReturnError
<1>7. CASE Return(v)
  <2>1. wk[v].pc = "done" /\ wk'[v] = NoCall /\ UNCHANGED <<want, fes, bes, level, pending>>
    BY <1>2, <1>7 DEF Return, Update, lbVars
  <2>2. Matches(wk[v].s)
    BY <2>1, DoneMatches DEF Inv, Sound
  <2>3. wk[v].s = want
    BY <2>1 DEF RestInv
  <2>4. Matches(want)'
    BY <2>1, <2>2, <2>3, MatchesFrame
  <2> QED BY <2>1, <2>4 DEF NoCall
<1>8. CASE Step(v) /\ ~Return(v) /\ ~ReturnError(v)
  <2>1. pending = {} /\ wk'[v].pc # "idle" /\ wk'[v].s = wk[v].s /\ want' = want
    BY <1>8, ServiceStays DEF CallGoesOn, Inv
  <2>2. wk[v].pc # "idle"
    BY <1>8, StepOfCall
  <2> QED BY <2>1, <2>2 DEF RestInv
<1> QED BY <1>1, <1>3, <1>4, <1>5, <1>6, <1>7, <1>8 DEF Next

\* When no call is left to make and none is in progress, the LB is exactly
\* what the Service and the nodes ask for now, whatever edits, changes of
\* nodes and failures went before (the retries of the service controller
\* around updateLoadBalancer).
THEOREM AtRestMatches ==
  ASSUME OneCaller, DistinctPorts PROVE Spec => []MatchesAtRest
<1>1. Init => Inv
  BY InvInit
<1>2. Inv /\ [Next]_vars => Inv'
  BY InvStep
<1>3. Init => RestInv
  BY DEF Init, RestInv
<1>4. Inv /\ RestInv /\ [Next]_vars => RestInv'
  BY RestNext
<1>5. RestInv => MatchesAtRest
  BY DEF RestInv, MatchesAtRest, AtRest, Workers
<1> QED BY <1>1, <1>2, <1>3, <1>4, <1>5, PTL DEF Spec

-----------------------------------------------------------------------------
(***************************************************************************)
(* Frontends are rewired before backends are removed.  A backend that is   *)
(* removed as a duplicate could be in use, but calls that are made one at  *)
(* a time leave no duplicates.                                             *)
(***************************************************************************)
BackendsOnce ==
  \A i, j \in Managed(bes, want.ext) : bes[i].nodePort = bes[j].nodePort => i = j

NoDuplicates ==
  BackendsOnce /\ \A w \in Workers : wk[w].pc # "idle" => DupB(wk[w]) = {}

\* The steps that write backends are those of a call that has listed them.
LEMMA BackendWriters ==
  ASSUME TypeInv, NEW w \in Workers, Begin(w) \/ Step(w) \/ Fail(w), bes' # bes
  PROVE  wk'[w].pc \in LoopPCs \cup {"delB", "level"}
<1> DEFINE r == wk[w]
<1>1. /\ \A q : Update(w, q) => wk'[w] = q
      /\ r.pc # "idle" => r \in Call
  BY CallRecords DEF Update, TypeInv, TypeOK
<1>2. CASE UpdateBackend(w)
  <2>1. PICK i : Update(w, [r EXCEPT !.pc = "health", !.be = i, !.pool = bes[i].pool])
    BY <1>2 DEF UpdateBackend
  <2> DEFINE p == bes[i].pool
  <2>2. r \in Call
    BY <1>1, <1>2 DEF UpdateBackend
  <2>3. [r EXCEPT !.pc = "health", !.be = i, !.pool = p].pc = "health"
    <3> HIDE DEF p
    <3> QED BY <2>2 DEF Call
  <2> QED BY <1>1, <2>1, <2>3 DEF LoopPCs
<1>3. CASE UpdateHealthCheck(w) \/ SetBackendServers(w)
  <2>1. r \in Call /\ \E pc \in {"servers", "frontend"} : Update(w, [r EXCEPT !.pc = pc])
    BY <1>1, <1>3 DEF UpdateHealthCheck, SetBackendServers
  <2>2. \A pc : [r EXCEPT !.pc = pc].pc = pc
    BY <2>1 DEF Call
  <2> QED BY <1>1, <2>1, <2>2 DEF LoopPCs
<1>4. CASE CreateBackend(w)
  <2>1. PICK i, p : Update(w, [r EXCEPT !.pc = "servers", !.be = i, !.pool = p])
    BY <1>4, Zenon DEF CreateBackend
  <2>2. r \in Call
    BY <1>1, <1>4 DEF CreateBackend
  <2>3. [r EXCEPT !.pc = "servers", !.be = i, !.pool = p].pc = "servers"
    BY <2>2 DEF Call
  <2> QED BY <1>1, <2>1, <2>3 DEF LoopPCs
<1>5. CASE DeleteBackend(w)
  <2> DEFINE i == SmallestOf(r.todo)
             pc == IF r.todo = {i} THEN "level" ELSE r.pc
             t == r.todo \ {i}
             q == [r EXCEPT !.todo = t, !.pc = pc]
  <2>1. r \in Call /\ pc \in {"level", "delB"}
    BY <1>1, <1>5 DEF DeleteBackend
  <2>2. Update(w, q)
    <3>1. [r EXCEPT !.todo = @ \ {i}, !.pc = IF r.todo = {i} THEN "level" ELSE @] = q
      BY <2>1 DEF Call
    <3> QED BY <1>5, <3>1 DEF DeleteBackend
  <2>3. q.pc = pc
    <3> HIDE DEF t, pc
    <3> QED BY <2>1 DEF Call
  <2> HIDE DEF q, pc
  <2> QED BY <1>1, <2>1, <2>2, <2>3
<1>6. \/ UpdateBackend(w) \/ UpdateHealthCheck(w) \/ SetBackendServers(w)
      \/ CreateBackend(w) \/ DeleteBackend(w)
  <2>1. CASE Begin(w) \/ Fail(w)
    BY <2>1 DEF Begin, Fail, lbVars
  <2>2. CASE Step(w)
    BY <2>2 DEF Step, ListFrontends, ListBackends, DeleteFrontend, KeepBackend,
       UpdateFrontend, CreateFrontend, KeepFrontend, reconcileACLs, SetLevel, Return, lbVars
  <2> QED BY <2>1, <2>2
<1> QED BY <1>2, <1>3, <1>4, <1>5, <1>6

LEMMA NoListOnce == ASSUME NEW r, r.B = NoList PROVE DupB(r) = {}
BY DEF DupB, ConsideredB, Existing, NoList

LEMMA NoDuplicatesInit == Init => NoDuplicates
<1> SUFFICES ASSUME Init PROVE NoDuplicates
  OBVIOUS
<1>1. \A i \in Existing(bes) : i = 1
  BY DEF Init, NoList, Existing
<1>2. \A w \in Workers : wk[w].pc = "idle"
  BY DEF Init, NoCall
<1> QED BY <1>1, <1>2 DEF NoDuplicates, BackendsOnce, Managed

LEMMA NoDuplicatesStep ==
  ASSUME OneCaller, DistinctPorts
  PROVE  Inv /\ NoDuplicates /\ [Next]_vars => NoDuplicates'
<1> SUFFICES ASSUME Inv, NoDuplicates, [Next]_vars PROVE NoDuplicates'
  OBVIOUS
<1>1. CASE Edit \/ UNCHANGED vars
  <2>1. UNCHANGED <<bes, wk>> /\ want'.ext = want.ext
    <3>1. CASE Edit
      BY <3>1, UsersMove DEF Inv, TypeInv, WorldInv
    <3>2. CASE UNCHANGED vars
      BY <3>2 DEF vars
    <3> QED BY <1>1, <3>1, <3>2
  <2>2. Managed(bes, want.ext)' = Managed(bes, want.ext)
    BY <2>1 DEF Managed, Existing
  <2> QED BY <2>1, <2>2 DEF NoDuplicates, BackendsOnce
<1>2. ASSUME NEW w \in Workers, Begin(w) \/ Step(w) \/ Fail(w) PROVE NoDuplicates'
  <2>1. want' = want /\ \A u \in Workers : u = w
    <3>1. Begin(w) \/ Fail(w) \/ Return(w) => want' = want
      BY DEF Begin, Fail, Return
    <3>2. Step(w) /\ ~Return(w) => want' = want
      BY StepOfCall
    <3> QED BY <1>2, <3>1, <3>2 DEF OneCaller
  <2> SUFFICES /\ \A i, j \in Managed(bes', want.ext) :
                    bes'[i].nodePort = bes'[j].nodePort => i = j
               /\ wk'[w].pc # "idle" => DupB(wk'[w]) = {}
    BY <2>1 DEF NoDuplicates, BackendsOnce, Managed, Existing
  <2>2. wk'[w].pc # "idle" => DupB(wk'[w]) = {}
    <3> SUFFICES ASSUME wk'[w].pc # "idle" PROVE DupB(wk'[w]) = {}
      OBVIOUS
    <3>1. \A q : Update(w, q) => wk'[w] = q
      BY DEF Update, Inv, TypeInv, TypeOK
    <3>2. CASE Begin(w)
      <4>1. wk'[w] = NewCall
        BY <3>1, <3>2 DEF Begin, NoCall
      <4> QED BY <4>1, NoListOnce DEF NewCall
    <3>3. CASE Fail(w) \/ Return(w) \/ ReturnError(w)
      BY <3>1, <3>3 DEF Fail, Return, ReturnError, NoCall
    <3>4. CASE Step(w) /\ ~Return(w) /\ ~ReturnError(w)
      <4>1. /\ wk[w].pc # "idle" /\ wk'[w].s = wk[w].s
            /\ wk'[w].B \in {wk[w].B, bes, NoList}
        BY <3>4, ServiceStays, StepOfCall DEF CallGoesOn, Inv
      <4>2. CASE wk'[w].B = wk[w].B
        BY <4>1, <4>2 DEF DupB, NoDuplicates
      <4>3. CASE wk'[w].B = bes
        <5>1. wk[w].s.ext = want.ext
          BY <4>1, CallState DEF Inv, Sound
        <5>2. ConsideredB(bes, wk[w].s) = Managed(bes, want.ext)
          BY <5>1 DEF ConsideredB, Managed
        <5>3. FirstB(bes, wk[w].s) = Managed(bes, want.ext)
          BY <5>2 DEF FirstB, NoDuplicates, BackendsOnce, Managed, Existing, Ids
        <5> QED BY <4>1, <4>3, <5>2, <5>3 DEF DupB
      <4>4. CASE wk'[w].B = NoList
        BY <4>4, NoListOnce
      <4> QED BY <4>1, <4>2, <4>3, <4>4
    <3> QED BY <1>2, <3>2, <3>3, <3>4
  <2>3. CASE bes' = bes
    BY <2>2, <2>3 DEF NoDuplicates, BackendsOnce
  <2>4. CASE bes' # bes
    <3>1. wk'[w].pc \in LoopPCs \cup {"delB", "level"}
      BY <1>2, <2>4, BackendWriters DEF Inv
    <3>2. Progress(wk'[w], fes', bes', level')
      BY <3>1, AllGo DEF Goes, StillOnCourse, LoopPCs
    <3>3. BOnce(wk'[w], bes')
      BY <3>1, <3>2 DEF Progress, Loop, DonePorts, LoopPCs
    <3>4. wk'[w].s.ext = want.ext
      <4>1. TypeInv' /\ wk'[w].pc # "idle"
        BY <3>1, TypeStep DEF Inv, Kept, TypeInv, LoopPCs
      <4>2. wk'[w].s.ext = want'.ext
        BY <4>1 DEF TypeInv, CallInv, CallOK
      <4> QED BY <2>1, <4>2
    <3>5. DupB(wk'[w]) = {}
      BY <2>2, <3>1 DEF LoopPCs
    <3> QED BY <2>2, <3>3, <3>4, <3>5 DEF BOnce, LiveB
  <2> QED BY <2>3, <2>4
<1> QED BY <1>1, <1>2 DEF Next, Edit

LEMMA ToRemoveUnreferenced ==
  ASSUME Inv, NoDuplicates, NEW w \in Workers, wk[w].pc = "delB", NEW i \in wk[w].todo
  PROVE  ~Referenced(i)
<1> DEFINE r == wk[w]
<1> SUFFICES ASSUME NEW f \in Existing(fes), fes[f].be = i PROVE FALSE
  BY DEF Referenced
<1>1. /\ r \in Call /\ OnePerPort(r.s.ports) /\ Progress(r, fes, bes, level)
      /\ Apart(fes, bes, r.s.ext) /\ r.pc = "delB" /\ r.s.ext = want.ext
      /\ CallOK(r, fes, bes, want.ext) /\ i \in Existing(bes)
  BY CallState DEF Inv, Sound
<1>2. /\ FOnce(r, fes) /\ FWanted(r, fes) /\ BTodo(r, bes)
      /\ FDone(r, fes, bes, Len(ServicePorts(r.s))) /\ BDone(r, bes, Len(ServicePorts(r.s)))
  BY <1>1 DEF Progress
<1>3. i \in Managed(bes, r.s.ext)
  BY <1>1 DEF CallOK, Knows, MineIn, Managed
<1>4. f \in Managed(fes, r.s.ext)
  BY <1>1, <1>3 DEF Managed, Apart
<1>5. bes[i].nodePort \in WantedNodePorts(r.s)
  BY <1>1, <1>2, <1>4, Rewired, AllWanted
<1>6. StaysB(r, bes, i)
  BY <1>1, <1>5 DEF StaysB, NoDuplicates
<1> QED BY <1>2, <1>3, <1>6 DEF BTodo

\* As the comment above the removal of backends says: frontends have been
\* rewired by then, so that DeleteBackend meets no backend in use.
THEOREM OneCallRewiresFirst ==
  ASSUME OneCaller, DistinctPorts PROVE Spec => []RemovedBackendsUnreferenced
<1>1. Inv /\ NoDuplicates => RemovedBackendsUnreferenced
  BY ToRemoveUnreferenced DEF RemovedBackendsUnreferenced
<1>2. Init => Inv /\ NoDuplicates
  BY InvInit, NoDuplicatesInit
<1>3. Inv /\ NoDuplicates /\ [Next]_vars => (Inv /\ NoDuplicates)'
  BY InvStep, NoDuplicatesStep
<1> QED BY <1>1, <1>2, <1>3, PTL DEF Spec
=============================================================================
