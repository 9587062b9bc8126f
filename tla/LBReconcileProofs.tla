------------------------- MODULE LBReconcileProofs -------------------------
(***************************************************************************)
(* Proofs about LBReconcile, for any number of calls that race: types, no  *)
(* frontend without backend, that the objects of an externally managed     *)
(* LB's owner are never touched, and that no port that stays is cut where  *)
(* the API refuses a second frontend on a port.                            *)
(***************************************************************************)
EXTENDS LBReconcile, WellFoundedInduction, TLAPS

\* A set of ids has a smallest element: CHOOSE in SmallestOf finds it.
LEMMA SmallestIsIn ==
  ASSUME NEW S \in SUBSET Nat, S # {}
  PROVE  SmallestOf(S) \in S /\ \A j \in S : SmallestOf(S) <= j
<1>1. PICK i \in S : \A j \in S : ~ (<<j, i>> \in OpToRel(<, Nat))
  BY NatLessThanWellFounded, WFMin
<1>2. \A j \in S : <<j, i>> \in OpToRel(<, Nat) <=> j < i
  <2> SUFFICES ASSUME NEW j \in S
               PROVE  <<j, i>> \in {ss \in Nat \X Nat : ss[1] < ss[2]} <=> j < i
    BY DEF OpToRel
  <2> QED OBVIOUS
<1>3. \A j \in S : i <= j
  <2> SUFFICES ASSUME NEW j \in S PROVE i <= j
    OBVIOUS
  <2>1. ~ (j < i)
    BY <1>1, <1>2
  <2>2. i \in Nat /\ j \in Nat
    OBVIOUS
  <2> QED BY <2>1, <2>2
<1> QED BY <1>3 DEF SmallestOf

LEMMA SmallestId ==
  ASSUME NEW S \in SUBSET Ids, S # {}
  PROVE  SmallestOf(S) \in S /\ \A j \in S : SmallestOf(S) <= j
<1>1. S \in SUBSET Nat
  BY ConstantsAssumption DEF Ids
<1> QED BY <1>1, SmallestIsIn

\* The object with this id, if there is one, belongs to the Service.
MineIn(objs, i) == i \in Existing(objs) => objs[i].mine
StayMine(old, new) == \A i \in Ids : MineIn(old, i) => MineIn(new, i)

\* What a call on an externally managed LB knows of the objects it may touch.
Knows(r, F, B) ==
  /\ \A i \in Existing(r.F) : r.F[i].f.mine => MineIn(F, i)
  /\ \A i \in Existing(r.B) : r.B[i].mine => MineIn(B, i)
  /\ r.pc = "delF" => \A i \in r.todo : MineIn(F, i)
  /\ r.pc = "delB" => \A i \in r.todo : MineIn(B, i)
  /\ r.be \in Ids => MineIn(B, r.be)
  /\ r.fe \in Ids => MineIn(F, r.fe)

CallOK(r, F, B, ext) ==
  /\ r.s.ext = ext
  /\ r.pc \in {"delF", "delB"} => r.todo # {}
  /\ ext => Knows(r, F, B)

CallInv == \A w \in Workers : wk[w].pc # "idle" => CallOK(wk[w], fes, bes, want.ext)

TypeInv == TypeOK /\ CallInv

LEMMA CallRecords ==
  ASSUME TypeOK, NEW w \in Workers, wk[w].pc # "idle"
  PROVE  wk[w] \in Call
BY DEF TypeOK, NoCall

LEMMA FrontendsExist == \A x \in Frontend \cup ListedFrontend : x \notin {None, Gone}
BY DEF Frontend, ListedFrontend, None, Gone

LEMMA BackendsExist == \A x \in Backend : x \notin {None, Gone}
BY DEF Backend, None, Gone

LEMMA Unchanged == \A objs : StayMine(objs, objs)
BY DEF StayMine

LEMMA KnowsStable ==
  ASSUME NEW r \in Call, NEW e \in BOOLEAN, CallOK(r, fes, bes, e),
         StayMine(fes, fes'), StayMine(bes, bes')
  PROVE  CallOK(r, fes', bes', e)
BY DEF CallOK, Knows, StayMine, Existing, Call

LEMMA PortsTyped ==
  ASSUME NEW s \in Wanted
  PROVE  /\ ServicePorts(s) \in Seq(ServicePort)
         /\ WantedPorts(s) \subseteq Ports /\ WantedNodePorts(s) \subseteq NodePorts
<1>1. ServicePorts(s) \in Seq(ServicePort)
  BY DEF ServicePorts, Wanted
<1>2. \A k \in DOMAIN ServicePorts(s) : ServicePorts(s)[k] \in ServicePort
  BY <1>1
<1>3. serviceToLB(s) \subseteq ServicePort
  BY <1>2 DEF serviceToLB
<1> QED BY <1>1, <1>3 DEF WantedPorts, WantedNodePorts, ServicePort

\* After a port the call goes on, with nothing new in hand but listed backends
\* it may remove.
LEMMA AfterPortOK ==
  ASSUME NEW r \in Call, NEW k \in Nat, NEW F, NEW B, NEW e \in BOOLEAN, CallOK(r, F, B, e)
  PROVE  AfterPort(r, k) \in Call /\ CallOK(AfterPort(r, k), F, B, e)
<1>1. ServicePorts(r.s) \in Seq(ServicePort)
  BY PortsTyped DEF Call
<1>2. CASE k < Len(ServicePorts(r.s))
  <2> DEFINE n == k + 1
             q == [r EXCEPT !.pc = "backend", !.i = n, !.be = 0, !.fe = 0]
  <2>0. n \in Nat
    OBVIOUS
  <2>1. q \in Call
    <3> HIDE DEF n
    <3> QED BY <2>0 DEF Call, PCs
  <2>2. /\ q.s = r.s /\ q.F = r.F /\ q.B = r.B /\ q.pc = "backend"
        /\ q.be = 0 /\ q.fe = 0
    BY DEF Call
  <2>3. 0 \notin Ids
    BY ConstantsAssumption DEF Ids
  <2>4. CallOK(q, F, B, e)
    <3> HIDE DEF q
    <3> QED BY <2>2, <2>3 DEF CallOK, Knows
  <2> QED BY <1>2, <2>1, <2>4 DEF AfterPort
<1>3. CASE ~ (k < Len(ServicePorts(r.s)))
  <2> DEFINE rm == RemoveB(r.B, r.s)
             del == [r EXCEPT !.pc = "delB", !.todo = rm]
             lev == [r EXCEPT !.pc = "level"]
  <2>1. rm \subseteq Ids /\ (e => \A i \in rm : i \in Existing(r.B) /\ r.B[i].mine)
    BY DEF RemoveB, ConsideredB, Existing, CallOK
  <2>2. del \in Call /\ lev \in Call
    <3> HIDE DEF rm
    <3> QED BY <2>1 DEF Call, PCs
  <2>3. /\ del.s = r.s /\ del.F = r.F /\ del.B = r.B /\ del.pc = "delB"
        /\ del.be = r.be /\ del.fe = r.fe /\ del.todo = rm
    BY DEF Call
  <2>4. /\ lev.s = r.s /\ lev.F = r.F /\ lev.B = r.B /\ lev.pc = "level"
        /\ lev.be = r.be /\ lev.fe = r.fe
    BY DEF Call
  <2>5. rm # {} => CallOK(del, F, B, e)
    <3> HIDE DEF del, rm
    <3> QED BY <2>1, <2>3 DEF CallOK, Knows
  <2>6. CallOK(lev, F, B, e)
    <3> HIDE DEF lev
    <3> QED BY <2>4 DEF CallOK, Knows
  <2>7. AfterPort(r, k) = IF rm # {} THEN del ELSE lev
    BY <1>3 DEF AfterPort
  <2> HIDE DEF rm, del, lev
  <2> QED BY <2>2, <2>5, <2>6, <2>7
<1> QED BY <1>2, <1>3

(***************************************************************************)
(* What one API call may do to the objects.                                *)
(***************************************************************************)
Untouched ==
  want.ext => /\ \A i \in Existing(fes) : ~fes[i].mine => fes'[i] = fes[i]
              /\ \A i \in Existing(bes) : ~bes[i].mine => bes'[i] = bes[i]

\* The owner's objects apart from the Service's.
Apart(F, B, e) == e => \A f \in Existing(F) : F[f].mine <=> B[F[f].be].mine

StayApart == Apart(fes, bes, want.ext) => Apart(fes', bes', want.ext)

ObjectsOK ==
  /\ fes' \in [Ids -> Frontend \cup {None, Gone}]
  /\ bes' \in [Ids -> Backend \cup {None, Gone}]
  /\ \A i \in Existing(fes') : fes'[i].be \in Existing(bes')
  /\ StayMine(fes, fes') /\ StayMine(bes, bes')
  /\ Untouched /\ StayApart

LEMMA NoChange == ASSUME TypeOK, UNCHANGED <<fes, bes>> PROVE ObjectsOK
BY Unchanged DEF TypeOK, ObjectsOK, Untouched, StayApart

\* A frontend is written or deleted.
LEMMA FrontendChange ==
  ASSUME TypeOK, NEW i \in Ids, NEW x \in Frontend \cup {Gone}, bes' = bes,
         fes' = [fes EXCEPT ![i] = x],
         want.ext => MineIn(fes, i),
         x \in Frontend => /\ x.be \in Existing(bes)
                           /\ x.mine \/ (i \in Existing(fes) /\ x.mine = fes[i].mine)
                           /\ \/ x.mine /\ (want.ext => MineIn(bes, x.be))
                              \/ i \in Existing(fes) /\ x.mine = fes[i].mine /\ x.be = fes[i].be
  PROVE  ObjectsOK
<1>1. /\ fes' \in [Ids -> Frontend \cup {None, Gone}] /\ fes'[i] = x
      /\ \A j \in Ids : j # i => fes'[j] = fes[j]
  BY DEF TypeOK
<1>2. x \in Frontend \/ x = Gone
  OBVIOUS
<1>3. i \in Existing(fes') => x \in Frontend
  BY <1>1, <1>2 DEF Existing
<1>4. \A j \in Ids : j # i => (j \in Existing(fes') <=> j \in Existing(fes))
  BY <1>1 DEF Existing
<1>5. \A j \in Existing(fes') : fes'[j].be \in Existing(bes')
  BY <1>1, <1>3, <1>4 DEF TypeOK, Existing
<1>6. StayMine(fes, fes')
  BY <1>1, <1>3, <1>4 DEF StayMine, MineIn
<1>7. Untouched
  BY <1>1 DEF Untouched, MineIn, Existing
<1>8. StayApart
  <2> SUFFICES ASSUME want.ext, Apart(fes, bes, want.ext), NEW j \in Existing(fes')
               PROVE  fes'[j].mine <=> bes[fes'[j].be].mine
    BY DEF StayApart, Apart
  <2>1. CASE j # i
    BY <1>1, <1>4, <2>1 DEF Apart, Existing
  <2>2. CASE j = i
    <3>1. x \in Frontend /\ fes'[j] = x
      BY <1>1, <1>3, <2>2
    <3>2. CASE x.mine /\ MineIn(bes, x.be)
      BY <3>1, <3>2 DEF MineIn
    <3>3. CASE i \in Existing(fes) /\ x.mine = fes[i].mine /\ x.be = fes[i].be
      BY <3>1, <3>3 DEF Apart
    <3> QED BY <3>1, <3>2, <3>3
  <2> QED BY <2>1, <2>2
<1> QED BY <1>1, <1>5, <1>6, <1>7, <1>8, Unchanged DEF ObjectsOK, TypeOK

\* A backend is written, or one no frontend points to is deleted.
LEMMA BackendChange ==
  ASSUME TypeOK, NEW i \in Ids, NEW x \in Backend \cup {Gone}, fes' = fes,
         bes' = [bes EXCEPT ![i] = x],
         want.ext => MineIn(bes, i),
         x \in Backend => x.mine \/ (i \in Existing(bes) /\ x.mine = bes[i].mine),
         x = Gone => ~Referenced(i)
  PROVE  ObjectsOK
<1>1. /\ bes' \in [Ids -> Backend \cup {None, Gone}] /\ bes'[i] = x
      /\ \A j \in Ids : j # i => bes'[j] = bes[j]
  BY DEF TypeOK
<1>2. x \in Backend \/ x = Gone
  OBVIOUS
<1>3. i \in Existing(bes') <=> x \in Backend
  BY <1>1, <1>2, BackendsExist DEF Existing
<1>4. \A j \in Ids : j # i => (j \in Existing(bes') <=> j \in Existing(bes))
  BY <1>1 DEF Existing
<1>5. \A j \in Existing(fes') : fes'[j].be \in Existing(bes')
  <2> SUFFICES ASSUME NEW j \in Existing(fes) PROVE fes[j].be \in Existing(bes')
    OBVIOUS
  <2>1. fes[j].be \in Existing(bes) /\ fes[j].be \in Ids
    BY DEF TypeOK, Existing
  <2>2. fes[j].be = i => x # Gone
    BY DEF Referenced
  <2> QED BY <1>2, <1>3, <1>4, <2>1, <2>2
<1>6. StayMine(bes, bes')
  BY <1>1, <1>3, <1>4 DEF StayMine, MineIn
<1>7. Untouched
  BY <1>1 DEF Untouched, MineIn, Existing
<1>8. StayApart
  <2> SUFFICES ASSUME want.ext, NEW f \in Existing(fes)
               PROVE  bes'[fes[f].be].mine <=> bes[fes[f].be].mine
    BY DEF StayApart, Apart
  <2>1. fes[f].be \in Existing(bes) /\ fes[f].be \in Ids
    BY DEF TypeOK, Existing
  <2>2. CASE fes[f].be # i
    BY <1>1, <2>1, <2>2
  <2>3. CASE fes[f].be = i
    <3>1. x \in Backend /\ bes[i].mine
      BY <1>2, <2>1, <2>3 DEF Referenced, MineIn
    <3> QED BY <1>1, <2>3, <3>1
  <2> QED BY <2>2, <2>3
<1> QED BY <1>1, <1>5, <1>6, <1>7, <1>8, Unchanged DEF ObjectsOK, TypeOK

(***************************************************************************)
(* The steps.                                                              *)
(***************************************************************************)
Kept == TypeOK' /\ CallInv' /\ Untouched /\ (NoCrossWiring => NoCrossWiring')

\* A step of worker w is right if what it does to the objects is, and if what
\* it makes of w's own call is.
LEMMA WorkerStep ==
  ASSUME TypeInv, NEW w \in Workers, NEW r \in Call \cup {NoCall}, Update(w, r),
         r.pc # "idle" => CallOK(r, fes, bes, want.ext),
         ObjectsOK, want' = want, level' \in Confs, pending' \subseteq Workers,
         edits' = edits, fails' \in 0..MaxFails
  PROVE  Kept
<1>1. /\ wk' \in [Workers -> Call \cup {NoCall}] /\ wk'[w] = r
      /\ \A v \in Workers : v # w => wk'[v] = wk[v]
  BY DEF TypeInv, TypeOK, Update
<1>2. TypeOK'
  BY <1>1 DEF TypeInv, TypeOK, ObjectsOK
<1>3. CallInv'
  <2> SUFFICES ASSUME NEW v \in Workers, wk'[v].pc # "idle"
               PROVE  CallOK(wk'[v], fes', bes', want'.ext)
    BY DEF CallInv
  <2>1. wk'[v] \in Call /\ want.ext \in BOOLEAN
    BY <1>1 DEF NoCall, TypeInv, TypeOK, Wanted
  <2>2. CallOK(wk'[v], fes, bes, want.ext)
    BY <1>1 DEF TypeInv, CallInv
  <2> QED BY <2>1, <2>2, KnowsStable DEF ObjectsOK
<1>4. NoCrossWiring => NoCrossWiring'
  <2>1. NoCrossWiring <=> Apart(fes, bes, want.ext)
    BY DEF NoCrossWiring, Apart
  <2>2. NoCrossWiring' <=> Apart(fes', bes', want.ext)
    BY DEF NoCrossWiring, Apart, Existing
  <2> QED BY <2>1, <2>2 DEF ObjectsOK, StayApart
<1> QED BY <1>2, <1>3, <1>4 DEF Kept, ObjectsOK

LEMMA ErrorStep ==
  ASSUME TypeInv, NEW w \in Workers, ReturnError(w), UNCHANGED <<want, fes, bes, level>>,
         edits' = edits, fails' \in 0..MaxFails
  PROVE  Kept
<1>1. NoCall.pc = "idle"
  BY DEF NoCall
<1>2. ObjectsOK
  BY NoChange DEF TypeInv
<1>3. /\ NoCall \in Call \cup {NoCall} /\ Update(w, NoCall)
      /\ pending' \subseteq Workers /\ level' \in Confs
  BY DEF ReturnError, TypeInv, TypeOK
<1> QED BY <1>1, <1>2, <1>3, WorkerStep

\* Where a worker stands when it makes a step of a call.
LEMMA InCall ==
  ASSUME TypeInv, NEW w \in Workers, wk[w].pc # "idle"
  PROVE  /\ wk[w] \in Call /\ wk[w].s \in Wanted
         /\ CallOK(wk[w], fes, bes, want.ext) /\ want.ext \in BOOLEAN
BY CallRecords DEF TypeInv, CallInv, Call, TypeOK, Wanted

LEMMA BeginStep == ASSUME TypeInv, NEW w \in Workers, Begin(w) PROVE Kept
<1> DEFINE r == IF w \in NodeSyncs /\ want.deleting THEN NoCall ELSE NewCall
<1>1. NoList \in [Ids -> ListedFrontend \cup {None, Gone}]
      /\ NoList \in [Ids -> Backend \cup {None, Gone}] /\ Existing(NoList) = {}
  BY DEF NoList, Existing
<1>2. NewCall \in Call
  BY <1>1 DEF NewCall, Call, PCs, TypeInv, TypeOK, Wanted
<1>3. 0 \notin Ids
  BY ConstantsAssumption DEF Ids
<1>4. CallOK(NewCall, fes, bes, want.ext)
  BY <1>1, <1>3 DEF NewCall, CallOK, Knows
<1>5. r \in Call \cup {NoCall} /\ (r.pc # "idle" => CallOK(r, fes, bes, want.ext))
  BY <1>2, <1>4 DEF NoCall
<1>6. ObjectsOK /\ level' \in Confs /\ pending' \subseteq Workers /\ Update(w, r)
      /\ want' = want /\ edits' = edits /\ fails' \in 0..MaxFails
  BY NoChange DEF Begin, TypeInv, TypeOK, lbVars, budgets
<1> HIDE DEF r
<1> QED BY <1>5, <1>6, WorkerStep

LEMMA ListFrontendsStep == ASSUME TypeInv, NEW w \in Workers, ListFrontends(w) PROVE Kept
<1> DEFINE L == [i \in Ids |-> IF i \notin Existing(fes) THEN fes[i]
                    ELSE [f |-> fes[i], nodePort |-> bes[fes[i].be].nodePort]]
           r == [wk[w] EXCEPT !.pc = "listB", !.F = L]
<1>1. wk[w] \in Call /\ CallOK(wk[w], fes, bes, want.ext)
  BY InCall DEF ListFrontends
<1>2. \A i \in Existing(fes) : fes[i] \in Frontend /\ bes[fes[i].be] \in Backend
  BY DEF TypeInv, TypeOK, Existing
<1>3. L \in [Ids -> ListedFrontend \cup {None, Gone}]
  <2>1. \A i \in Existing(fes) :
          [f |-> fes[i], nodePort |-> bes[fes[i].be].nodePort] \in ListedFrontend
    BY <1>2 DEF ListedFrontend, Backend
  <2>2. \A i \in Ids \ Existing(fes) : fes[i] \in {None, Gone}
    BY DEF Existing
  <2> QED BY <2>1, <2>2
<1>4. \A i \in Existing(L) : i \in Existing(fes) /\ L[i].f = fes[i]
  BY DEF Existing
<1>5. r \in Call
  <2> HIDE DEF L
  <2> QED BY <1>1, <1>3 DEF Call, PCs
<1>6. /\ r.s = wk[w].s /\ r.F = L /\ r.B = wk[w].B /\ r.pc = "listB"
      /\ r.be = wk[w].be /\ r.fe = wk[w].fe
  <2> HIDE DEF L
  <2> QED BY <1>1 DEF Call
<1>7. CallOK(r, fes, bes, want.ext)
  <2> HIDE DEF r, L
  <2> QED BY <1>1, <1>4, <1>6 DEF CallOK, Knows, MineIn
<1>8. ObjectsOK /\ level' \in Confs /\ pending' \subseteq Workers /\ Update(w, r)
      /\ want' = want /\ edits' = edits /\ fails' \in 0..MaxFails
  BY NoChange DEF ListFrontends, TypeInv, TypeOK, lbVars, budgets
<1> HIDE DEF r
<1> QED BY <1>5, <1>7, <1>8, WorkerStep

LEMMA ListBackendsStep == ASSUME TypeInv, NEW w \in Workers, ListBackends(w) PROVE Kept
<1> DEFINE r == [wk[w] EXCEPT !.B = bes]
           rm == RemoveF(r.F, r.s)
           del == [r EXCEPT !.pc = "delF", !.todo = rm]
           next == IF rm # {} THEN del ELSE AfterPort(r, 0)
<1>1. wk[w] \in Call /\ CallOK(wk[w], fes, bes, want.ext) /\ wk[w].pc = "listB"
      /\ want.ext \in BOOLEAN
  BY InCall DEF ListBackends
<1>2. /\ r \in Call /\ r.s = wk[w].s /\ r.F = wk[w].F /\ r.B = bes /\ r.pc = "listB"
      /\ r.be = wk[w].be /\ r.fe = wk[w].fe
  BY <1>1 DEF Call, TypeInv, TypeOK
<1>3. CallOK(r, fes, bes, want.ext)
  <2> HIDE DEF r
  <2> QED BY <1>1, <1>2 DEF CallOK, Knows, MineIn
<1>4. rm \subseteq Ids /\ (want.ext => \A i \in rm : i \in Existing(r.F) /\ r.F[i].f.mine)
  <2> HIDE DEF r
  <2> QED BY <1>3 DEF RemoveF, ConsideredF, Existing, CallOK
<1>5. /\ del \in Call /\ del.s = r.s /\ del.F = r.F /\ del.B = r.B /\ del.pc = "delF"
      /\ del.be = r.be /\ del.fe = r.fe /\ del.todo = rm
  <2> HIDE DEF r, rm
  <2> QED BY <1>2, <1>4 DEF Call, PCs
<1>6. rm # {} => CallOK(del, fes, bes, want.ext)
  <2> HIDE DEF del, rm, r
  <2> QED BY <1>3, <1>4, <1>5 DEF CallOK, Knows
<1>7. AfterPort(r, 0) \in Call /\ CallOK(AfterPort(r, 0), fes, bes, want.ext)
  <2> HIDE DEF r
  <2> QED BY <1>1, <1>2, <1>3, AfterPortOK
<1>8. ObjectsOK /\ level' \in Confs /\ pending' \subseteq Workers /\ Update(w, next)
      /\ want' = want /\ edits' = edits /\ fails' \in 0..MaxFails
  BY NoChange DEF ListBackends, TypeInv, TypeOK, lbVars, budgets
<1>9. next \in Call /\ CallOK(next, fes, bes, want.ext)
  <2> HIDE DEF rm, del, r
  <2> QED BY <1>5, <1>6, <1>7
<1> HIDE DEF next
<1> QED BY <1>8, <1>9, WorkerStep

LEMMA DeleteFrontendStep ==
  ASSUME TypeInv, NEW w \in Workers, DeleteFrontend(w) PROVE Kept
<1> DEFINE r == wk[w]
           i == SmallestOf(r.todo)
<1>1. r \in Call /\ CallOK(r, fes, bes, want.ext) /\ r.pc = "delF" /\ want.ext \in BOOLEAN
  BY InCall DEF DeleteFrontend
<1>2. UNCHANGED <<want, bes, level, edits, fails>> /\ level' \in Confs /\ fails' \in 0..MaxFails
  BY DEF DeleteFrontend, budgets, TypeInv, TypeOK
<1>3. i \in r.todo /\ i \in Ids
  BY <1>1, SmallestId DEF CallOK, Call
<1>4. CASE ReturnError(w) /\ UNCHANGED fes
  BY <1>2, <1>4, ErrorStep
<1>5. CASE ~ (ReturnError(w) /\ UNCHANGED fes)
  <2> DEFINE last == [r EXCEPT !.todo = {}]
             more == [r EXCEPT !.todo = @ \ {i}]
             next == IF r.todo = {i} THEN AfterPort(last, 0) ELSE more
  <2>1. fes' = [fes EXCEPT ![i] = Gone] /\ Update(w, next) /\ UNCHANGED pending
    BY <1>5 DEF DeleteFrontend
  <2>2. want.ext => MineIn(fes, i)
    BY <1>1, <1>3 DEF CallOK, Knows
  <2>3. ObjectsOK
    <3>1. Gone \notin Frontend
      BY FrontendsExist
    <3> HIDE DEF i
    <3> QED BY <1>2, <1>3, <2>1, <2>2, <3>1, FrontendChange DEF TypeInv
  <2>4. /\ last \in Call /\ last.s = r.s /\ last.F = r.F /\ last.B = r.B /\ last.pc = r.pc
        /\ last.be = r.be /\ last.fe = r.fe /\ last.todo = {}
    BY <1>1 DEF Call
  <2>5. /\ more \in Call /\ more.s = r.s /\ more.F = r.F /\ more.B = r.B /\ more.pc = r.pc
        /\ more.be = r.be /\ more.fe = r.fe /\ more.todo = r.todo \ {i}
    <3> HIDE DEF i
    <3> QED BY <1>1 DEF Call
  <2>6. r.todo # {i} => CallOK(more, fes, bes, want.ext)
    <3> HIDE DEF more, i
    <3> QED BY <1>1, <1>3, <2>5 DEF CallOK, Knows
  <2>7. AfterPort(last, 0) \in Call /\ CallOK(AfterPort(last, 0), fes, bes, want.ext)
    <3> DEFINE l2 == [last EXCEPT !.pc = "listB"]
    <3>1. /\ l2 \in Call /\ l2.s = r.s /\ l2.F = r.F /\ l2.B = r.B /\ l2.pc = "listB"
          /\ l2.be = r.be /\ l2.fe = r.fe
      BY <1>1 DEF Call, PCs
    <3>2. CallOK(l2, fes, bes, want.ext)
      <4> HIDE DEF l2
      <4> QED BY <1>1, <3>1 DEF CallOK, Knows
    <3>3. AfterPort(last, 0) = AfterPort(l2, 0)
      BY <1>1 DEF AfterPort, Call
    <3> HIDE DEF l2, last
    <3> QED BY <1>1, <3>1, <3>2, <3>3, AfterPortOK
  <2>8. next \in Call /\ CallOK(next, fes, bes, want.ext)
    <3> HIDE DEF last, more, i
    <3> QED BY <2>5, <2>6, <2>7
  <2>9. pending' \subseteq Workers
    BY <2>1 DEF TypeInv, TypeOK
  <2> HIDE DEF next
  <2> QED BY <1>2, <2>1, <2>3, <2>8, <2>9, WorkerStep
<1> QED BY <1>4, <1>5

\* What a call keeps when only its position and its objects in hand change.
LEMMA SameLists ==
  ASSUME NEW r \in Call, NEW q \in Call, NEW F, NEW B, NEW e, CallOK(r, F, B, e),
         q.s = r.s, q.F = r.F, q.B = r.B, q.pc \notin {"delF", "delB"},
         e /\ q.be \in Ids => MineIn(B, q.be),
         e /\ q.fe \in Ids => MineIn(F, q.fe)
  PROVE  CallOK(q, F, B, e)
BY DEF CallOK, Knows

LEMMA UpdateBackendStep ==
  ASSUME TypeInv, NEW w \in Workers, UpdateBackend(w) PROVE Kept
<1> DEFINE r == wk[w]
<1>1. /\ r \in Call /\ CallOK(r, fes, bes, want.ext) /\ r.pc = "backend"
      /\ want.ext \in BOOLEAN /\ r.s \in Wanted
  BY InCall DEF UpdateBackend
<1>2. UNCHANGED <<want, fes, level, edits, fails>> /\ level' \in Confs /\ fails' \in 0..MaxFails
  BY DEF UpdateBackend, budgets, TypeInv, TypeOK
<1>3. PICK i \in UpdateB(r.B, r.s, Port(w).nodePort) :
       IF i \notin Existing(bes)
         THEN ReturnError(w) /\ UNCHANGED bes
         ELSE /\ bes' = [bes EXCEPT ![i].conf = r.s.conf, ![i].mine = TRUE]
              /\ Update(w, [r EXCEPT !.pc = "health", !.be = i, !.pool = bes[i].pool])
              /\ UNCHANGED pending
  BY Zenon DEF UpdateBackend
<1>4. i \in Ids /\ (want.ext => MineIn(bes, i))
  BY <1>1 DEF UpdateB, FirstB, ConsideredB, Existing, CallOK, Knows
<1>5. CASE ReturnError(w) /\ UNCHANGED bes
  BY <1>2, <1>5, ErrorStep
<1>6. CASE ~ (ReturnError(w) /\ UNCHANGED bes)
  <2> DEFINE c == r.s.conf
             x == [bes[i] EXCEPT !.conf = c, !.mine = TRUE]
             next == [r EXCEPT !.pc = "health", !.be = i, !.pool = bes[i].pool]
  <2>1. /\ bes' = [bes EXCEPT ![i].conf = c, ![i].mine = TRUE]
        /\ Update(w, next) /\ UNCHANGED pending /\ i \in Existing(bes)
    BY <1>3, <1>6
  <2>2. bes[i] \in Backend /\ c \in Confs
    BY <1>1, <2>1 DEF TypeInv, TypeOK, Existing, Wanted
  <2>3. x \in Backend /\ x.mine /\ x # Gone
    <3>1. x \in Backend /\ x.mine
      <4> HIDE DEF c
      <4> QED BY <2>2 DEF Backend
    <3> HIDE DEF x
    <3> QED BY <3>1, BackendsExist
  <2>4. bes' = [bes EXCEPT ![i] = x]
    BY <1>4, <2>1 DEF TypeInv, TypeOK
  <2>5. ObjectsOK
    <3> HIDE DEF x
    <3> QED BY <1>2, <1>4, <2>3, <2>4, BackendChange DEF TypeInv
  <2>6. /\ next \in Call /\ next.s = r.s /\ next.F = r.F /\ next.B = r.B
        /\ next.pc = "health" /\ next.be = i /\ next.fe = r.fe
    BY <1>1, <1>4, <2>2 DEF Call, PCs, Backend
  <2>7. CallOK(next, fes, bes, want.ext)
    <3> HIDE DEF next
    <3> QED BY <1>1, <1>4, <2>6, SameLists DEF CallOK, Knows
  <2>8. pending' \subseteq Workers
    BY <2>1 DEF TypeInv, TypeOK
  <2> HIDE DEF next
  <2> QED BY <1>2, <2>1, <2>5, <2>6, <2>7, <2>8, WorkerStep
<1> QED BY <1>5, <1>6

LEMMA UpdateHealthCheckStep ==
  ASSUME TypeInv, NEW w \in Workers, UpdateHealthCheck(w) PROVE Kept
<1> DEFINE r == wk[w]
<1>1. /\ r \in Call /\ CallOK(r, fes, bes, want.ext) /\ r.pc = "health"
      /\ want.ext \in BOOLEAN /\ r.s \in Wanted
  BY InCall DEF UpdateHealthCheck
<1>2. UNCHANGED <<want, fes, level, edits, fails>> /\ level' \in Confs /\ fails' \in 0..MaxFails
  BY DEF UpdateHealthCheck, budgets, TypeInv, TypeOK
<1>3. CASE ReturnError(w) /\ UNCHANGED bes
  BY <1>2, <1>3, ErrorStep
<1>4. CASE ~ (ReturnError(w) /\ UNCHANGED bes)
  <2> DEFINE c == r.s.conf
             b == r.be
             x == [bes[b] EXCEPT !.health = c]
             next == [r EXCEPT !.pc = "servers"]
  <2>1. /\ bes' = [bes EXCEPT ![b].health = c]
        /\ Update(w, next) /\ UNCHANGED pending /\ b \in Existing(bes)
    BY <1>4 DEF UpdateHealthCheck
  <2>2. bes[b] \in Backend /\ c \in Confs /\ b \in Ids
    BY <1>1, <2>1 DEF TypeInv, TypeOK, Existing, Wanted
  <2>3. x \in Backend /\ x.mine = bes[b].mine /\ x # Gone
    <3>1. x \in Backend /\ x.mine = bes[b].mine
      <4> HIDE DEF c, b
      <4> QED BY <2>2 DEF Backend
    <3> HIDE DEF x
    <3> QED BY <3>1, BackendsExist
  <2>4. bes' = [bes EXCEPT ![b] = x]
    BY <2>1, <2>2 DEF TypeInv, TypeOK
  <2>5. ObjectsOK
    <3>1. want.ext => MineIn(bes, b)
      BY <1>1, <2>2 DEF CallOK, Knows
    <3> HIDE DEF x, b
    <3> QED BY <1>2, <2>1, <2>2, <2>3, <2>4, <3>1, BackendChange DEF TypeInv
  <2>6. /\ next \in Call /\ next.s = r.s /\ next.F = r.F /\ next.B = r.B
        /\ next.pc = "servers" /\ next.be = r.be /\ next.fe = r.fe
    BY <1>1 DEF Call, PCs
  <2>7. CallOK(next, fes, bes, want.ext)
    <3> HIDE DEF next
    <3> QED BY <1>1, <2>6, SameLists DEF CallOK, Knows
  <2>8. pending' \subseteq Workers
    BY <2>1 DEF TypeInv, TypeOK
  <2> HIDE DEF next
  <2> QED BY <1>2, <2>1, <2>5, <2>6, <2>7, <2>8, WorkerStep
<1> QED BY <1>3, <1>4

LEMMA CreateBackendStep ==
  ASSUME TypeInv, NEW w \in Workers, CreateBackend(w) PROVE Kept
<1> DEFINE r == wk[w]
           np == Port(w).nodePort
           i == SmallestOf(FreshIds(bes))
           x == [nodePort |-> np, conf |-> r.s.conf, health |-> r.s.conf,
                 pool |-> r.s.pool, mine |-> TRUE]
           next == [r EXCEPT !.pc = "servers", !.be = i, !.pool = r.s.pool]
<1>1. /\ r \in Call /\ CallOK(r, fes, bes, want.ext) /\ r.pc = "backend"
      /\ want.ext \in BOOLEAN /\ r.s \in Wanted
  BY InCall DEF CreateBackend
<1>2. /\ UNCHANGED <<want, fes, level, edits, fails>> /\ level' \in Confs
      /\ fails' \in 0..MaxFails /\ pending' \subseteq Workers
  BY DEF CreateBackend, budgets, TypeInv, TypeOK
<1>3. np \in NodePorts
  BY <1>1, PortsTyped DEF CreateBackend, CreateB
<1>4. i \in Ids /\ MineIn(bes, i)
  <2>1. FreshIds(bes) \in SUBSET Ids /\ FreshIds(bes) # {}
    BY DEF CreateBackend, FreshIds
  <2>2. i \in FreshIds(bes)
    BY <2>1, SmallestId
  <2> QED BY <2>1, <2>2 DEF FreshIds, MineIn, Existing
<1>5. bes' = [bes EXCEPT ![i] = x] /\ Update(w, next)
  BY DEF CreateBackend
<1>6. x \in Backend /\ x.mine /\ x # Gone
  <2>1. x \in Backend /\ x.mine
    <3> HIDE DEF np, i
    <3> QED BY <1>1, <1>3 DEF Backend, Wanted
  <2> HIDE DEF x
  <2> QED BY <2>1, BackendsExist
<1>7. ObjectsOK
  <2> HIDE DEF x, i
  <2> QED BY <1>2, <1>4, <1>5, <1>6, BackendChange DEF TypeInv
<1>8. /\ next \in Call /\ next.s = r.s /\ next.F = r.F /\ next.B = r.B
      /\ next.pc = "servers" /\ next.be = i /\ next.fe = r.fe
  <2>1. r.s.pool \in Pools
    BY <1>1 DEF Wanted
  <2> HIDE DEF i
  <2> QED BY <1>1, <1>4, <2>1 DEF Call, PCs
<1>9. CallOK(next, fes, bes, want.ext)
  <2> HIDE DEF next, i
  <2> QED BY <1>1, <1>4, <1>8, SameLists DEF CallOK, Knows
<1> HIDE DEF next
<1> QED BY <1>2, <1>5, <1>7, <1>8, <1>9, WorkerStep

LEMMA KeepBackendStep ==
  ASSUME TypeInv, NEW w \in Workers, KeepBackend(w) PROVE Kept
<1> DEFINE r == wk[w]
<1>1. /\ r \in Call /\ CallOK(r, fes, bes, want.ext) /\ r.pc = "backend"
      /\ want.ext \in BOOLEAN
  BY InCall DEF KeepBackend
<1>2. /\ UNCHANGED <<want, fes, bes, level, edits, fails>> /\ level' \in Confs
      /\ fails' \in 0..MaxFails
  BY DEF KeepBackend, lbVars, budgets, TypeInv, TypeOK
<1>3. CASE ReturnError(w)
  BY <1>2, <1>3, ErrorStep
<1>4. CASE ~ ReturnError(w)
  <2>1. PICK i \in KeepB(r.B, r.s, Port(w).nodePort) :
          Update(w, [r EXCEPT !.pc = "servers", !.be = i, !.pool = r.B[i].pool])
    BY <1>4, Zenon DEF KeepBackend
  <2> DEFINE next == [r EXCEPT !.pc = "servers", !.be = i, !.pool = r.B[i].pool]
  <2>2. i \in Ids /\ r.B[i] \in Backend /\ (want.ext => MineIn(bes, i))
    BY <1>1 DEF KeepB, FirstB, ConsideredB, Existing, CallOK, Knows, Call
  <2>3. /\ next \in Call /\ next.s = r.s /\ next.F = r.F /\ next.B = r.B
        /\ next.pc = "servers" /\ next.be = i /\ next.fe = r.fe
    BY <1>1, <2>2 DEF Call, PCs, Backend
  <2>4. CallOK(next, fes, bes, want.ext)
    <3> HIDE DEF next
    <3> QED BY <1>1, <2>2, <2>3, SameLists DEF CallOK, Knows
  <2>5. ObjectsOK /\ pending' \subseteq Workers
    BY <1>2, <1>4, NoChange DEF KeepBackend, TypeInv, TypeOK
  <2> HIDE DEF next
  <2> QED BY <1>2, <2>1, <2>3, <2>4, <2>5, WorkerStep DEF next
<1> QED BY <1>3, <1>4

LEMMA SetBackendServersStep ==
  ASSUME TypeInv, NEW w \in Workers, SetBackendServers(w) PROVE Kept
<1> DEFINE r == wk[w]
           next == [r EXCEPT !.pc = "frontend"]
<1>1. /\ r \in Call /\ CallOK(r, fes, bes, want.ext) /\ r.pc = "servers"
      /\ want.ext \in BOOLEAN /\ r.s \in Wanted
  BY InCall DEF SetBackendServers
<1>2. UNCHANGED <<want, fes, level, edits, fails>> /\ level' \in Confs /\ fails' \in 0..MaxFails
  BY DEF SetBackendServers, budgets, TypeInv, TypeOK
<1>3. CASE ReturnError(w) /\ UNCHANGED bes
  BY <1>2, <1>3, ErrorStep
<1>4. /\ next \in Call /\ next.s = r.s /\ next.F = r.F /\ next.B = r.B
      /\ next.pc = "frontend" /\ next.be = r.be /\ next.fe = r.fe
  BY <1>1 DEF Call, PCs
<1>5. CallOK(next, fes, bes, want.ext)
  <2> HIDE DEF next
  <2> QED BY <1>1, <1>4, SameLists DEF CallOK, Knows
<1>6. CASE ~ (ReturnError(w) /\ UNCHANGED bes)
  <2> DEFINE p == r.s.pool
             b == r.be
             x == [bes[b] EXCEPT !.pool = p]
  <2>1. /\ bes' = bes \/ (b \in Existing(bes) /\ bes' = [bes EXCEPT ![b].pool = p])
        /\ Update(w, next) /\ pending' \subseteq Workers
    BY <1>6 DEF SetBackendServers, TypeInv, TypeOK
  <2>2. CASE b \in Existing(bes) /\ bes' = [bes EXCEPT ![b].pool = p]
    <3>1. bes[b] \in Backend /\ p \in Pools /\ b \in Ids
      BY <1>1, <2>2 DEF TypeInv, TypeOK, Existing, Wanted
    <3>2. x \in Backend /\ x.mine = bes[b].mine /\ x # Gone
      <4>1. x \in Backend /\ x.mine = bes[b].mine
        <5> HIDE DEF p, b
        <5> QED BY <3>1 DEF Backend
      <4> HIDE DEF x
      <4> QED BY <4>1, BackendsExist
    <3>3. bes' = [bes EXCEPT ![b] = x]
      BY <2>2, <3>1 DEF TypeInv, TypeOK
    <3>4. want.ext => MineIn(bes, b)
      BY <1>1, <3>1 DEF CallOK, Knows
    <3>5. ObjectsOK
      <4> HIDE DEF x, b
      <4> QED BY <1>2, <2>2, <3>1, <3>2, <3>3, <3>4, BackendChange DEF TypeInv
    <3> HIDE DEF next
    <3> QED BY <1>2, <1>4, <1>5, <2>1, <3>5, WorkerStep
  <2>3. CASE bes' = bes
    <3>1. ObjectsOK
      BY <1>2, <2>3, NoChange DEF TypeInv
    <3> HIDE DEF next
    <3> QED BY <1>2, <1>4, <1>5, <2>1, <3>1, WorkerStep
  <2> QED BY <2>1, <2>2, <2>3
<1> QED BY <1>3, <1>6

LEMMA UpdateFrontendStep ==
  ASSUME TypeInv, NEW w \in Workers, UpdateFrontend(w) PROVE Kept
<1> DEFINE r == wk[w]
<1>1. /\ r \in Call /\ CallOK(r, fes, bes, want.ext) /\ r.pc = "frontend"
      /\ want.ext \in BOOLEAN /\ r.s \in Wanted
  BY InCall DEF UpdateFrontend
<1>2. UNCHANGED <<want, bes, level, edits, fails>> /\ level' \in Confs /\ fails' \in 0..MaxFails
  BY DEF UpdateFrontend, budgets, TypeInv, TypeOK
<1>3. PICK i \in UpdateF(r.F, r.s, Port(w).port) :
       IF i \notin Existing(fes) \/ r.be \notin Existing(bes)
         THEN ReturnError(w) /\ UNCHANGED fes
         ELSE /\ fes' = [fes EXCEPT ![i].be = r.be, ![i].conf = r.s.conf,
                                    ![i].mine = TRUE]
              /\ Update(w, [r EXCEPT !.pc = "acl", !.fe = i])
              /\ UNCHANGED pending
  BY Zenon DEF UpdateFrontend
<1>4. i \in Ids /\ (want.ext => MineIn(fes, i))
  BY <1>1 DEF UpdateF, FirstF, ConsideredF, Existing, CallOK, Knows
<1>5. CASE ReturnError(w) /\ UNCHANGED fes
  BY <1>2, <1>5, ErrorStep
<1>6. CASE ~ (ReturnError(w) /\ UNCHANGED fes)
  <2> DEFINE c == r.s.conf
             b == r.be
             x == [fes[i] EXCEPT !.be = b, !.conf = c, !.mine = TRUE]
             next == [r EXCEPT !.pc = "acl", !.fe = i]
  <2>1. /\ fes' = [fes EXCEPT ![i].be = b, ![i].conf = c, ![i].mine = TRUE]
        /\ Update(w, next) /\ UNCHANGED pending
        /\ i \in Existing(fes) /\ b \in Existing(bes)
    BY <1>3, <1>6
  <2>2. fes[i] \in Frontend /\ c \in Confs /\ b \in Ids
    BY <1>1, <2>1 DEF TypeInv, TypeOK, Existing, Wanted
  <2>3. x \in Frontend /\ x.mine /\ x.be = b
    <3> HIDE DEF c, b
    <3> QED BY <2>2 DEF Frontend
  <2>4. fes' = [fes EXCEPT ![i] = x]
    <3> HIDE DEF c, b
    <3> QED BY <1>4, <2>1 DEF TypeInv, TypeOK
  <2>5. ObjectsOK
    <3>1. want.ext => MineIn(bes, b)
      BY <1>1, <2>2 DEF CallOK, Knows
    <3> HIDE DEF x, b
    <3> QED BY <1>2, <1>4, <2>1, <2>3, <2>4, <3>1, FrontendChange DEF TypeInv
  <2>6. /\ next \in Call /\ next.s = r.s /\ next.F = r.F /\ next.B = r.B
        /\ next.pc = "acl" /\ next.be = r.be /\ next.fe = i
    BY <1>1, <1>4 DEF Call, PCs
  <2>7. CallOK(next, fes, bes, want.ext)
    <3> HIDE DEF next
    <3> QED BY <1>1, <1>4, <2>6, SameLists DEF CallOK, Knows
  <2>8. pending' \subseteq Workers
    BY <2>1 DEF TypeInv, TypeOK
  <2> HIDE DEF next
  <2> QED BY <1>2, <2>1, <2>5, <2>6, <2>7, <2>8, WorkerStep
<1> QED BY <1>5, <1>6

LEMMA CreateFrontendStep ==
  ASSUME TypeInv, NEW w \in Workers, CreateFrontend(w) PROVE Kept
<1> DEFINE r == wk[w]
           port == Port(w).port
           i == SmallestOf(FreshIds(fes))
           x == NewFrontend(r.s, port, r.be)
           next == [r EXCEPT !.pc = "acl", !.fe = i]
<1>1. /\ r \in Call /\ CallOK(r, fes, bes, want.ext) /\ r.pc = "frontend"
      /\ want.ext \in BOOLEAN /\ r.s \in Wanted
  BY InCall DEF CreateFrontend
<1>2. UNCHANGED <<want, bes, level, edits, fails>> /\ level' \in Confs /\ fails' \in 0..MaxFails
  BY DEF CreateFrontend, budgets, TypeInv, TypeOK
<1>3. port \in Ports
  BY <1>1, PortsTyped DEF CreateFrontend, CreateF
<1>4. i \in Ids /\ MineIn(fes, i)
  <2>1. FreshIds(fes) \in SUBSET Ids /\ FreshIds(fes) # {}
    BY DEF CreateFrontend, FreshIds
  <2>2. i \in FreshIds(fes)
    BY <2>1, SmallestId
  <2> QED BY <2>1, <2>2 DEF FreshIds, MineIn, Existing
<1>5. CASE ReturnError(w) /\ UNCHANGED fes
  BY <1>2, <1>5, ErrorStep
<1>6. CASE ~ (ReturnError(w) /\ UNCHANGED fes)
  <2>1. /\ fes' = [fes EXCEPT ![i] = x] /\ Update(w, next) /\ UNCHANGED pending
        /\ r.be \in Existing(bes)
    BY <1>6 DEF CreateFrontend
  <2>2. x \in Frontend /\ x.mine /\ x.be = r.be
    <3>1. r.be \in Ids /\ r.s.conf \in Confs /\ NoAcl \in FrontendAcls
      BY <1>1, <2>1 DEF Existing, Wanted, FrontendAcls
    <3> HIDE DEF port
    <3> QED BY <1>3, <3>1 DEF NewFrontend, Frontend
  <2>3. ObjectsOK
    <3>1. want.ext => MineIn(bes, r.be)
      BY <1>1, <2>1 DEF CallOK, Knows, Existing
    <3> HIDE DEF x, i
    <3> QED BY <1>2, <1>4, <2>1, <2>2, <3>1, FrontendChange DEF TypeInv
  <2>4. /\ next \in Call /\ next.s = r.s /\ next.F = r.F /\ next.B = r.B
        /\ next.pc = "acl" /\ next.be = r.be /\ next.fe = i
    <3> HIDE DEF i
    <3> QED BY <1>1, <1>4 DEF Call, PCs
  <2>5. CallOK(next, fes, bes, want.ext)
    <3> HIDE DEF next, i
    <3> QED BY <1>1, <1>4, <2>4, SameLists DEF CallOK, Knows
  <2>6. pending' \subseteq Workers
    BY <2>1 DEF TypeInv, TypeOK
  <2> HIDE DEF next
  <2> QED BY <1>2, <2>1, <2>3, <2>4, <2>5, <2>6, WorkerStep
<1> QED BY <1>5, <1>6

LEMMA KeepFrontendStep ==
  ASSUME TypeInv, NEW w \in Workers, KeepFrontend(w) PROVE Kept
<1> DEFINE r == wk[w]
<1>1. /\ r \in Call /\ CallOK(r, fes, bes, want.ext) /\ r.pc = "frontend"
      /\ want.ext \in BOOLEAN
  BY InCall DEF KeepFrontend
<1>2. /\ UNCHANGED <<want, fes, bes, level, edits, fails>> /\ level' \in Confs
      /\ fails' \in 0..MaxFails
  BY DEF KeepFrontend, lbVars, budgets, TypeInv, TypeOK
<1>3. CASE ReturnError(w)
  BY <1>2, <1>3, ErrorStep
<1>4. CASE ~ ReturnError(w)
  <2>1. PICK i \in KeepF(r.F, r.s, Port(w).port) :
          Update(w, [r EXCEPT !.pc = "acl", !.fe = i])
    BY <1>4 DEF KeepFrontend
  <2> DEFINE next == [r EXCEPT !.pc = "acl", !.fe = i]
  <2>2. i \in Ids /\ (want.ext => MineIn(fes, i))
    BY <1>1 DEF KeepF, FirstF, ConsideredF, Existing, CallOK, Knows
  <2>3. /\ next \in Call /\ next.s = r.s /\ next.F = r.F /\ next.B = r.B
        /\ next.pc = "acl" /\ next.be = r.be /\ next.fe = i
    BY <1>1, <2>2 DEF Call, PCs
  <2>4. CallOK(next, fes, bes, want.ext)
    <3> HIDE DEF next
    <3> QED BY <1>1, <2>2, <2>3, SameLists DEF CallOK, Knows
  <2>5. ObjectsOK /\ pending' \subseteq Workers
    BY <1>2, <1>4, NoChange DEF KeepFrontend, TypeInv, TypeOK
  <2>6. Update(w, next)
    BY <2>1
  <2> HIDE DEF next
  <2> QED BY <1>2, <2>3, <2>4, <2>5, <2>6, WorkerStep
<1> QED BY <1>3, <1>4

LEMMA reconcileACLsStep ==
  ASSUME TypeInv, NEW w \in Workers, reconcileACLs(w) PROVE Kept
<1> DEFINE r == wk[w]
           next == AfterPort(r, r.i)
<1>1. /\ r \in Call /\ CallOK(r, fes, bes, want.ext) /\ r.pc = "acl"
      /\ want.ext \in BOOLEAN /\ r.s \in Wanted
  BY InCall DEF reconcileACLs
<1>2. UNCHANGED <<want, bes, level, edits, fails>> /\ level' \in Confs /\ fails' \in 0..MaxFails
  BY DEF reconcileACLs, budgets, TypeInv, TypeOK
<1>3. CASE ReturnError(w) /\ UNCHANGED fes
  BY <1>2, <1>3, ErrorStep
<1>4. next \in Call /\ CallOK(next, fes, bes, want.ext)
  BY <1>1, AfterPortOK DEF Call
<1>5. CASE ~ (ReturnError(w) /\ UNCHANGED fes)
  <2> DEFINE a == makeACLSpecs(r.s)
             f == r.fe
             x == [fes[f] EXCEPT !.acl = a]
  <2>1. /\ fes' = [fes EXCEPT ![f].acl = a]
        /\ Update(w, next) /\ UNCHANGED pending /\ f \in Existing(fes)
    BY <1>5 DEF reconcileACLs
  <2>2. fes[f] \in Frontend /\ a \in FrontendAcls /\ f \in Ids
    BY <1>1, <2>1 DEF TypeInv, TypeOK, Existing, Wanted, makeACLSpecs, FrontendAcls
  <2>3. x \in Frontend /\ x.mine = fes[f].mine /\ x.be = fes[f].be
    <3> HIDE DEF a, f
    <3> QED BY <2>2 DEF Frontend
  <2>4. fes' = [fes EXCEPT ![f] = x] /\ x.be \in Existing(bes)
    <3>1. fes' = [fes EXCEPT ![f] = x]
      <4> HIDE DEF a, f
      <4> QED BY <2>1, <2>2 DEF TypeInv, TypeOK
    <3> HIDE DEF a, f, x
    <3> QED BY <2>1, <2>3, <3>1 DEF TypeInv, TypeOK
  <2>5. ObjectsOK
    <3>1. want.ext => MineIn(fes, f)
      BY <1>1, <2>2 DEF CallOK, Knows
    <3> HIDE DEF x, f
    <3> QED BY <1>2, <2>1, <2>2, <2>3, <2>4, <3>1, FrontendChange DEF TypeInv
  <2>6. pending' \subseteq Workers
    BY <2>1 DEF TypeInv, TypeOK
  <2> HIDE DEF next
  <2> QED BY <1>2, <1>4, <2>1, <2>5, <2>6, WorkerStep
<1> QED BY <1>3, <1>5

LEMMA DeleteBackendStep ==
  ASSUME TypeInv, NEW w \in Workers, DeleteBackend(w) PROVE Kept
<1> DEFINE r == wk[w]
           i == SmallestOf(r.todo)
           more == r.todo \ {i}
           q == IF r.todo = {i} THEN "level" ELSE r.pc
           next == [r EXCEPT !.todo = more, !.pc = q]
<1>1. r \in Call /\ CallOK(r, fes, bes, want.ext) /\ r.pc = "delB" /\ want.ext \in BOOLEAN
  BY InCall DEF DeleteBackend
<1>2. UNCHANGED <<want, fes, level, edits, fails>> /\ level' \in Confs /\ fails' \in 0..MaxFails
  BY DEF DeleteBackend, budgets, TypeInv, TypeOK
<1>3. i \in r.todo /\ i \in Ids
  BY <1>1, SmallestId DEF CallOK, Call
<1>4. CASE ReturnError(w) /\ UNCHANGED bes
  BY <1>2, <1>4, ErrorStep
<1>5. CASE ~ (ReturnError(w) /\ UNCHANGED bes)
  <2>1. /\ bes' = [bes EXCEPT ![i] = Gone] /\ UNCHANGED pending /\ ~Referenced(i)
        /\ Update(w, [r EXCEPT !.todo = @ \ {i},
                               !.pc = IF r.todo = {i} THEN "level" ELSE @])
    BY <1>5 DEF DeleteBackend
  <2>2. Update(w, next)
    BY <1>1, <2>1 DEF Call
  <2>3. ObjectsOK
    <3>1. Gone \notin Backend /\ (want.ext => MineIn(bes, i))
      BY <1>1, <1>3, BackendsExist DEF CallOK, Knows
    <3> HIDE DEF i
    <3> QED BY <1>2, <1>3, <2>1, <3>1, BackendChange DEF TypeInv
  <2>4. /\ next \in Call /\ next.s = r.s /\ next.F = r.F /\ next.B = r.B
        /\ next.pc = q /\ next.todo = more /\ next.be = r.be /\ next.fe = r.fe
    <3>1. more \subseteq Ids /\ q \in PCs \ {"idle"}
      BY <1>1 DEF Call, PCs
    <3> HIDE DEF more, q
    <3> QED BY <1>1, <3>1 DEF Call
  <2>5. CallOK(next, fes, bes, want.ext)
    <3>1. more \subseteq r.todo /\ (q = "delB" => more # {}) /\ q \in {"delB", "level"}
      BY <1>1, <1>3
    <3> HIDE DEF next, q, more
    <3> QED BY <1>1, <2>4, <3>1 DEF CallOK, Knows
  <2>6. pending' \subseteq Workers
    BY <2>1 DEF TypeInv, TypeOK
  <2> HIDE DEF next
  <2> QED BY <1>2, <2>2, <2>3, <2>4, <2>5, <2>6, WorkerStep
<1> QED BY <1>4, <1>5

LEMMA SetLevelStep == ASSUME TypeInv, NEW w \in Workers, SetLevel(w) PROVE Kept
<1> DEFINE r == wk[w]
           next == [r EXCEPT !.pc = "done", !.F = NoList, !.B = NoList, !.i = 0,
                             !.be = 0, !.fe = 0]
<1>1. /\ r \in Call /\ CallOK(r, fes, bes, want.ext) /\ r.pc = "level"
      /\ r.s \in Wanted /\ r.s.conf \in Confs
  BY InCall DEF SetLevel, Wanted
<1>2. /\ NoList \in [Ids -> ListedFrontend \cup {None, Gone}]
      /\ NoList \in [Ids -> Backend \cup {None, Gone}] /\ Existing(NoList) = {}
  BY DEF NoList, Existing
<1>3. 0 \notin Ids
  BY ConstantsAssumption DEF Ids
<1>4. /\ next \in Call /\ next.s = r.s /\ next.F = NoList /\ next.B = NoList
      /\ next.pc = "done" /\ next.be = 0 /\ next.fe = 0
  BY <1>1, <1>2 DEF Call, PCs
<1>5. CallOK(next, fes, bes, want.ext)
  <2> HIDE DEF next
  <2> QED BY <1>1, <1>2, <1>3, <1>4 DEF CallOK, Knows
<1>6. ObjectsOK
  BY NoChange DEF SetLevel, TypeInv
<1>7. /\ level' \in Confs /\ pending' \subseteq Workers /\ Update(w, next) /\ want' = want
      /\ edits' = edits /\ fails' \in 0..MaxFails
  BY <1>1 DEF SetLevel, budgets, TypeInv, TypeOK
<1> HIDE DEF next
<1> QED BY <1>4, <1>5, <1>6, <1>7, WorkerStep

LEMMA ReturnStep == ASSUME TypeInv, NEW w \in Workers, Return(w) PROVE Kept
<1>1. NoCall.pc = "idle" /\ NoCall \in Call \cup {NoCall}
  BY DEF NoCall
<1>2. ObjectsOK
  BY NoChange DEF Return, lbVars, TypeInv
<1>3. /\ level' \in Confs /\ pending' \subseteq Workers /\ Update(w, NoCall) /\ want' = want
      /\ edits' = edits /\ fails' \in 0..MaxFails
  BY DEF Return, lbVars, budgets, TypeInv, TypeOK
<1> QED BY <1>1, <1>2, <1>3, WorkerStep

LEMMA FailStep == ASSUME TypeInv, NEW w \in Workers, Fail(w) PROVE Kept
<1>1. fails' \in 0..MaxFails
  BY ConstantsAssumption DEF Fail, TypeInv, TypeOK
<1> QED BY <1>1, ErrorStep DEF Fail, lbVars

\* The Service and the nodes change; externally managed or not, it stays so.
LEMMA EditStep ==
  ASSUME TypeInv, EditService \/ NodesChange \/ DeleteService \/ UNCHANGED vars PROVE Kept
<1>1. want \in Wanted
  BY DEF TypeInv, TypeOK
<1>2. want' \in Wanted /\ want'.ext = want.ext
  <2>1. CASE EditService
    <3>1. PICK s \in Specs :
            want' = [want EXCEPT !.ports = s.ports, !.conf = s.conf, !.acl = s.acl]
      BY <2>1 DEF EditService
    <3>2. s.ports \in Seq(ServicePort) /\ s.conf \in Confs /\ s.acl \in Acls
      BY ConstantsAssumption
    <3> QED BY <1>1, <3>1, <3>2 DEF Wanted
  <2>2. CASE NodesChange
    <3>1. PICK p \in Pools : want' = [want EXCEPT !.pool = p]
      BY <2>2 DEF NodesChange
    <3> QED BY <1>1, <3>1 DEF Wanted
  <2>3. CASE DeleteService
    <3>1. want' = [want EXCEPT !.deleting = TRUE]
      BY <2>3 DEF DeleteService
    <3> QED BY <1>1, <3>1 DEF Wanted
  <2> QED BY <1>1, <2>1, <2>2, <2>3 DEF vars
<1>3. UNCHANGED <<fes, bes, level, wk, fails>>
  BY DEF EditService, NodesChange, DeleteService, vars, lbVars, budgets
<1>4. pending' \subseteq Workers
  <2>1. pending \subseteq Workers /\ NodeSyncs \subseteq Workers /\ SvcWorker \in Workers
    BY DEF TypeInv, TypeOK, Workers
  <2> QED BY <2>1 DEF EditService, NodesChange, DeleteService, vars
<1>5. edits' \in 0..MaxEdits
  <2>1. edits \in 0..MaxEdits /\ MaxEdits \in Nat
    BY ConstantsAssumption DEF TypeInv, TypeOK
  <2>2. edits' = edits \/ (edits < MaxEdits /\ edits' = edits + 1)
    BY DEF EditService, NodesChange, DeleteService, vars, budgets
  <2> QED BY <2>1, <2>2
<1>6. Untouched
  BY <1>3 DEF Untouched
<1>7. CallInv'
  BY <1>2, <1>3 DEF TypeInv, CallInv
<1>8. NoCrossWiring => NoCrossWiring'
  BY <1>2, <1>3 DEF NoCrossWiring, Existing
<1> QED BY <1>2, <1>3, <1>4, <1>5, <1>6, <1>7, <1>8 DEF Kept, TypeInv, TypeOK

LEMMA TypeStep == TypeInv /\ [Next]_vars => Kept
<1> SUFFICES ASSUME TypeInv, [Next]_vars PROVE Kept
  OBVIOUS
<1>1. CASE EditService \/ NodesChange \/ DeleteService \/ UNCHANGED vars
  BY <1>1, EditStep
<1>2. ASSUME NEW w \in Workers, Begin(w) \/ Fail(w) PROVE Kept
  BY <1>2, BeginStep, FailStep
<1>3. ASSUME NEW w \in Workers, Step(w) PROVE Kept
  BY <1>3, ListFrontendsStep, ListBackendsStep, DeleteFrontendStep, UpdateBackendStep,
     UpdateHealthCheckStep, CreateBackendStep, KeepBackendStep, SetBackendServersStep,
     UpdateFrontendStep, CreateFrontendStep, KeepFrontendStep, reconcileACLsStep,
     DeleteBackendStep, SetLevelStep, ReturnStep DEF Step
<1> QED BY <1>1, <1>2, <1>3 DEF Next

LEMMA TypeInit == Init => TypeInv
<1> SUFFICES ASSUME Init PROVE TypeInv
  OBVIOUS
<1>1. want \in Wanted /\ level \in Confs
  <2>1. PICK s \in Specs, p \in Pools, e \in ExtModes :
          want = [ports |-> s.ports, conf |-> s.conf, acl |-> s.acl, pool |-> p,
                  ext |-> e, deleting |-> FALSE]
    BY DEF Init
  <2>2. s.ports \in Seq(ServicePort) /\ s.conf \in Confs /\ s.acl \in Acls /\ e \in BOOLEAN
    BY ConstantsAssumption
  <2> QED BY <2>1, <2>2 DEF Init, Wanted
<1>2. NoList \in [Ids -> Frontend \cup {None, Gone}]
      /\ NoList \in [Ids -> Backend \cup {None, Gone}] /\ Existing(NoList) = {}
  BY DEF NoList, Existing
<1>3. /\ fes \in [Ids -> Frontend \cup {None, Gone}]
      /\ bes \in [Ids -> Backend \cup {None, Gone}]
      /\ \A i \in Existing(fes) : fes[i].be \in Existing(bes)
  <2>1. CASE fes = NoList /\ bes = NoList
    BY <1>2, <2>1
  <2>2. ASSUME NEW port \in Ports, NEW np \in NodePorts,
               fes = [NoList EXCEPT ![1] = [port |-> port, be |-> 1, conf |-> level,
                                         acl |-> NoAcl, mine |-> FALSE]],
               bes = [NoList EXCEPT ![1] = [nodePort |-> np, conf |-> level, health |-> level,
                                         pool |-> want.pool, mine |-> FALSE]]
        PROVE  /\ fes \in [Ids -> Frontend \cup {None, Gone}]
               /\ bes \in [Ids -> Backend \cup {None, Gone}]
               /\ \A i \in Existing(fes) : fes[i].be \in Existing(bes)
    <3> DEFINE x == [port |-> port, be |-> 1, conf |-> level, acl |-> NoAcl, mine |-> FALSE]
               y == [nodePort |-> np, conf |-> level, health |-> level,
                     pool |-> want.pool, mine |-> FALSE]
    <3>1. NoAcl \in FrontendAcls /\ want.pool \in Pools
      BY <1>1 DEF FrontendAcls, Wanted
    <3>2. y \in Backend /\ y \notin {None, Gone}
      <4>1. y \in Backend
        BY <1>1, <3>1 DEF Backend
      <4> HIDE DEF y
      <4> QED BY <4>1, BackendsExist
    <3>3. 1 \in Ids => x \in Frontend /\ x.be = 1
      BY <1>1, <3>1 DEF Frontend
    <3>4. fes = [NoList EXCEPT ![1] = x] /\ bes = [NoList EXCEPT ![1] = y]
      BY <2>2
    <3> HIDE DEF x, y
    <3>5. /\ fes \in [Ids -> Frontend \cup {None, Gone}]
          /\ bes \in [Ids -> Backend \cup {None, Gone}]
      BY <1>2, <3>2, <3>3, <3>4
    <3>6. \A i \in Existing(fes) : i = 1 /\ fes[i] = x /\ 1 \in Ids
      BY <3>4 DEF NoList, Existing
    <3>7. 1 \in Ids => 1 \in Existing(bes)
      BY <3>2, <3>4 DEF NoList, Existing
    <3> QED BY <3>3, <3>5, <3>6, <3>7
  <2> QED BY <2>1, <2>2 DEF Init
<1>4. \A w \in Workers : wk[w] = NoCall
  BY DEF Init
<1>5. CallInv /\ wk \in [Workers -> Call \cup {NoCall}]
  BY <1>4 DEF CallInv, NoCall, Init
<1> QED
  BY <1>1, <1>3, <1>5, ConstantsAssumption DEF Init, TypeInv, TypeOK, Workers

\* Type correctness, however many calls race; in particular no frontend is ever
\* left without its backend.
THEOREM ReconcileTypeCorrect == Spec => []TypeOK
<1>1. TypeInv => TypeOK
  BY DEF TypeInv
<1>2. TypeInv /\ [Next]_vars => TypeInv'
  BY TypeStep DEF TypeInv, Kept
<1> QED BY <1>1, <1>2, TypeInit, PTL DEF Spec

\* Whatever calls race, from whatever copies of the Service and whatever lists:
\* the frontends and backends that the owner of an externally managed LB made
\* are never changed nor deleted (the prefix filters of compareFrontends and
\* compareBackends, in updateLoadBalancer and in
\* removeExternallyManagedResources).
THEOREM OwnersKeepTheirObjects == Spec => OwnersObjectsUntouched
<1>1. TypeInv /\ [Next]_vars => TypeInv'
  BY TypeStep DEF TypeInv, Kept
<1>2. TypeInv /\ [Next]_vars =>
        [want.ext => /\ \A i \in Existing(fes) : ~fes[i].mine => fes'[i] = fes[i]
                     /\ \A i \in Existing(bes) : ~bes[i].mine => bes'[i] = bes[i]]_vars
  BY TypeStep DEF Kept, Untouched
<1> QED BY <1>1, <1>2, TypeInit, PTL DEF Spec, OwnersObjectsUntouched

LEMMA WiringInit == Init => NoCrossWiring
<1> SUFFICES ASSUME Init PROVE NoCrossWiring
  OBVIOUS
<1>1. CASE fes = NoList /\ bes = NoList
  BY <1>1 DEF NoCrossWiring, Existing, NoList
<1>2. ASSUME NEW port \in Ports, NEW np \in NodePorts,
             fes = [NoList EXCEPT ![1] = [port |-> port, be |-> 1, conf |-> level,
                                       acl |-> NoAcl, mine |-> FALSE]],
             bes = [NoList EXCEPT ![1] = [nodePort |-> np, conf |-> level, health |-> level,
                                       pool |-> want.pool, mine |-> FALSE]]
      PROVE  NoCrossWiring
  <2>1. \A i \in Existing(fes) : i = 1 /\ 1 \in Ids
    BY <1>2 DEF NoList, Existing
  <2>2. 1 \in Ids => fes[1].be = 1 /\ fes[1].mine = FALSE /\ bes[1].mine = FALSE
    BY <1>2 DEF NoList
  <2> QED BY <2>1, <2>2 DEF NoCrossWiring
<1> QED BY <1>1, <1>2 DEF Init

\* On an externally managed LB, no frontend of the Service ever points to a
\* backend of the owner, nor the owner's to one of the Service, however calls
\* race: a call only hands on a backend that its list, or its own creation, has
\* shown to be the Service's (prefixFilter in updateLoadBalancer).
THEOREM OwnersStayApart == Spec => []NoCrossWiring
<1>1. TypeInv /\ [Next]_vars => TypeInv'
  BY TypeStep DEF TypeInv, Kept
<1>2. TypeInv /\ NoCrossWiring /\ [Next]_vars => NoCrossWiring'
  BY TypeStep DEF Kept
<1> QED BY <1>1, <1>2, TypeInit, WiringInit, PTL DEF Spec

-----------------------------------------------------------------------------
(***************************************************************************)
(* On an API that refuses a second frontend on a port, no port that stays  *)
(* is cut, however many calls race: a frontend keeps its port all its life,*)
(* so that what a call's list, however old, marks for removal never serves *)
(* a port that the call wants.                                             *)
(***************************************************************************)
\* What a call remembers of the frontends.
Remembers(r, F) ==
  /\ \A i \in Existing(r.F) : F[i] # None /\ (i \in Existing(F) => F[i].port = r.F[i].f.port)
  /\ \A i, j \in Existing(r.F) : r.F[i].f.port = r.F[j].f.port => i = j
  /\ r.pc = "delF" => \A i \in r.todo : /\ i \in Existing(r.F)
                                        /\ r.F[i].f.port \notin WantedPorts(r.s)

ServeInv ==
  /\ \A i, j \in Existing(fes) : fes[i].port = fes[j].port => i = j
  /\ \A w \in Workers : wk[w].pc # "idle" => Remembers(wk[w], fes)

\* What a step may do to the frontends.
FrontendRewritten ==
  \E i \in Existing(fes), x \in Frontend :
     /\ x.port = fes[i].port /\ (fes[i].mine => x.mine)
     /\ fes' = [fes EXCEPT ![i] = x]

FrontendAdded ==
  \E i \in FreshIds(fes), x \in Frontend :
     ~PortRefused(x.port) /\ fes' = [fes EXCEPT ![i] = x]

FrontendDeleted ==
  \E w \in Workers : /\ wk[w].pc = "delF"
                     /\ \E i \in wk[w].todo : fes' = [fes EXCEPT ![i] = Gone]

FrontendsChange == fes' = fes \/ FrontendRewritten \/ FrontendAdded \/ FrontendDeleted

LEMMA FrontendsStep ==
  ASSUME TypeInv, [Next]_vars
  PROVE  FrontendsChange
<1> USE DEF lbVars
<1>1. CASE EditService \/ NodesChange \/ DeleteService \/ UNCHANGED vars
  BY <1>1 DEF EditService, NodesChange, DeleteService, vars, FrontendsChange
<1>2. ASSUME NEW w \in Workers, Begin(w) \/ Fail(w) PROVE FrontendsChange
  BY <1>2 DEF Begin, Fail, FrontendsChange
<1>3. ASSUME NEW w \in Workers,
             \/ ListFrontends(w) \/ ListBackends(w) \/ UpdateBackend(w) \/ UpdateHealthCheck(w)
             \/ CreateBackend(w) \/ KeepBackend(w) \/ SetBackendServers(w)
             \/ KeepFrontend(w) \/ DeleteBackend(w) \/ SetLevel(w) \/ Return(w)
      PROVE  fes' = fes
  BY <1>3, Zenon DEF ListFrontends, ListBackends, UpdateBackend, UpdateHealthCheck,
     CreateBackend, KeepBackend, SetBackendServers, KeepFrontend, DeleteBackend, SetLevel, Return
<1>4. ASSUME NEW w \in Workers, DeleteFrontend(w) PROVE FrontendsChange
  <2>1. wk[w].pc = "delF" /\ wk[w].todo \in SUBSET Ids /\ wk[w].todo # {}
    BY <1>4, InCall DEF DeleteFrontend, CallOK, Call
  <2>2. SmallestOf(wk[w].todo) \in wk[w].todo
    BY <2>1, SmallestId
  <2> QED BY <1>4, <2>1, <2>2 DEF DeleteFrontend, FrontendDeleted, FrontendsChange
<1>5. ASSUME NEW w \in Workers, UpdateFrontend(w) PROVE FrontendsChange
  <2> DEFINE r == wk[w]
  <2>1. CASE fes' = fes
    BY <2>1 DEF FrontendsChange
  <2>2. CASE fes' # fes
    <3>1. PICK i \in Existing(fes) :
            /\ r.be \in Existing(bes)
            /\ fes' = [fes EXCEPT ![i].be = r.be, ![i].conf = r.s.conf, ![i].mine = TRUE]
      BY <1>5, <2>2, Zenon DEF UpdateFrontend
    <3> DEFINE x == [fes[i] EXCEPT !.be = r.be, !.conf = r.s.conf, !.mine = TRUE]
    <3>2. i \in Ids /\ fes[i] \in Frontend /\ r.be \in Ids
      BY <3>1 DEF Existing, TypeInv, TypeOK
    <3>3. r.s.conf \in Confs
      BY <1>5, InCall DEF UpdateFrontend, Wanted
    <3>4. x \in Frontend /\ x.port = fes[i].port /\ x.mine
      BY <3>2, <3>3 DEF Frontend
    <3>5. fes' = [fes EXCEPT ![i] = x]
      BY <3>1, <3>2 DEF TypeInv, TypeOK
    <3> HIDE DEF x
    <3> QED BY <3>1, <3>4, <3>5 DEF FrontendRewritten, FrontendsChange
  <2> QED BY <2>1, <2>2
<1>6. ASSUME NEW w \in Workers, CreateFrontend(w) PROVE FrontendsChange
  <2> DEFINE r == wk[w]
             port == Port(w).port
             x == NewFrontend(r.s, port, r.be)
             i == SmallestOf(FreshIds(fes))
  <2>1. CASE fes' = fes
    BY <2>1 DEF FrontendsChange
  <2>2. CASE fes' # fes
    <3>1. /\ FreshIds(fes) # {} /\ CreateF(r.F, r.s, port) /\ r.be \in Existing(bes)
          /\ ~PortRefused(port) /\ fes' = [fes EXCEPT ![i] = x]
      BY <1>6, <2>2 DEF CreateFrontend
    <3>2. i \in FreshIds(fes)
      <4>1. FreshIds(fes) \in SUBSET Ids
        BY DEF FreshIds
      <4> QED BY <3>1, <4>1, SmallestId
    <3>3. r.s \in Wanted
      BY <1>6, InCall DEF CreateFrontend
    <3>4. port \in Ports /\ r.be \in Ids /\ r.s.conf \in Confs /\ NoAcl \in FrontendAcls
      BY <3>1, <3>3, PortsTyped DEF CreateF, Existing, Wanted, FrontendAcls
    <3>5. x \in Frontend /\ x.port = port
      <4> HIDE DEF port
      <4> QED BY <3>4 DEF NewFrontend, Frontend
    <3> HIDE DEF x, i, port
    <3> QED BY <3>1, <3>2, <3>5 DEF FrontendAdded, FrontendsChange
  <2> QED BY <2>1, <2>2
<1>7. ASSUME NEW w \in Workers, reconcileACLs(w) PROVE FrontendsChange
  <2> DEFINE r == wk[w]
             f == r.fe
             a == makeACLSpecs(r.s)
             x == [fes[f] EXCEPT !.acl = a]
  <2>1. CASE fes' = fes
    BY <2>1 DEF FrontendsChange
  <2>2. CASE fes' # fes
    <3>1. f \in Existing(fes) /\ fes' = [fes EXCEPT ![f].acl = a]
      BY <1>7, <2>2 DEF reconcileACLs
    <3>2. f \in Ids /\ fes[f] \in Frontend
      BY <3>1 DEF Existing, TypeInv, TypeOK
    <3>3. a \in FrontendAcls
      BY <1>7, InCall DEF reconcileACLs, Wanted, makeACLSpecs, FrontendAcls
    <3>4. x \in Frontend /\ x.port = fes[f].port /\ x.mine = fes[f].mine
      <4> HIDE DEF f, a
      <4> QED BY <3>2, <3>3 DEF Frontend
    <3>5. fes' = [fes EXCEPT ![f] = x]
      <4> HIDE DEF f, a
      <4> QED BY <3>1, <3>2 DEF TypeInv, TypeOK
    <3> HIDE DEF x, f
    <3> QED BY <3>1, <3>4, <3>5 DEF FrontendRewritten, FrontendsChange
  <2> QED BY <2>1, <2>2
<1> QED
  BY <1>1, <1>2, <1>3, <1>4, <1>5, <1>6, <1>7 DEF Next, Step, FrontendsChange

\* No id is used twice, and a frontend keeps its port and its owner.
LEMMA PortsStay ==
  ASSUME TypeInv, FrontendsChange
  PROVE  \A i \in Ids : /\ fes[i] # None => fes'[i] # None
                        /\ fes[i] # None /\ i \in Existing(fes') =>
                             /\ i \in Existing(fes) /\ fes'[i].port = fes[i].port
                             /\ fes[i].mine => fes'[i].mine
<1>1. fes \in [Ids -> Frontend \cup {None, Gone}]
  BY DEF TypeInv, TypeOK
<1>2. None # Gone /\ \A x \in Frontend : x # None /\ x # Gone
  BY FrontendsExist DEF None, Gone
<1>3. CASE FrontendRewritten
  BY <1>1, <1>2, <1>3 DEF FrontendRewritten, Existing
<1>4. CASE FrontendAdded
  BY <1>1, <1>2, <1>4 DEF FrontendAdded, Existing, FreshIds
<1>5. CASE FrontendDeleted
  BY <1>1, <1>2, <1>5 DEF FrontendDeleted, Existing
<1> QED BY <1>1, <1>3, <1>4, <1>5 DEF FrontendsChange

\* What a call remembers stays true.
LEMMA RemembersStable ==
  ASSUME TypeInv, FrontendsChange, NEW r, Remembers(r, fes)
  PROVE  Remembers(r, fes')
<1>1. Existing(r.F) \subseteq Ids
  BY DEF Existing
<1>2. ASSUME NEW i \in Existing(r.F)
      PROVE  fes'[i] # None /\ (i \in Existing(fes') => fes'[i].port = r.F[i].f.port)
  <2>1. i \in Ids /\ fes[i] # None /\ (i \in Existing(fes) => fes[i].port = r.F[i].f.port)
    BY <1>1, <1>2 DEF Remembers
  <2> QED BY <2>1, PortsStay
<1>3. \A i, j \in Existing(r.F) : r.F[i].f.port = r.F[j].f.port => i = j
  BY DEF Remembers
<1>4. r.pc = "delF" => \A i \in r.todo : /\ i \in Existing(r.F)
                                         /\ r.F[i].f.port \notin WantedPorts(r.s)
  BY DEF Remembers
<1> QED BY <1>2, <1>3, <1>4 DEF Remembers

\* A call that goes on with the same lists remembers no more.
LEMMA SameMemory ==
  ASSUME NEW r, NEW q, NEW F, Remembers(r, F), q.F = r.F, q.s = r.s,
         q.pc = "delF" => r.pc = "delF" /\ q.todo \subseteq r.todo
  PROVE  Remembers(q, F)
BY DEF Remembers

LEMMA AfterPortMemory ==
  ASSUME NEW r \in Call, NEW k \in Nat
  PROVE  /\ AfterPort(r, k).F = r.F /\ AfterPort(r, k).s = r.s
         /\ AfterPort(r, k).pc # "delF"
<1> DEFINE rm == RemoveB(r.B, r.s)
           n == k + 1
<1>1. /\ [r EXCEPT !.pc = "backend", !.i = n, !.be = 0, !.fe = 0].F = r.F
      /\ [r EXCEPT !.pc = "backend", !.i = n, !.be = 0, !.fe = 0].s = r.s
      /\ [r EXCEPT !.pc = "backend", !.i = n, !.be = 0, !.fe = 0].pc = "backend"
      /\ [r EXCEPT !.pc = "delB", !.todo = rm].F = r.F
      /\ [r EXCEPT !.pc = "delB", !.todo = rm].s = r.s
      /\ [r EXCEPT !.pc = "delB", !.todo = rm].pc = "delB"
      /\ [r EXCEPT !.pc = "level"].F = r.F /\ [r EXCEPT !.pc = "level"].s = r.s
      /\ [r EXCEPT !.pc = "level"].pc = "level"
  <2> HIDE DEF rm, n
  <2> QED BY DEF Call
<1> QED BY <1>1 DEF AfterPort

\* In a list without duplicates, what is marked for removal is not wanted.
LEMMA MarkedUnwanted ==
  ASSUME NEW r, \A i, j \in Existing(r.F) : r.F[i].f.port = r.F[j].f.port => i = j
  PROVE  \A i \in RemoveF(r.F, r.s) : i \in Existing(r.F) /\ r.F[i].f.port \notin WantedPorts(r.s)
<1>1. Existing(r.F) \subseteq Int
  BY ConstantsAssumption DEF Existing, Ids
<1>2. ConsideredF(r.F, r.s) \subseteq Existing(r.F)
  BY DEF ConsideredF
<1>3. \A i \in ConsideredF(r.F, r.s) : i \in FirstF(r.F, r.s)
  BY <1>1, <1>2 DEF FirstF
<1> QED BY <1>2, <1>3 DEF RemoveF

\* What a call remembers after a step of its own, of the frontends as they were.
LEMMA MemoryStep ==
  ASSUME TypeInv, ServeInv, NEW w \in Workers, Begin(w) \/ Step(w) \/ Fail(w),
         wk'[w].pc # "idle"
  PROVE  Remembers(wk'[w], fes)
<1> DEFINE r == wk[w]
<1>1. /\ \A q : Update(w, q) => wk'[w] = q
      /\ ~Update(w, NoCall) /\ ~ReturnError(w)
  BY DEF Update, TypeInv, TypeOK, NoCall, ReturnError
<1>2. r.pc # "idle" => r \in Call /\ Remembers(r, fes)
  BY CallRecords DEF TypeInv, ServeInv
<1>3. CASE Begin(w)
  <2>1. wk'[w] = NewCall
    BY <1>1, <1>3 DEF Begin
  <2>2. Existing(NewCall.F) = {} /\ NewCall.pc = "listF"
    BY DEF NewCall, NoList, Existing
  <2> QED BY <2>1, <2>2 DEF Remembers
<1>4. CASE ListFrontends(w)
  <2> DEFINE L == [i \in Ids |-> IF i \notin Existing(fes) THEN fes[i]
                      ELSE [f |-> fes[i], nodePort |-> bes[fes[i].be].nodePort]]
  <2>1. wk'[w] = [r EXCEPT !.pc = "listB", !.F = L] /\ r \in Call
    BY <1>1, <1>2, <1>4 DEF ListFrontends
  <2>2. wk'[w].F = L /\ wk'[w].pc = "listB"
    <3> HIDE DEF L
    <3> QED BY <2>1 DEF Call
  <2>3. \A i \in Existing(L) : i \in Existing(fes) /\ L[i].f = fes[i] /\ fes[i] # None
    BY DEF Existing
  <2> HIDE DEF L
  <2> QED BY <2>2, <2>3 DEF Remembers, ServeInv
<1>5. CASE ListBackends(w)
  <2> DEFINE l == [r EXCEPT !.B = bes]
             rm == RemoveF(l.F, l.s)
             del == [l EXCEPT !.pc = "delF", !.todo = rm]
  <2>1. /\ wk'[w] = (IF rm # {} THEN del ELSE AfterPort(l, 0))
        /\ r \in Call /\ Remembers(r, fes) /\ r.pc = "listB"
    BY <1>1, <1>2, <1>5 DEF ListBackends
  <2>2. l \in Call /\ l.F = r.F /\ l.s = r.s /\ l.pc = "listB"
    BY <2>1 DEF Call, TypeInv, TypeOK
  <2>3. Remembers(l, fes)
    <3> HIDE DEF l
    <3> QED BY <2>1, <2>2, SameMemory
  <2>4. Remembers(AfterPort(l, 0), fes)
    <3> HIDE DEF l
    <3> QED BY <2>2, <2>3, AfterPortMemory, SameMemory
  <2>5. del.F = l.F /\ del.s = l.s /\ del.todo = rm
    <3> HIDE DEF l, rm
    <3> QED BY <2>2 DEF Call
  <2>6. \A i \in rm : i \in Existing(l.F) /\ l.F[i].f.port \notin WantedPorts(l.s)
    <3> HIDE DEF l
    <3> QED BY <2>3, MarkedUnwanted DEF Remembers
  <2>7. Remembers(del, fes)
    <3> HIDE DEF l, del, rm
    <3> QED BY <2>3, <2>5, <2>6 DEF Remembers
  <2> HIDE DEF l, del, rm
  <2> QED BY <2>1, <2>4, <2>7
<1>6. CASE DeleteFrontend(w)
  <2> DEFINE i == SmallestOf(r.todo)
             last == [r EXCEPT !.todo = {}]
             more == [r EXCEPT !.todo = @ \ {i}]
  <2>1. /\ wk'[w] = (IF r.todo = {i} THEN AfterPort(last, 0) ELSE more)
        /\ r \in Call /\ Remembers(r, fes) /\ r.pc = "delF"
    BY <1>1, <1>2, <1>6 DEF DeleteFrontend
  <2>2. last \in Call /\ last.F = r.F /\ last.s = r.s /\ last.pc = r.pc /\ last.todo = {}
    BY <2>1 DEF Call
  <2>3. more.F = r.F /\ more.s = r.s /\ more.pc = r.pc /\ more.todo \subseteq r.todo
    <3> HIDE DEF i
    <3> QED BY <2>1 DEF Call
  <2>4. Remembers(AfterPort(last, 0), fes)
    <3> HIDE DEF last
    <3>1. Remembers(last, fes)
      BY <2>1, <2>2, SameMemory
    <3> QED BY <2>2, <3>1, AfterPortMemory, SameMemory
  <2>5. Remembers(more, fes)
    <3> HIDE DEF more
    <3> QED BY <2>1, <2>3, SameMemory
  <2> HIDE DEF last, more, i
  <2> QED BY <2>1, <2>4, <2>5
<1>7. CASE reconcileACLs(w)
  <2>1. wk'[w] = AfterPort(r, r.i) /\ r \in Call /\ Remembers(r, fes)
    BY <1>1, <1>2, <1>7 DEF reconcileACLs
  <2>2. r.i \in Nat
    BY <2>1 DEF Call
  <2> QED BY <2>1, <2>2, AfterPortMemory, SameMemory
<1>8. CASE SetLevel(w)
  <2>1. wk'[w] = [r EXCEPT !.pc = "done", !.F = NoList, !.B = NoList, !.i = 0,
                           !.be = 0, !.fe = 0] /\ r \in Call
    BY <1>1, <1>2, <1>8 DEF SetLevel
  <2>2. wk'[w].F = NoList /\ wk'[w].pc = "done"
    BY <2>1 DEF Call
  <2>3. Existing(NoList) = {}
    BY DEF NoList, Existing
  <2> QED BY <2>2, <2>3 DEF Remembers
<1>9. CASE Return(w) \/ Fail(w)
  BY <1>1, <1>9 DEF Return, Fail
<1>10. ASSUME NEW q, Update(w, q), r.pc # "idle", q.F = r.F, q.s = r.s, q.pc # "delF"
       PROVE  Remembers(wk'[w], fes)
  BY <1>1, <1>2, <1>10, SameMemory
<1>11. CASE UpdateBackend(w)
  <2>1. PICK i : Update(w, [r EXCEPT !.pc = "health", !.be = i, !.pool = bes[i].pool])
    BY <1>1, <1>11 DEF UpdateBackend
  <2> DEFINE p == bes[i].pool
             q == [r EXCEPT !.pc = "health", !.be = i, !.pool = p]
  <2>2. r.pc # "idle" /\ r \in Call
    BY <1>2, <1>11 DEF UpdateBackend
  <2>3. q.F = r.F /\ q.s = r.s /\ q.pc = "health"
    <3> HIDE DEF p
    <3> QED BY <2>2 DEF Call
  <2>4. Update(w, q)
    BY <2>1
  <2> HIDE DEF q
  <2> QED BY <1>10, <2>2, <2>3, <2>4
<1>12. CASE UpdateHealthCheck(w) \/ SetBackendServers(w)
  <2>1. r.pc # "idle" /\ r \in Call
    BY <1>2, <1>12 DEF UpdateHealthCheck, SetBackendServers
  <2>2. \E pc \in {"servers", "frontend"} : Update(w, [r EXCEPT !.pc = pc])
    BY <1>1, <1>12 DEF UpdateHealthCheck, SetBackendServers
  <2>3. \A pc : [r EXCEPT !.pc = pc].F = r.F /\ [r EXCEPT !.pc = pc].s = r.s
                /\ [r EXCEPT !.pc = pc].pc = pc
    BY <2>1 DEF Call
  <2> QED BY <1>10, <2>1, <2>2, <2>3
<1>13. CASE CreateBackend(w) \/ KeepBackend(w)
  <2>1. r.pc # "idle" /\ r \in Call
    BY <1>2, <1>13, Zenon DEF CreateBackend, KeepBackend
  <2>2. \E i, p : Update(w, [r EXCEPT !.pc = "servers", !.be = i, !.pool = p])
    BY <1>1, <1>13, Zenon DEF CreateBackend, KeepBackend
  <2>3. \A i, p : /\ [r EXCEPT !.pc = "servers", !.be = i, !.pool = p].F = r.F
                  /\ [r EXCEPT !.pc = "servers", !.be = i, !.pool = p].s = r.s
                  /\ [r EXCEPT !.pc = "servers", !.be = i, !.pool = p].pc = "servers"
    BY <2>1 DEF Call
  <2>4. PICK i, p : Update(w, [r EXCEPT !.pc = "servers", !.be = i, !.pool = p])
    BY <2>2
  <2> QED BY <1>10, <2>1, <2>3, <2>4
<1>14. CASE UpdateFrontend(w) \/ CreateFrontend(w) \/ KeepFrontend(w)
  <2>1. r.pc # "idle" /\ r \in Call
    BY <1>2, <1>14, Zenon DEF UpdateFrontend, CreateFrontend, KeepFrontend
  <2>2. PICK i : Update(w, [r EXCEPT !.pc = "acl", !.fe = i])
    BY <1>1, <1>14, Zenon DEF UpdateFrontend, CreateFrontend, KeepFrontend
  <2>3. \A i_1 : /\ [r EXCEPT !.pc = "acl", !.fe = i_1].F = r.F
                 /\ [r EXCEPT !.pc = "acl", !.fe = i_1].s = r.s
                 /\ [r EXCEPT !.pc = "acl", !.fe = i_1].pc = "acl"
    BY <2>1 DEF Call
  <2> QED BY <1>10, <2>1, <2>2, <2>3
<1>15. CASE DeleteBackend(w)
  <2>1. r.pc # "idle" /\ r \in Call /\ r.pc = "delB"
    BY <1>2, <1>15 DEF DeleteBackend
  <2>2. PICK t, pc : pc \in {"delB", "level"} /\ Update(w, [r EXCEPT !.todo = t, !.pc = pc])
    <3> DEFINE i == SmallestOf(r.todo)
    <3>1. Update(w, [r EXCEPT !.todo = @ \ {i}, !.pc = IF r.todo = {i} THEN "level" ELSE @])
      BY <1>1, <1>15 DEF DeleteBackend
    <3>2. Update(w, [r EXCEPT !.todo = r.todo \ {i},
                              !.pc = IF r.todo = {i} THEN "level" ELSE r.pc])
      BY <2>1, <3>1 DEF Call
    <3> DEFINE q == IF r.todo = {i} THEN "level" ELSE r.pc
               more == r.todo \ {i}
    <3>3. q \in {"delB", "level"} /\ Update(w, [r EXCEPT !.todo = more, !.pc = q])
      BY <2>1, <3>2
    <3> HIDE DEF q, more
    <3> QED BY <3>3
  <2>3. /\ [r EXCEPT !.todo = t, !.pc = pc].F = r.F /\ [r EXCEPT !.todo = t, !.pc = pc].s = r.s
        /\ [r EXCEPT !.todo = t, !.pc = pc].pc = pc
    BY <2>1 DEF Call
  <2> QED BY <1>10, <2>1, <2>2, <2>3
<1> QED
  BY <1>3, <1>4, <1>5, <1>6, <1>7, <1>8, <1>9, <1>11, <1>12, <1>13, <1>14, <1>15 DEF Step

\* No two frontends get the same port.
LEMMA PortsUnique ==
  ASSUME TypeInv, FrontendsChange, UniquePorts, ServeInv
  PROVE  \A i, j \in Existing(fes') : fes'[i].port = fes'[j].port => i = j
<1>1. fes \in [Ids -> Frontend \cup {None, Gone}]
  BY DEF TypeInv, TypeOK
<1>2. \A i, j \in Existing(fes) : fes[i].port = fes[j].port => i = j
  BY DEF ServeInv
<1>3. CASE FrontendAdded
  <2>1. PICK n \in FreshIds(fes), x \in Frontend :
               ~PortRefused(x.port) /\ fes' = [fes EXCEPT ![n] = x]
    BY <1>3 DEF FrontendAdded
  <2>2. \A j \in Existing(fes) : fes[j].port # x.port
    BY <2>1 DEF PortRefused
  <2>3. \A i \in Existing(fes') : /\ i = n => fes'[i] = x
                                  /\ i # n => i \in Existing(fes) /\ fes'[i] = fes[i]
    BY <1>1, <2>1 DEF Existing, FreshIds
  <2> QED BY <1>2, <2>2, <2>3
<1>4. CASE fes' = fes \/ FrontendRewritten \/ FrontendDeleted
  <2>1. \A i \in Existing(fes') : i \in Existing(fes) /\ fes'[i].port = fes[i].port
    <3>1. CASE FrontendRewritten
      BY <1>1, <3>1 DEF FrontendRewritten, Existing
    <3>2. CASE FrontendDeleted
      BY <1>1, <3>2 DEF FrontendDeleted, Existing
    <3> QED BY <1>4, <3>1, <3>2
  <2> QED BY <1>2, <2>1
<1> QED BY <1>3, <1>4 DEF FrontendsChange

LEMMA ServeNext ==
  ASSUME UniquePorts, TypeInv, ServeInv, [Next]_vars
  PROVE  ServeInv'
<1>1. FrontendsChange
  BY FrontendsStep
<1>2. \A i, j \in Existing(fes') : fes'[i].port = fes'[j].port => i = j
  BY <1>1, PortsUnique
<1>3. ASSUME NEW v \in Workers, wk'[v].pc # "idle"
      PROVE  Remembers(wk'[v], fes)
  <2>1. CASE wk'[v] = wk[v]
    BY <1>3, <2>1 DEF ServeInv
  <2>2. CASE UNCHANGED vars \/ EditService \/ NodesChange \/ DeleteService
    BY <2>1, <2>2 DEF vars, EditService, NodesChange, DeleteService
  <2>3. ASSUME NEW w \in Workers, Begin(w) \/ Step(w) \/ Fail(w)
        PROVE  Remembers(wk'[v], fes)
    <3>1. CASE w = v
      BY <1>3, <2>3, <3>1, MemoryStep
    <3>2. CASE w # v
      <4>1. \E q : Update(w, q)
        BY <2>3, Zenon DEF Begin, Step, Fail, ListFrontends, ListBackends, DeleteFrontend,
             UpdateBackend, UpdateHealthCheck, CreateBackend, KeepBackend,
             SetBackendServers, UpdateFrontend, CreateFrontend, KeepFrontend,
             reconcileACLs, DeleteBackend, SetLevel, Return, ReturnError
      <4> QED BY <2>1, <3>2, <4>1 DEF Update, TypeInv, TypeOK
    <3> QED BY <3>1, <3>2
  <2> QED BY <2>2, <2>3 DEF Next
<1>4. \A v \in Workers : wk'[v].pc # "idle" => Remembers(wk'[v], fes')
  BY <1>1, <1>3, RemembersStable
<1> QED BY <1>2, <1>4 DEF ServeInv, Existing

LEMMA ServeInit == Init => ServeInv
<1> SUFFICES ASSUME Init PROVE ServeInv
  OBVIOUS
<1>1. \A i, j \in Existing(fes) : i = j
  <2>1. CASE fes = NoList
    BY <2>1 DEF Existing, NoList
  <2>2. ASSUME NEW x, fes = [NoList EXCEPT ![1] = x]
        PROVE  \A i \in Existing(fes) : i = 1
    BY <2>2 DEF Existing, NoList
  <2> QED BY <2>1, <2>2 DEF Init
<1>2. \A w \in Workers : wk[w].pc = "idle"
  BY DEF Init, NoCall
<1> QED BY <1>1, <1>2 DEF ServeInv

\* A port that the calls in progress want keeps its frontend.
LEMMA ServeStep ==
  ASSUME TypeInv, ServeInv, [Next]_vars, want' = want,
         NEW port \in WantedPorts(want), Served(port),
         \A w \in Workers : wk[w].pc # "idle" => port \in WantedPorts(wk[w].s)
  PROVE  Served(port)'
<1>1. FrontendsChange
  BY FrontendsStep
<1>2. PICK i \in ManagedF(want) : fes[i].port = port
  BY DEF Served
<1>3. i \in Existing(fes) /\ i \in Ids /\ (want.ext => fes[i].mine)
  BY <1>2 DEF ManagedF, Existing
<1>4. fes \in [Ids -> Frontend \cup {None, Gone}]
  BY DEF TypeInv, TypeOK
<1>5. i \in Existing(fes')
  <2>1. CASE FrontendDeleted
    <3>1. PICK w \in Workers : /\ wk[w].pc = "delF"
                               /\ \E j \in wk[w].todo : fes' = [fes EXCEPT ![j] = Gone]
      BY <2>1 DEF FrontendDeleted
    <3>2. PICK j \in wk[w].todo : fes' = [fes EXCEPT ![j] = Gone]
      BY <3>1
    <3>3. Remembers(wk[w], fes) /\ port \in WantedPorts(wk[w].s)
      BY <3>1 DEF ServeInv
    <3>4. i # j
      BY <1>2, <1>3, <3>1, <3>2, <3>3 DEF Remembers
    <3> QED BY <1>3, <1>4, <3>2, <3>4 DEF Existing
  <2>2. CASE FrontendRewritten
    BY <1>3, <1>4, <2>2, FrontendsExist DEF FrontendRewritten, Existing
  <2>3. CASE FrontendAdded
    BY <1>3, <1>4, <2>3, FrontendsExist DEF FrontendAdded, Existing
  <2> QED BY <1>1, <1>3, <2>1, <2>2, <2>3 DEF FrontendsChange
<1>6. fes'[i].port = fes[i].port /\ (fes[i].mine => fes'[i].mine)
  <2>1. fes[i] # None
    BY <1>3 DEF Existing
  <2> QED BY <1>1, <1>3, <1>5, <2>1, PortsStay
<1>7. i \in ManagedF(want)'
  BY <1>3, <1>5, <1>6 DEF ManagedF, Existing
<1> QED BY <1>2, <1>6, <1>7 DEF Served

\* Where the API refuses a second frontend on a port, a port that the Service
\* wants, and that the calls in progress want too, keeps its frontend at every
\* step of any number of racing calls (updateLoadBalancer).
THEOREM RacingCallsKeepServing == ASSUME UniquePorts PROVE Spec => NoOutage
<1>1. TypeInv /\ [Next]_vars => TypeInv'
  BY TypeStep DEF TypeInv, Kept
<1>2. TypeInv /\ ServeInv /\ [Next]_vars => ServeInv'
  BY ServeNext
<1>3. TypeInv /\ ServeInv /\ [Next]_vars =>
        [\A port \in WantedPorts(want) :
           /\ Served(port)
           /\ \A w \in Workers : wk[w].pc # "idle" => port \in WantedPorts(wk[w].s)
           => Served(port)' \/ want' # want]_vars
  BY ServeStep
<1> QED BY <1>1, <1>2, <1>3, TypeInit, ServeInit, PTL DEF Spec, NoOutage
=============================================================================
