------------------------- MODULE LBLifecycleProofs -------------------------
(***************************************************************************)
(* Proofs about LBLifecycle for every value of its constants: type         *)
(* correctness, at most one LB of the Service's name, no LB left behind    *)
(* when the Service is gone, and no deletion of an LB the CCM did not      *)
(* create.                                                                 *)
(***************************************************************************)
EXTENDS LBLifecycle, TLAPS

-----------------------------------------------------------------------------
(***************************************************************************)
(* Type correctness.                                                       *)
(***************************************************************************)

\* The values a worker and an LB are reset to have the right types.
LEMMA ConstantTypes ==
  /\ NoCopy \in Copy
  /\ NoSnap \in Service
  /\ \A w \in Workers : Idle(w) \in Worker
  /\ \A st \in LBStates : Dead(st) \in LB
BY ConstantsAssumption
   DEF NoCopy, NoSnap, Idle, Dead, Copy, Service, Worker, LB, LBNames, LBStates,
       Ops, PCs, AllLBs

\* What GetLB returns is a copy of an LB.
LEMMA CopyOfType ==
  ASSUME TypeOK, NEW l \in AllLBs
  PROVE  CopyOf(l) \in Copy
BY DEF TypeOK, CopyOf, Copy, LB

\* The end of a call leaves well-typed workers.
LEMMA ReturnTypes ==
  ASSUME TypeOK, NEW w \in Workers
  PROVE  /\ Return(w) => wk' \in [Workers -> Worker]
         /\ ReturnError(w) => /\ wk' \in [Workers -> Worker]
                              /\ queued' \in BOOLEAN /\ cache' = cache
         /\ ReturnOK(w) => /\ wk' \in [Workers -> Worker]
                           /\ queued' \in BOOLEAN /\ cache' = cache
BY ConstantTypes DEF TypeOK, Return, ReturnError, ReturnOK

\* A worker that moves on stays well typed.
LEMMA GotoTypes ==
  ASSUME TypeOK, NEW w \in Workers, NEW pc \in PCs, NEW lb \in Copy
  PROVE  /\ Goto(w, pc) => wk' \in [Workers -> Worker]
         /\ GotoWith(w, pc, lb) => wk' \in [Workers -> Worker]
BY DEF TypeOK, Goto, GotoWith, Worker

\* A worker whose call starts is well typed.
LEMMA StartTypes ==
  ASSUME TypeOK, NEW w \in Workers, NEW op \in Ops, Start(w, op)
  PROVE  wk' \in [Workers -> Worker]
<1>1. [wk[w] EXCEPT !.pc = "fetch", !.op = op, !.snap = cache] \in Worker
  BY DEF TypeOK, Worker, PCs
<1> QED
  BY <1>1 DEF TypeOK, Start

\* So is one whose fetchLoadBalancer has answered.
LEMMA FoundTypes ==
  ASSUME TypeOK, NEW w \in Workers, NEW lb \in Copy, Found(w, lb)
  PROVE  wk' \in [Workers -> Worker] /\ queued' \in BOOLEAN /\ cache' = cache
<1>1. ASSUME NEW pc \in PCs, GotoWith(w, pc, lb), UNCHANGED <<queued, cache>>
      PROVE  wk' \in [Workers -> Worker] /\ queued' \in BOOLEAN /\ cache' = cache
  BY <1>1, GotoTypes DEF TypeOK
<1>2. ASSUME ReturnError(w)
      PROVE  wk' \in [Workers -> Worker] /\ queued' \in BOOLEAN /\ cache' = cache
  BY <1>2, ReturnTypes
<1>3. ASSUME wk' = [wk EXCEPT ![w].pc = "fetch", ![w].op = "delete"],
             UNCHANGED <<queued, cache>>
      PROVE  wk' \in [Workers -> Worker] /\ queued' \in BOOLEAN /\ cache' = cache
  <2>1. wk \in [Workers -> Worker] /\ queued \in BOOLEAN
    BY DEF TypeOK
  <2>2. [wk[w] EXCEPT !.pc = "fetch", !.op = "delete"] \in Worker
    BY <2>1 DEF Worker, PCs, Ops
  <2> QED BY <1>3, <2>1, <2>2
<1>4. /\ "unannotate" \in PCs /\ "configure" \in PCs /\ "cleanup" \in PCs
  BY DEF PCs
<1> QED
  BY <1>1, <1>2, <1>3, <1>4 DEF Found

\* And one whose fetchLoadBalancer has found nothing.
LEMMA NotFoundTypes ==
  ASSUME TypeOK, NEW w \in Workers, NotFound(w)
  PROVE  wk' \in [Workers -> Worker] /\ queued' \in BOOLEAN /\ cache' = cache
<1>1. "create" \in PCs /\ "finalize" \in PCs /\ NoCopy \in Copy
  BY ConstantTypes DEF PCs
<1> QED
  BY <1>1, ReturnTypes, GotoTypes DEF NotFound, TypeOK

\* A write to the Service, and the patch of its annotation, are well typed.
LEMMA WriteTypes ==
  ASSUME TypeOK
  PROVE  /\ \A s \in Service : WriteService(s) => svc' \in Service /\ watch' \in Seq(Service)
         /\ \A s \in Service, id \in AllLBs \cup {NoLB} :
              PatchAnno(s, id) => svc' \in Service /\ watch' \in Seq(Service)
<1>1. \A s \in Service : WriteService(s) => svc' \in Service /\ watch' \in Seq(Service)
  BY DEF TypeOK, WriteService
<1>2. \A id \in AllLBs \cup {NoLB} : [svc EXCEPT !.anno = id] \in Service
  BY DEF TypeOK, Service
<1> QED
  BY <1>1, <1>2 DEF PatchAnno, TypeOK

\* Every action keeps the types.
LEMMA TypeNext == TypeOK /\ [Next]_vars => TypeOK'
<1> SUFFICES ASSUME TypeOK, [Next]_vars PROVE TypeOK'
  OBVIOUS
<1> USE DEF informer, budgets, ipHist
<1>1. CASE BeginSync
  <2>1. Start(SvcWorker, "get") \/ Start(SvcWorker, "ensure")
    BY <1>1 DEF BeginSync
  <2>2. SvcWorker \in Workers /\ "get" \in Ops /\ "ensure" \in Ops
    BY DEF Workers, Ops
  <2>3. wk' \in [Workers -> Worker]
    BY <2>1, <2>2, StartTypes
  <2> QED BY <1>1, <2>3 DEF BeginSync, TypeOK
<1>2. ASSUME NEW w \in Workers, BeginNodeSync(w) PROVE TypeOK'
  <2>1. wk' \in [Workers -> Worker]
    BY <1>2, StartTypes DEF BeginNodeSync, Ops
  <2> QED BY <1>2, <2>1 DEF BeginNodeSync, TypeOK
<1>3. ASSUME NEW w \in Workers, FetchRefused(w) PROVE TypeOK'
  BY <1>3, ReturnTypes DEF FetchRefused, TypeOK
<1>4. ASSUME NEW w \in Workers, FetchByID(w) PROVE TypeOK'
  <2>1. wk[w].snap.anno \in Live => CopyOf(wk[w].snap.anno) \in Copy
    BY CopyOfType DEF Live
  <2>2. wk' \in [Workers -> Worker] /\ queued' \in BOOLEAN /\ cache' = cache
    BY <1>4, <2>1, ReturnTypes, FoundTypes, NotFoundTypes DEF FetchByID
  <2>3. missed' \in BOOLEAN
    BY <1>4 DEF FetchByID, MissedOwn, TypeOK
  <2> QED BY <1>4, <2>2, <2>3 DEF FetchByID, TypeOK
<1>5. ASSUME NEW w \in Workers, FetchByName(w) PROVE TypeOK'
  <2>1. \A l \in ListedByName : CopyOf(l) \in Copy
    BY CopyOfType DEF ListedByName, Own, Live
  <2>2. "annotate" \in PCs
    BY DEF PCs
  <2>3. wk' \in [Workers -> Worker] /\ queued' \in BOOLEAN /\ cache' = cache
    BY <1>5, <2>1, <2>2, ReturnTypes, GotoTypes, NotFoundTypes DEF FetchByName, TypeOK
  <2> QED BY <1>5, <2>3 DEF FetchByName, TypeOK
<1>6. ASSUME NEW w \in Workers, AnnotateFound(w) \/ AnnotateNew(w),
             wk[w].lb.id \in AllLBs \cup {NoLB}
      PROVE  TypeOK'
  <2>1. wk[w].lb \in Copy /\ wk[w].snap \in Service
    BY DEF TypeOK, Worker
  <2>2. wk' \in [Workers -> Worker] /\ queued' \in BOOLEAN /\ cache' = cache
    BY <1>6, <2>1, ReturnTypes, FoundTypes DEF AnnotateFound, AnnotateNew
  <2>3. svc' \in Service /\ watch' \in Seq(Service)
    BY <1>6, <2>1, WriteTypes DEF AnnotateFound, AnnotateNew, AnnotationOf, TypeOK
  <2> QED BY <1>6, <2>2, <2>3 DEF AnnotateFound, AnnotateNew, TypeOK
<1>7. ASSUME NEW w \in Workers, CreateLB(w) PROVE TypeOK'
  <2> DEFINE s == wk[w].snap
  <2>1. CASE createRefused(s) /\ ReturnError(w) /\ UNCHANGED lbs
    BY <1>7, <2>1, ReturnTypes DEF CreateLB, TypeOK
  <2>2. CASE ~createRefused(s)
    <3>1. s \in Service
      BY DEF TypeOK, Worker
    <3>2. CreatedIP(s) \in StaticIPs \cup {NoIP, Flexible}
      BY <3>1 DEF CreatedIP, Service
    <3>3. PICK l \in LBIds :
             /\ lbs' = [lbs EXCEPT ![l] = [state |-> "live", name |-> "own",
                                           ip |-> CreatedIP(s), ready |-> FALSE]]
             /\ GotoWith(w, "annotateNew", [id |-> l, name |-> "own",
                                            ip |-> CreatedIP(s), ready |-> FALSE])
             /\ UNCHANGED <<queued, cache>>
      BY <1>7, <2>2 DEF CreateLB
    <3>4. [id |-> l, name |-> "own", ip |-> CreatedIP(s), ready |-> FALSE] \in Copy
      BY <3>2 DEF Copy, LBNames, AllLBs
    <3>5. wk' \in [Workers -> Worker]
      BY <3>3, <3>4, GotoTypes DEF PCs
    <3>6. lbs' \in [AllLBs -> LB]
      BY <3>2, <3>3 DEF TypeOK, LB, LBNames, LBStates
    <3> QED BY <1>7, <3>3, <3>5, <3>6 DEF CreateLB, TypeOK
  <2> QED BY <1>7, <2>1, <2>2 DEF CreateLB
<1>8. ASSUME NEW w \in Workers PROVE AfterDelete(w) => /\ wk' \in [Workers -> Worker]
                                                       /\ UNCHANGED <<queued, cache>>
  <2>1. ASSUME wk' = [wk EXCEPT ![w].pc = "create", ![w].recreated = TRUE]
        PROVE  wk' \in [Workers -> Worker]
    <3>1. wk \in [Workers -> Worker]
      BY DEF TypeOK
    <3>2. [wk[w] EXCEPT !.pc = "create", !.recreated = TRUE] \in Worker
      BY <3>1 DEF Worker, PCs
    <3> QED BY <2>1, <3>1, <3>2
  <2>2. ASSUME Goto(w, "finalize") PROVE wk' \in [Workers -> Worker]
    <3>1. "finalize" \in PCs /\ NoCopy \in Copy
      BY ConstantTypes DEF PCs
    <3> QED BY <2>2, <3>1, GotoTypes
  <2> QED BY <2>1, <2>2 DEF AfterDelete
<1>9. ASSUME NEW w \in Workers, Unannotate(w) PROVE TypeOK'
  <2>1. wk[w].snap \in Service
    BY DEF TypeOK, Worker
  <2>2. Goto(w, "deleteLB") => wk' \in [Workers -> Worker]
    BY DEF Goto, TypeOK, Worker, PCs
  <2>3. wk' \in [Workers -> Worker] /\ queued' \in BOOLEAN /\ cache' = cache
    BY <1>8, <1>9, <2>2, ReturnTypes DEF Unannotate, TypeOK
  <2>4. svc' \in Service /\ watch' \in Seq(Service)
    BY <1>9, <2>1, WriteTypes DEF Unannotate, TypeOK
  <2>5. missed' \in BOOLEAN
    BY <1>9 DEF Unannotate, MissedOwn, TypeOK
  <2> QED BY <1>9, <2>3, <2>4, <2>5 DEF Unannotate, TypeOK
<1>10. ASSUME NEW w \in Workers, DeleteLB(w) PROVE TypeOK'
  <2>1. CASE wk[w].lb.id \in Live
    <3>1. lbs' \in [AllLBs -> LB]
      BY <1>10, <2>1, ConstantTypes DEF DeleteLB, Live, TypeOK, LBStates
    <3>2. released' \subseteq StaticIPs /\ orphaned' \in BOOLEAN
      BY <1>10, <2>1 DEF DeleteLB, TypeOK
    <3> QED BY <1>8, <1>10, <2>1, <3>1, <3>2 DEF DeleteLB, TypeOK
  <2>2. CASE wk[w].lb.id \notin Live
    BY <1>10, <2>2, ReturnTypes DEF DeleteLB, TypeOK
  <2> QED BY <2>1, <2>2
<1>11. ASSUME NEW w \in Workers, Configure(w) PROVE TypeOK'
  BY <1>11, ReturnTypes DEF Configure, TypeOK
<1>12. ASSUME NEW w \in Workers, Cleanup(w) PROVE TypeOK'
  <2>1. Goto(w, "finalize") => wk' \in [Workers -> Worker]
    BY DEF Goto, TypeOK, Worker, PCs
  <2>2. wk' \in [Workers -> Worker] /\ queued' \in BOOLEAN /\ cache' = cache
    BY <1>12, <2>1, ReturnTypes DEF Cleanup, TypeOK
  <2>3. missed' \in BOOLEAN
    BY <1>12 DEF Cleanup, MissedOwn, TypeOK
  <2> QED BY <1>12, <2>2, <2>3 DEF Cleanup, TypeOK
<1>13. ASSUME NEW w \in Workers, RemoveFinalizer(w) PROVE TypeOK'
  BY <1>13, ReturnTypes DEF RemoveFinalizer, TypeOK
<1>14. ASSUME NEW w \in Workers, Fail(w) PROVE TypeOK'
  <2>1. fails' \in 0..MaxFails
    BY <1>14, ConstantsAssumption DEF Fail, TypeOK
  <2> QED BY <1>14, <2>1, ReturnTypes DEF Fail, TypeOK
<1>15. CASE Crash
  <2>1. fails' \in 0..MaxFails
    BY <1>15, ConstantsAssumption DEF Crash, TypeOK
  <2>2. wk' \in [Workers -> Worker]
    BY <1>15, ConstantTypes DEF Crash
  <2>3. watch' \in Seq(Service)
    BY <1>15 DEF Crash
  <2> QED BY <1>15, <2>1, <2>2, <2>3 DEF Crash, TypeOK
<1>16. CASE Deliver
  BY <1>16 DEF Deliver, TypeOK
<1>17. ASSUME NEW l \in AllLBs, BecomeReady(l) PROVE TypeOK'
  <2>1. lbs' \in [AllLBs -> LB]
    BY <1>17 DEF BecomeReady, TypeOK, LB
  <2> QED BY <1>17, <2>1 DEF BecomeReady, TypeOK
<1>18. ASSUME NEW l \in AllLBs, ConsoleDelete(l) PROVE TypeOK'
  <2>1. lbs' \in [AllLBs -> LB]
    BY <1>18, ConstantTypes DEF ConsoleDelete, TypeOK, LBStates
  <2>2. edits' \in 0..MaxEdits
    BY <1>18, ConstantsAssumption DEF ConsoleDelete, UserDoes, TypeOK
  <2> QED BY <1>18, <2>1, <2>2 DEF ConsoleDelete, TypeOK
<1>19. ASSUME NEW l \in AllLBs, ConsoleRename(l) PROVE TypeOK'
  <2>1. lbs' \in [AllLBs -> LB]
    BY <1>19 DEF ConsoleRename, TypeOK, LB, LBNames
  <2>2. edits' \in 0..MaxEdits
    BY <1>19, ConstantsAssumption DEF ConsoleRename, UserDoes, TypeOK
  <2> QED BY <1>19, <2>1, <2>2 DEF ConsoleRename, TypeOK
<1>20. CASE EditService
  <2>0. UserDoes
    BY <1>20 DEF EditService
  <2>1. edits' \in 0..MaxEdits
    BY <2>0, ConstantsAssumption DEF UserDoes, TypeOK
  <2>2. ASSUME NEW s \in Service, EditTo(s)
        PROVE  svc' \in Service /\ watch' \in Seq(Service) /\ dropped' \subseteq StaticIPs
    BY <2>2, WriteTypes DEF EditTo, TypeOK
  <2>3. \A p \in BOOLEAN, i \in StaticIPs \cup {NoIP} :
          [svc EXCEPT !.private = p, !.ip = i] \in Service
    BY DEF TypeOK, Service
  <2>4. \A e \in ExtValues, a \in ForeignLBs \cup {svc.anno} :
          [svc EXCEPT !.ext = e, !.anno = a] \in Service
    BY DEF TypeOK, Service, AllLBs
  <2>5. svc' \in Service /\ watch' \in Seq(Service) /\ dropped' \subseteq StaticIPs
    BY <1>20, <2>2, <2>3, <2>4 DEF EditService
  <2> QED BY <1>20, <2>1, <2>5 DEF EditService, TypeOK
<1>21. CASE DeleteService
  <2>1. [svc EXCEPT !.deleting = TRUE] \in Service
    BY DEF TypeOK, Service
  <2> QED BY <1>21, <2>1, WriteTypes DEF DeleteService, TypeOK
<1>22. CASE UNCHANGED vars
  BY <1>22 DEF vars, TypeOK
<1>23. \A w \in Workers : wk[w].lb.id \in AllLBs \cup {NoLB}
  BY DEF TypeOK, Worker, Copy
<1> QED
  BY <1>1, <1>2, <1>3, <1>4, <1>5, <1>6, <1>7, <1>9, <1>10, <1>11, <1>12, <1>13,
     <1>14, <1>15, <1>16, <1>17, <1>18, <1>19, <1>20, <1>21, <1>22, <1>23
     DEF Next, Step

\* The initial states are well typed.
LEMMA TypeInit == Init => TypeOK
<1> SUFFICES ASSUME Init PROVE TypeOK
  OBVIOUS
<1>1. lbs \in [AllLBs -> LB]
  BY DEF Init, LB, LBNames, LBStates, AllLBs
<1>2. wk \in [Workers -> Worker]
  BY ConstantTypes DEF Init
<1>3. svc \in Service /\ cache \in Service /\ watch \in Seq(Service)
  BY DEF Init
<1>4. edits \in 0..MaxEdits /\ fails \in 0..MaxFails
  BY ConstantsAssumption DEF Init
<1> QED
  BY <1>1, <1>2, <1>3, <1>4 DEF Init, TypeOK

\* Every reachable state is well typed.
THEOREM TypeCorrect == Spec => []TypeOK
BY TypeInit, TypeNext, PTL DEF Spec

-----------------------------------------------------------------------------
(***************************************************************************)
(* The inductive invariant behind OwnUnique, NoLeak and ForeignSafe.       *)
(***************************************************************************)
S == wk[SvcWorker]

\* Node syncs only fetch, annotate and configure: they never create or delete.
NodeSyncInv ==
  \A w \in NodeSyncs : /\ wk[w].op = "update"
                       /\ wk[w].pc \in {"idle", "fetch", "annotate", "configure"}

\* Which steps of the service worker belong to which call.
SvcWorkerInv ==
  /\ S.op # "update"
  /\ S.pc \in {"create", "annotateNew"} => S.op = "ensure"
  /\ S.pc \in {"cleanup", "finalize"} => S.op # "ensure"
  /\ S.pc = "deleteLB" => S.lb.name = "own"

\* Deletion is final: a version of the Service that has the deletion timestamp
\* is followed by versions that have it.
WatchInv ==
  /\ cache.deleting => svc.deleting
  /\ \A i \in DOMAIN watch :
       /\ cache.deleting => watch[i].deleting
       /\ watch[i].deleting => svc.deleting
       /\ \A j \in DOMAIN watch : i <= j /\ watch[i].deleting => watch[j].deleting

\* No call that may create an LB begins once the Service is gone.
DeletionInv ==
  /\ S.op # "ensure" => cache.deleting
  /\ gone => cache.deleting /\ (S.pc # "idle" => S.op # "ensure")

\* Unless a verdict from the annotation alone hid one, the LBs of the
\* Service's name are known to the service worker: none when it is about to
\* create one or to let the Service go, none but the one it holds when it is
\* about to replace or to delete that one.
OwnInv ==
  ~missed =>
    /\ \A l, m \in Own : l = m
    /\ gone => Own = {}
    /\ S.pc \in {"create", "finalize"} => Own = {}
    /\ S.pc \in {"annotate", "annotateNew", "unannotate", "deleteLB"} /\ S.lb.name = "own"
         => Own \subseteq {S.lb.id}

IInv == TypeOK /\ NodeSyncInv /\ SvcWorkerInv /\ WatchInv /\ DeletionInv /\ OwnInv

\* LBs the CCM did not create never bear the Service's name, and no worker
\* believes they do.
ForeignInv ==
  /\ \A l \in ForeignLBs : lbs[l].name # "own" /\ lbs[l].state # "deleted"
  /\ \A w \in Workers : wk[w].lb.id \in ForeignLBs => wk[w].lb.name # "own"
  /\ \A w \in Workers : wk[w].pc = "deleteLB" => wk[w].lb.name = "own"

-----------------------------------------------------------------------------
(***************************************************************************)
(* What a step does to the workers.                                        *)
(***************************************************************************)
Others(w) == \A v \in Workers \ {w} : wk'[v] = wk[v]

\* The end of a call makes the worker idle and touches no other.
LEMMA ReturnEffect ==
  ASSUME TypeOK, NEW w \in Workers, Return(w)
  PROVE  wk'[w] = Idle(w) /\ Others(w)
BY DEF Return, TypeOK, Others

\* So does a call that returns an error.
LEMMA ReturnErrorEffect ==
  ASSUME TypeOK, NEW w \in Workers, ReturnError(w)
  PROVE  wk'[w] = Idle(w) /\ Others(w) /\ cache' = cache
BY ReturnEffect DEF ReturnError

\* A worker that moves on keeps its call and its copy of the LB.
LEMMA GotoEffect ==
  ASSUME TypeOK, NEW w \in Workers, NEW pc, Goto(w, pc)
  PROVE  /\ wk'[w].pc = pc /\ wk'[w].op = wk[w].op /\ wk'[w].lb = wk[w].lb
         /\ Others(w)
BY DEF Goto, TypeOK, Others, Worker

\* A worker that moves on with a copy of an LB keeps its call.
LEMMA GotoWithEffect ==
  ASSUME TypeOK, NEW w \in Workers, NEW pc, NEW lb, GotoWith(w, pc, lb)
  PROVE  /\ wk'[w].pc = pc /\ wk'[w].op = wk[w].op /\ wk'[w].lb = lb
         /\ Others(w)
BY DEF GotoWith, TypeOK, Others, Worker

\* A call that starts.
LEMMA StartEffect ==
  ASSUME TypeOK, NEW w \in Workers, NEW op, Start(w, op)
  PROVE  /\ wk'[w].pc = "fetch" /\ wk'[w].op = op /\ wk'[w].lb = wk[w].lb
         /\ Others(w)
BY DEF Start, TypeOK, Others, Worker

\* Where Found takes a worker.
LEMMA FoundEffect ==
  ASSUME TypeOK, NEW w \in Workers, NEW lb, Found(w, lb)
  PROVE  /\ Others(w) /\ cache' = cache
         /\ \/ wk'[w] = Idle(w)
            \/ /\ wk'[w].op = wk[w].op /\ wk'[w].lb = lb
               /\ \/ wk'[w].pc = "configure"
                  \/ wk'[w].pc = "unannotate" /\ wk[w].op # "update"
                  \/ wk'[w].pc = "cleanup" /\ wk[w].op = "delete"
            \/ /\ wk[w].op = "get" /\ wk'[w].op = "delete"
               /\ wk'[w].pc = "fetch" /\ wk'[w].lb = wk[w].lb
<1>1. ASSUME NEW pc, GotoWith(w, pc, lb)
      PROVE  wk'[w].pc = pc /\ wk'[w].op = wk[w].op /\ wk'[w].lb = lb /\ Others(w)
  BY <1>1, GotoWithEffect
<1>2. ASSUME wk' = [wk EXCEPT ![w].pc = "fetch", ![w].op = "delete"]
      PROVE  wk'[w].pc = "fetch" /\ wk'[w].op = "delete" /\ wk'[w].lb = wk[w].lb /\ Others(w)
  BY <1>2 DEF TypeOK, Worker, Others
<1>3. ASSUME ReturnError(w) PROVE wk'[w] = Idle(w) /\ Others(w) /\ cache' = cache
  BY <1>3, ReturnErrorEffect
<1> QED
  BY <1>1, <1>2, <1>3 DEF Found

\* Where NotFound takes a worker.
LEMMA NotFoundEffect ==
  ASSUME TypeOK, NEW w \in Workers, NotFound(w)
  PROVE  /\ Others(w) /\ cache' = cache
         /\ \/ wk'[w] = Idle(w)
            \/ /\ wk'[w].op = wk[w].op /\ wk'[w].lb = wk[w].lb
               /\ \/ wk'[w].pc = "create" /\ wk[w].op = "ensure"
                  \/ wk'[w].pc = "finalize" /\ wk[w].op \in {"get", "delete"}
BY GotoEffect, ReturnErrorEffect DEF NotFound

\* Where a worker goes once deleteLoadBalancer has returned.
LEMMA AfterDeleteEffect ==
  ASSUME TypeOK, NEW w \in Workers, AfterDelete(w)
  PROVE  /\ Others(w) /\ cache' = cache
         /\ wk'[w].op = wk[w].op /\ wk'[w].lb = wk[w].lb
         /\ wk'[w].pc = IF wk[w].op = "ensure" THEN "create" ELSE "finalize"
<1>1. ASSUME wk' = [wk EXCEPT ![w].pc = "create", ![w].recreated = TRUE]
      PROVE  wk'[w].pc = "create" /\ wk'[w].op = wk[w].op /\ wk'[w].lb = wk[w].lb /\ Others(w)
  BY <1>1 DEF TypeOK, Worker, Others
<1> QED
  BY <1>1, GotoEffect DEF AfterDelete

\* An idle worker remembers no LB.
LEMMA IdleFacts ==
  /\ \A w \in Workers : Idle(w).pc = "idle" /\ Idle(w).lb = NoCopy
  /\ Idle(SvcWorker).op = "ensure"
  /\ \A w \in NodeSyncs : Idle(w).op = "update"
  /\ NoCopy.name # "own" /\ NoCopy.id = NoLB
BY ConstantsAssumption DEF Idle, NoCopy, Workers

-----------------------------------------------------------------------------
(***************************************************************************)
(* The informer: the deletion timestamp, once seen, stays.                 *)
(***************************************************************************)
\* A write that keeps the deletion timestamp.
LEMMA WriteWatch ==
  ASSUME TypeOK, WatchInv, NEW s \in Service, WriteService(s), cache' = cache,
         svc.deleting => s.deleting
  PROVE  WatchInv'
<1>1. CASE s = svc
  BY <1>1 DEF WriteService, WatchInv
<1>2. CASE s # svc
  <2>1. svc' = s /\ watch' = Append(watch, s) /\ watch \in Seq(Service)
    BY <1>2 DEF WriteService, TypeOK
  <2>2. \A i \in DOMAIN watch' : \/ (i \in DOMAIN watch /\ watch'[i] = watch[i])
                                 \/ (i = Len(watch) + 1 /\ watch'[i] = s)
    BY <2>1
  <2>3. \A i \in DOMAIN watch : i \in Nat /\ i <= Len(watch)
    BY <2>1
  <2> QED BY <2>1, <2>2, <2>3 DEF WatchInv
<1> QED BY <1>1, <1>2

\* The patch of the ID annotation.
LEMMA PatchWatch ==
  ASSUME TypeOK, WatchInv, NEW s, NEW id \in AllLBs \cup {NoLB}, PatchAnno(s, id),
         cache' = cache
  PROVE  WatchInv' /\ (svc'.deleting = svc.deleting)
<1>1. [svc EXCEPT !.anno = id] \in Service /\ [svc EXCEPT !.anno = id].deleting = svc.deleting
  BY DEF TypeOK, Service
<1>2. CASE s.anno = id
  BY <1>2 DEF PatchAnno, WatchInv
<1>3. CASE s.anno # id
  BY <1>1, <1>3, WriteWatch DEF PatchAnno, WriteService
<1> QED BY <1>2, <1>3

\* The delivery of a version to the informer.
LEMMA DeliverWatch ==
  ASSUME TypeOK, WatchInv, Deliver
  PROVE  WatchInv' /\ (cache.deleting => cache'.deleting)
<1>1. /\ watch \in Seq(Service) /\ watch # <<>>
      /\ cache' = watch[1] /\ watch' = Tail(watch) /\ svc' = svc
  BY DEF Deliver, TypeOK
<1>2. 1 \in DOMAIN watch
  BY <1>1
<1>3. \A i \in DOMAIN watch' : /\ i \in Nat /\ i + 1 \in DOMAIN watch
                               /\ watch'[i] = watch[i + 1] /\ 1 <= i + 1
  BY <1>1
<1> QED BY <1>1, <1>2, <1>3 DEF WatchInv

-----------------------------------------------------------------------------
(***************************************************************************)
(* Steps that leave the service worker and the LBs alone, or only take LBs *)
(* of the Service's name away.                                             *)
(***************************************************************************)
\* A step that creates no LB and leaves the service worker alone keeps OwnInv.
LEMMA OwnFrame ==
  ASSUME OwnInv, Own' \subseteq Own, missed' = missed, gone' = gone,
         wk'[SvcWorker] = wk[SvcWorker]
  PROVE  OwnInv'
BY DEF OwnInv, S

\* The LBs of the Service's name depend on the LBs only.
LEMMA OwnSame ==
  ASSUME lbs' = lbs
  PROVE  Own' = Own
BY DEF Own, Live

\* A step of the service worker that changes no LB keeps OwnInv when the worker
\* knows enough for the step it takes next.
LEMMA OwnKnown ==
  ASSUME OwnInv, lbs' = lbs, gone' = gone, missed => missed',
         ~missed' /\ S'.pc \in {"create", "finalize"} => Own = {},
         ~missed' /\ S'.pc \in {"annotate", "annotateNew", "unannotate", "deleteLB"}
                  /\ S'.lb.name = "own" => Own \subseteq {S'.lb.id}
  PROVE  OwnInv'
BY OwnSame DEF OwnInv

\* A step of a node sync, once its call has begun.
LEMMA NodeSyncStep ==
  ASSUME IInv, NEW w \in NodeSyncs, Step(w)
  PROVE  /\ wk'[w].op = "update"
         /\ wk'[w].pc \in {"idle", "fetch", "annotate", "configure"}
         /\ Others(w) /\ lbs' = lbs /\ gone' = gone /\ missed' = missed
         /\ cache' = cache /\ WatchInv'
<1>1. w \in Workers /\ w # SvcWorker /\ TypeOK /\ WatchInv
      /\ wk[w].op = "update" /\ wk[w].pc \in {"idle", "fetch", "annotate", "configure"}
  BY ConstantsAssumption DEF IInv, NodeSyncInv, Workers
<1>2. Idle(w).pc = "idle" /\ Idle(w).op = "update"
  BY <1>1, IdleFacts
<1>3. CASE FetchRefused(w)
  BY <1>1, <1>2, <1>3, ReturnErrorEffect DEF FetchRefused, WatchInv
<1>4. CASE FetchByID(w)
  <2>1. missed' = missed
    BY <1>1, <1>4 DEF FetchByID, MissedOwn, IInv, TypeOK
  <2>2. /\ Others(w) /\ cache' = cache
        /\ wk'[w].op = "update" /\ wk'[w].pc \in {"idle", "configure"}
    BY <1>1, <1>2, <1>4, ReturnErrorEffect, FoundEffect, NotFoundEffect DEF FetchByID
  <2> QED BY <1>1, <1>4, <2>1, <2>2 DEF FetchByID, WatchInv
<1>5. CASE FetchByName(w)
  <2>1. /\ Others(w) /\ cache' = cache
        /\ wk'[w].op = "update" /\ wk'[w].pc \in {"idle", "annotate"}
    BY <1>1, <1>2, <1>5, ReturnErrorEffect, GotoWithEffect, NotFoundEffect DEF FetchByName
  <2> QED BY <1>1, <1>5, <2>1 DEF FetchByName, WatchInv
<1>6. CASE AnnotateFound(w)
  <2>1. wk[w].lb.id \in AllLBs \cup {NoLB}
    BY <1>1 DEF TypeOK, Worker, Copy
  <2>2. /\ Others(w) /\ cache' = cache
        /\ wk'[w].op = "update" /\ wk'[w].pc \in {"idle", "configure"}
    BY <1>1, <1>2, <1>6, ReturnErrorEffect, FoundEffect DEF AnnotateFound
  <2>3. WatchInv'
    <3>1. CASE UNCHANGED <<svc, watch>>
      BY <1>1, <2>2, <3>1 DEF WatchInv
    <3>2. CASE PatchAnno(wk[w].snap, wk[w].lb.id)
      BY <1>1, <2>1, <2>2, <3>2, PatchWatch
    <3> QED BY <1>6, <3>1, <3>2 DEF AnnotateFound, AnnotationOf
  <2> QED BY <1>6, <2>2, <2>3 DEF AnnotateFound
<1>7. CASE Configure(w)
  <2>1. wk'[w] = Idle(w) /\ Others(w) /\ cache' = cache
    BY <1>1, <1>7, ReturnErrorEffect, ReturnEffect DEF Configure, ReturnOK
  <2> QED BY <1>1, <1>2, <1>7, <2>1 DEF Configure, WatchInv
<1> QED
  BY <1>1, <1>3, <1>4, <1>5, <1>6, <1>7
     DEF Step, CreateLB, AnnotateNew, Unannotate, DeleteLB, Cleanup, RemoveFinalizer

\* A step of the service worker that ends its call, or goes on with it, keeps
\* the parts of the invariant that speak of control.
LEMMA SvcControl ==
  ASSUME IInv, Others(SvcWorker), cache' = cache, gone' = gone,
         \/ S' = Idle(SvcWorker)
         \/ /\ S.pc # "idle" /\ SvcWorkerInv'
            /\ S'.op = S.op \/ (S.op # "ensure" /\ S'.op # "ensure")
  PROVE  NodeSyncInv' /\ SvcWorkerInv' /\ DeletionInv'
<1>1. \A w \in NodeSyncs : wk'[w] = wk[w]
  BY ConstantsAssumption DEF Others, Workers
<1>2. NodeSyncInv'
  BY <1>1 DEF IInv, NodeSyncInv
<1>3. CASE S' = Idle(SvcWorker)
  <2>1. S'.pc = "idle" /\ S'.op = "ensure"
    BY <1>3, IdleFacts DEF Workers
  <2> QED BY <1>2, <2>1 DEF IInv, SvcWorkerInv, DeletionInv
<1>4. CASE S' # Idle(SvcWorker)
  BY <1>2, <1>4 DEF IInv, DeletionInv
<1> QED BY <1>3, <1>4

\* The patch of the ID annotation, sent or not, keeps WatchInv.
LEMMA MaybePatchWatch ==
  ASSUME IInv, cache' = cache, NEW id \in AllLBs \cup {NoLB},
         PatchAnno(S.snap, id) \/ UNCHANGED <<svc, watch>>
  PROVE  WatchInv'
<1>1. CASE UNCHANGED <<svc, watch>>
  BY <1>1 DEF IInv, WatchInv
<1>2. CASE PatchAnno(S.snap, id)
  BY <1>2, PatchWatch DEF IInv
<1> QED BY <1>1, <1>2

\* fetchLoadBalancer: what the service worker knows when it returns.
LEMMA SvcFetch ==
  ASSUME IInv, FetchRefused(SvcWorker) \/ FetchByID(SvcWorker) \/ FetchByName(SvcWorker)
  PROVE  NodeSyncInv' /\ SvcWorkerInv' /\ DeletionInv' /\ WatchInv' /\ OwnInv'
<1> DEFINE w == SvcWorker
<1>1. w \in Workers /\ TypeOK /\ S = wk[w] /\ S' = wk'[w] /\ S.op \in Ops
      /\ Idle(w).pc = "idle" /\ S.op # "update"
  BY IdleFacts DEF Workers, IInv, S, TypeOK, Worker, SvcWorkerInv
<1>2. lbs' = lbs /\ gone' = gone /\ svc' = svc /\ watch' = watch /\ S.pc = "fetch"
  BY <1>1 DEF FetchRefused, FetchByID, FetchByName
<1>3. CASE FetchRefused(w)
  <2>1. S' = Idle(w) /\ Others(w) /\ cache' = cache /\ missed' = missed
    BY <1>1, <1>3, ReturnErrorEffect DEF FetchRefused
  <2>2. OwnInv'
    BY <1>1, <1>2, <2>1, OwnKnown DEF IInv
  <2> QED BY <1>2, <2>1, <2>2, SvcControl DEF IInv, WatchInv
<1>4. CASE FetchByID(w)
  <2> DEFINE a == S.snap.anno
  <2>1. CASE ReturnError(w) /\ UNCHANGED missed
    <3>1. S' = Idle(w) /\ Others(w) /\ cache' = cache /\ missed' = missed
      BY <1>1, <2>1, ReturnErrorEffect
    <3>2. OwnInv'
      BY <1>1, <1>2, <3>1, OwnKnown DEF IInv
    <3> QED BY <1>2, <3>1, <3>2, SvcControl DEF IInv, WatchInv
  <2>2. CASE a \in Live /\ Found(w, CopyOf(a)) /\ UNCHANGED missed
    <3>1. /\ Others(w) /\ cache' = cache
          /\ \/ S' = Idle(w)
             \/ /\ S'.op = S.op /\ S'.lb = CopyOf(a)
                /\ S'.pc \in {"configure", "unannotate"} \/ (S'.pc = "cleanup" /\ S.op = "delete")
             \/ S.op = "get" /\ S'.op = "delete" /\ S'.pc = "fetch"
      BY <1>1, <2>2, FoundEffect
    <3>2. CopyOf(a).id = a /\ (CopyOf(a).name = "own" => a \in Own)
      BY <2>2 DEF CopyOf, Own
    <3>3. OwnInv'
      <4>1. S'.pc \notin {"create", "finalize", "annotate", "annotateNew", "deleteLB"}
        BY <1>1, <3>1
      <4>2. S'.pc = "unannotate" => S'.lb = CopyOf(a)
        BY <1>1, <3>1
      <4>3. ~missed /\ a \in Own => Own \subseteq {a}
        BY DEF IInv, OwnInv
      <4> QED BY <1>2, <2>2, <3>2, <4>1, <4>2, <4>3, OwnKnown DEF IInv
    <3>4. NodeSyncInv' /\ SvcWorkerInv' /\ DeletionInv'
      <4>1. S' # Idle(w) => SvcWorkerInv'
        BY <1>1, <3>1 DEF SvcWorkerInv
      <4>2. S' # Idle(w) => S'.op = S.op \/ (S.op # "ensure" /\ S'.op # "ensure")
        BY <3>1
      <4> QED BY <1>2, <3>1, <4>1, <4>2, SvcControl
    <3> QED BY <1>2, <3>1, <3>3, <3>4 DEF IInv, WatchInv
  <2>3. CASE NotFound(w) /\ MissedOwn(w)
    <3>1. /\ Others(w) /\ cache' = cache
          /\ \/ S' = Idle(w)
             \/ /\ S'.op = S.op
                /\ \/ S'.pc = "create" /\ S.op = "ensure"
                   \/ S'.pc = "finalize" /\ S.op \in {"get", "delete"}
      BY <1>1, <2>3, NotFoundEffect
    <3>2. (missed => missed') /\ (~missed' => Own = {})
      BY <2>3 DEF MissedOwn
    <3>3. S'.pc \in {"idle", "create", "finalize"}
      BY <1>1, <3>1
    <3>4. OwnInv'
      BY <1>2, <3>2, <3>3, OwnKnown DEF IInv
    <3>5. S' # Idle(w) => SvcWorkerInv'
      BY <1>1, <3>1 DEF SvcWorkerInv
    <3> QED BY <1>2, <3>1, <3>4, <3>5, SvcControl DEF IInv, WatchInv
  <2> QED BY <1>1, <1>4, <2>1, <2>2, <2>3 DEF FetchByID
<1>5. CASE FetchByName(w)
  <2>0. missed' = missed
    BY <1>5 DEF FetchByName
  <2>1. CASE ListedByName = {} /\ NotFound(w)
    <3>1. /\ Others(w) /\ cache' = cache
          /\ \/ S' = Idle(w)
             \/ /\ S'.op = S.op
                /\ \/ S'.pc = "create" /\ S.op = "ensure"
                   \/ S'.pc = "finalize" /\ S.op \in {"get", "delete"}
      BY <1>1, <2>1, NotFoundEffect
    <3>3. S'.pc \in {"idle", "create", "finalize"}
      BY <1>1, <3>1
    <3>4. OwnInv'
      BY <1>2, <2>0, <2>1, <3>3, OwnKnown DEF IInv, ListedByName
    <3>5. S' # Idle(w) => SvcWorkerInv'
      BY <1>1, <3>1 DEF SvcWorkerInv
    <3> QED BY <1>2, <3>1, <3>4, <3>5, SvcControl DEF IInv, WatchInv
  <2>2. ASSUME NEW l \in ListedByName, ListedByName = {l},
               GotoWith(w, "annotate", CopyOf(l)), UNCHANGED <<queued, cache>>
        PROVE  NodeSyncInv' /\ SvcWorkerInv' /\ DeletionInv' /\ WatchInv' /\ OwnInv'
    <3>1. S'.pc = "annotate" /\ S'.op = S.op /\ S'.lb = CopyOf(l) /\ Others(w)
      BY <1>1, <2>2, GotoWithEffect
    <3>2. Own = {l} /\ CopyOf(l).id = l
      BY <2>2 DEF ListedByName, CopyOf
    <3>3. OwnInv'
      BY <1>2, <2>0, <3>1, <3>2, OwnKnown DEF IInv
    <3>4. SvcWorkerInv'
      BY <1>1, <3>1 DEF SvcWorkerInv
    <3> QED BY <1>2, <2>2, <3>1, <3>3, <3>4, SvcControl DEF IInv, WatchInv
  <2>3. CASE ReturnError(w)
    <3>1. S' = Idle(w) /\ Others(w) /\ cache' = cache
      BY <1>1, <2>3, ReturnErrorEffect
    <3>2. OwnInv'
      BY <1>1, <1>2, <2>0, <3>1, OwnKnown DEF IInv
    <3> QED BY <1>2, <3>1, <3>2, SvcControl DEF IInv, WatchInv
  <2> QED BY <1>5, <2>1, <2>2, <2>3 DEF FetchByName
<1> QED BY <1>3, <1>4, <1>5
\* The ID annotation of an LB that was found or created.
LEMMA SvcAnnotate ==
  ASSUME IInv, AnnotateFound(SvcWorker) \/ AnnotateNew(SvcWorker)
  PROVE  NodeSyncInv' /\ SvcWorkerInv' /\ DeletionInv' /\ WatchInv' /\ OwnInv'
<1> DEFINE w == SvcWorker
<1>1. w \in Workers /\ TypeOK /\ S = wk[w] /\ S' = wk'[w] /\ S.op \in Ops
      /\ Idle(w).pc = "idle" /\ S.op # "update" /\ S.lb.id \in AllLBs \cup {NoLB}
  BY IdleFacts DEF Workers, IInv, S, TypeOK, Worker, SvcWorkerInv, Copy
<1>2. lbs' = lbs /\ gone' = gone /\ missed' = missed /\ S.pc \in {"annotate", "annotateNew"}
  BY <1>1 DEF AnnotateFound, AnnotateNew
<1>3. \/ ReturnError(w) /\ UNCHANGED <<svc, watch>>
      \/ PatchAnno(S.snap, S.lb.id) /\ Found(w, S.lb)
  BY <1>1 DEF AnnotateFound, AnnotateNew, AnnotationOf
<1>4. /\ Others(w) /\ cache' = cache
      /\ \/ S' = Idle(w)
         \/ /\ S'.op = S.op /\ S'.lb = S.lb
            /\ S'.pc \in {"configure", "unannotate"} \/ (S'.pc = "cleanup" /\ S.op = "delete")
         \/ S.op = "get" /\ S'.op = "delete" /\ S'.pc = "fetch"
  BY <1>1, <1>3, ReturnErrorEffect, FoundEffect
<1>5. WatchInv'
  BY <1>1, <1>3, <1>4, MaybePatchWatch
<1>6. OwnInv'
  <2>1. S'.pc \notin {"create", "finalize", "annotate", "annotateNew", "deleteLB"}
    BY <1>1, <1>4
  <2>2. S'.pc = "unannotate" => S'.lb = S.lb
    BY <1>1, <1>4
  <2>3. ~missed /\ S.lb.name = "own" => Own \subseteq {S.lb.id}
    BY <1>2 DEF IInv, OwnInv
  <2> QED BY <1>2, <2>1, <2>2, <2>3, OwnKnown DEF IInv
<1>7. S' # Idle(w) => SvcWorkerInv'
  BY <1>1, <1>4 DEF SvcWorkerInv
<1>8. S' # Idle(w) => S'.op = S.op \/ (S.op # "ensure" /\ S'.op # "ensure")
  BY <1>4
<1> QED BY <1>2, <1>4, <1>5, <1>6, <1>7, <1>8, SvcControl

\* createLoadBalancer: it is reached only when no LB bears the Service's name.
LEMMA SvcCreate ==
  ASSUME IInv, CreateLB(SvcWorker)
  PROVE  NodeSyncInv' /\ SvcWorkerInv' /\ DeletionInv' /\ WatchInv' /\ OwnInv'
<1> DEFINE w == SvcWorker
<1>1. w \in Workers /\ TypeOK /\ S = wk[w] /\ S' = wk'[w] /\ Idle(w).pc = "idle"
  BY IdleFacts DEF Workers, IInv, S
<1>2. gone' = gone /\ missed' = missed /\ svc' = svc /\ watch' = watch /\ S.pc = "create"
  BY <1>1 DEF CreateLB
<1>3. CASE ReturnError(w) /\ UNCHANGED lbs
  <2>1. S' = Idle(w) /\ Others(w) /\ cache' = cache
    BY <1>1, <1>3, ReturnErrorEffect
  <2>2. OwnInv'
    BY <1>1, <1>2, <1>3, <2>1, OwnKnown DEF IInv
  <2> QED BY <1>2, <2>1, <2>2, SvcControl DEF IInv, WatchInv
<1>4. CASE ~createRefused(S.snap)
  <2>1. PICK l \in LBIds :
           /\ lbs' = [lbs EXCEPT ![l] = [state |-> "live", name |-> "own",
                                         ip |-> CreatedIP(S.snap), ready |-> FALSE]]
           /\ GotoWith(w, "annotateNew", [id |-> l, name |-> "own",
                                          ip |-> CreatedIP(S.snap), ready |-> FALSE])
           /\ UNCHANGED <<queued, cache>>
    BY <1>1, <1>4 DEF CreateLB
  <2>2. /\ S'.pc = "annotateNew" /\ S'.op = S.op /\ S'.lb.id = l /\ Others(w)
    BY <1>1, <2>1, GotoWithEffect
  <2>3. Own' \subseteq Own \cup {l}
    BY <1>1, <2>1 DEF Own, Live, TypeOK, AllLBs
  <2>4. ~missed => Own = {} /\ ~gone
    BY <1>2 DEF IInv, OwnInv, SvcWorkerInv, DeletionInv
  <2>5. OwnInv'
    BY <1>2, <2>2, <2>3, <2>4 DEF OwnInv
  <2>6. SvcWorkerInv'
    BY <1>2, <2>2 DEF IInv, SvcWorkerInv
  <2> QED BY <1>2, <2>1, <2>2, <2>5, <2>6, SvcControl DEF IInv, WatchInv
<1> QED BY <1>1, <1>3, <1>4 DEF CreateLB

\* deleteLoadBalancer: the LB it deletes is the only one of the Service's name.
LEMMA SvcDelete ==
  ASSUME IInv, Unannotate(SvcWorker) \/ DeleteLB(SvcWorker)
  PROVE  NodeSyncInv' /\ SvcWorkerInv' /\ DeletionInv' /\ WatchInv' /\ OwnInv'
<1> DEFINE w == SvcWorker
<1>1. w \in Workers /\ TypeOK /\ S = wk[w] /\ S' = wk'[w] /\ Idle(w).pc = "idle"
      /\ S.op # "update"
  BY IdleFacts DEF Workers, IInv, S, SvcWorkerInv
<1>2. gone' = gone
  BY DEF Unannotate, DeleteLB
<1>3. CASE Unannotate(w)
  <2>1. lbs' = lbs /\ S.pc = "unannotate" /\ (PatchAnno(S.snap, NoLB) \/ UNCHANGED <<svc, watch>>)
    BY <1>1, <1>3 DEF Unannotate
  <2>2. \/ ReturnError(w) /\ missed' = missed
        \/ AfterDelete(w) /\ MissedOwn(w)
        \/ Goto(w, "deleteLB") /\ ~Renamed(S.lb) /\ cache' = cache /\ missed' = missed
    BY <1>1, <1>3 DEF Unannotate
  <2>3. CASE ReturnError(w) /\ missed' = missed
    <3>1. S' = Idle(w) /\ Others(w) /\ cache' = cache
      BY <1>1, <2>3, ReturnErrorEffect
    <3>2. OwnInv'
      BY <1>1, <1>2, <2>1, <2>3, <3>1, OwnKnown DEF IInv
    <3> QED BY <1>2, <2>1, <3>1, <3>2, SvcControl, MaybePatchWatch
  <2>4. CASE AfterDelete(w) /\ MissedOwn(w)
    <3>1. /\ Others(w) /\ cache' = cache /\ S'.op = S.op
          /\ S'.pc = IF S.op = "ensure" THEN "create" ELSE "finalize"
      BY <1>1, <2>4, AfterDeleteEffect
    <3>2. (missed => missed') /\ (~missed' => Own = {})
      BY <2>4 DEF MissedOwn
    <3>3. OwnInv'
      BY <1>2, <2>1, <3>1, <3>2, OwnKnown DEF IInv
    <3>4. SvcWorkerInv'
      BY <1>1, <3>1 DEF SvcWorkerInv
    <3> QED BY <1>2, <2>1, <3>1, <3>3, <3>4, SvcControl, MaybePatchWatch
  <2>5. CASE Goto(w, "deleteLB") /\ ~Renamed(S.lb) /\ cache' = cache /\ missed' = missed
    <3>1. S'.pc = "deleteLB" /\ S'.op = S.op /\ S'.lb = S.lb /\ Others(w) /\ S.lb.name = "own"
      BY <1>1, <2>5, GotoEffect DEF Renamed
    <3>2. ~missed => Own \subseteq {S.lb.id}
      BY <2>1, <3>1 DEF IInv, OwnInv
    <3>3. OwnInv'
      BY <1>2, <2>1, <2>5, <3>1, <3>2, OwnKnown DEF IInv
    <3>4. SvcWorkerInv'
      BY <1>1, <3>1 DEF SvcWorkerInv
    <3> QED BY <1>2, <2>1, <2>5, <3>1, <3>3, <3>4, SvcControl, MaybePatchWatch
  <2> QED BY <2>2, <2>3, <2>4, <2>5
<1>4. CASE DeleteLB(w)
  <2>1. S.pc = "deleteLB" /\ S.lb.name = "own" /\ svc' = svc /\ watch' = watch /\ missed' = missed
    BY <1>1, <1>4 DEF DeleteLB, IInv, SvcWorkerInv
  <2>2. CASE S.lb.id \in Live
    <3>1. lbs' = [lbs EXCEPT ![S.lb.id] = Dead("deleted")] /\ AfterDelete(w)
      BY <1>1, <1>4, <2>2 DEF DeleteLB
    <3>2. /\ Others(w) /\ cache' = cache /\ S'.op = S.op
          /\ S'.pc = IF S.op = "ensure" THEN "create" ELSE "finalize"
      BY <1>1, <3>1, AfterDeleteEffect
    <3>3. Own' \subseteq Own \ {S.lb.id}
      BY <1>1, <2>2, <3>1 DEF Own, Live, TypeOK, Dead
    <3>4. ~missed => Own \subseteq {S.lb.id}
      BY <2>1 DEF IInv, OwnInv
    <3>5. OwnInv'
      BY <1>2, <2>1, <3>2, <3>3, <3>4 DEF OwnInv
    <3>6. SvcWorkerInv'
      BY <1>1, <3>2 DEF SvcWorkerInv
    <3> QED BY <1>2, <2>1, <3>2, <3>5, <3>6, SvcControl DEF IInv, WatchInv
  <2>3. CASE S.lb.id \notin Live
    <3>1. ReturnError(w) /\ lbs' = lbs
      BY <1>1, <1>4, <2>3 DEF DeleteLB
    <3>2. S' = Idle(w) /\ Others(w) /\ cache' = cache
      BY <1>1, <3>1, ReturnErrorEffect
    <3>3. OwnInv'
      BY <1>1, <1>2, <2>1, <3>1, <3>2, OwnKnown DEF IInv
    <3> QED BY <1>2, <2>1, <3>2, <3>3, SvcControl DEF IInv, WatchInv
  <2> QED BY <2>2, <2>3
<1> QED BY <1>3, <1>4

\* The last steps of a call, and a call that fails.
LEMMA SvcFinish ==
  ASSUME IInv, \/ Configure(SvcWorker) \/ Cleanup(SvcWorker)
               \/ RemoveFinalizer(SvcWorker) \/ Fail(SvcWorker)
  PROVE  NodeSyncInv' /\ SvcWorkerInv' /\ DeletionInv' /\ WatchInv' /\ OwnInv'
<1> DEFINE w == SvcWorker
<1>1. w \in Workers /\ TypeOK /\ S = wk[w] /\ S' = wk'[w] /\ Idle(w).pc = "idle"
      /\ Idle(w).op = "ensure" /\ S.op \in Ops
  BY IdleFacts DEF Workers, IInv, S, TypeOK, Worker
<1>2. lbs' = lbs /\ svc' = svc /\ watch' = watch
  BY DEF Configure, Cleanup, RemoveFinalizer, Fail
<1>3. CASE (Configure(w) \/ Fail(w)) \/ (Cleanup(w) /\ ReturnError(w) /\ UNCHANGED missed)
  <2>1. gone' = gone /\ missed' = missed /\ (ReturnError(w) \/ ReturnOK(w))
    BY <1>3 DEF Configure, Fail, Cleanup
  <2>2. S' = Idle(w) /\ Others(w) /\ cache' = cache
    BY <1>1, <2>1, ReturnErrorEffect, ReturnEffect DEF ReturnOK
  <2>3. OwnInv'
    BY <1>1, <1>2, <2>1, <2>2, OwnKnown DEF IInv
  <2> QED BY <1>2, <2>1, <2>2, <2>3, SvcControl DEF IInv, WatchInv
<1>4. CASE Cleanup(w) /\ Goto(w, "finalize") /\ cache' = cache /\ MissedOwn(w)
  <2>1. S'.pc = "finalize" /\ S'.op = S.op /\ Others(w) /\ S.pc = "cleanup" /\ gone' = gone
    BY <1>1, <1>4, GotoEffect DEF Cleanup
  <2>2. (missed => missed') /\ (~missed' => Own = {})
    BY <1>4 DEF MissedOwn
  <2>3. OwnInv'
    BY <1>2, <2>1, <2>2, OwnKnown DEF IInv
  <2>4. SvcWorkerInv'
    BY <2>1 DEF IInv, SvcWorkerInv
  <2> QED BY <1>2, <1>4, <2>1, <2>3, <2>4, SvcControl DEF IInv, WatchInv
<1>5. CASE RemoveFinalizer(w)
  <2>1. S' = Idle(w) /\ Others(w) /\ cache' = cache
    BY <1>1, <1>5, ReturnEffect DEF RemoveFinalizer, ReturnOK
  <2>2. S.pc = "finalize" /\ gone' = TRUE /\ missed' = missed /\ S.op # "ensure"
    BY <1>1, <1>5 DEF RemoveFinalizer, IInv, SvcWorkerInv
  <2>3. cache.deleting
    BY <2>2 DEF IInv, DeletionInv
  <2>4. DeletionInv'
    BY <1>1, <2>1, <2>3 DEF DeletionInv
  <2>5. OwnInv'
    BY <1>1, <1>2, <2>1, <2>2, OwnSame DEF IInv, OwnInv
  <2>6. NodeSyncInv' /\ SvcWorkerInv'
    BY <1>1, <2>1, ConstantsAssumption
       DEF IInv, NodeSyncInv, SvcWorkerInv, Others, Workers
  <2> QED BY <1>2, <2>1, <2>4, <2>5, <2>6 DEF IInv, WatchInv
<1> QED BY <1>3, <1>4, <1>5 DEF Cleanup
\* A step of a node sync and everything the environment does.
LEMMA OtherSteps ==
  ASSUME IInv,
         \/ \E w \in NodeSyncs : BeginNodeSync(w) \/ Step(w) \/ Fail(w)
         \/ BeginSync \/ Crash \/ Deliver \/ EditService \/ DeleteService
         \/ \E l \in AllLBs : BecomeReady(l) \/ ConsoleDelete(l) \/ ConsoleRename(l)
         \/ UNCHANGED vars
  PROVE  NodeSyncInv' /\ SvcWorkerInv' /\ DeletionInv' /\ WatchInv' /\ OwnInv'
<1> USE DEF informer, budgets, ipHist
<1>0. TypeOK /\ SvcWorker \in Workers /\ NodeSyncs \subseteq Workers /\ SvcWorker \notin NodeSyncs
  BY ConstantsAssumption DEF IInv, Workers
<1>1. ASSUME NEW w \in NodeSyncs, Others(w), cache' = cache, gone' = gone,
             lbs' = lbs, missed' = missed, WatchInv', wk'[w].op = "update",
             wk'[w].pc \in {"idle", "fetch", "annotate", "configure"}
      PROVE  NodeSyncInv' /\ SvcWorkerInv' /\ DeletionInv' /\ WatchInv' /\ OwnInv'
  <2>1. wk'[SvcWorker] = wk[SvcWorker] /\ S' = S
    BY <1>0, <1>1 DEF Others, S
  <2>2. \A v \in NodeSyncs \ {w} : wk'[v] = wk[v]
    BY <1>0, <1>1 DEF Others
  <2>3. NodeSyncInv'
    BY <1>1, <2>2 DEF IInv, NodeSyncInv
  <2>4. SvcWorkerInv' /\ DeletionInv'
    BY <1>1, <2>1 DEF IInv, SvcWorkerInv, DeletionInv
  <2>5. OwnInv'
    BY <1>1, <2>1, OwnSame, OwnFrame DEF IInv
  <2> QED BY <1>1, <2>3, <2>4, <2>5
<1>2. ASSUME NEW w \in NodeSyncs, BeginNodeSync(w)
      PROVE  NodeSyncInv' /\ SvcWorkerInv' /\ DeletionInv' /\ WatchInv' /\ OwnInv'
  <2>1. wk'[w].pc = "fetch" /\ wk'[w].op = "update" /\ Others(w)
    BY <1>0, <1>2, StartEffect DEF BeginNodeSync
  <2>2. UNCHANGED <<svc, gone, cache, watch, lbs, missed>>
    BY <1>2 DEF BeginNodeSync
  <2>3. WatchInv'
    BY <2>2 DEF IInv, WatchInv
  <2> QED BY <1>1, <2>1, <2>2, <2>3
<1>3. ASSUME NEW w \in NodeSyncs, Step(w)
      PROVE  NodeSyncInv' /\ SvcWorkerInv' /\ DeletionInv' /\ WatchInv' /\ OwnInv'
  BY <1>1, <1>3, NodeSyncStep
<1>4. ASSUME NEW w \in NodeSyncs, Fail(w)
      PROVE  NodeSyncInv' /\ SvcWorkerInv' /\ DeletionInv' /\ WatchInv' /\ OwnInv'
  <2>1. wk'[w] = Idle(w) /\ Others(w) /\ cache' = cache
    BY <1>0, <1>4, ReturnErrorEffect DEF Fail
  <2>2. UNCHANGED <<svc, gone, watch, lbs, missed>>
    BY <1>4 DEF Fail
  <2>3. WatchInv'
    BY <2>1, <2>2 DEF IInv, WatchInv
  <2>4. wk'[w].pc = "idle" /\ wk'[w].op = "update"
    BY <1>0, <2>1, IdleFacts
  <2> QED BY <1>1, <2>1, <2>2, <2>3, <2>4
<1>5. CASE BeginSync
  <2>1. /\ S'.pc = "fetch" /\ S'.op = IF cache.deleting THEN "get" ELSE "ensure"
        /\ Others(SvcWorker)
    BY <1>0, <1>5, StartEffect DEF BeginSync, S
  <2>2. UNCHANGED <<svc, gone, cache, watch, lbs, missed>>
    BY <1>5 DEF BeginSync
  <2>3. NodeSyncInv'
    BY <1>0, <2>1 DEF IInv, NodeSyncInv, Others
  <2>4. SvcWorkerInv' /\ DeletionInv'
    BY <2>1, <2>2 DEF IInv, SvcWorkerInv, DeletionInv
  <2>5. OwnInv'
    BY <2>1, <2>2, OwnKnown DEF IInv
  <2> QED BY <2>2, <2>3, <2>4, <2>5 DEF IInv, WatchInv
<1>6. CASE Crash
  <2>1. \A w \in Workers : wk'[w] = Idle(w)
    BY <1>6 DEF Crash
  <2>2. S'.pc = "idle" /\ S'.op = "ensure"
    BY <1>0, <2>1, IdleFacts DEF S
  <2>3. NodeSyncInv'
    BY <1>0, <2>1, IdleFacts DEF NodeSyncInv
  <2>4. UNCHANGED <<svc, gone, lbs, missed>> /\ cache' = svc /\ watch' = <<>>
    BY <1>6 DEF Crash
  <2>5. SvcWorkerInv' /\ DeletionInv'
    BY <2>2, <2>4 DEF IInv, SvcWorkerInv, DeletionInv, WatchInv
  <2>6. OwnInv'
    BY <2>2, <2>4, OwnKnown DEF IInv
  <2>7. WatchInv'
    BY <2>4 DEF WatchInv
  <2> QED BY <2>3, <2>5, <2>6, <2>7
<1>7. ASSUME wk' = wk, gone' = gone, missed' = missed, Own' \subseteq Own,
             cache.deleting => cache'.deleting, WatchInv'
      PROVE  NodeSyncInv' /\ SvcWorkerInv' /\ DeletionInv' /\ WatchInv' /\ OwnInv'
  <2>1. NodeSyncInv' /\ SvcWorkerInv' /\ DeletionInv'
    BY <1>7 DEF IInv, NodeSyncInv, SvcWorkerInv, DeletionInv, S
  <2>2. OwnInv'
    BY <1>7, OwnFrame DEF IInv
  <2> QED BY <1>7, <2>1, <2>2
<1>8. CASE Deliver
  <2>1. WatchInv' /\ (cache.deleting => cache'.deleting)
    BY <1>0, <1>8, DeliverWatch DEF IInv
  <2>2. Own' \subseteq Own
    BY <1>8, OwnSame DEF Deliver
  <2> QED BY <1>7, <1>8, <2>1, <2>2 DEF Deliver
<1>9. CASE EditService
  <2>1. ASSUME NEW s \in Service, EditTo(s), s.deleting = svc.deleting PROVE WatchInv'
    BY <1>0, <1>9, <2>1, WriteWatch DEF EditService, EditTo, IInv
  <2>2. \A p \in BOOLEAN, i \in StaticIPs \cup {NoIP} :
          /\ [svc EXCEPT !.private = p, !.ip = i] \in Service
          /\ [svc EXCEPT !.private = p, !.ip = i].deleting = svc.deleting
    BY <1>0 DEF TypeOK, Service
  <2>3. \A e \in ExtValues, a \in ForeignLBs \cup {svc.anno} :
          /\ [svc EXCEPT !.ext = e, !.anno = a] \in Service
          /\ [svc EXCEPT !.ext = e, !.anno = a].deleting = svc.deleting
    BY <1>0 DEF TypeOK, Service, AllLBs
  <2>4. WatchInv'
    BY <1>9, <2>1, <2>2, <2>3 DEF EditService
  <2>5. Own' \subseteq Own
    BY <1>9, OwnSame DEF EditService
  <2> QED BY <1>7, <1>9, <2>4, <2>5 DEF EditService
<1>10. CASE DeleteService
  <2>1. [svc EXCEPT !.deleting = TRUE] \in Service /\ [svc EXCEPT !.deleting = TRUE].deleting
    BY <1>0 DEF TypeOK, Service
  <2>2. WatchInv'
    BY <1>0, <1>10, <2>1, WriteWatch DEF DeleteService, IInv
  <2>3. Own' \subseteq Own
    BY <1>10, OwnSame DEF DeleteService
  <2> QED BY <1>7, <1>10, <2>2, <2>3 DEF DeleteService
<1>11. ASSUME NEW l \in AllLBs, BecomeReady(l) \/ ConsoleDelete(l) \/ ConsoleRename(l)
       PROVE  NodeSyncInv' /\ SvcWorkerInv' /\ DeletionInv' /\ WatchInv' /\ OwnInv'
  <2>1. UNCHANGED <<svc, gone, cache, watch, wk, missed>>
    BY <1>11 DEF BecomeReady, ConsoleDelete, ConsoleRename
  <2>2. Own' \subseteq Own
    BY <1>0, <1>11
       DEF BecomeReady, ConsoleDelete, ConsoleRename, Own, Live, Dead, TypeOK, LB
  <2>3. WatchInv'
    BY <2>1 DEF IInv, WatchInv
  <2> QED BY <1>7, <2>1, <2>2, <2>3
<1>12. CASE UNCHANGED vars
  <2>1. WatchInv' /\ Own' \subseteq Own
    BY <1>12, OwnSame DEF vars, IInv, WatchInv
  <2> QED BY <1>7, <1>12, <2>1 DEF vars
<1> QED BY <1>2, <1>3, <1>4, <1>5, <1>6, <1>8, <1>9, <1>10, <1>11, <1>12

\* The inductive invariant holds initially.
LEMMA IInvInit == Init => IInv
<1> SUFFICES ASSUME Init PROVE IInv
  OBVIOUS
<1>1. SvcWorker \in Workers /\ NodeSyncs \subseteq Workers
  BY DEF Workers
<1>2. \A w \in Workers : wk[w] = Idle(w)
  BY DEF Init
<1>3. S.pc = "idle" /\ S.op = "ensure"
  BY <1>1, <1>2, IdleFacts DEF S
<1>4. NodeSyncInv
  BY <1>1, <1>2, IdleFacts DEF NodeSyncInv
<1>5. SvcWorkerInv /\ DeletionInv
  BY <1>3 DEF SvcWorkerInv, DeletionInv, Init
<1>6. WatchInv
  BY DEF Init, WatchInv
<1>7. Own = {}
  BY DEF Init, Own, Live, AllLBs, LBNames
<1>8. OwnInv
  BY <1>3, <1>7 DEF OwnInv
<1> QED BY <1>4, <1>5, <1>6, <1>8, TypeInit DEF IInv

\* Every step keeps the inductive invariant.
LEMMA IInvNext == IInv /\ [Next]_vars => IInv'
<1> SUFFICES ASSUME IInv, [Next]_vars PROVE IInv'
  OBVIOUS
<1>1. TypeOK'
  BY TypeNext DEF IInv
<1>2. CASE Step(SvcWorker) \/ Fail(SvcWorker)
  BY <1>1, <1>2, SvcFetch, SvcAnnotate, SvcCreate, SvcDelete, SvcFinish DEF Step, IInv
<1>3. CASE BeginNodeSync(SvcWorker)
  BY <1>3, ConstantsAssumption DEF BeginNodeSync
<1>4. CASE ~(Step(SvcWorker) \/ Fail(SvcWorker) \/ BeginNodeSync(SvcWorker))
  <2>1. \A w \in Workers : w = SvcWorker \/ w \in NodeSyncs
    BY DEF Workers
  <2> QED BY <1>1, <1>4, <2>1, OtherSteps DEF Next, IInv
<1> QED BY <1>2, <1>3, <1>4

\* For every number of LBs, node syncs, edits, failures and lost versions, a
\* Service never has two LBs of its name unless the ID annotation has misled
\* fetchLoadBalancer or deleteLoadBalancer.
THEOREM OneLBPerService == Spec => []OwnUnique
<1>1. IInv => OwnUnique
  BY DEF IInv, OwnInv, OwnUnique
<1> QED BY <1>1, IInvInit, IInvNext, PTL DEF Spec

\* When EnsureLoadBalancerDeleted lets the Service go, no LB of its name is
\* left running, under the same condition.
THEOREM NoLBLeftBehind == Spec => []NoLeak
<1>1. IInv => NoLeak
  BY DEF IInv, OwnInv, NoLeak
<1> QED BY <1>1, IInvInit, IInvNext, PTL DEF Spec

-----------------------------------------------------------------------------
(***************************************************************************)
(* LBs the CCM did not create.                                             *)
(***************************************************************************)

\* ForeignInv holds initially.
LEMMA ForeignInit == Init => ForeignInv
<1> SUFFICES ASSUME Init PROVE ForeignInv
  OBVIOUS
<1>1. \A l \in ForeignLBs : lbs[l].name # "own" /\ lbs[l].state = "live"
  BY ConstantsAssumption DEF Init, AllLBs, LBNames
<1>2. \A w \in Workers : wk[w].lb = NoCopy /\ wk[w].pc = "idle"
  BY IdleFacts DEF Init
<1> QED BY <1>1, <1>2, IdleFacts DEF ForeignInv

\* A step that changes no LB keeps ForeignInv when the worker it moves, if it
\* holds a foreign LB, knows that it does not bear the Service's name.
LEMMA ForeignFrame ==
  ASSUME ForeignInv, lbs' = lbs, NEW w \in Workers, Others(w),
         wk'[w].lb.id \in ForeignLBs => wk'[w].lb.name # "own",
         wk'[w].pc = "deleteLB" => wk'[w].lb.name = "own"
  PROVE  ForeignInv'
BY DEF ForeignInv, Others

\* Every step keeps ForeignInv.
LEMMA ForeignNext == TypeOK /\ ForeignInv /\ [Next]_vars => ForeignInv'
<1> SUFFICES ASSUME TypeOK, ForeignInv, [Next]_vars PROVE ForeignInv'
  OBVIOUS
<1> USE DEF informer, budgets, ipHist
<1>1. \A w \in Workers : /\ Idle(w).pc = "idle" /\ Idle(w).lb.id \notin ForeignLBs
  BY IdleFacts, ConstantsAssumption DEF AllLBs
<1>2. ASSUME NEW w \in Workers, wk'[w] = Idle(w), Others(w), lbs' = lbs PROVE ForeignInv'
  BY <1>1, <1>2, ForeignFrame
<1>3. ASSUME NEW w \in Workers, Others(w), lbs' = lbs, wk'[w].lb = wk[w].lb,
             wk'[w].pc = "deleteLB" => wk'[w].lb.name = "own"
      PROVE  ForeignInv'
  BY <1>3, ForeignFrame DEF ForeignInv
<1>4. ASSUME NEW w \in Workers, NEW lb, Found(w, lb), lbs' = lbs,
             lb.id \in ForeignLBs => lb.name # "own"
      PROVE  ForeignInv'
  <2>1. /\ Others(w)
        /\ \/ wk'[w] = Idle(w)
           \/ /\ wk'[w].lb = lb \/ wk'[w].lb = wk[w].lb
              /\ wk'[w].pc \in {"configure", "unannotate", "cleanup", "fetch"}
    BY <1>4, FoundEffect
  <2>2. CASE wk'[w] = Idle(w)
    BY <1>2, <1>4, <2>1, <2>2
  <2>3. CASE wk'[w].lb = lb /\ wk'[w].pc # "deleteLB"
    BY <1>4, <2>1, <2>3, ForeignFrame
  <2>4. CASE wk'[w].lb = wk[w].lb /\ wk'[w].pc # "deleteLB"
    BY <1>3, <1>4, <2>1, <2>4
  <2> QED BY <2>1, <2>2, <2>3, <2>4
<1>5. ASSUME NEW w \in Workers, NotFound(w), lbs' = lbs PROVE ForeignInv'
  BY <1>2, <1>3, <1>5, NotFoundEffect
<1>6. ASSUME NEW l \in AllLBs
      PROVE  CopyOf(l).id \in ForeignLBs => CopyOf(l).name # "own"
  BY DEF CopyOf, ForeignInv
<1>7. ASSUME NEW w \in Workers, ReturnError(w) \/ ReturnOK(w), lbs' = lbs PROVE ForeignInv'
  BY <1>2, <1>7, ReturnErrorEffect, ReturnEffect DEF ReturnOK
<1>8. ASSUME NEW w \in Workers, AfterDelete(w), lbs' = lbs PROVE ForeignInv'
  BY <1>3, <1>8, AfterDeleteEffect
<1>10. ASSUME NEW w \in Workers, FetchRefused(w) \/ Configure(w) \/ RemoveFinalizer(w) \/ Fail(w)
       PROVE  ForeignInv'
  BY <1>7, <1>10 DEF FetchRefused, Configure, RemoveFinalizer, Fail
<1>11. ASSUME NEW w \in Workers, FetchByID(w) PROVE ForeignInv'
  BY <1>4, <1>5, <1>6, <1>7, <1>11 DEF FetchByID, Live
<1>12. ASSUME NEW w \in Workers, FetchByName(w) PROVE ForeignInv'
  <2>1. ASSUME NEW l \in ListedByName, GotoWith(w, "annotate", CopyOf(l)) PROVE ForeignInv'
    <3>1. wk'[w].pc = "annotate" /\ wk'[w].lb = CopyOf(l) /\ Others(w)
      BY <2>1, GotoWithEffect
    <3>2. l \in AllLBs /\ lbs' = lbs
      BY <1>12 DEF ListedByName, Own, Live, FetchByName
    <3> QED BY <1>6, <3>1, <3>2, ForeignFrame
  <2> QED BY <1>5, <1>7, <1>12, <2>1 DEF FetchByName
<1>13. ASSUME NEW w \in Workers, AnnotateFound(w) \/ AnnotateNew(w) PROVE ForeignInv'
  <2>1. wk[w].lb.id \in ForeignLBs => wk[w].lb.name # "own"
    BY DEF ForeignInv
  <2> QED BY <1>4, <1>7, <1>13, <2>1 DEF AnnotateFound, AnnotateNew
<1>14. ASSUME NEW w \in Workers, CreateLB(w) PROVE ForeignInv'
  <2>1. CASE ReturnError(w) /\ UNCHANGED lbs
    BY <1>7, <2>1
  <2>2. CASE ~(ReturnError(w) /\ UNCHANGED lbs)
    <3> DEFINE ip == CreatedIP(wk[w].snap)
    <3>1. PICK l \in LBIds :
             /\ lbs' = [lbs EXCEPT ![l] = [state |-> "live", name |-> "own",
                                           ip |-> ip, ready |-> FALSE]]
             /\ GotoWith(w, "annotateNew", [id |-> l, name |-> "own",
                                            ip |-> ip, ready |-> FALSE])
      BY <1>14, <2>2 DEF CreateLB
    <3>2. wk'[w].pc = "annotateNew" /\ wk'[w].lb.id = l /\ Others(w)
      BY <3>1, GotoWithEffect
    <3>3. l \notin ForeignLBs
      BY ConstantsAssumption
    <3>4. \A m \in ForeignLBs : lbs'[m] = lbs[m]
      BY <3>1, <3>3 DEF TypeOK, AllLBs
    <3> QED BY <3>2, <3>3, <3>4 DEF ForeignInv, Others
  <2> QED BY <2>1, <2>2
<1>15. ASSUME NEW w \in Workers, Unannotate(w) PROVE ForeignInv'
  <2>1. ASSUME Goto(w, "deleteLB"), ~Renamed(wk[w].lb), lbs' = lbs PROVE ForeignInv'
    BY <1>3, <2>1, GotoEffect DEF Renamed
  <2> QED BY <1>7, <1>8, <1>15, <2>1 DEF Unannotate
<1>16. ASSUME NEW w \in Workers, DeleteLB(w) PROVE ForeignInv'
  <2>1. CASE wk[w].lb.id \in Live
    <3>1. lbs' = [lbs EXCEPT ![wk[w].lb.id] = Dead("deleted")] /\ AfterDelete(w)
      BY <1>16, <2>1 DEF DeleteLB
    <3>2. wk[w].lb.id \notin ForeignLBs
      BY <1>16 DEF DeleteLB, ForeignInv
    <3>3. \A m \in ForeignLBs : lbs'[m] = lbs[m]
      BY <3>1, <3>2 DEF TypeOK, AllLBs
    <3>4. /\ Others(w) /\ wk'[w].lb = wk[w].lb /\ wk'[w].pc # "deleteLB"
      BY <3>1, AfterDeleteEffect
    <3> QED BY <3>3, <3>4 DEF ForeignInv, Others
  <2>2. CASE wk[w].lb.id \notin Live
    BY <1>7, <1>16, <2>2 DEF DeleteLB
  <2> QED BY <2>1, <2>2
<1>17. ASSUME NEW w \in Workers, Cleanup(w) PROVE ForeignInv'
  <2>1. ASSUME Goto(w, "finalize"), lbs' = lbs PROVE ForeignInv'
    BY <1>3, <2>1, GotoEffect
  <2> QED BY <1>7, <1>17, <2>1 DEF Cleanup
<1>18. ASSUME NEW w \in Workers, NEW op, Start(w, op), lbs' = lbs PROVE ForeignInv'
  BY <1>3, <1>18, StartEffect
<1>19. ASSUME NEW w \in Workers, BeginNodeSync(w) PROVE ForeignInv'
  BY <1>18, <1>19 DEF BeginNodeSync
<1>20. CASE BeginSync
  BY <1>18, <1>20 DEF BeginSync, Workers
<1>21. CASE Crash
  BY <1>1, <1>21 DEF Crash, ForeignInv
<1>22. CASE Deliver \/ EditService \/ DeleteService \/ UNCHANGED vars
  BY <1>22 DEF Deliver, EditService, DeleteService, vars, ForeignInv
<1>23. ASSUME NEW l \in AllLBs, BecomeReady(l) \/ ConsoleDelete(l) \/ ConsoleRename(l)
       PROVE  ForeignInv'
  <2>1. wk' = wk
    BY <1>23 DEF BecomeReady, ConsoleDelete, ConsoleRename
  <2>2. \A m \in ForeignLBs : lbs'[m].name # "own" /\ lbs'[m].state # "deleted"
    <3> TAKE m \in ForeignLBs
    <3>1. m \in AllLBs /\ lbs[m].name # "own" /\ lbs[m].state # "deleted"
      BY DEF AllLBs, ForeignInv
    <3>2. CASE m # l
      BY <1>23, <3>1, <3>2 DEF BecomeReady, ConsoleDelete, ConsoleRename, TypeOK
    <3>3. CASE m = l
      BY <1>23, <3>1, <3>3 DEF BecomeReady, ConsoleDelete, ConsoleRename, Dead, TypeOK, LB
    <3> QED BY <3>2, <3>3
  <2> QED BY <2>1, <2>2 DEF ForeignInv
<1> QED
  BY <1>10, <1>11, <1>12, <1>13, <1>14, <1>15, <1>16, <1>17, <1>19, <1>20, <1>21,
     <1>22, <1>23 DEF Next, Step

\* Whatever the user writes in the ID and externally-managed annotations, and
\* however the calls interleave, deleteLoadBalancer never deletes an LB the CCM
\* did not create.
THEOREM ForeignLBsSurvive == Spec => []ForeignSafe
<1>1. ForeignInv => ForeignSafe
  BY DEF ForeignInv, ForeignSafe
<1> QED BY <1>1, ForeignInit, ForeignNext, TypeCorrect, PTL DEF Spec

-----------------------------------------------------------------------------
(***************************************************************************)
(* LBLifecycle implements ServiceLB.                                       *)
(***************************************************************************)
\* The LBs that ServiceLB counts are those of the Service's name.
LEMMA OwnedIsOwn == TypeOK => SLB!Owned = Own
BY DEF SLB!Owned, Standing, Own, Live, AllLBs, TypeOK, LB, LBStates

\* A step that changes neither LBs nor verdicts is a stutter, and one that only
\* hides an LB is Hide.
LEMMA RefineQuiet ==
  ASSUME missed \in BOOLEAN, missed' \in BOOLEAN, missed => missed',
         Standing' = Standing, gone' = gone
  PROVE  [SLB!SLBNext]_(SLB!slbVars)
<1>1. CASE missed' = missed
  BY <1>1 DEF SLB!slbVars
<1>2. CASE missed' = TRUE
  <2>1. SLB!Hide
    BY <1>2 DEF SLB!Hide
  <2> QED BY <2>1 DEF SLB!SLBNext
<1> QED BY <1>1, <1>2

\* The initial states correspond.
LEMMA RefineInit == Init => SLB!SLBInit
<1> SUFFICES ASSUME Init PROVE SLB!SLBInit
  OBVIOUS
<1>1. PICK name \in [ForeignLBs -> LBNames \ {"own"}] :
        lbs = [l \in AllLBs |->
                 IF l \in LBIds
                   THEN [state |-> "unborn", name |-> "own", ip |-> NoIP, ready |-> FALSE]
                   ELSE [state |-> "live", name |-> name[l], ip |-> Flexible, ready |-> TRUE]]
  BY DEF Init
<1>2. Standing = [l \in LBIds \cup ForeignLBs |-> IF l \in LBIds THEN "unborn" ELSE "other"]
  BY <1>1 DEF Standing, AllLBs
<1> QED BY <1>2 DEF Init, SLB!SLBInit

\* CreateLB creates only for a Service that is there and has no LB.
LEMMA RefineCreate ==
  ASSUME IInv, CreateLB(SvcWorker)
  PROVE  [SLB!SLBNext]_(SLB!slbVars)
<1>1. TypeOK /\ TypeOK' /\ gone' = gone /\ missed' = missed
  BY TypeNext DEF IInv, CreateLB, Next, Step, Workers
<1>2. CASE UNCHANGED lbs
  BY <1>1, <1>2, RefineQuiet DEF Standing, TypeOK
<1>3. CASE ~UNCHANGED lbs
  <2>1. PICK l \in LBIds :
          /\ lbs[l].state = "unborn"
          /\ lbs' = [lbs EXCEPT ![l] = [state |-> "live", name |-> "own",
                                        ip |-> CreatedIP(S.snap), ready |-> FALSE]]
    BY <1>3 DEF CreateLB, S
  <2>2. S.pc = "create"
    BY DEF CreateLB, S
  <2>3. ~gone /\ (missed \/ Own = {})
    BY <2>2 DEF IInv, DeletionInv, SvcWorkerInv, OwnInv
  <2>4. Standing' = [Standing EXCEPT ![l] = "own"] /\ Standing[l] = "unborn"
    BY <1>1, <2>1 DEF Standing, AllLBs, TypeOK
  <2>5. SLB!Create(l)
    BY <1>1, <2>3, <2>4, OwnedIsOwn DEF SLB!Create
  <2> QED BY <2>5 DEF SLB!SLBNext
<1> QED BY <1>2, <1>3

\* DeleteLB deletes only what CreateLB has created.
LEMMA RefineDelete ==
  ASSUME IInv, ForeignInv, DeleteLB(SvcWorker)
  PROVE  [SLB!SLBNext]_(SLB!slbVars)
<1> DEFINE l == S.lb.id
<1>1. TypeOK /\ gone' = gone /\ missed' = missed /\ missed \in BOOLEAN
  BY DEF IInv, DeleteLB, TypeOK
<1>2. CASE l \in Live
  <2>1. S.pc = "deleteLB" /\ lbs' = [lbs EXCEPT ![l] = Dead("deleted")]
    BY <1>2 DEF DeleteLB, S
  <2>2. l \in LBIds
    BY <1>2, <2>1 DEF ForeignInv, S, Workers, Live, AllLBs
  <2>3. Standing[l] \in {"own", "other"}
    BY <1>2 DEF Standing, Live
  <2>4. Standing' = [Standing EXCEPT ![l] = "deleted"]
    BY <1>1, <2>1, <2>2 DEF Standing, AllLBs, TypeOK, Dead
  <2>5. SLB!Delete(l)
    BY <1>1, <2>2, <2>3, <2>4 DEF SLB!Delete
  <2> QED BY <2>2, <2>5 DEF SLB!SLBNext
<1>3. CASE l \notin Live
  <2>1. UNCHANGED lbs
    BY <1>3 DEF DeleteLB, S
  <2> QED BY <1>1, <2>1, RefineQuiet DEF Standing
<1> QED BY <1>2, <1>3

\* RemoveFinalizer lets only a Service go that has no LB.
LEMMA RefineFinalize ==
  ASSUME IInv, RemoveFinalizer(SvcWorker)
  PROVE  [SLB!SLBNext]_(SLB!slbVars)
<1>1. TypeOK /\ gone' = TRUE /\ missed' = missed /\ lbs' = lbs /\ S.pc = "finalize"
  BY DEF IInv, RemoveFinalizer, S
<1>2. missed \/ Own = {}
  BY <1>1 DEF IInv, OwnInv
<1>3. SLB!LetGo
  BY <1>1, <1>2, OwnedIsOwn DEF SLB!LetGo, Standing
<1> QED BY <1>3 DEF SLB!SLBNext

\* What users and the cloud do to an LB.
LEMMA RefineCloud ==
  ASSUME TypeOK, NEW l \in AllLBs, BecomeReady(l) \/ ConsoleDelete(l) \/ ConsoleRename(l)
  PROVE  [SLB!SLBNext]_(SLB!slbVars)
<1>1. gone' = gone /\ missed' = missed /\ l \in Live /\ l \in LBIds \cup ForeignLBs
  BY DEF BecomeReady, ConsoleDelete, ConsoleRename, Own, AllLBs
<1>2. CASE BecomeReady(l)
  <2>1. Standing' = Standing
    BY <1>1, <1>2 DEF BecomeReady, Standing, TypeOK, LB
  <2> QED BY <1>1, <2>1, RefineQuiet DEF TypeOK
<1>3. CASE ConsoleDelete(l)
  <2>1. Standing' = [Standing EXCEPT ![l] = "removed"] /\ Standing[l] \in {"own", "other"}
    BY <1>1, <1>3 DEF ConsoleDelete, Standing, Live, TypeOK, Dead
  <2>2. SLB!Remove(l)
    BY <1>1, <2>1 DEF SLB!Remove
  <2> QED BY <1>1, <2>2 DEF SLB!SLBNext
<1>4. CASE ConsoleRename(l)
  <2>1. Standing' = [Standing EXCEPT ![l] = "other"] /\ Standing[l] = "own"
    BY <1>1, <1>4 DEF ConsoleRename, Standing, Own, Live, TypeOK, LB
  <2>2. SLB!Rename(l)
    BY <1>1, <2>1 DEF SLB!Rename
  <2> QED BY <1>1, <2>2 DEF SLB!SLBNext
<1> QED BY <1>2, <1>3, <1>4

\* Every step is a step of ServiceLB or a stutter.
LEMMA RefineNext ==
  ASSUME IInv, ForeignInv, [Next]_vars
  PROVE  [SLB!SLBNext]_(SLB!slbVars)
<1>1. missed \in BOOLEAN /\ missed' \in BOOLEAN
  BY TypeNext DEF IInv, TypeOK
<1>2. ASSUME lbs' = lbs, gone' = gone, missed => missed'
      PROVE  [SLB!SLBNext]_(SLB!slbVars)
  BY <1>1, <1>2, RefineQuiet DEF Standing
<1>3. CASE BeginSync \/ Crash \/ Deliver \/ EditService \/ DeleteService
  <2>1. BeginSync => lbs' = lbs /\ gone' = gone /\ missed' = missed
    BY DEF BeginSync
  <2>2. Crash => lbs' = lbs /\ gone' = gone /\ missed' = missed
    BY DEF Crash
  <2>3. Deliver => lbs' = lbs /\ gone' = gone /\ missed' = missed
    BY DEF Deliver
  <2>4. EditService => lbs' = lbs /\ gone' = gone /\ missed' = missed
    BY DEF EditService
  <2>5. DeleteService => lbs' = lbs /\ gone' = gone /\ missed' = missed
    BY DEF DeleteService
  <2> QED BY <1>2, <1>3, <2>1, <2>2, <2>3, <2>4, <2>5
<1>4. ASSUME NEW w \in Workers, BeginNodeSync(w) \/ Fail(w)
      PROVE  [SLB!SLBNext]_(SLB!slbVars)
  BY <1>2, <1>4 DEF BeginNodeSync, Fail
<1>5. ASSUME NEW w \in NodeSyncs, Step(w)
      PROVE  [SLB!SLBNext]_(SLB!slbVars)
  BY <1>2, <1>5, NodeSyncStep
<1>6. CASE Step(SvcWorker)
  <2>1. CASE \/ FetchRefused(SvcWorker) \/ FetchByID(SvcWorker) \/ FetchByName(SvcWorker)
             \/ AnnotateFound(SvcWorker) \/ AnnotateNew(SvcWorker)
             \/ Unannotate(SvcWorker) \/ Configure(SvcWorker) \/ Cleanup(SvcWorker)
    BY <1>2, <2>1 DEF FetchRefused, FetchByID, FetchByName, AnnotateFound, AnnotateNew,
                      Unannotate, Configure, Cleanup, MissedOwn
  <2> QED BY <1>6, <2>1, RefineCreate, RefineDelete, RefineFinalize DEF Step
<1>7. ASSUME NEW l \in AllLBs, BecomeReady(l) \/ ConsoleDelete(l) \/ ConsoleRename(l)
      PROVE  [SLB!SLBNext]_(SLB!slbVars)
  BY <1>7, RefineCloud DEF IInv
<1>8. CASE UNCHANGED vars
  BY <1>2, <1>8 DEF vars
<1> QED
  BY <1>3, <1>4, <1>5, <1>6, <1>7, <1>8 DEF Next, Workers

\* LBLifecycle implements ServiceLB: every run of the CCM, with its copies,
\* retries and crashes, is one of that specification.
THEOREM LifecycleImplementsServiceLB == Spec => ImplementsServiceLB
<1>1. Spec => []IInv
  BY IInvInit, IInvNext, PTL DEF Spec
<1>2. Init => ForeignInv
  BY ForeignInit
<1>3. Spec => []ForeignInv
  BY <1>1, <1>2, ForeignNext, PTL DEF Spec, IInv
<1>4. IInv /\ ForeignInv /\ [Next]_vars => [SLB!SLBNext]_(SLB!slbVars)
  BY RefineNext
<1> QED
  BY <1>1, <1>3, <1>4, RefineInit, PTL DEF Spec, ImplementsServiceLB, SLB!SLBSpec
=============================================================================
