---------------------- MODULE LBLifecycleHistoryProofs ----------------------
(***************************************************************************)
(* Proofs about LBLifecycle that need the history of the Service: an IP is *)
(* released only if the user had dropped it, and without a user's edit no  *)
(* second LB is created.  Both rest on the order of the versions of the    *)
(* Service: what a worker has in its hands is older than the informer's    *)
(* copy, which is older than what is on the watch, and that than svc.      *)
(* Last, what the Service has when nothing is queued or on its way.        *)
(***************************************************************************)
EXTENDS LBLifecycleProofs

-----------------------------------------------------------------------------
(***************************************************************************)
(* What a step does to the versions of the Service.                        *)
(***************************************************************************)
SameWish(a, b) == a.ext = b.ext /\ a.private = b.private /\ a.ip = b.ip

Quiet == UNCHANGED <<svc, watch, cache, dropped>>

\* A new version: a user's, or a patch of the annotation.
Written ==
  /\ cache' = cache
  /\ watch' = Append(watch, svc')
  /\ \/ svc'.ip = svc.ip /\ dropped' = dropped
     \/ dropped' = dropped \cup ({svc.ip} \cap StaticIPs)
  /\ edits' = 0 => SameWish(svc', svc)

Delivered ==
  /\ watch # <<>> /\ cache' = watch[1] /\ watch' = Tail(watch)
  /\ UNCHANGED <<svc, dropped>>

Restarted == cache' = svc /\ watch' = <<>> /\ UNCHANGED <<svc, dropped>>

VersionChange == Quiet \/ Written \/ Delivered \/ Restarted

\* A patch of the ID annotation keeps what the Service asks for.
LEMMA PatchWritten ==
  ASSUME TypeOK, NEW s, NEW id, PatchAnno(s, id), cache' = cache, dropped' = dropped
  PROVE  Quiet \/ Written
<1>1. CASE s.anno = id
  BY <1>1 DEF PatchAnno, Quiet
<1>2. CASE s.anno # id
  <2>1. [svc EXCEPT !.anno = id].ip = svc.ip /\ SameWish([svc EXCEPT !.anno = id], svc)
    BY DEF TypeOK, Service, SameWish
  <2>2. WriteService([svc EXCEPT !.anno = id])
    BY <1>2 DEF PatchAnno
  <2>3. CASE [svc EXCEPT !.anno = id] = svc
    BY <2>2, <2>3 DEF WriteService, Quiet
  <2>4. CASE [svc EXCEPT !.anno = id] # svc
    BY <2>1, <2>2, <2>4 DEF WriteService, Written
  <2> QED BY <2>3, <2>4
<1> QED BY <1>1, <1>2

\* Every step of a call leaves the versions alone or patches the annotation.
LEMMA StepVersions ==
  ASSUME TypeOK, NEW w \in Workers, Step(w)
  PROVE  Quiet \/ Written
<1> USE DEF ipHist
<1>1. ASSUME ReturnError(w) PROVE cache' = cache
  BY <1>1 DEF ReturnError
<1>2. ASSUME NEW lb, Found(w, lb) PROVE cache' = cache
  BY <1>2, <1>1 DEF Found
<1>3. ASSUME NotFound(w) PROVE cache' = cache
  BY <1>3, <1>1 DEF NotFound
<1>4. CASE FetchRefused(w)
  BY <1>1, <1>4 DEF FetchRefused, Quiet
<1>5. CASE FetchByID(w)
  BY <1>1, <1>2, <1>3, <1>5 DEF FetchByID, Quiet
<1>6. CASE FetchByName(w)
  BY <1>1, <1>3, <1>6 DEF FetchByName, Quiet
<1>7. CASE AnnotateFound(w) \/ AnnotateNew(w)
  <2>1. cache' = cache /\ dropped' = dropped
    BY <1>1, <1>2, <1>7 DEF AnnotateFound, AnnotateNew
  <2>2. CASE UNCHANGED <<svc, watch>>
    BY <2>1, <2>2 DEF Quiet
  <2>3. CASE PatchAnno(wk[w].snap, AnnotationOf(wk[w].lb))
    BY <2>1, <2>3, PatchWritten
  <2> QED BY <1>7, <2>2, <2>3 DEF AnnotateFound, AnnotateNew
<1>8. CASE CreateLB(w)
  BY <1>1, <1>8 DEF CreateLB, Quiet
<1>9. CASE Unannotate(w)
  <2>1. cache' = cache /\ dropped' = dropped
    BY <1>1, <1>9 DEF Unannotate, AfterDelete
  <2>2. CASE UNCHANGED <<svc, watch>>
    BY <2>1, <2>2 DEF Quiet
  <2>3. CASE PatchAnno(wk[w].snap, NoLB)
    BY <2>1, <2>3, PatchWritten
  <2> QED BY <1>9, <2>2, <2>3 DEF Unannotate
<1>10. CASE DeleteLB(w)
  BY <1>1, <1>10 DEF DeleteLB, AfterDelete, Quiet
<1>11. CASE Configure(w) \/ Cleanup(w) \/ RemoveFinalizer(w)
  BY <1>1, <1>11 DEF Configure, Cleanup, RemoveFinalizer, ReturnOK, Quiet
<1> QED
  BY <1>4, <1>5, <1>6, <1>7, <1>8, <1>9, <1>10, <1>11 DEF Step

\* So does every other step, or else it is an edit, a delivery or a restart.
LEMMA VersionStep ==
  ASSUME TypeOK, [Next]_vars
  PROVE  VersionChange
<1> USE DEF ipHist, informer, budgets
<1>1. ASSUME NEW w \in Workers, BeginNodeSync(w) \/ Fail(w) PROVE Quiet
  BY <1>1 DEF BeginNodeSync, Fail, ReturnError, Quiet
<1>2. CASE BeginSync
  BY <1>2 DEF BeginSync, Quiet, VersionChange
<1>3. CASE Crash
  BY <1>3 DEF Crash, Restarted, VersionChange
<1>4. CASE Deliver
  BY <1>4 DEF Deliver, Delivered, TypeOK, VersionChange
<1>5. CASE EditService
  <2>0. UserDoes
    BY <1>5 DEF EditService
  <2>1. edits' # 0
    BY <2>0 DEF UserDoes, TypeOK
  <2>2. ASSUME NEW s, EditTo(s) PROVE Written
    <3>1. svc' = s /\ watch' = Append(watch, s) /\ cache' = cache
      BY <1>5, <2>2 DEF EditTo, WriteService, EditService
    <3> QED BY <2>1, <2>2, <3>1 DEF EditTo, Written
  <2> QED BY <1>5, <2>2 DEF EditService, VersionChange
<1>6. CASE DeleteService
  <2>1. /\ [svc EXCEPT !.deleting = TRUE].ip = svc.ip
        /\ SameWish([svc EXCEPT !.deleting = TRUE], svc)
        /\ [svc EXCEPT !.deleting = TRUE] # svc
    BY <1>6 DEF DeleteService, TypeOK, Service, SameWish
  <2>2. /\ svc' = [svc EXCEPT !.deleting = TRUE] /\ watch' = Append(watch, svc')
        /\ cache' = cache /\ dropped' = dropped
    BY <1>6, <2>1 DEF DeleteService, WriteService
  <2> QED BY <2>1, <2>2 DEF Written, VersionChange
<1>7. ASSUME NEW l \in AllLBs, BecomeReady(l) \/ ConsoleDelete(l) \/ ConsoleRename(l)
      PROVE  Quiet
  BY <1>7 DEF BecomeReady, ConsoleDelete, ConsoleRename, Quiet
<1>8. CASE UNCHANGED vars
  BY <1>8 DEF vars, Quiet, VersionChange
<1> QED
  BY <1>1, <1>2, <1>3, <1>4, <1>5, <1>6, <1>7, <1>8, StepVersions
     DEF Next, VersionChange

-----------------------------------------------------------------------------
(***************************************************************************)
(* What a step does to the Service that the service worker has in hands.   *)
(***************************************************************************)
\* The call of worker w goes on, with the same argument, or ends.
GoesOn(w) ==
  \/ wk'[w] = Idle(w)
  \/ wk'[w].snap = wk[w].snap /\ (wk'[w].op = "ensure" => wk[w].op = "ensure")

\* Whatever fetchLoadBalancer and deleteLoadBalancer return.
LEMMA CallGoesOn ==
  ASSUME TypeOK, NEW w \in Workers
  PROVE  /\ \A pc : Goto(w, pc) => GoesOn(w)
         /\ \A pc, lb : GotoWith(w, pc, lb) => GoesOn(w)
         /\ ReturnError(w) => GoesOn(w)
         /\ ReturnOK(w) => GoesOn(w)
         /\ \A lb : Found(w, lb) => GoesOn(w)
         /\ NotFound(w) => GoesOn(w)
         /\ AfterDelete(w) => GoesOn(w)
<1>1. ASSUME NEW pc, Goto(w, pc) PROVE GoesOn(w)
  BY <1>1 DEF Goto, GoesOn, TypeOK, Worker
<1>2. ASSUME NEW pc, NEW lb, GotoWith(w, pc, lb) PROVE GoesOn(w)
  BY <1>2 DEF GotoWith, GoesOn, TypeOK, Worker
<1>3. ASSUME Return(w) PROVE GoesOn(w)
  BY <1>3 DEF Return, GoesOn, TypeOK
<1>4. ASSUME wk' = [wk EXCEPT ![w].pc = "fetch", ![w].op = "delete"] PROVE GoesOn(w)
  BY <1>4 DEF GoesOn, TypeOK, Worker
<1>5. ASSUME wk' = [wk EXCEPT ![w].pc = "create", ![w].recreated = TRUE] PROVE GoesOn(w)
  BY <1>5 DEF GoesOn, TypeOK, Worker
<1>6. ReturnError(w) \/ ReturnOK(w) => GoesOn(w)
  BY <1>3 DEF ReturnError, ReturnOK
<1>7. ASSUME NEW lb, Found(w, lb) PROVE GoesOn(w)
  BY <1>2, <1>4, <1>6, <1>7 DEF Found
<1>8. ASSUME NotFound(w) PROVE GoesOn(w)
  BY <1>1, <1>6, <1>8 DEF NotFound
<1>9. ASSUME AfterDelete(w) PROVE GoesOn(w)
  BY <1>1, <1>5, <1>9 DEF AfterDelete
<1> QED BY <1>1, <1>2, <1>6, <1>7, <1>8, <1>9

\* So the service worker keeps its argument until its call ends, and gets a
\* new one, the informer's copy, when a call begins.
SnapChange ==
  \/ S'.pc = "idle"
  \/ /\ S.pc # "idle" /\ S'.snap = S.snap
     /\ S'.op = "ensure" => S.op = "ensure"
  \/ /\ BeginSync /\ S'.pc = "fetch" /\ S'.snap = cache
     /\ S'.op = "ensure" => ~cache.deleting /\ ~EnsureRefused(cache)

LEMMA SnapStep ==
  ASSUME IInv, [Next]_vars
  PROVE  SnapChange
<1>1. /\ TypeOK /\ SvcWorker \in Workers /\ SvcWorker \notin NodeSyncs
      /\ S = wk[SvcWorker] /\ S' = wk'[SvcWorker]
      /\ \A w \in Workers : w = SvcWorker \/ w \in NodeSyncs
  BY ConstantsAssumption DEF IInv, Workers, S
<1>2. ASSUME S' = S PROVE SnapChange
  BY <1>2 DEF SnapChange
<1>3. ASSUME S.pc # "idle", GoesOn(SvcWorker) PROVE SnapChange
  BY <1>1, <1>3, IdleFacts DEF SnapChange, GoesOn
<1>4. CASE Step(SvcWorker)
  <2>1. S.pc # "idle"
    BY <1>1, <1>4 DEF Step, FetchRefused, FetchByID, FetchByName, AnnotateFound, CreateLB,
          AnnotateNew, Unannotate, DeleteLB, Configure, Cleanup, RemoveFinalizer
  <2>2. GoesOn(SvcWorker)
    <3>1. CASE \/ FetchRefused(SvcWorker) \/ FetchByID(SvcWorker) \/ FetchByName(SvcWorker)
      BY <1>1, <3>1, CallGoesOn DEF FetchRefused, FetchByID, FetchByName
    <3>2. CASE AnnotateFound(SvcWorker) \/ AnnotateNew(SvcWorker) \/ Unannotate(SvcWorker)
      BY <1>1, <3>2, CallGoesOn DEF AnnotateFound, AnnotateNew, Unannotate
    <3>3. CASE CreateLB(SvcWorker)
      BY <1>1, <3>3, CallGoesOn DEF CreateLB
    <3>4. CASE DeleteLB(SvcWorker)
      BY <1>1, <3>4, CallGoesOn DEF DeleteLB
    <3>5. CASE Configure(SvcWorker) \/ Cleanup(SvcWorker) \/ RemoveFinalizer(SvcWorker)
      BY <1>1, <3>5, CallGoesOn DEF Configure, Cleanup, RemoveFinalizer
    <3> QED BY <1>4, <3>1, <3>2, <3>3, <3>4, <3>5 DEF Step
  <2> QED BY <1>3, <2>1, <2>2
<1>5. CASE Fail(SvcWorker)
  BY <1>1, <1>3, <1>5, CallGoesOn DEF Fail
<1>6. ASSUME NEW w \in NodeSyncs, BeginNodeSync(w) \/ Step(w) \/ Fail(w) PROVE S' = S
  <2>1. w \in Workers /\ w # SvcWorker
    BY <1>1 DEF Workers
  <2>2. Others(w)
    BY <1>1, <1>6, <2>1, NodeSyncStep, StartEffect, ReturnErrorEffect DEF BeginNodeSync, Fail
  <2> QED BY <1>1, <2>1, <2>2 DEF Others
<1>7. CASE BeginSync
  <2>1. Start(SvcWorker, IF cache.deleting THEN "get" ELSE "ensure")
    BY <1>7 DEF BeginSync
  <2>2. /\ S'.pc = "fetch" /\ S'.snap = cache
        /\ S'.op = IF cache.deleting THEN "get" ELSE "ensure"
    BY <1>1, <2>1 DEF Start, TypeOK, Worker
  <2> QED BY <1>7, <2>2 DEF BeginSync, SnapChange
<1>8. CASE Crash
  BY <1>1, <1>8, IdleFacts DEF Crash, SnapChange
<1>9. CASE Deliver \/ EditService \/ DeleteService
  <2>1. Deliver => wk' = wk
    BY DEF Deliver
  <2>2. EditService => wk' = wk
    BY DEF EditService
  <2>3. DeleteService => wk' = wk
    BY DEF DeleteService
  <2> QED BY <1>1, <1>2, <1>9, <2>1, <2>2, <2>3
<1>10. ASSUME NEW l \in AllLBs, BecomeReady(l) \/ ConsoleDelete(l) \/ ConsoleRename(l)
       PROVE  S' = S
  BY <1>1, <1>10 DEF BecomeReady, ConsoleDelete, ConsoleRename
<1>11. CASE UNCHANGED vars
  BY <1>1, <1>2, <1>11 DEF vars
<1>12. ~BeginNodeSync(SvcWorker)
  BY <1>1 DEF BeginNodeSync
<1> QED
  BY <1>1, <1>2, <1>4, <1>5, <1>6, <1>7, <1>8, <1>9, <1>10, <1>11, <1>12 DEF Next

-----------------------------------------------------------------------------
(***************************************************************************)
(* What a step does to the LBs.                                            *)
(***************************************************************************)
LBChange ==
  \/ UNCHANGED <<lbs, released>>
  \/ CreateLB(SvcWorker)
  \/ DeleteLB(SvcWorker)
  \/ \E l \in AllLBs : BecomeReady(l) \/ ConsoleDelete(l) \/ ConsoleRename(l)

\* Of the workers, only the service worker changes LBs.
LEMMA LBStep ==
  ASSUME IInv, [Next]_vars
  PROVE  LBChange
<1> USE DEF ipHist
<1>1. CASE BeginSync \/ Crash \/ Deliver \/ DeleteService
  BY <1>1 DEF BeginSync, Crash, Deliver, DeleteService, LBChange
<1>2. CASE EditService
  BY <1>2 DEF EditService, LBChange
<1>3. ASSUME NEW w \in Workers, BeginNodeSync(w) \/ Fail(w) PROVE LBChange
  BY <1>3 DEF BeginNodeSync, Fail, LBChange
<1>4. ASSUME NEW w \in Workers, Step(w) PROVE LBChange
  <2>1. CASE w = SvcWorker
    BY <1>4, <2>1 DEF Step, FetchRefused, FetchByID, FetchByName, AnnotateFound, AnnotateNew,
       Unannotate, Configure, Cleanup, RemoveFinalizer, LBChange
  <2>2. CASE w # SvcWorker
    <3>1. w \in NodeSyncs /\ wk[w].pc \notin {"create", "deleteLB"}
      BY <2>2 DEF Workers, IInv, NodeSyncInv
    <3>2. ~CreateLB(w) /\ ~DeleteLB(w)
      BY <3>1 DEF CreateLB, DeleteLB
    <3> QED
      BY <1>4, <3>2 DEF Step, FetchRefused, FetchByID, FetchByName, AnnotateFound,
         AnnotateNew, Unannotate, Configure, Cleanup, RemoveFinalizer, LBChange
  <2> QED BY <2>1, <2>2
<1>5. CASE \E l \in AllLBs : BecomeReady(l) \/ ConsoleDelete(l) \/ ConsoleRename(l)
  BY <1>5 DEF LBChange
<1>6. CASE UNCHANGED vars
  BY <1>6 DEF vars, LBChange
<1> QED BY <1>1, <1>2, <1>3, <1>4, <1>5, <1>6 DEF Next

-----------------------------------------------------------------------------
(***************************************************************************)
(* The IPs.  An IP that an older version of the Service asked for, and a   *)
(* later one does not, has been dropped.                                   *)
(***************************************************************************)
Since(x, v, d) == x \in StaticIPs => v.ip = x \/ x \in d

\* Since holds of x and every version that a worker may still get.
AfterAll(x, c, q, s, d) ==
  Since(x, c, d) /\ Since(x, s, d) /\ \A i \in DOMAIN q : Since(x, q[i], d)

VersionsInv ==
  /\ AfterAll(cache.ip, cache, watch, svc, dropped)
  /\ \A i \in DOMAIN watch :
       /\ Since(watch[i].ip, svc, dropped)
       /\ \A j \in DOMAIN watch : i <= j => Since(watch[i].ip, watch[j], dropped)

SnapInv == S.pc # "idle" => AfterAll(S.snap.ip, cache, watch, svc, dropped)

LBsInv ==
  \A l \in Live : /\ AfterAll(lbs[l].ip, cache, watch, svc, dropped)
                  /\ S.pc # "idle" => Since(lbs[l].ip, S.snap, dropped)

IPInv == VersionsInv /\ SnapInv /\ LBsInv /\ released \subseteq dropped

\* The versions change in order, so what holds of all of them keeps holding.
LEMMA SinceStep ==
  ASSUME TypeOK, VersionChange
  PROVE  /\ dropped \subseteq dropped'
         /\ \A x, v : Since(x, v, dropped) => Since(x, v, dropped')
         /\ \A x : AfterAll(x, cache, watch, svc, dropped)
                   => AfterAll(x, cache', watch', svc', dropped')
<1>1. dropped \subseteq dropped'
  BY DEF VersionChange, Quiet, Written, Delivered, Restarted
<1>2. \A x, v : Since(x, v, dropped) => Since(x, v, dropped')
  BY <1>1 DEF Since
<1>3. ASSUME NEW x, AfterAll(x, cache, watch, svc, dropped)
      PROVE  AfterAll(x, cache', watch', svc', dropped')
  <2>1. CASE Quiet
    BY <1>3, <2>1 DEF Quiet
  <2>2. CASE Written
    <3>1. Since(x, svc', dropped')
      BY <1>3, <2>2 DEF Written, AfterAll, Since
    <3>2. \A i \in DOMAIN watch' : \/ i \in DOMAIN watch /\ watch'[i] = watch[i]
                                   \/ watch'[i] = svc'
      BY <2>2 DEF Written, TypeOK
    <3>3. cache' = cache
      BY <2>2 DEF Written
    <3> QED BY <1>2, <1>3, <3>1, <3>2, <3>3 DEF AfterAll
  <2>3. CASE Delivered
    <3>1. /\ 1 \in DOMAIN watch
          /\ \A i \in DOMAIN watch' : i + 1 \in DOMAIN watch /\ watch'[i] = watch[i + 1]
      BY <2>3 DEF Delivered, TypeOK
    <3>2. cache' = watch[1] /\ svc' = svc /\ dropped' = dropped
      BY <2>3 DEF Delivered
    <3> QED BY <1>3, <3>1, <3>2 DEF AfterAll
  <2>4. CASE Restarted
    <3>1. cache' = svc /\ svc' = svc /\ dropped' = dropped /\ DOMAIN watch' = {}
      BY <2>4 DEF Restarted
    <3> QED BY <1>3, <3>1 DEF AfterAll
  <2> QED BY <2>1, <2>2, <2>3, <2>4 DEF VersionChange
<1> QED BY <1>1, <1>2, <1>3

\* The versions stay in order.
LEMMA VersionsNext ==
  ASSUME TypeOK, VersionsInv, VersionChange
  PROVE  VersionsInv'
<1>1. CASE Quiet
  BY <1>1 DEF Quiet, VersionsInv
<1>2. CASE Written
  <2>1. /\ \A i \in DOMAIN watch' : \/ i \in DOMAIN watch /\ watch'[i] = watch[i]
                                    \/ i = Len(watch) + 1 /\ watch'[i] = svc'
        /\ \A i \in DOMAIN watch : i \in Nat /\ i <= Len(watch)
    BY <1>2 DEF Written, TypeOK
  <2>2. AfterAll(cache'.ip, cache', watch', svc', dropped')
    BY <1>2, SinceStep DEF VersionsInv, Written
  <2>3. \A i \in DOMAIN watch : Since(watch[i].ip, svc', dropped')
    BY <1>2 DEF Written, VersionsInv, Since
  <2>4. \A i \in DOMAIN watch' :
          /\ Since(watch'[i].ip, svc', dropped')
          /\ \A j \in DOMAIN watch' : i <= j => Since(watch'[i].ip, watch'[j], dropped')
    <3> TAKE i \in DOMAIN watch'
    <3>1. CASE i \in DOMAIN watch /\ watch'[i] = watch[i]
      <4>1. Since(watch[i].ip, svc', dropped')
        BY <2>3, <3>1
      <4>2. ASSUME NEW j \in DOMAIN watch', i <= j
            PROVE  Since(watch'[i].ip, watch'[j], dropped')
        <5>1. CASE j \in DOMAIN watch /\ watch'[j] = watch[j]
          BY <3>1, <4>2, <5>1, SinceStep DEF VersionsInv, VersionChange
        <5>2. CASE watch'[j] = svc'
          BY <3>1, <4>1, <5>2
        <5> QED BY <2>1, <5>1, <5>2
      <4> QED BY <3>1, <4>1, <4>2
    <3>2. CASE i = Len(watch) + 1 /\ watch'[i] = svc'
      <4>1. ASSUME NEW j \in DOMAIN watch', i <= j PROVE watch'[j] = svc'
        BY <2>1, <3>2, <4>1 DEF TypeOK
      <4> QED BY <3>2, <4>1 DEF Since
    <3> QED BY <2>1, <3>1, <3>2
  <2> QED BY <2>2, <2>4 DEF VersionsInv
<1>3. CASE Delivered
  <2>1. /\ 1 \in DOMAIN watch
        /\ \A i \in DOMAIN watch' : /\ i \in Nat /\ i + 1 \in DOMAIN watch
                                    /\ watch'[i] = watch[i + 1] /\ 1 <= i + 1
        /\ \A i, j \in DOMAIN watch' : i <= j => i + 1 <= j + 1
    BY <1>3 DEF Delivered, TypeOK
  <2>2. cache' = watch[1] /\ svc' = svc /\ dropped' = dropped
    BY <1>3 DEF Delivered
  <2>3. Since(watch[1].ip, watch[1], dropped)
    BY DEF Since
  <2>4. AfterAll(cache'.ip, cache', watch', svc', dropped')
    BY <2>1, <2>2, <2>3 DEF VersionsInv, AfterAll
  <2>5. \A i \in DOMAIN watch' :
          /\ Since(watch'[i].ip, svc', dropped')
          /\ \A j \in DOMAIN watch' : i <= j => Since(watch'[i].ip, watch'[j], dropped')
    BY <2>1, <2>2 DEF VersionsInv
  <2> QED BY <2>4, <2>5 DEF VersionsInv
<1>4. CASE Restarted
  <2>1. cache' = svc /\ svc' = svc /\ dropped' = dropped /\ DOMAIN watch' = {}
    BY <1>4 DEF Restarted
  <2> QED BY <2>1 DEF VersionsInv, AfterAll, Since
<1> QED BY <1>1, <1>2, <1>3, <1>4 DEF VersionChange

\* What the service worker holds is older than every version to come.
LEMMA SnapInvNext ==
  ASSUME IInv, VersionsInv, SnapInv, [Next]_vars
  PROVE  SnapInv'
<1>1. TypeOK /\ VersionChange /\ SnapChange
  BY VersionStep, SnapStep DEF IInv
<1>2. CASE S'.pc = "idle"
  BY <1>2 DEF SnapInv
<1>3. CASE S.pc # "idle" /\ S'.snap = S.snap
  BY <1>1, <1>3, SinceStep DEF SnapInv
<1>4. CASE S'.snap = cache
  BY <1>1, <1>4, SinceStep DEF SnapInv, VersionsInv
<1> QED BY <1>1, <1>2, <1>3, <1>4 DEF SnapChange

\* An LB may have the IP x after the step.
Fits(x) == /\ AfterAll(x, cache', watch', svc', dropped')
           /\ S'.pc # "idle" => Since(x, S'.snap, dropped')

\* So are the IPs of the LBs, which were asked for when the LB was created.
LEMMA LBsInvNext ==
  ASSUME IInv, IPInv, [Next]_vars
  PROVE  LBsInv' /\ released' \subseteq dropped'
<1>1. TypeOK /\ VersionChange /\ SnapChange /\ LBChange /\ dropped \subseteq dropped'
  BY VersionStep, SnapStep, LBStep, SinceStep DEF IInv
<1>2. \A x : AfterAll(x, cache, watch, svc, dropped)
            /\ (S.pc # "idle" => Since(x, S.snap, dropped))
            => Fits(x)
  <2> SUFFICES ASSUME NEW x, AfterAll(x, cache, watch, svc, dropped),
                      S.pc # "idle" => Since(x, S.snap, dropped)
               PROVE  Fits(x)
    OBVIOUS
  <2> USE DEF Fits
  <2>1. AfterAll(x, cache', watch', svc', dropped')
    BY <1>1, SinceStep
  <2>2. CASE S'.pc = "idle"
    BY <2>1, <2>2
  <2>3. CASE S.pc # "idle" /\ S'.snap = S.snap
    BY <1>1, <2>1, <2>3, SinceStep
  <2>4. CASE S'.snap = cache
    BY <1>1, <2>1, <2>4, SinceStep DEF AfterAll
  <2> QED BY <1>1, <2>2, <2>3, <2>4 DEF SnapChange
<1>3. \A l \in Live : Fits(lbs[l].ip)
  BY <1>2 DEF IPInv, LBsInv
<1>4. ASSUME \A l \in AllLBs : lbs'[l].state = "live" =>
                \/ l \in Live /\ lbs'[l].ip = lbs[l].ip
                \/ Fits(lbs'[l].ip)
      PROVE  LBsInv'
  <2>1. \A l \in AllLBs : lbs'[l].state = "live" => Fits(lbs'[l].ip)
    BY <1>3, <1>4
  <2> QED BY <2>1 DEF LBsInv, Live, Fits
<1>5. CASE UNCHANGED <<lbs, released>>
  BY <1>1, <1>4, <1>5 DEF Live, IPInv
<1>6. CASE CreateLB(SvcWorker)
  <2>1. S.pc = "create" /\ released' = released
    BY <1>6 DEF CreateLB, ipHist, S
  <2>2. Fits(CreatedIP(S.snap))
    <3>1. CASE CreatedIP(S.snap) \in StaticIPs
      <4>1. CreatedIP(S.snap) = S.snap.ip
        BY <3>1, ConstantsAssumption DEF CreatedIP
      <4>2. Since(S.snap.ip, S.snap, dropped)
        BY DEF Since
      <4> QED BY <1>2, <2>1, <4>1, <4>2 DEF IPInv, SnapInv
    <3>2. CASE CreatedIP(S.snap) \notin StaticIPs
      BY <3>2 DEF Fits, AfterAll, Since
    <3> QED BY <3>1, <3>2
  <2>3. CASE UNCHANGED lbs
    BY <1>1, <1>5, <2>1, <2>3
  <2>4. CASE ~UNCHANGED lbs
    <3>1. PICK l \in LBIds : lbs' = [lbs EXCEPT ![l] = [state |-> "live", name |-> "own",
                                        ip |-> CreatedIP(S.snap), ready |-> FALSE]]
      BY <1>6, <2>4 DEF CreateLB, S
    <3>2. /\ lbs'[l].ip = CreatedIP(S.snap)
          /\ \A m \in AllLBs : m # l => lbs'[m] = lbs[m]
      BY <1>1, <3>1 DEF TypeOK, AllLBs
    <3> QED BY <1>1, <1>4, <2>1, <2>2, <3>2 DEF Live, IPInv
  <2> QED BY <2>3, <2>4
<1>7. CASE DeleteLB(SvcWorker)
  <2>1. S.pc = "deleteLB"
    BY <1>7 DEF DeleteLB, S
  <2>2. CASE S.lb.id \in Live
    <3>1. /\ lbs' = [lbs EXCEPT ![S.lb.id] = Dead("deleted")]
          /\ released' = IF ReleasesIP(S.snap)
                           THEN released \cup ({lbs[S.lb.id].ip} \cap StaticIPs)
                           ELSE released
      BY <1>7, <2>2 DEF DeleteLB, S
    <3>2. \A l \in AllLBs : lbs'[l].state = "live" => lbs'[l] = lbs[l] /\ l \in Live
      BY <1>1, <3>1 DEF TypeOK, Dead, Live
    <3>3. Since(lbs[S.lb.id].ip, S.snap, dropped)
      BY <2>1, <2>2 DEF IPInv, LBsInv
    <3>4. ReleasesIP(S.snap) => S.snap.ip \notin StaticIPs
      BY ConstantsAssumption DEF ReleasesIP, hasLoadBalancerStaticIPs
    <3>5. released' \subseteq dropped'
      BY <1>1, <3>1, <3>3, <3>4 DEF Since, IPInv
    <3> QED BY <1>4, <3>2, <3>5
  <2>3. CASE S.lb.id \notin Live
    <3>1. UNCHANGED <<lbs, released>>
      BY <1>7, <2>3 DEF DeleteLB, S
    <3> QED BY <1>5, <3>1
  <2> QED BY <2>2, <2>3
<1>8. ASSUME NEW l \in AllLBs, BecomeReady(l) \/ ConsoleDelete(l) \/ ConsoleRename(l)
      PROVE  LBsInv' /\ released' \subseteq dropped'
  <2>1. released' = released
    BY <1>8 DEF BecomeReady, ConsoleDelete, ConsoleRename, ipHist
  <2>2. \A m \in AllLBs : lbs'[m].state = "live" => m \in Live /\ lbs'[m].ip = lbs[m].ip
    <3> TAKE m \in AllLBs
    <3>1. CASE m # l
      BY <1>1, <1>8, <3>1 DEF BecomeReady, ConsoleDelete, ConsoleRename, TypeOK, Live
    <3>2. CASE m = l
      BY <1>1, <1>8, <3>2
         DEF BecomeReady, ConsoleDelete, ConsoleRename, Dead, TypeOK, Live, LB, Own
    <3> QED BY <3>1, <3>2
  <2> QED BY <1>1, <1>4, <2>1, <2>2 DEF IPInv
<1> QED BY <1>1, <1>5, <1>6, <1>7, <1>8 DEF LBChange

\* The invariant holds at the start, when no LB has a reserved IP.
LEMMA IPInit == Init => IPInv
<1> SUFFICES ASSUME Init PROVE IPInv
  OBVIOUS
<1>1. cache = svc /\ DOMAIN watch = {} /\ released = {}
  BY DEF Init
<1>2. \A l \in Live : lbs[l].ip = Flexible
  BY DEF Init, Live, AllLBs
<1>3. S.pc = "idle"
  BY IdleFacts DEF Init, S, Workers
<1> QED
  BY <1>1, <1>2, <1>3, ConstantsAssumption
     DEF IPInv, VersionsInv, SnapInv, LBsInv, AfterAll, Since

\* DeleteLB releases a reserved IP only once the user has taken it out of the
\* Service, however old the Service is that the worker has in hands.
THEOREM ReservedIPsKept == Spec => []ReleasedOnlyIfDropped
<1>1. IInv /\ IPInv /\ [Next]_vars => IPInv'
  <2> SUFFICES ASSUME IInv, IPInv, [Next]_vars PROVE IPInv'
    OBVIOUS
  <2>1. VersionsInv'
    BY VersionStep, VersionsNext DEF IInv, IPInv
  <2>2. SnapInv'
    BY SnapInvNext DEF IPInv
  <2> QED BY <2>1, <2>2, LBsInvNext DEF IPInv
<1>2. IPInv => ReleasedOnlyIfDropped
  BY DEF IPInv, ReleasedOnlyIfDropped
<1> QED BY <1>1, <1>2, IPInit, IInvInit, IInvNext, PTL DEF Spec

-----------------------------------------------------------------------------
(***************************************************************************)
(* Which LB the service worker holds when it may annotate or delete it.    *)
(***************************************************************************)
Holding == {"annotate", "annotateNew", "unannotate", "deleteLB"}

HandsChange ==
  \/ S'.pc \notin Holding
  \/ S' = S
  \/ /\ S.pc # "idle" /\ S'.snap = S.snap /\ S'.op = S.op
     /\ \/ S'.pc = "annotate" /\ \E l \in Own : S'.lb = CopyOf(l)
        \/ S'.pc = "annotateNew" /\ S'.lb.ip = CreatedIP(S.snap)
        \/ /\ S'.pc = "unannotate" /\ (S'.op = "ensure" => NeedsRecreate(S.snap, S'.lb))
           /\ \/ S.pc \in Holding /\ S'.lb = S.lb
              \/ \E l \in Live : S'.lb = CopyOf(l)
        \/ S.pc = "unannotate" /\ S'.pc = "deleteLB" /\ S'.lb = S.lb

\* A worker that moves on keeps its argument.
LEMMA MovesOn ==
  ASSUME TypeOK, NEW w \in Workers
  PROVE  /\ \A pc : Goto(w, pc) => wk'[w].snap = wk[w].snap
         /\ \A pc, lb : GotoWith(w, pc, lb) => wk'[w].snap = wk[w].snap
BY DEF Goto, GotoWith, TypeOK, Worker

\* Where fetchLoadBalancer's answer takes the service worker.
LEMMA FoundHands ==
  ASSUME TypeOK, NEW lb, Found(SvcWorker, lb)
  PROVE  \/ S'.pc \notin Holding
         \/ /\ S'.snap = S.snap /\ S'.op = S.op /\ S'.lb = lb /\ S'.pc = "unannotate"
            /\ S'.op = "ensure" => NeedsRecreate(S.snap, lb)
<1>1. SvcWorker \in Workers /\ S = wk[SvcWorker] /\ S' = wk'[SvcWorker]
      /\ S \in Worker
  BY DEF Workers, S, TypeOK
<1>2. ASSUME NEW pc, GotoWith(SvcWorker, pc, lb)
      PROVE  /\ S'.snap = S.snap /\ S'.op = S.op /\ S'.lb = lb /\ S'.pc = pc
  BY <1>1, <1>2, MovesOn, GotoWithEffect
<1>3. ASSUME ReturnError(SvcWorker) PROVE S'.pc \notin Holding
  BY <1>1, <1>3, ReturnErrorEffect, IdleFacts DEF Holding
<1>4. ASSUME wk' = [wk EXCEPT ![SvcWorker].pc = "fetch", ![SvcWorker].op = "delete"]
      PROVE  S'.pc \notin Holding
  BY <1>1, <1>4 DEF TypeOK, Worker, Holding
<1> QED BY <1>1, <1>2, <1>3, <1>4 DEF Found, Holding

\* Every other step leaves it without an LB, or as it is.
LEMMA HandsStep ==
  ASSUME IInv, [Next]_vars
  PROVE  HandsChange
<1>1. /\ TypeOK /\ SvcWorker \in Workers /\ SvcWorker \notin NodeSyncs
      /\ S = wk[SvcWorker] /\ S' = wk'[SvcWorker] /\ S \in Worker
      /\ \A w \in Workers : w = SvcWorker \/ w \in NodeSyncs
  BY ConstantsAssumption DEF IInv, Workers, S, TypeOK
<1>2. ASSUME ReturnError(SvcWorker) \/ ReturnOK(SvcWorker) PROVE S'.pc \notin Holding
  BY <1>1, <1>2, ReturnErrorEffect, ReturnEffect, IdleFacts DEF ReturnOK, Holding
<1>3. ASSUME NotFound(SvcWorker) \/ AfterDelete(SvcWorker) PROVE S'.pc \notin Holding
  BY <1>1, <1>3, NotFoundEffect, AfterDeleteEffect, IdleFacts DEF Holding
<1>4. CASE FetchRefused(SvcWorker) \/ Configure(SvcWorker) \/ RemoveFinalizer(SvcWorker)
           \/ Fail(SvcWorker)
  BY <1>2, <1>4 DEF FetchRefused, Configure, RemoveFinalizer, Fail, HandsChange
<1>5. CASE FetchByID(SvcWorker)
  <2>1. S.pc # "idle"
    BY <1>1, <1>5 DEF FetchByID
  <2>2. ASSUME S.snap.anno \in Live, Found(SvcWorker, CopyOf(S.snap.anno)) PROVE HandsChange
    BY <1>1, <2>1, <2>2, FoundHands DEF HandsChange
  <2> QED BY <1>1, <1>2, <1>3, <1>5, <2>2 DEF FetchByID, HandsChange
<1>6. CASE FetchByName(SvcWorker)
  <2>1. S.pc # "idle"
    BY <1>1, <1>6 DEF FetchByName
  <2>2. ASSUME NEW l \in Own, GotoWith(SvcWorker, "annotate", CopyOf(l)) PROVE HandsChange
    <3>1. S'.pc = "annotate" /\ S'.lb = CopyOf(l) /\ S'.op = S.op /\ S'.snap = S.snap
      BY <1>1, <2>2, MovesOn, GotoWithEffect
    <3> QED BY <2>1, <3>1 DEF HandsChange
  <2> QED BY <1>2, <1>3, <1>6, <2>2 DEF FetchByName, ListedByName, HandsChange
<1>7. CASE AnnotateFound(SvcWorker) \/ AnnotateNew(SvcWorker)
  <2>1. S.pc \in Holding /\ S.pc # "idle"
    BY <1>1, <1>7 DEF AnnotateFound, AnnotateNew, Holding
  <2>2. ASSUME Found(SvcWorker, S.lb) PROVE HandsChange
    BY <2>1, <2>2, <1>1, FoundHands DEF HandsChange
  <2> QED BY <1>1, <1>2, <1>7, <2>2 DEF AnnotateFound, AnnotateNew, HandsChange
<1>8. CASE CreateLB(SvcWorker)
  <2>1. S.pc # "idle"
    BY <1>1, <1>8 DEF CreateLB
  <2>2. ASSUME NEW l \in LBIds,
               GotoWith(SvcWorker, "annotateNew", [id |-> l, name |-> "own",
                                    ip |-> CreatedIP(S.snap), ready |-> FALSE])
        PROVE HandsChange
    <3>1. /\ S'.pc = "annotateNew" /\ S'.lb.ip = CreatedIP(S.snap)
          /\ S'.op = S.op /\ S'.snap = S.snap
      BY <1>1, <2>2, MovesOn, GotoWithEffect
    <3> QED BY <2>1, <3>1 DEF HandsChange
  <2> QED BY <1>1, <1>2, <1>8, <2>2 DEF CreateLB, HandsChange
<1>9. CASE Unannotate(SvcWorker)
  <2>1. S.pc = "unannotate"
    BY <1>1, <1>9 DEF Unannotate
  <2>2. ASSUME Goto(SvcWorker, "deleteLB") PROVE HandsChange
    <3>1. S'.pc = "deleteLB" /\ S'.lb = S.lb /\ S'.op = S.op /\ S'.snap = S.snap
      BY <1>1, <2>2, MovesOn, GotoEffect
    <3> QED BY <2>1, <3>1 DEF HandsChange
  <2> QED BY <1>2, <1>3, <1>9, <2>2 DEF Unannotate, HandsChange
<1>10. CASE DeleteLB(SvcWorker)
  BY <1>2, <1>3, <1>10 DEF DeleteLB, HandsChange
<1>11. CASE Cleanup(SvcWorker)
  <2>1. ASSUME Goto(SvcWorker, "finalize") PROVE HandsChange
    BY <1>1, <2>1, GotoEffect DEF HandsChange, Holding
  <2> QED BY <1>2, <1>11, <2>1 DEF Cleanup, HandsChange
<1>12. ASSUME NEW w \in NodeSyncs, BeginNodeSync(w) \/ Step(w) \/ Fail(w) PROVE S' = S
  <2>1. w \in Workers /\ w # SvcWorker
    BY <1>1 DEF Workers
  <2>2. Others(w)
    BY <1>1, <1>12, <2>1, NodeSyncStep, StartEffect, ReturnErrorEffect DEF BeginNodeSync, Fail
  <2> QED BY <1>1, <2>1, <2>2 DEF Others
<1>13. CASE BeginSync \/ Crash
  <2>1. BeginSync => S'.pc = "fetch"
    BY <1>1, StartEffect DEF BeginSync
  <2>2. Crash => S'.pc = "idle"
    BY <1>1, IdleFacts DEF Crash
  <2> QED BY <1>13, <2>1, <2>2 DEF HandsChange, Holding
<1>14. ASSUME wk' = wk PROVE HandsChange
  BY <1>1, <1>14 DEF HandsChange
<1>15. CASE Deliver \/ EditService \/ DeleteService \/ UNCHANGED vars
  <2>1. EditService => wk' = wk
    BY DEF EditService
  <2>2. Deliver \/ DeleteService \/ UNCHANGED vars => wk' = wk
    BY DEF Deliver, DeleteService, vars
  <2> QED BY <1>14, <1>15, <2>1, <2>2
<1>16. ASSUME NEW l \in AllLBs, BecomeReady(l) \/ ConsoleDelete(l) \/ ConsoleRename(l)
       PROVE  HandsChange
  BY <1>14, <1>16 DEF BecomeReady, ConsoleDelete, ConsoleRename
<1>17. ~BeginNodeSync(SvcWorker)
  BY <1>1 DEF BeginNodeSync
<1>18. CASE Step(SvcWorker)
  BY <1>4, <1>5, <1>6, <1>7, <1>8, <1>9, <1>10, <1>11, <1>18 DEF Step
<1>19. ASSUME S' = S PROVE HandsChange
  BY <1>19 DEF HandsChange
<1> QED
  BY <1>1, <1>4, <1>12, <1>13, <1>15, <1>16, <1>17, <1>18, <1>19 DEF Next

-----------------------------------------------------------------------------
(***************************************************************************)
(* Without a user's edit, every version of the Service asks for the same   *)
(* LB, and the LB it created is the one it asks for.                       *)
(***************************************************************************)
\* EnsureLoadBalancer went on with the Service.
CallInv == S.pc # "idle" /\ S.op = "ensure" => ~EnsureRefused(S.snap)

WishInv ==
  edits = 0 =>
    /\ SameWish(cache, svc)
    /\ \A i \in DOMAIN watch : SameWish(watch[i], svc)
    /\ S.pc # "idle" => SameWish(S.snap, svc)

\* The one LB that was created fits the Service until it is deleted with it.
CreatedInv ==
  /\ \A l, m \in LBIds : lbs[l].state # "unborn" /\ lbs[m].state # "unborn" => l = m
  /\ \A l \in LBIds :
       /\ lbs[l].state \in {"unborn", "live", "deleted"}
       /\ lbs[l].state = "live" => lbs[l].name = "own" /\ lbs[l].ip = CreatedIP(svc)
       /\ lbs[l].state = "deleted" => cache.deleting /\ (S.pc # "idle" => S.op # "ensure")

\* So does the copy that the service worker holds, which is why it neither
\* recreates the LB nor deletes it before the Service is deleted.
HeldInv ==
  S.pc \in Holding /\ S.lb.name = "own" =>
    /\ S.lb.ip = CreatedIP(S.snap)
    /\ S.pc \in {"unannotate", "deleteLB"} => S.op # "ensure"

ChurnInv == CallInv /\ WishInv /\ (edits = 0 /\ ~missed => CreatedInv /\ HeldInv)

\* An LB created for a Service needs not be recreated for it.
LEMMA CreatedFits ==
  ASSUME NEW s \in Service, NEW lb, ~EnsureRefused(s), lb.ip = CreatedIP(s)
  PROVE  ~NeedsRecreate(s, lb)
BY ConstantsAssumption
   DEF Service, EnsureRefused, CreatedIP, NeedsRecreate, privateModeMismatch,
       reservedIPMismatch, hasLoadBalancerStaticIPs, hasEqualLoadBalancerStaticIPs

\* The wish alone decides the IP of the LB.
LEMMA WishDecides ==
  ASSUME NEW a, NEW b, SameWish(a, b)
  PROVE  CreatedIP(a) = CreatedIP(b) /\ SameWish(b, a) /\ \A c : SameWish(b, c) => SameWish(a, c)
BY DEF SameWish, CreatedIP, hasLoadBalancerStaticIPs

\* The history goes one way, and what users do to LBs is counted.
LEMMA HistoryStep ==
  ASSUME TypeOK, [Next]_vars
  PROVE  /\ edits' = 0 => edits = 0
         /\ missed => missed'
         /\ edits' = 0 => \A l \in AllLBs : ~ConsoleDelete(l) /\ ~ConsoleRename(l)
<1> USE DEF budgets
<1>1. UserDoes => edits' # 0
  BY DEF UserDoes, TypeOK
<1>2. \A l \in AllLBs : ConsoleDelete(l) \/ ConsoleRename(l) => UserDoes
  BY DEF ConsoleDelete, ConsoleRename
<1>3. EditService => UserDoes
  BY DEF EditService
<1>4. \A w \in Workers : Step(w) => edits' = edits
  BY DEF Step, FetchRefused, FetchByID, FetchByName, AnnotateFound, CreateLB, AnnotateNew,
     Unannotate, DeleteLB, Configure, Cleanup, RemoveFinalizer
<1>5. \A w \in Workers : BeginNodeSync(w) \/ Fail(w) => edits' = edits /\ missed' = missed
  BY DEF BeginNodeSync, Fail
<1>6. BeginSync \/ Crash \/ Deliver \/ DeleteService => edits' = edits /\ missed' = missed
  BY DEF BeginSync, Crash, Deliver, DeleteService
<1>7. EditService => missed' = missed
  BY DEF EditService
<1>8. \A l \in AllLBs : /\ BecomeReady(l) => edits' = edits /\ missed' = missed
                        /\ ConsoleDelete(l) \/ ConsoleRename(l) => missed' = missed
  BY DEF BecomeReady, ConsoleDelete, ConsoleRename
<1>9. \A w \in Workers : Step(w) => (missed => missed')
  BY DEF Step, FetchRefused, FetchByID, FetchByName, AnnotateFound, CreateLB, AnnotateNew,
     Unannotate, DeleteLB, Configure, Cleanup, RemoveFinalizer, MissedOwn
<1>10. UNCHANGED vars => edits' = edits /\ missed' = missed
  BY DEF vars
<1> QED BY <1>1, <1>2, <1>3, <1>4, <1>5, <1>6, <1>7, <1>8, <1>9, <1>10 DEF Next

\* The Service never asks for another LB.
LEMMA WishNext ==
  ASSUME IInv, CallInv, WishInv, [Next]_vars
  PROVE  CallInv' /\ WishInv' /\ (edits' = 0 => SameWish(svc', svc))
<1>1. TypeOK /\ VersionChange /\ SnapChange /\ (edits' = 0 => edits = 0)
  BY VersionStep, SnapStep, HistoryStep DEF IInv
<1>2. CallInv'
  BY <1>1 DEF SnapChange, CallInv
<1>4. ASSUME edits' = 0 PROVE SameWish(svc', svc)
  BY <1>1, <1>4 DEF VersionChange, Quiet, Written, Delivered, Restarted, SameWish
<1>5. ASSUME edits' = 0
      PROVE  SameWish(cache', svc') /\ \A i \in DOMAIN watch' : SameWish(watch'[i], svc')
  <2>1. /\ SameWish(svc', svc) /\ SameWish(cache, svc)
        /\ \A i \in DOMAIN watch : SameWish(watch[i], svc)
    BY <1>1, <1>4, <1>5 DEF WishInv
  <2>2. /\ SameWish(svc', svc') /\ SameWish(cache, svc')
        /\ \A i \in DOMAIN watch : SameWish(watch[i], svc')
    BY <2>1 DEF SameWish
  <2>3. CASE Quiet
    BY <2>2, <2>3 DEF Quiet
  <2>4. CASE Written
    <3>1. \A i \in DOMAIN watch' : watch'[i] = svc' \/ (i \in DOMAIN watch /\ watch'[i] = watch[i])
      BY <1>1, <2>4 DEF Written, TypeOK
    <3> QED BY <2>2, <2>4, <3>1 DEF Written
  <2>5. CASE Delivered
    <3>1. /\ 1 \in DOMAIN watch /\ cache' = watch[1]
          /\ \A i \in DOMAIN watch' : i + 1 \in DOMAIN watch /\ watch'[i] = watch[i + 1]
      BY <1>1, <2>5 DEF Delivered, TypeOK
    <3> QED BY <2>2, <3>1
  <2>6. CASE Restarted
    <3>1. cache' = svc' /\ DOMAIN watch' = {}
      BY <2>6 DEF Restarted
    <3> QED BY <2>2, <3>1
  <2> QED BY <1>1, <2>3, <2>4, <2>5, <2>6 DEF VersionChange
<1>6. ASSUME edits' = 0, S'.pc # "idle" PROVE SameWish(S'.snap, svc')
  <2>1. SameWish(svc', svc) /\ SameWish(cache, svc)
    BY <1>1, <1>4, <1>6 DEF WishInv
  <2>2. CASE S.pc # "idle" /\ S'.snap = S.snap
    BY <1>1, <1>6, <2>1, <2>2 DEF WishInv, SameWish
  <2>3. CASE S'.snap = cache
    BY <2>1, <2>3 DEF SameWish
  <2> QED BY <1>1, <1>6, <2>2, <2>3 DEF SnapChange
<1> QED BY <1>2, <1>4, <1>5, <1>6 DEF WishInv

\* What the service worker holds fits the Service.
LEMMA HeldNext ==
  ASSUME IInv, ForeignInv, ChurnInv, [Next]_vars, edits = 0, ~missed
  PROVE  HeldInv'
<1>1. TypeOK /\ HandsChange /\ CreatedInv /\ HeldInv /\ CallInv
  BY HandsStep DEF IInv, ChurnInv
<1>2. CASE S'.pc \notin Holding
  BY <1>2 DEF HeldInv
<1>3. CASE S' = S
  BY <1>1, <1>3 DEF HeldInv
<1>4. CASE S.pc # "idle" /\ S'.snap = S.snap /\ S'.op = S.op
  <2>1. CreatedIP(S.snap) = CreatedIP(svc) /\ S.snap \in Service
    BY <1>1, <1>4, WishDecides DEF ChurnInv, WishInv, TypeOK, S, Workers, Worker
  <2>2. ASSUME NEW l \in Live, S'.lb = CopyOf(l), S'.lb.name = "own"
        PROVE  S'.lb.ip = CreatedIP(S.snap)
    <3>1. lbs[l].name = "own" /\ S'.lb.ip = lbs[l].ip
      BY <2>2 DEF CopyOf
    <3>2. l \in LBIds /\ lbs[l].state = "live"
      BY <3>1 DEF ForeignInv, Live, AllLBs
    <3> QED BY <1>1, <2>1, <3>1, <3>2 DEF CreatedInv
  <2>3. CASE S'.pc = "annotate" /\ \E l \in Own : S'.lb = CopyOf(l)
    BY <1>4, <2>2, <2>3 DEF HeldInv, Own
  <2>4. CASE S'.pc = "annotateNew" /\ S'.lb.ip = CreatedIP(S.snap)
    BY <1>4, <2>4 DEF HeldInv
  <2>5. CASE /\ S'.pc = "unannotate" /\ (S'.op = "ensure" => NeedsRecreate(S.snap, S'.lb))
             /\ \/ S.pc \in Holding /\ S'.lb = S.lb
                \/ \E l \in Live : S'.lb = CopyOf(l)
    <3>1. S'.lb.name = "own" => S'.lb.ip = CreatedIP(S.snap)
      BY <1>1, <2>2, <2>5 DEF HeldInv
    <3>2. S'.lb.name = "own" => S'.op # "ensure"
      BY <1>1, <1>4, <2>1, <2>5, <3>1, CreatedFits DEF CallInv
    <3> QED BY <1>4, <3>1, <3>2 DEF HeldInv
  <2>6. CASE S.pc = "unannotate" /\ S'.pc = "deleteLB" /\ S'.lb = S.lb
    BY <1>1, <1>4, <2>6 DEF HeldInv, Holding
  <2> QED BY <1>1, <1>2, <1>3, <1>4, <2>3, <2>4, <2>5, <2>6 DEF HandsChange
<1> QED BY <1>1, <1>2, <1>3, <1>4 DEF HandsChange

\* No second LB is created, and the first is deleted with the Service only.
LEMMA CreatedNext ==
  ASSUME IInv, ChurnInv, [Next]_vars, edits' = 0, ~missed'
  PROVE  CreatedInv'
<1>1. /\ TypeOK /\ LBChange /\ SnapChange /\ CreatedInv /\ HeldInv
      /\ edits = 0 /\ ~missed /\ (cache.deleting => cache'.deleting)
  <2>1. TypeOK /\ LBChange /\ SnapChange /\ edits = 0 /\ ~missed /\ VersionChange
    BY LBStep, SnapStep, HistoryStep, VersionStep DEF IInv
  <2>2. cache.deleting => cache'.deleting
    <3>1. CASE Delivered
      <4>1. 1 \in DOMAIN watch
        BY <2>1, <3>1 DEF Delivered, TypeOK
      <4> QED BY <3>1, <4>1 DEF Delivered, IInv, WatchInv
    <3>2. CASE Restarted
      BY <3>2 DEF Restarted, IInv, WatchInv
    <3> QED BY <2>1, <3>1, <3>2 DEF VersionChange, Quiet, Written
  <2> QED BY <2>1, <2>2 DEF ChurnInv
<1>2. CreatedIP(svc') = CreatedIP(svc)
  BY WishNext, WishDecides DEF ChurnInv
<1>3. cache.deleting => (S'.pc # "idle" /\ S'.op = "ensure" => S.pc # "idle" /\ S.op = "ensure")
  BY <1>1 DEF SnapChange
<1>4. ASSUME lbs' = lbs PROVE CreatedInv'
  BY <1>1, <1>2, <1>3, <1>4 DEF CreatedInv
<1>5. CASE CreateLB(SvcWorker)
  <2>1. CASE UNCHANGED lbs
    BY <1>4, <2>1
  <2>2. CASE ~UNCHANGED lbs
    <3>1. S.pc = "create" /\ S.op = "ensure"
      BY <1>5 DEF CreateLB, S, IInv, SvcWorkerInv
    <3>2. \A l \in LBIds : lbs[l].state = "unborn"
      BY <1>1, <3>1 DEF CreatedInv, IInv, OwnInv, Own, Live, AllLBs
    <3>3. PICK l \in LBIds : lbs' = [lbs EXCEPT ![l] = [state |-> "live", name |-> "own",
                                        ip |-> CreatedIP(S.snap), ready |-> FALSE]]
      BY <1>5, <2>2 DEF CreateLB, S
    <3>4. CreatedIP(S.snap) = CreatedIP(svc)
      BY <1>1, <3>1, WishDecides DEF ChurnInv, WishInv
    <3>5. /\ lbs'[l].state = "live" /\ lbs'[l].name = "own" /\ lbs'[l].ip = CreatedIP(svc)
          /\ \A m \in LBIds : m # l => lbs'[m].state = "unborn"
      BY <1>1, <3>2, <3>3, <3>4 DEF TypeOK, AllLBs
    <3> QED BY <1>2, <3>5 DEF CreatedInv
  <2> QED BY <2>1, <2>2
<1>6. CASE DeleteLB(SvcWorker)
  <2>1. CASE S.lb.id \in Live
    <3>1. /\ S.pc = "deleteLB" /\ lbs' = [lbs EXCEPT ![S.lb.id] = Dead("deleted")]
      BY <1>6, <2>1 DEF DeleteLB, S
    <3>2. S.lb.name = "own"
      BY <3>1 DEF IInv, SvcWorkerInv
    <3>3. S.op # "ensure" /\ cache.deleting
      BY <1>1, <3>1, <3>2 DEF HeldInv, Holding, IInv, DeletionInv
    <3>4. cache'.deleting /\ (S'.pc # "idle" => S'.op # "ensure")
      BY <1>1, <1>3, <3>3
    <3>5. \A m \in LBIds :
            \/ lbs'[m] = lbs[m]
            \/ m \in Live /\ lbs'[m].state = "deleted"
      BY <1>1, <2>1, <3>1 DEF TypeOK, AllLBs, Dead
    <3>6. \A m \in LBIds : lbs'[m].state # "unborn" => lbs[m].state # "unborn"
      BY <3>5 DEF Live
    <3> QED BY <1>1, <1>2, <3>4, <3>5, <3>6 DEF CreatedInv
  <2>2. CASE S.lb.id \notin Live
    BY <1>4, <1>6, <2>2 DEF DeleteLB, S
  <2> QED BY <2>1, <2>2
<1>7. ASSUME NEW l \in AllLBs, BecomeReady(l) \/ ConsoleDelete(l) \/ ConsoleRename(l)
      PROVE  CreatedInv'
  <2>1. BecomeReady(l)
    BY <1>1, <1>7, HistoryStep
  <2>2. \A m \in LBIds : /\ lbs'[m].state = lbs[m].state /\ lbs'[m].name = lbs[m].name
                         /\ lbs'[m].ip = lbs[m].ip
    BY <1>1, <2>1 DEF BecomeReady, TypeOK, AllLBs, LB
  <2> QED BY <1>1, <1>2, <1>3, <2>2 DEF CreatedInv
<1> QED BY <1>1, <1>4, <1>5, <1>6, <1>7 DEF LBChange

\* The invariant holds at the start, when nothing has been created.
LEMMA ChurnInit == Init => ChurnInv
<1> SUFFICES ASSUME Init PROVE ChurnInv
  OBVIOUS
<1>1. cache = svc /\ DOMAIN watch = {}
  BY DEF Init
<1>2. S.pc = "idle"
  BY IdleFacts DEF Init, S, Workers
<1>3. \A l \in LBIds : lbs[l].state = "unborn"
  BY DEF Init, AllLBs
<1> QED
  BY <1>1, <1>2, <1>3 DEF ChurnInv, CallInv, WishInv, CreatedInv, HeldInv, SameWish, Holding

\* EnsureLoadBalancer is idempotent: without an edit of the Service or of its
\* LB, no crash, failure, stale copy or node sync makes the CCM create a second
\* LB, or delete the first before the Service is deleted.
THEOREM NoSecondLB == Spec => []NoChurn
<1>1. IInv /\ ForeignInv /\ ChurnInv /\ [Next]_vars => ChurnInv'
  <2> SUFFICES ASSUME IInv, ForeignInv, ChurnInv, [Next]_vars PROVE ChurnInv'
    OBVIOUS
  <2>1. CallInv' /\ WishInv'
    BY WishNext DEF ChurnInv
  <2>2. ASSUME edits' = 0, ~missed' PROVE CreatedInv' /\ HeldInv'
    <3>1. TypeOK
      BY DEF IInv
    <3>2. edits = 0 /\ ~missed
      BY <2>2, <3>1, HistoryStep
    <3> QED BY <2>2, <3>2, CreatedNext, HeldNext
  <2> QED BY <2>1, <2>2 DEF ChurnInv
<1>2. IInv /\ ChurnInv => NoChurn
  BY DEF ChurnInv, CreatedInv, NoChurn, IInv, WatchInv
<1>3. Spec => []IInv
  BY IInvInit, IInvNext, PTL DEF Spec
<1>4. IInv => TypeOK
  BY DEF IInv
<1>5. Spec => []ForeignInv
  BY <1>3, <1>4, ForeignInit, ForeignNext, PTL DEF Spec
<1> QED BY <1>1, <1>2, <1>3, <1>5, ChurnInit, PTL DEF Spec

-----------------------------------------------------------------------------
(***************************************************************************)
(* At rest.  As long as the informer is caught up and the key is not in the*)
(* queue, a call works on the Service as it is; and a call that patches the*)
(* annotation is not caught up from then on.                               *)
(***************************************************************************)
CaughtUp == watch = <<>> /\ ~queued

\* The last version on the watch is the Service.
LatestInv == svc = IF watch = <<>> THEN cache ELSE watch[Len(watch)]

\* What the service worker works on.
TakenInv ==
  /\ S.pc # "idle" /\ ~queued => S.snap = cache
  /\ S.pc # "idle" /\ S.op = "ensure" => ~S.snap.deleting
  /\ S.pc \in {"idle", "fetch", "annotate"} => ~S.recreated

\* An ID that somebody knows is the ID of an LB that has been created.
Born == {l \in AllLBs : lbs[l].state # "unborn"} \cup {NoLB}

BornInv ==
  /\ ForeignLBs \subseteq Born
  /\ svc.anno \in Born /\ cache.anno \in Born
  /\ \A i \in DOMAIN watch : watch[i].anno \in Born
  /\ \A w \in Workers : wk[w].snap.anno \in Born /\ wk[w].lb.id \in Born

\* The annotation that is about to be patched is another one.
PatchInv == S.pc \in {"annotate", "annotateNew"} => S.lb.id # S.snap.anno

\* What EnsureLoadBalancer has found fits the Service.
Fitting ==
  /\ S.lb.id = S.snap.anno /\ S.lb.id \in AllLBs
  /\ ~NeedsRecreate(S.snap, S.lb)
  /\ S.lb.id \in Live => /\ lbs[S.lb.id].ip = S.lb.ip /\ lbs[S.lb.id].ready
                         /\ ~ExternalRefused(S.snap, CopyOf(S.lb.id))

FittingInv == S.pc = "configure" => S.op = "ensure" /\ (CaughtUp => Fitting)

RestInv == LatestInv /\ TakenInv /\ BornInv /\ PatchInv /\ FittingInv /\ SettledAtRest

\* The key leaves the queue when a call begins and when the process restarts;
\* otherwise, a step after which it is not queued leaves the informer alone.
LEMMA QueueStep ==
  ASSUME TypeOK, [Next]_vars, ~queued'
  PROVE  \/ BeginSync \/ Crash
         \/ ~queued /\ cache' = cache /\ (Quiet \/ Written)
<1> USE DEF informer, budgets, ipHist
<1>1. ASSUME NEW w \in Workers, Step(w) PROVE ~queued /\ cache' = cache /\ (Quiet \/ Written)
  <2>1. Quiet \/ Written BY <1>1, StepVersions
  <2>2. cache' = cache BY <2>1 DEF Quiet, Written
  <2>3. \/ queued' = queued
        \/ queued' = (queued \/ w = SvcWorker)
    <3>1. ASSUME NEW lb, Found(w, lb)
          PROVE  queued' = queued \/ queued' = (queued \/ w = SvcWorker)
      BY <3>1 DEF Found, ReturnError
    <3>2. ASSUME NotFound(w)
          PROVE  queued' = queued \/ queued' = (queued \/ w = SvcWorker)
      BY <3>2 DEF NotFound, ReturnError
    <3>3. CASE FetchByID(w) \/ AnnotateFound(w) \/ AnnotateNew(w) \/ FetchByName(w)
      BY <3>1, <3>2, <3>3
         DEF FetchByID, AnnotateFound, AnnotateNew, FetchByName, ReturnError
    <3>4. CASE FetchRefused(w) \/ CreateLB(w) \/ Unannotate(w) \/ DeleteLB(w)
               \/ Configure(w) \/ Cleanup(w) \/ RemoveFinalizer(w)
      BY <3>4 DEF FetchRefused, CreateLB, Unannotate, DeleteLB, Configure, Cleanup,
                  RemoveFinalizer, ReturnError, ReturnOK, AfterDelete
    <3> QED BY <1>1, <3>3, <3>4 DEF Step
  <2> QED BY <2>1, <2>2, <2>3 DEF TypeOK
<1>2. ASSUME NEW w \in Workers, BeginNodeSync(w) \/ Fail(w)
      PROVE  ~queued /\ cache' = cache /\ Quiet
  BY <1>2 DEF BeginNodeSync, Fail, ReturnError, Quiet, TypeOK
<1>3. ~Deliver
  BY DEF Deliver
<1>4. CASE EditService \/ DeleteService
  <2>1. /\ EditService => UNCHANGED <<queued, cache>>
        /\ DeleteService => UNCHANGED <<queued, cache>>
    <3>1. EditService => UNCHANGED <<queued, cache>> BY DEF EditService
    <3>2. DeleteService => UNCHANGED <<queued, cache>> BY DEF DeleteService
    <3> QED BY <3>1, <3>2
  <2>2. Quiet \/ Written
    <3>1. VersionChange BY VersionStep
    <3>2. ~Delivered /\ (Restarted => Quiet)
      <4>1. watch' = watch \/ \E s : watch' = Append(watch, s)
        <5>1. \A s : WriteService(s) => watch' = watch \/ \E v : watch' = Append(watch, v)
          BY DEF WriteService
        <5>2. EditService => \E s : WriteService(s) BY DEF EditService, EditTo
        <5>3. DeleteService => \E s : WriteService(s) BY DEF DeleteService
        <5> QED BY <1>4, <5>1, <5>2, <5>3
      <4>2. Len(watch') >= Len(watch)
        BY <4>1 DEF TypeOK
      <4>3. watch \in Seq(Service) BY DEF TypeOK
      <4>4. ~Delivered BY <4>2, <4>3 DEF Delivered
      <4>5. Restarted => Quiet
        <5>1. ASSUME Restarted PROVE watch' = watch
          <6>1. Len(watch') = 0 BY <5>1 DEF Restarted
          <6> QED BY <4>2, <4>3, <5>1, <6>1 DEF Restarted
        <5> QED BY <2>1, <1>4, <5>1 DEF Restarted, Quiet
      <4> QED BY <4>4, <4>5
    <3> QED BY <3>1, <3>2 DEF VersionChange
  <2> QED BY <1>4, <2>1, <2>2
<1>5. ASSUME NEW l \in AllLBs, BecomeReady(l) \/ ConsoleDelete(l) \/ ConsoleRename(l)
      PROVE  ~queued /\ cache' = cache /\ Quiet
  BY <1>5 DEF BecomeReady, ConsoleDelete, ConsoleRename, Quiet
<1>6. CASE UNCHANGED vars
  BY <1>6 DEF vars, Quiet
<1> QED BY <1>1, <1>2, <1>3, <1>4, <1>5, <1>6 DEF Next

\* So a step that ends caught up began so, and changed no version.
LEMMA CaughtStep ==
  ASSUME TypeOK, [Next]_vars, CaughtUp'
  PROVE  BeginSync \/ Crash \/ (CaughtUp /\ Quiet)
<1>1. ~queued' BY DEF CaughtUp
<1>2. ~Written
  <2> SUFFICES ASSUME Written PROVE FALSE OBVIOUS
  <2>1. watch' = Append(watch, svc') /\ watch \in Seq(Service) BY DEF Written, TypeOK
  <2>2. Len(watch') = Len(watch) + 1 /\ Len(watch) \in Nat BY <2>1
  <2> QED BY <2>2 DEF CaughtUp
<1> QED BY <1>1, <1>2, QueueStep DEF CaughtUp, Quiet

LEMMA LatestNext ==
  ASSUME TypeOK, LatestInv, [Next]_vars
  PROVE  LatestInv'
<1>1. VersionChange BY VersionStep
<1>2. CASE Quiet BY <1>2 DEF Quiet, LatestInv
<1>3. CASE Written
  <2>1. watch' = Append(watch, svc') /\ watch \in Seq(Service) BY <1>3 DEF Written, TypeOK
  <2>2. /\ Len(watch') = Len(watch) + 1 /\ Len(watch) \in Nat
        /\ watch'[Len(watch) + 1] = svc'
    BY <2>1
  <2> QED BY <2>2 DEF LatestInv
<1>4. CASE Delivered
  <2>1. /\ watch # <<>> /\ cache' = watch[1] /\ watch' = Tail(watch) /\ svc' = svc
        /\ watch \in Seq(Service) /\ svc = watch[Len(watch)]
    BY <1>4 DEF Delivered, TypeOK, LatestInv
  <2>2. CASE Len(watch) = 1
    <3>1. watch' = <<>> BY <2>1, <2>2
    <3> QED BY <2>1, <2>2, <3>1 DEF LatestInv
  <2>3. CASE Len(watch) # 1
    <3>1. Len(watch) \in Nat /\ Len(watch) # 0
      BY <2>1
    <3>2. Len(watch') = Len(watch) - 1
      BY <2>1, <3>1
    <3>3. \A i \in DOMAIN watch' : i + 1 \in DOMAIN watch /\ watch'[i] = watch[i + 1]
      BY <2>1
    <3>4. DOMAIN watch' = 1..(Len(watch) - 1)
      BY <2>1, <3>2
    <3>5. Len(watch) - 1 \in DOMAIN watch'
      <4>1. \A n \in Nat : n # 0 /\ n # 1 => n - 1 \in 1..(n - 1)
        OBVIOUS
      <4>2. Len(watch) - 1 \in 1..(Len(watch) - 1)
        BY <2>3, <3>1, <4>1
      <4> QED BY <3>4, <4>2
    <3>6. watch'[Len(watch) - 1] = watch[Len(watch)]
      <4>1. (Len(watch) - 1) + 1 = Len(watch)
        BY <3>1
      <4> QED BY <3>3, <3>5, <4>1
    <3>7. watch' # <<>>
      BY <3>5
    <3> QED BY <2>1, <3>2, <3>6, <3>7 DEF LatestInv
  <2> QED BY <2>2, <2>3
<1>5. CASE Restarted BY <1>5 DEF Restarted, LatestInv
<1> QED BY <1>1, <1>2, <1>3, <1>4, <1>5 DEF VersionChange

\* A step is a step of the service worker, or it leaves the service worker
\* alone, and then users and the cloud are the only ones who change LBs.
SvcIdles ==
  /\ S' = S /\ gone' = gone
  /\ \/ lbs' = lbs
     \/ \E l \in AllLBs : BecomeReady(l) \/ ConsoleDelete(l) \/ ConsoleRename(l)

LEMMA WhoseStep ==
  ASSUME IInv, [Next]_vars
  PROVE  \/ Step(SvcWorker) \/ Fail(SvcWorker) \/ BeginSync \/ Crash
         \/ SvcIdles
<1>1. /\ TypeOK /\ SvcWorker \in Workers
      /\ S = wk[SvcWorker] /\ S' = wk'[SvcWorker]
      /\ \A w \in Workers : w = SvcWorker \/ (w \in NodeSyncs /\ w # SvcWorker)
  BY ConstantsAssumption DEF IInv, Workers, S
<1>2. ASSUME NEW w \in NodeSyncs, BeginNodeSync(w) \/ Step(w) \/ Fail(w) PROVE SvcIdles
  <2>1. w \in Workers /\ w # SvcWorker
    BY ConstantsAssumption DEF Workers
  <2>2. Others(w)
    BY <1>1, <1>2, <2>1, NodeSyncStep, StartEffect, ReturnErrorEffect DEF BeginNodeSync, Fail
  <2>3. lbs' = lbs /\ gone' = gone
    BY <1>2, NodeSyncStep DEF BeginNodeSync, Fail
  <2> QED BY <1>1, <2>1, <2>2, <2>3 DEF Others, SvcIdles
<1>3. Deliver \/ DeleteService \/ UNCHANGED vars => SvcIdles
  BY <1>1 DEF Deliver, DeleteService, vars, SvcIdles
<1>4. EditService => SvcIdles
  BY <1>1 DEF EditService, SvcIdles
<1>5. ASSUME NEW l \in AllLBs, BecomeReady(l) \/ ConsoleDelete(l) \/ ConsoleRename(l)
      PROVE  SvcIdles
  BY <1>1, <1>5 DEF BecomeReady, ConsoleDelete, ConsoleRename, SvcIdles
<1>6. ~BeginNodeSync(SvcWorker)
  BY <1>1, ConstantsAssumption DEF BeginNodeSync
<1> QED BY <1>1, <1>2, <1>3, <1>4, <1>5, <1>6 DEF Next

\* What users and the cloud do to an LB.
LEMMA LBByOthers ==
  ASSUME TypeOK, NEW l \in AllLBs, BecomeReady(l) \/ ConsoleDelete(l) \/ ConsoleRename(l)
  PROVE  \A m \in AllLBs :
           \/ lbs'[m] = lbs[m]
           \/ m \in Live /\ lbs'[m].state = "removed"
           \/ /\ m \in Live /\ lbs'[m].state = "live" /\ lbs'[m].ip = lbs[m].ip
              /\ lbs[m].ready => lbs'[m].ready
              /\ lbs'[m].name \in {lbs[m].name, "other"}
<1>1. lbs \in [AllLBs -> LB] /\ lbs[l] \in LB
  BY DEF TypeOK
<1>2. CASE BecomeReady(l)
  BY <1>1, <1>2 DEF BecomeReady, Live, LB
<1>3. CASE ConsoleDelete(l)
  BY <1>1, <1>3 DEF ConsoleDelete, Live, Dead
<1>4. CASE ConsoleRename(l)
  BY <1>1, <1>4 DEF ConsoleRename, Own, Live, LB
<1> QED BY <1>2, <1>3, <1>4

\* How the service worker's own steps treat the flag that the LB has been
\* deleted for another one.
LEMMA RecreatedStep ==
  ASSUME IInv, TakenInv, [Next]_vars
  PROVE  S'.pc \in {"idle", "fetch", "annotate"} => ~S'.recreated
<1>1. /\ TypeOK /\ SvcWorker \in Workers /\ S = wk[SvcWorker] /\ S' = wk'[SvcWorker]
      /\ S \in Worker /\ wk \in [Workers -> Worker]
  BY DEF IInv, Workers, S, TypeOK
<1>2. ~Idle(SvcWorker).recreated
  BY DEF Idle
<1>3. /\ \A pc : Goto(SvcWorker, pc) => S'.pc = pc /\ S'.recreated = S.recreated
      /\ \A pc, lb : GotoWith(SvcWorker, pc, lb) => S'.pc = pc /\ S'.recreated = S.recreated
  BY <1>1 DEF Goto, GotoWith, Worker
<1>4. ReturnError(SvcWorker) \/ ReturnOK(SvcWorker) => ~S'.recreated
  BY <1>1, <1>2, ReturnErrorEffect, ReturnEffect DEF ReturnOK
<1>5. ASSUME NEW lb, Found(SvcWorker, lb)
      PROVE  ~S'.recreated \/ S'.recreated = S.recreated
  <2>1. ASSUME wk' = [wk EXCEPT ![SvcWorker].pc = "fetch", ![SvcWorker].op = "delete"]
        PROVE  S'.recreated = S.recreated
    BY <1>1, <2>1 DEF Worker
  <2> QED BY <1>3, <1>4, <1>5, <2>1 DEF Found
<1>6. ASSUME NotFound(SvcWorker)
      PROVE  ~S'.recreated \/ S'.pc \in {"create", "finalize"}
  BY <1>3, <1>4, <1>6 DEF NotFound
<1>7. AfterDelete(SvcWorker) => S'.pc \in {"create", "finalize"}
  BY <1>1, AfterDeleteEffect
<1>8. CASE FetchRefused(SvcWorker) \/ Configure(SvcWorker) \/ RemoveFinalizer(SvcWorker)
           \/ Fail(SvcWorker) \/ Cleanup(SvcWorker) \/ CreateLB(SvcWorker)
  <2>1. CASE FetchRefused(SvcWorker) \/ Configure(SvcWorker) \/ RemoveFinalizer(SvcWorker)
             \/ Fail(SvcWorker)
    BY <1>4, <2>1 DEF FetchRefused, Configure, RemoveFinalizer, Fail
  <2>2. CASE Cleanup(SvcWorker)
    BY <1>3, <1>4, <2>2 DEF Cleanup
  <2>3. CASE CreateLB(SvcWorker)
    <3>1. ReturnError(SvcWorker) \/ \E lb : GotoWith(SvcWorker, "annotateNew", lb)
      BY <2>3 DEF CreateLB
    <3> QED BY <1>3, <1>4, <3>1
  <2> QED BY <1>8, <2>1, <2>2, <2>3
<1>9. CASE FetchByID(SvcWorker) \/ FetchByName(SvcWorker) \/ AnnotateFound(SvcWorker)
  <2>1. ~S.recreated
    BY <1>1, <1>9 DEF FetchByID, FetchByName, AnnotateFound, TakenInv
  <2> QED BY <1>1, <1>3, <1>4, <1>5, <1>6, <1>9, <2>1
             DEF FetchByID, FetchByName, AnnotateFound
<1>10. CASE AnnotateNew(SvcWorker)
  <2>1. S.op = "ensure"
    BY <1>1, <1>10 DEF AnnotateNew, IInv, SvcWorkerInv
  <2>2. ASSUME NEW lb, Found(SvcWorker, lb) PROVE ~S'.recreated \/ S'.pc \in {"unannotate", "configure"}
    BY <1>1, <1>3, <1>4, <2>1, <2>2 DEF Found
  <2> QED BY <1>4, <1>10, <2>2 DEF AnnotateNew
<1>11. CASE Unannotate(SvcWorker) \/ DeleteLB(SvcWorker)
  BY <1>3, <1>4, <1>7, <1>11 DEF Unannotate, DeleteLB
<1>12. CASE BeginSync
  <2>1. S.pc = "idle" /\ ~S.recreated
    BY <1>1, <1>12 DEF BeginSync, TakenInv
  <2>2. \A op : Start(SvcWorker, op) => S'.recreated = S.recreated
    BY <1>1 DEF Start, Worker
  <2> QED BY <1>12, <2>1, <2>2 DEF BeginSync
<1>13. CASE Crash
  BY <1>1, <1>2, <1>13 DEF Crash
<1>14. CASE SvcIdles
  BY <1>14 DEF SvcIdles, TakenInv
<1> QED BY <1>8, <1>9, <1>10, <1>11, <1>12, <1>13, <1>14, WhoseStep DEF Step

\* The service worker works on the Service as the informer has it, unless the
\* key is in the queue again.
LEMMA TakenNext ==
  ASSUME IInv, TakenInv, [Next]_vars
  PROVE  TakenInv'
<1>1. TypeOK /\ SnapChange
  BY SnapStep DEF IInv
<1>2. ASSUME S'.pc # "idle", ~queued' PROVE S'.snap = cache'
  <2>1. CASE BeginSync
    <3>1. S.pc = "idle" /\ cache' = cache
      BY <2>1 DEF BeginSync, S
    <3> QED BY <1>1, <1>2, <3>1 DEF SnapChange
  <2>2. CASE Crash
    BY <1>2, <2>2, IdleFacts DEF Crash, S, Workers
  <2>3. CASE ~BeginSync /\ ~Crash
    BY <1>1, <1>2, <2>3, QueueStep DEF SnapChange, TakenInv
  <2> QED BY <2>1, <2>2, <2>3
<1>3. S'.pc # "idle" /\ S'.op = "ensure" => ~S'.snap.deleting
  BY <1>1 DEF SnapChange, TakenInv
<1> QED BY <1>2, <1>3, RecreatedStep DEF TakenInv

\* Where the IDs come from that a step writes down.
IdsKnown(w) ==
  /\ wk'[w].snap \in {wk[w].snap, cache, NoSnap}
  /\ wk'[w].lb.id \in {wk[w].lb.id, NoLB} \cup Live \cup Live'

LEMMA StepIds ==
  ASSUME TypeOK, NEW w \in Workers, Step(w)
  PROVE  IdsKnown(w) /\ svc'.anno \in {svc.anno, NoLB, wk[w].lb.id}
<1>1. wk \in [Workers -> Worker] /\ svc \in Service /\ lbs \in [AllLBs -> LB]
  BY DEF TypeOK
<1>2. /\ ReturnError(w) \/ ReturnOK(w) => wk'[w] = Idle(w)
      /\ Idle(w).snap = NoSnap /\ Idle(w).lb.id = NoLB
  BY ReturnErrorEffect, ReturnEffect, IdleFacts DEF ReturnOK, Idle, NoCopy
<1>3. ReturnError(w) \/ ReturnOK(w) => IdsKnown(w)
  BY <1>2 DEF IdsKnown
<1>4. \A pc : Goto(w, pc) => IdsKnown(w)
  BY <1>1, MovesOn, GotoEffect DEF IdsKnown
<1>5. \A pc, lb : GotoWith(w, pc, lb) /\ lb.id \in {wk[w].lb.id} \cup Live \cup Live' => IdsKnown(w)
  BY <1>1, MovesOn, GotoWithEffect DEF IdsKnown
<1>6. ASSUME NEW lb, Found(w, lb), lb.id \in {wk[w].lb.id} \cup Live PROVE IdsKnown(w)
  <2>1. ASSUME wk' = [wk EXCEPT ![w].pc = "fetch", ![w].op = "delete"] PROVE IdsKnown(w)
    BY <1>1, <2>1 DEF Worker, IdsKnown
  <2>2. \A pc : GotoWith(w, pc, lb) => IdsKnown(w)
    BY <1>5, <1>6
  <2> QED BY <1>3, <1>6, <2>1, <2>2 DEF Found
<1>7. NotFound(w) => IdsKnown(w)
  BY <1>3, <1>4 DEF NotFound
<1>8. AfterDelete(w) => IdsKnown(w)
  <2>1. ASSUME wk' = [wk EXCEPT ![w].pc = "create", ![w].recreated = TRUE] PROVE IdsKnown(w)
    BY <1>1, <2>1 DEF Worker, IdsKnown
  <2> QED BY <1>4, <2>1 DEF AfterDelete
<1>9. ASSUME NEW id, NEW s, PatchAnno(s, id) PROVE svc'.anno \in {svc.anno, id}
  BY <1>1, <1>9 DEF PatchAnno, WriteService, Service
<1>10. CASE FetchRefused(w) \/ Configure(w) \/ RemoveFinalizer(w) \/ Cleanup(w)
  <2>1. IdsKnown(w)
    BY <1>3, <1>4, <1>10 DEF FetchRefused, Configure, RemoveFinalizer, Cleanup
  <2> QED BY <1>10, <2>1 DEF FetchRefused, Configure, RemoveFinalizer, Cleanup
<1>11. CASE FetchByID(w)
  <2>1. CopyOf(wk[w].snap.anno).id = wk[w].snap.anno
    BY DEF CopyOf
  <2>2. IdsKnown(w)
    BY <1>3, <1>6, <1>7, <1>11, <2>1 DEF FetchByID
  <2> QED BY <1>11, <2>2 DEF FetchByID
<1>12. CASE FetchByName(w)
  <2>1. ASSUME NEW l \in Own, GotoWith(w, "annotate", CopyOf(l)) PROVE IdsKnown(w)
    BY <1>5, <2>1 DEF CopyOf, Own
  <2>2. IdsKnown(w)
    BY <1>3, <1>7, <1>12, <2>1 DEF FetchByName, ListedByName
  <2> QED BY <1>12, <2>2 DEF FetchByName
<1>13. CASE AnnotateFound(w) \/ AnnotateNew(w)
  BY <1>3, <1>6, <1>9, <1>13 DEF AnnotateFound, AnnotateNew, AnnotationOf
<1>14. CASE CreateLB(w)
  <2>1. ASSUME NEW l \in LBIds, lbs'[l].state = "live",
               GotoWith(w, "annotateNew", [id |-> l, name |-> "own",
                                 ip |-> CreatedIP(wk[w].snap), ready |-> FALSE])
        PROVE  IdsKnown(w)
    <3>1. l \in Live'
      BY <2>1 DEF Live, AllLBs
    <3> QED BY <1>5, <2>1, <3>1
  <2>2. ASSUME NEW l \in LBIds, NEW r, r.state = "live", lbs' = [lbs EXCEPT ![l] = r]
        PROVE  lbs'[l].state = "live"
    BY <1>1, <2>2 DEF AllLBs
  <2>3. IdsKnown(w)
    BY <1>3, <1>14, <2>1, <2>2 DEF CreateLB
  <2> QED BY <1>14, <2>3 DEF CreateLB
<1>15. CASE Unannotate(w)
  BY <1>3, <1>4, <1>8, <1>9, <1>15 DEF Unannotate
<1>16. CASE DeleteLB(w)
  <2>1. IdsKnown(w)
    BY <1>3, <1>8, <1>16 DEF DeleteLB
  <2> QED BY <1>16, <2>1 DEF DeleteLB
<1> QED BY <1>10, <1>11, <1>12, <1>13, <1>14, <1>15, <1>16 DEF Step

\* The IDs that every step writes down.
LEMMA NextIds ==
  ASSUME IInv, [Next]_vars
  PROVE  /\ \A v \in Workers : IdsKnown(v)
         /\ svc'.anno \in {svc.anno, NoLB} \cup ForeignLBs \cup {wk[w].lb.id : w \in Workers}
<1> USE DEF informer, budgets, ipHist
<1>1. /\ TypeOK /\ wk \in [Workers -> Worker] /\ svc \in Service
  BY DEF IInv, TypeOK
<1>2. ASSUME NEW v \in Workers, wk'[v] = wk[v] PROVE IdsKnown(v)
  BY <1>2 DEF IdsKnown
<1>3. \A v \in Workers : wk'[v] = Idle(v) => IdsKnown(v)
  BY DEF IdsKnown, Idle, NoCopy
<1>4. ASSUME NEW w \in Workers, IdsKnown(w), Others(w) PROVE \A v \in Workers : IdsKnown(v)
  BY <1>2, <1>4 DEF Others
<1>5. ASSUME NEW w \in Workers, NEW op, Start(w, op) PROVE IdsKnown(w) /\ Others(w)
  <2>1. wk'[w].snap = cache /\ wk'[w].lb = wk[w].lb
    BY <1>1, <1>5 DEF Start, Worker
  <2> QED BY <1>1, <1>5, <2>1, StartEffect DEF IdsKnown
<1>6. ASSUME NEW w \in Workers, Step(w) PROVE Others(w)
  <2> USE <1>1
  <2>1. CASE \/ FetchRefused(w) \/ FetchByID(w) \/ FetchByName(w)
    BY <2>1, ReturnErrorEffect, FoundEffect, NotFoundEffect, GotoWithEffect
       DEF FetchRefused, FetchByID, FetchByName
  <2>2. CASE AnnotateFound(w) \/ AnnotateNew(w)
    BY <2>2, ReturnErrorEffect, FoundEffect DEF AnnotateFound, AnnotateNew
  <2>3. CASE CreateLB(w)
    <3>1. ReturnError(w) \/ \E lb : GotoWith(w, "annotateNew", lb)
      BY <2>3 DEF CreateLB
    <3> QED BY <3>1, ReturnErrorEffect, GotoWithEffect
  <2>4. CASE Unannotate(w)
    BY <2>4, ReturnErrorEffect, AfterDeleteEffect, GotoEffect DEF Unannotate
  <2>5. CASE DeleteLB(w)
    BY <2>5, ReturnErrorEffect, AfterDeleteEffect DEF DeleteLB
  <2>6. CASE Configure(w) \/ Cleanup(w) \/ RemoveFinalizer(w)
    BY <2>6, ReturnErrorEffect, ReturnEffect, GotoEffect
       DEF Configure, Cleanup, RemoveFinalizer, ReturnOK
  <2> QED BY <1>6, <2>1, <2>2, <2>3, <2>4, <2>5, <2>6 DEF Step
<1>7. ASSUME NEW w \in Workers, Step(w)
      PROVE  /\ \A v \in Workers : IdsKnown(v)
             /\ svc'.anno \in {svc.anno, NoLB} \cup ForeignLBs \cup {wk[v].lb.id : v \in Workers}
  BY <1>1, <1>4, <1>6, <1>7, StepIds
<1>8. ASSUME NEW w \in Workers, BeginNodeSync(w) \/ Fail(w)
      PROVE  svc' = svc /\ \A v \in Workers : IdsKnown(v)
  <2>1. CASE BeginNodeSync(w)
    BY <1>4, <1>5, <2>1 DEF BeginNodeSync
  <2>2. CASE Fail(w)
    BY <1>1, <1>3, <1>4, <2>2, ReturnErrorEffect DEF Fail
  <2> QED BY <1>8, <2>1, <2>2
<1>9. CASE BeginSync
  <2>1. SvcWorker \in Workers
    BY DEF Workers
  <2>2. svc' = svc /\ \E op : Start(SvcWorker, op)
    BY <1>9 DEF BeginSync
  <2> QED BY <1>4, <1>5, <2>1, <2>2
<1>10. CASE Crash
  <2>1. svc' = svc /\ \A v \in Workers : wk'[v] = Idle(v)
    BY <1>10 DEF Crash
  <2> QED BY <1>3, <2>1
<1>11. ASSUME wk' = wk PROVE \A v \in Workers : IdsKnown(v)
  BY <1>2, <1>11
<1>12. CASE EditService
  <2>1. wk' = wk
    BY <1>12 DEF EditService
  <2>2. ASSUME NEW p, NEW i, EditTo([svc EXCEPT !.private = p, !.ip = i])
        PROVE  svc'.anno = svc.anno
    BY <1>1, <2>2 DEF EditTo, WriteService, Service
  <2>3. ASSUME NEW e, NEW a \in ForeignLBs \cup {svc.anno}, EditTo([svc EXCEPT !.ext = e, !.anno = a])
        PROVE  svc'.anno \in ForeignLBs \cup {svc.anno}
    BY <1>1, <2>3 DEF EditTo, WriteService, Service
  <2> QED BY <1>11, <1>12, <2>1, <2>2, <2>3 DEF EditService
<1>13. CASE DeleteService
  BY <1>1, <1>11, <1>13 DEF DeleteService, WriteService, Service
<1>14. ASSUME NEW l \in AllLBs, BecomeReady(l) \/ ConsoleDelete(l) \/ ConsoleRename(l)
       PROVE  svc' = svc /\ wk' = wk
  BY <1>14 DEF BecomeReady, ConsoleDelete, ConsoleRename
<1>15. Deliver \/ UNCHANGED vars => svc' = svc /\ wk' = wk
  BY DEF Deliver, vars
<1> QED BY <1>7, <1>8, <1>9, <1>10, <1>11, <1>12, <1>13, <1>14, <1>15 DEF Next

\* An LB that has been created stays known.
LEMMA BornGrows ==
  ASSUME IInv, [Next]_vars
  PROVE  Born \subseteq Born' /\ Live \subseteq Born /\ Live' \subseteq Born'
<1>1. TypeOK /\ LBChange /\ lbs \in [AllLBs -> LB]
  BY LBStep DEF IInv, TypeOK
<1>2. \A l \in AllLBs : lbs[l].state # "unborn" => lbs'[l].state # "unborn"
  <2>1. CASE lbs' = lbs
    BY <2>1
  <2>2. CASE CreateLB(SvcWorker)
    <3>1. lbs' = lbs \/ \E l \in LBIds : \E ip : lbs' = [lbs EXCEPT ![l] =
                          [state |-> "live", name |-> "own", ip |-> ip, ready |-> FALSE]]
      BY <2>2 DEF CreateLB
    <3> QED BY <1>1, <3>1
  <2>3. CASE DeleteLB(SvcWorker)
    <3>1. lbs' = lbs \/ \E l \in Live : lbs' = [lbs EXCEPT ![l] = Dead("deleted")]
      BY <2>3 DEF DeleteLB
    <3> QED BY <1>1, <3>1 DEF Dead
  <2>4. ASSUME NEW l \in AllLBs, BecomeReady(l) \/ ConsoleDelete(l) \/ ConsoleRename(l)
        PROVE  \A m \in AllLBs : lbs[m].state # "unborn" => lbs'[m].state # "unborn"
    BY <1>1, <2>4, LBByOthers
  <2> QED BY <1>1, <2>1, <2>2, <2>3, <2>4 DEF LBChange
<1> QED BY <1>2 DEF Born, Live

\* No ID is known before its LB is created.
LEMMA BornNext ==
  ASSUME IInv, BornInv, [Next]_vars
  PROVE  BornInv'
<1>1. /\ TypeOK /\ VersionChange /\ ForeignLBs \subseteq Born /\ svc.anno \in Born
      /\ cache.anno \in Born /\ \A i \in DOMAIN watch : watch[i].anno \in Born
      /\ \A w \in Workers : wk[w].snap.anno \in Born /\ wk[w].lb.id \in Born
  BY VersionStep DEF IInv, BornInv
<1>2. Born \subseteq Born' /\ Live \subseteq Born /\ Live' \subseteq Born' /\ NoLB \in Born
  BY BornGrows DEF Born
<1>3. ForeignLBs \subseteq Born' /\ svc'.anno \in Born'
  BY <1>1, <1>2, NextIds
<1>4. cache'.anno \in Born' /\ \A i \in DOMAIN watch' : watch'[i].anno \in Born'
  <2>1. CASE Quiet
    BY <1>1, <1>2, <2>1 DEF Quiet
  <2>2. CASE Written
    <3>1. \A i \in DOMAIN watch' : watch'[i] = svc' \/ (i \in DOMAIN watch /\ watch'[i] = watch[i])
      BY <1>1, <2>2 DEF Written, TypeOK
    <3> QED BY <1>1, <1>2, <1>3, <2>2, <3>1 DEF Written
  <2>3. CASE Delivered
    <3>1. /\ 1 \in DOMAIN watch /\ cache' = watch[1]
          /\ \A i \in DOMAIN watch' : i + 1 \in DOMAIN watch /\ watch'[i] = watch[i + 1]
      BY <1>1, <2>3 DEF Delivered, TypeOK
    <3> QED BY <1>1, <1>2, <3>1
  <2>4. CASE Restarted
    <3>1. cache' = svc /\ DOMAIN watch' = {}
      BY <2>4 DEF Restarted
    <3> QED BY <1>1, <1>2, <3>1
  <2> QED BY <1>1, <2>1, <2>2, <2>3, <2>4 DEF VersionChange
<1>5. \A w \in Workers : wk'[w].snap.anno \in Born' /\ wk'[w].lb.id \in Born'
  <2> SUFFICES ASSUME NEW w \in Workers PROVE wk'[w].snap.anno \in Born' /\ wk'[w].lb.id \in Born'
    OBVIOUS
  <2>1. IdsKnown(w) /\ NoSnap.anno = NoLB
    BY NextIds DEF NoSnap
  <2>2. wk'[w].snap.anno \in Born
    BY <1>1, <1>2, <2>1 DEF IdsKnown
  <2>3. wk'[w].lb.id \in Born \cup Born'
    BY <1>1, <1>2, <2>1 DEF IdsKnown
  <2> QED BY <1>2, <2>2, <2>3
<1> QED BY <1>3, <1>4, <1>5 DEF BornInv

\* A patch of the annotation changes it: what it replaces is empty, or older
\* than the LB that has just been created.
LEMMA PatchNext ==
  ASSUME IInv, BornInv, PatchInv, [Next]_vars
  PROVE  PatchInv'
<1>1. /\ TypeOK /\ SvcWorker \in Workers /\ S = wk[SvcWorker] /\ S' = wk'[SvcWorker]
      /\ S \in Worker
  BY DEF IInv, Workers, S, TypeOK
<1> DEFINE Patching == S'.pc \in {"annotate", "annotateNew"}
<1>2. /\ ReturnError(SvcWorker) \/ ReturnOK(SvcWorker) => ~Patching
      /\ NotFound(SvcWorker) \/ AfterDelete(SvcWorker) => ~Patching
  BY <1>1, ReturnErrorEffect, ReturnEffect, NotFoundEffect, AfterDeleteEffect, IdleFacts
     DEF ReturnOK
<1>3. ASSUME NEW lb, Found(SvcWorker, lb) PROVE ~Patching
  BY <1>1, <1>3, FoundEffect, IdleFacts
<1>4. \A pc : Goto(SvcWorker, pc) => S'.pc = pc
  BY <1>1, GotoEffect
<1>5. CASE FetchRefused(SvcWorker) \/ FetchByID(SvcWorker) \/ AnnotateFound(SvcWorker)
           \/ AnnotateNew(SvcWorker) \/ Unannotate(SvcWorker) \/ DeleteLB(SvcWorker)
  BY <1>2, <1>3, <1>4, <1>5
     DEF FetchRefused, FetchByID, AnnotateFound, AnnotateNew, Unannotate, DeleteLB, PatchInv
<1>6. CASE Configure(SvcWorker) \/ Cleanup(SvcWorker) \/ RemoveFinalizer(SvcWorker)
           \/ Fail(SvcWorker)
  BY <1>2, <1>4, <1>6 DEF Configure, Cleanup, RemoveFinalizer, Fail, PatchInv
<1>7. CASE FetchByName(SvcWorker)
  <2>1. ASSUME NEW l \in Own, GotoWith(SvcWorker, "annotate", CopyOf(l)) PROVE PatchInv'
    <3>1. S.snap.anno = NoLB /\ l # NoLB
      BY <1>1, <1>7, ConstantsAssumption DEF FetchByName, Own, Live
    <3>2. S'.snap = S.snap /\ S'.lb = CopyOf(l) /\ CopyOf(l).id = l
      BY <1>1, <2>1, MovesOn, GotoWithEffect DEF CopyOf
    <3> QED BY <3>1, <3>2 DEF PatchInv
  <2> QED BY <1>2, <1>7, <2>1 DEF FetchByName, ListedByName, PatchInv
<1>8. CASE CreateLB(SvcWorker)
  <2>1. ASSUME NEW l \in LBIds, lbs[l].state = "unborn",
               GotoWith(SvcWorker, "annotateNew", [id |-> l, name |-> "own",
                                    ip |-> CreatedIP(S.snap), ready |-> FALSE])
        PROVE  PatchInv'
    <3>1. S.snap.anno # l
      BY <1>1, <2>1, ConstantsAssumption DEF BornInv, Born, AllLBs
    <3>2. S'.snap = S.snap /\ S'.lb.id = l
      BY <1>1, <2>1, MovesOn, GotoWithEffect
    <3> QED BY <3>1, <3>2 DEF PatchInv
  <2> QED BY <1>1, <1>2, <1>8, <2>1 DEF CreateLB, PatchInv
<1>9. CASE BeginSync \/ Crash
  <2>1. BeginSync => S'.pc = "fetch"
    BY <1>1, StartEffect DEF BeginSync
  <2>2. Crash => S'.pc = "idle"
    BY <1>1, IdleFacts DEF Crash
  <2> QED BY <1>9, <2>1, <2>2 DEF PatchInv
<1>10. CASE SvcIdles
  BY <1>10 DEF SvcIdles, PatchInv
<1> QED BY <1>5, <1>6, <1>7, <1>8, <1>9, <1>10, WhoseStep DEF Step

\* What the service worker is about to configure fits the Service, as long as
\* the informer is caught up.
LEMMA FittingNext ==
  ASSUME IInv, LatestInv, TakenInv, PatchInv, FittingInv, [Next]_vars
  PROVE  FittingInv'
<1>1. /\ TypeOK /\ SvcWorker \in Workers /\ S = wk[SvcWorker] /\ S' = wk'[SvcWorker]
      /\ S \in Worker /\ S.op # "update"
  BY DEF IInv, Workers, S, TypeOK, SvcWorkerInv
<1>2. /\ ReturnError(SvcWorker) \/ ReturnOK(SvcWorker) => S'.pc # "configure"
      /\ NotFound(SvcWorker) \/ AfterDelete(SvcWorker) => S'.pc # "configure"
  BY <1>1, ReturnErrorEffect, ReturnEffect, NotFoundEffect, AfterDeleteEffect, IdleFacts
     DEF ReturnOK
<1>3. /\ \A pc : Goto(SvcWorker, pc) => S'.pc = pc
      /\ \A pc, lb : GotoWith(SvcWorker, pc, lb) =>
           S'.pc = pc /\ S'.lb = lb /\ S'.op = S.op /\ S'.snap = S.snap
  BY <1>1, GotoEffect, GotoWithEffect, MovesOn
<1>4. ASSUME NEW lb, Found(SvcWorker, lb), S'.pc = "configure"
      PROVE  /\ S'.op = "ensure" /\ S'.lb = lb /\ S'.snap = S.snap /\ lb.ready
             /\ ~NeedsRecreate(S.snap, lb) \/ S.recreated
  <2>1. ASSUME wk' = [wk EXCEPT ![SvcWorker].pc = "fetch", ![SvcWorker].op = "delete"]
        PROVE  FALSE
    BY <1>1, <1>4, <2>1 DEF TypeOK, Worker
  <2> QED BY <1>1, <1>2, <1>3, <1>4, <2>1 DEF Found
<1>5. CASE FetchByID(SvcWorker)
  <2> SUFFICES ASSUME S'.pc = "configure" PROVE S'.op = "ensure" /\ Fitting'
    BY DEF FittingInv
  <2>1. /\ S.snap.anno \in Live /\ ~ExternalRefused(S.snap, CopyOf(S.snap.anno))
        /\ Found(SvcWorker, CopyOf(S.snap.anno)) /\ lbs' = lbs
    BY <1>1, <1>2, <1>5 DEF FetchByID
  <2>2. ~S.recreated
    BY <1>1, <1>5 DEF FetchByID, TakenInv
  <2>3. /\ S'.op = "ensure" /\ S'.lb = CopyOf(S.snap.anno) /\ S'.snap = S.snap
        /\ CopyOf(S.snap.anno).ready /\ ~NeedsRecreate(S.snap, CopyOf(S.snap.anno))
    BY <1>4, <2>1, <2>2
  <2>4. /\ S'.lb.id = S.snap.anno /\ S'.lb.ip = lbs[S.snap.anno].ip /\ lbs[S.snap.anno].ready
    BY <2>3 DEF CopyOf
  <2>5. ~ExternalRefused(S'.snap, CopyOf(S.lb.id)')
    BY <2>1, <2>3, <2>4 DEF ExternalRefused, CopyOf
  <2>6. ~NeedsRecreate(S'.snap, S'.lb) /\ S.snap.anno \in AllLBs
    BY <2>1, <2>3 DEF Live
  <2> QED BY <2>1, <2>3, <2>4, <2>5, <2>6 DEF Fitting
<1>6. CASE AnnotateFound(SvcWorker) \/ AnnotateNew(SvcWorker)
  <2> SUFFICES ASSUME S'.pc = "configure" PROVE S'.op = "ensure" /\ ~CaughtUp'
    BY DEF FittingInv
  <2>1. Found(SvcWorker, S.lb) /\ PatchAnno(S.snap, S.lb.id)
    BY <1>1, <1>2, <1>6 DEF AnnotateFound, AnnotateNew, AnnotationOf
  <2>2. S.lb.id # S.snap.anno /\ S.pc # "idle"
    BY <1>1, <1>6 DEF PatchInv, AnnotateFound, AnnotateNew
  <2>3. svc'.anno = S.lb.id
    <3>1. svc' = [svc EXCEPT !.anno = S.lb.id]
      BY <2>1, <2>2 DEF PatchAnno, WriteService
    <3> QED BY <1>1, <3>1 DEF TypeOK, Service
  <2>4. ASSUME CaughtUp' PROVE FALSE
    <3>1. CaughtUp /\ Quiet
      <4>1. ~BeginSync
        BY <1>1, <2>2 DEF BeginSync
      <4>2. ~Crash
        <5>1. Crash => S'.pc = "idle"
          BY <1>1, IdleFacts DEF Crash
        <5> QED BY <5>1
      <4> QED BY <1>1, <2>4, <4>1, <4>2, CaughtStep
    <3>2. S.snap = svc /\ svc' = svc
      BY <2>2, <3>1 DEF CaughtUp, Quiet, LatestInv, TakenInv
    <3> QED BY <2>2, <2>3, <3>2
  <2> QED BY <1>4, <2>1, <2>4
<1>7. CASE FetchRefused(SvcWorker) \/ FetchByName(SvcWorker) \/ Unannotate(SvcWorker)
           \/ DeleteLB(SvcWorker)
  BY <1>2, <1>3, <1>7 DEF FetchRefused, FetchByName, Unannotate, DeleteLB, FittingInv
<1>8. CASE CreateLB(SvcWorker)
  <2>1. ReturnError(SvcWorker) \/ \E lb : GotoWith(SvcWorker, "annotateNew", lb)
    BY <1>8 DEF CreateLB
  <2> QED BY <1>2, <1>3, <2>1 DEF FittingInv
<1>9. CASE Configure(SvcWorker) \/ Cleanup(SvcWorker) \/ RemoveFinalizer(SvcWorker)
           \/ Fail(SvcWorker)
  BY <1>2, <1>3, <1>9 DEF Configure, Cleanup, RemoveFinalizer, Fail, FittingInv
<1>10. CASE BeginSync \/ Crash
  <2>1. BeginSync => S'.pc = "fetch"
    BY <1>1, StartEffect DEF BeginSync
  <2>2. Crash => S'.pc = "idle"
    BY <1>1, IdleFacts DEF Crash
  <2> QED BY <1>10, <2>1, <2>2 DEF FittingInv
<1>11. CASE SvcIdles
  <2> SUFFICES ASSUME S'.pc = "configure", CaughtUp' PROVE Fitting'
    BY <1>11 DEF SvcIdles, FittingInv
  <2>1. S' = S /\ S.pc = "configure"
    BY <1>11 DEF SvcIdles
  <2>2. CaughtUp
    <3>1. ~BeginSync /\ ~Crash
      <4>1. ~BeginSync
        BY <1>1, <2>1 DEF BeginSync
      <4>2. Crash => S'.pc = "idle"
        BY <1>1, IdleFacts DEF Crash
      <4> QED BY <2>1, <4>1, <4>2
    <3> QED BY <1>1, <3>1, CaughtStep
  <2>3. Fitting
    BY <2>1, <2>2 DEF FittingInv
  <2>4. S.lb.id = S.snap.anno /\ S.lb.id \in AllLBs /\ ~NeedsRecreate(S.snap, S.lb)
    BY <2>3 DEF Fitting
  <2>5. ASSUME S.lb.id \in Live'
        PROVE  /\ lbs'[S.lb.id].ip = S.lb.ip /\ lbs'[S.lb.id].ready
               /\ ~ExternalRefused(S.snap, CopyOf(S.lb.id)')
    <3>1. S.lb.id \in Live /\ lbs'[S.lb.id].ip = lbs[S.lb.id].ip
          /\ (lbs[S.lb.id].ready => lbs'[S.lb.id].ready)
          /\ lbs'[S.lb.id].name \in {lbs[S.lb.id].name, "other"}
      <4>1. CASE lbs' = lbs
        BY <2>5, <4>1 DEF Live
      <4>2. CASE \E l \in AllLBs : BecomeReady(l) \/ ConsoleDelete(l) \/ ConsoleRename(l)
        <5>1. S.lb.id \in Live
          BY <1>1, <2>4, <2>5, <4>2, LBByOthers DEF Live
        <5>2. lbs'[S.lb.id].state = "live"
          BY <2>5 DEF Live
        <5> QED BY <1>1, <2>4, <4>2, <5>1, <5>2, LBByOthers
      <4> QED BY <1>11, <4>1, <4>2 DEF SvcIdles
    <3>2. lbs[S.lb.id].ip = S.lb.ip /\ lbs[S.lb.id].ready
          /\ ~ExternalRefused(S.snap, CopyOf(S.lb.id))
      BY <2>3, <3>1 DEF Fitting
    <3>3. ~ExternalRefused(S.snap, CopyOf(S.lb.id)')
      BY <2>1, <3>1, <3>2 DEF ExternalRefused, CopyOf
    <3> QED BY <3>1, <3>2, <3>3
  <2> QED BY <2>1, <2>4, <2>5 DEF Fitting
<1> QED BY <1>5, <1>6, <1>7, <1>8, <1>9, <1>10, <1>11, WhoseStep DEF Step

\* A call of the service worker that ends without an error ends in one of two
\* ways.
LEMMA CallEnds ==
  ASSUME IInv, FittingInv, TakenInv, Step(SvcWorker) \/ Fail(SvcWorker), S'.pc = "idle", ~queued'
  PROVE  \/ gone'
         \/ S.pc = "configure" /\ S.lb.id \in Live /\ lbs' = lbs
<1>1. /\ TypeOK /\ SvcWorker \in Workers /\ S = wk[SvcWorker] /\ S' = wk'[SvcWorker]
      /\ S \in Worker /\ S.op # "update"
  BY DEF IInv, Workers, S, TypeOK, SvcWorkerInv
<1>2. ~ReturnError(SvcWorker)
  BY DEF ReturnError
<1>3. /\ \A pc : Goto(SvcWorker, pc) => S'.pc = pc
      /\ \A pc, lb : GotoWith(SvcWorker, pc, lb) => S'.pc = pc
  BY <1>1, GotoEffect, GotoWithEffect
<1>4. ASSUME NEW lb, Found(SvcWorker, lb) PROVE FALSE
  <2>1. ASSUME wk' = [wk EXCEPT ![SvcWorker].pc = "fetch", ![SvcWorker].op = "delete"]
        PROVE  FALSE
    BY <1>1, <2>1 DEF TypeOK, Worker
  <2> QED BY <1>1, <1>2, <1>3, <1>4, <2>1 DEF Found
<1>5. ~NotFound(SvcWorker)
  BY <1>1, <1>2, <1>3 DEF NotFound
<1>6. ~AfterDelete(SvcWorker)
  BY <1>1, AfterDeleteEffect
<1>7. CASE FetchRefused(SvcWorker) \/ FetchByID(SvcWorker) \/ FetchByName(SvcWorker)
           \/ AnnotateFound(SvcWorker) \/ AnnotateNew(SvcWorker)
  BY <1>2, <1>3, <1>4, <1>5, <1>7
     DEF FetchRefused, FetchByID, FetchByName, AnnotateFound, AnnotateNew
<1>8. CASE CreateLB(SvcWorker)
  <2>1. \E lb : GotoWith(SvcWorker, "annotateNew", lb)
    BY <1>2, <1>8 DEF CreateLB
  <2> QED BY <1>3, <2>1
<1>9. CASE Unannotate(SvcWorker) \/ DeleteLB(SvcWorker) \/ Cleanup(SvcWorker) \/ Fail(SvcWorker)
  BY <1>2, <1>3, <1>6, <1>9 DEF Unannotate, DeleteLB, Cleanup, Fail
<1>10. CASE Configure(SvcWorker)
  <2>1. S.pc = "configure" /\ (S.snap.deleting \/ S.lb.id \in Live) /\ lbs' = lbs
    BY <1>1, <1>2, <1>10 DEF Configure
  <2>2. ~S.snap.deleting
    BY <2>1 DEF FittingInv, TakenInv
  <2> QED BY <2>1, <2>2
<1>11. CASE RemoveFinalizer(SvcWorker)
  BY <1>11 DEF RemoveFinalizer
<1> QED BY <1>7, <1>8, <1>9, <1>10, <1>11 DEF Step

\* At rest, the Service has what it asks for.
LEMMA SettledNext ==
  ASSUME IInv, LatestInv, TakenInv, FittingInv, SettledAtRest, [Next]_vars
  PROVE  SettledAtRest'
<1>1. /\ TypeOK /\ SvcWorker \in Workers /\ S = wk[SvcWorker] /\ S' = wk'[SvcWorker]
  BY DEF IInv, Workers, S
<1> SUFFICES ASSUME CaughtUp', S'.pc = "idle", ~gone'
             PROVE  \/ svc'.anno \in AllLBs /\ lbs'[svc'.anno].state = "removed"
                    \/ /\ svc'.anno \in Live' /\ lbs'[svc'.anno].ready
                       /\ ~NeedsRecreate(svc', CopyOf(svc.anno)')
                       /\ ~ExternalRefused(svc', CopyOf(svc.anno)')
  BY <1>1 DEF SettledAtRest, CaughtUp
<1>2. ~BeginSync
  <2>1. BeginSync => S'.pc = "fetch"
    BY <1>1, StartEffect DEF BeginSync
  <2> QED BY <2>1
<1>3. ~Crash
  <2> SUFFICES ASSUME Crash PROVE FALSE
    OBVIOUS
  <2>1. ~gone /\ (queued' <=> ~gone) /\ ~queued'
    BY <1>1 DEF Crash, CaughtUp, TypeOK
  <2> QED BY <2>1
<1>4. CaughtUp /\ svc' = svc
  BY <1>1, <1>2, <1>3, CaughtStep DEF Quiet
<1>5. CASE Step(SvcWorker) \/ Fail(SvcWorker)
  <2>1. S.pc = "configure" /\ S.lb.id \in Live /\ lbs' = lbs
    BY <1>5, CallEnds DEF CaughtUp
  <2>2. Fitting /\ S.snap = svc
    BY <1>4, <2>1 DEF FittingInv, CaughtUp, TakenInv, LatestInv
  <2>3. /\ svc.anno = S.lb.id /\ ~NeedsRecreate(svc, S.lb)
        /\ lbs[svc.anno].ip = S.lb.ip /\ lbs[svc.anno].ready
        /\ ~ExternalRefused(svc, CopyOf(svc.anno))
    BY <2>1, <2>2 DEF Fitting
  <2>4. ~NeedsRecreate(svc, CopyOf(svc.anno))
    BY <2>3 DEF NeedsRecreate, privateModeMismatch, reservedIPMismatch,
                hasEqualLoadBalancerStaticIPs, CopyOf
  <2>5. CopyOf(svc.anno)' = CopyOf(svc.anno) /\ Live' = Live
    BY <1>4, <2>1 DEF CopyOf, Live
  <2> QED BY <1>4, <2>1, <2>3, <2>4, <2>5
<1>6. CASE SvcIdles
  <2>1. S.pc = "idle" /\ ~gone
    BY <1>6 DEF SvcIdles
  <2>2. \/ svc.anno \in AllLBs /\ lbs[svc.anno].state = "removed"
        \/ /\ svc.anno \in Live /\ lbs[svc.anno].ready
           /\ ~NeedsRecreate(svc, CopyOf(svc.anno))
           /\ ~ExternalRefused(svc, CopyOf(svc.anno))
    BY <1>1, <1>4, <2>1 DEF SettledAtRest, CaughtUp
  <2>3. CASE lbs' = lbs
    <3>1. CopyOf(svc.anno)' = CopyOf(svc.anno) /\ Live' = Live
      BY <1>4, <2>3 DEF CopyOf, Live
    <3> QED BY <1>4, <2>2, <2>3, <3>1
  <2>4. CASE \E l \in AllLBs : BecomeReady(l) \/ ConsoleDelete(l) \/ ConsoleRename(l)
    <3>1. svc.anno \in AllLBs
      BY <2>2 DEF Live
    <3>2. \/ lbs'[svc.anno] = lbs[svc.anno]
          \/ svc.anno \in Live /\ lbs'[svc.anno].state = "removed"
          \/ /\ svc.anno \in Live /\ lbs'[svc.anno].state = "live"
             /\ lbs'[svc.anno].ip = lbs[svc.anno].ip
             /\ lbs[svc.anno].ready => lbs'[svc.anno].ready
             /\ lbs'[svc.anno].name \in {lbs[svc.anno].name, "other"}
      BY <1>1, <2>4, <3>1, LBByOthers
    <3>3. CASE lbs'[svc.anno] = lbs[svc.anno]
      <4>1. CopyOf(svc.anno)' = CopyOf(svc.anno) /\ (svc.anno \in Live' <=> svc.anno \in Live)
        BY <1>4, <3>1, <3>3 DEF CopyOf, Live
      <4> QED BY <1>4, <2>2, <3>3, <4>1
    <3>4. CASE svc.anno \in Live /\ lbs'[svc.anno].state = "removed"
      BY <1>4, <3>1, <3>4
    <3>5. CASE /\ svc.anno \in Live /\ lbs'[svc.anno].state = "live"
               /\ lbs'[svc.anno].ip = lbs[svc.anno].ip
               /\ lbs[svc.anno].ready => lbs'[svc.anno].ready
               /\ lbs'[svc.anno].name \in {lbs[svc.anno].name, "other"}
      <4>1. /\ lbs[svc.anno].ready /\ ~NeedsRecreate(svc, CopyOf(svc.anno))
            /\ ~ExternalRefused(svc, CopyOf(svc.anno))
        BY <2>2, <3>5 DEF Live
      <4>2. /\ CopyOf(svc.anno)'.ip = CopyOf(svc.anno).ip
            /\ CopyOf(svc.anno)'.name \in {CopyOf(svc.anno).name, "other"}
        BY <1>4, <3>5 DEF CopyOf
      <4>3. ~NeedsRecreate(svc, CopyOf(svc.anno)')
        BY <4>1, <4>2 DEF NeedsRecreate, privateModeMismatch, reservedIPMismatch,
                          hasEqualLoadBalancerStaticIPs
      <4>4. ~ExternalRefused(svc, CopyOf(svc.anno)')
        BY <4>1, <4>2 DEF ExternalRefused
      <4>5. svc.anno \in Live'
        BY <3>1, <3>5 DEF Live
      <4> QED BY <1>4, <3>5, <4>1, <4>3, <4>4, <4>5
    <3> QED BY <3>2, <3>3, <3>4, <3>5
  <2> QED BY <1>6, <2>3, <2>4 DEF SvcIdles
<1> QED BY <1>2, <1>3, <1>5, <1>6, WhoseStep

\* At the start the Service is queued, and the only IDs are those of LBs that
\* others have created.
LEMMA RestInit == Init => RestInv
<1> SUFFICES ASSUME Init PROVE RestInv
  OBVIOUS
<1>1. /\ cache = svc /\ watch = <<>> /\ queued /\ svc.anno \in ForeignLBs \cup {NoLB}
      /\ \A w \in Workers : wk[w] = Idle(w)
  BY DEF Init
<1>2. S = Idle(SvcWorker)
  BY <1>1 DEF S, Workers
<1>3. /\ S.pc = "idle" /\ ~S.recreated
      /\ \A w \in Workers : Idle(w).snap.anno = NoLB /\ Idle(w).lb.id = NoLB
  BY <1>2 DEF Idle, NoSnap, NoCopy
<1>4. ForeignLBs \subseteq Born /\ NoLB \in Born
  BY ConstantsAssumption DEF Init, Born, AllLBs
<1>5. LatestInv
  BY <1>1 DEF LatestInv
<1>6. BornInv
  BY <1>1, <1>3, <1>4 DEF BornInv
<1>7. TakenInv /\ PatchInv /\ FittingInv
  BY <1>3 DEF TakenInv, PatchInv, FittingInv
<1>8. SettledAtRest
  BY <1>1 DEF SettledAtRest
<1> QED BY <1>5, <1>6, <1>7, <1>8 DEF RestInv

\* Whatever node syncs, users, failures and late copies did: when nothing is
\* left to deliver, nothing is queued and the service worker is idle, the
\* Service is gone, its LB has been removed by a user, or its ID annotation
\* names a ready LB that fits it (EnsureLoadBalancer and the retries of the
\* service controller).
THEOREM ServiceSettledAtRest == Spec => []SettledAtRest
<1>1. IInv /\ RestInv /\ [Next]_vars => RestInv'
  <2> SUFFICES ASSUME IInv, RestInv, [Next]_vars PROVE RestInv'
    OBVIOUS
  <2>1. TypeOK /\ LatestInv /\ TakenInv /\ BornInv /\ PatchInv /\ FittingInv /\ SettledAtRest
    BY DEF IInv, RestInv
  <2> QED BY <2>1, LatestNext, TakenNext, BornNext, PatchNext, FittingNext, SettledNext DEF RestInv
<1>2. RestInv => SettledAtRest
  BY DEF RestInv
<1>3. Spec => []IInv
  BY IInvInit, IInvNext, PTL DEF Spec
<1> QED BY <1>1, <1>2, <1>3, RestInit, PTL DEF Spec
=============================================================================
