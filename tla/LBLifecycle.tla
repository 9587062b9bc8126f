---------------------------- MODULE LBLifecycle ----------------------------
(***************************************************************************)
(* The life of the load balancer (LB) of ONE Service of type LoadBalancer: *)
(* how the cloud controller manager finds, creates, recreates, adopts and  *)
(* deletes it (scaleway/loadbalancers.go).  What the CCM puts INTO the LB  *)
(* (updateLoadBalancer) is the subject of LBReconcile; here it is one step.*)
(*                                                                         *)
(* Three parties share the state:                                          *)
(*   - the API server holds the Service (svc); the CCM works on copies its *)
(*     informer delivers, in order but possibly late (cache, watch);       *)
(*   - the Scaleway API holds the LBs (lbs) and their IPs;                 *)
(*   - the workers of the Kubernetes service controller, an external       *)
(*     library, call the CCM: SvcWorker calls EnsureLoadBalancer and, for a*)
(*     Service being deleted, GetLoadBalancer and EnsureLoadBalancerDeleted*)
(*     (one call at a time for a Service); the NodeSyncs call              *)
(*     UpdateLoadBalancer whenever the nodes change, without a lock.       *)
(* One action is one call to an API, so every interleaving of two calls    *)
(* happens, and a worker may fail (Fail) or the process crash (Crash)      *)
(* between any two of them: a lost answer is a step followed by a Fail.    *)
(***************************************************************************)
EXTENDS Integers, Sequences, FiniteSets

CONSTANTS
  LBIds,        \* ids the cloud may give to LBs the CCM creates (the quota)
  ForeignLBs,   \* LBs the CCM did not create
  NoLB,         \* no load balancer (no ID annotation)
  StaticIPs,    \* flexible IPs the user reserved
  NoIP,         \* no static IP requested / an LB without IP (private)
  Flexible,     \* a flexible IP allocated by CreateLB itself
  ExtValues,    \* values of the externally-managed annotation that occur
  SvcWorker,    \* the worker that owns the Service's key of the workqueue
  NodeSyncs,    \* the workers of the node sync loop
  HasPN,        \* l.pnID # "": the cluster is in a private network
  MaxEdits,     \* bound: what users do to the Service and to the LBs
  MaxFails,     \* bound: failures and crashes
  MaxLag        \* bound: versions of the Service the informer lags behind

AllLBs  == LBIds \cup ForeignLBs
Workers == {SvcWorker} \cup NodeSyncs

ASSUME ConstantsAssumption ==
  /\ LBIds \cap ForeignLBs = {}
  /\ NoLB \notin AllLBs
  /\ NoIP \notin StaticIPs
  /\ Flexible \notin StaticIPs
  /\ Flexible # NoIP
  /\ "no" \in ExtValues /\ ExtValues \subseteq {"no", "yes", "bad"}
  /\ SvcWorker \notin NodeSyncs
  /\ HasPN \in BOOLEAN
  /\ MaxEdits \in Nat
  /\ MaxFails \in Nat
  /\ MaxLag \in Nat

VARIABLES
  svc,       \* the Service in the API server
  gone,      \* its finalizer is removed: the object no longer exists
  cache,     \* the informer's copy of the Service
  watch,     \* versions of the Service the informer has not seen yet
  queued,    \* the Service's key is in the workqueue
  lbs,       \* the LBs of the Scaleway API
  wk,        \* the workers: what each is doing and what it remembers
  edits,     \* user actions so far
  fails,     \* failures so far
  missed,    \* history: a verdict taken from the ID annotation alone hid a
             \* live LB that bears the Service's name
  dropped,   \* history: static IPs the user took out of the Service
  released,  \* history: reserved IPs that DeleteLB released
  orphaned   \* history: DeleteLB left the LB's own flexible IP allocated

vars == <<svc, gone, cache, watch, queued, lbs, wk, edits, fails,
          missed, dropped, released, orphaned>>
informer == <<cache, watch, queued>>
budgets  == <<edits, fails>>
ipHist   == <<dropped, released, orphaned>>

(***************************************************************************)
(* The Service: the ID annotation, the annotations and the field that      *)
(* decide which LB it wants, and the deletion timestamp.  ipIDs and        *)
(* spec.loadBalancerIP are one field: both name reserved IPs.              *)
(***************************************************************************)
Service == [anno     : AllLBs \cup {NoLB},
            ext      : ExtValues,
            private  : BOOLEAN,
            ip       : StaticIPs \cup {NoIP},
            deleting : BOOLEAN]

\* An LB's name is the one GetLoadBalancerName gives ("own"), another one that
\* starts with the cluster's prefix ("cluster"), or neither ("other").
LBNames  == {"own", "cluster", "other"}
LBStates == {"unborn", "live", "deleted", "removed"}

\* "deleted": by the CCM; "removed": by a user, in the console.
LB == [state : LBStates,
       name  : LBNames,
       ip    : StaticIPs \cup {NoIP, Flexible},
       ready : BOOLEAN]

\* The copy of an LB that GetLB, ListLBs or CreateLB returned to a worker.
Copy == [id    : AllLBs \cup {NoLB},
         name  : LBNames,
         ip    : StaticIPs \cup {NoIP, Flexible},
         ready : BOOLEAN]

Ops == {"ensure", "get", "delete", "update"}
PCs == {"idle", "fetch", "annotate", "create", "annotateNew", "unannotate",
        "deleteLB", "configure", "cleanup", "finalize"}

Worker == [pc        : PCs,
           op        : Ops,
           snap      : Service,   \* the *v1.Service argument of the call
           lb        : Copy,      \* the lb variable of the call
           recreated : BOOLEAN]   \* past deleteLoadBalancer in EnsureLoadBalancer

CopyOf(l) == [id |-> l, name |-> lbs[l].name, ip |-> lbs[l].ip,
              ready |-> lbs[l].ready]

NoCopy == [id |-> NoLB, name |-> "other", ip |-> NoIP, ready |-> FALSE]

NoSnap == [anno |-> NoLB, ext |-> "no", private |-> FALSE, ip |-> NoIP,
           deleting |-> FALSE]

\* A worker between two calls: it remembers nothing.
Idle(w) == [pc |-> "idle", op |-> IF w = SvcWorker THEN "ensure" ELSE "update",
            snap |-> NoSnap, lb |-> NoCopy, recreated |-> FALSE]

\* What is left of an LB that no longer exists.
Dead(state) == [state |-> state, name |-> "other", ip |-> NoIP, ready |-> FALSE]

Live == {l \in AllLBs : lbs[l].state = "live"}
Own  == {l \in Live : lbs[l].name = "own"}

-----------------------------------------------------------------------------
(***************************************************************************)
(* What the code decides from a Service and a copy of an LB.               *)
(***************************************************************************)

hasLoadBalancerStaticIPs(s) == s.ip # NoIP

hasEqualLoadBalancerStaticIPs(s, lb) ==
  hasLoadBalancerStaticIPs(s) => lb.ip = s.ip

\* Mutant: an LB with a static IP is taken for a private one.
privateModeMismatch_StaticIsPrivate(s, lb) == s.private # (lb.ip # Flexible)

privateModeMismatch(s, lb) == s.private # (lb.ip = NoIP)

reservedIPMismatch(s, lb) ==
  hasLoadBalancerStaticIPs(s) /\ ~hasEqualLoadBalancerStaticIPs(s, lb)

\* Whether EnsureLoadBalancer deletes the LB to create another one.
NeedsRecreate(s, lb) ==
  /\ s.ext = "no"
  /\ privateModeMismatch(s, lb) \/ reservedIPMismatch(s, lb)

\* The early returns of EnsureLoadBalancer that precede its first API call.
EnsureRefused(s) ==
  \/ s.ext = "bad"
  \/ s.private /\ ~HasPN
  \/ s.private /\ hasLoadBalancerStaticIPs(s)

\* An externally managed LB must not bear a name of this cluster.
ExternalRefused(s, lb) == s.ext = "yes" /\ lb.name \in {"own", "cluster"}

\* Mutant: only the cluster's prefix of the name is compared.
Renamed_PrefixOnly(lb) == lb.name \notin {"own", "cluster"}

\* A renamed LB is left alone by deleteLoadBalancer.
Renamed(lb) == lb.name # "own"

\* Mutant: the IP always goes with the LB.
ReleasesIP_Always(s) == TRUE

\* ReleaseIP of the DeleteLB request.
ReleasesIP(s) == ~hasLoadBalancerStaticIPs(s)

\* CreateLB (and ListIPs before it) refuse an IP that is in use or unknown.
IPAvailable(ip) == ip \notin released /\ \A l \in Live : lbs[l].ip # ip

createRefused(s) ==
  \/ s.ext # "no"
  \/ ~s.private /\ hasLoadBalancerStaticIPs(s) /\ ~IPAvailable(s.ip)
  \/ \A l \in LBIds : lbs[l].state # "unborn"

\* Mutant: a private LB is created with a flexible IP.
CreatedIP_NeverPrivate(s) == IF hasLoadBalancerStaticIPs(s) THEN s.ip ELSE Flexible

\* The IPs of the LB that CreateLB returns.
CreatedIP(s) == IF s.private THEN NoIP
                ELSE IF hasLoadBalancerStaticIPs(s) THEN s.ip ELSE Flexible

-----------------------------------------------------------------------------
(***************************************************************************)
(* The API server and the informer.  A write that changes the Service is a *)
(* new version on the watch; a patch is computed from the worker's own     *)
(* snapshot and carries no resourceVersion, so it never conflicts.         *)
(***************************************************************************)
WriteService(s) ==
  /\ s = svc \/ Len(watch) < MaxLag
  /\ svc'   = s
  /\ watch' = IF s = svc THEN watch ELSE Append(watch, s)

\* ServicePatcher.Patch on a Service that exists: only the ID annotation can
\* differ, and a patch that changes nothing in the snapshot is not sent.
PatchAnno(snap, id) ==
  IF snap.anno = id THEN UNCHANGED <<svc, watch>>
                    ELSE WriteService([svc EXCEPT !.anno = id])

\* A patch that is sent for an object that is gone is answered NotFound.
PatchRefused(snap, id) == gone /\ snap.anno # id

-----------------------------------------------------------------------------
(***************************************************************************)
(* Control of a worker.  A call that returns an error is retried by the    *)
(* service controller (the key goes back to the queue).                    *)
(***************************************************************************)
Goto(w, pc) == wk' = [wk EXCEPT ![w].pc = pc]

GotoWith(w, pc, lb) == wk' = [wk EXCEPT ![w].pc = pc, ![w].lb = lb]

Return(w) == wk' = [wk EXCEPT ![w] = Idle(w)]

ReturnError(w) ==
  /\ Return(w)
  /\ queued' = (queued \/ w = SvcWorker)
  /\ UNCHANGED <<cache>>

ReturnOK(w) == Return(w) /\ UNCHANGED <<queued, cache>>

\* Mutant: EnsureLoadBalancer does not look at the status of the LB.
Found_AnyStatus(w, lb) ==
  LET s  == wk[w].snap
      op == wk[w].op
      on == CASE op = "update" -> "configure"
              [] op = "ensure" -> IF NeedsRecreate(s, lb) /\ ~wk[w].recreated
                                    THEN "unannotate" ELSE "configure"
              [] op = "delete" -> IF s.ext = "yes" THEN "cleanup" ELSE "unannotate"
              [] op = "get"    -> "fetch"
  IN /\ IF op = "get" THEN wk' = [wk EXCEPT ![w].pc = on, ![w].op = "delete"]
                      ELSE GotoWith(w, on, lb)
     /\ UNCHANGED <<queued, cache>>

\* fetchLoadBalancer returned lb to its caller.
Found(w, lb) ==
  LET s  == wk[w].snap
      op == wk[w].op
  IN \/ /\ op = "ensure" /\ NeedsRecreate(s, lb) /\ ~wk[w].recreated
        /\ GotoWith(w, "unannotate", lb) /\ UNCHANGED <<queued, cache>>
     \/ /\ op = "ensure" /\ (~NeedsRecreate(s, lb) \/ wk[w].recreated)
        /\ IF lb.ready
             THEN GotoWith(w, "configure", lb) /\ UNCHANGED <<queued, cache>>
             ELSE ReturnError(w)                \* LoadBalancerNotReady
     \/ /\ op = "update"
        /\ GotoWith(w, "configure", lb) /\ UNCHANGED <<queued, cache>>
     \/ /\ op = "get"                           \* EnsureLoadBalancerDeleted
        /\ wk' = [wk EXCEPT ![w].pc = "fetch", ![w].op = "delete"]
        /\ UNCHANGED <<queued, cache>>
     \/ /\ op = "delete"
        /\ GotoWith(w, IF s.ext = "yes" THEN "cleanup" ELSE "unannotate", lb)
        /\ UNCHANGED <<queued, cache>>

\* Mutant: EnsureLoadBalancerDeleted returns LoadBalancerNotFound as an error.
NotFound_DeleteFails(w) ==
  IF wk[w].op = "ensure" THEN Goto(w, "create") /\ UNCHANGED <<queued, cache>>
                         ELSE ReturnError(w)

\* fetchLoadBalancer returned LoadBalancerNotFound.
NotFound(w) ==
  \/ /\ wk[w].op = "ensure"
     /\ Goto(w, "create") /\ UNCHANGED <<queued, cache>>
  \/ /\ wk[w].op \in {"get", "delete"}
     /\ Goto(w, "finalize") /\ UNCHANGED <<queued, cache>>
  \/ /\ wk[w].op = "update"
     /\ ReturnError(w)

\* The service worker goes on without having looked for an LB by name.
MissedOwn(w) == missed' = (missed \/ (w = SvcWorker /\ Own # {}))

-----------------------------------------------------------------------------
(***************************************************************************)
(* The calls of the service controller (external).                         *)
(***************************************************************************)
Start(w, op) == wk' = [wk EXCEPT ![w].pc = "fetch", ![w].op = op,
                                 ![w].snap = cache]

\* syncService: GetLoadBalancer and EnsureLoadBalancerDeleted for a Service
\* being deleted, EnsureLoadBalancer otherwise.  A call that EnsureRefused
\* turns away touches nothing and leaves the key in the queue.
BeginSync ==
  /\ wk[SvcWorker].pc = "idle" /\ queued
  /\ cache.deleting \/ ~EnsureRefused(cache)
  /\ Start(SvcWorker, IF cache.deleting THEN "get" ELSE "ensure")
  /\ queued' = FALSE
  /\ UNCHANGED <<svc, gone, cache, watch, lbs, budgets, missed, ipHist>>

\* The nodes changed: UpdateLoadBalancer.
BeginNodeSync(w) ==
  /\ w \in NodeSyncs /\ wk[w].pc = "idle" /\ ~gone
  /\ Start(w, "update")
  /\ UNCHANGED <<svc, gone, informer, lbs, budgets, missed, ipHist>>

-----------------------------------------------------------------------------
(***************************************************************************)
(* fetchLoadBalancer.                                                      *)
(***************************************************************************)

\* The annotation is malformed, or an externally managed LB is not named.
FetchRefused(w) ==
  /\ wk[w].pc = "fetch"
  /\ LET s == wk[w].snap IN s.ext = "bad" \/ (s.ext = "yes" /\ s.anno = NoLB)
  /\ ReturnError(w)
  /\ UNCHANGED <<svc, gone, watch, lbs, budgets, missed, ipHist>>

\* GetLB of the annotated LB: found, refused or 404.
FetchByID(w) ==
  LET s == wk[w].snap IN
  /\ wk[w].pc = "fetch" /\ s.ext # "bad" /\ s.anno # NoLB
  /\ \/ /\ s.anno \in Live /\ ExternalRefused(s, CopyOf(s.anno))
        /\ ReturnError(w) /\ UNCHANGED missed
     \/ /\ s.anno \in Live /\ ~ExternalRefused(s, CopyOf(s.anno))
        /\ Found(w, CopyOf(s.anno)) /\ UNCHANGED missed
     \/ /\ s.anno \notin Live
        /\ NotFound(w) /\ MissedOwn(w)
  /\ UNCHANGED <<svc, gone, watch, lbs, budgets, ipHist>>

\* Mutant: an LB that is still being set up is not considered.
ListedByName_ReadyOnly == {l \in Own : lbs[l].ready}

\* The LBs that ListLBs returns for the Service's name.
ListedByName == Own

\* getLoadbalancerByName: ListLBs, then the annotation of the LB it found.
FetchByName(w) ==
  LET s == wk[w].snap IN
  /\ wk[w].pc = "fetch" /\ s.ext = "no" /\ s.anno = NoLB
  /\ \/ ListedByName = {} /\ NotFound(w)
     \/ \E l \in ListedByName : /\ ListedByName = {l}
                                /\ GotoWith(w, "annotate", CopyOf(l))
                                /\ UNCHANGED <<queued, cache>>
     \/ /\ \E l, m \in ListedByName : l # m
        /\ ReturnError(w)                       \* LoadBalancerDuplicated
  /\ UNCHANGED <<svc, gone, watch, lbs, budgets, missed, ipHist>>

\* Mutant: the annotation is the LB's name instead of its id.
AnnotationOf_Name(lb) == lb.name

\* The value of the ID annotation (zone/id) for an LB.
AnnotationOf(lb) == lb.id

AnnotateFound(w) ==
  LET s == wk[w].snap  lb == wk[w].lb IN
  /\ wk[w].pc = "annotate"
  /\ IF PatchRefused(s, AnnotationOf(lb))
       THEN ReturnError(w) /\ UNCHANGED <<svc, watch>>
       ELSE PatchAnno(s, AnnotationOf(lb)) /\ Found(w, lb)
  /\ UNCHANGED <<gone, lbs, budgets, missed, ipHist>>

-----------------------------------------------------------------------------
(***************************************************************************)
(* createLoadBalancer and deleteLoadBalancer.                              *)
(***************************************************************************)
CreateLB(w) ==
  LET s == wk[w].snap IN
  /\ wk[w].pc = "create"
  /\ \/ createRefused(s) /\ ReturnError(w) /\ UNCHANGED lbs
     \/ /\ ~createRefused(s)
        /\ \E l \in LBIds :
             /\ lbs[l].state = "unborn"
             /\ lbs' = [lbs EXCEPT ![l] = [state |-> "live", name |-> "own",
                                           ip |-> CreatedIP(s), ready |-> FALSE]]
             /\ GotoWith(w, "annotateNew", [id |-> l, name |-> "own",
                                            ip |-> CreatedIP(s), ready |-> FALSE])
        /\ UNCHANGED <<queued, cache>>
  /\ UNCHANGED <<svc, gone, watch, budgets, missed, ipHist>>

AnnotateNew(w) ==
  LET s == wk[w].snap  lb == wk[w].lb IN
  /\ wk[w].pc = "annotateNew"
  /\ IF PatchRefused(s, AnnotationOf(lb))
       THEN ReturnError(w) /\ UNCHANGED <<svc, watch>>
       ELSE PatchAnno(s, AnnotationOf(lb)) /\ Found(w, lb)
  /\ UNCHANGED <<gone, lbs, budgets, missed, ipHist>>

\* What follows deleteLoadBalancer in its two callers.
AfterDelete(w) ==
  /\ IF wk[w].op = "ensure"
       THEN wk' = [wk EXCEPT ![w].pc = "create", ![w].recreated = TRUE]
       ELSE Goto(w, "finalize")
  /\ UNCHANGED <<queued, cache>>

\* unannotateAndPatch, the first thing deleteLoadBalancer does; a renamed LB
\* is not deleted.
Unannotate(w) ==
  LET s == wk[w].snap IN
  /\ wk[w].pc = "unannotate"
  /\ \/ /\ PatchRefused(s, NoLB)
        /\ ReturnError(w) /\ UNCHANGED <<svc, watch, missed>>
     \/ /\ ~PatchRefused(s, NoLB) /\ PatchAnno(s, NoLB)
        /\ IF Renamed(wk[w].lb)
             THEN AfterDelete(w) /\ MissedOwn(w)
             ELSE /\ Goto(w, "deleteLB")
                  /\ UNCHANGED <<queued, cache, missed>>
  /\ UNCHANGED <<gone, lbs, budgets, ipHist>>

\* DeleteLB, by id; the cloud answers 404 when the LB is gone already.
DeleteLB(w) ==
  LET s == wk[w].snap  l == wk[w].lb.id IN
  /\ wk[w].pc = "deleteLB"
  /\ IF l \in Live
       THEN /\ lbs' = [lbs EXCEPT ![l] = Dead("deleted")]
            /\ released' = IF ReleasesIP(s) THEN released \cup ({lbs[l].ip} \cap StaticIPs)
                                            ELSE released
            /\ orphaned' = (orphaned \/ (lbs[l].ip = Flexible /\ ~ReleasesIP(s)))
            /\ AfterDelete(w)
       ELSE ReturnError(w) /\ UNCHANGED <<lbs, released, orphaned>>
  /\ UNCHANGED <<svc, gone, watch, budgets, missed, dropped>>

-----------------------------------------------------------------------------
(***************************************************************************)
(* The last steps of the calls.                                            *)
(***************************************************************************)

\* updateLoadBalancer and createServiceStatus: see LBReconcile.  An LB that
\* no longer exists makes the calls to the cloud fail.
Configure(w) ==
  /\ wk[w].pc = "configure"
  /\ IF wk[w].snap.deleting \/ wk[w].lb.id \in Live
       THEN ReturnOK(w)
       ELSE ReturnError(w)
  /\ UNCHANGED <<svc, gone, watch, lbs, budgets, missed, ipHist>>

\* removeExternallyManagedResources: the LB itself stays.
Cleanup(w) ==
  /\ wk[w].pc = "cleanup"
  /\ IF wk[w].lb.id \in Live
       THEN Goto(w, "finalize") /\ UNCHANGED <<queued, cache>> /\ MissedOwn(w)
       ELSE ReturnError(w) /\ UNCHANGED missed
  /\ UNCHANGED <<svc, gone, watch, lbs, budgets, ipHist>>

\* EnsureLoadBalancerDeleted returned nil (or GetLoadBalancer found no LB):
\* the service controller removes the finalizer.
RemoveFinalizer(w) ==
  /\ wk[w].pc = "finalize"
  /\ gone' = TRUE
  /\ ReturnOK(w)
  /\ UNCHANGED <<svc, watch, lbs, budgets, missed, ipHist>>

\* Any call to an API fails, or its answer is lost: the call returns an error.
Fail(w) ==
  /\ wk[w].pc # "idle" /\ fails < MaxFails
  /\ ReturnError(w)
  /\ fails' = fails + 1
  /\ UNCHANGED <<svc, gone, watch, lbs, edits, missed, ipHist>>

\* The process dies and restarts: the calls in progress are lost, the informer
\* lists the Services again and every Service is queued.
Crash ==
  /\ fails < MaxFails
  /\ wk'     = [w \in Workers |-> Idle(w)]
  /\ cache'  = svc
  /\ watch'  = <<>>
  /\ queued' = ~gone
  /\ fails'  = fails + 1
  /\ UNCHANGED <<svc, gone, lbs, edits, missed, ipHist>>

-----------------------------------------------------------------------------
(***************************************************************************)
(* The environment: informer, cloud and users.                             *)
(***************************************************************************)
Deliver ==
  /\ watch # <<>>
  /\ cache'  = Head(watch)
  /\ watch'  = Tail(watch)
  /\ queued' = TRUE
  /\ UNCHANGED <<svc, gone, lbs, wk, budgets, missed, ipHist>>

BecomeReady(l) ==
  /\ l \in Live /\ ~lbs[l].ready
  /\ lbs' = [lbs EXCEPT ![l].ready = TRUE]
  /\ UNCHANGED <<svc, gone, informer, wk, budgets, missed, ipHist>>

UserDoes == ~gone /\ edits < MaxEdits /\ edits' = edits + 1

EditTo(s) ==
  /\ s # svc
  /\ WriteService(s)
  /\ dropped' = IF s.ip = svc.ip THEN dropped
                                 ELSE dropped \cup ({svc.ip} \cap StaticIPs)

\* The user changes what LB the Service wants, or names an existing one.
EditService ==
  /\ UserDoes
  /\ \/ \E p \in BOOLEAN, i \in StaticIPs \cup {NoIP} :
          EditTo([svc EXCEPT !.private = p, !.ip = i])
     \/ \E e \in ExtValues, a \in ForeignLBs \cup {svc.anno} :
          EditTo([svc EXCEPT !.ext = e, !.anno = a])
  /\ UNCHANGED <<gone, cache, queued, lbs, wk, fails, missed, released, orphaned>>

DeleteService ==
  /\ ~svc.deleting /\ ~gone
  /\ WriteService([svc EXCEPT !.deleting = TRUE])
  /\ UNCHANGED <<gone, cache, queued, lbs, wk, budgets, missed, ipHist>>

ConsoleDelete(l) ==
  /\ UserDoes /\ l \in Live
  /\ lbs' = [lbs EXCEPT ![l] = Dead("removed")]
  /\ UNCHANGED <<svc, gone, informer, wk, fails, missed, ipHist>>

ConsoleRename(l) ==
  /\ UserDoes /\ l \in Own
  /\ lbs' = [lbs EXCEPT ![l].name = "other"]
  /\ UNCHANGED <<svc, gone, informer, wk, fails, missed, ipHist>>

-----------------------------------------------------------------------------
Init ==
  /\ svc \in {s \in Service : s.anno \in ForeignLBs \cup {NoLB} /\ ~s.deleting}
  /\ gone = FALSE
  /\ cache = svc /\ watch = <<>> /\ queued = TRUE
  /\ \E name \in [ForeignLBs -> LBNames \ {"own"}] :
       lbs = [l \in AllLBs |->
                IF l \in LBIds
                  THEN [state |-> "unborn", name |-> "own", ip |-> NoIP, ready |-> FALSE]
                  ELSE [state |-> "live", name |-> name[l], ip |-> Flexible, ready |-> TRUE]]
  /\ wk = [w \in Workers |-> Idle(w)]
  /\ edits = 0 /\ fails = 0
  /\ missed = FALSE /\ dropped = {} /\ released = {} /\ orphaned = FALSE

\* The steps of a call once it has begun.
Step(w) == \/ FetchRefused(w) \/ FetchByID(w) \/ FetchByName(w)
           \/ AnnotateFound(w) \/ CreateLB(w) \/ AnnotateNew(w)
           \/ Unannotate(w) \/ DeleteLB(w) \/ Configure(w)
           \/ Cleanup(w) \/ RemoveFinalizer(w)

Next ==
  \/ BeginSync
  \/ \E w \in Workers : BeginNodeSync(w) \/ Step(w) \/ Fail(w)
  \/ Crash
  \/ Deliver
  \/ \E l \in AllLBs : BecomeReady(l) \/ ConsoleDelete(l) \/ ConsoleRename(l)
  \/ EditService
  \/ DeleteService

Spec == Init /\ [][Next]_vars

\* The service controller's worker and the node sync finish the calls they
\* have begun, a queued Service is synced, the informer catches up and an LB
\* becomes ready.  Users and failures owe nothing.
Fairness ==
  /\ WF_vars(BeginSync)
  /\ \A w \in Workers : WF_vars(Step(w))
  /\ WF_vars(Deliver)
  /\ \A l \in AllLBs : WF_vars(BecomeReady(l))

FairSpec == Spec /\ Fairness

-----------------------------------------------------------------------------
(***************************************************************************)
(* Properties.                                                             *)
(***************************************************************************)

\* Type correctness.
TypeOK ==
  /\ svc \in Service /\ gone \in BOOLEAN
  /\ cache \in Service /\ watch \in Seq(Service) /\ queued \in BOOLEAN
  /\ lbs \in [AllLBs -> LB]
  /\ wk \in [Workers -> Worker]
  /\ edits \in 0..MaxEdits /\ fails \in 0..MaxFails
  /\ missed \in BOOLEAN
  /\ dropped \subseteq StaticIPs /\ released \subseteq StaticIPs
  /\ orphaned \in BOOLEAN

\* A Service never has two LBs of its name, whatever crashes, lost answers,
\* stale copies and concurrent node syncs happen, unless a verdict taken from
\* the ID annotation alone (GetLB's 404 in fetchLoadBalancer, or the LB that
\* deleteLoadBalancer spares) hid the one it had: the lookup by name in
\* getLoadbalancerByName is what prevents duplicates.
OwnUnique == ~missed => \A l, m \in Own : l = m

\* When the service controller lets the Service go, no LB of its name is left
\* running, under the same condition (EnsureLoadBalancerDeleted).
NoLeak == gone /\ ~missed => Own = {}

\* The CCM never deletes an LB it did not create, even one the user named in
\* the ID annotation and whatever the externally-managed annotation becomes
\* (the rename check of deleteLoadBalancer).
ForeignSafe == \A l \in ForeignLBs : lbs[l].state # "deleted"

\* As long as no user intervenes, crashes, failures, stale copies and node
\* syncs never make the CCM create a second LB for the Service, nor delete the
\* first before the Service is deleted (EnsureLoadBalancer is idempotent).
NoChurn ==
  edits = 0 /\ ~missed =>
    /\ \A l, m \in LBIds : lbs[l].state # "unborn" /\ lbs[m].state # "unborn" => l = m
    /\ \A l \in LBIds : lbs[l].state = "deleted" => svc.deleting

\* A reserved IP is released only after the user took it out of the Service
\* at some time (ReleaseIP in deleteLoadBalancer).
ReleasedOnlyIfDropped == released \subseteq dropped

\* When the informer has caught up and the service worker has nothing to do,
\* the Service is gone or has, by its ID annotation, a ready LB of the mode and
\* with the IP it asks for, which it may manage, unless a user has removed that
\* LB behind the CCM's back: no interleaving of node syncs, deletions, users and
\* lost answers leaves the Service with a stale or a missing annotation that
\* nothing repairs (EnsureLoadBalancer, annotateAndPatch).
SettledAtRest ==
  watch = <<>> /\ ~queued /\ wk[SvcWorker].pc = "idle" =>
    \/ gone
    \/ svc.anno \in AllLBs /\ lbs[svc.anno].state = "removed"
    \/ /\ svc.anno \in Live /\ lbs[svc.anno].ready
       /\ ~NeedsRecreate(svc, CopyOf(svc.anno))
       /\ ~ExternalRefused(svc, CopyOf(svc.anno))

\* What the rest of the system sees of the LBs.
Standing ==
  [l \in AllLBs |-> IF lbs[l].state # "live" THEN lbs[l].state
                     ELSE IF lbs[l].name = "own" THEN "own" ELSE "other"]

SLB == INSTANCE ServiceLB WITH
         Created <- LBIds, Foreign <- ForeignLBs,
         standing <- Standing, over <- gone, hidden <- missed

\* Every step of a call, of a user or of a failure is a step that ServiceLB
\* allows, or changes nothing it tells apart: the CCM creates no LB for a
\* Service that has one or is gone, lets no Service go that has one, and
\* deletes no LB of others (EnsureLoadBalancer, EnsureLoadBalancerDeleted).
ImplementsServiceLB == SLB!SLBSpec

\* What EnsureLoadBalancer works towards: the annotated LB exists, is ready and
\* has the mode and the IP the Service asks for, and the worker has nothing
\* left to do.
Settled ==
  /\ svc.anno \in Live
  /\ lbs[svc.anno].ready
  /\ ~NeedsRecreate(svc, CopyOf(svc.anno))
  /\ wk[SvcWorker].pc = "idle" /\ ~queued

\* Why a Service may legitimately stay without such an LB: it is being deleted,
\* its annotations are refused, the externally managed LB cannot be used, the
\* LB was removed behind the CCM's back, the reserved IP is not to be had, or
\* the ID annotation has misled the CCM.
Excused ==
  \/ gone \/ svc.deleting \/ missed
  \/ EnsureRefused(svc)
  \/ svc.ext = "yes" /\ (svc.anno \notin Live \/ ExternalRefused(svc, CopyOf(svc.anno)))
  \/ svc.anno # NoLB /\ lbs[svc.anno].state = "removed"
  \/ svc.ip \in released \/ \E l \in Live \ {svc.anno} : lbs[l].ip = svc.ip /\ svc.ip # NoIP

\* Once users and failures stop, the Service gets the LB it asks for.
Settles == <>[](Excused \/ Settled)

\* A deleted Service does not stay: its finalizer is eventually removed, unless
\* its annotations are refused (fetchLoadBalancer's errors) or the ID
\* annotation has misled the CCM.
DeletionCompletes == svc.deleting ~> (gone \/ missed \/ svc.ext # "no")

\* What the comment on ReleaseIP in deleteLoadBalancer says ("if no static IP
\* is set, it implies an ephemeral IP"): the ephemeral IP goes with its LB.
EphemeralIPReleased == ~orphaned
=============================================================================
