------------------------------ MODULE TagSync ------------------------------
(***************************************************************************)
(* Tags of the cloud become labels and taints of Kubernetes objects        *)
(* (scaleway/sync.go, patcher.go): the tags of an Instance on its Node, the*)
(* tags of an LB on its Service.  One object of either kind is modelled;   *)
(* the code treats objects independently of one another.                   *)
(*                                                                         *)
(* Two goroutines synchronise a Node: Queue takes it from a rate-limited   *)
(* workqueue once, after the informer's add event, and Periodic walks over *)
(* all objects every five minutes; a Service has only the latter.  Each    *)
(* works on the informer's copy, which may be stale, reads the tags, and   *)
(* sends a patch: the difference between its copy and what it wants.  A    *)
(* strategic merge patch changes labels one by one, but replaces the list  *)
(* of taints as a whole.                                                   *)
(***************************************************************************)
EXTENDS Integers, Sequences, FiniteSets

CONSTANTS
  Names,        \* names of labels, taints and tags
  Values,       \* their values
  NoValue,      \* the label or taint is absent
  Exclude,      \* the key node.kubernetes.io/exclude-from-external-load-balancers
  Managed,      \* the value of that label when the CCM has set it
  Queue, Periodic,   \* the goroutines
  Kinds,        \* kinds of objects: a subset of {"node", "service"}
  TagLists,     \* lists of tags that users may set (a set of sequences)
  OtherKeys,    \* keys others (users, controllers) write on the object
  MaxRetries,   \* exponentialMaxRetries
  MaxEdits,     \* bound: what users and other controllers do
  MaxFails,     \* bound: failures and restarts
  MaxLag        \* bound: versions of the object the informer lags behind

Workers == {Queue, Periodic}

\* A key of a label, or the key and the effect of a taint.  prefixed: it starts
\* with k8s.scaleway.com/.
PlainKeys == [prefixed : BOOLEAN, name : Names]
Keys      == PlainKeys \cup {Exclude}
NoKey     == [invalid |-> TRUE]

ValueMap  == [Keys -> Values \cup {NoValue}]

\* A tag as users write it: [taint=][noprefix=]name=value.  It is valid if the
\* name, the value and the effect are.  ExcludeTag is the tag that is the
\* Exclude key itself.
Tag == [taint : BOOLEAN, noprefix : BOOLEAN, name : Names, value : Values,
        valid : BOOLEAN]
ExcludeTag == [exclude |-> TRUE]

ASSUME ConstantsAssumption ==
  /\ NoValue \notin Values /\ Managed \in Values
  /\ Exclude \notin PlainKeys
  /\ Queue # Periodic
  /\ Kinds \subseteq {"node", "service"}
  /\ TagLists \subseteq Seq(Tag \cup {ExcludeTag})
  /\ OtherKeys \subseteq Keys
  /\ MaxRetries \in Nat /\ MaxEdits \in Nat /\ MaxFails \in Nat /\ MaxLag \in Nat

VARIABLES
  kind,      \* what the object is
  obj,       \* the object in the API server
  cache,     \* the informer's copy
  watch,     \* versions of the object the informer has not seen yet
  tags,      \* the tags in the cloud
  queued,    \* the object's key is in the workqueue
  retries,   \* NumRequeues of the key
  wk,        \* the goroutines
  edits, fails

vars == <<kind, obj, cache, watch, tags, queued, retries, wk, edits, fails>>

\* ready: the object names its counterpart in the cloud (a Node's provider ID;
\* a Service's ID annotation and a status).
Object == [labels : ValueMap, taints : ValueMap, ready : BOOLEAN]

Idle == [pc |-> "idle"]
Call == [pc : {"get", "patch", "done"}, copy : Object, tags : TagLists]

\* Tags of LBs have no taints: nothing reads them as such.
TagsFor(k) == {ts \in TagLists : k = "service" =>
                 \A i \in DOMAIN ts : ts[i] = ExcludeTag \/ ~ts[i].taint}

-----------------------------------------------------------------------------
(***************************************************************************)
(* The parsers and what syncNodeTags and SyncLBTags make of their results. *)
(***************************************************************************)
tagLabelParser(t) ==
  IF t.valid THEN [prefixed |-> ~t.noprefix, name |-> t.name] ELSE NoKey

\* The key of a tag among the labels; for a Service, ExcludeTag is no valid one.
LabelKey(t) ==
  IF t = ExcludeTag THEN IF kind = "node" THEN Exclude ELSE NoKey
                    ELSE IF t.taint THEN NoKey ELSE tagLabelParser(t)

\* The key and the effect of a tag among the taints.
tagTaintParser(t) == IF t # ExcludeTag /\ t.taint THEN tagLabelParser(t) ELSE NoKey

ValueOf(t) == IF t = ExcludeTag THEN Managed ELSE t.value

LabelKeys(ts) == [i \in DOMAIN ts |-> LabelKey(ts[i])]
TaintKeys(ts) == [i \in DOMAIN ts |-> tagTaintParser(ts[i])]

\* nodeLabels, lbLabels and nodeTaints: of several tags with a key the last wins.
FromTags(ts, keys) ==
  [k \in Keys |->
     LET last == {i \in DOMAIN ts : keys[i] = k /\ \A j \in DOMAIN ts : keys[j] = k => j <= i}
     IN  IF last = {} THEN NoValue ELSE ValueOf(ts[CHOOSE i \in last : TRUE])]

\* A label that is removed when no tag gives it.
Removable(k, v) == IF k = Exclude THEN kind = "node" /\ v = Managed ELSE k.prefixed

\* Mutant: a label whose tag is gone stays.
WantedLabels_NeverDeleted(copy, ts) ==
  LET l == FromTags(ts, LabelKeys(ts))
  IN  [k \in Keys |-> IF l[k] # NoValue THEN l[k] ELSE copy.labels[k]]

WantedLabels(copy, ts) ==
  LET l == FromTags(ts, LabelKeys(ts))
  IN  [k \in Keys |-> IF l[k] # NoValue THEN l[k]
                      ELSE IF Removable(k, copy.labels[k]) THEN NoValue
                      ELSE copy.labels[k]]

WantedTaints(copy, ts) ==
  LET t == FromTags(ts, TaintKeys(ts))
  IN  [k \in Keys |-> IF t[k] # NoValue THEN t[k]
                      ELSE IF k # Exclude /\ k.prefixed THEN NoValue
                      ELSE copy.taints[k]]

Present(m) == {k \in Keys : m[k] # NoValue}

\* Mutant: only the numbers of taints are compared.
TaintsDiffer_ByCount(copy, new) ==
  {Cardinality(Present(new)) # Cardinality(Present(copy.taints))}

\* The list of taints comes out of a map: its order is random, and another
\* order makes a patch as another content does.
TaintsDiffer(copy, new) ==
  IF new # copy.taints THEN {TRUE}
  ELSE IF Cardinality(Present(new)) > 1 THEN BOOLEAN ELSE {FALSE}

\* Mutant: the labels are replaced as a whole.
Merge_Replace(now, old, new) == new

\* What a strategic merge patch from old to new makes of the labels.
Merge(now, old, new) == [k \in Keys |-> IF new[k] = old[k] THEN now[k] ELSE new[k]]

-----------------------------------------------------------------------------
Write(o) ==
  /\ o = obj \/ Len(watch) < MaxLag
  /\ obj'   = o
  /\ watch' = IF o = obj THEN watch ELSE Append(watch, o)

\* A goroutine starts with the informer's copy, and skips an object that does
\* not name its counterpart.
Start(w) == wk' = [wk EXCEPT ![w] = IF cache.ready
                                      THEN [pc |-> "get", copy |-> cache, tags |-> tags]
                                      ELSE Idle]

\* processNextActionItem: queue.Get and handleAction.
BeginQueue ==
  /\ kind = "node" /\ queued /\ wk[Queue].pc = "idle"
  /\ Start(Queue)
  /\ queued'  = FALSE
  /\ retries' = IF cache.ready THEN retries ELSE 0
  /\ UNCHANGED <<kind, obj, cache, watch, tags, edits, fails>>

\* SyncNodesTags and SyncLBTags: the list of all objects.
BeginPeriodic ==
  /\ wk[Periodic].pc = "idle"
  /\ Start(Periodic)
  /\ UNCHANGED <<kind, obj, cache, watch, tags, queued, retries, edits, fails>>

\* GetServer or GetLB.
GetTags(w) ==
  /\ wk[w].pc = "get"
  /\ wk' = [wk EXCEPT ![w] = [pc |-> "patch", copy |-> @.copy, tags |-> tags]]
  /\ UNCHANGED <<kind, obj, cache, watch, tags, queued, retries, edits, fails>>

Patch(w) ==
  LET c  == wk[w].copy
      ls == WantedLabels(c, wk[w].tags)
      ts == WantedTaints(c, wk[w].tags)
  IN
  /\ wk[w].pc = "patch"
  /\ \E sent \in TaintsDiffer(c, ts) :
       Write([labels |-> Merge(obj.labels, c.labels, ls),
              taints |-> IF sent THEN ts ELSE obj.taints, ready |-> obj.ready])
  /\ wk' = [wk EXCEPT ![w].pc = "done"]
  /\ UNCHANGED <<kind, cache, tags, queued, retries, edits, fails>>

\* The call ends: the queue forgets the key.
Finish(w) ==
  /\ wk[w].pc = "done"
  /\ wk' = [wk EXCEPT ![w] = Idle]
  /\ retries' = IF w = Queue THEN 0 ELSE retries
  /\ UNCHANGED <<kind, obj, cache, watch, tags, queued, edits, fails>>

\* Mutant: one retry too many.
NextRetries_OffByOne(n) == IF n <= MaxRetries THEN n + 1 ELSE 0

\* NumRequeues after a failure: AddRateLimited counts, Forget resets.
NextRetries(n) == IF n < MaxRetries THEN n + 1 ELSE 0

\* A call to an API fails or its answer is lost: the queue tries again, but not
\* for ever; the periodic walk goes on.
Fail(w) ==
  /\ wk[w].pc # "idle" /\ fails < MaxFails
  /\ wk' = [wk EXCEPT ![w] = Idle]
  /\ queued'  = (queued \/ (w = Queue /\ retries < MaxRetries))
  /\ retries' = IF w = Queue THEN NextRetries(retries) ELSE retries
  /\ fails' = fails + 1
  /\ UNCHANGED <<kind, obj, cache, watch, tags, edits>>

Restart ==
  /\ fails < MaxFails
  /\ wk' = [w \in Workers |-> Idle]
  /\ cache' = obj /\ watch' = <<>> /\ queued' = (kind = "node") /\ retries' = 0
  /\ fails' = fails + 1
  /\ UNCHANGED <<kind, obj, tags, edits>>

Deliver ==
  /\ watch # <<>>
  /\ cache' = Head(watch) /\ watch' = Tail(watch)
  /\ UNCHANGED <<kind, obj, tags, queued, retries, wk, edits, fails>>

\* Users change the tags; other controllers, or users, name the counterpart
\* and write labels and taints.
ChangeTags ==
  /\ edits < MaxEdits /\ edits' = edits + 1
  /\ tags' \in TagsFor(kind) \ {tags}
  /\ UNCHANGED <<kind, obj, cache, watch, queued, retries, wk, fails>>

OtherWrites ==
  /\ edits < MaxEdits /\ edits' = edits + 1
  /\ \E o \in {[obj EXCEPT !.ready = TRUE]}
              \cup {[obj EXCEPT !.labels[k] = v] : k \in OtherKeys, v \in Values \cup {NoValue}}
              \cup {[obj EXCEPT !.taints[k] = v] : k \in OtherKeys \ {Exclude},
                                                   v \in Values \cup {NoValue}} :
       o # obj /\ (kind = "service" => o.taints = obj.taints) /\ Write(o)
  /\ UNCHANGED <<kind, cache, tags, queued, retries, wk, fails>>

-----------------------------------------------------------------------------
NoValues == [k \in Keys |-> NoValue]

Init ==
  /\ kind \in Kinds
  /\ obj \in [labels : {NoValues}, taints : {NoValues}, ready : BOOLEAN]
  /\ cache = obj /\ watch = <<>>
  /\ tags \in TagsFor(kind)
  /\ queued = (kind = "node") /\ retries = 0
  /\ wk = [w \in Workers |-> Idle]
  /\ edits = 0 /\ fails = 0

Step(w) == GetTags(w) \/ Patch(w) \/ Finish(w)

Next == \/ BeginQueue \/ BeginPeriodic
        \/ \E w \in Workers : Step(w) \/ Fail(w)
        \/ Restart \/ Deliver \/ ChangeTags \/ OtherWrites

Spec == Init /\ [][Next]_vars

\* wait.Until runs the periodic walk for ever, and a call that has begun ends.
FairSpec == /\ Spec
            /\ WF_vars(BeginQueue) /\ WF_vars(BeginPeriodic) /\ WF_vars(Deliver)
            /\ \A w \in Workers : WF_vars(Step(w))

-----------------------------------------------------------------------------
(***************************************************************************)
(* Properties.                                                             *)
(***************************************************************************)

\* Type correctness.
TypeOK ==
  /\ kind \in Kinds /\ obj \in Object /\ cache \in Object /\ watch \in Seq(Object)
  /\ tags \in TagLists /\ queued \in BOOLEAN /\ retries \in 0..MaxRetries
  /\ wk \in [Workers -> Call \cup {Idle}]
  /\ edits \in 0..MaxEdits /\ fails \in 0..MaxFails

\* The object has the labels and taints of the tags, and none of the CCM's own
\* that the tags do not give.
InSync ==
  LET l == FromTags(tags, LabelKeys(tags))  t == FromTags(tags, TaintKeys(tags)) IN
  \A k \in Keys :
    /\ l[k] # NoValue => obj.labels[k] = l[k]
    /\ l[k] = NoValue /\ obj.labels[k] # NoValue => ~Removable(k, obj.labels[k])
    /\ t[k] # NoValue => obj.taints[k] = t[k]
    /\ t[k] = NoValue /\ obj.taints[k] # NoValue => k = Exclude \/ ~k.prefixed

\* Once tags and other writers are quiet, the object is and stays in sync,
\* whatever stale patches two goroutines have sent, however often calls failed
\* and although the queue has given up (SyncNodesTags, SyncLBTags).
TagsConverge == <>[](obj.ready => InSync)

\* A patch with the current tags never puts the object out of sync, however old
\* its copy of the object is, and puts it in sync if that copy is current: what
\* a late goroutine undoes, it undoes because of older tags only (the
\* difference that syncNodeTags, SyncLBTags and the patcher compute and merge).
PatchSyncs ==
  [][\A w \in Workers :
       /\ wk[w].pc = "patch" /\ wk'[w].pc = "done" /\ wk[w].tags = tags
       /\ InSync \/ wk[w].copy = obj
       => InSync']_vars

\* A label without the CCM's prefix is never removed by a patch, however stale
\* the copy it was computed from and although others write it concurrently (the
\* deletion loops of syncNodeTags and SyncLBTags, and the patch's merge).
OthersLabelsKept ==
  [][edits' = edits =>
       \A k \in PlainKeys : ~k.prefixed /\ obj.labels[k] # NoValue => obj'.labels[k] # NoValue]_vars

\* What docs/tags.md says of non prefixed taints ("when you will delete the
\* associated tag, the taint won't get removed"): the CCM never removes one.
NonPrefixedTaintsKept ==
  [][edits' = edits =>
       \A k \in PlainKeys : ~k.prefixed /\ obj.taints[k] # NoValue => obj'.taints[k] # NoValue]_vars
=============================================================================
