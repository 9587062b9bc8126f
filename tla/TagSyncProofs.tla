--------------------------- MODULE TagSyncProofs ---------------------------
(***************************************************************************)
(* Proofs about TagSync: types, and that a patch from a copy of any age    *)
(* removes no label of others and, with current tags, keeps it in sync.    *)
(***************************************************************************)
EXTENDS TagSync, TLAPS

LEMMA LastTag ==
  ASSUME NEW ts \in TagLists, NEW keys, NEW k \in Keys
  PROVE  FromTags(ts, keys)[k] \in Values \cup {NoValue}
<1> DEFINE last == {i \in DOMAIN ts : keys[i] = k /\ \A j \in DOMAIN ts : keys[j] = k => j <= i}
           v == IF last = {} THEN NoValue ELSE ValueOf(ts[CHOOSE i \in last : TRUE])
<1>1. FromTags(ts, keys)[k] = v
  BY DEF FromTags
<1>2. ts \in Seq(Tag \cup {ExcludeTag})
  BY ConstantsAssumption
<1>3. \A i \in DOMAIN ts : ValueOf(ts[i]) \in Values
  BY <1>2, ConstantsAssumption DEF ValueOf, Tag
<1>4. CASE last # {}
  <2>1. (CHOOSE i \in last : TRUE) \in DOMAIN ts
    BY <1>4
  <2> HIDE DEF last
  <2> QED BY <1>1, <1>3, <1>4, <2>1
<1>5. CASE last = {}
  BY <1>1, <1>5
<1> QED BY <1>4, <1>5

LEMMA WantedMaps ==
  ASSUME NEW ts \in TagLists, NEW copy \in Object
  PROVE  WantedLabels(copy, ts) \in ValueMap /\ WantedTaints(copy, ts) \in ValueMap
<1>1. \A k \in Keys : /\ FromTags(ts, LabelKeys(ts))[k] \in Values \cup {NoValue}
                      /\ FromTags(ts, TaintKeys(ts))[k] \in Values \cup {NoValue}
  BY LastTag
<1>2. \A k \in Keys : copy.labels[k] \in Values \cup {NoValue}
                      /\ copy.taints[k] \in Values \cup {NoValue}
  BY DEF Object, ValueMap
<1> QED BY <1>1, <1>2 DEF WantedLabels, WantedTaints, ValueMap

\* A patch keeps every label that is not the CCM's, whatever the copy was.
LEMMA MergeKeeps ==
  ASSUME NEW now, NEW ts, NEW copy, NEW k \in PlainKeys, ~k.prefixed, now[k] # NoValue
  PROVE  Merge(now, copy.labels, WantedLabels(copy, ts))[k] # NoValue
<1> DEFINE l == FromTags(ts, LabelKeys(ts))
           new == WantedLabels(copy, ts)
<1>1. k \in Keys /\ k # Exclude
  BY ConstantsAssumption DEF Keys
<1>2. ~Removable(k, copy.labels[k])
  BY <1>1 DEF Removable
<1>3. new[k] = IF l[k] # NoValue THEN l[k] ELSE copy.labels[k]
  BY <1>1, <1>2 DEF WantedLabels
<1>4. Merge(now, copy.labels, new)[k] = IF new[k] = copy.labels[k] THEN now[k] ELSE new[k]
  BY <1>1 DEF Merge
<1> HIDE DEF l, new
<1>5. Merge(now, copy.labels, new)[k] # NoValue
  BY <1>3, <1>4
<1> QED BY <1>5 DEF new

LEMMA Written ==
  ASSUME TypeOK, NEW o \in Object, Write(o)
  PROVE  obj' \in Object /\ watch' \in Seq(Object)
BY DEF Write, TypeOK

LEMMA Started ==
  ASSUME TypeOK, NEW w \in Workers, Start(w)
  PROVE  wk' \in [Workers -> Call \cup {Idle}]
<1>1. [pc |-> "get", copy |-> cache, tags |-> tags] \in Call
  BY DEF TypeOK, Call
<1> QED BY <1>1 DEF Start, TypeOK

LEMMA Calls ==
  ASSUME TypeOK, NEW w \in Workers, wk[w].pc # "idle"
  PROVE  wk[w] \in Call
BY DEF TypeOK, Idle

\* What a patch makes of the object.
Patched(w, sent) ==
  [labels |-> Merge(obj.labels, wk[w].copy.labels, WantedLabels(wk[w].copy, wk[w].tags)),
   taints |-> IF sent THEN WantedTaints(wk[w].copy, wk[w].tags) ELSE obj.taints,
   ready  |-> obj.ready]

LEMMA PatchedObject ==
  ASSUME TypeOK, NEW w \in Workers, wk[w].pc = "patch", NEW sent
  PROVE  /\ Patched(w, sent) \in Object
         /\ Patched(w, sent).labels =
              Merge(obj.labels, wk[w].copy.labels, WantedLabels(wk[w].copy, wk[w].tags))
<1> DEFINE c == wk[w].copy
           ls == WantedLabels(c, wk[w].tags)
           ts == WantedTaints(c, wk[w].tags)
           ms == Merge(obj.labels, c.labels, ls)
           us == IF sent THEN ts ELSE obj.taints
<1>1. c \in Object /\ wk[w].tags \in TagLists /\ obj \in Object
  BY Calls DEF Call, TypeOK
<1>2. ls \in ValueMap /\ ts \in ValueMap
  BY <1>1, WantedMaps
<1>3. ms \in ValueMap
  <2> HIDE DEF ls
  <2> QED BY <1>1, <1>2 DEF Merge, ValueMap, Object
<1>4. us \in ValueMap
  <2> HIDE DEF ts
  <2> QED BY <1>1, <1>2 DEF Object
<1>5. Patched(w, sent) = [labels |-> ms, taints |-> us, ready |-> obj.ready]
  BY DEF Patched
<1> HIDE DEF ms, us
<1>6. Patched(w, sent).labels = ms
  BY <1>5
<1> QED BY <1>1, <1>3, <1>4, <1>5, <1>6 DEF Object, ms, ls, c

LEMMA TypeStep == TypeOK /\ [Next]_vars => TypeOK'
<1> SUFFICES ASSUME TypeOK, [Next]_vars PROVE TypeOK'
  OBVIOUS
<1> USE ConstantsAssumption
<1>1. CASE BeginQueue
  <2>1. wk' \in [Workers -> Call \cup {Idle}]
    BY <1>1, Started DEF BeginQueue, Workers
  <2>2. retries' \in 0..MaxRetries
    BY <1>1 DEF BeginQueue, TypeOK
  <2> QED BY <1>1, <2>1, <2>2 DEF BeginQueue, TypeOK
<1>2. CASE BeginPeriodic
  <2>1. wk' \in [Workers -> Call \cup {Idle}]
    BY <1>2, Started DEF BeginPeriodic, Workers
  <2> QED BY <1>2, <2>1 DEF BeginPeriodic, TypeOK
<1>3. ASSUME NEW w \in Workers, GetTags(w) PROVE TypeOK'
  <2>1. wk[w] \in Call
    BY <1>3, Calls DEF GetTags
  <2>2. wk' = [wk EXCEPT ![w] = [pc |-> "patch", copy |-> wk[w].copy, tags |-> tags]]
    BY <1>3 DEF GetTags
  <2>3. [pc |-> "patch", copy |-> wk[w].copy, tags |-> tags] \in Call
    BY <2>1 DEF TypeOK, Call
  <2>4. wk' \in [Workers -> Call \cup {Idle}]
    BY <2>2, <2>3 DEF TypeOK
  <2> QED BY <1>3, <2>4 DEF GetTags, TypeOK
<1>4. ASSUME NEW w \in Workers, Patch(w) PROVE TypeOK'
  <2>1. wk[w] \in Call
    BY <1>4, Calls DEF Patch
  <2>2. wk' \in [Workers -> Call \cup {Idle}]
    BY <1>4, <2>1 DEF Patch, TypeOK, Call
  <2>3. \E sent : Patched(w, sent) \in Object /\ Write(Patched(w, sent))
    BY <1>4, PatchedObject DEF Patch, Patched
  <2>4. obj' \in Object /\ watch' \in Seq(Object)
    BY <2>3, Written
  <2> QED BY <1>4, <2>2, <2>4 DEF Patch, TypeOK
<1>5. ASSUME NEW w \in Workers, Finish(w) PROVE TypeOK'
  <2>1. wk' \in [Workers -> Call \cup {Idle}] /\ retries' \in 0..MaxRetries
    BY <1>5 DEF Finish, TypeOK
  <2> QED BY <1>5, <2>1 DEF Finish, TypeOK
<1>6. ASSUME NEW w \in Workers, Fail(w) PROVE TypeOK'
  <2>1. wk' \in [Workers -> Call \cup {Idle}]
    BY <1>6 DEF Fail, TypeOK
  <2>2. retries' \in 0..MaxRetries /\ fails' \in 0..MaxFails
    BY <1>6 DEF Fail, TypeOK, NextRetries
  <2>3. queued' \in BOOLEAN
    BY <1>6 DEF Fail, TypeOK
  <2> QED BY <1>6, <2>1, <2>2, <2>3 DEF Fail, TypeOK
<1>7. CASE Restart
  <2>1. wk' \in [Workers -> Call \cup {Idle}]
    BY <1>7 DEF Restart
  <2>2. watch' \in Seq(Object) /\ fails' \in 0..MaxFails /\ retries' \in 0..MaxRetries
    BY <1>7 DEF Restart, TypeOK
  <2> QED BY <1>7, <2>1, <2>2 DEF Restart, TypeOK
<1>8. CASE Deliver
  <2>1. cache' \in Object /\ watch' \in Seq(Object)
    BY <1>8 DEF Deliver, TypeOK
  <2> QED BY <1>8, <2>1 DEF Deliver, TypeOK
<1>9. CASE ChangeTags
  BY <1>9 DEF ChangeTags, TypeOK, TagsFor
<1>10. CASE OtherWrites
  <2>1. PICK o \in {[obj EXCEPT !.ready = TRUE]}
                 \cup {[obj EXCEPT !.labels[k] = v] : k \in OtherKeys, v \in Values \cup {NoValue}}
                 \cup {[obj EXCEPT !.taints[k] = v] : k \in OtherKeys \ {Exclude},
                                                      v \in Values \cup {NoValue}} : Write(o)
    BY <1>10 DEF OtherWrites
  <2>2. o \in Object
    <3>1. obj \in Object /\ OtherKeys \subseteq Keys
      BY DEF TypeOK
    <3>2. CASE o = [obj EXCEPT !.ready = TRUE]
      <4> DEFINE yes == TRUE
      <4>1. yes \in BOOLEAN /\ o = [obj EXCEPT !.ready = yes]
        BY <3>2
      <4> HIDE DEF yes
      <4> QED BY <3>1, <4>1 DEF Object
    <3>3. ASSUME NEW k \in Keys, NEW v \in Values \cup {NoValue}, o = [obj EXCEPT !.labels[k] = v]
          PROVE  o \in Object
      <4>1. [obj.labels EXCEPT ![k] = v] \in ValueMap
        BY <3>1 DEF Object, ValueMap
      <4>2. o = [obj EXCEPT !.labels = [obj.labels EXCEPT ![k] = v]]
        BY <3>3
      <4> QED BY <3>1, <4>1, <4>2 DEF Object
    <3>4. ASSUME NEW k \in Keys, NEW v \in Values \cup {NoValue}, o = [obj EXCEPT !.taints[k] = v]
          PROVE  o \in Object
      <4>1. [obj.taints EXCEPT ![k] = v] \in ValueMap
        BY <3>1 DEF Object, ValueMap
      <4>2. o = [obj EXCEPT !.taints = [obj.taints EXCEPT ![k] = v]]
        BY <3>4
      <4> QED BY <3>1, <4>1, <4>2 DEF Object
    <3> QED BY <2>1, <3>1, <3>2, <3>3, <3>4
  <2>3. obj' \in Object /\ watch' \in Seq(Object)
    BY <2>1, <2>2, Written
  <2> QED BY <1>10, <2>3 DEF OtherWrites, TypeOK
<1>11. CASE UNCHANGED vars
  BY <1>11 DEF vars, TypeOK
<1> QED
  BY <1>1, <1>2, <1>3, <1>4, <1>5, <1>6, <1>7, <1>8, <1>9, <1>10, <1>11 DEF Next, Step

LEMMA TypeInit == Init => TypeOK
BY ConstantsAssumption DEF Init, TypeOK, Object, ValueMap, NoValues, TagsFor

\* Type correctness: for any lists of tags, any lag and any number of failures.
THEOREM TagsTypeCorrect == Spec => []TypeOK
BY TypeInit, TypeStep, PTL DEF Spec

\* No patch of the CCM removes a label without its prefix, however old the copy
\* was that it was computed from and whoever writes labels meanwhile.
THEOREM OthersKeepTheirLabels == Spec => OthersLabelsKept
<1> DEFINE Kept == edits' = edits =>
       \A k \in PlainKeys : ~k.prefixed /\ obj.labels[k] # NoValue => obj'.labels[k] # NoValue
<1>1. TypeOK /\ [Next]_vars => [Kept]_vars
  <2> SUFFICES ASSUME TypeOK, Next, edits' = edits, NEW k \in PlainKeys,
                      ~k.prefixed, obj.labels[k] # NoValue
               PROVE  obj'.labels[k] # NoValue
    OBVIOUS
  <2>1. ASSUME NEW w \in Workers, Patch(w) PROVE obj'.labels[k] # NoValue
    <3>1. \E sent : obj' = Patched(w, sent)
      BY <2>1 DEF Patch, Write, Patched
    <3>2. obj'.labels = Merge(obj.labels, wk[w].copy.labels,
                              WantedLabels(wk[w].copy, wk[w].tags))
      BY <2>1, <3>1, PatchedObject DEF Patch
    <3> QED BY <3>2, MergeKeeps
  <2>2. ASSUME NEW w \in Workers, GetTags(w) \/ Finish(w) \/ Fail(w) PROVE obj' = obj
    BY <2>2 DEF GetTags, Finish, Fail
  <2>3. BeginQueue \/ BeginPeriodic \/ Restart \/ Deliver => obj' = obj
    BY DEF BeginQueue, BeginPeriodic, Restart, Deliver
  <2>4. edits \in Int
    BY DEF TypeOK
  <2>5. ~ChangeTags /\ ~OtherWrites
    BY <2>4 DEF ChangeTags, OtherWrites
  <2> QED BY <2>1, <2>2, <2>3, <2>5 DEF Next, Step
<1> QED BY <1>1, TypeInit, TypeStep, PTL DEF Spec, OthersLabelsKept

-----------------------------------------------------------------------------
(***************************************************************************)
(* A patch with the current tags.                                          *)
(***************************************************************************)
\* What InSync asks of one label and of one taint: l and t are what the tags
\* give, v is the value on the object.
LabelFits(l, k, v) == IF l[k] # NoValue THEN v = l[k] ELSE v # NoValue => ~Removable(k, v)
TaintFits(t, k, v) == IF t[k] # NoValue THEN v = t[k]
                                        ELSE v # NoValue => k = Exclude \/ ~k.prefixed

\* A label that fits, or is as the copy has it, fits after the patch.
LEMMA MergedFits ==
  ASSUME NEW ts, NEW now, NEW copy, NEW k \in Keys,
         \/ LabelFits(FromTags(ts, LabelKeys(ts)), k, now[k])
         \/ copy.labels[k] = now[k]
  PROVE  LabelFits(FromTags(ts, LabelKeys(ts)), k,
                   Merge(now, copy.labels, WantedLabels(copy, ts))[k])
<1> DEFINE l == FromTags(ts, LabelKeys(ts))
           old == copy.labels
           new == WantedLabels(copy, ts)
<1>1. new[k] = IF l[k] # NoValue THEN l[k]
               ELSE IF Removable(k, old[k]) THEN NoValue ELSE old[k]
  BY DEF WantedLabels
<1>2. Merge(now, old, new)[k] = IF new[k] = old[k] THEN now[k] ELSE new[k]
  BY DEF Merge
<1>3. LabelFits(l, k, now[k]) \/ old[k] = now[k]
  OBVIOUS
<1> HIDE DEF l, old, new
<1>4. LabelFits(l, k, Merge(now, old, new)[k])
  BY <1>1, <1>2, <1>3 DEF LabelFits
<1> QED BY <1>4 DEF l, old, new

\* The taints of a patch fit, whatever the copy has.
LEMMA WantedTaintsFit ==
  ASSUME NEW ts, NEW copy, NEW k \in Keys
  PROVE  TaintFits(FromTags(ts, TaintKeys(ts)), k, WantedTaints(copy, ts)[k])
<1> DEFINE t == FromTags(ts, TaintKeys(ts))
<1>1. WantedTaints(copy, ts)[k] = IF t[k] # NoValue THEN t[k]
                                  ELSE IF k # Exclude /\ k.prefixed THEN NoValue
                                  ELSE copy.taints[k]
  BY DEF WantedTaints
<1> HIDE DEF t
<1>2. TaintFits(t, k, WantedTaints(copy, ts)[k])
  BY <1>1 DEF TaintFits
<1> QED BY <1>2 DEF t

LEMMA FitsIsInSync ==
  InSync <=> \A k \in Keys :
               /\ LabelFits(FromTags(tags, LabelKeys(tags)), k, obj.labels[k])
               /\ TaintFits(FromTags(tags, TaintKeys(tags)), k, obj.taints[k])
BY DEF InSync, LabelFits, TaintFits

LEMMA PatchStep ==
  ASSUME TypeOK, NEW w \in Workers, Patch(w), wk[w].tags = tags, InSync \/ wk[w].copy = obj
  PROVE  InSync'
<1> DEFINE c == wk[w].copy
           l == FromTags(tags, LabelKeys(tags))
           t == FromTags(tags, TaintKeys(tags))
<1>1. PICK sent \in TaintsDiffer(c, WantedTaints(c, tags)) : obj' = Patched(w, sent)
  BY DEF Patch, Write, Patched
<1>2. /\ obj'.labels = Merge(obj.labels, c.labels, WantedLabels(c, tags))
      /\ obj'.taints = IF sent THEN WantedTaints(c, tags) ELSE obj.taints
  BY <1>1 DEF Patched
<1>3. ~sent => WantedTaints(c, tags) = c.taints
  BY <1>1 DEF TaintsDiffer
<1>4. UNCHANGED <<kind, tags>>
  BY DEF Patch
<1>5. ASSUME NEW k \in Keys PROVE LabelFits(l, k, obj'.labels[k])
  <2>1. LabelFits(l, k, obj.labels[k]) \/ c.labels[k] = obj.labels[k]
    BY FitsIsInSync
  <2> QED BY <1>2, <2>1, MergedFits
<1>6. ASSUME NEW k \in Keys PROVE TaintFits(t, k, obj'.taints[k])
  <2>1. TaintFits(t, k, WantedTaints(c, tags)[k])
    BY WantedTaintsFit
  <2>2. TaintFits(t, k, obj.taints[k]) \/ c.taints = obj.taints
    BY FitsIsInSync
  <2> HIDE DEF t
  <2> QED BY <1>2, <1>3, <2>1, <2>2
<1>7. InSync' <=> \A k \in Keys : LabelFits(l, k, obj'.labels[k]) /\ TaintFits(t, k, obj'.taints[k])
  <2>1. FromTags(tags, LabelKeys(tags))' = l /\ FromTags(tags, TaintKeys(tags))' = t
    BY <1>4, Zenon DEF LabelKeys, LabelKey
  <2>2. \A k \in Keys : Removable(k, obj.labels[k])' <=> Removable(k, obj'.labels[k])
    BY <1>4, Zenon DEF Removable
  <2> HIDE DEF l, t
  <2> QED BY <2>1, <2>2 DEF InSync, LabelFits, TaintFits
<1> QED BY <1>5, <1>6, <1>7

\* No other step ends a patch.
LEMMA OnlyPatch ==
  ASSUME TypeOK, Next, NEW w \in Workers, wk[w].pc = "patch", wk'[w].pc = "done"
  PROVE  Patch(w)
<1>1. wk \in [Workers -> Call \cup {Idle}] /\ Idle.pc = "idle"
  BY DEF TypeOK, Idle
<1>2. CASE BeginQueue \/ BeginPeriodic
  BY <1>1, <1>2, ConstantsAssumption DEF BeginQueue, BeginPeriodic, Start, Workers
<1>3. CASE Restart \/ Deliver \/ ChangeTags \/ OtherWrites
  BY <1>1, <1>3 DEF Restart, Deliver, ChangeTags, OtherWrites
<1>4. ASSUME NEW v \in Workers, GetTags(v) \/ Finish(v) \/ Fail(v) PROVE FALSE
  BY <1>1, <1>4 DEF GetTags, Finish, Fail
<1>5. ASSUME NEW v \in Workers, Patch(v) PROVE v = w
  BY <1>1, <1>5 DEF Patch
<1> QED BY <1>2, <1>3, <1>4, <1>5 DEF Next, Step

\* A patch with the current tags never puts the object out of sync, however old
\* its copy is, and puts it in sync if that copy is current (syncNodeTags,
\* SyncLBTags and their patches): for any tags, lags and failures.
THEOREM CurrentTagsSync == Spec => PatchSyncs
<1>1. TypeOK /\ [Next]_vars =>
        [\A w \in Workers :
           /\ wk[w].pc = "patch" /\ wk'[w].pc = "done" /\ wk[w].tags = tags
           /\ InSync \/ wk[w].copy = obj
           => InSync']_vars
  BY PatchStep, OnlyPatch
<1> QED BY <1>1, TypeInit, TypeStep, PTL DEF Spec, PatchSyncs
=============================================================================
