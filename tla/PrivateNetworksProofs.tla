----------------------- MODULE PrivateNetworksProofs -----------------------
(***************************************************************************)
(* Proofs about PrivateNetworks.  First what holds for any number of       *)
(* callers: types, the networks of an externally managed LB's owner, and   *)
(* that an IP is only attached where it belongs.  Then what a call makes   *)
(* sure of as long as no other changes the LB, from which two things       *)
(* follow.  Of one call at a time: a call that succeeds leaves the         *)
(* attachments as its Service asks, nothing is cut that is right, and when *)
(* nothing is left to do the attachments are what the Service asks for.    *)
(* Of any number of callers: so does a call that happens to run alone,     *)
(* whatever the calls that raced before it have left.                      *)
(***************************************************************************)
EXTENDS PrivateNetworksLone, FiniteSetTheorems, TLAPS

\* What a call in progress has computed: only PNs it may touch are left to do,
\* and the one it attaches gets one IP at most.
CallInv ==
  \A w \in Workers : wk[w].pc # "idle" =>
    /\ wk[w].s.ext = want.ext
    /\ want.ext => wk[w].todo \subseteq {ClusterPN} /\ wk[w].pn = ClusterPN
    /\ wk[w].pc = "attach" => ~TooManyIPs(wk[w].s, wk[w].list, wk[w].pn)

TypeInv == TypeOK /\ CallInv

LEMMA CallRecords ==
  ASSUME TypeOK, NEW w \in Workers, wk[w].pc # "idle"
  PROVE  wk[w] \in Call
BY DEF TypeOK, NoCall

\* An attachment that is made has one IP.
LEMMA OneIP ==
  ASSUME NEW s \in Wanted, NEW a \in Attachments, NEW pn \in PNs, ~TooManyIPs(s, a, pn)
  PROVE  /\ IPsOf(desiredIPIDs(s, a, pn)) \in SUBSET (IPs \cup {AutoIP})
         /\ Cardinality(IPsOf(desiredIPIDs(s, a, pn))) <= 1
         /\ IPsOf(desiredIPIDs(s, a, pn)) # Detached
<1> DEFINE D == desiredIPIDs(s, a, pn)
<1>1. D \subseteq IPs
  BY DEF desiredIPIDs, Wanted
<1>2. IsFiniteSet(D) /\ Cardinality(D) \in Nat
  BY <1>1, ConstantsAssumption, FS_Subset, FS_CardinalityType
<1>3. Cardinality({AutoIP}) = 1
  BY FS_Singleton
<1>4. Cardinality(D) <= 1
  BY <1>2 DEF TooManyIPs
<1> QED BY <1>1, <1>3, <1>4 DEF IPsOf, Detached

LEMMA NoIPs == Detached \in SUBSET (IPs \cup {AutoIP}) /\ Cardinality(Detached) <= 1
BY FS_EmptySet DEF Detached

\* The shape of the steps: which worker moves, to what.
LEMMA Typed ==
  ASSUME TypeOK, NEW w \in Workers, NEW r \in Call \cup {NoCall}, Update(w, r)
  PROVE  /\ wk' \in [Workers -> Call \cup {NoCall}] /\ wk'[w] = r
         /\ \A v \in Workers : v # w => wk'[v] = wk[v]
BY DEF TypeOK, Update

LEMMA TypeStep == TypeInv /\ [Next]_vars => TypeInv'
<1> SUFFICES ASSUME TypeOK, CallInv, [Next]_vars PROVE TypeOK' /\ CallInv'
  BY DEF TypeInv
<1> USE ConstantsAssumption
<1>1. NoCall \in Call \cup {NoCall} /\ NoCall.pc = "idle"
  BY DEF NoCall
\* A step of worker w keeps TypeOK and CallInv if what it makes of its own
\* record does.
<1>2. ASSUME NEW w \in Workers, NEW r \in Call \cup {NoCall}, Update(w, r), want' = want,
             r.pc # "idle" =>
               /\ r.s.ext = want.ext
               /\ want.ext => r.todo \subseteq {ClusterPN} /\ r.pn = ClusterPN
               /\ r.pc = "attach" => ~TooManyIPs(r.s, r.list, r.pn)
      PROVE  wk' \in [Workers -> Call \cup {NoCall}] /\ CallInv'
  BY <1>2, Typed DEF CallInv
<1>3. ASSUME NEW w \in Workers, ReturnError(w), want' = want
      PROVE  /\ wk' \in [Workers -> Call \cup {NoCall}] /\ CallInv'
             /\ pending' \subseteq Workers
  BY <1>1, <1>2, <1>3 DEF ReturnError, TypeOK
<1>4. ASSUME NEW w \in Workers, Begin(w) PROVE TypeOK' /\ CallInv'
  <2> DEFINE r == [pc |-> "list", s |-> want, list |-> att, todo |-> {}, pn |-> ClusterPN]
  <2>1. r \in Call /\ Update(w, r) /\ want' = want
    BY <1>4 DEF Begin, TypeOK, Call
  <2>2. wk' \in [Workers -> Call \cup {NoCall}] /\ CallInv'
    BY <1>2, <2>1
  <2> QED BY <1>4, <2>2 DEF Begin, TypeOK
<1>5. ASSUME NEW w \in Workers, ListLBPrivateNetworks(w) PROVE TypeOK' /\ CallInv'
  <2> DEFINE extra == Extra(wk[w].s, att)
             r == [wk[w] EXCEPT !.list = att, !.todo = extra,
                                !.pc = IF extra = {} THEN "resolve" ELSE "extra"]
  <2>1. wk[w] \in Call /\ wk[w].pc # "idle"
    BY <1>5, CallRecords DEF ListLBPrivateNetworks
  <2>2. extra \subseteq PNs /\ (wk[w].s.ext => extra = {})
    BY DEF Extra, AttachedIn
  <2>3. r \in Call /\ Update(w, r) /\ want' = want /\ r.s = wk[w].s /\ r.pn = wk[w].pn
        /\ r.todo = extra /\ r.pc # "attach"
    BY <1>5, <2>1, <2>2 DEF ListLBPrivateNetworks, TypeOK, Call
  <2>4. wk' \in [Workers -> Call \cup {NoCall}] /\ CallInv'
    <3> HIDE DEF r, extra
    <3> QED BY <1>2, <2>1, <2>2, <2>3 DEF CallInv
  <2> QED BY <1>5, <2>4 DEF ListLBPrivateNetworks, TypeOK
<1>6. ASSUME NEW w \in Workers, DetachExtra(w) PROVE TypeOK' /\ CallInv'
  <2>1. wk[w] \in Call /\ wk[w].pc # "idle"
    BY <1>6, CallRecords DEF DetachExtra
  <2>2. PICK pn \in wk[w].todo :
          IF att[pn] = Detached
          THEN ReturnError(w) /\ UNCHANGED att
          ELSE /\ att' = [att EXCEPT ![pn] = Detached]
               /\ Update(w, [wk[w] EXCEPT !.todo = @ \ {pn},
                               !.pc = IF wk[w].todo = {pn} THEN "resolve" ELSE @])
               /\ UNCHANGED pending
    BY <1>6 DEF DetachExtra
  <2>3. UNCHANGED <<want, edits, fails>>
    BY <1>6 DEF DetachExtra
  <2>4. CASE att[pn] = Detached
    BY <1>3, <2>2, <2>3, <2>4 DEF TypeOK
  <2>5. CASE att[pn] # Detached
    <3> DEFINE r == [wk[w] EXCEPT !.todo = @ \ {pn},
                               !.pc = IF wk[w].todo = {pn} THEN "resolve" ELSE @]
    <3>1. wk[w].pc = "extra"
      BY <1>6 DEF DetachExtra
    <3>2. r \in Call /\ r.s = wk[w].s /\ r.pn = wk[w].pn /\ r.todo \subseteq wk[w].todo
          /\ r.pc # "attach"
      BY <2>1, <3>1 DEF Call
    <3>3. Update(w, r)
      BY <2>2, <2>5
    <3>4. wk' \in [Workers -> Call \cup {NoCall}] /\ CallInv'
      <4> HIDE DEF r
      <4> QED BY <1>2, <2>1, <2>3, <3>2, <3>3 DEF CallInv
    <3>5. att' \in Attachments /\ \A q \in PNs : Cardinality(att'[q]) <= 1
      BY <2>2, <2>5, NoIPs DEF TypeOK, Attachments
    <3> QED BY <2>2, <2>3, <2>5, <3>4, <3>5 DEF TypeOK
  <2> QED BY <2>4, <2>5
<1>7. ASSUME NEW w \in Workers, ResolveIPs(w) PROVE TypeOK' /\ CallInv'
  <2>1. wk[w] \in Call /\ wk[w].pc # "idle"
    BY <1>7, CallRecords DEF ResolveIPs
  <2>2. UNCHANGED <<want, att, edits, fails>>
    BY <1>7 DEF ResolveIPs
  <2>3. CASE ReturnError(w)
    BY <1>3, <2>2, <2>3 DEF TypeOK
  <2>4. CASE Update(w, Continue(wk[w], ToReconcile(wk[w].s, wk[w].list))) /\ UNCHANGED pending
    <3> DEFINE todo == ToReconcile(wk[w].s, wk[w].list)
               r == Continue(wk[w], todo)
    <3>1. todo \subseteq Targets(wk[w].s)
      BY DEF ToReconcile
    <3>2. todo \subseteq PNs /\ (wk[w].s.ext => todo \subseteq {ClusterPN})
      BY <2>1, <3>1 DEF Targets, Call, Wanted
    <3>3. r \in Call /\ r.s = wk[w].s /\ r.pn = wk[w].pn /\ r.todo = todo /\ r.pc # "attach"
      <4> HIDE DEF todo
      <4> QED BY <2>1, <3>2 DEF Continue, Call
    <3>4. wk' \in [Workers -> Call \cup {NoCall}] /\ CallInv'
      <4> HIDE DEF r, todo
      <4> QED BY <1>2, <2>1, <2>2, <2>4, <3>2, <3>3 DEF CallInv, r, todo
    <3> QED BY <2>2, <2>4, <3>4 DEF TypeOK
  <2> QED BY <1>7, <2>3, <2>4 DEF ResolveIPs
<1>8. ASSUME NEW w \in Workers, Reattach(w) PROVE TypeOK' /\ CallInv'
  <2> DEFINE s == wk[w].s
             a == wk[w].list
  <2>1. wk[w] \in Call /\ wk[w].pc # "idle"
    BY <1>8, CallRecords DEF Reattach
  <2>2. PICK pn \in wk[w].todo :
          IF TooManyIPs(s, a, pn) \/ (a[pn] # Detached /\ att[pn] = Detached)
          THEN ReturnError(w) /\ UNCHANGED att
          ELSE /\ att' = IF a[pn] = Detached THEN att ELSE [att EXCEPT ![pn] = Detached]
               /\ Update(w, [wk[w] EXCEPT !.pc = "attach", !.pn = pn])
               /\ UNCHANGED pending
    BY <1>8 DEF Reattach
  <2>3. UNCHANGED <<want, edits, fails>>
    BY <1>8 DEF Reattach
  <2>4. CASE ReturnError(w) /\ UNCHANGED att
    BY <1>3, <2>3, <2>4 DEF TypeOK
  <2>5. CASE ~(ReturnError(w) /\ UNCHANGED att)
    <3> DEFINE r == [wk[w] EXCEPT !.pc = "attach", !.pn = pn]
    <3>1. ~TooManyIPs(s, a, pn)
          /\ att' = (IF a[pn] = Detached THEN att ELSE [att EXCEPT ![pn] = Detached])
          /\ Update(w, r) /\ UNCHANGED pending
      BY <2>2, <2>5
    <3>2. r \in Call /\ r.s = s /\ r.list = a /\ r.pn = pn /\ r.todo = wk[w].todo
          /\ r.pc = "attach" /\ pn \in PNs
      BY <2>1 DEF Call
    <3>3. wk' \in [Workers -> Call \cup {NoCall}] /\ CallInv'
      <4> HIDE DEF r
      <4> QED BY <1>2, <2>1, <2>2, <2>3, <3>1, <3>2 DEF CallInv
    <3>4. att' \in Attachments /\ \A q \in PNs : Cardinality(att'[q]) <= 1
      BY <3>1, NoIPs DEF TypeOK, Attachments
    <3> QED BY <2>3, <3>1, <3>3, <3>4 DEF TypeOK
  <2> QED BY <2>4, <2>5
<1>9. ASSUME NEW w \in Workers, Attach(w) PROVE TypeOK' /\ CallInv'
  <2> DEFINE r == wk[w]
             new == IPsOf(desiredIPIDs(r.s, r.list, r.pn))
             next == Continue(r, r.todo \ {r.pn})
  <2>1. r \in Call /\ r.pc = "attach"
    BY <1>9, CallRecords DEF Attach
  <2>2. UNCHANGED <<want, edits, fails>>
    BY <1>9 DEF Attach
  <2>3. CASE ReturnError(w) /\ UNCHANGED att
    BY <1>3, <2>2, <2>3 DEF TypeOK
  <2>4. CASE /\ att' = [att EXCEPT ![r.pn] = new]
             /\ Update(w, next) /\ UNCHANGED pending
    <3>1. ~TooManyIPs(r.s, r.list, r.pn) /\ r.s.ext = want.ext
          /\ (want.ext => r.todo \subseteq {ClusterPN} /\ r.pn = ClusterPN)
      BY <2>1 DEF CallInv
    <3>2. new \in SUBSET (IPs \cup {AutoIP}) /\ Cardinality(new) <= 1
      BY <2>1, <3>1, OneIP DEF Call
    <3>3. next \in Call /\ next.s = r.s /\ next.pn = r.pn /\ next.todo \subseteq r.todo
          /\ next.pc # "attach"
      BY <2>1 DEF Continue, Call
    <3>4. wk' \in [Workers -> Call \cup {NoCall}] /\ CallInv'
      <4> HIDE DEF next, r, new
      <4> QED BY <1>2, <2>2, <2>4, <3>1, <3>3
    <3>5. att' \in Attachments /\ \A q \in PNs : Cardinality(att'[q]) <= 1
      <4> HIDE DEF new
      <4> QED BY <2>1, <2>4, <3>2 DEF TypeOK, Attachments
    <3> QED BY <2>2, <2>4, <3>4, <3>5 DEF TypeOK
  <2> QED BY <1>9, <2>3, <2>4 DEF Attach
<1>10. ASSUME NEW w \in Workers, Return(w) PROVE TypeOK' /\ CallInv'
  BY <1>1, <1>2, <1>10 DEF Return, TypeOK
<1>11. ASSUME NEW w \in Workers, Fail(w) PROVE TypeOK' /\ CallInv'
  <2>1. wk' \in [Workers -> Call \cup {NoCall}] /\ CallInv' /\ pending' \subseteq Workers
    BY <1>3, <1>11 DEF Fail
  <2> QED BY <1>11, <2>1 DEF Fail, TypeOK
<1>12. CASE EditService
  <2>1. PICK p \in SUBSET PNs, i \in SUBSET IPs : want' = [want EXCEPT !.pns = p, !.ips = i]
    BY <1>12 DEF EditService
  <2>2. want' \in Wanted /\ want'.ext = want.ext
    BY <2>1 DEF TypeOK, Wanted
  <2> QED BY <1>12, <2>2 DEF EditService, TypeOK, CallInv
<1>13. CASE UNCHANGED vars
  BY <1>13 DEF vars, TypeOK, CallInv
<1> QED
  BY <1>4, <1>5, <1>6, <1>7, <1>8, <1>9, <1>10, <1>11, <1>12, <1>13 DEF Next, Step

LEMMA TypeInit == Init => TypeInv
<1> SUFFICES ASSUME Init PROVE TypeInv
  OBVIOUS
<1> USE ConstantsAssumption
<1>1. Cardinality({AutoIP}) = 1
  BY FS_Singleton
<1>2. att \in Attachments /\ \A pn \in PNs : Cardinality(att[pn]) <= 1
  BY <1>1, NoIPs DEF Init, Attachments
<1>3. want \in Wanted
  BY DEF Init, Wanted
<1>4. \A w \in Workers : wk[w] = NoCall
  BY DEF Init
<1>5. CallInv
  BY <1>4 DEF CallInv, NoCall
<1>6. wk \in [Workers -> Call \cup {NoCall}]
  BY DEF Init
<1> QED BY <1>2, <1>3, <1>5, <1>6 DEF Init, TypeInv, TypeOK

\* Type correctness, however many calls race: an attachment never has two IPs.
THEOREM NetworksTypeCorrect == Spec => []TypeOK
<1>1. TypeInv => TypeOK
  BY DEF TypeInv
<1> QED BY <1>1, TypeInit, TypeStep, PTL DEF Spec

\* Whatever calls race, from whatever copies: of an externally managed LB only
\* the attachment to the cluster's PN is changed (lbExternallyManaged in
\* attachPrivateNetworks).
THEOREM OwnersKeepTheirNetworks == Spec => OwnersNetworksUntouched
<1>1. TypeInv /\ [Next]_vars =>
        [want.ext => \A pn \in PNs \ {ClusterPN} : att'[pn] = att[pn]]_vars
  <2> SUFFICES ASSUME TypeOK, CallInv, Next, want.ext, NEW pn \in PNs \ {ClusterPN}
               PROVE  att'[pn] = att[pn]
    BY DEF TypeInv
  <2>1. CASE EditService
    BY <2>1 DEF EditService
  <2>2. ASSUME NEW w \in Workers, Begin(w) \/ Fail(w) PROVE att'[pn] = att[pn]
    BY <2>2 DEF Begin, Fail
  <2>3. ASSUME NEW w \in Workers,
               ListLBPrivateNetworks(w) \/ ResolveIPs(w) \/ Return(w)
        PROVE  att'[pn] = att[pn]
    BY <2>3 DEF ListLBPrivateNetworks, ResolveIPs, Return
  <2>4. ASSUME NEW w \in Workers, DetachExtra(w) \/ Reattach(w) PROVE att'[pn] = att[pn]
    <3>1. wk[w].todo \subseteq {ClusterPN}
      BY <2>4, Zenon DEF DetachExtra, Reattach, CallInv
    <3>2. \A q \in {ClusterPN} : [att EXCEPT ![q] = Detached][pn] = att[pn]
      BY DEF TypeOK, Attachments
    <3> QED BY <2>4, <3>1, <3>2, Zenon DEF DetachExtra, Reattach
  <2>5. ASSUME NEW w \in Workers, Attach(w) PROVE att'[pn] = att[pn]
    <3>1. wk[w].pn = ClusterPN
      BY <2>5 DEF Attach, CallInv
    <3> QED BY <2>5, <3>1 DEF Attach, TypeOK, Attachments
  <2> QED BY <2>1, <2>2, <2>3, <2>4, <2>5 DEF Next, Step
<1> QED BY <1>1, TypeInit, TypeStep, PTL DEF Spec, OwnersNetworksUntouched

-----------------------------------------------------------------------------
(***************************************************************************)
(* A call that no other disturbs.                                          *)
(***************************************************************************)
\* An IP is only ever attached in the PN it belongs to.
AtHome(a) == \A pn \in PNs : \A ip \in a[pn] \cap IPs : NetOf[ip] = pn

\* AsWanted, of attachments a.
Fits(s, a, pn) == /\ pn \in Targets(s) /\ a[pn] # Detached
                  /\ Requested(s, pn) = {} \/ a[pn] = Requested(s, pn)

NoneExtra(s, a) == s.ext \/ AttachedIn(a) \subseteq Targets(s)

\* What a call r that runs alone knows of the attachments a: those it still has
\* to change are as in its list, the others are as they should be.
Loop(r, a) ==
  /\ r.pc # "list" => AtHome(r.list)
  /\ r.pc = "extra" =>
       /\ r.todo \cap Targets(r.s) = {}
       /\ r.s.ext \/ AttachedIn(a) \ Targets(r.s) \subseteq r.todo
  /\ r.pc \in {"extra", "resolve"} => \A pn \in Targets(r.s) : a[pn] = r.list[pn]
  /\ r.pc \notin {"list", "extra"} => NoneExtra(r.s, a)
  /\ r.pc \in {"reconcile", "attach", "done"} =>
       /\ r.todo \subseteq ToReconcile(r.s, r.list)
       /\ \A pn \in Targets(r.s) \ r.todo : Fits(r.s, a, pn)
  /\ r.pc = "reconcile" => \A pn \in r.todo : a[pn] = r.list[pn]
  /\ r.pc = "attach" => /\ r.pn \in r.todo
                        /\ \A pn \in r.todo \ {r.pn} : a[pn] = r.list[pn]
  /\ r.pc = "done" => r.todo = {}

\* What is true of any call, races or not: it attaches an IP to its own PN.
Home(r) ==
  /\ r.pc # "list" => AtHome(r.list)
  /\ r.pc \in {"reconcile", "attach"} => r.todo \subseteq Targets(r.s)
  /\ r.pc = "attach" => r.pn \in r.todo

HomeInv == AtHome(att) /\ \A w \in Workers : wk[w].pc # "idle" => Home(wk[w])

\* What a call in progress knows, and what it must know after its step.
Knows(w) == wk[w].pc # "idle" => Loop(wk[w], att)
StillKnows(w) == wk'[w].pc # "idle" => Loop(wk'[w], att')

LEMMA TargetPNs == ASSUME NEW s \in Wanted PROVE Targets(s) \subseteq PNs
BY ConstantsAssumption DEF Wanted, Targets

\* The code finds the PN of each requested IP.
LEMMA DesiredIsRequested ==
  ASSUME NEW s \in Wanted, NEW a \in Attachments, AtHome(a), NEW pn \in Targets(s)
  PROVE  desiredIPIDs(s, a, pn) = Requested(s, pn)
<1>1. s.ips \subseteq IPs /\ Targets(s) \subseteq PNs
  BY TargetPNs DEF Wanted
<1>2. \A ip \in s.ips : \A q \in Targets(s) : ip \in a[q] => NetOf[ip] = q
  BY <1>1 DEF AtHome
<1> QED BY <1>2 DEF desiredIPIDs, Requested

\* A PN that the last loop skips is as it should be.
LEMMA SkippedFits ==
  ASSUME NEW s \in Wanted, NEW a \in Attachments, AtHome(a),
         NEW pn \in Targets(s), pn \notin ToReconcile(s, a)
  PROVE  Fits(s, a, pn)
BY DesiredIsRequested DEF ToReconcile, AlreadyCorrect, Fits

\* A PN that it does not skip is not, or the call ends.
LEMMA ReconciledDiffers ==
  ASSUME NEW s \in Wanted, NEW a \in Attachments, AtHome(a),
         NEW pn \in ToReconcile(s, a), ~TooManyIPs(s, a, pn)
  PROVE  ~Fits(s, a, pn)
BY DesiredIsRequested DEF ToReconcile, AlreadyCorrect, Fits

\* Nor is a PN that has just been attached ever wrong.
LEMMA AttachedFits ==
  ASSUME NEW s \in Wanted, NEW a \in Attachments, AtHome(a), NEW pn \in Targets(s),
         NEW now \in Attachments, now[pn] = IPsOf(desiredIPIDs(s, a, pn))
  PROVE  Fits(s, now, pn) /\ \A ip \in now[pn] \cap IPs : NetOf[ip] = pn
<1>1. now[pn] = IPsOf(Requested(s, pn))
  BY DesiredIsRequested
<1> QED BY <1>1, ConstantsAssumption DEF Fits, IPsOf, Requested, Detached

LEMMA HomeStep == TypeInv /\ HomeInv /\ [Next]_vars => HomeInv'
<1> SUFFICES ASSUME TypeInv, TypeInv', HomeInv, [Next]_vars PROVE HomeInv'
  BY TypeStep
<1>0. TypeOK /\ CallInv /\ TypeOK' /\ att \in Attachments /\ att' \in Attachments
  BY DEF TypeInv, TypeOK
<1>1. ASSUME NEW w \in Workers, NEW r \in Call \cup {NoCall}, Update(w, r),
             AtHome(att'), r.pc # "idle" => Home(r)
      PROVE  HomeInv'
  <2>1. wk'[w] = r /\ \A v \in Workers : v # w => wk'[v] = wk[v]
    BY <1>0, <1>1, Typed
  <2> QED BY <1>1, <2>1 DEF HomeInv
<1>2. ASSUME NEW w \in Workers, ReturnError(w), AtHome(att') PROVE HomeInv'
  BY <1>1, <1>2 DEF ReturnError, NoCall
<1>3. AtHome(att) /\ \A pn \in PNs : AtHome([att EXCEPT ![pn] = Detached])
  BY <1>0 DEF HomeInv, AtHome, Attachments, Detached
<1>4. ASSUME NEW w \in Workers, Begin(w) PROVE HomeInv'
  <2> DEFINE r == [pc |-> "list", s |-> want, list |-> att, todo |-> {}, pn |-> ClusterPN]
  <2>1. r \in Call /\ Update(w, r) /\ att' = att
    BY <1>0, <1>4, ConstantsAssumption DEF Begin, TypeOK, Call
  <2>2. Home(r)
    BY DEF Home
  <2> QED BY <1>1, <1>3, <2>1, <2>2
<1>5. ASSUME NEW w \in Workers, ListLBPrivateNetworks(w) PROVE HomeInv'
  <2> DEFINE extra == Extra(wk[w].s, att)
             pc == IF extra = {} THEN "resolve" ELSE "extra"
             r == [wk[w] EXCEPT !.list = att, !.todo = extra, !.pc = pc]
  <2>1. wk[w] \in Call /\ extra \subseteq PNs /\ pc \in {"resolve", "extra"}
    BY <1>0, <1>5, CallRecords DEF ListLBPrivateNetworks, Extra, AttachedIn
  <2>2. Update(w, r) /\ att' = att
    BY <1>5 DEF ListLBPrivateNetworks
  <2>3. r \in Call /\ r.list = att /\ r.pc = pc
    <3> HIDE DEF extra, pc
    <3> QED BY <1>0, <2>1 DEF Call
  <2> HIDE DEF r, pc
  <2> QED BY <1>1, <1>3, <2>1, <2>2, <2>3 DEF Home
<1>6. ASSUME NEW w \in Workers, DetachExtra(w) PROVE HomeInv'
  <2>1. wk[w] \in Call /\ wk[w].pc = "extra" /\ Home(wk[w])
    BY <1>0, <1>6, CallRecords DEF DetachExtra, HomeInv
  <2>2. PICK pn \in wk[w].todo :
          \/ ReturnError(w) /\ UNCHANGED att
          \/ /\ att' = [att EXCEPT ![pn] = Detached]
             /\ Update(w, [wk[w] EXCEPT !.todo = @ \ {pn},
                             !.pc = IF wk[w].todo = {pn} THEN "resolve" ELSE @])
    BY <1>6 DEF DetachExtra
  <2> DEFINE r == [wk[w] EXCEPT !.todo = @ \ {pn},
                             !.pc = IF wk[w].todo = {pn} THEN "resolve" ELSE @]
  <2>3. r \in Call /\ r.list = wk[w].list /\ r.pc \in {"resolve", "extra"}
    BY <2>1 DEF Call
  <2>4. pn \in PNs /\ Home(r)
    <3> HIDE DEF r
    <3> QED BY <2>1, <2>3 DEF Home, Call
  <2>5. \/ ReturnError(w) /\ UNCHANGED att
        \/ att' = [att EXCEPT ![pn] = Detached] /\ Update(w, r)
    BY <2>2
  <2> HIDE DEF r
  <2> QED BY <1>1, <1>2, <1>3, <2>3, <2>4, <2>5
<1>7. ASSUME NEW w \in Workers, ResolveIPs(w) PROVE HomeInv'
  <2> DEFINE todo == ToReconcile(wk[w].s, wk[w].list)
             r == Continue(wk[w], todo)
  <2>1. /\ wk[w] \in Call /\ wk[w].pc = "resolve" /\ Home(wk[w]) /\ att' = att
        /\ ReturnError(w) \/ Update(w, r)
    BY <1>0, <1>7, CallRecords DEF ResolveIPs, HomeInv
  <2>2. todo \subseteq Targets(wk[w].s) /\ Targets(wk[w].s) \subseteq PNs
    BY <2>1, TargetPNs DEF ToReconcile, Call
  <2>3. /\ r \in Call /\ r.s = wk[w].s /\ r.list = wk[w].list /\ r.todo = todo
        /\ r.pc \in {"done", "reconcile"}
    <3> HIDE DEF todo
    <3> QED BY <2>1, <2>2 DEF Call, Continue
  <2> HIDE DEF r, todo
  <2> QED BY <1>1, <1>2, <1>3, <2>1, <2>2, <2>3 DEF Home
<1>8. ASSUME NEW w \in Workers, Reattach(w) PROVE HomeInv'
  <2>1. wk[w] \in Call /\ wk[w].pc = "reconcile" /\ Home(wk[w])
    BY <1>0, <1>8, CallRecords DEF Reattach, HomeInv
  <2>2. PICK pn \in wk[w].todo :
          \/ ReturnError(w) /\ UNCHANGED att
          \/ /\ att' = att \/ att' = [att EXCEPT ![pn] = Detached]
             /\ Update(w, [wk[w] EXCEPT !.pc = "attach", !.pn = pn])
    BY <1>8 DEF Reattach
  <2> DEFINE r == [wk[w] EXCEPT !.pc = "attach", !.pn = pn]
  <2>3. /\ r \in Call /\ r.s = wk[w].s /\ r.list = wk[w].list /\ r.todo = wk[w].todo
        /\ r.pc = "attach" /\ r.pn = pn /\ pn \in PNs
    BY <2>1 DEF Call
  <2> HIDE DEF r
  <2>4. Home(r)
    BY <2>1, <2>3 DEF Home
  <2> QED BY <1>1, <1>2, <1>3, <2>2, <2>3, <2>4 DEF r
<1>9. ASSUME NEW w \in Workers, Attach(w) PROVE HomeInv'
  <2> DEFINE r == wk[w]
             next == Continue(r, r.todo \ {r.pn})
  <2>1. r \in Call /\ r.pc = "attach" /\ Home(r)
    BY <1>0, <1>9, CallRecords DEF Attach, HomeInv
  <2>2. CASE ReturnError(w) /\ UNCHANGED att
    BY <1>2, <1>3, <2>2
  <2>3. CASE /\ att' = [att EXCEPT ![r.pn] = IPsOf(desiredIPIDs(r.s, r.list, r.pn))]
             /\ Update(w, next)
    <3>1. /\ next \in Call /\ next.s = r.s /\ next.list = r.list
          /\ next.todo = r.todo \ {r.pn} /\ next.pc \in {"done", "reconcile"}
      BY <2>1 DEF Continue, Call
    <3> HIDE DEF next
    <3>2. /\ r.pn \in Targets(r.s) /\ AtHome(r.list) /\ r.s \in Wanted
          /\ r.list \in Attachments /\ r.pn \in PNs
      BY <2>1 DEF Home, Call
    <3>3. /\ att'[r.pn] = IPsOf(desiredIPIDs(r.s, r.list, r.pn))
          /\ \A q \in PNs : q # r.pn => att'[q] = att[q]
      BY <1>0, <2>3, <3>2 DEF Attachments
    <3>4. \A ip \in att'[r.pn] \cap IPs : NetOf[ip] = r.pn
      <4> HIDE DEF r
      <4> QED BY <1>0, <3>2, <3>3, AttachedFits
    <3>5. AtHome(att')
      BY <1>3, <3>3, <3>4 DEF AtHome
    <3>6. Home(next)
      BY <2>1, <3>1 DEF Home
    <3> QED BY <1>1, <2>3, <3>1, <3>5, <3>6
  <2> QED BY <1>9, <2>2, <2>3 DEF Attach
<1>10. ASSUME NEW w \in Workers, Return(w) \/ Fail(w) PROVE HomeInv'
  BY <1>1, <1>2, <1>3, <1>10 DEF Return, Fail, NoCall
<1>11. CASE EditService \/ UNCHANGED vars
  BY <1>11 DEF EditService, vars, HomeInv
<1> QED
  BY <1>4, <1>5, <1>6, <1>7, <1>8, <1>9, <1>10, <1>11 DEF Next, Step

LEMMA HomeInit == Init => HomeInv
<1> SUFFICES ASSUME Init PROVE HomeInv
  OBVIOUS
<1>1. \A w \in Workers : wk[w].pc = "idle"
  BY DEF Init, NoCall
<1>2. AtHome(att)
  BY ConstantsAssumption DEF Init, AtHome, Detached
<1> QED BY <1>1, <1>2 DEF HomeInv

\* A step of a call keeps what the call knows, wherever it began.
LEMMA CallStep ==
  ASSUME TypeInv, HomeInv, NEW w \in Workers, Knows(w), Begin(w) \/ Step(w) \/ Fail(w)
  PROVE  StillKnows(w)
<1>0. TypeOK /\ CallInv /\ TypeOK' /\ att \in Attachments /\ att' \in Attachments
  BY TypeStep DEF TypeInv, TypeOK, Next
<1>1. ASSUME NEW r \in Call \cup {NoCall}, Update(w, r), r.pc # "idle" => Loop(r, att')
      PROVE  StillKnows(w)
  BY <1>0, <1>1, Typed DEF StillKnows
<1>2. ASSUME ReturnError(w) PROVE StillKnows(w)
  BY <1>1, <1>2 DEF ReturnError, NoCall
<1>3. AtHome(att) /\ \A pn \in PNs : AtHome([att EXCEPT ![pn] = Detached])
  BY <1>0 DEF HomeInv, AtHome, Attachments, Detached
<1>4. ASSUME Begin(w) PROVE StillKnows(w)
  <2> DEFINE r == [pc |-> "list", s |-> want, list |-> att, todo |-> {}, pn |-> ClusterPN]
  <2>1. r \in Call /\ Update(w, r) /\ att' = att
    BY <1>0, <1>4, ConstantsAssumption DEF Begin, TypeOK, Call
  <2>2. Loop(r, att)
    BY DEF Loop
  <2> QED BY <1>1, <1>3, <2>1, <2>2
<1>5. ASSUME ListLBPrivateNetworks(w) PROVE StillKnows(w)
  <2> DEFINE extra == Extra(wk[w].s, att)
             r == [wk[w] EXCEPT !.list = att, !.todo = extra,
                                !.pc = IF extra = {} THEN "resolve" ELSE "extra"]
  <2>1. wk[w] \in Call
    BY <1>0, <1>5, CallRecords DEF ListLBPrivateNetworks
  <2>2. /\ Update(w, r) /\ att' = att
        /\ r.s = wk[w].s /\ r.list = att /\ r.todo = extra
        /\ r.pc = (IF extra = {} THEN "resolve" ELSE "extra") /\ r \in Call
    <3>1. extra \subseteq PNs
      BY DEF Extra, AttachedIn
    <3> QED BY <1>0, <1>5, <2>1, <3>1 DEF ListLBPrivateNetworks, Call
  <2>3. extra \cap Targets(wk[w].s) = {}
        /\ (wk[w].s.ext \/ AttachedIn(att) \ Targets(wk[w].s) \subseteq extra)
    BY DEF Extra
  <2>4. Loop(r, att)
    <3> HIDE DEF r, extra
    <3>1. CASE extra = {}
      BY <1>3, <2>2, <2>3, <3>1 DEF Loop, NoneExtra
    <3>2. CASE extra # {}
      BY <1>3, <2>2, <2>3, <3>2 DEF Loop, NoneExtra
    <3> QED BY <3>1, <3>2
  <2> QED BY <1>1, <1>3, <2>2, <2>4
<1>6. ASSUME DetachExtra(w) PROVE StillKnows(w)
  <2>1. wk[w] \in Call /\ wk[w].pc = "extra" /\ Loop(wk[w], att)
    BY <1>0, <1>6, CallRecords DEF DetachExtra, Knows
  <2>2. PICK pn \in wk[w].todo :
          IF att[pn] = Detached
          THEN ReturnError(w) /\ UNCHANGED att
          ELSE /\ att' = [att EXCEPT ![pn] = Detached]
               /\ Update(w, [wk[w] EXCEPT !.todo = @ \ {pn},
                               !.pc = IF wk[w].todo = {pn} THEN "resolve" ELSE @])
               /\ UNCHANGED pending
    BY <1>6 DEF DetachExtra
  <2>3. CASE att[pn] = Detached
    BY <1>2, <1>3, <2>2, <2>3
  <2>4. CASE att[pn] # Detached
    <3> DEFINE r == [wk[w] EXCEPT !.todo = @ \ {pn},
                               !.pc = IF wk[w].todo = {pn} THEN "resolve" ELSE @]
    <3>1. /\ r \in Call /\ r.s = wk[w].s /\ r.list = wk[w].list /\ r.todo = wk[w].todo \ {pn}
          /\ r.pc = IF wk[w].todo = {pn} THEN "resolve" ELSE "extra"
      BY <2>1 DEF Call
    <3>2. pn \in PNs \ Targets(r.s) /\ Targets(r.s) \subseteq PNs
      BY <2>1, <3>1, TargetPNs DEF Loop, Call
    <3>3. /\ \A q \in PNs : att'[q] = IF q = pn THEN Detached ELSE att[q]
          /\ AtHome(att')
      BY <1>0, <1>3, <2>2, <2>4, <3>2 DEF Attachments
    <3>4. AttachedIn(att') = AttachedIn(att) \ {pn}
      BY <3>3 DEF AttachedIn
    <3>5. r.s.ext \/ AttachedIn(att') \ Targets(r.s) \subseteq r.todo
      BY <2>1, <3>1, <3>4 DEF Loop
    <3>6. \A q \in Targets(r.s) : att'[q] = r.list[q]
      BY <2>1, <3>1, <3>2, <3>3 DEF Loop
    <3>7. Loop(r, att')
      <4>1. r.todo \cap Targets(r.s) = {} /\ AtHome(r.list)
        BY <2>1, <3>1 DEF Loop
      <4>2. r.pc = "resolve" => NoneExtra(r.s, att')
        BY <3>1, <3>5 DEF NoneExtra
      <4> HIDE DEF r
      <4> QED BY <3>1, <3>5, <3>6, <4>1, <4>2 DEF Loop
    <3>8. Update(w, r)
      BY <2>2, <2>4
    <3> HIDE DEF r
    <3> QED BY <1>1, <3>1, <3>3, <3>7, <3>8
  <2> QED BY <2>3, <2>4
<1>7. ASSUME ResolveIPs(w) PROVE StillKnows(w)
  <2> DEFINE todo == ToReconcile(wk[w].s, wk[w].list)
             r == Continue(wk[w], todo)
  <2>1. wk[w] \in Call /\ wk[w].pc = "resolve" /\ Loop(wk[w], att) /\ att' = att
    BY <1>0, <1>7, CallRecords DEF ResolveIPs, Knows
  <2>2. CASE ReturnError(w)
    BY <1>2, <1>3, <2>1, <2>2
  <2>3. CASE Update(w, r)
    <3>1. todo \subseteq Targets(wk[w].s) /\ Targets(wk[w].s) \subseteq PNs
      BY <2>1, TargetPNs DEF ToReconcile, Call
    <3>2. /\ r \in Call /\ r.s = wk[w].s /\ r.list = wk[w].list /\ r.todo = todo
          /\ r.pc = IF todo = {} THEN "done" ELSE "reconcile"
      <4> HIDE DEF todo
      <4> QED BY <2>1, <3>1 DEF Call, Continue
    <3>3. AtHome(r.list) /\ NoneExtra(r.s, att) /\ \A pn \in Targets(r.s) : att[pn] = r.list[pn]
      <4> HIDE DEF r
      <4> QED BY <2>1, <3>2 DEF Loop
    <3>4. \A pn \in Targets(r.s) \ r.todo : Fits(r.s, att, pn)
      <4> SUFFICES ASSUME NEW pn \in Targets(r.s) \ r.todo PROVE Fits(r.s, att, pn)
        OBVIOUS
      <4>1. pn \notin ToReconcile(r.s, r.list)
        BY <3>2
      <4>2. Fits(r.s, r.list, pn)
        <5> HIDE DEF r
        <5> QED BY <3>2, <3>3, <4>1, SkippedFits DEF Call
      <4> QED BY <3>3, <4>2 DEF Fits
    <3>5. \A pn \in r.todo : att[pn] = r.list[pn]
      <4> HIDE DEF r
      <4> QED BY <3>1, <3>2, <3>3
    <3>6. Loop(r, att)
      <4>1. r.todo \subseteq ToReconcile(r.s, r.list)
        BY <3>2
      <4> HIDE DEF r, todo
      <4> QED BY <3>2, <3>3, <3>4, <3>5, <4>1 DEF Loop
    <3> HIDE DEF r
    <3> QED BY <1>1, <1>3, <2>1, <2>3, <3>2, <3>6
  <2> QED BY <1>7, <2>2, <2>3 DEF ResolveIPs
<1>8. ASSUME Reattach(w) PROVE StillKnows(w)
  <2> DEFINE s == wk[w].s
             a == wk[w].list
  <2>1. wk[w] \in Call /\ wk[w].pc = "reconcile" /\ Loop(wk[w], att)
    BY <1>0, <1>8, CallRecords DEF Reattach, Knows
  <2>2. PICK pn \in wk[w].todo :
          IF TooManyIPs(s, a, pn) \/ (a[pn] # Detached /\ att[pn] = Detached)
          THEN ReturnError(w) /\ UNCHANGED att
          ELSE /\ att' = IF a[pn] = Detached THEN att ELSE [att EXCEPT ![pn] = Detached]
               /\ Update(w, [wk[w] EXCEPT !.pc = "attach", !.pn = pn])
               /\ UNCHANGED pending
    BY <1>8 DEF Reattach
  <2>3. CASE ReturnError(w) /\ UNCHANGED att
    BY <1>2, <1>3, <2>3
  <2>4. CASE ~(ReturnError(w) /\ UNCHANGED att)
    <3> DEFINE r == [wk[w] EXCEPT !.pc = "attach", !.pn = pn]
    <3>1. /\ r \in Call /\ r.s = s /\ r.list = a /\ r.todo = wk[w].todo
          /\ r.pc = "attach" /\ r.pn = pn
      BY <2>1 DEF Call
    <3>2. pn \in PNs /\ pn \in r.todo /\ Update(w, r) /\ pn \in Targets(r.s)
          /\ r.todo \subseteq PNs
      BY <2>1, <2>2, <2>4, <3>1 DEF Loop, Call, ToReconcile
    <3>3. /\ \A q \in PNs : q # pn => att'[q] = att[q]
          /\ att'[pn] \in {att[pn], Detached} /\ AtHome(att')
      BY <1>0, <1>3, <2>2, <2>4, <3>2 DEF Attachments
    <3>4. Targets(r.s) \subseteq PNs
      BY <3>1, TargetPNs DEF Call
    <3>5. NoneExtra(r.s, att')
      BY <2>1, <3>1, <3>3 DEF Loop, NoneExtra, AttachedIn
    <3>6. \A q \in Targets(r.s) \ r.todo : Fits(r.s, att', q)
      BY <2>1, <3>1, <3>2, <3>3, <3>4 DEF Loop, Fits
    <3>7. \A q \in r.todo \ {r.pn} : att'[q] = r.list[q]
      BY <2>1, <3>1, <3>2, <3>3 DEF Loop
    <3>8. Loop(r, att')
      <4>1. r.todo \subseteq ToReconcile(r.s, r.list) /\ AtHome(r.list)
        BY <2>1, <3>1 DEF Loop
      <4> HIDE DEF r
      <4> QED BY <3>1, <3>2, <3>5, <3>6, <3>7, <4>1 DEF Loop
    <3> HIDE DEF r
    <3> QED BY <1>1, <3>1, <3>2, <3>3, <3>8
  <2> QED BY <2>3, <2>4
<1>9. ASSUME Attach(w) PROVE StillKnows(w)
  <2> DEFINE r == wk[w]
             next == Continue(r, r.todo \ {r.pn})
  <2>1. r \in Call /\ r.pc = "attach" /\ Loop(r, att)
    BY <1>0, <1>9, CallRecords DEF Attach, Knows
  <2>2. CASE ReturnError(w) /\ UNCHANGED att
    BY <1>2, <1>3, <2>2
  <2>3. CASE /\ att' = [att EXCEPT ![r.pn] = IPsOf(desiredIPIDs(r.s, r.list, r.pn))]
             /\ Update(w, next)
    <3>1. /\ next \in Call /\ next.s = r.s /\ next.list = r.list
          /\ next.todo = r.todo \ {r.pn}
          /\ next.pc = IF next.todo = {} THEN "done" ELSE "reconcile"
      BY <2>1 DEF Continue, Call
    <3>2. /\ r.pn \in Targets(r.s) /\ AtHome(r.list) /\ r.pn \in r.todo
          /\ r.todo \subseteq ToReconcile(r.s, r.list)
          /\ r.s \in Wanted /\ r.list \in Attachments /\ r.pn \in PNs /\ r.todo \subseteq PNs
      BY <2>1 DEF Loop, ToReconcile, Call
    <3>3. /\ att'[r.pn] = IPsOf(desiredIPIDs(r.s, r.list, r.pn))
          /\ \A q \in PNs : q # r.pn => att'[q] = att[q]
      BY <1>0, <2>3, <3>2 DEF Attachments
    <3>4. Fits(r.s, att', r.pn) /\ \A ip \in att'[r.pn] \cap IPs : NetOf[ip] = r.pn
      <4> HIDE DEF r
      <4> QED BY <1>0, <3>2, <3>3, AttachedFits
    <3>5. AtHome(att')
      BY <1>3, <3>3, <3>4 DEF AtHome
    <3>6. Targets(r.s) \subseteq PNs
      BY <3>2, TargetPNs
    <3>7. \A q \in Targets(r.s) \ next.todo : Fits(r.s, att', q)
      BY <2>1, <3>1, <3>3, <3>4, <3>6 DEF Loop, Fits
    <3>8. NoneExtra(r.s, att')
      BY <2>1, <3>2, <3>3 DEF Loop, NoneExtra, AttachedIn
    <3>9. \A q \in next.todo : att'[q] = r.list[q]
      BY <2>1, <3>1, <3>2, <3>3 DEF Loop
    <3>10. Loop(next, att')
      <4> HIDE DEF next, r
      <4> QED BY <3>1, <3>2, <3>7, <3>8, <3>9 DEF Loop
    <3> HIDE DEF next
    <3> QED BY <1>1, <2>3, <3>1, <3>5, <3>10
  <2> QED BY <1>9, <2>2, <2>3 DEF Attach
<1>10. ASSUME Return(w) PROVE StillKnows(w)
  BY <1>1, <1>3, <1>10 DEF Return, NoCall
<1>11. ASSUME Fail(w) PROVE StillKnows(w)
  BY <1>2, <1>3, <1>11 DEF Fail
<1> QED
  BY <1>4, <1>5, <1>6, <1>7, <1>8, <1>9, <1>10, <1>11 DEF Step

\* What a call that returns nil leaves.
LEMMA DoneMatches ==
  ASSUME TypeInv, NEW w \in Workers, Knows(w), wk[w].pc = "done"
  PROVE  Matches(wk[w].s)
<1>1. /\ \A pn \in Targets(wk[w].s) : Fits(wk[w].s, att, pn)
      /\ NoneExtra(wk[w].s, att) /\ wk[w] \in Call
  BY CallRecords DEF Knows, Loop, TypeInv
<1>2. Targets(wk[w].s) \subseteq AttachedIn(att)
  BY <1>1, TargetPNs DEF AttachedIn, Fits, Call
<1> QED BY <1>1, <1>2 DEF Matches, Fits, NoneExtra

\* A call never detaches what it wants as it is.
LEMMA NotCut ==
  ASSUME TypeInv, NEW w \in Workers, Knows(w), Begin(w) \/ Step(w) \/ Fail(w),
         NEW pn \in PNs, att[pn] # Detached, wk[w].pc # "idle" => AsWanted(wk[w].s, pn)
  PROVE  att'[pn] # Detached
<1>1. att \in Attachments
  BY DEF TypeInv, TypeOK
<1>2. CASE att' = att
  BY <1>2
<1>3. CASE DetachExtra(w)
  <2>1. pn \in Targets(wk[w].s) /\ wk[w].todo \cap Targets(wk[w].s) = {}
    BY <1>3 DEF DetachExtra, Knows, Loop, AsWanted
  <2>2. PICK q \in wk[w].todo : att' = att \/ att' = [att EXCEPT ![q] = Detached]
    BY <1>3 DEF DetachExtra
  <2> QED BY <1>1, <2>1, <2>2 DEF Attachments
<1>4. CASE Reattach(w)
  <2> DEFINE s == wk[w].s
             a == wk[w].list
  <2>1. wk[w] \in Call /\ wk[w].pc = "reconcile" /\ Loop(wk[w], att)
    BY <1>4, CallRecords DEF Reattach, Knows, TypeInv
  <2>2. PICK q \in wk[w].todo :
          \/ att' = att
          \/ ~TooManyIPs(s, a, q) /\ att' = [att EXCEPT ![q] = Detached]
    BY <1>4 DEF Reattach
  <2>3. CASE att' = [att EXCEPT ![q] = Detached] /\ ~TooManyIPs(s, a, q)
    <3>1. s \in Wanted /\ a \in Attachments /\ AtHome(a) /\ q \in ToReconcile(s, a)
          /\ att[q] = a[q]
      BY <2>1, <2>2 DEF Loop, Call
    <3>2. ~Fits(s, a, q)
      BY <2>3, <3>1, ReconciledDiffers
    <3>3. ~Fits(s, att, q)
      BY <3>1, <3>2 DEF Fits
    <3>4. Fits(s, att, pn)
      BY <2>1 DEF AsWanted, Fits
    <3> QED BY <1>1, <2>3, <3>3, <3>4 DEF Attachments
  <2> QED BY <2>2, <2>3
<1>5. CASE Attach(w)
  <2>1. wk[w] \in Call /\ wk[w].pc = "attach"
    BY <1>5, CallRecords DEF Attach, TypeInv
  <2>2. IPsOf(desiredIPIDs(wk[w].s, wk[w].list, wk[w].pn)) # Detached
    BY DEF IPsOf, Detached
  <2> QED BY <1>1, <1>5, <2>1, <2>2 DEF Attach, Attachments, Call
<1>6. CASE \/ Begin(w) \/ ListLBPrivateNetworks(w) \/ ResolveIPs(w)
           \/ Return(w) \/ Fail(w)
  BY <1>6 DEF Begin, ListLBPrivateNetworks, ResolveIPs, Return, Fail
<1> QED BY <1>2, <1>3, <1>4, <1>5, <1>6 DEF Step

-----------------------------------------------------------------------------
(***************************************************************************)
(* One call at a time.                                                     *)
(***************************************************************************)
OneCaller == \A v, w \in Workers : v = w

LoopInv == HomeInv /\ \A w \in Workers : Knows(w)

LEMMA LoopStep == OneCaller /\ TypeInv /\ LoopInv /\ [Next]_vars => LoopInv'
<1> SUFFICES ASSUME OneCaller, TypeInv, LoopInv, [Next]_vars, NEW w \in Workers
             PROVE  StillKnows(w)
  BY HomeStep DEF LoopInv, Knows, StillKnows
<1>1. CASE EditService \/ UNCHANGED vars
  BY <1>1 DEF EditService, vars, LoopInv, Knows, StillKnows
<1>2. CASE Begin(w) \/ Step(w) \/ Fail(w)
  BY <1>2, CallStep DEF LoopInv
<1> QED BY <1>1, <1>2 DEF Next, OneCaller

LEMMA LoopInit == Init => LoopInv
<1>1. Init => \A w \in Workers : wk[w].pc = "idle"
  BY DEF Init, NoCall
<1> QED BY <1>1, HomeInit DEF LoopInv, Knows

\* Of one call at a time: if attachPrivateNetworks returns nil, the LB is
\* attached to the PNs of its Service with the IPs it asks for, wherever the
\* calls before it have ended.
THEOREM OneCallAttaches ==
  ASSUME OneCaller PROVE Spec => []SuccessMeansAttached
<1>1. TypeInv /\ LoopInv => SuccessMeansAttached
  BY DoneMatches DEF SuccessMeansAttached, LoopInv
<1>2. TypeInv /\ LoopInv /\ [Next]_vars => LoopInv'
  BY LoopStep
<1> QED BY <1>1, <1>2, TypeInit, TypeStep, LoopInit, PTL DEF Spec

\* Of one call at a time: a PN that the Service and the call want as it is
\* attached is never detached.
THEOREM OneCallCutsNothing ==
  ASSUME OneCaller PROVE Spec => NoNeedlessCut
<1> DEFINE Wished(pn) == /\ AsWanted(want, pn)
                         /\ \A w \in Workers : wk[w].pc # "idle" => AsWanted(wk[w].s, pn)
<1>1. TypeInv /\ LoopInv /\ [Next]_vars =>
        [\A pn \in PNs : Wished(pn) => att'[pn] # Detached]_vars
  <2> SUFFICES ASSUME TypeInv, LoopInv, Next, NEW pn \in PNs, Wished(pn)
               PROVE  att'[pn] # Detached
    OBVIOUS
  <2>1. att[pn] # Detached
    BY DEF AsWanted
  <2>2. CASE EditService
    BY <2>1, <2>2 DEF EditService
  <2>3. ASSUME NEW w \in Workers, Begin(w) \/ Step(w) \/ Fail(w)
        PROVE  att'[pn] # Detached
    BY <2>1, <2>3, NotCut DEF LoopInv
  <2> QED BY <2>2, <2>3 DEF Next
<1>2. TypeInv /\ LoopInv /\ [Next]_vars => LoopInv'
  BY LoopStep
<1> QED
  BY <1>1, <1>2, TypeInit, TypeStep, LoopInit, PTL DEF Spec, NoNeedlessCut

-----------------------------------------------------------------------------
(***************************************************************************)
(* A call that runs alone after calls that raced.                          *)
(***************************************************************************)
LoneInv == \A w \in lone : w \in Workers /\ Running = {w} /\ Knows(w)

\* One worker moves at a time, and only Begin moves one that is idle.
LEMMA OneMoves ==
  ASSUME TypeOK, NEW u \in Workers, Begin(u) \/ Step(u) \/ Fail(u)
  PROVE  /\ \A w \in Workers : w # u => wk'[w] = wk[w]
         /\ wk[u].pc = "idle" => att' = att /\ wk'[u].pc # "idle"
<1>1. wk \in [Workers -> Call \cup {NoCall}]
  BY DEF TypeOK
<1>2. \E r : Update(u, r)
  BY DEF Begin, Step, Fail, ListLBPrivateNetworks, DetachExtra, ResolveIPs, Reattach,
     Attach, Return, ReturnError
<1>3. wk[u].pc = "idle" => Begin(u)
  BY DEF Step, Fail, ListLBPrivateNetworks, DetachExtra, ResolveIPs, Reattach, Attach, Return
<1> QED BY <1>1, <1>2, <1>3 DEF Update, Begin

\* Beside a call that has been alone, and still is, only that call moves.
LEMMA OnlyIt ==
  ASSUME TypeOK, LoneInv, LoneNext, NEW w \in lone', NEW u \in Workers, u # w
  PROVE  ~(Begin(u) \/ Step(u) \/ Fail(u))
<1> SUFFICES ASSUME Begin(u) \/ Step(u) \/ Fail(u) PROVE FALSE
  OBVIOUS
<1>1. Running' = {w} /\ w \in Workers /\ (w \in lone \/ w \notin Running)
  BY DEF LoneNext, Running
<1>2. wk'[w] = wk[w] /\ wk'[w].pc # "idle" /\ wk'[u].pc = "idle"
  BY <1>1, OneMoves DEF Running
<1>3. Running = {w}
  BY <1>1, <1>2 DEF Running, LoneInv
<1>4. wk[u].pc = "idle"
  BY <1>3 DEF Running
<1> QED BY <1>2, <1>4, OneMoves

LEMMA LoneStep == TypeInv /\ HomeInv /\ LoneInv /\ [LoneNext]_loneVars => LoneInv'
<1> SUFFICES ASSUME TypeInv, HomeInv, LoneInv, [LoneNext]_loneVars, NEW w \in lone'
             PROVE  w \in Workers /\ Running' = {w} /\ StillKnows(w)
  BY DEF LoneInv, Knows, StillKnows
<1>1. CASE UNCHANGED loneVars
  <2>1. lone' = lone /\ wk' = wk /\ att' = att
    BY <1>1 DEF loneVars, vars
  <2>2. Running' = Running
    BY <2>1 DEF Running
  <2> QED BY <2>1, <2>2 DEF LoneInv, Knows, StillKnows
<1>2. CASE LoneNext
  <2>1. w \in Workers /\ Running' = {w} /\ (w \in lone \/ w \notin Running)
    BY <1>2 DEF LoneNext, Running
  <2>2. Knows(w)
    BY <2>1 DEF LoneInv, Running, Knows
  <2>3. ASSUME EditService PROVE StillKnows(w)
    BY <2>2, <2>3 DEF EditService, Knows, StillKnows
  <2>4. ASSUME Begin(w) \/ Step(w) \/ Fail(w) PROVE StillKnows(w)
    BY <2>1, <2>2, <2>4, CallStep
  <2>5. StillKnows(w)
    BY <1>2, <2>3, <2>4, OnlyIt DEF LoneNext, Next, TypeInv
  <2> QED BY <2>1, <2>5
<1> QED BY <1>1, <1>2

\* The history variable changes nothing, and what is true of all calls is true
\* of those that race.
LEMMA LoneInvariants == LoneSpec => [](TypeInv /\ HomeInv /\ LoneInv)
<1>1. LoneInit => TypeInv /\ HomeInv /\ LoneInv
  BY TypeInit, HomeInit DEF LoneInit, LoneInv
<1>2. [LoneNext]_loneVars => [Next]_vars
  BY DEF LoneNext, loneVars
<1>3. TypeInv /\ HomeInv /\ LoneInv /\ [LoneNext]_loneVars => (TypeInv /\ HomeInv /\ LoneInv)'
  BY <1>2, TypeStep, HomeStep, LoneStep
<1> QED BY <1>1, <1>3, PTL DEF LoneSpec

\* Of any number of callers: a call of attachPrivateNetworks that runs alone
\* and returns nil leaves the LB attached as its Service asks, whatever the
\* calls that raced before it have detached and attached.
THEOREM LoneCallSucceeds == LoneSpec => []LoneCallAttaches
<1>1. TypeInv /\ LoneInv => LoneCallAttaches
  BY DoneMatches DEF LoneInv, LoneCallAttaches
<1> QED BY <1>1, LoneInvariants, PTL

\* Nor does it ever detach a PN that it wants as it is attached.
THEOREM LoneCallKeeps == LoneSpec => LoneCallCutsNothing
<1> DEFINE Keeps == \A w \in lone, pn \in PNs : AsWanted(wk[w].s, pn) => att'[pn] # Detached
<1>1. TypeInv /\ LoneInv /\ [LoneNext]_loneVars => [Keeps]_loneVars
  <2> SUFFICES ASSUME TypeInv, LoneInv, LoneNext, NEW w \in lone, NEW pn \in PNs,
                      AsWanted(wk[w].s, pn)
               PROVE  att'[pn] # Detached
    OBVIOUS
  <2>1. att[pn] # Detached /\ w \in Workers /\ Running = {w} /\ Knows(w) /\ Next
    BY DEF AsWanted, LoneInv, LoneNext
  <2>2. CASE EditService
    BY <2>1, <2>2 DEF EditService
  <2>3. CASE Begin(w) \/ Step(w) \/ Fail(w)
    BY <2>1, <2>3, NotCut
  <2>4. ASSUME NEW u \in Workers, u # w, Begin(u) \/ Step(u) \/ Fail(u)
        PROVE  att'[pn] # Detached
    <3>1. wk[u].pc = "idle"
      BY <2>1, <2>4 DEF Running
    <3> QED BY <2>1, <2>4, <3>1, OneMoves DEF TypeInv
  <2> QED BY <2>1, <2>2, <2>3, <2>4 DEF Next
<1> QED BY <1>1, LoneInvariants, PTL DEF LoneSpec, LoneCallCutsNothing

-----------------------------------------------------------------------------
(***************************************************************************)
(* At rest.  While nothing is left to do after the call in progress, that  *)
(* call is for the Service as it is now.                                   *)
(***************************************************************************)
RestInv ==
  pending = {} => \A w \in Workers : IF wk[w].pc = "idle" THEN Matches(want)
                                                          ELSE wk[w].s = want

\* A call keeps the Service it was made for, or fails and is due again.
LEMMA CallGoesOn ==
  ASSUME TypeInv, NEW w \in Workers, Step(w), ~Return(w)
  PROVE  /\ want' = want /\ wk[w].pc # "idle"
         /\ \/ ReturnError(w)
            \/ pending' = pending /\ wk'[w].pc # "idle" /\ wk'[w].s = wk[w].s
<1>1. want' = want /\ wk[w].pc # "idle"
  BY Zenon DEF Step, ListLBPrivateNetworks, DetachExtra, ResolveIPs, Reattach, Attach
<1>2. wk[w] \in Call /\ \A q : Update(w, q) => wk'[w] = q
  BY <1>1, CallRecords DEF TypeInv, TypeOK, Update
<1>3. ASSUME NEW q, Update(w, q), q.pc # "idle", q.s = wk[w].s
      PROVE  wk'[w].pc # "idle" /\ wk'[w].s = wk[w].s
  BY <1>2, <1>3
<1>4. \A todo : Continue(wk[w], todo).pc # "idle" /\ Continue(wk[w], todo).s = wk[w].s
  BY <1>2 DEF Continue, Call
<1>5. CASE ListLBPrivateNetworks(w)
  <2> DEFINE extra == Extra(wk[w].s, att)
             pc == IF extra = {} THEN "resolve" ELSE "extra"
             q == [wk[w] EXCEPT !.list = att, !.todo = extra, !.pc = pc]
  <2>1. Update(w, q) /\ pending' = pending /\ pc # "idle"
    BY <1>5 DEF ListLBPrivateNetworks
  <2>2. q.pc = pc /\ q.s = wk[w].s
    <3> HIDE DEF extra, pc
    <3> QED BY <1>2 DEF Call
  <2> HIDE DEF q, pc
  <2> QED BY <1>1, <1>3, <2>1, <2>2
<1>6. CASE DetachExtra(w)
  <2>1. PICK pn \in wk[w].todo :
          \/ ReturnError(w)
          \/ /\ Update(w, [wk[w] EXCEPT !.todo = @ \ {pn},
                             !.pc = IF wk[w].todo = {pn} THEN "resolve" ELSE @])
             /\ pending' = pending
    BY <1>6 DEF DetachExtra
  <2> DEFINE q == [wk[w] EXCEPT !.todo = @ \ {pn},
                             !.pc = IF wk[w].todo = {pn} THEN "resolve" ELSE @]
  <2>2. q.pc \in {"resolve", wk[w].pc} /\ q.s = wk[w].s
    BY <1>2 DEF Call
  <2>3. ReturnError(w) \/ (Update(w, q) /\ pending' = pending)
    BY <2>1
  <2> HIDE DEF q
  <2> QED BY <1>1, <1>3, <2>2, <2>3
<1>7. CASE ResolveIPs(w) \/ Attach(w)
  <2>1. \/ ReturnError(w)
        \/ \E todo : Update(w, Continue(wk[w], todo)) /\ pending' = pending
    BY <1>7 DEF ResolveIPs, Attach
  <2> QED BY <1>1, <1>2, <1>4, <2>1
<1>8. CASE Reattach(w)
  <2>1. PICK pn \in wk[w].todo :
          \/ ReturnError(w)
          \/ Update(w, [wk[w] EXCEPT !.pc = "attach", !.pn = pn]) /\ pending' = pending
    BY <1>8 DEF Reattach
  <2>2. /\ [wk[w] EXCEPT !.pc = "attach", !.pn = pn].pc = "attach"
        /\ [wk[w] EXCEPT !.pc = "attach", !.pn = pn].s = wk[w].s
    BY <1>2 DEF Call
  <2> QED BY <1>1, <1>3, <2>1, <2>2
<1> QED BY <1>5, <1>6, <1>7, <1>8 DEF Step

LEMMA RestNext ==
  ASSUME OneCaller, TypeInv, LoopInv, RestInv, [Next]_vars
  PROVE  RestInv'
<1> SUFFICES ASSUME pending' = {}, NEW v \in Workers
             PROVE  IF wk'[v].pc = "idle" THEN Matches(want)' ELSE wk'[v].s = want'
  BY DEF RestInv
<1>1. \A u \in Workers : u = v
  BY DEF OneCaller
<1>2. wk \in [Workers -> Call \cup {NoCall}]
  BY DEF TypeInv, TypeOK
<1>3. CASE UNCHANGED vars
  BY <1>3 DEF vars, RestInv, Matches, AttachedIn
<1>4. CASE EditService
  BY <1>4 DEF EditService
<1>5. CASE Begin(v)
  BY <1>2, <1>5 DEF Begin, Update
<1>6. CASE Fail(v) \/ ReturnError(v)
  BY <1>6 DEF Fail, ReturnError
<1>7. CASE Return(v)
  <2>1. wk[v].pc = "done" /\ wk'[v] = NoCall /\ UNCHANGED <<want, att, pending>>
    BY <1>2, <1>7 DEF Return, Update
  <2>2. Matches(wk[v].s)
    BY <2>1, DoneMatches DEF LoopInv
  <2>3. wk[v].s = want
    BY <2>1 DEF RestInv
  <2>4. Matches(want)'
    BY <2>1, <2>2, <2>3 DEF Matches, AttachedIn
  <2> QED BY <2>1, <2>4 DEF NoCall
<1>8. CASE Step(v) /\ ~Return(v) /\ ~ReturnError(v)
  BY <1>8, CallGoesOn DEF RestInv
<1> QED BY <1>1, <1>3, <1>4, <1>5, <1>6, <1>7, <1>8 DEF Next

\* Of one call at a time: when no call is left to make and none is in
\* progress, the LB is attached as its Service asks now, whatever edits and
\* failures went before (the retries around attachPrivateNetworks).
THEOREM AtRestAttached ==
  ASSUME OneCaller, Workers # {} PROVE Spec => []AttachedAtRest
<1>1. TypeInv /\ [Next]_vars => TypeInv'
  BY TypeStep
<1>2. TypeInv /\ LoopInv /\ [Next]_vars => LoopInv'
  BY LoopStep
<1>3. Init => RestInv
  BY DEF Init, RestInv
<1>4. TypeInv /\ LoopInv /\ RestInv /\ [Next]_vars => RestInv'
  BY RestNext
<1>5. RestInv => AttachedAtRest
  BY DEF RestInv, AttachedAtRest, AtRest
<1> QED BY <1>1, <1>2, <1>3, <1>4, <1>5, TypeInit, LoopInit, PTL DEF Spec
=============================================================================
