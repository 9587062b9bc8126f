-------------------------- MODULE PrivateNetworks --------------------------
(***************************************************************************)
(* The private networks (PNs) a load balancer is attached to:              *)
(* attachPrivateNetworks (scaleway/loadbalancers.go), which every call of  *)
(* updateLoadBalancer makes when the cluster is in a PN (l.pnID # "").     *)
(*                                                                         *)
(* A call lists the attachments, detaches the extra ones, finds out which  *)
(* requested private IP belongs to which PN, and attaches or reattaches the*)
(* PNs one API call at a time, in the random order of a map.  An IP can    *)
(* only be changed by detaching the PN and attaching it again: a call that *)
(* ends between the two leaves the LB without the PN.                      *)
(***************************************************************************)
EXTENDS Integers, FiniteSets

CONSTANTS
  PNs,          \* private networks
  ClusterPN,    \* l.pnID, the one of the cluster (PN_ID)
  IPs,          \* reserved private IPs (IPAM)
  NetOf,        \* the PN each of them belongs to
  AutoIP,       \* the IP the API chooses when none is requested
  ExtModes,     \* whether the LB is externally managed (a set of BOOLEANs)
  Workers,      \* the callers of updateLoadBalancer
  MaxEdits,     \* bound: edits of the Service
  MaxFails      \* bound: failures and restarts

ASSUME ConstantsAssumption ==
  /\ ClusterPN \in PNs
  /\ IsFiniteSet(IPs) /\ NetOf \in [IPs -> PNs]
  /\ AutoIP \notin IPs
  /\ ExtModes \subseteq BOOLEAN
  /\ MaxEdits \in Nat /\ MaxFails \in Nat

VARIABLES
  want,      \* the annotations of the Service
  att,       \* for each PN, the IPs of the LB's attachment to it
  pending,   \* which workers have a call to make
  wk,        \* the calls in progress
  edits, fails

vars == <<want, att, pending, wk, edits, fails>>

\* pn-ids, private-ip-ids and externally-managed.
Wanted      == [pns : SUBSET PNs, ips : SUBSET IPs, ext : BOOLEAN]
Attachments == [PNs -> SUBSET (IPs \cup {AutoIP})]

\* An attachment has an IP, requested or chosen by the API: none is no attachment.
Detached == {}

NoCall == [pc |-> "idle"]
Call   == [pc   : {"list", "extra", "resolve", "reconcile", "attach", "done"},
           s    : Wanted,
           list : Attachments,     \* what ListLBPrivateNetworks returned
           todo : SUBSET PNs,      \* PNs still to detach or to reconcile
           pn   : PNs]             \* the PN being attached

AttachedIn(a) == {pn \in PNs : a[pn] # Detached}

-----------------------------------------------------------------------------
(***************************************************************************)
(* What the code computes from the annotations and the list.               *)
(***************************************************************************)

\* The keys of privateNetworkAttachments.
Targets(s) == IF s.ext \/ s.pns = {} THEN {ClusterPN} ELSE s.pns

\* Mutant: the PNs of an externally managed LB are detached too.
Extra_External(s, a) == AttachedIn(a) \ Targets(s)

\* The PNs detached because the Service does not name them.
Extra(s, a) == IF s.ext THEN {} ELSE AttachedIn(a) \ Targets(s)

\* desiredIPIDs: an IP is assigned to the PN whose attachment has it already,
\* or else to the PN it belongs to in IPAM.
desiredIPIDs(s, a, pn) ==
  {ip \in s.ips : \/ ip \in a[pn]
                  \/ NetOf[ip] = pn /\ \A q \in Targets(s) : ip \notin a[q]}

\* An IP that belongs to none of the PNs ends the call.
IPsNotFound(s, a) == \E ip \in s.ips : \A pn \in Targets(s) : ip \notin desiredIPIDs(s, a, pn)

\* Mutant: an attachment that has any IP is taken for correct.
AlreadyCorrect_AnyIP(s, a, pn) == a[pn] # Detached

AlreadyCorrect(s, a, pn) ==
  /\ a[pn] # Detached
  /\ desiredIPIDs(s, a, pn) = {} \/ a[pn] = desiredIPIDs(s, a, pn)

\* Mutant: two IPs of a PN are passed on.
TooManyIPs_Never(s, a, pn) == FALSE

TooManyIPs(s, a, pn) == Cardinality(desiredIPIDs(s, a, pn)) > 1

\* Mutant: every PN is detached and attached again.
ToReconcile_All(s, a) == Targets(s)

\* The PNs that the last loop does not skip.
ToReconcile(s, a) ==
  {pn \in Targets(s) : TooManyIPs(s, a, pn) \/ ~AlreadyCorrect(s, a, pn)}

\* The IPs of an attachment that AttachPrivateNetwork makes.
IPsOf(desired) == IF desired = {} THEN {AutoIP} ELSE desired

-----------------------------------------------------------------------------
Update(w, r) == wk' = [wk EXCEPT ![w] = r]

\* Mutant: an error is swallowed, and the call taken for done.
ReturnError_NoRetry(w) == Update(w, NoCall) /\ UNCHANGED pending

ReturnError(w) == Update(w, NoCall) /\ pending' = pending \cup {w}

\* The last loop goes on, or the call is over.
Continue(r, todo) == [r EXCEPT !.pc = IF todo = {} THEN "done" ELSE "reconcile",
                               !.todo = todo]

Begin(w) ==
  /\ wk[w].pc = "idle" /\ w \in pending
  /\ Update(w, [pc |-> "list", s |-> want, list |-> att, todo |-> {}, pn |-> ClusterPN])
  /\ pending' = pending \ {w}
  /\ UNCHANGED <<want, att, edits, fails>>

ListLBPrivateNetworks(w) ==
  LET extra == Extra(wk[w].s, att) IN
  /\ wk[w].pc = "list"
  /\ Update(w, [wk[w] EXCEPT !.list = att, !.todo = extra,
                             !.pc = IF extra = {} THEN "resolve" ELSE "extra"])
  /\ UNCHANGED <<want, att, pending, edits, fails>>

\* One DetachPrivateNetwork of the loop on the list.
DetachExtra(w) ==
  /\ wk[w].pc = "extra"
  /\ \E pn \in wk[w].todo :
       IF att[pn] = Detached
         THEN ReturnError(w) /\ UNCHANGED att
         ELSE /\ att' = [att EXCEPT ![pn] = Detached]
              /\ Update(w, [wk[w] EXCEPT !.todo = @ \ {pn},
                              !.pc = IF wk[w].todo = {pn} THEN "resolve" ELSE @])
              /\ UNCHANGED pending
  /\ UNCHANGED <<want, edits, fails>>

\* The IPs are looked up in the list, and in IPAM.
ResolveIPs(w) ==
  LET s == wk[w].s  a == wk[w].list IN
  /\ wk[w].pc = "resolve"
  /\ IF IPsNotFound(s, a)
       THEN ReturnError(w)
       ELSE Update(w, Continue(wk[w], ToReconcile(s, a))) /\ UNCHANGED pending
  /\ UNCHANGED <<want, att, edits, fails>>

\* A PN of the last loop: an attached one is detached first.
Reattach(w) ==
  LET s == wk[w].s  a == wk[w].list IN
  /\ wk[w].pc = "reconcile"
  /\ \E pn \in wk[w].todo :
       IF TooManyIPs(s, a, pn) \/ (a[pn] # Detached /\ att[pn] = Detached)
         THEN ReturnError(w) /\ UNCHANGED att
         ELSE /\ att' = IF a[pn] = Detached THEN att ELSE [att EXCEPT ![pn] = Detached]
              /\ Update(w, [wk[w] EXCEPT !.pc = "attach", !.pn = pn])
              /\ UNCHANGED pending
  /\ UNCHANGED <<want, edits, fails>>

\* AttachPrivateNetwork; the API refuses a PN that is attached.
Attach(w) ==
  LET r == wk[w] IN
  /\ r.pc = "attach"
  /\ IF att[r.pn] # Detached
       THEN ReturnError(w) /\ UNCHANGED att
       ELSE /\ att' = [att EXCEPT ![r.pn] = IPsOf(desiredIPIDs(r.s, r.list, r.pn))]
            /\ Update(w, Continue(r, r.todo \ {r.pn}))
            /\ UNCHANGED pending
  /\ UNCHANGED <<want, edits, fails>>

Return(w) ==
  /\ wk[w].pc = "done"
  /\ Update(w, NoCall)
  /\ UNCHANGED <<want, att, pending, edits, fails>>

\* An API call fails, its answer is lost, or the process restarts.
Fail(w) ==
  /\ wk[w].pc # "idle" /\ fails < MaxFails
  /\ ReturnError(w)
  /\ fails' = fails + 1
  /\ UNCHANGED <<want, att, edits>>

EditService ==
  /\ edits < MaxEdits /\ edits' = edits + 1
  /\ \E p \in SUBSET PNs, i \in SUBSET IPs :
       want' = [want EXCEPT !.pns = p, !.ips = i] /\ want' # want
  /\ pending' = Workers
  /\ UNCHANGED <<att, wk, fails>>

-----------------------------------------------------------------------------
\* A new LB has no PN; one that is externally managed has those of its owner.
Init ==
  /\ \E p \in SUBSET PNs, i \in SUBSET IPs, e \in ExtModes :
       want = [pns |-> p, ips |-> i, ext |-> e]
  /\ \E owners \in SUBSET PNs :
       /\ ~want.ext => owners = {}
       /\ att = [pn \in PNs |-> IF pn \in owners THEN {AutoIP} ELSE Detached]
  /\ pending = Workers
  /\ wk = [w \in Workers |-> NoCall]
  /\ edits = 0 /\ fails = 0

Step(w) == \/ ListLBPrivateNetworks(w) \/ DetachExtra(w) \/ ResolveIPs(w)
           \/ Reattach(w) \/ Attach(w) \/ Return(w)

Next == \/ \E w \in Workers : Begin(w) \/ Step(w) \/ Fail(w)
        \/ EditService

Spec == Init /\ [][Next]_vars

\* A call that is due begins, and one that has begun goes on.
FairSpec == Spec /\ \A w \in Workers : WF_vars(Begin(w) \/ Step(w))

-----------------------------------------------------------------------------
(***************************************************************************)
(* Properties.                                                             *)
(***************************************************************************)

\* Type correctness; an attachment has one IP.
TypeOK ==
  /\ want \in Wanted
  /\ att \in Attachments /\ \A pn \in PNs : Cardinality(att[pn]) <= 1
  /\ pending \subseteq Workers
  /\ wk \in [Workers -> Call \cup {NoCall}]
  /\ edits \in 0..MaxEdits /\ fails \in 0..MaxFails

\* What a user means by the annotations: the IPs of s in the PN.
Requested(s, pn) == {ip \in s.ips : NetOf[ip] = pn}

\* The annotations contradict each other, and the call returns an error.
Refused(s) == \/ \E ip \in s.ips : NetOf[ip] \notin Targets(s)
              \/ \E pn \in PNs : Cardinality(Requested(s, pn)) > 1

Matches(s) ==
  /\ \A pn \in Targets(s) : /\ att[pn] # Detached
                            /\ Requested(s, pn) = {} \/ att[pn] = Requested(s, pn)
  /\ s.ext \/ AttachedIn(att) = Targets(s)

\* A call of attachPrivateNetworks that returns nil leaves the LB attached to
\* the PNs of its Service with the IPs it asks for, wherever the calls before
\* it have ended, between a detach and its attach included (one at a time).
SuccessMeansAttached == \A w \in Workers : wk[w].pc = "done" => Matches(wk[w].s)

\* When no call is left to make and none is in progress, the attachments are
\* what the Service asks for now: no edit made during a call and no failed call
\* is forgotten, and what contradicts itself stays due (one call at a time).
AtRest == pending = {} /\ \A w \in Workers : wk[w].pc = "idle"
AttachedAtRest == AtRest => Matches(want)

\* A PN that both the Service and the call in progress want as it is attached
\* is never detached: only a change of its IP cuts the traffic through it (one
\* call at a time).
AsWanted(s, pn) == /\ pn \in Targets(s) /\ att[pn] # Detached
                   /\ Requested(s, pn) = {} \/ att[pn] = Requested(s, pn)
NoNeedlessCut ==
  [][\A pn \in PNs :
       /\ AsWanted(want, pn)
       /\ \A w \in Workers : wk[w].pc # "idle" => AsWanted(wk[w].s, pn)
       => att'[pn] # Detached]_vars

\* Of an externally managed LB, only the attachment to the cluster's PN is ever
\* changed (lbExternallyManaged in attachPrivateNetworks).
OwnersNetworksUntouched ==
  [][want.ext => \A pn \in PNs \ {ClusterPN} : att'[pn] = att[pn]]_vars

\* Once the Service and the failures are quiet, the attachments become and stay
\* what the Service asks for, unless its annotations contradict each other.
AttachmentsConverge == <>[](Refused(want) \/ (Matches(want) /\ pending = {}))
=============================================================================
