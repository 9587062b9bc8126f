------------------------ MODULE PrivateNetworksLone ------------------------
(***************************************************************************)
(* PrivateNetworks with a history variable: of the calls in progress,      *)
(* those that began when no other call ran and beside which none has run   *)
(* since.  Calls that race may end anywhere and leave anything; what a     *)
(* call promises that comes after them and runs alone is stated here.      *)
(***************************************************************************)
EXTENDS PrivateNetworks

VARIABLE lone       \* the calls that have been alone since they began

loneVars == <<vars, lone>>

Running == {w \in Workers : wk[w].pc # "idle"}

LoneInit == Init /\ lone = {}

LoneNext ==
  /\ Next
  /\ lone' = {w \in Running' : Running' = {w} /\ (w \in lone \/ w \notin Running)}

LoneSpec == LoneInit /\ [][LoneNext]_loneVars

-----------------------------------------------------------------------------
\* A call of attachPrivateNetworks that runs alone and returns nil leaves the
\* LB attached as its Service asks, whatever the calls that raced before it
\* have detached and attached.
LoneCallAttaches == \A w \in lone : wk[w].pc = "done" => Matches(wk[w].s)

\* A call that runs alone never detaches a PN that it wants as it is attached,
\* whatever its list was made of.
LoneCallCutsNothing ==
  [][\A w \in lone, pn \in PNs : AsWanted(wk[w].s, pn) => att'[pn] # Detached]_loneVars
=============================================================================
