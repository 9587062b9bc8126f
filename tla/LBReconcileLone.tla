-------------------------- MODULE LBReconcileLone --------------------------
(***************************************************************************)
(* LBReconcile with a history variable: of the calls in progress, those    *)
(* that began when no other call ran and beside which none has run since.  *)
(* Calls that race leave what they will, two frontends on a port and two   *)
(* backends on a node port included; what a call promises that comes after *)
(* them and runs alone is stated here.                                     *)
(***************************************************************************)
EXTENDS LBReconcile

VARIABLE lone       \* the calls that have been alone since they began

loneVars == <<vars, lone>>

Running == {w \in Workers : wk[w].pc # "idle"}

LoneInit == Init /\ lone = {}

LoneNext ==
  /\ Next
  /\ lone' = {w \in Running' : Running' = {w} /\ (w \in lone \/ w \notin Running)}

LoneSpec == LoneInit /\ [][LoneNext]_loneVars

-----------------------------------------------------------------------------
\* A call of updateLoadBalancer or removeExternallyManagedResources that runs
\* alone and returns nil leaves exactly what its Service asks for, duplicates
\* that the calls that raced before it have made removed.
LoneCallMatches == \A w \in lone : wk[w].pc = "done" => Matches(wk[w].s)

\* A call that runs alone cuts no port that it wants, whatever it removes of
\* what the calls before it have left.
LoneCallKeepsServing ==
  [][\A w \in lone : \A port \in WantedPorts(wk[w].s) :
       Served(port) => Served(port)']_loneVars
=============================================================================
