----------------------------- MODULE ServiceLB -----------------------------
(***************************************************************************)
(* What the CCM promises about the load balancers (LBs) of one Service,    *)
(* without any of the copies, calls and failures of LBLifecycle, which     *)
(* implements this specification: an LB is created only for a Service that *)
(* is still there and only if no LB bears the Service's name; a Service is *)
(* let go only if none does; only LBs that were created for it are deleted.*)
(* Users may do as they like with LBs, and may mislead the CCM (hidden).   *)
(***************************************************************************)
CONSTANTS
  Created,   \* LBs that may be created for the Service
  Foreign    \* LBs that users created

VARIABLES
  standing,  \* of each LB
  over,      \* the Service is gone
  hidden     \* the ID annotation has hidden an LB of the Service's name

slbVars == <<standing, over, hidden>>

\* "own" and "other" are the LBs that run, with the Service's name or without.
Standings == {"unborn", "own", "other", "deleted", "removed"}

Owned == {l \in Created \cup Foreign : standing[l] = "own"}

Create(l) ==
  /\ l \in Created /\ standing[l] = "unborn"
  /\ ~over /\ (hidden \/ Owned = {})
  /\ standing' = [standing EXCEPT ![l] = "own"]
  /\ UNCHANGED <<over, hidden>>

Delete(l) ==
  /\ l \in Created /\ standing[l] \in {"own", "other"}
  /\ standing' = [standing EXCEPT ![l] = "deleted"]
  /\ UNCHANGED <<over, hidden>>

\* A user deletes an LB, or renames the Service's.
Remove(l) ==
  /\ standing[l] \in {"own", "other"}
  /\ standing' = [standing EXCEPT ![l] = "removed"]
  /\ UNCHANGED <<over, hidden>>

Rename(l) ==
  /\ standing[l] = "own"
  /\ standing' = [standing EXCEPT ![l] = "other"]
  /\ UNCHANGED <<over, hidden>>

LetGo ==
  /\ hidden \/ Owned = {}
  /\ over' = TRUE
  /\ UNCHANGED <<standing, hidden>>

Hide == hidden' = TRUE /\ UNCHANGED <<standing, over>>

SLBInit ==
  /\ standing = [l \in Created \cup Foreign |-> IF l \in Created THEN "unborn" ELSE "other"]
  /\ over = FALSE /\ hidden = FALSE

SLBNext ==
  \/ \E l \in Created \cup Foreign : Create(l) \/ Delete(l) \/ Remove(l) \/ Rename(l)
  \/ LetGo
  \/ Hide

SLBSpec == SLBInit /\ [][SLBNext]_slbVars
=============================================================================
