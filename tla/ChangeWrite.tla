---------------------------- MODULE ChangeWrite ----------------------------
(***************************************************************************)
(* What the write of a PCI change promises to the commit handler that      *)
(* calls it (preflight and apply_change of sdnr/apply.py).                 *)
(*                                                                         *)
(* A write ends in one of four ways.  "ok": the cell has carried out the   *)
(* change.  "notsent": it has not and never will.  "failed" and "escaped"  *)
(* (an exception nobody catches) promise nothing: the cell may have carried*)
(* it out, or do so later.                                                 *)
(***************************************************************************)
CONSTANT Writers

VARIABLES
    carried,  \* the writes the cell has carried out
    outcome   \* how each write has ended

vars == <<carried, outcome>>

Outcomes == {"none", "ok", "notsent", "failed", "escaped"}

Init ==
    /\ carried = {}
    /\ outcome = [w \in Writers |-> "none"]

\* At any time, unless the write ended without having sent anything.
CarryOut(w) ==
    /\ outcome[w] # "notsent"
    /\ carried' = carried \cup {w}
    /\ UNCHANGED outcome

Succeed(w) ==
    /\ outcome[w] = "none"
    /\ w \in carried
    /\ outcome' = [outcome EXCEPT ![w] = "ok"]
    /\ UNCHANGED carried

Decline(w) ==
    /\ outcome[w] = "none"
    /\ w \notin carried
    /\ outcome' = [outcome EXCEPT ![w] = "notsent"]
    /\ UNCHANGED carried

GiveUp(w) ==
    /\ outcome[w] = "none"
    /\ \E o \in {"failed", "escaped"} : outcome' = [outcome EXCEPT ![w] = o]
    /\ UNCHANGED carried

Next ==
    \E w \in Writers : CarryOut(w) \/ Succeed(w) \/ Decline(w) \/ GiveUp(w)

Spec == Init /\ [][Next]_vars
=============================================================================
