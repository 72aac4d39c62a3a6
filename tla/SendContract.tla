---------------------------- MODULE SendContract ----------------------------
(***************************************************************************)
(* What an on-chain action of the SDK promises its caller, whatever        *)
(* retries happen inside: at most one transaction takes effect, "ok" is    *)
(* reported only once one did, and after "failed" none ever does.  Only an *)
(* "unknown" report (confirmation timed out, connection lost) leaves the   *)
(* outcome open.                                                           *)
(***************************************************************************)
VARIABLES
  effects,  \* the transactions of the call that took effect
  report    \* what the caller was told

vars == <<effects, report>>

Init == effects = {} /\ report = "pending"

TakeEffect ==
  /\ effects = {}
  /\ report \in {"pending", "unknown"}
  /\ \E t \in effects' : effects' = {t}
  /\ UNCHANGED report

Report ==
  /\ report = "pending"
  /\ \/ report' = "ok" /\ effects # {}
     \/ report' = "failed" /\ effects = {}
     \/ report' = "unknown"
  /\ UNCHANGED effects

Next == TakeEffect \/ Report

Spec == Init /\ [][Next]_vars
=============================================================================
