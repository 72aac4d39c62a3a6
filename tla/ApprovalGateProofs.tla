------------------------ MODULE ApprovalGateProofs ------------------------
(* Proofs about ApprovalGate, for any number of calls and approvals.      *)
EXTENDS ApprovalGate, TLAPS

(* The states the program starts in satisfy the invariant.                *)
LEMMA InitInductive == Init => Inductive
  BY ConstantsAssumption
  DEF Init, Inductive, TypeOK, WaitersArePending, DecisionHonoured, HeardIsHonoured, Awaiting, Decisions, Outcomes

(* What signedServerCall makes of each decision.                          *)
LEMMA Verdicts ==
  /\ Verdict("approved") = "result" /\ Verdict("approvedEmpty") = "noResult"
  /\ Verdict("rejected") = "rejected"
  BY DEF Verdict

(* What the server and the network do leaves the gate alone, and a        *)
(* decision, once taken, is final.                                        *)
LEMMA EnvironmentInductive == Inductive /\ Environment => Inductive'
<1> SUFFICES ASSUME Inductive, Environment PROVE Inductive'
  OBVIOUS
<1> USE ConstantsAssumption
    DEF Inductive, TypeOK, WaitersArePending, DecisionHonoured, HeardIsHonoured,
        Awaiting, Decisions, Outcomes
<1>1. CASE \E c \in Calls : Answer(c)
  <2>1. PICK c \in Calls : Answer(c)
    BY <1>1
  <2>2. CASE reply'[c] # "approval"
    BY <2>1, <2>2 DEF Answer, gate
  <2>3. CASE reply'[c] = "approval"
    BY <2>1, <2>3 DEF Answer, gate
  <2> QED BY <2>2, <2>3
<1>2. CASE \E i \in Ids : Decide(i)
  BY <1>2 DEF Decide, gate
<1>3. CASE StreamLost
  <2>1. up' = FALSE /\ wire' = {}
        /\ UNCHANGED <<approval, pc, reply, asked, pending, timers, outcome, heard>>
    BY <1>3 DEF StreamLost, gate
  <2>2. TypeOK'
    BY <2>1
  <2> QED BY <2>1, <2>2
<1>4. CASE StreamBack
  BY <1>4 DEF StreamBack, gate
<1> QED BY <1>1, <1>2, <1>3, <1>4 DEF Environment

(* Every turn of the client keeps the pending map, the timers and the     *)
(* waiting calls in agreement.                                            *)
LEMMA ClientInductive == Inductive /\ Client => Inductive'
<1> SUFFICES ASSUME Inductive, Client PROVE Inductive'
  OBVIOUS
<1> USE ConstantsAssumption
    DEF Inductive, TypeOK, WaitersArePending, DecisionHonoured, HeardIsHonoured,
        Awaiting, Decisions, Outcomes
<1>1. ASSUME NEW c \in Calls, Post(c) PROVE Inductive'
  BY <1>1 DEF Post, server, gate
<1>2. ASSUME NEW c \in Calls, Receive(c) PROVE Inductive'
  <2>1. CASE reply[c] \in {"ok", "error"}
    BY <1>2, <2>1 DEF Receive, Settle, server, gate
  <2>2. CASE reply[c] = "approval" /\ pending[asked[c]] # NoCall
    BY <1>2, <2>2 DEF Receive, AwaitApproval, Settle, server, gate
  <2>3. CASE reply[c] = "approval" /\ pending[asked[c]] = NoCall
    BY <1>2, <2>3 DEF Receive, AwaitApproval, server
  <2> QED BY <1>2, <2>1, <2>2, <2>3 DEF Receive
<1>3. ASSUME NEW c \in Calls, Timeout(c) PROVE Inductive'
  <2>1. c \in Awaiting /\ reply[c] = "approval" /\ asked[c] \in Ids /\ c \notin heard
    BY <1>3 DEF Timeout
  <2>2. /\ timers' = timers \ {c}
        /\ pending' = [pending EXCEPT ![asked[c]] = NoCall]
        /\ pc' = [pc EXCEPT ![c] = "done"]
        /\ outcome' = [outcome EXCEPT ![c] = "timeout"]
        /\ UNCHANGED <<approval, wire, up, reply, asked, heard>>
    BY <1>3, <2>1 DEF Timeout, Settle, server
  <2>3. TypeOK'
    BY <2>1, <2>2
  <2>4. WaitersArePending'
    BY <2>1, <2>2
  <2>5. DecisionHonoured' /\ HeardIsHonoured'
    BY <2>1, <2>2
  <2> QED BY <2>1, <2>2, <2>3, <2>4, <2>5
<1>4. ASSUME NEW i \in Ids, Event(i) PROVE Inductive'
  <2>1. CASE pending[i] = NoCall
    BY <1>4, <2>1 DEF Event, ResolveApproval, gate
  <2>2. CASE pending[i] # NoCall
    <3> DEFINE c == pending[i]
    <3>1. c \in Awaiting /\ asked[c] = i /\ reply[c] = "approval" /\ approval[i] \in Decisions
      BY <1>4, <2>2 DEF Event
    <3>2. heard' = heard \cup {c}
      BY <1>4, <3>1 DEF Event
    <3>3. /\ timers' = timers \ {c}
          /\ pending' = [pending EXCEPT ![i] = NoCall]
          /\ pc' = [pc EXCEPT ![c] = "done"]
          /\ outcome' = [outcome EXCEPT ![c] = Verdict(approval[i])]
          /\ wire' = wire \ {i}
          /\ UNCHANGED <<approval, up, reply, asked>>
      BY <1>4, <2>2 DEF Event, ResolveApproval, Settle
    <3> HIDE DEF c
    <3>4. Verdict(approval[i]) \in {"result", "noResult", "rejected"}
      BY <3>1, Verdicts
    <3>5. TypeOK'
      BY <3>1, <3>2, <3>3, <3>4
    <3>6. WaitersArePending'
      BY <3>1, <3>3
    <3>7. DecisionHonoured'
      BY <3>1, <3>3, Verdicts
    <3>8. HeardIsHonoured'
      BY <3>1, <3>2, <3>3
    <3> QED BY <3>1, <3>2, <3>3, <3>5, <3>6, <3>7, <3>8
  <2> QED BY <2>1, <2>2
<1> QED BY <1>1, <1>2, <1>3, <1>4 DEF Client

(* The invariant is inductive.                                            *)
LEMMA StepInductive == Inductive /\ [Next]_vars => Inductive'
<1> SUFFICES ASSUME Inductive, [Next]_vars PROVE Inductive'
  OBVIOUS
<1>1. CASE UNCHANGED vars
  BY <1>1 DEF vars, server, gate, Inductive, TypeOK, WaitersArePending, DecisionHonoured,
              HeardIsHonoured, Awaiting
<1> QED BY <1>1, EnvironmentInductive, ClientInductive DEF Next

(* The inductive invariant holds in every reachable state.                *)
THEOREM GateInductive == Spec => []Inductive
  BY InitInductive, StepInductive, PTL DEF Spec

(* No awaiting signing call loses its entry or its timer, and no entry or *)
(* timer is left behind: approvalGate's map and its timers agree.         *)
THEOREM WaitersAgree == Spec => []WaitersArePending
  BY GateInductive, PTL DEF Inductive

(* signedServerCall returns a signature, or an approval error, only when  *)
(* that is what was decided about the approval it asked for.              *)
THEOREM DecisionsAreHonoured == Spec => []DecisionHonoured
  BY GateInductive, PTL DEF Inductive

(* A decision that arrives while its call waits is what the call ends     *)
(* with: neither a timer nor a second call overtakes it.                  *)
THEOREM NoDecisionOvertaken == Spec => []HeardIsHonoured
  BY GateInductive, PTL DEF Inductive
=============================================================================
