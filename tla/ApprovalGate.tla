---------------------------- MODULE ApprovalGate ----------------------------
(***************************************************************************)
(* Signing calls that need a human's approval.  signedServerCall (the EVM  *)
(* and the Solana Privy providers have the same one) posts a request; the  *)
(* server executes it, refuses it, or asks for an approval.  Then the call *)
(* waits in approvalGate's `pending` map for the decision, which arrives   *)
(* as an event of the wallet stream (SseTransport), or for its timer.      *)
(*                                                                         *)
(* The HTTP answer and the event travel on two connections: neither waits  *)
(* for the other, and an event nobody awaits is dropped.                   *)
(***************************************************************************)
EXTENDS Naturals, FiniteSets

CONSTANTS
  Calls,   \* the signedServerCall invocations
  Ids,     \* the approvals the server hands out
  NoCall,  \* no call: the id has no entry in `pending`
  NoId,    \* no approval was asked of the call
  Shared,  \* the server may hand out an open approval again
  Replays  \* the server resends decisions when the stream reconnects

ASSUME ConstantsAssumption ==
  /\ NoCall \notin Calls /\ NoId \notin Ids
  /\ Shared \in BOOLEAN /\ Replays \in BOOLEAN

VARIABLES
  approval,  \* the server's view of each approval
  wire,      \* decided approvals whose event travels on the wallet stream
  up,        \* the wallet stream is connected
  pc,        \* where each call stands
  reply,     \* the server's answer to each call's post
  asked,     \* the approval the answer names
  pending,   \* approvalGate.pending: id -> the call that awaits it
  timers,    \* calls whose setTimeout is armed
  outcome,   \* how each call ended
  heard      \* ghost: calls that were awaiting when their decision arrived

server == <<approval, wire, up>>
gate == <<pending, timers>>
vars == <<server, pc, reply, asked, gate, outcome, heard>>

Decisions == {"approved", "approvedEmpty", "rejected"}
Outcomes == {"result", "error", "rejected", "noResult", "timeout", "alreadyAwaited"}

Awaiting == {c \in Calls : pc[c] = "awaiting"}

-----------------------------------------------------------------------------
(* The server and the network.                                             *)

Answer(c) ==
  /\ pc[c] = "posted"
  /\ pc' = [pc EXCEPT ![c] = "answered"]
  /\ \/ \E r \in {"ok", "error"} : reply' = [reply EXCEPT ![c] = r]
        /\ UNCHANGED <<asked, approval>>
     \/ \E i \in Ids :
          /\ approval[i] = "unused" \/ (Shared /\ approval[i] = "open")
          /\ approval' = [approval EXCEPT ![i] = "open"]
          /\ asked' = [asked EXCEPT ![c] = i]
          /\ reply' = [reply EXCEPT ![c] = "approval"]
  /\ UNCHANGED <<wire, up, gate, outcome, heard>>

Decide(i) ==
  /\ approval[i] = "open"
  /\ \E d \in Decisions : approval' = [approval EXCEPT ![i] = d]
  /\ wire' = IF up THEN wire \cup {i} ELSE wire
  /\ UNCHANGED <<up, pc, reply, asked, gate, outcome, heard>>

StreamLost == up /\ up' = FALSE /\ wire' = {}
              /\ UNCHANGED <<approval, pc, reply, asked, gate, outcome, heard>>

StreamBack ==
  /\ ~up /\ up' = TRUE
  /\ wire' = IF Replays THEN {i \in Ids : approval[i] \in Decisions} ELSE {}
  /\ UNCHANGED <<approval, pc, reply, asked, gate, outcome, heard>>

-----------------------------------------------------------------------------
(* The gate and its callers.                                               *)

Settle(c, how) ==
  /\ pc' = [pc EXCEPT ![c] = "done"]
  /\ outcome' = [outcome EXCEPT ![c] = how]

Post(c) ==
  /\ pc[c] = "idle"
  /\ pc' = [pc EXCEPT ![c] = "posted"]
  /\ UNCHANGED <<server, reply, asked, gate, outcome, heard>>

(* Mutant: a second awaiter takes over the entry of the first.             *)
AwaitApprovalOverwrites(c, i) ==
  /\ pending' = [pending EXCEPT ![i] = c]
  /\ timers' = timers \cup {c}
  /\ pc' = [pc EXCEPT ![c] = "awaiting"]
  /\ UNCHANGED outcome

(* Mutant: the wait has no timer.                                          *)
AwaitApprovalNoTimer(c, i) ==
  IF pending[i] # NoCall
    THEN Settle(c, "alreadyAwaited") /\ UNCHANGED gate
    ELSE /\ pending' = [pending EXCEPT ![i] = c]
         /\ pc' = [pc EXCEPT ![c] = "awaiting"]
         /\ UNCHANGED <<timers, outcome>>

AwaitApproval(c, i) ==
  IF pending[i] # NoCall
    THEN Settle(c, "alreadyAwaited") /\ UNCHANGED gate
    ELSE /\ pending' = [pending EXCEPT ![i] = c]
         /\ timers' = timers \cup {c}
         /\ pc' = [pc EXCEPT ![c] = "awaiting"]
         /\ UNCHANGED outcome

Receive(c) ==
  /\ pc[c] = "answered"
  /\ CASE reply[c] = "ok" -> Settle(c, "result") /\ UNCHANGED gate
       [] reply[c] = "error" -> Settle(c, "error") /\ UNCHANGED gate
       [] OTHER -> AwaitApproval(c, asked[c])
  /\ UNCHANGED <<server, reply, asked, heard>>

(* Mutant: an approval without a result counts as a result.                *)
VerdictUnchecked(d) == IF d = "rejected" THEN "rejected" ELSE "result"

(* What the caller makes of a decision: an approval without a result is an *)
(* error of its own.                                                       *)
Verdict(d) ==
  CASE d = "approved" -> "result" [] d = "approvedEmpty" -> "noResult" [] OTHER -> "rejected"

(* Mutant: the entry stays and its timer goes on.                          *)
ResolveApprovalKeeps(i) ==
  IF pending[i] = NoCall THEN UNCHANGED <<pc, outcome, gate>>
  ELSE Settle(pending[i], Verdict(approval[i])) /\ UNCHANGED gate

(* Mutant: the timer is not cleared.                                       *)
ResolveApprovalNoClear(i) ==
  IF pending[i] = NoCall THEN UNCHANGED <<pc, outcome, gate>>
  ELSE /\ Settle(pending[i], Verdict(approval[i]))
       /\ pending' = [pending EXCEPT ![i] = NoCall]
       /\ UNCHANGED timers

(* Mutant: the entry is forgotten before the promise is settled.           *)
ResolveApprovalForgets(i) ==
  /\ pending' = [pending EXCEPT ![i] = NoCall]
  /\ UNCHANGED <<pc, outcome, timers>>

ResolveApproval(i) ==
  IF pending[i] = NoCall THEN UNCHANGED <<pc, outcome, gate>>
  ELSE /\ Settle(pending[i], Verdict(approval[i]))
       /\ pending' = [pending EXCEPT ![i] = NoCall]
       /\ timers' = timers \ {pending[i]}

Event(i) ==
  /\ up /\ i \in wire
  /\ wire' = wire \ {i}
  /\ ResolveApproval(i)
  /\ heard' = heard \cup {c \in Awaiting : asked[c] = i}
  /\ UNCHANGED <<approval, up, reply, asked>>

(* The timer deletes the entry of its id, whoever owns it by then.         *)
Timeout(c) ==
  /\ c \in timers
  /\ timers' = timers \ {c}
  /\ pending' = [pending EXCEPT ![asked[c]] = NoCall]
  /\ IF pc[c] = "awaiting" THEN Settle(c, "timeout") ELSE UNCHANGED <<pc, outcome>>
  /\ UNCHANGED <<server, reply, asked, heard>>

-----------------------------------------------------------------------------
Init ==
  /\ approval = [i \in Ids |-> "unused"] /\ wire = {} /\ up \in BOOLEAN
  /\ pc = [c \in Calls |-> "idle"]
  /\ reply = [c \in Calls |-> "none"]
  /\ asked = [c \in Calls |-> NoId]
  /\ pending = [i \in Ids |-> NoCall] /\ timers = {}
  /\ outcome = [c \in Calls |-> "none"] /\ heard = {}

Environment == (\E c \in Calls : Answer(c)) \/ (\E i \in Ids : Decide(i)) \/ StreamLost \/ StreamBack
Client == (\E c \in Calls : Post(c) \/ Receive(c) \/ Timeout(c)) \/ (\E i \in Ids : Event(i))
Next == Environment \/ Client

Spec == Init /\ [][Next]_vars

(* Timers fire, answers arrive and are handled; nothing is promised of the *)
(* human or of the wallet stream.                                          *)
FairSpec == Spec /\ \A c \in Calls : WF_vars(Answer(c)) /\ WF_vars(Receive(c)) /\ WF_vars(Timeout(c))

-----------------------------------------------------------------------------
TypeOK ==
  /\ approval \in [Ids -> {"unused", "open"} \cup Decisions]
  /\ wire \subseteq Ids /\ up \in BOOLEAN
  /\ pc \in [Calls -> {"idle", "posted", "answered", "awaiting", "done"}]
  /\ reply \in [Calls -> {"none", "ok", "error", "approval"}]
  /\ asked \in [Calls -> Ids \cup {NoId}]
  /\ pending \in [Ids -> Calls \cup {NoCall}]
  /\ timers \subseteq Calls /\ heard \subseteq Calls
  /\ outcome \in [Calls -> {"none"} \cup Outcomes]

(* A call is waiting exactly while `pending` holds it under its own id and *)
(* its own timer is armed: no wakeup is lost to another call's timer, no   *)
(* entry leaks and no timer outlives its entry (approvalGate.ts:55-91).    *)
WaitersArePending ==
  /\ timers = Awaiting
  /\ \A c \in Awaiting : asked[c] \in Ids /\ pending[asked[c]] = c
  /\ \A i \in Ids : pending[i] # NoCall => pending[i] \in Awaiting /\ asked[pending[i]] = i

(* What a call that asked for approval ends with is what was decided about *)
(* its approval: no signature is returned for a rejected or an undecided   *)
(* one (approvalGate.ts:75-91, signedServerCall).                          *)
DecisionHonoured ==
  \A c \in Calls :
    reply[c] = "approval" =>
      /\ outcome[c] = "result" => approval[asked[c]] = "approved"
      /\ outcome[c] = "noResult" => approval[asked[c]] = "approvedEmpty"
      /\ outcome[c] = "rejected" => approval[asked[c]] = "rejected"

(* A call whose decision arrived while it waited ends with that decision:  *)
(* its timer, or a second call on the same approval, cannot overtake it.   *)
HeardIsHonoured ==
  \A c \in heard : outcome[c] = Verdict(approval[asked[c]])

(* A signing call that was posted ends, whatever the human does and even   *)
(* if the wallet stream never comes back (approvalGate.ts:61-64).          *)
EveryCallEnds == \A c \in Calls : pc[c] = "posted" ~> pc[c] = "done"

(* What the theorems rest on.                                              *)
Inductive ==
  /\ TypeOK
  /\ WaitersArePending
  /\ DecisionHonoured
  /\ HeardIsHonoured
  /\ wire \subseteq {i \in Ids : approval[i] \in Decisions}
  /\ \A c \in Calls :
       /\ reply[c] = "approval" => asked[c] \in Ids /\ approval[asked[c]] # "unused"
       /\ pc[c] = "awaiting" => reply[c] = "approval"
       /\ pc[c] \in {"idle", "posted"} => reply[c] = "none" /\ outcome[c] = "none"
       /\ pc[c] = "answered" => reply[c] # "none"
       /\ pc[c] # "done" => outcome[c] = "none"
       /\ c \in heard => pc[c] = "done" /\ reply[c] = "approval"
                         /\ approval[asked[c]] \in Decisions
=============================================================================
