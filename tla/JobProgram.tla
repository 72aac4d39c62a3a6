----------------------------- MODULE JobProgram -----------------------------
(***************************************************************************)
(* What the on-chain program does with a job, as far as the SDK relies on  *)
(* it: the job's states and the preconditions of the five instructions the *)
(* parties send.  The program is not part of the repository; its rules are *)
(* those src/ states: the state machine and the gates of                   *)
(* jobStateRetryGuard.ts, the program's error names and the reject points  *)
(* of the examples.                                                        *)
(***************************************************************************)
EXTENDS Naturals

JobStates == {"open", "funded", "submitted", "completed", "rejected", "expired"}
Terminal == {"completed", "rejected", "expired"}

Ops == {"setBudget", "fund", "submit", "complete", "reject"}

\* The states in which the instruction's status check passes.
AllowedStates(op) ==
  CASE op \in {"setBudget", "fund"} -> {"open"}
    [] op = "submit" -> {"open", "funded"}
    [] op = "complete" -> {"submitted"}
    [] op = "reject" -> {"open", "funded", "submitted"}

\* An instruction the program refuses once the job's deadline has passed.
ExpiryGated(op) == op # "reject"

\* The state a successful instruction leaves the job in; without an evaluator
\* a submit completes the job.
NextState(op, evaluated) ==
  CASE op = "setBudget" -> "open"
    [] op = "fund" -> "funded"
    [] op = "submit" -> IF evaluated THEN "submitted" ELSE "completed"
    [] op = "complete" -> "completed"
    [] op = "reject" -> "rejected"
=============================================================================
