----------------------------- MODULE RetryGates -----------------------------
(***************************************************************************)
(* core/solana/jobStateRetryGuard.ts, its tables and its guard: for an     *)
(* instruction the guard knows, where its job account is, the job states   *)
(* in which its status check passes, and whether the program refuses it    *)
(* after the job's deadline.  Gates are looked up by the instruction's     *)
(* program first, then by its discriminator.  (Positions count from 1      *)
(* here, from 0 there.)                                                    *)
(***************************************************************************)
EXTENDS Naturals, Sequences

Gate(index, states, expiryGated) ==
  [jobAccountIndex |-> index, allowedStates |-> states, expiryGated |-> expiryGated]

(* Mutant: submit's job account is looked for where fund has it.           *)
StateGatesSubmitAsFund ==
  [setBudget |-> Gate(2, {"open"}, TRUE),
   fund      |-> Gate(2, {"open"}, TRUE),
   submit    |-> Gate(2, {"open", "funded"}, TRUE),
   complete  |-> Gate(3, {"submitted"}, TRUE),
   reject    |-> Gate(3, {"open", "funded", "submitted"}, FALSE)]

StateGates ==
  [setBudget |-> Gate(2, {"open"}, TRUE),
   fund      |-> Gate(2, {"open"}, TRUE),
   submit    |-> Gate(3, {"open", "funded"}, TRUE),
   complete  |-> Gate(3, {"submitted"}, TRUE),
   reject    |-> Gate(3, {"open", "funded", "submitted"}, FALSE)]

RouterStateGates == [batchConfigureHooks |-> Gate(2, {"open"}, FALSE)]

SubHookStateGates == [cleanupProposedTerms |-> Gate(3, {"expired"}, FALSE)]

\* The gates for an instruction of a program: the router's and the
\* subscription hook's only when their addresses were passed to the guard.
GatesOf(program, withRouter, withSubHook) ==
  CASE program = "acp" -> StateGates
    [] program = "router" /\ withRouter -> RouterStateGates
    [] program = "subHook" /\ withSubHook -> SubHookStateGates
    [] OTHER -> [name \in {} |-> Gate(1, {}, FALSE)]

\* The guard of a batch: it has a gated instruction, and the job of every
\* gated one, where `jobs` (what our RPC shows) has it, passes the gate.
Guard(batch, jobs) ==
  LET GatesFor(ix) == GatesOf(ix.program, TRUE, TRUE)
      gated == {i \in DOMAIN batch : batch[i].name \in DOMAIN GatesFor(batch[i])}
      Passes(ix) ==
        LET gate == GatesFor(ix)[ix.name]
        IN /\ gate.jobAccountIndex \in DOMAIN ix.metas
           /\ LET address == ix.metas[gate.jobAccountIndex].address
              IN /\ address \in DOMAIN jobs
                 /\ jobs[address].state \in gate.allowedStates
                 /\ gate.expiryGated => ~jobs[address].overdue
  IN gated # {} /\ \A i \in gated : Passes(batch[i])
=============================================================================
