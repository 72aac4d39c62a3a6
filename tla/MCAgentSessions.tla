-------------------------- MODULE MCAgentSessions --------------------------
(* Instances of AgentSessions: the agent is client of one job, provider of *)
(* the other, or its own evaluator.                                        *)
EXTENDS AgentSessions

CONSTANTS j1, j2

BuyerParty == [j \in Jobs |-> {"client", "evaluator"}]
SellerParty == [j \in Jobs |-> {"provider"}]
MixedParty == [j \in Jobs |-> IF j = j1 THEN {"client", "evaluator"} ELSE {"provider"}]
=============================================================================
