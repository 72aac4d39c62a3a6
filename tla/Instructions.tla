---------------------------- MODULE Instructions ----------------------------
(***************************************************************************)
(* The five generated clients side by side: which instruction a program    *)
(* address and a discriminator name, and its tables.  A discriminator is   *)
(* derived from the instruction's name alone, so programs share them:      *)
(* initialize, beforeAction, acceptAuthority, ...                          *)
(***************************************************************************)
EXTENDS AccountMetas

Acp == INSTANCE AcpInstructions
FundHook == INSTANCE FundHookInstructions
Router == INSTANCE RouterInstructions
SubHook == INSTANCE SubscriptionHookInstructions
SubState == INSTANCE SubscriptionStateInstructions

Programs == {"acp", "fundHook", "router", "subHook", "subState"}

Layouts == [acp |-> Acp!Layouts, fundHook |-> FundHook!Layouts, router |-> Router!Layouts,
            subHook |-> SubHook!Layouts, subState |-> SubState!Layouts]

Parsers == [acp |-> Acp!Parsers, fundHook |-> FundHook!Parsers, router |-> Router!Parsers,
            subHook |-> SubHook!Parsers, subState |-> SubState!Parsers]

Derives(program, a) ==
  CASE program = "acp" -> Acp!Derives(a) [] program = "fundHook" -> FundHook!Derives(a)
    [] program = "router" -> Router!Derives(a) [] program = "subHook" -> SubHook!Derives(a)
    [] program = "subState" -> SubState!Derives(a)

Discriminators ==
  [acp |-> Acp!Discriminators, fundHook |-> FundHook!Discriminators,
   router |-> Router!Discriminators, subHook |-> SubHook!Discriminators,
   subState |-> SubState!Discriminators]

Calls == {<<p, n>> : p \in Programs, n \in UNION {DOMAIN Layouts[q] : q \in Programs}}
Known == {c \in Calls : c[2] \in DOMAIN Layouts[c[1]]}

\* The first instruction of the program whose discriminator the data starts
\* with; "unknown" when there is none.
Identify(program, discriminator) ==
  LET list == Discriminators[program]
      hits == {i \in DOMAIN list : list[i] = discriminator}
  IN IF hits = {} THEN "unknown" ELSE list[CHOOSE i \in hits : \A j \in hits : i <= j]
=============================================================================
