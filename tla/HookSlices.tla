----------------------------- MODULE HookSlices -----------------------------
(***************************************************************************)
(* The accounts SolanaAcpClient appends for a job's hooks: the slice each  *)
(* hook is given per action, and the fan-out through the multi-hook router *)
(* (core/solana/routerLayout.ts, clients/solanaAcpClient.ts).              *)
(*                                                                         *)
(* An account is named by what it is derived for; the addresses themselves *)
(* are those of AcpInstructions and its siblings.                          *)
(***************************************************************************)
EXTENDS Naturals, Sequences, SequencesExt

Meta(account, writable, signer) ==
  [account |-> account, writable |-> writable, signer |-> signer]
RO(account) == Meta(account, FALSE, FALSE)
WR(account) == Meta(account, TRUE, FALSE)
WS(account) == Meta(account, TRUE, TRUE)

Sysvar == RO("sysvar")
StateOf(h) == IF h = "fund" THEN WR("fundState") ELSE WR("subState")

-----------------------------------------------------------------------------
(* What a hook is given.  `full` says that there is something for the hook *)
(* to work on: a proposal, a live intent, proposed terms.                  *)

FundSetBudget(full) ==
  IF full THEN <<StateOf("fund"), Sysvar, WS("provider"), WR("request"), WR("requestMap"),
                 RO("job"), RO("system")>>
  ELSE <<StateOf("fund"), Sysvar, RO("job")>>

\* Through the router the minimal slice goes without the job.
SubSetBudget(full, routed) ==
  IF full THEN <<StateOf("sub"), Sysvar, WS("provider"), WR("terms"), RO("job"),
                 RO("expiry"), RO("system")>>
  ELSE <<StateOf("sub"), Sysvar>> \o IF routed THEN <<>> ELSE <<RO("job")>>

FundFund(full) ==
  <<StateOf("fund"), Sysvar, RO("requestMap")>>
    \o IF full THEN <<WR("request"), WR("from"), WR("to"), RO("token")>> ELSE <<>>

SubFund == <<StateOf("sub"), Sysvar, RO("terms")>>

FundSubmit(full) ==
  IF full THEN <<StateOf("fund"), Sysvar, WS("provider"), WR("escrow"), WR("escrowMap"),
                 WR("providerToken"), WR("escrowVault"), RO("escrowAuthority"), RO("token"),
                 RO("system"), RO("job")>>
  ELSE <<StateOf("fund"), Sysvar, RO("job")>>

SubSubmit == <<StateOf("sub"), Sysvar, RO("job")>>

(* Mutant: a reject pays out to the client as a complete does.             *)
FundSettleToClient(full, dest) ==
  <<StateOf("fund"), Sysvar, RO("escrowMap")>>
    \o IF full THEN <<WR("escrow"), WR("escrowVault"), WR("clientToken"), RO("escrowAuthority"),
                      RO("token"), RO("acpState"), WR("sponsor"), RO("job")>>
       ELSE <<>>

\* Release to the client (complete) and return to the provider (reject)
\* differ only in the destination.
FundSettle(full, dest) ==
  <<StateOf("fund"), Sysvar, RO("escrowMap")>>
    \o IF full THEN <<WR("escrow"), WR("escrowVault"), WR(dest), RO("escrowAuthority"),
                      RO("token"), RO("acpState"), WR("sponsor"), RO("job")>>
       ELSE <<>>

SubComplete(full) ==
  IF full THEN <<StateOf("sub"), Sysvar, WR("terms"), WR("provider"), RO("job"),
                 RO("subProgram"), RO("writer"), WR("expiry"), RO("system"),
                 RO("acpState"), WR("sponsor")>>
  ELSE <<StateOf("sub"), Sysvar, RO("terms")>>

SubReject == <<StateOf("sub"), Sysvar, WR("terms"), RO("acpState"), WR("sponsor"), RO("job")>>

-----------------------------------------------------------------------------
(* Which hooks an action reaches, and the slice of each.  `seen` is what   *)
(* the leg read or proposes: [request, escrow, terms] as booleans.         *)

\* standardHookLists: the subscription hook does not implement submit.
HooksOf(hook, action) ==
  CASE hook = "none" -> <<>>
    [] hook = "router" -> IF action = "submit" THEN <<"fund">> ELSE <<"sub", "fund">>
    [] OTHER -> <<hook>>

Slice(h, action, seen, routed) ==
  CASE h = "fund" /\ action = "setBudget" -> FundSetBudget(seen.request)
    [] h = "fund" /\ action = "fund" -> FundFund(seen.request)
    [] h = "fund" /\ action = "submit" -> FundSubmit(seen.escrow)
    [] h = "fund" /\ action = "complete" -> FundSettle(seen.escrow, "clientToken")
    [] h = "fund" /\ action = "reject" -> FundSettle(seen.escrow, "providerToken")
    [] h = "sub" /\ action = "setBudget" -> SubSetBudget(seen.terms, routed)
    [] h = "sub" /\ action = "fund" -> SubFund
    [] h = "sub" /\ action = "submit" -> SubSubmit
    [] h = "sub" /\ action = "complete" -> SubComplete(seen.terms)
    [] h = "sub" /\ action = "reject" -> SubReject

\* hook_router, router_state and the sysvar lead every routed leg.
RouterPrefix == <<RO("hookRouter"), RO("routerState"), Sysvar>>

HookFraming(h) == IF h = "fund" THEN <<RO("fundHook"), RO("fundWhitelist")>>
                  ELSE <<RO("subHook"), RO("subWhitelist")>>

(* Mutant: the framing pair is counted.                                    *)
HeaderWithFraming(slices) == [i \in DOMAIN slices |-> Len(slices[i]) + 2]

\* encodeMultiHookHeader: one account count per hook, the framing not counted.
Header(slices) == [i \in DOMAIN slices |-> Len(slices[i])]

FanOut(hooks, slices) ==
  [header |-> Header(slices),
   accounts |-> RouterPrefix
     \o FlattenSeq([i \in DOMAIN hooks |-> HookFraming(hooks[i]) \o slices[i]])]

\* The accounts appended to the leg's instruction, the router's header, and
\* how many accounts belong to submit when the same instruction also
\* completes the job (completeOptParams).
Appended(hook, action, seen, evaluated) ==
  LET hooks == HooksOf(hook, action)
      slices == [i \in DOMAIN hooks |-> Slice(hooks[i], action, seen, hook = "router")]
      auto == action = "submit" /\ ~evaluated
  IN CASE hook = "none" -> [header |-> <<>>, accounts |-> <<>>, split |-> 0]
       [] hook = "router" ->
            [header |-> FanOut(hooks, slices).header, accounts |-> FanOut(hooks, slices).accounts,
             split |-> 0]
       [] hook = "fund" /\ action = "submit" /\ ~seen.funded ->
            [header |-> <<>>, accounts |-> <<StateOf("fund")>>, split |-> 0]
       [] OTHER ->
            [header |-> <<>>,
             accounts |-> slices[1] \o IF auto THEN Slice(hook, "complete", seen, FALSE) ELSE <<>>,
             split |-> IF auto THEN Len(slices[1]) ELSE 0]

-----------------------------------------------------------------------------
(* External: how the router cuts the appended accounts up again, following *)
(* the header over the hooks configured for the action: after its own, and *)
(* before each hook's accounts the two that frame them.                    *)
SlicesFrom(header) ==
  LET from[i \in DOMAIN header] ==
        IF i = 1 THEN Len(RouterPrefix) + 2 ELSE from[i - 1] + header[i - 1] + 2
  IN from

RouterSplit(hooks, header, accounts) ==
  [i \in DOMAIN hooks |->
     LET from == SlicesFrom(header)[i]
     IN IF from + header[i] > Len(accounts) THEN <<>>
        ELSE SubSeq(accounts, from + 1, from + header[i])]
=============================================================================
