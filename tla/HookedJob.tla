----------------------------- MODULE HookedJob ------------------------------
(***************************************************************************)
(* A job with hooks on Solana: what SolanaAcpClient reads, prepares and    *)
(* sends for the parties of one job, and what the programs make of it.     *)
(*                                                                         *)
(* Every call reads the job first and the hook's accounts later, may send  *)
(* a transaction of its own that pre-creates hook accounts, and builds its *)
(* transaction from what it read; the others' calls land in between.       *)
(* A transaction takes effect as a whole or not at all.                    *)
(*                                                                         *)
(* The programs are external.  Their rules are those the comments of       *)
(* src/ and the generated error names state, and only as far as the client *)
(* relies on them.                                                         *)
(***************************************************************************)
EXTENDS HookSlices, JobProgram, Sharding

CONSTANTS
  Hooks,          \* the hook programs a job may name: none, fund, sub, router
  Budgets,        \* the budgets the provider may set
  Transfers,      \* the token transfers proposed or staked: [token, amount]
  MoreSponsors,   \* the additional sponsor wallets, in order
  MaxBudgets      \* BOUND: how often the provider sets the budget

Mint == "usdc"    \* acp_state.payment_token

ASSUME ConstantsAssumption ==
  /\ Hooks \subseteq {"none", "fund", "sub", "router"}
  /\ Budgets \subseteq Nat /\ Transfers \subseteq [token : {Mint, "other"}, amount : Nat]
  /\ MoreSponsors \in Seq(STRING) /\ \A i \in DOMAIN MoreSponsors : MoreSponsors[i] # NoPin
  /\ MaxBudgets \in Nat

Actors == {"client", "provider", "evaluator"}
MethodsOf(a) == CASE a = "client" -> {"configure", "fund"}
                  [] a = "provider" -> {"setBudget", "submit"}
                  [] a = "evaluator" -> {"complete", "reject"}

NoToken == [token |-> "none", amount |-> 0]
Cancel == [token |-> "cancel", amount |-> 0]
DefaultStake == [token |-> "default", amount |-> 0]
Idle == [live |-> FALSE, token |-> Mint, amount |-> 0]
Live(t) == [live |-> TRUE, token |-> t.token, amount |-> t.amount]

\* Accounts whose rent somebody pays and gets back.
Rented == {"request", "escrow", "terms", "vault", "escrowVault", "hookRouter", "expiry"}
Nobody == "nobody"

VARIABLES
  kind,     \* [hook, evaluated]: the job's hook, and whether it has an evaluator
  job,      \* [state, budget, shard, configured, request, escrow, terms, expiry]
  payer,    \* who paid the rent of each account, Nobody while it is not there
  sponsors, \* how many live sponsors AcpState counts
  leg,      \* what each party's call is doing
  budgets,  \* how many budgets were set
  drift     \* accounts whose rent came from one sponsor and went to another

vars == <<kind, job, payer, sponsors, leg, budgets, drift>>

AcpState == [sponsor |-> "sponsor0", sponsorShards |-> MoreSponsors, sponsorShardCount |-> sponsors]

NoLeg == [pc |-> "idle"]

-----------------------------------------------------------------------------
(* What a call has read and what it proposes.                              *)

\* What the legs use of the job account and, per method, of the hook's.
JobFacts == [state |-> job.state, budget |-> job.budget, shard |-> job.shard]

HookFacts(method) ==
  [request |-> IF method = "fund" THEN job.request ELSE Idle,
   escrow |-> method \in {"complete", "reject"} /\ job.escrow.live,
   terms |-> method \in {"fund", "submit", "complete"} /\ job.terms = "set"]

Routed == kind.hook = "router"
UsesFund == kind.hook \in {"fund", "router"}
UsesSub == kind.hook \in {"sub", "router"}

\* jobHasEscrow; reject passes the vault of a job that is past funding only.
EscrowGroup(l) ==
  /\ l.job.budget > 0
  /\ l.method = "reject" => l.job.state \in {"funded", "submitted"}

\* The stake of a submit: the whole budget unless the caller says otherwise;
\* a routed job without a budget stakes nothing.
StakeOf(l) ==
  IF l.args.stake # DefaultStake THEN l.args.stake
  ELSE IF Routed /\ l.job.budget = 0 THEN NoToken
  ELSE [token |-> Mint, amount |-> l.job.budget]

Seen(l) ==
  [request |-> IF l.method = "setBudget" THEN l.args.proposal # NoToken ELSE l.request.live,
   escrow |-> IF l.method = "submit" THEN StakeOf(l) # NoToken ELSE l.escrow,
   terms |-> IF l.method = "setBudget" THEN l.args.terms ELSE l.terms,
   funded |-> l.job.budget > 0]

\* prepare() refuses what it cannot build: a routed submit without an
\* evaluator, and a submit without a stake and without an evaluator.
CanPrepare(l) ==
  l.method = "submit" /\ ~kind.evaluated =>
    /\ ~Routed
    /\ kind.hook = "fund" /\ l.job.budget > 0 => StakeOf(l) # NoToken

-----------------------------------------------------------------------------
(* Token approvals.  The core approves the hook's delegate for the budget, *)
(* in the budget's token, when it is passed the delegate; what that does   *)
(* not cover, the caller approves itself, around the instruction.          *)

OverBudget(l) == StakeOf(l).token = Mint /\ StakeOf(l).amount > l.job.budget

CoreCovers(l) ==
  CASE l.method = "fund" ->
         l.job.budget > 0 /\ l.request.token = Mint /\ l.request.amount <= l.job.budget
    [] l.method = "submit" ->
         kind.evaluated /\ StakeOf(l).token = Mint /\ ~OverBudget(l)

\* What the hook will take from the caller's wallet.
Pull(l) ==
  CASE l.method = "fund" /\ UsesFund /\ l.request.live ->
         [token |-> l.request.token, amount |-> l.request.amount]
    [] l.method = "submit" /\ (Routed \/ (kind.hook = "fund" /\ l.job.budget > 0)) ->
         StakeOf(l)
    [] OTHER -> NoToken

\* The caller's own approval, revoked again after the instruction.
Bracket(l) == IF Pull(l).amount > 0 /\ ~CoreCovers(l) THEN Pull(l) ELSE NoToken

(* Mutant: the delegate is always passed.                                  *)
PassesDelegateAlways(l) == UsesFund /\ l.method \in {"fund", "submit"}

\* The delegate is left out where the core's approve and revoke would
\* overwrite the caller's approval of the same token account.
PassesDelegate(l) ==
  CASE l.method = "fund" -> UsesFund /\ Bracket(l).token # Mint
    [] l.method = "submit" /\ Routed -> ~OverBudget(l)
    [] l.method = "submit" /\ kind.hook = "fund" ->
         Pull(l) # NoToken /\ ~(kind.evaluated /\ OverBudget(l))
    [] OTHER -> FALSE

\* External: the core approves the delegate it is passed, on the wallet of
\* the budget's token; at submit only if the job has an evaluator.
CoreApproves(l, budget) ==
  PassesDelegate(l) /\ budget > 0 /\ (l.method = "submit" => kind.evaluated)

\* External: what the hook may take of a token (an account has one delegate
\* and one approved amount).
Allowance(l, budget, token) ==
  IF token = Mint /\ CoreApproves(l, budget) THEN budget
  ELSE IF Bracket(l).token = token THEN Bracket(l).amount ELSE 0
-----------------------------------------------------------------------------
(* Rent.                                                                   *)

\* The wallet the close paths name.
Sponsor(l) == SponsorForRecorded(AcpState, l.job.shard)

(* Mutant: the first sponsor is pinned, whatever the job recorded.         *)
PinPrimary(l) == PinIfSharded(AcpState, AcpState.sponsor)

\* The fee payer a call pins: a submit without a budget and
\* completeSubscriptionJob pin none, and a routed submit loses its pin to the
\* lookup-table options.
Pin(l) ==
  IF \/ l.method = "submit" /\ (Routed \/ (kind.hook # "sub" /\ l.job.budget = 0))
     \/ l.method = "complete" /\ UsesSub
  THEN NoPin
  ELSE PinIfSharded(AcpState, Sponsor(l))

\* The wallets that may pay for a sponsored transaction: the pinned one, or
\* whichever the rotation hands out.
FeePayers(pin) == IF pin # NoPin THEN {pin} ELSE ToSet(AllSponsors(AcpState))

\* The hook accounts pre-created before a budget, or before a submit that
\* needs one which is not there yet.
PreCreates(l) ==
  CASE l.method = "setBudget" /\ Routed ->
         {"escrow"} \cup (IF l.args.proposal # NoToken THEN {"request"} ELSE {})
           \cup (IF l.args.terms THEN {"terms", "expiry"} ELSE {})
    [] l.method = "setBudget" /\ kind.hook = "sub" -> IF l.args.terms THEN {"expiry"} ELSE {}
    [] l.method = "submit" /\ Routed -> IF StakeOf(l) # NoToken THEN {"escrow"} ELSE {}
    [] l.method = "submit" /\ kind.hook = "sub" ->
         IF ~kind.evaluated /\ l.terms THEN {"expiry"} ELSE {}
    [] OTHER -> {}

\* Those that are not there yet; no terms while the subscription is active.
Missing(l) ==
  {a \in PreCreates(l) : payer[a] = Nobody /\ (a = "terms" => job.expiry # "active")}

\* The accounts a call creates in its own transaction.
Creates(l) ==
  {a \in Rented :
     /\ payer[a] = Nobody
     /\ CASE l.method = "configure" -> a = "hookRouter"
          [] l.method = "setBudget" ->
               \/ a = "request" /\ UsesFund /\ l.args.proposal # NoToken
               \/ a = "terms" /\ UsesSub /\ l.args.terms /\ job.expiry # "active"
          [] l.method = "fund" -> a = "vault" /\ job.budget > 0
          [] l.method = "submit" -> a \in {"escrow", "escrowVault"} /\ Pull(l) # NoToken
          [] OTHER -> FALSE}

\* Rent of accounts a routed hook creates is not prefunded: it sits too deep
\* below the transaction.  Token accounts and the vault are created above.
Deep(a) == Routed /\ a \in {"request", "escrow", "terms"}

PaidBy(l, wallet) ==
  [a \in Rented |-> IF a \notin Creates(l) THEN payer[a]
                    ELSE IF Deep(a) THEN "provider" ELSE wallet]

-----------------------------------------------------------------------------
(* External: what the programs ask of a transaction.                       *)

Extra(l) ==
  IF l.method = "configure" THEN [header |-> <<>>, accounts |-> <<>>, split |-> 0]
  ELSE Appended(kind.hook, l.method, Seen(l), kind.evaluated)

\* What a hook works on, besides its own state.
Touches(h, l, action, escrowLive) ==
  CASE h = "fund" /\ action = "setBudget" ->
         IF l.args.proposal # NoToken
           THEN {WS("provider"), WR("request"), WR("requestMap"), RO("job"), RO("system")} ELSE {}
    [] h = "fund" /\ action = "fund" ->
         {RO("requestMap")}
           \cup (IF job.request.live THEN {WR("request"), WR("from"), WR("to"), RO("token")} ELSE {})
    [] h = "fund" /\ action = "submit" ->
         IF StakeOf(l) # NoToken
           THEN {WS("provider"), WR("escrow"), WR("escrowMap"), WR("providerToken"),
                 WR("escrowVault"), RO("escrowAuthority"), RO("token"), RO("system"), RO("job")}
           ELSE {}
    [] h = "fund" /\ action \in {"complete", "reject"} ->
         {RO("escrowMap")}
           \cup (IF escrowLive
                 THEN {WR("escrow"), WR("escrowVault"), RO("escrowAuthority"), RO("token"),
                       RO("acpState"), WR("sponsor"), RO("job"),
                       WR(IF action = "complete" THEN "clientToken" ELSE "providerToken")}
                 ELSE {})
    [] h = "sub" /\ action = "setBudget" ->
         IF l.args.terms THEN {WS("provider"), WR("terms"), RO("job"), RO("expiry"), RO("system")}
         ELSE {}
    [] h = "sub" /\ action = "fund" -> {RO("terms")}
    [] h = "sub" /\ action = "submit" -> {}
    [] h = "sub" /\ action = "complete" ->
         IF job.terms = "set"
           THEN {WR("terms"), WR("provider"), RO("job"), RO("subProgram"), RO("writer"),
                 WR("expiry"), RO("system"), RO("acpState"), WR("sponsor")}
           ELSE {RO("terms")}
    [] h = "sub" /\ action = "reject" -> {WR("terms"), RO("acpState"), WR("sponsor"), RO("job")}

Covers(part, need) ==
  \E m \in ToSet(part) : /\ m.account = need.account
                         /\ need.writable => m.writable
                         /\ need.signer => m.signer

\* A hook finds its accounts in its part of the list.
Finds(h, part, l, action, escrowLive) ==
  \A need \in {StateOf(h), Sysvar} \cup Touches(h, l, action, escrowLive) : Covers(part, need)

\* What the caller confirms is what the hook has recorded, and terms that
\* were pre-created and never filled in cannot be read.
Agrees(h, l, action) ==
  /\ h = "fund" /\ action = "fund" /\ job.request.live => l.request = job.request
  /\ h = "fund" /\ action = "submit" => kind.evaluated \/ StakeOf(l) # NoToken
  /\ h = "sub" /\ action \in {"fund", "complete"} => job.terms # "blank"
  /\ h = "sub" /\ action = "fund" => l.terms = (job.terms = "set")
  /\ h = "sub" /\ action = "setBudget" /\ l.args.terms /\ job.expiry = "active" => l.args.amount = 0

\* Nobody signs for the rent of the expiry account when a job completes.
CanActivate(h, action) == h = "sub" /\ action = "complete" /\ job.terms = "set" => job.expiry # "none"

HookAccepts(h, part, l, action, escrowLive) ==
  Finds(h, part, l, action, escrowLive) /\ Agrees(h, l, action) /\ CanActivate(h, action)

HooksAccept(l) ==
  LET extra == Extra(l)
      hooks == HooksOf(kind.hook, l.method)
      count == Len(extra.accounts)
  IN /\ Routed =>
          /\ job.configured
          /\ \A i \in DOMAIN hooks :
               HookAccepts(hooks[i], RouterSplit(hooks, extra.header, extra.accounts)[i],
                           l, l.method, job.escrow.live)
     /\ kind.hook \in {"fund", "sub"} =>
          IF l.method = "submit" /\ ~kind.evaluated
          THEN /\ HookAccepts(kind.hook, SubSeq(extra.accounts, 1, extra.split), l, "submit", FALSE)
               /\ HookAccepts(kind.hook, SubSeq(extra.accounts, extra.split + 1, count), l, "complete", TRUE)
          ELSE HookAccepts(kind.hook, extra.accounts, l, l.method, job.escrow.live)

\* The core: the job's state, the budget the caller expects, the escrow
\* accounts exactly where there is an escrow, and more than the two accounts
\* every hook has where money is at stake.
CoreAccepts(l) ==
  /\ job.state \in AllowedStates(l.method)
  /\ l.method = "submit" /\ job.state = "open" => job.budget = 0
  /\ l.method = "fund" => l.args.amount = job.budget    \* BudgetMismatch
  /\ l.method \in {"fund", "submit", "complete", "reject"} =>
       EscrowGroup(l) = EscrowGroup([l EXCEPT !.job = JobFacts])
  /\ LET stake == IF l.method = "setBudget" THEN l.args.amount ELSE job.budget
     IN kind.hook # "none" /\ l.method \in {"setBudget", "submit"} /\ stake > 0 =>
          Len(Extra(l).accounts) > 2

\* The approvals suffice for what the hook takes.
Authorised(l) == Pull(l).amount <= Allowance(l, job.budget, Pull(l).token) \/ Pull(l).amount = 0

Accepts(l) ==
  IF l.method = "configure" THEN Routed /\ job.state = "open"
  ELSE CoreAccepts(l) /\ HooksAccept(l) /\ Authorised(l)
-----------------------------------------------------------------------------
(* External: the effect of an accepted transaction.                        *)

Ends(l) == l.method # "configure" /\ NextState(l.method, kind.evaluated) \in Terminal

Settled(next, completes) ==
  [next EXCEPT !.escrow = Idle, !.terms = "absent",
               !.expiry = IF completes /\ next.terms = "set" THEN "active" ELSE @]

Effect(l) ==
  LET moved == IF l.method = "configure" THEN job
               ELSE [job EXCEPT !.state = NextState(l.method, kind.evaluated)]
  IN CASE l.method = "configure" -> [job EXCEPT !.configured = TRUE]
       [] l.method = "setBudget" ->
            [moved EXCEPT
               !.budget = l.args.amount,
               !.request = IF ~UsesFund \/ l.args.proposal = NoToken THEN @
                           ELSE IF l.args.proposal = Cancel THEN Idle
                           ELSE Live(l.args.proposal),
               !.terms = IF UsesSub /\ l.args.terms /\ job.expiry # "active" THEN "set" ELSE @]
       [] l.method = "fund" -> [moved EXCEPT !.request = Idle]
       [] l.method = "submit" ->
            LET staked == [moved EXCEPT !.escrow = IF Pull(l) = NoToken THEN @
                                                   ELSE Live(Pull(l))]
            IN IF kind.evaluated THEN staked ELSE Settled(staked, TRUE)
       [] l.method \in {"complete", "reject"} -> Settled(moved, l.method = "complete")

\* The accounts that are closed to the job's sponsor when it ends, and those
\* closed afterwards.
Closed == {"vault", "escrowVault", "terms"}
ClosedLater == {"request", "escrow", "hookRouter"}

Drifted(paid, accounts, wallet) ==
  {a \in accounts : paid[a] \notin {Nobody, "provider", wallet}}

-----------------------------------------------------------------------------
(* The calls.                                                              *)

Proposals == {NoToken, Cancel} \cup Transfers
Stakes == {DefaultStake, NoToken} \cup Transfers

\* fund is called with the budget the session shows, which may be old.
ArgsOf(method) ==
  [amount : IF method = "setBudget" THEN Budgets
            ELSE IF method = "fund" THEN {job.budget} ELSE {0},
   proposal : IF method = "setBudget" /\ UsesFund THEN Proposals ELSE {NoToken},
   terms : IF method = "setBudget" /\ UsesSub THEN BOOLEAN ELSE {FALSE},
   stake : IF method = "submit" THEN (IF UsesFund THEN Stakes ELSE {NoToken}) ELSE {NoToken}]

Init ==
  /\ kind \in [hook : Hooks, evaluated : BOOLEAN]
  /\ \E expiry \in {"none", "active"} :
       /\ expiry = "active" => UsesSub
       /\ job = [state |-> "absent", budget |-> 0, shard |-> 0, configured |-> FALSE,
                 request |-> Idle, escrow |-> Idle, terms |-> "absent", expiry |-> expiry]
       /\ payer = [a \in Rented |-> IF a = "expiry" /\ expiry = "active" THEN "provider" ELSE Nobody]
  /\ sponsors = 1
  /\ leg = [a \in Actors |-> NoLeg]
  /\ budgets = 0 /\ drift = {}

\* createJob reads nothing and pins nothing; the program records the shard
\* derived from the job's address.
CreateJob ==
  /\ job.state = "absent"
  /\ \E key \in 0..2 :
       job' = [job EXCEPT !.state = "open",
                          !.shard = ShardIndex(key, Len(AllSponsors(AcpState)))]
  /\ UNCHANGED <<kind, payer, sponsors, leg, budgets, drift>>

\* A party calls a method: the job and AcpState are read.
ReadJob(a) ==
  /\ leg[a].pc = "idle" /\ job.state \notin Terminal \cup {"absent"}
  /\ \E method \in MethodsOf(a) : \E args \in ArgsOf(method) :
       /\ method = "configure" => Routed /\ job.state = "open" /\ ~job.configured
       /\ method = "setBudget" => budgets < MaxBudgets
       /\ method # "configure" => job.state \in AllowedStates(method)
       /\ method = "submit" /\ job.state = "open" => job.budget = 0
       /\ leg' = [leg EXCEPT ![a] =
                    [pc |-> "job", method |-> method, args |-> args, job |-> JobFacts,
                     request |-> Idle, escrow |-> FALSE, terms |-> FALSE]]
  /\ UNCHANGED <<kind, job, payer, sponsors, budgets, drift>>

\* Then the hook's accounts.
ReadHook(a) ==
  /\ leg[a].pc = "job" /\ CanPrepare(leg[a])
  /\ LET facts == HookFacts(leg[a].method)
     IN leg' = [leg EXCEPT ![a].pc = "hook", ![a].request = facts.request,
                           ![a].escrow = facts.escrow, ![a].terms = facts.terms]
  /\ UNCHANGED <<kind, job, payer, sponsors, budgets, drift>>

\* prepare() throws.
Throws(a) ==
  /\ leg[a].pc = "job" /\ ~CanPrepare(leg[a])
  /\ leg' = [leg EXCEPT ![a] = NoLeg]
  /\ UNCHANGED <<kind, job, payer, sponsors, budgets, drift>>

\* The accounts still missing are pre-created; a failure is only logged.
PreCreate(a) ==
  /\ leg[a].pc = "hook"
  /\ leg' = [leg EXCEPT ![a].pc = "built"]
  /\ \/ \E wallet \in FeePayers(PinIfSharded(AcpState, Sponsor(leg[a]))) :
          /\ payer' = [x \in Rented |-> IF x \in Missing(leg[a]) THEN wallet ELSE payer[x]]
          /\ job' = [job EXCEPT !.terms = IF "terms" \in Missing(leg[a]) THEN "blank" ELSE @,
                                !.expiry = IF "expiry" \in Missing(leg[a]) THEN "blank" ELSE @]
     \/ Missing(leg[a]) # {} /\ UNCHANGED <<payer, job>>
  /\ UNCHANGED <<kind, sponsors, budgets, drift>>

\* The transaction executes.
Lands(a) ==
  /\ leg[a].pc = "built" /\ Accepts(leg[a])
  /\ \E wallet \in FeePayers(Pin(leg[a])) :
       LET paid == PaidBy(leg[a], wallet)
       IN IF Ends(leg[a])
            THEN /\ payer' = [x \in Rented |-> IF x \in Closed THEN Nobody ELSE paid[x]]
                 /\ drift' = drift \cup Drifted(paid, Closed, Sponsor(leg[a]))
            ELSE payer' = paid /\ drift' = drift
  /\ job' = Effect(leg[a])
  /\ budgets' = IF leg[a].method = "setBudget" THEN budgets + 1 ELSE budgets
  /\ leg' = [leg EXCEPT ![a] = NoLeg]
  /\ UNCHANGED <<kind, sponsors>>

\* The programs refuse it, or it is never included.
Refused(a) ==
  /\ leg[a].pc = "built"
  /\ leg' = [leg EXCEPT ![a] = NoLeg]
  /\ UNCHANGED <<kind, job, payer, sponsors, budgets, drift>>

\* External: closeJobHookAccounts and the router's close, to the job's sponsor.
CloseJobHookAccounts ==
  /\ job.state \in Terminal /\ \E a \in ClosedLater : payer[a] # Nobody
  /\ drift' = drift \cup Drifted(payer, ClosedLater, SponsorForRecorded(AcpState, job.shard))
  /\ payer' = [a \in Rented |-> IF a \in ClosedLater THEN Nobody ELSE payer[a]]
  /\ UNCHANGED <<kind, job, sponsors, leg, budgets>>

\* External: the operator adds a sponsor, while no call is being prepared.
AddSponsor ==
  /\ \A a \in Actors : leg[a].pc = "idle"
  /\ sponsors <= Len(MoreSponsors) /\ sponsors' = sponsors + 1
  /\ UNCHANGED <<kind, job, payer, leg, budgets, drift>>

Step(a) ==
  ReadJob(a) \/ ReadHook(a) \/ Throws(a) \/ PreCreate(a) \/ Lands(a) \/ Refused(a)

Next ==
  \/ CreateJob
  \/ \E a \in Actors : Step(a)
  \/ CloseJobHookAccounts
  \/ AddSponsor

Spec == Init /\ [][Next]_vars

-----------------------------------------------------------------------------
Intents == [live : BOOLEAN, token : {Mint, "other"}, amount : Nat]

JobType ==
  [state : JobStates \cup {"absent"}, budget : Nat, shard : 0 .. Len(MoreSponsors),
   configured : BOOLEAN, request : Intents, escrow : Intents,
   terms : {"absent", "blank", "set"}, expiry : {"none", "blank", "active"}]

LegType ==
  [pc : {"job", "hook", "built"}, method : UNION {MethodsOf(a) : a \in Actors},
   args : [amount : Nat, proposal : Proposals, terms : BOOLEAN, stake : Stakes],
   job : [state : JobStates, budget : Nat, shard : 0 .. Len(MoreSponsors)],
   request : Intents, escrow : BOOLEAN, terms : BOOLEAN]

(* Every variable has its type; the shard a job records is one of the live *)
(* ones, however the index was derived from the job's address.             *)
TypeOK ==
  /\ kind \in [hook : Hooks, evaluated : BOOLEAN]
  /\ sponsors \in 1 .. (Len(MoreSponsors) + 1)
  /\ job \in JobType /\ job.shard < sponsors
  /\ DOMAIN payer = Rented
  /\ leg \in [Actors -> {NoLeg} \cup LegType]
  /\ budgets \in 0 .. MaxBudgets /\ drift \subseteq Rented

(* What a call was built from still holds.                                 *)
Fresh(l) ==
  /\ l.pc = "built" /\ l.job = JobFacts
  /\ [x \in {"request", "escrow", "terms"} |-> l[x]] = HookFacts(l.method)

(* Where a fresh call is refused all the same: the router's hooks are not  *)
(* configured, terms were pre-created and never filled in, the expiry      *)
(* account is missing, a budget is set for an active subscription, or a    *)
(* job without a budget is submitted on the plain fund hook.               *)
Refusable(l) ==
  \/ Routed /\ ~job.configured
  \/ l.method \in {"fund", "submit", "complete"} /\ job.terms = "blank"
  \/ l.method \in {"submit", "complete"} /\ job.terms = "set" /\ job.expiry = "none"
  \/ l.method = "submit" /\ kind.hook = "fund" /\ job.budget = 0
  \/ l.method = "setBudget" /\ l.args.terms /\ job.expiry = "active" /\ l.args.amount > 0

(* A call built from what still holds is accepted: every hook finds the    *)
(* accounts it works on in its own part of the list, the confirmation      *)
(* agrees, and the approvals cover what the hooks take.                    *)
FreshCallsLand ==
  \A a \in Actors : Fresh(leg[a]) /\ ~Refusable(leg[a]) => Accepts(leg[a])

(* What a hook takes in a transaction of a fresh call is covered by the    *)
(* one approval its source account has at that moment.                     *)
PullsAuthorised ==
  \A a \in Actors : Fresh(leg[a]) /\ leg[a].method \in {"fund", "submit"} => Authorised(leg[a])

(* The router gives each hook the slice built for it.                      *)
EachItsSlice ==
  \A a \in Actors : LET l == leg[a]
                        hooks == HooksOf(kind.hook, l.method)
                        extra == Extra(l)
    IN l.pc = "built" /\ Routed /\ l.method # "configure" =>
         RouterSplit(hooks, extra.header, extra.accounts)
           = [i \in DOMAIN hooks |-> Slice(hooks[i], l.method, Seen(l), TRUE)]

(* Rent that a sponsor paid goes back to that sponsor, however the set of  *)
(* sponsors grows in between.                                              *)
RentGoesHome == drift = {}

(* The same, but for the escrow vault of a routed job.                     *)
PinnedRentGoesHome == drift \subseteq IF Routed THEN {"escrowVault"} ELSE {}

(* A submitted job can be completed by a call that is up to date.          *)
FreshCompletesLand ==
  \A a \in Actors :
    Fresh(leg[a]) /\ leg[a].method = "complete" /\ job.terms # "blank" => Accepts(leg[a])

=============================================================================
