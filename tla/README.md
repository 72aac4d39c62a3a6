# Verification of acp-node-v2

TLA+ models, TLC runs and TLAPS proofs for the Agent Commerce Protocol SDK
(`src/`, TypeScript).  The source is the reference: every definition of a model
is a translation of the lines `PROJECT.json` maps it to.

## 1. The system

The SDK lets an agent trade *jobs* with other agents.  A job lives on a chain
(Solana or an EVM chain) as an escrow state machine - open, budget set, funded,
submitted, completed/rejected/expired - and has a *room* at the ACP backend
where its on-chain events and chat messages are appended as *entries*.

| component | source (under `src/src`) | state it keeps | operations | what makes it correct |
|---|---|---|---|---|
| Agent | `acpAgent.ts` | `started`, `sessionMap`, the entry handler, addresses | `start`, `stop`, hydration, dispatch, createJob..., internal on-chain actions | sessions follow their rooms; handlers are fired for what the agent has to answer; nothing is left after `stop` |
| Job session | `jobSession.ts`, `acpJob.ts` | `entries`, `roles`, `_job` | `status`, `shouldRespond`, `availableTools`, `executeTool`, setBudget/fund/submit/complete/reject | derived status is the room's; tools offered fit role and status |
| Event stream | `events/sseTransport.ts` | two EventSources, `seenEntries`, `entryHandler`, `ctx` | `connect`, `disconnect`, `onmessage`, `getHistory`, `postMessage` | every entry once; no stream outlives `disconnect` |
| HTTP/auth | `events/acpHttpClient.ts`, `acpApiClient.ts`, `providers/providerAuthClient.ts` | bearer token | `ensureAuthenticated`, `authedFetch` | requests carry a valid token |
| Solana send path | `core/reprepareRetry.ts`, `providers/solana/{feePayerRetry,txConfirmation,privySolanaProviderAdapter}.ts` | attempt counters, confirmation bound, Kora payer cache | `withReprepare`, `sendInstructions`, `withFeePayerRetry`, `confirmTransaction` | one call acts at most once; its report is true |
| Solana client | `clients/solanaAcpClient.ts` | none: everything is read anew for each call | `createJob`, `setBudget...`, `fund...`, `submit...`, `complete`, `reject`, each on no hook, a plain hook or the router; pre-creation; `execute`, `isStalePrepareError` | a call built from what still holds is accepted; approvals cover what hooks take; rent returns to who paid it; retries only what had no effect |
| Retry guard | `core/solana/jobStateRetryGuard.ts` | last diagnosis | `guard` | a guarded error is retried only in an allowed job state |
| Approval gate | `core/approvalGate.ts`, `signedServerCall` of both Privy providers | `pending` map with timers | `awaitApproval`, `resolveApproval` | each wait settles once, with what was decided |
| EVM providers | `clients/evmAcpClient.ts`, `providers/evm/*` | none / user-operation waits | send, preconfirmation watcher | the receipt found is the operation's |
| Sharding, pre-creation, hook routing | `core/solana/{sharding,lookupTable,preCreate,multiHook,routerLayout}.ts` | none | shard choice, missing hook accounts, slices per hook and action, header and fan-out | the wallet named at the end is the one that paid; every hook finds its accounts in its own part of the list |
| Generated clients | `core/solana/generated/*` | none | a builder and a parser per instruction | what is built is what is read back, whichever accounts are left out |
| Kora | `providers/solana/koraClient.ts` | payer caches | fee-token choice | charge equals quote |
| Examples | `examples/{basic,llm}` | none | the entry handlers of a buyer and a seller | a trade ends |
| ABIs, IDLs | `core/*Abi.ts` | - | - | data |

Interaction: the agent calls a client to *prepare* a transaction and to *submit*
it (`withReprepare`); the Solana client hands the instructions and a retry guard
to the provider; the provider gets signatures from the Privy server (which may
demand an approval), fees from a sponsor, and broadcasts.  In the other
direction the backend pushes entries over the chat stream into `dispatch`, and
decisions over the wallet stream into the approval gate.  JavaScript runs one
turn at a time; the interleavings are those of turns between awaits.

Hard behaviours: nested retry loops around a broadcast whose outcome may be
unknown; a status read that races the block height; entries that are in the
history and on the stream; `stop` during `start`; hydration that outlives a
restart; connections that drop and resend; an approval event that overtakes the
HTTP answer; caches and guards whose reads are stale when used; a job and its
hook's accounts read at different moments, with the other parties' calls landing
in between; wallets added between the creation and the end of a job; a deliverable
posted before a transaction that may land long after its sender gave up.  `PROJECT.json`
lists each under `hazards`, at its line.

## 2. Modules

| module | models | state and actions |
|---|---|---|
| `SendContract` | what one on-chain action promises | `effects`, `report`; effects and reports happen in any order, but at most one effect, none after a definite failure, and success only with an effect |
| `SolanaSend` | one action from `withReprepare` down to the confirmation loop, against a cluster | one action per await: `Prepare`, `FetchBlockhash`, `Authorize`, `Broadcast`, `Poll`, `ReadHeight`, `LastChance`, and the catch blocks `RetryAttempt`, `BumpCu`, `Reprepare`, `GiveUp`; the cluster's `Include`, `ConfirmBlock`, `AbandonBlock` |
| `SolanaSendProofs` | theorems about `SolanaSend` | - |
| `AgentSessions` | `start`/`stop`, hydration, chat stream, dispatch, sessions | one action per turn: `Start`, `OpenStream`, `Connected`, `ConnectFails`, `ListJobs`, `ReadHistory`, `Adopt`, `HydrateRoom`, `HydrationFails`, `Deliver`, `DispatchSettles`, `Stop`; the backend's `Publish` and the network's `Reconnect` |
| `Selection` | a loop over entries that looks at some of them only, as a recursive function | pure |
| `SelectionProofs` | what `Selection` returns, and lists of lists joined: the inductions the other proofs share | - |
| `AgentSessionsProofs` | theorems about `AgentSessions`, for any number of starts and losses | - |
| `OneLifeProofs` | theorems about an agent that is started once | - |
| `MCAgentSessions` | instances: which roles the agent has in which job | - |
| `ApprovalGate` | signing calls that need an approval, the gate, the wallet stream | `Post`, `Receive` (with `AwaitApproval`), `Event` (`ResolveApproval`), `Timeout`; the server's `Answer`, `Decide`, the stream's `StreamLost`, `StreamBack` |
| `ApprovalGateProofs` | theorems about `ApprovalGate` | - |
| `JobProgram` | the on-chain job: states, which instruction is accepted in which, where it leads | pure |
| `JobTrade` | one job from `createJobFromOffering` to its end: two agents with the examples' handlers, the chain, the backend | one action per turn: creation (`CreateJob`, `ReadJobId`, `BatchConfigureHooks`, `PostRequirement`), sessions (`Deliver`, `StartHandler`, `FundLoaded`, `ModelAnswers`), on-chain actions (`PostDeliverable`, `SendLands`, `SendIsRefused`, `SendGivesUp`, `LateLands`), faults (`Crash`, `Restart`, `RequestFails`, `DeadlinePasses`) |
| `MCJobTrade` | instances: scripted handlers on a router job, LLM handlers on a plain one | - |
| `JobTradeProofs` | theorems about `JobTrade` | - |
| `Sharding` | `sharding.ts`: derived and recorded shard, live wallets, when a payer is pinned | pure |
| `HookSlices` | `routerLayout.ts`, `multiHook.ts` and the slices `solanaAcpClient.ts` builds itself | pure |
| `HookedJob` | client, provider and evaluator calling the Solana client for one job with hooks, while the set of sponsors grows | per party `ReadJob`, `ReadHook`, `Throws`, `PreCreate`, `Lands`, `Refused`; the programs' `CreateJob` and `CloseJobHookAccounts`, the operator's `AddSponsor` |
| `MCHookedJob` | instances: hooks, budgets, transfers, wallets | - |
| `HookedJobProofs` | theorems about `Sharding`, `HookSlices` and `HookedJob` | - |
| `AccountMetas` | the body all generated builders and parsers share | pure |
| `AcpInstructions`, `FundHookInstructions`, `RouterInstructions`, `SubscriptionHookInstructions`, `SubscriptionStateInstructions` | one layout, one table of derived accounts and one parser per generated instruction | pure |
| `Instructions` | the tables of all five programs | pure |
| `RetryGates` | `jobStateRetryGuard.ts`: gates and `guard` | pure |
| `Wire` | one instruction built, read back, and looked at by the retry guard | `GiveAccounts`, `BuildSync`, `BuildAsync`, `ReadBack` |
| `WireProofs` | theorems about `AccountMetas`, the tables, `RetryGates` and `Wire` | - |

`HookedJob` EXTENDS `HookSlices`, `JobProgram` and `Sharding`; `JobTrade` and
`Wire` EXTEND `JobProgram`, and `Wire` also the generated tables and `RetryGates`.
`JobTrade` and `SolanaSend` meet in `SendContract`: a send of `JobTrade` takes
effect, fails for good, or fails with its outcome open and may take effect later.

Definitions whose comment says "Mutant" are plausible bugs.  They are not part
of a specification; each is defined before the operator it would replace.

### SolanaSend

Five routes: Alchemy sponsorship, Kora sponsorship, Kora SPL-paid, self-pay, and
the server-built bytes of `sendSponsoredSignedTransaction` (`fixedBytes`).
`RouteChoices` is the decision of `sendInstructions`.  An error is its phase,
the reason its text names, and a sponsor's structured verdict; those are all the
classifiers look at.  The retry guard may answer anything, and
`isStalePrepareError` may be inconclusive.  A request that fails (`RequestFails`) -
a blockhash, a signature, the answer to a broadcast, a status or a height - throws
words of a node, a proxy or a gateway, which go through the same patterns:
`RpcReasons` says what they may read like.  A transaction that was
broadcast can be included (succeeding or reverting) until its blockhash expires.
`Broadcast` also has the outcome in which the answer is lost and the node may or
may not have the transaction.  Not modelled: sizes and prices (compute
limits, fee tokens), message compilation, delays.  `skipPreflight` is covered: a
preflight refusal never has to happen.

### AgentSessions

An entry is its place in the backend's feed.  `streams[k]` is the chat stream
the k-th `start()` opened and `next` the entry it delivers next; `boots[k]` is
that call's program counter; `tasks` are dispatches awaiting `fetchJob`.  Model
decisions:
- the server resends, after a reconnection, from Last-Event-ID, that entry
  included or not, and from where the stream began if it was sent nothing yet;
  or (`Replays = FALSE`) it resends nothing;
- an entry read from the history and the same entry from the stream are
  different objects, so `entries.includes(entry)` is false: dispatch appends;
- GET /jobs lists the jobs that are not terminal; `job.expired` behaves like
  `job.rejected` and is not a kind of its own;
- the wallet stream and `onConnected` have no effect on sessions.  A chat
  stream is open or not, and may stay unopened for ever; requests fail or not,
  authentication included.

### ApprovalGate

Each element of `Calls` is one `signedServerCall`.  The server hands an unused
approval out, or (`Shared`) one that is still open - also what a missing id,
read as `""`, amounts to.  The answer and the decision travel separately, so the
decision can arrive before the call awaits it; it is then dropped and the call
times out, unless a reconnected stream resends it (`Replays`).

### JobTrade

The backend's record is what its room's events say; the record a session loads is
that of some moment since it was asked for.  A session is a prefix of the room
(`AgentSessions` is about how it becomes one).  A handler is a task with its own
program counter, so two handlers of one agent interleave.  The LLM handlers
choose any tool of `availableTools()` at the moment they ask, and `executeTool`
looks again when they answer.  The seller on a router job is scripted: the
`setBudget` tool calls the plain `setBudget`, which throws there.  A crash loses
tasks and the session; a transaction in flight may still land.  `maxRetries` posts
of the requirement are `MaxPosts`.  Budgets and deliverables are model values; a
requirement's text, its schema check and the handlers' wording are left out.

### HookedJob

A call reads the job and AcpState, then the hook's accounts, sends a pre-creation
if something is missing, and then its transaction; anything of the other parties
may land in between.  Accounts are named by what they are derived for.  The
programs are not in the repository: `Accepts` and `Effect` state the rules the
client relies on, from its comments and the generated error names - the job's
state, the budget expected, the accounts a hook works on, the approvals, who signs
for new rent.  They are marked external.  `FreshCallsLand` says the client's part:
a call built from what still holds when it lands is accepted, but for the cases
`Refusable` lists.  AcpState changes only between calls.

### Wire

An address is the name of a key, or a bracketed derived address: different seeds
give different addresses.  The five `...Instructions` modules are tables; only the
accounts are modelled, not the bytes of the arguments.

## 3. Runs

Passing:

| run | question | bounds and why they are enough |
|---|---|---|
| `send_nested` | can the nested retries act twice, or report wrongly, on any route; does every route keep `SendContract`? | all five routes, 2 rounds x 2 attempts x bump x 2 polls, blockhashes valid for 1 block, height up to 3: every loop runs again at least once, a blockhash can expire and a later one land |
| `send_forks` | what still holds when processed blocks are abandoned and the text of a failed request reads like lag; does every call end? | all five routes, 1 round, height up to 4: one abandoned block suffices to contradict a processed status; the chain may stop moving at any height |
| `rooms` | do sessions follow their rooms? | 2 jobs with different roles, 3 entries (2 possibly before the start), 2 connection losses: history, overlap, replay and a live entry fit in one behaviour, and the second loss can come before, in or after what the first one made the server resend |
| `rooms_live` | does every start end once its streams are open, and does status converge? | 1 job, 3 entries, 1 loss |
| `approval_gate` | do entries, timers and calls agree; are decisions honoured; does every call end? | 3 calls, 2 approvals: two calls on one approval while a third has its own |
| `job_trade` | is a deliverable posted before it counts; does the requirement follow the hooks; are tools only refused when the chain moved on; does a job end? | one job, 1 budget, 1 deliverable, 1 fault of any kind, 1 message: a fault at each of the points between two awaits, a late transaction that meets a restarted agent, and a message between any two events |
| `wire` | does every generated instruction read back, and does the guard find its job? | all instructions of the five programs, both builders, every choice of optional accounts |
| `hooked_job` | are up-to-date calls accepted, approvals enough, slices cut right, rents returned? | every hook, with and without evaluator; budgets 0 and 1, transfers at, above and outside the budget's token; 1 budget set; 2 sponsors, the second added at any moment between calls |

Violated - the code does something else than the repository says (each is a
finding in `PROJECT.json`, with the quoted line):

| run | what it shows |
|---|---|
| `send_fork_twice` | a failure status of a merely processed block is final for the SDK, and `isStalePrepareError` lets the call be prepared again and resent; if the block is abandoned, the first transaction and the new one can both take effect (one attempt in each of two rounds) |
| `rooms_resume` | an entry that arrives between connecting and reading its room's history leaves a session of that entry alone; its roles are the default, and hydration does not fire the handler for the pending `budget.set` |
| `router_pin` | a routed submit loses its fee-payer pin to the lookup-table options: the escrow vault's rent comes from one sponsor and goes to another |
| `precreate_fails` | when the pre-creation before a `setBudget` fails, the later complete cannot activate the subscription |

Seen while modelling and not covered by a run:

*Agent and stream.*  A restarted agent has no transport context (`disconnect`
clears it, only `AcpAgent.create` sets it), so it opens its stream with an empty
`x-supported-chains` and cannot authenticate again.  `stop()` during `start()`
leaves a stream that goes on creating sessions (`sseTransport.ts:58,72`).  A
hydration that outlives `stop()` and a second `start()` can give the new life an
older history.  If a stream's endpoint cannot be reached, `start()` neither resolves
nor rejects: errors are ignored while the EventSource is connecting, and it tries
again without limit (`sseTransport.ts:222-223`); a fatal error of an open stream closes it
for good (lines 224-225).  Entries of different rooms can
share a dedup key (`sseTransport.ts:88`); the later one is dropped, and with
`Simultaneous = TRUE` `Follows` is violated.  An entry in both
history and stream reaches the handler twice (`TwiceAtMost` bounds it at twice).

*Sends.*  Without `lastValidBlockHeight` the bound of prebuilt bytes is the reading
RPC's (`privySolanaProviderAdapter.ts:2035`).  Lines 2003-2005 call it a strict upper
bound; behind the builder's node it is not, and "expired" is not final (`BoundGiven =
FALSE`, `StartHeight = 2`, route `fixedBytes`: TLC finds `ExpiredIsFinal` violated).
`isRetryableFeePayerError` matches the text of whatever the attempt threw, also after
the broadcast: an answer that is lost with the gateway's own words (up to 300
characters, `proxyRpcTransport.ts:34`), "3012" or "account not found" among them, is
retried although the transaction can still land (`RpcReasons = {"other", "lag"}`: TLC
finds `AtMostOnce` violated; `feePayerRetry.ts:239-243` promises that everything but
simulation and broadcast lag propagates).  On the Kora routes
extra signers neither force self-pay nor sign (line 999); nothing in `src/` passes
any there.

*Jobs.*  A restarted agent whose last entry is a message, not the event it has to
answer, resumes nothing.  The deliverable of a submit that fails stays posted.  The
setBudget tool cannot price a job on the router.  `submit` without a budget on the
plain fund hook passes the hook's state account only.  A raw 16-byte `optParams` of
the subscription hook gets the minimal slice.  Terms that were pre-created stay
blank when the `setBudget` after them fails, until a later one fills them.
`completeSubscriptionJob` builds its retry guard without the router's and the
subscription hook's addresses and pins no sponsor.  `fund` ignores its own
`optParams` when the hook has an intent.  New treasuries shift the list a lookup
table is matched against (`solanaAcpClient.ts:2141-2152`).  The generated program
addresses are empty strings, so a parser reads an omitted account as the program.

Deadlock is not checked: calls end, agents stop, and nothing more has to happen.

Fairness.  `SolanaSend!FairSpec`: weak fairness of the call - the event loop
resumes it when its await is answered and RPC requests fail rather than hang; none of
the chain.  `AgentSessions!FairSpec`: weak fairness of each network answer and
of the turns that follow; none of `start`, `stop`, publishing or losses, nor of a
stream's opening, for which the code waits without limit (`StartSettles` leaves a
start that waits for its streams out).
`ApprovalGate!FairSpec`: timers fire and posts are answered; none of the human or
the wallet stream.  `JobTrade!FairSpec`: weak fairness of `Progress` - the backend
observes the chain, the network delivers, the event loops run, and a stopped agent
is started again; none of faults and deadlines.  `Finishes` is about the scripted
handlers: a model may wait for ever.

## 4. Proofs

All theorems are for every value of the constants that satisfies the module's
`ConstantsAssumption`.

`SolanaSendProofs`.  `TypeCorrect` and `SuccessIsReal` need nothing else: whatever
the cluster abandons and the RPC nodes lag, a call that returns has its transaction
in effect (`Returned`: a call ends without an error only from a status that is true
of a confirmed block).  `ExpiryIsFinal` assumes `ReadsForward`, that one client's
reads do not go back in height and callers with prebuilt bytes pass their bound, and
holds with abandoned blocks: nothing lands past its last valid height (`Timely`), the
call's bound is that of its transaction while it waits (`Expiry`), so a call that sees
the bound passed and no status has a transaction that is `Dead`.  The other theorems
assume `StableCluster`: besides, processed blocks are not abandoned, and the text of a
failed request is plain (`PlainReasons`: no pattern of `withFeePayerRetry` matches it).
`send_fork_twice` shows that the former cannot be dropped, the trace of section 3 that
the latter cannot; `send_forks` checks what holds without either.
`AtMostOnce` is not inductive: what matters is what can
*still* happen.  `Inductive` adds it.  A transaction *can succeed* while it is in
the pool, its blockhash is valid and no block has it as reverted.  Before every
broadcast the call is `Settled` (no transaction has had or can have an effect);
while it polls, `OnlyCur` holds.  Every catch block must lead from `OnlyCur` to
`Settled` before it retries.  The two crucial lemmas are `StatusIsTrue` (what a
status read at height v says of the transaction once v is past its bound) and
`UnknownEscapes` (an error that leaves the outcome open is never retried).
`ChainStepEffects` says that the cluster alone only turns transactions that can
succeed into effects.  `ImplementsContract` is the refinement to `SendContract`.

`ApprovalGateProofs`.  `WaitersArePending` is strengthened by: an entry's call has
the entry's own id, decisions are final, and a call that heard its decision is
done.  From it follow `WaitersAgree`, `DecisionsAreHonoured` and
`NoDecisionOvertaken`.

`HookedJobProofs`.  First `Sharding`, over any set of wallets and any counts:
`SponsorsShape` says what the list of live wallets is; the four theorems are what the
rent proof needs of it.  Then the calls.  `TypeOK` is not inductive by itself: the bound on budgets holds
because only the provider sets them, one at a time (`LegsFit`).  `OneApproval`
follows the cases of who approves - the core, where its approval covers the amount,
otherwise the caller, and then the delegate is left out where both would write to
one token account; `PullsAreAuthorised` is that at every fresh call.  `RentReturns`
rests on `RentInv`: whoever paid for a pinned account is the wallet the close paths
name *now*.  It is kept by a transaction because the wallet a call names is the
recorded one (`PinnedPays`), and by `AddSponsor` because an index keeps its wallet
(`RecordedIsStable`).  Its one assumption beyond the constants' types is that no
wallet is called `NoPin`.
`RouterCutsSlices` is about `HookSlices` alone: for any hooks, in any order, and any
slices, what the router cuts out by the header is what was built for each hook.  The
two recursions it compares - the lists joined and the places where slices begin - are
solved by induction on the number of hooks (`Recursion` of `SelectionProofs`), and `Placed` says after every
hook that the slices so far lie where the header puts them.  `SlicesReach` is that of a
call's own list.  `FreshIsAccepted` adds `CallsFit`, the one invariant it needs besides
`Typed`: the state and budget a call was built for are those its method asks for, and
what is being sent could be prepared.  Then the programs' conditions follow one by one:
every account a hook works on is in its slice (`SliceCovers`), at its place in the
router's list or, for a submit without an evaluator, on its side of the split
(`CutInTwo`); confirmations agree (`HookContent`, `CompletionContent`), the core is
passed more than a hook's two accounts where money is at stake (`LongEnough`), and the
approvals are those of `OneApproval`.

`JobTradeProofs`.  `DeliverableFirst` rests on `Backed`: every submit that is being
sent, *or was given up and may still land*, has posted its deliverable.
`HooksFirst` rests on `Asked`: while the requirement is to be posted the hooks are
configured, and no event of the program is a requirement.  `TypesKept` and
`ToolsCurrent` rest on `Typed`, whose parts follow the chain, the room, the creation,
the agents, the tasks and the late transactions; `TypeOK` is what they say together
(`TypedGivesTypes`).  No room holds more events than the chain's log (`RoomPart`), and
no session has seen more of them (`SeenEventsFit`); a send's argument is of the kind
its instruction takes because the record a session loads is one of the log's amounts
(`BudgetIsAmount`), and it stays so when the send is given up (`LatePart`);
`Sound` says of every task that the tool it runs was accepted in the state its record
showed, and that the job is still there or the log is longer.

`SelectionProofs`.  `SelectNumbers` says what reading a room off the feed gives: the
members of the set, ascending.  It is an induction on the length of the feed, made
without the induction theorems (they take an operator): of the lengths for which it
fails, `LeastNumber` takes the least.

`AgentSessionsProofs`.  For any jobs, roles, starts, stops, losses and entries, and
whether or not the server resends.  `Shape` is the type invariant made inductive:
sessions hold entries of their own job, a start that hydrates a room has the room's
own history, tasks and streams point into the feed.  `RolesCorrect` rests on `Roles`:
a session in the map that has the creation of its job has it *first*, and its roles
are those of its first entry.  `ResumesCorrect` needs more of it, since hydration acts
on a session by then replaced or grown: `RoomsBegin` (a room begins with its job's
creation), `HeadRoles` (every session, in the map or not, has the roles of its head) and
`Resumes` (what was resumed was the newest entry, and an entry that needed an answer
had its call).  `TwiceCorrect` rests on `CallsInv`, a count with a budget: the calls of
an entry, those still pending in a task and the one the live stream may yet make are
no more than one for each hydration that answered it and one for each start
(`Counts`); a start answers an entry by hydration once (`HydratesOnce`).

`OneLifeProofs`.  `OverlapCorrect` and `FollowsCorrect` assume `OneStart`, that start()
is called once.  The steps are first told as moves of the one stream and the one
hydration (`LifeChange`).  `OneOverlap` rests on `TwoRuns`: a session is two ascending
runs, the history it was hydrated from and what the stream brought; what is ahead of
the stream and not in `seenEntries` is behind neither.  `Follows` assumes `Lossless`
besides (the server resends, and no two entries have one time stamp) and rests on
`Heard c`: from some entry on, everything of an active room is in its session, in the
history the hydration still has to adopt, or still ahead of the stream.  That
there is no gap between the two is that connecting comes before listing and reading.
`OneStart` cannot be dropped: TLC finds both properties violated with
`MaxStarts = 2`.  After start, stop and start again both connects can succeed, and two
listening streams append to one session, each at its own place in the feed; and the
first start's hydration can outlive the second's and adopt an older history.

`WireProofs`.  `ParserReadsBack` is about any layout and any parser that `Fits` it: the
same names in the same places, each once, optional wherever the builder may put the
program's address, and no default that the parser takes for "none".  From any accounts
that are `Enough` (the required ones, none of them the empty address) every account is
read back under its own name.  `AcpRows` and the four like it go through the tables:
every instruction's parser fits its layout, and what its asynchronous builder derives is
never the empty address (`PdaIsSome`, an induction on the seeds by `Flattens`).
`AccountsAreReadBack` then follows from `Inductive`: the accounts given and derived are
enough before anything is built (`GivenIsEnough`), and the list and the answer are made
from them (`BuiltFromGiven`, `ReadFromBuilt`).  `GuardLooksAtJob` adds that each gate's
place in the list is its instruction's job, required and never derived
(`GatesPointAtJob`).  Both hold whichever accounts are given; an instruction added to a
client needs its row and nothing else.

Only model-checked is all liveness - `Terminates`, `StartSettles`, `Converges`,
`EveryCallEnds`, `Finishes` - since fairness and ENABLED are out of the provers' reach.
Every safety invariant and action property of a passing run has a theorem.

The project has no RECURSIVE operator.

## 5. Not modelled, and the plan

- The EVM client and its providers: calls are encoded and handed to a wallet
  service.  The preconfirmation watcher is what is worth modelling there.
- Authentication: tokens, concurrent refreshes, the context `stop()` clears.
- Kora's fee tokens and compute sizing: arithmetic on a service's answers.
- Lookup tables: building and extending one is off-line.
- The bytes of instructions and accounts, ABIs, IDLs, constants, chain tables.
- The other examples, which call further methods of the same client.
- In the modelled components: browsing and offerings of `acpAgent.ts`, the
  rendering of a conversation for a model in `jobSession.ts`, message compilation
  and fee-payer caches of the Privy provider.

Next, in this order:
1. `PreconfWatcher`: the EVM wait against pending blocks and receipts.
2. `Auth`, with the restarts of `AgentSessions`.
