----------------------------- MODULE SolanaSend -----------------------------
(***************************************************************************)
(* One on-chain action of the SDK on Solana, from AcpAgent's withReprepare *)
(* down to the confirmation loop:                                          *)
(*                                                                         *)
(*   withReprepare            (core/reprepareRetry.ts)      rounds         *)
(*     sendInstructions       (privySolanaProviderAdapter)  route, bump    *)
(*       withFeePayerRetry    (feePayerRetry.ts)            attempts       *)
(*         build/sponsor/sign/broadcast                                    *)
(*         confirmTransaction (txConfirmation.ts)           polls          *)
(*                                                                         *)
(* against a chain that moves on its own.  Every attempt builds a new      *)
(* transaction (fresh blockhash), so two attempts of one call may both     *)
(* land: each retry rule has to know that the previous transaction is dead.*)
(*                                                                         *)
(* The chain and the RPC nodes are the environment.  A transaction waits   *)
(* in the pool, is included in the block being voted on ("processed") and  *)
(* is confirmed with it; with Forks the block may be abandoned instead.    *)
(* An RPC read is answered from the height of the node that serves it:     *)
(* with StickyReads the heights one client sees never go back.             *)
(***************************************************************************)
EXTENDS Integers

CONSTANTS
  Window,       \* blocks a blockhash stays valid (150 on the cluster)
  StartHeight,  \* confirmed height when the call begins; the RPC may lag it
  MaxHeight,    \* bound: the chain stalls at this confirmed height
  MaxAttempts,  \* withFeePayerRetry's maxAttempts (8)
  MaxRounds,    \* withReprepare's maxAttempts (3)
  MaxPolls,     \* confirmTransaction's maxPolls (240)
  Routes,       \* the routes this model explores, a subset of AllRoutes
  Expected,     \* reasons the caller listed in expectedErrors
  ExtraSigners, \* the caller passed extraSigners
  BoundGiven,   \* sendSponsoredSignedTransaction got lastValidBlockHeight
  RpcReasons,   \* what the text of a failed RPC or signing request can look like
  Forks,        \* processed blocks can be abandoned
  StickyReads   \* RPC reads of one client never go back in height

AllRoutes == {"alchemy", "koraSponsor", "koraSpl", "selfPay", "fixedBytes"}

(* What an error says (its text, cause chain and code), as far as the      *)
(* classifiers tell errors apart.                                          *)
SimReasons ==
  {"notInitialized", "lag", "wrongStatus", "hooksInvalidJob", "seeds",
   "intentStale", "cu", "other"}
ChainReasons == {"notInitialized", "seeds", "intentStale", "cu", "other"}
Phases ==
  {"none", "prepare", "rpc", "sponsor", "sign", "preflight", "network",
   "failed", "expired", "timeout"}
Verdicts == {"none", "yes", "no"}
Outcomes == {"ok", "reverted"}

ASSUME ConstantsAssumption ==
  /\ Window \in Nat \ {0} /\ StartHeight \in Nat /\ MaxHeight \in Nat
  /\ MaxAttempts \in Nat \ {0} /\ MaxRounds \in Nat \ {0}
  /\ MaxPolls \in Nat \ {0}
  /\ Routes \subseteq AllRoutes
  /\ Expected \subseteq SimReasons
  /\ RpcReasons \subseteq SimReasons
  /\ ExtraSigners \in BOOLEAN /\ BoundGiven \in BOOLEAN /\ Forks \in BOOLEAN /\ StickyReads \in BOOLEAN

VARIABLES
  height,   \* confirmed block height of the cluster
  pool,     \* transactions broadcast and not confirmed: [id, lvbh]
  block,    \* entries of the block at height + 1: [tx, out]
  landed,   \* confirmed entries: [tx, at, out]
  pc,       \* where the call is
  choices,  \* the paths sendInstructions may take for this call
  route,    \* the path it took
  round,    \* withReprepare attempt
  bump,     \* withCuBump / forceMaxCuLimit re-run under way
  attempt,  \* withFeePayerRetry attempt
  guarded,  \* guardedFailures of the running withFeePayerRetry
  serial,   \* transactions built so far
  cur,      \* the transaction of this attempt
  bound,    \* lastValidBlockHeight the confirmation loop compares with
  polls,    \* confirmation polls made
  seen,     \* height of the latest RPC read
  err,      \* the error being handled or thrown
  builtFor  \* fixedBytes: lastValidBlockHeight of the caller's bytes

chainVars == <<height, pool, block, landed>>
callVars == <<choices, builtFor>>
retryVars == <<route, round, bump, attempt, guarded>>
txVars == <<serial, cur, bound>>
vars == <<chainVars, pc, callVars, retryVars, txVars, polls, seen, err>>

Error(p, r, v) == [phase |-> p, reason |-> r, verdict |-> v]
NoError == Error("none", "other", "none")
NoTx == [id |-> 0, lvbh |-> 0]

-----------------------------------------------------------------------------
(* The cluster.                                                            *)

InBlock(t) == \E e \in block : e.tx = t
Landable(t) == t \in pool /\ height + 1 <= t.lvbh /\ ~InBlock(t)

Include ==
  \E t \in pool, o \in Outcomes :
    /\ Landable(t)
    /\ block' = block \cup {[tx |-> t, out |-> o]}
    /\ UNCHANGED <<height, pool, landed>>

ConfirmBlock ==
  /\ height < MaxHeight
  /\ height' = height + 1
  /\ landed' = landed \cup {[tx |-> e.tx, at |-> height + 1, out |-> e.out] : e \in block}
  /\ pool' = {t \in pool : ~InBlock(t) /\ height + 1 < t.lvbh}
  /\ block' = {}

AbandonBlock ==
  /\ Forks
  /\ block # {}
  /\ block' = {}
  /\ UNCHANGED <<height, pool, landed>>

ChainStep ==
  /\ Include \/ ConfirmBlock \/ AbandonBlock
  /\ UNCHANGED <<pc, callVars, retryVars, txVars, polls, seen, err>>

-----------------------------------------------------------------------------
(* RPC reads.                                                              *)

Views == (IF StickyReads THEN seen ELSE 0) .. height

ConfirmedAt(v) == {e \in landed : e.tx = cur /\ e.at <= v}
ProcessedAt(v) == {e \in block : e.tx = cur /\ v = height}

-----------------------------------------------------------------------------
(* Error classification.                                                   *)

IsGuardedFeePayerError(e) ==
  e.phase # "failed" /\ e.reason \in {"wrongStatus", "hooksInvalidJob"}

IsComputeBudgetExceededError(e) == e.reason = "cu"

IsExpectedFeePayerError(e) == e.reason \in Expected

(* Mutant: the "timeout" phase counts as dropped, like "expired".          *)
IsRetryableTimeoutToo(e) ==
  e.phase \in {"expired", "timeout"} \/ (e.phase # "failed" /\ e.reason = "lag")

IsRetryableFeePayerError(e) ==
  \/ e.phase = "expired"
  \/ /\ e.phase # "expired"
     /\ ~IsGuardedFeePayerError(e)
     /\ \/ e.verdict = "yes"
        \/ /\ e.verdict = "none"
           /\ ~IsComputeBudgetExceededError(e)
           /\ \/ e.reason = "notInitialized"
              \/ e.reason = "lag" /\ e.phase # "failed"

(* The verdicts isStalePrepareError can give: a confirmed failure whose    *)
(* code collides with another program's is stale when its logs cannot be   *)
(* fetched.                                                                *)
StaleVerdicts(e) ==
  CASE e.phase = "sponsor" ->
         {route = "alchemy" /\ e.reason \in {"seeds", "hooksInvalidJob", "notInitialized"}}
    [] e.phase = "preflight" -> {e.reason = "notInitialized"}
    [] e.phase = "failed" ->
         IF e.reason \in {"notInitialized", "seeds", "intentStale"} THEN {TRUE}
         ELSE IF e.reason = "other" THEN BOOLEAN
         ELSE {FALSE}
    [] OTHER -> {FALSE}

(* selfPay calls broadcastAndConfirm without withFeePayerRetry.            *)
AttemptLimit == IF route = "selfPay" THEN 1 ELSE MaxAttempts
RoundLimit == IF route = "fixedBytes" THEN 1 ELSE MaxRounds

(* retryable of withFeePayerRetry after its retryGuard was consulted: one  *)
(* grace retry, then whatever the guard answers (it throwing is a yes).    *)
RetryableNow(e) ==
  IsRetryableFeePayerError(e) /\ ~(route = "fixedBytes" /\ e.phase = "expired")

(* Mutant: the last attempt is retried too.                                *)
RetryVerdictsOneMore(e) ==
  IF IsExpectedFeePayerError(e) \/ attempt > AttemptLimit THEN {FALSE}
  ELSE {RetryableNow(e)}

RetryVerdicts(e) ==
  IF IsExpectedFeePayerError(e) \/ attempt = AttemptLimit THEN {FALSE}
  ELSE IF RetryableNow(e) THEN {TRUE}
  ELSE IF ~IsGuardedFeePayerError(e) THEN {FALSE}
  ELSE IF guarded = 0 THEN {TRUE}
  ELSE BOOLEAN

-----------------------------------------------------------------------------
(* The call.                                                               *)

Throw(p, r, v) ==
  /\ pc' = "caught"
  /\ err' = Error(p, r, v)

(* A request fails.  The error is not about the transaction, but its text  *)
(* comes from a node or a proxy and goes through the same classifiers.     *)
RequestFails(phase) == \E r \in RpcReasons : Throw(phase, r, "none")

(* How sendInstructions picks the path.  A failed getPayerSigner probe     *)
(* falls back from Kora's SPL-paid path to self-pay.                       *)
SendConfigs ==
  [sponsored: BOOLEAN, acpAction: BOOLEAN, extraSigners: BOOLEAN,
   lookupTables: BOOLEAN, sponsorLookupTables: BOOLEAN,
   koraSponsor: BOOLEAN, koraClient: BOOLEAN]
RouteChoices(c) ==
  LET needsSelfPay == ~c.sponsorLookupTables /\ (c.extraSigners \/ c.lookupTables)
      useSponsorship == ~needsSelfPay /\ c.sponsored /\ c.acpAction
  IN IF useSponsorship THEN {IF c.koraSponsor THEN "koraSponsor" ELSE "alchemy"}
     ELSE {"selfPay"} \cup (IF c.koraClient THEN {"koraSpl"} ELSE {})

(* The routes whose transaction the extra signers get to sign.             *)
SignsExtras(r) == r \in {"alchemy", "selfPay"}

Init ==
  /\ height = StartHeight /\ pool = {} /\ block = {} /\ landed = {}
  /\ \/ \E c \in SendConfigs :
          /\ choices = RouteChoices(c)
          /\ c.extraSigners = ExtraSigners
          /\ builtFor = 0
     \/ /\ choices = {"fixedBytes"}
        /\ builtFor = height + Window
  /\ choices \subseteq Routes
  /\ route = "none"
  /\ pc = "prepare"
  /\ round = 1 /\ bump = FALSE /\ attempt = 1 /\ guarded = 0
  /\ serial = 0 /\ cur = NoTx /\ bound = 0
  /\ polls = 0
  /\ seen \in 0 .. height
  /\ err = NoError

(* prepare() of withReprepare reads fresh chain state; when it throws, the *)
(* error leaves withReprepare unhandled.                                   *)
Prepare ==
  /\ pc = "prepare"
  /\ \/ /\ pc' = "blockhash"
        /\ \E r \in choices :
             /\ route = "koraSpl" => r = "koraSpl"
             /\ route' = r
        /\ bump' = FALSE /\ attempt' = 1 /\ guarded' = 0
        /\ UNCHANGED <<round, err>>
     \/ /\ pc' = "done"
        /\ err' = Error("prepare", "other", "none")
        /\ UNCHANGED retryVars
  /\ UNCHANGED <<chainVars, callVars, txVars, polls, seen>>

(* getLatestBlockhash and building the transaction on it.  The bytes of a  *)
(* fixedBytes call carry their own blockhash; its confirmation bound is    *)
(* resolved once and held across retries.                                  *)
FetchBlockhash ==
  /\ pc = "blockhash"
  /\ \/ \E v \in Views :
          /\ seen' = v
          /\ serial' = serial + 1
          /\ IF route = "fixedBytes"
               THEN /\ cur' = [id |-> serial + 1, lvbh |-> builtFor]
                    /\ bound' = IF BoundGiven THEN builtFor
                                ELSE IF bound = 0 THEN v + Window ELSE bound
               ELSE /\ cur' = [id |-> serial + 1, lvbh |-> v + Window]
                    /\ bound' = v + Window
          /\ pc' = "authorize"
          /\ UNCHANGED err
     \/ /\ RequestFails("rpc")
        /\ UNCHANGED <<txVars, seen>>
  /\ UNCHANGED <<chainVars, callVars, retryVars, polls>>

(* Sponsor (fee payer request, prepare, quote, co-sign) and user signature. *)
(* Nothing has been broadcast yet, whatever fails here.                    *)
Authorize ==
  /\ pc = "authorize"
  /\ \/ pc' = "broadcast" /\ UNCHANGED err
     \/ RequestFails("sign")
     \/ /\ route # "selfPay"
        /\ \E r \in SimReasons,
              v \in IF route \in {"koraSponsor", "koraSpl"} THEN Verdicts ELSE {"none"} :
             Throw("sponsor", r, v)
  /\ UNCHANGED <<chainVars, callVars, retryVars, txVars, polls, seen>>

(* sendTransaction: accepted, refused at preflight, or the answer is lost. *)
(* A node refuses a transaction that lacks a required signature.           *)
Broadcast ==
  /\ pc = "broadcast"
  /\ \/ /\ ExtraSigners => SignsExtras(route)
        /\ pool' = pool \cup {cur}
        /\ pc' = "poll"
        /\ UNCHANGED err
     \/ /\ \E r \in SimReasons : Throw("preflight", r, "none")
        /\ UNCHANGED pool
     \/ /\ RequestFails("network")
        /\ \/ UNCHANGED pool
           \/ /\ ExtraSigners => SignsExtras(route)
              /\ pool' = pool \cup {cur}
  /\ polls' = 0
  /\ UNCHANGED <<height, block, landed, callVars, retryVars, txVars, seen>>

(* Mutant of CheckStatus: a merely processed transaction counts as done.   *)
CheckStatusProcessed(v, NoStatus) ==
  IF ConfirmedAt(v) \cup ProcessedAt(v) # {}
    THEN pc' = "done" /\ err' = NoError
    ELSE NoStatus

(* checkStatus at height v.  An error status is thrown at any commitment;  *)
(* success counts from "confirmed" on.                                     *)
CheckStatus(v, NoStatus) ==
  LET confirmed == ConfirmedAt(v)
      Reverted(S) == \E e \in S : e.out = "reverted"
  IN IF Reverted(confirmed) \/ Reverted(ProcessedAt(v))
       THEN \E r \in ChainReasons : Throw("failed", r, "none")
       ELSE IF confirmed # {}
         THEN pc' = "done" /\ err' = NoError
         ELSE NoStatus

RpcFailure == RequestFails("network") /\ UNCHANGED seen

Poll ==
  /\ pc = "poll"
  /\ \/ \E v \in Views :
          /\ seen' = v
          /\ CheckStatus(v, pc' = "height" /\ UNCHANGED err)
     \/ RpcFailure
  /\ UNCHANGED <<chainVars, callVars, retryVars, txVars, polls>>

(* Mutant of ReadHeight: expired is thrown without the last status check.  *)
ReadHeightNoRecheck ==
  /\ pc = "height"
  /\ \E v \in Views :
       /\ seen' = v
       /\ v > bound
       /\ Throw("expired", "other", "none")
  /\ UNCHANGED <<chainVars, callVars, retryVars, txVars, polls>>

(* Mutant of ReadHeight: polls are not counted.                            *)
ReadHeightUncounted ==
  /\ pc = "height"
  /\ \E v \in Views :
       /\ seen' = v
       /\ pc' = IF v > bound THEN "lastChance" ELSE "poll"
  /\ UNCHANGED <<chainVars, callVars, retryVars, txVars, polls, err>>

ReadHeight ==
  /\ pc = "height"
  /\ \/ \E v \in Views :
          /\ seen' = v
          /\ IF v > bound
               THEN pc' = "lastChance" /\ UNCHANGED <<err, polls>>
               ELSE /\ polls' = polls + 1
                    /\ IF polls + 1 < MaxPolls
                         THEN pc' = "poll" /\ UNCHANGED err
                         ELSE Throw("timeout", "other", "none")
     \/ RpcFailure /\ UNCHANGED polls
  /\ UNCHANGED <<chainVars, callVars, retryVars, txVars>>

LastChance ==
  /\ pc = "lastChance"
  /\ \/ \E v \in Views :
          /\ seen' = v
          /\ CheckStatus(v, Throw("expired", "other", "none"))
     \/ RpcFailure
  /\ UNCHANGED <<chainVars, callVars, retryVars, txVars, polls>>

(* catch block of withFeePayerRetry: rebuild on a fresh blockhash.         *)
RetryAttempt ==
  /\ pc = "caught"
  /\ TRUE \in RetryVerdicts(err)
  /\ attempt' = attempt + 1
  /\ guarded' = IF RetryableNow(err) THEN guarded ELSE guarded + 1
  /\ pc' = "blockhash"
  /\ err' = NoError
  /\ UNCHANGED <<chainVars, callVars, route, round, bump, txVars, polls, seen>>

Escapes == pc = "caught" /\ FALSE \in RetryVerdicts(err)
BumpsCu == route # "fixedBytes" /\ ~bump /\ IsComputeBudgetExceededError(err)

(* withCuBump, and the forceMaxCuLimit re-run of the Kora sponsor path.    *)
BumpCu ==
  /\ Escapes
  /\ BumpsCu
  /\ bump' = TRUE /\ attempt' = 1 /\ guarded' = 0
  /\ pc' = "blockhash"
  /\ err' = NoError
  /\ UNCHANGED <<chainVars, callVars, route, round, txVars, polls, seen>>

Reprepare ==
  /\ Escapes
  /\ ~BumpsCu
  /\ round < RoundLimit
  /\ TRUE \in StaleVerdicts(err)
  /\ round' = round + 1
  /\ pc' = "prepare"
  /\ err' = NoError
  /\ UNCHANGED <<chainVars, callVars, route, bump, attempt, guarded, txVars, polls, seen>>

GiveUp ==
  /\ Escapes
  /\ ~BumpsCu
  /\ round = RoundLimit \/ FALSE \in StaleVerdicts(err)
  /\ pc' = "done"
  /\ UNCHANGED <<chainVars, callVars, retryVars, txVars, polls, seen, err>>

CallStep ==
  \/ Prepare \/ FetchBlockhash \/ Authorize \/ Broadcast
  \/ Poll \/ ReadHeight \/ LastChance
  \/ RetryAttempt \/ BumpCu \/ Reprepare \/ GiveUp

Next == ChainStep \/ CallStep

Spec == Init /\ [][Next]_vars

(* The event loop runs the call whenever its last await has an answer;     *)
(* nothing is assumed of the chain.                                        *)
FairSpec == Spec /\ WF_vars(CallStep)

-----------------------------------------------------------------------------
(* Properties.                                                             *)

TxType == [id: Nat, lvbh: Nat]

(* Every variable keeps its type, and no attempt, round or poll is made    *)
(* past the limit of its loop.                                             *)
TypeOK ==
  /\ height \in Nat
  /\ pool \subseteq TxType
  /\ block \subseteq [tx: TxType, out: Outcomes]
  /\ landed \subseteq [tx: TxType, at: Nat, out: Outcomes]
  /\ pc \in {"prepare", "blockhash", "authorize", "broadcast", "poll",
             "height", "lastChance", "caught", "done"}
  /\ choices \subseteq Routes /\ builtFor \in Nat
  /\ route \in choices \cup {"none"}
  /\ route = "none" => pc \in {"prepare", "done"}
  /\ round \in 1 .. MaxRounds
  /\ bump \in BOOLEAN
  /\ attempt \in 1 .. AttemptLimit
  /\ guarded \in Nat
  /\ serial \in Nat /\ cur \in TxType /\ bound \in Nat
  /\ polls \in 0 .. MaxPolls
  /\ pc \in {"poll", "height"} => polls < MaxPolls
  /\ seen \in Nat
  /\ err \in [phase: Phases, reason: SimReasons, verdict: Verdicts]

(* The transactions of this call that took effect.                         *)
Effects == {e.tx : e \in {x \in landed : x.out = "ok"}}

(* Whatever is retried, rebuilt or re-prepared, at most one transaction of *)
(* a call ever takes effect: the job is not funded, created or completed   *)
(* twice by one call.                                                      *)
AtMostOnce == \A t, u \in Effects : t = u

(* A call that was re-prepared after a stale prepare acts once: the failed *)
(* transaction it is resent for had no effect and has none (the comment of *)
(* isStalePrepareError).                                                   *)
ResendIsSafe == round > 1 => AtMostOnce

(* A call that returns has its transaction confirmed.                      *)
SuccessIsConfirmed == pc = "done" /\ err.phase = "none" => cur \in Effects

(* A call that throws anything but a timeout or a broken connection had no *)
(* effect and never will: the caller may safely act on the failure.        *)
DefiniteFailure ==
  pc = "done" /\ err.phase \notin {"none", "timeout", "network"} => Effects = {}

(* An "expired" verdict is final even where blocks are abandoned.          *)
ExpiredIsFinal == pc = "done" /\ err.phase = "expired" => cur \notin Effects

(* The call keeps the contract of SendContract.                            *)
ReportOf ==
  IF pc # "done" THEN "pending"
  ELSE IF err.phase = "none" THEN "ok"
  ELSE IF err.phase \in {"timeout", "network"} THEN "unknown"
  ELSE "failed"
Contract == INSTANCE SendContract WITH effects <- Effects, report <- ReportOf
KeepsContract == Contract!Spec

(* Every call ends, whether or not the chain moves.                        *)
Terminates == <>(pc = "done")

-----------------------------------------------------------------------------
(* The inductive invariant behind AtMostOnce, SuccessIsConfirmed and       *)
(* DefiniteFailure, for a cluster without abandoned blocks.                *)

CanSucceed(t) ==
  /\ t \in pool
  /\ height < t.lvbh
  /\ \A e \in block : e.tx = t => e.out = "ok"

(* No transaction built so far has had or can have an effect.              *)
Settled == Effects = {} /\ \A t \in pool : ~CanSucceed(t)

(* Only the transaction of this attempt has had or can have an effect.     *)
OnlyCur == Effects \subseteq {cur} /\ \A t \in pool : CanSucceed(t) => t = cur

ChainInv ==
  /\ \A t \in pool : t.id <= serial
  /\ \A e \in landed : /\ e.tx.id <= serial
                       /\ e.at <= height /\ e.at <= e.tx.lvbh
                       /\ e.tx \notin pool
  /\ \A e, f \in landed : e.tx = f.tx => e = f
  /\ \A e \in block : e.tx \in pool /\ height + 1 <= e.tx.lvbh
  /\ \A e, f \in block : e.tx = f.tx => e = f
  /\ seen <= height

UnknownPhases == {"timeout", "network"}

(* Reasons no retry rule acts on once a transaction may be on its way.     *)
PlainReasons == {"other", "seeds", "intentStale"}

CallInv ==
  /\ cur.id = serial
  /\ pc \in {"authorize", "broadcast", "poll", "height", "lastChance"} => bound = cur.lvbh
  /\ pc \in {"prepare", "blockhash", "authorize", "broadcast"} => Settled
  /\ pc \in {"authorize", "broadcast"} =>
       /\ \A t \in pool : t.id < serial
       /\ \A e \in landed : e.tx.id < serial
  /\ pc \in {"poll", "height", "lastChance"} => OnlyCur
  /\ pc = "lastChance" => seen > bound
  /\ pc = "caught" => err.phase # "none"
  /\ pc = "caught" /\ err.phase \in UnknownPhases =>
       err.reason \in PlainReasons /\ err.verdict = "none"
  /\ pc \in {"caught", "done"} =>
       /\ err.phase \in UnknownPhases => OnlyCur
       /\ err.phase \notin UnknownPhases \cup {"none"} => Settled
  /\ pc = "done" /\ err.phase = "none" => OnlyCur /\ cur \in Effects

Inductive == ChainInv /\ CallInv
=============================================================================
