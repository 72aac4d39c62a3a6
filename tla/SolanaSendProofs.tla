-------------------------- MODULE SolanaSendProofs --------------------------
(***************************************************************************)
(* Proofs about SolanaSend for every number of attempts, rounds and polls, *)
(* every blockhash window and any mix of routes.  Those that speak of the  *)
(* effects of failed attempts are about a cluster that does not abandon    *)
(* processed blocks (StableCluster); what a call that returns may rely on, *)
(* and when "expired" is final, hold with abandoned blocks too.            *)
(***************************************************************************)
EXTENDS SolanaSend, TLAPS

-----------------------------------------------------------------------------
(* Type correctness.                                                       *)

(* Every loop limit is a positive number.                                   *)
LEMMA Limits ==
  /\ MaxAttempts \in Nat /\ MaxAttempts >= 1
  /\ MaxRounds \in Nat /\ MaxRounds >= 1
  /\ MaxPolls \in Nat /\ MaxPolls >= 1
  /\ Window \in Nat /\ Window >= 1
  /\ StartHeight \in Nat /\ MaxHeight \in Nat
BY ConstantsAssumption

(* A call starts well typed, with no attempt made.                         *)
LEMMA InitTypes == Init => TypeOK
<1> SUFFICES ASSUME Init PROVE TypeOK
  OBVIOUS
<1> USE ConstantsAssumption
<1>1. height \in Nat /\ builtFor \in Nat /\ choices \subseteq Routes
  BY DEF Init
<1>2. seen \in Nat
  BY <1>1 DEF Init
<1>3. cur \in TxType /\ err \in [phase: Phases, reason: SimReasons, verdict: Verdicts]
  BY DEF Init, NoTx, NoError, Error, TxType, Phases, SimReasons, Verdicts
<1>4. /\ pool \subseteq TxType /\ block \subseteq [tx: TxType, out: Outcomes]
      /\ landed \subseteq [tx: TxType, at: Nat, out: Outcomes]
  BY DEF Init
<1>5. /\ round = 1 /\ attempt = 1 /\ guarded = 0 /\ serial = 0 /\ bound = 0
      /\ polls = 0 /\ route = "none" /\ pc = "prepare"
  BY DEF Init
<1>6. bump \in BOOLEAN
  BY DEF Init
<1>7. round \in 1 .. MaxRounds /\ attempt \in 1 .. AttemptLimit /\ polls \in 0 .. MaxPolls
  BY <1>5, Limits DEF AttemptLimit
<1> QED
  BY <1>1, <1>2, <1>3, <1>4, <1>5, <1>6, <1>7 DEF TypeOK

(* Whatever an action throws is a well-typed error.                        *)
LEMMA ThrowTypes ==
  ASSUME NEW p \in Phases, NEW r \in SimReasons, NEW v \in Verdicts, Throw(p, r, v)
  PROVE  err' \in [phase: Phases, reason: SimReasons, verdict: Verdicts] /\ pc' = "caught"
BY DEF Throw, Error

(* A failed request throws a well-typed error of its phase.                *)
LEMMA RequestFailsTypes ==
  ASSUME NEW p \in Phases, RequestFails(p)
  PROVE  /\ err' \in [phase: Phases, reason: SimReasons, verdict: Verdicts]
         /\ pc' = "caught"
         /\ err'.phase = p /\ err'.verdict = "none" /\ err'.reason \in RpcReasons
BY ConstantsAssumption DEF RequestFails, Throw, Error, Verdicts

(* No step of the chain or of the call breaks a type or passes a limit.    *)
LEMMA StepTypes == TypeOK /\ [Next]_vars => TypeOK'
<1> SUFFICES ASSUME TypeOK, [Next]_vars PROVE TypeOK'
  OBVIOUS
<1> USE ConstantsAssumption, Limits DEF AttemptLimit
<1> DEFINE Errors == [phase: Phases, reason: SimReasons, verdict: Verdicts]
<1>e. /\ NoError \in Errors
      /\ \A p \in Phases, r \in SimReasons, v \in Verdicts : Error(p, r, v) \in Errors
  BY DEF NoError, Error, Phases, SimReasons, Verdicts
<1>1. CASE ChainStep
  <2>0. UNCHANGED <<pc, callVars, retryVars, txVars, polls, seen, err>>
    BY <1>1 DEF ChainStep
  <2>1. CASE Include
    BY <2>0, <2>1 DEF Include, Landable, TypeOK, callVars, retryVars, txVars, Outcomes
  <2>2. CASE ConfirmBlock
    BY <2>0, <2>2 DEF ConfirmBlock, TypeOK, callVars, retryVars, txVars
  <2>3. CASE AbandonBlock
    BY <2>0, <2>3 DEF AbandonBlock, TypeOK, callVars, retryVars, txVars
  <2> QED
    BY <1>1, <2>1, <2>2, <2>3 DEF ChainStep
<1>2. CASE Prepare
  <2>0. UNCHANGED <<chainVars, callVars, txVars, polls, seen>>
    BY <1>2 DEF Prepare
  <2>1. CASE pc' = "blockhash"
    <3>1. /\ route' \in choices /\ route' \in Routes
          /\ bump' = FALSE /\ attempt' = 1 /\ guarded' = 0 /\ UNCHANGED <<round, err>>
      BY <1>2, <2>1 DEF Prepare, TypeOK
    <3>2. route' # "none"
      BY <3>1 DEF AllRoutes
    <3>3. attempt' \in 1 .. AttemptLimit'
      BY <3>1
    <3> QED BY <2>0, <2>1, <3>1, <3>2, <3>3 DEF TypeOK, chainVars, callVars, txVars
  <2>2. CASE pc' = "done"
    <3>1. err' = Error("prepare", "other", "none") /\ UNCHANGED retryVars
      BY <1>2, <2>2 DEF Prepare
    <3>2. err' \in Errors
      BY <3>1, <1>e DEF Phases, SimReasons, Verdicts
    <3> QED BY <2>0, <2>2, <3>1, <3>2 DEF TypeOK, chainVars, callVars, txVars, retryVars
  <2> QED BY <1>2, <2>1, <2>2 DEF Prepare
<1>3. CASE FetchBlockhash
  <2>1. CASE RequestFails("rpc") /\ UNCHANGED <<txVars, seen>>
    <3>1. err' \in Errors /\ pc' = "caught" /\ route # "none"
      BY <1>3, <2>1, RequestFailsTypes DEF FetchBlockhash, TypeOK, Phases
    <3> QED BY <1>3, <2>1, <3>1 DEF FetchBlockhash, TypeOK, chainVars, callVars, retryVars, txVars
  <2>2. CASE pc' = "authorize" /\ UNCHANGED err
    BY <1>3, <2>2 DEF FetchBlockhash, Views, TypeOK, TxType, RequestFails, Throw, chainVars,
       callVars, retryVars, txVars
  <2> QED BY <1>3, <2>1, <2>2 DEF FetchBlockhash
<1>4. CASE Authorize
  <2>0. UNCHANGED <<chainVars, callVars, retryVars, txVars, polls, seen>>
    BY <1>4 DEF Authorize
  <2>1. err' \in Errors /\ pc' \in {"broadcast", "caught"} /\ route # "none"
    <3>1. CASE RequestFails("sign")
      BY <1>4, <3>1, RequestFailsTypes DEF Authorize, TypeOK, Phases
    <3>2. CASE ~RequestFails("sign")
      BY <1>4, <3>2 DEF Authorize, TypeOK, Throw, Error, Phases, Verdicts
    <3> QED BY <3>1, <3>2
  <2> QED BY <2>0, <2>1 DEF TypeOK, chainVars, callVars, retryVars, txVars
<1>5. CASE Broadcast
  <2>0. /\ UNCHANGED <<height, block, landed, callVars, retryVars, txVars, seen>>
        /\ polls' = 0
    BY <1>5 DEF Broadcast
  <2>1. err' \in Errors /\ pc' \in {"poll", "caught"} /\ route # "none"
    <3>1. CASE RequestFails("network")
      BY <1>5, <3>1, RequestFailsTypes DEF Broadcast, TypeOK, Phases
    <3>2. CASE ~RequestFails("network")
      BY <1>5, <3>2 DEF Broadcast, TypeOK, Throw, Error, Phases, Verdicts
    <3> QED BY <3>1, <3>2
  <2>2. pool' \in {pool, pool \cup {cur}}
    BY <1>5 DEF Broadcast
  <2>3. pool' \subseteq TxType
    BY <2>2 DEF TypeOK
  <2> QED BY <2>0, <2>1, <2>3 DEF TypeOK, chainVars, callVars, retryVars, txVars
<1>6. CASE Poll
  <2>1. CASE RpcFailure
    <3>1. err' \in Errors /\ pc' = "caught" /\ UNCHANGED seen
      BY <2>1, RequestFailsTypes DEF RpcFailure, Phases
    <3> QED BY <1>6, <3>1 DEF Poll, TypeOK, chainVars, callVars, retryVars, txVars
  <2>2. CASE ~RpcFailure
    BY <1>6, <2>2 DEF Poll, CheckStatus, Views, TypeOK, Throw, Error, NoError,
       chainVars, callVars, retryVars, txVars, Phases, SimReasons, ChainReasons, Verdicts
  <2> QED BY <2>1, <2>2
<1>7. CASE ReadHeight
  <2>1. CASE RpcFailure /\ UNCHANGED polls
    <3>1. err' \in Errors /\ pc' = "caught" /\ UNCHANGED seen
      BY <2>1, RequestFailsTypes DEF RpcFailure, Phases
    <3> QED BY <1>7, <2>1, <3>1 DEF ReadHeight, TypeOK, chainVars, callVars, retryVars, txVars
  <2>2. CASE ~(RpcFailure /\ UNCHANGED polls)
    BY <1>7, <2>2 DEF ReadHeight, Views, TypeOK, Throw, Error,
       chainVars, callVars, retryVars, txVars, Phases, SimReasons, Verdicts
  <2> QED BY <2>1, <2>2
<1>8. CASE LastChance
  <2>1. CASE RpcFailure
    <3>1. err' \in Errors /\ pc' = "caught" /\ UNCHANGED seen
      BY <2>1, RequestFailsTypes DEF RpcFailure, Phases
    <3> QED BY <1>8, <3>1 DEF LastChance, TypeOK, chainVars, callVars, retryVars, txVars
  <2>2. CASE ~RpcFailure
    BY <1>8, <2>2 DEF LastChance, CheckStatus, Views, TypeOK, Throw, Error, NoError,
       chainVars, callVars, retryVars, txVars, Phases, SimReasons, ChainReasons, Verdicts
  <2> QED BY <2>1, <2>2
<1>9. CASE RetryAttempt
  <2>1. attempt # AttemptLimit
    BY <1>9 DEF RetryAttempt, RetryVerdicts
  <2>2. attempt' \in 1 .. AttemptLimit'
    BY <2>1, <1>9 DEF RetryAttempt, TypeOK
  <2>3. guarded' \in Nat
    BY <1>9 DEF RetryAttempt, TypeOK
  <2> QED
    BY <1>9, <1>e, <2>2, <2>3 DEF RetryAttempt, TypeOK, chainVars, callVars, txVars
<1>10. CASE BumpCu
  BY <1>10, <1>e DEF BumpCu, Escapes, TypeOK, chainVars, callVars, txVars
<1>11. CASE Reprepare
  BY <1>11, <1>e DEF Reprepare, Escapes, RoundLimit, TypeOK, chainVars, callVars, txVars
<1>12. CASE GiveUp
  BY <1>12 DEF GiveUp, Escapes, TypeOK, chainVars, callVars, retryVars, txVars
<1>13. CASE UNCHANGED vars
  BY <1>13 DEF vars, TypeOK, chainVars, callVars, retryVars, txVars
<1> QED
  BY <1>1, <1>2, <1>3, <1>4, <1>5, <1>6, <1>7, <1>8, <1>9, <1>10, <1>11, <1>12, <1>13
  DEF Next, CallStep

(* Every variable keeps its type: in particular no retry counter exceeds   *)
(* the limit of its loop.                                                  *)
THEOREM TypeCorrect == Spec => []TypeOK
BY InitTypes, StepTypes, PTL DEF Spec

-----------------------------------------------------------------------------
(* The inductive invariant.                                                *)

(* Processed blocks stand, reads do not go back, a caller of               *)
(* sendSponsoredSignedTransaction passes the lastValidBlockHeight it has,  *)
(* and the text of a failed request is not taken for a verdict about the   *)
(* transaction that may be on its way.                                     *)
StableCluster ==
  /\ ~Forks
  /\ StickyReads
  /\ RpcReasons \subseteq PlainReasons
  /\ "fixedBytes" \in Routes => BoundGiven

(* The invariant holds before anything was built or broadcast.             *)
LEMMA InitInductive == Init => Inductive
<1> SUFFICES ASSUME Init PROVE Inductive
  OBVIOUS
<1>1. /\ pool = {} /\ block = {} /\ landed = {} /\ pc = "prepare"
      /\ serial = 0 /\ cur = NoTx
  BY DEF Init
<1>2. seen <= height
  BY Limits DEF Init
<1>3. Settled
  BY <1>1 DEF Settled, Effects
<1> QED
  BY <1>1, <1>2, <1>3 DEF Inductive, ChainInv, CallInv, NoTx

(* A chain step turns only transactions that can succeed into effects,     *)
(* revives none, and undoes no effect.                                     *)
LEMMA ChainStepEffects ==
  ASSUME TypeOK, ChainInv, StableCluster, ChainStep
  PROVE  /\ ChainInv'
         /\ pool' \subseteq pool
         /\ Effects \subseteq Effects'
         /\ \A t \in Effects' : t \in Effects \/ (t \in pool /\ CanSucceed(t))
         /\ \A t \in pool' : CanSucceed(t)' => CanSucceed(t)
         /\ \A e \in landed' : e \in landed \/ e.tx \in pool
<1>0. UNCHANGED <<serial, seen>>
  BY DEF ChainStep, txVars
<1>1. CASE Include
  <2>1. PICK t \in pool, o \in Outcomes :
          /\ Landable(t)
          /\ block' = block \cup {[tx |-> t, out |-> o]}
          /\ UNCHANGED <<height, pool, landed>>
    BY <1>1 DEF Include
  <2>2. ChainInv'
    <3>1. \A e \in block' : e.tx \in pool' /\ height' + 1 <= e.tx.lvbh
      BY <2>1 DEF Landable, ChainInv
    <3>2. \A e, f \in block' : e.tx = f.tx => e = f
      BY <2>1 DEF Landable, InBlock, ChainInv
    <3> QED BY <1>0, <2>1, <3>1, <3>2 DEF ChainInv
  <2>3. Effects' = Effects
    BY <2>1 DEF Effects
  <2>4. \A u : CanSucceed(u)' => CanSucceed(u)
    BY <2>1 DEF CanSucceed
  <2> QED BY <2>1, <2>2, <2>3, <2>4
<1>2. CASE ConfirmBlock
  <2> DEFINE new == {[tx |-> e.tx, at |-> height + 1, out |-> e.out] : e \in block}
  <2>1. /\ height' = height + 1 /\ landed' = landed \cup new /\ block' = {}
        /\ pool' = {t \in pool : ~InBlock(t) /\ height + 1 < t.lvbh}
    BY <1>2 DEF ConfirmBlock
  <2>2. \A e \in new : /\ [tx |-> e.tx, out |-> e.out] \in block
                       /\ e.at = height + 1
    BY DEF TypeOK
  <2>3. \A e \in new : e.tx \in pool /\ height + 1 <= e.tx.lvbh /\ InBlock(e.tx)
    BY <2>2 DEF ChainInv, InBlock
  <2>4. \A e, f \in new : e.tx = f.tx => e = f
    BY DEF ChainInv
  <2>5. ChainInv'
    <3>1. \A e \in landed' : /\ e.tx.id <= serial'
                             /\ e.at <= height' /\ e.at <= e.tx.lvbh
                             /\ e.tx \notin pool'
      <4> SUFFICES ASSUME NEW e \in landed'
                   PROVE  /\ e.tx.id <= serial'
                          /\ e.at <= height' /\ e.at <= e.tx.lvbh
                          /\ e.tx \notin pool'
        OBVIOUS
      <4>1. CASE e \in landed
        <5>1. e.at \in Nat
          BY <4>1 DEF TypeOK
        <5> QED BY <1>0, <2>1, <4>1, <5>1 DEF ChainInv, TypeOK
      <4>2. CASE e \in new
        BY <1>0, <2>1, <2>2, <2>3, <4>2 DEF ChainInv, TypeOK
      <4> QED BY <2>1, <4>1, <4>2
    <3>2. \A e, f \in landed' : e.tx = f.tx => e = f
      BY <2>1, <2>3, <2>4 DEF ChainInv
    <3>3. \A t \in pool' : t.id <= serial'
      BY <1>0, <2>1 DEF ChainInv
    <3>4. seen' <= height'
      BY <1>0, <2>1 DEF ChainInv, TypeOK
    <3> QED BY <2>1, <3>1, <3>2, <3>3, <3>4 DEF ChainInv
  <2>6. \A t \in Effects' : t \in Effects \/ (t \in pool /\ CanSucceed(t))
    <3> SUFFICES ASSUME NEW e \in new, e.out = "ok"
                 PROVE  e.tx \in pool /\ CanSucceed(e.tx)
      BY <2>1 DEF Effects
    <3>1. \A f \in block : f.tx = e.tx => f = [tx |-> e.tx, out |-> e.out]
      BY <2>2 DEF ChainInv
    <3>2. e.tx \in TxType
      BY <2>3 DEF TypeOK
    <3> QED BY <2>3, <3>1, <3>2 DEF CanSucceed, TypeOK, TxType
  <2>7. \A t \in pool' : CanSucceed(t)' => CanSucceed(t)
    <3> SUFFICES ASSUME NEW t \in pool', CanSucceed(t)' PROVE CanSucceed(t)
      OBVIOUS
    <3>1. t \in TxType
      BY <2>1 DEF TypeOK
    <3> QED BY <2>1, <3>1 DEF CanSucceed, InBlock, TypeOK, TxType
  <2> QED BY <2>1, <2>3, <2>5, <2>6, <2>7 DEF Effects
<1>3. CASE AbandonBlock
  BY <1>3 DEF AbandonBlock, StableCluster
<1> QED
  BY <1>1, <1>2, <1>3 DEF ChainStep

(* The cluster moving on its own keeps the invariant, whatever the call    *)
(* is doing meanwhile.                                                     *)
LEMMA ChainStepInductive ==
  ASSUME TypeOK, Inductive, StableCluster, ChainStep
  PROVE  Inductive'
<1>0. UNCHANGED <<pc, serial, cur, bound, seen, err>>
  BY DEF ChainStep, txVars
<1>1. /\ ChainInv'
      /\ pool' \subseteq pool
      /\ Effects \subseteq Effects'
      /\ \A t \in Effects' : t \in Effects \/ (t \in pool /\ CanSucceed(t))
      /\ \A t \in pool' : CanSucceed(t)' => CanSucceed(t)
      /\ \A e \in landed' : e \in landed \/ e.tx \in pool
  BY ChainStepEffects DEF Inductive
<1>2. Settled => Settled'
  BY <1>1 DEF Settled
<1>3. OnlyCur => OnlyCur'
  BY <1>0, <1>1 DEF OnlyCur
<1> QED
  BY <1>0, <1>1, <1>2, <1>3 DEF Inductive, CallInv

(* An error that leaves the outcome open is neither retried nor bumped nor *)
(* re-prepared: whatever is, had no effect.                                *)
LEMMA UnknownEscapes ==
  ASSUME TypeOK, Inductive, pc = "caught", err.phase \in UnknownPhases
  PROVE  /\ TRUE \notin RetryVerdicts(err)
         /\ ~BumpsCu
         /\ TRUE \notin StaleVerdicts(err)
<1>1. err.reason \notin {"cu", "lag", "notInitialized", "wrongStatus", "hooksInvalidJob"}
      /\ err.verdict = "none"
  BY DEF Inductive, CallInv, PlainReasons
<1>2. err.phase # "expired" /\ err.phase \notin {"sponsor", "preflight", "failed"}
  BY DEF UnknownPhases
<1>3. ~IsGuardedFeePayerError(err) /\ ~IsRetryableFeePayerError(err)
  BY <1>1, <1>2 DEF IsGuardedFeePayerError, IsRetryableFeePayerError
<1>4. TRUE \notin RetryVerdicts(err)
  BY <1>3 DEF RetryVerdicts, RetryableNow
<1>5. ~BumpsCu
  BY <1>1 DEF BumpsCu, IsComputeBudgetExceededError
<1>6. TRUE \notin StaleVerdicts(err)
  BY <1>2 DEF StaleVerdicts
<1> QED BY <1>4, <1>5, <1>6

(* What checkStatus learns of the transaction at a height it is served.    *)
LEMMA StatusIsTrue ==
  ASSUME TypeOK, ChainInv, OnlyCur, NEW v \in Views
  PROVE  /\ \A e \in ConfirmedAt(v) \cup ProcessedAt(v) : e.out = "reverted" => Settled
         /\ \A e \in ConfirmedAt(v) : e.out # "reverted" => cur \in Effects
         /\ ConfirmedAt(v) = {} /\ v > cur.lvbh => Settled
<1>1. ASSUME NEW e \in ConfirmedAt(v), e.out = "reverted" PROVE Settled
  <2>1. e \in landed /\ e.tx = cur /\ cur \notin pool
    BY <1>1 DEF ConfirmedAt, ChainInv
  <2>2. cur \notin Effects
    BY <1>1, <2>1 DEF Effects, ChainInv
  <2> QED BY <2>1, <2>2 DEF Settled, OnlyCur
<1>2. ASSUME NEW e \in ProcessedAt(v), e.out = "reverted" PROVE Settled
  <2>1. e \in block /\ e.tx = cur /\ cur \in pool
    BY <1>2 DEF ProcessedAt, ChainInv
  <2>2. cur \notin Effects
    BY <2>1 DEF Effects, ChainInv
  <2>3. ~CanSucceed(cur)
    BY <1>2, <2>1 DEF CanSucceed
  <2> QED BY <2>2, <2>3 DEF Settled, OnlyCur
<1>3. ASSUME NEW e \in ConfirmedAt(v), e.out # "reverted" PROVE cur \in Effects
  <2>1. e \in landed /\ e.tx = cur /\ e.out = "ok"
    BY <1>3 DEF ConfirmedAt, TypeOK, Outcomes
  <2> QED BY <2>1 DEF Effects
<1>4. ASSUME ConfirmedAt(v) = {}, v > cur.lvbh PROVE Settled
  <2>0. v \in Nat /\ v <= height /\ cur.lvbh \in Nat
    BY DEF Views, TypeOK, TxType
  <2>1. \A e \in landed : e.tx = cur => e.at <= v
    <3> SUFFICES ASSUME NEW e \in landed, e.tx = cur PROVE e.at <= v
      OBVIOUS
    <3>1. e.at \in Nat /\ e.at <= cur.lvbh
      BY DEF ChainInv, TypeOK
    <3> QED BY <1>4, <2>0, <3>1
  <2>2. cur \notin Effects
    BY <1>4, <2>1 DEF Effects, ConfirmedAt
  <2>3. ~CanSucceed(cur)
    BY <1>4, <2>0 DEF CanSucceed, TypeOK
  <2> QED BY <2>2, <2>3 DEF Settled, OnlyCur
<1> QED BY <1>1, <1>2, <1>3, <1>4

(* A call step that broadcasts nothing leaves effects and pool as they are. *)
LEMMA QuietStep ==
  ASSUME TypeOK, UNCHANGED chainVars
  PROVE  /\ Effects' = Effects
         /\ Settled' = Settled
         /\ OnlyCur /\ cur' = cur => OnlyCur'
         /\ Settled => OnlyCur'
         /\ ChainInv /\ serial' \in Nat /\ serial' >= serial /\ seen' <= height => ChainInv'
<1>1. UNCHANGED <<height, pool, block, landed>>
  BY DEF chainVars
<1>2. Effects' = Effects
  BY <1>1 DEF Effects
<1>3. \A t : CanSucceed(t)' = CanSucceed(t)
  BY <1>1 DEF CanSucceed
<1>4. Settled' = Settled
  BY <1>1, <1>2, <1>3 DEF Settled
<1>5. OnlyCur /\ cur' = cur => OnlyCur'
  BY <1>1, <1>2, <1>3 DEF OnlyCur
<1>6. Settled => OnlyCur'
  BY <1>1, <1>2, <1>3 DEF OnlyCur, Settled
<1>7. ASSUME ChainInv, serial' \in Nat, serial' >= serial, seen' <= height
      PROVE  ChainInv'
  <2>1. \A t \in pool : t.id <= serial'
    BY <1>7 DEF ChainInv, TypeOK, TxType
  <2>2. \A e \in landed : e.tx.id <= serial'
    BY <1>7 DEF ChainInv, TypeOK, TxType
  <2> QED BY <1>1, <1>7, <2>1, <2>2 DEF ChainInv
<1> QED BY <1>2, <1>4, <1>5, <1>6, <1>7

(* A status check, made by Poll or as LastChance: Mid is what happens when *)
(* the transaction is not seen.                                            *)
LEMMA CheckStatusInductive ==
  ASSUME TypeOK, Inductive, OnlyCur, UNCHANGED <<chainVars, txVars>>, NEW v \in Views, seen' = v,
         NEW Mid \in BOOLEAN, CheckStatus(v, Mid), ~Mid
  PROVE  Inductive'
<1>0. /\ UNCHANGED <<serial, cur, bound>>
      /\ serial \in Nat /\ v <= height
  BY DEF txVars, Views, TypeOK
<1>1. ChainInv' /\ Settled' = Settled /\ OnlyCur' /\ Effects' = Effects
  BY <1>0, QuietStep DEF Inductive
<1>2. CASE \E r \in ChainReasons : Throw("failed", r, "none")
  <2>1. Settled
    <3>1. CASE \E e \in ConfirmedAt(v) \cup ProcessedAt(v) : e.out = "reverted"
      BY <3>1, StatusIsTrue DEF Inductive
    <3>2. CASE \A e \in ConfirmedAt(v) \cup ProcessedAt(v) : e.out # "reverted"
      BY <1>2, <3>2 DEF CheckStatus, Throw
    <3> QED BY <3>1, <3>2
  <2>2. pc' = "caught" /\ err'.phase = "failed"
    BY <1>2 DEF Throw, Error
  <2> QED BY <1>0, <1>1, <2>1, <2>2 DEF Inductive, CallInv, UnknownPhases
<1>3. CASE pc' = "done" /\ err' = NoError
  <2>1. ConfirmedAt(v) # {} /\ \A e \in ConfirmedAt(v) : e.out # "reverted"
    BY <1>3 DEF CheckStatus, Throw
  <2>2. cur \in Effects
    BY <2>1, StatusIsTrue DEF Inductive
  <2>3. err'.phase = "none"
    BY <1>3 DEF NoError, Error
  <2> QED BY <1>0, <1>1, <1>3, <2>2, <2>3 DEF Inductive, CallInv, UnknownPhases
<1> QED BY <1>2, <1>3 DEF CheckStatus

(* Every await of the call keeps the invariant: one step per action.       *)
LEMMA CallStepInductive ==
  ASSUME TypeOK, Inductive, StableCluster, CallStep
  PROVE  Inductive'
<1> USE DEF UnknownPhases
<1>0. /\ serial \in Nat /\ seen <= height /\ seen \in Nat /\ height \in Nat
      /\ ChainInv /\ CallInv /\ cur.id = serial
  BY DEF TypeOK, Inductive, ChainInv, CallInv
<1>v. \A v \in Views : v \in Nat /\ seen <= v /\ v <= height
  BY <1>0 DEF Views, StableCluster
<1>f. RequestFails("network") => /\ pc' = "caught" /\ err'.phase = "network"
                                  /\ err'.reason \in PlainReasons /\ err'.verdict = "none"
  BY RequestFailsTypes DEF StableCluster, Phases
<1>1. CASE Prepare
  <2>1. /\ UNCHANGED <<chainVars, serial, cur, bound, seen>>
        /\ \/ pc' = "blockhash" /\ err' = err
           \/ pc' = "done" /\ err' = Error("prepare", "other", "none")
    BY <1>1 DEF Prepare, txVars
  <2>2. Settled
    BY <1>0, <1>1 DEF Prepare, CallInv
  <2>3. ChainInv' /\ Settled'
    BY <1>0, <2>1, <2>2, QuietStep
  <2> QED BY <1>0, <2>1, <2>3 DEF Inductive, CallInv, Error
<1>2. CASE FetchBlockhash
  <2>1. UNCHANGED chainVars /\ Settled
    BY <1>0, <1>2 DEF FetchBlockhash, CallInv
  <2>2. CASE pc' = "authorize"
    <3>1. /\ serial' = serial + 1 /\ cur'.id = serial + 1 /\ bound' = cur'.lvbh
          /\ seen' <= height
      <4>1. route = "fixedBytes" => BoundGiven
        BY <1>2 DEF FetchBlockhash, TypeOK, StableCluster
      <4> QED BY <1>2, <1>v, <2>2, <4>1 DEF FetchBlockhash, RequestFails, Throw
    <3>2. ChainInv' /\ Settled'
      BY <1>0, <2>1, <3>1, QuietStep
    <3>3. UNCHANGED <<pool, landed>>
      BY <2>1 DEF chainVars
    <3>4. \A t \in pool' : t.id < serial'
      BY <1>0, <3>1, <3>3 DEF ChainInv, TypeOK, TxType
    <3>5. \A e \in landed' : e.tx.id < serial'
      BY <1>0, <3>1, <3>3 DEF ChainInv, TypeOK, TxType
    <3> QED BY <2>2, <3>1, <3>2, <3>4, <3>5 DEF Inductive, CallInv
  <2>3. CASE RequestFails("rpc") /\ UNCHANGED <<txVars, seen>>
    <3>1. ChainInv' /\ Settled' /\ UNCHANGED <<serial, cur, bound>>
      BY <1>0, <2>1, <2>3, QuietStep DEF txVars
    <3>2. pc' = "caught" /\ err'.phase = "rpc"
      BY <2>3 DEF RequestFails, Throw, Error
    <3> QED BY <1>0, <3>1, <3>2 DEF Inductive, CallInv
  <2> QED BY <1>2, <2>2, <2>3 DEF FetchBlockhash
<1>3. CASE Authorize
  <2>1. UNCHANGED <<chainVars, serial, cur, bound, seen>> /\ Settled /\ bound = cur.lvbh
    BY <1>0, <1>3 DEF Authorize, CallInv, txVars
  <2>2. ChainInv' /\ Settled' /\ UNCHANGED <<pool, landed>>
    BY <1>0, <2>1, QuietStep DEF chainVars
  <2>3. CASE pc' = "broadcast" /\ UNCHANGED err
    BY <1>0, <1>3, <2>1, <2>2, <2>3 DEF Authorize, Inductive, CallInv
  <2>4. CASE pc' = "caught" /\ err'.phase \in {"sign", "sponsor"}
    BY <1>0, <2>1, <2>2, <2>4 DEF Inductive, CallInv
  <2> QED BY <1>3, <2>3, <2>4 DEF Authorize, RequestFails, Throw, Error
<1>4. CASE Broadcast
  <2>1. /\ UNCHANGED <<height, block, landed, serial, cur, bound, seen>>
        /\ Settled /\ bound = cur.lvbh
        /\ \A t \in pool : t.id < serial
        /\ \A e \in landed : e.tx.id < serial
    BY <1>0, <1>4 DEF Broadcast, CallInv, txVars
  <2>2. \A t \in pool : t # cur
    BY <1>0, <2>1 DEF TypeOK, TxType
  <2>3. pool' \in {pool, pool \cup {cur}}
    BY <1>4 DEF Broadcast
  <2>4. ChainInv'
    <3>1. \A t \in pool' : t.id <= serial'
      BY <1>0, <2>1, <2>3 DEF ChainInv
    <3>2. \A e \in landed' : e.tx \notin pool'
      BY <1>0, <2>1, <2>3 DEF ChainInv
    <3> QED BY <1>0, <2>1, <2>3, <3>1, <3>2 DEF ChainInv
  <2>5. Effects' = {} /\ \A t \in pool : ~CanSucceed(t)'
    BY <2>1, <2>2, <2>3 DEF Settled, Effects, CanSucceed
  <2>6. OnlyCur'
    BY <2>1, <2>3, <2>5 DEF OnlyCur
  <2>7. UNCHANGED pool => Settled'
    BY <2>5 DEF Settled
  <2>8. CASE pc' = "poll"
    BY <1>0, <2>1, <2>4, <2>6, <2>8 DEF Inductive, CallInv
  <2>9. CASE UNCHANGED pool /\ pc' = "caught" /\ err'.phase = "preflight"
    BY <1>0, <2>1, <2>4, <2>7, <2>9 DEF Inductive, CallInv
  <2>10. CASE RequestFails("network")
    BY <1>0, <1>f, <2>1, <2>4, <2>6, <2>10 DEF Inductive, CallInv
  <2> QED BY <1>4, <2>8, <2>9, <2>10 DEF Broadcast, Throw, Error
<1>5. CASE Poll
  <2>1. UNCHANGED <<chainVars, txVars>> /\ OnlyCur /\ bound = cur.lvbh
    BY <1>0, <1>5 DEF Poll, CallInv
  <2>2. CASE RpcFailure
    <3>1. ChainInv' /\ OnlyCur'
      BY <1>0, <2>1, <2>2, QuietStep DEF RpcFailure, txVars
    <3> QED BY <1>0, <1>f, <2>1, <2>2, <3>1 DEF RpcFailure, Inductive, CallInv, txVars
  <2>3. ASSUME NEW v \in Views, seen' = v, CheckStatus(v, pc' = "height" /\ UNCHANGED err)
        PROVE  Inductive'
    <3>1. CASE pc' = "height" /\ UNCHANGED err
      <4>1. ChainInv' /\ OnlyCur'
        BY <1>0, <1>v, <2>1, <2>3, QuietStep DEF txVars
      <4> QED BY <1>0, <2>1, <3>1, <4>1 DEF Inductive, CallInv, txVars
    <3>2. CASE ~(pc' = "height" /\ UNCHANGED err)
      BY <2>1, <2>3, <3>2, CheckStatusInductive
    <3> QED BY <3>1, <3>2
  <2> QED BY <1>5, <2>2, <2>3 DEF Poll
<1>6. CASE ReadHeight
  <2>1. /\ UNCHANGED <<chainVars, serial, cur, bound>> /\ OnlyCur /\ bound = cur.lvbh
        /\ seen' \in Nat /\ seen' <= height
    BY <1>0, <1>v, <1>6 DEF ReadHeight, RpcFailure, CallInv, txVars
  <2>2. ChainInv' /\ OnlyCur'
    BY <1>0, <2>1, QuietStep
  <2>3. CASE pc' = "poll"
    BY <1>0, <2>1, <2>2, <2>3 DEF Inductive, CallInv
  <2>4. CASE pc' = "lastChance" /\ seen' > bound
    BY <1>0, <2>1, <2>2, <2>4 DEF Inductive, CallInv
  <2>5. CASE RequestFails("network")
    BY <1>0, <1>f, <2>1, <2>2, <2>5 DEF Inductive, CallInv
  <2>6. CASE Throw("timeout", "other", "none")
    BY <1>0, <2>1, <2>2, <2>6 DEF Inductive, CallInv, Throw, Error, PlainReasons
  <2> QED BY <1>6, <2>3, <2>4, <2>5, <2>6 DEF ReadHeight, RpcFailure
<1>7. CASE LastChance
  <2>1. UNCHANGED <<chainVars, txVars>> /\ OnlyCur /\ bound = cur.lvbh /\ seen > bound
    BY <1>0, <1>7 DEF LastChance, CallInv
  <2>2. CASE RpcFailure
    <3>1. ChainInv' /\ OnlyCur'
      BY <1>0, <2>1, <2>2, QuietStep DEF RpcFailure, txVars
    <3> QED BY <1>0, <1>f, <2>1, <2>2, <3>1 DEF RpcFailure, Inductive, CallInv, txVars
  <2>3. ASSUME NEW v \in Views, seen' = v, CheckStatus(v, Throw("expired", "other", "none"))
        PROVE  Inductive'
    <3>1. CASE Throw("expired", "other", "none")
      <4>1. ConfirmedAt(v) = {}
        BY <2>3, <3>1 DEF CheckStatus, Throw, Error, NoError
      <4>2. v > cur.lvbh
        BY <1>0, <1>v, <2>1 DEF TypeOK, TxType
      <4>3. Settled
        BY <1>0, <2>1, <4>1, <4>2, StatusIsTrue
      <4>4. ChainInv' /\ Settled'
        BY <1>0, <1>v, <2>1, <2>3, <4>3, QuietStep DEF txVars
      <4> QED BY <1>0, <2>1, <3>1, <4>4 DEF Inductive, CallInv, Throw, Error, txVars
    <3>2. CASE ~Throw("expired", "other", "none")
      <4>1. Throw("expired", "other", "none") \in BOOLEAN
        BY DEF Throw
      <4> QED BY <2>1, <2>3, <3>2, <4>1, CheckStatusInductive
    <3> QED BY <3>1, <3>2
  <2> QED BY <1>7, <2>2, <2>3 DEF LastChance
<1>8. CASE RetryAttempt \/ BumpCu \/ Reprepare
  <2>1. /\ UNCHANGED <<chainVars, serial, cur, bound, seen>>
        /\ pc = "caught" /\ pc' \in {"blockhash", "prepare"}
    BY <1>8 DEF RetryAttempt, BumpCu, Reprepare, Escapes, txVars
  <2>2. err.phase \notin UnknownPhases
    BY <1>8, UnknownEscapes DEF RetryAttempt, BumpCu, Reprepare, Escapes
  <2>3. Settled
    BY <1>0, <2>1, <2>2 DEF CallInv
  <2>4. ChainInv' /\ Settled'
    BY <1>0, <2>1, <2>3, QuietStep
  <2> QED BY <1>0, <2>1, <2>4 DEF Inductive, CallInv
<1>9. CASE GiveUp
  <2>1. /\ UNCHANGED <<chainVars, serial, cur, bound, seen, err>>
        /\ pc = "caught" /\ pc' = "done"
    BY <1>9 DEF GiveUp, Escapes, txVars
  <2>2. ChainInv' /\ Settled' = Settled /\ (OnlyCur => OnlyCur')
    BY <1>0, <2>1, QuietStep
  <2> QED BY <1>0, <2>1, <2>2 DEF Inductive, CallInv
<1> QED
  BY <1>1, <1>2, <1>3, <1>4, <1>5, <1>6, <1>7, <1>8, <1>9 DEF CallStep

(* The invariant is inductive.                                             *)
LEMMA StepInductive ==
  ASSUME TypeOK, Inductive, StableCluster, [Next]_vars
  PROVE  Inductive'
<1>1. CASE ChainStep
  BY <1>1, ChainStepInductive
<1>2. CASE CallStep
  BY <1>2, CallStepInductive
<1>3. CASE UNCHANGED vars
  <2>1. UNCHANGED <<chainVars, serial, cur, bound, seen, pc, err>>
    BY <1>3 DEF vars, txVars
  <2>2. serial \in Nat /\ seen <= height /\ ChainInv
    BY DEF TypeOK, Inductive, ChainInv
  <2>3. ChainInv' /\ Settled' = Settled /\ (OnlyCur => OnlyCur') /\ Effects' = Effects
        /\ UNCHANGED <<pool, landed>>
    BY <2>1, <2>2, QuietStep DEF chainVars
  <2> QED BY <2>1, <2>3 DEF Inductive, CallInv
<1> QED
  BY <1>1, <1>2, <1>3 DEF Next

(* On a stable cluster the inductive invariant holds in every reachable    *)
(* state: a retry starts only when no earlier transaction can have effect. *)
THEOREM InductiveHolds == StableCluster => (Spec => []Inductive)
<1> SUFFICES ASSUME StableCluster PROVE Spec => []Inductive
  OBVIOUS
<1>1. Init => Inductive
  BY InitInductive
<1>2. TypeOK /\ Inductive /\ [Next]_vars => Inductive'
  BY StepInductive
<1> QED
  BY <1>1, <1>2, TypeCorrect, PTL DEF Spec

-----------------------------------------------------------------------------
(* What follows from it.                                                   *)

(* However often one call retries, bumps, rebuilds or re-prepares, and     *)
(* whenever its transactions land, at most one of them takes effect.       *)
THEOREM NeverTwice == StableCluster => (Spec => []AtMostOnce)
<1> SUFFICES ASSUME StableCluster PROVE Spec => []AtMostOnce
  OBVIOUS
<1>1. TypeOK /\ Inductive => AtMostOnce
  <2> SUFFICES ASSUME TypeOK, Inductive PROVE AtMostOnce
    OBVIOUS
  <2>1. Settled \/ OnlyCur
    BY DEF TypeOK, Inductive, CallInv, UnknownPhases
  <2> QED BY <2>1 DEF AtMostOnce, Settled, OnlyCur
<1> QED
  BY <1>1, TypeCorrect, InductiveHolds, PTL

(* A call that throws anything but a timeout or a lost connection had no   *)
(* effect, and none of its transactions can have one later.                *)
THEOREM FailureIsFinal == StableCluster => (Spec => []DefiniteFailure)
<1> SUFFICES ASSUME StableCluster PROVE Spec => []DefiniteFailure
  OBVIOUS
<1>1. Inductive => DefiniteFailure
  BY DEF Inductive, CallInv, UnknownPhases, DefiniteFailure, Settled
<1> QED
  BY <1>1, InductiveHolds, PTL

(* The whole tower of retries implements SendContract.                     *)
THEOREM ImplementsContract == StableCluster => (Spec => KeepsContract)
<1> SUFFICES ASSUME StableCluster PROVE Spec => Contract!Spec
  BY DEF KeepsContract
<1>1. Init => Contract!Init
  BY DEF Init, Contract!Init, Effects, ReportOf
<1>2. ASSUME TypeOK, Inductive, TypeOK', Inductive', [Next]_vars
      PROVE  [Contract!Next]_(Contract!vars)
  <2>1. CASE ChainStep
    <3>1. /\ UNCHANGED <<pc, err, cur>>
          /\ Effects \subseteq Effects'
          /\ Settled' \/ OnlyCur'
      BY <1>2, <2>1, ChainStepEffects DEF ChainStep, txVars, Inductive, TypeOK, CallInv,
         UnknownPhases
    <3>2. UNCHANGED ReportOf
      BY <3>1 DEF ReportOf
    <3>3. CASE Effects' = Effects
      BY <3>2, <3>3 DEF Contract!vars
    <3>4. CASE Effects' # Effects
      <4>1. Effects' = {cur} /\ Effects = {}
        BY <3>1, <3>4 DEF Settled, OnlyCur
      <4>2. ReportOf \in {"pending", "unknown"}
        BY <1>2, <3>1, <4>1 DEF ReportOf, Inductive, CallInv, UnknownPhases, Settled
      <4> QED BY <3>2, <4>1, <4>2 DEF Contract!Next, Contract!TakeEffect
    <3> QED BY <3>3, <3>4
  <2>2. CASE CallStep
    <3>1. Effects' = Effects /\ pc # "done"
      BY <2>2 DEF CallStep, Prepare, FetchBlockhash, Authorize, Broadcast, Poll, ReadHeight,
         LastChance, RetryAttempt, BumpCu, Reprepare, GiveUp, Escapes, chainVars, Effects
    <3>2. CASE pc' # "done"
      BY <3>1, <3>2 DEF ReportOf, Contract!vars
    <3>3. CASE pc' = "done"
      <4>1. ReportOf = "pending"
        BY <3>1 DEF ReportOf
      <4>2. \/ ReportOf' = "ok" /\ Effects' # {}
            \/ ReportOf' = "failed" /\ Effects' = {}
            \/ ReportOf' = "unknown"
        BY <1>2, <3>3 DEF ReportOf, Inductive, CallInv, UnknownPhases, Settled
      <4> QED BY <3>1, <4>1, <4>2 DEF Contract!Next, Contract!Report
    <3> QED BY <3>2, <3>3
  <2>3. CASE UNCHANGED vars
    BY <2>3 DEF vars, chainVars, Effects, ReportOf, Contract!vars
  <2> QED BY <1>2, <2>1, <2>2, <2>3 DEF Next
<1> QED
  BY <1>1, <1>2, TypeCorrect, InductiveHolds, PTL DEF Spec, Contract!Spec

-----------------------------------------------------------------------------
(* Where processed blocks can be abandoned a call may take effect twice    *)
(* (the run send_fork_twice), but what a verdict says of the transaction   *)
(* it is about stays true.                                                 *)

(* What a call returns with, it has seen confirmed.                        *)
Returned ==
  /\ pc = "caught" => err.phase # "none"
  /\ pc = "done" /\ err.phase = "none" => cur \in Effects

(* Effects are never undone, and a step of the call adds none.             *)
LEMMA EffectsStay ==
  ASSUME [Next]_vars
  PROVE  Effects \subseteq Effects' /\ (~ ChainStep => Effects' = Effects /\ height' = height)
<1>1. CASE ChainStep
  <2>1. landed \subseteq landed'
    BY <1>1 DEF ChainStep, Include, ConfirmBlock, AbandonBlock
  <2> QED
    BY <1>1, <2>1 DEF Effects
<1>2. CASE ~ ChainStep
  <2>1. landed' = landed /\ height' = height
    BY <1>2 DEF Next, CallStep, Prepare, FetchBlockhash, Authorize, Broadcast, Poll, ReadHeight,
                LastChance, RetryAttempt, BumpCu, Reprepare, GiveUp, vars, chainVars
  <2> QED
    BY <1>2, <2>1 DEF Effects
<1> QED
  BY <1>1, <1>2

LEMMA ReturnedStep == TypeOK /\ Returned /\ [Next]_vars => Returned'
<1> SUFFICES ASSUME TypeOK, Returned, [Next]_vars PROVE Returned'
  OBVIOUS
<1>1. CASE ChainStep \/ UNCHANGED vars
  <2>1. UNCHANGED <<pc, err, cur>>
    BY <1>1 DEF ChainStep, txVars, vars
  <2> QED
    BY <2>1, EffectsStay DEF Returned
<1>2. ASSUME NEW v \in Views, NEW Mid \in BOOLEAN, CheckStatus(v, Mid), ~ Mid, cur' = cur
      PROVE  Returned'
  <2>1. CASE \E r \in ChainReasons : Throw("failed", r, "none")
    BY <2>1 DEF Throw, Error, Returned
  <2>2. CASE pc' = "done" /\ err' = NoError
    <3>1. ConfirmedAt(v) # {} /\ \A e \in ConfirmedAt(v) : e.out # "reverted"
      BY <1>2, <2>2 DEF CheckStatus, Throw
    <3>2. PICK e \in landed : e.tx = cur /\ e.out # "reverted"
      BY <3>1 DEF ConfirmedAt
    <3>3. e.out = "ok"
      BY <3>2 DEF TypeOK, Outcomes
    <3>4. cur \in Effects
      BY <3>2, <3>3 DEF Effects
    <3>5. cur' \in Effects'
      BY <1>2, <3>4, EffectsStay
    <3> QED
      BY <2>2, <3>5 DEF Returned
  <2> QED
    BY <1>2, <2>1, <2>2 DEF CheckStatus
<1>3. CASE Prepare \/ FetchBlockhash \/ Authorize \/ Broadcast \/ ReadHeight
  BY <1>3 DEF Prepare, FetchBlockhash, Authorize, Broadcast, ReadHeight, RpcFailure, RequestFails, Throw,
     Error, Returned
<1>4. CASE Poll
  <2>1. cur' = cur
    BY <1>4 DEF Poll, txVars
  <2>2. CASE RpcFailure
    BY <2>2 DEF RpcFailure, RequestFails, Throw, Error, Returned
  <2>3. ASSUME NEW v \in Views, CheckStatus(v, pc' = "height" /\ UNCHANGED err) PROVE Returned'
    <3>1. CASE pc' = "height" /\ UNCHANGED err
      BY <3>1 DEF Returned
    <3>2. CASE ~ (pc' = "height" /\ UNCHANGED err)
      BY <1>2, <2>1, <2>3, <3>2
    <3> QED
      BY <3>1, <3>2
  <2> QED
    BY <1>4, <2>2, <2>3 DEF Poll
<1>5. CASE LastChance
  <2>1. cur' = cur
    BY <1>5 DEF LastChance, txVars
  <2>2. CASE RpcFailure
    BY <2>2 DEF RpcFailure, RequestFails, Throw, Error, Returned
  <2>3. ASSUME NEW v \in Views, CheckStatus(v, Throw("expired", "other", "none")) PROVE Returned'
    <3>1. CASE Throw("expired", "other", "none")
      BY <3>1 DEF Throw, Error, Returned
    <3>2. CASE ~ Throw("expired", "other", "none")
      <4>1. Throw("expired", "other", "none") \in BOOLEAN
        BY DEF Throw
      <4> QED
        BY <1>2, <2>1, <2>3, <3>2, <4>1
    <3> QED
      BY <3>1, <3>2
  <2> QED
    BY <1>5, <2>2, <2>3 DEF LastChance
<1>6. CASE RetryAttempt \/ BumpCu \/ Reprepare
  BY <1>6 DEF RetryAttempt, BumpCu, Reprepare, Returned
<1>7. CASE GiveUp
  BY <1>7 DEF GiveUp, Escapes, Returned
<1> QED
  BY <1>1, <1>3, <1>4, <1>5, <1>6, <1>7 DEF Next, CallStep

(* A call that returns has its transaction confirmed and in effect, on any *)
(* cluster and whatever the RPC nodes lag.                                 *)
THEOREM SuccessIsReal == Spec => []SuccessIsConfirmed
<1>1. Init => Returned
  BY DEF Init, Returned
<1>2. Returned => SuccessIsConfirmed
  BY DEF Returned, SuccessIsConfirmed
<1> QED
  BY <1>1, <1>2, ReturnedStep, TypeCorrect, PTL DEF Spec

(* Reads do not go back, and a caller of sendSponsoredSignedTransaction    *)
(* passes the lastValidBlockHeight it has.                                 *)
ReadsForward == StickyReads /\ ("fixedBytes" \in Routes => BoundGiven)

(* Nothing is included past its last valid height.                         *)
Timely ==
  /\ \A e \in landed : e.at <= e.tx.lvbh
  /\ \A e \in block : height + 1 <= e.tx.lvbh
  /\ seen <= height

(* The transaction had no effect and can no longer be included.            *)
Dead == cur \notin Effects /\ cur.lvbh <= height

Expiry ==
  /\ pc \in {"authorize", "broadcast", "poll", "height", "lastChance"} => bound = cur.lvbh
  /\ pc = "lastChance" => seen > bound
  /\ pc \in {"caught", "done"} /\ err.phase = "expired" => Dead

LEMMA TimelyStep == TypeOK /\ ReadsForward /\ Timely /\ [Next]_vars => Timely'
<1> SUFFICES ASSUME TypeOK, ReadsForward, Timely, [Next]_vars PROVE Timely'
  OBVIOUS
<1>1. height \in Nat /\ seen \in Nat /\ \A v \in Views : v \in Nat /\ seen <= v /\ v <= height
  BY DEF TypeOK, Views, ReadsForward
<1>2. CASE ChainStep
  <2>1. seen' = seen
    BY <1>2 DEF ChainStep
  <2>2. CASE Include
    BY <1>1, <2>1, <2>2 DEF Include, Landable, Timely
  <2>3. CASE ConfirmBlock
    <3>1. height' = height + 1 /\ block' = {}
          /\ landed' = landed \cup {[tx |-> e.tx, at |-> height + 1, out |-> e.out] : e \in block}
      BY <2>3 DEF ConfirmBlock
    <3> QED
      BY <1>1, <2>1, <3>1 DEF Timely
  <2>4. CASE AbandonBlock
    BY <2>1, <2>4 DEF AbandonBlock, Timely
  <2> QED
    BY <1>2, <2>2, <2>3, <2>4 DEF ChainStep
<1>3. CASE ~ ChainStep
  <2>1. UNCHANGED <<height, block, landed>>
    BY <1>3 DEF Next, CallStep, Prepare, FetchBlockhash, Authorize, Broadcast, Poll, ReadHeight,
                LastChance, RetryAttempt, BumpCu, Reprepare, GiveUp, vars, chainVars
  <2>2. seen' = seen \/ seen' \in Views
    BY <1>3 DEF Next, CallStep, Prepare, FetchBlockhash, Authorize, Broadcast, Poll, ReadHeight, RpcFailure,
                LastChance, RetryAttempt, BumpCu, Reprepare, GiveUp, vars
  <2> QED
    BY <1>1, <2>1, <2>2 DEF Timely
<1> QED
  BY <1>2, <1>3

(* A last status check that finds nothing past the bound is final.         *)
LEMMA ExpiredIsDead ==
  ASSUME TypeOK, Timely, NEW v \in Views, v > cur.lvbh, ConfirmedAt(v) = {}
  PROVE  Dead
<1>1. v \in Nat /\ v <= height /\ cur.lvbh \in Nat /\ height \in Nat
  BY DEF Views, TypeOK, TxType
<1>2. ASSUME NEW e \in landed, e.tx = cur PROVE FALSE
  <2>1. e.at \in Nat /\ e.at <= cur.lvbh
    BY <1>2 DEF TypeOK, Timely
  <2> QED
    BY <1>1, <1>2, <2>1 DEF ConfirmedAt
<1> QED
  BY <1>1, <1>2 DEF Dead, Effects

LEMMA DeadStays ==
  ASSUME TypeOK, Timely, Dead, [Next]_vars, cur' = cur
  PROVE  Dead'
<1>1. CASE ChainStep
  <2>1. height \in Nat /\ cur.lvbh \in Nat /\ \A e \in block : e.tx.lvbh \in Nat
    BY DEF TypeOK, TxType
  <2>2. \A e \in block : e.tx # cur
    BY <2>1 DEF Timely, Dead
  <2>3. CASE Include \/ AbandonBlock
    BY <2>3 DEF Include, AbandonBlock, Dead, Effects
  <2>4. CASE ConfirmBlock
    <3>1. height' = height + 1
          /\ landed' = landed \cup {[tx |-> e.tx, at |-> height + 1, out |-> e.out] : e \in block}
      BY <2>4 DEF ConfirmBlock
    <3>2. cur \notin Effects'
      BY <2>2, <3>1 DEF Dead, Effects
    <3> QED
      BY <2>1, <3>1, <3>2 DEF Dead
  <2> QED
    BY <1>1, <2>3, <2>4 DEF ChainStep
<1>2. CASE ~ ChainStep
  BY <1>2, EffectsStay DEF Dead
<1> QED
  BY <1>1, <1>2

LEMMA ExpiryStep == TypeOK /\ ReadsForward /\ Timely /\ Expiry /\ [Next]_vars => Expiry'
<1> SUFFICES ASSUME TypeOK, ReadsForward, Timely, Expiry, [Next]_vars PROVE Expiry'
  OBVIOUS
<1>0. height \in Nat /\ seen \in Nat /\ bound \in Nat /\ cur \in TxType
      /\ \A v \in Views : v \in Nat /\ seen <= v
  BY DEF TypeOK, Views, ReadsForward
<1>1. CASE ChainStep \/ UNCHANGED vars
  <2>1. UNCHANGED <<pc, err, cur, bound, seen>>
    BY <1>1 DEF ChainStep, txVars, vars
  <2> QED
    BY <2>1, DeadStays DEF Expiry
<1>2. CASE Prepare
  BY <1>2 DEF Prepare, txVars, Error, Expiry
<1>3. CASE FetchBlockhash
  <2>1. CASE pc' = "authorize"
    <3>1. route = "fixedBytes" => BoundGiven
      BY <1>3 DEF FetchBlockhash, TypeOK, ReadsForward
    <3>2. bound' = cur'.lvbh
      BY <1>3, <2>1, <3>1 DEF FetchBlockhash, RequestFails, Throw
    <3> QED
      BY <2>1, <3>2 DEF Expiry
  <2>2. CASE pc' = "caught" /\ err'.phase = "rpc"
    BY <2>2 DEF Expiry
  <2> QED
    BY <1>3, <2>1, <2>2 DEF FetchBlockhash, RequestFails, Throw, Error
<1>4. CASE Authorize \/ Broadcast
  <2>1. UNCHANGED <<cur, bound>> /\ bound = cur.lvbh
    BY <1>4 DEF Authorize, Broadcast, txVars, Expiry
  <2>2. pc' \in {"broadcast", "poll"} \/ (pc' = "caught" /\ err'.phase # "expired")
    BY <1>4 DEF Authorize, Broadcast, RequestFails, Throw, Error
  <2> QED
    BY <2>1, <2>2 DEF Expiry
<1>5. CASE Poll
  <2>1. UNCHANGED <<cur, bound>> /\ bound = cur.lvbh
    BY <1>5 DEF Poll, txVars, Expiry
  <2>2. pc' = "height" \/ (pc' \in {"caught", "done"} /\ err'.phase # "expired")
    BY <1>5 DEF Poll, CheckStatus, RpcFailure, RequestFails, Throw, Error, NoError
  <2> QED
    BY <2>1, <2>2 DEF Expiry
<1>6. CASE ReadHeight
  <2>1. UNCHANGED <<cur, bound>> /\ bound = cur.lvbh
    BY <1>6 DEF ReadHeight, txVars, Expiry
  <2>2. \/ pc' = "poll" \/ (pc' = "lastChance" /\ seen' > bound)
        \/ pc' = "caught" /\ err'.phase # "expired"
    BY <1>6 DEF ReadHeight, RpcFailure, RequestFails, Throw, Error
  <2> QED
    BY <2>1, <2>2 DEF Expiry
<1>7. CASE LastChance
  <2>1. UNCHANGED <<cur, bound>> /\ bound = cur.lvbh /\ seen > bound
    BY <1>7 DEF LastChance, txVars, Expiry
  <2>2. \/ pc' \in {"caught", "done"} /\ err'.phase # "expired"
        \/ \E v \in Views : ConfirmedAt(v) = {} /\ pc' = "caught"
    BY <1>7 DEF LastChance, CheckStatus, RpcFailure, RequestFails, Throw, Error, NoError
  <2>3. CASE pc' \in {"caught", "done"} /\ err'.phase # "expired"
    BY <2>1, <2>3 DEF Expiry
  <2>4. ASSUME NEW v \in Views, ConfirmedAt(v) = {}, pc' = "caught" PROVE Expiry'
    <3>1. v > cur.lvbh
      BY <1>0, <2>1 DEF TxType
    <3>2. Dead'
      BY <2>1, <2>4, <3>1, ExpiredIsDead, DeadStays
    <3> QED
      BY <2>1, <2>4, <3>2 DEF Expiry
  <2> QED
    BY <2>2, <2>3, <2>4
<1>8. CASE RetryAttempt \/ BumpCu \/ Reprepare
  BY <1>8 DEF RetryAttempt, BumpCu, Reprepare, Expiry
<1>9. CASE GiveUp
  <2>1. pc = "caught" /\ pc' = "done" /\ UNCHANGED <<err, cur, bound>>
    BY <1>9 DEF GiveUp, Escapes, txVars
  <2> QED
    BY <2>1, DeadStays DEF Expiry
<1> QED
  BY <1>1, <1>2, <1>3, <1>4, <1>5, <1>6, <1>7, <1>8, <1>9 DEF Next, CallStep

(* An "expired" verdict is final even where blocks are abandoned: the      *)
(* transaction had no effect when it was given, and has none ever after.   *)
THEOREM ExpiryIsFinal == ReadsForward => (Spec => []ExpiredIsFinal)
<1> SUFFICES ASSUME ReadsForward PROVE Spec => []ExpiredIsFinal
  OBVIOUS
<1>1. Init => Timely /\ Expiry
  BY Limits DEF Init, Timely, Expiry
<1>2. TypeOK /\ (Timely /\ Expiry) /\ [Next]_vars => (Timely /\ Expiry)'
  BY TimelyStep, ExpiryStep
<1>3. Timely /\ Expiry => ExpiredIsFinal
  BY DEF Expiry, Dead, ExpiredIsFinal
<1> QED
  BY <1>1, <1>2, <1>3, TypeCorrect, PTL DEF Spec
=============================================================================
