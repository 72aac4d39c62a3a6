--------------------------- MODULE HookedJobProofs --------------------------
(***************************************************************************)
(* What HookedJob guarantees for every set of hooks, budgets, transfers    *)
(* and sponsor wallets: types, the approvals, the way home of the rent the *)
(* sponsors pay, what the router cuts out of the appended accounts for     *)
(* each hook, and that a call which is up to date is accepted.             *)
(***************************************************************************)
EXTENDS HookedJob, SelectionProofs

-----------------------------------------------------------------------------
(* core/solana/sharding.ts, for every set of wallets and every count: a    *)
(* recorded index always names a live wallet, keeps naming the same one    *)
(* while the set grows, and agrees with the wallet derived from the job's  *)
(* address as long as the count is the one the job was created under.      *)

\* What the functions read of AcpState, over any set of wallets.
States(wallets) ==
  [sponsor : wallets, sponsorShards : Seq(wallets), sponsorShardCount : Nat]

\* The scalar wallet and the others as far as the count admits them; a count
\* of 0, as an account from before sharding has it, admits the scalar.
LEMMA SponsorsShape ==
  ASSUME NEW W, NEW state \in States(W)
  PROVE  /\ AllSponsors(state) \in Seq(W)
         /\ Len(AllSponsors(state))
              = Least(Most(state.sponsorShardCount, 1), Len(state.sponsorShards) + 1)
         /\ Len(AllSponsors(state)) \in Nat \ {0}
         /\ AllSponsors(state)[1] = state.sponsor
         /\ \A i \in 2 .. Len(AllSponsors(state)) :
              AllSponsors(state)[i] = state.sponsorShards[i - 1]
<1> DEFINE n == Least(Most(state.sponsorShardCount, 1), Len(state.sponsorShards) + 1) - 1
           rest == SubSeq(state.sponsorShards, 1, n)
<1>1. /\ state.sponsor \in W
      /\ state.sponsorShards \in Seq(W)
      /\ state.sponsorShardCount \in Nat
  BY DEF States
<1>2. n \in 0 .. Len(state.sponsorShards)
  BY <1>1 DEF Least, Most
<1> HIDE DEF n
<1>3. /\ rest \in Seq(W) /\ Len(rest) = n
      /\ \A i \in 1 .. n : rest[i] = state.sponsorShards[i]
  BY <1>1, <1>2
<1>4. AllSponsors(state) = <<state.sponsor>> \o rest
  BY DEF AllSponsors, LiveShards, n
<1> HIDE DEF rest
<1>5. /\ <<state.sponsor>> \o rest \in Seq(W)
      /\ Len(<<state.sponsor>> \o rest) = n + 1
      /\ (<<state.sponsor>> \o rest)[1] = state.sponsor
      /\ \A i \in 2 .. n + 1 : (<<state.sponsor>> \o rest)[i] = rest[i - 1]
  BY <1>1, <1>2, <1>3
<1>6. n + 1 = Least(Most(state.sponsorShardCount, 1), Len(state.sponsorShards) + 1)
  BY <1>1 DEF n, Least, Most
<1> QED
  BY <1>1, <1>2, <1>3, <1>4, <1>5, <1>6

\* The derived index is one of the live ones, whatever the address.
LEMMA IndexInRange ==
  ASSUME NEW key \in Nat, NEW count \in Nat \ {0}
  PROVE  ShardIndex(key, count) \in 0 .. count - 1
BY DEF ShardIndex

\* The close paths name a live wallet, whatever index the job has recorded:
\* the rent of an ended job is never sent to a wallet that was retired.
THEOREM RecordedIsLive ==
  ASSUME NEW W, NEW state \in States(W), NEW index \in Nat
  PROVE  \E i \in 1 .. Len(AllSponsors(state)) :
           SponsorForRecorded(state, index) = AllSponsors(state)[i]
<1> DEFINE live == AllSponsors(state)
<1>1. Len(live) \in Nat \ {0} /\ live[1] = state.sponsor
  BY SponsorsShape
<1>2. CASE index < Len(live)
  BY <1>1, <1>2 DEF SponsorForRecorded
<1>3. CASE ~(index < Len(live))
  BY <1>1, <1>3 DEF SponsorForRecorded
<1> QED
  BY <1>2, <1>3

\* The admitted number of wallets: at most the scalar and all the others, and
\* no smaller when the count and the set have grown.
LEMMA AdmittedGrows ==
  ASSUME NEW p \in Nat, NEW q \in Nat, NEW m \in Nat, NEW n \in Nat,
         p <= q, m <= n
  PROVE  /\ Least(Most(p, 1), m + 1) \in Nat
         /\ Least(Most(p, 1), m + 1) <= m + 1
         /\ Least(Most(p, 1), m + 1) <= Least(Most(q, 1), n + 1)
BY DEF Least, Most

\* A recorded index keeps naming the wallet it named when the job was created
\* while wallets are appended and the count grows (sponsorForRecorded: "agrees
\* ... while the count is unchanged" holds of the derived wallet only).
THEOREM RecordedIsStable ==
  ASSUME NEW W, NEW old \in States(W), NEW new \in States(W), NEW index \in Nat,
         new.sponsor = old.sponsor,
         Len(old.sponsorShards) <= Len(new.sponsorShards),
         \A i \in 1 .. Len(old.sponsorShards) : new.sponsorShards[i] = old.sponsorShards[i],
         old.sponsorShardCount <= new.sponsorShardCount,
         index < Len(AllSponsors(old))
  PROVE  SponsorForRecorded(new, index) = SponsorForRecorded(old, index)
<1> DEFINE a == AllSponsors(old)
           b == AllSponsors(new)
<1>1. /\ Len(a) = Least(Most(old.sponsorShardCount, 1), Len(old.sponsorShards) + 1)
      /\ a[1] = old.sponsor
      /\ \A i \in 2 .. Len(a) : a[i] = old.sponsorShards[i - 1]
  BY SponsorsShape
<1>2. /\ Len(b) = Least(Most(new.sponsorShardCount, 1), Len(new.sponsorShards) + 1)
      /\ b[1] = new.sponsor
      /\ \A i \in 2 .. Len(b) : b[i] = new.sponsorShards[i - 1]
  BY SponsorsShape
<1>3. /\ old.sponsorShardCount \in Nat /\ new.sponsorShardCount \in Nat
      /\ Len(old.sponsorShards) \in Nat /\ Len(new.sponsorShards) \in Nat
  BY DEF States
<1> HIDE DEF a, b
<1>4. Len(a) <= Len(b) /\ Len(a) <= Len(old.sponsorShards) + 1 /\ Len(a) \in Nat /\ Len(b) \in Nat
  <2> DEFINE p == old.sponsorShardCount
             q == new.sponsorShardCount
             m == Len(old.sponsorShards)
             n == Len(new.sponsorShards)
             la == Len(a)
             lb == Len(b)
  <2>1. p \in Nat /\ q \in Nat /\ m \in Nat /\ n \in Nat /\ p <= q /\ m <= n
    BY <1>3
  <2>2. la = Least(Most(p, 1), m + 1) /\ lb = Least(Most(q, 1), n + 1)
    BY <1>1, <1>2
  <2> HIDE DEF p, q, m, n, la, lb
  <2>3. la \in Nat /\ la <= m + 1 /\ la <= lb
    BY <2>1, <2>2, AdmittedGrows
  <2>4. lb \in Nat
    BY <2>1, <2>2, AdmittedGrows
  <2> QED
    BY <2>3, <2>4 DEF la, lb, m
<1>5. index < Len(b) /\ index < Len(a)
  BY <1>4 DEF a
<1>6. b[index + 1] = a[index + 1]
  <2>1. CASE index = 0
    BY <2>1, <1>1, <1>2
  <2>2. CASE index # 0
    <3>1. index + 1 \in 2 .. Len(a) /\ index + 1 \in 2 .. Len(b)
      BY <2>2, <1>4, <1>5
    <3>2. index \in 1 .. Len(old.sponsorShards)
      BY <3>1, <1>3, <1>4
    <3>3. a[index + 1] = old.sponsorShards[index] /\ b[index + 1] = new.sponsorShards[index]
      BY <3>1, <1>1, <1>2
    <3> QED
      BY <3>2, <3>3
  <2> QED
    BY <2>1, <2>2
<1> QED
  BY <1>5, <1>6 DEF SponsorForRecorded, a, b

\* Under the count a job was created with, the wallet derived from its address
\* is the recorded one: createJob's rent and the close paths agree.
THEOREM DerivedIsRecorded ==
  ASSUME NEW W, NEW state \in States(W), NEW key \in Nat
  PROVE  SponsorFor(state, key)
           = SponsorForRecorded(state, ShardIndex(key, Len(AllSponsors(state))))
<1> DEFINE n == Len(AllSponsors(state))
<1>1. n \in Nat \ {0}
  BY SponsorsShape
<1>2. ShardIndex(key, n) < n
  BY <1>1, IndexInRange
<1> QED
  BY <1>2 DEF SponsorFor, SponsorForRecorded

\* Where a call pins no payer because nothing is sharded, there is one wallet
\* to pay, and it is the one the close paths name.
THEOREM UnpinnedIsAlone ==
  ASSUME NEW W, NEW state \in States(W), NEW index \in Nat,
         ~(state.sponsorShardCount > 1)
  PROVE  /\ Len(AllSponsors(state)) = 1
         /\ AllSponsors(state)[1] = SponsorForRecorded(state, index)
<1> DEFINE live == AllSponsors(state)
<1>1. /\ Len(live) = Least(Most(state.sponsorShardCount, 1), Len(state.sponsorShards) + 1)
      /\ live[1] = state.sponsor
  BY SponsorsShape
<1>2. state.sponsorShardCount \in Nat /\ Len(state.sponsorShards) \in Nat
  BY DEF States
<1>3. Len(live) = 1
  BY <1>1, <1>2 DEF Least, Most
<1>4. index < Len(live) => live[index + 1] = live[1]
  BY <1>3
<1>5. SponsorForRecorded(state, index) = state.sponsor
  BY <1>1, <1>4 DEF SponsorForRecorded
<1> QED
  BY <1>1, <1>3, <1>5
-----------------------------------------------------------------------------
(* The sponsors.                                                           *)

Names == STRING \cup {"sponsor0"}

Acp(n) == [sponsor |-> "sponsor0", sponsorShards |-> MoreSponsors, sponsorShardCount |-> n]

Counts == 1 .. (Len(MoreSponsors) + 1)

\* The wallet a job's rent is returned to.
Home == SponsorForRecorded(AcpState, job.shard)

LEMMA AcpShape ==
  ASSUME NEW n \in Counts
  PROVE  /\ Acp(n) \in States(Names)
         /\ Len(AllSponsors(Acp(n))) = n
         /\ \A i \in 1 .. n : AllSponsors(Acp(n))[i] # NoPin
<1>1. MoreSponsors \in Seq(STRING) /\ \A i \in DOMAIN MoreSponsors : MoreSponsors[i] # NoPin
  BY ConstantsAssumption
<1>2. Acp(n) \in States(Names)
  <2>1. n \in Nat
    BY DEF Counts
  <2>2. "sponsor0" \in Names
    BY DEF Names
  <2>3. MoreSponsors \in Seq(Names)
    BY <1>1 DEF Names
  <2> QED
    BY <2>1, <2>2, <2>3, Zenon DEF Acp, States
<1>3. Acp(n).sponsor = "sponsor0" /\ Acp(n).sponsorShards = MoreSponsors /\ Acp(n).sponsorShardCount = n
  BY DEF Acp
<1>4. /\ Len(AllSponsors(Acp(n))) = Least(Most(n, 1), Len(MoreSponsors) + 1)
      /\ AllSponsors(Acp(n))[1] = "sponsor0"
      /\ \A i \in 2 .. Len(AllSponsors(Acp(n))) : AllSponsors(Acp(n))[i] = MoreSponsors[i - 1]
  BY <1>2, <1>3, SponsorsShape
<1>5. Len(MoreSponsors) \in Nat
  BY <1>1
<1>6. Len(AllSponsors(Acp(n))) = n
  BY <1>4, <1>5 DEF Counts, Least, Most
<1>7. ASSUME NEW i \in 1 .. n
      PROVE  AllSponsors(Acp(n))[i] # NoPin
  <2>1. CASE i = 1
    BY <1>4, <2>1 DEF NoPin
  <2>2. CASE i # 1
    <3>1. i \in 2 .. n /\ i - 1 \in 1 .. Len(MoreSponsors)
      BY <1>5, <2>2 DEF Counts
    <3> QED
      BY <1>1, <1>4, <1>6, <3>1
  <2> QED
    BY <2>1, <2>2
<1> QED
  BY <1>2, <1>6, <1>7

\* Another wallet does not change where a recorded index points.
LEMMA HomeIsStable ==
  ASSUME NEW n \in Counts, n + 1 \in Counts, NEW shard \in Nat, shard < n
  PROVE  SponsorForRecorded(Acp(n + 1), shard) = SponsorForRecorded(Acp(n), shard)
<1>1. /\ Acp(n) \in States(Names) /\ Acp(n + 1) \in States(Names)
      /\ Len(AllSponsors(Acp(n))) = n
  BY AcpShape
<1>2. /\ Acp(n + 1).sponsor = Acp(n).sponsor
      /\ Acp(n + 1).sponsorShards = Acp(n).sponsorShards
      /\ Acp(n).sponsorShardCount = n /\ Acp(n + 1).sponsorShardCount = n + 1
  BY DEF Acp
<1>3. /\ n \in Nat /\ n <= n + 1
      /\ Len(Acp(n).sponsorShards) <= Len(Acp(n + 1).sponsorShards)
  BY <1>1, <1>2 DEF Counts, States
<1>4. \A i \in 1 .. Len(Acp(n).sponsorShards) :
        Acp(n + 1).sponsorShards[i] = Acp(n).sponsorShards[i]
  BY <1>2
<1> HIDE DEF Acp
<1> QED
  BY <1>1, <1>2, <1>3, <1>4, RecordedIsStable

\* A call that pins the wallet of the recorded index, or finds nothing to
\* choose from, is paid for by that wallet.
LEMMA PinnedPays ==
  ASSUME sponsors \in Counts, NEW shard \in Nat,
         NEW w \in FeePayers(PinIfSharded(AcpState, SponsorForRecorded(AcpState, shard)))
  PROVE  w = SponsorForRecorded(AcpState, shard)
<1> DEFINE home == SponsorForRecorded(AcpState, shard)
<1>1. AcpState = Acp(sponsors) /\ AcpState.sponsorShardCount = sponsors
  BY DEF AcpState, Acp
<1>2. /\ AcpState \in States(Names)
      /\ Len(AllSponsors(AcpState)) = sponsors
      /\ \A i \in 1 .. sponsors : AllSponsors(AcpState)[i] # NoPin
  BY <1>1, AcpShape
<1>3. home # NoPin
  BY <1>2, RecordedIsLive
<1>4. CASE sponsors > 1
  BY <1>1, <1>3, <1>4 DEF PinIfSharded, FeePayers
<1>5. CASE ~(sponsors > 1)
  <2>1. Len(AllSponsors(AcpState)) = 1 /\ AllSponsors(AcpState)[1] = home
    BY <1>1, <1>2, <1>5, UnpinnedIsAlone
  <2>2. AllSponsors(AcpState) \in Seq(Names)
    BY <1>2, SponsorsShape
  <2>3. ToSet(AllSponsors(AcpState)) = {home}
    BY <2>1, <2>2 DEF ToSet
  <2>4. PinIfSharded(AcpState, home) = NoPin
    BY <1>1, <1>5 DEF PinIfSharded
  <2> QED
    BY <2>3, <2>4 DEF FeePayers
<1> QED
  BY <1>4, <1>5
-----------------------------------------------------------------------------
(* Types.                                                                  *)

Args == [amount : Nat, proposal : Proposals, terms : BOOLEAN, stake : Stakes]
Methods == UNION {MethodsOf(a) : a \in Actors}
Facts == [state : JobStates, budget : Nat, shard : 0 .. Len(MoreSponsors)]

LEMMA MethodsAre ==
  /\ Methods = {"configure", "fund", "setBudget", "submit", "complete", "reject"}
  /\ \A a \in Actors : MethodsOf(a) \subseteq Methods
<1>1. Methods = MethodsOf("client") \cup MethodsOf("provider") \cup MethodsOf("evaluator")
  BY DEF Methods, Actors
<1> QED
  BY <1>1 DEF MethodsOf, Actors

\* What a hook takes of a typed call, and what it may stake.
LEMMA StakeTyped ==
  ASSUME NEW l \in LegType
  PROVE  /\ StakeOf(l).amount \in Nat
         /\ StakeOf(l) # NoToken => Live(StakeOf(l)) \in Intents
<1>1. l.args.stake \in {DefaultStake, NoToken} \cup Transfers /\ l.job.budget \in Nat
  BY DEF LegType, Stakes
<1>2. Transfers \subseteq [token : {Mint, "other"}, amount : Nat]
  BY ConstantsAssumption
<1>3. CASE l.args.stake # DefaultStake /\ l.args.stake = NoToken
  BY <1>3 DEF StakeOf, NoToken
<1>4. CASE l.args.stake # DefaultStake /\ l.args.stake # NoToken
  BY <1>1, <1>2, <1>4 DEF StakeOf, Live, Intents
<1>5. CASE l.args.stake = DefaultStake
  BY <1>1, <1>5 DEF StakeOf, Live, Intents, NoToken, Mint
<1> QED
  BY <1>3, <1>4, <1>5

\* One approval suffices for what a hook takes in a transaction whose job has
\* the budget the call was built for: the core's, where it covers the amount,
\* and otherwise the caller's own, which the core then does not overwrite.
LEMMA OneApproval ==
  ASSUME NEW l \in LegType, l.job.budget = job.budget, l.method \in {"fund", "submit"},
         l.method = "fund" => l.request \in Intents
  PROVE  Authorised(l)
<1>1. l.job.budget \in Nat
  BY DEF LegType
<1>2. CASE l.method = "fund"
  <2>1. CASE ~(UsesFund /\ l.request.live)
    <3>1. Pull(l).amount = 0
      BY <1>2, <2>1 DEF Pull, NoToken
    <3> QED
      BY <3>1 DEF Authorised
  <2>2. CASE UsesFund /\ l.request.live
    <3>1. /\ Pull(l) = [token |-> l.request.token, amount |-> l.request.amount]
          /\ l.request.amount \in Nat
      BY <1>2, <2>2 DEF Pull, Intents
    <3>2. CASE CoreCovers(l)
      <4>1. l.job.budget > 0 /\ l.request.token = Mint /\ l.request.amount <= l.job.budget
        BY <1>2, <3>2 DEF CoreCovers
      <4>2. Bracket(l) = NoToken
        BY <3>2 DEF Bracket
      <4>3. CoreApproves(l, job.budget)
        BY <1>2, <2>2, <4>1, <4>2 DEF CoreApproves, PassesDelegate, NoToken, Mint
      <4> QED
        BY <3>1, <4>1, <4>3 DEF Authorised, Allowance
    <3>3. CASE ~CoreCovers(l) /\ Pull(l).amount > 0
      <4>1. Bracket(l) = Pull(l)
        BY <3>3 DEF Bracket
      <4>2. Pull(l).token = Mint => ~CoreApproves(l, job.budget)
        BY <1>2, <4>1 DEF CoreApproves, PassesDelegate
      <4> QED
        BY <3>1, <4>1, <4>2 DEF Authorised, Allowance
    <3>4. CASE ~(Pull(l).amount > 0)
      BY <3>1, <3>4 DEF Authorised
    <3> QED
      BY <3>2, <3>3, <3>4
  <2> QED
    BY <2>1, <2>2
<1>3. CASE l.method = "submit"
  <2>1. CASE ~(Routed \/ (kind.hook = "fund" /\ l.job.budget > 0))
    <3>1. Pull(l).amount = 0
      BY <1>3, <2>1 DEF Pull, NoToken
    <3> QED
      BY <3>1 DEF Authorised
  <2>2. CASE Routed \/ (kind.hook = "fund" /\ l.job.budget > 0)
    <3>1. Pull(l) = StakeOf(l) /\ StakeOf(l).amount \in Nat
      BY <1>3, <2>2, StakeTyped DEF Pull
    <3>2. CASE CoreCovers(l) /\ Pull(l).amount > 0
      <4>1. kind.evaluated /\ StakeOf(l).token = Mint /\ ~OverBudget(l)
        BY <1>3, <3>2 DEF CoreCovers
      <4>2. StakeOf(l).amount <= l.job.budget /\ job.budget > 0
        BY <1>1, <3>1, <3>2, <4>1 DEF OverBudget
      <4>3. Pull(l) # NoToken
        BY <3>2 DEF NoToken
      <4>4. PassesDelegate(l)
        BY <1>3, <2>2, <4>1, <4>3 DEF PassesDelegate, Routed
      <4>5. CoreApproves(l, job.budget)
        BY <4>1, <4>2, <4>4 DEF CoreApproves
      <4> QED
        BY <3>1, <4>1, <4>2, <4>5 DEF Authorised, Allowance
    <3>3. CASE ~CoreCovers(l) /\ Pull(l).amount > 0
      <4>1. Bracket(l) = Pull(l)
        BY <3>3 DEF Bracket
      <4>2. Pull(l).token = Mint => ~CoreApproves(l, job.budget)
        <5>1. CASE ~kind.evaluated
          BY <1>3, <5>1 DEF CoreApproves
        <5>2. CASE kind.evaluated /\ StakeOf(l).token = Mint
          <6>1. OverBudget(l)
            BY <1>3, <3>3, <5>2 DEF CoreCovers
          <6>2. ~PassesDelegate(l)
            BY <1>3, <2>2, <5>2, <6>1 DEF PassesDelegate, Routed
          <6> QED
            BY <6>2 DEF CoreApproves
        <5> QED
          BY <3>1, <5>1, <5>2
      <4> QED
        BY <3>1, <4>1, <4>2 DEF Authorised, Allowance
    <3>4. CASE ~(Pull(l).amount > 0)
      BY <3>1, <3>4 DEF Authorised
    <3> QED
      BY <3>2, <3>3, <3>4
  <2> QED
    BY <2>1, <2>2
<1> QED
  BY <1>2, <1>3

LEMMA AuthorisedWhenTyped == TypeOK => PullsAuthorised
<1> SUFFICES ASSUME TypeOK, NEW a \in Actors,
                    Fresh(leg[a]), leg[a].method \in {"fund", "submit"}
             PROVE  Authorised(leg[a])
  BY DEF PullsAuthorised
<1>1. leg[a] \in LegType
  <2>1. leg[a] \in {NoLeg} \cup LegType
    BY DEF TypeOK
  <2>2. leg[a].pc = "built"
    BY DEF Fresh
  <2> QED
    BY <2>1, <2>2 DEF NoLeg
<1>2. leg[a].job.budget = job.budget
  BY DEF Fresh, JobFacts
<1>3. leg[a].request \in Intents
  BY <1>1 DEF LegType
<1> QED
  BY <1>1, <1>2, <1>3, OneApproval

LEMMA ArgsTyped ==
  ASSUME TypeOK, NEW method \in Methods, NEW args \in ArgsOf(method)
  PROVE  args \in Args
<1>1. job.budget \in Nat /\ Budgets \subseteq Nat
  BY ConstantsAssumption DEF TypeOK, JobType
<1>2. args.amount \in Nat
  <2>1. args.amount \in IF method = "setBudget" THEN Budgets
                        ELSE IF method = "fund" THEN {job.budget} ELSE {0}
    BY DEF ArgsOf
  <2>2. CASE method = "setBudget"
    BY <1>1, <2>1, <2>2
  <2>3. CASE method = "fund"
    BY <1>1, <2>1, <2>3
  <2>4. CASE method \notin {"setBudget", "fund"}
    BY <2>1, <2>4
  <2> QED
    BY <2>2, <2>3, <2>4
<1>2a. args.terms \in BOOLEAN
  <2>1. args.terms \in IF method = "setBudget" /\ UsesSub THEN BOOLEAN ELSE {FALSE}
    BY DEF ArgsOf
  <2> QED
    BY <2>1
<1>3. args.proposal \in Proposals /\ args.stake \in Stakes
  BY DEF ArgsOf, Proposals, Stakes
<1>4. args = [amount |-> args.amount, proposal |-> args.proposal, terms |-> args.terms,
              stake |-> args.stake]
  BY DEF ArgsOf
<1> QED
  BY <1>2, <1>2a, <1>3, <1>4 DEF Args

LEMMA EffectTyped ==
  ASSUME TypeOK, NEW l \in LegType, job.state # "absent"
  PROVE  /\ Effect(l) \in JobType
         /\ Effect(l).shard = job.shard
         /\ Effect(l).state # "absent"
<1> DEFINE moved == [job EXCEPT !.state = NextState(l.method, kind.evaluated)]
<1>1. job \in JobType
  BY DEF TypeOK
<1>2. /\ l.args.amount \in Nat /\ l.args.proposal \in Proposals /\ l.args.terms \in BOOLEAN
      /\ l.method \in {"configure", "fund", "setBudget", "submit", "complete", "reject"}
  BY MethodsAre DEF LegType, Methods
<1>3. Idle \in Intents
  BY DEF Idle, Intents, Mint
<1>4. CASE l.method = "configure"
  BY <1>1, <1>4 DEF Effect, JobType
<1>5. ASSUME l.method # "configure"
      PROVE  moved \in JobType /\ moved.shard = job.shard /\ moved.state # "absent"
  <2>1. NextState(l.method, kind.evaluated) \in JobStates
    BY <1>2, <1>5 DEF NextState, JobStates
  <2>2. NextState(l.method, kind.evaluated) # "absent"
    BY <2>1 DEF JobStates
  <2> QED
    BY <1>1, <2>1, <2>2 DEF JobType
<1>6. ASSUME NEW j \in JobType, j.shard = job.shard, j.state # "absent", NEW c \in BOOLEAN
      PROVE  Settled(j, c) \in JobType /\ Settled(j, c).shard = job.shard /\ Settled(j, c).state # "absent"
  BY <1>3, <1>6 DEF Settled, JobType
<1> HIDE DEF moved
<1>7. CASE l.method = "setBudget"
  <2>1. l.args.proposal \notin {NoToken, Cancel} => Live(l.args.proposal) \in Intents
    <3>1. Transfers \subseteq [token : {Mint, "other"}, amount : Nat]
      BY ConstantsAssumption
    <3> QED
      BY <1>2, <3>1 DEF Proposals, Live, Intents
  <2> DEFINE request == IF ~UsesFund \/ l.args.proposal = NoToken THEN moved.request
                        ELSE IF l.args.proposal = Cancel THEN Idle ELSE Live(l.args.proposal)
             terms == IF UsesSub /\ l.args.terms /\ job.expiry # "active" THEN "set"
                      ELSE moved.terms
  <2>2. moved \in JobType /\ moved.shard = job.shard /\ moved.state # "absent"
    BY <1>5, <1>7
  <2>3. request \in Intents /\ terms \in {"absent", "blank", "set"}
    BY <1>3, <2>1, <2>2 DEF JobType
  <2>4. Effect(l) = [moved EXCEPT !.budget = l.args.amount, !.request = request, !.terms = terms]
    BY <1>7, <2>2 DEF Effect, moved, JobType
  <2> HIDE DEF request, terms
  <2> QED
    BY <1>2, <2>2, <2>3, <2>4 DEF JobType
<1>8. CASE l.method = "fund"
  <2>1. Effect(l) = [moved EXCEPT !.request = Idle]
    BY <1>8 DEF Effect, moved
  <2> QED
    BY <1>3, <1>5, <1>8, <2>1 DEF JobType
<1>9. CASE l.method = "submit"
  <2> DEFINE escrow == IF Pull(l) = NoToken THEN moved.escrow ELSE Live(Pull(l))
             staked == [moved EXCEPT !.escrow = escrow]
  <2>1. moved \in JobType /\ moved.shard = job.shard /\ moved.state # "absent"
    BY <1>5, <1>9
  <2>2. Pull(l) # NoToken => Live(Pull(l)) \in Intents
    BY <1>9, StakeTyped DEF Pull
  <2>3. escrow \in Intents
    BY <2>1, <2>2 DEF JobType
  <2>4. Effect(l) = IF kind.evaluated THEN staked ELSE Settled(staked, TRUE)
    BY <1>9, <2>1 DEF Effect, moved, JobType
  <2> HIDE DEF escrow
  <2>5. staked \in JobType /\ staked.shard = job.shard /\ staked.state # "absent"
    BY <2>1, <2>3 DEF JobType
  <2> HIDE DEF staked
  <2> QED
    BY <1>6, <2>4, <2>5
<1>10. CASE l.method \in {"complete", "reject"}
  <2>1. Effect(l) = Settled(moved, l.method = "complete")
    BY <1>10 DEF Effect, moved
  <2>2. (l.method = "complete") \in BOOLEAN
    OBVIOUS
  <2> QED
    BY <1>5, <1>6, <1>10, <2>1, <2>2
<1> QED
  BY <1>2, <1>4, <1>7, <1>8, <1>9, <1>10

\* A party's call moves on, or ends; the other parties' calls stay.
LEMMA LegMoves ==
  ASSUME leg \in [Actors -> {NoLeg} \cup LegType], NEW a \in Actors,
         NEW next \in {NoLeg} \cup LegType, leg' = [leg EXCEPT ![a] = next]
  PROVE  leg' \in [Actors -> {NoLeg} \cup LegType]
OBVIOUS

LEMMA LegTyped ==
  ASSUME TypeOK, NEW a \in Actors, leg[a].pc # "idle"
  PROVE  leg[a] \in LegType
<1>1. leg[a] \in {NoLeg} \cup LegType
  BY DEF TypeOK
<1> QED
  BY <1>1 DEF NoLeg

(* A call is of a method of its party, and a budget that is being set is   *)
(* one of those that may still be: the bound holds because only one party  *)
(* sets budgets, one at a time.                                            *)
LegsFit ==
  \A a \in Actors : leg[a] # NoLeg =>
    /\ leg[a].method \in MethodsOf(a)
    /\ leg[a].method = "setBudget" => budgets < MaxBudgets

Typed == TypeOK /\ LegsFit

LEMMA TypeInit == Init => Typed
<1> SUFFICES ASSUME Init PROVE TypeOK
  BY DEF Typed, LegsFit, Init
<1> USE DEF Init
<1>1. Idle \in Intents
  BY DEF Idle, Intents, Mint
<1>2. Len(MoreSponsors) \in Nat /\ MaxBudgets \in Nat
  BY ConstantsAssumption
<1>3. job \in JobType /\ job.shard = 0
  BY <1>1, <1>2 DEF JobType
<1>4. DOMAIN payer = Rented
  OBVIOUS
<1>5. leg \in [Actors -> {NoLeg} \cup LegType]
  OBVIOUS
<1> QED
  BY <1>2, <1>3, <1>4, <1>5 DEF TypeOK

LEMMA TypeNext == Typed /\ [Next]_vars => TypeOK'
<1> SUFFICES ASSUME TypeOK, LegsFit, [Next]_vars PROVE TypeOK'
  BY DEF Typed
<1>1. Len(MoreSponsors) \in Nat /\ MaxBudgets \in Nat
  BY ConstantsAssumption
<1>2. CASE CreateJob
  <2>1. PICK key \in 0 .. 2 :
          job' = [job EXCEPT !.state = "open",
                             !.shard = ShardIndex(key, Len(AllSponsors(AcpState)))]
    BY <1>2 DEF CreateJob
  <2>2. AcpState = Acp(sponsors) /\ sponsors \in Counts
    BY DEF AcpState, Acp, TypeOK, Counts
  <2>3. Len(AllSponsors(AcpState)) = sponsors
    BY <2>2, AcpShape
  <2>4. ShardIndex(key, sponsors) \in 0 .. sponsors - 1
    <3>1. key \in Nat /\ sponsors \in Nat \ {0}
      BY <1>1, <2>2 DEF Counts
    <3> QED
      BY <3>1, IndexInRange
  <2>5. ShardIndex(key, sponsors) \in 0 .. Len(MoreSponsors)
    BY <1>1, <2>2, <2>4 DEF Counts
  <2>6. job' \in JobType /\ job'.shard = ShardIndex(key, sponsors)
    BY <2>1, <2>3, <2>5 DEF TypeOK, JobType, JobStates
  <2> QED
    BY <1>1, <1>2, <2>2, <2>4, <2>6 DEF CreateJob, TypeOK, Counts
<1>3. ASSUME NEW a \in Actors, ReadJob(a)
      PROVE  TypeOK'
  <2>a. PICK method \in MethodsOf(a) : \E args \in ArgsOf(method) :
          /\ method = "setBudget" => budgets < MaxBudgets
          /\ leg' = [leg EXCEPT ![a] =
                       [pc |-> "job", method |-> method, args |-> args, job |-> JobFacts,
                        request |-> Idle, escrow |-> FALSE, terms |-> FALSE]]
    BY <1>3 DEF ReadJob
  <2>1. PICK args \in ArgsOf(method) :
          leg' = [leg EXCEPT ![a] =
                    [pc |-> "job", method |-> method, args |-> args, job |-> JobFacts,
                     request |-> Idle, escrow |-> FALSE, terms |-> FALSE]]
    BY <2>a
  <2> DEFINE next == [pc |-> "job", method |-> method, args |-> args, job |-> JobFacts,
                      request |-> Idle, escrow |-> FALSE, terms |-> FALSE]
  <2>2. method \in Methods /\ args \in Args
    BY ArgsTyped, MethodsAre
  <2>3. JobFacts \in Facts
    BY <1>3 DEF ReadJob, JobFacts, Facts, TypeOK, JobType
  <2>4. Idle \in Intents
    BY DEF Idle, Intents, Mint
  <2>5. next \in LegType
    BY <2>2, <2>3, <2>4 DEF LegType, Methods, Args, Facts
  <2> HIDE DEF next
  <2>6. leg' \in [Actors -> {NoLeg} \cup LegType]
    BY <2>1, <2>5, LegMoves DEF TypeOK, next
  <2> QED
    BY <1>3, <2>6 DEF ReadJob, TypeOK
<1>4. ASSUME NEW a \in Actors, ReadHook(a)
      PROVE  TypeOK'
  <2> DEFINE facts == HookFacts(leg[a].method)
             next == [leg[a] EXCEPT !.pc = "hook", !.request = facts.request,
                                    !.escrow = facts.escrow, !.terms = facts.terms]
  <2>1. leg[a] \in LegType
    BY <1>4, LegTyped DEF ReadHook
  <2>2. facts.request \in Intents
    BY DEF HookFacts, TypeOK, JobType, Idle, Intents, Mint
  <2>3. facts.escrow \in BOOLEAN
    <3>1. job.escrow.live \in BOOLEAN
      BY DEF TypeOK, JobType, Intents
    <3> QED
      BY <3>1 DEF HookFacts
  <2>4. facts.terms \in BOOLEAN
    BY DEF HookFacts
  <2>5. leg' = [leg EXCEPT ![a] = next]
    BY <1>4, <2>1 DEF ReadHook, TypeOK
  <2> HIDE DEF facts
  <2>6. next \in LegType
    BY <2>1, <2>2, <2>3, <2>4 DEF LegType
  <2> HIDE DEF next
  <2>7. leg' \in [Actors -> {NoLeg} \cup LegType]
    BY <2>5, <2>6, LegMoves DEF TypeOK
  <2> QED
    BY <1>4, <2>7 DEF ReadHook, TypeOK
<1>5. ASSUME NEW a \in Actors, Throws(a) \/ Refused(a)
      PROVE  TypeOK'
  BY <1>5 DEF Throws, Refused, TypeOK
<1>6. ASSUME NEW a \in Actors, PreCreate(a)
      PROVE  TypeOK'
  <2>1. leg[a] \in LegType
    BY <1>6, LegTyped DEF PreCreate
  <2> DEFINE next == [leg[a] EXCEPT !.pc = "built"]
  <2>2. next \in LegType
    BY <2>1 DEF LegType
  <2>3. leg' = [leg EXCEPT ![a] = next]
    BY <1>6 DEF PreCreate, TypeOK
  <2> HIDE DEF next
  <2>4. leg' \in [Actors -> {NoLeg} \cup LegType]
    BY <2>2, <2>3, LegMoves DEF TypeOK
  <2>5. job' \in JobType /\ job'.shard = job.shard /\ DOMAIN payer' = Rented
    BY <1>6 DEF PreCreate, TypeOK, JobType
  <2> QED
    BY <1>6, <2>4, <2>5 DEF PreCreate, TypeOK
<1>7. ASSUME NEW a \in Actors, Lands(a)
      PROVE  TypeOK'
  <2>1. leg[a] \in LegType /\ Accepts(leg[a])
    BY <1>7, LegTyped DEF Lands
  <2>2. job.state # "absent"
    <3>1. leg[a].method \in Ops \cup {"configure"}
      BY <2>1, MethodsAre DEF LegType, Methods, Ops
    <3>2. CASE leg[a].method = "configure"
      BY <2>1, <3>2 DEF Accepts
    <3>3. CASE leg[a].method \in Ops
      <4>1. job.state \in AllowedStates(leg[a].method)
        BY <2>1, <3>3 DEF Accepts, CoreAccepts, Ops
      <4> QED
        BY <3>3, <4>1 DEF AllowedStates, Ops
    <3> QED
      BY <3>1, <3>2, <3>3
  <2>3. job' \in JobType /\ job'.shard = job.shard
    BY <1>7, <2>1, <2>2, EffectTyped DEF Lands
  <2>4. leg' \in [Actors -> {NoLeg} \cup LegType]
    BY <1>7 DEF Lands, TypeOK
  <2>5. budgets' \in 0 .. MaxBudgets
    <3>1. leg[a] # NoLeg
      BY <1>7 DEF Lands, NoLeg
    <3>2. leg[a].method = "setBudget" => budgets < MaxBudgets
      BY <3>1 DEF LegsFit
    <3> QED
      BY <1>1, <1>7, <3>2 DEF Lands, TypeOK
  <2>6. DOMAIN payer' = Rented /\ drift' \subseteq Rented
    BY <1>7 DEF Lands, TypeOK, PaidBy, Drifted, Closed, Rented
  <2> QED
    BY <1>7, <2>3, <2>4, <2>5, <2>6 DEF Lands, TypeOK
<1>8. CASE CloseJobHookAccounts
  <2>1. drift' \subseteq Rented
    BY <1>8 DEF CloseJobHookAccounts, TypeOK, Drifted, ClosedLater, Rented
  <2>2. DOMAIN payer' = Rented
    BY <1>8 DEF CloseJobHookAccounts
  <2>3. UNCHANGED <<kind, job, sponsors, leg, budgets>>
    BY <1>8 DEF CloseJobHookAccounts
  <2> QED
    BY <2>1, <2>2, <2>3 DEF TypeOK
<1>9. CASE AddSponsor
  <2>1. sponsors' \in 1 .. (Len(MoreSponsors) + 1) /\ sponsors < sponsors'
    BY <1>1, <1>9 DEF AddSponsor, TypeOK
  <2>2. job.shard < sponsors'
    BY <1>1, <2>1 DEF TypeOK, JobType
  <2> QED
    BY <1>9, <2>1, <2>2 DEF AddSponsor, TypeOK
<1>10. CASE UNCHANGED vars
  BY <1>10 DEF vars, TypeOK
<1> QED
  BY <1>2, <1>3, <1>4, <1>5, <1>6, <1>7, <1>8, <1>9, <1>10 DEF Next, Step

LEMMA FitNext == Typed /\ [Next]_vars => LegsFit'
<1> SUFFICES ASSUME TypeOK, LegsFit, [Next]_vars PROVE LegsFit'
  BY DEF Typed
<1>1. ASSUME NEW a \in Actors, ReadJob(a)
      PROVE  LegsFit'
  <2>1. PICK method \in MethodsOf(a) : \E args \in ArgsOf(method) :
          /\ method = "setBudget" => budgets < MaxBudgets
          /\ leg' = [leg EXCEPT ![a] =
                       [pc |-> "job", method |-> method, args |-> args, job |-> JobFacts,
                        request |-> Idle, escrow |-> FALSE, terms |-> FALSE]]
    BY <1>1 DEF ReadJob
  <2>2. leg'[a].method = method /\ \A b \in Actors \ {a} : leg'[b] = leg[b]
    BY <2>1 DEF TypeOK
  <2>3. budgets' = budgets
    BY <1>1 DEF ReadJob
  <2> QED
    BY <2>1, <2>2, <2>3 DEF LegsFit
<1>2. ASSUME NEW a \in Actors, ReadHook(a) \/ PreCreate(a)
      PROVE  LegsFit'
  <2>1. leg[a].pc # "idle" /\ leg[a] \in LegType /\ leg[a] # NoLeg
    BY <1>2, LegTyped DEF ReadHook, PreCreate, NoLeg
  <2>2. leg'[a].method = leg[a].method /\ \A b \in Actors \ {a} : leg'[b] = leg[b]
    BY <1>2, <2>1 DEF ReadHook, PreCreate, TypeOK, LegType
  <2>3. budgets' = budgets
    BY <1>2 DEF ReadHook, PreCreate
  <2> QED
    BY <2>1, <2>2, <2>3 DEF LegsFit
<1>3. ASSUME NEW a \in Actors, Throws(a) \/ Refused(a)
      PROVE  LegsFit'
  <2>1. leg'[a] = NoLeg /\ budgets' = budgets /\ \A b \in Actors \ {a} : leg'[b] = leg[b]
    BY <1>3 DEF Throws, Refused, TypeOK
  <2> QED
    BY <2>1 DEF LegsFit
<1>4. ASSUME NEW a \in Actors, Lands(a)
      PROVE  LegsFit'
  <2>1. leg'[a] = NoLeg /\ \A b \in Actors \ {a} : leg'[b] = leg[b]
    BY <1>4 DEF Lands, TypeOK
  <2>2. CASE leg[a].method # "setBudget"
    <3>1. budgets' = budgets
      BY <1>4, <2>2 DEF Lands
    <3> QED
      BY <2>1, <3>1 DEF LegsFit
  <2>3. CASE leg[a].method = "setBudget"
    <3>1. leg[a] # NoLeg
      BY <1>4 DEF Lands, NoLeg
    <3>2. a = "provider"
      BY <2>3, <3>1 DEF LegsFit, MethodsOf, Actors
    <3>3. \A b \in Actors \ {a} : leg[b] # NoLeg => leg[b].method # "setBudget"
      BY <3>2 DEF LegsFit, MethodsOf, Actors
    <3> QED
      BY <2>1, <3>3 DEF LegsFit
  <2> QED
    BY <2>2, <2>3
<1>5. CASE CreateJob \/ CloseJobHookAccounts \/ AddSponsor \/ UNCHANGED vars
  BY <1>5 DEF CreateJob, CloseJobHookAccounts, AddSponsor, vars, LegsFit
<1> QED
  BY <1>1, <1>2, <1>3, <1>4, <1>5 DEF Next, Step

\* Every variable keeps its type, and the shard a job records is a live one,
\* for every set of hooks, budgets and wallets.
THEOREM TypeCorrect == Spec => []TypeOK
<1>1. Typed /\ [Next]_vars => Typed'
  BY TypeNext, FitNext DEF Typed
<1>2. Typed => TypeOK
  BY DEF Typed
<1> QED
  BY TypeInit, <1>1, <1>2, PTL DEF Spec

\* What a hook takes in a transaction of a fresh call is covered by the one
\* approval its source account has, whatever budget, stake and token.
THEOREM PullsAreAuthorised == Spec => []PullsAuthorised
BY TypeCorrect, AuthorisedWhenTyped, PTL

-----------------------------------------------------------------------------
(* Rent.                                                                   *)

\* The accounts whose rent must have come from the job's sponsor, if any
\* sponsor paid for it.
Pinned(a) == ~(Routed /\ a = "escrowVault")

(* Every sponsor-paid account but a routed job's escrow vault was paid for *)
(* by the wallet the close paths name now; calls carry the job's shard;    *)
(* before the job exists no sponsor has paid and no call is on its way.    *)
RentInv ==
  /\ \A a \in Rented : Pinned(a) => payer[a] \in {Nobody, "provider", Home}
  /\ \A x \in Actors : leg[x] # NoLeg => leg[x].job.shard = job.shard
  /\ job.state = "absent" =>
       /\ \A a \in Rented : payer[a] \in {Nobody, "provider"}
       /\ \A x \in Actors : leg[x] = NoLeg
  /\ PinnedRentGoesHome

\* The sponsor a call names is the one the close paths name, and whoever pays
\* for a transaction in which a pinned account is created is that sponsor.
LEMMA CreatedFromHome ==
  ASSUME TypeOK, NEW l \in LegType, l.job.shard = job.shard,
         NEW w \in FeePayers(Pin(l)), NEW a \in Creates(l), Pinned(a)
  PROVE  PaidBy(l, w)[a] \in {"provider", Home}
<1>1. sponsors \in Counts /\ job.shard \in Nat
  BY DEF TypeOK, JobType, Counts
<1>2. PaidBy(l, w)[a] = IF Deep(a) THEN "provider" ELSE w
  BY DEF PaidBy, Creates
<1>3. CASE l.method = "submit" /\ Routed
  <2>1. a \in {"escrow", "escrowVault"}
    BY <1>3 DEF Creates
  <2> QED
    BY <1>2, <1>3, <2>1 DEF Deep, Pinned
<1>4. CASE l.method = "submit" /\ ~Routed /\ kind.hook # "sub" /\ l.job.budget = 0
  <2>1. Pull(l) = NoToken
    BY <1>4 DEF Pull
  <2> QED
    BY <1>4, <2>1 DEF Creates
<1>5. CASE l.method = "complete"
  BY <1>5 DEF Creates
<1>6. CASE /\ ~(l.method = "submit" /\ (Routed \/ (kind.hook # "sub" /\ l.job.budget = 0)))
           /\ ~(l.method = "complete")
  <2>1. Pin(l) = PinIfSharded(AcpState, SponsorForRecorded(AcpState, job.shard))
    BY <1>6 DEF Pin, Sponsor
  <2>2. w = Home
    BY <1>1, <2>1, PinnedPays DEF Home
  <2> QED
    BY <1>2, <2>2
<1> QED
  BY <1>3, <1>4, <1>5, <1>6

LEMMA RentInit == Init => RentInv
<1> SUFFICES ASSUME Init PROVE RentInv
  OBVIOUS
<1>1. \A a \in Rented : payer[a] \in {Nobody, "provider"}
  BY DEF Init
<1>2. \A x \in Actors : leg[x] = NoLeg
  BY DEF Init
<1>3. drift = {}
  BY DEF Init
<1> QED
  BY <1>1, <1>2, <1>3 DEF RentInv, PinnedRentGoesHome

LEMMA RentNext == TypeOK /\ RentInv /\ [Next]_vars => RentInv'
<1> SUFFICES ASSUME TypeOK, RentInv, [Next]_vars PROVE RentInv'
  OBVIOUS
<1> DEFINE Payers == \A a \in Rented : Pinned(a) => payer[a] \in {Nobody, "provider", Home}
           Shards == \A x \in Actors : leg[x] # NoLeg => leg[x].job.shard = job.shard
           Before == job.state = "absent" =>
                       /\ \A a \in Rented : payer[a] \in {Nobody, "provider"}
                       /\ \A x \in Actors : leg[x] = NoLeg
<1>a. Payers /\ Shards /\ Before /\ PinnedRentGoesHome
  BY DEF RentInv
<1>b. Payers' /\ Shards' /\ Before' /\ PinnedRentGoesHome' => RentInv'
  BY DEF RentInv
<1>1. CASE CreateJob
  <2>1. \A a \in Rented : payer'[a] \in {Nobody, "provider"}
    BY <1>1, <1>a DEF CreateJob
  <2>2. \A x \in Actors : leg'[x] = NoLeg
    BY <1>1, <1>a DEF CreateJob
  <2>3. PinnedRentGoesHome'
    BY <1>1, <1>a DEF CreateJob, PinnedRentGoesHome, Routed
  <2> QED
    BY <2>1, <2>2, <2>3, <1>b
\* Steps of a party that leave the rent and the sponsors alone.
<1>2. ASSUME NEW a \in Actors, UNCHANGED <<kind, payer, sponsors, drift>>,
             job'.shard = job.shard, job'.state = job.state,
             \A x \in Actors \ {a} : leg'[x] = leg[x],
             leg'[a] # NoLeg => leg'[a].job.shard = job.shard /\ job.state # "absent"
      PROVE  RentInv'
  <2>1. Home' = Home
    BY <1>2 DEF Home, AcpState
  <2>2. Payers'
    BY <1>2, <1>a, <2>1 DEF Pinned, Routed
  <2>3. Shards'
    BY <1>2, <1>a
  <2>4. Before'
    BY <1>2, <1>a
  <2>5. PinnedRentGoesHome'
    BY <1>2, <1>a DEF PinnedRentGoesHome, Routed
  <2> QED
    BY <2>2, <2>3, <2>4, <2>5, <1>b
<1>3. ASSUME NEW a \in Actors, ReadJob(a)
      PROVE  RentInv'
  <2>1. PICK method \in MethodsOf(a) : \E args \in ArgsOf(method) :
          leg' = [leg EXCEPT ![a] =
                    [pc |-> "job", method |-> method, args |-> args, job |-> JobFacts,
                     request |-> Idle, escrow |-> FALSE, terms |-> FALSE]]
    BY <1>3 DEF ReadJob
  <2>2. leg'[a].job.shard = job.shard /\ \A x \in Actors \ {a} : leg'[x] = leg[x]
    BY <2>1 DEF TypeOK, JobFacts
  <2> QED
    BY <1>2, <1>3, <2>2 DEF ReadJob
<1>4. ASSUME NEW a \in Actors, ReadHook(a)
      PROVE  RentInv'
  <2>1. leg[a].pc # "idle" /\ leg[a] \in LegType /\ leg[a] # NoLeg
    BY <1>4, LegTyped DEF ReadHook, NoLeg
  <2>2. leg'[a].job = leg[a].job /\ \A x \in Actors \ {a} : leg'[x] = leg[x]
    BY <1>4, <2>1 DEF ReadHook, TypeOK, LegType
  <2>3. leg[a].job.shard = job.shard /\ job.state # "absent"
    BY <1>a, <2>1
  <2> QED
    BY <1>2, <1>4, <2>2, <2>3 DEF ReadHook
<1>5. ASSUME NEW a \in Actors, Throws(a) \/ Refused(a)
      PROVE  RentInv'
  <2>1. leg'[a] = NoLeg /\ \A x \in Actors \ {a} : leg'[x] = leg[x]
    BY <1>5 DEF Throws, Refused, TypeOK
  <2> QED
    BY <1>2, <1>5, <2>1 DEF Throws, Refused
<1>6. ASSUME NEW a \in Actors, PreCreate(a)
      PROVE  RentInv'
  <2>1. leg[a].pc # "idle" /\ leg[a] \in LegType /\ leg[a] # NoLeg
    BY <1>6, LegTyped DEF PreCreate, NoLeg
  <2>2. leg[a].job.shard = job.shard /\ job.state # "absent"
    BY <1>a, <2>1
  <2>3. leg'[a].job = leg[a].job /\ \A x \in Actors \ {a} : leg'[x] = leg[x]
    BY <1>6, <2>1 DEF PreCreate, TypeOK, LegType
  <2>4. job'.shard = job.shard /\ job'.state = job.state
    BY <1>6 DEF PreCreate, TypeOK, JobType
  <2>5. CASE UNCHANGED <<payer, job>>
    BY <1>2, <1>6, <2>2, <2>3, <2>4, <2>5 DEF PreCreate
  <2>6. CASE ~(UNCHANGED <<payer, job>>)
    <3>1. PICK wallet \in FeePayers(PinIfSharded(AcpState, Sponsor(leg[a]))) :
            payer' = [x \in Rented |-> IF x \in Missing(leg[a]) THEN wallet ELSE payer[x]]
      BY <1>6, <2>6 DEF PreCreate
    <3>2. sponsors \in Counts /\ job.shard \in Nat
      BY DEF TypeOK, JobType, Counts
    <3>3. wallet = Home
      BY <2>2, <3>1, <3>2, PinnedPays DEF Sponsor, Home
    <3>4. Home' = Home
      BY <1>6, <2>4 DEF Home, AcpState, PreCreate
    <3>5. Payers'
      BY <1>6, <1>a, <3>1, <3>3, <3>4 DEF PreCreate, Pinned, Routed
    <3>6. Shards'
      BY <1>a, <2>2, <2>3, <2>4
    <3>7. Before'
      BY <2>2, <2>4
    <3>8. PinnedRentGoesHome'
      BY <1>6, <1>a DEF PreCreate, PinnedRentGoesHome, Routed
    <3> QED
      BY <3>5, <3>6, <3>7, <3>8, <1>b
  <2> QED
    BY <2>5, <2>6
<1>7. ASSUME NEW a \in Actors, Lands(a)
      PROVE  RentInv'
  <2>1. leg[a].pc # "idle" /\ leg[a] \in LegType /\ leg[a] # NoLeg
    BY <1>7, LegTyped DEF Lands, NoLeg
  <2>2. leg[a].job.shard = job.shard /\ job.state # "absent"
    BY <1>a, <2>1
  <2>3. job'.shard = job.shard /\ job'.state # "absent"
    BY <1>7, <2>1, <2>2, EffectTyped DEF Lands
  <2>4. leg'[a] = NoLeg /\ \A x \in Actors \ {a} : leg'[x] = leg[x]
    BY <1>7 DEF Lands, TypeOK
  <2>5. PICK wallet \in FeePayers(Pin(leg[a])) :
          LET paid == PaidBy(leg[a], wallet)
          IN IF Ends(leg[a])
               THEN /\ payer' = [x \in Rented |-> IF x \in Closed THEN Nobody ELSE paid[x]]
                    /\ drift' = drift \cup Drifted(paid, Closed, Sponsor(leg[a]))
               ELSE payer' = paid /\ drift' = drift
    BY <1>7 DEF Lands
  <2> DEFINE paid == PaidBy(leg[a], wallet)
  <2>6. \A x \in Rented : Pinned(x) => paid[x] \in {Nobody, "provider", Home}
    <3> SUFFICES ASSUME NEW x \in Rented, Pinned(x)
                 PROVE  paid[x] \in {Nobody, "provider", Home}
      OBVIOUS
    <3>1. CASE x \in Creates(leg[a])
      BY <2>1, <2>2, <3>1, CreatedFromHome
    <3>2. CASE x \notin Creates(leg[a])
      BY <1>a, <3>2 DEF PaidBy
    <3> QED
      BY <3>1, <3>2
  <2>7. Sponsor(leg[a]) = Home
    BY <2>2 DEF Sponsor, Home
  <2>8. Drifted(paid, Closed, Home) \subseteq IF Routed THEN {"escrowVault"} ELSE {}
    BY <2>6 DEF Drifted, Pinned, Closed, Rented
  <2>9. payer' = paid \/ payer' = [x \in Rented |-> IF x \in Closed THEN Nobody ELSE paid[x]]
    BY <2>5
  <2>10. drift' = drift \/ drift' = drift \cup Drifted(paid, Closed, Home)
    BY <2>5, <2>7
  <2>11. kind' = kind /\ sponsors' = sponsors
    BY <1>7 DEF Lands
  <2>12. Home' = Home
    BY <2>3, <2>11 DEF Home, AcpState
  <2> HIDE DEF paid
  <2>13. Payers'
    <3>1. \A x \in Rented : Pinned(x)' = Pinned(x)
      BY <2>11 DEF Pinned, Routed
    <3>2. \A x \in Rented : payer'[x] \in {Nobody, paid[x]}
      BY <2>9 DEF Closed
    <3> QED
      BY <2>6, <2>12, <3>1, <3>2
  <2>14. Shards'
    BY <1>a, <2>3, <2>4
  <2>15. PinnedRentGoesHome'
    BY <1>a, <2>8, <2>10, <2>11 DEF PinnedRentGoesHome, Routed
  <2> QED
    BY <2>3, <2>13, <2>14, <2>15, <1>b
<1>8. CASE CloseJobHookAccounts
  <2>1. UNCHANGED <<kind, job, sponsors, leg>>
    BY <1>8 DEF CloseJobHookAccounts
  <2>2. Home' = Home
    BY <2>1 DEF Home, AcpState
  <2>3. Drifted(payer, ClosedLater, Home) = {}
    BY <1>a DEF Drifted, ClosedLater, Pinned, Rented
  <2>4. drift' = drift
    BY <1>8, <2>3 DEF CloseJobHookAccounts, Home
  <2>5. payer' = [a \in Rented |-> IF a \in ClosedLater THEN Nobody ELSE payer[a]]
    BY <1>8 DEF CloseJobHookAccounts
  <2>6. Payers'
    BY <1>a, <2>1, <2>2, <2>5 DEF Pinned, Routed
  <2>7. Shards' /\ Before'
    BY <1>a, <2>1, <2>5
  <2>8. PinnedRentGoesHome'
    BY <1>a, <2>1, <2>4 DEF PinnedRentGoesHome, Routed
  <2> QED
    BY <2>6, <2>7, <2>8, <1>b
<1>9. CASE AddSponsor
  <2>1. UNCHANGED <<kind, job, payer, leg, drift>> /\ sponsors' = sponsors + 1
    BY <1>9 DEF AddSponsor
  <2>2. /\ sponsors \in Counts /\ sponsors + 1 \in Counts
        /\ job.shard \in Nat /\ job.shard < sponsors
    <3>1. Len(MoreSponsors) \in Nat
      BY ConstantsAssumption
    <3> QED
      BY <1>9, <3>1 DEF AddSponsor, TypeOK, JobType, Counts
  <2>3. AcpState = Acp(sponsors) /\ AcpState' = Acp(sponsors + 1)
    BY <2>1 DEF AcpState, Acp
  <2>4. Home' = Home
    BY <2>1, <2>2, <2>3, HomeIsStable DEF Home
  <2>5. Payers'
    BY <1>a, <2>1, <2>4 DEF Pinned, Routed
  <2>6. Shards' /\ Before'
    BY <1>a, <2>1
  <2>7. PinnedRentGoesHome'
    BY <1>a, <2>1 DEF PinnedRentGoesHome, Routed
  <2> QED
    BY <2>5, <2>6, <2>7, <1>b
<1>10. CASE UNCHANGED vars
  BY <1>10, <1>a, <1>b DEF vars, Home, AcpState, Pinned, Routed, PinnedRentGoesHome
<1> QED
  BY <1>1, <1>3, <1>4, <1>5, <1>6, <1>7, <1>8, <1>9, <1>10 DEF Next, Step

\* Rent a sponsor paid goes back to that sponsor however the set of sponsors
\* grows, except for the escrow vault of a routed job, whose payer is not
\* pinned.
THEOREM RentReturns == Spec => []PinnedRentGoesHome
<1> DEFINE IInv == Typed /\ RentInv
<1>1. Init => IInv
  BY TypeInit, RentInit
<1>2. IInv /\ [Next]_vars => IInv'
  BY TypeNext, FitNext, RentNext DEF Typed
<1>3. IInv => PinnedRentGoesHome
  BY DEF RentInv
<1> QED
  BY <1>1, <1>2, <1>3, PTL DEF Spec

-----------------------------------------------------------------------------
(* What the router makes of the accounts built for its hooks.              *)

\* The names of the accounts that are passed.
Accounts ==
  {"sysvar", "fundState", "subState", "provider", "request", "requestMap", "job", "system",
   "terms", "expiry", "from", "to", "token", "escrow", "escrowMap", "providerToken",
   "escrowVault", "escrowAuthority", "clientToken", "acpState", "sponsor", "subProgram",
   "writer", "hookRouter", "routerState", "fundHook", "fundWhitelist", "subHook",
   "subWhitelist"}
Metas == [account : Accounts, writable : BOOLEAN, signer : BOOLEAN]

\* Where the slices begin.
LEMMA SlicesBegin ==
  ASSUME NEW header, header \in Seq(Nat)
  PROVE  \A i \in 1 .. Len(header) :
           SlicesFrom(header)[i] = IF i = 1 THEN Len(RouterPrefix) + 2
                                   ELSE SlicesFrom(header)[i - 1] + header[i - 1] + 2
<1> DEFINE n == Len(header)
           first == Len(RouterPrefix) + 2
           G == [p \in (1 .. n) \X Nat |-> IF p[1] = 1 THEN 0 ELSE p[2] + header[p[1] - 1] + 2]
           Fits(f) == f = [i \in DOMAIN header |-> IF i = 1 THEN first
                                                   ELSE f[i - 1] + header[i - 1] + 2]
<1>1. n \in Nat /\ DOMAIN header = 1 .. n /\ \A i \in 1 .. n : header[i] \in Nat
  OBVIOUS
<1>2. first \in Nat
  BY DEF RouterPrefix
<1>3. G \in [(1 .. n) \X Nat -> Nat]
  <2>1. \A p \in (1 .. n) \X Nat : p[1] \in 1 .. n /\ p[2] \in Nat
    OBVIOUS
  <2>2. \A p \in (1 .. n) \X Nat : (IF p[1] = 1 THEN 0 ELSE p[2] + header[p[1] - 1] + 2) \in Nat
    BY <1>1, <2>1
  <2> QED
    BY <2>2
<1>4. \A i \in 1 .. n, v \in Nat : i # 1 => G[<<i, v>>] = v + header[i - 1] + 2
  OBVIOUS
<1> HIDE DEF G, n, first
<1>5. PICK g : Solves(g, n, first, G) /\ \A i \in 1 .. n : g[i] \in Nat
  <2>1. n \in Nat
    BY <1>1
  <2> QED
    BY <1>2, <1>3, <2>1, Recursion
<1>6. \A i \in 1 .. n : g[i] = IF i = 1 THEN first ELSE g[i - 1] + header[i - 1] + 2
  <2> SUFFICES ASSUME NEW i \in 1 .. n
               PROVE  g[i] = IF i = 1 THEN first ELSE g[i - 1] + header[i - 1] + 2
    OBVIOUS
  <2>1. g[i] = IF i = 1 THEN first ELSE G[<<i, g[i - 1]>>]
    BY <1>5 DEF Solves
  <2>2. i # 1 => i - 1 \in 1 .. n
    BY <1>1
  <2> QED
    BY <1>4, <1>5, <2>1, <2>2
<1>7. g = [i \in 1 .. n |-> g[i]]
  BY <1>5 DEF Solves
<1>8. Fits(g)
  BY <1>1, <1>6, <1>7
<1>9. SlicesFrom(header) = CHOOSE f : Fits(f)
  BY DEF SlicesFrom, first
<1>10. Fits(SlicesFrom(header))
  BY <1>8, <1>9
<1> QED
  BY <1>1, <1>10 DEF n, first

\* What the router itself is passed: three accounts, and two before each slice.
LEMMA MetasTyped ==
  /\ RouterPrefix \in Seq(Metas) /\ Len(RouterPrefix) = 3
  /\ \A h : HookFraming(h) \in Seq(Metas) /\ Len(HookFraming(h)) = 2
<1>1. /\ Sysvar \in Metas /\ RO("hookRouter") \in Metas /\ RO("routerState") \in Metas
      /\ RO("fundHook") \in Metas /\ RO("fundWhitelist") \in Metas
      /\ RO("subHook") \in Metas /\ RO("subWhitelist") \in Metas
  BY DEF Sysvar, RO, Meta, Metas, Accounts
<1> QED
  BY <1>1 DEF RouterPrefix, HookFraming

\* One list after another.
LEMMA TwoLists ==
  ASSUME NEW T, NEW s \in Seq(T), NEW t \in Seq(T)
  PROVE  /\ s \o t \in Seq(T) /\ Len(s \o t) = Len(s) + Len(t) /\ Len(s) \in Nat /\ Len(t) \in Nat
         /\ \A x \in 1 .. Len(s) : (s \o t)[x] = s[x]
         /\ \A x \in 1 .. Len(t) : (s \o t)[Len(s) + x] = t[x]
OBVIOUS

\* A part of a list.
LEMMA PartOf ==
  ASSUME NEW T, NEW s \in Seq(T), NEW a \in Nat, NEW len \in Nat, a + len <= Len(s)
  PROVE  /\ SubSeq(s, a + 1, a + len) \in Seq(T) /\ Len(SubSeq(s, a + 1, a + len)) = len
         /\ \A j \in 1 .. len : SubSeq(s, a + 1, a + len)[j] = s[a + j]
OBVIOUS

\* The sums PlacedNext needs.
LEMMA OneMoreNumbers ==
  ASSUME NEW a \in Nat, NEW b \in Nat, NEW c, c = a + 2 + b
  PROVE  c \in Nat /\ a <= c /\ (5 + a) + b = 3 + c
OBVIOUS

\* Lists that agree everywhere are the same.
LEMMA SameList ==
  ASSUME NEW T, NEW s \in Seq(T), NEW t \in Seq(T), Len(s) = Len(t), \A j \in 1 .. Len(s) : s[j] = t[j]
  PROVE  s = t
OBVIOUS

\* One hook's part after the others: two accounts, and the slice.
LEMMA OneMore ==
  ASSUME NEW T, NEW old \in Seq(T), NEW pair \in Seq(T), NEW s \in Seq(T)
  PROVE  LET new == old \o (pair \o s) IN
         /\ new \in Seq(T) /\ Len(new) = Len(old) + Len(pair) + Len(s)
         /\ \A x \in 1 .. Len(old) : new[x] = old[x]
         /\ \A j \in 1 .. Len(s) : new[Len(old) + Len(pair) + j] = s[j]
<1> DEFINE part == pair \o s
<1>1. /\ part \in Seq(T) /\ Len(part) = Len(pair) + Len(s)
      /\ Len(s) \in Nat /\ Len(old) \in Nat /\ Len(pair) \in Nat
      /\ \A j \in 1 .. Len(s) : part[Len(pair) + j] = s[j]
  OBVIOUS
<1> HIDE DEF part
<1> DEFINE new == old \o part
<1>2. /\ new \in Seq(T) /\ Len(new) = Len(old) + Len(part)
      /\ \A x \in 1 .. Len(old) : new[x] = old[x]
      /\ \A x \in 1 .. Len(part) : new[Len(old) + x] = part[x]
  <2>1. part \in Seq(T)
    BY <1>1
  <2> QED
    BY <2>1
<1> HIDE DEF new
<1>3. ASSUME NEW j \in 1 .. Len(s)
      PROVE  new[Len(old) + Len(pair) + j] = s[j]
  <2>1. Len(pair) + j \in 1 .. Len(part) /\ Len(old) + (Len(pair) + j) = Len(old) + Len(pair) + j
    BY <1>1
  <2> QED
    BY <1>1, <1>2, <2>1
<1>4. Len(new) = Len(old) + Len(pair) + Len(s)
  BY <1>1, <1>2
<1> QED
  BY <1>2, <1>3, <1>4 DEF new, part

\* The slices of n hooks, their parts, the parts one after the other, and
\* where the slices begin in a list that starts with three accounts more.
Layout(T, n, slices, parts, f, from) ==
  /\ \A i \in 1 .. n : slices[i] \in Seq(T)
  /\ \A i \in 1 .. n : \E pair \in Seq(T) : Len(pair) = 2 /\ parts[i] = pair \o slices[i]
  /\ \A i \in 1 .. n : f[i] = IF i = 1 THEN parts[i] ELSE f[i - 1] \o parts[i]
  /\ \A i \in 1 .. n : from[i] = IF i = 1 THEN 5 ELSE from[i - 1] + Len(slices[i - 1]) + 2

\* Slice i is in the list s from from[i] on.
LiesIn(s, from, slice) ==
  /\ from \in Nat /\ from >= 3 /\ from + Len(slice) <= 3 + Len(s)
  /\ \A j \in 1 .. Len(slice) : s[from - 3 + j] = slice[j]

\* The first k slices are in the parts joined so far, and end where these do.
Placed(T, k, slices, f, from) ==
  /\ f[k] \in Seq(T) /\ from[k] + Len(slices[k]) = 3 + Len(f[k])
  /\ \A i \in 1 .. k : LiesIn(f[k], from[i], slices[i])

\* A slice that lies in a list lies in every longer one.
LEMMA LiesOn ==
  ASSUME NEW T, NEW s \in Seq(T), NEW t \in Seq(T), NEW slice \in Seq(T), NEW from,
         LiesIn(s, from, slice), Len(s) <= Len(t), \A x \in 1 .. Len(s) : t[x] = s[x]
  PROVE  LiesIn(t, from, slice)
<1>1. /\ from \in Nat /\ from >= 3 /\ from + Len(slice) <= 3 + Len(s)
      /\ \A j \in 1 .. Len(slice) : s[from - 3 + j] = slice[j]
  BY DEF LiesIn
<1>2. Len(slice) \in Nat /\ Len(s) \in Nat /\ Len(t) \in Nat
  OBVIOUS
<1>3. \A j \in 1 .. Len(slice) : from - 3 + j \in 1 .. Len(s)
  BY <1>1, <1>2
<1>4. \A j \in 1 .. Len(slice) : t[from - 3 + j] = slice[j]
  BY <1>1, <1>3
<1>5. from + Len(slice) <= 3 + Len(t)
  BY <1>1, <1>2
<1> QED
  BY <1>1, <1>4, <1>5 DEF LiesIn

\* One more hook goes behind what is placed already, and where its slice begins
\* is where the header says.
LEMMA PlacedNext ==
  ASSUME NEW T, NEW n \in Nat, NEW slices, NEW parts, NEW f, NEW from,
         Layout(T, n, slices, parts, f, from),
         NEW k \in 0 .. n, k < n, k # 0 => Placed(T, k, slices, f, from)
  PROVE  Placed(T, k + 1, slices, f, from)
<1> DEFINE m == k + 1
           old == IF k = 0 THEN <<>> ELSE f[k]
<1>1. m \in 1 .. n /\ (m = 1 <=> k = 0) /\ m - 1 = k /\ (k # 0 => k \in 1 .. n)
  OBVIOUS
<1>2. \A i \in 1 .. m : i = m \/ (k # 0 /\ i \in 1 .. k)
  OBVIOUS
<1> HIDE DEF m
<1>3. slices[m] \in Seq(T)
  BY <1>1 DEF Layout
<1>4. PICK pair \in Seq(T) : Len(pair) = 2 /\ parts[m] = pair \o slices[m]
  BY <1>1 DEF Layout
<1>5. old \in Seq(T) /\ Len(old) \in Nat
  <2>1. k # 0 => f[k] \in Seq(T)
    BY DEF Placed
  <2> QED
    BY <2>1
<1>6. f[m] = old \o (pair \o slices[m])
  <2>1. f[m] = IF m = 1 THEN parts[m] ELSE f[m - 1] \o parts[m]
    BY <1>1 DEF Layout
  <2>2. CASE k = 0
    <3>1. pair \o slices[m] \in Seq(T)
      BY <1>3, <1>4, TwoLists
    <3>2. <<>> \o (pair \o slices[m]) = pair \o slices[m]
      BY <3>1
    <3> QED
      BY <1>1, <1>4, <2>1, <2>2, <3>2
  <2>3. CASE k # 0
    BY <1>1, <1>4, <2>1, <2>3
  <2> QED
    BY <2>2, <2>3
<1>7. from[m] = 5 + Len(old)
  <2>1. from[m] = IF m = 1 THEN 5 ELSE from[m - 1] + Len(slices[m - 1]) + 2
    BY <1>1 DEF Layout
  <2>2. CASE k = 0
    <3>1. Len(old) = 0
      BY <2>2
    <3> QED
      BY <1>1, <2>1, <2>2, <3>1
  <2>3. CASE k # 0
    <3>1. from[k] + Len(slices[k]) = 3 + Len(old)
      BY <2>3 DEF Placed
    <3>2. from[m] = (3 + Len(old)) + 2
      BY <1>1, <2>1, <2>3, <3>1
    <3> QED
      BY <1>5, <3>2
  <2> QED
    BY <2>2, <2>3
<1> HIDE DEF old
<1>8. /\ f[m] \in Seq(T) /\ Len(f[m]) = Len(old) + 2 + Len(slices[m])
      /\ \A x \in 1 .. Len(old) : f[m][x] = old[x]
      /\ \A j \in 1 .. Len(slices[m]) : f[m][Len(old) + 2 + j] = slices[m][j]
  <2> DEFINE s == slices[m]
  <2> HIDE DEF s
  <2>1. s \in Seq(T)
    BY <1>3 DEF s
  <2>2. LET new == old \o (pair \o s) IN
         /\ new \in Seq(T) /\ Len(new) = Len(old) + Len(pair) + Len(s)
         /\ \A x \in 1 .. Len(old) : new[x] = old[x]
         /\ \A j \in 1 .. Len(s) : new[Len(old) + Len(pair) + j] = s[j]
    BY <1>5, <2>1, OneMore
  <2>3. Len(pair) = 2
    BY <1>4
  <2> QED
    BY <1>6, <2>2, <2>3, Zenon DEF s
<1>9. Len(slices[m]) \in Nat /\ Len(f[m]) \in Nat
  <2>1. f[m] \in Seq(T)
    BY <1>8
  <2> QED
    BY <1>3, <2>1
<1>10. from[m] + Len(slices[m]) = 3 + Len(f[m])
  <2>1. Len(f[m]) = Len(old) + 2 + Len(slices[m])
    BY <1>8
  <2> DEFINE a == Len(old)
             b == Len(slices[m])
             c == Len(f[m])
  <2>2. a \in Nat /\ b \in Nat /\ c = a + 2 + b
    BY <1>5, <1>9, <2>1
  <2> HIDE DEF a, b, c
  <2>3. (5 + a) + b = 3 + c
    BY <2>2
  <2> QED
    BY <1>7, <2>3, Zenon DEF a, b, c
<1>11. LiesIn(f[m], from[m], slices[m])
  <2>1. from[m] \in Nat /\ from[m] >= 3 /\ from[m] - 3 = Len(old) + 2
    BY <1>5, <1>7
  <2>2. from[m] + Len(slices[m]) <= 3 + Len(f[m])
    BY <1>9, <1>10
  <2> QED
    BY <1>8, <2>1, <2>2 DEF LiesIn
<1>12. ASSUME k # 0, NEW i \in 1 .. k
       PROVE  LiesIn(f[m], from[i], slices[i])
  <2>1. LiesIn(old, from[i], slices[i])
    BY <1>12 DEF Placed, old
  <2>2. slices[i] \in Seq(T)
    <3>1. i \in 1 .. n
      BY <1>12
    <3> QED
      BY <3>1 DEF Layout
  <2>3. Len(old) <= Len(f[m])
    <3>1. Len(f[m]) = Len(old) + 2 + Len(slices[m])
      BY <1>8
    <3> QED
      BY <1>5, <1>9, <3>1, OneMoreNumbers
  <2> QED
    BY <1>5, <1>8, <2>1, <2>2, <2>3, LiesOn
<1>13. \A i \in 1 .. m : LiesIn(f[m], from[i], slices[i])
  BY <1>2, <1>11, <1>12
<1>14. Placed(T, m, slices, f, from)
  BY <1>8, <1>10, <1>13 DEF Placed
<1> QED
  BY <1>14 DEF m

\* So every slice is where the header says.
LEMMA AllPlaced ==
  ASSUME NEW T, NEW n \in Nat, n # 0, NEW slices, NEW parts, NEW f, NEW from,
         Layout(T, n, slices, parts, f, from)
  PROVE  Placed(T, n, slices, f, from)
<1> DEFINE Good == {0} \cup {k \in 1 .. n : Placed(T, k, slices, f, from)}
<1>1. ASSUME NEW k \in 0 .. n, k \in Good, k < n
      PROVE  k + 1 \in Good
  <2>1. k # 0 => Placed(T, k, slices, f, from)
    BY <1>1
  <2>2. Placed(T, k + 1, slices, f, from)
    BY <1>1, <2>1, PlacedNext
  <2>3. k + 1 \in 1 .. n
    BY <1>1
  <2> QED
    BY <2>2, <2>3
<1>2. 0 \in Good
  OBVIOUS
<1>3. n \in Good => Placed(T, n, slices, f, from)
  OBVIOUS
<1> HIDE DEF Good
<1>4. \A k \in 0 .. n : k \in Good
  <2>1. \A k \in 0 .. n : k \in Good /\ k < n => k + 1 \in Good
    BY <1>1
  <2> QED
    BY <1>2, <2>1, UpTo
<1> QED
  BY <1>3, <1>4

\* A list holds the slices where their header says.
Holds(accounts, slices) ==
  /\ accounts \in Seq(Metas) /\ Len(accounts) > 2
  /\ \A i \in 1 .. Len(slices) :
       LET from == SlicesFrom(Header(slices))[i] IN
       /\ from \in Nat /\ from + Len(slices[i]) <= Len(accounts)
       /\ \A j \in 1 .. Len(slices[i]) : accounts[from + j] = slices[i][j]

\* The accounts of a fan-out hold every slice there.
LEMMA FanOutHolds ==
  ASSUME NEW S, NEW hooks \in Seq(S), NEW slices \in Seq(Seq(Metas)), Len(hooks) = Len(slices),
         Len(slices) # 0
  PROVE  Holds(FanOut(hooks, slices).accounts, slices)
<1> DEFINE n == Len(slices)
           header == Header(slices)
           from == SlicesFrom(header)
           parts == [i \in DOMAIN hooks |-> HookFraming(hooks[i]) \o slices[i]]
           accounts == FanOut(hooks, slices).accounts
<1>1. /\ n \in Nat /\ DOMAIN hooks = 1 .. n /\ DOMAIN slices = 1 .. n
      /\ \A i \in 1 .. n : slices[i] \in Seq(Metas) /\ Len(slices[i]) \in Nat
  OBVIOUS
<1>2. header \in Seq(Nat) /\ Len(header) = n /\ \A i \in 1 .. n : header[i] = Len(slices[i])
  BY <1>1 DEF Header
<1>3. /\ parts \in Seq(Seq(Metas)) /\ Len(parts) = n
      /\ \A i \in 1 .. n : parts[i] = HookFraming(hooks[i]) \o slices[i]
  <2>1. \A i \in 1 .. n : HookFraming(hooks[i]) \o slices[i] \in Seq(Metas)
    BY <1>1, MetasTyped
  <2> QED
    BY <1>1, <2>1
<1>4. accounts = RouterPrefix \o FlattenSeq(parts)
  BY DEF FanOut
<1>5. \A i \in 1 .. n : from[i] = IF i = 1 THEN 5 ELSE from[i - 1] + Len(slices[i - 1]) + 2
  <2>1. \A i \in 1 .. n : from[i] = IF i = 1 THEN Len(RouterPrefix) + 2 ELSE from[i - 1] + header[i - 1] + 2
    BY <1>2, SlicesBegin
  <2>2. \A i \in 1 .. n : i # 1 => header[i - 1] = Len(slices[i - 1])
    <3> HIDE DEF n, header
    <3>1. \A i \in 1 .. n : i # 1 => i - 1 \in 1 .. n
      BY <1>1
    <3> QED
      BY <1>2, <3>1
  <2>3. Len(RouterPrefix) + 2 = 5
    BY MetasTyped
  <2> HIDE DEF from, header
  <2> QED
    BY <2>1, <2>2, <2>3
<1> HIDE DEF n, header, from, parts, accounts
<1>6. n # 0
  BY DEF n
<1>7. PICK f : Joined(parts, f) /\ FlattenSeq(parts) = f[n]
  <2>1. Len(parts) > 0
    BY <1>1, <1>3, <1>6
  <2> QED
    BY <1>3, <2>1, Flattens
<1>8. Layout(Metas, n, slices, parts, f, from)
  <2>1. \A k \in 1 .. n : f[k] = IF k = 1 THEN parts[k] ELSE f[k - 1] \o parts[k]
    BY <1>3, <1>7 DEF Joined
  <2>2. \A i \in 1 .. n : \E pair \in Seq(Metas) : Len(pair) = 2 /\ parts[i] = pair \o slices[i]
    BY <1>3, MetasTyped
  <2> QED
    BY <1>1, <1>5, <2>1, <2>2 DEF Layout
<1>9. f[n] \in Seq(Metas) /\ \A i \in 1 .. n : LiesIn(f[n], from[i], slices[i])
  BY <1>1, <1>6, <1>8, AllPlaced DEF Placed
<1>10. /\ accounts \in Seq(Metas) /\ Len(accounts) = 3 + Len(f[n]) /\ Len(f[n]) \in Nat
      /\ \A x \in 1 .. Len(f[n]) : accounts[3 + x] = f[n][x]
  <2>1. accounts = RouterPrefix \o f[n]
    BY <1>4, <1>7
  <2> DEFINE rest == f[n]
  <2>2. rest \in Seq(Metas) /\ RouterPrefix \in Seq(Metas)
    BY <1>9, MetasTyped
  <2> HIDE DEF rest
  <2>3. /\ RouterPrefix \o rest \in Seq(Metas)
        /\ Len(RouterPrefix \o rest) = Len(RouterPrefix) + Len(rest) /\ Len(rest) \in Nat
        /\ \A x \in 1 .. Len(rest) : (RouterPrefix \o rest)[Len(RouterPrefix) + x] = rest[x]
    BY <2>2, TwoLists
  <2>4. Len(RouterPrefix) = 3
    BY MetasTyped
  <2> QED
    BY <2>1, <2>3, <2>4, Zenon DEF rest
<1>11. Len(accounts) > 2
  <2> DEFINE a == Len(accounts)
             b == Len(f[n])
  <2>1. a = 3 + b /\ b \in Nat
    BY <1>10
  <2> HIDE DEF a, b
  <2>2. a > 2
    BY <2>1
  <2> QED
    BY <2>2 DEF a
<1>12. ASSUME NEW i \in 1 .. n
       PROVE  /\ from[i] \in Nat /\ from[i] + Len(slices[i]) <= Len(accounts)
              /\ \A j \in 1 .. Len(slices[i]) : accounts[from[i] + j] = slices[i][j]
  <2> DEFINE a == from[i]
             len == Len(slices[i])
             all == Len(accounts)
             b == Len(f[n])
  <2>1. /\ a \in Nat /\ a >= 3 /\ a + len <= 3 + b
        /\ \A j \in 1 .. len : f[n][a - 3 + j] = slices[i][j]
    BY <1>9 DEF LiesIn
  <2>2. len \in Nat /\ b \in Nat /\ all = 3 + b
    BY <1>1, <1>10
  <2>3. \A x \in 1 .. b : accounts[3 + x] = f[n][x]
    BY <1>10
  <2> HIDE DEF a, len, all, b
  <2>4. \A j \in 1 .. len : a - 3 + j \in 1 .. b /\ a + j = 3 + (a - 3 + j)
    BY <2>1, <2>2
  <2>5. \A j \in 1 .. len : accounts[a + j] = slices[i][j]
    BY <2>1, <2>3, <2>4
  <2>6. a + len <= all
    BY <2>1, <2>2
  <2> QED
    BY <2>1, <2>5, <2>6 DEF a, len, all
<1> QED
  BY <1>10, <1>11, <1>12 DEF Holds, n, accounts, from, header

\* What the router cuts out of the list is what was built for each hook,
\* whatever hooks there are, in whatever order, and however long the slices.
THEOREM RouterCutsSlices ==
  ASSUME NEW S, NEW hooks \in Seq(S), NEW slices \in Seq(Seq(Metas)), Len(hooks) = Len(slices)
  PROVE  RouterSplit(hooks, FanOut(hooks, slices).header, FanOut(hooks, slices).accounts) = slices
<1> DEFINE n == Len(slices)
           header == Header(slices)
           from == SlicesFrom(header)
           accounts == FanOut(hooks, slices).accounts
           split == RouterSplit(hooks, header, accounts)
<1>1. /\ n \in Nat /\ DOMAIN hooks = 1 .. n /\ DOMAIN slices = 1 .. n
      /\ \A i \in 1 .. n : slices[i] \in Seq(Metas) /\ Len(slices[i]) \in Nat
  OBVIOUS
<1>2. /\ \A i \in 1 .. n : header[i] = Len(slices[i])
      /\ FanOut(hooks, slices).header = header
  BY <1>1 DEF Header, FanOut
<1>3. split = [i \in 1 .. n |-> split[i]] /\ slices = [i \in 1 .. n |-> slices[i]]
  BY <1>1 DEF RouterSplit
<1>4. ASSUME NEW i \in 1 .. n
      PROVE  split[i] = slices[i]
  <2> DEFINE a == from[i]
             len == Len(slices[i])
             cut == SubSeq(accounts, a + 1, a + len)
  <2>1. /\ accounts \in Seq(Metas)
        /\ \A k \in 1 .. n : /\ from[k] \in Nat /\ from[k] + Len(slices[k]) <= Len(accounts)
                             /\ \A j \in 1 .. Len(slices[k]) : accounts[from[k] + j] = slices[k][j]
    <3>1. Len(slices) # 0
      BY <1>1
    <3>2. Holds(accounts, slices)
      <4> HIDE DEF n, header, from
      <4> QED
        BY <3>1, FanOutHolds
    <3> QED
      BY <3>2 DEF Holds
  <2> HIDE DEF n, header, from, accounts
  <2>2. /\ accounts \in Seq(Metas) /\ a \in Nat /\ a + len <= Len(accounts)
        /\ \A j \in 1 .. len : accounts[a + j] = slices[i][j]
    BY <2>1
  <2>3. len \in Nat /\ slices[i] \in Seq(Metas) /\ header[i] = len /\ i \in DOMAIN hooks
    BY <1>1, <1>2
  <2> HIDE DEF a, len
  <2>4. ~(a + len > Len(accounts))
    BY <2>2, <2>3
  <2>5. split[i] = cut
    BY <2>3, <2>4 DEF RouterSplit, a, from
  <2>6. /\ cut \in Seq(Metas) /\ Len(cut) = len
        /\ \A j \in 1 .. len : cut[j] = accounts[a + j]
    <3>1. accounts \in Seq(Metas) /\ a \in Nat /\ len \in Nat /\ a + len <= Len(accounts)
      BY <2>2, <2>3
    <3> QED
      BY <3>1, PartOf
  <2> HIDE DEF cut
  <2>7. \A j \in 1 .. len : cut[j] = slices[i][j]
    BY <2>2, <2>6
  <2>8. cut = slices[i]
    <3>1. cut \in Seq(Metas) /\ slices[i] \in Seq(Metas) /\ Len(cut) = Len(slices[i])
      BY <2>3, <2>6 DEF len
    <3>2. \A j \in 1 .. Len(cut) : cut[j] = slices[i][j]
      BY <2>6, <2>7
    <3> QED
      BY <3>1, <3>2, SameList
  <2> QED
    BY <2>5, <2>8
<1> HIDE DEF n, header, accounts
<1>5. split = slices
  <2> HIDE DEF split
  <2> QED
    BY <1>3, <1>4
<1> QED
  BY <1>2, <1>5 DEF accounts

\* An account that has a name can be passed in each of the three ways.
LEMMA NamesAreMetas ==
  ASSUME NEW a \in Accounts
  PROVE  RO(a) \in Metas /\ WR(a) \in Metas /\ WS(a) \in Metas
BY DEF RO, WR, WS, Meta, Metas

\* The slice of each hook and action is a list of accounts.
LEMMA SliceTyped ==
  ASSUME NEW h \in {"fund", "sub"}, NEW action \in Ops, NEW seen, NEW routed
  PROVE  Slice(h, action, seen, routed) \in Seq(Metas)
<1>1. /\ Sysvar \in Metas /\ StateOf("fund") \in Metas /\ StateOf("sub") \in Metas
      /\ \A a \in Accounts : RO(a) \in Metas /\ WR(a) \in Metas /\ WS(a) \in Metas
  BY NamesAreMetas DEF Sysvar, StateOf, Accounts
<1>2. \A full : FundSetBudget(full) \in Seq(Metas)
  <2> TAKE full
  <2>1. /\ WS("provider") \in Metas /\ WR("request") \in Metas /\ WR("requestMap") \in Metas
        /\ RO("job") \in Metas /\ RO("system") \in Metas
    BY <1>1 DEF Accounts
  <2> QED
    BY <1>1, <2>1 DEF FundSetBudget
<1>3. \A full : SubSetBudget(full, routed) \in Seq(Metas)
  <2> TAKE full
  <2>1. /\ WS("provider") \in Metas /\ WR("terms") \in Metas /\ RO("expiry") \in Metas
        /\ RO("job") \in Metas /\ RO("system") \in Metas
    BY <1>1 DEF Accounts
  <2>2. <<RO("job")>> \in Seq(Metas) /\ <<StateOf("sub"), Sysvar>> \in Seq(Metas)
    BY <1>1, <2>1
  <2> QED
    BY <1>1, <2>1, <2>2, TwoLists DEF SubSetBudget
<1>4. \A full : FundFund(full) \in Seq(Metas)
  <2> TAKE full
  <2>1. /\ RO("requestMap") \in Metas /\ WR("request") \in Metas /\ WR("from") \in Metas
        /\ WR("to") \in Metas /\ RO("token") \in Metas
    BY <1>1 DEF Accounts
  <2>2. /\ <<StateOf("fund"), Sysvar, RO("requestMap")>> \in Seq(Metas)
        /\ <<WR("request"), WR("from"), WR("to"), RO("token")>> \in Seq(Metas)
    BY <1>1, <2>1
  <2> QED
    BY <2>2, TwoLists DEF FundFund
<1>5. SubFund \in Seq(Metas) /\ SubSubmit \in Seq(Metas) /\ SubReject \in Seq(Metas)
  <2>1. /\ RO("terms") \in Metas /\ RO("job") \in Metas /\ WR("terms") \in Metas
        /\ RO("acpState") \in Metas /\ WR("sponsor") \in Metas
    BY <1>1 DEF Accounts
  <2> QED
    BY <1>1, <2>1 DEF SubFund, SubSubmit, SubReject
<1>6. \A full : FundSubmit(full) \in Seq(Metas)
  <2> TAKE full
  <2>1. /\ WS("provider") \in Metas /\ WR("escrow") \in Metas /\ WR("escrowMap") \in Metas
        /\ WR("providerToken") \in Metas /\ WR("escrowVault") \in Metas
        /\ RO("escrowAuthority") \in Metas /\ RO("token") \in Metas
        /\ RO("job") \in Metas /\ RO("system") \in Metas
    BY <1>1 DEF Accounts
  <2> QED
    BY <1>1, <2>1 DEF FundSubmit
<1>7. \A full : FundSettle(full, "clientToken") \in Seq(Metas) /\ FundSettle(full, "providerToken") \in Seq(Metas)
  <2> TAKE full
  <2>1. /\ RO("escrowMap") \in Metas /\ WR("escrow") \in Metas /\ WR("escrowVault") \in Metas
        /\ WR("clientToken") \in Metas /\ WR("providerToken") \in Metas
        /\ RO("escrowAuthority") \in Metas /\ RO("token") \in Metas
        /\ RO("acpState") \in Metas /\ WR("sponsor") \in Metas /\ RO("job") \in Metas
    BY <1>1 DEF Accounts
  <2>2. <<StateOf("fund"), Sysvar, RO("escrowMap")>> \in Seq(Metas) /\ <<>> \in Seq(Metas)
    BY <1>1, <2>1
  <2>3. \A dest \in {"clientToken", "providerToken"} :
          <<WR("escrow"), WR("escrowVault"), WR(dest), RO("escrowAuthority"),
                      RO("token"), RO("acpState"), WR("sponsor"), RO("job")>> \in Seq(Metas)
    BY <2>1
  <2> QED
    BY <2>2, <2>3, TwoLists DEF FundSettle
<1>8. \A full : SubComplete(full) \in Seq(Metas)
  <2> TAKE full
  <2>1. /\ WR("terms") \in Metas /\ WR("provider") \in Metas /\ RO("job") \in Metas
        /\ RO("subProgram") \in Metas /\ RO("writer") \in Metas /\ WR("expiry") \in Metas
        /\ RO("system") \in Metas /\ RO("acpState") \in Metas /\ WR("sponsor") \in Metas
        /\ RO("terms") \in Metas
    BY <1>1 DEF Accounts
  <2> QED
    BY <1>1, <2>1 DEF SubComplete
<1> QED
  BY <1>2, <1>3, <1>4, <1>5, <1>6, <1>7, <1>8 DEF Slice, Ops

\* What the fan-out of an action is made from.
LEMMA RoutedShape ==
  ASSUME NEW action \in Ops, NEW seen
  PROVE  LET hooks == HooksOf("router", action)
             slices == [i \in DOMAIN hooks |-> Slice(hooks[i], action, seen, TRUE)]
         IN /\ hooks \in Seq({"fund", "sub"}) /\ slices \in Seq(Seq(Metas))
            /\ Len(hooks) = Len(slices) /\ Len(slices) # 0
            /\ \A i \in DOMAIN hooks : hooks[i] \in {"fund", "sub"}
<1> DEFINE hooks == HooksOf("router", action)
           slices == [i \in DOMAIN hooks |-> Slice(hooks[i], action, seen, TRUE)]
<1>1. hooks = <<"fund">> \/ hooks = <<"sub", "fund">>
  BY DEF HooksOf
<1>2. /\ hooks \in Seq({"fund", "sub"}) /\ Len(hooks) \in Nat /\ Len(hooks) # 0
      /\ DOMAIN hooks = 1 .. Len(hooks) /\ \A i \in DOMAIN hooks : hooks[i] \in {"fund", "sub"}
  <2> HIDE DEF hooks
  <2>1. CASE hooks = <<"fund">>
    BY <2>1
  <2>2. CASE hooks = <<"sub", "fund">>
    BY <2>2
  <2> QED
    BY <1>1, <2>1, <2>2
<1>3. \A i \in DOMAIN hooks : Slice(hooks[i], action, seen, TRUE) \in Seq(Metas)
  BY <1>2, SliceTyped
<1> HIDE DEF hooks
<1>4. slices \in Seq(Seq(Metas)) /\ Len(hooks) = Len(slices)
  <2>1. slices \in [1 .. Len(hooks) -> Seq(Metas)]
    BY <1>2, <1>3
  <2> HIDE DEF slices
  <2> QED
    BY <1>2, <2>1
<1> HIDE DEF slices
<1> QED
  BY <1>2, <1>4 DEF hooks, slices

\* What the router cuts out of the list appended for an action is the slices
\* of its hooks.
LEMMA RoutedExtra ==
  ASSUME NEW action \in Ops, NEW seen, NEW evaluated
  PROVE  LET hooks == HooksOf("router", action)
             extra == Appended("router", action, seen, evaluated)
         IN RouterSplit(hooks, extra.header, extra.accounts)
              = [i \in DOMAIN hooks |-> Slice(hooks[i], action, seen, TRUE)]
<1> DEFINE hooks == HooksOf("router", action)
           slices == [i \in DOMAIN hooks |-> Slice(hooks[i], action, seen, TRUE)]
           extra == Appended("router", action, seen, evaluated)
<1>1. hooks \in Seq({"fund", "sub"}) /\ slices \in Seq(Seq(Metas)) /\ Len(hooks) = Len(slices)
  BY RoutedShape
<1>2. extra.header = FanOut(hooks, slices).header /\ extra.accounts = FanOut(hooks, slices).accounts
  BY DEF Appended, hooks
<1> HIDE DEF hooks, slices, extra
<1>3. RouterSplit(hooks, extra.header, extra.accounts) = slices
  BY <1>1, <1>2, RouterCutsSlices
<1> QED
  BY <1>3 DEF hooks, slices, extra

\* What is in one of two lists is in both joined.
LEMMA InBoth ==
  ASSUME NEW T, NEW s \in Seq(T), NEW t \in Seq(T)
  PROVE  ToSet(s) \cup ToSet(t) \subseteq ToSet(s \o t)
<1>1. /\ s \o t \in Seq(T) /\ Len(s \o t) = Len(s) + Len(t) /\ Len(s) \in Nat /\ Len(t) \in Nat
      /\ \A x \in 1 .. Len(s) : (s \o t)[x] = s[x]
      /\ \A x \in 1 .. Len(t) : (s \o t)[Len(s) + x] = t[x]
  BY TwoLists
<1>2. /\ ToSet(s) = {s[x] : x \in 1 .. Len(s)} /\ ToSet(t) = {t[x] : x \in 1 .. Len(t)}
      /\ ToSet(s \o t) = {(s \o t)[x] : x \in 1 .. Len(s \o t)}
  BY <1>1 DEF ToSet
<1>3. \A x \in 1 .. Len(s) : x \in 1 .. Len(s \o t)
  BY <1>1
<1>4. \A x \in 1 .. Len(t) : Len(s) + x \in 1 .. Len(s \o t)
  BY <1>1
<1> QED
  BY <1>1, <1>2, <1>3, <1>4

\* What is in a slice that was built for something to work on, and what is in
\* one that was not.
LEMMA FundHolds ==
  /\ \A full : /\ {StateOf("fund"), Sysvar} \subseteq ToSet(FundSetBudget(full))
               /\ full => {WS("provider"), WR("request"), WR("requestMap"), RO("job"), RO("system")}
                            \subseteq ToSet(FundSetBudget(full))
  /\ \A full : /\ {StateOf("fund"), Sysvar, RO("requestMap")} \subseteq ToSet(FundFund(full))
               /\ full => {WR("request"), WR("from"), WR("to"), RO("token")}
                            \subseteq ToSet(FundFund(full))
  /\ \A full : /\ {StateOf("fund"), Sysvar} \subseteq ToSet(FundSubmit(full))
               /\ full => {WS("provider"), WR("escrow"), WR("escrowMap"), WR("providerToken"),
                           WR("escrowVault"), RO("escrowAuthority"), RO("token"), RO("system"),
                           RO("job")} \subseteq ToSet(FundSubmit(full))
  /\ \A full : \A dest \in {"clientToken", "providerToken"} :
       /\ {StateOf("fund"), Sysvar, RO("escrowMap")} \subseteq ToSet(FundSettle(full, dest))
       /\ full => {WR("escrow"), WR("escrowVault"), RO("escrowAuthority"), RO("token"),
                   RO("acpState"), WR("sponsor"), RO("job"), WR(dest)}
                    \subseteq ToSet(FundSettle(full, dest))
<1>1. \A a, b, c : ToSet(<<a, b, c>>) = {a, b, c}
  BY DEF ToSet
<1>2. \A a, b, c, d, e, f, g :
        {a, b, c, d, e, f, g} \subseteq ToSet(<<a, b, c, d, e, f, g>>)
  BY DEF ToSet
<1>3. \A a, b, c, d, e, f, g, h, i, j, k :
        {a, b, c, d, e, f, g, h, i, j, k} \subseteq ToSet(<<a, b, c, d, e, f, g, h, i, j, k>>)
  BY DEF ToSet
<1>4. \A a, b, c, d : {a, b, c, d} \subseteq ToSet(<<a, b, c, d>>)
  BY DEF ToSet
<1>5. \A a, b, c, d, e, f, g, h :
        {a, b, c, d, e, f, g, h} \subseteq ToSet(<<a, b, c, d, e, f, g, h>>)
  BY DEF ToSet
<1>6. ASSUME NEW full
      PROVE  /\ {StateOf("fund"), Sysvar} \subseteq ToSet(FundSetBudget(full))
             /\ full => {WS("provider"), WR("request"), WR("requestMap"), RO("job"), RO("system")}
                          \subseteq ToSet(FundSetBudget(full))
  <2>1. CASE full
    <3>1. FundSetBudget(full) = <<StateOf("fund"), Sysvar, WS("provider"), WR("request"),
                                  WR("requestMap"), RO("job"), RO("system")>>
      BY <2>1 DEF FundSetBudget
    <3> QED
      BY <1>2, <3>1
  <2>2. CASE ~full
    <3>1. FundSetBudget(full) = <<StateOf("fund"), Sysvar, RO("job")>>
      BY <2>2 DEF FundSetBudget
    <3> QED
      BY <1>1, <2>2, <3>1
  <2> QED
    BY <2>1, <2>2
<1>7. ASSUME NEW full
      PROVE  /\ {StateOf("fund"), Sysvar} \subseteq ToSet(FundSubmit(full))
             /\ full => {WS("provider"), WR("escrow"), WR("escrowMap"), WR("providerToken"),
                         WR("escrowVault"), RO("escrowAuthority"), RO("token"), RO("system"),
                         RO("job")} \subseteq ToSet(FundSubmit(full))
  <2>1. CASE full
    <3>1. FundSubmit(full) = <<StateOf("fund"), Sysvar, WS("provider"), WR("escrow"), WR("escrowMap"),
                 WR("providerToken"), WR("escrowVault"), RO("escrowAuthority"), RO("token"),
                 RO("system"), RO("job")>>
      BY <2>1 DEF FundSubmit
    <3> QED
      BY <1>3, <3>1
  <2>2. CASE ~full
    <3>1. FundSubmit(full) = <<StateOf("fund"), Sysvar, RO("job")>>
      BY <2>2 DEF FundSubmit
    <3> QED
      BY <1>1, <2>2, <3>1
  <2> QED
    BY <2>1, <2>2
<1>8. ASSUME NEW full
      PROVE  /\ {StateOf("fund"), Sysvar, RO("requestMap")} \subseteq ToSet(FundFund(full))
             /\ full => {WR("request"), WR("from"), WR("to"), RO("token")}
                          \subseteq ToSet(FundFund(full))
  <2> DEFINE T == {StateOf("fund"), Sysvar, RO("requestMap"), WR("request"), WR("from"),
                   WR("to"), RO("token")}
             s == <<StateOf("fund"), Sysvar, RO("requestMap")>>
             t == IF full THEN <<WR("request"), WR("from"), WR("to"), RO("token")>> ELSE <<>>
  <2>1. FundFund(full) = s \o t
    BY DEF FundFund
  <2>a. /\ StateOf("fund") \in T /\ Sysvar \in T /\ RO("requestMap") \in T
        /\ WR("request") \in T /\ WR("from") \in T /\ WR("to") \in T /\ RO("token") \in T
    OBVIOUS
  <2> HIDE DEF T
  <2>2. s \in Seq(T) /\ t \in Seq(T)
    <3>1. s \in Seq(T) /\ <<>> \in Seq(T)
      BY <2>a
    <3>2. <<WR("request"), WR("from"), WR("to"), RO("token")>> \in Seq(T)
      BY <2>a
    <3> QED
      BY <3>1, <3>2
  <2>3. {StateOf("fund"), Sysvar, RO("requestMap")} \subseteq ToSet(s)
    BY <1>1
  <2>4. full => {WR("request"), WR("from"), WR("to"), RO("token")} \subseteq ToSet(t)
    BY <1>4
  <2> HIDE DEF s, t
  <2> QED
    BY <2>1, <2>2, <2>3, <2>4, InBoth
<1>9. ASSUME NEW full, NEW dest
      PROVE  /\ {StateOf("fund"), Sysvar, RO("escrowMap")} \subseteq ToSet(FundSettle(full, dest))
             /\ full => {WR("escrow"), WR("escrowVault"), RO("escrowAuthority"), RO("token"),
                         RO("acpState"), WR("sponsor"), RO("job"), WR(dest)}
                          \subseteq ToSet(FundSettle(full, dest))
  <2> DEFINE T == {StateOf("fund"), Sysvar, RO("escrowMap"), WR("escrow"), WR("escrowVault"),
                   WR(dest), RO("escrowAuthority"), RO("token"), RO("acpState"), WR("sponsor"),
                   RO("job")}
             s == <<StateOf("fund"), Sysvar, RO("escrowMap")>>
             t == IF full THEN <<WR("escrow"), WR("escrowVault"), WR(dest), RO("escrowAuthority"),
                                 RO("token"), RO("acpState"), WR("sponsor"), RO("job")>>
                  ELSE <<>>
  <2>1. FundSettle(full, dest) = s \o t
    BY DEF FundSettle
  <2>a. /\ StateOf("fund") \in T /\ Sysvar \in T /\ RO("escrowMap") \in T
        /\ WR("escrow") \in T /\ WR("escrowVault") \in T /\ WR(dest) \in T
        /\ RO("escrowAuthority") \in T /\ RO("token") \in T /\ RO("acpState") \in T
        /\ WR("sponsor") \in T /\ RO("job") \in T
    OBVIOUS
  <2> HIDE DEF T
  <2>2. s \in Seq(T) /\ t \in Seq(T)
    <3>1. s \in Seq(T) /\ <<>> \in Seq(T)
      BY <2>a
    <3>2. <<WR("escrow"), WR("escrowVault"), WR(dest), RO("escrowAuthority"),
            RO("token"), RO("acpState"), WR("sponsor"), RO("job")>> \in Seq(T)
      BY <2>a
    <3> QED
      BY <3>1, <3>2
  <2>3. {StateOf("fund"), Sysvar, RO("escrowMap")} \subseteq ToSet(s)
    BY <1>1
  <2>4. full => {WR("escrow"), WR("escrowVault"), RO("escrowAuthority"), RO("token"),
                 RO("acpState"), WR("sponsor"), RO("job"), WR(dest)} \subseteq ToSet(t)
    BY <1>5
  <2> HIDE DEF s, t
  <2> QED
    BY <2>1, <2>2, <2>3, <2>4, InBoth
<1> QED
  BY <1>6, <1>7, <1>8, <1>9

\* The same for the subscription hook.
LEMMA SubHolds ==
  /\ \A full, routed :
       /\ {StateOf("sub"), Sysvar} \subseteq ToSet(SubSetBudget(full, routed))
       /\ full => {WS("provider"), WR("terms"), RO("job"), RO("expiry"), RO("system")}
                    \subseteq ToSet(SubSetBudget(full, routed))
  /\ {StateOf("sub"), Sysvar, RO("terms")} \subseteq ToSet(SubFund)
  /\ {StateOf("sub"), Sysvar} \subseteq ToSet(SubSubmit)
  /\ \A full : /\ {StateOf("sub"), Sysvar} \subseteq ToSet(SubComplete(full))
               /\ ~full => RO("terms") \in ToSet(SubComplete(full))
               /\ full => {WR("terms"), WR("provider"), RO("job"), RO("subProgram"), RO("writer"),
                           WR("expiry"), RO("system"), RO("acpState"), WR("sponsor")}
                            \subseteq ToSet(SubComplete(full))
  /\ {StateOf("sub"), Sysvar, WR("terms"), RO("acpState"), WR("sponsor"), RO("job")}
       \subseteq ToSet(SubReject)
<1>1. \A a, b, c : ToSet(<<a, b, c>>) = {a, b, c}
  BY DEF ToSet
<1>2. \A a, b, c, d, e, f, g :
        {a, b, c, d, e, f, g} \subseteq ToSet(<<a, b, c, d, e, f, g>>)
  BY DEF ToSet
<1>3. \A a, b, c, d, e, f, g, h, i, j, k :
        {a, b, c, d, e, f, g, h, i, j, k} \subseteq ToSet(<<a, b, c, d, e, f, g, h, i, j, k>>)
  BY DEF ToSet
<1>4. \A a, b, c, d, e, f : {a, b, c, d, e, f} \subseteq ToSet(<<a, b, c, d, e, f>>)
  BY DEF ToSet
<1>5. ASSUME NEW full, NEW routed
      PROVE  /\ {StateOf("sub"), Sysvar} \subseteq ToSet(SubSetBudget(full, routed))
             /\ full => {WS("provider"), WR("terms"), RO("job"), RO("expiry"), RO("system")}
                          \subseteq ToSet(SubSetBudget(full, routed))
  <2>1. CASE full
    <3>1. SubSetBudget(full, routed) = <<StateOf("sub"), Sysvar, WS("provider"), WR("terms"),
                                         RO("job"), RO("expiry"), RO("system")>>
      BY <2>1 DEF SubSetBudget
    <3> QED
      BY <1>2, <3>1
  <2>2. CASE ~full
    <3> DEFINE T == {StateOf("sub"), Sysvar, RO("job")}
               s == <<StateOf("sub"), Sysvar>>
               t == IF routed THEN <<>> ELSE <<RO("job")>>
    <3>1. SubSetBudget(full, routed) = s \o t
      BY <2>2 DEF SubSetBudget
    <3>a. StateOf("sub") \in T /\ Sysvar \in T /\ RO("job") \in T
      OBVIOUS
    <3> HIDE DEF T
    <3>2. s \in Seq(T) /\ t \in Seq(T)
      <4>1. s \in Seq(T) /\ <<>> \in Seq(T)
        BY <3>a
      <4>2. <<RO("job")>> \in Seq(T)
        BY <3>a
      <4> QED
        BY <4>1, <4>2
    <3>3. {StateOf("sub"), Sysvar} \subseteq ToSet(s)
      BY DEF ToSet
    <3> HIDE DEF s, t
    <3> QED
      BY <2>2, <3>1, <3>2, <3>3, InBoth
  <2> QED
    BY <2>1, <2>2
<1>6. ASSUME NEW full
      PROVE  /\ {StateOf("sub"), Sysvar} \subseteq ToSet(SubComplete(full))
             /\ ~full => RO("terms") \in ToSet(SubComplete(full))
             /\ full => {WR("terms"), WR("provider"), RO("job"), RO("subProgram"), RO("writer"),
                         WR("expiry"), RO("system"), RO("acpState"), WR("sponsor")}
                          \subseteq ToSet(SubComplete(full))
  <2>1. CASE full
    <3>1. SubComplete(full) = <<StateOf("sub"), Sysvar, WR("terms"), WR("provider"), RO("job"),
                 RO("subProgram"), RO("writer"), WR("expiry"), RO("system"),
                 RO("acpState"), WR("sponsor")>>
      BY <2>1 DEF SubComplete
    <3> QED
      BY <1>3, <2>1, <3>1
  <2>2. CASE ~full
    <3>1. SubComplete(full) = <<StateOf("sub"), Sysvar, RO("terms")>>
      BY <2>2 DEF SubComplete
    <3> QED
      BY <1>1, <2>2, <3>1
  <2> QED
    BY <2>1, <2>2
<1>7. {StateOf("sub"), Sysvar, RO("terms")} \subseteq ToSet(SubFund)
  BY <1>1 DEF SubFund
<1>8. {StateOf("sub"), Sysvar} \subseteq ToSet(SubSubmit)
  BY <1>1 DEF SubSubmit
<1>9. {StateOf("sub"), Sysvar, WR("terms"), RO("acpState"), WR("sponsor"), RO("job")}
        \subseteq ToSet(SubReject)
  BY <1>4 DEF SubReject
<1> QED
  BY <1>5, <1>6, <1>7, <1>8, <1>9

\* A slice covers what its hook works on, where it was built for it.
LEMMA SliceCovers ==
  ASSUME NEW h \in {"fund", "sub"}, NEW action \in Ops, NEW l, NEW seen, NEW routed, NEW escrowLive,
         h = "fund" /\ action = "setBudget" /\ l.args.proposal # NoToken => seen.request,
         h = "fund" /\ action = "fund" /\ job.request.live => seen.request,
         h = "fund" /\ action = "submit" /\ StakeOf(l) # NoToken => seen.escrow,
         h = "fund" /\ action \in {"complete", "reject"} /\ escrowLive => seen.escrow,
         h = "sub" /\ action = "setBudget" /\ l.args.terms => seen.terms,
         h = "sub" /\ action = "complete" => (seen.terms <=> job.terms = "set")
  PROVE  Finds(h, Slice(h, action, seen, routed), l, action, escrowLive)
<1> DEFINE part == Slice(h, action, seen, routed)
           needs == {StateOf(h), Sysvar} \cup Touches(h, l, action, escrowLive)
<1>1. needs \subseteq ToSet(part)
  <2>1. CASE h = "fund" /\ action = "setBudget"
    <3>1. part = FundSetBudget(seen.request)
      BY <2>1 DEF Slice
    <3>2. needs = {StateOf("fund"), Sysvar} \cup
            (IF l.args.proposal # NoToken
             THEN {WS("provider"), WR("request"), WR("requestMap"), RO("job"), RO("system")} ELSE {})
      BY <2>1 DEF Touches
    <3> HIDE DEF part, needs
    <3> QED
      BY <2>1, <3>1, <3>2, FundHolds
  <2>2. CASE h = "fund" /\ action = "fund"
    <3>1. part = FundFund(seen.request)
      BY <2>2 DEF Slice
    <3>2. needs = {StateOf("fund"), Sysvar} \cup ({RO("requestMap")} \cup
            (IF job.request.live THEN {WR("request"), WR("from"), WR("to"), RO("token")} ELSE {}))
      BY <2>2 DEF Touches
    <3> HIDE DEF part, needs
    <3> QED
      BY <2>2, <3>1, <3>2, FundHolds
  <2>3. CASE h = "fund" /\ action = "submit"
    <3>1. part = FundSubmit(seen.escrow)
      BY <2>3 DEF Slice
    <3>2. needs = {StateOf("fund"), Sysvar} \cup
            (IF StakeOf(l) # NoToken
             THEN {WS("provider"), WR("escrow"), WR("escrowMap"), WR("providerToken"),
                   WR("escrowVault"), RO("escrowAuthority"), RO("token"), RO("system"), RO("job")}
             ELSE {})
      BY <2>3 DEF Touches
    <3> HIDE DEF part, needs
    <3> QED
      BY <2>3, <3>1, <3>2, FundHolds
  <2>4. CASE h = "fund" /\ action \in {"complete", "reject"}
    <3> DEFINE dest == IF action = "complete" THEN "clientToken" ELSE "providerToken"
    <3>1. part = FundSettle(seen.escrow, dest)
      BY <2>4 DEF Slice
    <3>2. needs = {StateOf("fund"), Sysvar} \cup ({RO("escrowMap")} \cup
            (IF escrowLive
             THEN {WR("escrow"), WR("escrowVault"), RO("escrowAuthority"), RO("token"),
                   RO("acpState"), WR("sponsor"), RO("job"), WR(dest)}
             ELSE {}))
      BY <2>4 DEF Touches
    <3>3. dest \in {"clientToken", "providerToken"}
      OBVIOUS
    <3> HIDE DEF part, needs, dest
    <3> QED
      BY <2>4, <3>1, <3>2, <3>3, FundHolds
  <2>5. CASE h = "sub" /\ action = "setBudget"
    <3>1. part = SubSetBudget(seen.terms, routed)
      BY <2>5 DEF Slice
    <3>2. needs = {StateOf("sub"), Sysvar} \cup
            (IF l.args.terms THEN {WS("provider"), WR("terms"), RO("job"), RO("expiry"), RO("system")}
             ELSE {})
      BY <2>5 DEF Touches
    <3> HIDE DEF part, needs
    <3> QED
      BY <2>5, <3>1, <3>2, SubHolds
  <2>6. CASE h = "sub" /\ action = "fund"
    <3>1. part = SubFund /\ needs = {StateOf("sub"), Sysvar} \cup {RO("terms")}
      BY <2>6 DEF Slice, Touches
    <3> HIDE DEF part, needs
    <3> QED
      BY <3>1, SubHolds
  <2>7. CASE h = "sub" /\ action = "submit"
    <3>1. part = SubSubmit /\ needs = {StateOf("sub"), Sysvar}
      BY <2>7 DEF Slice, Touches
    <3> HIDE DEF part, needs
    <3> QED
      BY <3>1, SubHolds
  <2>8. CASE h = "sub" /\ action = "complete"
    <3>1. part = SubComplete(seen.terms)
      BY <2>8 DEF Slice
    <3>2. needs = {StateOf("sub"), Sysvar} \cup
            (IF job.terms = "set"
             THEN {WR("terms"), WR("provider"), RO("job"), RO("subProgram"), RO("writer"),
                   WR("expiry"), RO("system"), RO("acpState"), WR("sponsor")}
             ELSE {RO("terms")})
      BY <2>8 DEF Touches
    <3> HIDE DEF part, needs
    <3> QED
      BY <2>8, <3>1, <3>2, SubHolds
  <2>9. CASE h = "sub" /\ action = "reject"
    <3>1. part = SubReject
      BY <2>9 DEF Slice
    <3>2. needs = {StateOf("sub"), Sysvar} \cup {WR("terms"), RO("acpState"), WR("sponsor"), RO("job")}
      BY <2>9 DEF Touches
    <3> HIDE DEF part, needs
    <3> QED
      BY <3>1, <3>2, SubHolds
  <2> QED
    BY <2>1, <2>2, <2>3, <2>4, <2>5, <2>6, <2>7, <2>8, <2>9 DEF Ops
<1>2. \A need \in ToSet(part) : Covers(part, need)
  BY DEF Covers
<1> HIDE DEF part, needs
<1>3. \A need \in needs : Covers(part, need)
  BY <1>1, <1>2
<1> QED
  BY <1>3 DEF part, needs, Finds

-----------------------------------------------------------------------------
(* A call stays within what its method was called for.                     *)

\* The state and the budget a call was built for are those its method asks for,
\* and what is being sent could be prepared.
CallFits(l) ==
  /\ l.method = "configure" => Routed /\ l.job.state = "open"
  /\ l.method # "configure" => l.job.state \in AllowedStates(l.method)
  /\ l.method = "submit" /\ l.job.state = "open" => l.job.budget = 0
  /\ l.method = "fund" => l.args.amount = l.job.budget
  /\ l.pc # "job" => CanPrepare(l)

CallsFit == \A a \in Actors : leg[a] # NoLeg => CallFits(leg[a])

\* There is no call at first, and what a call was called for never changes.
LEMMA CallsFitInit == Init => CallsFit
BY DEF Init, CallsFit

LEMMA CallsFitNext == TypeOK /\ CallsFit /\ [Next]_vars => CallsFit'
<1> SUFFICES ASSUME TypeOK, CallsFit, [Next]_vars PROVE CallsFit'
  OBVIOUS
<1>1. kind' = kind
  BY DEF Next, Step, CreateJob, ReadJob, ReadHook, Throws, PreCreate, Lands, Refused,
         CloseJobHookAccounts, AddSponsor, vars
\* A call that stays, or only moves on, keeps what it was called for.
<1>2. ASSUME NEW b \in Actors, leg'[b].method = leg[b].method, leg'[b].args = leg[b].args,
             leg'[b].job = leg[b].job, CallFits(leg[b]),
             leg'[b].pc # "job" => CanPrepare(leg[b])
      PROVE  CallFits(leg[b])'
  <2>1. leg'[b].pc # "job" => CanPrepare(leg[b])'
    BY <1>1, <1>2 DEF CanPrepare, Routed, StakeOf
  <2> QED
    BY <1>1, <1>2, <2>1 DEF CallFits, Routed
<1>3. ASSUME NEW a \in Actors, \A b \in Actors \ {a} : leg'[b] = leg[b],
             leg'[a] # NoLeg => CallFits(leg[a])'
      PROVE  CallsFit'
  <2>1. ASSUME NEW b \in Actors, leg'[b] # NoLeg, b # a
        PROVE  CallFits(leg[b])'
    <3>1. leg'[b] = leg[b] /\ CallFits(leg[b])
      BY <1>3, <2>1 DEF CallsFit
    <3>2. leg'[b].pc # "job" => CanPrepare(leg[b])
      BY <3>1 DEF CallFits
    <3> QED
      BY <1>2, <3>1, <3>2
  <2>2. \A b \in Actors : leg'[b] # NoLeg => CallFits(leg[b])'
    BY <1>3, <2>1
  <2> QED
    BY <2>2 DEF CallsFit
<1>4. ASSUME NEW a \in Actors, ReadJob(a)
      PROVE  CallsFit'
  <2>a. PICK method \in MethodsOf(a) : \E args \in ArgsOf(method) :
          /\ method = "configure" => Routed /\ job.state = "open"
          /\ method # "configure" => job.state \in AllowedStates(method)
          /\ method = "submit" /\ job.state = "open" => job.budget = 0
          /\ leg' = [leg EXCEPT ![a] =
                       [pc |-> "job", method |-> method, args |-> args, job |-> JobFacts,
                        request |-> Idle, escrow |-> FALSE, terms |-> FALSE]]
    BY <1>4 DEF ReadJob
  <2>1. PICK args \in ArgsOf(method) :
          /\ method = "configure" => Routed /\ job.state = "open"
          /\ method # "configure" => job.state \in AllowedStates(method)
          /\ method = "submit" /\ job.state = "open" => job.budget = 0
          /\ leg' = [leg EXCEPT ![a] =
                       [pc |-> "job", method |-> method, args |-> args, job |-> JobFacts,
                        request |-> Idle, escrow |-> FALSE, terms |-> FALSE]]
    BY <2>a
  <2>2. /\ leg'[a].pc = "job" /\ leg'[a].method = method /\ leg'[a].args = args
        /\ leg'[a].job = JobFacts /\ \A b \in Actors \ {a} : leg'[b] = leg[b]
    BY <2>1 DEF TypeOK
  <2>3. JobFacts.state = job.state /\ JobFacts.budget = job.budget
    BY DEF JobFacts
  <2>4. method = "fund" => args.amount = job.budget
    BY DEF ArgsOf
  <2>5. CallFits(leg[a])'
    BY <1>1, <2>1, <2>2, <2>3, <2>4 DEF CallFits, Routed
  <2> QED
    BY <1>3, <2>2, <2>5
<1>5. ASSUME NEW a \in Actors, ReadHook(a) \/ PreCreate(a)
      PROVE  CallsFit'
  <2>1. leg[a].pc # "idle" /\ leg[a] \in LegType /\ leg[a] # NoLeg
    BY <1>5, LegTyped DEF ReadHook, PreCreate, NoLeg
  <2>2. /\ leg'[a].method = leg[a].method /\ leg'[a].args = leg[a].args /\ leg'[a].job = leg[a].job
        /\ \A b \in Actors \ {a} : leg'[b] = leg[b]
    BY <1>5, <2>1 DEF ReadHook, PreCreate, TypeOK, LegType
  <2>3. CallFits(leg[a])
    BY <2>1 DEF CallsFit
  <2>4. CanPrepare(leg[a])
    BY <1>5, <2>3 DEF ReadHook, PreCreate, CallFits
  <2>5. CallFits(leg[a])'
    BY <1>2, <2>2, <2>3, <2>4
  <2> QED
    BY <1>3, <2>2, <2>5
<1>6. ASSUME NEW a \in Actors, Throws(a) \/ Refused(a) \/ Lands(a)
      PROVE  CallsFit'
  <2>1. leg'[a] = NoLeg /\ \A b \in Actors \ {a} : leg'[b] = leg[b]
    BY <1>6 DEF Throws, Refused, Lands, TypeOK
  <2> QED
    BY <1>3, <2>1
<1>7. CASE CreateJob \/ CloseJobHookAccounts \/ AddSponsor \/ UNCHANGED vars
  <2>1. leg' = leg
    BY <1>7 DEF CreateJob, CloseJobHookAccounts, AddSponsor, vars
  <2>2. ASSUME NEW b \in Actors, leg'[b] # NoLeg
        PROVE  CallFits(leg[b])'
    <3>1. leg'[b] = leg[b] /\ CallFits(leg[b])
      BY <2>1, <2>2 DEF CallsFit
    <3>2. leg'[b].pc # "job" => CanPrepare(leg[b])
      BY <3>1 DEF CallFits
    <3> QED
      BY <1>2, <3>1, <3>2
  <2> QED
    BY <2>2 DEF CallsFit
<1> QED
  BY <1>4, <1>5, <1>6, <1>7 DEF Next, Step

-----------------------------------------------------------------------------
(* What a call is given.                                                   *)

\* The router gives each hook the slice that was built for it.
THEOREM SlicesReach == Spec => []EachItsSlice
<1>1. Typed => EachItsSlice
  <2> SUFFICES ASSUME Typed, NEW a \in Actors, leg[a].pc = "built", Routed, leg[a].method # "configure"
               PROVE  LET l == leg[a]
                          hooks == HooksOf(kind.hook, l.method)
                          extra == Extra(l)
                      IN RouterSplit(hooks, extra.header, extra.accounts)
                           = [i \in DOMAIN hooks |-> Slice(hooks[i], l.method, Seen(l), TRUE)]
    BY DEF EachItsSlice
  <2>1. leg[a] \in LegType
    BY LegTyped DEF Typed
  <2>2. leg[a].method \in Ops
    BY <2>1, MethodsAre DEF LegType, Methods, Ops
  <2>3. kind.hook = "router" /\ Extra(leg[a]) = Appended("router", leg[a].method, Seen(leg[a]), kind.evaluated)
    BY DEF Routed, Extra
  <2> DEFINE action == leg[a].method
             seen == Seen(leg[a])
             evaluated == kind.evaluated
  <2> HIDE DEF action, seen, evaluated
  <2>4. LET hooks == HooksOf("router", action)
            extra == Appended("router", action, seen, evaluated)
        IN RouterSplit(hooks, extra.header, extra.accounts)
             = [i \in DOMAIN hooks |-> Slice(hooks[i], action, seen, TRUE)]
    <3>1. action \in Ops
      BY <2>2 DEF action
    <3> QED
      BY <3>1, RoutedExtra
  <2> QED
    BY <2>3, <2>4, Zenon DEF action, seen, evaluated
<1>2. Typed /\ [Next]_vars => Typed'
  BY TypeNext, FitNext DEF Typed
<1> QED
  BY TypeInit, <1>1, <1>2, PTL DEF Spec

\* A party's call that is up to date and that nothing outside it refuses.
Lives(l) ==
  /\ l \in LegType /\ l.method \in Ops /\ CallFits(l) /\ Fresh(l) /\ ~Refusable(l)

\* What a live call has read is what there is.
LEMMA LiveFacts ==
  ASSUME TypeOK, NEW l, Lives(l)
  PROVE  /\ l.pc = "built" /\ l.job = JobFacts
         /\ l.job.state = job.state /\ l.job.budget = job.budget
         /\ CanPrepare(l)
         /\ l.method = "fund" => l.request = job.request
         /\ l.method \in {"complete", "reject"} => l.escrow = job.escrow.live
         /\ l.method \in {"fund", "submit", "complete"} => l.terms = (job.terms = "set")
<1>1. /\ l.pc = "built" /\ l.job = JobFacts
      /\ [x \in {"request", "escrow", "terms"} |-> l[x]] = HookFacts(l.method)
  BY DEF Lives, Fresh
<1>2. [x \in {"request", "escrow", "terms"} |-> l[x]].request = l["request"]
  OBVIOUS
<1>3. [x \in {"request", "escrow", "terms"} |-> l[x]].escrow = l["escrow"]
  OBVIOUS
<1>4. [x \in {"request", "escrow", "terms"} |-> l[x]].terms = l["terms"]
  OBVIOUS
<1>5. /\ l.request = HookFacts(l.method).request /\ l.escrow = HookFacts(l.method).escrow
      /\ l.terms = HookFacts(l.method).terms
  BY <1>1, <1>2, <1>3, <1>4
<1>6. l.method = "fund" => l.request = job.request
  BY <1>5 DEF HookFacts
<1>7. l.method \in {"fund", "submit", "complete"} => l.terms = (job.terms = "set")
  BY <1>5 DEF HookFacts
<1>8. CanPrepare(l)
  BY <1>1 DEF Lives, CallFits
<1>9. l.job.state = job.state /\ l.job.budget = job.budget
  BY <1>1 DEF JobFacts
<1>10. l.method \in {"complete", "reject"} => l.escrow = job.escrow.live
  <2>1. job.escrow.live \in BOOLEAN
    BY DEF TypeOK, JobType, Intents
  <2> QED
    BY <1>5, <2>1 DEF HookFacts
<1> QED
  BY <1>1, <1>6, <1>7, <1>8, <1>9, <1>10

\* Every hook accepts what a live call gives it of its method.
LEMMA HookContent ==
  ASSUME TypeOK, NEW l, Lives(l), NEW h \in {"fund", "sub"}, kind.hook \in {h, "router"}, NEW routed,
         NEW escrowLive, l.method \in {"complete", "reject"} => escrowLive = job.escrow.live
  PROVE  HookAccepts(h, Slice(h, l.method, Seen(l), routed), l, l.method, escrowLive)
<1>1. l \in LegType /\ l.method \in Ops /\ ~Refusable(l)
  BY DEF Lives
<1>2. /\ l.job.budget = job.budget /\ CanPrepare(l)
      /\ l.method = "fund" => l.request = job.request
      /\ l.method \in {"complete", "reject"} => l.escrow = job.escrow.live
      /\ l.method \in {"fund", "submit", "complete"} => l.terms = (job.terms = "set")
  BY LiveFacts
<1>3. Finds(h, Slice(h, l.method, Seen(l), routed), l, l.method, escrowLive)
  <2>1. l.method = "setBudget" => /\ l.args.proposal # NoToken => Seen(l).request
                                  /\ l.args.terms => Seen(l).terms
    BY DEF Seen
  <2>2. l.method = "fund" /\ job.request.live => Seen(l).request
    BY <1>2 DEF Seen
  <2>3. l.method = "submit" /\ StakeOf(l) # NoToken => Seen(l).escrow
    BY DEF Seen
  <2>4. l.method \in {"complete", "reject"} /\ escrowLive => Seen(l).escrow
    BY <1>2 DEF Seen
  <2>5. l.method = "complete" => (Seen(l).terms <=> job.terms = "set")
    BY <1>2 DEF Seen
  <2> QED
    BY <1>1, <2>1, <2>2, <2>3, <2>4, <2>5, SliceCovers
<1>4. job.budget \in Nat /\ l.args.amount \in Nat
  BY <1>1 DEF TypeOK, JobType, LegType
<1>5. Agrees(h, l, l.method)
  <2>1. h = "fund" /\ l.method = "fund" /\ job.request.live => l.request = job.request
    BY <1>2
  <2>2. h = "fund" /\ l.method = "submit" => kind.evaluated \/ StakeOf(l) # NoToken
    BY <1>1, <1>2, <1>4 DEF CanPrepare, Refusable, Routed
  <2>3. h = "sub" /\ l.method \in {"fund", "complete"} => job.terms # "blank"
    BY <1>1 DEF Refusable
  <2>4. h = "sub" /\ l.method = "fund" => l.terms = (job.terms = "set")
    BY <1>2
  <2>5. h = "sub" /\ l.method = "setBudget" /\ l.args.terms /\ job.expiry = "active" => l.args.amount = 0
    BY <1>1, <1>4 DEF Refusable
  <2> QED
    BY <2>1, <2>2, <2>3, <2>4, <2>5 DEF Agrees
<1>6. CanActivate(h, l.method)
  BY <1>1 DEF CanActivate, Refusable
<1> QED
  BY <1>3, <1>5, <1>6 DEF HookAccepts

\* The same for the completion that a submit without an evaluator includes.
LEMMA CompletionContent ==
  ASSUME TypeOK, NEW l, Lives(l), l.method = "submit", ~kind.evaluated,
         NEW h \in {"fund", "sub"}, kind.hook = h
  PROVE  HookAccepts(h, Slice(h, "complete", Seen(l), FALSE), l, "complete", TRUE)
<1>1. l \in LegType /\ ~Refusable(l)
  BY DEF Lives
<1>2. l.job.budget = job.budget /\ CanPrepare(l) /\ l.terms = (job.terms = "set")
  BY LiveFacts
<1>3. job.budget \in Nat
  BY DEF TypeOK, JobType
<1>4. h = "fund" => StakeOf(l) # NoToken
  BY <1>1, <1>2, <1>3 DEF CanPrepare, Refusable
<1>5. Finds(h, Slice(h, "complete", Seen(l), FALSE), l, "complete", TRUE)
  <2>1. h = "fund" => Seen(l).escrow
    BY <1>4 DEF Seen
  <2>2. Seen(l).terms <=> job.terms = "set"
    BY <1>2 DEF Seen
  <2>3. "complete" \in Ops
    BY DEF Ops
  <2> QED
    BY <2>1, <2>2, <2>3, SliceCovers
<1>6. Agrees(h, l, "complete") /\ CanActivate(h, "complete")
  BY <1>1 DEF Agrees, CanActivate, Refusable
<1> QED
  BY <1>5, <1>6 DEF HookAccepts

\* A list cut where its first part ends.
LEMMA CutInTwo ==
  ASSUME NEW T, NEW s \in Seq(T), NEW t \in Seq(T)
  PROVE  /\ SubSeq(s \o t, 1, Len(s)) = s
         /\ SubSeq(s \o t, Len(s) + 1, Len(s \o t)) = t
<1> DEFINE all == s \o t
           a == Len(s)
           b == Len(t)
<1>1. /\ all \in Seq(T) /\ Len(all) = a + b /\ a \in Nat /\ b \in Nat
      /\ \A x \in 1 .. a : all[x] = s[x]
      /\ \A x \in 1 .. b : all[a + x] = t[x]
  BY TwoLists
<1> HIDE DEF all, a, b
<1>2. SubSeq(all, 1, a) = s
  <2>1. /\ SubSeq(all, 0 + 1, 0 + a) \in Seq(T) /\ Len(SubSeq(all, 0 + 1, 0 + a)) = a
        /\ \A j \in 1 .. a : SubSeq(all, 0 + 1, 0 + a)[j] = all[0 + j]
    <3>1. 0 \in Nat /\ 0 + a <= Len(all)
      BY <1>1
    <3> QED
      BY <1>1, <3>1, PartOf
  <2> DEFINE cut == SubSeq(all, 1, a)
  <2>2. 0 + 1 = 1 /\ 0 + a = a /\ \A j \in 1 .. a : 0 + j = j
    BY <1>1
  <2>3. cut \in Seq(T) /\ Len(cut) = a /\ \A j \in 1 .. a : cut[j] = s[j]
    BY <1>1, <2>1, <2>2
  <2> HIDE DEF cut
  <2>4. cut = s
    <3>1. cut \in Seq(T) /\ s \in Seq(T) /\ Len(cut) = Len(s) /\ \A j \in 1 .. Len(cut) : cut[j] = s[j]
      BY <2>3 DEF a
    <3> QED
      BY <3>1, SameList
  <2> QED
    BY <2>4 DEF cut
<1>3. SubSeq(all, a + 1, Len(all)) = t
  <2> DEFINE cut == SubSeq(all, a + 1, a + b)
  <2>1. cut \in Seq(T) /\ Len(cut) = b /\ \A j \in 1 .. b : cut[j] = all[a + j]
    <3>1. a + b <= Len(all)
      BY <1>1
    <3> QED
      BY <1>1, <3>1, PartOf
  <2> HIDE DEF cut
  <2>2. cut = t
    <3>1. cut \in Seq(T) /\ t \in Seq(T) /\ Len(cut) = Len(t) /\ \A j \in 1 .. Len(cut) : cut[j] = t[j]
      BY <1>1, <2>1 DEF b
    <3> QED
      BY <3>1, SameList
  <2> QED
    BY <1>1, <2>2 DEF cut
<1> QED
  BY <1>2, <1>3 DEF all, a

\* What is appended for a hook that is not reached through the router: its
\* slice, and behind that of a submit without an evaluator the one of complete.
ExtraIsPlain(h, action, seen, evaluated) ==
  LET extra == Appended(h, action, seen, evaluated)
      slice == Slice(h, action, seen, FALSE)
      more == Slice(h, "complete", seen, FALSE)
  IN /\ slice \in Seq(Metas) /\ more \in Seq(Metas)
     /\ IF action = "submit" /\ ~evaluated
        THEN extra.accounts = slice \o more /\ extra.split = Len(slice)
        ELSE extra.accounts = slice

\* Appended builds exactly that.
LEMMA PlainExtra ==
  ASSUME NEW h \in {"fund", "sub"}, NEW action \in Ops, NEW seen, NEW evaluated,
         ~(h = "fund" /\ action = "submit" /\ ~seen.funded)
  PROVE  ExtraIsPlain(h, action, seen, evaluated)
<1> DEFINE extra == Appended(h, action, seen, evaluated)
           slice == Slice(h, action, seen, FALSE)
           more == Slice(h, "complete", seen, FALSE)
           auto == action = "submit" /\ ~evaluated
<1>1. slice \in Seq(Metas) /\ more \in Seq(Metas)
  BY SliceTyped DEF Ops
<1>2. HooksOf(h, action) = <<h>>
  BY DEF HooksOf
<1>3. /\ extra.accounts = slice \o (IF auto THEN more ELSE <<>>)
      /\ extra.split = IF auto THEN Len(slice) ELSE 0
  <2> DEFINE slices == [i \in DOMAIN HooksOf(h, action) |->
                          Slice(HooksOf(h, action)[i], action, seen, h = "router")]
  <2>1. slices[1] = slice
    <3>1. 1 \in DOMAIN HooksOf(h, action) /\ HooksOf(h, action)[1] = h
      BY <1>2
    <3>2. (h = "router") = FALSE
      OBVIOUS
    <3>3. slices[1] = Slice(h, action, seen, h = "router")
      BY <3>1
    <3> QED
      BY <3>2, <3>3, Zenon
  <2>2. extra = [header |-> <<>>,
                 accounts |-> slices[1] \o IF auto THEN more ELSE <<>>,
                 split |-> IF auto THEN Len(slices[1]) ELSE 0]
    BY DEF Appended
  <2> HIDE DEF slices, extra, slice, more
  <2> QED
    BY <2>1, <2>2
<1> HIDE DEF extra, slice, more
<1>4. slice \o <<>> = slice
  BY <1>1
<1> QED
  BY <1>1, <1>3, <1>4 DEF ExtraIsPlain, extra, slice, more

\* A slice for a call with money at stake is longer than the two accounts
\* every hook has.
LEMMA SliceLong ==
  ASSUME NEW h \in {"fund", "sub"}, NEW action \in {"setBudget", "submit"}, NEW seen
  PROVE  Len(Slice(h, action, seen, FALSE)) > 2
<1>1. CASE h = "fund" /\ action = "setBudget"
  BY <1>1 DEF Slice, FundSetBudget
<1>2. CASE h = "fund" /\ action = "submit"
  BY <1>2 DEF Slice, FundSubmit
<1>3. CASE h = "sub" /\ action = "setBudget"
  BY <1>3 DEF Slice, SubSetBudget
<1>4. CASE h = "sub" /\ action = "submit"
  BY <1>4 DEF Slice, SubSubmit
<1> QED
  BY <1>1, <1>2, <1>3, <1>4

\* So is the whole of what is appended.
LEMMA LongEnough ==
  ASSUME NEW hook \in {"fund", "sub", "router"}, NEW action \in {"setBudget", "submit"}, NEW seen,
         NEW evaluated, ~(hook = "fund" /\ action = "submit" /\ ~seen.funded)
  PROVE  Len(Appended(hook, action, seen, evaluated).accounts) > 2
<1> DEFINE accounts == Appended(hook, action, seen, evaluated).accounts
<1>0. action \in Ops
  BY DEF Ops
<1>1. CASE hook = "router"
  <2> DEFINE hooks == HooksOf("router", action)
             slices == [i \in DOMAIN hooks |-> Slice(hooks[i], action, seen, TRUE)]
  <2>1. /\ hooks \in Seq({"fund", "sub"}) /\ slices \in Seq(Seq(Metas))
        /\ Len(hooks) = Len(slices) /\ Len(slices) # 0
    BY <1>0, RoutedShape
  <2>2. accounts = FanOut(hooks, slices).accounts
    BY <1>1 DEF Appended
  <2> HIDE DEF hooks, slices, accounts
  <2>3. Holds(FanOut(hooks, slices).accounts, slices)
    BY <2>1, FanOutHolds
  <2> QED
    BY <2>2, <2>3 DEF Holds, accounts
<1>2. CASE hook # "router"
  <2> DEFINE slice == Slice(hook, action, seen, FALSE)
             more == Slice(hook, "complete", seen, FALSE)
  <2>1. /\ slice \in Seq(Metas) /\ more \in Seq(Metas)
        /\ accounts = slice \o more \/ accounts = slice
    <3>1. hook \in {"fund", "sub"}
      BY <1>2
    <3> QED
      BY <1>0, <3>1, PlainExtra DEF ExtraIsPlain
  <2>2. Len(slice) > 2
    BY <1>2, SliceLong
  <2> HIDE DEF accounts, slice, more
  <2>3. Len(slice \o more) = Len(slice) + Len(more) /\ Len(slice) \in Nat /\ Len(more) \in Nat
    BY <2>1
  <2>4. Len(slice \o more) > 2
    <3> DEFINE a == Len(slice)
               b == Len(more)
               c == Len(slice \o more)
    <3>1. c = a + b /\ a \in Nat /\ b \in Nat /\ a > 2
      BY <2>2, <2>3
    <3> HIDE DEF a, b, c
    <3>2. c > 2
      BY <3>1
    <3> QED
      BY <3>2 DEF c
  <2>5. Len(accounts) > 2
    BY <2>1, <2>2, <2>4
  <2> QED
    BY <2>5 DEF accounts
<1> QED
  BY <1>1, <1>2

\* The core accepts a live call, and so do the hooks.
LEMMA CoreTakes ==
  ASSUME TypeOK, NEW l, Lives(l)
  PROVE  CoreAccepts(l)
<1>1. /\ l \in LegType /\ l.method \in Ops /\ CallFits(l) /\ ~Refusable(l)
      /\ l.job = JobFacts /\ l.job.state = job.state /\ l.job.budget = job.budget
  BY LiveFacts DEF Lives
<1>2. job.state \in AllowedStates(l.method)
  BY <1>1 DEF CallFits, Ops
<1>3. l.method = "submit" /\ job.state = "open" => job.budget = 0
  BY <1>1 DEF CallFits
<1>4. l.method = "fund" => l.args.amount = job.budget
  BY <1>1 DEF CallFits
<1>5. EscrowGroup(l) = EscrowGroup([l EXCEPT !.job = JobFacts])
  <2>1. [l EXCEPT !.job = JobFacts] = l
    BY <1>1 DEF LegType
  <2> QED
    BY <2>1
<1>6. ASSUME kind.hook # "none", l.method \in {"setBudget", "submit"},
             (IF l.method = "setBudget" THEN l.args.amount ELSE job.budget) > 0
      PROVE  Len(Extra(l).accounts) > 2
  <2> DEFINE action == l.method
             seen == Seen(l)
  <2>1. kind.hook \in {"fund", "sub", "router"}
    BY <1>6, ConstantsAssumption DEF TypeOK
  <2>2. action = "submit" => seen.funded
    BY <1>1, <1>6 DEF Seen
  <2>3. Extra(l) = Appended(kind.hook, action, seen, kind.evaluated)
    BY <1>6 DEF Extra
  <2> HIDE DEF action, seen
  <2>4. action \in {"setBudget", "submit"}
    BY <1>6 DEF action
  <2>5. Len(Appended(kind.hook, action, seen, kind.evaluated).accounts) > 2
    BY <2>1, <2>2, <2>4, LongEnough
  <2> QED
    BY <2>3, <2>5
<1> QED
  BY <1>2, <1>3, <1>4, <1>5, <1>6 DEF CoreAccepts

LEMMA HooksTake ==
  ASSUME TypeOK, NEW l, Lives(l)
  PROVE  HooksAccept(l)
<1>1. /\ l \in LegType /\ l.method \in Ops /\ ~Refusable(l) /\ l.job.budget = job.budget
  BY LiveFacts DEF Lives
<1>2. kind.hook \in {"none", "fund", "sub", "router"} /\ job.budget \in Nat
  BY ConstantsAssumption DEF TypeOK, JobType
<1> DEFINE action == l.method
           seen == Seen(l)
           extra == Extra(l)
<1>3. extra = Appended(kind.hook, action, seen, kind.evaluated)
  BY <1>1 DEF Extra, Ops
<1>4. CASE kind.hook = "none"
  BY <1>4 DEF HooksAccept, Routed
<1>5. CASE kind.hook = "router"
  <2> DEFINE hooks == HooksOf("router", action)
  <2>1. job.configured
    BY <1>1, <1>5 DEF Refusable, Routed
  <2>2. RouterSplit(hooks, extra.header, extra.accounts)
          = [i \in DOMAIN hooks |-> Slice(hooks[i], action, seen, TRUE)]
    <3> DEFINE evaluated == kind.evaluated
    <3>1. action \in Ops
      BY <1>1
    <3>2. extra = Appended("router", action, seen, evaluated)
      BY <1>3, <1>5
    <3> HIDE DEF action, seen, evaluated, extra
    <3>3. LET made == Appended("router", action, seen, evaluated)
          IN RouterSplit(hooks, made.header, made.accounts)
               = [i \in DOMAIN hooks |-> Slice(hooks[i], action, seen, TRUE)]
      BY <3>1, RoutedExtra
    <3> QED
      BY <3>2, <3>3, Zenon
  <2>3. \A i \in DOMAIN hooks : hooks[i] \in {"fund", "sub"}
    BY <1>1, RoutedShape
  <2>4. \A i \in DOMAIN hooks :
          HookAccepts(hooks[i], Slice(hooks[i], action, seen, TRUE), l, action, job.escrow.live)
    <3> TAKE i \in DOMAIN hooks
    <3> DEFINE h == hooks[i]
    <3>1. h \in {"fund", "sub"}
      BY <2>3
    <3> HIDE DEF h
    <3> QED
      BY <1>5, <3>1, HookContent DEF h
  <2> HIDE DEF hooks, extra, seen
  <2>5. \A i \in DOMAIN hooks :
          HookAccepts(hooks[i], RouterSplit(hooks, extra.header, extra.accounts)[i], l, action,
                      job.escrow.live)
    BY <2>2, <2>4
  <2> QED
    BY <1>5, <2>1, <2>5 DEF HooksAccept, Routed, hooks, extra
<1>6. CASE kind.hook \in {"fund", "sub"}
  <2> DEFINE h == kind.hook
             slice == Slice(h, action, seen, FALSE)
             more == Slice(h, "complete", seen, FALSE)
  <2>1. ~(h = "fund" /\ action = "submit" /\ ~seen.funded)
    <3>1. seen.funded <=> l.job.budget > 0
      BY DEF Seen
    <3>2. ~(l.method = "submit" /\ kind.hook = "fund" /\ job.budget = 0)
      BY <1>1 DEF Refusable
    <3>3. l.job.budget = job.budget /\ job.budget \in Nat
      BY <1>1, <1>2
    <3> HIDE DEF seen
    <3>4. ~seen.funded => job.budget = 0
      BY <3>1, <3>3
    <3> QED
      BY <3>2, <3>4
  <2>2. /\ slice \in Seq(Metas) /\ more \in Seq(Metas)
        /\ IF action = "submit" /\ ~kind.evaluated
           THEN extra.accounts = slice \o more /\ extra.split = Len(slice)
           ELSE extra.accounts = slice
    <3> DEFINE evaluated == kind.evaluated
    <3>1. action \in Ops /\ h \in {"fund", "sub"} /\ extra = Appended(h, action, seen, evaluated)
      BY <1>1, <1>3, <1>6
    <3> HIDE DEF action, seen, evaluated, extra, h
    <3>a. ~(h = "fund" /\ action = "submit" /\ ~seen.funded)
      BY <2>1
    <3>2. ExtraIsPlain(h, action, seen, evaluated)
      BY <3>1, <3>a, PlainExtra
    <3> QED
      BY <3>1, <3>2 DEF ExtraIsPlain, evaluated
  <2>3. CASE action = "submit" /\ ~kind.evaluated
    <3>1. HookAccepts(h, slice, l, "submit", FALSE)
      <4>1. HookAccepts(h, slice, l, action, FALSE)
        BY <1>6, <2>3, HookContent
      <4> QED
        BY <2>3, <4>1
    <3>2. HookAccepts(h, more, l, "complete", TRUE)
      BY <1>6, <2>3, CompletionContent
    <3> HIDE DEF extra, slice, more
    <3>3. /\ SubSeq(extra.accounts, 1, extra.split) = slice
          /\ SubSeq(extra.accounts, extra.split + 1, Len(extra.accounts)) = more
      BY <2>2, <2>3, CutInTwo
    <3> QED
      BY <1>6, <2>3, <3>1, <3>2, <3>3 DEF HooksAccept, Routed, extra
  <2>4. CASE ~(action = "submit" /\ ~kind.evaluated)
    <3>1. HookAccepts(h, slice, l, action, job.escrow.live)
      BY <1>6, HookContent
    <3> HIDE DEF extra, slice
    <3>2. extra.accounts = slice
      BY <2>2, <2>4
    <3> QED
      BY <1>6, <2>4, <3>1, <3>2 DEF HooksAccept, Routed, extra
  <2> QED
    BY <2>3, <2>4
<1> QED
  BY <1>2, <1>4, <1>5, <1>6

\* A call built from what still holds is accepted, unless for one of the
\* reasons Refusable lists: whatever the hooks, budgets, stakes and tokens.
THEOREM FreshIsAccepted == Spec => []FreshCallsLand
<1> DEFINE IInv == Typed /\ CallsFit
<1>1. Init => IInv
  BY TypeInit, CallsFitInit
<1>2. IInv /\ [Next]_vars => IInv'
  BY TypeNext, FitNext, CallsFitNext DEF Typed
<1>3. IInv => FreshCallsLand
  <2> SUFFICES ASSUME IInv, NEW a \in Actors, Fresh(leg[a]), ~Refusable(leg[a])
               PROVE  Accepts(leg[a])
    BY DEF FreshCallsLand
  <2>1. TypeOK /\ leg[a] \in LegType /\ leg[a] # NoLeg
    BY LegTyped DEF Typed, Fresh, NoLeg
  <2>2. CallFits(leg[a])
    BY <2>1 DEF CallsFit
  <2>3. CASE leg[a].method = "configure"
    BY <2>2, <2>3 DEF Accepts, CallFits, Fresh, JobFacts
  <2>4. CASE leg[a].method # "configure"
    <3>1. leg[a].method \in Ops
      BY <2>1, <2>4, MethodsAre DEF LegType, Methods, Ops
    <3>2. Lives(leg[a])
      BY <2>1, <2>2, <3>1 DEF Lives
    <3>3. CoreAccepts(leg[a]) /\ HooksAccept(leg[a])
      BY <2>1, <3>2, CoreTakes, HooksTake
    <3>4. Authorised(leg[a])
      <4>1. CASE leg[a].method \in {"fund", "submit"}
        BY <2>1, <4>1, AuthorisedWhenTyped DEF PullsAuthorised
      <4>2. CASE leg[a].method \notin {"fund", "submit"}
        BY <4>2 DEF Authorised, Pull, NoToken
      <4> QED
        BY <4>1, <4>2
    <3> QED
      BY <2>4, <3>3, <3>4 DEF Accepts
  <2> QED
    BY <2>3, <2>4
<1> QED
  BY <1>1, <1>2, <1>3, PTL DEF Spec
=============================================================================
