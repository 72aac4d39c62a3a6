----------------------------- MODULE WireProofs -----------------------------
(***************************************************************************)
(* What is built by a generated client is read back as it was meant: for   *)
(* any account list a parser fits, and then for the lists of the five      *)
(* programs, whichever accounts are given; and the retry guard looks for   *)
(* the job where it is.  The tables are gone through one instruction at a  *)
(* time (AcpRows and its like); nothing else here depends on them.         *)
(***************************************************************************)
EXTENDS Wire, SelectionProofs

-----------------------------------------------------------------------------
(* Any account list.                                                       *)

\* A parser fits a layout: the same names in the same places, each once, and
\* optional wherever the builder may put the program's address; and no
\* account is defaulted to the address that stands for "none".
Fits(layout, parser) ==
  /\ Len(layout) \in Nat /\ DOMAIN layout = 1 .. Len(layout)
  /\ Len(parser) = Len(layout) /\ DOMAIN parser = DOMAIN layout
  /\ \A i \in DOMAIN layout : parser[i].name = layout[i].name
  /\ \A i, j \in DOMAIN layout : layout[i].name = layout[j].name => i = j
  /\ \A i \in DOMAIN layout :
       /\ layout[i].default # Generated
       /\ layout[i].required \/ layout[i].default # <<>> \/ parser[i].maybe

\* The accounts are enough for the layout, and none is the address that stands
\* for "none".
Enough(accounts, layout) ==
  /\ RequiredOf(layout) \subseteq DOMAIN accounts
  /\ \A n \in DOMAIN accounts : accounts[n] # Generated

\* What comes back under the name of entry: the account that was given, else
\* the default, else none; but none is read as the program's own address when
\* that is not the generated one.
ReadAs(entry, accounts, program) ==
  IF entry.name \in DOMAIN accounts THEN accounts[entry.name]
  ELSE IF entry.default # <<>> THEN entry.default
  ELSE IF program = Generated THEN Absent ELSE program

\* A list built from enough accounts is as long as the parser expects, and
\* every account is read back under its own name.
THEOREM ParserReadsBack ==
  ASSUME NEW layout, NEW parser, Fits(layout, parser),
         NEW accounts, Enough(accounts, layout), NEW program
  PROVE  LET answer == Parse(parser, Build(layout, accounts, program))
         IN /\ DOMAIN answer = NamesOf(layout)
            /\ \A i \in DOMAIN layout :
                 answer[layout[i].name] = ReadAs(layout[i], accounts, program)
<1> DEFINE list == Build(layout, accounts, program)
           names == {parser[i].name : i \in DOMAIN parser}
           At(n) == CHOOSE j \in DOMAIN parser : parser[j].name = n
           back == [n \in names |-> IF parser[At(n)].maybe /\ list[At(n)].address = Generated
                                      THEN Absent ELSE list[At(n)].address]
<1>1. /\ Len(layout) \in Nat /\ DOMAIN layout = 1 .. Len(layout)
      /\ Len(parser) = Len(layout) /\ DOMAIN parser = DOMAIN layout
      /\ \A i \in DOMAIN layout : parser[i].name = layout[i].name
      /\ \A i, j \in DOMAIN layout : layout[i].name = layout[j].name => i = j
  BY DEF Fits
<1>2. Len(list) = Len(layout)
  BY <1>1 DEF Build
<1>3. \A i \in DOMAIN layout : list[i] = GetAccountMeta(layout[i], accounts, program)
  BY DEF Build
<1>4. Parse(parser, list) = back
  BY <1>1, <1>2 DEF Parse
<1>5. names = NamesOf(layout)
  BY <1>1 DEF NamesOf
<1>6. ASSUME NEW i \in DOMAIN layout
      PROVE  back[layout[i].name] = ReadAs(layout[i], accounts, program)
  <2> DEFINE n == layout[i].name
  <2>1. n \in names /\ At(n) = i
    BY <1>1
  <2>2. back[n] = IF parser[i].maybe /\ list[i].address = Generated
                    THEN Absent ELSE list[i].address
    BY <2>1
  <2>3. list[i] = GetAccountMeta(layout[i], accounts, program)
    BY <1>3
  <2>4. CASE n \in DOMAIN accounts
    <3>1. list[i].address = accounts[n] /\ accounts[n] # Generated
      BY <2>3, <2>4 DEF GetAccountMeta, Enough
    <3> QED
      BY <2>2, <2>4, <3>1 DEF ReadAs
  <2>5. CASE n \notin DOMAIN accounts /\ layout[i].default # <<>>
    <3>1. list[i].address = layout[i].default /\ layout[i].default # Generated
      BY <2>3, <2>5 DEF GetAccountMeta, Fits
    <3> QED
      BY <2>2, <2>5, <3>1 DEF ReadAs
  <2>6. CASE n \notin DOMAIN accounts /\ layout[i].default = <<>>
    <3>1. ~ layout[i].required
      BY <2>6 DEF Enough, RequiredOf
    <3>2. parser[i].maybe /\ list[i].address = program
      BY <2>3, <2>6, <3>1 DEF GetAccountMeta, Fits
    <3> QED
      BY <2>2, <2>6, <3>2 DEF ReadAs
  <2> QED
    BY <2>4, <2>5, <2>6
<1> QED
  BY <1>4, <1>5, <1>6

-----------------------------------------------------------------------------
(* Derived addresses.                                                      *)

\* Joining lists over T gives a list over T.
LEMMA FlattenTyped ==
  ASSUME NEW T, NEW parts \in Seq(Seq(T)), Len(parts) > 0
  PROVE  FlattenSeq(parts) \in Seq(T)
<1> DEFINE n == Len(parts)
<1>1. n \in Nat /\ n > 0 /\ \A i \in 1 .. n : parts[i] \in Seq(T)
  OBVIOUS
<1>2. PICK f : Joined(parts, f) /\ FlattenSeq(parts) = f[n]
  BY Flattens
<1>3. \A i \in 1 .. n : f[i] = IF i = 1 THEN parts[i] ELSE f[i - 1] \o parts[i]
  BY <1>2 DEF Joined
<1> DEFINE Typed == {i \in Nat : i = 0 \/ f[i] \in Seq(T)}
<1> HIDE DEF n
<1>4. 0 \in Typed
  OBVIOUS
<1>5. ASSUME NEW m \in 0 .. n, m \in Typed, m < n PROVE m + 1 \in Typed
  <2>1. m + 1 \in 1 .. n /\ m + 1 - 1 = m
    BY <1>1, <1>5
  <2>2. CASE m = 0
    BY <1>1, <1>3, <2>1, <2>2
  <2>3. CASE m # 0
    <3>1. f[m] \in Seq(T)
      BY <1>5, <2>3
    <3>2. parts[m + 1] \in Seq(T)
      BY <1>1, <2>1
    <3>3. f[m + 1] = f[m] \o parts[m + 1]
      <4>1. m + 1 # 1
        BY <1>5, <2>3
      <4> DEFINE k == m + 1
      <4>2. k \in 1 .. n /\ k # 1 /\ k - 1 = m
        BY <2>1, <4>1
      <4> HIDE DEF k
      <4>3. f[k] = f[k - 1] \o parts[k]
        BY <1>3, <4>2, Zenon
      <4> QED
        BY <4>2, <4>3 DEF k
    <3>4. f[m + 1] \in Seq(T)
      BY <3>1, <3>2, <3>3
    <3> QED
      BY <1>5, <3>4
  <2> QED
    BY <2>2, <2>3
<1> HIDE DEF Typed
<1>6. \A m \in 0 .. n : m \in Typed
  BY <1>1, <1>4, <1>5, UpTo
<1>7. n \in Typed
  BY <1>1, <1>6
<1> QED
  BY <1>1, <1>2, <1>7 DEF Typed

\* Seeds of one word each.
Words(seeds) ==
  /\ Len(seeds) \in Nat \ {0} /\ seeds = [i \in 1 .. Len(seeds) |-> <<seeds[i][1]>>]

\* A derived address is never the empty one.
LEMMA PdaIsSome ==
  ASSUME NEW p, NEW seeds, Words(seeds)
  PROVE  Pda(<<p>>, seeds) # Generated
<1> DEFINE T == {"pda", "end", p} \cup {seeds[i][1] : i \in 1 .. Len(seeds)}
           middle == FlattenSeq(seeds)
<1>1. Len(seeds) \in Nat /\ Len(seeds) > 0
  BY DEF Words
<1>2. \A i \in 1 .. Len(seeds) : <<seeds[i][1]>> \in Seq(T)
  OBVIOUS
<1>3. seeds \in Seq(Seq(T))
  <2> HIDE DEF T
  <2>1. seeds \in [1 .. Len(seeds) -> Seq(T)]
    BY <1>2 DEF Words
  <2> QED
    BY <1>1, <2>1
<1>4. <<"pda">> \in Seq(T) /\ <<"end">> \in Seq(T) /\ <<p>> \in Seq(T)
  OBVIOUS
<1> HIDE DEF T
<1>5. middle \in Seq(T)
  BY <1>1, <1>3, FlattenTyped
<1> HIDE DEF middle
<1>6. <<"pda">> \o <<p>> \in Seq(T) /\ Len(<<"pda">> \o <<p>>) = 2
  BY <1>4
<1>7. <<"pda">> \o <<p>> \o middle \in Seq(T) /\ Len(<<"pda">> \o <<p>> \o middle) >= 2
  BY <1>5, <1>6
<1>8. Len(<<"pda">> \o <<p>> \o middle \o <<"end">>) >= 3
  BY <1>4, <1>7
<1>9. Len(Generated) = 1
  BY DEF Generated, Key
<1> QED
  BY <1>8, <1>9 DEF Pda, middle

\* Lists of one to four words are such seeds.
LEMMA OneWordEach ==
  /\ \A x : Words(<< <<x>> >>)
  /\ \A x, y : Words(<< <<x>>, <<y>> >>)
  /\ \A x, y, z : Words(<< <<x>>, <<y>>, <<z>> >>)
  /\ \A x, y, z, w : Words(<< <<x>>, <<y>>, <<z>>, <<w>> >>)
BY DEF Words

\* What an asynchronous builder derives from: every argument, by its name.
Full == [n \in Args |-> Key(n)]

\* One word each.
LEMMA FullIs ==
  /\ Full["seed"] = <<"seed">> /\ Full["hook"] = <<"hook">> /\ Full["jobKey"] = <<"jobKey">>
  /\ Full["writer"] = <<"writer">> /\ Full["client"] = <<"client">>
  /\ Full["provider"] = <<"provider">> /\ Full["packageId"] = <<"packageId">>
  /\ Full["job"] = <<"job">>
BY DEF Full, Key, Args

\* None of the derived addresses stands for "none".
Usable(derived) == \A n \in DOMAIN derived : derived[n] # Generated

\* The names of the accounts.
Labels ==
  {"acpProgram", "acpState", "authority", "caller", "client",
   "clientTokenAccount", "delegateWhitelist", "destination",
   "escrowAuthority", "escrowIntent", "escrowMap", "escrowVault", "evaluator",
   "evaluatorTokenAccount", "fundRequestIntent", "fundRequestMap",
   "hookDelegate", "hookMetadata", "hookProgram", "hookProgramData",
   "hookRouter", "hookState", "hookWhitelist", "instructionsSysvar", "intent",
   "intentMap", "job", "jobAccount", "mint", "newAuthority",
   "newTreasuryAuthority", "payer", "paymentToken", "programData",
   "proposedTerms", "provider", "providerHookTokenAccount",
   "providerTokenAccount", "routerState", "sponsor", "stateConfig",
   "subscriptionExpiry", "systemProgram", "tokenProgram", "treasury",
   "treasuryAuthority", "treasuryTokenAccount", "vault", "vaultAuthority",
   "writerRegistry", "writerSigner"}

\* The accounts have names.
Named(layout) == \A i \in DOMAIN layout : layout[i].name \in Labels

\* One instruction of a client.
Row(layout, parser, derived) ==
  Fits(layout, parser) /\ Usable(derived) /\ Named(layout)

-----------------------------------------------------------------------------
(* The agentic-commerce program.                                           *)

\* Its entries.
LEMMA AcpEntries ==
  /\ \A n : /\ Acp!S(n).name = n /\ Acp!S(n).required /\ Acp!S(n).default = <<>>
            /\ Acp!SW(n).name = n /\ Acp!SW(n).required /\ Acp!SW(n).default = <<>>
            /\ Acp!R(n).name = n /\ Acp!R(n).required /\ Acp!R(n).default = <<>>
            /\ Acp!W(n).name = n /\ Acp!W(n).required /\ Acp!W(n).default = <<>>
            /\ Acp!Opt(Acp!R(n)).name = n /\ Acp!Opt(Acp!R(n)).default = <<>>
            /\ Acp!Opt(Acp!W(n)).name = n /\ Acp!Opt(Acp!W(n)).default = <<>>
            /\ Acp!Got(n).name = n /\ Acp!Maybe(n).name = n /\ Acp!Maybe(n).maybe
  /\ \A n, a : Acp!Def(Acp!R(n), a).name = n /\ Acp!Def(Acp!R(n), a).default = a
  /\ <<>> # Generated
  /\ Acp!TokenProgram # Generated /\ Acp!TokenProgram # <<>>
  /\ Acp!SystemProgram # Generated /\ Acp!SystemProgram # <<>>
  /\ Acp!InstructionsSysvar # Generated /\ Acp!InstructionsSysvar # <<>>
BY DEF Acp!S, Acp!SW, Acp!R, Acp!W, Acp!Opt, Acp!Def, Acp!Entry, Acp!Got,
       Acp!Maybe, Acp!Key,
       Acp!TokenProgram, Acp!SystemProgram, Acp!InstructionsSysvar, Generated, Key

\* What it derives.
LEMMA AcpDerived ==
  /\ Acp!AcpStatePda(Acp!Generated) # Generated
  /\ Acp!HookWhitelistPda(Acp!Generated, Full["hook"]) # Generated
  /\ Acp!JobPda(Acp!Generated, Full["client"], Full["seed"]) # Generated
  /\ Acp!VaultPda(Acp!Generated, Full["job"]) # Generated
  /\ Acp!Pda(Acp!Loader, <<Full["hook"]>>) # Generated
<1>1. \A program, seeds : Acp!Pda(program, seeds) = Pda(program, seeds)
  BY Zenon DEF Acp!Pda, Pda, Acp!FlattenSeq, FlattenSeq
<1> QED
  BY <1>1, OneWordEach, FullIs, PdaIsSome
  DEF Acp!AcpStatePda, Acp!HookWhitelistPda, Acp!JobPda, Acp!VaultPda,
      Acp!Generated, Acp!Key, Acp!Bytes, Acp!Loader

\* The address of a program's data.
LEMMA AcpData == Acp!Pda(Acp!Loader, <<Acp!Bytes("a fixed program id")>>) # Generated
<1>1. \A program, seeds : Acp!Pda(program, seeds) = Pda(program, seeds)
  BY Zenon DEF Acp!Pda, Pda, Acp!FlattenSeq, FlattenSeq
<1> QED
  BY <1>1, OneWordEach, PdaIsSome DEF Acp!Loader, Acp!Key, Acp!Bytes

\* Its instructions, one by one.
LEMMA AcpRows ==
  \A name \in DOMAIN Acp!Layouts :
    Row(Acp!Layouts[name], Acp!Parsers[name], Acp!Derives(Full)[name])
<1>1. Row(Acp!AcceptAuthority, Acp!AcceptAuthorityParsed,
          Acp!AcceptAuthorityDerived(Full))
  BY AcpEntries, AcpDerived, SMTT(60)
  DEF Row, Fits, Usable, Named, Labels, Acp!AcceptAuthority,
      Acp!AcceptAuthorityParsed, Acp!AcceptAuthorityDerived
<1>2. Row(Acp!AcceptTreasuryAuthority, Acp!AcceptTreasuryAuthorityParsed,
          Acp!AcceptTreasuryAuthorityDerived(Full))
  BY AcpEntries, AcpDerived, SMTT(60)
  DEF Row, Fits, Usable, Named, Labels, Acp!AcceptTreasuryAuthority,
      Acp!AcceptTreasuryAuthorityParsed, Acp!AcceptTreasuryAuthorityDerived
<1>3. Row(Acp!AddHookWhitelist, Acp!AddHookWhitelistParsed,
          Acp!AddHookWhitelistDerived(Full))
  BY AcpEntries, AcpDerived, SMTT(60)
  DEF Row, Fits, Usable, Named, Labels, Acp!AddHookWhitelist,
      Acp!AddHookWhitelistParsed, Acp!AddHookWhitelistDerived
<1>4. Row(Acp!ClaimRefund, Acp!ClaimRefundParsed, Acp!ClaimRefundDerived(Full))
  BY AcpEntries, AcpDerived, SMTT(60)
  DEF Row, Fits, Usable, Named, Labels, Acp!ClaimRefund, Acp!ClaimRefundParsed,
      Acp!ClaimRefundDerived
<1>5. Row(Acp!Complete, Acp!CompleteParsed, Acp!CompleteDerived(Full))
  BY AcpEntries, AcpDerived, SMTT(60)
  DEF Row, Fits, Usable, Named, Labels, Acp!Complete, Acp!CompleteParsed,
      Acp!CompleteDerived
<1>6. Row(Acp!CreateJob, Acp!CreateJobParsed, Acp!CreateJobDerived(Full))
  BY AcpEntries, AcpDerived, SMTT(60)
  DEF Row, Fits, Usable, Named, Labels, Acp!CreateJob, Acp!CreateJobParsed,
      Acp!CreateJobDerived
<1>7. Row(Acp!DetachHook, Acp!DetachHookParsed, Acp!DetachHookDerived(Full))
  BY AcpEntries, AcpDerived, SMTT(60)
  DEF Row, Fits, Usable, Named, Labels, Acp!DetachHook, Acp!DetachHookParsed,
      Acp!DetachHookDerived
<1>8. Row(Acp!Fund, Acp!FundParsed, Acp!FundDerived(Full))
  BY AcpEntries, AcpDerived, SMTT(60)
  DEF Row, Fits, Usable, Named, Labels, Acp!Fund, Acp!FundParsed, Acp!FundDerived
<1>9. Row(Acp!Initialize, Acp!InitializeParsed, Acp!InitializeDerived(Full))
  <2>1. Fits(Acp!Initialize, Acp!InitializeParsed)
    BY AcpEntries, SMTT(60) DEF Fits, Acp!Initialize, Acp!InitializeParsed
  <2>2. Usable(Acp!InitializeDerived(Full))
    <3> DEFINE data == Acp!Pda(Acp!Loader, <<Acp!Bytes("a fixed program id")>>)
    <3>1. data # Generated
      BY AcpData
    <3>2. Acp!InitializeDerived(Full) =
          [acpState |-> Acp!AcpStatePda(Acp!Generated), programData |-> data,
           systemProgram |-> Acp!SystemProgram]
      BY DEF Acp!InitializeDerived
    <3> HIDE DEF data
    <3> QED
      BY <3>1, <3>2, AcpEntries, AcpDerived, SMTT(60) DEF Usable
  <2>3. Named(Acp!Initialize)
    BY AcpEntries, SMTT(60) DEF Named, Labels, Acp!Initialize
  <2> QED
    BY <2>1, <2>2, <2>3 DEF Row
<1>10. Row(Acp!MigrateState, Acp!MigrateStateParsed, Acp!MigrateStateDerived(Full))
  BY AcpEntries, AcpDerived, SMTT(60)
  DEF Row, Fits, Usable, Named, Labels, Acp!MigrateState, Acp!MigrateStateParsed,
      Acp!MigrateStateDerived
<1>11. Row(Acp!NominateAuthority, Acp!NominateAuthorityParsed,
           Acp!NominateAuthorityDerived(Full))
  BY AcpEntries, AcpDerived, SMTT(60)
  DEF Row, Fits, Usable, Named, Labels, Acp!NominateAuthority,
      Acp!NominateAuthorityParsed, Acp!NominateAuthorityDerived
<1>12. Row(Acp!NominateTreasuryAuthority, Acp!NominateTreasuryAuthorityParsed,
           Acp!NominateTreasuryAuthorityDerived(Full))
  BY AcpEntries, AcpDerived, SMTT(60)
  DEF Row, Fits, Usable, Named, Labels, Acp!NominateTreasuryAuthority,
      Acp!NominateTreasuryAuthorityParsed, Acp!NominateTreasuryAuthorityDerived
<1>13. Row(Acp!Reject, Acp!RejectParsed, Acp!RejectDerived(Full))
  BY AcpEntries, AcpDerived, SMTT(60)
  DEF Row, Fits, Usable, Named, Labels, Acp!Reject, Acp!RejectParsed,
      Acp!RejectDerived
<1>14. Row(Acp!RemoveHookWhitelist, Acp!RemoveHookWhitelistParsed,
           Acp!RemoveHookWhitelistDerived(Full))
  BY AcpEntries, AcpDerived, SMTT(60)
  DEF Row, Fits, Usable, Named, Labels, Acp!RemoveHookWhitelist,
      Acp!RemoveHookWhitelistParsed, Acp!RemoveHookWhitelistDerived
<1>15. Row(Acp!SetBudget, Acp!SetBudgetParsed, Acp!SetBudgetDerived(Full))
  BY AcpEntries, AcpDerived, SMTT(60)
  DEF Row, Fits, Usable, Named, Labels, Acp!SetBudget, Acp!SetBudgetParsed,
      Acp!SetBudgetDerived
<1>16. Row(Acp!SetEvaluatorFee, Acp!SetEvaluatorFeeParsed,
           Acp!SetEvaluatorFeeDerived(Full))
  BY AcpEntries, AcpDerived, SMTT(60)
  DEF Row, Fits, Usable, Named, Labels, Acp!SetEvaluatorFee,
      Acp!SetEvaluatorFeeParsed, Acp!SetEvaluatorFeeDerived
<1>17. Row(Acp!SetPause, Acp!SetPauseParsed, Acp!SetPauseDerived(Full))
  BY AcpEntries, AcpDerived, SMTT(60)
  DEF Row, Fits, Usable, Named, Labels, Acp!SetPause, Acp!SetPauseParsed,
      Acp!SetPauseDerived
<1>18. Row(Acp!SetPaymentToken, Acp!SetPaymentTokenParsed,
           Acp!SetPaymentTokenDerived(Full))
  BY AcpEntries, AcpDerived, SMTT(60)
  DEF Row, Fits, Usable, Named, Labels, Acp!SetPaymentToken,
      Acp!SetPaymentTokenParsed, Acp!SetPaymentTokenDerived
<1>19. Row(Acp!SetPlatformFee, Acp!SetPlatformFeeParsed,
           Acp!SetPlatformFeeDerived(Full))
  BY AcpEntries, AcpDerived, SMTT(60)
  DEF Row, Fits, Usable, Named, Labels, Acp!SetPlatformFee,
      Acp!SetPlatformFeeParsed, Acp!SetPlatformFeeDerived
<1>20. Row(Acp!SetProvider, Acp!SetProviderParsed, Acp!SetProviderDerived(Full))
  BY AcpEntries, AcpDerived, SMTT(60)
  DEF Row, Fits, Usable, Named, Labels, Acp!SetProvider, Acp!SetProviderParsed,
      Acp!SetProviderDerived
<1>21. Row(Acp!SetSponsor, Acp!SetSponsorParsed, Acp!SetSponsorDerived(Full))
  BY AcpEntries, AcpDerived, SMTT(60)
  DEF Row, Fits, Usable, Named, Labels, Acp!SetSponsor, Acp!SetSponsorParsed,
      Acp!SetSponsorDerived
<1>22. Row(Acp!SetSponsorShards, Acp!SetSponsorShardsParsed,
           Acp!SetSponsorShardsDerived(Full))
  BY AcpEntries, AcpDerived, SMTT(60)
  DEF Row, Fits, Usable, Named, Labels, Acp!SetSponsorShards,
      Acp!SetSponsorShardsParsed, Acp!SetSponsorShardsDerived
<1>23. Row(Acp!SetTreasuryShards, Acp!SetTreasuryShardsParsed,
           Acp!SetTreasuryShardsDerived(Full))
  BY AcpEntries, AcpDerived, SMTT(60)
  DEF Row, Fits, Usable, Named, Labels, Acp!SetTreasuryShards,
      Acp!SetTreasuryShardsParsed, Acp!SetTreasuryShardsDerived
<1>24. Row(Acp!Submit, Acp!SubmitParsed, Acp!SubmitDerived(Full))
  BY AcpEntries, AcpDerived, SMTT(60)
  DEF Row, Fits, Usable, Named, Labels, Acp!Submit, Acp!SubmitParsed,
      Acp!SubmitDerived
<1>25. Row(Acp!SweepTreasury, Acp!SweepTreasuryParsed,
           Acp!SweepTreasuryDerived(Full))
  BY AcpEntries, AcpDerived, SMTT(60)
  DEF Row, Fits, Usable, Named, Labels, Acp!SweepTreasury, Acp!SweepTreasuryParsed,
      Acp!SweepTreasuryDerived
<1> QED
  BY <1>1, <1>2, <1>3, <1>4, <1>5, <1>6, <1>7, <1>8, <1>9, <1>10, <1>11,
     <1>12, <1>13, <1>14, <1>15, <1>16, <1>17, <1>18, <1>19, <1>20, <1>21,
     <1>22, <1>23, <1>24, <1>25, SMTT(60)
  DEF Acp!Layouts, Acp!Parsers, Acp!Derives

\* Every instruction it lays out has a discriminator.
LEMMA AcpNamed ==
  \A name \in DOMAIN Acp!Layouts :
    \E i \in DOMAIN Acp!Discriminators : Acp!Discriminators[i] = name
BY SMTT(60) DEF Acp!Layouts, Acp!Discriminators

-----------------------------------------------------------------------------
(* The fund-transfer hook.                                                 *)

\* Its entries.
LEMMA FundHookEntries ==
  /\ \A n : /\ FundHook!S(n).name = n /\ FundHook!S(n).required /\ FundHook!S(n).default = <<>>
            /\ FundHook!SW(n).name = n /\ FundHook!SW(n).required /\ FundHook!SW(n).default = <<>>
            /\ FundHook!R(n).name = n /\ FundHook!R(n).required /\ FundHook!R(n).default = <<>>
            /\ FundHook!W(n).name = n /\ FundHook!W(n).required /\ FundHook!W(n).default = <<>>
            /\ FundHook!Opt(FundHook!R(n)).name = n /\ FundHook!Opt(FundHook!R(n)).default = <<>>
            /\ FundHook!Opt(FundHook!W(n)).name = n /\ FundHook!Opt(FundHook!W(n)).default = <<>>
            /\ FundHook!Got(n).name = n /\ FundHook!Maybe(n).name = n /\ FundHook!Maybe(n).maybe
  /\ \A n, a : FundHook!Def(FundHook!R(n), a).name = n /\ FundHook!Def(FundHook!R(n), a).default = a
  /\ <<>> # Generated
  /\ FundHook!TokenProgram # Generated /\ FundHook!TokenProgram # <<>>
  /\ FundHook!SystemProgram # Generated /\ FundHook!SystemProgram # <<>>
  /\ FundHook!InstructionsSysvar # Generated /\ FundHook!InstructionsSysvar # <<>>
BY DEF FundHook!S, FundHook!SW, FundHook!R, FundHook!W, FundHook!Opt, FundHook!Def,
       FundHook!Entry, FundHook!Got, FundHook!Maybe, FundHook!Key,
       FundHook!TokenProgram, FundHook!SystemProgram, FundHook!InstructionsSysvar,
       Generated, Key

\* What it derives.
LEMMA FundHookDerived ==
  /\ FundHook!EscrowAuthorityPda(FundHook!Generated, Full["jobKey"]) # Generated
  /\ FundHook!HookMetadataPda(FundHook!Generated) # Generated
  /\ FundHook!HookStatePda(FundHook!Generated) # Generated
<1>1. \A program, seeds : FundHook!Pda(program, seeds) = Pda(program, seeds)
  BY Zenon DEF FundHook!Pda, Pda, FundHook!FlattenSeq, FlattenSeq
<1> QED
  BY <1>1, OneWordEach, FullIs, PdaIsSome
  DEF FundHook!EscrowAuthorityPda, FundHook!HookMetadataPda,
      FundHook!HookStatePda, FundHook!Generated, FundHook!Key, FundHook!Bytes,
      FundHook!Loader

\* The address of a program's data.
LEMMA FundHookData ==
  FundHook!Pda(FundHook!Loader, <<FundHook!Bytes("a fixed program id")>>) # Generated
<1>1. \A program, seeds : FundHook!Pda(program, seeds) = Pda(program, seeds)
  BY Zenon DEF FundHook!Pda, Pda, FundHook!FlattenSeq, FlattenSeq
<1> QED
  BY <1>1, OneWordEach, PdaIsSome DEF FundHook!Loader, FundHook!Key, FundHook!Bytes

\* Its instructions, one by one.
LEMMA FundHookRows ==
  \A name \in DOMAIN FundHook!Layouts :
    Row(FundHook!Layouts[name], FundHook!Parsers[name],
        FundHook!Derives(Full)[name])
<1>1. Row(FundHook!AfterAction, FundHook!AfterActionParsed,
          FundHook!AfterActionDerived(Full))
  BY FundHookEntries, FundHookDerived, SMTT(60)
  DEF Row, Fits, Usable, Named, Labels, FundHook!AfterAction,
      FundHook!AfterActionParsed, FundHook!AfterActionDerived
<1>2. Row(FundHook!BeforeAction, FundHook!BeforeActionParsed,
          FundHook!BeforeActionDerived(Full))
  BY FundHookEntries, FundHookDerived, SMTT(60)
  DEF Row, Fits, Usable, Named, Labels, FundHook!BeforeAction,
      FundHook!BeforeActionParsed, FundHook!BeforeActionDerived
<1>3. Row(FundHook!ClaimEscrowRefund, FundHook!ClaimEscrowRefundParsed,
          FundHook!ClaimEscrowRefundDerived(Full))
  BY FundHookEntries, FundHookDerived, SMTT(60)
  DEF Row, Fits, Usable, Named, Labels, FundHook!ClaimEscrowRefund,
      FundHook!ClaimEscrowRefundParsed, FundHook!ClaimEscrowRefundDerived
<1>4. Row(FundHook!CloseJobHookAccounts, FundHook!CloseJobHookAccountsParsed,
          FundHook!CloseJobHookAccountsDerived(Full))
  BY FundHookEntries, FundHookDerived, SMTT(60)
  DEF Row, Fits, Usable, Named, Labels, FundHook!CloseJobHookAccounts,
      FundHook!CloseJobHookAccountsParsed, FundHook!CloseJobHookAccountsDerived
<1>5. Row(FundHook!Initialize, FundHook!InitializeParsed,
          FundHook!InitializeDerived(Full))
  <2>1. Fits(FundHook!Initialize, FundHook!InitializeParsed)
    BY FundHookEntries, SMTT(60) DEF Fits, FundHook!Initialize,
       FundHook!InitializeParsed
  <2>2. Usable(FundHook!InitializeDerived(Full))
    <3> DEFINE data == FundHook!Pda(FundHook!Loader,
    <<FundHook!Bytes("a fixed program id")>>)
    <3>1. data # Generated
      BY FundHookData
    <3>2. FundHook!InitializeDerived(Full) =
          [hookState |-> FundHook!HookStatePda(FundHook!Generated),
           hookMetadata |-> FundHook!HookMetadataPda(FundHook!Generated),
           programData |-> data, systemProgram |-> FundHook!SystemProgram]
      BY DEF FundHook!InitializeDerived
    <3> HIDE DEF data
    <3> QED
      BY <3>1, <3>2, FundHookEntries, FundHookDerived, SMTT(60) DEF Usable
  <2>3. Named(FundHook!Initialize)
    BY FundHookEntries, SMTT(60) DEF Named, Labels, FundHook!Initialize
  <2> QED
    BY <2>1, <2>2, <2>3 DEF Row
<1>6. Row(FundHook!MigrateHookState, FundHook!MigrateHookStateParsed,
          FundHook!MigrateHookStateDerived(Full))
  <2>1. Fits(FundHook!MigrateHookState, FundHook!MigrateHookStateParsed)
    BY FundHookEntries, SMTT(60) DEF Fits, FundHook!MigrateHookState,
       FundHook!MigrateHookStateParsed
  <2>2. Usable(FundHook!MigrateHookStateDerived(Full))
    <3> DEFINE data == FundHook!Pda(FundHook!Loader,
    <<FundHook!Bytes("a fixed program id")>>)
    <3>1. data # Generated
      BY FundHookData
    <3>2. FundHook!MigrateHookStateDerived(Full) =
          [programData |-> data]
      BY DEF FundHook!MigrateHookStateDerived
    <3> HIDE DEF data
    <3> QED
      BY <3>1, <3>2, FundHookEntries, FundHookDerived, SMTT(60) DEF Usable
  <2>3. Named(FundHook!MigrateHookState)
    BY FundHookEntries, SMTT(60) DEF Named, Labels, FundHook!MigrateHookState
  <2> QED
    BY <2>1, <2>2, <2>3 DEF Row
<1>7. Row(FundHook!PreCreateIntent, FundHook!PreCreateIntentParsed,
          FundHook!PreCreateIntentDerived(Full))
  BY FundHookEntries, FundHookDerived, SMTT(60)
  DEF Row, Fits, Usable, Named, Labels, FundHook!PreCreateIntent,
      FundHook!PreCreateIntentParsed, FundHook!PreCreateIntentDerived
<1> QED
  BY <1>1, <1>2, <1>3, <1>4, <1>5, <1>6, <1>7, SMTT(60)
  DEF FundHook!Layouts, FundHook!Parsers, FundHook!Derives

\* Every instruction it lays out has a discriminator.
LEMMA FundHookNamed ==
  \A name \in DOMAIN FundHook!Layouts :
    \E i \in DOMAIN FundHook!Discriminators : FundHook!Discriminators[i] = name
BY SMTT(60) DEF FundHook!Layouts, FundHook!Discriminators

-----------------------------------------------------------------------------
(* The multi-hook router.                                                  *)

\* Its entries.
LEMMA RouterEntries ==
  /\ \A n : /\ Router!S(n).name = n /\ Router!S(n).required /\ Router!S(n).default = <<>>
            /\ Router!SW(n).name = n /\ Router!SW(n).required /\ Router!SW(n).default = <<>>
            /\ Router!R(n).name = n /\ Router!R(n).required /\ Router!R(n).default = <<>>
            /\ Router!W(n).name = n /\ Router!W(n).required /\ Router!W(n).default = <<>>
            /\ Router!Opt(Router!R(n)).name = n /\ Router!Opt(Router!R(n)).default = <<>>
            /\ Router!Opt(Router!W(n)).name = n /\ Router!Opt(Router!W(n)).default = <<>>
            /\ Router!Got(n).name = n /\ Router!Maybe(n).name = n /\ Router!Maybe(n).maybe
  /\ \A n, a : Router!Def(Router!R(n), a).name = n /\ Router!Def(Router!R(n), a).default = a
  /\ <<>> # Generated
  /\ Router!TokenProgram # Generated /\ Router!TokenProgram # <<>>
  /\ Router!SystemProgram # Generated /\ Router!SystemProgram # <<>>
  /\ Router!InstructionsSysvar # Generated /\ Router!InstructionsSysvar # <<>>
BY DEF Router!S, Router!SW, Router!R, Router!W, Router!Opt, Router!Def,
       Router!Entry, Router!Got, Router!Maybe, Router!Key,
       Router!TokenProgram, Router!SystemProgram, Router!InstructionsSysvar,
       Generated, Key

\* What it derives.
LEMMA RouterDerived ==
  /\ Router!HookMetadataPda(Router!Generated) # Generated
  /\ Router!HookRouterPda(Router!Generated, Full["jobKey"]) # Generated
  /\ Router!RouterStatePda(Router!Generated) # Generated
<1>1. \A program, seeds : Router!Pda(program, seeds) = Pda(program, seeds)
  BY Zenon DEF Router!Pda, Pda, Router!FlattenSeq, FlattenSeq
<1> QED
  BY <1>1, OneWordEach, FullIs, PdaIsSome
  DEF Router!HookMetadataPda, Router!HookRouterPda, Router!RouterStatePda,
      Router!Generated, Router!Key, Router!Bytes, Router!Loader

\* The address of a program's data.
LEMMA RouterData == Router!Pda(Router!Loader, <<Router!Bytes("a fixed program id")>>) # Generated
<1>1. \A program, seeds : Router!Pda(program, seeds) = Pda(program, seeds)
  BY Zenon DEF Router!Pda, Pda, Router!FlattenSeq, FlattenSeq
<1> QED
  BY <1>1, OneWordEach, PdaIsSome DEF Router!Loader, Router!Key, Router!Bytes

\* Its instructions, one by one.
LEMMA RouterRows ==
  \A name \in DOMAIN Router!Layouts :
    Row(Router!Layouts[name], Router!Parsers[name], Router!Derives(Full)[name])
<1>1. Row(Router!AddHook, Router!AddHookParsed, Router!AddHookDerived(Full))
  BY RouterEntries, RouterDerived, SMTT(60)
  DEF Row, Fits, Usable, Named, Labels, Router!AddHook, Router!AddHookParsed,
      Router!AddHookDerived
<1>2. Row(Router!AfterAction, Router!AfterActionParsed,
          Router!AfterActionDerived(Full))
  BY RouterEntries, RouterDerived, SMTT(60)
  DEF Row, Fits, Usable, Named, Labels, Router!AfterAction,
      Router!AfterActionParsed, Router!AfterActionDerived
<1>3. Row(Router!BatchConfigureHooks, Router!BatchConfigureHooksParsed,
          Router!BatchConfigureHooksDerived(Full))
  BY RouterEntries, RouterDerived, SMTT(60)
  DEF Row, Fits, Usable, Named, Labels, Router!BatchConfigureHooks,
      Router!BatchConfigureHooksParsed, Router!BatchConfigureHooksDerived
<1>4. Row(Router!BeforeAction, Router!BeforeActionParsed,
          Router!BeforeActionDerived(Full))
  BY RouterEntries, RouterDerived, SMTT(60)
  DEF Row, Fits, Usable, Named, Labels, Router!BeforeAction,
      Router!BeforeActionParsed, Router!BeforeActionDerived
<1>5. Row(Router!CloseHookRouter, Router!CloseHookRouterParsed,
          Router!CloseHookRouterDerived(Full))
  BY RouterEntries, RouterDerived, SMTT(60)
  DEF Row, Fits, Usable, Named, Labels, Router!CloseHookRouter,
      Router!CloseHookRouterParsed, Router!CloseHookRouterDerived
<1>6. Row(Router!ConfigureHooks, Router!ConfigureHooksParsed,
          Router!ConfigureHooksDerived(Full))
  BY RouterEntries, RouterDerived, SMTT(60)
  DEF Row, Fits, Usable, Named, Labels, Router!ConfigureHooks,
      Router!ConfigureHooksParsed, Router!ConfigureHooksDerived
<1>7. Row(Router!Initialize, Router!InitializeParsed,
          Router!InitializeDerived(Full))
  <2>1. Fits(Router!Initialize, Router!InitializeParsed)
    BY RouterEntries, SMTT(60) DEF Fits, Router!Initialize, Router!InitializeParsed
  <2>2. Usable(Router!InitializeDerived(Full))
    <3> DEFINE data == Router!Pda(Router!Loader,
    <<Router!Bytes("a fixed program id")>>)
    <3>1. data # Generated
      BY RouterData
    <3>2. Router!InitializeDerived(Full) =
          [routerState |-> Router!RouterStatePda(Router!Generated),
           hookMetadata |-> Router!HookMetadataPda(Router!Generated),
           programData |-> data, systemProgram |-> Router!SystemProgram]
      BY DEF Router!InitializeDerived
    <3> HIDE DEF data
    <3> QED
      BY <3>1, <3>2, RouterEntries, RouterDerived, SMTT(60) DEF Usable
  <2>3. Named(Router!Initialize)
    BY RouterEntries, SMTT(60) DEF Named, Labels, Router!Initialize
  <2> QED
    BY <2>1, <2>2, <2>3 DEF Row
<1>8. Row(Router!RemoveHook, Router!RemoveHookParsed,
          Router!RemoveHookDerived(Full))
  BY RouterEntries, RouterDerived, SMTT(60)
  DEF Row, Fits, Usable, Named, Labels, Router!RemoveHook, Router!RemoveHookParsed,
      Router!RemoveHookDerived
<1>9. Row(Router!ReorderHooks, Router!ReorderHooksParsed,
          Router!ReorderHooksDerived(Full))
  BY RouterEntries, RouterDerived, SMTT(60)
  DEF Row, Fits, Usable, Named, Labels, Router!ReorderHooks,
      Router!ReorderHooksParsed, Router!ReorderHooksDerived
<1>10. Row(Router!SetMaxHooksPerJob, Router!SetMaxHooksPerJobParsed,
           Router!SetMaxHooksPerJobDerived(Full))
  BY RouterEntries, RouterDerived, SMTT(60)
  DEF Row, Fits, Usable, Named, Labels, Router!SetMaxHooksPerJob,
      Router!SetMaxHooksPerJobParsed, Router!SetMaxHooksPerJobDerived
<1> QED
  BY <1>1, <1>2, <1>3, <1>4, <1>5, <1>6, <1>7, <1>8, <1>9, <1>10, SMTT(60)
  DEF Router!Layouts, Router!Parsers, Router!Derives

\* Every instruction it lays out has a discriminator.
LEMMA RouterNamed ==
  \A name \in DOMAIN Router!Layouts :
    \E i \in DOMAIN Router!Discriminators : Router!Discriminators[i] = name
BY SMTT(60) DEF Router!Layouts, Router!Discriminators

-----------------------------------------------------------------------------
(* The subscription hook.                                                  *)

\* Its entries.
LEMMA SubHookEntries ==
  /\ \A n : /\ SubHook!S(n).name = n /\ SubHook!S(n).required /\ SubHook!S(n).default = <<>>
            /\ SubHook!SW(n).name = n /\ SubHook!SW(n).required /\ SubHook!SW(n).default = <<>>
            /\ SubHook!R(n).name = n /\ SubHook!R(n).required /\ SubHook!R(n).default = <<>>
            /\ SubHook!W(n).name = n /\ SubHook!W(n).required /\ SubHook!W(n).default = <<>>
            /\ SubHook!Opt(SubHook!R(n)).name = n /\ SubHook!Opt(SubHook!R(n)).default = <<>>
            /\ SubHook!Opt(SubHook!W(n)).name = n /\ SubHook!Opt(SubHook!W(n)).default = <<>>
            /\ SubHook!Got(n).name = n /\ SubHook!Maybe(n).name = n /\ SubHook!Maybe(n).maybe
  /\ \A n, a : SubHook!Def(SubHook!R(n), a).name = n /\ SubHook!Def(SubHook!R(n), a).default = a
  /\ <<>> # Generated
  /\ SubHook!TokenProgram # Generated /\ SubHook!TokenProgram # <<>>
  /\ SubHook!SystemProgram # Generated /\ SubHook!SystemProgram # <<>>
  /\ SubHook!InstructionsSysvar # Generated /\ SubHook!InstructionsSysvar # <<>>
BY DEF SubHook!S, SubHook!SW, SubHook!R, SubHook!W, SubHook!Opt, SubHook!Def,
       SubHook!Entry, SubHook!Got, SubHook!Maybe, SubHook!Key,
       SubHook!TokenProgram, SubHook!SystemProgram, SubHook!InstructionsSysvar,
       Generated, Key

\* What it derives.
LEMMA SubHookDerived ==
  /\ SubHook!HookMetadataPda(SubHook!Generated) # Generated
  /\ SubHook!HookStatePda(SubHook!Generated) # Generated
<1>1. \A program, seeds : SubHook!Pda(program, seeds) = Pda(program, seeds)
  BY Zenon DEF SubHook!Pda, Pda, SubHook!FlattenSeq, FlattenSeq
<1> QED
  BY <1>1, OneWordEach, FullIs, PdaIsSome
  DEF SubHook!HookMetadataPda, SubHook!HookStatePda, SubHook!Generated,
      SubHook!Key, SubHook!Bytes, SubHook!Loader

\* The address of a program's data.
LEMMA SubHookData ==
  SubHook!Pda(SubHook!Loader, <<SubHook!Bytes("a fixed program id")>>) # Generated
<1>1. \A program, seeds : SubHook!Pda(program, seeds) = Pda(program, seeds)
  BY Zenon DEF SubHook!Pda, Pda, SubHook!FlattenSeq, FlattenSeq
<1> QED
  BY <1>1, OneWordEach, PdaIsSome DEF SubHook!Loader, SubHook!Key, SubHook!Bytes

\* Its instructions, one by one.
LEMMA SubHookRows ==
  \A name \in DOMAIN SubHook!Layouts :
    Row(SubHook!Layouts[name], SubHook!Parsers[name], SubHook!Derives(Full)[name])
<1>1. Row(SubHook!AfterAction, SubHook!AfterActionParsed,
          SubHook!AfterActionDerived(Full))
  BY SubHookEntries, SubHookDerived, SMTT(60)
  DEF Row, Fits, Usable, Named, Labels, SubHook!AfterAction,
      SubHook!AfterActionParsed, SubHook!AfterActionDerived
<1>2. Row(SubHook!BeforeAction, SubHook!BeforeActionParsed,
          SubHook!BeforeActionDerived(Full))
  BY SubHookEntries, SubHookDerived, SMTT(60)
  DEF Row, Fits, Usable, Named, Labels, SubHook!BeforeAction,
      SubHook!BeforeActionParsed, SubHook!BeforeActionDerived
<1>3. Row(SubHook!CleanupProposedTerms, SubHook!CleanupProposedTermsParsed,
          SubHook!CleanupProposedTermsDerived(Full))
  BY SubHookEntries, SubHookDerived, SMTT(60)
  DEF Row, Fits, Usable, Named, Labels, SubHook!CleanupProposedTerms,
      SubHook!CleanupProposedTermsParsed, SubHook!CleanupProposedTermsDerived
<1>4. Row(SubHook!Initialize, SubHook!InitializeParsed,
          SubHook!InitializeDerived(Full))
  <2>1. Fits(SubHook!Initialize, SubHook!InitializeParsed)
    BY SubHookEntries, SMTT(60) DEF Fits, SubHook!Initialize,
       SubHook!InitializeParsed
  <2>2. Usable(SubHook!InitializeDerived(Full))
    <3> DEFINE data == SubHook!Pda(SubHook!Loader,
    <<SubHook!Bytes("a fixed program id")>>)
    <3>1. data # Generated
      BY SubHookData
    <3>2. SubHook!InitializeDerived(Full) =
          [hookState |-> SubHook!HookStatePda(SubHook!Generated),
           hookMetadata |-> SubHook!HookMetadataPda(SubHook!Generated),
           programData |-> data, systemProgram |-> SubHook!SystemProgram]
      BY DEF SubHook!InitializeDerived
    <3> HIDE DEF data
    <3> QED
      BY <3>1, <3>2, SubHookEntries, SubHookDerived, SMTT(60) DEF Usable
  <2>3. Named(SubHook!Initialize)
    BY SubHookEntries, SMTT(60) DEF Named, Labels, SubHook!Initialize
  <2> QED
    BY <2>1, <2>2, <2>3 DEF Row
<1>5. Row(SubHook!PreCreateProposedTerms, SubHook!PreCreateProposedTermsParsed,
          SubHook!PreCreateProposedTermsDerived(Full))
  BY SubHookEntries, SubHookDerived, SMTT(60)
  DEF Row, Fits, Usable, Named, Labels, SubHook!PreCreateProposedTerms,
      SubHook!PreCreateProposedTermsParsed, SubHook!PreCreateProposedTermsDerived
<1> QED
  BY <1>1, <1>2, <1>3, <1>4, <1>5, SMTT(60)
  DEF SubHook!Layouts, SubHook!Parsers, SubHook!Derives

\* Every instruction it lays out has a discriminator.
LEMMA SubHookNamed ==
  \A name \in DOMAIN SubHook!Layouts :
    \E i \in DOMAIN SubHook!Discriminators : SubHook!Discriminators[i] = name
BY SMTT(60) DEF SubHook!Layouts, SubHook!Discriminators

-----------------------------------------------------------------------------
(* The subscription-state program.                                         *)

\* Its entries.
LEMMA SubStateEntries ==
  /\ \A n : /\ SubState!S(n).name = n /\ SubState!S(n).required /\ SubState!S(n).default = <<>>
            /\ SubState!SW(n).name = n /\ SubState!SW(n).required /\ SubState!SW(n).default = <<>>
            /\ SubState!R(n).name = n /\ SubState!R(n).required /\ SubState!R(n).default = <<>>
            /\ SubState!W(n).name = n /\ SubState!W(n).required /\ SubState!W(n).default = <<>>
            /\ SubState!Opt(SubState!R(n)).name = n /\ SubState!Opt(SubState!R(n)).default = <<>>
            /\ SubState!Opt(SubState!W(n)).name = n /\ SubState!Opt(SubState!W(n)).default = <<>>
            /\ SubState!Got(n).name = n /\ SubState!Maybe(n).name = n /\ SubState!Maybe(n).maybe
  /\ \A n, a : SubState!Def(SubState!R(n), a).name = n /\ SubState!Def(SubState!R(n), a).default = a
  /\ <<>> # Generated
  /\ SubState!TokenProgram # Generated /\ SubState!TokenProgram # <<>>
  /\ SubState!SystemProgram # Generated /\ SubState!SystemProgram # <<>>
  /\ SubState!InstructionsSysvar # Generated /\ SubState!InstructionsSysvar # <<>>
BY DEF SubState!S, SubState!SW, SubState!R, SubState!W, SubState!Opt, SubState!Def,
       SubState!Entry, SubState!Got, SubState!Maybe, SubState!Key,
       SubState!TokenProgram, SubState!SystemProgram, SubState!InstructionsSysvar,
       Generated, Key

\* What it derives.
LEMMA SubStateDerived ==
  /\ SubState!StateConfigPda(SubState!Generated) # Generated
  /\ SubState!SubscriptionExpiryPda(SubState!Generated, Full["client"], Full["provider"],
                                    Full["packageId"]) # Generated
  /\ SubState!WriterRegistryPda(SubState!Generated, Full["writer"]) # Generated
<1>1. \A program, seeds : SubState!Pda(program, seeds) = Pda(program, seeds)
  BY Zenon DEF SubState!Pda, Pda, SubState!FlattenSeq, FlattenSeq
<1> QED
  BY <1>1, OneWordEach, FullIs, PdaIsSome
  DEF SubState!StateConfigPda, SubState!SubscriptionExpiryPda,
      SubState!WriterRegistryPda, SubState!Generated, SubState!Key,
      SubState!Bytes, SubState!Loader

\* The address of a program's data.
LEMMA SubStateData ==
  SubState!Pda(SubState!Loader, <<SubState!Bytes("a fixed program id")>>) # Generated
<1>1. \A program, seeds : SubState!Pda(program, seeds) = Pda(program, seeds)
  BY Zenon DEF SubState!Pda, Pda, SubState!FlattenSeq, FlattenSeq
<1> QED
  BY <1>1, OneWordEach, PdaIsSome DEF SubState!Loader, SubState!Key, SubState!Bytes

\* Its instructions, one by one.
LEMMA SubStateRows ==
  \A name \in DOMAIN SubState!Layouts :
    Row(SubState!Layouts[name], SubState!Parsers[name],
        SubState!Derives(Full)[name])
<1>1. Row(SubState!AcceptAuthority, SubState!AcceptAuthorityParsed,
          SubState!AcceptAuthorityDerived(Full))
  BY SubStateEntries, SubStateDerived, SMTT(60)
  DEF Row, Fits, Usable, Named, Labels, SubState!AcceptAuthority,
      SubState!AcceptAuthorityParsed, SubState!AcceptAuthorityDerived
<1>2. Row(SubState!ActivateSubscription, SubState!ActivateSubscriptionParsed,
          SubState!ActivateSubscriptionDerived(Full))
  BY SubStateEntries, SubStateDerived, SMTT(60)
  DEF Row, Fits, Usable, Named, Labels, SubState!ActivateSubscription,
      SubState!ActivateSubscriptionParsed, SubState!ActivateSubscriptionDerived
<1>3. Row(SubState!AddWriter, SubState!AddWriterParsed,
          SubState!AddWriterDerived(Full))
  BY SubStateEntries, SubStateDerived, SMTT(60)
  DEF Row, Fits, Usable, Named, Labels, SubState!AddWriter,
      SubState!AddWriterParsed, SubState!AddWriterDerived
<1>4. Row(SubState!Initialize, SubState!InitializeParsed,
          SubState!InitializeDerived(Full))
  <2>1. Fits(SubState!Initialize, SubState!InitializeParsed)
    BY SubStateEntries, SMTT(60) DEF Fits, SubState!Initialize,
       SubState!InitializeParsed
  <2>2. Usable(SubState!InitializeDerived(Full))
    <3> DEFINE data == SubState!Pda(SubState!Loader,
    <<SubState!Bytes("a fixed program id")>>)
    <3>1. data # Generated
      BY SubStateData
    <3>2. SubState!InitializeDerived(Full) =
          [stateConfig |-> SubState!StateConfigPda(SubState!Generated),
           programData |-> data, systemProgram |-> SubState!SystemProgram]
      BY DEF SubState!InitializeDerived
    <3> HIDE DEF data
    <3> QED
      BY <3>1, <3>2, SubStateEntries, SubStateDerived, SMTT(60) DEF Usable
  <2>3. Named(SubState!Initialize)
    BY SubStateEntries, SMTT(60) DEF Named, Labels, SubState!Initialize
  <2> QED
    BY <2>1, <2>2, <2>3 DEF Row
<1>5. Row(SubState!NominateAuthority, SubState!NominateAuthorityParsed,
          SubState!NominateAuthorityDerived(Full))
  BY SubStateEntries, SubStateDerived, SMTT(60)
  DEF Row, Fits, Usable, Named, Labels, SubState!NominateAuthority,
      SubState!NominateAuthorityParsed, SubState!NominateAuthorityDerived
<1>6. Row(SubState!PreCreateSubExpiry, SubState!PreCreateSubExpiryParsed,
          SubState!PreCreateSubExpiryDerived(Full))
  BY SubStateEntries, SubStateDerived, SMTT(60)
  DEF Row, Fits, Usable, Named, Labels, SubState!PreCreateSubExpiry,
      SubState!PreCreateSubExpiryParsed, SubState!PreCreateSubExpiryDerived
<1>7. Row(SubState!ReactivateWriter, SubState!ReactivateWriterParsed,
          SubState!ReactivateWriterDerived(Full))
  BY SubStateEntries, SubStateDerived, SMTT(60)
  DEF Row, Fits, Usable, Named, Labels, SubState!ReactivateWriter,
      SubState!ReactivateWriterParsed, SubState!ReactivateWriterDerived
<1>8. Row(SubState!RemoveWriter, SubState!RemoveWriterParsed,
          SubState!RemoveWriterDerived(Full))
  BY SubStateEntries, SubStateDerived, SMTT(60)
  DEF Row, Fits, Usable, Named, Labels, SubState!RemoveWriter,
      SubState!RemoveWriterParsed, SubState!RemoveWriterDerived
<1> QED
  BY <1>1, <1>2, <1>3, <1>4, <1>5, <1>6, <1>7, <1>8, SMTT(60)
  DEF SubState!Layouts, SubState!Parsers, SubState!Derives

\* Every instruction it lays out has a discriminator.
LEMMA SubStateNamed ==
  \A name \in DOMAIN SubState!Layouts :
    \E i \in DOMAIN SubState!Discriminators : SubState!Discriminators[i] = name
BY SMTT(60) DEF SubState!Layouts, SubState!Discriminators

-----------------------------------------------------------------------------
(* The five programs together.                                             *)

\* Every instruction of every program has a row.
LEMMA AllRows ==
  \A p \in Programs : \A name \in DOMAIN Layouts[p] :
    Row(Layouts[p][name], Parsers[p][name], Derives(p, Full)[name])
<1> SUFFICES ASSUME NEW p \in Programs, NEW name \in DOMAIN Layouts[p]
             PROVE  Row(Layouts[p][name], Parsers[p][name], Derives(p, Full)[name])
  OBVIOUS
<1>1. CASE p = "acp"
  <2>1. Layouts[p] = Acp!Layouts /\ Parsers[p] = Acp!Parsers /\ Derives(p, Full) = Acp!Derives(Full)
    BY <1>1 DEF Layouts, Parsers, Derives
  <2> QED
    BY <2>1, AcpRows
<1>2. CASE p = "fundHook"
  <2>1. /\ Layouts[p] = FundHook!Layouts /\ Parsers[p] = FundHook!Parsers
        /\ Derives(p, Full) = FundHook!Derives(Full)
    BY <1>2 DEF Layouts, Parsers, Derives
  <2> QED
    BY <2>1, FundHookRows
<1>3. CASE p = "router"
  <2>1. /\ Layouts[p] = Router!Layouts /\ Parsers[p] = Router!Parsers
        /\ Derives(p, Full) = Router!Derives(Full)
    BY <1>3 DEF Layouts, Parsers, Derives
  <2> QED
    BY <2>1, RouterRows
<1>4. CASE p = "subHook"
  <2>1. /\ Layouts[p] = SubHook!Layouts /\ Parsers[p] = SubHook!Parsers
        /\ Derives(p, Full) = SubHook!Derives(Full)
    BY <1>4 DEF Layouts, Parsers, Derives
  <2> QED
    BY <2>1, SubHookRows
<1>5. CASE p = "subState"
  <2>1. /\ Layouts[p] = SubState!Layouts /\ Parsers[p] = SubState!Parsers
        /\ Derives(p, Full) = SubState!Derives(Full)
    BY <1>5 DEF Layouts, Parsers, Derives
  <2> QED
    BY <2>1, SubStateRows
<1> QED
  BY <1>1, <1>2, <1>3, <1>4, <1>5 DEF Programs

\* Every instruction has a discriminator.
LEMMA AllNamed ==
  \A p \in Programs : \A name \in DOMAIN Layouts[p] :
    \E i \in DOMAIN Discriminators[p] : Discriminators[p][i] = name
<1> SUFFICES ASSUME NEW p \in Programs
             PROVE  \A name \in DOMAIN Layouts[p] :
                      \E i \in DOMAIN Discriminators[p] : Discriminators[p][i] = name
  OBVIOUS
<1>1. p = "acp" => Layouts[p] = Acp!Layouts /\ Discriminators[p] = Acp!Discriminators
  BY DEF Layouts, Discriminators
<1>2. p = "fundHook" => Layouts[p] = FundHook!Layouts /\ Discriminators[p] = FundHook!Discriminators
  BY DEF Layouts, Discriminators
<1>3. p = "router" => Layouts[p] = Router!Layouts /\ Discriminators[p] = Router!Discriminators
  BY DEF Layouts, Discriminators
<1>4. p = "subHook" => Layouts[p] = SubHook!Layouts /\ Discriminators[p] = SubHook!Discriminators
  BY DEF Layouts, Discriminators
<1>5. p = "subState" => Layouts[p] = SubState!Layouts /\ Discriminators[p] = SubState!Discriminators
  BY DEF Layouts, Discriminators
<1> QED
  BY <1>1, <1>2, <1>3, <1>4, <1>5, AcpNamed, FundHookNamed, RouterNamed,
     SubHookNamed, SubStateNamed
  DEF Programs

\* Lists of discriminators have places that are numbers.
LEMMA PlacesAreNumbers == \A p \in Programs : DOMAIN Discriminators[p] \subseteq Nat
<1>1. /\ DOMAIN Acp!Discriminators \subseteq Nat /\ DOMAIN FundHook!Discriminators \subseteq Nat
      /\ DOMAIN Router!Discriminators \subseteq Nat /\ DOMAIN SubHook!Discriminators \subseteq Nat
      /\ DOMAIN SubState!Discriminators \subseteq Nat
  BY DEF Acp!Discriminators, FundHook!Discriminators, Router!Discriminators,
         SubHook!Discriminators, SubState!Discriminators
<1> QED
  BY <1>1 DEF Programs, Discriminators

\* The parser of an instruction is the one its own data names.
LEMMA IdentifiesItself ==
  ASSUME NEW p \in Programs, NEW name \in DOMAIN Layouts[p]
  PROVE  Identify(p, name) = name
<1> DEFINE list == Discriminators[p]
           hits == {i \in DOMAIN list : list[i] = name}
           first == CHOOSE i \in hits : \A j \in hits : i <= j
<1>1. hits # {} /\ hits \in SUBSET Nat
  BY AllNamed, PlacesAreNumbers
<1>2. \E i \in hits : \A j \in hits : i <= j
  BY <1>1, LeastNumber
<1>3. first \in hits
  BY <1>2
<1>4. Identify(p, name) = list[first]
  BY <1>1 DEF Identify
<1> QED
  BY <1>3, <1>4

\* A named account is not the one that stands for "none".
LEMMA LabelsAreSome == \A n \in Labels : Key(n) # Generated
BY DEF Labels, Key, Generated

-----------------------------------------------------------------------------
(* The invariant: the program counter says which of the accounts, the list *)
(* and the answer are there, and each is what the step before it made.     *)

\* The accounts the builder works with.
Accounts == IF call.builder = "async" THEN Resolve(given, Derivable) ELSE given

CallTyped ==
  /\ call.program \in Programs /\ call.name \in DOMAIN Layouts[call.program]
  /\ call.builder \in {"sync", "async"} /\ call.configured \in BOOLEAN

GivenByName == given = Give(DOMAIN given) /\ DOMAIN given \subseteq NamesOf(Layout)

GivenIsEnough ==
  pc # "give" =>
    RequiredOf(Layout) \subseteq
      DOMAIN given \cup (IF call.builder = "async" THEN DOMAIN Derivable ELSE {})

BuiltFromGiven == pc \in {"read", "done"} => metas = Build(Layout, Accounts, ProgramAddress)

ReadFromBuilt == pc = "done" => read = Parse(Parsers[call.program][call.name], metas)

Inductive ==
  /\ pc \in {"give", "build", "read", "done"}
  /\ CallTyped /\ GivenByName /\ GivenIsEnough /\ BuiltFromGiven /\ ReadFromBuilt

\* What a builder derives from does not depend on what it was given: the
\* caller gives every account by its own name.
LEMMA InputsAreFull == GivenByName => Inputs = Full
<1> SUFFICES ASSUME GivenByName PROVE Inputs = Full
  OBVIOUS
<1>1. \A n \in DOMAIN given : given[n] = Key(n)
  BY DEF GivenByName, Give
<1> QED
  BY <1>1 DEF Inputs, Full

\* The calls that are made are of instructions that exist.
LEMMA InitInductive == Init => Inductive
<1> SUFFICES ASSUME Init PROVE Inductive
  OBVIOUS
<1>1. PICK c \in Known, builder \in {"sync", "async"}, configured \in BOOLEAN :
        call = [program |-> c[1], name |-> c[2], builder |-> builder,
        configured |-> configured]
  BY DEF Init
<1>2. c[1] \in Programs /\ c[2] \in DOMAIN Layouts[c[1]]
  BY DEF Known, Calls
<1>3. CallTyped
  BY <1>1, <1>2 DEF CallTyped
<1>4. pc = "give" /\ given = Nothing
  BY DEF Init
<1>5. GivenByName
  BY <1>4 DEF GivenByName, Nothing, Give
<1> QED
  BY <1>3, <1>4, <1>5 DEF Inductive, GivenIsEnough, BuiltFromGiven, ReadFromBuilt

\* Every step makes what the next one relies on.
LEMMA NextInductive == Inductive /\ [Next]_vars => Inductive'
<1> SUFFICES ASSUME Inductive, [Next]_vars PROVE Inductive'
  OBVIOUS
<1> DEFINE derived == Derives(call.program, Full)[call.name]
<1>1. CASE GiveAccounts
  <2> DEFINE must == RequiredOf(Layout) \ IF call.builder = "async" THEN DOMAIN Derivable ELSE {}
  <2>1. pc = "give" /\ pc' = "build" /\ call' = call
    BY <1>1 DEF GiveAccounts
  <2>2. PICK more \in SUBSET (NamesOf(Layout) \ must) : given' = Give(must \cup more)
    BY <1>1 DEF GiveAccounts
  <2>3. Layout' = Layout
    BY <2>1 DEF Layout
  <2>4. RequiredOf(Layout) \subseteq NamesOf(Layout)
    BY DEF RequiredOf, NamesOf
  <2>5. DOMAIN given' = must \cup more /\ given' = Give(DOMAIN given')
    BY <2>2 DEF Give
  <2>6. GivenByName'
    BY <2>3, <2>4, <2>5 DEF GivenByName
  <2>7. Inputs = Full /\ Inputs' = Full
    <3>1. GivenByName
      BY DEF Inductive
    <3>2. Inputs = Full
      BY <3>1, InputsAreFull
    <3>3. (GivenByName => Inputs = Full)'
      BY InputsAreFull, PTL
    <3> QED
      BY <2>6, <3>2, <3>3
  <2>8. Derivable' = Derivable
    BY <2>1, <2>7 DEF Derivable
  <2>9. GivenIsEnough'
    BY <2>1, <2>3, <2>5, <2>8 DEF GivenIsEnough
  <2>10. CallTyped'
    BY <2>1 DEF Inductive, CallTyped
  <2> QED
    BY <2>1, <2>6, <2>9, <2>10 DEF Inductive, BuiltFromGiven, ReadFromBuilt
<1>2. CASE BuildSync \/ BuildAsync
  <2>1. /\ pc = "build" /\ pc' = "read" /\ UNCHANGED <<call, given, read>>
        /\ metas' = Build(Layout, Accounts, ProgramAddress)
    BY <1>2 DEF BuildSync, BuildAsync, Accounts
  <2>2. /\ Layout' = Layout /\ Inputs' = Inputs /\ ProgramAddress' = ProgramAddress
    BY <2>1 DEF Layout, Inputs, ProgramAddress
  <2>3. Derivable' = Derivable
    BY <2>1, <2>2 DEF Derivable
  <2>4. Accounts' = Accounts
    BY <2>1, <2>3 DEF Accounts
  <2>5. BuiltFromGiven'
    BY <2>1, <2>2, <2>4 DEF BuiltFromGiven
  <2>6. CallTyped' /\ GivenByName'
    BY <2>1, <2>2 DEF Inductive, CallTyped, GivenByName
  <2>7. GivenIsEnough'
    BY <2>1, <2>2, <2>3 DEF Inductive, GivenIsEnough
  <2> QED
    BY <2>1, <2>5, <2>6, <2>7 DEF Inductive, ReadFromBuilt
<1>3. CASE ReadBack
  <2>1. /\ pc = "read" /\ pc' = "done" /\ UNCHANGED <<call, given, metas>>
        /\ read' = Parse(Parsers[call.program][Identify(call.program, call.name)], metas)
    BY <1>3 DEF ReadBack
  <2>2. /\ Layout' = Layout /\ Inputs' = Inputs /\ ProgramAddress' = ProgramAddress
    BY <2>1 DEF Layout, Inputs, ProgramAddress
  <2>3. Derivable' = Derivable
    BY <2>1, <2>2 DEF Derivable
  <2>4. Accounts' = Accounts
    BY <2>1, <2>3 DEF Accounts
  <2>5. BuiltFromGiven'
    BY <2>1, <2>2, <2>4 DEF Inductive, BuiltFromGiven
  <2>6. CallTyped' /\ GivenByName'
    BY <2>1, <2>2 DEF Inductive, CallTyped, GivenByName
  <2>7. GivenIsEnough'
    BY <2>1, <2>2, <2>3 DEF Inductive, GivenIsEnough
  <2>8. Identify(call.program, call.name) = call.name
    BY IdentifiesItself DEF Inductive, CallTyped
  <2>9. ReadFromBuilt'
    BY <2>1, <2>8 DEF ReadFromBuilt
  <2> QED
    BY <2>1, <2>5, <2>6, <2>7, <2>9 DEF Inductive
<1>4. CASE UNCHANGED vars
  <2>1. UNCHANGED <<call, given, metas, read, pc>>
    BY <1>4 DEF vars
  <2>2. /\ Layout' = Layout /\ Inputs' = Inputs /\ ProgramAddress' = ProgramAddress
    BY <2>1 DEF Layout, Inputs, ProgramAddress
  <2>3. Derivable' = Derivable
    BY <2>1, <2>2 DEF Derivable
  <2>4. Accounts' = Accounts
    BY <2>1, <2>3 DEF Accounts
  <2> QED
    BY <2>1, <2>2, <2>3, <2>4
    DEF Inductive, CallTyped, GivenByName, GivenIsEnough, BuiltFromGiven,
        ReadFromBuilt
<1> QED
  BY <1>1, <1>2, <1>3, <1>4 DEF Next

\* So it holds throughout.
LEMMA AlwaysInductive == Spec => []Inductive
<1> QED
  BY InitInductive, NextInductive, PTL DEF Spec

-----------------------------------------------------------------------------
(* What is built is read back.                                             *)

\* The accounts a builder works with are enough for its layout.
LEMMA AccountsAreEnough ==
  Inductive /\ pc # "give" => Enough(Accounts, Layout)
<1> SUFFICES ASSUME Inductive, pc # "give" PROVE Enough(Accounts, Layout)
  OBVIOUS
<1>1. /\ call.program \in Programs /\ call.name \in DOMAIN Layouts[call.program]
      /\ given = Give(DOMAIN given) /\ DOMAIN given \subseteq NamesOf(Layout)
  BY DEF Inductive, CallTyped, GivenByName
<1>2. Row(Layout, Parsers[call.program][call.name], Derivable)
  BY <1>1, AllRows, InputsAreFull DEF Inductive, Layout, Derivable
<1>3. \A n \in DOMAIN given : given[n] # Generated
  <2> SUFFICES ASSUME NEW n \in DOMAIN given PROVE given[n] # Generated
    OBVIOUS
  <2>1. n \in Labels
    BY <1>1, <1>2 DEF Row, Named, NamesOf
  <2>2. given[n] = Key(n)
    BY <1>1 DEF Give
  <2>3. Key(n) # Generated
    BY <2>1, LabelsAreSome
  <2> QED
    BY <2>2, <2>3
<1>4. \A n \in DOMAIN Derivable : Derivable[n] # Generated
  BY <1>2 DEF Row, Usable
<1>5. RequiredOf(Layout) \subseteq
        DOMAIN given \cup (IF call.builder = "async" THEN DOMAIN Derivable ELSE {})
  BY DEF Inductive, GivenIsEnough
<1>6. CASE call.builder = "async"
  <2>1. /\ DOMAIN Accounts = DOMAIN given \cup DOMAIN Derivable
        /\ \A n \in DOMAIN Accounts :
             Accounts[n] = IF n \in DOMAIN given THEN given[n] ELSE Derivable[n]
    BY <1>6 DEF Accounts, Resolve
  <2> QED
    BY <1>3, <1>4, <1>5, <1>6, <2>1 DEF Enough
<1>7. CASE call.builder # "async"
  <2>1. Accounts = given
    BY <1>7 DEF Accounts
  <2> QED
    BY <1>3, <1>5, <1>7, <2>1 DEF Enough
<1> QED
  BY <1>6, <1>7

\* In every state, what was read is what was meant.
LEMMA InductiveReadsBack == Inductive => ReadsBack
<1> SUFFICES ASSUME Inductive, pc = "done" PROVE ReadsBack
  BY DEF ReadsBack
<1> DEFINE parser == Parsers[call.program][call.name]
<1>1. /\ call.program \in Programs /\ call.name \in DOMAIN Layouts[call.program]
  BY DEF Inductive, CallTyped
<1>2. Fits(Layout, parser)
  BY <1>1, AllRows DEF Layout, Row
<1>3. Enough(Accounts, Layout)
  BY AccountsAreEnough
<1>4. read = Parse(parser, Build(Layout, Accounts, ProgramAddress))
  BY DEF Inductive, ReadFromBuilt, BuiltFromGiven
<1>5. /\ DOMAIN read = NamesOf(Layout)
      /\ \A i \in DOMAIN Layout : read[Layout[i].name] = ReadAs(Layout[i], Accounts, ProgramAddress)
  <2> HIDE DEF parser
  <2> QED
    BY <1>2, <1>3, <1>4, ParserReadsBack
<1>6. ASSUME NEW n \in DOMAIN read
      PROVE  \/ read[n] = Meant(n)
             \/ Meant(n) = Absent /\ call.configured /\ read[n] = Key(call.program)
  <2>1. PICK i \in DOMAIN Layout : Layout[i].name = n
    BY <1>5, <1>6 DEF NamesOf
  <2> DEFINE k == CHOOSE j \in DOMAIN Layout : Layout[j].name = n
  <2>2. k = i
    BY <1>2, <2>1 DEF Fits
  <2>3. Meant(n) = IF n \in DOMAIN given THEN given[n]
                   ELSE IF call.builder = "async" /\ n \in DOMAIN Derivable THEN Derivable[n]
                   ELSE Layout[i].default
    <3>1. Meant(n) = IF n \in DOMAIN given THEN given[n]
                     ELSE IF call.builder = "async" /\ n \in DOMAIN Derivable THEN Derivable[n]
                     ELSE Layout[k].default
      BY Zenon DEF Meant
    <3> HIDE DEF k
    <3> QED
      BY <2>2, <3>1
  <2>4. read[n] = ReadAs(Layout[i], Accounts, ProgramAddress)
    BY <1>5, <2>1
  <2>5. CASE n \in DOMAIN Accounts
    <3>1. Meant(n) = Accounts[n]
      BY <2>3, <2>5 DEF Accounts, Resolve
    <3> QED
      BY <2>1, <2>4, <2>5, <3>1 DEF ReadAs
  <2>6. CASE n \notin DOMAIN Accounts
    <3>1. Meant(n) = Layout[i].default
      BY <2>3, <2>6 DEF Accounts, Resolve
    <3>2. CASE Layout[i].default # <<>>
      BY <2>1, <2>4, <2>6, <3>1, <3>2 DEF ReadAs
    <3>3. CASE Layout[i].default = <<>>
      <4>1. read[n] = IF ProgramAddress = Generated THEN Absent ELSE ProgramAddress
        BY <2>1, <2>4, <2>6, <3>3 DEF ReadAs
      <4> QED
        BY <3>1, <3>3, <4>1 DEF ProgramAddress, Absent
    <3> QED
      BY <3>2, <3>3
  <2> QED
    BY <2>5, <2>6
<1> QED
  BY <1>5, <1>6 DEF ReadsBack

\* Whichever accounts a caller gives, and whichever builder it uses, the parser
\* of the same client returns each under its own name (the builders and parsers
\* of the generated clients), except the configured program's own address.
THEOREM AccountsAreReadBack == Spec => []ReadsBack
<1> QED
  BY AlwaysInductive, InductiveReadsBack, PTL

-----------------------------------------------------------------------------
(* The retry guard finds the job.                                          *)

\* Where a gate looks for the job there is the job, and the caller always has
\* to give it.
JobAt(layout, derived, index) ==
  /\ index \in DOMAIN layout
  /\ \A i \in DOMAIN layout : layout[i].name \in {"job", "jobAccount"} => i = index
  /\ layout[index].required
  /\ layout[index].name \notin DOMAIN derived

\* The gates point at the job of each instruction they know.
LEMMA GatesPointAtJob ==
  ASSUME NEW p \in Programs, NEW name \in DOMAIN GatesOf(p, TRUE, TRUE)
  PROVE  JobAt(Layouts[p][name], Derives(p, Full)[name],
               GatesOf(p, TRUE, TRUE)[name].jobAccountIndex)
<1>1. JobAt(Acp!SetBudget, Acp!SetBudgetDerived(Full), 2)
  BY AcpEntries, SMTT(60) DEF JobAt, Acp!SetBudget, Acp!SetBudgetDerived
<1>2. JobAt(Acp!Fund, Acp!FundDerived(Full), 2)
  BY AcpEntries, SMTT(60) DEF JobAt, Acp!Fund, Acp!FundDerived
<1>3. JobAt(Acp!Submit, Acp!SubmitDerived(Full), 3)
  BY AcpEntries, SMTT(60) DEF JobAt, Acp!Submit, Acp!SubmitDerived
<1>4. JobAt(Acp!Complete, Acp!CompleteDerived(Full), 3)
  BY AcpEntries, SMTT(60) DEF JobAt, Acp!Complete, Acp!CompleteDerived
<1>5. JobAt(Acp!Reject, Acp!RejectDerived(Full), 3)
  BY AcpEntries, SMTT(60) DEF JobAt, Acp!Reject, Acp!RejectDerived
<1>6. JobAt(Router!BatchConfigureHooks, Router!BatchConfigureHooksDerived(Full), 2)
  BY RouterEntries, SMTT(60) DEF JobAt, Router!BatchConfigureHooks,
     Router!BatchConfigureHooksDerived
<1>7. JobAt(SubHook!CleanupProposedTerms,
            SubHook!CleanupProposedTermsDerived(Full), 3)
  BY SubHookEntries, SMTT(60)
  DEF JobAt, SubHook!CleanupProposedTerms, SubHook!CleanupProposedTermsDerived
<1>8. CASE p = "acp"
  <2>1. GatesOf(p, TRUE, TRUE) = StateGates
    BY <1>8 DEF GatesOf
  <2>2. name \in {"setBudget", "fund", "submit", "complete", "reject"}
    BY <2>1 DEF StateGates
  <2>3. /\ StateGates["setBudget"].jobAccountIndex = 2 /\ StateGates["fund"].jobAccountIndex = 2
        /\ StateGates["submit"].jobAccountIndex = 3 /\ StateGates["complete"].jobAccountIndex = 3
        /\ StateGates["reject"].jobAccountIndex = 3
    BY DEF StateGates, Gate
  <2>4. Layouts[p] = Acp!Layouts /\ Derives(p, Full) = Acp!Derives(Full)
    BY <1>8 DEF Layouts, Derives
  <2>5. /\ Acp!Layouts["setBudget"] = Acp!SetBudget /\ Acp!Layouts["fund"] = Acp!Fund
        /\ Acp!Layouts["submit"] = Acp!Submit /\ Acp!Layouts["complete"] = Acp!Complete
        /\ Acp!Layouts["reject"] = Acp!Reject
    BY DEF Acp!Layouts
  <2>6. /\ Acp!Derives(Full)["setBudget"] = Acp!SetBudgetDerived(Full)
        /\ Acp!Derives(Full)["fund"] = Acp!FundDerived(Full)
        /\ Acp!Derives(Full)["submit"] = Acp!SubmitDerived(Full)
        /\ Acp!Derives(Full)["complete"] = Acp!CompleteDerived(Full)
        /\ Acp!Derives(Full)["reject"] = Acp!RejectDerived(Full)
    BY DEF Acp!Derives
  <2> QED
    BY <1>1, <1>2, <1>3, <1>4, <1>5, <2>1, <2>2, <2>3, <2>4, <2>5, <2>6
<1>9. CASE p = "router"
  <2>1. GatesOf(p, TRUE, TRUE) = RouterStateGates
    BY <1>9 DEF GatesOf
  <2>2. name = "batchConfigureHooks"
    BY <2>1 DEF RouterStateGates
  <2>3. RouterStateGates["batchConfigureHooks"].jobAccountIndex = 2
    BY DEF RouterStateGates, Gate
  <2>4. /\ Layouts[p]["batchConfigureHooks"] = Router!BatchConfigureHooks
        /\ Derives(p, Full)["batchConfigureHooks"] = Router!BatchConfigureHooksDerived(Full)
    BY <1>9 DEF Layouts, Derives, Router!Layouts, Router!Derives
  <2> QED
    BY <1>6, <2>1, <2>2, <2>3, <2>4
<1>10. CASE p = "subHook"
  <2>1. GatesOf(p, TRUE, TRUE) = SubHookStateGates
    BY <1>10 DEF GatesOf
  <2>2. name = "cleanupProposedTerms"
    BY <2>1 DEF SubHookStateGates
  <2>3. SubHookStateGates["cleanupProposedTerms"].jobAccountIndex = 3
    BY DEF SubHookStateGates, Gate
  <2>4. /\ Layouts[p]["cleanupProposedTerms"] = SubHook!CleanupProposedTerms
        /\ Derives(p, Full)["cleanupProposedTerms"] = SubHook!CleanupProposedTermsDerived(Full)
    BY <1>10 DEF Layouts, Derives, SubHook!Layouts, SubHook!Derives
  <2> QED
    BY <1>7, <2>1, <2>2, <2>3, <2>4
<1>11. CASE p \notin {"acp", "router", "subHook"}
  <2>1. DOMAIN GatesOf(p, TRUE, TRUE) = {}
    BY <1>11 DEF GatesOf
  <2> QED
    BY <2>1
<1> QED
  BY <1>8, <1>9, <1>10, <1>11

\* The guard of one gated instruction: what its gate says of the job it names.
LEMMA GuardOfOne ==
  ASSUME NEW ix, NEW gate, NEW jobs,
         ix.name \in DOMAIN GatesOf(ix.program, TRUE, TRUE),
         gate = GatesOf(ix.program, TRUE, TRUE)[ix.name],
         gate.jobAccountIndex \in DOMAIN ix.metas,
         ix.metas[gate.jobAccountIndex].address \in DOMAIN jobs
  PROVE  LET job == jobs[ix.metas[gate.jobAccountIndex].address]
         IN Guard(<<ix>>, jobs)
              <=> job.state \in gate.allowedStates /\ (gate.expiryGated => ~job.overdue)
<1> DEFINE batch == <<ix>>
           gated == {i \in DOMAIN batch :
                       batch[i].name \in DOMAIN GatesOf(batch[i].program, TRUE, TRUE)}
           Holds(x) ==
             LET g == GatesOf(x.program, TRUE, TRUE)[x.name]
             IN /\ g.jobAccountIndex \in DOMAIN x.metas
                /\ LET address == x.metas[g.jobAccountIndex].address
                   IN /\ address \in DOMAIN jobs
                      /\ jobs[address].state \in g.allowedStates
                      /\ g.expiryGated => ~jobs[address].overdue
<1>1. DOMAIN batch = {1} /\ batch[1] = ix
  OBVIOUS
<1>2. Guard(batch, jobs) <=> gated # {} /\ \A i \in gated : Holds(batch[i])
  BY Zenon DEF Guard
<1>3. gated = {1}
  <2> HIDE DEF batch
  <2> QED
    BY <1>1
<1>4. Holds(ix) <=> /\ jobs[ix.metas[gate.jobAccountIndex].address].state \in gate.allowedStates
                    /\ gate.expiryGated => ~jobs[ix.metas[gate.jobAccountIndex].address].overdue
  BY Zenon
<1> HIDE DEF gated, Holds, batch
<1>5. Guard(batch, jobs) <=> Holds(ix)
  BY <1>1, <1>2, <1>3, Zenon
<1> QED
  BY <1>4, <1>5, Zenon DEF batch

\* The account the gate looks at is the job the caller gave.
LEMMA MetaIsJob ==
  ASSUME Inductive, pc \in {"read", "done"},
         call.name \in DOMAIN GatesOf(call.program, TRUE, TRUE),
         NEW n \in {"job", "jobAccount"} \cap NamesOf(Layout)
  PROVE  LET index == GatesOf(call.program, TRUE, TRUE)[call.name].jobAccountIndex
         IN index \in DOMAIN metas /\ metas[index].address = Key(n)
<1> DEFINE index == GatesOf(call.program, TRUE, TRUE)[call.name].jobAccountIndex
<1>1. /\ call.program \in Programs /\ call.name \in DOMAIN Layouts[call.program]
      /\ given = Give(DOMAIN given) /\ metas = Build(Layout, Accounts, ProgramAddress)
  BY DEF Inductive, CallTyped, GivenByName, BuiltFromGiven
<1>2. JobAt(Layout, Derivable, index)
  BY <1>1, GatesPointAtJob, InputsAreFull DEF Inductive, Layout, Derivable
<1> HIDE DEF index
<1>3. PICK i \in DOMAIN Layout : Layout[i].name = n
  BY DEF NamesOf
<1>4. i = index
  BY <1>2, <1>3 DEF JobAt
<1>5. n \in RequiredOf(Layout) /\ n \notin DOMAIN Derivable
  BY <1>2, <1>3, <1>4 DEF JobAt, RequiredOf
<1>6. n \in DOMAIN given
  BY <1>5 DEF Inductive, GivenIsEnough
<1>7. given[n] = Key(n)
  BY <1>1, <1>6 DEF Give
<1>8. n \in DOMAIN Accounts /\ Accounts[n] = Key(n)
  BY <1>6, <1>7 DEF Accounts, Resolve
<1>9. index \in DOMAIN metas /\ metas[index] = GetAccountMeta(Layout[index], Accounts, ProgramAddress)
  BY <1>1, <1>3, <1>4 DEF Build
<1>10. metas[index].address = Key(n)
  BY <1>3, <1>4, <1>8, <1>9 DEF GetAccountMeta
<1> QED
  BY <1>9, <1>10 DEF index

\* In every state, the guard answers what the gate says of the job.
LEMMA InductiveFindsJob == Inductive => GuardFindsJob
<1> DEFINE gates == GatesOf(call.program, TRUE, TRUE)
           gate == gates[call.name]
           ix == [program |-> call.program, name |-> call.name, metas |-> metas]
<1> SUFFICES ASSUME Inductive, pc \in {"read", "done"}, call.name \in DOMAIN gates,
                    NEW n \in {"job", "jobAccount"} \cap NamesOf(Layout),
                    NEW state \in JobStates, NEW overdue \in BOOLEAN
             PROVE  Guard(<<ix>>, [address \in {Key(n)} |-> [state |-> state, overdue |-> overdue]])
                      = (/\ state \in gate.allowedStates
                         /\ ~(gate.expiryGated /\ overdue))
  BY Zenon DEF GuardFindsJob
<1> DEFINE jobs == [address \in {Key(n)} |-> [state |-> state, overdue |-> overdue]]
<1>1. gate.jobAccountIndex \in DOMAIN metas /\ metas[gate.jobAccountIndex].address = Key(n)
  BY MetaIsJob
<1>2. ix.program = call.program /\ ix.name = call.name /\ ix.metas = metas
  OBVIOUS
<1>3. DOMAIN jobs = {Key(n)} /\ jobs[Key(n)].state = state /\ jobs[Key(n)].overdue = overdue
  OBVIOUS
<1> HIDE DEF ix, jobs
<1>4. Guard(<<ix>>, jobs) <=> state \in gate.allowedStates /\ (gate.expiryGated => ~overdue)
  BY <1>1, <1>2, <1>3, GuardOfOne
<1>5. Guard(<<ix>>, jobs) \in BOOLEAN
  BY Zenon DEF Guard
<1> QED
  BY <1>4, <1>5 DEF ix, jobs

\* The retry guard (jobStateRetryGuard.ts) takes the job account from a fixed
\* place: for every instruction it knows, built by either builder with any of
\* the optional accounts left out, that place holds the job.
THEOREM GuardLooksAtJob == Spec => []GuardFindsJob
<1> QED
  BY AlwaysInductive, InductiveFindsJob, PTL
=============================================================================
