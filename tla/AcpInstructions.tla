--------------------------- MODULE AcpInstructions --------------------------
(***************************************************************************)
(* The instructions of the agentic-commerce program, as the generated      *)
(* client sends and reads them (src/core/solana/generated/acp): the        *)
(* accounts in the order of the builder, what the asynchronous builder     *)
(* derives for accounts it is not given, and which accounts the parser     *)
(* takes to be optional.                                                   *)
(***************************************************************************)
EXTENDS AccountMetas

-----------------------------------------------------------------------------
(* Program-derived addresses (pdas/).                                      *)

AcpStatePda(program) == Pda(program, <<Bytes("acp_state")>>)
HookWhitelistPda(program, hook) == Pda(program, <<Bytes("hook_whitelist"), hook>>)
JobPda(program, client, seed) == Pda(program, <<Bytes("job"), client, seed>>)
VaultPda(program, job) == Pda(program, <<Bytes("vault"), job>>)

-----------------------------------------------------------------------------
AcceptAuthority == <<S("newAuthority"), W("acpState")>>
AcceptAuthorityDerived(a) == [acpState |-> AcpStatePda(Generated)]
AcceptAuthorityParsed == <<Got("newAuthority"), Got("acpState")>>

-----------------------------------------------------------------------------
AcceptTreasuryAuthority == <<S("newTreasuryAuthority"), W("acpState")>>
AcceptTreasuryAuthorityDerived(a) == [acpState |-> AcpStatePda(Generated)]
AcceptTreasuryAuthorityParsed == <<Got("newTreasuryAuthority"),
    Got("acpState")>>

-----------------------------------------------------------------------------
AddHookWhitelist == <<SW("authority"), R("acpState"), W("hookWhitelist"),
    R("hookProgramData"), Def(R("systemProgram"), SystemProgram)>>
AddHookWhitelistDerived(a) == [acpState |-> AcpStatePda(Generated),
    hookWhitelist |-> HookWhitelistPda(Generated, a["hook"]),
    hookProgramData |-> Pda(Loader, <<a["hook"]>>),
    systemProgram |-> SystemProgram]
AddHookWhitelistParsed == <<Got("authority"), Got("acpState"),
    Got("hookWhitelist"), Got("hookProgramData"), Got("systemProgram")>>

-----------------------------------------------------------------------------
ClaimRefund == <<S("caller"), R("acpState"), W("job"), Opt(W("vault")),
    Opt(R("vaultAuthority")), Opt(W("clientTokenAccount")), Opt(W("sponsor")),
    Def(R("tokenProgram"), TokenProgram)>>
ClaimRefundDerived(a) == [acpState |-> AcpStatePda(Generated),
    vault |-> VaultPda(Generated, a["job"]), tokenProgram |-> TokenProgram]
ClaimRefundParsed == <<Got("caller"), Got("acpState"), Got("job"),
    Maybe("vault"), Maybe("vaultAuthority"), Maybe("clientTokenAccount"),
    Maybe("sponsor"), Maybe("tokenProgram")>>

-----------------------------------------------------------------------------
Complete == <<S("evaluator"), R("acpState"), W("job"), Opt(W("vault")),
    Opt(R("vaultAuthority")), Opt(W("providerTokenAccount")),
    Opt(W("treasuryTokenAccount")), Opt(W("evaluatorTokenAccount")),
    Opt(W("sponsor")), Def(R("tokenProgram"), TokenProgram),
    Opt(R("hookProgram")), Opt(R("hookWhitelist"))>>
CompleteDerived(a) == [acpState |-> AcpStatePda(Generated),
    vault |-> VaultPda(Generated, a["job"]), tokenProgram |-> TokenProgram]
CompleteParsed == <<Got("evaluator"), Got("acpState"), Got("job"),
    Maybe("vault"), Maybe("vaultAuthority"), Maybe("providerTokenAccount"),
    Maybe("treasuryTokenAccount"), Maybe("evaluatorTokenAccount"),
    Maybe("sponsor"), Maybe("tokenProgram"), Maybe("hookProgram"),
    Maybe("hookWhitelist")>>

-----------------------------------------------------------------------------
CreateJob == <<SW("client"), R("acpState"), W("job"), Opt(R("hookWhitelist")),
    Def(R("systemProgram"), SystemProgram)>>
CreateJobDerived(a) == [acpState |-> AcpStatePda(Generated),
    job |-> JobPda(Generated, a["client"], a["seed"]),
    systemProgram |-> SystemProgram]
CreateJobParsed == <<Got("client"), Got("acpState"), Got("job"),
    Maybe("hookWhitelist"), Got("systemProgram")>>

-----------------------------------------------------------------------------
DetachHook == <<S("authority"), R("acpState"), W("job")>>
DetachHookDerived(a) == [acpState |-> AcpStatePda(Generated)]
DetachHookParsed == <<Got("authority"), Got("acpState"), Got("job")>>

-----------------------------------------------------------------------------
Fund == <<SW("client"), W("job"), R("acpState"), Opt(W("clientTokenAccount")),
    Opt(W("vault")), Opt(R("vaultAuthority")), Opt(R("mint")),
    Def(R("tokenProgram"), TokenProgram),
    Def(R("systemProgram"), SystemProgram), Opt(R("hookProgram")),
    Opt(R("hookWhitelist")), Opt(R("hookDelegate")),
    Opt(R("delegateWhitelist"))>>
FundDerived(a) == [acpState |-> AcpStatePda(Generated),
    vault |-> VaultPda(Generated, a["job"]), tokenProgram |-> TokenProgram,
    systemProgram |-> SystemProgram]
FundParsed == <<Got("client"), Got("job"), Got("acpState"),
    Maybe("clientTokenAccount"), Maybe("vault"), Maybe("vaultAuthority"),
    Maybe("mint"), Maybe("tokenProgram"), Got("systemProgram"),
    Maybe("hookProgram"), Maybe("hookWhitelist"), Maybe("hookDelegate"),
    Maybe("delegateWhitelist")>>

-----------------------------------------------------------------------------
Initialize == <<SW("authority"), W("acpState"), R("programData"),
    R("paymentToken"), Def(R("systemProgram"), SystemProgram)>>
InitializeDerived(a) == [acpState |-> AcpStatePda(Generated),
    programData |-> Pda(Loader, <<Bytes("a fixed program id")>>),
    systemProgram |-> SystemProgram]
InitializeParsed == <<Got("authority"), Got("acpState"), Got("programData"),
    Got("paymentToken"), Got("systemProgram")>>

-----------------------------------------------------------------------------
MigrateState == <<SW("authority"), W("acpState"),
    Def(R("systemProgram"), SystemProgram)>>
MigrateStateDerived(a) == [acpState |-> AcpStatePda(Generated),
    systemProgram |-> SystemProgram]
MigrateStateParsed == <<Got("authority"), Got("acpState"),
    Got("systemProgram")>>

-----------------------------------------------------------------------------
NominateAuthority == <<S("authority"), W("acpState")>>
NominateAuthorityDerived(a) == [acpState |-> AcpStatePda(Generated)]
NominateAuthorityParsed == <<Got("authority"), Got("acpState")>>

-----------------------------------------------------------------------------
NominateTreasuryAuthority == <<S("treasuryAuthority"), W("acpState")>>
NominateTreasuryAuthorityDerived(a) == [acpState |-> AcpStatePda(Generated)]
NominateTreasuryAuthorityParsed == <<Got("treasuryAuthority"),
    Got("acpState")>>

-----------------------------------------------------------------------------
Reject == <<S("caller"), R("acpState"), W("job"), Opt(W("vault")),
    Opt(R("vaultAuthority")), Opt(W("clientTokenAccount")), Opt(W("sponsor")),
    Def(R("tokenProgram"), TokenProgram), Opt(R("hookProgram")),
    Opt(R("hookWhitelist"))>>
RejectDerived(a) == [acpState |-> AcpStatePda(Generated),
    vault |-> VaultPda(Generated, a["job"]), tokenProgram |-> TokenProgram]
RejectParsed == <<Got("caller"), Got("acpState"), Got("job"), Maybe("vault"),
    Maybe("vaultAuthority"), Maybe("clientTokenAccount"), Maybe("sponsor"),
    Maybe("tokenProgram"), Maybe("hookProgram"), Maybe("hookWhitelist")>>

-----------------------------------------------------------------------------
RemoveHookWhitelist == <<SW("authority"), R("acpState"), W("hookWhitelist")>>
RemoveHookWhitelistDerived(a) == [acpState |-> AcpStatePda(Generated),
    hookWhitelist |-> HookWhitelistPda(Generated, a["hook"])]
RemoveHookWhitelistParsed == <<Got("authority"), Got("acpState"),
    Got("hookWhitelist")>>

-----------------------------------------------------------------------------
SetBudget == <<S("caller"), W("job"), R("acpState"), Opt(R("hookProgram")),
    Opt(R("hookWhitelist"))>>
SetBudgetDerived(a) == [acpState |-> AcpStatePda(Generated)]
SetBudgetParsed == <<Got("caller"), Got("job"), Got("acpState"),
    Maybe("hookProgram"), Maybe("hookWhitelist")>>

-----------------------------------------------------------------------------
SetEvaluatorFee == <<S("authority"), W("acpState")>>
SetEvaluatorFeeDerived(a) == [acpState |-> AcpStatePda(Generated)]
SetEvaluatorFeeParsed == <<Got("authority"), Got("acpState")>>

-----------------------------------------------------------------------------
SetPause == <<S("authority"), W("acpState")>>
SetPauseDerived(a) == [acpState |-> AcpStatePda(Generated)]
SetPauseParsed == <<Got("authority"), Got("acpState")>>

-----------------------------------------------------------------------------
SetPaymentToken == <<S("authority"), W("acpState"), R("paymentToken")>>
SetPaymentTokenDerived(a) == [acpState |-> AcpStatePda(Generated)]
SetPaymentTokenParsed == <<Got("authority"), Got("acpState"),
    Got("paymentToken")>>

-----------------------------------------------------------------------------
SetPlatformFee == <<S("authority"), W("acpState")>>
SetPlatformFeeDerived(a) == [acpState |-> AcpStatePda(Generated)]
SetPlatformFeeParsed == <<Got("authority"), Got("acpState")>>

-----------------------------------------------------------------------------
SetProvider == <<S("client"), R("acpState"), W("job")>>
SetProviderDerived(a) == [acpState |-> AcpStatePda(Generated)]
SetProviderParsed == <<Got("client"), Got("acpState"), Got("job")>>

-----------------------------------------------------------------------------
SetSponsor == <<S("authority"), W("acpState")>>
SetSponsorDerived(a) == [acpState |-> AcpStatePda(Generated)]
SetSponsorParsed == <<Got("authority"), Got("acpState")>>

-----------------------------------------------------------------------------
SetSponsorShards == <<S("authority"), W("acpState")>>
SetSponsorShardsDerived(a) == [acpState |-> AcpStatePda(Generated)]
SetSponsorShardsParsed == <<Got("authority"), Got("acpState")>>

-----------------------------------------------------------------------------
SetTreasuryShards == <<S("authority"), W("acpState")>>
SetTreasuryShardsDerived(a) == [acpState |-> AcpStatePda(Generated)]
SetTreasuryShardsParsed == <<Got("authority"), Got("acpState")>>

-----------------------------------------------------------------------------
Submit == <<S("provider"), R("acpState"), W("job"), Opt(W("vault")),
    Opt(R("vaultAuthority")), Opt(W("providerTokenAccount")),
    Opt(W("treasuryTokenAccount")), Opt(W("sponsor")),
    Def(R("tokenProgram"), TokenProgram), Opt(R("hookProgram")),
    Opt(R("hookWhitelist")), Opt(R("hookDelegate")),
    Opt(W("providerHookTokenAccount")), Opt(R("delegateWhitelist"))>>
SubmitDerived(a) == [acpState |-> AcpStatePda(Generated),
    vault |-> VaultPda(Generated, a["job"]), tokenProgram |-> TokenProgram]
SubmitParsed == <<Got("provider"), Got("acpState"), Got("job"), Maybe("vault"),
    Maybe("vaultAuthority"), Maybe("providerTokenAccount"),
    Maybe("treasuryTokenAccount"), Maybe("sponsor"), Maybe("tokenProgram"),
    Maybe("hookProgram"), Maybe("hookWhitelist"), Maybe("hookDelegate"),
    Maybe("providerHookTokenAccount"), Maybe("delegateWhitelist")>>

-----------------------------------------------------------------------------
SweepTreasury == <<S("treasuryAuthority"), R("acpState"), R("treasury"),
    W("treasuryTokenAccount"), W("destination"),
    Def(R("tokenProgram"), TokenProgram)>>
SweepTreasuryDerived(a) == [acpState |-> AcpStatePda(Generated),
    tokenProgram |-> TokenProgram]
SweepTreasuryParsed == <<Got("treasuryAuthority"), Got("acpState"),
    Got("treasury"), Got("treasuryTokenAccount"), Got("destination"),
    Got("tokenProgram")>>

-----------------------------------------------------------------------------
(* The tables by instruction name; "derives" is a function of the accounts *)
(* and arguments the caller gave.                                          *)

Layouts == [acceptAuthority |-> AcceptAuthority,
    acceptTreasuryAuthority |-> AcceptTreasuryAuthority,
    addHookWhitelist |-> AddHookWhitelist, claimRefund |-> ClaimRefund,
    complete |-> Complete, createJob |-> CreateJob, detachHook |-> DetachHook,
    fund |-> Fund, initialize |-> Initialize, migrateState |-> MigrateState,
    nominateAuthority |-> NominateAuthority,
    nominateTreasuryAuthority |-> NominateTreasuryAuthority, reject |-> Reject,
    removeHookWhitelist |-> RemoveHookWhitelist, setBudget |-> SetBudget,
    setEvaluatorFee |-> SetEvaluatorFee, setPause |-> SetPause,
    setPaymentToken |-> SetPaymentToken, setPlatformFee |-> SetPlatformFee,
    setProvider |-> SetProvider, setSponsor |-> SetSponsor,
    setSponsorShards |-> SetSponsorShards,
    setTreasuryShards |-> SetTreasuryShards, submit |-> Submit,
    sweepTreasury |-> SweepTreasury]

Parsers == [acceptAuthority |-> AcceptAuthorityParsed,
    acceptTreasuryAuthority |-> AcceptTreasuryAuthorityParsed,
    addHookWhitelist |-> AddHookWhitelistParsed,
    claimRefund |-> ClaimRefundParsed, complete |-> CompleteParsed,
    createJob |-> CreateJobParsed, detachHook |-> DetachHookParsed,
    fund |-> FundParsed, initialize |-> InitializeParsed,
    migrateState |-> MigrateStateParsed,
    nominateAuthority |-> NominateAuthorityParsed,
    nominateTreasuryAuthority |-> NominateTreasuryAuthorityParsed,
    reject |-> RejectParsed, removeHookWhitelist |-> RemoveHookWhitelistParsed,
    setBudget |-> SetBudgetParsed, setEvaluatorFee |-> SetEvaluatorFeeParsed,
    setPause |-> SetPauseParsed, setPaymentToken |-> SetPaymentTokenParsed,
    setPlatformFee |-> SetPlatformFeeParsed, setProvider |-> SetProviderParsed,
    setSponsor |-> SetSponsorParsed,
    setSponsorShards |-> SetSponsorShardsParsed,
    setTreasuryShards |-> SetTreasuryShardsParsed, submit |-> SubmitParsed,
    sweepTreasury |-> SweepTreasuryParsed]

Derives(a) == [acceptAuthority |-> AcceptAuthorityDerived(a),
    acceptTreasuryAuthority |-> AcceptTreasuryAuthorityDerived(a),
    addHookWhitelist |-> AddHookWhitelistDerived(a),
    claimRefund |-> ClaimRefundDerived(a), complete |-> CompleteDerived(a),
    createJob |-> CreateJobDerived(a), detachHook |-> DetachHookDerived(a),
    fund |-> FundDerived(a), initialize |-> InitializeDerived(a),
    migrateState |-> MigrateStateDerived(a),
    nominateAuthority |-> NominateAuthorityDerived(a),
    nominateTreasuryAuthority |-> NominateTreasuryAuthorityDerived(a),
    reject |-> RejectDerived(a),
    removeHookWhitelist |-> RemoveHookWhitelistDerived(a),
    setBudget |-> SetBudgetDerived(a),
    setEvaluatorFee |-> SetEvaluatorFeeDerived(a),
    setPause |-> SetPauseDerived(a),
    setPaymentToken |-> SetPaymentTokenDerived(a),
    setPlatformFee |-> SetPlatformFeeDerived(a),
    setProvider |-> SetProviderDerived(a), setSponsor |-> SetSponsorDerived(a),
    setSponsorShards |-> SetSponsorShardsDerived(a),
    setTreasuryShards |-> SetTreasuryShardsDerived(a),
    submit |-> SubmitDerived(a), sweepTreasury |-> SweepTreasuryDerived(a)]

(* The discriminators in the order in which they are tried.               *)
Discriminators == <<"acceptAuthority", "acceptTreasuryAuthority",
    "addHookWhitelist", "claimRefund", "complete", "createJob", "detachHook",
    "fund", "initialize", "migrateState", "nominateAuthority",
    "nominateTreasuryAuthority", "reject", "removeHookWhitelist", "setBudget",
    "setEvaluatorFee", "setPause", "setPaymentToken", "setPlatformFee",
    "setProvider", "setSponsor", "setSponsorShards", "setTreasuryShards",
    "submit", "sweepTreasury">>
=============================================================================
