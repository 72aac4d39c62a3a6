------------------------ MODULE FundHookInstructions ------------------------
(***************************************************************************)
(* The instructions of the fund-transfer hook, as the generated client     *)
(* sends and reads them (src/core/solana/generated/fund-transfer-hook):    *)
(* the accounts in the order of the builder, what the asynchronous builder *)
(* derives for accounts it is not given, and which accounts the parser     *)
(* takes to be optional.                                                   *)
(***************************************************************************)
EXTENDS AccountMetas

-----------------------------------------------------------------------------
(* Program-derived addresses (pdas/).                                      *)

EscrowAuthorityPda(program, jobKey) == Pda(program, <<Bytes("escrow_authority"), jobKey>>)
HookMetadataPda(program) == Pda(program, <<Bytes("hook_metadata")>>)
HookStatePda(program) == Pda(program, <<Bytes("hook_state")>>)

-----------------------------------------------------------------------------
AfterAction == <<R("hookState")>>
AfterActionDerived(a) == [hookState |-> HookStatePda(Generated)]
AfterActionParsed == <<Got("hookState")>>

-----------------------------------------------------------------------------
BeforeAction == <<R("hookState")>>
BeforeActionDerived(a) == [hookState |-> HookStatePda(Generated)]
BeforeActionParsed == <<Got("hookState")>>

-----------------------------------------------------------------------------
ClaimEscrowRefund == <<S("caller"), R("hookState"), R("jobAccount"),
    W("intent"), W("escrowVault"), W("providerTokenAccount"),
    R("escrowAuthority"), Def(R("tokenProgram"), TokenProgram), R("acpState"),
    W("sponsor")>>
ClaimEscrowRefundDerived(a) == [hookState |-> HookStatePda(Generated),
    escrowAuthority |-> EscrowAuthorityPda(Generated, a["jobKey"]),
    tokenProgram |-> TokenProgram]
ClaimEscrowRefundParsed == <<Got("caller"), Got("hookState"),
    Got("jobAccount"), Got("intent"), Got("escrowVault"),
    Got("providerTokenAccount"), Got("escrowAuthority"), Got("tokenProgram"),
    Got("acpState"), Got("sponsor")>>

-----------------------------------------------------------------------------
CloseJobHookAccounts == <<S("caller"), R("job"), Opt(W("fundRequestIntent")),
    Opt(W("escrowIntent")), Opt(W("fundRequestMap")), Opt(W("escrowMap")),
    R("hookState"), R("acpState"), W("sponsor")>>
CloseJobHookAccountsDerived(a) == [hookState |-> HookStatePda(Generated)]
CloseJobHookAccountsParsed == <<Got("caller"), Got("job"),
    Maybe("fundRequestIntent"), Maybe("escrowIntent"), Maybe("fundRequestMap"),
    Maybe("escrowMap"), Got("hookState"), Got("acpState"), Got("sponsor")>>

-----------------------------------------------------------------------------
Initialize == <<SW("authority"), W("hookState"), W("hookMetadata"),
    R("programData"), Def(R("systemProgram"), SystemProgram)>>
InitializeDerived(a) == [hookState |-> HookStatePda(Generated),
    hookMetadata |-> HookMetadataPda(Generated),
    programData |-> Pda(Loader, <<Bytes("a fixed program id")>>),
    systemProgram |-> SystemProgram]
InitializeParsed == <<Got("authority"), Got("hookState"), Got("hookMetadata"),
    Got("programData"), Got("systemProgram")>>

-----------------------------------------------------------------------------
MigrateHookState == <<S("authority"), W("hookState"), R("programData")>>
MigrateHookStateDerived(a) == [
    programData |-> Pda(Loader, <<Bytes("a fixed program id")>>)]
MigrateHookStateParsed == <<Got("authority"), Got("hookState"),
    Got("programData")>>

-----------------------------------------------------------------------------
PreCreateIntent == <<SW("payer"), R("hookState"), R("job"), W("intent"),
    W("intentMap"), Def(R("systemProgram"), SystemProgram)>>
PreCreateIntentDerived(a) == [hookState |-> HookStatePda(Generated),
    systemProgram |-> SystemProgram]
PreCreateIntentParsed == <<Got("payer"), Got("hookState"), Got("job"),
    Got("intent"), Got("intentMap"), Got("systemProgram")>>

-----------------------------------------------------------------------------
(* The tables by instruction name; "derives" is a function of the accounts *)
(* and arguments the caller gave.                                          *)

Layouts == [afterAction |-> AfterAction, beforeAction |-> BeforeAction,
    claimEscrowRefund |-> ClaimEscrowRefund,
    closeJobHookAccounts |-> CloseJobHookAccounts, initialize |-> Initialize,
    migrateHookState |-> MigrateHookState, preCreateIntent |-> PreCreateIntent]

Parsers == [afterAction |-> AfterActionParsed,
    beforeAction |-> BeforeActionParsed,
    claimEscrowRefund |-> ClaimEscrowRefundParsed,
    closeJobHookAccounts |-> CloseJobHookAccountsParsed,
    initialize |-> InitializeParsed,
    migrateHookState |-> MigrateHookStateParsed,
    preCreateIntent |-> PreCreateIntentParsed]

Derives(a) == [afterAction |-> AfterActionDerived(a),
    beforeAction |-> BeforeActionDerived(a),
    claimEscrowRefund |-> ClaimEscrowRefundDerived(a),
    closeJobHookAccounts |-> CloseJobHookAccountsDerived(a),
    initialize |-> InitializeDerived(a),
    migrateHookState |-> MigrateHookStateDerived(a),
    preCreateIntent |-> PreCreateIntentDerived(a)]

(* The discriminators in the order in which they are tried.               *)
Discriminators == <<"afterAction", "beforeAction", "claimEscrowRefund",
    "closeJobHookAccounts", "initialize", "migrateHookState",
    "preCreateIntent">>
=============================================================================
