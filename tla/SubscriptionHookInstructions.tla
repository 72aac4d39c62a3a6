-------------------- MODULE SubscriptionHookInstructions --------------------
(***************************************************************************)
(* The instructions of the subscription hook, as the generated client      *)
(* sends and reads them (src/core/solana/generated/subscription-hook): the *)
(* accounts in the order of the builder, what the asynchronous builder     *)
(* derives for accounts it is not given, and which accounts the parser     *)
(* takes to be optional.                                                   *)
(***************************************************************************)
EXTENDS AccountMetas

-----------------------------------------------------------------------------
(* Program-derived addresses (pdas/).                                      *)

HookMetadataPda(program) == Pda(program, <<Bytes("hook_metadata")>>)
HookStatePda(program) == Pda(program, <<Bytes("hook_state")>>)

-----------------------------------------------------------------------------
AfterAction == <<R("hookState")>>
AfterActionDerived(a) == [hookState |-> HookStatePda(Generated)]
AfterActionParsed == <<Got("hookState")>>

-----------------------------------------------------------------------------
BeforeAction == <<R("hookState")>>
BeforeActionDerived(a) == [hookState |-> HookStatePda(Generated)]
BeforeActionParsed == <<Got("hookState")>>

-----------------------------------------------------------------------------
CleanupProposedTerms == <<S("caller"), R("hookState"), R("jobAccount"),
    W("proposedTerms"), R("acpState"), W("sponsor")>>
CleanupProposedTermsDerived(a) == [hookState |-> HookStatePda(Generated)]
CleanupProposedTermsParsed == <<Got("caller"), Got("hookState"),
    Got("jobAccount"), Got("proposedTerms"), Got("acpState"), Got("sponsor")>>

-----------------------------------------------------------------------------
Initialize == <<SW("authority"), W("hookState"), W("hookMetadata"),
    R("programData"), Def(R("systemProgram"), SystemProgram)>>
InitializeDerived(a) == [hookState |-> HookStatePda(Generated),
    hookMetadata |-> HookMetadataPda(Generated),
    programData |-> Pda(Loader, <<Bytes("a fixed program id")>>),
    systemProgram |-> SystemProgram]
InitializeParsed == <<Got("authority"), Got("hookState"), Got("hookMetadata"),
    Got("programData"), Got("systemProgram")>>

-----------------------------------------------------------------------------
PreCreateProposedTerms == <<SW("payer"), R("hookState"), R("job"),
    W("proposedTerms"), Def(R("systemProgram"), SystemProgram)>>
PreCreateProposedTermsDerived(a) == [hookState |-> HookStatePda(Generated),
    systemProgram |-> SystemProgram]
PreCreateProposedTermsParsed == <<Got("payer"), Got("hookState"), Got("job"),
    Got("proposedTerms"), Got("systemProgram")>>

-----------------------------------------------------------------------------
(* The tables by instruction name; "derives" is a function of the accounts *)
(* and arguments the caller gave.                                          *)

Layouts == [afterAction |-> AfterAction, beforeAction |-> BeforeAction,
    cleanupProposedTerms |-> CleanupProposedTerms, initialize |-> Initialize,
    preCreateProposedTerms |-> PreCreateProposedTerms]

Parsers == [afterAction |-> AfterActionParsed,
    beforeAction |-> BeforeActionParsed,
    cleanupProposedTerms |-> CleanupProposedTermsParsed,
    initialize |-> InitializeParsed,
    preCreateProposedTerms |-> PreCreateProposedTermsParsed]

Derives(a) == [afterAction |-> AfterActionDerived(a),
    beforeAction |-> BeforeActionDerived(a),
    cleanupProposedTerms |-> CleanupProposedTermsDerived(a),
    initialize |-> InitializeDerived(a),
    preCreateProposedTerms |-> PreCreateProposedTermsDerived(a)]

(* The discriminators in the order in which they are tried.               *)
Discriminators == <<"afterAction", "beforeAction", "cleanupProposedTerms",
    "initialize", "preCreateProposedTerms">>
=============================================================================
