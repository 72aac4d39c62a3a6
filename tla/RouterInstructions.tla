------------------------- MODULE RouterInstructions -------------------------
(***************************************************************************)
(* The instructions of the multi-hook router, as the generated client      *)
(* sends and reads them (src/core/solana/generated/multi-hook-router): the *)
(* accounts in the order of the builder, what the asynchronous builder     *)
(* derives for accounts it is not given, and which accounts the parser     *)
(* takes to be optional.                                                   *)
(***************************************************************************)
EXTENDS AccountMetas

-----------------------------------------------------------------------------
(* Program-derived addresses (pdas/).                                      *)

HookMetadataPda(program) == Pda(program, <<Bytes("hook_metadata")>>)
HookRouterPda(program, jobKey) == Pda(program, <<Bytes("hook_router"), jobKey>>)
RouterStatePda(program) == Pda(program, <<Bytes("router_state")>>)

-----------------------------------------------------------------------------
AddHook == <<SW("client"), R("job"), W("hookRouter"), R("routerState"),
    R("hookWhitelist"), R("hookMetadata"),
    Def(R("systemProgram"), SystemProgram)>>
AddHookDerived(a) == [hookRouter |-> HookRouterPda(Generated, a["jobKey"]),
    routerState |-> RouterStatePda(Generated), systemProgram |-> SystemProgram]
AddHookParsed == <<Got("client"), Got("job"), Got("hookRouter"),
    Got("routerState"), Got("hookWhitelist"), Got("hookMetadata"),
    Got("systemProgram")>>

-----------------------------------------------------------------------------
AfterAction == <<R("hookRouter"), R("routerState"),
    Def(R("instructionsSysvar"), InstructionsSysvar)>>
AfterActionDerived(a) == [hookRouter |-> HookRouterPda(Generated, a["jobKey"]),
    routerState |-> RouterStatePda(Generated),
    instructionsSysvar |-> InstructionsSysvar]
AfterActionParsed == <<Got("hookRouter"), Got("routerState"),
    Got("instructionsSysvar")>>

-----------------------------------------------------------------------------
BatchConfigureHooks == <<SW("client"), R("job"), W("hookRouter"),
    R("routerState"), Def(R("systemProgram"), SystemProgram)>>
BatchConfigureHooksDerived(a) == [
    hookRouter |-> HookRouterPda(Generated, a["jobKey"]),
    routerState |-> RouterStatePda(Generated), systemProgram |-> SystemProgram]
BatchConfigureHooksParsed == <<Got("client"), Got("job"), Got("hookRouter"),
    Got("routerState"), Got("systemProgram")>>

-----------------------------------------------------------------------------
BeforeAction == <<R("hookRouter"), R("routerState"),
    Def(R("instructionsSysvar"), InstructionsSysvar)>>
BeforeActionDerived(a) == [
    hookRouter |-> HookRouterPda(Generated, a["jobKey"]),
    routerState |-> RouterStatePda(Generated),
    instructionsSysvar |-> InstructionsSysvar]
BeforeActionParsed == <<Got("hookRouter"), Got("routerState"),
    Got("instructionsSysvar")>>

-----------------------------------------------------------------------------
CloseHookRouter == <<S("caller"), R("job"), W("hookRouter"), R("routerState"),
    R("acpState"), W("sponsor")>>
CloseHookRouterDerived(a) == [
    hookRouter |-> HookRouterPda(Generated, a["jobKey"]),
    routerState |-> RouterStatePda(Generated)]
CloseHookRouterParsed == <<Got("caller"), Got("job"), Got("hookRouter"),
    Got("routerState"), Got("acpState"), Got("sponsor")>>

-----------------------------------------------------------------------------
ConfigureHooks == <<SW("client"), R("job"), W("hookRouter"), R("routerState"),
    Def(R("systemProgram"), SystemProgram)>>
ConfigureHooksDerived(a) == [
    hookRouter |-> HookRouterPda(Generated, a["jobKey"]),
    routerState |-> RouterStatePda(Generated), systemProgram |-> SystemProgram]
ConfigureHooksParsed == <<Got("client"), Got("job"), Got("hookRouter"),
    Got("routerState"), Got("systemProgram")>>

-----------------------------------------------------------------------------
Initialize == <<SW("authority"), W("routerState"), W("hookMetadata"),
    R("acpProgram"), R("programData"), Def(R("systemProgram"), SystemProgram)>>
InitializeDerived(a) == [routerState |-> RouterStatePda(Generated),
    hookMetadata |-> HookMetadataPda(Generated),
    programData |-> Pda(Loader, <<Bytes("a fixed program id")>>),
    systemProgram |-> SystemProgram]
InitializeParsed == <<Got("authority"), Got("routerState"),
    Got("hookMetadata"), Got("acpProgram"), Got("programData"),
    Got("systemProgram")>>

-----------------------------------------------------------------------------
RemoveHook == <<S("client"), R("job"), W("hookRouter"), R("routerState")>>
RemoveHookDerived(a) == [hookRouter |-> HookRouterPda(Generated, a["jobKey"]),
    routerState |-> RouterStatePda(Generated)]
RemoveHookParsed == <<Got("client"), Got("job"), Got("hookRouter"),
    Got("routerState")>>

-----------------------------------------------------------------------------
ReorderHooks == <<S("client"), R("job"), W("hookRouter"), R("routerState")>>
ReorderHooksDerived(a) == [
    hookRouter |-> HookRouterPda(Generated, a["jobKey"]),
    routerState |-> RouterStatePda(Generated)]
ReorderHooksParsed == <<Got("client"), Got("job"), Got("hookRouter"),
    Got("routerState")>>

-----------------------------------------------------------------------------
SetMaxHooksPerJob == <<S("authority"), W("routerState"), R("acpState")>>
SetMaxHooksPerJobDerived(a) == [routerState |-> RouterStatePda(Generated)]
SetMaxHooksPerJobParsed == <<Got("authority"), Got("routerState"),
    Got("acpState")>>

-----------------------------------------------------------------------------
(* The tables by instruction name; "derives" is a function of the accounts *)
(* and arguments the caller gave.                                          *)

Layouts == [addHook |-> AddHook, afterAction |-> AfterAction,
    batchConfigureHooks |-> BatchConfigureHooks, beforeAction |-> BeforeAction,
    closeHookRouter |-> CloseHookRouter, configureHooks |-> ConfigureHooks,
    initialize |-> Initialize, removeHook |-> RemoveHook,
    reorderHooks |-> ReorderHooks, setMaxHooksPerJob |-> SetMaxHooksPerJob]

Parsers == [addHook |-> AddHookParsed, afterAction |-> AfterActionParsed,
    batchConfigureHooks |-> BatchConfigureHooksParsed,
    beforeAction |-> BeforeActionParsed,
    closeHookRouter |-> CloseHookRouterParsed,
    configureHooks |-> ConfigureHooksParsed, initialize |-> InitializeParsed,
    removeHook |-> RemoveHookParsed, reorderHooks |-> ReorderHooksParsed,
    setMaxHooksPerJob |-> SetMaxHooksPerJobParsed]

Derives(a) == [addHook |-> AddHookDerived(a),
    afterAction |-> AfterActionDerived(a),
    batchConfigureHooks |-> BatchConfigureHooksDerived(a),
    beforeAction |-> BeforeActionDerived(a),
    closeHookRouter |-> CloseHookRouterDerived(a),
    configureHooks |-> ConfigureHooksDerived(a),
    initialize |-> InitializeDerived(a), removeHook |-> RemoveHookDerived(a),
    reorderHooks |-> ReorderHooksDerived(a),
    setMaxHooksPerJob |-> SetMaxHooksPerJobDerived(a)]

(* The discriminators in the order in which they are tried.               *)
Discriminators == <<"addHook", "afterAction", "batchConfigureHooks",
    "beforeAction", "closeHookRouter", "configureHooks", "initialize",
    "removeHook", "reorderHooks", "setMaxHooksPerJob">>
=============================================================================
