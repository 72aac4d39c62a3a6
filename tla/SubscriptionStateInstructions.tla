-------------------- MODULE SubscriptionStateInstructions -------------------
(***************************************************************************)
(* The instructions of the subscription-state program, as the generated    *)
(* client sends and reads them (src/core/solana/generated/subscription-    *)
(* state): the accounts in the order of the builder, what the asynchronous *)
(* builder derives for accounts it is not given, and which accounts the    *)
(* parser takes to be optional.                                            *)
(***************************************************************************)
EXTENDS AccountMetas

-----------------------------------------------------------------------------
(* Program-derived addresses (pdas/).                                      *)

StateConfigPda(program) == Pda(program, <<Bytes("state_config")>>)
SubscriptionExpiryPda(program, client, provider, packageId) == Pda(program, <<Bytes("sub_expiry"), client, provider, packageId>>)
WriterRegistryPda(program, writer) == Pda(program, <<Bytes("writer"), writer>>)

-----------------------------------------------------------------------------
AcceptAuthority == <<S("newAuthority"), W("stateConfig")>>
AcceptAuthorityDerived(a) == [stateConfig |-> StateConfigPda(Generated)]
AcceptAuthorityParsed == <<Got("newAuthority"), Got("stateConfig")>>

-----------------------------------------------------------------------------
ActivateSubscription == <<W("payer"), R("writerRegistry"), S("writerSigner"),
    W("subscriptionExpiry"), Def(R("systemProgram"), SystemProgram)>>
ActivateSubscriptionDerived(a) == [
    subscriptionExpiry |-> SubscriptionExpiryPda(Generated, a["client"], a["provider"], a["packageId"]),
    systemProgram |-> SystemProgram]
ActivateSubscriptionParsed == <<Got("payer"), Got("writerRegistry"),
    Got("writerSigner"), Got("subscriptionExpiry"), Got("systemProgram")>>

-----------------------------------------------------------------------------
AddWriter == <<SW("authority"), R("stateConfig"), W("writerRegistry"),
    Def(R("systemProgram"), SystemProgram)>>
AddWriterDerived(a) == [stateConfig |-> StateConfigPda(Generated),
    writerRegistry |-> WriterRegistryPda(Generated, a["writer"]),
    systemProgram |-> SystemProgram]
AddWriterParsed == <<Got("authority"), Got("stateConfig"),
    Got("writerRegistry"), Got("systemProgram")>>

-----------------------------------------------------------------------------
Initialize == <<SW("authority"), W("stateConfig"), R("programData"),
    Def(R("systemProgram"), SystemProgram)>>
InitializeDerived(a) == [stateConfig |-> StateConfigPda(Generated),
    programData |-> Pda(Loader, <<Bytes("a fixed program id")>>),
    systemProgram |-> SystemProgram]
InitializeParsed == <<Got("authority"), Got("stateConfig"), Got("programData"),
    Got("systemProgram")>>

-----------------------------------------------------------------------------
NominateAuthority == <<S("authority"), W("stateConfig")>>
NominateAuthorityDerived(a) == [stateConfig |-> StateConfigPda(Generated)]
NominateAuthorityParsed == <<Got("authority"), Got("stateConfig")>>

-----------------------------------------------------------------------------
PreCreateSubExpiry == <<SW("payer"), W("subscriptionExpiry"),
    Def(R("systemProgram"), SystemProgram)>>
PreCreateSubExpiryDerived(a) == [
    subscriptionExpiry |-> SubscriptionExpiryPda(Generated, a["client"], a["provider"], a["packageId"]),
    systemProgram |-> SystemProgram]
PreCreateSubExpiryParsed == <<Got("payer"), Got("subscriptionExpiry"),
    Got("systemProgram")>>

-----------------------------------------------------------------------------
ReactivateWriter == <<S("authority"), R("stateConfig"), W("writerRegistry")>>
ReactivateWriterDerived(a) == [stateConfig |-> StateConfigPda(Generated),
    writerRegistry |-> WriterRegistryPda(Generated, a["writer"])]
ReactivateWriterParsed == <<Got("authority"), Got("stateConfig"),
    Got("writerRegistry")>>

-----------------------------------------------------------------------------
RemoveWriter == <<SW("authority"), R("stateConfig"), W("writerRegistry")>>
RemoveWriterDerived(a) == [stateConfig |-> StateConfigPda(Generated),
    writerRegistry |-> WriterRegistryPda(Generated, a["writer"])]
RemoveWriterParsed == <<Got("authority"), Got("stateConfig"),
    Got("writerRegistry")>>

-----------------------------------------------------------------------------
(* The tables by instruction name; "derives" is a function of the accounts *)
(* and arguments the caller gave.                                          *)

Layouts == [acceptAuthority |-> AcceptAuthority,
    activateSubscription |-> ActivateSubscription, addWriter |-> AddWriter,
    initialize |-> Initialize, nominateAuthority |-> NominateAuthority,
    preCreateSubExpiry |-> PreCreateSubExpiry,
    reactivateWriter |-> ReactivateWriter, removeWriter |-> RemoveWriter]

Parsers == [acceptAuthority |-> AcceptAuthorityParsed,
    activateSubscription |-> ActivateSubscriptionParsed,
    addWriter |-> AddWriterParsed, initialize |-> InitializeParsed,
    nominateAuthority |-> NominateAuthorityParsed,
    preCreateSubExpiry |-> PreCreateSubExpiryParsed,
    reactivateWriter |-> ReactivateWriterParsed,
    removeWriter |-> RemoveWriterParsed]

Derives(a) == [acceptAuthority |-> AcceptAuthorityDerived(a),
    activateSubscription |-> ActivateSubscriptionDerived(a),
    addWriter |-> AddWriterDerived(a), initialize |-> InitializeDerived(a),
    nominateAuthority |-> NominateAuthorityDerived(a),
    preCreateSubExpiry |-> PreCreateSubExpiryDerived(a),
    reactivateWriter |-> ReactivateWriterDerived(a),
    removeWriter |-> RemoveWriterDerived(a)]

(* The discriminators in the order in which they are tried.               *)
Discriminators == <<"acceptAuthority", "activateSubscription", "addWriter",
    "initialize", "nominateAuthority", "preCreateSubExpiry",
    "reactivateWriter", "removeWriter">>
=============================================================================
