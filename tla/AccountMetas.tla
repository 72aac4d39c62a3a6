---------------------------- MODULE AccountMetas ----------------------------
(***************************************************************************)
(* How a generated client turns named accounts into the account list of an *)
(* instruction and back (core/solana/generated/*/shared and the body every *)
(* builder and parser shares).                                             *)
(*                                                                         *)
(* An address is a sequence of strings: a key by its name, or a bracketed  *)
(* program-derived address, so that different seeds give different         *)
(* addresses.  Every PROGRAM_ADDRESS constant of the generated clients is  *)
(* the empty string: Generated.                                            *)
(***************************************************************************)
EXTENDS Naturals, Sequences, SequencesExt

Key(name) == <<name>>
Bytes(literal) == <<literal>>
Pda(program, seeds) == <<"pda">> \o program \o FlattenSeq(seeds) \o <<"end">>

Generated == Key("")
TokenProgram == Key("Tokenkeg")
SystemProgram == Key("11111111")
InstructionsSysvar == Key("Sysvar1nstructions")
Loader == Key("BPFLoaderUpgradeable")

Nothing == [name \in {} |-> Generated]

-----------------------------------------------------------------------------
(* Entries of a builder's account list.  `default` is the address taken    *)
(* when the account is not given; <<>> stands for the program's own.       *)

Entry(name, signer, writable) ==
  [name |-> name, signer |-> signer, writable |-> writable,
   required |-> TRUE, default |-> <<>>]

R(name) == Entry(name, FALSE, FALSE)
W(name) == Entry(name, FALSE, TRUE)
S(name) == Entry(name, TRUE, FALSE)
SW(name) == Entry(name, TRUE, TRUE)
Opt(entry) == [entry EXCEPT !.required = FALSE]
Def(entry, address) == [entry EXCEPT !.required = FALSE, !.default = address]

NamesOf(layout) == {layout[i].name : i \in DOMAIN layout}
RequiredOf(layout) == {layout[i].name : i \in {j \in DOMAIN layout : layout[j].required}}

\* getAccountMetaFactory with the strategy "programId": what is neither given
\* nor defaulted is the program itself, read-only.
GetAccountMeta(entry, accounts, program) ==
  IF entry.name \in DOMAIN accounts
    THEN [address |-> accounts[entry.name], signer |-> entry.signer, writable |-> entry.writable]
    ELSE [address |-> IF entry.default = <<>> THEN program ELSE entry.default,
          signer |-> FALSE, writable |-> FALSE]

(* Mutant: the strategy "omitted", an account that is not given is left    *)
(* out of the list.                                                        *)
BuildOmitting(layout, accounts, program) ==
  LET kept == SelectSeq(layout, LAMBDA e : e.name \in DOMAIN accounts \/ e.default # <<>>)
  IN [i \in DOMAIN kept |-> GetAccountMeta(kept[i], accounts, program)]

Build(layout, accounts, program) ==
  [i \in DOMAIN layout |-> GetAccountMeta(layout[i], accounts, program)]

\* A builder given the accounts `given`, the rest from `derived`.
Resolve(given, derived) ==
  [n \in DOMAIN given \cup DOMAIN derived |-> IF n \in DOMAIN given THEN given[n] ELSE derived[n]]

-----------------------------------------------------------------------------
(* Entries of a parser.                                                    *)

Got(name) == [name |-> name, maybe |-> FALSE]
Maybe(name) == [name |-> name, maybe |-> TRUE]

Absent == <<>>

\* The accounts a parser returns, or Nothing when the list is too short
\* ("Not enough accounts").  getNextOptionalAccount compares with the
\* generated address, whatever program the instruction is for.
Parse(parser, metas) ==
  IF Len(metas) < Len(parser) THEN Nothing
  ELSE [n \in {parser[i].name : i \in DOMAIN parser} |->
          LET i == CHOOSE j \in DOMAIN parser : parser[j].name = n
          IN IF parser[i].maybe /\ metas[i].address = Generated THEN Absent ELSE metas[i].address]
=============================================================================
