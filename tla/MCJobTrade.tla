---------------------------- MODULE MCJobTrade ----------------------------
(* Instances of JobTrade: which handlers the parties run, on which jobs.   *)
EXTENDS JobTrade

Scripted == [style |-> "script", multiHook |-> FALSE]
ScriptedRouter == [style |-> "script", multiHook |-> TRUE]
Modelled == [style |-> "llm", multiHook |-> FALSE]

AllSetups == {ScriptedRouter, Modelled}
OnlyScripted == {Scripted}
OnlyModelled == {Modelled}
=============================================================================
