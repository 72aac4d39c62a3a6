---------------------------- MODULE MCHookedJob -----------------------------
EXTENDS HookedJob

AllHooks == {"none", "fund", "sub", "router"}
RouterOnly == {"router"}
OneWallet == <<"sponsor1">>
ZeroOrOne == {0, 1}
Under == [token |-> "usdc", amount |-> 1]
Over == [token |-> "usdc", amount |-> 2]
Foreign == [token |-> "other", amount |-> 1]
UnderOnly == {Under}
AllKinds == {Under, Over, Foreign}
=============================================================================
