------------------------------ MODULE MCMining ------------------------------
(***************************************************************************)
(* Instances of Mining for TLC.                                            *)
(***************************************************************************)
EXTENDS Mining, TLC

CONSTANTS s1, s2, a1, a2, mod, escrowAccount

\* Chunks: one recipient, two recipients, below the floor, to a module account.
OneRecipient == {a1 :> 2}
MixedPayouts == {a1 :> 2, a1 :> 2 @@ a2 :> 2, a2 :> 1, mod :> 2}

\* Accounts that exist at genesis (all but one, or none that may be paid), and
\* transfers of users.
Penniless == [a \in Accounts \ {a2} |-> 0]
Unfunded == [a \in Accounts \ EconomicAccounts |-> 0]
NoTransfers == {}
ToSelf == {a1 :> 1}

\* One parameter document, which the authority may submit again.
GenesisDocument == [flags |-> TRUE, economics |-> "genesis", feeShare |-> 0, blockTime |-> 5]
NoUpdates == {}
SameDocument == {GenesisDocument}

\* Slots are interchangeable.
SlotSymmetry == Permutations(SlotIds)

=============================================================================
