----------------------------- MODULE MCRewards -----------------------------
(***************************************************************************)
(* Instances of Rewards for TLC.                                           *)
(***************************************************************************)
EXTENDS Rewards, TLC

CONSTANTS s1, s2, a1, t, escrowAccount

\* One unit to one account, and a payout of nothing, which is refused.
SmallPayouts == {a1 :> 1, a1 :> 0}

\* Genesis accounts, and transfers of users: enough for a new account, too little
\* for one, to the module account, and to more recipients than a transaction may have.
Penniless == a1 :> 0
SmallHoldings == a1 :> 2
NoTransfers == {}
Transfers == {t :> 2, t :> 1, escrowAccount :> 1, a1 :> 1 @@ t :> 1}

\* Parameter documents: that of genesis, one that changes the block time, one that
\* also flips a retired switch, and two that touch a frozen field.
Document(flags, economics, feeShare, blockTime) ==
  [flags |-> flags, economics |-> economics, feeShare |-> feeShare, blockTime |-> blockTime]
GenesisDocument == Document(TRUE, "genesis", 0, 5)
NoUpdates == {}
DocumentUpdates ==
  {Document(TRUE, "genesis", 0, 6), Document(FALSE, "genesis", 0, 7),
   Document(TRUE, "genesis", 100, 5), Document(TRUE, "other", 0, 5)}

\* Slots are interchangeable.
SlotSymmetry == Permutations(SlotIds)

=============================================================================
