------------------------------ MODULE Rewards ------------------------------
(***************************************************************************)
(* x/rewards: participation of the slots, the pause, the close of an epoch *)
(* (mint, treasury, entitlements, carry) and the release of entitlements   *)
(* from the module's escrow.                                               *)
(*                                                                         *)
(* A block is BeginBlock, transactions, EndBlock, Commit; a hook that      *)
(* returns an error drops its writes and halts the chain.  A transaction   *)
(* that returns an error changes nothing: a disabled action.               *)
(*                                                                         *)
(* A fresh genesis has one epoch configuration and one reward              *)
(* configuration, both open-ended, and no code schedules another: the      *)
(* geometry and the economics are constants here.  The initial height is 1.*)
(*                                                                         *)
(* Transfers between users share the bank with the escrow, behind the two  *)
(* filters of app/: the cap on outputs and the first-funding minimum.      *)
(***************************************************************************)
EXTENDS SlotDirectory, Emission, Functions

CONSTANTS
  MaxSupply,
  InitialBlockSubsidy,
  EpochLength,      \* epoch_length_blocks
  TreasuryShareBps, \* emission_treasury_share_bps
  MaxBasisPoints,
  TreasuryAddress,
  GenesisEmitted,   \* values of cumulative_emitted in genesis documents
  GenesisCarry,     \* values of carry_forward_remainder in genesis documents
  PayoutSets,       \* payout sets callers may ask for: account -> amount
  GenesisParams,    \* the parameter document of genesis
  GenesisFeeShares, \* fee_treasury_share_bps of current_epoch_config in genesis documents
  ParamUpdates,     \* parameter documents that genesis or the authority may bring
  NoParams,
  Escrow,           \* the module account of x/rewards
  GenesisBalances,  \* the accounts of genesis and what they hold
  UserTransfers,    \* outputs users may ask for: recipient -> amount
  MinimumAccountFunding,
  MaxBankOutputsPerTx,
  MaxHeight         \* bound of the model: the last block

ASSUME FiniteAssumption == IsFiniteSet(SlotIds) /\ IsFiniteSet(Accounts)

\* A valid parameter document, as far as the model tells documents apart: the
\* retired pause switches, the economic fields (denominations, supply, subsidy,
\* lengths, methods, treasury), the fee share, which no computation reads, and the
\* target block time.
ParamDocuments ==
  [flags : BOOLEAN, economics : STRING, feeShare : 0 .. MaxBasisPoints, blockTime : Nat \ {0}]

ASSUME RewardsAssumption ==
  /\ MaxSupply \in Nat \ {0}
  /\ InitialBlockSubsidy \in Nat
  /\ EpochLength \in Nat \ {0}
  /\ MaxHeight \in Nat \ {0}
  /\ MaxBasisPoints \in Nat \ {0}
  /\ TreasuryShareBps \in 0 .. MaxBasisPoints
  /\ TreasuryAddress \in EconomicAccounts
  /\ GenesisEmitted \subseteq 0 .. MaxSupply
  /\ GenesisCarry \subseteq Nat
  /\ \A pay \in PayoutSets, a \in Accounts : a \in DOMAIN pay => pay[a] \in Nat
  /\ {GenesisParams} \cup ParamUpdates \subseteq ParamDocuments
  /\ GenesisFeeShares \subseteq 0 .. MaxBasisPoints
  /\ NoParams \notin ParamDocuments
  /\ Escrow \notin Accounts
  /\ DOMAIN GenesisBalances \subseteq Accounts
  /\ \A a \in DOMAIN GenesisBalances : GenesisBalances[a] \in Nat
  /\ \A out \in UserTransfers : /\ DOMAIN out \subseteq Accounts \cup {Escrow}
                                /\ \A a \in DOMAIN out : out[a] \in Nat
  /\ MinimumAccountFunding \in Nat /\ MaxBankOutputsPerTx \in Nat

\* epochhistory.go under the one configuration of a fresh chain.
EpochStart(e) == 1 + (e - 1) * EpochLength
EpochEnd(e) == e * EpochLength
Epochs == 1 .. ((MaxHeight - 1) \div EpochLength + 1)

VARIABLES
  height,
  phase,         \* "begin", "deliver" or "commit": what the block does next
  halted,        \* a hook returned an error
  epoch,         \* State.CurrentEpoch
  epochStart,    \* State.CurrentEpochStartHeight
  enabledBlocks, \* OpenRewardEnabledBlocks
  activeBlocks,  \* ActiveBlocks, by epoch and slot; 0 when absent
  paused,        \* PauseState.CurrentPaused
  pendingPause,  \* PauseState.HasPending, PendingValue, PendingEffectiveHeight
  cumulative,    \* State.CumulativeEmitted
  carry,         \* State.CarryForwardRemainder
  liability,     \* OutstandingEntitlementLiability
  entitlements,  \* SlotEntitlements, by epoch and slot; amount 0 when absent
  finalized,     \* FinalizedEpochs
  params,        \* Params
  pendingParams, \* PendingParams; NoParams when absent
  epochConfig,   \* CurrentEpochConfig, the snapshot of Params
  escrow,        \* bank balance of the module account (external)
  balances,      \* bank balances of the accounts (external)
  existing,      \* x/auth accounts that exist (external)
  genesis,       \* history: what the chain started with
  credited,      \* history: blocks that began unpaused
  wanted         \* history: what the last pause or resume asked for

blockVars == <<height, phase, halted>>
epochVars == <<epoch, epochStart, enabledBlocks, activeBlocks, credited>>
pauseVars == <<paused, pendingPause, wanted>>
closeVars == <<cumulative, carry, finalized, params, pendingParams, epochConfig>>
escrowVars == <<liability, entitlements, escrow, balances, existing>>
rewardsVars == <<blockVars, epochVars, pauseVars, closeVars, escrowVars, genesis>>
vars == <<directoryVars, rewardsVars>>

NoPause == [has |-> FALSE, value |-> FALSE, effective |-> 0]
NoEntitlement == [amount |-> 0, released |-> 0, payout |-> NoAccount]
\* BuildEpochConfigSnapshot: the economics and the fee share of a document; its
\* switches and its target block time are not part of it.
Snapshot(p) == [economics |-> p.economics, feeShare |-> p.feeShare]
Configs == [economics : STRING, feeShare : 0 .. MaxBasisPoints]
OpenEpoch == [closed |-> FALSE, enabled |-> 0, minted |-> 0, carryIn |-> 0, treasury |-> 0,
              pool |-> 0, allocated |-> 0, carryOut |-> 0, cumulative |-> 0,
              config |-> Snapshot(GenesisParams)]
PausePlans == [has : BOOLEAN, value : BOOLEAN, effective : 0 .. MaxHeight + 1]
Counters == [Epochs -> [SlotIds -> 0 .. EpochLength]]
Entitlements ==
  [Epochs -> [SlotIds ->
     [amount : Nat, released : Nat, payout : EconomicAccounts \cup {NoAccount}]]]
EpochRecords ==
  [Epochs ->
     [closed : BOOLEAN, enabled : Nat, minted : Nat, carryIn : Nat, treasury : Nat,
      pool : Nat, allocated : Nat, carryOut : Nat, cumulative : Nat, config : Configs]]

\* Every store holds a value of the kind its record declares.
RewardsTypeOK ==
  /\ DirectoryTypeOK
  /\ height \in 1 .. MaxHeight
  /\ phase \in {"begin", "deliver", "commit"}
  /\ halted \in BOOLEAN
  /\ epoch \in Epochs
  /\ epochStart \in Nat
  /\ enabledBlocks \in 0 .. EpochLength
  /\ activeBlocks \in Counters
  /\ paused \in BOOLEAN
  /\ pendingPause \in PausePlans
  /\ cumulative \in 0 .. MaxSupply
  /\ carry \in Nat
  /\ liability \in Nat
  /\ entitlements \in Entitlements
  /\ finalized \in EpochRecords
  /\ params \in ParamDocuments
  /\ pendingParams \in ParamDocuments \cup {NoParams}
  /\ epochConfig \in Configs
  /\ escrow \in Nat
  /\ balances \in [Accounts -> Nat]
  /\ existing \subseteq Accounts \cup {Escrow}
  /\ genesis \in [emitted : 0 .. MaxSupply, carry : Nat]
  /\ credited \in Nat
  /\ wanted \in BOOLEAN

\* ValidateUpdate: everything that reaches money is frozen, and the fee share too.
\* The retired switches are not compared.
ValidateUpdate(current, next) ==
  next.economics = current.economics /\ next.feeShare = current.feeShare

\* GenesisState.Validate admits a pending document, and an epoch configuration that
\* has the economics of Params (validateRewardConfigMirrors) but not its fee share.
RewardsInit ==
  /\ DirectoryInit
  /\ height = 1 /\ phase = "begin" /\ halted = FALSE
  /\ epoch = 1 /\ epochStart = 1 /\ enabledBlocks = 0 /\ credited = 0
  /\ activeBlocks = [e \in Epochs |-> [s \in SlotIds |-> 0]]
  /\ paused \in BOOLEAN /\ wanted = paused /\ pendingPause = NoPause
  /\ genesis \in [emitted : GenesisEmitted, carry : GenesisCarry]
  /\ cumulative = genesis.emitted /\ carry = genesis.carry
  /\ finalized = [e \in Epochs |-> OpenEpoch]
  /\ params = GenesisParams
  /\ pendingParams \in {NoParams} \cup {p \in ParamUpdates : ValidateUpdate(params, p)}
  /\ epochConfig \in [economics : {params.economics}, feeShare : GenesisFeeShares]
  /\ liability = 0
  /\ entitlements = [e \in Epochs |-> [s \in SlotIds |-> NoEntitlement]]
  /\ escrow = carry                       \* assertGenesisEscrowMatchesCarry
  /\ existing = DOMAIN GenesisBalances \cup {Escrow}
  /\ balances = [a \in Accounts |-> IF a \in DOMAIN GenesisBalances THEN GenesisBalances[a] ELSE 0]

Committed(ok, new, old) == IF ok THEN new ELSE old  \* the cache is written or dropped
Delivering == ~ halted /\ phase = "deliver"

-----------------------------------------------------------------------------
(* BeginBlock (beginblock.go): open the epoch, apply the pause, then       *)
(* credit the ACTIVE slots.                                                *)

\* verifyCurrentEpochAnchor
EpochAnchored == epochStart = EpochStart(epoch)
OpensEpoch == height = EpochStart(epoch + 1)

\* advanceEpochIfDue resets the counter before anything is credited.
OpenedBlocks == IF OpensEpoch THEN 0 ELSE enabledBlocks

PauseApplied_OneBlockLate ==
  IF pendingPause.has /\ pendingPause.effective < height THEN pendingPause.value ELSE paused
\* applyPendingPauseTransition
PauseApplied ==
  IF pendingPause.has /\ pendingPause.effective = height THEN pendingPause.value ELSE paused

BeginBlockOK ==
  /\ EpochAnchored
  /\ height <= EpochStart(epoch + 1)
  /\ pendingPause.has => pendingPause.effective >= height

Credits(s) == ~ PauseApplied /\ status[s] = "ACTIVE"

CurrentEpoch == IF OpensEpoch THEN epoch + 1 ELSE epoch
CreditedEpoch == CurrentEpoch

BeginBlock ==
  LET ok == BeginBlockOK
      counted == IF PauseApplied THEN 0 ELSE 1
  IN
  /\ ~ halted /\ phase = "begin"
  /\ halted' = ~ ok
  /\ phase' = Committed(ok, "deliver", phase)
  /\ epoch' = Committed(ok, CurrentEpoch, epoch)
  /\ epochStart' = Committed(ok, IF OpensEpoch THEN height ELSE epochStart, epochStart)
  /\ paused' = Committed(ok, PauseApplied, paused)
  /\ pendingPause' = Committed(ok,
       IF pendingPause.has /\ pendingPause.effective = height THEN NoPause ELSE pendingPause,
       pendingPause)
  /\ enabledBlocks' = Committed(ok, OpenedBlocks + counted, enabledBlocks)
  /\ credited' = Committed(ok, credited + counted, credited)
  /\ activeBlocks' = Committed(ok,
       [activeBlocks EXCEPT ![CreditedEpoch] =
          [s \in SlotIds |-> @[s] + IF Credits(s) THEN 1 ELSE 0]],
       activeBlocks)
  /\ UNCHANGED <<directoryVars, height, wanted, closeVars, escrowVars, genesis>>

-----------------------------------------------------------------------------
(* Transactions.                                                           *)

\* SchedulePauseTransition: the last one accepted in a block wins.
SchedulePause(by, value) ==
  /\ Delivering
  /\ by = holder["EMERGENCY"]
  /\ pendingPause' = [has |-> TRUE, value |-> value, effective |-> height + 1]
  /\ wanted' = value
  /\ UNCHANGED <<directoryVars, blockVars, epochVars, paused, closeVars, escrowVars, genesis>>

PauseRewards(by) == SchedulePause(by, TRUE)
ResumeRewards(by) == SchedulePause(by, FALSE)

\* The switches may not change here; what may change waits for the epoch to close, a
\* later document replacing an earlier one.
UpdateRewardsParams(by, p) ==
  /\ Delivering
  /\ by = holder["PRIMARY"]
  /\ p.flags = params.flags
  /\ ValidateUpdate(params, p)                       \* SetPendingParams
  /\ pendingParams' = p
  /\ UNCHANGED <<directoryVars, blockVars, epochVars, pauseVars, cumulative, carry,
                 finalized, params, epochConfig, escrowVars, genesis>>

MayFund_NoExemption(from, to, amount) == to \in existing \/ amount >= MinimumAccountFunding
\* newAccountFundingRestriction, which the bank asks at every transfer: a new
\* account needs the minimum, unless the protocol is paying.
MayFund(from, to, amount) ==
  \/ to \in existing
  \/ amount >= MinimumAccountFunding
  \/ from = Escrow                                  \* protocolPayoutModules

\* The bank refuses module accounts as recipients of users.
BlockedAddr(a) == a \notin EconomicAccounts

\* MsgSend (one output) and MsgMultiSend, behind newBankOutputCap; one output that
\* is refused fails the transaction.
Send(from, outputs) ==
  LET Received(a) == IF a \in DOMAIN outputs THEN outputs[a] ELSE 0
      total == SumFunction(outputs)
  IN
  /\ Delivering
  /\ Cardinality(DOMAIN outputs) <= MaxBankOutputsPerTx
  /\ \A a \in DOMAIN outputs :
       outputs[a] > 0 /\ ~ BlockedAddr(a) /\ MayFund(from, a, outputs[a])
  /\ total <= balances[from]
  /\ balances' = [a \in Accounts |->
       balances[a] + Received(a) - IF a = from THEN total ELSE 0]
  /\ escrow' = escrow + Received(Escrow)
  /\ existing' = existing \cup DOMAIN outputs
  /\ UNCHANGED <<directoryVars, blockVars, epochVars, pauseVars, closeVars, liability,
                 entitlements, genesis>>

\* A transaction of x/coreslot.
DirectoryTx == Delivering /\ DirectoryNext /\ UNCHANGED rewardsVars

\* SettlementReleaseEnabled reads the value in force, never the pending one.
ReleaseEnabled == ~ paused

Remaining(e, s) == entitlements[e][s].amount - entitlements[e][s].released

WithinCeiling_RequestOnly(e, s, total) == total <= entitlements[e][s].amount
\* assertReleaseCeiling
WithinCeiling(e, s, total) ==
  entitlements[e][s].released + total <= entitlements[e][s].amount

\* recordRelease and subOutstandingLiability
Released_AmountReduced(e, s, total) == [entitlements EXCEPT ![e][s].amount = @ - total]
Released(e, s, total) == [entitlements EXCEPT ![e][s].released = @ + total]
OwedAfter(total) == liability - total

\* loadReleasableEntitlement, the sends, recordRelease.  The bank refuses to
\* send what the escrow does not hold, subOutstandingLiability to go below zero.
Release(e, s, pay, total) ==
  /\ Delivering
  /\ ReleaseEnabled
  /\ entitlements[e][s].amount # 0
  /\ DOMAIN pay \subseteq EconomicAccounts
  /\ WithinCeiling(e, s, total)
  /\ total <= escrow /\ total <= liability
  /\ \A a \in DOMAIN pay : MayFund(Escrow, a, pay[a])
  /\ balances' = [a \in Accounts |-> balances[a] + IF a \in DOMAIN pay THEN pay[a] ELSE 0]
  /\ existing' = existing \cup DOMAIN pay
  /\ escrow' = escrow - total
  /\ entitlements' = Released(e, s, total)
  /\ liability' = OwedAfter(total)
  /\ UNCHANGED <<directoryVars, blockVars, epochVars, pauseVars, closeVars, genesis>>

\* A payout set groups the amounts of one recipient.
PayEntitlement(e, s, pay) ==
  /\ DOMAIN pay # {}
  /\ \A a \in DOMAIN pay : pay[a] > 0
  /\ Release(e, s, pay, SumFunction(pay))

RemainderPayee_Current(e, s) == payout[s]
\* The address recorded when the epoch closed, not the one the slot has now.
RemainderPayee(e, s) == entitlements[e][s].payout

PayEntitlementRemainder(e, s) ==
  /\ Remaining(e, s) > 0
  /\ Release(e, s, [a \in {RemainderPayee(e, s)} |-> Remaining(e, s)], Remaining(e, s))

-----------------------------------------------------------------------------
(* EndBlock (endblock.go, finalize.go): close the epoch at its last block. *)

BlockMayEnd == height < MaxHeight                    \* bound of the model

Weight == SumFunction(activeBlocks[epoch])
Earners == {s \in SlotIds : activeBlocks[epoch][s] > 0}

\* Emission counts the reward-enabled blocks, not the length of the epoch.
Emitted == CumulativeAfter(cumulative, enabledBlocks, MaxSupply, InitialBlockSubsidy)
Minted == Emitted - cumulative
Treasury == (Minted * TreasuryShareBps) \div MaxBasisPoints
Pool == Minted - Treasury + carry

Share_OfEpochLength(s) == (Pool * activeBlocks[epoch][s]) \div EpochLength
\* AllocateSlotEntitlements: rounded down; what is left is carried on.
Share(s) == IF Weight = 0 THEN 0 ELSE (Pool * activeBlocks[epoch][s]) \div Weight
Allocated == SumFunction([s \in SlotIds |-> Share(s)])
CarryOut == Pool - Allocated

Created_ActiveOnly ==
  [s \in SlotIds |->
     IF Share(s) > 0 /\ status[s] = "ACTIVE"
     THEN [amount |-> Share(s), released |-> 0, payout |-> payout[s]]
     ELSE NoEntitlement]
\* createSlotEntitlement, for the shares that are not zero, under the payout
\* address of this moment.
Created ==
  [s \in SlotIds |->
     IF Share(s) > 0
     THEN [amount |-> Share(s), released |-> 0, payout |-> payout[s]]
     ELSE NoEntitlement]

\* validateEpochParticipation
ParticipationOK ==
  /\ enabledBlocks <= EpochLength
  /\ \A s \in SlotIds : activeBlocks[epoch][s] <= enabledBlocks

\* GetSlotRewardSnapshot: every slot with a counted block has an admissible
\* payout address.
SnapshotsOK == \A s \in Earners : status[s] # "ABSENT" /\ payout[s] \in EconomicAccounts

\* The cap, the signs of the amounts (treasury.go, pool.go) and the conservation
\* of the allocation.
AllocationOK ==
  /\ Emitted \in 0 .. MaxSupply
  /\ Minted >= 0
  /\ Treasury \in 0 .. Minted
  /\ Allocated \in 0 .. Pool
  /\ \A s \in SlotIds : Share(s) \in Nat
  /\ Earners # {} => CarryOut < Cardinality(Earners)

\* The records are new, the treasury can be paid, and the escrow covers exactly
\* what is owed.
FinalizeOK ==
  /\ EpochAnchored
  /\ ParticipationOK
  /\ SnapshotsOK
  /\ AllocationOK
  /\ \A s \in SlotIds : entitlements[epoch][s] = NoEntitlement
  /\ ~ finalized[epoch].closed
  /\ Treasury > 0 => MayFund(Escrow, TreasuryAddress, Treasury)
  /\ escrow + Minted - Treasury = liability + Allocated + CarryOut

\* PayTreasury
PaidTreasury == [balances EXCEPT ![TreasuryAddress] = @ + Treasury]

FinalizedRecord ==
  [closed |-> TRUE, enabled |-> enabledBlocks, minted |-> Minted, carryIn |-> carry,
   treasury |-> Treasury, pool |-> Pool, allocated |-> Allocated, carryOut |-> CarryOut,
   cumulative |-> Emitted, config |-> epochConfig]

NextParams_FlagsNotPinned == IF pendingParams = NoParams THEN params ELSE pendingParams
\* The queued document takes over, except for the retired switches, and the snapshot
\* of the next epoch is its.
NextParams ==
  IF pendingParams = NoParams THEN params ELSE [pendingParams EXCEPT !.flags = params.flags]
NextConfig == Snapshot(NextParams)

FinalizeEpoch ==
  LET ok == FinalizeOK IN
  /\ Delivering /\ BlockMayEnd
  /\ height = EpochEnd(epoch)
  /\ halted' = ~ ok
  /\ phase' = Committed(ok, "commit", phase)
  /\ cumulative' = Committed(ok, Emitted, cumulative)
  /\ carry' = Committed(ok, CarryOut, carry)
  /\ finalized' = Committed(ok, [finalized EXCEPT ![epoch] = FinalizedRecord], finalized)
  /\ params' = Committed(ok, NextParams, params)
  /\ pendingParams' = Committed(ok, NoParams, pendingParams)
  /\ epochConfig' = Committed(ok, NextConfig, epochConfig)
  /\ entitlements' = Committed(ok, [entitlements EXCEPT ![epoch] = Created], entitlements)
  /\ liability' = Committed(ok, liability + Allocated, liability)
  /\ escrow' = Committed(ok, escrow + Minted - Treasury, escrow)
  /\ balances' = Committed(ok, PaidTreasury, balances)
  /\ existing' = Committed(ok,
       IF Treasury > 0 THEN existing \cup {TreasuryAddress} ELSE existing, existing)
  /\ activeBlocks' = Committed(ok,                   \* DeleteActiveBlocksForEpoch
       [activeBlocks EXCEPT ![epoch] = [s \in SlotIds |-> 0]], activeBlocks)
  /\ UNCHANGED <<directoryVars, height, epoch, epochStart, enabledBlocks, credited,
                 pauseVars, genesis>>

\* Any other block: nothing to do, unless the end of the epoch was missed.
EndBlockInsideEpoch ==
  LET ok == EpochAnchored /\ height < EpochEnd(epoch) IN
  /\ Delivering /\ BlockMayEnd
  /\ height # EpochEnd(epoch)
  /\ halted' = ~ ok
  /\ phase' = Committed(ok, "commit", phase)
  /\ UNCHANGED <<directoryVars, height, epochVars, pauseVars, closeVars, escrowVars, genesis>>

EndBlock == FinalizeEpoch \/ EndBlockInsideEpoch

\* The block is committed and the next one starts.
CommitBlock ==
  /\ ~ halted /\ phase = "commit"
  /\ height' = height + 1
  /\ phase' = "begin"
  /\ UNCHANGED <<directoryVars, halted, epochVars, pauseVars, closeVars, escrowVars, genesis>>

RewardsNext ==
  \/ BeginBlock
  \/ \E by \in Accounts : PauseRewards(by)
  \/ \E by \in Accounts : ResumeRewards(by)
  \/ \E by \in Accounts, p \in ParamUpdates : UpdateRewardsParams(by, p)
  \/ \E from \in Accounts, outputs \in UserTransfers : Send(from, outputs)
  \/ DirectoryTx
  \/ \E e \in Epochs, s \in SlotIds, pay \in PayoutSets : PayEntitlement(e, s, pay)
  \/ \E e \in Epochs, s \in SlotIds : PayEntitlementRemainder(e, s)
  \/ FinalizeEpoch
  \/ EndBlockInsideEpoch
  \/ CommitBlock

RewardsSpec == RewardsInit /\ [][RewardsNext]_vars

-----------------------------------------------------------------------------
(* Properties.                                                             *)

Closed(e) == finalized[e].closed

\* No hook of x/rewards returns an error: boundaries and pauses are met at their
\* height, counters agree, every earner can be paid, the allocation adds up, and no
\* transfer of a user or new treasury account gets in the way of a close.
RewardsNeverHalt == ~ halted

\* At every moment, releases in progress included, the module account holds
\* exactly what is owed plus the carry (assertEscrowSolvency, ModuleBalanceCoverage).
EscrowSolvent == escrow = liability + carry

\* The running liability is what the entitlement records still owe, and no
\* record has released more than its amount (EntitlementLiability invariant).
LiabilityExact ==
  /\ liability = SumFunction([x \in Epochs \X SlotIds |-> Remaining(x[1], x[2])])
  /\ \A e \in Epochs, s \in SlotIds : Remaining(e, s) >= 0

\* Nothing is created or lost: what accounts and escrow hold is what they held at
\* genesis plus everything minted.
SupplyConserved ==
  SumFunction(balances) + escrow =
    SumFunction(GenesisBalances) + genesis.carry + (cumulative - genesis.emitted)

\* Emission follows the unpaused blocks of the closed epochs alone, whatever
\* the lengths of the pauses and the epochs they fall into.
EmissionFollowsCredit ==
  LET open == IF Closed(epoch) THEN 0 ELSE enabledBlocks
  IN cumulative = CumulativeAfter(genesis.emitted, credited - open, MaxSupply, InitialBlockSubsidy)

\* The books: escrow, liability, supply and emission agree at every moment,
\* although mint, treasury, entitlements, carry and releases are written apart.
BooksBalance == EscrowSolvent /\ LiabilityExact /\ SupplyConserved /\ EmissionFollowsCredit

\* Epochs close in order, each taking over what the one before it carried; the
\* entitlements of an epoch are its allocation, and one that counted a block
\* carries less than a unit per slot: with the floor of one ACTIVE slot nothing is
\* minted for nobody.
EpochsChain ==
  \A e \in Epochs :
    /\ Closed(e) <=> \/ e < epoch
                     \/ e = epoch /\ height > EpochEnd(e)
                     \/ e = epoch /\ height = EpochEnd(e) /\ phase = "commit"
    /\ SumFunction([s \in SlotIds |-> entitlements[e][s].amount]) = finalized[e].allocated
    /\ Closed(e) =>
         /\ finalized[e].carryIn = IF e = 1 THEN genesis.carry ELSE finalized[e - 1].carryOut
         /\ finalized[e].enabled > 0 => finalized[e].carryOut < Cardinality(SlotIds)

\* A closed epoch and the terms of its entitlements never change; releases only
\* grow (ClosedEpochImmutability, write-once entitlements).
ClosedEpochsImmutable ==
  [][\A e \in Epochs : Closed(e) =>
       /\ finalized'[e] = finalized[e]
       /\ \A s \in SlotIds :
            /\ entitlements'[e][s].amount = entitlements[e][s].amount
            /\ entitlements'[e][s].payout = entitlements[e][s].payout
            /\ entitlements'[e][s].released >= entitlements[e][s].released]_vars

\* A block is paused exactly when the last request accepted in an earlier block
\* asked for it, and a paused block credits nobody and releases nothing.
PauseFollowsLastRequest ==
  [][/\ phase = "begin" /\ phase' = "deliver" =>
          /\ paused' = wanted
          /\ wanted => activeBlocks' = activeBlocks
     /\ phase = "deliver" /\ phase' = "deliver" =>
          /\ paused' = paused
          /\ paused => escrow' = escrow]_vars

\* Parameters and the epoch's configuration move only when an epoch closes, which
\* adopts the last document queued by then, or the one genesis brought.  Whatever its
\* origin, only the block time moves: the retired switches, the economics and the fee
\* share are those of genesis for ever.  The record of an epoch keeps the configuration
\* it ran under.
ParamsSwitchAtClose ==
  [][LET closes == ~ Closed(epoch) /\ finalized'[epoch].closed IN
     /\ \A field \in {"flags", "economics", "feeShare"} : params'[field] = params[field]
     /\ params' # params \/ epochConfig' # epochConfig => closes
     /\ closes =>
          /\ pendingParams # NoParams => params'.blockTime = pendingParams.blockTime
          /\ pendingParams' = NoParams
          /\ finalized'[epoch].config = epochConfig
          /\ epochConfig' = Snapshot(params)]_vars

=============================================================================
