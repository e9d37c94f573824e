---------------------------- MODULE RewardsProofs ----------------------------
(***************************************************************************)
(* Theorems about Rewards, for every value of its constants.               *)
(***************************************************************************)
EXTENDS Rewards, ArithmeticTheorems

-----------------------------------------------------------------------------
(* The invariant of x/rewards.  None of its parts is inductive alone: the  *)
(* hooks return no error because the counters, the calendar and the books  *)
(* agree, and those agree because no hook returned an error before.        *)

\* The part of the directory that x/rewards relies on.
DirectoryKept ==
  /\ ActiveSlots # {}
  /\ \A s \in SlotIds : payout[s] = NoAccount <=> status[s] = "ABSENT"

\* Where the block stands in its epoch.
InItsEpoch ==
  /\ EpochAnchored
  /\ EpochStart(epoch) <= height
  /\ height <= IF phase = "begin" THEN EpochStart(epoch + 1) ELSE EpochEnd(epoch)
  /\ phase = "commit" => height < MaxHeight

\* The counters of the open epoch: never more blocks than have begun, no slot with
\* more than the epoch, and somebody to pay as soon as a block counted.
CountersAgree ==
  /\ enabledBlocks <= (height - epochStart) + IF phase = "begin" THEN 0 ELSE 1
  /\ \A s \in SlotIds : /\ activeBlocks[epoch][s] <= enabledBlocks
                        /\ activeBlocks[epoch][s] > 0 => status[s] # "ABSENT"
  /\ \A e \in Epochs, s \in SlotIds : e > epoch => activeBlocks[e][s] = 0
  /\ enabledBlocks > 0 /\ ~ Closed(epoch) => \E s \in SlotIds : activeBlocks[epoch][s] > 0
  /\ credited >= IF Closed(epoch) THEN 0 ELSE enabledBlocks

\* A scheduled pause is due at the next BeginBlock, and what was asked for last is
\* scheduled or in force.
PauseDue ==
  IF pendingPause.has
  THEN /\ wanted = pendingPause.value
       /\ pendingPause.effective = IF phase = "begin" THEN height ELSE height + 1
  ELSE wanted = paused

\* A queued document has the economics and the fee share of the one in force.
DocumentsAgree ==
  pendingParams # NoParams =>
    pendingParams.economics = params.economics /\ pendingParams.feeShare = params.feeShare

\* An epoch that is not closed owes nothing, and the carry is that of the last one
\* closed.
LastClosed == IF Closed(epoch) THEN epoch ELSE epoch - 1
RecordsFollow ==
  /\ \A e \in Epochs, s \in SlotIds : ~ Closed(e) => entitlements[e][s] = NoEntitlement
  /\ carry = IF LastClosed = 0 THEN genesis.carry ELSE finalized[LastClosed].carryOut

RewardsInv ==
  /\ RewardsTypeOK
  /\ RewardsNeverHalt
  /\ DirectoryKept
  /\ InItsEpoch
  /\ CountersAgree
  /\ PauseDue
  /\ DocumentsAgree
  /\ BooksBalance
  /\ EpochsChain
  /\ RecordsFollow

\* The calendar: epochs follow each other without gap or overlap, and an epoch
\* that starts within the bound of the model is one of Epochs.
LEMMA Calendar ==
  ASSUME NEW e \in Nat
  PROVE  /\ EpochStart(e) \in Int /\ EpochEnd(e) \in Nat
         /\ EpochStart(e + 1) = EpochEnd(e) + 1
         /\ EpochEnd(e) = EpochStart(e) + EpochLength - 1
         /\ EpochEnd(e + 1) = EpochEnd(e) + EpochLength
         /\ e # 0 /\ EpochStart(e) <= MaxHeight => e \in Epochs
<1>1. EpochLength \in Nat \ {0} /\ MaxHeight \in Nat \ {0}
  BY RewardsAssumption
<1>2. /\ (e - 1) * EpochLength \in Int /\ e * EpochLength \in Nat
      /\ e * EpochLength = (e - 1) * EpochLength + EpochLength
      /\ (e + 1) * EpochLength = e * EpochLength + EpochLength
      /\ (e + 1) - 1 = e
  BY <1>1
<1>3. ASSUME e # 0, EpochStart(e) <= MaxHeight PROVE e \in Epochs
  <2> DEFINE q == (MaxHeight - 1) \div EpochLength
  <2>1. q \in Nat /\ MaxHeight - 1 < EpochLength * q + EpochLength
    <3>1. MaxHeight - 1 \in Nat
      BY <1>1
    <3> QED
      BY <1>1, <3>1, DivFacts
  <2>2. (e - 1) * EpochLength <= MaxHeight - 1
    BY <1>1, <1>2, <1>3 DEF EpochStart
  <2> HIDE DEF q
  <2>a. /\ EpochLength * q \in Int /\ EpochLength * (e - 1) = (e - 1) * EpochLength
        /\ EpochLength * (q + 1) = EpochLength * q + EpochLength
    BY <1>1, <2>1
  <2>3. /\ EpochLength * (e - 1) <= EpochLength * (q + 1) - 1
        /\ EpochLength * (q + 1) \in Int /\ EpochLength * (e - 1) \in Int
    BY <1>1, <1>2, <2>1, <2>2, <2>a
  <2>4. ~ (e - 1 >= q + 1)
    <3> SUFFICES ASSUME e - 1 >= q + 1 PROVE FALSE
      OBVIOUS
    <3>1. EpochLength * ((e - 1) - (q + 1)) >= 0
      BY <1>1, <2>1
    <3>2. EpochLength * ((e - 1) - (q + 1)) = EpochLength * (e - 1) - EpochLength * (q + 1)
      BY <1>1, <2>1
    <3> QED
      BY <1>2, <2>3, <3>1, <3>2
  <2> QED
    BY <1>3, <2>1, <2>4 DEF Epochs, q
<1>4. EpochStart(e) = 1 + (e - 1) * EpochLength /\ EpochEnd(e) = e * EpochLength
  BY DEF EpochStart, EpochEnd
<1>5. EpochStart(e + 1) = 1 + e * EpochLength
  BY <1>2 DEF EpochStart
<1>6. EpochEnd(e + 1) = (e + 1) * EpochLength
  BY DEF EpochEnd
<1> QED
  BY <1>1, <1>2, <1>3, <1>4, <1>5, <1>6

\* The entitlements still owed, as one table.
Owed == [x \in Epochs \X SlotIds |-> Remaining(x[1], x[2])]

\* Finite index sets of the sums.
LEMMA FiniteTables ==
  /\ IsFiniteSet(Epochs) /\ IsFiniteSet(SlotIds) /\ IsFiniteSet(Accounts)
  /\ IsFiniteSet(Epochs \X SlotIds)
<1>1. IsFiniteSet(Epochs)
  <2>1. (MaxHeight - 1) \div EpochLength + 1 \in Int
    BY RewardsAssumption
  <2> QED
    BY <2>1, FS_Interval DEF Epochs
<1> QED
  BY <1>1, FiniteAssumption, FS_Product

\* The first epoch is one of Epochs.
LEMMA FirstEpoch == 1 \in Epochs /\ Epochs \subseteq Nat \ {0}
<1>1. EpochStart(1) = 1
  BY RewardsAssumption DEF EpochStart
<1>2. 1 \in Epochs
  BY <1>1, Calendar, RewardsAssumption
<1>3. (MaxHeight - 1) \div EpochLength + 1 \in Int
  BY RewardsAssumption
<1> QED
  BY <1>2, <1>3 DEF Epochs

\* The sum of a table is the sum over its index set.
LEMMA SumOfTable ==
  /\ SumFunction(Owed) = SumFunctionOnSet(Owed, Epochs \X SlotIds)
  /\ \A e : SumFunction([s \in SlotIds |-> entitlements[e][s].amount])
            = SumFunctionOnSet([s \in SlotIds |-> entitlements[e][s].amount], SlotIds)
  /\ balances \in [Accounts -> Nat] => SumFunction(balances) = SumFunctionOnSet(balances, Accounts)
  BY DEF SumFunction, Owed

-----------------------------------------------------------------------------
(* The invariant holds initially.                                          *)

\* The snapshot of a document is an epoch configuration.
LEMMA SnapshotOfDocument ==
  ASSUME NEW p \in ParamDocuments PROVE Snapshot(p) \in Configs
BY DEF ParamDocuments, Snapshot, Configs

\* At genesis nothing is emitted and the module account is empty.
LEMMA InitRewards == RewardsInit => RewardsInv
<1> SUFFICES ASSUME RewardsInit PROVE RewardsInv
  OBVIOUS
<1> USE DEF RewardsInit
<1>1. 1 \in Epochs /\ Epochs \subseteq Nat \ {0}
  BY FirstEpoch
<1>2. EpochStart(1) = 1 /\ EpochEnd(1) = EpochLength /\ EpochStart(2) = EpochLength + 1
      /\ EpochLength \in Nat \ {0} /\ MaxHeight \in Nat \ {0}
  <2>1. EpochLength \in Nat \ {0} /\ MaxHeight \in Nat \ {0}
    BY RewardsAssumption
  <2> QED
    BY <2>1 DEF EpochStart, EpochEnd
<1>3. \A e \in Epochs : finalized[e] = OpenEpoch /\ ~ Closed(e)
  BY DEF Closed, OpenEpoch
<1>4. \A e \in Epochs, s \in SlotIds : entitlements[e][s] = NoEntitlement
  OBVIOUS
<1>5. RewardsTypeOK
  <2>1. genesis.emitted \in 0 .. MaxSupply /\ genesis.carry \in Nat
        /\ genesis \in [emitted : 0 .. MaxSupply, carry : Nat]
    <3>1. genesis \in [emitted : GenesisEmitted, carry : GenesisCarry]
      OBVIOUS
    <3> HIDE DEF RewardsInit
    <3>2. /\ genesis = [emitted |-> genesis.emitted, carry |-> genesis.carry]
          /\ genesis.emitted \in GenesisEmitted /\ genesis.carry \in GenesisCarry
      BY <3>1
    <3>3. genesis.emitted \in 0 .. MaxSupply /\ genesis.carry \in Nat
      BY <3>2, RewardsAssumption
    <3>4. genesis.emitted \in Nat
      BY <3>3
    <3> QED
      BY <3>2, <3>3, <3>4
  <2>2. balances \in [Accounts -> Nat] /\ existing \subseteq Accounts \cup {Escrow}
    BY RewardsAssumption
  <2>3. /\ params \in ParamDocuments /\ pendingParams \in ParamDocuments \cup {NoParams}
        /\ epochConfig \in Configs
    <3>1. /\ params = GenesisParams /\ pendingParams \in {NoParams} \cup ParamUpdates
          /\ epochConfig \in [economics : {params.economics}, feeShare : GenesisFeeShares]
      OBVIOUS
    <3> HIDE DEF RewardsInit
    <3>2. /\ params \in ParamDocuments /\ pendingParams \in ParamDocuments \cup {NoParams}
          /\ GenesisFeeShares \subseteq 0 .. MaxBasisPoints
      BY <3>1, RewardsAssumption
    <3>3. params.economics \in STRING
      BY <3>2 DEF ParamDocuments
    <3>4. /\ epochConfig = [economics |-> epochConfig.economics, feeShare |-> epochConfig.feeShare]
          /\ epochConfig.economics = params.economics /\ epochConfig.feeShare \in GenesisFeeShares
      BY <3>1
    <3> QED
      BY <3>2, <3>3, <3>4 DEF Configs
  <2>4. finalized \in EpochRecords
    <3>1. Snapshot(GenesisParams) \in Configs
      BY RewardsAssumption, SnapshotOfDocument
    <3> QED
      BY <3>1 DEF OpenEpoch, EpochRecords
  <2>5. entitlements \in Entitlements
    BY DEF NoEntitlement, Entitlements
  <2>6. pendingPause \in PausePlans
    BY <1>2 DEF NoPause, PausePlans
  <2>7. DirectoryTypeOK
    BY DEF DirectoryInit, DirectoryTypeOK, Statuses
  <2>8. activeBlocks \in Counters
    BY <1>2 DEF Counters
  <2>9. /\ height = 1 /\ phase = "begin" /\ halted = FALSE /\ epoch = 1 /\ epochStart = 1
        /\ enabledBlocks = 0 /\ credited = 0 /\ paused \in BOOLEAN /\ wanted = paused
        /\ cumulative = genesis.emitted /\ carry = genesis.carry /\ liability = 0
        /\ escrow = carry
    OBVIOUS
  <2> HIDE DEF RewardsInit
  <2>10. /\ height \in 1 .. MaxHeight /\ epoch \in Epochs /\ epochStart \in Nat
         /\ enabledBlocks \in 0 .. EpochLength /\ liability \in Nat /\ credited \in Nat
    BY <1>1, <1>2, <2>9
  <2>11. phase \in {"begin", "deliver", "commit"} /\ halted \in BOOLEAN /\ wanted \in BOOLEAN
    BY <2>9
  <2>12. cumulative \in 0 .. MaxSupply /\ carry \in Nat /\ escrow \in Nat
    BY <2>1, <2>9
  <2> QED
    BY <2>1, <2>2, <2>3, <2>4, <2>5, <2>6, <2>7, <2>8, <2>9, <2>10, <2>11, <2>12
       DEF RewardsTypeOK
<1>6. DirectoryKept
  BY DEF DirectoryKept, DirectoryInit
<1>7. InItsEpoch
  BY <1>2 DEF InItsEpoch, EpochAnchored
<1>8. CountersAgree
  BY <1>1 DEF CountersAgree
<1>9. PauseDue
  BY DEF PauseDue, NoPause
<1>10. DocumentsAgree
  BY DEF DocumentsAgree, ValidateUpdate
<1>11. LiabilityExact
  <2>1. \A x \in Epochs \X SlotIds : Owed[x] = 0
    BY <1>4 DEF Owed, Remaining, NoEntitlement
  <2>2. SumFunctionOnSet(Owed, Epochs \X SlotIds) = 0
    BY <2>1, FiniteTables, SumOfZeros
  <2> QED
    BY <1>4, <2>2, SumOfTable DEF LiabilityExact, Owed, Remaining, NoEntitlement
<1>12. SupplyConserved
  <2> DEFINE D == DOMAIN GenesisBalances
  <2>1. D \in SUBSET Accounts /\ IsFiniteSet(D) /\ \A a \in D : GenesisBalances[a] \in Nat
    BY RewardsAssumption, FiniteTables, FS_Subset
  <2>2. /\ balances \in [Accounts -> Nat]
        /\ \A a \in D : balances[a] = GenesisBalances[a]
        /\ \A a \in Accounts \ D : balances[a] = 0
    BY <1>5, <2>1 DEF RewardsTypeOK
  <2>g. /\ cumulative = genesis.emitted /\ escrow = genesis.carry
        /\ genesis.emitted \in Nat /\ genesis.carry \in Nat
    BY <1>5 DEF RewardsTypeOK
  <2> HIDE DEF D, RewardsInit
  <2>3. SumFunctionOnSet(balances, Accounts) = SumFunctionOnSet(balances, D)
    <3>1. \A a \in D : balances[a] \in Int
      BY <2>1, <2>2
    <3> QED
      BY <2>1, <2>2, <3>1, FiniteTables, SumOfSupport
  <2>4. SumFunctionOnSet(balances, D) = SumFunctionOnSet(GenesisBalances, D)
    <3>1. \A a \in D : GenesisBalances[a] \in Int /\ balances[a] = GenesisBalances[a]
      BY <2>1, <2>2
    <3> QED
      BY <2>1, <3>1, SumSame
  <2>5. SumFunction(balances) = SumFunction(GenesisBalances)
    BY <2>2, <2>3, <2>4, SumOfTable DEF SumFunction, D
  <2>6. SumFunction(GenesisBalances) \in Nat
    BY <2>1, SumOfNaturals DEF SumFunction, D
  <2> QED
    BY <2>g, <2>5, <2>6 DEF SupplyConserved
<1>13. EmissionFollowsCredit
  <2>1. CumulativeAfter(genesis.emitted, 0, MaxSupply, InitialBlockSubsidy) = genesis.emitted
    <3>1. /\ genesis.emitted \in 0 .. MaxSupply /\ MaxSupply \in Nat \ {0}
          /\ InitialBlockSubsidy \in Nat
      BY <1>5, RewardsAssumption DEF RewardsTypeOK
    <3> HIDE DEF RewardsInit
    <3> QED
      BY <3>1, AfterOneMore
  <2>2. /\ ~ Closed(epoch) /\ enabledBlocks = 0 /\ credited = 0 /\ cumulative = genesis.emitted
    BY <1>1, <1>3
  <2> HIDE DEF RewardsInit
  <2> QED
    BY <2>1, <2>2 DEF EmissionFollowsCredit
<1>14. EpochsChain
  <2> SUFFICES ASSUME NEW e \in Epochs
               PROVE  SumFunction([s \in SlotIds |-> entitlements[e][s].amount])
                        = finalized[e].allocated
    BY <1>1, <1>2, <1>3 DEF EpochsChain
  <2> DEFINE t == [s \in SlotIds |-> entitlements[e][s].amount]
  <2>1. \A s \in SlotIds : t[s] = 0
    BY <1>4 DEF NoEntitlement
  <2>2. SumFunctionOnSet(t, SlotIds) = 0
    <3> HIDE DEF t
    <3> QED
      BY <2>1, FiniteTables, SumOfZeros
  <2> QED
    BY <1>3, <2>2, SumOfTable DEF OpenEpoch
<1>15. RecordsFollow
  BY <1>1, <1>3, <1>4 DEF RecordsFollow, LastClosed
<1>16. EscrowSolvent
  BY <1>5 DEF EscrowSolvent, RewardsTypeOK
<1> QED
  BY <1>5, <1>6, <1>7, <1>8, <1>9, <1>10, <1>11, <1>12, <1>13, <1>14, <1>15, <1>16
     DEF RewardsInv, RewardsNeverHalt, BooksBalance

-----------------------------------------------------------------------------
(* Every step keeps it.  First the parts that a step leaves alone.         *)

\* Where the current epoch lies, and that it is closed once its last block ended.
LEMMA EpochPlace ==
  ASSUME RewardsInv
  PROVE  /\ epoch \in Epochs /\ epoch \in Nat \ {0} /\ EpochLength \in Nat \ {0}
         /\ height \in 1 .. MaxHeight /\ MaxHeight \in Nat \ {0}
         /\ epochStart = EpochStart(epoch) /\ epochStart \in Nat
         /\ EpochEnd(epoch) = epochStart + EpochLength - 1
         /\ EpochStart(epoch + 1) = epochStart + EpochLength
         /\ Closed(epoch) <=> \/ height > EpochEnd(epoch)
                              \/ height = EpochEnd(epoch) /\ phase = "commit"
         /\ \A e \in Epochs : e > epoch => ~ Closed(e)
<1>1. epoch \in Epochs /\ epoch \in Nat \ {0} /\ epochStart \in Nat /\ height \in 1 .. MaxHeight
  BY FirstEpoch DEF RewardsInv, RewardsTypeOK
<1>2. epochStart = EpochStart(epoch)
  BY DEF RewardsInv, InItsEpoch, EpochAnchored
<1>3. EpochLength \in Nat \ {0} /\ MaxHeight \in Nat \ {0}
  BY RewardsAssumption
<1>4. /\ EpochEnd(epoch) = epochStart + EpochLength - 1
      /\ EpochStart(epoch + 1) = epochStart + EpochLength
  BY <1>1, <1>2, <1>3, Calendar
<1>5. \A e \in Epochs : Closed(e) <=> \/ e < epoch
                                      \/ e = epoch /\ height > EpochEnd(e)
                                      \/ e = epoch /\ height = EpochEnd(e) /\ phase = "commit"
  BY DEF RewardsInv, EpochsChain
<1>6. \A e \in Epochs : e \in Nat
  BY FirstEpoch
<1> QED
  BY <1>1, <1>2, <1>3, <1>4, <1>5, <1>6

\* Steps that move no money and close nothing keep the books.
LEMMA BooksFrame ==
  ASSUME BooksBalance,
         UNCHANGED <<escrowVars, cumulative, carry, genesis, credited, enabledBlocks,
                     finalized, epoch>>
  PROVE  BooksBalance'
<1>1. EscrowSolvent'
  BY DEF BooksBalance, EscrowSolvent, escrowVars
<1>2. LiabilityExact'
  <2>1. Owed' = Owed /\ entitlements' = entitlements /\ liability' = liability
    BY DEF Owed, Remaining, escrowVars
  <2> QED
    BY <2>1 DEF BooksBalance, LiabilityExact, Owed, Remaining
<1>3. SupplyConserved'
  BY DEF BooksBalance, SupplyConserved, escrowVars
<1>4. EmissionFollowsCredit'
  BY DEF BooksBalance, EmissionFollowsCredit, Closed
<1> QED
  BY <1>1, <1>2, <1>3, <1>4 DEF BooksBalance

\* Amounts of the entitlements of an epoch, as one table.
Amounts(e) == [s \in SlotIds |-> entitlements[e][s].amount]

\* Steps that close nothing and change no amount keep the chain of records.
LEMMA ChainFrame ==
  ASSUME EpochsChain, RecordsFollow, UNCHANGED <<finalized, genesis, carry, epoch, height>>,
         phase' = "commit" <=> phase = "commit",
         \A e \in Epochs : Amounts(e)' = Amounts(e),
         \A e \in Epochs, s \in SlotIds :
           entitlements[e][s] = NoEntitlement => entitlements'[e][s] = NoEntitlement
  PROVE  EpochsChain' /\ RecordsFollow'
<1>1. EpochsChain'
  <2> SUFFICES ASSUME NEW e \in Epochs
               PROVE  (/\ Closed(e) <=> \/ e < epoch
                                        \/ e = epoch /\ height > EpochEnd(e)
                                        \/ e = epoch /\ height = EpochEnd(e) /\ phase = "commit"
                       /\ SumFunction(Amounts(e)) = finalized[e].allocated
                       /\ Closed(e) =>
                            /\ finalized[e].carryIn =
                                 IF e = 1 THEN genesis.carry ELSE finalized[e - 1].carryOut
                            /\ finalized[e].enabled > 0 =>
                                 finalized[e].carryOut < Cardinality(SlotIds))'
    BY DEF EpochsChain, Amounts
  <2>1. SumFunction(Amounts(e)) = finalized[e].allocated
    BY DEF EpochsChain, Amounts
  <2>2. SumFunction(Amounts(e))' = SumFunction(Amounts(e))
    BY Zenon
  <2> QED
    BY <2>1, <2>2 DEF EpochsChain, Closed
<1>2. RecordsFollow'
  BY DEF RecordsFollow, LastClosed, Closed
<1> QED
  BY <1>1, <1>2

\* A transaction that touches neither money nor the books: what remains to show.
LEMMA QuietStep ==
  ASSUME RewardsInv,
         UNCHANGED <<blockVars, epochVars, paused, cumulative, carry, finalized, params,
                     epochConfig, escrowVars, genesis>>,
         DirectoryTypeOK', DirectoryKept', PauseDue', DocumentsAgree', wanted' \in BOOLEAN,
         pendingPause' \in PausePlans, pendingParams' \in ParamDocuments \cup {NoParams},
         \A s \in SlotIds : status[s] # "ABSENT" => status'[s] # "ABSENT"
  PROVE  RewardsInv'
<1> USE DEF RewardsInv, blockVars, epochVars, escrowVars
<1>1. RewardsTypeOK'
  BY DEF RewardsTypeOK
<1>2. InItsEpoch'
  BY DEF InItsEpoch, EpochAnchored
<1>3. CountersAgree'
  BY DEF CountersAgree, Closed
<1>4. BooksBalance'
  BY BooksFrame
<1>5. EpochsChain' /\ RecordsFollow'
  BY ChainFrame DEF Amounts
<1>6. RewardsNeverHalt'
  BY DEF RewardsNeverHalt
<1> QED
  BY <1>1, <1>2, <1>3, <1>4, <1>5, <1>6

\* A pause request is only recorded.
LEMMA SchedulePauseKeeps ==
  ASSUME RewardsInv, NEW by, NEW value \in BOOLEAN, SchedulePause(by, value)
  PROVE  RewardsInv'
<1>1. height \in 1 .. MaxHeight /\ MaxHeight \in Nat
  BY EpochPlace
<1>2. pendingPause' \in PausePlans /\ wanted' \in BOOLEAN
  BY <1>1 DEF SchedulePause, PausePlans
<1>3. PauseDue'
  BY <1>1 DEF SchedulePause, PauseDue, Delivering, blockVars
<1>4. DirectoryTypeOK' /\ DirectoryKept' /\ DocumentsAgree'
  BY DEF SchedulePause, RewardsInv, RewardsTypeOK, DirectoryTypeOK, DirectoryKept, ActiveSlots,
         DocumentsAgree, directoryVars, closeVars
<1>5. pendingParams' \in ParamDocuments \cup {NoParams} /\ status' = status
  BY DEF SchedulePause, RewardsInv, RewardsTypeOK, directoryVars, closeVars
<1>6. UNCHANGED <<blockVars, epochVars, paused, cumulative, carry, finalized, params,
                  epochConfig, escrowVars, genesis>>
  BY DEF SchedulePause, closeVars
<1> QED
  BY <1>2, <1>3, <1>4, <1>5, <1>6, QuietStep

\* A parameter update is only recorded.
LEMMA UpdateRewardsParamsKeeps ==
  ASSUME RewardsInv, NEW by, NEW p \in ParamUpdates, UpdateRewardsParams(by, p)
  PROVE  RewardsInv'
<1>1. pendingPause' \in PausePlans /\ wanted' \in BOOLEAN
  BY DEF UpdateRewardsParams, RewardsInv, RewardsTypeOK, pauseVars
<1>2. PauseDue'
  BY DEF UpdateRewardsParams, RewardsInv, PauseDue, blockVars, pauseVars
<1>3. DirectoryTypeOK' /\ DirectoryKept' /\ status' = status
  BY DEF UpdateRewardsParams, RewardsInv, RewardsTypeOK, DirectoryTypeOK, DirectoryKept,
         ActiveSlots, directoryVars
<1>4. DocumentsAgree' /\ pendingParams' \in ParamDocuments \cup {NoParams}
  BY RewardsAssumption DEF UpdateRewardsParams, DocumentsAgree, ValidateUpdate
<1>5. UNCHANGED <<blockVars, epochVars, paused, cumulative, carry, finalized, params,
                  epochConfig, escrowVars, genesis>>
  BY DEF UpdateRewardsParams, pauseVars
<1> QED
  BY <1>1, <1>2, <1>3, <1>4, <1>5, QuietStep

\* A step of x/coreslot keeps somebody ACTIVE, an address with every record, and
\* never takes a record away.
LEMMA DirectoryKeeps ==
  ASSUME DirectoryTypeOK, DirectoryKept, DirectoryNext
  PROVE  /\ DirectoryTypeOK' /\ DirectoryKept'
         /\ \A s \in SlotIds : status[s] # "ABSENT" => status'[s] # "ABSENT"
<1> USE DEF DirectoryTypeOK, DirectoryKept, ActiveSlots
<1>0. NoAccount \notin EconomicAccounts /\ EconomicAccounts \subseteq Accounts
  BY DirectoryAssumption
<1>1. ASSUME NEW s \in SlotIds, NEW pay \in EconomicAccounts, NEW settle \in EconomicAccounts,
             Register(s, pay, settle)
      PROVE  /\ DirectoryTypeOK' /\ DirectoryKept'
             /\ \A t \in SlotIds : status[t] # "ABSENT" => status'[t] # "ABSENT"
  BY <1>0, <1>1 DEF Register, Statuses
<1>2. ASSUME NEW s \in SlotIds, NEW to \in Statuses, Move(s, to)
      PROVE  /\ DirectoryTypeOK' /\ DirectoryKept'
             /\ \A t \in SlotIds : status[t] # "ABSENT" => status'[t] # "ABSENT"
  <2>1. to # "ABSENT" /\ status[s] # "ABSENT"
    BY <1>2 DEF Move, LifecycleEdges
  <2> QED
    BY <1>0, <1>2, <2>1 DEF Move
<1>3. ASSUME NEW s \in SlotIds, NEW a \in EconomicAccounts, ChangePayout(s, a)
      PROVE  /\ DirectoryTypeOK' /\ DirectoryKept'
             /\ \A t \in SlotIds : status[t] # "ABSENT" => status'[t] # "ABSENT"
  BY <1>0, <1>3 DEF ChangePayout
<1>4. ASSUME NEW s \in SlotIds, NEW a \in EconomicAccounts, ChangeSettlement(s, a)
      PROVE  /\ DirectoryTypeOK' /\ DirectoryKept'
             /\ \A t \in SlotIds : status[t] # "ABSENT" => status'[t] # "ABSENT"
  BY <1>0, <1>4 DEF ChangeSettlement
<1>5. ASSUME NEW r \in Roles, NEW a \in EconomicAccounts, HandOver(r, a)
      PROVE  /\ DirectoryTypeOK' /\ DirectoryKept'
             /\ \A t \in SlotIds : status[t] # "ABSENT" => status'[t] # "ABSENT"
  BY <1>0, <1>5 DEF HandOver
<1> QED
  BY <1>1, <1>2, <1>3, <1>4, <1>5 DEF DirectoryNext

\* A transaction of x/coreslot moves no funds.
LEMMA DirectoryTxKeeps ==
  ASSUME RewardsInv, DirectoryTx
  PROVE  RewardsInv'
<1>1. /\ DirectoryTypeOK' /\ DirectoryKept'
      /\ \A s \in SlotIds : status[s] # "ABSENT" => status'[s] # "ABSENT"
  BY DirectoryKeeps DEF DirectoryTx, RewardsInv, RewardsTypeOK
<1>2. PauseDue' /\ DocumentsAgree'
  BY DEF DirectoryTx, RewardsInv, PauseDue, DocumentsAgree, rewardsVars, blockVars, pauseVars,
         closeVars
<1>3. /\ wanted' \in BOOLEAN /\ pendingPause' \in PausePlans
      /\ pendingParams' \in ParamDocuments \cup {NoParams}
  BY DEF DirectoryTx, RewardsInv, RewardsTypeOK, rewardsVars, pauseVars, closeVars
<1>4. UNCHANGED <<blockVars, epochVars, paused, cumulative, carry, finalized, params,
                  epochConfig, escrowVars, genesis>>
  BY DEF DirectoryTx, rewardsVars, pauseVars, closeVars
<1> QED
  BY <1>1, <1>2, <1>3, <1>4, QuietStep

\* A transaction that moves money: what remains to show.
LEMMA MoneyStep ==
  ASSUME RewardsInv,
         UNCHANGED <<directoryVars, blockVars, epochVars, pauseVars, closeVars, genesis>>,
         liability' \in Nat, entitlements' \in Entitlements, escrow' \in Nat,
         balances' \in [Accounts -> Nat], existing' \subseteq Accounts \cup {Escrow},
         EscrowSolvent', LiabilityExact', SupplyConserved',
         \A e \in Epochs : Amounts(e)' = Amounts(e),
         \A e \in Epochs, s \in SlotIds :
           entitlements[e][s] = NoEntitlement => entitlements'[e][s] = NoEntitlement
  PROVE  RewardsInv'
<1> USE DEF RewardsInv, blockVars, epochVars, pauseVars, closeVars
<1>1. RewardsTypeOK'
  BY DEF RewardsTypeOK, DirectoryTypeOK, directoryVars
<1>2. InItsEpoch' /\ DirectoryKept' /\ DocumentsAgree' /\ PauseDue'
  BY DEF InItsEpoch, EpochAnchored, DirectoryKept, ActiveSlots, DocumentsAgree, PauseDue,
         directoryVars
<1>3. CountersAgree'
  BY DEF CountersAgree, Closed, directoryVars
<1>4. BooksBalance'
  <2>1. EmissionFollowsCredit'
    BY DEF BooksBalance, EmissionFollowsCredit, Closed
  <2> QED
    BY <2>1 DEF BooksBalance
<1>5. EpochsChain' /\ RecordsFollow'
  BY ChainFrame
<1>6. RewardsNeverHalt'
  BY DEF RewardsNeverHalt
<1> QED
  BY <1>1, <1>2, <1>3, <1>4, <1>5, <1>6

\* Money added to accounts one by one adds up.
LEMMA Deposits ==
  ASSUME NEW b \in [Accounts -> Nat], NEW pay, DOMAIN pay \subseteq Accounts,
         \A a \in DOMAIN pay : pay[a] \in Nat,
         NEW c \in [Accounts -> Nat],
         \A a \in Accounts : c[a] = b[a] + IF a \in DOMAIN pay THEN pay[a] ELSE 0
  PROVE  /\ SumFunction(pay) \in Nat /\ SumFunction(b) \in Nat
         /\ SumFunction(c) = SumFunction(b) + SumFunction(pay)
<1> DEFINE D == DOMAIN pay
           r == [a \in Accounts |-> IF a \in D THEN pay[a] ELSE 0]
<1>1. IsFiniteSet(Accounts) /\ IsFiniteSet(D) /\ D \in SUBSET Accounts
  BY FiniteTables, FS_Subset
<1>2. /\ \A a \in D : r[a] = pay[a] /\ r[a] \in Int /\ pay[a] \in Int
      /\ \A a \in Accounts \ D : r[a] = 0
      /\ \A a \in Accounts : r[a] \in Int /\ b[a] \in Int /\ c[a] = b[a] + r[a]
  OBVIOUS
<1>3. SumFunctionOnSet(pay, D) \in Nat
  BY <1>1, SumOfNaturals
<1>3b. SumFunctionOnSet(b, Accounts) \in Nat
  BY <1>1, SumOfNaturals
<1> HIDE DEF r, D
<1>4. SumFunctionOnSet(c, Accounts) = SumFunctionOnSet(b, Accounts) + SumFunctionOnSet(r, Accounts)
  BY <1>1, <1>2, SumPlus
<1>5. SumFunctionOnSet(r, Accounts) = SumFunctionOnSet(r, D)
  BY <1>1, <1>2, SumOfSupport
<1>6. SumFunctionOnSet(r, D) = SumFunctionOnSet(pay, D)
  BY <1>1, <1>2, SumSame
<1> QED
  BY <1>3, <1>3b, <1>4, <1>5, <1>6 DEF SumFunction, D

\* A transfer between accounts moves no funds of the module.
LEMMA SendKeeps ==
  ASSUME RewardsInv, NEW from \in Accounts, NEW outputs \in UserTransfers, Send(from, outputs)
  PROVE  RewardsInv'
<1> DEFINE total == SumFunction(outputs)
           D == DOMAIN outputs
           mid == [a \in Accounts |-> balances[a] + IF a \in D THEN outputs[a] ELSE 0]
<1>1. /\ D \subseteq EconomicAccounts /\ D \subseteq Accounts /\ Escrow \notin D
      /\ \A a \in D : outputs[a] \in Nat
  BY RewardsAssumption, DirectoryAssumption DEF Send, BlockedAddr
<1>2. /\ balances \in [Accounts -> Nat] /\ escrow \in Nat /\ liability \in Nat
      /\ entitlements \in Entitlements /\ existing \subseteq Accounts \cup {Escrow}
      /\ genesis.carry \in Nat /\ genesis.emitted \in Nat /\ cumulative \in Int
  BY DEF RewardsInv, RewardsTypeOK
<1>3. mid \in [Accounts -> Nat] /\ \A a \in Accounts : mid[a] = balances[a] + IF a \in D THEN outputs[a] ELSE 0
  BY <1>1, <1>2
<1>4. /\ total \in Nat /\ SumFunction(balances) \in Nat
      /\ SumFunction(mid) = SumFunction(balances) + total
  <2> HIDE DEF mid
  <2> QED
    BY <1>1, <1>2, <1>3, Deposits
<1>5. /\ total <= balances[from]
      /\ \A a \in Accounts : balances'[a] = mid[a] - IF a = from THEN total ELSE 0
      /\ DOMAIN balances' = Accounts
  BY <1>1, <1>2, <1>3, <1>4 DEF Send
<1>6. /\ escrow' = escrow /\ existing' = existing \cup D
      /\ UNCHANGED <<directoryVars, blockVars, epochVars, pauseVars, closeVars, liability,
                     entitlements, genesis>>
      /\ \E f : balances' = [a \in Accounts |-> f[a]]
  <2>1. /\ escrow' = escrow + IF Escrow \in D THEN outputs[Escrow] ELSE 0
        /\ existing' = existing \cup D
        /\ UNCHANGED <<directoryVars, blockVars, epochVars, pauseVars, closeVars, liability,
                       entitlements, genesis>>
        /\ balances' = [a \in Accounts |-> balances'[a]]
    BY DEF Send
  <2> QED
    BY <1>1, <1>2, <2>1
<1> HIDE DEF mid, total, D
<1>7. /\ balances' \in [Accounts -> Nat] /\ existing' \subseteq Accounts \cup {Escrow}
      /\ balances'[from] = mid[from] - total
      /\ \A a \in Accounts \ {from} : balances'[a] = mid[a]
      /\ \A a \in Accounts : mid[a] \in Int /\ balances'[a] \in Int
  <2>1. \A a \in Accounts : balances'[a] \in Nat
    <3> SUFFICES ASSUME NEW a \in Accounts PROVE balances'[a] \in Nat
      OBVIOUS
    <3>1. mid[a] \in Nat /\ mid[a] >= balances[a]
      BY <1>1, <1>2, <1>3
    <3> QED
      BY <1>2, <1>4, <1>5, <3>1
  <2> QED
    BY <1>1, <1>2, <1>3, <1>4, <1>5, <1>6, <2>1
<1>8. SumFunctionOnSet(balances', Accounts) =
        SumFunctionOnSet(mid, Accounts) + balances'[from] - mid[from]
  BY <1>7, FiniteTables, SumUpdate
<1>9. SumFunction(balances') = SumFunction(balances)
  <2>1. /\ SumFunction(balances') = SumFunctionOnSet(balances', Accounts)
        /\ SumFunction(mid) = SumFunctionOnSet(mid, Accounts)
    BY <1>3, <1>7 DEF SumFunction
  <2> QED
    BY <1>3, <1>4, <1>7, <1>8, <2>1
<1>10. EscrowSolvent' /\ SupplyConserved'
  BY <1>6, <1>9 DEF EscrowSolvent, SupplyConserved, RewardsInv, BooksBalance, closeVars
<1>11. LiabilityExact' /\ \A e \in Epochs : Amounts(e)' = Amounts(e)
  <2>1. Owed' = Owed
    BY <1>6 DEF Owed, Remaining
  <2> QED
    BY <1>6, <2>1 DEF LiabilityExact, RewardsInv, BooksBalance, Owed, Amounts, Remaining
<1> QED
  BY <1>2, <1>6, <1>7, <1>10, <1>11, MoneyStep

\* What a release does to the table of entitlements.
LEMMA ReleaseTable ==
  ASSUME entitlements \in Entitlements, NEW e \in Epochs, NEW s \in SlotIds, NEW total \in Nat,
         entitlements' = Released(e, s, total)
  PROVE  /\ entitlements' \in Entitlements
         /\ \A f \in Epochs, t \in SlotIds :
              /\ entitlements'[f][t].amount = entitlements[f][t].amount
              /\ entitlements'[f][t].payout = entitlements[f][t].payout
              /\ entitlements'[f][t].released =
                   entitlements[f][t].released + IF f = e /\ t = s THEN total ELSE 0
              /\ ~ (f = e /\ t = s) => entitlements'[f][t] = entitlements[f][t]
<1> DEFINE R == [amount : Nat, released : Nat, payout : EconomicAccounts \cup {NoAccount}]
           ent == entitlements[e][s]
           new == [ent EXCEPT !.released = @ + total]
<1>1. entitlements \in [Epochs -> [SlotIds -> R]]
  BY DEF Entitlements
<1>2. \A f \in Epochs, t \in SlotIds :
        entitlements'[f][t] = IF f = e /\ t = s THEN new ELSE entitlements[f][t]
  BY <1>1 DEF Released
<1>3. /\ ent \in R /\ new \in R
      /\ new.amount = ent.amount /\ new.payout = ent.payout /\ new.released = ent.released + total
  <2>1. ent \in R
    BY <1>1
  <2> HIDE DEF ent
  <2> QED
    BY <2>1
<1>4. entitlements' \in [Epochs -> [SlotIds -> R]]
  <2>1. entitlements'[e] = [entitlements[e] EXCEPT ![s] = new]
        /\ \A f \in Epochs \ {e} : entitlements'[f] = entitlements[f]
    BY <1>1 DEF Released
  <2>2. DOMAIN entitlements' = Epochs /\ entitlements' = [f \in Epochs |-> entitlements'[f]]
    BY <1>1 DEF Released
  <2>3. new \in R
    BY <1>3
  <2> HIDE DEF R, new
  <2>4. \A f \in Epochs : entitlements'[f] \in [SlotIds -> R]
    BY <1>1, <2>1, <2>3
  <2> QED
    BY <2>2, <2>4
<1>5. \A f \in Epochs, t \in SlotIds : entitlements[f][t].released \in Nat
  BY <1>1
<1>6. entitlements' \in Entitlements
  BY <1>4 DEF Entitlements
<1> HIDE DEF new
<1> QED
  BY <1>2, <1>3, <1>5, <1>6

\* A release pays out of the module account what it books as released.
LEMMA ReleaseKeeps ==
  ASSUME RewardsInv, NEW e \in Epochs, NEW s \in SlotIds, NEW pay,
         \A a \in Accounts : a \in DOMAIN pay => pay[a] \in Nat,
         NEW total, total = SumFunction(pay), Release(e, s, pay, total)
  PROVE  RewardsInv'
<1> DEFINE ent == entitlements[e][s]
<1>1. DOMAIN pay \subseteq Accounts /\ \A a \in DOMAIN pay : pay[a] \in Nat
  BY DirectoryAssumption DEF Release
<1>2. /\ balances \in [Accounts -> Nat] /\ escrow \in Nat /\ liability \in Nat /\ carry \in Nat
      /\ entitlements \in Entitlements /\ existing \subseteq Accounts \cup {Escrow}
      /\ genesis.carry \in Nat /\ genesis.emitted \in Nat /\ cumulative \in Int
  BY DEF RewardsInv, RewardsTypeOK
<1>3. balances' \in [Accounts -> Nat] /\ existing' \subseteq Accounts \cup {Escrow}
  BY <1>1, <1>2 DEF Release
<1>4. \A a \in Accounts : balances'[a] = balances[a] + IF a \in DOMAIN pay THEN pay[a] ELSE 0
  BY DEF Release
<1>5. /\ total \in Nat /\ SumFunction(balances) \in Nat
      /\ SumFunction(balances') = SumFunction(balances) + total
  BY <1>1, <1>2, <1>3, <1>4, Deposits
<1>6. /\ escrow' = escrow - total /\ liability' = liability - total
      /\ total <= escrow /\ total <= liability
      /\ ent.amount # 0 /\ ent.released + total <= ent.amount
      /\ UNCHANGED <<directoryVars, blockVars, epochVars, pauseVars, closeVars, genesis>>
  BY DEF Release, OwedAfter, WithinCeiling
<1>7. escrow' \in Nat /\ liability' \in Nat
  BY <1>2, <1>5, <1>6
<1>8. EscrowSolvent' /\ SupplyConserved'
  <2>1. escrow = liability + carry /\ carry' = carry /\ cumulative' = cumulative /\ genesis' = genesis
    BY <1>6 DEF RewardsInv, BooksBalance, EscrowSolvent, closeVars
  <2>2. EscrowSolvent'
    BY <1>2, <1>5, <1>6, <2>1 DEF EscrowSolvent
  <2>3. SumFunction(balances) + escrow =
          SumFunction(GenesisBalances) + genesis.carry + (cumulative - genesis.emitted)
    BY DEF RewardsInv, BooksBalance, SupplyConserved
  <2>4. SumFunction(balances') + escrow' = SumFunction(balances) + escrow
    BY <1>2, <1>5, <1>6
  <2> QED
    BY <2>1, <2>2, <2>3, <2>4 DEF SupplyConserved
<1>9. /\ entitlements' \in Entitlements
      /\ \A f \in Epochs, t \in SlotIds :
           /\ entitlements'[f][t].amount = entitlements[f][t].amount
           /\ entitlements'[f][t].payout = entitlements[f][t].payout
           /\ entitlements'[f][t].released =
                entitlements[f][t].released + IF f = e /\ t = s THEN total ELSE 0
           /\ ~ (f = e /\ t = s) => entitlements'[f][t] = entitlements[f][t]
  <2>1. /\ entitlements \in Entitlements /\ total \in Nat
        /\ entitlements' = Released(e, s, total)
    BY <1>2, <1>5 DEF Release
  <2> QED
    BY <2>1, ReleaseTable
<1>t. \A f \in Epochs, t \in SlotIds : entitlements[f][t].amount \in Nat /\ entitlements[f][t].released \in Nat
  BY <1>2 DEF Entitlements
<1>10. LiabilityExact'
  <2>1. /\ \A x \in Epochs \X SlotIds : Owed[x] \in Int /\ Owed'[x] \in Int
        /\ \A x \in (Epochs \X SlotIds) \ {<<e, s>>} : Owed'[x] = Owed[x]
        /\ Owed'[<<e, s>>] = Owed[<<e, s>>] - total
    BY <1>t, <1>5, <1>9 DEF Owed, Remaining
  <2>2. SumFunctionOnSet(Owed', Epochs \X SlotIds) =
          SumFunctionOnSet(Owed, Epochs \X SlotIds) + Owed'[<<e, s>>] - Owed[<<e, s>>]
    <3>1. <<e, s>> \in Epochs \X SlotIds
      OBVIOUS
    <3> QED
      BY <2>1, <3>1, FiniteTables, SumUpdate
  <2>3. liability = SumFunctionOnSet(Owed, Epochs \X SlotIds)
    BY SumOfTable DEF RewardsInv, BooksBalance, LiabilityExact, Owed
  <2>4. Owed[<<e, s>>] \in Int
    BY <2>1
  <2>5. liability' = SumFunctionOnSet(Owed', Epochs \X SlotIds)
    BY <1>2, <1>5, <1>6, <2>1, <2>2, <2>3, <2>4
  <2>6. \A f \in Epochs, t \in SlotIds : Remaining(f, t)' >= 0
    <3>1. \A f \in Epochs, t \in SlotIds : Remaining(f, t) >= 0
      BY DEF RewardsInv, BooksBalance, LiabilityExact
    <3> QED
      BY <1>t, <1>5, <1>6, <1>9, <3>1 DEF Remaining
  <2>7. SumFunction(Owed') = SumFunctionOnSet(Owed', Epochs \X SlotIds)
    BY DEF SumFunction, Owed
  <2> QED
    BY <2>5, <2>6, <2>7 DEF LiabilityExact, Owed
<1>11. \A f \in Epochs : Amounts(f)' = Amounts(f)
  BY <1>9 DEF Amounts
<1>12. \A f \in Epochs, t \in SlotIds :
         entitlements[f][t] = NoEntitlement => entitlements'[f][t] = NoEntitlement
  BY <1>6, <1>9 DEF NoEntitlement
<1> QED
  BY <1>3, <1>6, <1>7, <1>8, <1>9, <1>10, <1>11, <1>12, MoneyStep

\* PayEntitlement is a release.
LEMMA PayEntitlementKeeps ==
  ASSUME RewardsInv, NEW e \in Epochs, NEW s \in SlotIds, NEW pay \in PayoutSets,
         PayEntitlement(e, s, pay)
  PROVE  RewardsInv'
<1>1. \A a \in Accounts : a \in DOMAIN pay => pay[a] \in Nat
  BY RewardsAssumption
<1> QED
  BY <1>1, ReleaseKeeps DEF PayEntitlement

\* PayEntitlementRemainder is a release.
LEMMA PayRemainderKeeps ==
  ASSUME RewardsInv, NEW e \in Epochs, NEW s \in SlotIds, PayEntitlementRemainder(e, s)
  PROVE  RewardsInv'
<1> DEFINE p == RemainderPayee(e, s)
           r == Remaining(e, s)
           pay == [a \in {p} |-> r]
<1>1. r \in Nat
  <2>1. entitlements[e][s].amount \in Nat /\ entitlements[e][s].released \in Nat
    BY DEF RewardsInv, RewardsTypeOK, Entitlements
  <2> QED
    BY <2>1 DEF PayEntitlementRemainder, Remaining
<1>2. /\ DOMAIN pay = {p} /\ pay[p] = r /\ \A a \in {p} : pay[a] \in Nat /\ pay[a] \in Int
      /\ Release(e, s, pay, r)
  BY <1>1 DEF PayEntitlementRemainder
<1> HIDE DEF pay, r, p
<1>3. SumFunctionOnSet(pay, {p}) = pay[p] + SumFunctionOnSet(pay, {p} \ {p})
  <2>1. IsFiniteSet({p})
    BY FS_Singleton
  <2> QED
    BY <1>2, <2>1, SumTakeOut
<1>4. SumFunction(pay) = r
  <2>1. {p} \ {p} = {}
    OBVIOUS
  <2> QED
    BY <1>1, <1>2, <1>3, <2>1, SumOfNone DEF SumFunction
<1>5. \A a \in Accounts : a \in DOMAIN pay => pay[a] \in Nat
  BY <1>2
<1> QED
  BY <1>2, <1>4, <1>5, ReleaseKeeps

-----------------------------------------------------------------------------
(* BeginBlock.                                                             *)

\* The epoch a block is credited to: it has begun, is open, and its counters are
\* what they were, or zero when the block opens it.
LEMMA BeginPlace ==
  ASSUME RewardsInv, phase = "begin"
  PROVE  /\ BeginBlockOK
         /\ CurrentEpoch \in Epochs /\ CurrentEpoch \in Nat \ {0}
         /\ EpochStart(CurrentEpoch) = IF OpensEpoch THEN height ELSE epochStart
         /\ EpochStart(CurrentEpoch) <= height /\ height <= EpochEnd(CurrentEpoch)
         /\ EpochEnd(CurrentEpoch) = EpochStart(CurrentEpoch) + EpochLength - 1
         /\ OpenedBlocks \in Nat /\ OpenedBlocks <= height - EpochStart(CurrentEpoch)
         /\ OpenedBlocks = IF Closed(epoch) THEN 0 ELSE enabledBlocks
         /\ \A s \in SlotIds : /\ activeBlocks[CurrentEpoch][s] \in Nat
                               /\ activeBlocks[CurrentEpoch][s] <= OpenedBlocks
                               /\ activeBlocks[CurrentEpoch][s] > 0 => status[s] # "ABSENT"
         /\ \A e \in Epochs, s \in SlotIds : e > CurrentEpoch => activeBlocks[e][s] = 0
         /\ OpenedBlocks > 0 => \E s \in SlotIds : activeBlocks[CurrentEpoch][s] > 0
         /\ \A e \in Epochs : Closed(e) <=> e < CurrentEpoch
         /\ LastClosed = CurrentEpoch - 1
<1>1. /\ epoch \in Epochs /\ epoch \in Nat \ {0} /\ EpochLength \in Nat \ {0}
      /\ height \in 1 .. MaxHeight /\ MaxHeight \in Nat \ {0}
      /\ epochStart = EpochStart(epoch) /\ epochStart \in Nat
      /\ EpochEnd(epoch) = epochStart + EpochLength - 1
      /\ EpochStart(epoch + 1) = epochStart + EpochLength
      /\ Closed(epoch) <=> \/ height > EpochEnd(epoch)
                           \/ height = EpochEnd(epoch) /\ phase = "commit"
  BY EpochPlace
<1>2. /\ EpochAnchored /\ epochStart <= height /\ height <= EpochStart(epoch + 1)
  BY <1>1 DEF RewardsInv, InItsEpoch
<1>3. BeginBlockOK
  BY <1>1, <1>2 DEF BeginBlockOK, RewardsInv, PauseDue
<1>4. \A e \in Epochs : /\ e \in Nat \ {0}
                        /\ Closed(e) <=> \/ e < epoch
                                         \/ e = epoch /\ height > EpochEnd(e)
  BY FirstEpoch DEF RewardsInv, EpochsChain
<1>5. /\ enabledBlocks \in Nat /\ enabledBlocks <= height - epochStart
      /\ \A e \in Epochs, s \in SlotIds : activeBlocks[e][s] \in Nat
      /\ \A s \in SlotIds : /\ activeBlocks[epoch][s] <= enabledBlocks
                            /\ activeBlocks[epoch][s] > 0 => status[s] # "ABSENT"
      /\ \A e \in Epochs, s \in SlotIds : e > epoch => activeBlocks[e][s] = 0
      /\ enabledBlocks > 0 /\ ~ Closed(epoch) => \E s \in SlotIds : activeBlocks[epoch][s] > 0
  BY <1>1 DEF RewardsInv, RewardsTypeOK, Counters, CountersAgree
<1>6. CASE OpensEpoch
  <2>1. /\ CurrentEpoch = epoch + 1 /\ OpenedBlocks = 0 /\ height = EpochStart(epoch + 1)
        /\ height > EpochEnd(epoch) /\ Closed(epoch) /\ LastClosed = epoch
    BY <1>1, <1>6 DEF OpensEpoch, CurrentEpoch, OpenedBlocks, LastClosed
  <2>2. epoch + 1 \in Nat \ {0} /\ epoch + 1 \in Epochs
        /\ EpochEnd(epoch + 1) = EpochStart(epoch + 1) + EpochLength - 1
    BY <1>1, <2>1, Calendar
  <2>3. \A s \in SlotIds : activeBlocks[epoch + 1][s] = 0
    BY <1>1, <1>5, <2>2
  <2>4. \A e \in Epochs : Closed(e) <=> e < epoch + 1
    BY <1>1, <1>4, <2>1
  <2>5. \A e \in Epochs, s \in SlotIds : e > epoch + 1 => activeBlocks[e][s] = 0
    BY <1>1, <1>4, <1>5
  <2> QED
    BY <1>1, <1>3, <1>6, <2>1, <2>2, <2>3, <2>4, <2>5
<1>7. CASE ~ OpensEpoch
  <2>1. /\ CurrentEpoch = epoch /\ OpenedBlocks = enabledBlocks
        /\ height <= EpochEnd(epoch) /\ ~ Closed(epoch) /\ LastClosed = epoch - 1
    BY <1>1, <1>2, <1>7 DEF OpensEpoch, CurrentEpoch, OpenedBlocks, LastClosed
  <2>2. \A e \in Epochs : Closed(e) <=> e < epoch
    BY <1>1, <1>4, <2>1
  <2> QED
    BY <1>1, <1>2, <1>3, <1>5, <1>7, <2>1, <2>2
<1> QED
  BY <1>6, <1>7

\* BeginBlock opens the epoch when it is due and counts the participation.
LEMMA BeginBlockKeeps ==
  ASSUME RewardsInv, BeginBlock
  PROVE  RewardsInv'
<1> DEFINE ce == CurrentEpoch
           c == IF PauseApplied THEN 0 ELSE 1
           add(s) == IF Credits(s) THEN 1 ELSE 0
<1>1. phase = "begin" /\ BeginBlockOK
  BY BeginPlace DEF BeginBlock
<1>2. /\ halted' = FALSE /\ phase' = "deliver" /\ epoch' = ce
      /\ epochStart' = IF OpensEpoch THEN height ELSE epochStart
      /\ paused' = PauseApplied
      /\ pendingPause' = IF pendingPause.has /\ pendingPause.effective = height
                         THEN NoPause ELSE pendingPause
      /\ enabledBlocks' = OpenedBlocks + c /\ credited' = credited + c
      /\ activeBlocks' = [activeBlocks EXCEPT ![ce] = [s \in SlotIds |-> @[s] + add(s)]]
      /\ UNCHANGED <<directoryVars, height, wanted, closeVars, escrowVars, genesis>>
  BY <1>1 DEF BeginBlock, Committed, CreditedEpoch
<1>3. /\ ce \in Epochs /\ ce \in Nat \ {0}
      /\ EpochStart(ce) = IF OpensEpoch THEN height ELSE epochStart
      /\ EpochStart(ce) <= height /\ height <= EpochEnd(ce)
      /\ EpochEnd(ce) = EpochStart(ce) + EpochLength - 1
      /\ OpenedBlocks \in Nat /\ OpenedBlocks <= height - EpochStart(ce)
      /\ OpenedBlocks = IF Closed(epoch) THEN 0 ELSE enabledBlocks
      /\ \A s \in SlotIds : /\ activeBlocks[ce][s] \in Nat /\ activeBlocks[ce][s] <= OpenedBlocks
                            /\ activeBlocks[ce][s] > 0 => status[s] # "ABSENT"
      /\ \A e \in Epochs, s \in SlotIds : e > ce => activeBlocks[e][s] = 0
      /\ OpenedBlocks > 0 => \E s \in SlotIds : activeBlocks[ce][s] > 0
      /\ \A e \in Epochs : Closed(e) <=> e < ce
      /\ LastClosed = ce - 1
  BY <1>1, BeginPlace
<1>4. /\ EpochLength \in Nat \ {0} /\ height \in 1 .. MaxHeight /\ MaxHeight \in Nat \ {0}
      /\ EpochStart(ce) \in Nat /\ epochStart' = EpochStart(ce) /\ epochStart' \in Nat
  BY <1>2, <1>3, EpochPlace
<1>5. c \in {0, 1} /\ \A s \in SlotIds : /\ add(s) \in {0, 1} /\ add(s) <= c
                                         /\ add(s) = 1 <=> c = 1 /\ status[s] = "ACTIVE"
  BY DEF Credits
<1> HIDE DEF c, add, ce
<1>6. /\ activeBlocks \in [Epochs -> [SlotIds -> 0 .. EpochLength]]
      /\ \A s \in SlotIds : activeBlocks'[ce][s] = activeBlocks[ce][s] + add(s)
      /\ \A e \in Epochs \ {ce} : activeBlocks'[e] = activeBlocks[e]
      /\ activeBlocks'[ce] = [s \in SlotIds |-> activeBlocks[ce][s] + add(s)]
  BY <1>2, <1>3 DEF RewardsInv, RewardsTypeOK, Counters
<1>7. activeBlocks' \in Counters
  <2>1. \A s \in SlotIds : activeBlocks[ce][s] + add(s) \in 0 .. EpochLength
    <3>1. OpenedBlocks \in Nat /\ OpenedBlocks + 1 <= EpochLength
      <4>1. /\ OpenedBlocks \in Nat /\ OpenedBlocks <= height - EpochStart(ce)
            /\ height <= EpochStart(ce) + EpochLength - 1
        BY <1>3
      <4> QED
        BY <1>4, <4>1
    <3>2. \A s \in SlotIds : activeBlocks[ce][s] \in Nat /\ activeBlocks[ce][s] <= OpenedBlocks
      BY <1>3
    <3> QED
      BY <1>4, <1>5, <3>1, <3>2
  <2>2. activeBlocks'[ce] \in [SlotIds -> 0 .. EpochLength]
    BY <1>6, <2>1
  <2>3. DOMAIN activeBlocks' = Epochs /\ \A e \in Epochs : activeBlocks'[e] \in [SlotIds -> 0 .. EpochLength]
    BY <1>2, <1>6, <2>2
  <2> QED
    BY <1>2, <2>3 DEF Counters
<1>8. /\ enabledBlocks' \in Nat /\ enabledBlocks' <= (height' - epochStart') + 1
      /\ enabledBlocks' \in 0 .. EpochLength
  <2>1. /\ enabledBlocks' = OpenedBlocks + c /\ height' = height /\ epochStart' = EpochStart(ce)
    BY <1>2, <1>4
  <2>2. /\ OpenedBlocks \in Nat /\ OpenedBlocks <= height - EpochStart(ce)
        /\ height <= EpochStart(ce) + EpochLength - 1
    BY <1>3
  <2> QED
    BY <1>4, <1>5, <2>1, <2>2
<1>9. /\ paused' \in BOOLEAN /\ pendingPause' \in PausePlans
  <2>1. pendingPause \in PausePlans /\ paused \in BOOLEAN
    BY DEF RewardsInv, RewardsTypeOK
  <2>2. pendingPause.value \in BOOLEAN /\ NoPause \in PausePlans
    BY <1>4, <2>1 DEF PausePlans, NoPause
  <2> QED
    BY <1>2, <2>1, <2>2 DEF PauseApplied
<1>10. credited \in Nat /\ credited' \in Nat /\ credited >= OpenedBlocks
  BY <1>2, <1>3, <1>5 DEF RewardsInv, RewardsTypeOK, CountersAgree
<1>11. RewardsTypeOK'
  <2>1. /\ DirectoryTypeOK' /\ height' \in 1 .. MaxHeight /\ wanted' \in BOOLEAN
        /\ cumulative' \in 0 .. MaxSupply /\ carry' \in Nat
        /\ finalized' \in EpochRecords /\ params' \in ParamDocuments
        /\ pendingParams' \in ParamDocuments \cup {NoParams} /\ epochConfig' \in Configs
        /\ liability' \in Nat /\ entitlements' \in Entitlements /\ escrow' \in Nat
        /\ balances' \in [Accounts -> Nat] /\ existing' \subseteq Accounts \cup {Escrow}
        /\ genesis' \in [emitted : 0 .. MaxSupply, carry : Nat]
    BY <1>2 DEF RewardsInv, RewardsTypeOK, DirectoryTypeOK, directoryVars, closeVars, escrowVars
  <2>2. phase' \in {"begin", "deliver", "commit"} /\ halted' \in BOOLEAN
    BY <1>2
  <2> QED
    BY <1>2, <1>3, <1>4, <1>7, <1>8, <1>9, <1>10, <2>1, <2>2 DEF RewardsTypeOK
<1>12. DirectoryKept' /\ DocumentsAgree'
  BY <1>2 DEF RewardsInv, DirectoryKept, ActiveSlots, DocumentsAgree, directoryVars, closeVars
<1>13. InItsEpoch'
  BY <1>2, <1>3, <1>4 DEF InItsEpoch, EpochAnchored
<1>14. finalized' = finalized /\ \A e \in Epochs : Closed(e)' <=> Closed(e)
  BY <1>2 DEF Closed, closeVars
<1>15. CountersAgree'
  <2>1. \A s \in SlotIds : /\ activeBlocks'[ce][s] <= enabledBlocks'
                           /\ activeBlocks'[ce][s] > 0 => status'[s] # "ABSENT"
    BY <1>2, <1>3, <1>5, <1>6 DEF directoryVars
  <2>2. \A e \in Epochs, s \in SlotIds : e > ce => activeBlocks'[e][s] = 0
    <3>1. \A e \in Epochs : e > ce => e # ce
      BY <1>3, FirstEpoch
    <3> QED
      BY <1>3, <1>6, <3>1
  <2>3. enabledBlocks' > 0 => \E s \in SlotIds : activeBlocks'[ce][s] > 0
    <3>1. CASE c = 1
      <4>1. PICK s \in SlotIds : status[s] = "ACTIVE"
        BY DEF RewardsInv, DirectoryKept, ActiveSlots
      <4> QED
        BY <1>3, <1>5, <1>6, <3>1, <4>1
    <3>2. CASE c = 0
      <4> SUFFICES ASSUME OpenedBlocks > 0 PROVE \E s \in SlotIds : activeBlocks'[ce][s] > 0
        BY <1>2, <1>3, <3>2
      <4>1. PICK s \in SlotIds : activeBlocks[ce][s] > 0
        BY <1>3
      <4> QED
        BY <1>3, <1>5, <1>6, <4>1
    <3> QED
      BY <1>5, <3>1, <3>2
  <2>4. credited' >= enabledBlocks' /\ credited' >= 0
    BY <1>2, <1>3, <1>5, <1>10
  <2> QED
    BY <1>2, <1>8, <2>1, <2>2, <2>3, <2>4 DEF CountersAgree
<1>16. PauseDue'
  <2>1. /\ pendingPause.has => /\ wanted = pendingPause.value /\ pendingPause.effective = height
        /\ ~ pendingPause.has => wanted = paused
    BY <1>1 DEF RewardsInv, PauseDue
  <2> QED
    BY <1>2, <2>1 DEF PauseDue, PauseApplied, NoPause
<1>17. BooksBalance'
  <2>1. EscrowSolvent' /\ SupplyConserved'
    BY <1>2 DEF RewardsInv, BooksBalance, EscrowSolvent, SupplyConserved, escrowVars, closeVars
  <2>2. LiabilityExact'
    <3>1. Owed' = Owed /\ entitlements' = entitlements /\ liability' = liability
      BY <1>2 DEF Owed, Remaining, escrowVars
    <3> QED
      BY <3>1 DEF RewardsInv, BooksBalance, LiabilityExact, Owed, Remaining
  <2>3. EmissionFollowsCredit'
    <3>1. ~ Closed(epoch)'
      <4>1. ~ (ce < ce) /\ ~ Closed(ce)
        BY <1>3
      <4> QED
        BY <1>2, <4>1 DEF Closed, closeVars
    <3>2. credited' - enabledBlocks' = credited - OpenedBlocks
      BY <1>2, <1>3, <1>5, <1>10
    <3>3. cumulative = CumulativeAfter(genesis.emitted, credited - OpenedBlocks, MaxSupply,
                                       InitialBlockSubsidy)
      BY <1>3 DEF RewardsInv, BooksBalance, EmissionFollowsCredit
    <3>4. cumulative' = cumulative /\ genesis' = genesis
      BY <1>2 DEF closeVars
    <3> QED
      BY <3>1, <3>2, <3>3, <3>4 DEF EmissionFollowsCredit
  <2> QED
    BY <2>1, <2>2, <2>3 DEF BooksBalance
<1>18. EpochsChain'
  <2>1. \A e \in Epochs : Amounts(e)' = Amounts(e)
    BY <1>2 DEF Amounts, escrowVars
  <2>2. \A e \in Epochs : SumFunction(Amounts(e)') = finalized'[e].allocated
    BY <1>14, <2>1 DEF RewardsInv, EpochsChain, Amounts
  <2>3. \A e \in Epochs : Closed(e)' <=> e < epoch'
    BY <1>2, <1>3, <1>14
  <2>4. \A e \in Epochs : ~ (e = epoch' /\ height' > EpochEnd(e)) /\ phase' # "commit"
    <3>1. ~ (height > EpochEnd(ce))
      <4>1. ce \in Nat /\ height <= EpochEnd(ce)
        BY <1>3
      <4>2. EpochEnd(ce) \in Int /\ height \in Int
        BY <1>4, <4>1, Calendar
      <4> QED
        BY <4>1, <4>2
    <3> QED
      BY <1>2, <3>1
  <2>5. genesis' = genesis
    BY <1>2
  <2>6. \A e \in Epochs : Closed(e)' =>
          /\ finalized'[e].carryIn = IF e = 1 THEN genesis'.carry ELSE finalized'[e - 1].carryOut
          /\ finalized'[e].enabled > 0 => finalized'[e].carryOut < Cardinality(SlotIds)
    BY <1>14, <2>5 DEF RewardsInv, EpochsChain
  <2> QED
    BY <2>2, <2>3, <2>4, <2>6 DEF EpochsChain, Amounts
<1>19. RecordsFollow'
  <2>1. LastClosed' = LastClosed
    BY <1>2, <1>3, <1>14 DEF LastClosed
  <2>2. /\ carry' = carry /\ genesis' = genesis /\ entitlements' = entitlements
    BY <1>2 DEF closeVars, escrowVars
  <2> QED
    BY <1>14, <2>1, <2>2 DEF RecordsFollow, RewardsInv
<1> QED
  BY <1>2, <1>11, <1>12, <1>13, <1>15, <1>16, <1>17, <1>18, <1>19 DEF RewardsInv, RewardsNeverHalt

-----------------------------------------------------------------------------
(* EndBlock and Commit.                                                    *)

\* A block that ends no epoch keeps the books.
LEMMA EndBlockInsideEpochKeeps ==
  ASSUME RewardsInv, EndBlockInsideEpoch
  PROVE  RewardsInv'
<1>1. /\ phase = "deliver" /\ height # EpochEnd(epoch) /\ height < MaxHeight
      /\ EpochAnchored /\ height <= EpochEnd(epoch)
  BY DEF EndBlockInsideEpoch, Delivering, BlockMayEnd, RewardsInv, InItsEpoch
<1>2. height \in Int /\ EpochEnd(epoch) \in Int
  <2>1. epoch \in Nat /\ height \in 1 .. MaxHeight /\ MaxHeight \in Nat
    BY EpochPlace
  <2> QED
    BY <2>1, Calendar
<1>3. height < EpochEnd(epoch)
  BY <1>1, <1>2
<1>4. /\ halted' = FALSE /\ phase' = "commit"
      /\ UNCHANGED <<directoryVars, height, epochVars, pauseVars, closeVars, escrowVars, genesis>>
  BY <1>1, <1>3 DEF EndBlockInsideEpoch, Committed
<1> USE DEF epochVars, pauseVars, closeVars
<1>5. RewardsTypeOK'
  BY <1>4 DEF RewardsInv, RewardsTypeOK, DirectoryTypeOK, directoryVars, escrowVars
<1>6. DirectoryKept' /\ DocumentsAgree'
  BY <1>4 DEF RewardsInv, DirectoryKept, ActiveSlots, DocumentsAgree, directoryVars
<1>7. InItsEpoch'
  BY <1>1, <1>4 DEF RewardsInv, InItsEpoch, EpochAnchored
<1>8. CountersAgree' /\ PauseDue'
  BY <1>1, <1>4 DEF RewardsInv, CountersAgree, PauseDue, Closed, directoryVars
<1>9. BooksBalance'
  BY <1>4, BooksFrame DEF RewardsInv
<1>10. EpochsChain'
  <2>1. \A e \in Epochs : Amounts(e)' = Amounts(e)
    BY <1>4 DEF Amounts, escrowVars
  <2>2. \A e \in Epochs : SumFunction(Amounts(e)') = finalized'[e].allocated
    BY <1>4, <2>1 DEF RewardsInv, EpochsChain, Amounts
  <2>3. \A e \in Epochs :
          Closed(e)' <=> \/ e < epoch'
                         \/ e = epoch' /\ height' > EpochEnd(e)
                         \/ e = epoch' /\ height' = EpochEnd(e) /\ phase' = "commit"
    BY <1>1, <1>4 DEF RewardsInv, EpochsChain, Closed
  <2>4. \A e \in Epochs : Closed(e)' =>
          /\ finalized'[e].carryIn = IF e = 1 THEN genesis'.carry ELSE finalized'[e - 1].carryOut
          /\ finalized'[e].enabled > 0 => finalized'[e].carryOut < Cardinality(SlotIds)
    BY <1>4 DEF RewardsInv, EpochsChain, Closed
  <2> QED
    BY <2>2, <2>3, <2>4 DEF EpochsChain, Amounts
<1>11. RecordsFollow'
  BY <1>4 DEF RewardsInv, RecordsFollow, LastClosed, Closed, escrowVars
<1> QED
  BY <1>4, <1>5, <1>6, <1>7, <1>8, <1>9, <1>10, <1>11 DEF RewardsInv, RewardsNeverHalt

\* The commit moves to the next height.
LEMMA CommitBlockKeeps ==
  ASSUME RewardsInv, CommitBlock
  PROVE  RewardsInv'
<1>1. /\ phase = "commit" /\ phase' = "begin" /\ height' = height + 1 /\ halted' = halted
      /\ UNCHANGED <<directoryVars, epochVars, pauseVars, closeVars, escrowVars, genesis>>
  BY DEF CommitBlock
<1>2. /\ epoch \in Epochs /\ epoch \in Nat /\ height \in 1 .. MaxHeight /\ MaxHeight \in Nat
      /\ epochStart \in Nat /\ EpochLength \in Nat /\ epochStart = EpochStart(epoch)
      /\ EpochEnd(epoch) = epochStart + EpochLength - 1
      /\ EpochStart(epoch + 1) = epochStart + EpochLength
  BY EpochPlace
<1>3. height <= EpochEnd(epoch) /\ height < MaxHeight /\ epochStart <= height
  BY <1>1, <1>2 DEF RewardsInv, InItsEpoch
<1> USE DEF epochVars, pauseVars, closeVars
<1>4. RewardsTypeOK'
  <2>1. height' \in 1 .. MaxHeight /\ phase' \in {"begin", "deliver", "commit"}
    BY <1>1, <1>2, <1>3
  <2> QED
    BY <1>1, <2>1 DEF RewardsInv, RewardsTypeOK, DirectoryTypeOK, directoryVars, escrowVars
<1>5. DirectoryKept' /\ DocumentsAgree'
  BY <1>1 DEF RewardsInv, DirectoryKept, ActiveSlots, DocumentsAgree, directoryVars
<1>6. InItsEpoch'
  BY <1>1, <1>2, <1>3 DEF InItsEpoch, EpochAnchored
<1>7. CountersAgree'
  <2>1. enabledBlocks \in Nat /\ enabledBlocks <= (height - epochStart) + 1
    BY <1>1 DEF RewardsInv, RewardsTypeOK, CountersAgree
  <2>2. enabledBlocks' <= (height' - epochStart') + 0
    BY <1>1, <1>2, <2>1
  <2> QED
    BY <1>1, <2>2 DEF RewardsInv, CountersAgree, Closed, directoryVars
<1>8. PauseDue'
  BY <1>1 DEF RewardsInv, PauseDue
<1>9. BooksBalance'
  BY <1>1, BooksFrame DEF RewardsInv
<1>10. EpochsChain'
  <2>1. \A e \in Epochs : Amounts(e)' = Amounts(e)
    BY <1>1 DEF Amounts, escrowVars
  <2>2. \A e \in Epochs : SumFunction(Amounts(e)') = finalized'[e].allocated
    BY <1>1, <2>1 DEF RewardsInv, EpochsChain, Amounts
  <2>3. height > EpochEnd(epoch) \/ height = EpochEnd(epoch) <=> height + 1 > EpochEnd(epoch)
    BY <1>2
  <2>4. \A e \in Epochs :
          Closed(e)' <=> \/ e < epoch'
                         \/ e = epoch' /\ height' > EpochEnd(e)
                         \/ e = epoch' /\ height' = EpochEnd(e) /\ phase' = "commit"
    BY <1>1, <2>3 DEF RewardsInv, EpochsChain, Closed
  <2>5. \A e \in Epochs : Closed(e)' =>
          /\ finalized'[e].carryIn = IF e = 1 THEN genesis'.carry ELSE finalized'[e - 1].carryOut
          /\ finalized'[e].enabled > 0 => finalized'[e].carryOut < Cardinality(SlotIds)
    BY <1>1 DEF RewardsInv, EpochsChain, Closed
  <2> QED
    BY <2>2, <2>4, <2>5 DEF EpochsChain, Amounts
<1>11. RecordsFollow'
  BY <1>1 DEF RewardsInv, RecordsFollow, LastClosed, Closed, escrowVars
<1> QED
  BY <1>1, <1>4, <1>5, <1>6, <1>7, <1>8, <1>9, <1>10, <1>11 DEF RewardsInv, RewardsNeverHalt

\* The arithmetic of a close: the emission stays below the cap, the treasury takes
\* part of it, and the shares fit into the pool with less than a unit per earner left.
LEMMA CloseArithmetic ==
  ASSUME RewardsInv
  PROVE  /\ Emitted \in cumulative .. MaxSupply /\ Minted \in Nat
         /\ Treasury \in 0 .. Minted /\ Pool \in Nat
         /\ \A s \in SlotIds : Share(s) \in Nat /\ (Share(s) > 0 => s \in Earners)
         /\ Allocated = SumFunctionOnSet([s \in SlotIds |-> Share(s)], SlotIds)
         /\ Allocated \in 0 .. Pool /\ CarryOut \in Nat
         /\ Earners # {} => CarryOut < Cardinality(Earners)
         /\ Earners # {} => CarryOut < Cardinality(SlotIds)
<1> DEFINE w == activeBlocks[epoch]
           q == [s \in SlotIds |-> Share(s)]
<1>1. /\ cumulative \in 0 .. MaxSupply /\ enabledBlocks \in Nat /\ carry \in Nat
      /\ \A s \in SlotIds : w[s] \in Nat
      /\ DOMAIN w = SlotIds
  BY DEF RewardsInv, RewardsTypeOK, Counters
<1>2. /\ MaxSupply \in Nat /\ InitialBlockSubsidy \in Nat /\ MaxBasisPoints \in Nat \ {0}
      /\ TreasuryShareBps \in 0 .. MaxBasisPoints
  BY RewardsAssumption
<1>3. Emitted \in cumulative .. MaxSupply
  BY <1>1, <1>2, AfterOneMore DEF Emitted
<1>4. Minted \in Nat
  BY <1>1, <1>3 DEF Minted
<1>5. Treasury \in 0 .. Minted
  <2> DEFINE t == (Minted * TreasuryShareBps) \div MaxBasisPoints
  <2>1. Minted * TreasuryShareBps \in Nat /\ MaxBasisPoints * Minted \in Nat
    BY <1>2, <1>4
  <2>2. Minted * TreasuryShareBps <= MaxBasisPoints * Minted
    <3>1. Minted * (MaxBasisPoints - TreasuryShareBps) >= 0
      BY <1>2, <1>4
    <3>2. Minted * (MaxBasisPoints - TreasuryShareBps) =
            MaxBasisPoints * Minted - Minted * TreasuryShareBps
      BY <1>2, <1>4
    <3> QED
      BY <2>1, <3>1, <3>2
  <2>3. t \in Nat /\ MaxBasisPoints * t <= Minted * TreasuryShareBps
    BY <1>2, <2>1, DivFacts
  <2> HIDE DEF t
  <2>4. MaxBasisPoints * t \in Int
    BY <1>2, <2>3
  <2>5. MaxBasisPoints * t <= MaxBasisPoints * Minted
    BY <2>1, <2>2, <2>3, <2>4
  <2>6. t <= Minted
    BY <1>2, <1>4, <2>3, <2>5, CancelFactor
  <2> QED
    BY <1>4, <2>3, <2>6 DEF Treasury, t
<1>6. Pool \in Nat
  BY <1>1, <1>4, <1>5 DEF Pool
<1>7. Weight = SumFunctionOnSet(w, SlotIds) /\ Weight \in Nat /\ \A s \in SlotIds : w[s] <= Weight
  <2>1. Weight = SumFunctionOnSet(w, SlotIds)
    BY <1>1 DEF Weight, SumFunction
  <2> HIDE DEF w
  <2> QED
    BY <1>1, <2>1, FiniteTables, SumOfNaturals
<1>8. Earners = {s \in SlotIds : w[s] > 0} /\ IsFiniteSet(Earners)
      /\ Cardinality(Earners) <= Cardinality(SlotIds)
      /\ Cardinality(Earners) \in Nat /\ Cardinality(SlotIds) \in Nat
  <2>1. Earners = {s \in SlotIds : w[s] > 0} /\ Earners \in SUBSET SlotIds
    BY DEF Earners
  <2> QED
    BY <2>1, FiniteTables, FS_Subset, FS_CardinalityType
<1>9. Allocated = SumFunctionOnSet(q, SlotIds)
  BY DEF Allocated, SumFunction
<1>10. CASE Weight = 0
  <2>1. \A s \in SlotIds : Share(s) = 0 /\ q[s] = 0 /\ w[s] = 0
    BY <1>1, <1>7, <1>10 DEF Share
  <2>2. Earners = {}
    BY <1>8, <2>1
  <2>3. Allocated = 0
    <3> HIDE DEF q
    <3> QED
      BY <1>9, <2>1, FiniteTables, SumOfZeros
  <2> QED
    BY <1>3, <1>4, <1>5, <1>6, <1>9, <2>1, <2>2, <2>3 DEF CarryOut
<1>11. CASE Weight # 0
  <2>1. \A s \in SlotIds : q[s] = Share(s) /\ q[s] = (Pool * w[s]) \div SumFunctionOnSet(w, SlotIds)
    BY <1>7, <1>11 DEF Share
  <2>2. /\ \A s \in SlotIds : q[s] \in Nat
        /\ SumFunctionOnSet(q, SlotIds) \in 0 .. Pool
        /\ Pool - SumFunctionOnSet(q, SlotIds) < Cardinality({s \in SlotIds : w[s] > 0})
    <3> HIDE DEF q, w
    <3> QED
      BY <1>1, <1>6, <1>7, <1>11, <2>1, FiniteTables, SharesFit
  <2>3. \A s \in SlotIds : Share(s) \in Nat /\ (Share(s) > 0 => s \in Earners)
    <3> SUFFICES ASSUME NEW s \in SlotIds, Share(s) > 0 PROVE s \in Earners
      BY <2>1, <2>2
    <3>1. w[s] # 0
      <4> SUFFICES ASSUME w[s] = 0 PROVE FALSE
        OBVIOUS
      <4>1. Pool * w[s] = 0
        BY <1>6
      <4>2. (Pool * w[s]) \div Weight = 0
        BY <1>7, <1>11, <4>1
      <4> QED
        BY <1>7, <2>1, <4>2
    <3> QED
      BY <1>1, <1>8, <3>1
  <2>4. CarryOut \in Nat /\ CarryOut < Cardinality(Earners)
    BY <1>6, <1>8, <1>9, <2>2 DEF CarryOut
  <2>5. CarryOut < Cardinality(SlotIds)
    BY <1>8, <2>4
  <2> QED
    BY <1>3, <1>4, <1>5, <1>6, <1>9, <2>2, <2>3, <2>4, <2>5
<1> QED
  BY <1>10, <1>11

\* Nothing that EndBlock asserts at the end of an epoch can fail.
LEMMA FinalizeOKHolds ==
  ASSUME RewardsInv, phase = "deliver", height = EpochEnd(epoch)
  PROVE  /\ FinalizeOK /\ ~ Closed(epoch)
         /\ \A s \in SlotIds : entitlements[epoch][s] = NoEntitlement
<1>1. /\ epoch \in Epochs /\ EpochLength \in Nat
      /\ Closed(epoch) <=> \/ height > EpochEnd(epoch)
                           \/ height = EpochEnd(epoch) /\ phase = "commit"
      /\ height \in 1 .. MaxHeight
  BY EpochPlace
<1>2. ~ Closed(epoch)
  BY <1>1
<1>3. \A s \in SlotIds : entitlements[epoch][s] = NoEntitlement
  BY <1>1, <1>2 DEF RewardsInv, RecordsFollow
<1>4. EpochAnchored
  BY DEF RewardsInv, InItsEpoch
<1>5. ParticipationOK
  BY DEF RewardsInv, RewardsTypeOK, CountersAgree, ParticipationOK
<1>6. SnapshotsOK
  <2>1. \A s \in Earners : s \in SlotIds /\ status[s] # "ABSENT"
    BY DEF Earners, RewardsInv, CountersAgree
  <2>2. \A s \in SlotIds : payout[s] \in EconomicAccounts \cup {NoAccount}
    BY DEF RewardsInv, RewardsTypeOK, DirectoryTypeOK
  <2>3. \A s \in SlotIds : status[s] # "ABSENT" => payout[s] # NoAccount
    BY DEF RewardsInv, DirectoryKept
  <2> QED
    BY <2>1, <2>2, <2>3 DEF SnapshotsOK
<1>7. /\ Emitted \in cumulative .. MaxSupply /\ Minted \in Nat
      /\ Treasury \in 0 .. Minted /\ Pool \in Nat
      /\ \A s \in SlotIds : Share(s) \in Nat
      /\ Allocated \in 0 .. Pool /\ CarryOut \in Nat
      /\ Earners # {} => CarryOut < Cardinality(Earners)
  BY CloseArithmetic
<1>8. /\ cumulative \in 0 .. MaxSupply /\ carry \in Nat /\ liability \in Nat /\ escrow \in Nat
      /\ escrow = liability + carry
  BY DEF RewardsInv, RewardsTypeOK, BooksBalance, EscrowSolvent
<1>9. AllocationOK
  <2>1. Emitted \in 0 .. MaxSupply /\ Minted >= 0
    BY <1>7, <1>8
  <2> QED
    BY <1>7, <2>1 DEF AllocationOK
<1>10. escrow + Minted - Treasury = liability + Allocated + CarryOut
  BY <1>7, <1>8 DEF Pool, CarryOut
<1>11. MayFund(Escrow, TreasuryAddress, Treasury)
  BY DEF MayFund
<1> QED
  BY <1>2, <1>3, <1>4, <1>5, <1>6, <1>9, <1>10, <1>11 DEF FinalizeOK, Closed

\* The close of an epoch mints, books and archives amounts that agree
\* (finalizeEpoch).
LEMMA FinalizeEpochKeeps ==
  ASSUME RewardsInv, FinalizeEpoch
  PROVE  RewardsInv'
<1> DEFINE q == [s \in SlotIds |-> Share(s)]
<1>1. phase = "deliver" /\ height = EpochEnd(epoch) /\ height < MaxHeight
  BY DEF FinalizeEpoch, Delivering, BlockMayEnd
<1>2. /\ FinalizeOK /\ ~ Closed(epoch)
      /\ \A s \in SlotIds : entitlements[epoch][s] = NoEntitlement
  BY <1>1, FinalizeOKHolds
<1>3. /\ halted' = FALSE /\ phase' = "commit" /\ cumulative' = Emitted /\ carry' = CarryOut
      /\ finalized' = [finalized EXCEPT ![epoch] = FinalizedRecord]
      /\ params' = NextParams /\ pendingParams' = NoParams /\ epochConfig' = NextConfig
      /\ entitlements' = [entitlements EXCEPT ![epoch] = Created]
      /\ liability' = liability + Allocated /\ escrow' = escrow + Minted - Treasury
      /\ balances' = PaidTreasury
      /\ existing' = IF Treasury > 0 THEN existing \cup {TreasuryAddress} ELSE existing
      /\ activeBlocks' = [activeBlocks EXCEPT ![epoch] = [s \in SlotIds |-> 0]]
      /\ UNCHANGED <<directoryVars, height, epoch, epochStart, enabledBlocks, credited, pauseVars,
                     genesis>>
  BY <1>2 DEF FinalizeEpoch, Committed
<1>4. /\ Emitted \in cumulative .. MaxSupply /\ Minted \in Nat
      /\ Treasury \in 0 .. Minted /\ Pool \in Nat
      /\ \A s \in SlotIds : Share(s) \in Nat /\ (Share(s) > 0 => s \in Earners)
      /\ Allocated = SumFunctionOnSet(q, SlotIds)
      /\ Allocated \in 0 .. Pool /\ CarryOut \in Nat
      /\ Earners # {} => CarryOut < Cardinality(SlotIds)
  BY CloseArithmetic
<1>5. /\ epoch \in Epochs /\ epoch \in Nat \ {0} /\ \A e \in Epochs : e \in Nat \ {0}
      /\ height \in 1 .. MaxHeight /\ MaxHeight \in Nat /\ EpochLength \in Nat \ {0}
  BY EpochPlace, FirstEpoch
<1>6. /\ cumulative \in 0 .. MaxSupply /\ MaxSupply \in Nat /\ carry \in Nat /\ liability \in Nat
      /\ escrow \in Nat /\ enabledBlocks \in Nat /\ credited \in Nat
      /\ balances \in [Accounts -> Nat] /\ entitlements \in Entitlements
      /\ finalized \in EpochRecords /\ activeBlocks \in Counters
      /\ genesis.carry \in Nat /\ genesis.emitted \in Nat
      /\ epochConfig \in Configs /\ params \in ParamDocuments
      /\ TreasuryAddress \in Accounts
  BY RewardsAssumption, DirectoryAssumption DEF RewardsInv, RewardsTypeOK
<1> HIDE DEF q
<1>7. /\ entitlements' \in Entitlements
      /\ \A e \in Epochs \ {epoch} : entitlements'[e] = entitlements[e]
      /\ \A s \in SlotIds : /\ entitlements'[epoch][s].amount = Share(s)
                            /\ entitlements'[epoch][s].released = 0
  <2> DEFINE R == [amount : Nat, released : Nat, payout : EconomicAccounts \cup {NoAccount}]
  <2>1. \A s \in SlotIds : payout[s] \in EconomicAccounts \cup {NoAccount}
    BY DEF RewardsInv, RewardsTypeOK, DirectoryTypeOK
  <2>2. ASSUME NEW s \in SlotIds
        PROVE  /\ Created[s] \in R /\ Created[s].amount = Share(s) /\ Created[s].released = 0
    <3>1. Created[s] = IF Share(s) > 0
                       THEN [amount |-> Share(s), released |-> 0, payout |-> payout[s]]
                       ELSE NoEntitlement
      BY DEF Created
    <3>2. Share(s) \in Nat
      BY <1>4
    <3> QED
      BY <2>1, <3>1, <3>2 DEF NoEntitlement
  <2> HIDE DEF R
  <2>3. Created \in [SlotIds -> R]
    BY <2>2 DEF Created
  <2>4. entitlements \in [Epochs -> [SlotIds -> R]]
    BY <1>6 DEF Entitlements, R
  <2>5. /\ entitlements' \in [Epochs -> [SlotIds -> R]]
        /\ entitlements'[epoch] = Created
        /\ \A e \in Epochs \ {epoch} : entitlements'[e] = entitlements[e]
    BY <1>3, <1>5, <2>3, <2>4
  <2> QED
    BY <2>2, <2>5 DEF Entitlements, R
<1>8. /\ finalized' \in EpochRecords
      /\ \A e \in Epochs \ {epoch} : finalized'[e] = finalized[e]
      /\ finalized'[epoch] = FinalizedRecord
  <2> DEFINE R == [closed : BOOLEAN, enabled : Nat, minted : Nat, carryIn : Nat, treasury : Nat,
                   pool : Nat, allocated : Nat, carryOut : Nat, cumulative : Nat, config : Configs]
  <2>1. Treasury \in Nat /\ Allocated \in Nat /\ Emitted \in Nat
    BY <1>4, <1>6
  <2>2. FinalizedRecord \in R
    BY <1>4, <1>6, <2>1 DEF FinalizedRecord
  <2>3. finalized \in [Epochs -> R]
    BY <1>6 DEF EpochRecords
  <2> HIDE DEF R
  <2>4. /\ finalized' \in [Epochs -> R]
        /\ \A e \in Epochs \ {epoch} : finalized'[e] = finalized[e]
        /\ finalized'[epoch] = FinalizedRecord
    BY <1>3, <1>5, <2>2, <2>3
  <2> QED
    BY <2>4 DEF R, EpochRecords
<1>9. /\ activeBlocks' \in Counters
      /\ \A s \in SlotIds : activeBlocks'[epoch][s] = 0
      /\ \A e \in Epochs \ {epoch} : activeBlocks'[e] = activeBlocks[e]
  BY <1>3, <1>5, <1>6 DEF Counters
<1>10. /\ Closed(epoch)' /\ \A e \in Epochs \ {epoch} : Closed(e)' <=> Closed(e)
       /\ finalized'[epoch].carryOut = CarryOut /\ finalized'[epoch].carryIn = carry
       /\ finalized'[epoch].enabled = enabledBlocks /\ finalized'[epoch].allocated = Allocated
  BY <1>3, <1>8 DEF Closed, FinalizedRecord
<1>11. /\ balances' \in [Accounts -> Nat]
       /\ balances'[TreasuryAddress] = balances[TreasuryAddress] + Treasury
       /\ \A a \in Accounts \ {TreasuryAddress} : balances'[a] = balances[a]
  <2>1. Treasury \in Nat
    BY <1>4
  <2> QED
    BY <1>3, <1>6, <2>1 DEF PaidTreasury
<1>12. params' \in ParamDocuments /\ epochConfig' \in Configs
  <2>1. pendingParams \in ParamDocuments \cup {NoParams}
    BY DEF RewardsInv, RewardsTypeOK
  <2>2. NextParams \in ParamDocuments
    BY <1>6, <2>1 DEF NextParams, ParamDocuments
  <2> QED
    BY <1>3, <2>2, SnapshotOfDocument DEF NextConfig
<1>13. RewardsTypeOK'
  <2>1. /\ DirectoryTypeOK' /\ height' \in 1 .. MaxHeight /\ wanted' \in BOOLEAN
        /\ epoch' \in Epochs /\ epochStart' \in Nat /\ enabledBlocks' \in 0 .. EpochLength
        /\ paused' \in BOOLEAN /\ pendingPause' \in PausePlans /\ credited' \in Nat
        /\ genesis' \in [emitted : 0 .. MaxSupply, carry : Nat]
    BY <1>3 DEF RewardsInv, RewardsTypeOK, DirectoryTypeOK, directoryVars, pauseVars
  <2>2. phase' \in {"begin", "deliver", "commit"} /\ halted' \in BOOLEAN
    BY <1>3
  <2>3. existing' \subseteq Accounts \cup {Escrow}
    BY <1>3, <1>6 DEF RewardsInv, RewardsTypeOK
  <2>4. /\ cumulative' \in 0 .. MaxSupply /\ carry' \in Nat /\ liability' \in Nat /\ escrow' \in Nat
    BY <1>3, <1>4, <1>6
  <2>5. pendingParams' \in ParamDocuments \cup {NoParams}
    BY <1>3
  <2> QED
    BY <1>7, <1>8, <1>9, <1>11, <1>12, <2>1, <2>2, <2>3, <2>4, <2>5 DEF RewardsTypeOK
<1>14. DirectoryKept' /\ DocumentsAgree'
  BY <1>3, <1>12 DEF RewardsInv, DirectoryKept, ActiveSlots, DocumentsAgree, directoryVars
<1>15. InItsEpoch'
  BY <1>1, <1>3 DEF RewardsInv, InItsEpoch, EpochAnchored
<1>16. CountersAgree'
  <2>1. /\ enabledBlocks <= (height - epochStart) + 1
        /\ \A e \in Epochs, s \in SlotIds : e > epoch => activeBlocks[e][s] = 0
    BY <1>1 DEF RewardsInv, CountersAgree
  <2>2. \A e \in Epochs, s \in SlotIds : e > epoch => activeBlocks'[e][s] = 0
    <3>1. \A e \in Epochs : e > epoch => e # epoch
      BY <1>5
    <3> QED
      BY <1>9, <2>1, <3>1
  <2>3. \A s \in SlotIds : activeBlocks'[epoch][s] <= enabledBlocks /\ ~ (activeBlocks'[epoch][s] > 0)
    BY <1>6, <1>9
  <2>4. credited' >= 0
    BY <1>3, <1>6
  <2> QED
    BY <1>3, <1>10, <2>1, <2>2, <2>3, <2>4 DEF CountersAgree
<1>17. PauseDue'
  BY <1>1, <1>3 DEF RewardsInv, PauseDue, pauseVars
<1>18. EscrowSolvent'
  BY <1>2, <1>3, <1>4, <1>6 DEF FinalizeOK, EscrowSolvent
<1>19. SupplyConserved'
  <2>1. SumFunctionOnSet(balances', Accounts) =
          SumFunctionOnSet(balances, Accounts) + balances'[TreasuryAddress] - balances[TreasuryAddress]
    <3>1. \A a \in Accounts : balances[a] \in Int /\ balances'[a] \in Int
      BY <1>6, <1>11
    <3> QED
      BY <1>6, <1>11, <3>1, FiniteTables, SumUpdate
  <2>2. SumFunctionOnSet(balances, Accounts) \in Int /\ balances[TreasuryAddress] \in Int
    BY <1>6, FiniteTables, SumOfNaturals
  <2>3. SumFunction(balances') = SumFunctionOnSet(balances', Accounts)
        /\ SumFunction(balances) = SumFunctionOnSet(balances, Accounts)
    BY <1>6, <1>11 DEF SumFunction
  <2>4. SumFunction(balances') = SumFunction(balances) + Treasury /\ SumFunction(balances) \in Int
    BY <1>4, <1>11, <2>1, <2>2, <2>3
  <2>5. SumFunction(balances) + escrow =
          SumFunction(GenesisBalances) + genesis.carry + (cumulative - genesis.emitted)
    BY DEF RewardsInv, BooksBalance, SupplyConserved
  <2>6. SumFunction(GenesisBalances) \in Int
    <3>1. /\ IsFiniteSet(DOMAIN GenesisBalances)
          /\ \A a \in DOMAIN GenesisBalances : GenesisBalances[a] \in Nat
      BY RewardsAssumption, FiniteTables, FS_Subset
    <3> QED
      BY <3>1, SumOfNaturals DEF SumFunction
  <2>7. Minted = Emitted - cumulative /\ Treasury \in Int /\ Emitted \in Int /\ cumulative \in Int
    BY <1>4, <1>6 DEF Minted
  <2>8. SumFunction(balances') + escrow' =
          SumFunction(GenesisBalances) + genesis.carry + (Emitted - genesis.emitted)
    BY <1>3, <1>6, <2>4, <2>5, <2>6, <2>7
  <2> QED
    BY <1>3, <2>8 DEF SupplyConserved
<1>20. EmissionFollowsCredit'
  <2>1. /\ credited >= enabledBlocks
        /\ cumulative = CumulativeAfter(genesis.emitted, credited - enabledBlocks, MaxSupply,
                                        InitialBlockSubsidy)
    BY <1>2 DEF RewardsInv, CountersAgree, BooksBalance, EmissionFollowsCredit
  <2>2. genesis.emitted \in 0 .. MaxSupply
    BY DEF RewardsInv, RewardsTypeOK
  <2>3. /\ credited - enabledBlocks \in Nat /\ (credited - enabledBlocks) + enabledBlocks = credited
        /\ credited - 0 = credited
    BY <1>6, <2>1
  <2>4. Emitted = CumulativeAfter(genesis.emitted, credited, MaxSupply, InitialBlockSubsidy)
    <3> DEFINE n == credited - enabledBlocks
    <3>1. n \in Nat /\ n + enabledBlocks = credited
      BY <2>3
    <3>2. cumulative = CumulativeAfter(genesis.emitted, n, MaxSupply, InitialBlockSubsidy)
      BY <2>1
    <3>3. enabledBlocks \in Nat /\ MaxSupply \in Nat /\ InitialBlockSubsidy \in Nat
      BY <1>6, RewardsAssumption
    <3> HIDE DEF n
    <3>4. CumulativeAfter(CumulativeAfter(genesis.emitted, n, MaxSupply, InitialBlockSubsidy),
                          enabledBlocks, MaxSupply, InitialBlockSubsidy)
            = CumulativeAfter(genesis.emitted, n + enabledBlocks, MaxSupply, InitialBlockSubsidy)
      <4> DEFINE g == genesis.emitted
      <4>1. g \in 0 .. MaxSupply /\ n \in Nat /\ enabledBlocks \in Nat
        BY <2>2, <3>1, <3>3
      <4>2. ASSUME NEW cum \in 0 .. MaxSupply, NEW i \in Nat, NEW j \in Nat
            PROVE  CumulativeAfter(CumulativeAfter(cum, i, MaxSupply, InitialBlockSubsidy),
                                   j, MaxSupply, InitialBlockSubsidy)
                     = CumulativeAfter(cum, i + j, MaxSupply, InitialBlockSubsidy)
        BY <3>3, EmissionAdditive
      <4> HIDE DEF g
      <4>3. CumulativeAfter(CumulativeAfter(g, n, MaxSupply, InitialBlockSubsidy),
                            enabledBlocks, MaxSupply, InitialBlockSubsidy)
              = CumulativeAfter(g, n + enabledBlocks, MaxSupply, InitialBlockSubsidy)
        BY <4>1, <4>2
      <4> QED
        BY <4>3 DEF g
    <3> QED
      BY <3>1, <3>2, <3>4 DEF Emitted
  <2> QED
    BY <1>3, <1>10, <2>3, <2>4 DEF EmissionFollowsCredit
<1>21. LiabilityExact'
  <2> DEFINE row == [x \in Epochs \X SlotIds |-> IF x[1] = epoch THEN q[x[2]] ELSE 0]
  <2>1. \A e \in Epochs, s \in SlotIds : entitlements[e][s].amount \in Nat /\ entitlements[e][s].released \in Nat
    BY <1>6 DEF Entitlements
  <2>2. \A s \in SlotIds : q[s] = Share(s) /\ q[s] \in Int
    BY <1>4 DEF q
  <2>3. \A e \in Epochs, s \in SlotIds : row[<<e, s>>] = IF e = epoch THEN q[s] ELSE 0
    OBVIOUS
  <2>4. SumFunctionOnSet(row, Epochs \X SlotIds) = SumFunctionOnSet(q, SlotIds)
    <3>1. \A s \in SlotIds : q[s] \in Int
      BY <2>2
    <3>2. epoch \in Epochs /\ IsFiniteSet(Epochs) /\ IsFiniteSet(SlotIds)
      BY <1>5, FiniteTables
    <3> HIDE DEF row
    <3> QED
      BY <2>3, <3>1, <3>2, SumOfRow
  <2>5. \A x \in Epochs \X SlotIds : Owed[x] \in Int /\ row[x] \in Int /\ Owed'[x] = Owed[x] + row[x]
    <3> HIDE DEF row
    <3> SUFFICES ASSUME NEW x \in Epochs \X SlotIds
                 PROVE  Owed[x] \in Int /\ row[x] \in Int /\ Owed'[x] = Owed[x] + row[x]
      OBVIOUS
    <3> DEFINE e == x[1]
               s == x[2]
    <3>0. x = <<e, s>> /\ e \in Epochs /\ s \in SlotIds
      OBVIOUS
    <3> HIDE DEF e, s
    <3>1. /\ Owed[<<e, s>>] = entitlements[e][s].amount - entitlements[e][s].released
          /\ Owed'[<<e, s>>] = entitlements'[e][s].amount - entitlements'[e][s].released
      BY <3>0 DEF Owed, Remaining
    <3>2. CASE e = epoch
      BY <1>2, <1>7, <2>2, <2>3, <3>0, <3>1, <3>2 DEF NoEntitlement
    <3>3. CASE e # epoch
      BY <1>7, <2>1, <2>3, <3>0, <3>1, <3>3
    <3> QED
      BY <3>2, <3>3
  <2>6. SumFunctionOnSet(Owed', Epochs \X SlotIds) =
          SumFunctionOnSet(Owed, Epochs \X SlotIds) + SumFunctionOnSet(row, Epochs \X SlotIds)
    <3> HIDE DEF row
    <3> QED
      BY <2>5, FiniteTables, SumPlus
  <2>7. liability = SumFunctionOnSet(Owed, Epochs \X SlotIds)
    BY SumOfTable DEF RewardsInv, BooksBalance, LiabilityExact, Owed
  <2>8. SumFunction(Owed') = SumFunctionOnSet(Owed', Epochs \X SlotIds)
    BY DEF SumFunction, Owed
  <2>9. liability' = SumFunction(Owed')
    BY <1>3, <1>4, <2>4, <2>6, <2>7, <2>8
  <2>10. \A e \in Epochs, s \in SlotIds : Remaining(e, s)' >= 0
    <3> SUFFICES ASSUME NEW e \in Epochs, NEW s \in SlotIds PROVE Remaining(e, s)' >= 0
      OBVIOUS
    <3>1. Remaining(e, s) >= 0
      BY DEF RewardsInv, BooksBalance, LiabilityExact
    <3>2. CASE e = epoch
      BY <1>4, <1>7, <3>2 DEF Remaining
    <3>3. CASE e # epoch
      BY <1>7, <3>1, <3>3 DEF Remaining
    <3> QED
      BY <3>2, <3>3
  <2> QED
    BY <2>9, <2>10 DEF LiabilityExact, Owed
<1>22. EpochsChain'
  <2>1. ASSUME NEW e \in Epochs PROVE SumFunction(Amounts(e)') = finalized'[e].allocated
    <3>1. CASE e = epoch
      <4>1. Amounts(e)' = q
        BY <1>7, <3>1 DEF Amounts, q
      <4>2. DOMAIN q = SlotIds
        BY DEF q
      <4> QED
        BY <1>4, <1>10, <3>1, <4>1, <4>2 DEF SumFunction
    <3>2. CASE e # epoch
      <4>1. Amounts(e)' = Amounts(e)
        BY <1>7, <3>2 DEF Amounts
      <4>2. SumFunction(Amounts(e)) = finalized[e].allocated
        BY DEF RewardsInv, EpochsChain, Amounts
      <4> QED
        BY <1>8, <3>2, <4>1, <4>2
    <3> QED
      BY <3>1, <3>2
  <2>2. \A e \in Epochs :
          Closed(e)' <=> \/ e < epoch'
                         \/ e = epoch' /\ height' > EpochEnd(e)
                         \/ e = epoch' /\ height' = EpochEnd(e) /\ phase' = "commit"
    BY <1>1, <1>3, <1>10 DEF RewardsInv, EpochsChain
  <2>3. ASSUME NEW e \in Epochs, Closed(e)'
        PROVE  /\ finalized'[e].carryIn =
                    IF e = 1 THEN genesis'.carry ELSE finalized'[e - 1].carryOut
               /\ finalized'[e].enabled > 0 => finalized'[e].carryOut < Cardinality(SlotIds)
    <3>1. CASE e = epoch
      <4>1. carry = IF epoch - 1 = 0 THEN genesis.carry ELSE finalized[epoch - 1].carryOut
        BY <1>2 DEF RewardsInv, RecordsFollow, LastClosed
      <4>2. epoch # 1 => epoch - 1 \in Epochs \ {epoch} /\ finalized'[epoch - 1] = finalized[epoch - 1]
        <5>1. epoch # 1 => epoch - 1 \in Epochs \ {epoch}
          BY <1>5, RewardsAssumption DEF Epochs
        <5> QED
          BY <1>8, <5>1
      <4>3. enabledBlocks > 0 => Earners # {}
        BY <1>2 DEF RewardsInv, CountersAgree, Earners
      <4>4. epoch - 1 = 0 <=> epoch = 1
        BY <1>5
      <4> QED
        BY <1>3, <1>4, <1>10, <3>1, <4>1, <4>2, <4>3, <4>4
    <3>2. CASE e # epoch
      <4>1. Closed(e)
        BY <1>10, <2>3, <3>2
      <4>2. e < epoch
        BY <1>1, <3>2, <4>1 DEF RewardsInv, EpochsChain
      <4>3. e # 1 => e - 1 \in Epochs \ {epoch}
        BY <1>5, <4>2, RewardsAssumption DEF Epochs
      <4>4. /\ finalized[e].carryIn = IF e = 1 THEN genesis.carry ELSE finalized[e - 1].carryOut
            /\ finalized[e].enabled > 0 => finalized[e].carryOut < Cardinality(SlotIds)
        BY <4>1 DEF RewardsInv, EpochsChain
      <4> QED
        BY <1>3, <1>8, <3>2, <4>3, <4>4
    <3> QED
      BY <3>1, <3>2
  <2> QED
    BY <2>1, <2>2, <2>3 DEF EpochsChain, Amounts
<1>23. RecordsFollow'
  <2>1. LastClosed' = epoch /\ epoch # 0
    BY <1>3, <1>5, <1>10 DEF LastClosed
  <2>2. \A e \in Epochs, s \in SlotIds : ~ Closed(e)' => entitlements'[e][s] = NoEntitlement
    <3>1. \A e \in Epochs : ~ Closed(e)' => e \in Epochs \ {epoch} /\ ~ Closed(e)
      BY <1>3, <1>10 DEF Closed
    <3>2. \A e \in Epochs, s \in SlotIds : ~ Closed(e) => entitlements[e][s] = NoEntitlement
      BY DEF RewardsInv, RecordsFollow
    <3> QED
      BY <1>7, <3>1, <3>2
  <2> QED
    BY <1>3, <1>10, <2>1, <2>2 DEF RecordsFollow
<1>24. BooksBalance'
  BY <1>18, <1>19, <1>20, <1>21 DEF BooksBalance
<1> QED
  BY <1>3, <1>13, <1>14, <1>15, <1>16, <1>17, <1>22, <1>23, <1>24 DEF RewardsInv, RewardsNeverHalt

-----------------------------------------------------------------------------
(* The theorems.                                                           *)

\* A step that changes nothing.
LEMMA StutterKeeps ==
  ASSUME RewardsInv, UNCHANGED vars
  PROVE  RewardsInv'
<1>1. UNCHANGED <<directoryVars, blockVars, epochVars, pauseVars, closeVars, escrowVars, genesis>>
  BY DEF vars, rewardsVars
<1>2. DirectoryTypeOK' /\ DirectoryKept' /\ status' = status
  BY <1>1 DEF RewardsInv, RewardsTypeOK, DirectoryTypeOK, DirectoryKept, ActiveSlots, directoryVars
<1>3. PauseDue' /\ DocumentsAgree'
  BY <1>1 DEF RewardsInv, PauseDue, DocumentsAgree, blockVars, pauseVars, closeVars
<1>4. /\ wanted' \in BOOLEAN /\ pendingPause' \in PausePlans
      /\ pendingParams' \in ParamDocuments \cup {NoParams}
  BY <1>1 DEF RewardsInv, RewardsTypeOK, pauseVars, closeVars
<1>5. UNCHANGED <<blockVars, epochVars, paused, cumulative, carry, finalized, params,
                  epochConfig, escrowVars, genesis>>
  BY <1>1 DEF pauseVars, closeVars
<1> QED
  BY <1>2, <1>3, <1>4, <1>5, QuietStep

\* Every step keeps the invariant.
LEMMA NextRewards == RewardsInv /\ [RewardsNext]_vars => RewardsInv'
<1> SUFFICES ASSUME RewardsInv, [RewardsNext]_vars PROVE RewardsInv'
  OBVIOUS
<1>1. CASE BeginBlock
  BY <1>1, BeginBlockKeeps
<1>2. ASSUME NEW by \in Accounts, PauseRewards(by) PROVE RewardsInv'
  <2>1. SchedulePause(by, TRUE) /\ TRUE \in BOOLEAN
    BY <1>2 DEF PauseRewards
  <2> QED
    BY <2>1, SchedulePauseKeeps
<1>3. ASSUME NEW by \in Accounts, ResumeRewards(by) PROVE RewardsInv'
  <2>1. SchedulePause(by, FALSE) /\ FALSE \in BOOLEAN
    BY <1>3 DEF ResumeRewards
  <2> QED
    BY <2>1, SchedulePauseKeeps
<1>4. ASSUME NEW by \in Accounts, NEW p \in ParamUpdates, UpdateRewardsParams(by, p)
      PROVE  RewardsInv'
  BY <1>4, UpdateRewardsParamsKeeps
<1>5. ASSUME NEW from \in Accounts, NEW outputs \in UserTransfers, Send(from, outputs)
      PROVE  RewardsInv'
  BY <1>5, SendKeeps
<1>6. CASE DirectoryTx
  BY <1>6, DirectoryTxKeeps
<1>7. ASSUME NEW e \in Epochs, NEW s \in SlotIds, NEW pay \in PayoutSets, PayEntitlement(e, s, pay)
      PROVE  RewardsInv'
  BY <1>7, PayEntitlementKeeps
<1>8. ASSUME NEW e \in Epochs, NEW s \in SlotIds, PayEntitlementRemainder(e, s) PROVE RewardsInv'
  BY <1>8, PayRemainderKeeps
<1>9. CASE FinalizeEpoch
  BY <1>9, FinalizeEpochKeeps
<1>10. CASE EndBlockInsideEpoch
  BY <1>10, EndBlockInsideEpochKeeps
<1>11. CASE CommitBlock
  BY <1>11, CommitBlockKeeps
<1>12. CASE UNCHANGED vars
  BY <1>12, StutterKeeps
<1> QED
  BY <1>1, <1>2, <1>3, <1>4, <1>5, <1>6, <1>7, <1>8, <1>9, <1>10, <1>11, <1>12 DEF RewardsNext

\* The strengthened invariant holds of every behaviour.
THEOREM RewardsInvariant == RewardsSpec => []RewardsInv
<1>1. RewardsInit => RewardsInv
  BY InitRewards
<1>2. RewardsInv /\ [RewardsNext]_vars => RewardsInv'
  BY NextRewards
<1> QED
  BY <1>1, <1>2, PTL DEF RewardsSpec

\* Every store of x/rewards holds a value of its declared kind.
THEOREM RewardsTypeCorrect == RewardsSpec => []RewardsTypeOK
<1>1. RewardsInv => RewardsTypeOK
  BY DEF RewardsInv
<1> QED
  BY <1>1, RewardsInvariant, PTL

\* No hook of x/rewards halts the chain: none of the assertions of BeginBlock and
\* EndBlock (anchor, boundaries, participation, snapshots, conservation, solvency)
\* can fail, whatever transactions and pauses come before it.
THEOREM HooksNeverFail == RewardsSpec => []RewardsNeverHalt
<1>1. RewardsInv => RewardsNeverHalt
  BY DEF RewardsInv
<1> QED
  BY <1>1, RewardsInvariant, PTL

\* Escrow, liability, supply and emission agree at every moment.
THEOREM BooksAlwaysBalance == RewardsSpec => []BooksBalance
<1>1. RewardsInv => BooksBalance
  BY DEF RewardsInv
<1> QED
  BY <1>1, RewardsInvariant, PTL

\* Epochs close in order, hand their carry on and allocate what they record.
THEOREM EpochsAlwaysChain == RewardsSpec => []EpochsChain
<1>1. RewardsInv => EpochsChain
  BY DEF RewardsInv
<1> QED
  BY <1>1, RewardsInvariant, PTL

\* What each step does to closed epochs, documents and the pause: only the close
\* writes records and documents, only releases touch an entitlement of a closed
\* epoch, only BeginBlock applies a pause.
LEMMA StepEffects ==
  ASSUME RewardsInv, RewardsNext
  PROVE  \/ /\ FinalizeEpoch
         \/ /\ BeginBlock
            /\ UNCHANGED <<finalized, params, epochConfig, entitlements>>
         \/ /\ ~ paused /\ UNCHANGED <<finalized, params, epochConfig, paused, phase>>
            /\ \E e \in Epochs, s \in SlotIds, total \in Nat :
                 entitlements' = Released(e, s, total)
         \/ /\ UNCHANGED <<finalized, params, epochConfig, paused, entitlements, escrow>>
            /\ phase = "begin" => phase' # "deliver"
<1> DEFINE Calm == /\ UNCHANGED <<finalized, params, epochConfig, paused, entitlements, escrow>>
                   /\ phase = "begin" => phase' # "deliver"
           Pays == /\ ~ paused /\ UNCHANGED <<finalized, params, epochConfig, paused, phase>>
                   /\ \E e \in Epochs, s \in SlotIds, total \in Nat :
                        entitlements' = Released(e, s, total)
<1>1. ASSUME NEW by, NEW value, SchedulePause(by, value) PROVE Calm
  BY <1>1 DEF SchedulePause, Delivering, blockVars, closeVars, escrowVars
<1>2. ASSUME NEW by, NEW p, UpdateRewardsParams(by, p) PROVE Calm
  BY <1>2 DEF UpdateRewardsParams, Delivering, blockVars, pauseVars, escrowVars
<1>3. ASSUME NEW from \in Accounts, NEW outputs \in UserTransfers, Send(from, outputs) PROVE Calm
  <2>1. Escrow \notin DOMAIN outputs
    BY <1>3, RewardsAssumption, DirectoryAssumption DEF Send, BlockedAddr
  <2>2. escrow \in Nat
    BY DEF RewardsInv, RewardsTypeOK
  <2>3. escrow' = escrow
    BY <1>3, <2>1, <2>2 DEF Send
  <2> QED
    BY <1>3, <2>3 DEF Send, Delivering, blockVars, pauseVars, closeVars
<1>4. ASSUME DirectoryTx PROVE Calm
  BY <1>4 DEF DirectoryTx, Delivering, rewardsVars, blockVars, pauseVars, closeVars, escrowVars
<1>5. ASSUME NEW e \in Epochs, NEW s \in SlotIds, NEW pay, NEW total \in Nat,
             Release(e, s, pay, total)
      PROVE  Pays
  BY <1>5 DEF Release, ReleaseEnabled, Delivering, blockVars, pauseVars, closeVars
<1>6. ASSUME NEW e \in Epochs, NEW s \in SlotIds, NEW pay \in PayoutSets, PayEntitlement(e, s, pay)
      PROVE  Pays
  <2>1. DOMAIN pay \subseteq Accounts /\ \A a \in DOMAIN pay : pay[a] \in Nat
    BY <1>6, RewardsAssumption, DirectoryAssumption DEF PayEntitlement, Release
  <2>2. SumFunction(pay) \in Nat
    BY <2>1, FiniteTables, FS_Subset, SumOfNaturals DEF SumFunction
  <2> QED
    BY <1>5, <1>6, <2>2 DEF PayEntitlement
<1>7. ASSUME NEW e \in Epochs, NEW s \in SlotIds, PayEntitlementRemainder(e, s) PROVE Pays
  <2>1. Remaining(e, s) \in Nat
    <3>1. entitlements[e][s].amount \in Nat /\ entitlements[e][s].released \in Nat
      BY DEF RewardsInv, RewardsTypeOK, Entitlements
    <3> QED
      BY <1>7, <3>1 DEF PayEntitlementRemainder, Remaining
  <2> DEFINE r == Remaining(e, s)
             pay == [a \in {RemainderPayee(e, s)} |-> r]
  <2>2. Release(e, s, pay, r) /\ r \in Nat
    BY <1>7, <2>1 DEF PayEntitlementRemainder
  <2> HIDE DEF r, pay
  <2> QED
    BY <1>5, <2>2
<1>8. ASSUME EndBlockInsideEpoch PROVE Calm
  BY <1>8 DEF EndBlockInsideEpoch, Delivering, pauseVars, closeVars, escrowVars
<1>9. ASSUME CommitBlock PROVE Calm
  BY <1>9 DEF CommitBlock, pauseVars, closeVars, escrowVars
<1>10. CASE BeginBlock
  BY <1>10 DEF BeginBlock, closeVars, escrowVars
<1> HIDE DEF Calm, Pays
<1>11. FinalizeEpoch \/ BeginBlock \/ Calm \/ Pays
  BY <1>1, <1>2, <1>3, <1>4, <1>6, <1>7, <1>8, <1>9 DEF RewardsNext, PauseRewards, ResumeRewards
<1> QED
  BY <1>10, <1>11 DEF Calm, Pays

\* A closed epoch and the terms of its entitlements never change; releases only grow.
THEOREM ClosedEpochsStay == RewardsSpec => ClosedEpochsImmutable
<1> DEFINE Kept ==
      \A e \in Epochs : Closed(e) =>
        /\ finalized'[e] = finalized[e]
        /\ \A s \in SlotIds :
             /\ entitlements'[e][s].amount = entitlements[e][s].amount
             /\ entitlements'[e][s].payout = entitlements[e][s].payout
             /\ entitlements'[e][s].released >= entitlements[e][s].released
<1>1. RewardsInv /\ [RewardsNext]_vars => [Kept]_vars
  <2> SUFFICES ASSUME RewardsInv, RewardsNext PROVE Kept
    OBVIOUS
  <2>1. \A e \in Epochs, s \in SlotIds : entitlements[e][s].released \in Nat
    BY DEF RewardsInv, RewardsTypeOK, Entitlements
  <2>2. CASE FinalizeEpoch
    <3>1. /\ ~ Closed(epoch) /\ FinalizeOK
      BY <2>2, FinalizeOKHolds DEF FinalizeEpoch, Delivering
    <3>2. /\ finalized' = [finalized EXCEPT ![epoch] = FinalizedRecord]
          /\ entitlements' = [entitlements EXCEPT ![epoch] = Created]
      BY <2>2, <3>1 DEF FinalizeEpoch, Committed
    <3>3. \A e \in Epochs : Closed(e) => finalized'[e] = finalized[e] /\ entitlements'[e] = entitlements[e]
      BY <3>1, <3>2 DEF RewardsInv, RewardsTypeOK, EpochRecords, Entitlements
    <3> QED
      BY <2>1, <3>3
  <2>3. CASE UNCHANGED <<finalized, entitlements>>
    BY <2>1, <2>3
  <2>4. ASSUME NEW e \in Epochs, NEW s \in SlotIds, NEW total \in Nat, finalized' = finalized,
               entitlements' = Released(e, s, total)
        PROVE  Kept
    <3> SUFFICES ASSUME NEW f \in Epochs, NEW t \in SlotIds
                 PROVE  /\ entitlements'[f][t].amount = entitlements[f][t].amount
                        /\ entitlements'[f][t].payout = entitlements[f][t].payout
                        /\ entitlements'[f][t].released >= entitlements[f][t].released
      BY <2>4
    <3>1. entitlements \in Entitlements
      BY DEF RewardsInv, RewardsTypeOK
    <3> QED
      BY <2>1, <2>4, <3>1, ReleaseTable
  <2> HIDE DEF Kept
  <2> QED
    BY <2>2, <2>3, <2>4, StepEffects
<1> QED
  BY <1>1, RewardsInvariant, PTL DEF RewardsSpec, ClosedEpochsImmutable

\* A block is paused exactly when the last request of an earlier block asked for it,
\* and then credits nobody and releases nothing.
THEOREM PauseIsLastRequest == RewardsSpec => PauseFollowsLastRequest
<1> DEFINE Follows ==
      /\ phase = "begin" /\ phase' = "deliver" =>
           /\ paused' = wanted
           /\ wanted => activeBlocks' = activeBlocks
      /\ phase = "deliver" /\ phase' = "deliver" =>
           /\ paused' = paused
           /\ paused => escrow' = escrow
<1>1. RewardsInv /\ [RewardsNext]_vars => [Follows]_vars
  <2> SUFFICES ASSUME RewardsInv, RewardsNext PROVE Follows
    OBVIOUS
  <2>1. CASE FinalizeEpoch
    <3>1. FinalizeOK /\ phase = "deliver"
      BY <2>1, FinalizeOKHolds DEF FinalizeEpoch, Delivering
    <3>2. phase' = "commit"
      BY <2>1, <3>1 DEF FinalizeEpoch, Committed
    <3> QED
      BY <3>1, <3>2
  <2>2. CASE BeginBlock
    <3>1. BeginBlockOK /\ phase = "begin" /\ CurrentEpoch \in Epochs
      BY <2>2, BeginPlace DEF BeginBlock
    <3>2. /\ paused' = PauseApplied
          /\ activeBlocks' = [activeBlocks EXCEPT ![CurrentEpoch] =
               [s \in SlotIds |-> @[s] + IF Credits(s) THEN 1 ELSE 0]]
      BY <2>2, <3>1 DEF BeginBlock, Committed, CreditedEpoch
    <3>3. PauseApplied = wanted
      BY <3>1 DEF PauseApplied, RewardsInv, PauseDue
    <3>4. ASSUME wanted PROVE activeBlocks' = activeBlocks
      <4>1. \A s \in SlotIds : ~ Credits(s)
        BY <3>3, <3>4 DEF Credits
      <4>2. activeBlocks \in [Epochs -> [SlotIds -> 0 .. EpochLength]]
        BY DEF RewardsInv, RewardsTypeOK, Counters
      <4> DEFINE row == activeBlocks[CurrentEpoch]
      <4>3. row \in [SlotIds -> 0 .. EpochLength] /\ \A s \in SlotIds : row[s] \in Int /\ row[s] + 0 = row[s]
        BY <3>1, <4>2
      <4>4. [s \in SlotIds |-> row[s] + IF Credits(s) THEN 1 ELSE 0] = row
        <5>1. \A s \in SlotIds : row[s] + (IF Credits(s) THEN 1 ELSE 0) = row[s]
          BY <4>1, <4>3
        <5> HIDE DEF row
        <5> QED
          BY <4>3, <5>1
      <4> QED
        BY <3>1, <3>2, <4>2, <4>4
    <3> QED
      BY <3>1, <3>2, <3>3, <3>4
  <2>3. CASE /\ ~ paused /\ UNCHANGED <<paused, phase>>
    BY <2>3
  <2>4. CASE UNCHANGED <<paused, escrow>> /\ (phase = "begin" => phase' # "deliver")
    BY <2>4
  <2> HIDE DEF Follows
  <2> QED
    BY <2>1, <2>2, <2>3, <2>4, StepEffects
<1> QED
  BY <1>1, RewardsInvariant, PTL DEF RewardsSpec, PauseFollowsLastRequest

\* Parameters move only when an epoch closes, to the block time of the document queued
\* by then, whether the message or genesis brought it; switches, economics and fee share
\* never move, and the record of the closing epoch keeps the configuration it ran under.
THEOREM ParamsOnlySwitchAtClose == RewardsSpec => ParamsSwitchAtClose
<1> DEFINE closes == ~ Closed(epoch) /\ finalized'[epoch].closed
           Switch ==
      /\ \A field \in {"flags", "economics", "feeShare"} : params'[field] = params[field]
      /\ params' # params \/ epochConfig' # epochConfig => closes
      /\ closes =>
           /\ pendingParams # NoParams => params'.blockTime = pendingParams.blockTime
           /\ pendingParams' = NoParams
           /\ finalized'[epoch].config = epochConfig
           /\ epochConfig' = Snapshot(params)
<1>1. RewardsInv /\ [RewardsNext]_vars => [Switch]_vars
  <2> SUFFICES ASSUME RewardsInv, RewardsNext PROVE Switch
    OBVIOUS
  <2>1. /\ pendingParams # NoParams =>
             pendingParams.economics = params.economics /\ pendingParams.feeShare = params.feeShare
        /\ params \in ParamDocuments /\ pendingParams \in ParamDocuments \cup {NoParams}
    BY DEF RewardsInv, DocumentsAgree, RewardsTypeOK
  <2>2. CASE FinalizeEpoch
    <3>1. /\ ~ Closed(epoch) /\ FinalizeOK
      BY <2>2, FinalizeOKHolds DEF FinalizeEpoch, Delivering
    <3>2. /\ finalized' = [finalized EXCEPT ![epoch] = FinalizedRecord]
          /\ params' = NextParams /\ pendingParams' = NoParams /\ epochConfig' = NextConfig
      BY <2>2, <3>1 DEF FinalizeEpoch, Committed
    <3>3. finalized'[epoch].closed /\ finalized'[epoch].config = epochConfig
      BY <3>2 DEF FinalizedRecord, RewardsInv, RewardsTypeOK, EpochRecords
    <3>4. /\ params'.flags = params.flags /\ params'.economics = params.economics
          /\ params'.feeShare = params.feeShare
          /\ pendingParams # NoParams => params'.blockTime = pendingParams.blockTime
      BY <2>1, <3>2 DEF NextParams, ParamDocuments
    <3>5. epochConfig' = Snapshot(params)
      BY <3>2, <3>4 DEF NextConfig, Snapshot
    <3> QED
      BY <3>1, <3>2, <3>3, <3>4, <3>5
  <2>3. CASE UNCHANGED <<finalized, params, epochConfig>>
    BY <2>3 DEF Closed
  <2> HIDE DEF Switch
  <2> QED
    BY <2>2, <2>3, StepEffects
<1> QED
  BY <1>1, RewardsInvariant, PTL DEF RewardsSpec, ParamsSwitchAtClose

=============================================================================
