---------------------------- MODULE MiningProofs ----------------------------
(***************************************************************************)
(* Theorems about x/mining composed with x/rewards, for every value of the *)
(* constants.                                                              *)
(***************************************************************************)
EXTENDS Mining, RewardsProofs

-----------------------------------------------------------------------------
(* The composition implements x/rewards: x/mining releases entitlements    *)
(* through its two transactions and commits the block, and leaves the rest *)
(* of x/rewards alone.                                                     *)

\* A step of the composition is a step of x/rewards or leaves it unchanged.
LEMMA StepImplements == [MiningNext]_allVars => [RewardsNext]_vars
<1> SUFFICES ASSUME MiningNext PROVE [RewardsNext]_vars
  BY DEF allVars
<1>1. CASE OpenBlock
  BY <1>1 DEF OpenBlock, RewardsNext
<1>2. CASE \E by \in Accounts, e \in Epochs, s \in SlotIds, pay \in PayoutSets :
             \E index \in 0 .. MaxChunksPerSettlement : SubmitSettlementChunk(by, e, s, index, pay)
  <2>1. \E e \in Epochs, s \in SlotIds, pay \in PayoutSets : PayEntitlement(e, s, pay)
    BY <1>2 DEF SubmitSettlementChunk
  <2> QED
    BY <2>1 DEF RewardsNext
<1>3. ASSUME NEW by \in Accounts, NEW e \in Epochs, NEW s \in SlotIds, FinalizeSettlement(by, e, s)
      PROVE  [RewardsNext]_vars
  <2>1. PayEntitlementRemainder(e, s) \/ UNCHANGED vars
    BY <1>3 DEF FinalizeSettlement, ReleaseRemainder
  <2> QED
    BY <2>1 DEF RewardsNext
<1>4. CASE MiningEndBlock
  BY <1>4 DEF MiningEndBlock, RewardsNext
<1>5. CASE \/ \E by \in Accounts : PauseRewards(by)
           \/ \E by \in Accounts : ResumeRewards(by)
           \/ \E by \in Accounts, p \in ParamUpdates : UpdateRewardsParams(by, p)
           \/ \E from \in Accounts, outputs \in UserTransfers : Send(from, outputs)
           \/ DirectoryTx
           \/ FinalizeEpoch
           \/ EndBlockInsideEpoch
  BY <1>5 DEF RewardsNext
<1> QED
  BY <1>1, <1>2, <1>3, <1>4, <1>5 DEF MiningNext

\* Every behaviour of x/rewards with x/mining is one of x/rewards: what is proved
\* of x/rewards alone holds of the composition.
THEOREM MiningImplementsRewards == MiningSpec => RewardsSpec
<1>1. MiningInit => RewardsInit
  BY DEF MiningInit
<1>2. [MiningNext]_allVars => [RewardsNext]_vars
  BY StepImplements
<1> QED
  BY <1>1, <1>2, PTL DEF MiningSpec, RewardsSpec

-----------------------------------------------------------------------------
(* The invariant of x/mining.                                              *)

\* The cursor stands at the last closed epoch, except between the close of an
\* epoch and the hook of x/mining at the end of the same block.
CursorFollows == lastProcessed = IF phase = "commit" THEN epoch - 1 ELSE LastClosed

\* Up to the cursor, exactly the entitlements have settlements; beyond it nothing
\* has.
MaterializedSoFar ==
  \A e \in Epochs :
    /\ \A s \in SlotIds :
         /\ settlements[e][s].exists <=> e <= lastProcessed /\ entitlements[e][s].amount > 0
         /\ ~ settlements[e][s].exists => settlements[e][s] = NoSettlement
         /\ <<e, s>> \in openSettlements <=> Open(e, s)
    /\ anchors[e] # NoAnchor <=> \E s \in SlotIds : settlements[e][s].exists

\* Value leaves an entitlement through the chunks and the end of its settlement.
PaidThroughSettlement ==
  \A e \in Epochs, s \in SlotIds :
    /\ ~ settlements[e][s].exists => entitlements[e][s].released = 0
    /\ settlements[e][s].finalized => Remaining(e, s) = 0
    /\ Open(e, s) =>
         /\ settlements[e][s].nextChunk * PayoutFloor <= entitlements[e][s].released
         /\ entitlements[e][s].released > 0 => settlements[e][s].nextChunk > 0

\* The settlement clock is behind the height, and the unpaused blocks since an
\* anchor are what the clock has advanced, the current block included.
ClockCounts ==
  /\ settlementClock < height
  /\ \A e \in Epochs :
       IF anchors[e] = NoAnchor THEN windowBlocks[e] = 0
       ELSE /\ anchors[e] <= settlementClock
            /\ windowBlocks[e] = (settlementClock - anchors[e])
                                   + IF phase # "begin" /\ ~ paused THEN 1 ELSE 0

MiningInv ==
  /\ RewardsInv
  /\ MiningTypeOK
  /\ ~ miningHalted
  /\ CursorFollows
  /\ MaterializedSoFar
  /\ PaidThroughSettlement
  /\ ClockCounts

\* Facts of x/rewards that x/mining relies on.
LEMMA RewardsPromise ==
  ASSUME RewardsInv
  PROVE  /\ epoch \in Epochs /\ epoch \in Nat \ {0} /\ Epochs \subseteq Nat \ {0}
         /\ height \in 1 .. MaxHeight /\ MaxHeight \in Nat
         /\ LastClosed \in Nat /\ LastClosed <= epoch
         /\ phase = "deliver" => LastClosed = epoch - 1
         /\ \A e \in Epochs : Closed(e) <=> e <= LastClosed
         /\ \A e \in Epochs, s \in SlotIds :
              /\ entitlements[e][s].amount \in Nat /\ entitlements[e][s].released \in Nat
              /\ Remaining(e, s) >= 0
              /\ entitlements[e][s].amount > 0 => Closed(e)
              /\ ~ Closed(e) => entitlements[e][s] = NoEntitlement
<1>1. /\ epoch \in Epochs /\ epoch \in Nat \ {0} /\ height \in 1 .. MaxHeight /\ MaxHeight \in Nat
      /\ Closed(epoch) <=> \/ height > EpochEnd(epoch)
                           \/ height = EpochEnd(epoch) /\ phase = "commit"
      /\ EpochEnd(epoch) \in Int
  <2>1. /\ epoch \in Epochs /\ epoch \in Nat \ {0} /\ height \in 1 .. MaxHeight /\ MaxHeight \in Nat
        /\ Closed(epoch) <=> \/ height > EpochEnd(epoch)
                             \/ height = EpochEnd(epoch) /\ phase = "commit"
    BY EpochPlace
  <2> QED
    BY <2>1, Calendar
<1>2. Epochs \subseteq Nat \ {0}
  BY FirstEpoch
<1>3. \A e \in Epochs : e # epoch => (Closed(e) <=> e < epoch)
  BY DEF RewardsInv, EpochsChain
<1>4. LastClosed \in Nat /\ LastClosed <= epoch
  BY <1>1 DEF LastClosed
<1>5. \A e \in Epochs : Closed(e) <=> e <= LastClosed
  BY <1>1, <1>2, <1>3 DEF LastClosed
<1>6. phase = "deliver" => LastClosed = epoch - 1
  <2>1. phase = "deliver" => height <= EpochEnd(epoch)
    BY DEF RewardsInv, InItsEpoch
  <2> QED
    BY <1>1, <2>1 DEF LastClosed
<1>7. \A e \in Epochs, s \in SlotIds :
        /\ entitlements[e][s].amount \in Nat /\ entitlements[e][s].released \in Nat
        /\ Remaining(e, s) >= 0
        /\ ~ Closed(e) => entitlements[e][s] = NoEntitlement
  BY DEF RewardsInv, RewardsTypeOK, Entitlements, BooksBalance, LiabilityExact, RecordsFollow
<1>8. \A e \in Epochs, s \in SlotIds : entitlements[e][s].amount > 0 => Closed(e)
  BY <1>7 DEF NoEntitlement
<1> QED
  BY <1>1, <1>2, <1>4, <1>5, <1>6, <1>7, <1>8

-----------------------------------------------------------------------------
(* The invariant holds initially, and every step keeps it.                 *)

\* At genesis nothing is materialized and nothing is due.
LEMMA InitMining == MiningInit => MiningInv
<1> SUFFICES ASSUME MiningInit PROVE MiningInv
  OBVIOUS
<1>1. RewardsInv
  BY InitRewards DEF MiningInit
<1>2. /\ height = 1 /\ phase = "begin" /\ epoch = 1
      /\ \A e \in Epochs : ~ Closed(e) /\ \A s \in SlotIds : entitlements[e][s] = NoEntitlement
  BY DEF MiningInit, RewardsInit, Closed, OpenEpoch
<1>3. /\ settlementClock = 0 /\ lastProcessed = 0 /\ openSettlements = {} /\ miningHalted = FALSE
      /\ \A e \in Epochs : /\ anchors[e] = NoAnchor /\ windowBlocks[e] = 0
                           /\ \A s \in SlotIds : settlements[e][s] = NoSettlement
  BY DEF MiningInit
<1>4. 1 \in Epochs /\ Epochs \subseteq Nat \ {0} /\ MaxHeight \in Nat
  BY FirstEpoch, RewardsAssumption
<1>5. MiningTypeOK
  <2>1. MaxChunksPerSettlement \in Nat
    BY MiningAssumption
  <2>2. NoSettlement \in SettlementRecord
    BY <2>1 DEF NoSettlement, SettlementRecord, Reasons
  <2>3. settlements \in [Epochs -> [SlotIds -> SettlementRecord]]
    BY <2>2 DEF MiningInit
  <2>4. \A e \in Epochs, s \in SlotIds : settlements[e][s].reason = "NONE" <=> ~ settlements[e][s].finalized
    BY <1>3 DEF NoSettlement
  <2>5. anchors \in [Epochs -> {NoAnchor} \cup 0 .. MaxHeight] /\ windowBlocks \in [Epochs -> Nat]
    BY DEF MiningInit
  <2>6. settlementClock \in 0 .. MaxHeight /\ lastProcessed \in {0} \cup Epochs
    BY <1>3, <1>4
  <2>7. openSettlements \subseteq Epochs \X SlotIds /\ miningHalted \in BOOLEAN
    BY <1>3
  <2> QED
    BY <2>3, <2>4, <2>5, <2>6, <2>7 DEF MiningTypeOK
<1>6. CursorFollows
  BY <1>2, <1>3, <1>4 DEF CursorFollows, LastClosed
<1>7. MaterializedSoFar
  BY <1>2, <1>3 DEF MaterializedSoFar, NoSettlement, NoEntitlement, Open
<1>8. PaidThroughSettlement
  BY <1>2, <1>3 DEF PaidThroughSettlement, NoSettlement, NoEntitlement, Open
<1>9. ClockCounts
  BY <1>2, <1>3 DEF ClockCounts
<1> QED
  BY <1>1, <1>3, <1>5, <1>6, <1>7, <1>8, <1>9 DEF MiningInv

\* Transactions of x/rewards and x/coreslot do not concern x/mining.
LEMMA MiningFrame ==
  ASSUME MiningInv, RewardsInv', UNCHANGED miningVars,
         UNCHANGED <<height, phase, epoch, paused, finalized, entitlements>>
  PROVE  MiningInv'
<1> USE DEF MiningInv, miningVars
<1>1. MiningTypeOK'
  BY DEF MiningTypeOK
<1>2. CursorFollows'
  BY DEF CursorFollows, LastClosed, Closed
<1>3. MaterializedSoFar' /\ PaidThroughSettlement'
  BY DEF MaterializedSoFar, PaidThroughSettlement, Open, Remaining
<1>4. ClockCounts'
  BY DEF ClockCounts
<1> QED
  BY <1>1, <1>2, <1>3, <1>4

\* x/rewards closes an epoch: its entitlements wait for the cursor.
LEMMA FinalizeEpochMining ==
  ASSUME MiningInv, RewardsInv', FinalizeEpoch, UNCHANGED miningVars
  PROVE  MiningInv'
<1>1. RewardsInv /\ phase = "deliver" /\ height = EpochEnd(epoch)
  BY DEF MiningInv, FinalizeEpoch, Delivering
<1>2. FinalizeOK /\ epoch \in Epochs
  BY <1>1, FinalizeOKHolds, EpochPlace
<1>3. /\ phase' = "commit" /\ epoch' = epoch /\ height' = height /\ paused' = paused
      /\ entitlements' = [entitlements EXCEPT ![epoch] = Created]
  BY <1>2 DEF FinalizeEpoch, Committed, pauseVars
<1>4. /\ \A e \in Epochs \ {epoch} : entitlements'[e] = entitlements[e]
      /\ \A s \in SlotIds : entitlements'[epoch][s].released = 0
  <2>1. entitlements \in Entitlements /\ DOMAIN entitlements = Epochs
    BY <1>1 DEF RewardsInv, RewardsTypeOK, Entitlements
  <2>2. \A s \in SlotIds : Created[s].released = 0
    BY DEF Created, NoEntitlement
  <2> QED
    BY <1>2, <1>3, <2>1, <2>2
<1>5. lastProcessed = epoch - 1 /\ epoch \in Nat
  BY <1>1, RewardsPromise DEF MiningInv, CursorFollows
<1>6. MiningTypeOK' /\ CursorFollows' /\ ~ miningHalted'
  BY <1>3, <1>5 DEF MiningInv, MiningTypeOK, miningVars, CursorFollows
<1>7. \A s \in SlotIds : ~ settlements[epoch][s].exists /\ settlements[epoch][s] = NoSettlement
  <2>1. ~ (epoch <= lastProcessed)
    BY <1>5
  <2> QED
    BY <1>2, <2>1 DEF MiningInv, MaterializedSoFar
<1>8. MaterializedSoFar'
  <2> SUFFICES ASSUME NEW e \in Epochs
               PROVE  (/\ \A s \in SlotIds :
                            /\ settlements[e][s].exists <=>
                                 e <= lastProcessed /\ entitlements[e][s].amount > 0
                            /\ ~ settlements[e][s].exists => settlements[e][s] = NoSettlement
                            /\ <<e, s>> \in openSettlements <=> Open(e, s)
                       /\ anchors[e] # NoAnchor <=> \E s \in SlotIds : settlements[e][s].exists)'
    BY DEF MaterializedSoFar
  <2>1. CASE e = epoch
    BY <1>5, <1>7, <2>1 DEF MiningInv, MaterializedSoFar, miningVars, Open
  <2>2. CASE e # epoch
    BY <1>4, <2>2 DEF MiningInv, MaterializedSoFar, miningVars, Open
  <2> QED
    BY <2>1, <2>2
<1>9. PaidThroughSettlement'
  <2> SUFFICES ASSUME NEW e \in Epochs, NEW s \in SlotIds
               PROVE  (/\ ~ settlements[e][s].exists => entitlements[e][s].released = 0
                       /\ settlements[e][s].finalized => Remaining(e, s) = 0
                       /\ Open(e, s) =>
                            /\ settlements[e][s].nextChunk * PayoutFloor <= entitlements[e][s].released
                            /\ entitlements[e][s].released > 0 => settlements[e][s].nextChunk > 0)'
    BY DEF PaidThroughSettlement
  <2>1. CASE e = epoch
    BY <1>4, <1>7, <2>1 DEF miningVars, Open, NoSettlement
  <2>2. CASE e # epoch
    BY <1>4, <2>2 DEF MiningInv, PaidThroughSettlement, miningVars, Open, Remaining
  <2> QED
    BY <2>1, <2>2
<1>10. ClockCounts'
  BY <1>1, <1>3 DEF MiningInv, ClockCounts, miningVars
<1> QED
  BY <1>6, <1>8, <1>9, <1>10 DEF MiningInv

\* A block inside an epoch leaves the settlements alone.
LEMMA EndBlockInsideMining ==
  ASSUME MiningInv, RewardsInv', EndBlockInsideEpoch, UNCHANGED miningVars
  PROVE  MiningInv'
<1>1. RewardsInv /\ phase = "deliver"
  BY DEF MiningInv, EndBlockInsideEpoch, Delivering
<1>2. halted' = FALSE
  BY DEF RewardsInv, RewardsTypeOK, RewardsNeverHalt
<1>3. /\ phase' = "commit"
      /\ UNCHANGED <<epoch, height, paused, finalized, entitlements>>
  BY <1>2 DEF EndBlockInsideEpoch, Committed, epochVars, pauseVars, closeVars, escrowVars
<1>4. lastProcessed = epoch - 1
  BY <1>1, RewardsPromise DEF MiningInv, CursorFollows
<1>5. MiningTypeOK' /\ CursorFollows' /\ ~ miningHalted'
  BY <1>3, <1>4 DEF MiningInv, MiningTypeOK, miningVars, CursorFollows
<1>6. MaterializedSoFar' /\ PaidThroughSettlement'
  BY <1>3 DEF MiningInv, MaterializedSoFar, PaidThroughSettlement, miningVars, Open, Remaining
<1>7. ClockCounts'
  BY <1>1, <1>3 DEF MiningInv, ClockCounts, miningVars
<1> QED
  BY <1>5, <1>6, <1>7 DEF MiningInv

\* The next block opens.
LEMMA OpenBlockMining ==
  ASSUME MiningInv, RewardsInv', OpenBlock
  PROVE  MiningInv'
<1>1. RewardsInv /\ phase = "begin" /\ BeginBlock
  BY DEF MiningInv, OpenBlock, BeginBlock
<1>2. BeginBlockOK /\ CurrentEpoch \in Epochs /\ LastClosed = CurrentEpoch - 1
      /\ \A e \in Epochs : Closed(e) <=> e < CurrentEpoch
  BY <1>1, BeginPlace
<1>3. /\ phase' = "deliver" /\ epoch' = CurrentEpoch /\ height' = height
      /\ entitlements' = entitlements /\ finalized' = finalized
      /\ paused' \in BOOLEAN
  BY <1>1, <1>2 DEF BeginBlock, Committed, escrowVars, closeVars, RewardsInv, RewardsTypeOK
<1>4. /\ UNCHANGED <<settlementClock, lastProcessed, settlements, openSettlements, anchors,
                     miningHalted>>
      /\ windowBlocks' = [e \in Epochs |->
           windowBlocks[e] + IF anchors[e] # NoAnchor /\ ~ paused' THEN 1 ELSE 0]
  BY DEF OpenBlock
<1>5. MiningTypeOK'
  <2>1. windowBlocks' \in [Epochs -> Nat]
    BY <1>4 DEF MiningInv, MiningTypeOK
  <2> QED
    BY <1>4, <2>1 DEF MiningInv, MiningTypeOK
<1>6. CursorFollows'
  <2>1. ~ Closed(CurrentEpoch) /\ CurrentEpoch \in Nat
    BY <1>2, FirstEpoch
  <2>2. LastClosed' = CurrentEpoch - 1
    BY <1>3, <2>1 DEF LastClosed, Closed
  <2>3. lastProcessed = LastClosed
    BY <1>1 DEF MiningInv, CursorFollows
  <2> QED
    BY <1>2, <1>3, <1>4, <2>2, <2>3 DEF CursorFollows
<1>7. MaterializedSoFar' /\ PaidThroughSettlement'
  BY <1>3, <1>4 DEF MiningInv, MaterializedSoFar, PaidThroughSettlement, Open, Remaining
<1>8. ClockCounts'
  <2>1. settlementClock' < height'
    BY <1>3, <1>4 DEF MiningInv, ClockCounts
  <2>2. ASSUME NEW e \in Epochs
        PROVE  IF anchors'[e] = NoAnchor THEN windowBlocks'[e] = 0
               ELSE /\ anchors'[e] <= settlementClock'
                    /\ windowBlocks'[e] = (settlementClock' - anchors'[e])
                                            + IF phase' # "begin" /\ ~ paused' THEN 1 ELSE 0
    <3>1. IF anchors[e] = NoAnchor THEN windowBlocks[e] = 0
          ELSE /\ anchors[e] <= settlementClock
               /\ windowBlocks[e] = (settlementClock - anchors[e]) + 0
      BY <1>1 DEF MiningInv, ClockCounts
    <3>2. anchors[e] # NoAnchor => anchors[e] \in Int /\ settlementClock \in Int
      BY DEF MiningInv, MiningTypeOK
    <3>3. windowBlocks'[e] = windowBlocks[e] + IF anchors[e] # NoAnchor /\ ~ paused' THEN 1 ELSE 0
      BY <1>4
    <3> QED
      BY <1>3, <1>4, <3>1, <3>2, <3>3
  <2> QED
    BY <2>1, <2>2 DEF ClockCounts
<1> QED
  BY <1>4, <1>5, <1>6, <1>7, <1>8 DEF MiningInv

\* A transaction that releases from one entitlement and writes its settlement.
SettlementWrite(e, s, total, rec) ==
  /\ Open(e, s) /\ rec.exists
  /\ rec.reason = "NONE" <=> ~ rec.finalized
  /\ settlements' = [settlements EXCEPT ![e][s] = rec]
  /\ openSettlements' = IF rec.finalized THEN openSettlements \ {<<e, s>>} ELSE openSettlements
  /\ \A f \in Epochs, t \in SlotIds :
       /\ entitlements'[f][t].amount = entitlements[f][t].amount
       /\ entitlements'[f][t].released =
            entitlements[f][t].released + IF f = e /\ t = s THEN total ELSE 0
  /\ rec.finalized => total = Remaining(e, s)
  /\ ~ rec.finalized => /\ rec.nextChunk * PayoutFloor <= entitlements'[e][s].released
                        /\ rec.nextChunk > 0
  /\ UNCHANGED <<height, phase, epoch, paused, finalized, settlementClock, lastProcessed,
                 anchors, miningHalted, windowBlocks>>

\* One settlement pays part of its entitlement and advances.
LEMMA SettlementStep ==
  ASSUME MiningInv, RewardsInv', NEW e \in Epochs, NEW s \in SlotIds, NEW total \in Nat,
         NEW rec \in SettlementRecord, SettlementWrite(e, s, total, rec)
  PROVE  MiningInv'
<1>0. /\ Open(e, s) /\ rec.exists
      /\ rec.reason = "NONE" <=> ~ rec.finalized
      /\ settlements' = [settlements EXCEPT ![e][s] = rec]
      /\ openSettlements' = IF rec.finalized THEN openSettlements \ {<<e, s>>} ELSE openSettlements
      /\ \A f \in Epochs, t \in SlotIds :
           /\ entitlements'[f][t].amount = entitlements[f][t].amount
           /\ entitlements'[f][t].released =
                entitlements[f][t].released + IF f = e /\ t = s THEN total ELSE 0
      /\ rec.finalized => total = Remaining(e, s)
      /\ ~ rec.finalized => /\ rec.nextChunk * PayoutFloor <= entitlements'[e][s].released
                            /\ rec.nextChunk > 0
      /\ UNCHANGED <<height, phase, epoch, paused, finalized, settlementClock, lastProcessed,
                     anchors, miningHalted, windowBlocks>>
  BY DEF SettlementWrite
<1>1. /\ settlements \in [Epochs -> [SlotIds -> SettlementRecord]]
      /\ settlements' \in [Epochs -> [SlotIds -> SettlementRecord]]
      /\ settlements'[e][s] = rec
      /\ \A f \in Epochs, t \in SlotIds :
           ~ (f = e /\ t = s) => settlements'[f][t] = settlements[f][t]
  BY <1>0 DEF MiningInv, MiningTypeOK
<1>2. settlements[e][s].exists /\ ~ settlements[e][s].finalized
  BY <1>0 DEF Open
<1>3. MiningTypeOK'
  <2>1. \A f \in Epochs, t \in SlotIds :
          settlements'[f][t].reason = "NONE" <=> ~ settlements'[f][t].finalized
    BY <1>0, <1>1 DEF MiningInv, MiningTypeOK
  <2>2. openSettlements' \subseteq Epochs \X SlotIds
    BY <1>0 DEF MiningInv, MiningTypeOK
  <2> QED
    BY <1>0, <1>1, <2>1, <2>2 DEF MiningInv, MiningTypeOK
<1>4. CursorFollows'
  BY <1>0 DEF MiningInv, CursorFollows, LastClosed, Closed
<1>5. \A f \in Epochs, t \in SlotIds : settlements'[f][t].exists <=> settlements[f][t].exists
  BY <1>0, <1>1, <1>2
<1>6. MaterializedSoFar'
  <2>1. ASSUME NEW f \in Epochs, NEW t \in SlotIds
        PROVE  /\ settlements'[f][t].exists <=> f <= lastProcessed' /\ entitlements'[f][t].amount > 0
               /\ ~ settlements'[f][t].exists => settlements'[f][t] = NoSettlement
               /\ <<f, t>> \in openSettlements' <=> Open(f, t)'
    <3>0. <<f, t>> \in openSettlements <=> settlements[f][t].exists /\ ~ settlements[f][t].finalized
      BY DEF MiningInv, MaterializedSoFar, Open
    <3>1. /\ settlements'[f][t].exists <=> f <= lastProcessed' /\ entitlements'[f][t].amount > 0
          /\ ~ settlements'[f][t].exists => settlements'[f][t] = NoSettlement
      <4>1. /\ settlements[f][t].exists <=> f <= lastProcessed /\ entitlements[f][t].amount > 0
            /\ ~ settlements[f][t].exists => settlements[f][t] = NoSettlement
        BY DEF MiningInv, MaterializedSoFar
      <4>2. entitlements'[f][t].amount = entitlements[f][t].amount /\ lastProcessed' = lastProcessed
        BY <1>0
      <4>3. settlements'[f][t].exists <=> settlements[f][t].exists
        BY <1>5
      <4>4. ~ settlements[f][t].exists => settlements'[f][t] = settlements[f][t]
        BY <1>1, <1>2
      <4> QED
        BY <4>1, <4>2, <4>3, <4>4
    <3>2. CASE f = e /\ t = s
      <4>1. <<f, t>> \in openSettlements' <=> rec.exists /\ ~ rec.finalized
        BY <1>0, <1>2, <3>0, <3>2
      <4> QED
        BY <1>1, <3>1, <3>2, <4>1 DEF Open
    <3>3. CASE ~ (f = e /\ t = s)
      <4>1. <<f, t>> \in openSettlements' <=> <<f, t>> \in openSettlements
        BY <1>0, <3>3
      <4> QED
        BY <1>1, <3>0, <3>1, <3>3, <4>1 DEF Open
    <3> QED
      BY <3>2, <3>3
  <2>2. \A f \in Epochs : anchors'[f] # NoAnchor <=> \E t \in SlotIds : settlements'[f][t].exists
    BY <1>0, <1>5 DEF MiningInv, MaterializedSoFar
  <2> QED
    BY <2>1, <2>2 DEF MaterializedSoFar
<1>7. PaidThroughSettlement'
  <2> SUFFICES ASSUME NEW f \in Epochs, NEW t \in SlotIds
               PROVE  /\ ~ settlements'[f][t].exists => entitlements'[f][t].released = 0
                      /\ settlements'[f][t].finalized => Remaining(f, t)' = 0
                      /\ Open(f, t)' =>
                           /\ settlements'[f][t].nextChunk * PayoutFloor <= entitlements'[f][t].released
                           /\ entitlements'[f][t].released > 0 => settlements'[f][t].nextChunk > 0
    BY DEF PaidThroughSettlement
  <2>1. entitlements[f][t].amount \in Nat /\ entitlements[f][t].released \in Nat
    BY RewardsPromise DEF MiningInv
  <2>2. CASE f = e /\ t = s
    <3>1. rec.finalized => Remaining(f, t)' = 0
      BY <1>0, <2>1, <2>2 DEF Remaining
    <3> QED
      BY <1>0, <1>1, <2>2, <3>1 DEF Open
  <2>3. CASE ~ (f = e /\ t = s)
    <3>1. /\ entitlements'[f][t].amount = entitlements[f][t].amount
          /\ entitlements'[f][t].released = entitlements[f][t].released
      BY <1>0, <2>1, <2>3
    <3> QED
      BY <1>1, <2>3, <3>1 DEF MiningInv, PaidThroughSettlement, Open, Remaining
  <2> QED
    BY <2>2, <2>3
<1>8. ClockCounts'
  BY <1>0 DEF MiningInv, ClockCounts
<1> QED
  BY <1>0, <1>3, <1>4, <1>6, <1>7, <1>8 DEF MiningInv

\* A chunk keeps the invariant (SubmitSettlementChunk).
LEMMA SubmitChunkMining ==
  ASSUME MiningInv, RewardsInv', NEW by, NEW e \in Epochs, NEW s \in SlotIds, NEW index,
         NEW pay \in PayoutSets, SubmitSettlementChunk(by, e, s, index, pay)
  PROVE  MiningInv'
<1> DEFINE old == settlements[e][s]
           total == SumFunction(pay)
           rec == [old EXCEPT !.nextChunk = old.nextChunk + 1]
<1>1. /\ Open(e, s) /\ old.nextChunk < MaxChunksPerSettlement
      /\ DOMAIN pay \subseteq EconomicAccounts /\ \A a \in DOMAIN pay : pay[a] >= PayoutFloor
      /\ DOMAIN pay # {} /\ Release(e, s, pay, total)
      /\ settlements' = [settlements EXCEPT ![e][s].nextChunk = old.nextChunk + 1]
      /\ UNCHANGED <<settlementClock, lastProcessed, openSettlements, anchors, miningHalted,
                     windowBlocks>>
  BY DEF SubmitSettlementChunk, ChunkPosition, AdmittedPayouts, PayEntitlement, NextChunk
<1>2. old \in SettlementRecord /\ ~ old.finalized /\ old.exists /\ old.reason = "NONE"
      /\ settlements \in [Epochs -> [SlotIds -> SettlementRecord]]
  BY <1>1 DEF MiningInv, MiningTypeOK, Open
<1>3. PayoutFloor \in Nat \ {0} /\ MaxChunksPerSettlement \in Nat
  BY MiningAssumption
<1>4. /\ rec \in SettlementRecord /\ ~ rec.finalized /\ rec.exists /\ rec.reason = "NONE"
      /\ rec.nextChunk = old.nextChunk + 1 /\ old.nextChunk \in Nat
  <2> HIDE DEF old
  <2>1. old.nextChunk + 1 \in 0 .. MaxChunksPerSettlement /\ old.nextChunk \in Nat
    BY <1>1, <1>2, <1>3 DEF SettlementRecord
  <2> QED
    BY <1>2, <2>1 DEF SettlementRecord
<1>5. settlements' = [settlements EXCEPT ![e][s] = rec]
  BY <1>1, <1>2
<1>6. total \in Nat /\ PayoutFloor <= total
  <2>1. DOMAIN pay \subseteq Accounts /\ \A a \in DOMAIN pay : pay[a] \in Nat
    BY <1>1, RewardsAssumption, DirectoryAssumption
  <2>2. IsFiniteSet(DOMAIN pay)
    BY <2>1, FiniteTables, FS_Subset
  <2>3. total \in Nat /\ \A a \in DOMAIN pay : pay[a] <= total
    BY <2>1, <2>2, SumOfNaturals DEF SumFunction
  <2> HIDE DEF total
  <2>4. PICK a \in DOMAIN pay : TRUE
    BY <1>1
  <2> QED
    BY <1>1, <1>3, <2>1, <2>3, <2>4
<1> HIDE DEF total
<1>7. /\ \A f \in Epochs, t \in SlotIds :
           /\ entitlements'[f][t].amount = entitlements[f][t].amount
           /\ entitlements'[f][t].released =
                entitlements[f][t].released + IF f = e /\ t = s THEN total ELSE 0
  <2>1. entitlements \in Entitlements /\ entitlements' = Released(e, s, total)
    BY <1>1 DEF MiningInv, RewardsInv, RewardsTypeOK, Release
  <2> QED
    BY <1>6, <2>1, ReleaseTable
<1>8. rec.nextChunk * PayoutFloor <= entitlements'[e][s].released /\ rec.nextChunk > 0
  <2>1. entitlements[e][s].released \in Nat
    BY RewardsPromise DEF MiningInv
  <2>2. old.nextChunk * PayoutFloor <= entitlements[e][s].released
    BY <1>1 DEF MiningInv, PaidThroughSettlement
  <2>3. /\ rec.nextChunk * PayoutFloor = old.nextChunk * PayoutFloor + PayoutFloor
        /\ old.nextChunk * PayoutFloor \in Nat
    <3> HIDE DEF rec, old
    <3> QED
      BY <1>3, <1>4
  <2>4. entitlements'[e][s].released = entitlements[e][s].released + total
    BY <1>7
  <2>5. rec.nextChunk > 0
    <3> HIDE DEF rec, old
    <3> QED
      BY <1>4
  <2> HIDE DEF rec, old
  <2> QED
    BY <1>3, <1>6, <2>1, <2>2, <2>3, <2>4, <2>5
<1>9. UNCHANGED <<height, phase, epoch, paused, finalized>>
  BY <1>1 DEF Release, blockVars, epochVars, pauseVars, closeVars
<1> HIDE DEF rec
<1>10. SettlementWrite(e, s, total, rec)
  BY <1>1, <1>4, <1>5, <1>7, <1>8, <1>9 DEF SettlementWrite
<1> QED
  BY <1>4, <1>6, <1>10, SettlementStep

\* The record FinalizeSettlement writes.
Settled(by, e, s) == [settlements[e][s] EXCEPT !.finalized = TRUE, !.reason = Arm(e, s, by)]

\* What finalizing writes: the remainder paid and the record closed
\* (finalizeSettlement).
LEMMA FinalizeSettlementWrites ==
  ASSUME MiningInv, NEW by, NEW e \in Epochs, NEW s \in SlotIds, FinalizeSettlement(by, e, s)
  PROVE  /\ Settled(by, e, s) \in SettlementRecord /\ Remaining(e, s) \in Nat
         /\ SettlementWrite(e, s, Remaining(e, s), Settled(by, e, s))
<1> DEFINE old == settlements[e][s]
           rec == Settled(by, e, s)
           total == Remaining(e, s)
<1>1. /\ Open(e, s) /\ Arm(e, s, by) # "NONE" /\ ReleaseRemainder(e, s)
      /\ settlements' = [settlements EXCEPT ![e][s].finalized = TRUE,
                                            ![e][s].reason = Arm(e, s, by)]
      /\ openSettlements' = openSettlements \ {<<e, s>>}
      /\ UNCHANGED <<settlementClock, lastProcessed, anchors, miningHalted, windowBlocks>>
  BY DEF FinalizeSettlement, ClosedIndex
<1>2. /\ old \in SettlementRecord /\ old.exists
      /\ settlements \in [Epochs -> [SlotIds -> SettlementRecord]]
  BY <1>1 DEF MiningInv, MiningTypeOK, Open
<1>3. Arm(e, s, by) \in Reasons
  BY DEF Arm, Reasons
<1>4. rec \in SettlementRecord /\ rec.finalized /\ rec.exists /\ rec.reason # "NONE"
  <2> HIDE DEF old
  <2>1. rec = [old EXCEPT !.finalized = TRUE, !.reason = Arm(e, s, by)]
    BY DEF Settled, old
  <2> QED
    BY <1>1, <1>2, <1>3, <2>1 DEF SettlementRecord
<1>5. settlements' = [settlements EXCEPT ![e][s] = rec]
  BY <1>1, <1>2 DEF Settled
<1>6. /\ RewardsInv /\ entitlements \in Entitlements /\ total \in Nat
      /\ \A f \in Epochs, t \in SlotIds : entitlements[f][t].released \in Nat
  <2>1. RewardsInv /\ entitlements \in Entitlements
    BY DEF MiningInv, RewardsInv, RewardsTypeOK
  <2>2. \A f \in Epochs, t \in SlotIds :
          /\ entitlements[f][t].amount \in Nat /\ entitlements[f][t].released \in Nat
          /\ Remaining(f, t) >= 0
    BY <2>1, RewardsPromise
  <2>3. total \in Nat
    BY <2>2 DEF Remaining
  <2> QED
    BY <2>1, <2>2, <2>3
<1> HIDE DEF total
<1>7. /\ \A f \in Epochs, t \in SlotIds :
           /\ entitlements'[f][t].amount = entitlements[f][t].amount
           /\ entitlements'[f][t].released =
                entitlements[f][t].released + IF f = e /\ t = s THEN total ELSE 0
      /\ UNCHANGED <<height, phase, epoch, paused, finalized>>
  <2>1. CASE PayEntitlementRemainder(e, s)
    <3>1. /\ entitlements' = Released(e, s, total)
          /\ UNCHANGED <<height, phase, epoch, paused, finalized>>
      BY <2>1 DEF PayEntitlementRemainder, Release, blockVars, epochVars, pauseVars, closeVars, total
    <3> QED
      BY <1>6, <3>1, ReleaseTable
  <2>2. CASE Remaining(e, s) = 0 /\ UNCHANGED vars
    <3>1. UNCHANGED <<entitlements, height, phase, epoch, paused, finalized>> /\ total = 0
      BY <2>2 DEF vars, rewardsVars, blockVars, epochVars, pauseVars, closeVars, escrowVars, total
    <3> QED
      BY <1>6, <3>1
  <2> QED
    BY <1>1, <2>1, <2>2 DEF ReleaseRemainder
<1> HIDE DEF rec
<1>8. SettlementWrite(e, s, total, rec)
  BY <1>1, <1>4, <1>5, <1>7 DEF SettlementWrite, total
<1> QED
  BY <1>4, <1>6, <1>8 DEF total, rec

\* Finalizing keeps the invariant.
LEMMA FinalizeSettlementMining ==
  ASSUME MiningInv, RewardsInv', NEW by, NEW e \in Epochs, NEW s \in SlotIds,
         FinalizeSettlement(by, e, s)
  PROVE  MiningInv'
  BY FinalizeSettlementWrites, SettlementStep

\* The hook of x/mining finds the epoch that was just closed, and nothing of it.
LEMMA MaterializeOKHolds ==
  ASSUME MiningInv, phase = "commit"
  PROVE  /\ MaterializeOK /\ Target = epoch /\ lastProcessed = epoch - 1
         /\ \A s \in SlotIds : settlements[epoch][s] = NoSettlement
         /\ anchors[epoch] = NoAnchor
<1>1. lastProcessed = epoch - 1 /\ epoch \in Nat \ {0} /\ epoch \in Epochs
  BY RewardsPromise DEF MiningInv, CursorFollows
<1>2. Target = epoch /\ ~ (epoch <= lastProcessed)
  BY <1>1 DEF Target
<1>3. \A s \in SlotIds : ~ settlements[epoch][s].exists /\ settlements[epoch][s] = NoSettlement
  BY <1>1, <1>2 DEF MiningInv, MaterializedSoFar
<1>4. anchors[epoch] = NoAnchor
  BY <1>1, <1>3 DEF MiningInv, MaterializedSoFar
<1>5. ~ FinalizedEpochExists(epoch + 1)
  <2>1. \A e \in Epochs : e > epoch => ~ Closed(e)
    BY EpochPlace DEF MiningInv
  <2>2. epoch + 1 > epoch
    BY <1>1
  <2> QED
    BY <2>1, <2>2 DEF FinalizedEpochExists
<1> QED
  BY <1>1, <1>2, <1>3, <1>4, <1>5 DEF MaterializeOK, Entitled

\* The EndBlock of x/mining materializes the closed epoch and keeps the invariant.
LEMMA MiningEndBlockKeeps ==
  ASSUME MiningInv, RewardsInv', MiningEndBlock
  PROVE  MiningInv'
<1>1. phase = "commit"
  BY DEF MiningEndBlock, CommitBlock
<1>2. /\ MaterializeOK /\ Target = epoch /\ lastProcessed = epoch - 1
      /\ \A s \in SlotIds : settlements[epoch][s] = NoSettlement
      /\ anchors[epoch] = NoAnchor
  BY <1>1, MaterializeOKHolds
<1>3. /\ CommitBlock /\ settlementClock' = ClockAfter
      /\ IF Materializes THEN MaterializeFinalizedEpoch
         ELSE UNCHANGED <<lastProcessed, settlements, openSettlements, anchors>>
      /\ UNCHANGED <<miningHalted, windowBlocks>>
  BY <1>2 DEF MiningEndBlock
<1>4. /\ phase' = "begin" /\ height' = height + 1
      /\ UNCHANGED <<epoch, paused, finalized, entitlements>>
  BY <1>3 DEF CommitBlock, epochVars, pauseVars, closeVars, escrowVars
<1>5. /\ epoch \in Epochs /\ epoch \in Nat \ {0} /\ Epochs \subseteq Nat \ {0}
      /\ height \in 1 .. MaxHeight /\ height' \in 1 .. MaxHeight /\ MaxHeight \in Nat
      /\ \A e \in Epochs : Closed(e) <=> e <= LastClosed
      /\ \A e \in Epochs, s \in SlotIds :
           /\ entitlements[e][s].amount \in Nat /\ entitlements[e][s].released \in Nat
           /\ entitlements[e][s].amount > 0 => Closed(e)
           /\ ~ Closed(e) => entitlements[e][s] = NoEntitlement
  <2>1. height' \in 1 .. MaxHeight
    BY DEF RewardsInv, RewardsTypeOK
  <2> QED
    BY <2>1, RewardsPromise DEF MiningInv
<1>6. /\ settlementClock \in Nat /\ settlementClock' \in Nat
      /\ settlementClock' = settlementClock + IF ~ paused THEN 1 ELSE 0
      /\ settlementClock < height /\ settlementClock' < height'
      /\ settlementClock' \in 0 .. MaxHeight
  <2>1. settlementClock \in Nat /\ settlementClock < height
    BY DEF MiningInv, MiningTypeOK, ClockCounts
  <2>2. settlementClock' = settlementClock + IF ~ paused THEN 1 ELSE 0
    BY <1>3, <2>1 DEF ClockAfter, ReleaseEnabled
  <2> QED
    BY <1>4, <1>5, <2>1, <2>2
<1>7. /\ settlements \in [Epochs -> [SlotIds -> SettlementRecord]]
      /\ anchors \in [Epochs -> {NoAnchor} \cup 0 .. MaxHeight]
      /\ windowBlocks \in [Epochs -> Nat] /\ openSettlements \subseteq Epochs \X SlotIds
      /\ \A e \in Epochs, s \in SlotIds :
           settlements[e][s].reason = "NONE" <=> ~ settlements[e][s].finalized
  BY DEF MiningInv, MiningTypeOK
<1>8. \A e \in Epochs : IF anchors[e] = NoAnchor THEN windowBlocks[e] = 0
                        ELSE /\ anchors[e] <= settlementClock
                             /\ windowBlocks[e] = (settlementClock - anchors[e])
                                                    + IF ~ paused THEN 1 ELSE 0
  BY <1>1 DEF MiningInv, ClockCounts
<1>9. ASSUME NEW e \in Epochs, anchors'[e] = anchors[e]
      PROVE  IF anchors'[e] = NoAnchor THEN windowBlocks'[e] = 0
             ELSE /\ anchors'[e] <= settlementClock'
                  /\ windowBlocks'[e] = (settlementClock' - anchors'[e])
                                          + IF phase' # "begin" /\ ~ paused' THEN 1 ELSE 0
  <2>1. anchors[e] # NoAnchor => anchors[e] \in Int
    BY <1>7
  <2> QED
    BY <1>3, <1>4, <1>6, <1>8, <1>9, <2>1
<1>10. CASE ~ Materializes
  <2>1. UNCHANGED <<lastProcessed, settlements, openSettlements, anchors, miningHalted,
                    windowBlocks>>
    BY <1>3, <1>10
  <2>2. ~ Closed(epoch)
    BY <1>2, <1>5, <1>10 DEF Materializes, FinalizedEpochExists
  <2>3. MiningTypeOK'
    BY <1>6, <2>1 DEF MiningInv, MiningTypeOK
  <2>4. CursorFollows'
    BY <1>2, <1>4, <2>1, <2>2 DEF CursorFollows, LastClosed, Closed
  <2>5. MaterializedSoFar' /\ PaidThroughSettlement'
    BY <1>4, <2>1 DEF MiningInv, MaterializedSoFar, PaidThroughSettlement, Open, Remaining
  <2>6. ClockCounts'
    BY <1>6, <1>9, <2>1 DEF ClockCounts
  <2> QED
    BY <2>1, <2>3, <2>4, <2>5, <2>6 DEF MiningInv
<1>11. CASE Materializes
  <2> DEFINE E == Entitled(epoch)
  <2>1. /\ lastProcessed' = epoch
        /\ settlements' = [settlements EXCEPT ![epoch] =
             [s \in SlotIds |-> IF s \in E THEN NewSettlement ELSE @[s]]]
        /\ openSettlements' = openSettlements \cup ({epoch} \X E)
        /\ anchors' = IF E = {} THEN anchors ELSE [anchors EXCEPT ![epoch] = ClockAfter]
        /\ UNCHANGED <<miningHalted, windowBlocks>>
    BY <1>2, <1>3, <1>11 DEF MaterializeFinalizedEpoch
  <2>2. Closed(epoch) /\ LastClosed = epoch
    BY <1>2, <1>11 DEF Materializes, FinalizedEpochExists, LastClosed
  <2>3. /\ \A s \in SlotIds : s \in E <=> entitlements[epoch][s].amount > 0
        /\ E \subseteq SlotIds
    BY DEF Entitled
  <2> HIDE DEF E
  <2>4. /\ \A e \in Epochs \ {epoch} : settlements'[e] = settlements[e] /\ anchors'[e] = anchors[e]
        /\ \A s \in SlotIds :
             settlements'[epoch][s] = IF s \in E THEN NewSettlement ELSE NoSettlement
        /\ anchors'[epoch] = IF E = {} THEN NoAnchor ELSE settlementClock'
        /\ settlements'[epoch] = [s \in SlotIds |-> IF s \in E THEN NewSettlement ELSE settlements[epoch][s]]
    BY <1>2, <1>3, <1>5, <1>7, <2>1
  <2>5. /\ NewSettlement \in SettlementRecord
        /\ NewSettlement.exists /\ ~ NewSettlement.finalized /\ NewSettlement.reason = "NONE"
        /\ NewSettlement.nextChunk = 0 /\ ~ NoSettlement.exists /\ ~ NoSettlement.finalized
        /\ NoSettlement.reason = "NONE"
    <3>1. MaxChunksPerSettlement \in Nat /\ 0 \in 0 .. MaxChunksPerSettlement
      BY MiningAssumption
    <3>2. NoSettlement \in SettlementRecord
      BY <3>1 DEF SettlementRecord, NoSettlement, Reasons
    <3>3. NewSettlement \in SettlementRecord
      BY <3>2 DEF NewSettlement, SettlementRecord
    <3>4. /\ ~ NoSettlement.exists /\ ~ NoSettlement.finalized /\ NoSettlement.reason = "NONE"
          /\ NoSettlement.nextChunk = 0
      BY DEF NoSettlement
    <3>5. /\ NewSettlement.exists /\ NewSettlement.finalized = NoSettlement.finalized
          /\ NewSettlement.reason = NoSettlement.reason
          /\ NewSettlement.nextChunk = NoSettlement.nextChunk
      BY <3>2 DEF NewSettlement, SettlementRecord
    <3> QED
      BY <3>3, <3>4, <3>5
  <2>6. MiningTypeOK'
    <3>1. settlements'[epoch] \in [SlotIds -> SettlementRecord]
      BY <1>5, <1>7, <2>4, <2>5
    <3>2. settlements' \in [Epochs -> [SlotIds -> SettlementRecord]]
      BY <1>7, <2>1, <2>4, <3>1
    <3>3. \A e \in Epochs, s \in SlotIds :
            settlements'[e][s].reason = "NONE" <=> ~ settlements'[e][s].finalized
      BY <1>7, <2>4, <2>5
    <3>4. anchors' \in [Epochs -> {NoAnchor} \cup 0 .. MaxHeight]
      BY <1>3, <1>6, <1>7, <2>1
    <3>5. openSettlements' \subseteq Epochs \X SlotIds
      BY <1>5, <1>7, <2>1, <2>3
    <3>6. miningHalted' \in BOOLEAN /\ lastProcessed' \in {0} \cup Epochs /\ windowBlocks' \in [Epochs -> Nat]
      BY <1>5, <1>7, <2>1 DEF MiningInv, MiningTypeOK
    <3> QED
      BY <1>6, <3>2, <3>3, <3>4, <3>5, <3>6 DEF MiningTypeOK
  <2>7. CursorFollows'
    BY <1>4, <2>1, <2>2 DEF CursorFollows, LastClosed, Closed
  <2>8. MaterializedSoFar'
    <3>1. ASSUME NEW e \in Epochs, NEW s \in SlotIds
          PROVE  /\ settlements'[e][s].exists <=> e <= lastProcessed' /\ entitlements'[e][s].amount > 0
                 /\ ~ settlements'[e][s].exists => settlements'[e][s] = NoSettlement
                 /\ <<e, s>> \in openSettlements' <=> Open(e, s)'
      <4>1. /\ settlements[e][s].exists <=> e <= lastProcessed /\ entitlements[e][s].amount > 0
            /\ ~ settlements[e][s].exists => settlements[e][s] = NoSettlement
            /\ <<e, s>> \in openSettlements <=> settlements[e][s].exists /\ ~ settlements[e][s].finalized
        BY DEF MiningInv, MaterializedSoFar, Open
      <4>2. CASE e = epoch
        <5>1. <<e, s>> \notin openSettlements
          BY <1>2, <2>5, <4>1, <4>2
        <5>2. <<e, s>> \in openSettlements' <=> s \in E
          BY <2>1, <4>2, <5>1
        <5>3. epoch <= lastProcessed'
          BY <1>5, <2>1
        <5> QED
          BY <1>4, <2>3, <2>4, <2>5, <4>2, <5>2, <5>3 DEF Open
      <4>3. CASE e # epoch
        <5>1. <<e, s>> \in openSettlements' <=> <<e, s>> \in openSettlements
          BY <2>1, <4>3
        <5>2. e <= lastProcessed' <=> e <= lastProcessed
          BY <1>2, <1>5, <2>1, <4>3
        <5>3. settlements'[e][s] = settlements[e][s]
          BY <2>4, <4>3
        <5> QED
          BY <1>4, <4>1, <5>1, <5>2, <5>3 DEF Open
      <4> QED
        BY <4>2, <4>3
    <3>2. ASSUME NEW e \in Epochs
          PROVE  anchors'[e] # NoAnchor <=> \E s \in SlotIds : settlements'[e][s].exists
      <4>1. CASE e = epoch
        <5>1. settlementClock' # NoAnchor
          BY <1>6 DEF NoAnchor
        <5>2. E # {} <=> \E s \in SlotIds : s \in E
          BY <2>3
        <5> QED
          BY <2>4, <2>5, <4>1, <5>1, <5>2
      <4>2. CASE e # epoch
        BY <2>4, <4>2 DEF MiningInv, MaterializedSoFar
      <4> QED
        BY <4>1, <4>2
    <3> QED
      BY <3>1, <3>2 DEF MaterializedSoFar
  <2>9. PaidThroughSettlement'
    <3> SUFFICES ASSUME NEW e \in Epochs, NEW s \in SlotIds
                 PROVE  /\ ~ settlements'[e][s].exists => entitlements'[e][s].released = 0
                        /\ settlements'[e][s].finalized => Remaining(e, s)' = 0
                        /\ Open(e, s)' =>
                             /\ settlements'[e][s].nextChunk * PayoutFloor <= entitlements'[e][s].released
                             /\ entitlements'[e][s].released > 0 => settlements'[e][s].nextChunk > 0
      BY DEF PaidThroughSettlement
    <3>1. CASE e = epoch
      <4>1. entitlements'[e][s].released = 0
        BY <1>2, <1>4, <2>5, <3>1 DEF MiningInv, PaidThroughSettlement
      <4>2. 0 * PayoutFloor = 0
        BY MiningAssumption
      <4>3. settlements'[e][s] = NewSettlement \/ settlements'[e][s] = NoSettlement
        BY <2>4, <3>1
      <4> QED
        BY <2>5, <4>1, <4>2, <4>3 DEF Open
    <3>2. CASE e # epoch
      BY <1>4, <2>4, <3>2 DEF MiningInv, PaidThroughSettlement, Open, Remaining
    <3> QED
      BY <3>1, <3>2
  <2>10. ClockCounts'
    <3> SUFFICES ASSUME NEW e \in Epochs
                 PROVE  IF anchors'[e] = NoAnchor THEN windowBlocks'[e] = 0
                        ELSE /\ anchors'[e] <= settlementClock'
                             /\ windowBlocks'[e] = (settlementClock' - anchors'[e])
                                  + IF phase' # "begin" /\ ~ paused' THEN 1 ELSE 0
      BY <1>6 DEF ClockCounts
    <3>1. CASE e = epoch
      <4>1. windowBlocks'[e] = 0
        BY <1>2, <1>8, <2>1, <3>1
      <4> QED
        BY <1>4, <1>6, <2>4, <3>1, <4>1
    <3>2. CASE e # epoch
      BY <1>9, <2>4, <3>2
    <3> QED
      BY <3>1, <3>2
  <2> QED
    BY <2>1, <2>6, <2>7, <2>8, <2>9, <2>10 DEF MiningInv
<1> QED
  BY <1>10, <1>11

\* The other transactions of a block leave what x/mining depends on alone.
Apart ==
  UNCHANGED <<height, phase, epoch, paused, finalized, entitlements, miningVars>>

\* The steps of the composition, sorted by what they do to the settlements.
LEMMA OtherTransactions ==
  ASSUME MiningInv, MiningNext
  PROVE  \/ OpenBlock
         \/ Apart
         \/ FinalizeEpoch /\ UNCHANGED miningVars
         \/ EndBlockInsideEpoch /\ UNCHANGED miningVars
         \/ \E by \in Accounts, e \in Epochs, s \in SlotIds, pay \in PayoutSets :
              \E index \in 0 .. MaxChunksPerSettlement :
                SubmitSettlementChunk(by, e, s, index, pay)
         \/ \E by \in Accounts, e \in Epochs, s \in SlotIds : FinalizeSettlement(by, e, s)
         \/ MiningEndBlock
<1>1. ASSUME NEW by, NEW value, SchedulePause(by, value), UNCHANGED miningVars PROVE Apart
  BY <1>1 DEF SchedulePause, Apart, blockVars, epochVars, closeVars, escrowVars
<1>2. ASSUME NEW by, NEW p, UpdateRewardsParams(by, p), UNCHANGED miningVars PROVE Apart
  BY <1>2 DEF UpdateRewardsParams, Apart, blockVars, epochVars, pauseVars, escrowVars
<1>3. ASSUME NEW from, NEW outputs, Send(from, outputs), UNCHANGED miningVars PROVE Apart
  BY <1>3 DEF Send, Apart, blockVars, epochVars, pauseVars, closeVars
<1>4. ASSUME DirectoryTx, UNCHANGED miningVars PROVE Apart
  BY <1>4 DEF DirectoryTx, Apart, rewardsVars, blockVars, epochVars, pauseVars, closeVars,
              escrowVars
<1>5. CASE \E by \in Accounts : PauseRewards(by) /\ UNCHANGED miningVars
  BY <1>1, <1>5 DEF PauseRewards
<1>6. CASE \E by \in Accounts : ResumeRewards(by) /\ UNCHANGED miningVars
  BY <1>1, <1>6 DEF ResumeRewards
<1>7. CASE \E by \in Accounts, p \in ParamUpdates : UpdateRewardsParams(by, p) /\ UNCHANGED miningVars
  BY <1>2, <1>7
<1>8. CASE \E from \in Accounts, outputs \in UserTransfers : Send(from, outputs) /\ UNCHANGED miningVars
  BY <1>3, <1>8
<1> QED
  BY <1>4, <1>5, <1>6, <1>7, <1>8 DEF MiningNext

\* Every step of the composition keeps the invariant.
LEMMA NextMining == MiningInv /\ [MiningNext]_allVars => MiningInv'
<1> SUFFICES ASSUME MiningInv, [MiningNext]_allVars PROVE MiningInv'
  OBVIOUS
<1>1. RewardsInv'
  BY StepImplements, NextRewards DEF MiningInv
<1>2. CASE Apart
  BY <1>1, <1>2, MiningFrame DEF Apart
<1>3. CASE UNCHANGED allVars
  <2>1. Apart
    BY <1>3 DEF allVars, Apart, vars, rewardsVars, blockVars, epochVars, pauseVars, closeVars, escrowVars
  <2> QED
    BY <1>2, <2>1
<1>4. CASE OpenBlock
  BY <1>1, <1>4, OpenBlockMining
<1>5. CASE FinalizeEpoch /\ UNCHANGED miningVars
  BY <1>1, <1>5, FinalizeEpochMining
<1>6. CASE EndBlockInsideEpoch /\ UNCHANGED miningVars
  BY <1>1, <1>6, EndBlockInsideMining
<1>7. ASSUME NEW by \in Accounts, NEW e \in Epochs, NEW s \in SlotIds, NEW pay \in PayoutSets,
             NEW index \in 0 .. MaxChunksPerSettlement, SubmitSettlementChunk(by, e, s, index, pay)
      PROVE  MiningInv'
  BY <1>1, <1>7, SubmitChunkMining
<1>8. ASSUME NEW by \in Accounts, NEW e \in Epochs, NEW s \in SlotIds, FinalizeSettlement(by, e, s)
      PROVE  MiningInv'
  BY <1>1, <1>8, FinalizeSettlementMining
<1>9. CASE MiningEndBlock
  BY <1>1, <1>9, MiningEndBlockKeeps
<1> QED
  BY <1>2, <1>3, <1>4, <1>5, <1>6, <1>7, <1>8, <1>9, OtherTransactions

\* The strengthened invariant holds of every behaviour of the composition.
THEOREM MiningInvariant == MiningSpec => []MiningInv
<1>1. MiningInit => MiningInv
  BY InitMining
<1>2. MiningInv /\ [MiningNext]_allVars => MiningInv'
  BY NextMining
<1> QED
  BY <1>1, <1>2, PTL DEF MiningSpec

\* Every store of x/mining holds a value of its declared kind.
THEOREM MiningTypeCorrect == MiningSpec => []MiningTypeOK
<1>1. MiningInv => MiningTypeOK
  BY DEF MiningInv
<1> QED
  BY <1>1, MiningInvariant, PTL

\* The end-block hook of x/mining never halts the chain: one epoch at most waits
\* for it, and nothing of that epoch exists yet.
THEOREM MaterializationAlwaysKeepsUp == MiningSpec => []MaterializationKeepsUp
<1>1. MiningInv => MaterializationKeepsUp
  <2> SUFFICES ASSUME MiningInv, phase # "commit" PROVE lastProcessed + 1 >= epoch
    BY DEF MiningInv, MaterializationKeepsUp
  <2>1. lastProcessed = LastClosed /\ epoch \in Nat
    BY RewardsPromise DEF MiningInv, CursorFollows
  <2> QED
    BY <2>1 DEF LastClosed
<1> QED
  BY <1>1, MiningInvariant, PTL

\* Between blocks settlements, anchors and the open index are exactly those of the
\* entitlements, and a settlement has paid what its state says.
THEOREM SettlementsAlwaysExact == MiningSpec => []SettlementsExact
<1>1. MiningInv => OneSettlementPerEntitlement
  <2> SUFFICES ASSUME MiningInv, phase # "commit" PROVE OneSettlementPerEntitlement
    BY DEF OneSettlementPerEntitlement
  <2>1. lastProcessed = LastClosed
    BY DEF MiningInv, CursorFollows
  <2>2. \A e \in Epochs, s \in SlotIds : entitlements[e][s].amount > 0 => e <= lastProcessed
    BY <2>1, RewardsPromise DEF MiningInv
  <2> QED
    BY <2>2 DEF MiningInv, MaterializedSoFar, OneSettlementPerEntitlement
<1>2. MiningInv => SettledMeansPaid
  <2> SUFFICES ASSUME MiningInv, NEW e \in Epochs, NEW s \in SlotIds
               PROVE  /\ settlements[e][s].finalized => Remaining(e, s) = 0
                      /\ entitlements[e][s].released > 0 /\ Open(e, s) =>
                           /\ settlements[e][s].nextChunk > 0
                           /\ entitlements[e][s].released >= settlements[e][s].nextChunk * PayoutFloor
    BY DEF SettledMeansPaid
  <2> DEFINE least == settlements[e][s].nextChunk * PayoutFloor
  <2>1. /\ settlements[e][s].finalized => Remaining(e, s) = 0
        /\ Open(e, s) => /\ least <= entitlements[e][s].released
                         /\ entitlements[e][s].released > 0 => settlements[e][s].nextChunk > 0
    BY DEF MiningInv, PaidThroughSettlement
  <2> HIDE DEF least
  <2>2. Open(e, s) => entitlements[e][s].released >= least
    BY <2>1
  <2> QED
    BY <2>1, <2>2 DEF least
<1> QED
  BY <1>1, <1>2, MiningInvariant, PTL DEF SettlementsExact

-----------------------------------------------------------------------------
(* Action properties.                                                      *)

\* What a step may do to one settlement.
LEMMA SettlementSteps ==
  ASSUME MiningInv, MiningNext, NEW e \in Epochs, NEW s \in SlotIds
  PROVE  \/ /\ settlements'[e][s] = settlements[e][s]
            /\ phase = "deliver" => entitlements'[e][s].released = entitlements[e][s].released
         \/ /\ phase = "commit"
            /\ settlements[e][s] = NoSettlement /\ settlements'[e][s] = NewSettlement
         \/ \E by, index : \E pay \in PayoutSets : SubmitSettlementChunk(by, e, s, index, pay)
         \/ \E by \in Accounts : FinalizeSettlement(by, e, s)
<1> DEFINE Still == /\ settlements'[e][s] = settlements[e][s]
                    /\ phase = "deliver" => entitlements'[e][s].released = entitlements[e][s].released
<1>1. CASE OpenBlock
  BY <1>1 DEF OpenBlock, BeginBlock
<1>2. CASE Apart
  BY <1>2 DEF Apart, miningVars
<1>3. CASE FinalizeEpoch /\ UNCHANGED miningVars
  <2>1. RewardsInv /\ phase = "deliver" /\ FinalizeOK
    BY <1>3, FinalizeOKHolds DEF MiningInv, FinalizeEpoch, Delivering
  <2>2. /\ epoch \in Epochs /\ epoch \in Nat /\ LastClosed = epoch - 1
        /\ \A f \in Epochs : Closed(f) <=> f <= LastClosed
        /\ \A t \in SlotIds : ~ Closed(epoch) => entitlements[epoch][t] = NoEntitlement
    BY <2>1, RewardsPromise
  <2>3. entitlements[epoch][s].released = 0
    BY <2>2 DEF NoEntitlement
  <2>4. entitlements' = [entitlements EXCEPT ![epoch] = Created]
    BY <1>3, <2>1 DEF FinalizeEpoch, Committed
  <2>5. Created[s].released = 0
    BY DEF Created, NoEntitlement
  <2>6. DOMAIN entitlements = Epochs
    BY <2>1 DEF RewardsInv, RewardsTypeOK, Entitlements
  <2>7. entitlements'[e][s].released = entitlements[e][s].released
    BY <2>2, <2>3, <2>4, <2>5, <2>6
  <2> QED
    BY <1>3, <2>7 DEF miningVars
<1>4. CASE EndBlockInsideEpoch /\ UNCHANGED miningVars
  BY <1>4 DEF EndBlockInsideEpoch, escrowVars, miningVars
<1>5. ASSUME NEW by, NEW f \in Epochs, NEW t \in SlotIds, NEW pay \in PayoutSets, NEW index,
             SubmitSettlementChunk(by, f, t, index, pay), ~ (f = e /\ t = s)
      PROVE  Still
  <2>1. /\ settlements' = [settlements EXCEPT ![f][t].nextChunk = NextChunk(f, t)]
        /\ entitlements' = Released(f, t, SumFunction(pay))
    BY <1>5 DEF SubmitSettlementChunk, PayEntitlement, Release
  <2>2. settlements \in [Epochs -> [SlotIds -> SettlementRecord]] /\ entitlements \in Entitlements
    BY DEF MiningInv, MiningTypeOK, RewardsInv, RewardsTypeOK
  <2>3. settlements'[e][s] = settlements[e][s]
    BY <1>5, <2>1, <2>2
  <2>4. entitlements'[e][s] = entitlements[e][s]
    BY <1>5, <2>1, <2>2 DEF Released, Entitlements
  <2> QED
    BY <2>3, <2>4
<1>6. ASSUME NEW by \in Accounts, NEW f \in Epochs, NEW t \in SlotIds,
             FinalizeSettlement(by, f, t), ~ (f = e /\ t = s)
      PROVE  Still
  <2>1. /\ SettlementWrite(f, t, Remaining(f, t), Settled(by, f, t))
    BY <1>6, FinalizeSettlementWrites
  <2>2. settlements \in [Epochs -> [SlotIds -> SettlementRecord]] /\ entitlements[e][s].released \in Nat
    BY RewardsPromise DEF MiningInv, MiningTypeOK
  <2>3. settlements'[e][s] = settlements[e][s]
    BY <1>6, <2>1, <2>2 DEF SettlementWrite
  <2>4. entitlements'[e][s].released = entitlements[e][s].released + 0
    BY <1>6, <2>1 DEF SettlementWrite
  <2> QED
    BY <2>2, <2>3, <2>4
<1>7. CASE MiningEndBlock
  <2>1. phase = "commit"
    BY <1>7 DEF MiningEndBlock, CommitBlock
  <2>2. /\ MaterializeOK /\ Target = epoch
        /\ settlements[epoch][s] = NoSettlement
    BY <2>1, MaterializeOKHolds
  <2>3. \/ settlements' = settlements
        \/ settlements' = [settlements EXCEPT ![epoch] =
             [t \in SlotIds |-> IF t \in Entitled(epoch) THEN NewSettlement ELSE @[t]]]
    BY <1>7, <2>2 DEF MiningEndBlock, MaterializeFinalizedEpoch
  <2>4. settlements \in [Epochs -> [SlotIds -> SettlementRecord]]
    BY DEF MiningInv, MiningTypeOK
  <2>5. \/ settlements'[e][s] = settlements[e][s]
        \/ settlements[e][s] = NoSettlement /\ settlements'[e][s] = NewSettlement
    BY <2>2, <2>3, <2>4
  <2> QED
    BY <2>1, <2>5
<1> HIDE DEF Still
<1>8. CASE \E by \in Accounts, f \in Epochs, t \in SlotIds, pay \in PayoutSets :
             \E index \in 0 .. MaxChunksPerSettlement : SubmitSettlementChunk(by, f, t, index, pay)
  BY <1>5, <1>8 DEF Still
<1>9. CASE \E by \in Accounts, f \in Epochs, t \in SlotIds : FinalizeSettlement(by, f, t)
  BY <1>6, <1>9 DEF Still
<1> QED
  BY <1>1, <1>2, <1>3, <1>4, <1>7, <1>8, <1>9, OtherTransactions

\* A chunk writes its settlement once, with the next index.
LEMMA ChunkEffect ==
  ASSUME MiningInv, NEW by, NEW e \in Epochs, NEW s \in SlotIds, NEW index, NEW pay,
         SubmitSettlementChunk(by, e, s, index, pay)
  PROVE  /\ settlements'[e][s].nextChunk = settlements[e][s].nextChunk + 1
         /\ settlements'[e][s].finalized = settlements[e][s].finalized
         /\ settlements'[e][s].reason = settlements[e][s].reason
         /\ ~ settlements[e][s].finalized
<1>1. /\ settlements' = [settlements EXCEPT ![e][s].nextChunk = settlements[e][s].nextChunk + 1]
      /\ ~ settlements[e][s].finalized
  BY DEF SubmitSettlementChunk, NextChunk, Open
<1>2. settlements \in [Epochs -> [SlotIds -> SettlementRecord]]
  BY DEF MiningInv, MiningTypeOK
<1>3. settlements[e][s] \in SettlementRecord
  BY <1>2
<1>4. settlements'[e][s] = [settlements[e][s] EXCEPT !.nextChunk = settlements[e][s].nextChunk + 1]
  BY <1>1, <1>2
<1> QED
  BY <1>1, <1>3, <1>4 DEF SettlementRecord

\* A finalization writes its settlement once, with the arm it took.
LEMMA FinalizationEffect ==
  ASSUME MiningInv, NEW by, NEW e \in Epochs, NEW s \in SlotIds, FinalizeSettlement(by, e, s)
  PROVE  /\ settlements'[e][s].nextChunk = settlements[e][s].nextChunk
         /\ settlements'[e][s].finalized /\ ~ settlements[e][s].finalized
         /\ settlements'[e][s].reason = Arm(e, s, by)
<1>0. SettlementWrite(e, s, Remaining(e, s), Settled(by, e, s))
  BY FinalizeSettlementWrites
<1>1. /\ settlements' = [settlements EXCEPT ![e][s] = Settled(by, e, s)] /\ Open(e, s)
  BY <1>0 DEF SettlementWrite
<1>2. settlements \in [Epochs -> [SlotIds -> SettlementRecord]]
  BY DEF MiningInv, MiningTypeOK
<1>3. settlements[e][s] \in SettlementRecord /\ settlements'[e][s] = Settled(by, e, s)
  BY <1>1, <1>2
<1> QED
  BY <1>1, <1>3 DEF Settled, SettlementRecord, Open

\* A finalized settlement is never touched again, and value leaves an open one in
\* a transaction only with a new chunk index or its finalization.
THEOREM ChunksAreNeverReplayed == MiningSpec => ChunksNeverReplayed
<1> DEFINE Once(e, s) ==
      /\ settlements[e][s].finalized => settlements'[e][s] = settlements[e][s]
      /\ phase = "deliver" /\ entitlements'[e][s].released # entitlements[e][s].released =>
           \/ settlements'[e][s].nextChunk = settlements[e][s].nextChunk + 1
           \/ settlements'[e][s].finalized
<1>1. ASSUME MiningInv, MiningNext, NEW e \in Epochs, NEW s \in SlotIds
      PROVE  Once(e, s)
  <2>1. ~ NoSettlement.finalized
    BY DEF NoSettlement
  <2>2. ASSUME NEW by, NEW index, NEW pay, SubmitSettlementChunk(by, e, s, index, pay)
        PROVE  Once(e, s)
    BY <1>1, <2>2, ChunkEffect
  <2>3. ASSUME NEW by, FinalizeSettlement(by, e, s)
        PROVE  Once(e, s)
    BY <1>1, <2>3, FinalizationEffect
  <2> QED
    BY <1>1, <2>1, <2>2, <2>3, SettlementSteps
<1>2. MiningInv /\ [MiningNext]_allVars => [\A e \in Epochs, s \in SlotIds : Once(e, s)]_allVars
  BY <1>1
<1> QED
  BY <1>2, MiningInvariant, PTL DEF MiningSpec, ChunksNeverReplayed

\* Chunks are accepted in the first Window unpaused blocks of a settlement and in no
\* other; the finalization open to everybody comes after them and not before.
THEOREM WindowIsAlwaysExact == MiningSpec => WindowIsExact
<1> DEFINE Exact(e, s) ==
      /\ settlements'[e][s].nextChunk # settlements[e][s].nextChunk =>
           windowBlocks[e] \in 1 .. Window
      /\ settlements[e][s].exists /\ settlements'[e][s].reason # settlements[e][s].reason =>
           (settlements'[e][s].reason = "AFTER_DEADLINE" <=> windowBlocks[e] > Window)
<1>1. ASSUME MiningInv, MiningNext, NEW e \in Epochs, NEW s \in SlotIds
      PROVE  Exact(e, s)
  <2>1. Window \in Nat
    BY MiningAssumption, RewardsAssumption DEF Window
  <2>2. settlementClock \in Nat /\ (anchors[e] # NoAnchor => anchors[e] \in Nat)
    BY <1>1 DEF MiningInv, MiningTypeOK
  <2>3. ASSUME phase = "deliver", ~ paused, Anchored(e)
        PROVE  /\ anchors[e] \in Nat /\ anchors[e] <= settlementClock
               /\ windowBlocks[e] = (settlementClock - anchors[e]) + 1
    BY <1>1, <2>2, <2>3 DEF MiningInv, ClockCounts, Anchored
  <2>4. ~ NoSettlement.exists /\ NoSettlement.nextChunk = NewSettlement.nextChunk
    BY DEF NoSettlement, NewSettlement
  <2>5. ASSUME NEW by, NEW index, NEW pay, SubmitSettlementChunk(by, e, s, index, pay)
        PROVE  Exact(e, s)
    <3>1. settlements'[e][s].reason = settlements[e][s].reason
      BY <1>1, <2>5, ChunkEffect
    <3>2. phase = "deliver" /\ ~ paused /\ Anchored(e) /\ settlementClock < anchors[e] + Window
      BY <2>5 DEF SubmitSettlementChunk, PayEntitlement, Release, Delivering, ReleaseEnabled,
                  BeforeDeadline, Deadline
    <3>3. windowBlocks[e] \in 1 .. Window
      BY <2>1, <2>2, <2>3, <3>2
    <3> QED
      BY <3>1, <3>3
  <2>6. ASSUME NEW by, FinalizeSettlement(by, e, s)
        PROVE  Exact(e, s)
    <3>1. /\ settlements'[e][s].nextChunk = settlements[e][s].nextChunk
          /\ settlements'[e][s].reason = Arm(e, s, by)
      BY <1>1, <2>6, FinalizationEffect
    <3>2. phase = "deliver" /\ ~ paused /\ Anchored(e)
      BY <2>6 DEF FinalizeSettlement, Delivering, ReleaseEnabled
    <3>3. settlementClock >= anchors[e] + Window <=> windowBlocks[e] > Window
      BY <2>1, <2>2, <2>3, <3>2
    <3>4. Arm(e, s, by) = "AFTER_DEADLINE" <=> settlementClock >= anchors[e] + Window
      BY DEF Arm, Deadline
    <3> QED
      BY <3>1, <3>3, <3>4
  <2> QED
    BY <1>1, <2>4, <2>5, <2>6, SettlementSteps
<1>2. MiningInv /\ [MiningNext]_allVars => [\A e \in Epochs, s \in SlotIds : Exact(e, s)]_allVars
  BY <1>1
<1> QED
  BY <1>2, MiningInvariant, PTL DEF MiningSpec, WindowIsExact

\* A finalization sends what is left to the payout address recorded at the close of
\* the epoch, and to nobody else.
THEOREM RemainderGoesToSnapshot == MiningSpec => RemainderToSnapshot
<1> DEFINE Sent(e, s) ==
      settlements'[e][s].finalized # settlements[e][s].finalized =>
        balances' = [balances EXCEPT ![entitlements[e][s].payout] = @ + Remaining(e, s)]
<1>1. ASSUME MiningInv, MiningNext, NEW e \in Epochs, NEW s \in SlotIds
      PROVE  Sent(e, s)
  <2>1. balances \in [Accounts -> Nat]
    BY <1>1 DEF MiningInv, RewardsInv, RewardsTypeOK
  <2>2. NoSettlement.finalized = NewSettlement.finalized
    BY DEF NoSettlement, NewSettlement
  <2>3. ASSUME NEW by, NEW index, NEW pay, SubmitSettlementChunk(by, e, s, index, pay)
        PROVE  Sent(e, s)
    BY <1>1, <2>3, ChunkEffect
  <2>4. ASSUME NEW by, FinalizeSettlement(by, e, s)
        PROVE  balances' = [balances EXCEPT ![entitlements[e][s].payout] = @ + Remaining(e, s)]
    <3> DEFINE to == entitlements[e][s].payout
               left == Remaining(e, s)
    <3>1. CASE PayEntitlementRemainder(e, s)
      <4>1. balances' = [a \in Accounts |-> balances[a] + IF a \in {to} THEN left ELSE 0]
        BY <3>1 DEF PayEntitlementRemainder, Release, RemainderPayee
      <4>2. left \in Nat
        BY <1>1, FinalizeSettlementWrites, <2>4
      <4> HIDE DEF to, left
      <4>3. \A a \in Accounts : balances[a] \in Nat /\ balances[a] + 0 = balances[a]
        BY <2>1
      <4> QED
        BY <2>1, <4>1, <4>2, <4>3 DEF to, left
    <3>2. CASE left = 0 /\ UNCHANGED vars
      <4>1. balances' = balances
        BY <3>2 DEF vars, rewardsVars, escrowVars
      <4> HIDE DEF to, left
      <4>2. \A a \in Accounts : balances[a] + left = balances[a]
        BY <2>1, <3>2
      <4>3. balances = [balances EXCEPT ![to] = @ + left]
        BY <2>1, <4>2
      <4> QED
        BY <4>1, <4>3 DEF to, left
    <3> QED
      BY <2>4, <3>1, <3>2 DEF FinalizeSettlement, ReleaseRemainder
  <2> QED
    BY <1>1, <2>2, <2>3, <2>4, SettlementSteps
<1>2. MiningInv /\ [MiningNext]_allVars => [\A e \in Epochs, s \in SlotIds : Sent(e, s)]_allVars
  BY <1>1
<1> QED
  BY <1>2, MiningInvariant, PTL DEF MiningSpec, RemainderToSnapshot

=============================================================================
