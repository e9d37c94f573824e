------------------------------- MODULE Mining -------------------------------
(***************************************************************************)
(* x/mining composed with x/rewards: every entitlement gets a settlement,  *)
(* whose participants are paid in chunks while its window is open and      *)
(* whose remainder goes to the operator when it is finalized.              *)
(*                                                                         *)
(* The end-block hook of x/mining is the last of the block, so it is the   *)
(* step that commits it.  The distribution mode (trusted) and the          *)
(* settlement parameters are those of genesis: a fresh genesis has one     *)
(* version of each and no code schedules another.                          *)
(***************************************************************************)
EXTENDS Rewards

CONSTANTS
  SettlementWindowEpochs,   \* settlement_window_epochs
  MaxChunksPerSettlement,
  MaxRecipientsPerChunk,
  PayoutFloor               \* requirePayoutFloor: the larger of the two minima

ASSUME MiningAssumption ==
  {SettlementWindowEpochs, MaxChunksPerSettlement, MaxRecipientsPerChunk, PayoutFloor}
    \subseteq Nat \ {0}

NoAnchor == -1
Reasons == {"NONE", "AUTHORIZED_EARLY", "AFTER_DEADLINE"}

VARIABLES
  settlementClock,  \* SettlementClock
  lastProcessed,    \* LastProcessedRewardEpoch
  settlements,      \* Settlements, by epoch and slot
  openSettlements,  \* OpenSettlementsBySlot, as pairs of epoch and slot
  anchors,          \* SettlementEpochAnchors; NoAnchor when absent
  miningHalted,     \* the end-block hook of x/mining returned an error
  windowBlocks      \* history: unpaused blocks since the settlements of an epoch exist

miningVars == <<settlementClock, lastProcessed, settlements, openSettlements, anchors,
                miningHalted, windowBlocks>>
allVars == <<vars, miningVars>>

NoSettlement == [exists |-> FALSE, nextChunk |-> 0, finalized |-> FALSE, reason |-> "NONE"]
NewSettlement == [NoSettlement EXCEPT !.exists = TRUE]
SettlementRecord == [exists : BOOLEAN, nextChunk : 0 .. MaxChunksPerSettlement,
                     finalized : BOOLEAN, reason : Reasons]

\* Every store holds a value of the kind its record declares, and an open
\* settlement records no reason (Settlement.Validate).
MiningTypeOK ==
  /\ settlementClock \in 0 .. MaxHeight
  /\ lastProcessed \in {0} \cup Epochs
  /\ settlements \in [Epochs -> [SlotIds -> SettlementRecord]]
  /\ \A e \in Epochs, s \in SlotIds :
       settlements[e][s].reason = "NONE" <=> ~ settlements[e][s].finalized
  /\ openSettlements \subseteq Epochs \X SlotIds
  /\ anchors \in [Epochs -> {NoAnchor} \cup 0 .. MaxHeight]
  /\ miningHalted \in BOOLEAN
  /\ windowBlocks \in [Epochs -> Nat]

MiningInit ==
  /\ RewardsInit
  /\ settlementClock = 0
  /\ lastProcessed = 0
  /\ settlements = [e \in Epochs |-> [s \in SlotIds |-> NoSettlement]]
  /\ openSettlements = {}
  /\ anchors = [e \in Epochs |-> NoAnchor]
  /\ miningHalted = FALSE
  /\ windowBlocks = [e \in Epochs |-> 0]

\* SettlementWindowBlocks
Window == SettlementWindowEpochs * EpochLength

Deadline_OneBlockShort(e) == anchors[e] + Window - 1
\* DeadlineClock
Deadline(e) == anchors[e] + Window

Open(e, s) == settlements[e][s].exists /\ ~ settlements[e][s].finalized

\* requireEpochAnchor and requireAnchorHasElapsed
Anchored(e) == anchors[e] # NoAnchor /\ anchors[e] <= settlementClock

\* requireSettlementSigner: the settlement address the slot has now.
SettlementSigner(s, by) == by = settlement[s] /\ by \in EconomicAccounts

-----------------------------------------------------------------------------
(* SubmitSettlementChunk (chunk.go).                                       *)

BeforeDeadline(e) == settlementClock < Deadline(e)

\* admitPayoutSet: recipients come sorted and once each, so a chunk is a function.
AdmittedPayouts(pay) ==
  /\ Cardinality(DOMAIN pay) <= MaxRecipientsPerChunk
  /\ DOMAIN pay \subseteq EconomicAccounts
  /\ \A a \in DOMAIN pay : pay[a] >= PayoutFloor
  /\ SumFunction(pay) > 0

\* requireChunkPosition
ChunkPosition(e, s, index) ==
  index = settlements[e][s].nextChunk /\ index < MaxChunksPerSettlement

NextChunk_NotAdvanced(e, s) == settlements[e][s].nextChunk
NextChunk(e, s) == settlements[e][s].nextChunk + 1

SubmitSettlementChunk(by, e, s, index, pay) ==
  /\ Open(e, s)
  /\ SettlementSigner(s, by)
  /\ Anchored(e)
  /\ BeforeDeadline(e)
  /\ ChunkPosition(e, s, index)
  /\ AdmittedPayouts(pay)
  /\ PayEntitlement(e, s, pay)          \* ReleaseEnabled and the ceiling
  /\ settlements' = [settlements EXCEPT ![e][s].nextChunk = NextChunk(e, s)]
  /\ UNCHANGED <<settlementClock, lastProcessed, openSettlements, anchors, miningHalted,
                 windowBlocks>>

-----------------------------------------------------------------------------
(* FinalizeSettlement (finalize.go).                                       *)

\* resolveFinalizationArm: anyone from the deadline on, before it the settlement
\* address only.
Arm(e, s, by) ==
  IF settlementClock >= Deadline(e) THEN "AFTER_DEADLINE"
  ELSE IF SettlementSigner(s, by) THEN "AUTHORIZED_EARLY"
  ELSE "NONE"

ReleaseRemainder_OnlyPositive(e, s) == PayEntitlementRemainder(e, s)
\* releaseOperatorRemainder: nothing to send when the chunks took it all.
ReleaseRemainder(e, s) ==
  \/ PayEntitlementRemainder(e, s)
  \/ Remaining(e, s) = 0 /\ UNCHANGED vars

\* writeFinalizedSettlement leaves the open index in step.
ClosedIndex(e, s) == openSettlements \ {<<e, s>>}

FinalizeSettlement(by, e, s) ==
  /\ Delivering
  /\ ReleaseEnabled
  /\ Open(e, s)
  /\ Anchored(e)
  /\ Arm(e, s, by) # "NONE"
  /\ ReleaseRemainder(e, s)
  /\ settlements' = [settlements EXCEPT ![e][s].finalized = TRUE,
                                        ![e][s].reason = Arm(e, s, by)]
  /\ openSettlements' = ClosedIndex(e, s)
  /\ UNCHANGED <<settlementClock, lastProcessed, anchors, miningHalted, windowBlocks>>

-----------------------------------------------------------------------------
(* EndBlock (endblock.go, materialize.go).                                 *)

FinalizedEpochExists(e) == e \in Epochs /\ Closed(e)

\* advanceSettlementClock: the clock stands still in a paused block.
ClockAfter == IF ReleaseEnabled THEN settlementClock + 1 ELSE settlementClock

Target == lastProcessed + 1
Materializes_WhenEntitled ==
  FinalizedEpochExists(Target) /\ \E s \in SlotIds : entitlements[Target][s].amount > 0
\* An epoch without entitlements is processed all the same.
Materializes == FinalizedEpochExists(Target)
Entitled_ActiveOnly(e) == {s \in SlotIds : status[s] = "ACTIVE" /\ entitlements[e][s].amount > 0}
\* IterateEntitlementsForEpoch
Entitled(e) == {s \in SlotIds : entitlements[e][s].amount > 0}

\* The cursor keeps up with the finalized epochs, and nothing is created twice.
MaterializeOK ==
  /\ ~ FinalizedEpochExists(Target + 1)
  /\ Materializes => /\ \A s \in Entitled(Target) : ~ settlements[Target][s].exists
                     /\ Entitled(Target) # {} => anchors[Target] = NoAnchor

MaterializeFinalizedEpoch ==
  /\ lastProcessed' = Target
  /\ settlements' = [settlements EXCEPT ![Target] =
       [s \in SlotIds |-> IF s \in Entitled(Target) THEN NewSettlement ELSE @[s]]]
  /\ openSettlements' = openSettlements \cup ({Target} \X Entitled(Target))
  /\ anchors' = IF Entitled(Target) = {} THEN anchors
                ELSE [anchors EXCEPT ![Target] = ClockAfter]

MiningEndBlock ==
  /\ ~ miningHalted
  /\ IF MaterializeOK
     THEN /\ CommitBlock
          /\ settlementClock' = ClockAfter
          /\ IF Materializes THEN MaterializeFinalizedEpoch
             ELSE UNCHANGED <<lastProcessed, settlements, openSettlements, anchors>>
          /\ UNCHANGED <<miningHalted, windowBlocks>>
     ELSE /\ ~ halted /\ phase = "commit"
          /\ miningHalted' = TRUE
          /\ UNCHANGED <<vars, settlementClock, lastProcessed, settlements,
                         openSettlements, anchors, windowBlocks>>

\* The other steps of the block do not touch x/mining; the history variable
\* counts the blocks in which transactions find the release enabled.
OpenBlock ==
  /\ BeginBlock
  /\ windowBlocks' = [e \in Epochs |->
       windowBlocks[e] + IF anchors[e] # NoAnchor /\ ~ paused' THEN 1 ELSE 0]
  /\ UNCHANGED <<settlementClock, lastProcessed, settlements, openSettlements, anchors,
                 miningHalted>>

MiningNext ==
  \/ OpenBlock
  \/ \E by \in Accounts : PauseRewards(by) /\ UNCHANGED miningVars
  \/ \E by \in Accounts : ResumeRewards(by) /\ UNCHANGED miningVars
  \/ \E by \in Accounts, p \in ParamUpdates : UpdateRewardsParams(by, p) /\ UNCHANGED miningVars
  \/ \E from \in Accounts, outputs \in UserTransfers : Send(from, outputs) /\ UNCHANGED miningVars
  \/ DirectoryTx /\ UNCHANGED miningVars
  \/ FinalizeEpoch /\ UNCHANGED miningVars
  \/ EndBlockInsideEpoch /\ UNCHANGED miningVars
  \/ \E by \in Accounts, e \in Epochs, s \in SlotIds, pay \in PayoutSets :
       \E index \in 0 .. MaxChunksPerSettlement : SubmitSettlementChunk(by, e, s, index, pay)
  \/ \E by \in Accounts, e \in Epochs, s \in SlotIds : FinalizeSettlement(by, e, s)
  \/ MiningEndBlock

MiningSpec == MiningInit /\ [][MiningNext]_allVars

-----------------------------------------------------------------------------
(* Properties.                                                             *)

\* The end-block hook never finds the cursor behind the finalized epochs, nor a
\* settlement or an anchor already there (materialize.go).
MaterializationKeepsUp == ~ miningHalted /\ (phase # "commit" => lastProcessed + 1 >= epoch)

\* Between blocks, exactly the entitlements have settlements, exactly the epochs
\* with entitlements have an anchor, and the open index lists exactly the open
\* settlements: none is missing, double or left over, slots removed since included.
OneSettlementPerEntitlement ==
  phase # "commit" =>
    \A e \in Epochs :
      /\ \A s \in SlotIds :
           /\ settlements[e][s].exists <=> entitlements[e][s].amount > 0
           /\ <<e, s>> \in openSettlements <=> Open(e, s)
      /\ anchors[e] # NoAnchor <=> \E s \in SlotIds : settlements[e][s].exists

\* A finalized settlement has released its entitlement to the last unit; value
\* leaves an open one through accepted chunks only.
SettledMeansPaid ==
  \A e \in Epochs, s \in SlotIds :
    /\ settlements[e][s].finalized => Remaining(e, s) = 0
    /\ entitlements[e][s].released > 0 /\ Open(e, s) =>
         /\ settlements[e][s].nextChunk > 0
         /\ entitlements[e][s].released >= settlements[e][s].nextChunk * PayoutFloor

\* Settlements and entitlements are in step, from materialization to the last
\* unit, whatever happens to the slot in between.
SettlementsExact == OneSettlementPerEntitlement /\ SettledMeansPaid

\* Participants get the whole window, not a block more or less, however pauses
\* fall: a chunk is accepted in the first Window unpaused blocks only, and
\* another signer than the settlement address finalizes after them only.
WindowIsExact ==
  [][\A e \in Epochs, s \in SlotIds :
       /\ settlements'[e][s].nextChunk # settlements[e][s].nextChunk =>
            windowBlocks[e] \in 1 .. Window
       /\ settlements[e][s].exists /\ settlements'[e][s].reason # settlements[e][s].reason =>
            (settlements'[e][s].reason = "AFTER_DEADLINE" <=> windowBlocks[e] > Window)]_allVars

\* Finalization sends what is left to the payout address the slot had when the
\* epoch closed, whatever the slot has become, and touches no other account.
RemainderToSnapshot ==
  [][\A e \in Epochs, s \in SlotIds :
       settlements'[e][s].finalized # settlements[e][s].finalized =>
         balances' = [balances EXCEPT ![entitlements[e][s].payout] = @ + Remaining(e, s)]]_allVars

\* A finalized settlement is never touched again, and a chunk index is used once.
ChunksNeverReplayed ==
  [][\A e \in Epochs, s \in SlotIds :
       /\ settlements[e][s].finalized => settlements'[e][s] = settlements[e][s]
       /\ phase = "deliver" /\ entitlements'[e][s].released # entitlements[e][s].released =>
            \/ settlements'[e][s].nextChunk = settlements[e][s].nextChunk + 1
            \/ settlements'[e][s].finalized]_allVars

\* No funds stay locked for want of a permission or a condition that can no longer be
\* met: past its deadline, in an unpaused block, any account can finalize an open
\* settlement, whatever became of the slot, its addresses and the chunks, however
\* little is left and whether or not its payee exists.  That somebody does is not
\* promised (finalize.go: no automatic finalization).
AnyoneCanFinalize ==
  \A e \in Epochs, s \in SlotIds :
    Delivering /\ ReleaseEnabled /\ Open(e, s) /\ settlementClock >= Deadline(e) =>
      \A by \in Accounts : ENABLED FinalizeSettlement(by, e, s)

=============================================================================
