--------------------------- MODULE CoreSlotProofs ---------------------------
(***************************************************************************)
(* Theorems about CoreSlot, for every value of its constants.              *)
(***************************************************************************)
EXTENDS CoreSlot, FiniteSetTheorems, TLAPS

-----------------------------------------------------------------------------
(* Type correctness.                                                       *)

\* Wrapped int64 arithmetic stays in the integers.
LEMMA Int64Type == \A x \in Int : Int64(x) \in Int
  BY BoundsAssumption DEF Int64

\* ... so the heights RotateConsensusKey and the lockout compute are integers.
LEMMA HeightPlusType == TypeOK => \A n \in Nat : HeightPlus(n) \in Int
  BY Int64Type DEF HeightPlus, TypeOK

\* The stores InitGenesis writes are well typed.
LEMMA InitType == Init => TypeOK
<1> SUFFICES ASSUME Init PROVE TypeOK
  OBVIOUS
<1>1. height \in 1 .. MaxHeight
  BY BoundsAssumption DEF Init
<1>1a. halted \in BOOLEAN
  BY DEF Init
<1>2. params \in ParamDocument
  BY BoundsAssumption DEF Init
<1>3. holder \in [Roles -> Accounts]
  BY NamesAssumption DEF Init
<1>4. pendingAuthority \in [Roles -> Accounts \cup {NoAccount}]
  BY NamesAssumption DEF Init
<1>5. slots \in [SlotIds -> SlotRecord] /\ policies \in [SlotIds -> [Versions -> PolicyRow]]
  <2>1. PICK status \in [GenesisIds -> {"PENDING", "ACTIVE"}],
             op \in [GenesisIds -> Accounts], key \in [GenesisIds -> Keys],
             a \in [GenesisIds -> EconomicAccounts], pol \in [GenesisIds -> PolicyValues] :
          /\ Injective(op) /\ Injective(key)
          /\ slots = [s \in SlotIds |->
               IF s \in GenesisIds
               THEN GenesisSlot(status[s], op[s], key[s], a[s], params) ELSE AbsentSlot]
          /\ policies = [s \in SlotIds |-> [v \in Versions |->
               IF s \in GenesisIds /\ v = 1 THEN OpenRow(pol[s], 1) ELSE NoPolicyRow]]
    BY Zenon DEF Init
  <2>2. AbsentSlot \in SlotRecord
    BY BoundsAssumption DEF AbsentSlot, SlotRecord, Statuses
  <2>3. GenesisMetadata \in MetadataValues
    BY NamesAssumption DEF GenesisMetadata
  <2>4. ASSUME NEW s \in GenesisIds
        PROVE  GenesisSlot(status[s], op[s], key[s], a[s], params) \in SlotRecord
    <3>1. /\ status[s] \in {"PENDING", "ACTIVE"} /\ op[s] \in Accounts
          /\ key[s] \in Keys /\ a[s] \in Accounts
      BY <2>1, NamesAssumption
    <3>2. params.slotVotingPower \in Nat
      BY <1>2 DEF ParamDocument
    <3> QED
      BY <2>3, <3>1, <3>2, BoundsAssumption DEF GenesisSlot, SlotRecord, Statuses
  <2>5. slots \in [SlotIds -> SlotRecord]
    BY <2>1, <2>2, <2>4
  <2>6. \A s \in GenesisIds : OpenRow(pol[s], 1) \in PolicyRow
    BY DEF OpenRow, PolicyRow
  <2>7. NoPolicyRow \in PolicyRow
    BY DEF NoPolicyRow, PolicyRow
  <2> QED
    BY <2>1, <2>5, <2>6, <2>7
<1>6. nextSlotID \in SlotIds /\ activeSlots \subseteq SlotIds
  BY Zenon DEF Init
<1>7. GenesisIds \subseteq 0 .. MaxSlotID
  BY NamesAssumption, BoundsAssumption
<1>8. byOperator \in [Accounts -> 0 .. MaxSlotID]
  <2>1. byOperator = [o \in Accounts |->
          IF \E s \in GenesisIds : slots[s].operator = o
          THEN CHOOSE s \in GenesisIds : slots[s].operator = o ELSE 0]
    BY Zenon DEF Init
  <2>2. ASSUME NEW o \in Accounts PROVE byOperator[o] \in GenesisIds \cup {0}
    BY <2>1
  <2>3. GenesisIds \cup {0} \subseteq 0 .. MaxSlotID
    BY <1>7, BoundsAssumption
  <2> QED
    BY <2>1, <2>2, <2>3
<1>8a. byConsensus \in [Keys -> 0 .. MaxSlotID]
  <2>1. byConsensus = [k \in Keys |->
          IF \E s \in GenesisIds : slots[s].key = k
          THEN CHOOSE s \in GenesisIds : slots[s].key = k ELSE 0]
    BY Zenon DEF Init
  <2>2. ASSUME NEW k \in Keys PROVE byConsensus[k] \in GenesisIds \cup {0}
    BY <2>1
  <2>3. GenesisIds \cup {0} \subseteq 0 .. MaxSlotID
    BY <1>7, BoundsAssumption
  <2> QED
    BY <2>1, <2>2, <2>3
<1>9. reserved \in [Keys -> Reservation] /\ lockedUntil \in [Keys -> Nat]
  BY BoundsAssumption DEF Init, Reservation, NoReservation
<1>10. rotations \in [SlotIds -> Rotation]
  BY DEF Init, Rotation, NoRotation
<1>11. lastApplied \in [Keys -> Validator]
  <2>1. lastApplied = Desired(slots, activeSlots)
    BY DEF Init
  <2>2. ASSUME NEW s \in activeSlots
        PROVE  [slot |-> s, power |-> slots[s].power] \in Validator
    BY <1>5, <1>6 DEF SlotRecord, Validator, SlotIds
  <2>3. NoValidator \in Validator
    BY BoundsAssumption DEF NoValidator, Validator
  <2> QED
    BY <2>1, <2>2, <2>3 DEF Desired
<1>12. validators \in [Keys -> Nat]
  BY <1>11 DEF Init, Validator
<1>13. policyStarts \in [SlotIds -> [Heights -> 0 .. MaxVersion]]
  BY BoundsAssumption DEF Init
<1> QED
  BY <1>1, <1>1a, <1>2, <1>3, <1>4, <1>5, <1>6, <1>8, <1>8a, <1>9, <1>10, <1>11, <1>12, <1>13 DEF TypeOK

\* The updates the handlers make to one slot record keep it a slot record.
LEMMA SlotRecordUpdates ==
  ASSUME NEW f \in [SlotIds -> SlotRecord], NEW s \in SlotIds
  PROVE  /\ \A st \in Statuses :
              [f EXCEPT ![s].status = st, ![s].power = 0] \in [SlotIds -> SlotRecord]
         /\ \A k \in Keys : [f EXCEPT ![s].key = k] \in [SlotIds -> SlotRecord]
         /\ \A a \in Accounts : /\ [f EXCEPT ![s].payout = a] \in [SlotIds -> SlotRecord]
                                /\ [f EXCEPT ![s].settlement = a] \in [SlotIds -> SlotRecord]
         /\ \A m \in MetadataValues : [f EXCEPT ![s].metadata = m] \in [SlotIds -> SlotRecord]
         /\ \A v \in 0 .. MaxVersion, h \in Nat :
              [f EXCEPT ![s].policyVersion = v, ![s].lastPolicyUpdate = h]
                \in [SlotIds -> SlotRecord]
<1>1. ASSUME NEW st \in Statuses
      PROVE  [f EXCEPT ![s].status = st, ![s].power = 0] \in [SlotIds -> SlotRecord]
  <2> DEFINE row == [f[s] EXCEPT !.status = st, !.power = 0]
  <2>1. [f EXCEPT ![s].status = st, ![s].power = 0] = [f EXCEPT ![s] = row]
    OBVIOUS
  <2>2. f[s] \in SlotRecord
    OBVIOUS
  <2>3. row \in SlotRecord
    BY <2>2 DEF SlotRecord
  <2> QED
    BY <2>1, <2>3
<1>2. ASSUME NEW k \in Keys PROVE [f EXCEPT ![s].key = k] \in [SlotIds -> SlotRecord]
  BY DEF SlotRecord
<1>3. ASSUME NEW a \in Accounts
      PROVE  /\ [f EXCEPT ![s].payout = a] \in [SlotIds -> SlotRecord]
             /\ [f EXCEPT ![s].settlement = a] \in [SlotIds -> SlotRecord]
  BY DEF SlotRecord
<1>4. ASSUME NEW m \in MetadataValues
      PROVE  [f EXCEPT ![s].metadata = m] \in [SlotIds -> SlotRecord]
  BY DEF SlotRecord
<1>5. ASSUME NEW v \in 0 .. MaxVersion, NEW h \in Nat
      PROVE  [f EXCEPT ![s].policyVersion = v, ![s].lastPolicyUpdate = h]
               \in [SlotIds -> SlotRecord]
  <2>1. [f EXCEPT ![s].policyVersion = v] \in [SlotIds -> SlotRecord]
    BY DEF SlotRecord
  <2>2. ASSUME NEW g \in [SlotIds -> SlotRecord]
        PROVE  [g EXCEPT ![s].lastPolicyUpdate = h] \in [SlotIds -> SlotRecord]
    BY DEF SlotRecord
  <2>3. [[f EXCEPT ![s].policyVersion = v] EXCEPT ![s].lastPolicyUpdate = h]
          \in [SlotIds -> SlotRecord]
    BY <2>1, <2>2
  <2> QED
    BY <2>3
<1> QED
  BY <1>1, <1>2, <1>3, <1>4, <1>5

\* Every step keeps the types: one step of the proof per operation.
LEMMA NextType == TypeOK /\ [Next]_vars => TypeOK'
<1> SUFFICES ASSUME TypeOK, [Next]_vars PROVE TypeOK'
  OBVIOUS
<1>1. ASSUME NEW by \in Accounts, NEW op \in Accounts, NEW pay \in Accounts,
             NEW settle \in Accounts, NEW k \in Keys, NEW m \in MetadataValues,
             NEW pol \in PolicyValues,
             RegisterCoreSlot(by, op, k, pay, settle, m, pol)
      PROVE  TypeOK'
  <2> USE <1>1 DEF RegisterCoreSlot
  <2>1. nextSlotID \in SlotIds /\ nextSlotID' \in SlotIds /\ nextSlotID \in 0 .. MaxSlotID
    BY BoundsAssumption DEF TypeOK, FreshID, SlotIds
  <2>2. slots' \in [SlotIds -> SlotRecord]
    BY <2>1, BoundsAssumption DEF TypeOK, SlotRecord, Statuses
  <2>3. height \in Nat /\ height \in Heights /\ 1 \in Versions
    BY BoundsAssumption DEF TypeOK, Heights, Versions
  <2>4. OpenRow(pol, height) \in PolicyRow
    BY <2>3 DEF OpenRow, PolicyRow
  <2>5. policies' \in [SlotIds -> [Versions -> PolicyRow]]
    BY <2>1, <2>3, <2>4 DEF TypeOK
  <2>6. policyStarts' \in [SlotIds -> [Heights -> 0 .. MaxVersion]]
    BY <2>1, <2>3, BoundsAssumption DEF TypeOK, IndexStart
  <2>7. reserved' \in [Keys -> Reservation]
    BY BoundsAssumption DEF TypeOK, Reservation, NoReservation
  <2>8. byOperator' \in [Accounts -> 0 .. MaxSlotID] /\ byConsensus' \in [Keys -> 0 .. MaxSlotID]
    BY <2>1 DEF TypeOK
  <2> QED
    BY <2>1, <2>2, <2>5, <2>6, <2>7, <2>8 DEF TypeOK, chainVars, govVars
<1>2. ASSUME NEW by \in Accounts, NEW s \in SlotIds, ActivateCoreSlot(by, s)
      PROVE  TypeOK'
  <2> USE <1>2 DEF ActivateCoreSlot
  <2>1. slots' \in [SlotIds -> SlotRecord]
    BY BoundsAssumption DEF TypeOK, SlotRecord, Statuses, ParamDocument
  <2> QED
    BY <2>1 DEF TypeOK, chainVars, govVars, policyVars, keyVars
<1>3. ASSUME NEW s \in SlotIds, NEW st \in Statuses, Leave(s, st)
      PROVE  /\ slots' \in [SlotIds -> SlotRecord]
             /\ activeSlots' \subseteq SlotIds
  <2>1. slots \in [SlotIds -> SlotRecord] /\ activeSlots \subseteq SlotIds
    BY DEF TypeOK
  <2> QED
    BY <1>3, <2>1, SlotRecordUpdates DEF Leave
<1>4. ASSUME NEW s \in SlotIds, CancelRotation(s)
      PROVE  /\ byConsensus' \in [Keys -> 0 .. MaxSlotID]
             /\ rotations' \in [SlotIds -> Rotation]
  <2>1. 0 \in 0 .. MaxSlotID
    BY BoundsAssumption
  <2>2. NoRotation \in Rotation
    BY DEF Rotation, NoRotation
  <2> QED
    BY <1>4, <2>1, <2>2 DEF CancelRotation, TypeOK
<1>5. ASSUME NEW by \in Accounts, NEW s \in SlotIds, InactivateCoreSlot(by, s)
      PROVE  TypeOK'
  BY <1>3, <1>4, <1>5 DEF InactivateCoreSlot, Statuses, TypeOK, Leave, chainVars, govVars, policyVars
<1>6. ASSUME NEW by \in Accounts, NEW s \in SlotIds, SuspendCoreSlot(by, s)
      PROVE  TypeOK'
  BY <1>3, <1>4, <1>6 DEF SuspendCoreSlot, Statuses, TypeOK, Leave, chainVars, govVars, policyVars
<1>7. ASSUME NEW k, NEW s \in SlotIds, NEW res \in [Keys -> Reservation]
      PROVE  Reserve(res, k, s) \in [Keys -> Reservation]
  <2>1. HeightPlus(params.reuseLockout) \in Int
    BY HeightPlusType DEF TypeOK, ParamDocument
  <2>2. s \in 0 .. MaxSlotID
    BY BoundsAssumption DEF SlotIds
  <2>3. [slot |-> s, until |-> HeightPlus(params.reuseLockout)] \in Reservation
    BY <2>1, <2>2 DEF Reservation
  <2> QED
    BY <2>3 DEF Reserve
<1>8. ASSUME NEW k PROVE Lock(lockedUntil, k) \in [Keys -> Nat]
  <2>1. height + params.reuseLockout \in Nat
    BY DEF TypeOK, ParamDocument
  <2> QED
    BY <2>1 DEF Lock, TypeOK
<1>9. ASSUME NEW by \in Accounts, NEW s \in SlotIds, RemoveCoreSlot(by, s)
      PROVE  TypeOK'
  <2> USE <1>9 DEF RemoveCoreSlot
  <2>1. slots' \in [SlotIds -> SlotRecord] /\ activeSlots' \subseteq SlotIds
    BY <1>3 DEF Statuses
  <2>2. rotations' \in [SlotIds -> Rotation]
    BY DEF TypeOK, Rotation, NoRotation
  <2>3. byConsensus' \in [Keys -> 0 .. MaxSlotID]
    BY BoundsAssumption DEF TypeOK
  <2>4. byOperator' \in [Accounts -> 0 .. MaxSlotID]
    <3>1. 0 \in 0 .. MaxSlotID
      BY BoundsAssumption
    <3> QED
      BY <3>1 DEF TypeOK, FreeOperator
  <2>5. reserved' \in [Keys -> Reservation] /\ lockedUntil' \in [Keys -> Nat]
    BY <1>7, <1>8 DEF TypeOK
  <2> QED
    BY <2>1, <2>2, <2>3, <2>4, <2>5 DEF TypeOK, Leave, chainVars, govVars, policyVars
<1>10. ASSUME NEW by \in Accounts, NEW s \in SlotIds, NEW k \in Keys,
              RotateConsensusKey(by, s, k)
       PROVE  TypeOK'
  <2>1. [reserved EXCEPT ![k] = NoReservation] \in [Keys -> Reservation]
    BY BoundsAssumption DEF TypeOK, Reservation, NoReservation
  <2>2. s \in 0 .. MaxSlotID /\ 0 \in 0 .. MaxSlotID
    BY BoundsAssumption DEF SlotIds
  <2>3. HeightPlus(params.keyRotationDelay) \in Int
    BY HeightPlusType DEF TypeOK, ParamDocument
  <2>3a. height + params.keyRotationDelay \in Nat
    BY DEF TypeOK, ParamDocument
  <2>4. [old |-> slots[s].key, new |-> k, requested |-> height,
         effective |-> HeightPlus(params.keyRotationDelay),
         promised |-> height + params.keyRotationDelay] \in Rotation
    BY <2>3, <2>3a DEF TypeOK, Rotation, SlotRecord
  <2>5. byConsensus' \in [Keys -> 0 .. MaxSlotID]
    BY <1>10, <2>2 DEF RotateConsensusKey, TypeOK
  <2>6. slots' \in [SlotIds -> SlotRecord]
    <3>1. slots \in [SlotIds -> SlotRecord]
      BY DEF TypeOK
    <3>2. slots' = slots \/ slots' = [slots EXCEPT ![s].key = k]
      BY <1>10 DEF RotateConsensusKey
    <3> QED
      BY <3>1, <3>2, SlotRecordUpdates
  <2>7. rotations' \in [SlotIds -> Rotation]
    BY <1>10, <2>4 DEF RotateConsensusKey, TypeOK
  <2>8. reserved' \in [Keys -> Reservation] /\ lockedUntil' \in [Keys -> Nat]
    <3>1. reserved' \in {[reserved EXCEPT ![k] = NoReservation],
                        Reserve([reserved EXCEPT ![k] = NoReservation], slots[s].key, s)}
      BY <1>10 DEF RotateConsensusKey
    <3>2. lockedUntil' \in {lockedUntil, Lock(lockedUntil, slots[s].key)}
      BY <1>10 DEF RotateConsensusKey
    <3>3. lockedUntil \in [Keys -> Nat]
      BY DEF TypeOK
    <3>4. Reserve([reserved EXCEPT ![k] = NoReservation], slots[s].key, s) \in [Keys -> Reservation]
      BY <1>7, <2>1
    <3>5. Lock(lockedUntil, slots[s].key) \in [Keys -> Nat]
      BY <1>8
    <3> QED
      BY <2>1, <3>1, <3>2, <3>3, <3>4, <3>5, Zenon
  <2> QED
    BY <1>10, <2>5, <2>6, <2>7, <2>8
    DEF RotateConsensusKey, TypeOK, chainVars, govVars, policyVars
<1>11. ASSUME NEW by \in Accounts, NEW s \in SlotIds, NEW a \in Accounts,
              UpdatePayoutAddress(by, s, a) \/ UpdateSettlementAddress(by, s, a)
       PROVE  TypeOK'
  <2>1. slots' \in [SlotIds -> SlotRecord]
    <3>1. slots \in [SlotIds -> SlotRecord]
      BY DEF TypeOK
    <3>2. slots' \in {[slots EXCEPT ![s].payout = a], [slots EXCEPT ![s].settlement = a]}
      BY <1>11 DEF UpdatePayoutAddress, UpdateSettlementAddress
    <3>3. /\ [slots EXCEPT ![s].payout = a] \in [SlotIds -> SlotRecord]
          /\ [slots EXCEPT ![s].settlement = a] \in [SlotIds -> SlotRecord]
      BY <3>1, SlotRecordUpdates
    <3> QED
      BY <3>2, <3>3, Zenon
  <2> QED
    BY <1>11, <2>1 DEF UpdatePayoutAddress, UpdateSettlementAddress, OperatorUpdate, TypeOK,
                       chainVars, govVars, policyVars, keyVars
<1>12. ASSUME NEW by \in Accounts, NEW s \in SlotIds, NEW m \in MetadataValues,
              UpdateOperatorMetadata(by, s, m)
       PROVE  TypeOK'
  <2>1. slots' \in [SlotIds -> SlotRecord]
    <3>1. slots \in [SlotIds -> SlotRecord]
      BY DEF TypeOK
    <3>2. slots' = [slots EXCEPT ![s].metadata = m]
      BY <1>12 DEF UpdateOperatorMetadata
    <3> QED
      BY <3>1, <3>2, SlotRecordUpdates
  <2> QED
    BY <1>12, <2>1 DEF UpdateOperatorMetadata, OperatorUpdate, TypeOK,
                       chainVars, govVars, policyVars, keyVars
<1>13. ASSUME NEW by \in Accounts, NEW s \in SlotIds, NEW pol \in PolicyValues,
              UpdateSelectionPolicy(by, s, pol)
       PROVE  TypeOK'
  <2> DEFINE current == slots[s].policyVersion
  <2>1. current \in Versions /\ current + 1 \in Versions
    <3>1. current \in 0 .. MaxVersion
      BY DEF TypeOK, SlotRecord
    <3>2. current # 0 /\ current < MaxVersion
      BY <1>13 DEF UpdateSelectionPolicy, HasCurrentPolicy
    <3> QED
      BY <3>1, <3>2, BoundsAssumption DEF Versions
  <2>2. PolicyEffective \in Heights /\ PolicyEffective \in Nat /\ height \in Nat
    BY BoundsAssumption DEF PolicyEffective, TypeOK, Heights
  <2>3. OpenRow(pol, PolicyEffective) \in PolicyRow
    BY <2>2 DEF OpenRow, PolicyRow
  <2>4. [policies[s][current] EXCEPT !.until = PolicyEffective] \in PolicyRow
    <3>1. policies[s][current] \in PolicyRow
      BY <2>1 DEF TypeOK
    <3> QED
      BY <2>2, <3>1 DEF PolicyRow
  <2>5. policies' \in [SlotIds -> [Versions -> PolicyRow]]
    <3>1. policies' = [policies EXCEPT ![s][current].until = PolicyEffective,
                                       ![s][current + 1] = OpenRow(pol, PolicyEffective)]
      BY <1>13 DEF UpdateSelectionPolicy
    <3> QED
      BY <2>1, <2>3, <2>4, <3>1 DEF TypeOK
  <2>6. policyStarts' \in [SlotIds -> [Heights -> 0 .. MaxVersion]]
    <3>1. policyStarts' = [policyStarts EXCEPT ![s][PolicyEffective] = current + 1]
      BY <1>13 DEF UpdateSelectionPolicy, IndexStart
    <3>2. current + 1 \in 0 .. MaxVersion
      BY <2>1, BoundsAssumption DEF Versions
    <3> QED
      BY <2>2, <3>1, <3>2 DEF TypeOK
  <2>7. slots' \in [SlotIds -> SlotRecord]
    <3>1. slots' = [slots EXCEPT ![s].policyVersion = current + 1,
                                 ![s].lastPolicyUpdate = height]
      BY <1>13 DEF UpdateSelectionPolicy
    <3>2. current + 1 \in 0 .. MaxVersion
      BY <2>1, BoundsAssumption DEF Versions
    <3> QED
      BY <2>2, <3>1, <3>2, SlotRecordUpdates DEF TypeOK
  <2> QED
    BY <1>13, <2>5, <2>6, <2>7 DEF UpdateSelectionPolicy, TypeOK, chainVars, govVars, keyVars
<1>14. ASSUME NEW by \in Accounts, NEW primary \in Accounts, NEW emergency \in Accounts,
              NEW p \in ParamCandidates, UpdateParams(by, p, primary, emergency)
       PROVE  TypeOK'
  BY <1>14, BoundsAssumption DEF UpdateParams, TypeOK, chainVars, policyVars, keyVars
<1>15. ASSUME NEW by \in Accounts, NEW r \in Roles, NEW nominee \in Accounts,
              NominateAuthority(by, r, nominee)
       PROVE  TypeOK'
  BY <1>15 DEF NominateAuthority, Governance, TypeOK, chainVars, policyVars, keyVars
<1>16. ASSUME NEW by \in Accounts, NEW r \in Roles,
              AcceptAuthority(by, r) \/ CancelAuthorityNomination(by, r)
       PROVE  TypeOK'
  BY <1>16 DEF AcceptAuthority, CancelAuthorityNomination, NominationCleared, Governance, TypeOK,
               chainVars, policyVars, keyVars
<1>17. CASE EndBlock
  <2> USE <1>17 DEF EndBlock
  <2>1. Applied \subseteq SlotIds /\ Due \subseteq SlotIds
    BY DEF Applied, Due
  <2>2. RotatedSlots \in [SlotIds -> SlotRecord]
    <3>1. ASSUME NEW r \in SlotRecord, NEW k \in Keys \cup {NoKey}
          PROVE  [r EXCEPT !.key = k] \in SlotRecord
      BY DEF SlotRecord
    <3>2. \A s \in SlotIds : slots[s] \in SlotRecord /\ rotations[s].new \in Keys \cup {NoKey}
      BY DEF TypeOK, Rotation
    <3> QED
      BY <3>1, <3>2 DEF RotatedSlots
  <2>3. WantedSet \in [Keys -> Validator]
    <3>1. ASSUME NEW s \in activeSlots
          PROVE  [slot |-> s, power |-> RotatedSlots[s].power] \in Validator
      BY <2>2, BoundsAssumption DEF TypeOK, SlotRecord, Validator, SlotIds
    <3>2. NoValidator \in Validator
      BY BoundsAssumption DEF NoValidator, Validator
    <3> QED
      BY <3>1, <3>2 DEF WantedSet, Desired
  <2>4. ApplyUpdates(WantedSet) \in [Keys -> Nat]
    BY <2>3 DEF ApplyUpdates, TypeOK, Validator
  <2>5. reserved' \in [Keys -> Reservation]
    <3>1. HeightPlus(params.reuseLockout) \in Int
      BY HeightPlusType DEF TypeOK, ParamDocument
    <3>2. ASSUME NEW s \in SlotIds
          PROVE  [slot |-> s, until |-> HeightPlus(params.reuseLockout)] \in Reservation
      BY <3>1, BoundsAssumption DEF Reservation, SlotIds
    <3>3. ASSUME NEW k \in Retired PROVE (CHOOSE s \in Applied : rotations[s].old = k) \in SlotIds
      BY <2>1 DEF Retired
    <3> QED
      BY <3>2, <3>3 DEF Commit, TypeOK
  <2>6. rotations' \in [SlotIds -> Rotation]
    BY DEF Commit, SettledRotations, TypeOK, Rotation, NoRotation
  <2>7. byConsensus' \in [Keys -> 0 .. MaxSlotID]
    BY BoundsAssumption DEF Commit, TypeOK
  <2>8. lockedUntil' \in [Keys -> Nat]
    BY DEF Commit, TypeOK, ParamDocument
  <2>9. height' \in 1 .. MaxHeight
    BY BoundsAssumption DEF Commit, TypeOK
  <2>10. halted' \in BOOLEAN
    BY Zenon DEF EndBlockOK
  <2>11. /\ slots' \in [SlotIds -> SlotRecord] /\ lastApplied' \in [Keys -> Validator]
         /\ validators' \in [Keys -> Nat]
    BY <2>2, <2>3, <2>4 DEF Commit, TypeOK
  <2> QED
    BY <2>5, <2>6, <2>7, <2>8, <2>9, <2>10, <2>11 DEF TypeOK, govVars, policyVars
<1>18. CASE UNCHANGED vars
  BY <1>18 DEF vars, govVars, policyVars, chainVars, keyVars, TypeOK
<1> QED
  BY <1>1, <1>2, <1>5, <1>6, <1>9, <1>10, <1>11, <1>12, <1>13, <1>14, <1>15, <1>16, <1>17, <1>18
  DEF Next

\* Every store of the keeper keeps its type in every reachable state.
THEOREM TypeCorrect == Spec => []TypeOK
<1>1. Init => TypeOK
  BY InitType
<1>2. TypeOK /\ [Next]_vars => TypeOK'
  BY NextType
<1> QED
  BY <1>1, <1>2, PTL DEF Spec

-----------------------------------------------------------------------------
(* The registry: records, membership index, key index and staged rotations *)
(* agree.  No conjunct is inductive alone: the key index is exact because  *)
(* a staged key belongs to an ACTIVE slot and differs from its current     *)
(* key, and that in turn because the handlers consult the index.           *)

\* A slot that exists has a key.
RecordsComplete == \A s \in SlotIds : Exists(s) => slots[s].key \in Keys

\* A staged rotation is to another key.
RotationsFresh == \A s \in SlotIds : Pending(s) => rotations[s].new # slots[s].key

Registry ==
  /\ TypeOK
  /\ ValidParams(params)
  /\ RecordsComplete
  /\ ActiveIndexAndPower
  /\ RotationsMatchSlots
  /\ RotationsFresh
  /\ ConsensusIndexExact

\* The part of a slot record the registry is about.
SameSlot(t) ==
  /\ slots'[t].status = slots[t].status
  /\ slots'[t].key = slots[t].key
  /\ slots'[t].power = slots[t].power

\* A live slot owns its key and its staged key, and no two slots own one key.
LEMMA OneOwner ==
  ASSUME Registry, NEW s \in SlotIds, NEW t \in SlotIds, NEW k \in Keys,
         Holds(s, k), Holds(t, k)
  PROVE  s = t
  BY DEF Registry, ConsensusIndexExact

\* An operation that leaves status, key and power of every slot, the indexes and
\* the rotations alone keeps the registry.
LEMMA RegistryFrame ==
  ASSUME Registry, TypeOK', \A t \in SlotIds : SameSlot(t),
         UNCHANGED <<params, activeSlots, rotations, byConsensus>>
  PROVE  Registry'
<1>1. RecordsComplete' /\ ActiveIndexAndPower'
  BY DEF Registry, RecordsComplete, ActiveIndexAndPower, Exists, SameSlot
<1>2. RotationsMatchSlots' /\ RotationsFresh'
  BY DEF Registry, RotationsMatchSlots, RotationsFresh, Pending, SameSlot
<1>3. ConsensusIndexExact'
  BY DEF Registry, ConsensusIndexExact, Holds, SameSlot
<1> QED
  BY <1>1, <1>2, <1>3 DEF Registry

\* InitGenesis writes records, indexes and validator rows that agree.
LEMMA InitRegistry == Init => Registry
<1> SUFFICES ASSUME Init PROVE Registry
  OBVIOUS
<1>1. TypeOK
  BY InitType
<1>2. ValidParams(params)
  BY DEF Init
<1>3. PICK status \in [GenesisIds -> {"PENDING", "ACTIVE"}],
           op \in [GenesisIds -> Accounts], key \in [GenesisIds -> Keys],
           a \in [GenesisIds -> EconomicAccounts], pol \in [GenesisIds -> PolicyValues] :
        /\ Injective(op) /\ Injective(key)
        /\ slots = [s \in SlotIds |->
             IF s \in GenesisIds
             THEN GenesisSlot(status[s], op[s], key[s], a[s], params) ELSE AbsentSlot]
        /\ policies = [s \in SlotIds |-> [v \in Versions |->
             IF s \in GenesisIds /\ v = 1 THEN OpenRow(pol[s], 1) ELSE NoPolicyRow]]
  BY Zenon DEF Init
<1>4. GenesisIds \subseteq SlotIds /\ \A s \in SlotIds : s # 0
  BY NamesAssumption, BoundsAssumption DEF SlotIds
<1>5. \A s \in GenesisIds :
        /\ slots[s].status = status[s] /\ slots[s].key = key[s]
        /\ slots[s].power = IF status[s] = "ACTIVE" THEN params.slotVotingPower ELSE 0
  BY <1>3, <1>4 DEF GenesisSlot
<1>6. \A s \in SlotIds \ GenesisIds :
        slots[s].status = "ABSENT" /\ slots[s].key = NoKey /\ slots[s].power = 0
  BY <1>3 DEF AbsentSlot
<1>7. \A s \in GenesisIds : status[s] \in {"PENDING", "ACTIVE"} /\ key[s] \in Keys
  BY <1>3
<1>8. RecordsComplete
  BY <1>5, <1>6, <1>7 DEF RecordsComplete, Exists
<1>9. ActiveIndexAndPower
  <2>1. activeSlots = {s \in SlotIds : slots[s].status = "ACTIVE"}
    BY DEF Init
  <2> QED
    BY <1>4, <1>5, <1>6, <1>7, <2>1 DEF ActiveIndexAndPower
<1>10. \A s \in SlotIds : rotations[s] = NoRotation
  BY DEF Init
<1>11. \A s \in SlotIds : ~ Pending(s) /\ rotations[s].new = NoKey
  BY <1>10 DEF Pending, NoRotation
<1>12. RotationsMatchSlots /\ RotationsFresh
  BY <1>11 DEF RotationsMatchSlots, RotationsFresh
<1>13. ConsensusIndexExact
  <2>1. byConsensus = [k \in Keys |->
          IF \E s \in GenesisIds : slots[s].key = k
          THEN CHOOSE s \in GenesisIds : slots[s].key = k ELSE 0]
    BY Zenon DEF Init
  <2> SUFFICES ASSUME NEW k \in Keys, NEW s \in SlotIds
               PROVE  byConsensus[k] = s <=> Holds(s, k)
    BY DEF ConsensusIndexExact
  <2>2. Holds(s, k) <=> s \in GenesisIds /\ slots[s].key = k
    BY <1>5, <1>6, <1>7, <1>11, NamesAssumption DEF Holds
  <2>3. ASSUME NEW u \in GenesisIds, NEW v \in GenesisIds, slots[u].key = slots[v].key
        PROVE  u = v
    <3>1. key[u] = key[v]
      BY <1>5, <2>3
    <3>2. Injective(key) /\ DOMAIN key = GenesisIds
      BY <1>3
    <3> QED
      BY <3>1, <3>2 DEF Injective
  <2>4. CASE \E t \in GenesisIds : slots[t].key = k
    <3>1. byConsensus[k] \in GenesisIds /\ slots[byConsensus[k]].key = k
      BY <2>1, <2>4
    <3> QED
      BY <2>2, <2>3, <3>1
  <2>5. CASE ~ \E t \in GenesisIds : slots[t].key = k
    <3>1. byConsensus[k] = 0
      BY <2>1, <2>5
    <3> QED
      BY <1>4, <2>2, <2>5, <3>1
  <2> QED
    BY <2>4, <2>5
<1> QED
  BY <1>1, <1>2, <1>8, <1>9, <1>12, <1>13 DEF Registry

\* Every operation keeps the registry.
LEMMA NextRegistry == Registry /\ [Next]_vars => Registry'
<1> SUFFICES ASSUME Registry, [Next]_vars PROVE Registry'
  OBVIOUS
<1>t. TypeOK /\ TypeOK'
  BY NextType DEF Registry
<1>n. /\ \A s \in SlotIds : s # 0
      /\ NoKey \notin Keys
  BY BoundsAssumption, NamesAssumption DEF SlotIds
<1>1. ASSUME NEW by \in Accounts, NEW op \in Accounts, NEW pay \in Accounts,
             NEW settle \in Accounts, NEW k \in Keys, NEW m \in MetadataValues,
             NEW pol \in PolicyValues,
             RegisterCoreSlot(by, op, k, pay, settle, m, pol)
      PROVE  Registry'
  <2> DEFINE id == nextSlotID
  <2>1. id \in SlotIds /\ slots[id].status = "ABSENT" /\ byConsensus[k] = 0
    BY <1>1, <1>t DEF RegisterCoreSlot, FreshID, Exists, ConsensusAvailable, TypeOK
  <2>2. slots'[id].status = "PENDING" /\ slots'[id].key = k /\ slots'[id].power = 0
    BY <1>1, <1>t, <2>1 DEF RegisterCoreSlot, TypeOK
  <2>3. \A t \in SlotIds \ {id} : slots'[t] = slots[t]
    BY <1>1, <1>t, <2>1 DEF RegisterCoreSlot, TypeOK
  <2>4. UNCHANGED <<params, activeSlots, rotations>>
    BY <1>1 DEF RegisterCoreSlot
  <2>5. ~ Pending(id) /\ id \notin activeSlots
    BY <2>1 DEF Registry, RotationsMatchSlots, ActiveIndexAndPower
  <2>6. byConsensus' = [byConsensus EXCEPT ![k] = id] /\ byConsensus \in [Keys -> 0 .. MaxSlotID]
    BY <1>1, <1>t DEF RegisterCoreSlot, TypeOK
  <2>7. RecordsComplete' /\ ActiveIndexAndPower'
    BY <2>1, <2>2, <2>3, <2>4, <2>5 DEF Registry, RecordsComplete, ActiveIndexAndPower, Exists
  <2>8. RotationsMatchSlots' /\ RotationsFresh'
    BY <2>3, <2>4, <2>5 DEF Registry, RotationsMatchSlots, RotationsFresh, Pending
  <2>9. ConsensusIndexExact'
    <3> SUFFICES ASSUME NEW x \in Keys, NEW t \in SlotIds
                 PROVE  byConsensus'[x] = t <=> Holds(t, x)'
      BY DEF ConsensusIndexExact
    <3>1. byConsensus[x] = t <=> Holds(t, x)
      BY DEF Registry, ConsensusIndexExact
    <3>2. byConsensus[x] = id <=> Holds(id, x)
      BY <2>1 DEF Registry, ConsensusIndexExact
    <3>3. CASE t = id
      BY <1>n, <2>1, <2>2, <2>4, <2>5, <2>6, <3>2, <3>3 DEF Holds, Pending
    <3>4. CASE t # id
      BY <1>n, <2>1, <2>3, <2>4, <2>6, <3>1, <3>4 DEF Holds
    <3> QED
      BY <3>3, <3>4
  <2> QED
    BY <1>t, <2>4, <2>7, <2>8, <2>9 DEF Registry
<1>2. ASSUME NEW by \in Accounts, NEW s \in SlotIds, ActivateCoreSlot(by, s)
      PROVE  Registry'
  <2>1. slots[s].status \in {"PENDING", "INACTIVE", "SUSPENDED"}
    BY <1>2 DEF ActivateCoreSlot, CanActivate
  <2>2. /\ slots'[s].status = "ACTIVE" /\ slots'[s].power = params.slotVotingPower
        /\ slots'[s].key = slots[s].key
    BY <1>2, <1>t DEF ActivateCoreSlot, TypeOK, SlotRecord
  <2>3. \A t \in SlotIds \ {s} : slots'[t] = slots[t]
    BY <1>2, <1>t DEF ActivateCoreSlot, TypeOK
  <2>4. UNCHANGED <<params, rotations, byConsensus>> /\ activeSlots' = activeSlots \cup {s}
    BY <1>2 DEF ActivateCoreSlot, keyVars
  <2>5. ~ Pending(s)
    BY <2>1 DEF Registry, RotationsMatchSlots
  <2>6. RecordsComplete' /\ ActiveIndexAndPower'
    BY <2>1, <2>2, <2>3, <2>4 DEF Registry, RecordsComplete, ActiveIndexAndPower, Exists
  <2>7. RotationsMatchSlots' /\ RotationsFresh'
    BY <2>3, <2>4, <2>5 DEF Registry, RotationsMatchSlots, RotationsFresh, Pending
  <2>8. ConsensusIndexExact'
    <3>1. \A t \in SlotIds, x \in Keys : Holds(t, x)' <=> Holds(t, x)
      BY <2>1, <2>2, <2>3, <2>4 DEF Holds
    <3> QED
      BY <2>4, <3>1 DEF Registry, ConsensusIndexExact
  <2> QED
    BY <1>t, <2>4, <2>6, <2>7, <2>8 DEF Registry
<1>3. ASSUME NEW s \in SlotIds, NEW st \in {"INACTIVE", "SUSPENDED"},
             Exists(s), slots[s].status # "REMOVED", Leave(s, st), CancelRotation(s)
      PROVE  Registry'
  <2>1. slots'[s].status = st /\ slots'[s].power = 0 /\ slots'[s].key = slots[s].key
    BY <1>3, <1>t DEF Leave, TypeOK, SlotRecord
  <2>2. \A t \in SlotIds \ {s} : slots'[t] = slots[t]
    BY <1>3, <1>t DEF Leave, TypeOK
  <2>3. params' = params /\ activeSlots' = activeSlots \ {s}
    BY <1>3 DEF Leave
  <2>4. \A t \in SlotIds : rotations'[t] = IF t = s THEN NoRotation ELSE rotations[t]
    BY <1>3, <1>t DEF CancelRotation, TypeOK
  <2>5. RecordsComplete' /\ ActiveIndexAndPower'
    BY <1>3, <2>1, <2>2, <2>3 DEF Registry, RecordsComplete, ActiveIndexAndPower, Exists
  <2>6. RotationsMatchSlots' /\ RotationsFresh'
    BY <2>2, <2>4 DEF Registry, RotationsMatchSlots, RotationsFresh, Pending, NoRotation
  <2>7. ASSUME NEW t \in SlotIds, NEW x \in Keys
        PROVE  Holds(t, x)' <=> Holds(t, x) /\ ~ (t = s /\ Pending(s) /\ x = rotations[s].new)
    <3>1. CASE t = s
      <4>1. Holds(s, x)' <=> x = slots[s].key
        BY <1>n, <2>1, <2>4 DEF Holds, NoRotation
      <4>2. Holds(s, x) <=> x \in {slots[s].key, rotations[s].new}
        BY <1>3 DEF Holds, Exists
      <4> QED
        BY <1>n, <3>1, <4>1, <4>2 DEF Registry, RotationsFresh, Pending
    <3>2. CASE t # s
      BY <2>2, <2>4, <3>2 DEF Holds
    <3> QED
      BY <3>1, <3>2
  <2>8. ASSUME NEW x \in Keys
        PROVE  byConsensus'[x] = IF Pending(s) /\ x = rotations[s].new THEN 0 ELSE byConsensus[x]
    <3>1. byConsensus \in [Keys -> 0 .. MaxSlotID]
      BY <1>t DEF TypeOK
    <3> QED
      BY <1>3, <3>1 DEF CancelRotation
  <2>9. Pending(s) => Holds(s, rotations[s].new)
    BY <1>3 DEF Holds, Exists
  <2>10. ConsensusIndexExact'
    <3> SUFFICES ASSUME NEW x \in Keys, NEW t \in SlotIds
                 PROVE  byConsensus'[x] = t <=> Holds(t, x)'
      BY DEF ConsensusIndexExact
    <3>1. byConsensus[x] = t <=> Holds(t, x)
      BY DEF Registry, ConsensusIndexExact
    <3>2. byConsensus[x] = s <=> Holds(s, x)
      BY DEF Registry, ConsensusIndexExact
    <3> QED
      BY <1>n, <2>7, <2>8, <2>9, <3>1, <3>2
  <2> QED
    BY <1>t, <2>3, <2>5, <2>6, <2>10 DEF Registry
<1>4. ASSUME NEW by \in Accounts, NEW s \in SlotIds, InactivateCoreSlot(by, s)
      PROVE  Registry'
  BY <1>3, <1>4 DEF InactivateCoreSlot
<1>5. ASSUME NEW by \in Accounts, NEW s \in SlotIds, SuspendCoreSlot(by, s)
      PROVE  Registry'
  BY <1>3, <1>5 DEF SuspendCoreSlot, Exists
<1>6. ASSUME NEW by \in Accounts, NEW s \in SlotIds, RemoveCoreSlot(by, s)
      PROVE  Registry'
  <2>1. slots[s].status \in {"PENDING", "INACTIVE", "SUSPENDED"}
    BY <1>6 DEF RemoveCoreSlot
  <2>2. /\ slots'[s].status = "REMOVED" /\ slots'[s].power = 0 /\ slots'[s].key = slots[s].key
    BY <1>6, <1>t DEF RemoveCoreSlot, Leave, TypeOK, SlotRecord
  <2>3. \A t \in SlotIds \ {s} : slots'[t] = slots[t]
    BY <1>6, <1>t DEF RemoveCoreSlot, Leave, TypeOK
  <2>4. params' = params /\ activeSlots' = activeSlots \ {s}
    BY <1>6 DEF RemoveCoreSlot, Leave
  <2>5. ~ Pending(s)
    BY <2>1 DEF Registry, RotationsMatchSlots
  <2>6. \A t \in SlotIds : rotations'[t] = IF t = s THEN NoRotation ELSE rotations[t]
    BY <1>6, <1>t DEF RemoveCoreSlot, TypeOK
  <2>7. RecordsComplete' /\ ActiveIndexAndPower'
    BY <2>1, <2>2, <2>3, <2>4 DEF Registry, RecordsComplete, ActiveIndexAndPower, Exists
  <2>8. RotationsMatchSlots' /\ RotationsFresh'
    BY <2>3, <2>6 DEF Registry, RotationsMatchSlots, RotationsFresh, Pending, NoRotation
  <2>9. \A x \in Keys : byConsensus'[x] = IF x = slots[s].key THEN 0 ELSE byConsensus[x]
    BY <1>6, <2>5 DEF RemoveCoreSlot
  <2>10. ConsensusIndexExact'
    <3> SUFFICES ASSUME NEW x \in Keys, NEW t \in SlotIds
                 PROVE  byConsensus'[x] = t <=> Holds(t, x)'
      BY DEF ConsensusIndexExact
    <3>1. byConsensus[x] = t <=> Holds(t, x)
      BY DEF Registry, ConsensusIndexExact
    <3>2. byConsensus[x] = s <=> Holds(s, x)
      BY DEF Registry, ConsensusIndexExact
    <3>3. Holds(s, x) <=> x = slots[s].key
      BY <1>n, <2>1, <2>5 DEF Holds, Pending
    <3>4. Holds(t, x)' <=> t # s /\ Holds(t, x)
      BY <2>2, <2>3, <2>6 DEF Holds
    <3> QED
      BY <1>n, <2>9, <3>1, <3>2, <3>3, <3>4
  <2> QED
    BY <1>t, <2>4, <2>7, <2>8, <2>10 DEF Registry
<1>7. ASSUME NEW by \in Accounts, NEW s \in SlotIds, NEW k \in Keys,
             RotateConsensusKey(by, s, k)
      PROVE  Registry'
  <2>1. /\ slots[s].status \notin {"ABSENT", "REMOVED"} /\ ~ Pending(s)
        /\ byConsensus[k] = 0
    BY <1>7 DEF RotateConsensusKey, ConsensusAvailable
  <2>2. \A t \in SlotIds : ~ Holds(t, k)
    BY <1>n, <2>1 DEF Registry, ConsensusIndexExact
  <2>3. UNCHANGED <<params, activeSlots>>
    BY <1>7 DEF RotateConsensusKey
  <2>4. slots[s].key # k
    BY <2>1, <2>2 DEF Holds
  <2>5. CASE slots[s].status = "ACTIVE"
    <3>1. slots' = slots
      BY <1>7, <2>5 DEF RotateConsensusKey
    <3>2. /\ rotations'[s].old = slots[s].key /\ rotations'[s].new = k
          /\ \A t \in SlotIds \ {s} : rotations'[t] = rotations[t]
      BY <1>7, <1>t, <2>5 DEF RotateConsensusKey, TypeOK
    <3>3. \A x \in Keys : byConsensus'[x] = IF x = k THEN s ELSE byConsensus[x]
      BY <1>7, <1>t, <2>5 DEF RotateConsensusKey, TypeOK
    <3>4. RecordsComplete' /\ ActiveIndexAndPower'
      BY <2>3, <3>1 DEF Registry, RecordsComplete, ActiveIndexAndPower, Exists
    <3>5. RotationsMatchSlots' /\ RotationsFresh'
      BY <2>4, <2>5, <3>1, <3>2 DEF Registry, RotationsMatchSlots, RotationsFresh, Pending
    <3>6. ConsensusIndexExact'
      <4> SUFFICES ASSUME NEW x \in Keys, NEW t \in SlotIds
                   PROVE  byConsensus'[x] = t <=> Holds(t, x)'
        BY DEF ConsensusIndexExact
      <4>1. byConsensus[x] = t <=> Holds(t, x)
        BY DEF Registry, ConsensusIndexExact
      <4>2. Holds(t, x)' <=> Holds(t, x) \/ (t = s /\ x = k)
        BY <1>n, <2>1, <3>1, <3>2 DEF Holds, Pending
      <4> QED
        BY <2>2, <3>3, <4>1, <4>2
    <3> QED
      BY <1>t, <2>3, <3>4, <3>5, <3>6 DEF Registry
  <2>6. CASE slots[s].status # "ACTIVE"
    <3>1. /\ slots'[s].key = k /\ slots'[s].status = slots[s].status
          /\ slots'[s].power = slots[s].power
      BY <1>7, <1>t, <2>6 DEF RotateConsensusKey, TypeOK, SlotRecord
    <3>2. \A t \in SlotIds \ {s} : slots'[t] = slots[t]
      BY <1>7, <1>t, <2>6 DEF RotateConsensusKey, TypeOK
    <3>3. rotations' = rotations
      BY <1>7, <2>6 DEF RotateConsensusKey
    <3>4. \A x \in Keys :
            byConsensus'[x] = IF x = slots[s].key THEN 0 ELSE IF x = k THEN s ELSE byConsensus[x]
      <4>1. byConsensus' = [byConsensus EXCEPT ![k] = s, ![slots[s].key] = 0]
        BY <1>7, <2>6 DEF RotateConsensusKey
      <4> QED
        BY <1>t, <4>1 DEF TypeOK
    <3>5. RecordsComplete' /\ ActiveIndexAndPower'
      BY <2>3, <3>1, <3>2 DEF Registry, RecordsComplete, ActiveIndexAndPower, Exists
    <3>6. RotationsMatchSlots' /\ RotationsFresh'
      BY <2>1, <3>2, <3>3 DEF Registry, RotationsMatchSlots, RotationsFresh, Pending
    <3>7. ConsensusIndexExact'
      <4> SUFFICES ASSUME NEW x \in Keys, NEW t \in SlotIds
                   PROVE  byConsensus'[x] = t <=> Holds(t, x)'
        BY DEF ConsensusIndexExact
      <4>1. byConsensus[x] = t <=> Holds(t, x)
        BY DEF Registry, ConsensusIndexExact
      <4>2. byConsensus[x] = s <=> Holds(s, x)
        BY DEF Registry, ConsensusIndexExact
      <4>3. Holds(s, x) <=> x = slots[s].key
        BY <1>n, <2>1 DEF Holds, Pending
      <4>4. CASE t = s
        <5>1. Holds(s, x)' <=> x = k
          BY <1>n, <2>1, <3>1, <3>3 DEF Holds, Pending
        <5> QED
          BY <1>n, <2>4, <3>4, <4>2, <4>3, <4>4, <5>1
      <4>5. CASE t # s
        <5>1. Holds(t, x)' <=> Holds(t, x)
          BY <3>2, <3>3, <4>5 DEF Holds
        <5> QED
          BY <1>n, <2>2, <3>4, <4>1, <4>2, <4>3, <4>5, <5>1
      <4> QED
        BY <4>4, <4>5
    <3> QED
      BY <1>t, <2>3, <3>5, <3>6, <3>7 DEF Registry
  <2> QED
    BY <2>5, <2>6
<1>8. ASSUME NEW by \in Accounts, NEW s \in SlotIds, NEW a,
             \/ UpdatePayoutAddress(by, s, a) \/ UpdateOperatorMetadata(by, s, a)
             \/ UpdateSettlementAddress(by, s, a) \/ UpdateSelectionPolicy(by, s, a)
      PROVE  Registry'
  <2>1. \A t \in SlotIds : SameSlot(t)
    <3>0. slots \in [SlotIds -> SlotRecord]
      BY <1>t DEF TypeOK
    <3>1. CASE UpdatePayoutAddress(by, s, a)
      BY <3>0, <3>1 DEF UpdatePayoutAddress, SameSlot, SlotRecord
    <3>2. CASE UpdateOperatorMetadata(by, s, a)
      BY <3>0, <3>2 DEF UpdateOperatorMetadata, SameSlot, SlotRecord
    <3>3. CASE UpdateSettlementAddress(by, s, a)
      BY <3>0, <3>3 DEF UpdateSettlementAddress, SameSlot, SlotRecord
    <3>4. CASE UpdateSelectionPolicy(by, s, a)
      <4>1. slots' = [slots EXCEPT ![s].policyVersion = slots[s].policyVersion + 1,
                                   ![s].lastPolicyUpdate = height]
        BY <3>4 DEF UpdateSelectionPolicy
      <4> QED
        BY <3>0, <4>1 DEF SameSlot, SlotRecord
    <3> QED
      BY <1>8, <3>1, <3>2, <3>3, <3>4
  <2>2. UNCHANGED <<params, activeSlots, rotations, byConsensus>>
    BY <1>8 DEF UpdatePayoutAddress, UpdateOperatorMetadata, UpdateSettlementAddress,
                UpdateSelectionPolicy, OperatorUpdate, keyVars
  <2> QED
    BY <1>t, <2>1, <2>2, RegistryFrame
<1>9. ASSUME NEW by \in Accounts, NEW primary \in Accounts, NEW emergency \in Accounts,
             NEW p \in ParamCandidates, UpdateParams(by, p, primary, emergency)
      PROVE  Registry'
  <2>1. UNCHANGED <<slots, activeSlots, rotations, byConsensus>> /\ params' = p
    BY <1>9 DEF UpdateParams, keyVars
  <2>2. ValidParams(params')
    BY <1>9 DEF UpdateParams
  <2>3. activeSlots # {} => p.slotVotingPower = params.slotVotingPower
    <3>1. IsFiniteSet(SlotIds)
      BY FS_Interval, BoundsAssumption DEF SlotIds
    <3>2. IsFiniteSet(activeSlots)
      BY <1>t, <3>1, FS_Subset DEF TypeOK
    <3>3. activeSlots # {} => ActiveCount > 0
      BY <3>2, FS_EmptySet, FS_CardinalityType DEF ActiveCount
    <3> QED
      BY <1>9, <3>3 DEF UpdateParams, PowerFrozen
  <2>4. ActiveIndexAndPower'
    BY <2>1, <2>3 DEF Registry, ActiveIndexAndPower
  <2>5. RecordsComplete' /\ RotationsMatchSlots' /\ RotationsFresh' /\ ConsensusIndexExact'
    BY <2>1 DEF Registry, RecordsComplete, RotationsMatchSlots, RotationsFresh,
                ConsensusIndexExact, Exists, Pending, Holds
  <2> QED
    BY <1>t, <2>2, <2>4, <2>5 DEF Registry
<1>10. ASSUME NEW by \in Accounts, NEW r \in Roles, NEW nominee \in Accounts,
              \/ NominateAuthority(by, r, nominee) \/ AcceptAuthority(by, r)
              \/ CancelAuthorityNomination(by, r)
       PROVE  Registry'
  <2>1. UNCHANGED <<slots, params, activeSlots, rotations, byConsensus>>
    BY <1>10 DEF NominateAuthority, AcceptAuthority, CancelAuthorityNomination, Governance, keyVars
  <2> QED
    BY <1>t, <2>1, RegistryFrame DEF SameSlot
<1>11. CASE EndBlock
  <2>1. UNCHANGED <<params, activeSlots>>
    BY <1>11 DEF EndBlock
  <2>2. CASE ~ EndBlockOK
    <3>1. UNCHANGED <<slots, rotations, byConsensus>>
      BY <1>11, <2>2 DEF EndBlock, Commit
    <3> QED
      BY <1>t, <2>1, <3>1, RegistryFrame DEF SameSlot
  <2>3. CASE EndBlockOK
    <3>1. /\ slots' = RotatedSlots /\ rotations' = SettledRotations
          /\ byConsensus' = [k \in Keys |->
               IF k \in Retired \cup Dropped THEN 0 ELSE byConsensus[k]]
      BY <1>11, <2>3 DEF EndBlock, Commit
    <3>2. Applied = Due /\ Dropped = {}
      BY DEF Registry, RotationsMatchSlots, Applied, Due, Dropped
    <3>3. \A t \in SlotIds :
            /\ slots'[t].status = slots[t].status /\ slots'[t].power = slots[t].power
            /\ slots'[t].key = IF t \in Due THEN rotations[t].new ELSE slots[t].key
            /\ rotations'[t] = IF t \in Due THEN NoRotation ELSE rotations[t]
      BY <1>t, <3>1, <3>2 DEF RotatedSlots, SettledRotations, TypeOK, SlotRecord
    <3>4. \A t \in Due : t \in SlotIds /\ Pending(t) /\ rotations[t].new \in Keys
      BY <1>t DEF Due, Pending, TypeOK, Rotation
    <3>5. RecordsComplete' /\ ActiveIndexAndPower'
      BY <2>1, <3>3, <3>4 DEF Registry, RecordsComplete, ActiveIndexAndPower, Exists
    <3>6. RotationsMatchSlots' /\ RotationsFresh'
      BY <3>3 DEF Registry, RotationsMatchSlots, RotationsFresh, Pending, NoRotation
    <3>7. \A t \in Due : /\ slots[t].status = "ACTIVE" /\ rotations[t].old = slots[t].key
                         /\ rotations[t].new # slots[t].key
      BY <3>4 DEF Registry, RotationsMatchSlots, RotationsFresh
    <3>8. ConsensusIndexExact'
      <4> SUFFICES ASSUME NEW x \in Keys, NEW t \in SlotIds
                   PROVE  byConsensus'[x] = t <=> Holds(t, x)'
        BY DEF ConsensusIndexExact
      <4>1. byConsensus[x] = t <=> Holds(t, x)
        BY DEF Registry, ConsensusIndexExact
      <4>2. byConsensus'[x] = IF \E u \in Due : slots[u].key = x THEN 0 ELSE byConsensus[x]
        BY <3>1, <3>2, <3>7 DEF Retired
      <4>3. Holds(t, x)' <=> Holds(t, x) /\ ~ (t \in Due /\ slots[t].key = x)
        <5>1. CASE t \in Due
          BY <1>n, <3>3, <3>7, <5>1 DEF Holds, NoRotation
        <5>2. CASE t \notin Due
          BY <3>3, <5>2 DEF Holds
        <5> QED
          BY <5>1, <5>2
      <4>4. ASSUME NEW u \in Due, slots[u].key = x, Holds(t, x) PROVE t = u
        BY <3>4, <3>7, <4>4, OneOwner DEF Holds
      <4> QED
        BY <1>n, <4>1, <4>2, <4>3, <4>4
    <3> QED
      BY <1>t, <2>1, <3>5, <3>6, <3>8 DEF Registry
  <2> QED
    BY <2>2, <2>3
<1>12. CASE UNCHANGED vars
  <2>1. UNCHANGED <<slots, params, activeSlots, rotations, byConsensus>>
    BY <1>12 DEF vars, keyVars
  <2> QED
    BY <1>t, <2>1, RegistryFrame DEF SameSlot
<1> QED
  BY <1>1, <1>2, <1>4, <1>5, <1>6, <1>7, <1>8, <1>9, <1>10, <1>11, <1>12 DEF Next

\* Spec keeps the registry in every reachable state.
THEOREM RegistryInvariant == Spec => []Registry
<1>1. Init => Registry
  BY InitRegistry
<1>2. Registry /\ [Next]_vars => Registry'
  BY NextRegistry
<1> QED
  BY <1>1, <1>2, PTL DEF Spec

\* The key index names the one owner of every key, for any number of slots, keys
\* and operators: a key that ensureConsensusAvailable reports free is free.
THEOREM KeyIndexIsExact == Spec => []ConsensusIndexExact
<1>1. Registry => ConsensusIndexExact
  BY DEF Registry
<1> QED
  BY <1>1, RegistryInvariant, PTL

\* No rotation outlives the ACTIVE status of its slot.
THEOREM RotationsBelongToActiveSlots == Spec => []RotationsMatchSlots
<1>1. Registry => RotationsMatchSlots
  BY DEF Registry
<1> QED
  BY <1>1, RegistryInvariant, PTL

\* The membership index, the statuses and the voting powers always agree.
THEOREM MembershipIsExact == Spec => []ActiveIndexAndPower
<1>1. Registry => ActiveIndexAndPower
  BY DEF Registry
<1> QED
  BY <1>1, RegistryInvariant, PTL

-----------------------------------------------------------------------------
(* The chain: EndBlock finds nothing wrong and CometBFT takes its updates, *)
(* as long as their powers do not add up to too much.  It needs a          *)
(* validator to keep (the floor of one ACTIVE slot) and a LastApplied      *)
(* table that mirrors CometBFT, on top of the registry.  A chain that did  *)
(* halt keeps all of this.                                                 *)

\* A LastApplied row carries power exactly when it names a slot.
AppliedRows == \A k \in Keys : lastApplied[k].slot = 0 <=> lastApplied[k].power = 0

ChainInv ==
  /\ Registry
  /\ AlwaysSomeActive
  /\ LastAppliedMirrorsCometBFT
  /\ AppliedRows

\* The membership index is a finite set, empty or a singleton when it counts so.
LEMMA ActiveCountFacts ==
  ASSUME TypeOK
  PROVE  /\ ActiveCount \in Nat
         /\ ActiveCount > 0 => activeSlots # {}
         /\ \A s : activeSlots \subseteq {s} => ActiveCount <= 1
<1>1. IsFiniteSet(SlotIds)
  BY FS_Interval, BoundsAssumption DEF SlotIds
<1>2. IsFiniteSet(activeSlots)
  BY <1>1, FS_Subset DEF TypeOK
<1>3. ActiveCount \in Nat /\ (ActiveCount > 0 => activeSlots # {})
  BY <1>2, FS_EmptySet, FS_CardinalityType DEF ActiveCount
<1>4. ASSUME NEW s, activeSlots \subseteq {s} PROVE ActiveCount <= 1
  <2>1. activeSlots = {} \/ activeSlots = {s}
    BY <1>4
  <2> QED
    <3>1. CASE activeSlots = {}
      <4>1. Cardinality({}) = 0
        BY FS_EmptySet
      <4> QED
        BY <3>1, <4>1 DEF ActiveCount
    <3>2. CASE activeSlots = {s}
      <4>1. Cardinality({s}) = 1
        BY FS_Singleton
      <4> QED
        BY <3>2, <4>1 DEF ActiveCount
    <3> QED
      BY <2>1, <3>1, <3>2
<1> QED
  BY <1>3, <1>4

\* What diffAndPersist derives from a slot table whose ACTIVE slots hold
\* distinct keys and carry power: a row names a slot exactly when it has power.
LEMMA DesiredRows ==
  ASSUME NEW sl, NEW active \in SUBSET SlotIds, \A s \in active : sl[s].power \in Nat \ {0},
         NEW k \in Keys
  PROVE  /\ Desired(sl, active)[k].slot = 0 <=> Desired(sl, active)[k].power = 0
         /\ (\E s \in active : sl[s].key = k) => Desired(sl, active)[k].power # 0
<1>1. CASE \E s \in active : sl[s].key = k
  <2> DEFINE c == CHOOSE s \in active : sl[s].key = k
  <2>1. c \in active
    BY <1>1
  <2>2. Desired(sl, active)[k] = [slot |-> c, power |-> sl[c].power]
    BY <1>1, Zenon DEF Desired
  <2> HIDE DEF c
  <2>3. c # 0
    BY <2>1, BoundsAssumption DEF SlotIds
  <2> QED
    BY <2>1, <2>2, <2>3
<1>2. CASE ~ \E s \in active : sl[s].key = k
  BY <1>2 DEF Desired, NoValidator
<1> QED
  BY <1>1, <1>2

\* In a state of the registry with an ACTIVE slot and a faithful LastApplied
\* table, every read of EndBlock succeeds and CometBFT takes the updates unless
\* their powers add up to too much.
LEMMA EndBlockSucceeds ==
  ASSUME Registry, AlwaysSomeActive, LastAppliedMirrorsCometBFT, AppliedRows
  PROVE  /\ TotalPower(ApplyUpdates(WantedSet)) <= MaxTotalVotingPower => EndBlockOK
         /\ \A k \in Keys : /\ ApplyUpdates(WantedSet)[k] = WantedSet[k].power
                            /\ WantedSet[k].slot = 0 <=> WantedSet[k].power = 0
<1>t. TypeOK
  BY DEF Registry
<1>1. \A s \in SlotIds :
        /\ RotatedSlots[s].status = slots[s].status
        /\ RotatedSlots[s].power = slots[s].power
        /\ RotatedSlots[s].key = IF s \in Applied THEN rotations[s].new ELSE slots[s].key
  BY <1>t DEF RotatedSlots, TypeOK, SlotRecord
<1>2. activeSlots \subseteq SlotIds
  BY <1>t DEF TypeOK
<1>3. \A s \in activeSlots : RotatedSlots[s].power \in Nat \ {0}
  <2>1. params.slotVotingPower \in Nat \ {0}
    BY <1>t DEF Registry, ValidParams, TypeOK, ParamDocument
  <2> QED
    BY <1>1, <1>2, <2>1 DEF Registry, ActiveIndexAndPower
<1>4. \A s \in activeSlots : /\ RotatedSlots[s].status = "ACTIVE"
                             /\ Holds(s, RotatedSlots[s].key)
                             /\ RotatedSlots[s].key \in Keys
  <2> SUFFICES ASSUME NEW s \in activeSlots
               PROVE  /\ RotatedSlots[s].status = "ACTIVE"
                      /\ Holds(s, RotatedSlots[s].key)
                      /\ RotatedSlots[s].key \in Keys
    OBVIOUS
  <2>1. slots[s].status = "ACTIVE" /\ slots[s].key \in Keys
    BY <1>2 DEF Registry, ActiveIndexAndPower, RecordsComplete, Exists
  <2>2. s \in Applied => rotations[s].new \in Keys
    BY <1>t DEF Applied, Due, Pending, TypeOK, Rotation
  <2> QED
    BY <1>1, <1>2, <2>1, <2>2 DEF Holds
<1>5. EndBlockReads(RotatedSlots)
  <2>1. \A s \in Due : Exists(s)
    BY DEF Registry, RotationsMatchSlots, Due, Exists
  <2>2. \A s, u \in activeSlots : RotatedSlots[s].key = RotatedSlots[u].key => s = u
    BY <1>2, <1>4, OneOwner
  <2> QED
    BY <1>4, <2>1, <2>2 DEF EndBlockReads
<1>6. \A k \in Keys : /\ WantedSet[k].slot = 0 <=> WantedSet[k].power = 0
                      /\ (\E s \in activeSlots : RotatedSlots[s].key = k) => WantedSet[k].power # 0
  BY <1>2, <1>3, DesiredRows DEF WantedSet
<1>7. \A k \in Keys : ApplyUpdates(WantedSet)[k] = WantedSet[k].power
  BY DEF ApplyUpdates, UpdatedKeys, LastAppliedMirrorsCometBFT
<1>8. TotalPower(ApplyUpdates(WantedSet)) <= MaxTotalVotingPower => UpdatesAccepted(WantedSet)
  <2>1. \A k \in UpdatedKeys(WantedSet) : WantedSet[k].power = 0 => validators[k] # 0
    BY <1>6 DEF UpdatedKeys, LastAppliedMirrorsCometBFT, AppliedRows
  <2>2. PICK s \in activeSlots : TRUE
    BY DEF AlwaysSomeActive
  <2>3. \E k \in Keys : ApplyUpdates(WantedSet)[k] # 0
    BY <1>4, <1>6, <1>7, <2>2
  <2> QED
    BY <2>1, <2>3 DEF UpdatesAccepted
<1> QED
  BY <1>5, <1>6, <1>7, <1>8 DEF EndBlockOK

\* Genesis starts the chain with the validators of the ACTIVE slots.
LEMMA InitChain == Init => ChainInv
<1> SUFFICES ASSUME Init PROVE ChainInv
  OBVIOUS
<1>1. Registry /\ TypeOK
  BY InitRegistry DEF Registry
<1>2. AlwaysSomeActive
  <2>1. params \in ParamDocument /\ ValidParams(params)
    BY <1>1 DEF Registry, TypeOK
  <2>2. ActiveCount \in params.minActiveSlots .. params.maxActiveSlots
    BY DEF Init
  <2>3. ActiveCount > 0
    BY <1>1, <2>1, <2>2, ActiveCountFacts DEF ValidParams, ParamDocument
  <2> QED
    BY <1>1, <2>3, ActiveCountFacts DEF AlwaysSomeActive
<1>3. LastAppliedMirrorsCometBFT
  BY DEF Init, LastAppliedMirrorsCometBFT
<1>4. AppliedRows
  <2>1. activeSlots \in SUBSET SlotIds
    BY <1>1 DEF TypeOK
  <2>2. params.slotVotingPower \in Nat \ {0}
    BY <1>1 DEF Registry, ValidParams, TypeOK, ParamDocument
  <2>3. \A s \in activeSlots : slots[s].power \in Nat \ {0}
    BY <1>1, <2>1, <2>2 DEF Registry, ActiveIndexAndPower
  <2>4. lastApplied = Desired(slots, activeSlots)
    BY DEF Init
  <2> QED
    BY <2>1, <2>3, <2>4, DesiredRows DEF AppliedRows
<1> QED
  BY <1>1, <1>2, <1>3, <1>4 DEF ChainInv

\* No order of operations empties the ACTIVE set or breaks the mirror.
LEMMA NextChain == ChainInv /\ [Next]_vars => ChainInv'
<1> SUFFICES ASSUME ChainInv, [Next]_vars PROVE ChainInv'
  OBVIOUS
<1>r. Registry /\ Registry' /\ TypeOK
  BY NextRegistry DEF ChainInv, Registry
<1>a. ASSUME UNCHANGED <<lastApplied, validators>>
      PROVE  LastAppliedMirrorsCometBFT' /\ AppliedRows'
  BY <1>a DEF ChainInv, LastAppliedMirrorsCometBFT, AppliedRows
<1>b. ASSUME UNCHANGED <<lastApplied, validators>>, activeSlots \subseteq activeSlots'
      PROVE  ChainInv'
  BY <1>r, <1>a, <1>b DEF ChainInv, AlwaysSomeActive
<1>c. ASSUME NEW s \in SlotIds, NEW st, Leave(s, st),
             slots[s].status = "ACTIVE" => ActiveCount > 1
      PROVE  ChainInv'
  <2>1. UNCHANGED <<lastApplied, validators>> /\ activeSlots' = activeSlots \ {s}
    BY <1>c DEF Leave, chainVars
  <2>2. activeSlots' # {}
    <3>1. CASE slots[s].status = "ACTIVE"
      BY <1>c, <1>r, <2>1, <3>1, ActiveCountFacts
    <3>2. CASE slots[s].status # "ACTIVE"
      BY <1>r, <2>1, <3>2 DEF Registry, ActiveIndexAndPower, ChainInv, AlwaysSomeActive
    <3> QED
      BY <3>1, <3>2
  <2> QED
    BY <1>r, <1>a, <2>1, <2>2 DEF ChainInv, AlwaysSomeActive
<1>1. ASSUME NEW by \in Accounts, NEW op \in Accounts, NEW pay \in Accounts,
             NEW settle \in Accounts, NEW k \in Keys, NEW m \in MetadataValues,
             NEW pol \in PolicyValues,
             RegisterCoreSlot(by, op, k, pay, settle, m, pol)
      PROVE  ChainInv'
  BY <1>b, <1>1 DEF RegisterCoreSlot, chainVars
<1>2. ASSUME NEW by \in Accounts, NEW s \in SlotIds, ActivateCoreSlot(by, s)
      PROVE  ChainInv'
  BY <1>b, <1>2 DEF ActivateCoreSlot, chainVars
<1>3. ASSUME NEW by \in Accounts, NEW s \in SlotIds, InactivateCoreSlot(by, s)
      PROVE  ChainInv'
  <2>1. params.minActiveSlots \in Nat \ {0}
    BY <1>r DEF Registry, ValidParams, TypeOK, ParamDocument
  <2>2. ActiveCount > 1
    BY <1>3, <1>r, <2>1, ActiveCountFacts DEF InactivateCoreSlot
  <2> QED
    BY <1>3, <1>c, <2>2 DEF InactivateCoreSlot
<1>4. ASSUME NEW by \in Accounts, NEW s \in SlotIds, SuspendCoreSlot(by, s)
      PROVE  ChainInv'
  BY <1>4, <1>c DEF SuspendCoreSlot, SuspensionFloor
<1>5. ASSUME NEW by \in Accounts, NEW s \in SlotIds, RemoveCoreSlot(by, s)
      PROVE  ChainInv'
  BY <1>5, <1>c DEF RemoveCoreSlot
<1>6. ASSUME NEW by \in Accounts, NEW s \in SlotIds, NEW k \in Keys, RotateConsensusKey(by, s, k)
      PROVE  ChainInv'
  BY <1>b, <1>6 DEF RotateConsensusKey, chainVars
<1>7. ASSUME NEW by \in Accounts, NEW s \in SlotIds, NEW a,
             \/ UpdatePayoutAddress(by, s, a) \/ UpdateOperatorMetadata(by, s, a)
             \/ UpdateSettlementAddress(by, s, a) \/ UpdateSelectionPolicy(by, s, a)
      PROVE  ChainInv'
  BY <1>b, <1>7 DEF UpdatePayoutAddress, UpdateOperatorMetadata, UpdateSettlementAddress,
                    UpdateSelectionPolicy, OperatorUpdate, chainVars
<1>8. ASSUME NEW by \in Accounts, NEW primary \in Accounts, NEW emergency \in Accounts,
             NEW p \in ParamCandidates, UpdateParams(by, p, primary, emergency)
      PROVE  ChainInv'
  BY <1>b, <1>8 DEF UpdateParams, chainVars
<1>9. ASSUME NEW by \in Accounts, NEW r \in Roles, NEW nominee \in Accounts,
             \/ NominateAuthority(by, r, nominee) \/ AcceptAuthority(by, r)
             \/ CancelAuthorityNomination(by, r)
      PROVE  ChainInv'
  BY <1>b, <1>9 DEF NominateAuthority, AcceptAuthority, CancelAuthorityNomination, Governance,
                    chainVars
<1>10. CASE EndBlock
  <2>1. \A k \in Keys : /\ ApplyUpdates(WantedSet)[k] = WantedSet[k].power
                        /\ WantedSet[k].slot = 0 <=> WantedSet[k].power = 0
    BY EndBlockSucceeds DEF ChainInv
  <2>2. activeSlots' = activeSlots
    BY <1>10 DEF EndBlock
  <2>3. CASE EndBlockOK
    <3>1. lastApplied' = WantedSet /\ validators' = ApplyUpdates(WantedSet)
      BY <1>10, <2>3 DEF EndBlock, Commit
    <3> QED
      BY <1>r, <2>1, <2>2, <3>1
      DEF ChainInv, AlwaysSomeActive, LastAppliedMirrorsCometBFT, AppliedRows
  <2>4. CASE ~ EndBlockOK
    BY <1>b, <1>10, <2>2, <2>4 DEF EndBlock, Commit
  <2> QED
    BY <2>3, <2>4
<1>11. CASE UNCHANGED vars
  BY <1>b, <1>11 DEF vars, chainVars
<1> QED
  BY <1>1, <1>2, <1>3, <1>4, <1>5, <1>6, <1>7, <1>8, <1>9, <1>10, <1>11 DEF Next

\* The invariant of the chain holds in every reachable state.
THEOREM ChainInvariant == Spec => []ChainInv
<1>1. Init => ChainInv
  BY InitChain
<1>2. ChainInv /\ [Next]_vars => ChainInv'
  BY NextChain
<1> QED
  BY <1>1, <1>2, PTL DEF Spec

\* The powers of validators that share one power, and are not more than the ACTIVE
\* slots, add up to at most that power for each of the slots.
LEMMA UniformTotal ==
  ASSUME NEW active, IsFiniteSet(active), NEW key, NEW p \in Nat, NEW power,
         \A k \in Keys : power[k] # 0 =>
           power[k] = p /\ \E s \in active : key[s] = k
  PROVE  TotalPower(power) \in Nat /\ TotalPower(power) <= Cardinality(active) * p
<1> DEFINE units == UNION {{k} \X (1 .. power[k]) : k \in Keys}
           holders == {key[s] : s \in active}
           f == [s \in active |-> key[s]]
<1>1. f \in Surjection(active, holders)
  BY DEF Surjection
<1>2. IsFiniteSet(holders) /\ Cardinality(holders) <= Cardinality(active)
  BY <1>1, FS_Surjection
<1>3. IsFiniteSet(1 .. p) /\ Cardinality(1 .. p) = p
  BY FS_Interval
<1>4. units \subseteq holders \X (1 .. p)
  <2> SUFFICES ASSUME NEW k \in Keys, NEW n \in 1 .. power[k]
               PROVE  k \in holders /\ n \in 1 .. p
    OBVIOUS
  <2>1. power[k] # 0
    OBVIOUS
  <2> QED
    BY <2>1
<1>5. /\ IsFiniteSet(holders \X (1 .. p))
      /\ Cardinality(holders \X (1 .. p)) = Cardinality(holders) * p
  BY <1>2, <1>3, FS_Product
<1>6. Cardinality(units) <= Cardinality(holders) * p
  BY <1>4, <1>5, FS_Subset
<1>7. IsFiniteSet(units) /\ Cardinality(units) \in Nat
  BY <1>4, <1>5, FS_Subset, FS_CardinalityType
<1>8. Cardinality(holders) \in Nat /\ Cardinality(active) \in Nat
  BY <1>2, FS_CardinalityType
<1>9. \A m, n \in Nat : m <= n => m * p <= n * p
  OBVIOUS
<1>10. Cardinality(holders) * p <= Cardinality(active) * p
  BY <1>2, <1>8, <1>9
<1> HIDE DEF units, holders
<1>11. TotalPower(power) = Cardinality(units)
  BY DEF TotalPower, units
<1> QED
  BY <1>6, <1>7, <1>8, <1>10, <1>11

\* The validator set EndBlock asks for is as strong as the ACTIVE slots together.
LEMMA WantedTotal ==
  ASSUME ChainInv
  PROVE  /\ TotalPower(ApplyUpdates(WantedSet)) \in Nat
         /\ TotalPower(ApplyUpdates(WantedSet)) <= ActiveCount * params.slotVotingPower
<1>1. TypeOK /\ Registry /\ ActiveIndexAndPower
  BY DEF ChainInv, Registry
<1>2. activeSlots \subseteq SlotIds /\ params.slotVotingPower \in Nat
  BY <1>1 DEF TypeOK, ParamDocument
<1>3. IsFiniteSet(activeSlots)
  <2>1. IsFiniteSet(SlotIds)
    BY FS_Interval, BoundsAssumption DEF SlotIds
  <2> QED
    BY <1>2, <2>1, FS_Subset
<1>4. \A s \in activeSlots : RotatedSlots[s].power = params.slotVotingPower
  <2>1. \A s \in SlotIds : RotatedSlots[s].power = slots[s].power
    BY <1>1 DEF RotatedSlots, TypeOK, SlotRecord
  <2> QED
    BY <1>1, <1>2, <2>1 DEF ActiveIndexAndPower
<1> DEFINE key == [s \in activeSlots |-> RotatedSlots[s].key]
<1>5. ASSUME NEW k \in Keys, ApplyUpdates(WantedSet)[k] # 0
      PROVE  /\ ApplyUpdates(WantedSet)[k] = params.slotVotingPower
             /\ \E s \in activeSlots : key[s] = k
  <2>1. ApplyUpdates(WantedSet)[k] = WantedSet[k].power
    BY EndBlockSucceeds DEF ChainInv
  <2>2. CASE \E s \in activeSlots : RotatedSlots[s].key = k
    <3> DEFINE c == CHOOSE s \in activeSlots : RotatedSlots[s].key = k
    <3>1. c \in activeSlots
      BY <2>2
    <3>2. WantedSet[k] = [slot |-> c, power |-> RotatedSlots[c].power]
      BY <2>2, Zenon DEF WantedSet, Desired
    <3> HIDE DEF c
    <3> QED
      BY <1>4, <2>1, <2>2, <3>1, <3>2
  <2>3. CASE ~ \E s \in activeSlots : RotatedSlots[s].key = k
    BY <1>5, <2>1, <2>3 DEF WantedSet, Desired, NoValidator
  <2> QED
    BY <2>2, <2>3
<1> HIDE DEF key
<1> QED
  BY <1>2, <1>3, <1>5, UniformTotal DEF ActiveCount

\* What keeps CometBFT content, on top of the chain's invariant: the ACTIVE slots
\* together stay within its bound.  The maximum of the document in force would not
\* do: it may be lowered below the number of slots that are ACTIVE already.
LiveInv ==
  /\ ChainInv
  /\ params \in ParamCandidates
  /\ ActiveCount * params.slotVotingPower <= MaxTotalVotingPower
  /\ ~ halted

\* A step takes slots out, adopts a document that keeps the power, or brings in one
\* slot where the maximum leaves room for it.
LEMMA WhatMovesPower ==
  ASSUME ChainInv, [Next]_vars
  PROVE  \/ activeSlots' \subseteq activeSlots /\ params' = params
         \/ /\ activeSlots' = activeSlots
            /\ params'.slotVotingPower = params.slotVotingPower
            /\ params' \in ParamCandidates
         \/ /\ \E s \in SlotIds : activeSlots' = activeSlots \cup {s}
            /\ ActiveCount < params.maxActiveSlots
            /\ params' = params
<1> DEFINE Fewer == activeSlots' \subseteq activeSlots /\ params' = params
           Adopted == /\ activeSlots' = activeSlots
                      /\ params'.slotVotingPower = params.slotVotingPower
                      /\ params' \in ParamCandidates
           More == /\ \E s \in SlotIds : activeSlots' = activeSlots \cup {s}
                   /\ ActiveCount < params.maxActiveSlots
                   /\ params' = params
<1>1. ASSUME NEW by \in Accounts, NEW op \in Accounts, NEW pay \in Accounts,
             NEW settle \in Accounts, NEW k \in Keys, NEW m \in MetadataValues,
             NEW pol \in PolicyValues,
             RegisterCoreSlot(by, op, k, pay, settle, m, pol)
      PROVE  Fewer
  BY <1>1 DEF RegisterCoreSlot
<1>2. ASSUME NEW by \in Accounts, NEW s \in SlotIds, ActivateCoreSlot(by, s)
      PROVE  More
  BY <1>2 DEF ActivateCoreSlot
<1>3. ASSUME NEW by \in Accounts, NEW s \in SlotIds,
             \/ InactivateCoreSlot(by, s) \/ SuspendCoreSlot(by, s) \/ RemoveCoreSlot(by, s)
      PROVE  Fewer
  BY <1>3 DEF InactivateCoreSlot, SuspendCoreSlot, RemoveCoreSlot, Leave
<1>4. ASSUME NEW by \in Accounts, NEW s \in SlotIds, NEW k \in Keys, RotateConsensusKey(by, s, k)
      PROVE  Fewer
  BY <1>4 DEF RotateConsensusKey
<1>5. ASSUME NEW by \in Accounts, NEW s \in SlotIds, NEW a,
             \/ UpdatePayoutAddress(by, s, a) \/ UpdateOperatorMetadata(by, s, a)
             \/ UpdateSettlementAddress(by, s, a) \/ UpdateSelectionPolicy(by, s, a)
      PROVE  Fewer
  BY <1>5 DEF UpdatePayoutAddress, UpdateOperatorMetadata, UpdateSettlementAddress,
              UpdateSelectionPolicy, OperatorUpdate
<1>6. ASSUME NEW by \in Accounts, NEW primary \in Accounts, NEW emergency \in Accounts,
             NEW p \in ParamCandidates, UpdateParams(by, p, primary, emergency)
      PROVE  Adopted
  <2>1. activeSlots # {} /\ TypeOK
    BY DEF ChainInv, Registry, AlwaysSomeActive
  <2>2. IsFiniteSet(activeSlots)
    <3>1. IsFiniteSet(SlotIds)
      BY FS_Interval, BoundsAssumption DEF SlotIds
    <3> QED
      BY <2>1, <3>1, FS_Subset DEF TypeOK
  <2>3. ActiveCount > 0
    BY <2>1, <2>2, FS_EmptySet, FS_CardinalityType DEF ActiveCount
  <2> QED
    BY <1>6, <2>3 DEF UpdateParams, PowerFrozen
<1>7. ASSUME NEW by \in Accounts, NEW r \in Roles, NEW nominee \in Accounts,
             \/ NominateAuthority(by, r, nominee) \/ AcceptAuthority(by, r)
             \/ CancelAuthorityNomination(by, r)
      PROVE  Fewer
  BY <1>7 DEF NominateAuthority, AcceptAuthority, CancelAuthorityNomination, Governance
<1>8. ASSUME EndBlock PROVE Fewer
  BY <1>8 DEF EndBlock
<1>9. ASSUME UNCHANGED vars PROVE Fewer
  BY <1>9 DEF vars
<1> HIDE DEF Fewer, Adopted, More
<1>10. Fewer \/ Adopted \/ More
  <2>1. CASE Next
    BY <1>1, <1>2, <1>3, <1>4, <1>5, <1>6, <1>7, <1>8, <2>1, Zenon DEF Next
  <2>2. CASE UNCHANGED vars
    BY <1>9, <2>2
  <2> QED
    BY <2>1, <2>2
<1> QED
  BY <1>10 DEF Fewer, Adopted, More

\* Only an EndBlock that fails halts the chain.
LEMMA WhatHalts ==
  ASSUME ~ halted, [Next]_vars, halted'
  PROVE  EndBlock /\ ~ EndBlockOK
<1> DEFINE Same == halted' = halted
<1>1. ASSUME NEW by \in Accounts, NEW op \in Accounts, NEW pay \in Accounts,
             NEW settle \in Accounts, NEW k \in Keys, NEW m \in MetadataValues,
             NEW pol \in PolicyValues,
             RegisterCoreSlot(by, op, k, pay, settle, m, pol)
      PROVE  Same
  BY <1>1 DEF RegisterCoreSlot, chainVars
<1>2. ASSUME NEW by \in Accounts, NEW s \in SlotIds, ActivateCoreSlot(by, s)
      PROVE  Same
  BY <1>2 DEF ActivateCoreSlot, chainVars
<1>3. ASSUME NEW by \in Accounts, NEW s \in SlotIds,
             \/ InactivateCoreSlot(by, s) \/ SuspendCoreSlot(by, s) \/ RemoveCoreSlot(by, s)
      PROVE  Same
  BY <1>3 DEF InactivateCoreSlot, SuspendCoreSlot, RemoveCoreSlot, Leave, chainVars
<1>4. ASSUME NEW by \in Accounts, NEW s \in SlotIds, NEW k \in Keys, RotateConsensusKey(by, s, k)
      PROVE  Same
  BY <1>4 DEF RotateConsensusKey, chainVars
<1>5. ASSUME NEW by \in Accounts, NEW s \in SlotIds, NEW a,
             \/ UpdatePayoutAddress(by, s, a) \/ UpdateOperatorMetadata(by, s, a)
             \/ UpdateSettlementAddress(by, s, a) \/ UpdateSelectionPolicy(by, s, a)
      PROVE  Same
  BY <1>5 DEF UpdatePayoutAddress, UpdateOperatorMetadata, UpdateSettlementAddress,
              UpdateSelectionPolicy, OperatorUpdate, chainVars
<1>6. ASSUME NEW by \in Accounts, NEW primary \in Accounts, NEW emergency \in Accounts,
             NEW p \in ParamCandidates, UpdateParams(by, p, primary, emergency)
      PROVE  Same
  BY <1>6 DEF UpdateParams, chainVars
<1>7. ASSUME NEW by \in Accounts, NEW r \in Roles, NEW nominee \in Accounts,
             \/ NominateAuthority(by, r, nominee) \/ AcceptAuthority(by, r)
             \/ CancelAuthorityNomination(by, r)
      PROVE  Same
  BY <1>7 DEF NominateAuthority, AcceptAuthority, CancelAuthorityNomination, Governance, chainVars
<1>8. ASSUME UNCHANGED vars PROVE Same
  BY <1>8 DEF vars, chainVars
<1> HIDE DEF Same
<1>9. EndBlock \/ Same
  <2>1. CASE Next
    BY <1>1, <1>2, <1>3, <1>4, <1>5, <1>6, <1>7, <2>1, Zenon DEF Next
  <2>2. CASE UNCHANGED vars
    BY <1>8, <2>2
  <2> QED
    BY <2>1, <2>2
<1>10. EndBlock
  BY <1>9 DEF Same
<1>11. halted' = ~ EndBlockOK
  BY <1>10 DEF EndBlock
<1> QED
  BY <1>10, <1>11

\* Every step leaves the ACTIVE slots within CometBFT's bound, and the chain running.
LEMMA NextLive ==
  ASSUME PowerFits, LiveInv, [Next]_vars
  PROVE  LiveInv'
<1> DEFINE n == ActiveCount
           p == params.slotVotingPower
<1>0. TypeOK /\ TypeOK' /\ ChainInv /\ ChainInv' /\ ValidParams(params)
  BY NextChain DEF LiveInv, ChainInv, Registry
<1>1. /\ params \in ParamCandidates /\ p \in Nat /\ params.maxActiveSlots \in Nat
      /\ n * p <= MaxTotalVotingPower
      /\ params.maxActiveSlots * p <= MaxTotalVotingPower
  BY <1>0 DEF LiveInv, PowerFits, TypeOK, ParamDocument
<1>2. MaxTotalVotingPower \in Nat
  BY BoundsAssumption DEF MaxTotalVotingPower
<1>3. IsFiniteSet(activeSlots) /\ IsFiniteSet(activeSlots')
  <2>1. IsFiniteSet(SlotIds)
    BY FS_Interval, BoundsAssumption DEF SlotIds
  <2> QED
    BY <1>0, <2>1, FS_Subset DEF TypeOK
<1>4. n \in Nat /\ n' \in Nat /\ n' = Cardinality(activeSlots')
  BY <1>3, FS_CardinalityType DEF ActiveCount
<1>5. \A x, y \in Nat : x <= y => x * p <= y * p
  BY <1>1
<1>6. params' \in ParamCandidates /\ n' * params'.slotVotingPower <= MaxTotalVotingPower
  <2>1. CASE activeSlots' \subseteq activeSlots /\ params' = params
    <3>1. n' <= n
      BY <1>3, <1>4, <2>1, FS_Subset DEF ActiveCount
    <3>2. n' * p <= n * p
      BY <1>4, <1>5, <3>1
    <3>3. n' * p \in Nat /\ n * p \in Nat
      BY <1>1, <1>4
    <3> HIDE DEF n
    <3> QED
      BY <1>1, <1>2, <2>1, <3>2, <3>3
  <2>2. CASE /\ activeSlots' = activeSlots
             /\ params'.slotVotingPower = params.slotVotingPower
             /\ params' \in ParamCandidates
    BY <1>1, <2>2 DEF ActiveCount
  <2>3. CASE /\ \E s \in SlotIds : activeSlots' = activeSlots \cup {s}
             /\ ActiveCount < params.maxActiveSlots
             /\ params' = params
    <3>1. n' <= n + 1
      BY <1>3, <1>4, <2>3, FS_AddElement DEF ActiveCount
    <3> HIDE DEF n
    <3>2. n' <= params.maxActiveSlots
      BY <1>1, <1>4, <2>3, <3>1 DEF n
    <3>3. n' * p <= params.maxActiveSlots * p
      BY <1>1, <1>4, <1>5, <3>2
    <3>4. n' * p \in Nat /\ params.maxActiveSlots * p \in Nat
      BY <1>1, <1>4
    <3> QED
      BY <1>1, <1>2, <2>3, <3>3, <3>4
  <2> QED
    BY <1>0, <2>1, <2>2, <2>3, WhatMovesPower
<1>7. ~ halted'
  <2> SUFFICES ASSUME halted' PROVE FALSE
    OBVIOUS
  <2>1. EndBlock /\ ~ EndBlockOK
    BY WhatHalts DEF LiveInv
  <2>2. TotalPower(ApplyUpdates(WantedSet)) <= n * p
    BY <1>0, WantedTotal
  <2>3. TotalPower(ApplyUpdates(WantedSet)) <= MaxTotalVotingPower
    <3>1. n * p \in Nat
      BY <1>1, <1>4
    <3>2. TotalPower(ApplyUpdates(WantedSet)) \in Int
      BY <1>0, WantedTotal
    <3> QED
      BY <1>1, <1>2, <2>2, <3>1, <3>2
  <2> QED
    BY <1>0, <2>1, <2>3, EndBlockSucceeds DEF ChainInv
<1> QED
  BY <1>0, <1>6, <1>7 DEF LiveInv, ActiveCount

\* While no admissible document asks for more power than CometBFT takes, EndBlock
\* never returns an error and CometBFT never refuses its updates.
THEOREM ChainNeverHalts == Spec => []NeverHalts
<1>1. CASE PowerFits
  <2>1. Init => LiveInv
    <3> SUFFICES ASSUME Init PROVE LiveInv
      OBVIOUS
    <3>1. ChainInv /\ params \in ParamCandidates /\ ValidParams(params) /\ ~ halted
      BY InitChain DEF Init
    <3>2. /\ params.maxActiveSlots * params.slotVotingPower <= MaxTotalVotingPower
          /\ params.maxActiveSlots \in Nat /\ params.slotVotingPower \in Nat
      BY <1>1, <3>1, BoundsAssumption DEF PowerFits, ParamDocument
    <3>3. ActiveCount \in Nat /\ ActiveCount <= params.maxActiveSlots
      <4>1. ActiveCount \in Nat
        BY <3>1, ActiveCountFacts DEF ChainInv, Registry
      <4>2. ActiveCount \in params.minActiveSlots .. params.maxActiveSlots
        BY DEF Init
      <4> QED
        BY <4>1, <4>2
    <3>4. \A x, y, p \in Nat : x <= y => x * p <= y * p
      OBVIOUS
    <3>5. ActiveCount * params.slotVotingPower <= params.maxActiveSlots * params.slotVotingPower
      BY <3>2, <3>3, <3>4
    <3>6. MaxTotalVotingPower \in Nat
      BY BoundsAssumption DEF MaxTotalVotingPower
    <3>7. /\ ActiveCount * params.slotVotingPower \in Nat
          /\ params.maxActiveSlots * params.slotVotingPower \in Nat
      BY <3>2, <3>3
    <3>8. ActiveCount * params.slotVotingPower <= MaxTotalVotingPower
      BY <3>2, <3>5, <3>6, <3>7
    <3> QED
      BY <3>1, <3>8 DEF LiveInv
  <2>2. LiveInv /\ [Next]_vars => LiveInv'
    BY <1>1, NextLive
  <2>3. LiveInv => NeverHalts
    BY DEF LiveInv, NeverHalts
  <2> QED
    BY <2>1, <2>2, <2>3, PTL DEF Spec
<1>2. CASE ~ PowerFits
  <2>1. NeverHalts
    BY <1>2 DEF NeverHalts
  <2> QED
    BY <2>1, PTL
<1> QED
  BY <1>1, <1>2

\* The ACTIVE set is never empty, whatever the parameters waive.
THEOREM FloorHolds == Spec => []AlwaysSomeActive
<1>1. ChainInv => AlwaysSomeActive
  BY DEF ChainInv
<1> QED
  BY <1>1, ChainInvariant, PTL

\* LastApplied is CometBFT's validator set at every moment of a block.
THEOREM MirrorHolds == Spec => []LastAppliedMirrorsCometBFT
<1>1. ChainInv => LastAppliedMirrorsCometBFT
  BY DEF ChainInv
<1> QED
  BY <1>1, ChainInvariant, PTL

-----------------------------------------------------------------------------
(* CoreSlot implements SlotDirectory, for every value of the constants:    *)
(* what x/rewards and x/mining assume of the slots holds of the registry.  *)

\* What a reader sees of a slot.
Seen(slot) == <<slot.status, slot.payout, slot.settlement>>

\* A genesis document maps to an initial directory: one slot at least is ACTIVE
\* and exactly the slots it lists have addresses.
LEMMA InitDirectory == Init => Directory!DirectoryInit
<1> SUFFICES ASSUME Init PROVE Directory!DirectoryInit
  OBVIOUS
<1>1. ChainInv /\ TypeOK /\ ActiveIndexAndPower /\ activeSlots # {}
  BY InitChain DEF ChainInv, Registry, AlwaysSomeActive
<1>2. PICK status \in [GenesisIds -> {"PENDING", "ACTIVE"}],
           op \in [GenesisIds -> Accounts], key \in [GenesisIds -> Keys],
           a \in [GenesisIds -> EconomicAccounts], pol \in [GenesisIds -> PolicyValues] :
        /\ Injective(op) /\ Injective(key)
        /\ slots = [s \in SlotIds |->
             IF s \in GenesisIds
             THEN GenesisSlot(status[s], op[s], key[s], a[s], params) ELSE AbsentSlot]
        /\ policies = [s \in SlotIds |-> [v \in Versions |->
             IF s \in GenesisIds /\ v = 1 THEN OpenRow(pol[s], 1) ELSE NoPolicyRow]]
  BY Zenon DEF Init
<1>3. ASSUME NEW s \in SlotIds
      PROVE  /\ slots[s].status \in {"ABSENT", "PENDING", "ACTIVE"}
             /\ slots[s].payout \in EconomicAccounts \cup {NoAccount}
             /\ slots[s].settlement \in EconomicAccounts \cup {NoAccount}
             /\ slots[s].payout = NoAccount <=> slots[s].status = "ABSENT"
             /\ slots[s].settlement = NoAccount <=> slots[s].status = "ABSENT"
  <2>1. CASE s \in GenesisIds
    <3>1. slots[s] = GenesisSlot(status[s], op[s], key[s], a[s], params)
      BY <1>2, <2>1
    <3>2. slots[s].status = status[s] /\ slots[s].payout = a[s] /\ slots[s].settlement = a[s]
      BY <3>1 DEF GenesisSlot
    <3>3. status[s] \in {"PENDING", "ACTIVE"} /\ a[s] \in EconomicAccounts
      BY <2>1
    <3> QED
      BY <3>2, <3>3, NamesAssumption
  <2>2. CASE s \notin GenesisIds
    BY <1>2, <2>2 DEF AbsentSlot
  <2> QED
    BY <2>1, <2>2
<1>4. \E s \in SlotIds : slots[s].status = "ACTIVE"
  BY <1>1 DEF ActiveIndexAndPower, TypeOK
<1>5. holder \in [Roles -> Accounts]
  BY <1>1 DEF TypeOK
<1> QED
  BY <1>3, <1>4, <1>5 DEF Directory!DirectoryInit, Directory!ActiveSlots, Directory!Roles, Roles

\* A step that changes nothing a reader sees is a stutter of the directory.
LEMMA DirectoryStutter ==
  ASSUME \A s \in SlotIds : Seen(slots[s])' = Seen(slots[s]), UNCHANGED holder
  PROVE  UNCHANGED Directory!directoryVars
BY DEF Seen, Directory!directoryVars

\* A change of status along an edge of the lifecycle that leaves a slot ACTIVE.
LEMMA DirectoryMove ==
  ASSUME TypeOK, NEW s \in SlotIds, NEW to \in Statuses,
         <<slots[s].status, to>> \in Directory!LifecycleEdges,
         slots'[s].status = to, slots'[s].payout = slots[s].payout,
         slots'[s].settlement = slots[s].settlement,
         \A t \in SlotIds : t # s => slots'[t] = slots[t],
         UNCHANGED holder, \E t \in SlotIds : slots'[t].status = "ACTIVE"
  PROVE  Directory!DirectoryNext
<1>1. Directory!Move(s, to)
  BY DEF Directory!Move
<1>2. to \in Directory!Statuses
  BY DEF Directory!Statuses, Statuses
<1> QED
  BY <1>1, <1>2 DEF Directory!DirectoryNext

\* Every step of the registry is a step or a stutter of the directory.
LEMMA NextDirectory ==
  ChainInv /\ ChainInv' /\ [Next]_vars => [Directory!DirectoryNext]_(Directory!directoryVars)
<1> SUFFICES ASSUME ChainInv, ChainInv', [Next]_vars
             PROVE  Directory!DirectoryNext \/ UNCHANGED Directory!directoryVars
  BY Zenon
<1>t. TypeOK /\ TypeOK' /\ slots \in [SlotIds -> SlotRecord]
  BY DEF ChainInv, Registry, TypeOK
<1>a. \E t \in SlotIds : slots'[t].status = "ACTIVE"
  BY DEF ChainInv, Registry, AlwaysSomeActive, ActiveIndexAndPower, TypeOK
<1>s. ASSUME \A s \in SlotIds : Seen(slots[s])' = Seen(slots[s]), UNCHANGED holder
      PROVE  UNCHANGED Directory!directoryVars
  BY <1>s, DirectoryStutter
<1>1. ASSUME NEW by \in Accounts, NEW op \in Accounts, NEW pay \in Accounts,
             NEW settle \in Accounts, NEW k \in Keys, NEW m \in MetadataValues,
             NEW pol \in PolicyValues,
             RegisterCoreSlot(by, op, k, pay, settle, m, pol)
      PROVE  Directory!DirectoryNext
  <2>1. /\ nextSlotID \in SlotIds /\ slots[nextSlotID].status = "ABSENT"
        /\ pay \in EconomicAccounts /\ settle \in EconomicAccounts /\ UNCHANGED holder
    BY <1>1, <1>t DEF RegisterCoreSlot, FreshID, Exists, govVars, TypeOK
  <2>2. /\ slots'[nextSlotID].status = "PENDING" /\ slots'[nextSlotID].payout = pay
        /\ slots'[nextSlotID].settlement = settle
        /\ \A t \in SlotIds : t # nextSlotID => slots'[t] = slots[t]
    BY <1>1, <1>t, <2>1 DEF RegisterCoreSlot
  <2>3. Directory!Register(nextSlotID, pay, settle)
    BY <2>1, <2>2 DEF Directory!Register
  <2> QED
    BY <2>1, <2>3 DEF Directory!DirectoryNext
<1>2. ASSUME NEW by \in Accounts, NEW s \in SlotIds, ActivateCoreSlot(by, s)
      PROVE  Directory!DirectoryNext
  <2>1. /\ <<slots[s].status, "ACTIVE">> \in Directory!LifecycleEdges
        /\ UNCHANGED holder
    BY <1>2 DEF ActivateCoreSlot, CanActivate, Directory!LifecycleEdges, govVars
  <2>2. /\ slots'[s].status = "ACTIVE" /\ slots'[s].payout = slots[s].payout
        /\ slots'[s].settlement = slots[s].settlement
        /\ \A t \in SlotIds : t # s => slots'[t] = slots[t]
    BY <1>2, <1>t DEF ActivateCoreSlot, SlotRecord
  <2> QED
    BY <1>t, <1>a, <2>1, <2>2, DirectoryMove DEF Statuses
<1>l. ASSUME NEW s \in SlotIds, NEW to \in Statuses, Leave(s, to),
             <<slots[s].status, to>> \in Directory!LifecycleEdges
      PROVE  Directory!DirectoryNext
  <2>1. UNCHANGED holder
    BY <1>l DEF Leave, govVars
  <2>2. /\ slots'[s].status = to /\ slots'[s].payout = slots[s].payout
        /\ slots'[s].settlement = slots[s].settlement
        /\ \A t \in SlotIds : t # s => slots'[t] = slots[t]
    BY <1>l, <1>t DEF Leave, SlotRecord
  <2> QED
    BY <1>l, <1>t, <1>a, <2>1, <2>2, DirectoryMove
<1>3. ASSUME NEW by \in Accounts, NEW s \in SlotIds, InactivateCoreSlot(by, s)
      PROVE  Directory!DirectoryNext
  BY <1>3, <1>l DEF InactivateCoreSlot, Directory!LifecycleEdges, Statuses
<1>4. ASSUME NEW by \in Accounts, NEW s \in SlotIds, SuspendCoreSlot(by, s)
      PROVE  Directory!DirectoryNext
  BY <1>4, <1>l DEF SuspendCoreSlot, Directory!LifecycleEdges, Statuses
<1>5. ASSUME NEW by \in Accounts, NEW s \in SlotIds, RemoveCoreSlot(by, s)
      PROVE  Directory!DirectoryNext
  BY <1>5, <1>l DEF RemoveCoreSlot, Directory!LifecycleEdges, Statuses
<1>6. ASSUME NEW by \in Accounts, NEW s \in SlotIds, NEW k \in Keys, RotateConsensusKey(by, s, k)
      PROVE  UNCHANGED Directory!directoryVars
  BY <1>6, <1>t, <1>s DEF RotateConsensusKey, govVars, Seen, SlotRecord
<1>7. ASSUME NEW by \in Accounts, NEW s \in SlotIds, NEW a \in Accounts,
             UpdatePayoutAddress(by, s, a)
      PROVE  Directory!DirectoryNext
  <2>1. /\ slots[s].status \in {"PENDING", "ACTIVE", "INACTIVE"}
        /\ a \in EconomicAccounts /\ UNCHANGED holder
        /\ slots' = [slots EXCEPT ![s].payout = a]
    BY <1>7 DEF UpdatePayoutAddress, OperatorUpdate, OperatorMutationAllowed, govVars
  <2>2. /\ slots'[s].status = slots[s].status /\ slots'[s].payout = a
        /\ slots'[s].settlement = slots[s].settlement
        /\ \A t \in SlotIds : t # s => slots'[t] = slots[t]
    BY <1>t, <2>1 DEF SlotRecord
  <2>3. Directory!ChangePayout(s, a)
    <3>1. [t \in SlotIds |-> slots'[t].status] = [t \in SlotIds |-> slots[t].status]
      BY <2>2
    <3>2. [t \in SlotIds |-> slots'[t].settlement] = [t \in SlotIds |-> slots[t].settlement]
      BY <2>2
    <3>3. [t \in SlotIds |-> slots'[t].payout]
            = [[t \in SlotIds |-> slots[t].payout] EXCEPT ![s] = a]
      BY <2>2
    <3>4. [t \in SlotIds |-> slots[t].status][s] \in {"PENDING", "ACTIVE", "INACTIVE"}
      BY <2>1
    <3> QED
      BY <2>1, <3>1, <3>2, <3>3, <3>4 DEF Directory!ChangePayout
  <2> QED
    BY <2>1, <2>3 DEF Directory!DirectoryNext
<1>8. ASSUME NEW by \in Accounts, NEW s \in SlotIds, NEW a \in Accounts,
             UpdateSettlementAddress(by, s, a)
      PROVE  Directory!DirectoryNext
  <2>1. /\ slots[s].status \in {"PENDING", "ACTIVE", "INACTIVE"}
        /\ a \in EconomicAccounts /\ UNCHANGED holder
        /\ slots' = [slots EXCEPT ![s].settlement = a]
    BY <1>8 DEF UpdateSettlementAddress, OperatorUpdate, OperatorMutationAllowed, govVars
  <2>2. /\ slots'[s].status = slots[s].status /\ slots'[s].settlement = a
        /\ slots'[s].payout = slots[s].payout
        /\ \A t \in SlotIds : t # s => slots'[t] = slots[t]
    BY <1>t, <2>1 DEF SlotRecord
  <2>3. Directory!ChangeSettlement(s, a)
    <3>1. [t \in SlotIds |-> slots'[t].status] = [t \in SlotIds |-> slots[t].status]
      BY <2>2
    <3>2. [t \in SlotIds |-> slots'[t].payout] = [t \in SlotIds |-> slots[t].payout]
      BY <2>2
    <3>3. [t \in SlotIds |-> slots'[t].settlement]
            = [[t \in SlotIds |-> slots[t].settlement] EXCEPT ![s] = a]
      BY <2>2
    <3>4. [t \in SlotIds |-> slots[t].status][s] \in {"PENDING", "ACTIVE", "INACTIVE"}
      BY <2>1
    <3> QED
      BY <2>1, <3>1, <3>2, <3>3, <3>4 DEF Directory!ChangeSettlement
  <2> QED
    BY <2>1, <2>3 DEF Directory!DirectoryNext
<1>9. ASSUME NEW by \in Accounts, NEW s \in SlotIds, NEW m \in MetadataValues,
             UpdateOperatorMetadata(by, s, m)
      PROVE  UNCHANGED Directory!directoryVars
  BY <1>9, <1>t, <1>s DEF UpdateOperatorMetadata, OperatorUpdate, govVars, Seen, SlotRecord
<1>10. ASSUME NEW by \in Accounts, NEW s \in SlotIds, NEW pol \in PolicyValues,
              UpdateSelectionPolicy(by, s, pol)
       PROVE  UNCHANGED Directory!directoryVars
  BY <1>10, <1>t, <1>s DEF UpdateSelectionPolicy, govVars, Seen, SlotRecord
<1>11. ASSUME NEW by \in Accounts, NEW primary \in Accounts, NEW emergency \in Accounts,
              NEW p \in ParamCandidates, UpdateParams(by, p, primary, emergency)
       PROVE  UNCHANGED Directory!directoryVars
  <2>1. UNCHANGED slots
    BY <1>11 DEF UpdateParams
  <2>2. holder' = holder
    BY <1>11, <1>t DEF UpdateParams, SameHolders, TypeOK, Roles
  <2> QED
    BY <1>s, <2>1, <2>2 DEF Seen
<1>12. ASSUME NEW by \in Accounts, NEW r \in Roles, NEW nominee \in Accounts,
              NominateAuthority(by, r, nominee) \/ CancelAuthorityNomination(by, r)
       PROVE  UNCHANGED Directory!directoryVars
  BY <1>12, <1>s DEF NominateAuthority, CancelAuthorityNomination, Governance, Seen
<1>13. ASSUME NEW by \in Accounts, NEW r \in Roles, AcceptAuthority(by, r)
       PROVE  Directory!DirectoryNext
  <2>1. Directory!HandOver(r, by) /\ by \in EconomicAccounts
    BY <1>13 DEF AcceptAuthority, Governance, Directory!HandOver
  <2> QED
    BY <2>1 DEF Directory!DirectoryNext, Directory!Roles, Roles
<1>14. ASSUME EndBlock PROVE UNCHANGED Directory!directoryVars
  <2>1. \A s \in SlotIds : Seen(RotatedSlots[s]) = Seen(slots[s])
    BY <1>t DEF RotatedSlots, Seen, SlotRecord
  <2>2. (slots' = RotatedSlots \/ slots' = slots) /\ UNCHANGED holder
    BY <1>14 DEF EndBlock, Commit, govVars
  <2> QED
    BY <1>s, <2>1, <2>2 DEF Seen
<1>15. ASSUME UNCHANGED vars PROVE UNCHANGED Directory!directoryVars
  BY <1>15, <1>s DEF vars, govVars, Seen
<1> QED
  BY <1>1, <1>2, <1>3, <1>4, <1>5, <1>6, <1>7, <1>8, <1>9, <1>10, <1>11, <1>12, <1>13, <1>14,
     <1>15 DEF Next

\* The registry implements the directory: to x/rewards and x/mining, records
\* follow the lifecycle and never vanish, their addresses change to admissible
\* ones only, and some slot is ACTIVE in every state.
THEOREM RegistryImplementsDirectory == Spec => ImplementsDirectory
<1>1. Init => Directory!DirectoryInit
  BY InitDirectory
<1>2. ChainInv /\ ChainInv' /\ [Next]_vars => [Directory!DirectoryNext]_(Directory!directoryVars)
  BY NextDirectory
<1> QED
  BY <1>1, <1>2, ChainInvariant, PTL DEF Spec, ImplementsDirectory, Directory!DirectorySpec

=============================================================================
