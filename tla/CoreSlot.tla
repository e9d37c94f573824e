------------------------------ MODULE CoreSlot ------------------------------
(***************************************************************************)
(* x/coreslot: the registry of validator slots of a proof-of-authority     *)
(* chain, and the only source of CometBFT validator updates.               *)
(*                                                                         *)
(* The stores of the keeper are total functions here; an absent key is     *)
(* the value the comment next to the variable names.  A transaction is one *)
(* action: the handler either performs all its writes or returns an error  *)
(* and the transaction cache is dropped, so an error is a disabled action. *)
(* EndBlock closes the block and opens the next height.                    *)
(***************************************************************************)
EXTENDS Integers, FiniteSets

CONSTANTS
  Keys,             \* consensus addresses
  NoKey,
  Accounts,         \* account addresses
  NoAccount,
  EconomicAccounts, \* the accounts economicaddress.Validate admits
  MetadataValues,   \* operator metadata, never read by the protocol
  NoMetadata,
  PolicyValues,     \* admissible (selection_rate_bps, max_selected_participants)
  NoPolicy,
  ParamCandidates,  \* the parameter documents the authority may submit
  GenesisIds,       \* identifiers of the slots in the genesis document
  GenesisHolders,   \* the role assignments genesis documents make
  HardMaxActiveCoreSlots,
  HardMinCooldown,  \* HardMinSelectionPolicyUpdateCooldownBlocks
  MaxSlotID,        \* top of the slot identifier range (uint64)
  MaxSequence,      \* top of the activation sequence range (uint64)
  MaxVersion,       \* top of the policy version range (uint64)
  IntMax,           \* top of the int64 range
  MaxHeight         \* bound of the model: the last block

Roles == {"PRIMARY", "EMERGENCY"}

ParamDocument ==
  [slotVotingPower : Nat, minActiveSlots : Nat, maxActiveSlots : Nat,
   keyRotationDelay : Nat, reuseLockout : Nat, belowMin : BOOLEAN,
   cooldown : Nat]

ASSUME BoundsAssumption ==
  /\ MaxSlotID \in Nat \ {0}
  /\ MaxSequence \in Nat \ {0}
  /\ MaxVersion \in Nat \ {0}
  /\ IntMax \in Nat
  /\ MaxHeight \in Nat \ {0}
  /\ HardMaxActiveCoreSlots \in Nat
  /\ HardMinCooldown \in Nat \ {0}
  /\ ParamCandidates \subseteq ParamDocument

ASSUME NamesAssumption ==
  /\ NoKey \notin Keys
  /\ NoAccount \notin Accounts
  /\ NoPolicy \notin PolicyValues
  /\ EconomicAccounts \subseteq Accounts
  /\ GenesisIds \subseteq 1 .. (MaxSlotID - 1)
  /\ GenesisHolders \subseteq [Roles -> Accounts]
  /\ MetadataValues # {}

SlotIds == 1 .. MaxSlotID
Versions == 1 .. MaxVersion
Heights == 1 .. (MaxHeight + 1)
Statuses == {"ABSENT", "PENDING", "ACTIVE", "INACTIVE", "SUSPENDED", "REMOVED"}

VARIABLES
  height,           \* height of the block being executed
  halted,           \* an EndBlock returned an error: no further block
  params,           \* Params without the two authority fields
  holder,           \* Params.Authority and Params.EmergencyAuthority
  pendingAuthority, \* PendingAuthority; NoAccount when there is no nomination
  slots,            \* Slots; status "ABSENT" when there is no record
  nextSlotID,       \* NextSlotID
  activeSlots,      \* ActiveSlots, the membership index
  byOperator,       \* ByOperator; 0 when absent
  byConsensus,      \* ByConsensus; 0 when absent
  reserved,         \* Reserved; slot 0 when absent
  rotations,        \* Rotations; new = NoKey when absent
  lastApplied,      \* LastApplied; slot 0 when absent
  validators,       \* CometBFT's validator set (external): key -> power, 0 when out
  policies,         \* SelectionPolicies; from = 0 when absent
  policyStarts,     \* PolicyStarts, the seek index; 0 when absent
  lockedUntil       \* history: when the last lockout of a key should end

govVars == <<holder, pendingAuthority>>
policyVars == <<policies, policyStarts>>
chainVars == <<height, halted, lastApplied, validators>>
keyVars == <<byConsensus, reserved, rotations, lockedUntil>>
vars == <<govVars, policyVars, chainVars, keyVars,
          params, slots, nextSlotID, activeSlots, byOperator>>

SlotRecord ==
  [status : Statuses, operator : Accounts \cup {NoAccount},
   key : Keys \cup {NoKey}, payout : Accounts \cup {NoAccount},
   settlement : Accounts \cup {NoAccount}, metadata : MetadataValues \cup {NoMetadata},
   power : Nat, sequence : 0 .. MaxSequence, effective : Nat,
   policyVersion : 0 .. MaxVersion, lastPolicyUpdate : Nat]

AbsentSlot ==
  [status |-> "ABSENT", operator |-> NoAccount, key |-> NoKey,
   payout |-> NoAccount, settlement |-> NoAccount, metadata |-> NoMetadata,
   power |-> 0, sequence |-> 0, effective |-> 0,
   policyVersion |-> 0, lastPolicyUpdate |-> 0]

\* "promised" is history: the height the delay in force at the request asks for,
\* without the machine arithmetic.
Rotation ==
  [old : Keys \cup {NoKey}, new : Keys \cup {NoKey}, requested : Nat, effective : Int,
   promised : Nat]
NoRotation ==
  [old |-> NoKey, new |-> NoKey, requested |-> 0, effective |-> 0, promised |-> 0]
Reservation == [slot : 0 .. MaxSlotID, until : Int]
NoReservation == [slot |-> 0, until |-> 0]
Validator == [slot : 0 .. MaxSlotID, power : Nat]
NoValidator == [slot |-> 0, power |-> 0]
PolicyRow == [value : PolicyValues \cup {NoPolicy}, from : Nat, until : Nat]
NoPolicyRow == [value |-> NoPolicy, from |-> 0, until |-> 0]

TypeOK ==
  /\ height \in 1 .. MaxHeight
  /\ halted \in BOOLEAN
  /\ params \in ParamDocument
  /\ holder \in [Roles -> Accounts]
  /\ pendingAuthority \in [Roles -> Accounts \cup {NoAccount}]
  /\ slots \in [SlotIds -> SlotRecord]
  /\ nextSlotID \in SlotIds
  /\ activeSlots \subseteq SlotIds
  /\ byOperator \in [Accounts -> 0 .. MaxSlotID]
  /\ byConsensus \in [Keys -> 0 .. MaxSlotID]
  /\ reserved \in [Keys -> Reservation]
  /\ rotations \in [SlotIds -> Rotation]
  /\ lastApplied \in [Keys -> Validator]
  /\ validators \in [Keys -> Nat]
  /\ policies \in [SlotIds -> [Versions -> PolicyRow]]
  /\ policyStarts \in [SlotIds -> [Heights -> 0 .. MaxVersion]]
  /\ lockedUntil \in [Keys -> Nat]

-----------------------------------------------------------------------------
(* Helpers of the keeper.                                                  *)

\* int64 arithmetic wraps around: conversion of a uint64 and the unchecked sum.
Int64(x) == ((x + IntMax + 1) % (2 * (IntMax + 1))) - (IntMax + 1)
HeightPlus(blocks) == Int64(height + Int64(blocks))

ValidParams(p) ==
  /\ p.slotVotingPower > 0
  /\ p.minActiveSlots # 0
  /\ p.maxActiveSlots >= p.minActiveSlots
  /\ p.maxActiveSlots <= HardMaxActiveCoreSlots
  /\ p.maxActiveSlots <= IntMax \div p.slotVotingPower   \* the product fits in int64
  /\ p.cooldown >= HardMinCooldown

\* A transaction runs on a live chain and is signed by one of the accounts named.
SignedBy(by, who) == ~ halted /\ by \in who

ActiveCount == Cardinality(activeSlots)
Exists(s) == slots[s].status # "ABSENT"
Pending(s) == rotations[s].new # NoKey
OperatorMutationAllowed(s) == slots[s].status \in {"PENDING", "ACTIVE", "INACTIVE"}

ConsensusAvailable_ReservationOnly(k) ==
  reserved[k].slot # 0 => reserved[k].until <= height
ConsensusAvailable_OneBlockEarly(k) ==
  byConsensus[k] = 0 /\ (reserved[k].slot # 0 => reserved[k].until <= height + 1)
\* ensureConsensusAvailable: free in the index, and not under a live reservation.
ConsensusAvailable(k) ==
  /\ byConsensus[k] = 0
  /\ reserved[k].slot # 0 => reserved[k].until <= height

\* The reservation of a key a slot gives up; the history variable records the
\* height the configured lockout asks for, without the machine arithmetic.
Reserve(res, k, s) ==
  [res EXCEPT ![k] = [slot |-> s, until |-> HeightPlus(params.reuseLockout)]]
Lock(locks, k) == [locks EXCEPT ![k] = height + params.reuseLockout]

CancelRotation_KeyNotReleased(s) ==
  rotations' = [rotations EXCEPT ![s] = NoRotation] /\ UNCHANGED byConsensus
CancelRotation_Omitted(s) == UNCHANGED <<byConsensus, rotations>>
\* cancelPendingRotation: the staged key was never active and is released.
CancelRotation(s) ==
  /\ byConsensus' = IF Pending(s)
                    THEN [byConsensus EXCEPT ![rotations[s].new] = 0]
                    ELSE byConsensus
  /\ rotations' = [rotations EXCEPT ![s] = NoRotation]

\* SelectionPolicyAtHeight: the version of the greatest start at or below h,
\* provided the row it names contains h; 0 when the resolver refuses.
StartsUpTo(s, h) == {x \in Heights : x <= h /\ policyStarts[s][x] # 0}
PolicyAtHeight(s, h) ==
  IF StartsUpTo(s, h) = {} THEN 0
  ELSE LET x == CHOOSE m \in StartsUpTo(s, h) : \A n \in StartsUpTo(s, h) : n <= m
           v == policyStarts[s][x]
           row == policies[s][v]
       IN IF row.from = x /\ (row.until # 0 => h < row.until) THEN v ELSE 0

\* currentPolicy: the row the slot points at, which must still be open.
HasCurrentPolicy(s) ==
  /\ slots[s].policyVersion # 0
  /\ policies[s][slots[s].policyVersion].from # 0
  /\ policies[s][slots[s].policyVersion].until = 0

\* writePolicyVersion: the row and its seek-index entry, together.
OpenRow(v, h) == [value |-> v, from |-> h, until |-> 0]
IndexStart_Omitted(s, h, v) == policyStarts
IndexStart(s, h, v) == [policyStarts EXCEPT ![s][h] = v]

\* A policy update made in block H applies from H + 1.
PolicyEffective_SameBlock == height
PolicyEffective == height + 1

-----------------------------------------------------------------------------
(* Transactions (msg_server.go, authority.go).  "by" is the signer.        *)

\* nextSlotID names a vacant identifier, and its increment is checked.
FreshID(id) == ~ Exists(id) /\ id < MaxSlotID

RegisterCoreSlot(by, op, k, pay, settle, meta, pol) ==
  LET id == nextSlotID IN
  /\ SignedBy(by, {holder["PRIMARY"]})
  /\ pay \in EconomicAccounts
  /\ settle \in EconomicAccounts
  /\ byOperator[op] = 0
  /\ FreshID(id)
  /\ ConsensusAvailable(k)
  /\ slots' = [slots EXCEPT ![id] =
       [status |-> "PENDING", operator |-> op, key |-> k, payout |-> pay,
        settlement |-> settle, metadata |-> meta, power |-> 0, sequence |-> 0,
        effective |-> 0, policyVersion |-> 1, lastPolicyUpdate |-> 0]]
  /\ policies' = [policies EXCEPT ![id][1] = OpenRow(pol, height)]
  /\ policyStarts' = IndexStart(id, height, 1)
  /\ byOperator' = [byOperator EXCEPT ![op] = id]
  /\ byConsensus' = [byConsensus EXCEPT ![k] = id]
  /\ reserved' = [reserved EXCEPT ![k] = NoReservation]
  /\ nextSlotID' = id + 1
  /\ UNCHANGED <<chainVars, govVars, params, activeSlots, rotations, lockedUntil>>

CanActivate_AlsoRemoved(s) == slots[s].status \notin {"ABSENT", "ACTIVE"}
CanActivate(s) == slots[s].status \in {"PENDING", "INACTIVE", "SUSPENDED"}

ActivateCoreSlot(by, s) ==
  /\ SignedBy(by, {holder["PRIMARY"]})
  /\ CanActivate(s)
  /\ ActiveCount < params.maxActiveSlots
  /\ ActiveCount < HardMaxActiveCoreSlots
  /\ slots[s].sequence < MaxSequence      \* checked.AddUint64(sequence, 1)
  \* validateActiveSlotInvariant on the record about to be written
  /\ {slots[s].payout, slots[s].settlement} \subseteq EconomicAccounts
  /\ HasCurrentPolicy(s)
  /\ slots' = [slots EXCEPT ![s].status = "ACTIVE",
                            ![s].power = params.slotVotingPower,
                            ![s].sequence = @ + 1,
                            ![s].effective = height + 1]
  /\ activeSlots' = activeSlots \cup {s}
  /\ UNCHANGED <<chainVars, govVars, policyVars, keyVars, params, nextSlotID, byOperator>>

\* What Inactivate, Suspend and Remove have in common: the new status, no power,
\* no membership, no staged rotation.
Leave(s, status) ==
  /\ slots' = [slots EXCEPT ![s].status = status, ![s].power = 0]
  /\ activeSlots' = activeSlots \ {s}
  /\ UNCHANGED <<chainVars, govVars, policyVars, params, nextSlotID>>

InactivateCoreSlot(by, s) ==
  /\ Exists(s)
  /\ SignedBy(by, {holder["PRIMARY"], slots[s].operator})
  /\ slots[s].status = "ACTIVE"
  /\ ActiveCount > params.minActiveSlots
  /\ Leave(s, "INACTIVE")
  /\ CancelRotation(s)
  /\ UNCHANGED <<byOperator, reserved, lockedUntil>>

\* The configured minimum may be waived; the floor of one may not (F6).
SuspensionFloor_Waivable == params.belowMin \/ ActiveCount > params.minActiveSlots
SuspensionFloor ==
  /\ ActiveCount > 1
  /\ params.belowMin \/ ActiveCount > params.minActiveSlots

SuspendCoreSlot(by, s) ==
  /\ SignedBy(by, {holder["PRIMARY"], holder["EMERGENCY"]})
  /\ slots[s].status \in {"PENDING", "ACTIVE", "INACTIVE"}
  /\ slots[s].status = "ACTIVE" => SuspensionFloor
  /\ Leave(s, "SUSPENDED")
  /\ CancelRotation(s)
  /\ UNCHANGED <<byOperator, reserved, lockedUntil>>

FreeOperator_Omitted(s) == byOperator
FreeOperator(s) == [byOperator EXCEPT ![slots[s].operator] = 0]

RemoveCoreSlot(by, s) ==
  LET k == slots[s].key IN
  /\ SignedBy(by, {holder["PRIMARY"]})
  /\ slots[s].status \in {"PENDING", "INACTIVE", "SUSPENDED"}
  /\ Leave(s, "REMOVED")
  /\ rotations' = [rotations EXCEPT ![s] = NoRotation]
  /\ byConsensus' = [x \in Keys |->
       IF x = k \/ (Pending(s) /\ x = rotations[s].new) THEN 0 ELSE byConsensus[x]]
  /\ byOperator' = FreeOperator(s)
  /\ reserved' = Reserve(reserved, k, s)
  /\ lockedUntil' = Lock(lockedUntil, k)

\* An ACTIVE slot stages the rotation; any other takes the new key at once.
RotateConsensusKey(by, s, k) ==
  LET old == slots[s].key IN
  /\ SignedBy(by, {holder["PRIMARY"]})
  /\ slots[s].status \notin {"ABSENT", "REMOVED"}
  /\ ~ Pending(s)
  /\ ConsensusAvailable(k)
  /\ IF slots[s].status = "ACTIVE"
     THEN /\ HeightPlus(params.keyRotationDelay) < MaxHeight  \* bound of the model
          /\ rotations' = [rotations EXCEPT ![s] =
               [old |-> old, new |-> k, requested |-> height,
                effective |-> HeightPlus(params.keyRotationDelay),
                promised |-> height + params.keyRotationDelay]]
          /\ byConsensus' = [byConsensus EXCEPT ![k] = s]
          /\ reserved' = [reserved EXCEPT ![k] = NoReservation]
          /\ UNCHANGED <<slots, lockedUntil>>
     ELSE /\ slots' = [slots EXCEPT ![s].key = k]
          /\ byConsensus' = [byConsensus EXCEPT ![k] = s, ![old] = 0]
          /\ reserved' = Reserve([reserved EXCEPT ![k] = NoReservation], old, s)
          /\ lockedUntil' = Lock(lockedUntil, old)
          /\ UNCHANGED rotations
  /\ UNCHANGED <<chainVars, govVars, policyVars, params, nextSlotID, activeSlots, byOperator>>

\* The three operator-owned fields.
OperatorUpdate(by, s) ==
  /\ Exists(s)
  /\ SignedBy(by, {slots[s].operator})
  /\ OperatorMutationAllowed(s)
  /\ UNCHANGED <<chainVars, govVars, policyVars, keyVars, params, nextSlotID,
                 activeSlots, byOperator>>

UpdatePayoutAddress(by, s, a) ==
  /\ a \in EconomicAccounts
  /\ slots' = [slots EXCEPT ![s].payout = a]
  /\ OperatorUpdate(by, s)

UpdateOperatorMetadata(by, s, m) ==
  /\ slots' = [slots EXCEPT ![s].metadata = m]
  /\ OperatorUpdate(by, s)

UpdateSettlementAddress(by, s, a) ==
  /\ a # slots[s].settlement
  /\ a \in EconomicAccounts
  /\ slots' = [slots EXCEPT ![s].settlement = a]
  /\ OperatorUpdate(by, s)

\* validatePolicyTransitionSeam
PolicySeam(s, current) ==
  /\ PolicyAtHeight(s, height) = current
  /\ policies[s][current + 1].from = 0
  /\ policyStarts[s][PolicyEffective] = 0

UpdateSelectionPolicy(by, s, pol) ==
  LET current == slots[s].policyVersion IN
  /\ Exists(s)
  /\ SignedBy(by, {slots[s].operator})
  /\ OperatorMutationAllowed(s)
  /\ HasCurrentPolicy(s)
  /\ policies[s][current].value # pol
  /\ slots[s].lastPolicyUpdate # 0 =>
       height >= slots[s].lastPolicyUpdate + params.cooldown
  /\ current < MaxVersion                 \* checked.AddUint64(version, 1)
  /\ PolicySeam(s, current)
  /\ policies' = [policies EXCEPT ![s][current].until = PolicyEffective,
                                  ![s][current + 1] = OpenRow(pol, PolicyEffective)]
  /\ policyStarts' = IndexStart(s, PolicyEffective, current + 1)
  /\ slots' = [slots EXCEPT ![s].policyVersion = current + 1,
                            ![s].lastPolicyUpdate = height]
  /\ UNCHANGED <<chainVars, govVars, keyVars, params, nextSlotID, activeSlots, byOperator>>

\* The document must repeat both authority fields, and the voting power while
\* it is in use.
SameHolders_PrimaryOnly(primary, emergency) == primary = holder["PRIMARY"]
SameHolders(primary, emergency) ==
  primary = holder["PRIMARY"] /\ emergency = holder["EMERGENCY"]
PowerFrozen_Never(p) == TRUE
PowerFrozen(p) == ActiveCount > 0 => p.slotVotingPower = params.slotVotingPower

\* The document carries every parameter, both authority fields included.
UpdateParams(by, p, primary, emergency) ==
  /\ SignedBy(by, {holder["PRIMARY"]})
  /\ SameHolders(primary, emergency)
  /\ ValidParams(p)
  /\ PowerFrozen(p)
  /\ params' = p
  /\ holder' = [r \in Roles |-> IF r = "PRIMARY" THEN primary ELSE emergency]
  /\ UNCHANGED <<chainVars, policyVars, keyVars, pendingAuthority, slots,
                 nextSlotID, activeSlots, byOperator>>

NominationCleared(r) == [pendingAuthority EXCEPT ![r] = NoAccount]

\* Steps of the authority handover leave the registry alone.
Governance ==
  UNCHANGED <<chainVars, policyVars, keyVars, params, slots, nextSlotID,
              activeSlots, byOperator>>

NominateAuthority(by, r, nominee) ==
  /\ SignedBy(by, {holder[r]})
  /\ nominee \in EconomicAccounts
  /\ nominee # holder[r]
  /\ pendingAuthority' = [pendingAuthority EXCEPT ![r] = nominee]
  /\ UNCHANGED holder
  /\ Governance

AcceptAuthority(by, r) ==
  /\ pendingAuthority[r] # NoAccount
  /\ SignedBy(by, {pendingAuthority[r]})
  /\ by \in EconomicAccounts
  /\ holder' = [holder EXCEPT ![r] = by]
  /\ pendingAuthority' = NominationCleared(r)
  /\ Governance

CancelAuthorityNomination(by, r) ==
  /\ SignedBy(by, {holder[r]})
  /\ pendingAuthority[r] # NoAccount
  /\ pendingAuthority' = NominationCleared(r)
  /\ UNCHANGED holder
  /\ Governance

-----------------------------------------------------------------------------
(* EndBlock (endblock.go): apply the due rotations, derive the wanted      *)
(* validator set, send CometBFT the difference from the last one.          *)

\* The delay read again from the parameters of the block, not those of the request.
Due_DelayReread ==
  {s \in SlotIds : Pending(s) /\ rotations[s].requested + params.keyRotationDelay <= height}
Due == {s \in SlotIds : Pending(s) /\ rotations[s].effective <= height}
Applied == {s \in Due : slots[s].status = "ACTIVE"}
Retired == {rotations[s].old : s \in Applied}
Dropped == {rotations[s].new : s \in Due \ Applied}

RotatedSlots ==
  [s \in SlotIds |->
     IF s \in Applied THEN [slots[s] EXCEPT !.key = rotations[s].new] ELSE slots[s]]

SettledRotations_StaleOnly ==
  [s \in SlotIds |-> IF s \in Due \ Applied THEN NoRotation ELSE rotations[s]]
SettledRotations == [s \in SlotIds |-> IF s \in Due THEN NoRotation ELSE rotations[s]]

Desired_BeforeRotation(sl, active) ==
  [k \in Keys |->
     IF \E s \in active : slots[s].key = k
     THEN LET s == CHOOSE s \in active : slots[s].key = k
          IN [slot |-> s, power |-> slots[s].power]
     ELSE NoValidator]
\* The set diffAndPersist derives from the ACTIVE slots of a slot table.
Desired(sl, active) ==
  [k \in Keys |->
     IF \E s \in active : sl[s].key = k
     THEN LET s == CHOOSE s \in active : sl[s].key = k
          IN [slot |-> s, power |-> sl[s].power]
     ELSE NoValidator]

UpdatedKeys_LeaversForgotten(desired) ==
  {k \in Keys : desired[k].slot # 0 /\ desired[k] # lastApplied[k]}
\* The keys an update is sent for, and the set CometBFT makes of it (external).
UpdatedKeys(desired) ==
  {k \in Keys : \/ (desired[k].slot = 0) # (lastApplied[k].slot = 0)
                \/ desired[k].power # lastApplied[k].power}
ApplyUpdates(desired) ==
  [k \in Keys |-> IF k \in UpdatedKeys(desired) THEN desired[k].power ELSE validators[k]]

\* CometBFT's bound on the sum of the powers, MaxInt64 / 8 (external).  The sum
\* counts the units of power one by one.
MaxTotalVotingPower == IntMax \div 8
TotalPower(power) == Cardinality(UNION {{k} \X (1 .. power[k]) : k \in Keys})

\* CometBFT refuses to drop a validator it does not have, or the last one, and a
\* set whose powers add up to more than its bound.
UpdatesAccepted(desired) ==
  /\ \A k \in UpdatedKeys(desired) : desired[k].power = 0 => validators[k] # 0
  /\ \E k \in Keys : ApplyUpdates(desired)[k] # 0
  /\ TotalPower(ApplyUpdates(desired)) <= MaxTotalVotingPower

\* Every read of EndBlock succeeds: a due rotation has its record, the index
\* names ACTIVE records only, no two of them hold one key.
EndBlockReads(sl) ==
  /\ \A s \in Due : Exists(s)
  /\ \A s \in activeSlots : sl[s].status = "ACTIVE"
  /\ \A s, t \in activeSlots : sl[s].key = sl[t].key => s = t

WantedSet == Desired(RotatedSlots, activeSlots)
EndBlockOK == EndBlockReads(RotatedSlots) /\ UpdatesAccepted(WantedSet)
Commit(new, old) == IF EndBlockOK THEN new ELSE old  \* the cache is written or dropped

EndBlock ==
  /\ ~ halted
  /\ height < MaxHeight                             \* bound of the model
  /\ halted' = ~ EndBlockOK
  /\ height' = Commit(height + 1, height)
  /\ slots' = Commit(RotatedSlots, slots)
  /\ byConsensus' = Commit([k \in Keys |->
       IF k \in Retired \cup Dropped THEN 0 ELSE byConsensus[k]], byConsensus)
  /\ reserved' = Commit([k \in Keys |->
       IF k \in Retired
       THEN [slot |-> CHOOSE s \in Applied : rotations[s].old = k,
             until |-> HeightPlus(params.reuseLockout)]
       ELSE reserved[k]], reserved)
  /\ lockedUntil' = Commit([k \in Keys |->
       IF k \in Retired THEN height + params.reuseLockout ELSE lockedUntil[k]], lockedUntil)
  /\ rotations' = Commit(SettledRotations, rotations)
  /\ lastApplied' = Commit(WantedSet, lastApplied)
  /\ validators' = Commit(ApplyUpdates(WantedSet), validators)
  /\ UNCHANGED <<govVars, policyVars, params, nextSlotID, activeSlots, byOperator>>

-----------------------------------------------------------------------------
(* InitGenesis of a fresh chain at initial height 1.                       *)

GenesisMetadata == CHOOSE m \in MetadataValues : TRUE
GenesisSlot(status, op, k, a, p) ==
  [status |-> status, operator |-> op, key |-> k, payout |-> a, settlement |-> a,
   metadata |-> GenesisMetadata,
   power |-> IF status = "ACTIVE" THEN p.slotVotingPower ELSE 0,
   sequence |-> IF status = "ACTIVE" THEN 1 ELSE 0,
   effective |-> IF status = "ACTIVE" THEN 1 ELSE 0,
   policyVersion |-> 1, lastPolicyUpdate |-> 0]

Injective(f) == \A x, y \in DOMAIN f : f[x] = f[y] => x = y

Init ==
  /\ height = 1
  /\ halted = FALSE
  /\ params \in {p \in ParamCandidates : ValidParams(p)}
  /\ holder \in GenesisHolders
  /\ pendingAuthority \in [Roles -> EconomicAccounts \cup {NoAccount}]
  /\ \A r \in Roles : pendingAuthority[r] # holder[r]
  /\ \E status \in [GenesisIds -> {"PENDING", "ACTIVE"}],
        op \in [GenesisIds -> Accounts], key \in [GenesisIds -> Keys],
        a \in [GenesisIds -> EconomicAccounts], pol \in [GenesisIds -> PolicyValues] :
       /\ Injective(op) /\ Injective(key)
       /\ slots = [s \in SlotIds |->
            IF s \in GenesisIds
            THEN GenesisSlot(status[s], op[s], key[s], a[s], params) ELSE AbsentSlot]
       /\ policies = [s \in SlotIds |-> [v \in Versions |->
            IF s \in GenesisIds /\ v = 1 THEN OpenRow(pol[s], 1) ELSE NoPolicyRow]]
  /\ policyStarts = [s \in SlotIds |-> [h \in Heights |->
       IF s \in GenesisIds /\ h = 1 THEN 1 ELSE 0]]
  /\ activeSlots = {s \in SlotIds : slots[s].status = "ACTIVE"}
  /\ ActiveCount \in params.minActiveSlots .. params.maxActiveSlots
  /\ nextSlotID \in {n \in SlotIds : \A s \in GenesisIds : s < n}
  /\ byOperator = [o \in Accounts |->
       IF \E s \in GenesisIds : slots[s].operator = o
       THEN CHOOSE s \in GenesisIds : slots[s].operator = o ELSE 0]
  /\ byConsensus = [k \in Keys |->
       IF \E s \in GenesisIds : slots[s].key = k
       THEN CHOOSE s \in GenesisIds : slots[s].key = k ELSE 0]
  /\ reserved = [k \in Keys |-> NoReservation]
  /\ lockedUntil = [k \in Keys |-> 0]
  /\ rotations = [s \in SlotIds |-> NoRotation]
  /\ lastApplied = Desired(slots, activeSlots)
  /\ validators = [k \in Keys |-> lastApplied[k].power]
  /\ TotalPower(validators) <= MaxTotalVotingPower  \* or CometBFT does not start

Next ==
  \/ \E by, op, pay, settle \in Accounts, k \in Keys, m \in MetadataValues, pol \in PolicyValues :
       RegisterCoreSlot(by, op, k, pay, settle, m, pol)
  \/ \E by \in Accounts, s \in SlotIds : ActivateCoreSlot(by, s)
  \/ \E by \in Accounts, s \in SlotIds : InactivateCoreSlot(by, s)
  \/ \E by \in Accounts, s \in SlotIds : SuspendCoreSlot(by, s)
  \/ \E by \in Accounts, s \in SlotIds : RemoveCoreSlot(by, s)
  \/ \E by \in Accounts, s \in SlotIds, k \in Keys : RotateConsensusKey(by, s, k)
  \/ \E by \in Accounts, s \in SlotIds, a \in Accounts : UpdatePayoutAddress(by, s, a)
  \/ \E by \in Accounts, s \in SlotIds, m \in MetadataValues : UpdateOperatorMetadata(by, s, m)
  \/ \E by \in Accounts, s \in SlotIds, a \in Accounts : UpdateSettlementAddress(by, s, a)
  \/ \E by \in Accounts, s \in SlotIds, pol \in PolicyValues : UpdateSelectionPolicy(by, s, pol)
  \/ \E by, primary, emergency \in Accounts, p \in ParamCandidates :
       UpdateParams(by, p, primary, emergency)
  \/ \E by \in Accounts, r \in Roles, nominee \in Accounts : NominateAuthority(by, r, nominee)
  \/ \E by \in Accounts, r \in Roles : AcceptAuthority(by, r)
  \/ \E by \in Accounts, r \in Roles : CancelAuthorityNomination(by, r)
  \/ EndBlock

Spec == Init /\ [][Next]_vars

\* Blocks keep coming: CometBFT proposes them without anyone asking.  No
\* transaction is assumed to be sent.
FairSpec == Spec /\ WF_vars(EndBlock)

-----------------------------------------------------------------------------
(* Properties.                                                             *)

\* Params.Validate bounds the total power by the top of int64, CometBFT by an
\* eighth of it; between the two a document is admitted that CometBFT refuses
\* once enough slots are ACTIVE.  This says that no document is in between.
PowerFits ==
  \A p \in ParamCandidates :
    ValidParams(p) => p.maxActiveSlots * p.slotVotingPower <= MaxTotalVotingPower

\* While the authority keeps the total power within CometBFT's bound, EndBlock
\* never returns an error and CometBFT never refuses its updates: index and
\* records agree, no two ACTIVE slots share a key, no unknown validator is
\* dropped, the set is never emptied and never too strong (endblock.go).
NeverHalts == PowerFits => ~ halted

\* The keys a slot owns: its current one and the one it has staged.
Holds(s, k) ==
  /\ slots[s].status \notin {"ABSENT", "REMOVED"}
  /\ k \in {slots[s].key, rotations[s].new}

\* ByConsensus names the owner of every key held by a live slot, staged keys
\* included, and nothing else: what ensureConsensusAvailable relies on.
ConsensusIndexExact ==
  \A k \in Keys, s \in SlotIds : byConsensus[k] = s <=> Holds(s, k)

\* ByOperator names exactly the live slots, one per operator.
OperatorIndexExact ==
  \A o \in Accounts, s \in SlotIds :
    byOperator[o] = s <=> slots[s].status \notin {"ABSENT", "REMOVED"} /\ slots[s].operator = o

\* A staged rotation belongs to an ACTIVE slot and replaces the key the slot
\* has now; leaving ACTIVE cancels it (finding F1 of the code's comments).
RotationsMatchSlots ==
  \A s \in SlotIds : Pending(s) =>
    /\ slots[s].status = "ACTIVE"
    /\ rotations[s].old = slots[s].key

\* The membership index is the set of ACTIVE records; an ACTIVE slot carries the
\* configured power, any other none (docs/architecture/coreslot-poa.md).
ActiveIndexAndPower ==
  \A s \in SlotIds :
    /\ s \in activeSlots <=> slots[s].status = "ACTIVE"
    /\ slots[s].power = IF slots[s].status = "ACTIVE" THEN params.slotVotingPower ELSE 0

\* There is always an ACTIVE slot, whatever the authority, the emergency
\* authority and the operators do in whatever order (hard floor, F6).
AlwaysSomeActive == activeSlots # {}

\* LastApplied is what CometBFT has, in the middle of a block too.
LastAppliedMirrorsCometBFT == \A k \in Keys : validators[k] = lastApplied[k].power

\* When a block closes, CometBFT's set is the ACTIVE slots under their current
\* keys, each with the configured power, and nobody else.
ValidatorSetFollowsSlots ==
  [][height' # height =>
       \A k \in Keys :
         validators'[k] = IF \E s \in SlotIds : slots'[s].status = "ACTIVE" /\ slots'[s].key = k
                          THEN params'.slotVotingPower ELSE 0]_vars

\* A key given up by removal or rotation is not registered again, by any slot,
\* before the lockout configured at that moment has run out.
LockoutHonoured == \A k \in Keys : byConsensus[k] # 0 => lockedUntil[k] <= height

\* The key of an ACTIVE slot changes by a rotation staged before, when the delay
\* in force at its request has passed since: the operator gets the blocks to
\* switch the signer in, whatever the authority does to the delay meanwhile.
RotationWaits ==
  [][\A s \in SlotIds :
       slots[s].status = "ACTIVE" /\ slots'[s].key # slots[s].key =>
         /\ slots'[s].key = rotations[s].new
         /\ height >= rotations[s].promised]_vars

\* Every live slot resolves a policy at every height from its first version on,
\* the one it points at being in force from the next block at the latest.
PoliciesResolve ==
  \A s \in SlotIds : Exists(s) =>
    /\ HasCurrentPolicy(s)
    /\ PolicyAtHeight(s, height + 1) = slots[s].policyVersion
    /\ \A h \in Heights : policies[s][1].from <= h => PolicyAtHeight(s, h) # 0

\* Updates never rewrite the past: the version that applied at a height up to
\* the current one keeps applying there, with the same values.
PolicyHistoryStable ==
  [][\A s \in SlotIds, h \in Heights :
       h <= height /\ PolicyAtHeight(s, h) # 0 =>
         /\ PolicyAtHeight(s, h)' = PolicyAtHeight(s, h)
         /\ policies'[s][PolicyAtHeight(s, h)].value = policies[s][PolicyAtHeight(s, h)].value]_vars

\* A role changes hands only to its pending nominee, who thereby has none left
\* pending; the two roles never move in one step (authority.go).
HandoverByAcceptance ==
  [][\A r \in Roles : holder'[r] # holder[r] =>
       /\ holder'[r] = pendingAuthority[r]
       /\ pendingAuthority'[r] = NoAccount
       /\ \A q \in Roles \ {r} : holder'[q] = holder[q] /\ pendingAuthority'[q] = pendingAuthority[q]]_vars

\* A staged rotation is applied or canceled; it does not stay staged for ever.
RotationSettles == \A s \in SlotIds : Pending(s) ~> ~ Pending(s)

-----------------------------------------------------------------------------
(* What the other modules see of the registry.                             *)

Directory == INSTANCE SlotDirectory WITH
  status <- [s \in SlotIds |-> slots[s].status],
  payout <- [s \in SlotIds |-> slots[s].payout],
  settlement <- [s \in SlotIds |-> slots[s].settlement]

\* The registry implements the directory x/rewards and x/mining rely on: records
\* follow the lifecycle and never vanish, their two addresses stay admissible,
\* one slot is always ACTIVE and roles go to admissible accounts only.
ImplementsDirectory == Directory!DirectorySpec

=============================================================================
