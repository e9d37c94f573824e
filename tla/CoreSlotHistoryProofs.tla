----------------------- MODULE CoreSlotHistoryProofs -----------------------
(***************************************************************************)
(* Further theorems about CoreSlot, for every value of its constants: the  *)
(* operator index, what CometBFT gets when a block closes, the handover of *)
(* the authorities, lockouts and rotation delays, and the policy history.  *)
(***************************************************************************)
EXTENDS CoreSlotProofs, ArithmeticTheorems

-----------------------------------------------------------------------------
(* The operator index.                                                     *)

Live(s) == slots[s].status \notin {"ABSENT", "REMOVED"}

\* A slot that exists has an operator.
OperatorsNamed == \A s \in SlotIds : Exists(s) => slots[s].operator \in Accounts

OperatorInv ==
  /\ Registry
  /\ OperatorsNamed
  /\ OperatorIndexExact

\* An operation that keeps every slot in or out of the live ones, under the same
\* operator, and leaves the index alone keeps the invariant.
LEMMA OperatorFrame ==
  ASSUME OperatorInv, Registry', byOperator' = byOperator,
         \A t \in SlotIds : /\ slots'[t].operator = slots[t].operator
                            /\ Live(t)' <=> Live(t)
                            /\ Exists(t)' <=> Exists(t)
  PROVE  OperatorInv'
<1>1. OperatorsNamed'
  BY DEF OperatorInv, OperatorsNamed
<1>2. OperatorIndexExact'
  BY DEF OperatorInv, OperatorIndexExact, Live
<1> QED
  BY <1>1, <1>2 DEF OperatorInv

\* The genesis operators are distinct and the index names their slots.
LEMMA InitOperators == Init => OperatorInv
<1> SUFFICES ASSUME Init PROVE OperatorInv
  OBVIOUS
<1>1. PICK status \in [GenesisIds -> {"PENDING", "ACTIVE"}],
           op \in [GenesisIds -> Accounts], key \in [GenesisIds -> Keys],
           a \in [GenesisIds -> EconomicAccounts], pol \in [GenesisIds -> PolicyValues] :
        /\ Injective(op) /\ Injective(key)
        /\ slots = [s \in SlotIds |->
             IF s \in GenesisIds
             THEN GenesisSlot(status[s], op[s], key[s], a[s], params) ELSE AbsentSlot]
        /\ policies = [s \in SlotIds |-> [v \in Versions |->
             IF s \in GenesisIds /\ v = 1 THEN OpenRow(pol[s], 1) ELSE NoPolicyRow]]
  BY Zenon DEF Init
<1>2. GenesisIds \subseteq SlotIds /\ \A s \in SlotIds : s # 0
  BY NamesAssumption, BoundsAssumption DEF SlotIds
<1>3. \A s \in GenesisIds : slots[s].status = status[s] /\ slots[s].operator = op[s]
  BY <1>1, <1>2 DEF GenesisSlot
<1>4. \A s \in SlotIds \ GenesisIds : slots[s].status = "ABSENT"
  BY <1>1 DEF AbsentSlot
<1>5. \A s \in GenesisIds : status[s] \in {"PENDING", "ACTIVE"} /\ op[s] \in Accounts
  BY <1>1
<1>6. OperatorsNamed
  BY <1>3, <1>4, <1>5 DEF OperatorsNamed, Exists
<1>7. ASSUME NEW o \in Accounts, NEW s \in SlotIds
      PROVE  byOperator[o] = s <=> Live(s) /\ slots[s].operator = o
  <2>1. byOperator = [x \in Accounts |->
          IF \E t \in GenesisIds : slots[t].operator = x
          THEN CHOOSE t \in GenesisIds : slots[t].operator = x ELSE 0]
    BY Zenon DEF Init
  <2>2. Live(s) <=> s \in GenesisIds
    BY <1>3, <1>4, <1>5 DEF Live
  <2>3. ASSUME NEW u \in GenesisIds, NEW v \in GenesisIds, slots[u].operator = slots[v].operator
        PROVE  u = v
    <3>1. op[u] = op[v]
      BY <1>3, <2>3
    <3>2. Injective(op) /\ DOMAIN op = GenesisIds
      BY <1>1
    <3> QED
      BY <3>1, <3>2 DEF Injective
  <2>4. CASE \E t \in GenesisIds : slots[t].operator = o
    <3>1. byOperator[o] \in GenesisIds /\ slots[byOperator[o]].operator = o
      BY <2>1, <2>4
    <3> QED
      BY <2>2, <2>3, <3>1
  <2>5. CASE ~ \E t \in GenesisIds : slots[t].operator = o
    <3>1. byOperator[o] = 0
      BY <2>1, <2>5
    <3> QED
      BY <1>2, <2>2, <2>5, <3>1
  <2> QED
    BY <2>4, <2>5
<1> QED
  BY <1>6, <1>7, InitRegistry DEF OperatorInv, OperatorIndexExact, Live

\* Registration takes a free operator, removal frees it; nothing else moves one.
LEMMA NextOperators == OperatorInv /\ [Next]_vars => OperatorInv'
<1> SUFFICES ASSUME OperatorInv, [Next]_vars PROVE OperatorInv'
  OBVIOUS
<1>r. Registry /\ Registry' /\ TypeOK
  BY NextRegistry DEF OperatorInv, Registry
<1>n. \A s \in SlotIds : s # 0
  BY BoundsAssumption DEF SlotIds
<1>s. slots \in [SlotIds -> SlotRecord] /\ byOperator \in [Accounts -> 0 .. MaxSlotID]
  BY <1>r DEF TypeOK
<1>1. ASSUME NEW by \in Accounts, NEW op \in Accounts, NEW pay \in Accounts,
             NEW settle \in Accounts, NEW k \in Keys, NEW m \in MetadataValues,
             NEW pol \in PolicyValues,
             RegisterCoreSlot(by, op, k, pay, settle, m, pol)
      PROVE  OperatorInv'
  <2> DEFINE id == nextSlotID
  <2>1. id \in SlotIds /\ slots[id].status = "ABSENT" /\ byOperator[op] = 0
    BY <1>1, <1>r DEF RegisterCoreSlot, FreshID, Exists, TypeOK
  <2>2. slots'[id].status = "PENDING" /\ slots'[id].operator = op
    BY <1>1, <1>s, <2>1 DEF RegisterCoreSlot
  <2>3. \A t \in SlotIds \ {id} : slots'[t] = slots[t]
    BY <1>1, <1>s, <2>1 DEF RegisterCoreSlot
  <2>4. byOperator' = [byOperator EXCEPT ![op] = id]
    BY <1>1 DEF RegisterCoreSlot
  <2>5. OperatorsNamed'
    BY <2>2, <2>3 DEF OperatorInv, OperatorsNamed, Exists
  <2>6. ASSUME NEW o \in Accounts, NEW s \in SlotIds
        PROVE  byOperator'[o] = s <=> Live(s)' /\ slots'[s].operator = o
    <3>1. /\ byOperator[o] = s <=> Live(s) /\ slots[s].operator = o
          /\ byOperator[o] # id
      BY <2>1 DEF OperatorInv, OperatorIndexExact, Live
    <3>2. CASE s = id
      BY <1>s, <2>2, <2>4, <3>1, <3>2 DEF Live
    <3>3. CASE s # id
      BY <1>n, <1>s, <2>1, <2>3, <2>4, <3>1, <3>3 DEF Live
    <3> QED
      BY <3>2, <3>3
  <2> QED
    BY <1>r, <2>5, <2>6 DEF OperatorInv, OperatorIndexExact, Live
<1>2. ASSUME NEW by \in Accounts, NEW s \in SlotIds, ActivateCoreSlot(by, s)
      PROVE  OperatorInv'
  <2>1. slots[s].status \in {"PENDING", "INACTIVE", "SUSPENDED"}
    BY <1>2 DEF ActivateCoreSlot, CanActivate
  <2>2. slots'[s].status = "ACTIVE" /\ slots'[s].operator = slots[s].operator
    BY <1>2, <1>s DEF ActivateCoreSlot, SlotRecord
  <2>3. \A t \in SlotIds \ {s} : slots'[t] = slots[t]
    BY <1>2, <1>s DEF ActivateCoreSlot
  <2>4. byOperator' = byOperator
    BY <1>2 DEF ActivateCoreSlot
  <2> QED
    BY <1>r, <2>1, <2>2, <2>3, <2>4, OperatorFrame DEF Live, Exists
<1>3. ASSUME NEW s \in SlotIds, NEW st \in {"INACTIVE", "SUSPENDED"}, Live(s), Leave(s, st),
             byOperator' = byOperator
      PROVE  OperatorInv'
  <2>1. slots'[s].status = st /\ slots'[s].operator = slots[s].operator
    BY <1>3, <1>s DEF Leave, SlotRecord
  <2>2. \A t \in SlotIds \ {s} : slots'[t] = slots[t]
    BY <1>3, <1>s DEF Leave
  <2> QED
    BY <1>r, <1>3, <2>1, <2>2, OperatorFrame DEF Live, Exists
<1>4. ASSUME NEW by \in Accounts, NEW s \in SlotIds,
             InactivateCoreSlot(by, s) \/ SuspendCoreSlot(by, s)
      PROVE  OperatorInv'
  BY <1>3, <1>4 DEF InactivateCoreSlot, SuspendCoreSlot, Live
<1>5. ASSUME NEW by \in Accounts, NEW s \in SlotIds, RemoveCoreSlot(by, s)
      PROVE  OperatorInv'
  <2>1. slots[s].status \in {"PENDING", "INACTIVE", "SUSPENDED"}
    BY <1>5 DEF RemoveCoreSlot
  <2>2. slots'[s].status = "REMOVED" /\ slots'[s].operator = slots[s].operator
    BY <1>5, <1>s DEF RemoveCoreSlot, Leave, SlotRecord
  <2>3. \A t \in SlotIds \ {s} : slots'[t] = slots[t]
    BY <1>5, <1>s DEF RemoveCoreSlot, Leave
  <2>4. byOperator' = [byOperator EXCEPT ![slots[s].operator] = 0]
    BY <1>5 DEF RemoveCoreSlot, FreeOperator
  <2>5. OperatorsNamed'
    BY <2>1, <2>2, <2>3 DEF OperatorInv, OperatorsNamed, Exists
  <2>6. ASSUME NEW o \in Accounts, NEW t \in SlotIds
        PROVE  byOperator'[o] = t <=> Live(t)' /\ slots'[t].operator = o
    <3>1. /\ byOperator[o] = t <=> Live(t) /\ slots[t].operator = o
          /\ byOperator[o] = s <=> slots[s].operator = o
      BY <2>1 DEF OperatorInv, OperatorIndexExact, Live
    <3>2. CASE t = s
      BY <1>n, <1>s, <2>2, <2>4, <3>1, <3>2 DEF Live
    <3>3. CASE t # s
      BY <1>n, <1>s, <2>3, <2>4, <3>1, <3>3 DEF Live
    <3> QED
      BY <3>2, <3>3
  <2> QED
    BY <1>r, <2>5, <2>6 DEF OperatorInv, OperatorIndexExact, Live
<1>6. ASSUME NEW by \in Accounts, NEW s \in SlotIds, NEW k \in Keys, RotateConsensusKey(by, s, k)
      PROVE  OperatorInv'
  <2>1. slots' = slots \/ slots' = [slots EXCEPT ![s].key = k]
    BY <1>6 DEF RotateConsensusKey
  <2>2. \A t \in SlotIds : slots'[t].status = slots[t].status /\ slots'[t].operator = slots[t].operator
    BY <1>s, <2>1 DEF SlotRecord
  <2>3. byOperator' = byOperator
    BY <1>6 DEF RotateConsensusKey
  <2> QED
    BY <1>r, <2>2, <2>3, OperatorFrame DEF Live, Exists
<1>7. ASSUME NEW by \in Accounts, NEW s \in SlotIds, NEW a,
             \/ UpdatePayoutAddress(by, s, a) \/ UpdateOperatorMetadata(by, s, a)
             \/ UpdateSettlementAddress(by, s, a) \/ UpdateSelectionPolicy(by, s, a)
      PROVE  OperatorInv'
  <2>1. \/ slots' = [slots EXCEPT ![s].payout = a]
        \/ slots' = [slots EXCEPT ![s].metadata = a]
        \/ slots' = [slots EXCEPT ![s].settlement = a]
        \/ slots' = [slots EXCEPT ![s].policyVersion = slots[s].policyVersion + 1,
                                  ![s].lastPolicyUpdate = height]
    BY <1>7 DEF UpdatePayoutAddress, UpdateOperatorMetadata, UpdateSettlementAddress,
                UpdateSelectionPolicy
  <2>2. \A t \in SlotIds : slots'[t].status = slots[t].status /\ slots'[t].operator = slots[t].operator
    BY <1>s, <2>1 DEF SlotRecord
  <2>3. byOperator' = byOperator
    BY <1>7 DEF UpdatePayoutAddress, UpdateOperatorMetadata, UpdateSettlementAddress,
                UpdateSelectionPolicy, OperatorUpdate
  <2> QED
    BY <1>r, <2>2, <2>3, OperatorFrame DEF Live, Exists
<1>8. ASSUME UNCHANGED <<slots, byOperator>> PROVE OperatorInv'
  BY <1>r, <1>8, OperatorFrame DEF Live, Exists
<1>9. ASSUME NEW by \in Accounts, NEW primary \in Accounts, NEW emergency \in Accounts,
             NEW p \in ParamCandidates, UpdateParams(by, p, primary, emergency)
      PROVE  OperatorInv'
  BY <1>8, <1>9 DEF UpdateParams
<1>10. ASSUME NEW by \in Accounts, NEW r \in Roles, NEW nominee \in Accounts,
             \/ NominateAuthority(by, r, nominee) \/ AcceptAuthority(by, r)
             \/ CancelAuthorityNomination(by, r)
      PROVE  OperatorInv'
  BY <1>8, <1>10 DEF NominateAuthority, AcceptAuthority, CancelAuthorityNomination, Governance
<1>11. CASE EndBlock
  <2>1. slots' = slots \/ slots' = RotatedSlots
    BY <1>11 DEF EndBlock, Commit
  <2>2. \A t \in SlotIds : slots'[t].status = slots[t].status /\ slots'[t].operator = slots[t].operator
    BY <1>s, <2>1 DEF RotatedSlots, SlotRecord
  <2>3. byOperator' = byOperator
    BY <1>11 DEF EndBlock
  <2> QED
    BY <1>r, <2>2, <2>3, OperatorFrame DEF Live, Exists
<1>12. CASE UNCHANGED vars
  BY <1>8, <1>12 DEF vars
<1> QED
  BY <1>1, <1>2, <1>4, <1>5, <1>6, <1>7, <1>9, <1>10, <1>11, <1>12 DEF Next

\* ByOperator names exactly the live slots and their operators in every reachable
\* state: an account operates at most one live slot, and a removal frees it.
THEOREM OperatorIndexIsExact == Spec => []OperatorIndexExact
<1>1. Init => OperatorInv
  BY InitOperators
<1>2. OperatorInv /\ [Next]_vars => OperatorInv'
  BY NextOperators
<1>3. OperatorInv => OperatorIndexExact
  BY DEF OperatorInv
<1> QED
  BY <1>1, <1>2, <1>3, PTL DEF Spec

-----------------------------------------------------------------------------
(* What a closing block gives CometBFT, and who may hold a role.           *)

\* Only EndBlock moves the height, and only a parameter document and an
\* acceptance write the role holders.
LEMMA HeightAndHolders ==
  ASSUME [Next]_vars
  PROVE  /\ ~ EndBlock => height' = height
         /\ \/ \E by, primary, emergency \in Accounts, p \in ParamCandidates :
                 UpdateParams(by, p, primary, emergency)
            \/ \E by \in Accounts, r \in Roles : AcceptAuthority(by, r)
            \/ holder' = holder
<1>1. ASSUME NEW by \in Accounts, NEW op \in Accounts, NEW pay \in Accounts,
             NEW settle \in Accounts, NEW k \in Keys, NEW m \in MetadataValues,
             NEW pol \in PolicyValues,
             RegisterCoreSlot(by, op, k, pay, settle, m, pol)
      PROVE  UNCHANGED <<height, holder>>
  BY <1>1 DEF RegisterCoreSlot, chainVars, govVars
<1>2. ASSUME NEW by \in Accounts, NEW s \in SlotIds,
             \/ ActivateCoreSlot(by, s) \/ InactivateCoreSlot(by, s)
             \/ SuspendCoreSlot(by, s) \/ RemoveCoreSlot(by, s)
      PROVE  UNCHANGED <<height, holder>>
  BY <1>2 DEF ActivateCoreSlot, InactivateCoreSlot, SuspendCoreSlot, RemoveCoreSlot, Leave,
              chainVars, govVars
<1>3. ASSUME NEW by \in Accounts, NEW s \in SlotIds, NEW k \in Keys, RotateConsensusKey(by, s, k)
      PROVE  UNCHANGED <<height, holder>>
  BY <1>3 DEF RotateConsensusKey, chainVars, govVars
<1>4. ASSUME NEW by \in Accounts, NEW s \in SlotIds, NEW a,
             \/ UpdatePayoutAddress(by, s, a) \/ UpdateOperatorMetadata(by, s, a)
             \/ UpdateSettlementAddress(by, s, a) \/ UpdateSelectionPolicy(by, s, a)
      PROVE  UNCHANGED <<height, holder>>
  BY <1>4 DEF UpdatePayoutAddress, UpdateOperatorMetadata, UpdateSettlementAddress,
              UpdateSelectionPolicy, OperatorUpdate, chainVars, govVars
<1>5. ASSUME NEW by \in Accounts, NEW r \in Roles, NEW nominee \in Accounts,
             NominateAuthority(by, r, nominee) \/ CancelAuthorityNomination(by, r)
      PROVE  UNCHANGED <<height, holder>>
  BY <1>5 DEF NominateAuthority, CancelAuthorityNomination, Governance, chainVars
<1>6. ASSUME NEW by \in Accounts, NEW r \in Roles, AcceptAuthority(by, r)
      PROVE  height' = height
  BY <1>6 DEF AcceptAuthority, Governance, chainVars
<1>7. ASSUME NEW by \in Accounts, NEW primary \in Accounts, NEW emergency \in Accounts,
             NEW p \in ParamCandidates, UpdateParams(by, p, primary, emergency)
      PROVE  height' = height
  BY <1>7 DEF UpdateParams, chainVars
<1>8. EndBlock => holder' = holder
  BY DEF EndBlock, govVars
<1>9. UNCHANGED vars => UNCHANGED <<height, holder>>
  BY DEF vars, chainVars, govVars
<1> QED
  BY <1>1, <1>2, <1>3, <1>4, <1>5, <1>6, <1>7, <1>8, <1>9, Zenon DEF Next

\* The block that closes leaves CometBFT with the ACTIVE slots under their
\* current keys, each with the configured power, and with nobody else.
THEOREM ClosedBlockFollowsSlots == Spec => ValidatorSetFollowsSlots
<1>1. ASSUME ChainInv, [Next]_vars, height' # height
      PROVE  \A k \in Keys :
               validators'[k] = IF \E s \in SlotIds : slots'[s].status = "ACTIVE" /\ slots'[s].key = k
                                THEN params'.slotVotingPower ELSE 0
  <2>1. EndBlock
    BY <1>1, HeightAndHolders
  <2>2. /\ EndBlockOK
        /\ \A k \in Keys : ApplyUpdates(WantedSet)[k] = WantedSet[k].power
    BY <1>1, <2>1, EndBlockSucceeds DEF ChainInv, EndBlock, Commit
  <2>3. /\ validators' = ApplyUpdates(WantedSet) /\ slots' = RotatedSlots
        /\ params' = params
    BY <2>1, <2>2 DEF EndBlock, Commit
  <2>4. TypeOK /\ ActiveIndexAndPower
    BY <1>1 DEF ChainInv, Registry
  <2>5. \A s \in SlotIds :
          /\ RotatedSlots[s].status = slots[s].status
          /\ RotatedSlots[s].power = slots[s].power
    BY <2>4 DEF RotatedSlots, TypeOK, SlotRecord
  <2>6. /\ activeSlots = {s \in SlotIds : RotatedSlots[s].status = "ACTIVE"}
        /\ \A s \in activeSlots : RotatedSlots[s].power = params.slotVotingPower
    BY <2>4, <2>5 DEF ActiveIndexAndPower, TypeOK
  <2> SUFFICES ASSUME NEW k \in Keys
               PROVE  WantedSet[k].power =
                        IF \E s \in SlotIds : RotatedSlots[s].status = "ACTIVE"
                                              /\ RotatedSlots[s].key = k
                        THEN params.slotVotingPower ELSE 0
    BY <2>2, <2>3
  <2>7. CASE \E s \in activeSlots : RotatedSlots[s].key = k
    <3> DEFINE c == CHOOSE s \in activeSlots : RotatedSlots[s].key = k
    <3>1. c \in activeSlots
      BY <2>7
    <3>2. WantedSet[k] = [slot |-> c, power |-> RotatedSlots[c].power]
      BY <2>7, Zenon DEF WantedSet, Desired
    <3> HIDE DEF c
    <3> QED
      BY <2>6, <2>7, <3>1, <3>2
  <2>8. CASE ~ \E s \in activeSlots : RotatedSlots[s].key = k
    <3>1. WantedSet[k] = NoValidator
      BY <2>8 DEF WantedSet, Desired
    <3> QED
      BY <2>6, <2>8, <3>1 DEF NoValidator
  <2> QED
    BY <2>7, <2>8
<1>2. ChainInv /\ [Next]_vars =>
        [height' # height =>
           \A k \in Keys :
             validators'[k] = IF \E s \in SlotIds : slots'[s].status = "ACTIVE" /\ slots'[s].key = k
                              THEN params'.slotVotingPower ELSE 0]_vars
  BY <1>1
<1> QED
  BY <1>2, ChainInvariant, PTL DEF Spec, ValidatorSetFollowsSlots

\* A role moves only by its nominee's acceptance, and never together with the
\* other one, whatever parameter documents are submitted meanwhile.
THEOREM HandoverNeedsAcceptance == Spec => HandoverByAcceptance
<1>1. ASSUME TypeOK, [Next]_vars, NEW r \in Roles, holder'[r] # holder[r]
      PROVE  /\ holder'[r] = pendingAuthority[r]
             /\ pendingAuthority'[r] = NoAccount
             /\ \A q \in Roles \ {r} : holder'[q] = holder[q] /\ pendingAuthority'[q] = pendingAuthority[q]
  <2>1. /\ holder \in [Roles -> Accounts]
        /\ pendingAuthority \in [Roles -> Accounts \cup {NoAccount}]
    BY <1>1 DEF TypeOK
  <2>2. ASSUME NEW by \in Accounts, NEW primary \in Accounts, NEW emergency \in Accounts,
               NEW p \in ParamCandidates, UpdateParams(by, p, primary, emergency)
        PROVE  FALSE
    <3>1. holder' = [q \in Roles |-> IF q = "PRIMARY" THEN primary ELSE emergency]
      BY <2>2 DEF UpdateParams
    <3>2. primary = holder["PRIMARY"] /\ emergency = holder["EMERGENCY"]
      BY <2>2 DEF UpdateParams, SameHolders
    <3> QED
      BY <1>1, <3>1, <3>2 DEF Roles
  <2>3. ASSUME UNCHANGED holder PROVE FALSE
    BY <1>1, <2>3
  <2>4. \E by \in Accounts, q \in Roles : AcceptAuthority(by, q)
    BY <1>1, <2>2, <2>3, HeightAndHolders
  <2>5. PICK by \in Accounts, q \in Roles : AcceptAuthority(by, q)
    BY <2>4
  <2>6. /\ by = pendingAuthority[q] /\ holder' = [holder EXCEPT ![q] = by]
        /\ pendingAuthority' = [pendingAuthority EXCEPT ![q] = NoAccount]
    BY <2>5 DEF AcceptAuthority, SignedBy, NominationCleared
  <2>7. q = r
    BY <1>1, <2>1, <2>6
  <2> QED
    BY <2>1, <2>6, <2>7
<1>2. TypeOK /\ [Next]_vars =>
        [\A r \in Roles : holder'[r] # holder[r] =>
           /\ holder'[r] = pendingAuthority[r]
           /\ pendingAuthority'[r] = NoAccount
           /\ \A q \in Roles \ {r} : holder'[q] = holder[q] /\ pendingAuthority'[q] = pendingAuthority[q]]_vars
  BY <1>1
<1> QED
  BY <1>2, TypeCorrect, PTL DEF Spec, HandoverByAcceptance

-----------------------------------------------------------------------------
(* Lockouts and rotation delays.  They are sums in int64, so the theorems  *)
(* ask that the sums fit: the run MCCoreSlotOverflow shows what happens    *)
(* when they do not.                                                       *)

LockoutFits == \A p \in ParamCandidates : MaxHeight + p.reuseLockout <= IntMax
DelayFits == \A p \in ParamCandidates : MaxHeight + p.keyRotationDelay <= IntMax

\* int64 holds every number up to IntMax.
LEMMA Int64Exact ==
  ASSUME NEW x \in Nat, x <= IntMax
  PROVE  Int64(x) = x
<1>1. IntMax \in Nat
  BY BoundsAssumption
<1> DEFINE a == x + IntMax + 1
           b == 2 * (IntMax + 1)
<1>2. a \in Nat /\ b \in Nat \ {0} /\ a < b
  BY <1>1
<1>3. \A m \in Nat, n \in Nat \ {0} : m < n => m % n = m
  OBVIOUS
<1>4. a % b = a
  BY <1>2, <1>3
<1> QED
  BY <1>1, <1>4 DEF Int64

\* A sum of heights below the bound does not wrap.
LEMMA HeightPlusExact ==
  ASSUME TypeOK, NEW n \in Nat, MaxHeight + n <= IntMax
  PROVE  HeightPlus(n) = height + n
<1>1. height \in Nat /\ MaxHeight \in Nat /\ IntMax \in Nat /\ height <= MaxHeight
  BY BoundsAssumption DEF TypeOK
<1>2. n <= IntMax /\ height + n \in Nat /\ height + n <= IntMax
  BY <1>1
<1>3. Int64(n) = n /\ Int64(height + n) = height + n
  BY <1>2, Int64Exact
<1> QED
  BY <1>3 DEF HeightPlus

\* A key under lockout is registered nowhere and reserved until the lockout ends.
LockKept(k) ==
  \/ lockedUntil[k] <= height
  \/ byConsensus[k] = 0 /\ reserved[k].slot # 0 /\ reserved[k].until >= lockedUntil[k]

\* A staged rotation is due at the height its delay asked for when it was requested.
RotationTimed(s) == Pending(s) => rotations[s].effective = rotations[s].promised

\* What a step may do to a key: release it, take it when it is available, or lock it.
LockStep(k) ==
  \/ /\ lockedUntil'[k] = lockedUntil[k] /\ reserved'[k] = reserved[k]
     /\ byConsensus'[k] \in {0, byConsensus[k]}
  \/ lockedUntil'[k] = lockedUntil[k] /\ ConsensusAvailable(k)
  \/ /\ byConsensus'[k] = 0 /\ reserved'[k].slot # 0
     /\ reserved'[k].until = HeightPlus(params.reuseLockout)
     /\ lockedUntil'[k] = height + params.reuseLockout

\* What a step may do to a rotation: settle it or stage it.
StageStep(s) ==
  \/ rotations'[s] \in {rotations[s], NoRotation}
  \/ /\ rotations'[s].promised = height + params.keyRotationDelay
     /\ rotations'[s].effective = HeightPlus(params.keyRotationDelay)

\* What a step may do to the key of an ACTIVE slot: apply a due rotation.
KeyStep(s) ==
  slots[s].status = "ACTIVE" /\ slots'[s].key # slots[s].key =>
    slots'[s].key = rotations[s].new /\ Pending(s) /\ rotations[s].effective <= height

KeySteps ==
  /\ \A k \in Keys : LockStep(k)
  /\ \A s \in SlotIds : StageStep(s) /\ KeyStep(s)

\* A step that touches neither the rotation state nor a key.
LEMMA KeysAlone ==
  ASSUME UNCHANGED keyVars, \A s \in SlotIds : slots'[s].key = slots[s].key
  PROVE  KeySteps
  BY DEF KeySteps, LockStep, StageStep, KeyStep, keyVars

\* Registering takes an available key, for a slot that was not there.
LEMMA RegisterKeys ==
  ASSUME TypeOK, NEW by, NEW op, NEW pay, NEW settle, NEW k \in Keys, NEW m, NEW pol,
         RegisterCoreSlot(by, op, k, pay, settle, m, pol)
  PROVE  KeySteps
<1> DEFINE id == nextSlotID
<1>1. /\ ConsensusAvailable(k) /\ slots[id].status = "ABSENT" /\ id \in SlotIds
      /\ byConsensus' = [byConsensus EXCEPT ![k] = id]
      /\ reserved' = [reserved EXCEPT ![k] = NoReservation]
      /\ UNCHANGED <<rotations, lockedUntil>>
  BY DEF RegisterCoreSlot, FreshID, Exists, TypeOK
<1>2. \A s \in SlotIds : s # id => slots'[s] = slots[s]
  BY DEF RegisterCoreSlot, TypeOK
<1>3. \A x \in Keys : LockStep(x)
  BY <1>1 DEF LockStep, TypeOK
<1>4. \A s \in SlotIds : StageStep(s) /\ KeyStep(s)
  BY <1>1, <1>2 DEF StageStep, KeyStep
<1> QED
  BY <1>3, <1>4 DEF KeySteps

\* Leaving the active set cancels a staged rotation.
LEMMA LeaveKeys ==
  ASSUME TypeOK, NEW s \in SlotIds, NEW st, Leave(s, st)
  PROVE  \A t \in SlotIds : slots'[t].key = slots[t].key
<1>1. slots' = [slots EXCEPT ![s].status = st, ![s].power = 0]
  BY DEF Leave
<1> QED
  BY <1>1 DEF TypeOK, SlotRecord

\* Leaving the set cancels a staged rotation and nothing else about keys
\* (abortPendingRotation).
LEMMA CancelKeys ==
  ASSUME TypeOK, NEW s \in SlotIds, NEW st, Leave(s, st), CancelRotation(s),
         UNCHANGED <<reserved, lockedUntil>>
  PROVE  KeySteps
<1>1. \A t \in SlotIds : slots'[t].key = slots[t].key
  BY LeaveKeys
<1>2. \A x \in Keys : byConsensus'[x] \in {0, byConsensus[x]}
  BY DEF CancelRotation, TypeOK
<1>3. \A t \in SlotIds : rotations'[t] \in {rotations[t], NoRotation}
  BY DEF CancelRotation, TypeOK
<1> QED
  BY <1>1, <1>2, <1>3 DEF KeySteps, LockStep, StageStep, KeyStep

\* Removal locks the key of the slot.
LEMMA RemoveKeys ==
  ASSUME TypeOK, NEW by, NEW s \in SlotIds, RemoveCoreSlot(by, s)
  PROVE  KeySteps
<1> DEFINE k == slots[s].key
           end == HeightPlus(params.reuseLockout)
           lock == height + params.reuseLockout
<1>1. /\ Leave(s, "REMOVED")
      /\ rotations' = [rotations EXCEPT ![s] = NoRotation]
      /\ byConsensus' = [x \in Keys |->
           IF x = k \/ (Pending(s) /\ x = rotations[s].new) THEN 0 ELSE byConsensus[x]]
      /\ reserved' = [reserved EXCEPT ![k] = [slot |-> s, until |-> end]]
      /\ lockedUntil' = [lockedUntil EXCEPT ![k] = lock]
  BY DEF RemoveCoreSlot, Reserve, Lock
<1>2. \A t \in SlotIds : slots'[t].key = slots[t].key
  BY <1>1, LeaveKeys
<1>3. s # 0
  BY BoundsAssumption DEF SlotIds
<1>4. /\ reserved \in [Keys -> Reservation] /\ lockedUntil \in [Keys -> Nat]
      /\ rotations \in [SlotIds -> Rotation]
  BY DEF TypeOK
<1> HIDE DEF end, lock
<1>5. ASSUME NEW x \in Keys PROVE LockStep(x)
  <2>1. CASE x = k
    <3>1. byConsensus'[x] = 0 /\ lockedUntil'[x] = lock /\ reserved'[x] = [slot |-> s, until |-> end]
      BY <1>1, <1>4, <2>1
    <3> QED
      BY <1>3, <3>1 DEF LockStep, end, lock
  <2>2. CASE x # k
    <3>1. /\ byConsensus'[x] \in {0, byConsensus[x]} /\ lockedUntil'[x] = lockedUntil[x]
          /\ reserved'[x] = reserved[x]
      BY <1>1, <1>4, <2>2
    <3> QED
      BY <3>1 DEF LockStep
  <2> QED
    BY <2>1, <2>2
<1>6. \A t \in SlotIds : rotations'[t] \in {rotations[t], NoRotation}
  BY <1>1, <1>4
<1> QED
  BY <1>2, <1>5, <1>6 DEF KeySteps, StageStep, KeyStep

\* A rotation takes an available key; the slot that is not ACTIVE gives its old one
\* up at once.
LEMMA RotateKeys ==
  ASSUME TypeOK, NEW by, NEW s \in SlotIds, NEW k \in Keys, RotateConsensusKey(by, s, k)
  PROVE  KeySteps
<1> DEFINE old == slots[s].key
           end == HeightPlus(params.reuseLockout)
           lock == height + params.reuseLockout
           due == HeightPlus(params.keyRotationDelay)
           promise == height + params.keyRotationDelay
           staged == [old |-> old, new |-> k, requested |-> height, effective |-> due,
                      promised |-> promise]
<1>0. /\ reserved \in [Keys -> Reservation] /\ lockedUntil \in [Keys -> Nat]
      /\ rotations \in [SlotIds -> Rotation] /\ byConsensus \in [Keys -> 0 .. MaxSlotID]
      /\ slots \in [SlotIds -> SlotRecord]
  BY DEF TypeOK
<1>1. ConsensusAvailable(k) /\ s # 0
  BY BoundsAssumption DEF RotateConsensusKey, SlotIds
<1>2. CASE slots[s].status = "ACTIVE"
  <2>1. /\ rotations' = [rotations EXCEPT ![s] = staged]
        /\ byConsensus' = [byConsensus EXCEPT ![k] = s]
        /\ reserved' = [reserved EXCEPT ![k] = NoReservation]
        /\ UNCHANGED <<slots, lockedUntil>>
    BY <1>2 DEF RotateConsensusKey
  <2>2. staged.promised = promise /\ staged.effective = due
    OBVIOUS
  <2> HIDE DEF staged, due, promise
  <2>3. \A x \in Keys : LockStep(x)
    BY <1>0, <1>1, <2>1 DEF LockStep
  <2>4. ASSUME NEW t \in SlotIds PROVE StageStep(t) /\ KeyStep(t)
    <3>1. rotations'[t] = IF t = s THEN staged ELSE rotations[t]
      BY <1>0, <2>1
    <3> QED
      BY <2>1, <2>2, <3>1 DEF StageStep, KeyStep, due, promise
  <2> QED
    BY <2>3, <2>4 DEF KeySteps
<1>3. CASE slots[s].status # "ACTIVE"
  <2>1. /\ slots' = [slots EXCEPT ![s].key = k]
        /\ byConsensus' = [byConsensus EXCEPT ![k] = s, ![old] = 0]
        /\ reserved' = [[reserved EXCEPT ![k] = NoReservation] EXCEPT
                          ![old] = [slot |-> s, until |-> end]]
        /\ lockedUntil' = [lockedUntil EXCEPT ![old] = lock]
        /\ rotations' = rotations
    BY <1>3 DEF RotateConsensusKey, Reserve, Lock
  <2>2. \A t \in SlotIds : slots[t].status = "ACTIVE" => slots'[t] = slots[t]
    BY <1>0, <1>3, <2>1
  <2> HIDE DEF end, lock
  <2>3. ASSUME NEW x \in Keys PROVE LockStep(x)
    <3>1. CASE x = old
      <4>1. /\ byConsensus'[x] = 0 /\ lockedUntil'[x] = lock
            /\ reserved'[x] = [slot |-> s, until |-> end]
        BY <1>0, <2>1, <3>1
      <4> QED
        BY <1>1, <4>1 DEF LockStep, end, lock
    <3>2. CASE x # old /\ x = k
      BY <1>0, <1>1, <2>1, <3>2 DEF LockStep
    <3>3. CASE x # old /\ x # k
      <4>1. /\ byConsensus'[x] = byConsensus[x] /\ lockedUntil'[x] = lockedUntil[x]
            /\ reserved'[x] = reserved[x]
        BY <1>0, <2>1, <3>3
      <4> QED
        BY <4>1 DEF LockStep
    <3> QED
      BY <3>1, <3>2, <3>3
  <2> QED
    BY <2>1, <2>2, <2>3 DEF KeySteps, StageStep, KeyStep
<1> QED
  BY <1>2, <1>3

\* EndBlock locks the keys it retires.
LEMMA EndBlockKeys ==
  ASSUME TypeOK, EndBlock
  PROVE  KeySteps
<1> DEFINE end == HeightPlus(params.reuseLockout)
           lock == height + params.reuseLockout
<1>0. slots \in [SlotIds -> SlotRecord]
  BY DEF TypeOK
<1>1. CASE ~ EndBlockOK
  <2>1. UNCHANGED <<slots, byConsensus, reserved, lockedUntil, rotations>>
    BY <1>1 DEF EndBlock, Commit
  <2> QED
    BY <2>1, KeysAlone DEF keyVars
<1>2. CASE EndBlockOK
  <2>1. /\ slots' = RotatedSlots /\ rotations' = SettledRotations
        /\ byConsensus' = [k \in Keys |-> IF k \in Retired \cup Dropped THEN 0 ELSE byConsensus[k]]
        /\ reserved' = [k \in Keys |->
             IF k \in Retired
             THEN [slot |-> CHOOSE s \in Applied : rotations[s].old = k, until |-> end]
             ELSE reserved[k]]
        /\ lockedUntil' = [k \in Keys |-> IF k \in Retired THEN lock ELSE lockedUntil[k]]
    BY <1>2 DEF EndBlock, Commit
  <2> HIDE DEF end, lock
  <2>2. ASSUME NEW x \in Keys PROVE LockStep(x)
    <3>1. CASE x \in Retired
      <4>0. \A s \in Applied : s # 0
        BY BoundsAssumption DEF Applied, Due, SlotIds
      <4> DEFINE c == CHOOSE s \in Applied : rotations[s].old = x
      <4>1. \E s \in Applied : rotations[s].old = x
        BY <3>1 DEF Retired
      <4>2. c \in Applied
        BY <4>1
      <4>3. c # 0
        BY <4>0, <4>2
      <4>4. reserved'[x] = [slot |-> c, until |-> end]
        BY <2>1, <3>1
      <4> HIDE DEF c
      <4>5. reserved'[x].slot # 0 /\ reserved'[x].until = end
        BY <4>3, <4>4
      <4>6. byConsensus'[x] = 0 /\ lockedUntil'[x] = lock
        BY <2>1, <3>1
      <4> QED
        BY <4>5, <4>6 DEF LockStep, end, lock
    <3>2. CASE x \notin Retired
      <4>1. /\ byConsensus'[x] \in {0, byConsensus[x]} /\ lockedUntil'[x] = lockedUntil[x]
            /\ reserved'[x] = reserved[x]
        BY <2>1, <3>2
      <4> QED
        BY <4>1 DEF LockStep
    <3> QED
      BY <3>1, <3>2
  <2>3. ASSUME NEW s \in SlotIds PROVE StageStep(s)
    BY <2>1 DEF SettledRotations, StageStep
  <2>4. ASSUME NEW s \in SlotIds PROVE KeyStep(s)
    <3>1. CASE s \in Applied
      <4>1. slots'[s] = [slots[s] EXCEPT !.key = rotations[s].new]
        BY <2>1, <3>1 DEF RotatedSlots
      <4>2. slots'[s].key = rotations[s].new
        BY <1>0, <4>1 DEF SlotRecord
      <4> QED
        BY <3>1, <4>2 DEF KeyStep, Applied, Due
    <3>2. CASE s \notin Applied
      BY <2>1, <3>2 DEF RotatedSlots, KeyStep
    <3> QED
      BY <3>1, <3>2
  <2> QED
    BY <2>2, <2>3, <2>4 DEF KeySteps
<1> QED
  BY <1>1, <1>2

\* Every step handles locks, staged rotations and keys as KeySteps says.
LEMMA NextKeys ==
  ASSUME TypeOK, [Next]_vars
  PROVE  KeySteps
<1>s. slots \in [SlotIds -> SlotRecord]
  BY DEF TypeOK
<1>1. ASSUME NEW by \in Accounts, NEW op \in Accounts, NEW pay \in Accounts,
             NEW settle \in Accounts, NEW k \in Keys, NEW m \in MetadataValues,
             NEW pol \in PolicyValues,
             RegisterCoreSlot(by, op, k, pay, settle, m, pol)
      PROVE  KeySteps
  BY <1>1, RegisterKeys
<1>2. ASSUME NEW by \in Accounts, NEW s \in SlotIds, ActivateCoreSlot(by, s)
      PROVE  KeySteps
  <2>1. UNCHANGED keyVars
    BY <1>2 DEF ActivateCoreSlot
  <2>2. \A t \in SlotIds : slots'[t].key = slots[t].key
    BY <1>2, <1>s DEF ActivateCoreSlot, SlotRecord
  <2> QED
    BY <2>1, <2>2, KeysAlone
<1>3. ASSUME NEW by \in Accounts, NEW s \in SlotIds,
             InactivateCoreSlot(by, s) \/ SuspendCoreSlot(by, s)
      PROVE  KeySteps
  <2>1. PICK st \in {"INACTIVE", "SUSPENDED"} :
          Leave(s, st) /\ CancelRotation(s) /\ UNCHANGED <<reserved, lockedUntil>>
    BY <1>3 DEF InactivateCoreSlot, SuspendCoreSlot
  <2> QED
    BY <2>1, CancelKeys
<1>4. ASSUME NEW by \in Accounts, NEW s \in SlotIds, RemoveCoreSlot(by, s)
      PROVE  KeySteps
  BY <1>4, RemoveKeys
<1>5. ASSUME NEW by \in Accounts, NEW s \in SlotIds, NEW k \in Keys, RotateConsensusKey(by, s, k)
      PROVE  KeySteps
  BY <1>5, RotateKeys
<1>6. ASSUME NEW by \in Accounts, NEW s \in SlotIds, NEW a,
             \/ UpdatePayoutAddress(by, s, a) \/ UpdateOperatorMetadata(by, s, a)
             \/ UpdateSettlementAddress(by, s, a) \/ UpdateSelectionPolicy(by, s, a)
      PROVE  KeySteps
  <2>1. \/ slots' = [slots EXCEPT ![s].payout = a]
        \/ slots' = [slots EXCEPT ![s].metadata = a]
        \/ slots' = [slots EXCEPT ![s].settlement = a]
        \/ slots' = [slots EXCEPT ![s].policyVersion = slots[s].policyVersion + 1,
                                  ![s].lastPolicyUpdate = height]
    BY <1>6 DEF UpdatePayoutAddress, UpdateOperatorMetadata, UpdateSettlementAddress,
                UpdateSelectionPolicy
  <2>2. \A t \in SlotIds : slots'[t].key = slots[t].key
    BY <1>s, <2>1 DEF SlotRecord
  <2>3. UNCHANGED keyVars
    BY <1>6 DEF UpdatePayoutAddress, UpdateOperatorMetadata, UpdateSettlementAddress,
                UpdateSelectionPolicy, OperatorUpdate
  <2> QED
    BY <2>2, <2>3, KeysAlone
<1>7. ASSUME UNCHANGED <<slots, keyVars>> PROVE KeySteps
  BY <1>7, KeysAlone
<1>8. ASSUME NEW by \in Accounts, NEW primary \in Accounts, NEW emergency \in Accounts,
             NEW p \in ParamCandidates, UpdateParams(by, p, primary, emergency)
      PROVE  KeySteps
  BY <1>7, <1>8 DEF UpdateParams
<1>9. ASSUME NEW by \in Accounts, NEW r \in Roles, NEW nominee \in Accounts,
             \/ NominateAuthority(by, r, nominee) \/ AcceptAuthority(by, r)
             \/ CancelAuthorityNomination(by, r)
      PROVE  KeySteps
  BY <1>7, <1>9 DEF NominateAuthority, AcceptAuthority, CancelAuthorityNomination, Governance
<1>10. CASE EndBlock
  BY <1>10, EndBlockKeys
<1>11. CASE UNCHANGED vars
  BY <1>7, <1>11 DEF vars
<1> QED
  BY <1>1, <1>2, <1>3, <1>4, <1>5, <1>6, <1>8, <1>9, <1>10, <1>11 DEF Next

\* Parameters change by an accepted document only, and heights never fall.
LEMMA ParamsAndHeight ==
  ASSUME TypeOK, [Next]_vars
  PROVE  /\ params' = params \/ params' \in ParamCandidates
         /\ height' >= height /\ height' \in Nat
<1>1. ASSUME NEW by \in Accounts, NEW op \in Accounts, NEW pay \in Accounts,
             NEW settle \in Accounts, NEW k \in Keys, NEW m \in MetadataValues,
             NEW pol \in PolicyValues,
             RegisterCoreSlot(by, op, k, pay, settle, m, pol)
      PROVE  params' = params
  BY <1>1 DEF RegisterCoreSlot
<1>2. ASSUME NEW by \in Accounts, NEW s \in SlotIds,
             \/ ActivateCoreSlot(by, s) \/ InactivateCoreSlot(by, s)
             \/ SuspendCoreSlot(by, s) \/ RemoveCoreSlot(by, s)
      PROVE  params' = params
  BY <1>2 DEF ActivateCoreSlot, InactivateCoreSlot, SuspendCoreSlot, RemoveCoreSlot, Leave
<1>3. ASSUME NEW by \in Accounts, NEW s \in SlotIds, NEW k \in Keys, RotateConsensusKey(by, s, k)
      PROVE  params' = params
  BY <1>3 DEF RotateConsensusKey
<1>4. ASSUME NEW by \in Accounts, NEW s \in SlotIds, NEW a,
             \/ UpdatePayoutAddress(by, s, a) \/ UpdateOperatorMetadata(by, s, a)
             \/ UpdateSettlementAddress(by, s, a) \/ UpdateSelectionPolicy(by, s, a)
      PROVE  params' = params
  BY <1>4 DEF UpdatePayoutAddress, UpdateOperatorMetadata, UpdateSettlementAddress,
              UpdateSelectionPolicy, OperatorUpdate
<1>5. ASSUME NEW by \in Accounts, NEW primary \in Accounts, NEW emergency \in Accounts,
             NEW p \in ParamCandidates, UpdateParams(by, p, primary, emergency)
      PROVE  params' \in ParamCandidates
  BY <1>5 DEF UpdateParams
<1>6. ASSUME NEW by \in Accounts, NEW r \in Roles, NEW nominee \in Accounts,
             \/ NominateAuthority(by, r, nominee) \/ AcceptAuthority(by, r)
             \/ CancelAuthorityNomination(by, r)
      PROVE  params' = params
  BY <1>6 DEF NominateAuthority, AcceptAuthority, CancelAuthorityNomination, Governance
<1>7. CASE EndBlock
  <2>1. params' = params /\ height' \in {height, height + 1}
    BY <1>7 DEF EndBlock, Commit
  <2> QED
    BY <2>1 DEF TypeOK
<1>8. CASE ~ EndBlock
  <2>1. height' = height /\ height \in Nat
    BY <1>8, HeightAndHolders DEF TypeOK
  <2>2. params' = params \/ params' \in ParamCandidates
    BY <1>1, <1>2, <1>3, <1>4, <1>5, <1>6, <1>8 DEF Next, vars
  <2> QED
    BY <2>1, <2>2
<1> QED
  BY <1>7, <1>8

LockInv ==
  /\ TypeOK
  /\ params \in ParamCandidates
  /\ \A k \in Keys : LockKept(k)

RotationInv ==
  /\ TypeOK
  /\ params \in ParamCandidates
  /\ \A s \in SlotIds : RotationTimed(s)

\* Every step keeps the keys under lockout out of the index.
LEMMA NextLocks ==
  ASSUME LockoutFits, LockInv, [Next]_vars
  PROVE  LockInv'
<1>0. TypeOK /\ params \in ParamCandidates
  BY DEF LockInv
<1>1. TypeOK'
  BY <1>0, NextType
<1>2. KeySteps
  BY <1>0, NextKeys
<1>3. params' \in ParamCandidates /\ height' >= height /\ height' \in Nat
  BY <1>0, ParamsAndHeight
<1>4. params.reuseLockout \in Nat /\ MaxHeight + params.reuseLockout <= IntMax
  BY <1>0 DEF LockoutFits, TypeOK, ParamDocument
<1>5. HeightPlus(params.reuseLockout) = height + params.reuseLockout
  BY <1>0, <1>4, HeightPlusExact
<1>6. ASSUME NEW k \in Keys PROVE LockKept(k)'
  <2>1. LockKept(k) /\ LockStep(k)
    BY <1>2 DEF LockInv, KeySteps
  <2>2. /\ height \in Nat /\ lockedUntil[k] \in Nat /\ lockedUntil'[k] \in Nat
        /\ reserved[k].until \in Int
    BY <1>0, <1>1 DEF TypeOK, Reservation
  <2>3. CASE /\ lockedUntil'[k] = lockedUntil[k] /\ reserved'[k] = reserved[k]
             /\ byConsensus'[k] \in {0, byConsensus[k]}
    BY <1>3, <2>1, <2>2, <2>3 DEF LockKept
  <2>4. CASE lockedUntil'[k] = lockedUntil[k] /\ ConsensusAvailable(k)
    BY <1>3, <2>1, <2>2, <2>4 DEF LockKept, ConsensusAvailable
  <2>5. CASE /\ byConsensus'[k] = 0 /\ reserved'[k].slot # 0
             /\ reserved'[k].until = HeightPlus(params.reuseLockout)
             /\ lockedUntil'[k] = height + params.reuseLockout
    <3>1. reserved'[k].until >= lockedUntil'[k]
      BY <1>5, <2>2, <2>5
    <3> QED
      BY <2>5, <3>1 DEF LockKept
  <2> QED
    BY <2>1, <2>3, <2>4, <2>5 DEF LockStep
<1> QED
  BY <1>1, <1>3, <1>6 DEF LockInv

\* A consensus key given up by a removal or a rotation comes back into use, under
\* any slot, only when the lockout configured then has run out: in every history,
\* for every number of slots and keys, as long as the sum of the height and the
\* lockout fits in an int64.
THEOREM LockoutIsHonoured ==
  ASSUME LockoutFits
  PROVE  Spec => []LockoutHonoured
<1>1. Init => LockInv
  <2> SUFFICES ASSUME Init PROVE LockInv
    OBVIOUS
  <2>1. TypeOK
    BY InitType
  <2>2. params \in ParamCandidates /\ height = 1 /\ \A k \in Keys : lockedUntil[k] = 0
    BY DEF Init
  <2> QED
    BY <2>1, <2>2 DEF LockInv, LockKept
<1>2. LockInv /\ [Next]_vars => LockInv'
  BY NextLocks
<1>3. LockInv => LockoutHonoured
  BY DEF LockInv, LockKept, LockoutHonoured
<1> QED
  BY <1>1, <1>2, <1>3, PTL DEF Spec

\* Every step keeps staged rotations due when their own delay is over.
LEMMA NextRotations ==
  ASSUME DelayFits, RotationInv, [Next]_vars
  PROVE  RotationInv'
<1>0. TypeOK /\ params \in ParamCandidates
  BY DEF RotationInv
<1>1. TypeOK'
  BY <1>0, NextType
<1>2. KeySteps
  BY <1>0, NextKeys
<1>3. params' \in ParamCandidates
  BY <1>0, ParamsAndHeight
<1>4. params.keyRotationDelay \in Nat /\ MaxHeight + params.keyRotationDelay <= IntMax
  BY <1>0 DEF DelayFits, TypeOK, ParamDocument
<1>5. HeightPlus(params.keyRotationDelay) = height + params.keyRotationDelay
  BY <1>0, <1>4, HeightPlusExact
<1>6. ASSUME NEW s \in SlotIds PROVE RotationTimed(s)'
  <2>1. RotationTimed(s) /\ StageStep(s)
    BY <1>2 DEF RotationInv, KeySteps
  <2>2. CASE rotations'[s] \in {rotations[s], NoRotation}
    BY <2>1, <2>2 DEF RotationTimed, Pending, NoRotation
  <2>3. CASE /\ rotations'[s].promised = height + params.keyRotationDelay
             /\ rotations'[s].effective = HeightPlus(params.keyRotationDelay)
    BY <1>5, <2>3 DEF RotationTimed
  <2> QED
    BY <2>1, <2>2, <2>3 DEF StageStep
<1> QED
  BY <1>1, <1>3, <1>6 DEF RotationInv

\* The key of an ACTIVE slot changes only by the rotation staged for it, and only
\* after the delay that was in force at its request has passed since, whatever
\* documents have been adopted meanwhile, as long as the sum of the height and the
\* delay fits in an int64.
THEOREM RotationsWaitTheirDelay ==
  ASSUME DelayFits
  PROVE  Spec => RotationWaits
<1>1. Init => RotationInv
  <2> SUFFICES ASSUME Init PROVE RotationInv
    OBVIOUS
  <2>1. TypeOK
    BY InitType
  <2>2. params \in ParamCandidates /\ \A s \in SlotIds : rotations[s] = NoRotation
    BY DEF Init
  <2> QED
    BY <2>1, <2>2 DEF RotationInv, RotationTimed, Pending, NoRotation
<1>2. RotationInv /\ [Next]_vars => RotationInv'
  BY NextRotations
<1>3. RotationInv /\ [Next]_vars =>
        [\A s \in SlotIds :
           slots[s].status = "ACTIVE" /\ slots'[s].key # slots[s].key =>
             /\ slots'[s].key = rotations[s].new
             /\ height >= rotations[s].promised]_vars
  <2> SUFFICES ASSUME RotationInv, [Next]_vars, NEW s \in SlotIds,
                      slots[s].status = "ACTIVE", slots'[s].key # slots[s].key
               PROVE  /\ slots'[s].key = rotations[s].new
                      /\ height >= rotations[s].promised
    OBVIOUS
  <2>1. TypeOK /\ RotationTimed(s)
    BY DEF RotationInv
  <2>2. slots'[s].key = rotations[s].new /\ Pending(s) /\ rotations[s].effective <= height
    BY <2>1, NextKeys DEF KeySteps, KeyStep
  <2>3. rotations[s].effective = rotations[s].promised
    BY <2>1, <2>2 DEF RotationTimed
  <2>4. rotations[s].effective \in Int /\ height \in Int
    BY <2>1 DEF TypeOK, Rotation
  <2> QED
    BY <2>2, <2>3, <2>4
<1> QED
  BY <1>1, <1>2, <1>3, PTL DEF Spec, RotationWaits

-----------------------------------------------------------------------------
(* The policy history.  The rows of a slot chain: each one ends where the  *)
(* next begins, the starts increase, and the seek index holds exactly the  *)
(* starts.                                                                 *)

\* The first c rows chain, the last of them open and in force by h + 1.
Chain(rows, starts, c, h) ==
  /\ c \in Versions
  /\ rows[c].from <= h + 1 /\ rows[c].until = 0
  /\ \A v \in 1 .. c : rows[v].from \in Heights /\ starts[rows[v].from] = v
  /\ \A v, w \in 1 .. c : v < w => rows[v].from < rows[w].from
  /\ \A v \in 1 .. c : v < c => rows[v].until = rows[v + 1].from
  /\ \A x \in Heights : starts[x] # 0 => starts[x] \in 1 .. c /\ rows[starts[x]].from = x

PolicyChain(s) ==
  /\ Exists(s) => Chain(policies[s], policyStarts[s], slots[s].policyVersion, height)
  /\ ~ Exists(s) => \A x \in Heights : policyStarts[s][x] = 0

PolicyInv ==
  /\ TypeOK
  /\ \A s \in SlotIds : PolicyChain(s)

\* The resolver, as a function of the rows and the index of one slot.
StartsIn(starts, h) == {x \in Heights : x <= h /\ starts[x] # 0}
Resolved(rows, starts, h) ==
  IF StartsIn(starts, h) = {} THEN 0
  ELSE LET x == CHOOSE m \in StartsIn(starts, h) : \A n \in StartsIn(starts, h) : n <= m
           v == starts[x]
           row == rows[v]
       IN IF row.from = x /\ (row.until # 0 => h < row.until) THEN v ELSE 0

\* PolicyAtHeight is that resolver.
LEMMA PolicyAtHeightIsResolved ==
  ASSUME NEW s, NEW h
  PROVE  PolicyAtHeight(s, h) = Resolved(policies[s], policyStarts[s], h)
  BY DEF PolicyAtHeight, Resolved, StartsUpTo, StartsIn

\* Row v is the last one that starts at or below h.
InForce(rows, c, v, h) ==
  /\ v \in 1 .. c
  /\ rows[v].from <= h
  /\ v < c => h < rows[v + 1].from

\* In a chain the resolver finds the row in force.
LEMMA ChainResolves ==
  ASSUME NEW rows, NEW starts, NEW c, NEW t, Chain(rows, starts, c, t),
         NEW h \in Heights, NEW v, InForce(rows, c, v, h)
  PROVE  Resolved(rows, starts, h) = v
<1> DEFINE x == rows[v].from
           S == StartsIn(starts, h)
<1>0. /\ c \in Nat /\ v \in Nat /\ v \in 1 .. c /\ v # 0 /\ h \in Nat
      /\ \A y \in Heights : y \in Nat
  BY BoundsAssumption DEF Chain, Versions, Heights, InForce
<1>1. x \in Heights /\ starts[x] = v /\ x <= h /\ x \in Nat
  BY <1>0 DEF Chain, InForce
<1>2. x \in S
  BY <1>0, <1>1 DEF StartsIn
<1>3. ASSUME NEW y \in S PROVE y <= x
  <2>1. /\ y \in Heights /\ y <= h /\ starts[y] \in 1 .. c /\ rows[starts[y]].from = y
        /\ y \in Nat
    BY <1>0, <1>3 DEF StartsIn, Chain
  <2>2. CASE starts[y] = v
    BY <1>1, <2>1, <2>2
  <2>3. CASE starts[y] < v
    <3>1. rows[starts[y]].from < x
      BY <1>0, <2>1, <2>3 DEF Chain
    <3> QED
      BY <1>0, <1>1, <2>1, <3>1
  <2>4. CASE starts[y] > v
    <3>1. v < c /\ v + 1 \in 1 .. c /\ v + 1 <= starts[y]
      BY <1>0, <2>1, <2>4
    <3>2. h < rows[v + 1].from /\ rows[v + 1].from \in Nat
      BY <1>0, <3>1 DEF InForce, Chain
    <3>3. rows[v + 1].from <= y
      <4>1. CASE v + 1 = starts[y]
        BY <1>0, <2>1, <3>2, <4>1
      <4>2. CASE v + 1 < starts[y]
        <5>1. rows[v + 1].from < rows[starts[y]].from
          BY <2>1, <3>1, <4>2 DEF Chain
        <5> QED
          BY <1>0, <2>1, <3>2, <5>1
      <4> QED
        BY <1>0, <2>1, <3>1, <4>1, <4>2
    <3>4. FALSE
      BY <1>0, <2>1, <3>2, <3>3
    <3> QED
      BY <3>4
  <2>5. starts[y] \in Nat
    BY <1>0, <2>1
  <2> QED
    BY <1>0, <2>2, <2>3, <2>4, <2>5
<1>4. \A m \in S : m \in Nat
  BY <1>0 DEF StartsIn
<1>5. (CHOOSE m \in S : \A n \in S : n <= m) = x
  <2> HIDE DEF S, x
  <2>1. \A m \in S : (\A n \in S : n <= m) => m = x
    BY <1>2, <1>3, <1>4
  <2> QED
    BY <1>2, <1>3, <2>1
<1>6. rows[v].until # 0 => h < rows[v].until
  BY <1>0 DEF Chain, InForce
<1>7. S # {}
  BY <1>2
<1> HIDE DEF S
<1>8. Resolved(rows, starts, h) =
        LET y == CHOOSE m \in S : \A n \in S : n <= m
            w == starts[y]
            row == rows[w]
        IN IF row.from = y /\ (row.until # 0 => h < row.until) THEN w ELSE 0
  BY <1>7 DEF Resolved, S
<1> QED
  BY <1>1, <1>5, <1>6, <1>8

\* From the first row on, some row of a chain is in force.
LEMMA ChainCovers ==
  ASSUME NEW rows, NEW starts, NEW c, NEW t, Chain(rows, starts, c, t),
         NEW h \in Heights, NEW w \in 1 .. c, rows[w].from <= h
  PROVE  \E v \in 1 .. c : InForce(rows, c, v, h)
<1> DEFINE S == {v \in 1 .. c : rows[v].from <= h}
<1>0. c \in Nat /\ h \in Nat /\ \A y \in Heights : y \in Nat
  BY BoundsAssumption DEF Chain, Versions, Heights
<1>1. S \subseteq Nat /\ w \in S /\ \A v \in S : v <= c
  BY <1>0
<1>2. PICK v \in S : \A u \in S : u <= v
  <2> HIDE DEF S
  <2> QED
    BY <1>0, <1>1, GreatestNatural
<1>3. v \in 1 .. c /\ rows[v].from <= h
  BY <1>2
<1>4. v < c => h < rows[v + 1].from
  <2> SUFFICES ASSUME v < c PROVE h < rows[v + 1].from
    OBVIOUS
  <2>1. v + 1 \in 1 .. c /\ ~ (v + 1 <= v)
    BY <1>0, <1>3
  <2>2. v + 1 \notin S
    BY <1>2, <2>1
  <2>3. ~ (rows[v + 1].from <= h) /\ rows[v + 1].from \in Nat
    BY <1>0, <2>1, <2>2 DEF Chain
  <2> QED
    BY <1>0, <2>3
<1> QED
  BY <1>3, <1>4 DEF InForce

\* What a step may do to the policy history of a slot: nothing, open it when the
\* slot is registered, or add a row from the next block on.
PolicyKept(s) ==
  /\ policies'[s] = policies[s] /\ policyStarts'[s] = policyStarts[s]
  /\ slots'[s].policyVersion = slots[s].policyVersion
  /\ Exists(s)' <=> Exists(s)

PolicyOpened(s) ==
  /\ ~ Exists(s) /\ Exists(s)'
  /\ slots'[s].policyVersion = 1
  /\ policies'[s][1].from = height /\ policies'[s][1].until = 0
  /\ policyStarts'[s] = [policyStarts[s] EXCEPT ![height] = 1]

PolicyAdded(s) ==
  LET c == slots[s].policyVersion IN
  /\ Exists(s) /\ Exists(s)'
  /\ slots'[s].policyVersion = c + 1 /\ c + 1 <= MaxVersion
  /\ policyStarts[s][height + 1] = 0
  /\ policyStarts'[s] = [policyStarts[s] EXCEPT ![height + 1] = c + 1]
  /\ \A v \in Versions : v # c /\ v # c + 1 => policies'[s][v] = policies[s][v]
  /\ policies'[s][c].from = policies[s][c].from /\ policies'[s][c].until = height + 1
  /\ policies'[s][c].value = policies[s][c].value
  /\ policies'[s][c + 1].from = height + 1 /\ policies'[s][c + 1].until = 0

PolicyStep(s) == PolicyKept(s) \/ PolicyOpened(s) \/ PolicyAdded(s)

\* Registering a slot opens its history.
LEMMA RegisterPolicies ==
  ASSUME TypeOK, NEW by, NEW op, NEW k, NEW pay, NEW settle, NEW m, NEW pol \in PolicyValues,
         RegisterCoreSlot(by, op, k, pay, settle, m, pol)
  PROVE  \A s \in SlotIds : PolicyStep(s)
<1>n. PICK id : id = nextSlotID
  OBVIOUS
<1>0. /\ slots \in [SlotIds -> SlotRecord] /\ policies \in [SlotIds -> [Versions -> PolicyRow]]
      /\ policyStarts \in [SlotIds -> [Heights -> 0 .. MaxVersion]] /\ id \in SlotIds
      /\ 1 \in Versions /\ height \in Heights
  BY BoundsAssumption, <1>n DEF TypeOK, Versions, Heights
<1>1. /\ ~ Exists(id)
      /\ policies' = [policies EXCEPT ![id][1] = OpenRow(pol, height)]
      /\ policyStarts' = [policyStarts EXCEPT ![id][height] = 1]
  BY <1>n DEF RegisterCoreSlot, FreshID, IndexStart
<1>2. /\ slots'[id].status = "PENDING" /\ slots'[id].policyVersion = 1
      /\ \A s \in SlotIds : s # id => slots'[s] = slots[s]
  <2> DEFINE new == [status |-> "PENDING", operator |-> op, key |-> k, payout |-> pay,
                     settlement |-> settle, metadata |-> m, power |-> 0, sequence |-> 0,
                     effective |-> 0, policyVersion |-> 1, lastPolicyUpdate |-> 0]
  <2>1. slots' = [slots EXCEPT ![id] = new]
    BY <1>n DEF RegisterCoreSlot
  <2>2. new.status = "PENDING" /\ new.policyVersion = 1
    OBVIOUS
  <2> HIDE DEF new
  <2> QED
    BY <1>0, <2>1, <2>2
<1>3. PolicyOpened(id)
  <2>1. policies'[id][1] = OpenRow(pol, height)
    BY <1>0, <1>1
  <2>2. policies'[id][1].from = height /\ policies'[id][1].until = 0
    BY <2>1 DEF OpenRow
  <2>3. policyStarts'[id] = [policyStarts[id] EXCEPT ![height] = 1]
    BY <1>0, <1>1
  <2> QED
    BY <1>1, <1>2, <2>2, <2>3 DEF PolicyOpened, Exists
<1>4. ASSUME NEW s \in SlotIds, s # id PROVE PolicyKept(s)
  BY <1>0, <1>1, <1>2, <1>4 DEF PolicyKept, Exists
<1> QED
  BY <1>3, <1>4 DEF PolicyStep

\* An update closes the current row where the one it adds begins.
LEMMA UpdatePolicies ==
  ASSUME TypeOK, NEW by, NEW z \in SlotIds, NEW pol \in PolicyValues,
         UpdateSelectionPolicy(by, z, pol)
  PROVE  \A s \in SlotIds : PolicyStep(s)
<1> DEFINE c == slots[z].policyVersion
           n == c + 1
           t == height + 1
<1>0. /\ slots \in [SlotIds -> SlotRecord] /\ policies \in [SlotIds -> [Versions -> PolicyRow]]
      /\ policyStarts \in [SlotIds -> [Heights -> 0 .. MaxVersion]]
  BY DEF TypeOK
<1>1. c \in Versions /\ n \in Versions /\ c # n /\ n <= MaxVersion /\ t \in Heights
  <2>1. c \in 0 .. MaxVersion
    BY <1>0 DEF SlotRecord
  <2>2. c # 0 /\ c < MaxVersion
    BY DEF UpdateSelectionPolicy, HasCurrentPolicy
  <2>3. MaxVersion \in Nat /\ MaxHeight \in Nat /\ height \in 1 .. MaxHeight
    BY BoundsAssumption DEF TypeOK
  <2> QED
    BY <2>1, <2>2, <2>3 DEF Versions, Heights
<1>2. /\ Exists(z) /\ policyStarts[z][t] = 0
      /\ policies' = [policies EXCEPT ![z][c].until = t, ![z][n] = OpenRow(pol, t)]
      /\ policyStarts' = [policyStarts EXCEPT ![z][t] = n]
      /\ slots' = [slots EXCEPT ![z].policyVersion = n, ![z].lastPolicyUpdate = height]
  BY DEF UpdateSelectionPolicy, PolicySeam, PolicyEffective, IndexStart
<1> HIDE DEF c, n, t
<1>3. /\ slots'[z].policyVersion = n /\ slots'[z].status = slots[z].status
      /\ \A s \in SlotIds : s # z => slots'[s] = slots[s]
  BY <1>0, <1>2 DEF SlotRecord
<1>4. policyStarts'[z] = [policyStarts[z] EXCEPT ![t] = n]
  BY <1>0, <1>2
<1>5. policies[z] \in [Versions -> PolicyRow]
  BY <1>0
<1>6. policies'[z] = [policies[z] EXCEPT ![c].until = t, ![n] = OpenRow(pol, t)]
  BY <1>0, <1>2
<1>7. \A v \in Versions : v # c /\ v # n => policies'[z][v] = policies[z][v]
  BY <1>5, <1>6
<1>8. policies'[z][c] = [policies[z][c] EXCEPT !.until = t] /\ policies[z][c] \in PolicyRow
  BY <1>1, <1>5, <1>6
<1>9. /\ policies'[z][c].from = policies[z][c].from /\ policies'[z][c].until = t
      /\ policies'[z][c].value = policies[z][c].value
  BY <1>8 DEF PolicyRow
<1>10. policies'[z][n].from = t /\ policies'[z][n].until = 0
  <2>1. policies'[z][n] = OpenRow(pol, t)
    BY <1>1, <1>5, <1>6
  <2> QED
    BY <2>1 DEF OpenRow
<1>11. PolicyAdded(z)
  BY <1>1, <1>2, <1>3, <1>4, <1>7, <1>9, <1>10 DEF PolicyAdded, Exists, c, n, t
<1>12. ASSUME NEW s \in SlotIds, s # z PROVE PolicyKept(s)
  BY <1>0, <1>2, <1>3, <1>12 DEF PolicyKept, Exists
<1> QED
  BY <1>11, <1>12 DEF PolicyStep

\* Every other step leaves the histories, the versions and the records in place.
LEMMA NextPolicies ==
  ASSUME TypeOK, [Next]_vars
  PROVE  \A s \in SlotIds : PolicyStep(s)
<1>s. slots \in [SlotIds -> SlotRecord]
  BY DEF TypeOK
<1>0. ASSUME UNCHANGED policyVars,
             \A s \in SlotIds : /\ slots'[s].policyVersion = slots[s].policyVersion
                                /\ slots'[s].status = "ABSENT" <=> slots[s].status = "ABSENT"
      PROVE  \A s \in SlotIds : PolicyStep(s)
  BY <1>0 DEF PolicyStep, PolicyKept, policyVars, Exists
<1>1. ASSUME NEW by \in Accounts, NEW op \in Accounts, NEW pay \in Accounts,
             NEW settle \in Accounts, NEW k \in Keys, NEW m \in MetadataValues,
             NEW pol \in PolicyValues,
             RegisterCoreSlot(by, op, k, pay, settle, m, pol)
      PROVE  \A s \in SlotIds : PolicyStep(s)
  BY <1>1, RegisterPolicies
<1>2. ASSUME NEW by \in Accounts, NEW z \in SlotIds, ActivateCoreSlot(by, z)
      PROVE  \A s \in SlotIds : PolicyStep(s)
  <2>1. UNCHANGED policyVars /\ slots[z].status # "ABSENT"
    BY <1>2 DEF ActivateCoreSlot, CanActivate
  <2>2. \A s \in SlotIds : /\ slots'[s].policyVersion = slots[s].policyVersion
                           /\ slots'[s].status = "ABSENT" <=> slots[s].status = "ABSENT"
    BY <1>2, <1>s, <2>1 DEF ActivateCoreSlot, SlotRecord
  <2> QED
    BY <1>0, <2>1, <2>2
<1>3. ASSUME NEW by \in Accounts, NEW z \in SlotIds,
             InactivateCoreSlot(by, z) \/ SuspendCoreSlot(by, z) \/ RemoveCoreSlot(by, z)
      PROVE  \A s \in SlotIds : PolicyStep(s)
  <2>1. PICK st \in {"INACTIVE", "SUSPENDED", "REMOVED"} : Leave(z, st)
    BY <1>3 DEF InactivateCoreSlot, SuspendCoreSlot, RemoveCoreSlot
  <2>2. slots[z].status # "ABSENT"
    BY <1>3 DEF InactivateCoreSlot, SuspendCoreSlot, RemoveCoreSlot
  <2>3. UNCHANGED policyVars /\ slots' = [slots EXCEPT ![z].status = st, ![z].power = 0]
    BY <2>1 DEF Leave
  <2>4. \A s \in SlotIds : /\ slots'[s].policyVersion = slots[s].policyVersion
                           /\ slots'[s].status = "ABSENT" <=> slots[s].status = "ABSENT"
    BY <1>s, <2>1, <2>2, <2>3 DEF SlotRecord
  <2> QED
    BY <1>0, <2>3, <2>4
<1>4. ASSUME NEW by \in Accounts, NEW z \in SlotIds, NEW k \in Keys, RotateConsensusKey(by, z, k)
      PROVE  \A s \in SlotIds : PolicyStep(s)
  <2>1. /\ UNCHANGED policyVars
        /\ slots' = slots \/ slots' = [slots EXCEPT ![z].key = k]
    BY <1>4 DEF RotateConsensusKey
  <2>2. \A s \in SlotIds : /\ slots'[s].policyVersion = slots[s].policyVersion
                           /\ slots'[s].status = slots[s].status
    BY <1>s, <2>1 DEF SlotRecord
  <2> QED
    BY <1>0, <2>1, <2>2
<1>5. ASSUME NEW by \in Accounts, NEW z \in SlotIds, NEW a,
             \/ UpdatePayoutAddress(by, z, a) \/ UpdateOperatorMetadata(by, z, a)
             \/ UpdateSettlementAddress(by, z, a)
      PROVE  \A s \in SlotIds : PolicyStep(s)
  <2>1. /\ UNCHANGED policyVars
        /\ \/ slots' = [slots EXCEPT ![z].payout = a]
           \/ slots' = [slots EXCEPT ![z].metadata = a]
           \/ slots' = [slots EXCEPT ![z].settlement = a]
    BY <1>5 DEF UpdatePayoutAddress, UpdateOperatorMetadata, UpdateSettlementAddress,
                OperatorUpdate
  <2>2. \A s \in SlotIds : /\ slots'[s].policyVersion = slots[s].policyVersion
                           /\ slots'[s].status = slots[s].status
    BY <1>s, <2>1 DEF SlotRecord
  <2> QED
    BY <1>0, <2>1, <2>2
<1>6. ASSUME NEW by \in Accounts, NEW z \in SlotIds, NEW pol \in PolicyValues,
             UpdateSelectionPolicy(by, z, pol)
      PROVE  \A s \in SlotIds : PolicyStep(s)
  BY <1>6, UpdatePolicies
<1>7. ASSUME UNCHANGED <<slots, policyVars>> PROVE \A s \in SlotIds : PolicyStep(s)
  BY <1>0, <1>7
<1>8. ASSUME NEW by \in Accounts, NEW primary \in Accounts, NEW emergency \in Accounts,
             NEW p \in ParamCandidates, UpdateParams(by, p, primary, emergency)
      PROVE  \A s \in SlotIds : PolicyStep(s)
  BY <1>7, <1>8 DEF UpdateParams
<1>9. ASSUME NEW by \in Accounts, NEW r \in Roles, NEW nominee \in Accounts,
             \/ NominateAuthority(by, r, nominee) \/ AcceptAuthority(by, r)
             \/ CancelAuthorityNomination(by, r)
      PROVE  \A s \in SlotIds : PolicyStep(s)
  BY <1>7, <1>9 DEF NominateAuthority, AcceptAuthority, CancelAuthorityNomination, Governance
<1>10. CASE EndBlock
  <2>1. UNCHANGED policyVars /\ (slots' = RotatedSlots \/ slots' = slots)
    BY <1>10 DEF EndBlock, Commit
  <2>2. \A s \in SlotIds : /\ RotatedSlots[s].policyVersion = slots[s].policyVersion
                           /\ RotatedSlots[s].status = slots[s].status
    BY <1>s DEF RotatedSlots, SlotRecord
  <2> QED
    BY <1>0, <2>1, <2>2
<1>11. CASE UNCHANGED vars
  BY <1>7, <1>11 DEF vars
<1> QED
  BY <1>1, <1>2, <1>3, <1>4, <1>5, <1>6, <1>8, <1>9, <1>10, <1>11 DEF Next

\* An opened history is a chain of one row.
LEMMA OpenedChain ==
  ASSUME TypeOK, NEW s \in SlotIds, PolicyChain(s), PolicyOpened(s),
         height' >= height, height' \in Nat
  PROVE  PolicyChain(s)'
<1> DEFINE rows == policies'[s]
           starts == policyStarts'[s]
<1>0. /\ height \in Nat /\ height \in Heights /\ 1 \in Versions
      /\ policyStarts[s] \in [Heights -> 0 .. MaxVersion]
  BY BoundsAssumption DEF TypeOK, Heights, Versions
<1>1. \A x \in Heights : policyStarts[s][x] = 0
  BY DEF PolicyChain, PolicyOpened
<1>2. starts = [policyStarts[s] EXCEPT ![height] = 1]
  BY DEF PolicyOpened
<1>3. starts[height] = 1 /\ \A x \in Heights : x # height => starts[x] = 0
  BY <1>0, <1>1, <1>2
<1>4. rows[1].from = height /\ rows[1].until = 0
  BY DEF PolicyOpened
<1> HIDE DEF rows, starts
<1>5. \A v : v \in 1 .. 1 <=> v = 1
  OBVIOUS
<1>6. Chain(rows, starts, 1, height')
  <2>1. rows[1].from <= height' + 1
    <3>1. \A x, y \in Nat : y >= x => x <= y + 1
      OBVIOUS
    <3>2. height <= height' + 1
      BY <1>0, <3>1
    <3> QED
      BY <1>4, <3>2
  <2>2. \A v \in 1 .. 1 : rows[v].from \in Heights /\ starts[rows[v].from] = v
    BY <1>0, <1>3, <1>4, <1>5
  <2>3. \A v, w \in 1 .. 1 : v < w => rows[v].from < rows[w].from
    OBVIOUS
  <2>4. \A v \in 1 .. 1 : v < 1 => rows[v].until = rows[v + 1].from
    OBVIOUS
  <2>5. \A x \in Heights : starts[x] # 0 => starts[x] \in 1 .. 1 /\ rows[starts[x]].from = x
    BY <1>3, <1>4, <1>5
  <2> QED
    BY <1>0, <1>4, <2>1, <2>2, <2>3, <2>4, <2>5 DEF Chain
<1>7. Exists(s)' /\ slots'[s].policyVersion = 1
  BY DEF PolicyOpened
<1> QED
  BY <1>6, <1>7 DEF PolicyChain, rows, starts

\* A row added at the next height extends the chain.
LEMMA AddedChain ==
  ASSUME TypeOK, NEW s \in SlotIds, PolicyChain(s), PolicyAdded(s),
         height' >= height, height' \in Nat
  PROVE  PolicyChain(s)'
<1> DEFINE c == slots[s].policyVersion
           n == c + 1
           t == height + 1
           rows == policies[s]
           starts == policyStarts[s]
           rows1 == policies'[s]
           starts1 == policyStarts'[s]
<1>1. /\ Exists(s)' /\ slots'[s].policyVersion = n /\ n <= MaxVersion
      /\ starts[t] = 0 /\ starts1 = [starts EXCEPT ![t] = n]
      /\ \A v \in Versions : v # c /\ v # n => rows1[v] = rows[v]
      /\ rows1[c].from = rows[c].from /\ rows1[c].until = t
      /\ rows1[n].from = t /\ rows1[n].until = 0
  BY DEF PolicyAdded
<1>2. Chain(rows, starts, c, height)
  BY DEF PolicyAdded, PolicyChain
<1>3. /\ height \in Nat /\ t \in Heights /\ t \in Nat /\ MaxVersion \in Nat /\ n \in Nat /\ c \in Nat
      /\ starts \in [Heights -> 0 .. MaxVersion]
      /\ \A x \in Heights : x \in Nat
      /\ c \in Versions /\ n = c + 1 /\ t = height + 1
  <2>1. c \in Versions
    BY <1>2 DEF Chain
  <2>2. MaxVersion \in Nat /\ MaxHeight \in Nat /\ height \in 1 .. MaxHeight
    BY BoundsAssumption DEF TypeOK
  <2>3. c \in Nat /\ n \in Nat
    BY <2>1, <2>2 DEF Versions
  <2>4. height \in Nat /\ t \in Nat /\ t \in Heights /\ \A x \in Heights : x \in Nat
    BY <2>2 DEF Heights
  <2>5. starts \in [Heights -> 0 .. MaxVersion]
    BY DEF TypeOK
  <2> QED
    BY <2>1, <2>2, <2>3, <2>4, <2>5
<1> HIDE DEF c, n, t, rows, starts, rows1, starts1
<1>4. n \in Versions /\ 1 .. n \subseteq Versions
  BY <1>1, <1>3 DEF Versions
<1>5. \A v : v \in 1 .. n <=> v \in 1 .. c \/ v = n
  BY <1>3
<1>6. \A v \in 1 .. c : v # n /\ v \in Nat /\ v \in Versions /\ (v < n /\ v <= c) /\ (v # c => v < c)
  BY <1>3 DEF Versions
<1>7. \A v \in 1 .. c : rows1[v].from = rows[v].from
  BY <1>1, <1>6
<1>8. ASSUME NEW v \in 1 .. c
      PROVE  /\ rows[v].from \in Heights /\ rows[v].from \in Nat
             /\ starts[rows[v].from] = v /\ rows[v].from # t
  <2>1. rows[v].from \in Heights /\ starts[rows[v].from] = v
    BY <1>2 DEF Chain
  <2>2. starts[t] = 0 /\ v # 0
    BY <1>1, <1>3
  <2> QED
    BY <1>3, <2>1, <2>2
<1>9. ASSUME NEW v \in 1 .. c PROVE rows[v].from < t
  <2>1. rows[c].from <= t /\ c \in 1 .. c
    BY <1>2, <1>3 DEF Chain, Versions
  <2>2. rows[c].from < t
    BY <1>3, <1>8, <2>1
  <2>3. CASE v = c
    BY <2>2, <2>3
  <2>4. CASE v # c
    <3>1. rows[v].from < rows[c].from
      BY <1>2, <1>6, <2>1, <2>4 DEF Chain
    <3> QED
      BY <1>3, <1>8, <2>1, <2>2, <3>1
  <2> QED
    BY <2>3, <2>4
<1>10. \A x \in Heights : starts1[x] = IF x = t THEN n ELSE starts[x]
  BY <1>1, <1>3
<1>11. \A v \in 1 .. n : rows1[v].from \in Heights /\ starts1[rows1[v].from] = v
  <2>1. ASSUME NEW v \in 1 .. c PROVE rows1[v].from \in Heights /\ starts1[rows1[v].from] = v
    BY <1>7, <1>8, <1>10
  <2>2. rows1[n].from \in Heights /\ starts1[rows1[n].from] = n
    BY <1>1, <1>3, <1>10
  <2> QED
    BY <1>5, <2>1, <2>2
<1>12. ASSUME NEW v \in 1 .. n, NEW w \in 1 .. n, v < w
       PROVE  rows1[v].from < rows1[w].from
  <2>1. CASE w \in 1 .. c
    <3>1. v \in 1 .. c
      BY <1>3, <1>12, <2>1
    <3>2. rows[v].from < rows[w].from
      BY <1>2, <1>12, <2>1, <3>1 DEF Chain
    <3> QED
      BY <1>7, <2>1, <3>1, <3>2
  <2>2. CASE w = n
    <3>1. v \in 1 .. c
      BY <1>3, <1>12, <2>2
    <3> QED
      BY <1>1, <1>7, <1>9, <2>2, <3>1
  <2> QED
    BY <1>5, <2>1, <2>2
<1>13. ASSUME NEW v \in 1 .. n, v < n PROVE rows1[v].until = rows1[v + 1].from
  <2>1. v \in 1 .. c
    BY <1>3, <1>13
  <2>2. CASE v = c
    BY <1>1, <1>3, <2>2
  <2>3. CASE v # c
    <3>1. v < c /\ v # n /\ v \in Versions /\ v + 1 \in 1 .. c
      BY <1>3, <1>6, <2>1, <2>3
    <3>2. rows[v].until = rows[v + 1].from
      BY <1>2, <2>1, <3>1 DEF Chain
    <3> QED
      BY <1>1, <1>7, <2>3, <3>1, <3>2
  <2> QED
    BY <2>2, <2>3
<1>14. ASSUME NEW x \in Heights, starts1[x] # 0
       PROVE  starts1[x] \in 1 .. n /\ rows1[starts1[x]].from = x
  <2>1. CASE x = t
    BY <1>1, <1>3, <1>5, <1>10, <2>1
  <2>2. CASE x # t
    <3>1. starts1[x] = starts[x] /\ starts[x] \in 1 .. c /\ rows[starts[x]].from = x
      BY <1>2, <1>10, <1>14, <2>2 DEF Chain
    <3> QED
      BY <1>5, <1>7, <3>1
  <2> QED
    BY <2>1, <2>2
<1>15. rows1[n].from <= height' + 1
  <2>1. rows1[n].from = height + 1 /\ height \in Nat
    BY <1>1, <1>3
  <2>2. \A x, y \in Nat : y >= x => x + 1 <= y + 1
    OBVIOUS
  <2>3. height + 1 <= height' + 1
    BY <2>1, <2>2
  <2> QED
    BY <2>1, <2>3
<1>16. Chain(rows1, starts1, n, height')
  BY <1>1, <1>4, <1>11, <1>12, <1>13, <1>14, <1>15 DEF Chain
<1> QED
  BY <1>1, <1>16 DEF PolicyChain, rows1, starts1

\* At genesis every slot has one row, from the first block on.
LEMMA InitPolicies == Init => PolicyInv
<1> SUFFICES ASSUME Init PROVE PolicyInv
  OBVIOUS
<1>1. PICK status \in [GenesisIds -> {"PENDING", "ACTIVE"}],
           op \in [GenesisIds -> Accounts], key \in [GenesisIds -> Keys],
           a \in [GenesisIds -> EconomicAccounts], pol \in [GenesisIds -> PolicyValues] :
        /\ Injective(op) /\ Injective(key)
        /\ slots = [s \in SlotIds |->
             IF s \in GenesisIds
             THEN GenesisSlot(status[s], op[s], key[s], a[s], params) ELSE AbsentSlot]
        /\ policies = [s \in SlotIds |-> [v \in Versions |->
             IF s \in GenesisIds /\ v = 1 THEN OpenRow(pol[s], 1) ELSE NoPolicyRow]]
  BY Zenon DEF Init
<1>2. TypeOK
  BY InitType
<1>3. /\ height = 1
      /\ policyStarts = [s \in SlotIds |-> [h \in Heights |->
           IF s \in GenesisIds /\ h = 1 THEN 1 ELSE 0]]
  BY DEF Init
<1>4. 1 \in Versions /\ 1 \in Heights
  BY BoundsAssumption DEF Versions, Heights
<1>5. ASSUME NEW s \in SlotIds PROVE PolicyChain(s)
  <2>1. CASE s \in GenesisIds
    <3> DEFINE rows == policies[s]
               starts == policyStarts[s]
    <3>1. slots[s].status # "ABSENT" /\ slots[s].policyVersion = 1
      <4>1. slots[s] = GenesisSlot(status[s], op[s], key[s], a[s], params)
        BY <1>1, <2>1
      <4>2. status[s] \in {"PENDING", "ACTIVE"}
        BY <2>1
      <4> QED
        BY <4>1, <4>2 DEF GenesisSlot
    <3>2. rows[1].from = 1 /\ rows[1].until = 0
      <4>1. rows[1] = OpenRow(pol[s], 1)
        BY <1>1, <1>4, <2>1
      <4> QED
        BY <4>1 DEF OpenRow
    <3>3. starts[1] = 1 /\ \A x \in Heights : x # 1 => starts[x] = 0
      BY <1>3, <1>4, <2>1
    <3> HIDE DEF rows, starts
    <3>4. \A v : v \in 1 .. 1 <=> v = 1
      OBVIOUS
    <3>5. rows[1].from <= height + 1
      BY <1>3, <3>2
    <3>6. \A v \in 1 .. 1 : rows[v].from \in Heights /\ starts[rows[v].from] = v
      BY <1>4, <3>2, <3>3, <3>4
    <3>7. \A v, w \in 1 .. 1 : v < w => rows[v].from < rows[w].from
      OBVIOUS
    <3>8. \A v \in 1 .. 1 : v < 1 => rows[v].until = rows[v + 1].from
      OBVIOUS
    <3>9. \A x \in Heights : starts[x] # 0 => starts[x] \in 1 .. 1 /\ rows[starts[x]].from = x
      BY <3>2, <3>3, <3>4
    <3>10. Chain(rows, starts, 1, height)
      BY <1>4, <3>2, <3>5, <3>6, <3>7, <3>8, <3>9 DEF Chain
    <3> QED
      BY <3>1, <3>10 DEF PolicyChain, Exists, rows, starts
  <2>2. CASE s \notin GenesisIds
    <3>1. slots[s].status = "ABSENT"
      BY <1>1, <2>2 DEF AbsentSlot
    <3>2. \A x \in Heights : policyStarts[s][x] = 0
      BY <1>3, <2>2
    <3> QED
      BY <3>1, <3>2 DEF PolicyChain, Exists
  <2> QED
    BY <2>1, <2>2
<1> QED
  BY <1>2, <1>5 DEF PolicyInv

\* Every step keeps the chains.
LEMMA NextPolicyInv == PolicyInv /\ [Next]_vars => PolicyInv'
<1> SUFFICES ASSUME PolicyInv, [Next]_vars PROVE PolicyInv'
  OBVIOUS
<1>1. TypeOK
  BY DEF PolicyInv
<1>2. TypeOK'
  BY <1>1, NextType
<1>3. height' >= height /\ height' \in Nat
  BY <1>1, ParamsAndHeight
<1>4. \A s \in SlotIds : PolicyStep(s)
  BY <1>1, NextPolicies
<1>5. ASSUME NEW s \in SlotIds PROVE PolicyChain(s)'
  <2>1. PolicyChain(s) /\ PolicyStep(s)
    BY <1>4 DEF PolicyInv
  <2>2. CASE PolicyKept(s)
    <3> DEFINE rows == policies[s]
               starts == policyStarts[s]
               c == slots[s].policyVersion
    <3>1. /\ policies'[s] = rows /\ policyStarts'[s] = starts /\ slots'[s].policyVersion = c
          /\ Exists(s)' <=> Exists(s)
      BY <2>2 DEF PolicyKept
    <3>2. ~ Exists(s) => \A x \in Heights : starts[x] = 0
      BY <2>1 DEF PolicyChain
    <3>3. ASSUME Exists(s) PROVE Chain(rows, starts, c, height')
      <4>1. Chain(rows, starts, c, height)
        BY <2>1, <3>3 DEF PolicyChain
      <4>2. c \in Versions /\ policies \in [SlotIds -> [Versions -> PolicyRow]] /\ height \in Nat
        BY <1>1, <4>1 DEF Chain, TypeOK
      <4>3. rows[c].from \in Nat /\ rows[c].from <= height + 1
        BY <4>1, <4>2 DEF Chain, PolicyRow
      <4> HIDE DEF rows, starts, c
      <4>4. \A x, y, z \in Nat : y >= x /\ z <= x + 1 => z <= y + 1
        OBVIOUS
      <4>5. rows[c].from <= height' + 1
        BY <1>3, <4>2, <4>3, <4>4
      <4> QED
        BY <4>1, <4>5 DEF Chain
    <3> HIDE DEF rows, starts, c
    <3> QED
      BY <3>1, <3>2, <3>3 DEF PolicyChain
  <2>3. CASE PolicyOpened(s)
    BY <1>1, <1>3, <2>1, <2>3, OpenedChain
  <2>4. CASE PolicyAdded(s)
    BY <1>1, <1>3, <2>1, <2>4, AddedChain
  <2> QED
    BY <2>1, <2>2, <2>3, <2>4 DEF PolicyStep
<1> QED
  BY <1>2, <1>5 DEF PolicyInv

\* The policy rows of every slot always chain.
THEOREM PolicyInvariant == Spec => []PolicyInv
  BY InitPolicies, NextPolicyInv, PTL DEF Spec

\* Every slot that exists has an open current policy, which is in force from the
\* next block at the latest, and the resolver answers for every height from the
\* first row of the slot on.
THEOREM PoliciesAlwaysResolve == Spec => []PoliciesResolve
<1>1. PolicyInv => PoliciesResolve
  <2> SUFFICES ASSUME PolicyInv, NEW s \in SlotIds, Exists(s)
               PROVE  /\ HasCurrentPolicy(s)
                      /\ PolicyAtHeight(s, height + 1) = slots[s].policyVersion
                      /\ \A h \in Heights : policies[s][1].from <= h => PolicyAtHeight(s, h) # 0
    BY DEF PoliciesResolve
  <2> DEFINE c == slots[s].policyVersion
             rows == policies[s]
             starts == policyStarts[s]
  <2>1. Chain(rows, starts, c, height)
    BY DEF PolicyInv, PolicyChain
  <2>2. /\ c \in Versions /\ c \in Nat /\ c # 0 /\ c \in 1 .. c /\ 1 \in 1 .. c
        /\ height + 1 \in Heights
    BY <2>1, BoundsAssumption DEF Chain, Versions, Heights, PolicyInv, TypeOK
  <2>3. rows[c].from \in Heights /\ rows[c].from # 0 /\ rows[c].until = 0
        /\ rows[c].from <= height + 1
    BY <2>1, <2>2 DEF Chain, Heights
  <2>4. HasCurrentPolicy(s)
    BY <2>2, <2>3 DEF HasCurrentPolicy
  <2>5. PolicyAtHeight(s, height + 1) = c
    <3>1. InForce(rows, c, c, height + 1)
      BY <2>2, <2>3 DEF InForce
    <3> HIDE DEF rows, starts, c
    <3>2. Resolved(rows, starts, height + 1) = c
      BY <2>1, <2>2, <3>1, ChainResolves
    <3> QED
      BY <3>2, PolicyAtHeightIsResolved DEF rows, starts
  <2>6. ASSUME NEW h \in Heights, rows[1].from <= h PROVE PolicyAtHeight(s, h) # 0
    <3> HIDE DEF rows, starts, c
    <3>1. PICK v \in 1 .. c : InForce(rows, c, v, h)
      BY <2>1, <2>2, <2>6, ChainCovers
    <3>2. Resolved(rows, starts, h) = v
      BY <2>1, <3>1, ChainResolves
    <3>3. v # 0
      BY <2>2
    <3> QED
      BY <3>2, <3>3, PolicyAtHeightIsResolved DEF rows, starts
  <2> QED
    BY <2>4, <2>5, <2>6
<1> QED
  BY <1>1, PolicyInvariant, PTL

\* Updates never rewrite the past: the version in force at a height up to the
\* current one stays in force there after every step, with the same values.
THEOREM PolicyHistoryNeverChanges == Spec => PolicyHistoryStable
<1>1. ASSUME PolicyInv, [Next]_vars, NEW s \in SlotIds, NEW h \in Heights, h <= height,
             PolicyAtHeight(s, h) # 0
      PROVE  /\ PolicyAtHeight(s, h)' = PolicyAtHeight(s, h)
             /\ policies'[s][PolicyAtHeight(s, h)].value = policies[s][PolicyAtHeight(s, h)].value
  <2> DEFINE c == slots[s].policyVersion
             rows == policies[s]
             starts == policyStarts[s]
             rows1 == policies'[s]
             starts1 == policyStarts'[s]
  <2>1. /\ PolicyAtHeight(s, h) = Resolved(rows, starts, h)
        /\ PolicyAtHeight(s, h)' = Resolved(rows1, starts1, h)
    BY PolicyAtHeightIsResolved DEF PolicyAtHeight, Resolved, StartsUpTo, StartsIn
  <2>2. PolicyStep(s) /\ PolicyChain(s) /\ PolicyChain(s)' /\ TypeOK
    BY <1>1, NextPolicies, NextPolicyInv DEF PolicyInv
  <2>3. \E x \in Heights : x <= h /\ starts[x] # 0
    <3>1. StartsIn(starts, h) # {}
      BY <1>1, <2>1 DEF Resolved
    <3> QED
      BY <3>1 DEF StartsIn
  <2>4. CASE PolicyKept(s)
    BY <2>1, <2>4 DEF PolicyKept
  <2>5. CASE PolicyOpened(s)
    BY <2>2, <2>3, <2>5 DEF PolicyChain, PolicyOpened
  <2>6. CASE PolicyAdded(s)
    <3> DEFINE n == c + 1
    <3>1. Chain(rows, starts, c, height) /\ Chain(rows1, starts1, n, height')
      BY <2>2, <2>6 DEF PolicyChain, PolicyAdded
    <3>2. /\ \A v \in Versions : v # c /\ v # n => rows1[v] = rows[v]
          /\ rows1[c].from = rows[c].from /\ rows1[c].value = rows[c].value
          /\ rows1[n].from = height + 1
      BY <2>6 DEF PolicyAdded
    <3> HIDE DEF rows, starts, rows1, starts1, c
    <3>3. PICK x \in Heights : x <= h /\ starts[x] # 0
      BY <2>3
    <3>4. starts[x] \in 1 .. c /\ rows[starts[x]].from <= h
      BY <3>1, <3>3 DEF Chain
    <3>5. PICK v \in 1 .. c : InForce(rows, c, v, h)
      BY <3>1, <3>4, ChainCovers
    <3>6. Resolved(rows, starts, h) = v
      BY <3>1, <3>5, ChainResolves
    <3>7. /\ c \in Nat /\ v \in Nat /\ v \in Versions /\ v # n /\ v \in 1 .. n
          /\ h \in Nat /\ height \in Nat
      <4>1. c \in Versions /\ MaxVersion \in Nat /\ MaxHeight \in Nat /\ height \in 1 .. MaxHeight
        BY <2>2, <3>1, BoundsAssumption DEF Chain, TypeOK
      <4> QED
        BY <4>1 DEF Versions, Heights
    <3>8. rows1[v].from = rows[v].from /\ rows1[v].value = rows[v].value
      BY <3>2, <3>7
    <3>9. v < n => h < rows1[v + 1].from
      <4>1. CASE v = c
        BY <1>1, <3>2, <3>7, <4>1
      <4>2. CASE v # c
        <5>1. v < c /\ v + 1 \in 1 .. c /\ v + 1 \in Versions /\ v + 1 # n
          <6>1. c \in Versions /\ MaxVersion \in Nat
            BY <3>1, BoundsAssumption DEF Chain
          <6> QED
            BY <3>7, <4>2, <6>1 DEF Versions
        <5>2. h < rows[v + 1].from
          BY <3>5, <5>1 DEF InForce
        <5>3. rows1[v + 1].from = rows[v + 1].from
          BY <3>2, <5>1
        <5> QED
          BY <5>2, <5>3
      <4> QED
        BY <4>1, <4>2
    <3>10. InForce(rows1, n, v, h)
      BY <3>5, <3>7, <3>8, <3>9 DEF InForce
    <3> HIDE DEF n
    <3>11. Resolved(rows1, starts1, h) = v
      BY <3>1, <3>10, ChainResolves
    <3>12. PolicyAtHeight(s, h)' = v /\ PolicyAtHeight(s, h) = v
      BY <2>1, <3>6, <3>11
    <3> QED
      BY <3>8, <3>12 DEF rows, rows1
  <2> QED
    BY <2>2, <2>4, <2>5, <2>6 DEF PolicyStep
<1>2. PolicyInv /\ [Next]_vars =>
        [\A s \in SlotIds, h \in Heights :
           h <= height /\ PolicyAtHeight(s, h) # 0 =>
             /\ PolicyAtHeight(s, h)' = PolicyAtHeight(s, h)
             /\ policies'[s][PolicyAtHeight(s, h)].value = policies[s][PolicyAtHeight(s, h)].value]_vars
  BY <1>1
<1> QED
  BY <1>2, PolicyInvariant, PTL DEF Spec, PolicyHistoryStable

=============================================================================
