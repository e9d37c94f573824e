--------------------------- MODULE UpgradesProofs ---------------------------
(***************************************************************************)
(* Theorems about scheduled upgrades: for any network, registry, sequence  *)
(* of transactions, crashes and swaps of binaries.                         *)
(***************************************************************************)
EXTENDS Upgrades, ArithmeticTheorems, SequenceTheorems

-----------------------------------------------------------------------------
(* Releases and sequences.                                                 *)

\* The releases are numbered from the one of genesis.
LEMMA ReleasesAreNaturals ==
  /\ \E k \in Nat : Releases = 0 .. k
  /\ Releases \subseteq Nat /\ Names \subseteq Releases /\ Names \subseteq Nat \ {0}
  /\ 0 \in Releases /\ GenesisRelease \in Releases
<1>1. Cardinality(Releases) \in Nat
  BY UpgradesAssumption, FS_CardinalityType
<1> DEFINE c == Cardinality(Releases)
<1>2. Releases = 0 .. c - 1 /\ c \in Nat /\ GenesisRelease \in Releases
  BY <1>1, UpgradesAssumption
<1> HIDE DEF c
<1>3. c - 1 \in Nat
  BY <1>2
<1> QED
  BY <1>2, <1>3 DEF Names

\* A bounded set of naturals has a maximum, which Max finds.
LEMMA MaxOfNaturals ==
  ASSUME NEW T \in SUBSET Nat, NEW n \in Nat, \A x \in T : x <= n, T # {}
  PROVE  Max(T) \in T /\ \A y \in T : Max(T) >= y
<1>1. PICK x \in T : \A y \in T : y <= x
  BY GreatestNatural
<1>2. x \in T /\ \A y \in T : x >= y
  BY <1>1
<1> QED
  BY <1>2 DEF Max

\* The sequence of completed upgrades grows by one name.
LEMMA RangeOfAppend ==
  ASSUME NEW S, NEW q \in Seq(S), NEW x \in S
  PROVE  Range(Append(q, x)) = Range(q) \cup {x}
<1>1. /\ Append(q, x) \in Seq(S) /\ Len(q) \in Nat
      /\ Len(Append(q, x)) = Len(q) + 1
      /\ \A i \in 1 .. Len(q) : Append(q, x)[i] = q[i]
      /\ Append(q, x)[Len(q) + 1] = x
  BY AppendProperties, LenProperties
<1>2. DOMAIN q = 1 .. Len(q) /\ DOMAIN Append(q, x) = 1 .. Len(q) + 1
  BY <1>1, LenProperties
<1>3. 1 .. Len(q) + 1 = (1 .. Len(q)) \cup {Len(q) + 1}
  BY <1>1
<1> QED
  BY <1>1, <1>2, <1>3 DEF Range

\* No upgrade is done before the first.
LEMMA RangeOfNone == Range(<<>>) = {}
<1>1. DOMAIN <<>> = 1 .. 0
  BY EmptySeq, LenProperties
<1>2. 1 .. 0 = {}
  OBVIOUS
<1> QED
  BY <1>1, <1>2 DEF Range

\* The upgrades done are upgrades.
LEMMA RangeOfNames ==
  ASSUME NEW q \in Seq(Names)
  PROVE  Range(q) \subseteq Names
  BY LenProperties DEF Range

-----------------------------------------------------------------------------
(* One block on one node.                                                  *)

Plans == [name : Releases, height : Nat]
States ==
  [height : Nat, plan : Plans, done : Seq(Names), versions : BOOLEAN,
   migrated : [Names -> Nat], reset : BOOLEAN, maxGas : Int, sends : Nat]

\* The committed state of a node whose last height, or the height of the block it
\* executes, is h: every completed upgrade migrated once, and a pending one did
\* not and lies ahead.
Sound(s, h) ==
  /\ s \in States
  /\ s.versions /\ ~ s.reset
  /\ \A r \in Names : s.migrated[r] = (IF r \in Range(s.done) THEN 1 ELSE 0)
  /\ s.maxGas = (IF GasRelease \in Range(s.done) THEN V040BlockMaxGas ELSE -1)
  /\ s.plan # NoPlan => /\ s.plan.name \in Names /\ s.plan.name \notin Range(s.done)
                        /\ s.plan.height > h

\* Completed and pending upgrades of a sound state.
LEMMA SoundNames ==
  ASSUME NEW s, NEW h, Sound(s, h)
  PROVE  Range(s.done) \subseteq Names /\ s.done \in Seq(Names) /\ s.height \in Nat
  BY RangeOfNames DEF Sound, States

\* The fields ApplyUpgrade writes, and those it leaves.
LEMMA ApplyUpgradeFields ==
  ASSUME NEW s \in States, s.plan.name \in Names
  PROVE  LET t == ApplyUpgrade(s) IN
         /\ t \in States
         /\ t.height = s.height /\ t.plan = NoPlan /\ t.done = Append(s.done, s.plan.name)
         /\ t.versions /\ (s.versions /\ ~ s.reset => ~ t.reset)
         /\ t.migrated = [s.migrated EXCEPT ![s.plan.name] = @ + 1]
         /\ t.maxGas = (IF s.plan.name = GasRelease THEN V040BlockMaxGas ELSE s.maxGas)
<1> DEFINE name == s.plan.name
           u == RunHandler(s, name)
           t == ApplyUpgrade(s)
           again == s.reset \/ ~ s.versions
           counts == [s.migrated EXCEPT ![name] = @ + 1]
           gas == IF name = GasRelease THEN V040BlockMaxGas ELSE s.maxGas
<1>1. /\ again \in BOOLEAN /\ counts \in [Names -> Nat] /\ gas \in Int
      /\ s.done \in Seq(Names) /\ name \in Names
  BY DEF States, V040BlockMaxGas
<1>2. u = [s EXCEPT !.versions = TRUE, !.reset = again, !.migrated = counts, !.maxGas = gas]
  BY DEF RunHandler
<1> HIDE DEF again, counts, gas
<1>3. /\ u \in States
      /\ u.versions = TRUE /\ u.reset = again /\ u.migrated = counts /\ u.maxGas = gas
      /\ u.height = s.height /\ u.done = s.done
  BY <1>1, <1>2 DEF States
<1>4. t = [u EXCEPT !.done = Append(u.done, name), !.plan = NoPlan]
  BY DEF ApplyUpgrade
<1>5. Append(u.done, name) \in Seq(Names) /\ NoPlan \in Plans
  <2>1. Append(u.done, name) \in Seq(Names)
    BY <1>1, <1>3, AppendProperties
  <2> QED
    BY <2>1, ReleasesAreNaturals DEF NoPlan, Plans
<1> HIDE DEF u, name, t
<1>6. /\ t \in States
      /\ t.versions = TRUE /\ t.reset = again /\ t.migrated = counts /\ t.maxGas = gas
      /\ t.height = s.height /\ t.done = Append(s.done, name) /\ t.plan = NoPlan
  BY <1>3, <1>4, <1>5 DEF States
<1> QED
  BY <1>6 DEF again, counts, gas, name, t

\* The pre-blocker runs a due upgrade and leaves no plan for this block.
LEMMA PreBlockSound ==
  ASSUME NEW s, Sound(s, s.height)
  PROVE  Sound(PreBlock(s), s.height + 1) /\ PreBlock(s).height = s.height
<1>0. s \in States /\ s.height \in Nat /\ s.plan.height \in Nat /\ s.plan.name \in Nat
  BY ReleasesAreNaturals DEF Sound, States, Plans
<1>1. CASE ~ PlanDue(s)
  <2>1. s.plan # NoPlan => s.plan.height > s.height + 1
    BY <1>0, <1>1 DEF PlanDue
  <2> QED
    BY <1>1, <2>1 DEF PreBlock, Sound
<1>2. CASE PlanDue(s)
  <2> DEFINE t == ApplyUpgrade(s)
             name == s.plan.name
  <2>1. name \in Names /\ name \notin Range(s.done) /\ s.versions /\ ~ s.reset
    BY <1>2 DEF PlanDue, Sound
  <2>2. /\ t \in States
        /\ t.height = s.height /\ t.plan = NoPlan /\ t.done = Append(s.done, name)
        /\ t.versions /\ ~ t.reset
        /\ t.migrated = [s.migrated EXCEPT ![name] = @ + 1]
        /\ t.maxGas = (IF name = GasRelease THEN V040BlockMaxGas ELSE s.maxGas)
    BY <1>0, <2>1, ApplyUpgradeFields
  <2>3. s.done \in Seq(Names) /\ s.migrated \in [Names -> Nat]
    BY <1>0 DEF States
  <2>4. PreBlock(s) = t
    BY <1>2 DEF PreBlock
  <2> HIDE DEF t, name
  <2>5. Range(t.done) = Range(s.done) \cup {name}
    BY <2>1, <2>2, <2>3, RangeOfAppend
  <2>6. \A r \in Names : t.migrated[r] = (IF r \in Range(t.done) THEN 1 ELSE 0)
    <3>1. \A r \in Names : s.migrated[r] = (IF r \in Range(s.done) THEN 1 ELSE 0)
      BY DEF Sound
    <3>2. t.migrated[name] = 1
      BY <2>1, <2>2, <2>3, <3>1
    <3>3. \A r \in Names : r # name => t.migrated[r] = s.migrated[r]
      BY <2>2, <2>3
    <3> QED
      BY <2>5, <3>1, <3>2, <3>3
  <2>7. t.maxGas = (IF GasRelease \in Range(t.done) THEN V040BlockMaxGas ELSE -1)
    <3>1. s.maxGas = (IF GasRelease \in Range(s.done) THEN V040BlockMaxGas ELSE -1)
      BY DEF Sound
    <3> QED
      BY <2>2, <2>5, <3>1
  <2> QED
    BY <2>2, <2>4, <2>6, <2>7 DEF Sound
<1> QED
  BY <1>1, <1>2

\* A transaction that schedules names an upgrade and a height.
LEMMA TransactionKinds ==
  ASSUME NEW tx \in Transactions
  PROVE  tx.kind = "schedule" => tx.name \in Names /\ tx.height \in 2 .. MaxHeight
  BY DEF Transactions

\* A transaction of the block that follows keeps the state sound.
LEMMA DeliverSound ==
  ASSUME NEW s, NEW h, Sound(s, h), h = s.height + 1, NEW r, NEW tx \in Transactions
  PROVE  /\ Sound(Deliver(s, r, tx), h) /\ Deliver(s, r, tx).height = s.height
         /\ Deliver(s, r, tx).done = s.done
<1>0. s \in States
  BY DEF Sound
<1> DEFINE ok(t) == Sound(t, h) /\ t.height = s.height /\ t.done = s.done
<1>1. ok(s)
  OBVIOUS
<1>2. ASSUME NEW p \in Plans,
             p # NoPlan => p.name \in Names /\ p.name \notin Range(s.done) /\ p.height > h
      PROVE  ok([s EXCEPT !.plan = p])
  <2> DEFINE t == [s EXCEPT !.plan = p]
  <2>1. /\ t \in States /\ t.plan = p /\ t.height = s.height /\ t.done = s.done
        /\ t.versions = s.versions /\ t.reset = s.reset /\ t.migrated = s.migrated
        /\ t.maxGas = s.maxGas
    BY <1>0 DEF States
  <2> HIDE DEF t
  <2>2. Sound(t, h)
    BY <1>2, <2>1 DEF Sound
  <2> QED
    BY <2>1, <2>2 DEF t
<1>3. ok([s EXCEPT !.sends = @ + 1])
  <2> DEFINE n == s.sends + 1
             t == [s EXCEPT !.sends = n]
  <2>0. n \in Nat
    BY <1>0 DEF States
  <2>1. /\ t \in States /\ t.plan = s.plan /\ t.height = s.height /\ t.done = s.done
        /\ t.versions = s.versions /\ t.reset = s.reset /\ t.migrated = s.migrated
        /\ t.maxGas = s.maxGas
    <3> HIDE DEF n
    <3> QED
      BY <1>0, <2>0 DEF States
  <2> HIDE DEF t
  <2>2. Sound(t, h)
    BY <2>1 DEF Sound
  <2> QED
    BY <2>1, <2>2 DEF t
<1>4. ASSUME tx.kind = "schedule" PROVE ok(ScheduleUpgrade(s, tx))
  <2> DEFINE p == [name |-> tx.name, height |-> tx.height]
  <2>1. tx.name \in Names /\ tx.height \in Nat
    BY <1>4, TransactionKinds, UpgradesAssumption
  <2>2. p \in Plans /\ p.name = tx.name /\ p.height = tx.height
    BY <2>1, ReleasesAreNaturals DEF Plans
  <2>3. CASE tx.name # 0 /\ tx.height > s.height + 1 /\ tx.name \notin Range(s.done)
    <3>1. ScheduleUpgrade(s, tx) = [s EXCEPT !.plan = p]
      BY <2>3 DEF ScheduleUpgrade
    <3> HIDE DEF p
    <3> QED
      BY <1>2, <2>1, <2>2, <2>3, <3>1
  <2>4. CASE ~ (tx.name # 0 /\ tx.height > s.height + 1 /\ tx.name \notin Range(s.done))
    BY <1>1, <2>4 DEF ScheduleUpgrade
  <2> QED
    BY <2>3, <2>4
<1>5. ok(CancelUpgrade(s))
  <2>1. NoPlan \in Plans
    BY ReleasesAreNaturals DEF NoPlan, Plans
  <2> QED
    BY <1>2, <2>1 DEF CancelUpgrade
<1> HIDE DEF ok
<1>6. ok(Deliver(s, r, tx))
  BY <1>1, <1>3, <1>4, <1>5 DEF Deliver
<1> QED
  BY <1>6 DEF ok

\* A block takes a sound state to a sound state of the next height, and completes
\* exactly the upgrade that was due.
LEMMA ExecutedSound ==
  ASSUME NEW s, Sound(s, s.height), NEW r, NEW tx \in Transactions
  PROVE  LET t == Executed(s, r, tx) IN
         /\ Sound(t, t.height) /\ t.height = s.height + 1
         /\ Range(t.done) = Range(s.done) \cup IF PlanDue(s) THEN {s.plan.name} ELSE {}
<1> DEFINE p == PreBlock(s)
           d == Deliver(p, r, tx)
           t == Executed(s, r, tx)
<1>1. Sound(p, s.height + 1) /\ p.height = s.height /\ s.height \in Nat
  BY PreBlockSound, SoundNames
<1>2. Sound(d, s.height + 1) /\ d.height = s.height /\ d.done = p.done
  <2> HIDE DEF p
  <2> QED
    BY <1>1, DeliverSound
<1> DEFINE n == d.height + 1
<1>3. t = [d EXCEPT !.height = n]
  BY DEF Executed
<1>4. Range(p.done) = Range(s.done) \cup IF PlanDue(s) THEN {s.plan.name} ELSE {}
  <2>1. CASE PlanDue(s)
    <3>1. s.plan.name \in Names /\ s \in States /\ s.done \in Seq(Names)
      BY <2>1 DEF PlanDue, Sound, States
    <3>2. p.done = Append(s.done, s.plan.name)
      BY <2>1, <3>1, ApplyUpgradeFields DEF PreBlock
    <3> QED
      BY <2>1, <3>1, <3>2, RangeOfAppend
  <2>2. CASE ~ PlanDue(s)
    BY <2>2 DEF PreBlock
  <2> QED
    BY <2>1, <2>2
<1> HIDE DEF p, d, t
<1>5. d \in States /\ n \in Nat /\ n = s.height + 1
  BY <1>1, <1>2 DEF Sound
<1> HIDE DEF n
<1>6. /\ t \in States /\ t.height = s.height + 1 /\ t.done = d.done /\ t.plan = d.plan
      /\ t.versions = d.versions /\ t.reset = d.reset /\ t.migrated = d.migrated
      /\ t.maxGas = d.maxGas
  BY <1>3, <1>5 DEF States
<1>7. Sound(t, t.height)
  BY <1>2, <1>6 DEF Sound
<1> QED
  BY <1>2, <1>4, <1>6, <1>7 DEF t

-----------------------------------------------------------------------------
(* Which release executes a block.                                         *)

\* The release that executes the block after state s, if any does.
RunRelease(s) ==
  IF PlanDue(s) /\ s.plan.name > NetworkRelease(s) THEN s.plan.name ELSE NetworkRelease(s)

\* What a node in state s may have installed: the release of the network, or the
\* newer one of the pending plan.
MayRun(b, s) ==
  \/ b = NetworkRelease(s)
  \/ s.plan # NoPlan /\ b = s.plan.name /\ b > NetworkRelease(s)

\* The release the network needs is the greatest one done.
LEMMA NetworkReleaseFacts ==
  ASSUME NEW s, NEW h, Sound(s, h)
  PROVE  LET S == {GenesisRelease} \cup Range(s.done) IN
         /\ NetworkRelease(s) \in S /\ \A y \in S : NetworkRelease(s) >= y
         /\ S \subseteq Releases /\ NetworkRelease(s) \in Nat
<1> DEFINE S == {GenesisRelease} \cup Range(s.done)
<1>1. PICK k \in Nat : Releases = 0 .. k
  BY ReleasesAreNaturals
<1>2. S \subseteq Releases /\ S \in SUBSET Nat /\ S # {}
  BY ReleasesAreNaturals, SoundNames
<1>3. \A x \in S : x <= k
  BY <1>1, <1>2
<1> HIDE DEF S
<1>4. Max(S) \in S /\ \A y \in S : Max(S) >= y
  BY <1>2, <1>3, MaxOfNaturals
<1>5. NetworkRelease(s) = Max(S)
  BY DEF NetworkRelease, S
<1> QED
  BY <1>2, <1>4, <1>5 DEF S

\* The names in a sound state's plan.
LEMMA PlannedName ==
  ASSUME NEW s, NEW h, Sound(s, h), s.plan # NoPlan
  PROVE  s.plan.name \in Names /\ s.plan.name \in Nat \ {0} /\ s.plan.name \in Releases
  BY ReleasesAreNaturals DEF Sound

\* The block makes the release that executed it the release of the network.
LEMMA NetworkAfterBlock ==
  ASSUME NEW s, Sound(s, s.height), NEW r, NEW tx \in Transactions
  PROVE  NetworkRelease(Executed(s, r, tx)) = RunRelease(s)
<1> DEFINE t == Executed(s, r, tx)
           S == {GenesisRelease} \cup Range(s.done)
           T == {GenesisRelease} \cup Range(t.done)
<1>1. /\ Sound(t, t.height)
      /\ Range(t.done) = Range(s.done) \cup IF PlanDue(s) THEN {s.plan.name} ELSE {}
  BY ExecutedSound
<1>2. /\ NetworkRelease(s) \in S /\ \A y \in S : NetworkRelease(s) >= y
      /\ NetworkRelease(s) \in Nat /\ S \subseteq Nat
  BY NetworkReleaseFacts, ReleasesAreNaturals
<1> HIDE DEF t
<1>3. /\ NetworkRelease(t) \in T /\ \A y \in T : NetworkRelease(t) >= y
      /\ NetworkRelease(t) \in Nat /\ T \subseteq Nat
  BY <1>1, NetworkReleaseFacts, ReleasesAreNaturals
<1>4. PlanDue(s) => s.plan.name \in Nat
  BY PlannedName DEF PlanDue
<1>5. T = S \cup IF PlanDue(s) THEN {s.plan.name} ELSE {}
  BY <1>1
<1> HIDE DEF S, T
<1>6. CASE PlanDue(s)
  <2>1. T = S \cup {s.plan.name}
    BY <1>5, <1>6
  <2>2. NetworkRelease(t) >= NetworkRelease(s) /\ NetworkRelease(t) >= s.plan.name
    BY <1>2, <1>3, <2>1
  <2>3. NetworkRelease(t) = s.plan.name \/ NetworkRelease(s) >= NetworkRelease(t)
    BY <1>2, <1>3, <2>1
  <2>4. NetworkRelease(t) = IF s.plan.name > NetworkRelease(s) THEN s.plan.name ELSE NetworkRelease(s)
    BY <1>2, <1>3, <1>4, <1>6, <2>2, <2>3
  <2> QED
    BY <1>6, <2>4 DEF RunRelease, t
<1>7. CASE ~ PlanDue(s)
  <2>1. NetworkRelease(t) >= NetworkRelease(s) /\ NetworkRelease(s) >= NetworkRelease(t)
    BY <1>2, <1>3, <1>5, <1>7
  <2>2. NetworkRelease(t) = NetworkRelease(s)
    BY <1>2, <1>3, <2>1
  <2> QED
    BY <1>7, <2>2 DEF RunRelease, t
<1> QED
  BY <1>6, <1>7

\* The pre-blocker lets one release only execute a block.
LEMMA OneReleaseExecutes ==
  ASSUME NEW s, Sound(s, s.height), NEW b, MayRun(b, s), ~ PreBlockRefuses(s, b)
  PROVE  b = RunRelease(s)
<1>1. NetworkRelease(s) \in Nat
  BY NetworkReleaseFacts
<1>2. b = NetworkRelease(s) \/ (s.plan # NoPlan /\ b = s.plan.name /\ b > NetworkRelease(s))
  BY DEF MayRun
<1>3. s.plan # NoPlan => s.plan.name \in Nat \ {0}
  BY PlannedName
<1>4. CASE PlanDue(s)
  <2>1. s.plan # NoPlan /\ HasHandler(b, s.plan.name)
    BY <1>4 DEF PreBlockRefuses, PlanDue
  <2>2. b \in Nat /\ s.plan.name <= b
    BY <1>1, <1>2, <1>3, <2>1 DEF HasHandler
  <2> QED
    BY <1>1, <1>2, <1>3, <1>4, <2>1, <2>2 DEF RunRelease
<1>5. CASE ~ PlanDue(s)
  <2>1. ASSUME s.plan # NoPlan, b = s.plan.name PROVE FALSE
    <3>1. HasHandler(b, s.plan.name)
      BY <1>3, <2>1 DEF HasHandler
    <3> QED
      BY <1>5, <2>1, <3>1 DEF PreBlockRefuses
  <2> QED
    BY <1>2, <1>5, <2>1 DEF RunRelease
<1> QED
  BY <1>4, <1>5

-----------------------------------------------------------------------------
(* The network.                                                            *)

\* The state after every decided block, executed by the release it calls for.
Replays(G, c) ==
  /\ DOMAIN G = 0 .. Len(c)
  /\ G[0] = GenesisState(TRUE)
  /\ \A h \in 1 .. Len(c) : G[h] = Executed(G[h - 1], RunRelease(G[h - 1]), c[h])
  /\ \A h \in 0 .. Len(c) : Sound(G[h], h) /\ G[h].height = h

\* Every node is somewhere on the one history of the chain, with a release its
\* plan explains.
UpgradesInv ==
  /\ chain \in Seq(Transactions)
  /\ DOMAIN state = Nodes /\ DOMAIN binary = Nodes
  /\ \A n \in Nodes : MayRun(binary[n], state[n])
  /\ \E G : /\ Replays(G, chain)
            /\ \A n \in Nodes : /\ state[n].height \in 0 .. Len(chain)
                                /\ state[n] = G[state[n].height]

\* A block that waits for its commit is the next one of a running node, whose binary
\* the pre-blocker admitted.
UncommittedInv ==
  /\ executed \subseteq up \cap Nodes
  /\ \A n \in executed : /\ state[n].height < Len(chain)
                          /\ ~ PreBlockRefuses(state[n], binary[n])

\* The state of genesis is sound.
LEMMA GenesisSound ==
  Sound(GenesisState(TRUE), 0) /\ GenesisState(TRUE).height = 0 /\ GenesisState(TRUE).done = <<>>
<1> DEFINE g == GenesisState(TRUE)
<1>1. /\ g.height = 0 /\ g.plan = NoPlan /\ g.done = <<>> /\ g.versions = TRUE
      /\ g.migrated = [r \in Names |-> 0] /\ g.reset = FALSE /\ g.maxGas = -1 /\ g.sends = 0
  BY DEF GenesisState
<1>2. NoPlan \in Plans
  BY ReleasesAreNaturals DEF NoPlan, Plans
<1>3. g \in States
  BY <1>2 DEF GenesisState, States
<1> HIDE DEF g
<1>4. Range(g.done) = {}
  BY <1>1, RangeOfNone
<1>5. Sound(g, 0)
  BY <1>1, <1>3, <1>4 DEF Sound
<1> QED
  BY <1>1, <1>5 DEF g

\* All nodes start at genesis with the first binary.
LEMMA InitUpgrades == UpgradesInit => UpgradesInv
<1> SUFFICES ASSUME UpgradesInit PROVE UpgradesInv
  OBVIOUS
<1>1. /\ chain = <<>> /\ binary = [n \in Nodes |-> GenesisRelease]
      /\ state = [n \in Nodes |-> GenesisState(TRUE)]
  BY DEF UpgradesInit, InitChain, VersionMapComplete
<1> DEFINE g == GenesisState(TRUE)
           G == [h \in {0} |-> g]
<1>2. Sound(g, 0) /\ g.height = 0 /\ g.done = <<>>
  BY GenesisSound
<1> HIDE DEF g
<1>3. Len(chain) = 0 /\ 0 .. 0 = {0} /\ chain \in Seq(Transactions)
  BY <1>1, EmptySeq
<1>4. Replays(G, chain)
  <2>1. DOMAIN G = 0 .. Len(chain) /\ G[0] = g
    BY <1>3
  <2>2. \A h \in 0 .. Len(chain) : h = 0
    BY <1>3
  <2>3. 1 .. Len(chain) = {}
    BY <1>3
  <2> HIDE DEF G
  <2> QED
    BY <1>2, <2>1, <2>2, <2>3 DEF Replays, g
<1>5. \A n \in Nodes : state[n] = g
  BY <1>1 DEF g
<1>6. NetworkRelease(g) = GenesisRelease
  <2>1. Range(g.done) = {}
    BY <1>2, RangeOfNone
  <2>2. NetworkRelease(g) \in {GenesisRelease} \cup Range(g.done)
    BY <1>2, NetworkReleaseFacts
  <2> QED
    BY <2>1, <2>2
<1>7. \A n \in Nodes : MayRun(binary[n], state[n])
  BY <1>1, <1>5, <1>6 DEF MayRun
<1>8. \A n \in Nodes : state[n].height \in 0 .. Len(chain) /\ state[n] = G[state[n].height]
  BY <1>2, <1>3, <1>5
<1>9. DOMAIN state = Nodes /\ DOMAIN binary = Nodes
  BY <1>1
<1> HIDE DEF G
<1> QED
  BY <1>3, <1>4, <1>7, <1>8, <1>9 DEF UpgradesInv

\* A node's committed state is sound.
LEMMA StatesSound ==
  ASSUME UpgradesInv, NEW n \in Nodes
  PROVE  Sound(state[n], state[n].height) /\ state[n].height \in Nat
<1>1. PICK G : /\ Replays(G, chain)
               /\ \A m \in Nodes : /\ state[m].height \in 0 .. Len(chain)
                                   /\ state[m] = G[state[m].height]
  BY DEF UpgradesInv
<1>2. state[n].height \in Nat /\ state[n].height \in 0 .. Len(chain) /\ state[n] = G[state[n].height]
  BY <1>1
<1>3. Sound(G[state[n].height], state[n].height)
  BY <1>1, <1>2 DEF Replays
<1> QED
  BY <1>2, <1>3

\* A decided block extends the history.
LEMMA DecideKeeps ==
  ASSUME UpgradesInv, NEW tx \in Transactions, Decide(tx)
  PROVE  UpgradesInv'
<1>1. chain' = Append(chain, tx) /\ UNCHANGED <<state, binary>>
  BY DEF Decide
<1>2. /\ chain \in Seq(Transactions) /\ chain' \in Seq(Transactions) /\ Len(chain) \in Nat
      /\ Len(chain') = Len(chain) + 1
      /\ \A i \in 1 .. Len(chain) : chain'[i] = chain[i]
      /\ chain'[Len(chain) + 1] = tx
  BY <1>1, AppendProperties, LenProperties DEF UpgradesInv
<1>3. PICK G : /\ Replays(G, chain)
               /\ \A n \in Nodes : /\ state[n].height \in 0 .. Len(chain)
                                   /\ state[n] = G[state[n].height]
  BY DEF UpgradesInv
<1> DEFINE L == Len(chain)
           new == Executed(G[L], RunRelease(G[L]), tx)
           H == [h \in 0 .. L + 1 |-> IF h = L + 1 THEN new ELSE G[h]]
<1>4. Sound(G[L], G[L].height) /\ G[L].height = L
  BY <1>2, <1>3 DEF Replays
<1>5. Sound(new, L + 1) /\ new.height = L + 1
  BY <1>4, ExecutedSound
<1>6. \A h \in 0 .. L : H[h] = G[h] /\ h \in 0 .. L + 1
  BY <1>2
<1>7. H[L + 1] = new /\ L + 1 \in 0 .. L + 1 /\ H[L] = G[L]
  BY <1>2
<1>8. Replays(H, chain')
  <2>1. DOMAIN H = 0 .. Len(chain') /\ H[0] = GenesisState(TRUE)
    <3>1. 0 \in 0 .. L /\ G[0] = GenesisState(TRUE)
      BY <1>2, <1>3 DEF Replays
    <3>2. DOMAIN H = 0 .. Len(chain')
      BY <1>2
    <3> HIDE DEF H
    <3> QED
      BY <1>6, <3>1, <3>2
  <2>2. ASSUME NEW h \in 1 .. Len(chain')
        PROVE  H[h] = Executed(H[h - 1], RunRelease(H[h - 1]), chain'[h])
    <3>1. CASE h = L + 1
      <4>1. h - 1 = L
        BY <1>2, <3>1
      <4> QED
        BY <1>2, <1>7, <3>1, <4>1
    <3>2. CASE h # L + 1
      <4>1. h \in 1 .. L /\ h \in 0 .. L /\ h - 1 \in 0 .. L
        BY <1>2, <2>2, <3>2
      <4>2. H[h] = G[h] /\ H[h - 1] = G[h - 1] /\ chain'[h] = chain[h]
        BY <1>2, <1>6, <4>1
      <4>3. G[h] = Executed(G[h - 1], RunRelease(G[h - 1]), chain[h])
        BY <1>3, <4>1 DEF Replays
      <4> HIDE DEF H
      <4> QED
        BY <4>2, <4>3
    <3> QED
      BY <3>1, <3>2
  <2>3. ASSUME NEW h \in 0 .. Len(chain')
        PROVE  Sound(H[h], h) /\ H[h].height = h
    <3>1. CASE h = L + 1
      <4> HIDE DEF H, new
      <4> QED
        BY <1>5, <1>7, <3>1
    <3>2. CASE h # L + 1
      <4>1. h \in 0 .. L
        BY <1>2, <2>3, <3>2
      <4>2. Sound(G[h], h) /\ G[h].height = h
        BY <1>3, <4>1 DEF Replays
      <4>3. H[h] = G[h]
        BY <1>6, <4>1
      <4> HIDE DEF H
      <4> QED
        BY <4>2, <4>3
    <3> QED
      BY <3>1, <3>2
  <2> HIDE DEF H
  <2> QED
    BY <2>1, <2>2, <2>3 DEF Replays
<1>9. \A n \in Nodes : state'[n].height \in 0 .. Len(chain') /\ state'[n] = H[state'[n].height]
  <2> SUFFICES ASSUME NEW n \in Nodes
               PROVE  state[n].height \in 0 .. Len(chain') /\ state[n] = H[state[n].height]
    BY <1>1
  <2>1. state[n].height \in 0 .. L /\ state[n] = G[state[n].height]
    BY <1>3
  <2>2. H[state[n].height] = G[state[n].height]
    BY <1>6, <2>1
  <2> HIDE DEF H
  <2> QED
    BY <1>2, <2>1, <2>2
<1> HIDE DEF H
<1>10. \E J : /\ Replays(J, chain')
              /\ \A n \in Nodes : /\ state'[n].height \in 0 .. Len(chain')
                                  /\ state'[n] = J[state'[n].height]
  BY <1>8, <1>9
<1>11. \A n \in Nodes : MayRun(binary'[n], state'[n])
  BY <1>1 DEF UpgradesInv, MayRun
<1> QED
  BY <1>1, <1>2, <1>10, <1>11 DEF UpgradesInv

\* A node that commits a block arrives at the state of the history.
LEMMA CommitKeeps ==
  ASSUME UpgradesInv, UncommittedInv, NEW n \in Nodes, Commit(n)
  PROVE  UpgradesInv'
<1> DEFINE s == state[n]
<1>0. /\ ~ PreBlockRefuses(s, binary[n])
      /\ state' = [state EXCEPT ![n] = Executed(s, binary[n], chain[s.height + 1])]
  BY DEF Commit, UncommittedInv
<1>1. /\ UNCHANGED <<chain, binary>> /\ s.height < Len(chain)
  BY DEF Commit, UncommittedInv
<1>2. PICK G : /\ Replays(G, chain)
               /\ \A m \in Nodes : /\ state[m].height \in 0 .. Len(chain)
                                   /\ state[m] = G[state[m].height]
  BY DEF UpgradesInv
<1>3. chain \in Seq(Transactions) /\ Len(chain) \in Nat /\ DOMAIN state = Nodes
  BY LenProperties DEF UpgradesInv
<1>4. s.height \in Nat /\ s.height + 1 \in 1 .. Len(chain) /\ s = G[s.height]
  BY <1>1, <1>2, <1>3
<1> DEFINE k == s.height + 1
           t == Executed(s, binary[n], chain[k])
<1>5. chain[k] \in Transactions
  BY <1>3, <1>4, ElementOfSeq
<1>6. Sound(s, s.height)
  BY StatesSound
<1>7. binary[n] = RunRelease(s)
  BY <1>0, <1>6, OneReleaseExecutes DEF UpgradesInv
<1>8. k - 1 = s.height /\ k \in 1 .. Len(chain) /\ k \in 0 .. Len(chain)
  BY <1>3, <1>4
<1>9. G[k] = t
  <2>1. G[k] = Executed(G[k - 1], RunRelease(G[k - 1]), chain[k])
    BY <1>2, <1>8 DEF Replays
  <2>2. G[k - 1] = s
    BY <1>4, <1>8
  <2> QED
    BY <1>7, <2>1, <2>2
<1>10. t.height = k /\ Sound(t, t.height) /\ NetworkRelease(t) = RunRelease(s)
  BY <1>5, <1>6, ExecutedSound, NetworkAfterBlock
<1>11. state'[n] = t /\ \A m \in Nodes \ {n} : state'[m] = state[m]
  BY <1>0, <1>3
<1> HIDE DEF t, k
<1>12. \A m \in Nodes : state'[m].height \in 0 .. Len(chain') /\ state'[m] = G[state'[m].height]
  <2> SUFFICES ASSUME NEW m \in Nodes
               PROVE  state'[m].height \in 0 .. Len(chain) /\ state'[m] = G[state'[m].height]
    BY <1>1
  <2>1. CASE m = n
    BY <1>8, <1>9, <1>10, <1>11, <2>1
  <2>2. CASE m # n
    BY <1>2, <1>11, <2>2
  <2> QED
    BY <2>1, <2>2
<1>13. \A m \in Nodes : MayRun(binary'[m], state'[m])
  <2> SUFFICES ASSUME NEW m \in Nodes PROVE MayRun(binary[m], state'[m])
    BY <1>1
  <2>1. CASE m = n
    BY <1>7, <1>10, <1>11, <2>1 DEF MayRun
  <2>2. CASE m # n
    <3>1. MayRun(binary[m], state[m])
      BY DEF UpgradesInv
    <3> QED
      BY <1>11, <2>2, <3>1
  <2> QED
    BY <2>1, <2>2
<1>14. DOMAIN state' = Nodes /\ DOMAIN binary' = Nodes
  BY <1>0, <1>1, <1>3 DEF UpgradesInv
<1>15. \E J : /\ Replays(J, chain')
              /\ \A m \in Nodes : /\ state'[m].height \in 0 .. Len(chain')
                                  /\ state'[m] = J[state'[m].height]
  BY <1>1, <1>2, <1>12
<1> QED
  BY <1>1, <1>3, <1>13, <1>14, <1>15 DEF UpgradesInv

\* Installing a release the plan explains changes no state.
LEMMA InstallKeeps ==
  ASSUME UpgradesInv, UNCHANGED <<chain, state>>, NEW n \in Nodes, NEW b, MayRun(b, state[n]),
         binary' = [binary EXCEPT ![n] = b]
  PROVE  UpgradesInv'
<1>1. DOMAIN binary' = Nodes /\ binary'[n] = b /\ \A m \in Nodes \ {n} : binary'[m] = binary[m]
  BY DEF UpgradesInv
<1>2. \A m \in Nodes : MayRun(binary'[m], state[m])
  BY <1>1 DEF UpgradesInv
<1>3. \A m \in Nodes : MayRun(binary'[m], state'[m])
  BY <1>2
<1> QED
  BY <1>1, <1>3 DEF UpgradesInv

\* A binary swapped in too early changes no committed state.
LEMMA EarlySwapKeeps ==
  ASSUME UpgradesInv, NEW n \in Nodes, EarlySwap(n)
  PROVE  UpgradesInv'
<1> DEFINE b == state[n].plan.name
<1>1. /\ UNCHANGED <<chain, state>> /\ binary' = [binary EXCEPT ![n] = b]
      /\ state[n].plan # NoPlan /\ binary[n] < b
  BY DEF EarlySwap
<1>2. Sound(state[n], state[n].height) /\ MayRun(binary[n], state[n])
  BY StatesSound DEF UpgradesInv
<1>3. NetworkRelease(state[n]) \in Nat /\ b \in Nat
  BY <1>1, <1>2, NetworkReleaseFacts, PlannedName
<1>4. b > NetworkRelease(state[n])
  BY <1>1, <1>2, <1>3 DEF MayRun
<1>5. MayRun(b, state[n])
  BY <1>1, <1>4 DEF MayRun
<1> HIDE DEF b
<1> QED
  BY <1>1, <1>5, InstallKeeps

\* A restarted node goes on from its committed state.
LEMMA RestartKeeps ==
  ASSUME UpgradesInv, NEW n \in Nodes, Restart(n)
  PROVE  UpgradesInv'
<1> DEFINE s == state[n]
           b == IF PreBlockRefuses(s, binary[n]) THEN RequiredRelease(s) ELSE binary[n]
<1>1. UNCHANGED <<chain, state>> /\ binary' = [binary EXCEPT ![n] = b]
  BY DEF Restart
<1>2. Sound(s, s.height) /\ MayRun(binary[n], s)
  BY StatesSound DEF UpgradesInv
<1>3. NetworkRelease(s) \in Nat
  BY <1>2, NetworkReleaseFacts
<1>4. MayRun(b, s)
  <2>1. CASE ~ PreBlockRefuses(s, binary[n])
    BY <1>2, <2>1
  <2>2. CASE PreBlockRefuses(s, binary[n]) /\ ~ PlanDue(s)
    BY <2>2 DEF RequiredRelease, MayRun
  <2>3. CASE PreBlockRefuses(s, binary[n]) /\ PlanDue(s)
    <3>1. b = s.plan.name /\ s.plan # NoPlan /\ ~ HasHandler(binary[n], s.plan.name)
      BY <2>3 DEF RequiredRelease, PreBlockRefuses, PlanDue
    <3>2. s.plan.name \in Nat \ {0}
      BY <1>2, <3>1, PlannedName
    <3>3. binary[n] \in Nat => s.plan.name > binary[n]
      BY <3>1, <3>2 DEF HasHandler
    <3>4. s.plan.name > NetworkRelease(s)
      BY <1>2, <1>3, <3>2, <3>3 DEF MayRun
    <3> HIDE DEF b
    <3> QED
      BY <3>1, <3>4 DEF MayRun
  <2> QED
    BY <2>1, <2>2, <2>3
<1> HIDE DEF b
<1> QED
  BY <1>1, <1>4, InstallKeeps

\* What waits for its commit stays executable until then, or is lost.
LEMMA UncommittedKeeps ==
  ASSUME UpgradesInv, UncommittedInv, UpgradesNext PROVE UncommittedInv'
<1> DEFINE Waits(m) == /\ state[m].height < Len(chain)
                       /\ ~ PreBlockRefuses(state[m], binary[m])
<1>1. /\ executed \subseteq up \cap Nodes /\ \A m \in executed : Waits(m)
      /\ chain \in Seq(Transactions) /\ DOMAIN state = Nodes /\ DOMAIN binary = Nodes
  BY DEF UpgradesInv, UncommittedInv
<1>2. ASSUME NEW tx \in Transactions, Decide(tx) PROVE UncommittedInv'
  <2>1. Len(chain') = Len(chain) + 1 /\ Len(chain) \in Nat
    BY <1>1, <1>2, AppendProperties, LenProperties DEF Decide
  <2>2. \A m \in executed : state[m].height \in Nat
    BY <1>1, StatesSound
  <2> QED
    BY <1>1, <1>2, <2>1, <2>2 DEF Decide, UncommittedInv
<1>3. ASSUME NEW n \in Nodes, Execute(n) PROVE UncommittedInv'
  BY <1>1, <1>3 DEF Execute, UncommittedInv
<1>4. ASSUME NEW n \in Nodes, Commit(n) PROVE UncommittedInv'
  <2>1. \A m \in Nodes \ {n} : state'[m] = state[m]
    BY <1>1, <1>4 DEF Commit
  <2> QED
    BY <1>1, <1>4, <2>1 DEF Commit, UncommittedInv
<1>5. ASSUME NEW n \in Nodes, Crash(n) PROVE UncommittedInv'
  BY <1>1, <1>5 DEF Crash, UncommittedInv
<1>6. ASSUME NEW n \in Nodes, EarlySwap(n) PROVE UncommittedInv'
  <2>1. \A m \in Nodes \ {n} : binary'[m] = binary[m]
    BY <1>1, <1>6 DEF EarlySwap
  <2> QED
    BY <1>1, <1>6, <2>1 DEF EarlySwap, UncommittedInv
<1>7. ASSUME NEW n \in Nodes, Restart(n) PROVE UncommittedInv'
  <2>1. \A m \in Nodes \ {n} : binary'[m] = binary[m]
    BY <1>1, <1>7 DEF Restart
  <2> QED
    BY <1>1, <1>7, <2>1 DEF Restart, UncommittedInv
<1> HIDE DEF Waits
<1> QED
  BY <1>2, <1>3, <1>4, <1>5, <1>6, <1>7 DEF UpgradesNext

\* Every step of a node keeps the invariant.
LEMMA NextUpgrades ==
  UpgradesInv /\ UncommittedInv /\ [UpgradesNext]_vars => UpgradesInv' /\ UncommittedInv'
<1> SUFFICES ASSUME UpgradesInv, UncommittedInv, [UpgradesNext]_vars
             PROVE  UpgradesInv' /\ UncommittedInv'
  OBVIOUS
<1>1. ASSUME UNCHANGED <<chain, state, binary>> PROVE UpgradesInv'
  BY <1>1 DEF UpgradesInv
<1>2. ASSUME NEW tx \in Transactions, Decide(tx) PROVE UpgradesInv'
  BY <1>2, DecideKeeps
<1>3. ASSUME NEW n \in Nodes, Execute(n) PROVE UpgradesInv'
  BY <1>1, <1>3 DEF Execute
<1>4. ASSUME NEW n \in Nodes, Commit(n) PROVE UpgradesInv'
  BY <1>4, CommitKeeps
<1>5. ASSUME NEW n \in Nodes, Crash(n) PROVE UpgradesInv'
  BY <1>1, <1>5 DEF Crash
<1>6. ASSUME NEW n \in Nodes, EarlySwap(n) PROVE UpgradesInv'
  BY <1>6, EarlySwapKeeps
<1>7. ASSUME NEW n \in Nodes, Restart(n) PROVE UpgradesInv'
  BY <1>7, RestartKeeps
<1>8. CASE UNCHANGED vars
  <2>1. UpgradesInv'
    BY <1>1, <1>8 DEF vars
  <2>2. UncommittedInv'
    BY <1>8 DEF vars, UncommittedInv
  <2> QED
    BY <2>1, <2>2
<1>9. CASE UpgradesNext
  <2>1. UpgradesInv'
    BY <1>2, <1>3, <1>4, <1>5, <1>6, <1>7, <1>9 DEF UpgradesNext
  <2> QED
    BY <1>9, <2>1, UncommittedKeeps
<1> QED
  BY <1>8, <1>9

-----------------------------------------------------------------------------
(* Theorems.                                                               *)

\* Every node is on the one history of the chain, with a release its plan explains.
THEOREM UpgradesInvariant == UpgradesSpec => []UpgradesInv
<1>1. UpgradesInit => UpgradesInv /\ UncommittedInv
  <2>1. UpgradesInit => UncommittedInv
    BY DEF UpgradesInit, UncommittedInv
  <2> QED
    BY <2>1, InitUpgrades
<1>2. UpgradesInv /\ UncommittedInv /\ [UpgradesNext]_vars => UpgradesInv' /\ UncommittedInv'
  BY NextUpgrades
<1> QED
  BY <1>1, <1>2, PTL DEF UpgradesSpec

\* Nodes at the same height have the same committed state: the pre-blocker admits
\* one release per block, whatever crashed, was swapped early or fell behind.
THEOREM NodesAgree == UpgradesSpec => []SameHeightSameState
<1>1. UpgradesInv => SameHeightSameState
  BY DEF UpgradesInv, SameHeightSameState
<1> QED
  BY <1>1, UpgradesInvariant, PTL

\* Every upgrade migrates once, in the block that completes it and never over live
\* state, and no plan is passed without being applied.
THEOREM UpgradesAlwaysRunAsScheduled == UpgradesSpec => []UpgradesRunAsScheduled
<1>1. UpgradesInv => UpgradesRunAsScheduled
  <2> SUFFICES ASSUME UpgradesInv, NEW n \in Nodes
               PROVE  /\ \A r \in Names :
                           state[n].migrated[r] = (IF r \in Range(state[n].done) THEN 1 ELSE 0)
                      /\ state[n].maxGas =
                           (IF GasRelease \in Range(state[n].done) THEN V040BlockMaxGas ELSE -1)
                      /\ ~ state[n].reset
                      /\ state[n].plan # NoPlan => state[n].plan.height > state[n].height
    BY DEF UpgradesRunAsScheduled, MigratesExactlyOnce, PlanNeverPassed
  <2> QED
    BY StatesSound DEF Sound
<1> QED
  BY <1>1, UpgradesInvariant, PTL

=============================================================================
