------------------------------ MODULE Upgrades ------------------------------
(***************************************************************************)
(* Scheduled upgrades: MsgScheduleUpgrade and MsgCancelUpgrade, the        *)
(* registry of upgrades a binary is compiled with, and nodes that crash,   *)
(* restart and change binaries around the upgrade height.                  *)
(*                                                                         *)
(* Releases are numbered and append to the registry, so release r carries  *)
(* the handlers of the upgrades 1 to r; the upgrade to release r has the   *)
(* name r.  A block holds at most one transaction that matters here.       *)
(* CometBFT, x/upgrade and the module manager are external: a block is     *)
(* decided when more than two thirds of the power agree on the state       *)
(* before it, and every node executes the decided blocks in order.         *)
(*                                                                         *)
(* Without a pending plan nothing in the chain stops a node from running   *)
(* another release; only node-local changes are rolled that way, so here   *)
(* a node changes its binary early only while the plan is pending.         *)
(***************************************************************************)
EXTENDS Integers, Sequences, FiniteSets, FiniteSetsExt, Functions

CONSTANTS
  Nodes,
  Power,          \* voting power of each node
  Releases,       \* 0 .. n, the releases there will ever be
  GenesisRelease, \* the release the network starts with
  StrictRelease,  \* release that refuses transactions the ones before it accept
  GasRelease,     \* release whose Migrate limits the gas of a block
  MaxHeight,      \* bound of the model: the last block
  MaxFaults       \* bound of the model: crashes and early swaps

ASSUME UpgradesAssumption ==
  /\ IsFiniteSet(Nodes)
  /\ Power \in [Nodes -> Nat \ {0}]
  /\ IsFiniteSet(Releases) /\ Releases = 0 .. Cardinality(Releases) - 1
  /\ GenesisRelease \in Releases
  /\ {StrictRelease, GasRelease} \subseteq Nat \ {0}
  /\ {MaxHeight, MaxFaults} \subseteq Nat

Names == Releases \ {0}
NoPlan == [name |-> 0, height |-> 0]

\* Transactions: one whose validity StrictRelease changes, the two messages of
\* the authority, and nothing.  No transaction comes before block 1, so no plan for
\* block 1 is admissible.
Transactions ==
  [kind : {"none", "send", "cancel"}, name : {0}, height : {0}]
    \cup [kind : {"schedule"}, name : Names, height : 2 .. MaxHeight]

VARIABLES
  chain,     \* transactions of the decided blocks
  state,     \* committed state of each node
  binary,    \* release each node runs or will run when it starts
  up,        \* nodes that run
  executed,  \* nodes that have executed the next block and not committed it
  faults     \* bound: faults so far

vars == <<chain, state, binary, up, executed, faults>>

\* Committed state: last height, the plan of x/upgrade and the upgrades it
\* recorded as done, in order, whether the module version map is complete, how
\* often each upgrade migrated, whether a migration initialised a module again,
\* the gas limit of a block, and how many contested transactions took effect.
GenesisState(complete) ==
  [height |-> 0, plan |-> NoPlan, done |-> <<>>, versions |-> complete,
   migrated |-> [r \in Names |-> 0], reset |-> FALSE, maxGas |-> -1, sends |-> 0]

VersionMapComplete_Unchecked(versions) == TRUE
\* requireCompleteModuleVersionMap
VersionMapComplete(versions) == versions

\* The InitChainer.  SetInitVersionMap covers every mounted module, but it is
\* x/upgrade's InitGenesis that stores the map, and that runs only if the genesis
\* document has a section for it.
InitChain ==
  \E section \in BOOLEAN :
    /\ VersionMapComplete(section)
    /\ state = [n \in Nodes |-> GenesisState(section)]

UpgradesInit ==
  /\ InitChain
  /\ chain = <<>>
  /\ binary = [n \in Nodes |-> GenesisRelease]
  /\ up = Nodes
  /\ executed = {}
  /\ faults = 0

-----------------------------------------------------------------------------
(* One block on one node.                                                  *)

V040BlockMaxGas_Negative == -30000000
\* The limit the upgrade to GasRelease installs.
V040BlockMaxGas == 30000000

\* SetBlockParams writes what CometBFT's ValidateBasic accepts.
GasAccepted(maxGas) == maxGas >= -1

HasHandler(r, name) == name \in 1 .. r

\* registerUpgradeHandlers: RunMigrations, then the upgrade's own Migrate.  A
\* module without a version is a new one to RunMigrations.
RunHandler(s, name) ==
  [s EXCEPT !.versions = TRUE, !.reset = @ \/ ~ s.versions,
            !.migrated[name] = @ + 1,
            !.maxGas = IF name = GasRelease THEN V040BlockMaxGas ELSE @]

\* ApplyUpgrade of x/upgrade
ApplyUpgrade(s) ==
  [RunHandler(s, s.plan.name) EXCEPT !.done = Append(@, s.plan.name), !.plan = NoPlan]

PlanDue(s) == s.plan # NoPlan /\ s.plan.height <= s.height + 1
LastDone(s) == IF s.done = <<>> THEN 0 ELSE s.done[Len(s.done)]

PreBlockRefuses_DueOnly(s, r) == PlanDue(s) /\ ~ HasHandler(r, s.plan.name)
\* PreBlocker of x/upgrade refuses the block: the upgrade is due and the binary
\* lacks it, or it is pending and the binary already has it, or the binary is
\* older than the last completed upgrade.
PreBlockRefuses(s, r) ==
  \/ PlanDue(s) /\ ~ HasHandler(r, s.plan.name)
  \/ s.plan # NoPlan /\ ~ PlanDue(s) /\ HasHandler(r, s.plan.name)
  \/ ~ PlanDue(s) /\ LastDone(s) # 0 /\ ~ HasHandler(r, LastDone(s))

\* The handler returns an error, which aborts the block: only for a value that
\* SetBlockParams refuses.  RunMigrations finds no migration that can fail in these
\* releases, BaseApp stored every section of the consensus parameters at InitChain,
\* and ValidateUpdate looks at other sections than the block's.
HandlerFails(s) == PlanDue(s) /\ s.plan.name = GasRelease /\ ~ GasAccepted(V040BlockMaxGas)

\* app_config.go lists x/upgrade among the pre-blockers.
PreBlock(s) == IF PlanDue(s) THEN ApplyUpgrade(s) ELSE s

\* ScheduleUpgrade by the authority, at a height after that of the block; it
\* replaces a pending plan.  x/upgrade refuses a completed name.
ScheduleUpgrade(s, tx) ==
  IF tx.name # 0 /\ tx.height > s.height + 1 /\ tx.name \notin Range(s.done)
  THEN [s EXCEPT !.plan = [name |-> tx.name, height |-> tx.height]] ELSE s

\* CancelUpgrade by the authority; an error when nothing is scheduled.
CancelUpgrade(s) == [s EXCEPT !.plan = NoPlan]

\* StrictRelease's send restriction is application wiring: it binds as soon as
\* the binary runs.
Deliver(s, r, tx) ==
  CASE tx.kind = "schedule" -> ScheduleUpgrade(s, tx)
    [] tx.kind = "cancel" -> CancelUpgrade(s)
    [] tx.kind = "send" /\ r < StrictRelease -> [s EXCEPT !.sends = @ + 1]
    [] OTHER -> s

Executed(s, r, tx) == [Deliver(PreBlock(s), r, tx) EXCEPT !.height = @ + 1]

-----------------------------------------------------------------------------
(* The network.                                                            *)

Quorum(S) == 3 * SumFunctionOnSet(Power, S) > 2 * SumFunction(Power)

\* The next block is decided on by nodes that agree on the state before it.
Decide(tx) ==
  /\ Len(chain) < MaxHeight
  /\ \E S \in SUBSET up :
       /\ Quorum(S)
       /\ \A n \in S : state[n].height = Len(chain)
       /\ Cardinality({state[n] : n \in S}) = 1
  /\ chain' = Append(chain, tx)
  /\ UNCHANGED <<state, binary, up, executed, faults>>

\* FinalizeBlock: the writes stay in memory, or an error stops the node.
Execute(n) ==
  /\ n \in up \ executed
  /\ state[n].height < Len(chain)
  /\ IF PreBlockRefuses(state[n], binary[n]) \/ HandlerFails(state[n])
     THEN up' = up \ {n} /\ UNCHANGED executed
     ELSE executed' = executed \cup {n} /\ UNCHANGED up
  /\ UNCHANGED <<chain, state, binary, faults>>

\* Commit: the writes of the block reach the disk, all of them.
Commit(n) ==
  /\ n \in executed
  /\ state' = [state EXCEPT ![n] = Executed(@, binary[n], chain[@.height + 1])]
  /\ executed' = executed \ {n}
  /\ UNCHANGED <<chain, binary, up, faults>>

\* A crash loses what was not committed.
Crash(n) ==
  /\ n \in up /\ faults < MaxFaults
  /\ up' = up \ {n}
  /\ executed' = executed \ {n}
  /\ faults' = faults + 1
  /\ UNCHANGED <<chain, state, binary>>

\* An operator stops the node, installs the release of a pending plan before its
\* height and starts it again.
EarlySwap(n) ==
  /\ faults < MaxFaults
  /\ state[n].plan # NoPlan
  /\ binary[n] < state[n].plan.name
  /\ binary' = [binary EXCEPT ![n] = state[n].plan.name]
  /\ up' = up \cup {n}
  /\ executed' = executed \ {n}
  /\ faults' = faults + 1
  /\ UNCHANGED <<chain, state>>

\* The release the network runs in a state.
NetworkRelease(s) == Max({GenesisRelease} \cup Range(s.done))

\* The release the refusal asks for: the one of the due plan, or else the one
\* everybody runs.
RequiredRelease(s) == IF PlanDue(s) THEN s.plan.name ELSE NetworkRelease(s)

\* The operator of a stopped node installs what its log asks for; a node that
\* stopped for another reason starts again as it is.
Restart(n) ==
  /\ n \notin up
  /\ binary' = [binary EXCEPT ![n] =
       IF PreBlockRefuses(state[n], @) THEN RequiredRelease(state[n]) ELSE @]
  /\ up' = up \cup {n}
  /\ UNCHANGED <<chain, state, executed, faults>>

UpgradesNext ==
  \/ \E tx \in Transactions : Decide(tx)
  \/ \E n \in Nodes : Execute(n) \/ Commit(n) \/ Crash(n) \/ EarlySwap(n) \/ Restart(n)

\* Nodes execute what was decided and stopped nodes are started again; nobody
\* has to propose anything.
UpgradesSpec ==
  /\ UpgradesInit
  /\ [][UpgradesNext]_vars
  /\ \A n \in Nodes : WF_vars(Execute(n) \/ Commit(n)) /\ WF_vars(Restart(n))

-----------------------------------------------------------------------------
(* Properties.                                                             *)

\* Nodes at the same height have the same state, whatever they crashed, swapped
\* or missed: the pre-blocker keeps a binary with other rules from executing
\* a block while a plan is pending or after it was applied.
SameHeightSameState ==
  \A m, n \in Nodes : state[m].height = state[n].height => state[m] = state[n]

\* Every upgrade migrates once, in the block that records it as done, and the gas
\* limit binds exactly then: a crash before the commit repeats the block, not the
\* migration.  No migration initialises a module over live state: a chain whose
\* genesis stored no module versions never starts.
MigratesExactlyOnce ==
  \A n \in Nodes :
    /\ \A r \in Names : state[n].migrated[r] = (IF r \in Range(state[n].done) THEN 1 ELSE 0)
    /\ state[n].maxGas = (IF GasRelease \in Range(state[n].done) THEN V040BlockMaxGas ELSE -1)
    /\ ~ state[n].reset

\* The chain does not pass the height of a plan without applying it: a plan
\* still pending lies ahead of the last block.
PlanNeverPassed ==
  \A n \in Nodes : state[n].plan # NoPlan => state[n].plan.height > state[n].height

\* A scheduled upgrade runs at its height, once, on the modules' live state.
UpgradesRunAsScheduled == MigratesExactlyOnce /\ PlanNeverPassed

\* A plan that names an upgrade the network's own release already carries stops
\* every node before its height, the block of a cancellation included.
Stranded(s) == s.plan # NoPlan /\ ~ PlanDue(s) /\ s.plan.name <= NetworkRelease(s)

\* Every node executes every decided block, through the halt at the upgrade
\* height, crashes and early swaps, unless the authority strands the network.
BlocksGetExecuted ==
  \A n \in Nodes, h \in 1 .. MaxHeight :
    Len(chain) >= h ~> (state[n].height >= h \/ Stranded(state[n]))
=============================================================================
