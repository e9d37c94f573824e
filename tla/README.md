# A TLA+ model of twilight-core

twilight-core is a Cosmos SDK chain with a proof-of-authority validator set. Its
own logic is in three modules: `x/coreslot` decides who validates, `x/rewards`
mints and books the rewards of an epoch, `x/mining` distributes what a slot
earned. This directory models the three modules, the histories of their
configuration, the draw of a Selection, the transfers of users beside the escrow
and the scheduled upgrades of a network of nodes; it checks the models with TLC
and proves the invariants of the registry with TLAPS.

## The system

### Components and their state

| component | state | operations | correct when |
|---|---|---|---|
| `x/coreslot` | slot records, membership index, operator and consensus-key indexes, reservations, staged rotations, last applied validator set, policy histories, parameters, roles and nominations | 14 messages, end-block hook, genesis; `ScheduleUpgrade`, `CancelUpgrade` | the chain does not halt while its total power is one CometBFT takes, CometBFT's set is the ACTIVE slots, indexes agree with records, keys are not reused early, policies resolve at every height, roles move by acceptance |
| `x/rewards` | open epoch and its counters, pause state, cumulative emission, carry, entitlements, outstanding liability, finalized epochs, parameters and queued parameters, the module account | begin-block and end-block hooks, pause, resume, parameter update, two release calls of the keeper, genesis | the books balance at every step, emission follows the unpaused blocks, closed epochs are immutable, no hook fails |
| emission schedule | none | `HalvingTier`, `NextHalvingThreshold`, `NextBlockSubsidy`, `ComputeEpochEmission` | tiers are filled in order, the cap holds |
| `x/mining` | settlement clock, cursor of processed epochs, settlements, open index, epoch anchors | end-block hook, `SubmitSettlementChunk`, `FinalizeSettlement`, genesis | one settlement per entitlement, an exact window, no replay, anyone can finalize past the deadline |
| configuration histories of `x/rewards` and `x/mining` | versions of the epoch geometry, economics, distribution mode, settlement and selection parameters, their schedules and indexes | resolution for a target epoch, projection, consumption and promotion of a scheduled change, lookup by version number | epochs tile the heights, what an epoch was paid under never changes, a lookup never denies a version |
| selection draw | none | beacon window, filter, thresholds, ranking, count, verification | a slot's own blocks do not count, candidates are fixed before the randomness, the count is exact |
| upgrades | the plan, the completed upgrades, the module versions, the binary of each node | `ScheduleUpgrade`, `CancelUpgrade`, pre-block, migrations, crash, restart, change of binary | nodes do not diverge, an upgrade runs once at its height, the network comes back |
| ante handler, send restriction | which accounts exist | admission of a user's transfer | no transfer, and no filter on transfers, makes a hook fail |
| economic addresses, checked arithmetic, wiring | none | pure functions | |
| queries, events, telemetry, command line, tools, website | none | | not part of the consensus state machine |

### How they interact

A block runs `x/rewards` BeginBlock, the transactions, then the end-block hooks
of `x/coreslot`, `x/rewards` and `x/mining` in this order (`app/config.go`).
`x/rewards` reads slots and roles from `x/coreslot`; `x/mining` reads slots from
`x/coreslot`, and entitlements, finalized epochs and the pause from `x/rewards`,
and calls its two release operations. There are no callbacks and no threads: a
transaction is atomic, and concurrency is the order in which messages of
different signers land in blocks. A hook works on a cached context which is
written when it succeeds; when it fails, every node halts. That makes any
invariant on which a hook insists a matter of liveness of the chain.

The hard parts are therefore: long sequences of legal messages that leave an
index behind; what a block boundary does to something requested before it
(rotation, pause, policy, parameters, epoch, deadline); slots that leave while
something is owed to them or staged for them; changes scheduled for an epoch that
is not the one being paid; binaries that change at one height on many nodes;
arithmetic at thresholds, caps
and limits; equalities that halt the chain when a step forgets one of several
books. `PROJECT.json` lists these hazards at their lines.

## Modules

| module | models |
|---|---|
| `CoreSlot` | `x/coreslot/keeper`: one action per message, `EndBlock`, fresh genesis |
| `SlotDirectory` | the abstract specification of what the other modules see of `x/coreslot`; implemented by `CoreSlot` (`ImplementsDirectory`), extended by `Rewards` |
| `Emission` | `x/rewards/keeper/emission.go` as operators over recursive functions |
| `Rewards` | `x/rewards/keeper` over a `SlotDirectory`, with the bank transfers of users behind `app/sendrestriction.go` and `app/antehandler.go` |
| `Mining` | `x/mining/keeper` composed with `Rewards` |
| `Histories` | `epochhistory.go` and `rewardconfig.go` of `x/rewards`, `history.go`, `mode.go`, `settlementparams.go`, `versionlookup.go` of `x/mining`, over the blocks that open and close epochs |
| `Selection` | `x/mining/types/selectionv1`: one Selection from commitment to publication |
| `Upgrades` | `app/upgrades.go`, `app/consensusparams.go`, the InitChainer, the two messages of `x/coreslot`, in a network of nodes |
| `MC*` | values for the constants |
| `CoreSlotProofs` | the stores and the chain of `CoreSlot`, and that it implements `SlotDirectory` |
| `CoreSlotHistoryProofs` | operator index, roles, lockouts, rotation delays and policy histories of `CoreSlot` |
| `ArithmeticTheorems` | induction, recursive functions, sums and shares for the books, and what the operators of `Emission` compute |
| `RewardsProofs`, `MiningProofs`, `HistoriesProofs`, `UpgradesProofs` | theorems about their namesakes |
| `AlgorithmsProofs` | theorems about `MCEmission` and `Selection` |

**Actions and errors.** A message is one action, its handler's checks are the
guards and its writes the primed variables; a message that returns an error
changes nothing, so it is a disabled action. A hook never is: when its checks
fail it sets `halted`, and `NeverHalts`, `RewardsNeverHalt` and
`MaterializationKeepsUp` state that this does not happen (`HaltsOnlyForSelection`
that it happens in one case only). CometBFT's answer to
validator updates (`UpdatesAccepted`) is part of the end of a block: it refuses
to drop an unknown validator or the last one, and a total power above
`MaxTotalVotingPower`, an eighth of the top of int64. `Params.Validate`
(`x/coreslot/types/validation.go:65`) admits `max_active_slots` times
`slot_voting_power` up to the top of int64, so a document in between is admitted
and stops the chain once enough slots are ACTIVE. `NeverHalts` is stated for
documents that are not in between (`PowerFits`); the genesis default, 100 slots
of power 1, is far from it. The two-block delay before an
update takes effect is left out; the set in `validators` is the one handed over.

**State.** A store is a function whose value at an absent key is named next to
the variable. Left out: reward weights, created, updated and activated heights,
reasons and events, which nothing reads back, and the text of metadata and
policies (model values). Integers are exact where the code checks its sums or
uses big integers; `Int64` and `HeightPlus` wrap around where it does not.
History variables (`lockedUntil`, `genesis`, `credited`, `wanted`,
`windowBlocks`, and the field `promised` of a staged rotation: request height plus
the delay then in force, without wrap-around) are read by properties only.

**Fresh genesis.** `Init` is what `InitGenesis` makes of a document that
`GenesisState.Validate` admits, at initial height 1, with no reservations and no
released value. For `x/rewards` it may carry a queued parameter document and an
epoch configuration with another fee share than the document in force. A fresh genesis has exactly one version of each configuration
history with an empty schedule, and no production path writes a schedule: the
epoch length, the economics, the distribution mode and the settlement
parameters are constants of `Rewards` and `Mining`. `Histories` asks what happens
once something does write them: its Schedule actions are the missing writer,
free within the keys the readers admit.

**Histories.** A history is a function from effective epochs to rows; the four
families of versions share the shape and differ in who reads them. Money, pauses
and slots are left out; whether the closing epoch has entitlements is a free
choice. `LoseIndexEntry` is the storage fault that `versionlookup.go` is written
against.

**Selection.** Hashes are their preimages, tickets an abstract function of beacon
hash and draw ID. `RankCandidates` inserts one candidate after the other: `slices.SortStableFunc`
merges sorted blocks, which arranges a list in the same way. No message calls the library yet: `Commit`, `Publish` and
`NextBlock` are the protocol its height rules describe.

**Upgrades.** A release is a number, and release r carries the handlers of upgrades
1 to r, because the registry is append-only. The state of a node is what decides
about the next block; a contested transaction stands for the rules that
v0.3.0 changes without a migration. A block takes two steps: `Execute` runs the
pre-blocker, the handler and the transactions in memory, `Commit` makes the result
durable, and a crash or an early change of binary in between loses it, so that the
same block, an upgrade block among them, runs again from the state before it. The
handler's errors come down to one, a gas limit that `SetBlockParams` refuses: none
of the registered migrations can fail, every section of the consensus parameters is
stored at InitChain, and `ValidateUpdate` looks at sections the handler leaves
alone. CometBFT decides a block when two thirds of
the power agree on the state before it.

**External parts.** Bank balances, the accounts of `x/auth`, `x/upgrade`, CometBFT's validator set and the commit of a
block are modelled from their use. The release operations of `x/rewards` may be
called with any payout set in `Rewards`; in `Mining` only `x/mining` calls them.
`EconomicAccounts` is the set of addresses that `internal/economicaddress`
admits; module accounts are outside it.

## Runs

`MaxHeight` bounds every model of the chain; the last block stays open, so that
these runs do not end in a deadlock. Deadlock is not checked in four runs that
may really stop: `coreslot_params` (a document with too much power),
`histories` (the chain halts under protocol selection),
`upgrades` (the last block is executed everywhere, or the network is stranded) and
`algorithms` (the computation is over). Symmetry is used in safety runs only,
over keys, accounts without a role and slots.

| run | instance | distinct states | what it shows |
|---|---|---|---|
| `coreslot_lifecycle` | 2 genesis slots, 4 identifiers, 3 keys, 2 operators, 3 blocks | 188,700 | no order of registration, activation, departure, removal and rotation breaks an index, reuses a key early or halts the chain; the largest power CometBFT takes is reached |
| `coreslot_params` | 5 documents: roomy, tight with a waivable minimum and a longer delay, too strong for CometBFT with two slots, and two that `Params.Validate` refuses (minimum 0, product above int64) | 248,796 | the floor of one validator, uniform power, `CoreSlot` implements `SlotDirectory`, a rotation waits for the delay in force when it was requested |
| `coreslot_roles` | two holders, a module account, 2 policies in 3 versions, 4 fair blocks | 39,936 | roles move by acceptance, every height resolves and history does not change, staged rotations settle |
| `coreslot_overflow` | lockout above a small int64, a free identifier to register | violation | see Findings |
| `algorithms` | 8 caps, 6 subsidies, every start, 12 blocks; 3 slots, 7 lists of candidates, 54 beacon parameters, windows of up to 3 blocks | 453,954 | block-by-block emission is tier-by-tier emission; the draw, against every combination of rehashed and missed own blocks |
| `rewards` | 2 slots, epochs of 2 blocks, 5 blocks, cap reached in the second epoch | 101,421 | the books, the pause, the close |
| `rewards_transfers` | 1 slot, a user, a treasury without an account, 4 kinds of transfer, 4 parameter documents (another block time, retired switches flipped, and two that change a frozen field), queued by genesis or by message, an epoch configuration with another fee share | 314,592 | transfers and filters do not disturb a close; parameters move at the close only, and frozen fields never |
| `mining_slots` | 2 slots, 2 epochs, 2 chunks per settlement | 578,778 | settlements and entitlements in step |
| `mining_window` | 1 slot, 3 accounts, window of 2 blocks, 6 blocks | 981,360 | the exact window and the payee |
| `mining_finalization` | 2 slots that leave, an account that never signs for one, an unfunded payee, amounts below the funding minimum | 84,504 | past the deadline any account can finalize |
| `histories` | epochs of 2 or 3 blocks, 9 blocks, 2 scheduled changes up to 2 epochs ahead, 1 lost index entry | 438,912 | spans, bindings, stamps and lookups |
| `upgrades` | 3 nodes of powers 2, 2, 1, 2 upgrades, 3 blocks, 1 crash or early change, between execution and commit too | 176,505 | no divergence, upgrades as scheduled, the network recovers |

Some properties are conjunctions of parts that are stated apart: `BooksBalance`
(escrow, liability, supply, emission), `SettlementsExact`, `HistoriesTile`,
`HistoryStable`, `UpgradesRunAsScheduled`.

The bounds are the smallest at which the interesting cases happen: three keys
let a released key be taken by another slot while a third is staged; three
blocks let a rotation be requested, become due and its key's lockout end; five
blocks close two epochs of two and open a third, so that a carry is used, a
pause covers a whole epoch and the counter is reset twice; a window of one epoch
is open, at its last block and past within the run; nine blocks close at least two
epochs after the first scheduled change took effect, which is when the binding two
epochs back reads it; three blocks let a plan be scheduled, replaced or cancelled and
executed with a block after it, and power 2, 2, 1 makes one node dispensable and
two not. `InitialBlockSubsidy` and
`MaxSupply` are chosen so that shares do not divide evenly, a halving threshold
falls inside an epoch and the cap is reached.

**Fairness.** `FairSpec` (coreslot) assumes that blocks keep coming, nothing
about messages. `Mining` has no fairness: a settlement is finalized by a user's
transaction, there is no queue, sweep or retry, and it may stay open for ever
(`x/mining/keeper/finalize.go:35`). What the code does promise is that the
transaction is possible, and that is what `AnyoneCanFinalize` states.
`UpgradesSpec` assumes that a running node executes and commits a decided block and that a
stopped node is started again by its operator, with the binary its refusal asks
for: that is the procedure the halt exists for. Nobody has to propose a block.
`BlocksGetExecuted` leaves out a network the authority stranded (`Stranded`, a plan
for an upgrade whose binary runs already); the bounds of the run do not reach it.

## Findings

`coreslot_overflow`: `Params.Validate` puts no upper bound on
`consensus_key_reuse_lockout`, and the reservation's end is the unchecked sum
`height + int64(lockout)` (`x/coreslot/keeper/msg_server.go:358`,
`endblock.go:99`). A lockout above the top of int64, meant as "for ever", wraps
around to a past height and the key is free at once, where the operator guide
(`docs/operators/core-slot-operator-guide.md:192`) says that it "is reserved for
`consensus_key_reuse_lockout` blocks". In the run a slot is removed and, in the same
block, another slot takes its key by a rotation; a registration is accepted alike. `key_rotation_delay_blocks` has the same
sum.

## Proofs

Eight modules hold theorems, about 310 theorems and lemmas together. They hold for every set of slots,
keys, accounts, documents, releases and nodes and every bound that satisfies the named `ASSUME`s,
which TLC evaluates in each run. The index sets of sums must be finite (`FiniteAssumption`,
`UpgradesAssumption`).

| module | theorem | for every reachable state or step |
|---|---|---|
| `CoreSlotProofs` | `TypeCorrect` | `TypeOK` |
| | `RegistryInvariant` | `Registry`, the inductive invariant of the stores |
| | `KeyIndexIsExact` | `ConsensusIndexExact`: a key is indexed exactly when a live slot holds it or has staged it |
| | `RotationsBelongToActiveSlots` | `RotationsMatchSlots` |
| | `MembershipIsExact` | `ActiveIndexAndPower` |
| | `ChainInvariant` | `ChainInv`, the inductive invariant of the chain |
| | `ChainNeverHalts` | `NeverHalts`: if `PowerFits`, EndBlock never fails and CometBFT refuses no update |
| | `FloorHolds` | `AlwaysSomeActive` |
| | `MirrorHolds` | `LastAppliedMirrorsCometBFT` |
| | `RegistryImplementsDirectory` | `ImplementsDirectory`: every behaviour of the registry is one of `SlotDirectory` |
| `CoreSlotHistoryProofs` | `OperatorIndexIsExact` | `OperatorIndexExact` |
| | `ClosedBlockFollowsSlots` | `ValidatorSetFollowsSlots` |
| | `HandoverNeedsAcceptance` | `HandoverByAcceptance` |
| | `LockoutIsHonoured` | `LockoutHonoured`, if `LockoutFits` |
| | `RotationsWaitTheirDelay` | `RotationWaits`, if `DelayFits` |
| | `PoliciesAlwaysResolve` | `PoliciesResolve` |
| | `PolicyHistoryNeverChanges` | `PolicyHistoryStable` |
| `ArithmeticTheorems` | `SumTakeOut` ... `SharesFit` | what `SumFunctionOnSet` computes; shares rounded down fit into the amount |
| | `EmissionAdditive` | emission over n + m blocks is emission over n, then over m, and never passes the cap |
| `RewardsProofs` | `RewardsTypeCorrect` | `RewardsTypeOK` |
| | `HooksNeverFail` | `RewardsNeverHalt` |
| | `BooksAlwaysBalance` | `BooksBalance` |
| | `EpochsAlwaysChain` | `EpochsChain` |
| | `ClosedEpochsStay` | `ClosedEpochsImmutable` |
| | `PauseIsLastRequest` | `PauseFollowsLastRequest` |
| | `ParamsOnlySwitchAtClose` | `ParamsSwitchAtClose` |
| `MiningProofs` | `MiningImplementsRewards` | `MiningSpec => RewardsSpec` |
| | `MiningTypeCorrect` | `MiningTypeOK` |
| | `MaterializationAlwaysKeepsUp` | `MaterializationKeepsUp` |
| | `SettlementsAlwaysExact` | `SettlementsExact` |
| | `ChunksAreNeverReplayed` | `ChunksNeverReplayed` |
| | `WindowIsAlwaysExact` | `WindowIsExact` |
| | `RemainderGoesToSnapshot` | `RemainderToSnapshot` |
| `HistoriesProofs` | `HaltsForSelectionAlone` | `HaltsOnlyForSelection` |
| | `HistoriesAlwaysTile` | `HistoriesTile` |
| | `StampsAlwaysHold` | `StampsHold` |
| | `LookupIsHonest` | `LookupHonest` |
| | `HistoryIsStable` | `HistoryStable` |
| `UpgradesProofs` | `NodesAgree` | `SameHeightSameState` |
| | `UpgradesAlwaysRunAsScheduled` | `UpgradesRunAsScheduled` |
| `AlgorithmsProofs` | `EmissionAlwaysFillsTiers` | `EmissionFillsTiers` |
| | `CandidatesComeFirst` | `CandidatesBeforeRandomness` |
| | `CountIsPromised` | `SelectedCount` is `PromisedCount`, between 1 and half of the candidates |
| | `OwnBlocksNeverCount` | `OwnBlocksDoNotCount` |
| | `DrawIsAlwaysExact` | `DrawIsExact`, if `TicketsAreNumbers` |

**Registry.** The argument has two layers. `Registry` is inductive by itself: types, admissible
parameters, complete live records, the membership index with the powers, the
staged rotations (`RotationsMatchSlots`, and `RotationsFresh`: a staged key is
nobody's current key) and the exact key index. The key index is needed to
show that a rotation or a registration takes a key nobody holds; rotations must
belong to ACTIVE slots for the index to stay exact when EndBlock applies or
drops them. `ChainInv` adds the chain: some slot is ACTIVE, `LastApplied` is
CometBFT's set, its rows are well formed; a chain that halted keeps all of it.
`LiveInv`, under `PowerFits`, adds that the chain is not halted and that the
ACTIVE slots together stay within CometBFT's bound: their number times the power,
and not the maximum of the document in force, which may be lowered below that
number. Its step for EndBlock uses `Registry` to show that every read succeeds, that
no two ACTIVE slots share a key after the rotations, and that the updates drop
only known validators, leave one, and add up to the power of the ACTIVE slots.

**Directory.** The refinement maps a record to its status and its two addresses. A genesis
document maps to an initial directory, each lifecycle message to `Move`, a
registration to `Register`, an address update to its namesake, an acceptance to
`HandOver`; everything else, EndBlock included, changes nothing a reader sees
(`DirectoryStutter`). `Move` demands an ACTIVE slot after the step, which is
`ChainInv` in the next state; of the rest only the types are used.

**Lockouts, delays, policies.** `KeySteps` says what a step may do to a key (release
it, take it when it is available, lock it), to a staged rotation and to the key of an ACTIVE
slot; every action is shown once to be such a step. On it
rest `LockInv` (a key under lockout is not indexed and its reservation lasts at least to `lockedUntil`) and `RotationInv` (a staged rotation is due at the height promised when it was requested). Both need that the sum of height and delay does not wrap
around, which is a hypothesis of the theorems (`LockoutFits`, `DelayFits`) and not an
assumption of the model: the run `coreslot_overflow` checks an instance without it and finds the
lockout broken. `PolicyInv` says that the rows of a slot chain (each ends where the next begins, the
seek index holds exactly the starts), from which the greatest start at or below a height names the
one row in force.

**Rewards.** `RewardsInv` adds to the types and the two properties of the books: where the height is in
the epoch (`InItsEpoch`), that no counter passes the blocks begun and
that somebody is to be paid as soon as a block counted (`CountersAgree`), that a pause is due at the next
block (`PauseDue`), that a queued document has the economics and the fee share of
the one in force (`DocumentsAgree`), and that an epoch not yet closed
owes nothing (`RecordsFollow`). The close of an epoch is the hard step: the emission stays under the
cap (induction over the blocks of the epoch), the shares fit into the pool (`SharesFit`), the
entitlements of one epoch are a row in the table of all (`SumOfRow`), hence escrow equals
liability again, and every check in `finalizeEpoch` passes.

**Mining.** Every step of the composition is a step of `Rewards` or leaves it alone, so
`RewardsInv` carries over. `MiningInv` adds that the cursor follows the closed epochs, that up to the
cursor exactly the entitlements have settlements, that chunks released at
least their floor (so their number advances with the money) and that the unpaused blocks counted by a
history variable are the difference of clock and anchor.

**Histories.** `HistoriesInv`: the geometry rows cover the epochs up to the current one and the
height lies in it; each family is numbered without gaps and indexed but for lost
entries, with at most one change pending for a later boundary; every archive has the span and the
versions the history still derives. `BoundariesNeverMove` compares two values of a recursive function over
different rows: `ProjectIn` is that function of geometry and schedule, `Walks` describes a
walk that adds the length of one epoch after the other; the projection is shown to be where that walk
ends, and two walks agree up to the first epoch whose lengths differ.

**Upgrades.** `UpgradesInv` says that there is one sequence of states, each obtained from the one before
by the release that state calls for (`RunRelease`), and that every node is somewhere on it with a binary its
plan explains; `UncommittedInv` that a block which waits for its commit is the next one of a running node
whose binary the pre-blocker admitted. `OneReleaseExecutes` is the core: of the binaries a node may have, the pre-blocker
lets one only execute the block.

**Emission.** `EmissionInv` says that the amount reached is what all blocks so far emit in one run from the
start, whatever the epochs (`EmissionAdditive`). That this is tier-by-tier emission is shown for any number of
blocks: tier u begins at `max - max \div 2^u`, so an amount in it has passed exactly the thresholds
`HalvingTier` counts, the next one is where tier u + 1 begins, and halving u times is dividing by 2^u
(`TierIsCounted`, `HalvedIsRate`). Hence a block of the tier pays its rate or the rest of the tier
(`SubsidyInTier`), a tier takes as many blocks as its room divided by its rate, rounded up
(`TierToItsEnd`), and `FillTier` moves along the emission of the blocks (`FillTierStep`). Its invariant
`Filled` has three cases, for a tier may be passed, the blocks may be used up, or the rate may have come
down to zero before the cap.

**Selection.** `SelectionInv` keeps what the checks of the commitment establish, `WindowInv` that the observed
blocks are in the window and in order, which `FilterBeaconEntries` demands. `CountIsPromised` shows
that splitting the division (count.go), which avoids the product of candidates and rate, is
exact. `OwnBlocksNeverCount` compares two recursive functions: leaving own blocks out before the filter, or changing
them, leaves its result and the order of heights as they are (`OwnLeaveNoEntry`, `OwnKeepOrder`).
`DrawIsAlwaysExact` rests on the entries being as many as the external blocks and from the same proposers
(`FilterCounts`), on `CompareCandidates` being a total order, and on an insertion keeping a list ranked
and losing, adding or repeating nobody (`InsertKeepsRank`), so that each of the first k beats whoever is not
listed up to it. Its hypothesis `TicketsAreNumbers` says of the abstract tickets what
`ranking.go:36` says of the 32-byte ones; it quantifies over all hashes, so it is a hypothesis of the theorem and
not an `ASSUME` for TLC to evaluate.

**Induction.** The induction theorems of the library take an operator, which no backend can
instantiate. `ArithmeticTheorems` states induction for a *set* (a set of naturals has a least element; a set of
subsets closed under adding an element has every finite one), and derives from it that a recursive function has
the value of its recursion (`RecursionExists`, `LinearRecursionExists`) and the laws of sums.

Only model-checked: `RotationSettles` and `BlocksGetExecuted`, which need fairness, and `AnyoneCanFinalize`,
which is about ENABLED. Every other invariant and action property of the passing runs is proved.

## Not modelled, and why

`PROJECT.json` gives the reason for each part. In short:

- Two thirds of the Go lines are generated from the `.proto` files: encoding and
  client stubs, without logic of this program. The handwritten code is about 26,000
  lines; what is left of it after the modelled files is the next item.
- Queries, events, telemetry, command line, test-vector generators, ledgers of
  errors and payouts, dashboard and other tools do not change consensus state.
- Export writes the stores out and changes nothing; no genesis but a fresh one is
  admitted, so there is no import of an exported chain to model.
- A genesis document may list reserved consensus addresses
  (`x/coreslot/keeper/genesis.go:82`); `Init` starts without any, so reservations in
  the model are the ones removals and applied rotations make.
- The store loader of `app/upgrades.go`: no released upgrade adds, renames or
  deletes a store.
- The economic address rule and checked arithmetic appear as a constant and as
  guards; encodings of hash inputs appear as tuples.
- A node that changes its binary while no plan is pending: nothing in the chain
  prevents or notices it (`app/upgrades.go:138`), so there is nothing to check.
- The flag with which a node skips upgrade heights: it belongs to the server of the SDK,
  no code of this repository reads it, and an operator who sets it leaves the procedure.

## Plan

1. Done: the registry, its proofs, the refinement of the directory, emission,
   rewards with user transfers, mining, their composition, the configuration
   histories, the selection draw, upgrades.
2. Done: proofs of the safety and step properties of all of these.
3. Later: a message for the selection library, once the repository has one, in place of the
   external steps of `Selection`; an import of exported state, once genesis admits one.
