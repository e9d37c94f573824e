----------------------------- MODULE Histories -----------------------------
(***************************************************************************)
(* The versioned configuration histories: the epoch geometry and the       *)
(* reward configuration of x/rewards, the distribution mode, selection     *)
(* and settlement parameters of x/mining.                                  *)
(*                                                                         *)
(* A change is scheduled for an epoch and becomes an immutable version at  *)
(* the boundary: the geometry when the epoch opens, the others when the    *)
(* epoch before it closes.  A target epoch N is paid under the versions    *)
(* effective at N - 2.                                                     *)
(*                                                                         *)
(* No message schedules a change yet; the Schedule actions stand for the   *)
(* writer the schedules are kept for and obey the keys its readers admit.  *)
(* Heights and versions are far below 2^64.                                *)
(***************************************************************************)
EXTENDS Integers, FiniteSets, FiniteSetsExt, Functions

CONSTANTS
  Lengths,           \* epoch lengths ValidateEpochLengthBlocks admits
  GenesisLength,
  Values,            \* values a change of each family may carry
  GenesisValue,      \* value of version 1 of each family
  ProjectionHorizon, \* epochProjectionHorizon
  MaxHeight,         \* bound of the model: the last block
  MaxWrites,         \* bound of the model: schedule entries written
  MaxAhead,          \* bound of the model: epochs a change is scheduled ahead
  MaxLost            \* bound of the model: index entries storage may lose

Families == {"reward", "mode", "selection", "settlement"}
MiningFamilies == Families \ {"reward"}
Trusted == "TRUSTED_AS_DISTRIBUTION"
ProtocolSelection == "PROTOCOL_SELECTION"

ASSUME HistoriesAssumption ==
  /\ Lengths \subseteq Nat \ {0}
  /\ GenesisLength \in Lengths
  /\ Values.mode \subseteq {Trusted, ProtocolSelection}
  /\ GenesisValue.mode = Trusted
  /\ \A f \in Families : GenesisValue[f] \in Values[f]
  /\ Values.settlement \subseteq Nat \ {0}  \* settlement_window_epochs
  /\ {ProjectionHorizon, MaxHeight, MaxWrites, MaxAhead, MaxLost} \subseteq Nat

VARIABLES
  height,
  phase,         \* "begin", "deliver": what the block does next
  halted,        \* a hook returned an error
  epoch,         \* State.CurrentEpoch
  epochStart,    \* State.CurrentEpochStartHeight
  geometry,      \* EpochConfigVersions, by effective epoch
  lengths,       \* ScheduledEpochConfigs: epoch length, by effective epoch
  mirror,        \* CurrentEpochConfig.EpochLengthBlocks
  versions,      \* the other histories, by family and effective epoch
  index,         \* their version indexes: version number to effective epoch
  scheduled,     \* their schedules: value, by effective epoch
  finalized,     \* FinalizedEpochs: what the close of an epoch archives
  stamps,        \* versions the settlements of an epoch carry, with their window
  writes,        \* bound: schedule entries written so far
  lost           \* index entries storage lost, as pairs of family and version

chainVars == <<height, phase, halted, epoch, epochStart>>
geometryVars == <<geometry, lengths, mirror>>
familyVars == <<versions, index, scheduled>>
recordVars == <<finalized, stamps>>
vars == <<chainVars, geometryVars, familyVars, recordVars, writes, lost>>

With(f, k, v) == [x \in DOMAIN f \cup {k} |-> IF x = k THEN v ELSE f[x]]
Without(f, k) == Restrict(f, DOMAIN f \ {k})

\* Epochs that can start by MaxHeight, and those a change may be scheduled for.
Epochs == 1 .. MaxHeight + MaxAhead

\* A fresh genesis: one open-ended version of each family, nothing scheduled.
HistoriesInit ==
  /\ height = 1 /\ phase = "begin" /\ halted = FALSE
  /\ epoch = 1 /\ epochStart = 1
  /\ geometry = [e \in {1} |-> [version |-> 1, start |-> 1, length |-> GenesisLength]]
  /\ lengths = [e \in {} |-> 0]
  /\ mirror = GenesisLength
  /\ versions = [f \in Families |->
       [e \in {1} |-> [version |-> 1, value |-> GenesisValue[f], until |-> 0]]]
  /\ index = [f \in Families |-> [v \in {1} |-> 1]]
  /\ scheduled = [f \in Families |-> [e \in {} |-> 0]]
  /\ finalized = [e \in {} |-> 0]
  /\ stamps = [e \in {} |-> 0]
  /\ writes = 0
  /\ lost = {}

-----------------------------------------------------------------------------
(* Resolution.                                                             *)

\* seekVersionKeyAtOrBefore; every history has a row at epoch 1.
KeyAtOrBefore(history, e) == Max({k \in DOMAIN history : k <= e})
LatestKey(history) == Max(DOMAIN history)

\* epochStartFrom, for the version effective at k
EpochStartFrom(k, e) == geometry[k].start + (e - k) * geometry[k].length
EpochStartHeight(e) == EpochStartFrom(KeyAtOrBefore(geometry, e), e)
EpochEndHeight(e) == EpochStartHeight(e + 1) - 1
EpochLengthForEpoch(e) == geometry[KeyAtOrBefore(geometry, e)].length

\* validateEpochConfigRecord and validateAdjacentHistoryEdge
GeometryRowOK(k) ==
  /\ geometry[k].length \in Lengths
  /\ LET before == {j \in DOMAIN geometry : j < k} IN
     before # {} => /\ geometry[Max(before)].version < geometry[k].version
                    /\ EpochStartFrom(Max(before), k) = geometry[k].start

BindingEpoch_Current(target) == target
\* bindingEpochForTarget: targets 1 and 2 bootstrap to the row of genesis.
BindingEpoch(target) == IF target <= 2 THEN 1 ELSE target - 2

RewardConfigForTarget(target) ==
  versions.reward[KeyAtOrBefore(versions.reward, BindingEpoch(target))]
DistributionModeForTarget(target) ==
  versions.mode[KeyAtOrBefore(versions.mode, BindingEpoch(target))]
SettlementParamsForTarget_Newest(target) == versions.settlement[LatestKey(versions.settlement)]
SettlementParamsForTarget(target) ==
  versions.settlement[KeyAtOrBefore(versions.settlement, BindingEpoch(target))]

\* Errors of the resolvers: the anchor, the adjacent edge, the covering interval.
AnchorOK(f) == 1 \in DOMAIN versions[f] /\ versions[f][1].version = 1
RewardEdgeOK(k) ==
  LET before == {j \in DOMAIN versions.reward : j < k} IN
  before # {} => versions.reward[k].version = versions.reward[Max(before)].version + 1
RewardResolves(target) ==
  AnchorOK("reward") /\ RewardEdgeOK(KeyAtOrBefore(versions.reward, BindingEpoch(target)))
ModeResolves(target) ==
  AnchorOK("mode") /\ DistributionModeForTarget(target).until \notin 1 .. BindingEpoch(target)

\* SettlementWindowBlocks
SettlementWindowBlocks(target) ==
  SettlementParamsForTarget(target).value * EpochLengthForEpoch(target)

-----------------------------------------------------------------------------
(* ProjectEpochStartHeight: the starts of future epochs, by walking the    *)
(* schedule on top of the history.                                         *)

Crossed(e) == {k \in DOMAIN lengths : KeyAtOrBefore(geometry, e) < k /\ k <= e}
Projects(e) == Cardinality(Crossed(e)) <= ProjectionHorizon

ProjectEpochStartHeight(e) ==
  LET base == KeyAtOrBefore(geometry, e)
      rows == {base} \cup Crossed(e)
      Length(k) == IF k = base THEN geometry[base].length ELSE lengths[k]
      Start[k \in rows] ==
        IF k = base THEN geometry[base].start
        ELSE LET j == Max({i \in rows : i < k}) IN Start[j] + (k - j) * Length(j)
      last == Max(rows)
  IN Start[last] + (e - last) * Length(last)

-----------------------------------------------------------------------------
(* BeginBlock: advanceEpochIfDue, which is where a scheduled length takes  *)
(* effect.                                                                 *)

\* verifyCurrentEpochAnchor
EpochAnchored == GeometryRowOK(KeyAtOrBefore(geometry, epoch)) /\ EpochStartHeight(epoch) = epochStart

\* appendEpochConfigVersion, for the epoch that opens at this height
AppendOK(next) ==
  LET latest == LatestKey(geometry) IN
  /\ GeometryRowOK(latest)
  /\ lengths[next] \in Lengths
  /\ next > latest
  /\ EpochStartFrom(latest, next) = height

EpochConfigVersion(next) ==
  [version |-> geometry[LatestKey(geometry)].version + 1, start |-> height,
   length |-> lengths[next]]

ConsumeScheduledEpochConfig_MirrorStale(next) ==
  \/ /\ next \in DOMAIN lengths
     /\ geometry' = With(geometry, next, EpochConfigVersion(next))
     /\ lengths' = Without(lengths, next)
     /\ UNCHANGED mirror
  \/ next \notin DOMAIN lengths /\ UNCHANGED geometryVars
\* consumeScheduledEpochConfig and syncEpochConfigMirror
ConsumeScheduledEpochConfig(next) ==
  \/ /\ next \in DOMAIN lengths
     /\ geometry' = With(geometry, next, EpochConfigVersion(next))
     /\ lengths' = Without(lengths, next)
     /\ mirror' = lengths[next]
  \/ next \notin DOMAIN lengths /\ UNCHANGED geometryVars

OpenEpoch(next) ==
  /\ ConsumeScheduledEpochConfig(next)
  /\ epoch' = next
  /\ epochStart' = height

BeginBlockOK(next) ==
  /\ EpochAnchored
  /\ height <= EpochStartHeight(next)
  /\ height = EpochStartHeight(next) /\ next \in DOMAIN lengths => AppendOK(next)

BeginBlock ==
  /\ ~ halted /\ phase = "begin"
  /\ LET next == epoch + 1 IN
     IF BeginBlockOK(next)
     THEN /\ \/ height = EpochStartHeight(next) /\ OpenEpoch(next)
             \/ height < EpochStartHeight(next) /\ UNCHANGED <<epoch, epochStart, geometryVars>>
          /\ phase' = "deliver"
          /\ UNCHANGED halted
     ELSE halted' = TRUE /\ UNCHANGED <<phase, epoch, epochStart, geometryVars>>
  /\ UNCHANGED <<height, familyVars, recordVars, writes, lost>>

-----------------------------------------------------------------------------
(* Promotion at the close of an epoch: the change scheduled for the epoch  *)
(* that follows becomes a version.                                         *)

\* assertSingleScheduledRewardConfig: the only admissible key is the next epoch.
RewardScheduleOK(next) == DOMAIN scheduled.reward \subseteq {next}
MiningScheduleOK_DueNow(f, next) == DOMAIN scheduled[f] \subseteq {next}
\* scheduledEntryFor: one pending change, due now or at a later boundary.
MiningScheduleOK(f, next) ==
  Cardinality(DOMAIN scheduled[f]) <= 1 /\ \A k \in DOMAIN scheduled[f] : k >= next

Due(f, next) == next \in DOMAIN scheduled[f]
LatestVersion(f) == versions[f][LatestKey(versions[f])]

\* appendRewardConfigVersion, the checks of the three promotions of x/mining, and
\* setVersionIndexEntry
PromotionOK(f, next) ==
  Due(f, next) =>
    /\ next > LatestKey(versions[f])
    /\ f = "reward" => RewardEdgeOK(LatestKey(versions[f]))
    /\ f = "mode" => LatestVersion(f).until = 0
    /\ LatestVersion(f).version + 1 \notin DOMAIN index[f]

Successor(f, next) ==
  [version |-> LatestVersion(f).version + 1, value |-> scheduled[f][next], until |-> 0]

\* The one change a row of the mode history ever sees: its interval is closed.
ClosedPredecessor(next) == [versions.mode EXCEPT ![LatestKey(versions.mode)].until = next]

PromoteScheduledRewardConfig(next) == With(versions.reward, next, Successor("reward", next))
PromoteScheduledDistributionMode(next) ==
  With(ClosedPredecessor(next), next, Successor("mode", next))
PromoteScheduledSelectionParams(next) ==
  With(versions.selection, next, Successor("selection", next))
PromoteScheduledSettlementParams(next) ==
  With(versions.settlement, next, Successor("settlement", next))

Promoted(f, next) ==
  CASE f = "reward" -> PromoteScheduledRewardConfig(next)
    [] f = "mode" -> PromoteScheduledDistributionMode(next)
    [] f = "selection" -> PromoteScheduledSelectionParams(next)
    [] f = "settlement" -> PromoteScheduledSettlementParams(next)

\* setVersionIndexEntry and setRewardConfigVersionIndex
IndexedVersion(f, next) == With(index[f], LatestVersion(f).version + 1, next)

PromoteScheduled(next) ==
  /\ versions' = [f \in Families |-> IF Due(f, next) THEN Promoted(f, next) ELSE versions[f]]
  /\ index' = [f \in Families |-> IF Due(f, next) THEN IndexedVersion(f, next) ELSE index[f]]
  /\ scheduled' = [f \in Families |->
       IF Due(f, next) THEN Without(scheduled[f], next) ELSE scheduled[f]]

-----------------------------------------------------------------------------
(* EndBlock of x/rewards and of x/mining, in this order.                   *)

\* finalizeEpoch as far as the histories go; the snapshot for the next epoch is
\* rebuilt with the length of the epoch that closes (buildEpochConfigSnapshot).
FinalizeEpoch ==
  /\ finalized' = With(finalized, epoch,
       [start |-> epochStart, end |-> EpochEndHeight(epoch), length |-> mirror,
        reward |-> RewardConfigForTarget(epoch).version])
  /\ mirror' = EpochLengthForEpoch(epoch)

\* materializeFinalizedEpoch, when the epoch has entitlements
MaterializeFinalizedEpoch ==
  stamps' = With(stamps, epoch,
    [mode |-> DistributionModeForTarget(epoch).version,
     settlement |-> SettlementParamsForTarget(epoch).version,
     window |-> SettlementWindowBlocks(epoch)])

\* resolveSettlementMode: protocol selection has no producer.
MaterializeOK ==
  /\ ModeResolves(epoch)
  /\ AnchorOK("settlement")
  /\ DistributionModeForTarget(epoch).value = Trusted

CloseOK(entitled) ==
  LET next == epoch + 1 IN
  /\ RewardResolves(epoch)
  /\ RewardScheduleOK(next)
  /\ entitled => MaterializeOK
  /\ \A f \in MiningFamilies : MiningScheduleOK(f, next)
  /\ \A f \in Families : PromotionOK(f, next)

CloseEpoch(entitled) ==
  /\ FinalizeEpoch
  /\ \/ entitled /\ MaterializeFinalizedEpoch
     \/ ~ entitled /\ UNCHANGED stamps
  /\ PromoteScheduled(epoch + 1)

\* ShouldFinalizeAtHeight: the boundary is one block.
EndBlockOK(entitled) ==
  /\ EpochAnchored
  /\ height <= EpochEndHeight(epoch)
  /\ height = EpochEndHeight(epoch) => CloseOK(entitled)

EndBlock(entitled) ==
  /\ ~ halted /\ phase = "deliver" /\ height < MaxHeight
  /\ IF EndBlockOK(entitled)
     THEN /\ \/ height = EpochEndHeight(epoch) /\ CloseEpoch(entitled)
             \/ height < EpochEndHeight(epoch) /\ UNCHANGED <<mirror, familyVars, recordVars>>
          /\ phase' = "begin"
          /\ height' = height + 1
          /\ UNCHANGED halted
     ELSE halted' = TRUE /\ UNCHANGED <<height, phase, mirror, familyVars, recordVars>>
  /\ UNCHANGED <<epoch, epochStart, geometry, lengths, writes, lost>>

-----------------------------------------------------------------------------
(* The writers the schedules are for, and the storage fault the version    *)
(* lookup is written against.                                              *)

Writing == ~ halted /\ phase = "deliver" /\ writes < MaxWrites
Future == epoch + 1 .. epoch + MaxAhead

ScheduleEpochLength(e, length) ==
  /\ Writing
  /\ e \in Future
  /\ lengths' = With(lengths, e, length)
  /\ writes' = writes + 1
  /\ UNCHANGED <<chainVars, geometry, mirror, familyVars, recordVars, lost>>

ScheduleVersion(f, e, value) ==
  /\ Writing
  /\ e \in Future
  /\ f = "reward" => e = epoch + 1
  /\ DOMAIN scheduled[f] \subseteq {e}
  /\ scheduled' = [scheduled EXCEPT ![f] = With(@, e, value)]
  /\ writes' = writes + 1
  /\ UNCHANGED <<chainVars, geometryVars, versions, index, recordVars, lost>>

LoseIndexEntry(f, v) ==
  /\ ~ halted
  /\ Cardinality(lost) < MaxLost
  /\ v \in DOMAIN index[f]
  /\ index' = [index EXCEPT ![f] = Without(@, v)]
  /\ lost' = lost \cup {<<f, v>>}
  /\ UNCHANGED <<chainVars, geometryVars, versions, scheduled, recordVars, writes>>

HistoriesNext ==
  \/ BeginBlock
  \/ \E entitled \in BOOLEAN : EndBlock(entitled)
  \/ \E e \in Epochs, length \in Lengths : ScheduleEpochLength(e, length)
  \/ \E f \in Families : \E e \in Epochs, value \in Values[f] : ScheduleVersion(f, e, value)
  \/ \E f \in Families : \E v \in DOMAIN index[f] : LoseIndexEntry(f, v)

HistoriesSpec == HistoriesInit /\ [][HistoriesNext]_vars

-----------------------------------------------------------------------------
(* Lookup by version number.                                               *)

Absent == -1   \* NotFound
Corrupt == -2  \* Internal

\* proveVersionGap trusting the neighbours in the index
ProvenGap_IndexOnly(f, v) ==
  (\E w \in DOMAIN index[f] : w < v) /\ (\E w \in DOMAIN index[f] : w > v)
\* proveVersionGap: the rows of the indexed neighbours are next to each other.
ProvenGap(f, v) ==
  LET below == {w \in DOMAIN index[f] : w < v}
      above == {w \in DOMAIN index[f] : w > v}
      lower == index[f][Max(below)]
      upper == index[f][Min(above)]
  IN /\ below # {} /\ above # {}
     /\ versions[f][lower].version = Max(below)
     /\ versions[f][upper].version = Min(above)
     /\ {k \in DOMAIN versions[f] : lower < k /\ k < upper} = {}

\* resolveExactVersion of x/mining: where the row of a version is.
ResolveExactVersion(f, v) ==
  IF v > LatestVersion(f).version THEN Absent
  ELSE IF v \in DOMAIN index[f]
    THEN IF /\ index[f][v] \in DOMAIN versions[f]
            /\ versions[f][index[f][v]].version = v THEN index[f][v] ELSE Corrupt
  ELSE IF ProvenGap(f, v) THEN Absent
  ELSE Corrupt

\* RewardConfigVersionByNumber: versions are contiguous, so a number up to the
\* latest without an index entry is corruption.
RewardConfigVersionByNumber(v) ==
  IF v > LatestVersion("reward").version THEN Absent
  ELSE IF /\ v \in DOMAIN index.reward
          /\ index.reward[v] \in DOMAIN versions.reward
          /\ versions.reward[index.reward[v]].version = v
          /\ RewardEdgeOK(index.reward[v])
    THEN index.reward[v]
  ELSE Corrupt

Lookup(f, v) == IF f = "reward" THEN RewardConfigVersionByNumber(v) ELSE ResolveExactVersion(f, v)

-----------------------------------------------------------------------------
(* Properties.                                                             *)

\* Every block commits, whatever was scheduled and lost, except the one that
\* closes an epoch with entitlements bound to protocol selection two epochs
\* earlier: an accepted mode halts the chain that late (resolveSettlementMode).
HaltsOnlyForSelection ==
  halted => /\ phase = "deliver"
            /\ height = EpochEndHeight(epoch)
            /\ DistributionModeForTarget(epoch).value = ProtocolSelection

\* The archived epochs cover the heights without a gap or an overlap, each with
\* the length its record publishes, and the history still derives those spans
\* after every later change of the length (epochhistory.go, beginblock.go).
ArchivedSpansTile ==
  \A e \in DOMAIN finalized :
    LET r == finalized[e] IN
    /\ r.start = IF e = 1 THEN 1 ELSE finalized[e - 1].end + 1
    /\ r.end = r.start + r.length - 1
    /\ r.start = EpochStartHeight(e) /\ r.end = EpochEndHeight(e)

\* An entitlement and a settlement are readable only while their epoch still
\* binds the versions they were created under (entitlement.go,
\* settlementDeadlineFromAnchor): it always does, and the window is the same.
StampsHold ==
  /\ \A e \in DOMAIN finalized : finalized[e].reward = RewardConfigForTarget(e).version
  /\ \A e \in DOMAIN stamps :
       /\ stamps[e].mode = DistributionModeForTarget(e).version
       /\ stamps[e].settlement = SettlementParamsForTarget(e).version
       /\ stamps[e].window = SettlementWindowBlocks(e)

\* Every epoch is in the interval of exactly one distribution mode, and it is
\* the one the seek finds (mode.go).
ModeIntervalsTile ==
  \A e \in Epochs :
    {k \in DOMAIN versions.mode : k <= e /\ versions.mode[k].until \notin 1 .. e}
      = {KeyAtOrBefore(versions.mode, e)}

\* The two interval histories tile: epochs the heights, modes the epochs.
HistoriesTile == ArchivedSpansTile /\ ModeIntervalsTile

\* The lookup by number finds exactly what was assigned; when the index lost an
\* entry it may report corruption but never denies an existing version
\* (versionlookup.go, RewardConfigVersionByNumber).
LookupHonest ==
  \A f \in Families, v \in 1 .. MaxWrites + 2 :
    LET found == Lookup(f, v) IN
    /\ found > 0 => versions[f][found].version = v
    /\ found = Absent => \A k \in DOMAIN versions[f] : versions[f][k].version # v
    /\ found = Corrupt => <<f, v>> \in lost

\* From the opening of epoch N - 2 on, no step changes what target N is paid
\* under (RewardConfigForTarget, bindingEpochForTarget).
BindingsFixed ==
  \A t \in Epochs : epoch >= t - 2 =>
    /\ RewardConfigForTarget(t)' = RewardConfigForTarget(t)
    /\ DistributionModeForTarget(t).version' = DistributionModeForTarget(t).version
    /\ SettlementParamsForTarget(t)' = SettlementParamsForTarget(t)

\* No block moves a boundary the chain has published: a projected start changes
\* only when a length is scheduled for an earlier epoch, and the start of the
\* next epoch not even then (ProjectEpochStartHeight, advanceEpochIfDue).
BoundariesNeverMove ==
  \A e \in Epochs :
    Projects(e) /\ Projects(e)' /\ ProjectEpochStartHeight(e)' # ProjectEpochStartHeight(e)
      => /\ writes' > writes
         /\ e > epoch + 1
         /\ \E k \in DOMAIN lengths' : k < e /\ (k \in DOMAIN lengths => lengths[k] # lengths'[k])

\* Neither what an epoch is paid under nor where it begins is ever rewritten.
HistoryStable == [][BindingsFixed /\ BoundariesNeverMove]_vars

=============================================================================
