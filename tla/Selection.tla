------------------------------ MODULE Selection ------------------------------
(***************************************************************************)
(* x/mining/types/selectionv1: which candidates of a slot are selected for *)
(* an epoch N, drawn with the hashes of blocks of epoch N-1.               *)
(*                                                                         *)
(* The operators are the library.  No message calls it yet, so the state   *)
(* machine around it is external: one Selection of slot TargetSlot that is *)
(* committed while epoch N-1 runs, under parameters chosen beforehand.     *)
(*                                                                         *)
(* A digest is its preimage, which takes SHA-256 to be injective; only the *)
(* order of the tickets matters, and it is a parameter.  Draw IDs are      *)
(* numbers in byte order.                                                  *)
(***************************************************************************)
EXTENDS Integers, Sequences, FiniteSets, FiniteSetsExt, Functions, SequencesExt

CONSTANTS
  Slots, TargetSlot,
  NoSlot,                  \* proposer that no slot can be found for
  BlockHashes,
  CandidateLists,          \* lists a coordinator may commit to
  TicketHash(_, _),        \* ticket of a draw ID under a beacon hash
  EpochStarts,             \* starts of epoch N-1 and of epoch N
  BeaconParams,            \* offset, window and the two thresholds
  Limits,                  \* rate and maxima that bound the count
  BasisPointsDenominator,
  AbsoluteMaxSelectionRateBps,
  MaxUint64

ASSUME SelectionAssumption ==
  /\ TargetSlot \in Slots /\ NoSlot \notin Slots
  /\ {BasisPointsDenominator, AbsoluteMaxSelectionRateBps, MaxUint64} \subseteq Nat \ {0}
  \* heights begin at 1, and the last one of epoch N-1 is a uint64
  /\ EpochStarts \subseteq [start : Nat \ {0}, next : Nat]
  /\ \A e \in EpochStarts : e.next - 1 <= MaxUint64
  /\ BeaconParams \subseteq [offset : Nat, window : Nat, minBlocks : Nat, minProposers : Nat]
  /\ Limits \subseteq [rate : Nat, slotMax : Nat, protocolMax : Nat]
  /\ \A ids \in CandidateLists : ids \in Seq(Nat)

-----------------------------------------------------------------------------
(* Parameters, the window and the heights.                                 *)

\* ValidateBeaconParams
ValidBeaconParams(p) ==
  /\ p.offset > 0
  /\ p.window > 0
  /\ p.minBlocks \in 1 .. p.window
  /\ p.minProposers \in 1 .. p.minBlocks

\* DeriveBeaconWindow, with its checked sums
BeaconStart(start, p) == start + p.offset
BeaconEnd(start, p) == BeaconStart(start, p) + p.window - 1
BeaconWindowDerivable(start, p) ==
  p.window > 0 /\ BeaconStart(start, p) <= MaxUint64 /\ BeaconEnd(start, p) <= MaxUint64

\* ValidateCommitmentHeight
CommitmentHeightOK(height, start, beaconStart) == start <= height /\ height < beaconStart

BeaconWindowFits_WholeEpoch(end, next) == next >= 1 /\ end <= next - 1
\* ValidateBeaconWindowFits: a block of epoch N-1 is left after the window.
BeaconWindowFits(end, next) == next >= 2 /\ end <= next - 2

\* ValidateResultPublicationHeight
PublicationHeightOK(height, start, next, count, end) ==
  /\ start <= height /\ height < next
  /\ count >= 2 => end + 1 <= MaxUint64 /\ height >= end + 1

-----------------------------------------------------------------------------
(* The draw.                                                               *)

\* ValidateCanonicalDrawIDs
Canonical(ids) == \A i \in 2 .. Len(ids) : ids[i - 1] < ids[i]

\* FilterBeaconEntries refuses an observed window with heights out of range or
\* out of order ...
ObservedOK(observed, first, last) ==
  /\ \A i \in DOMAIN observed : observed[i].height \in first .. last
  /\ \A i \in 2 .. Len(observed) : observed[i - 1].height < observed[i].height

FilterBeaconEntries_OwnKept(slot, observed) == observed
\* ... and leaves out the blocks of the target slot.
FilterBeaconEntries(slot, observed) ==
  LET entries[i \in 0 .. Len(observed)] ==
        IF i = 0 THEN <<>>
        ELSE IF observed[i].proposer = slot THEN entries[i - 1]
        ELSE Append(entries[i - 1], observed[i])
  IN entries[Len(observed)]

\* ComputeBeaconStats and Satisfied
BeaconValid(entries, p) ==
  /\ Len(entries) >= p.minBlocks
  /\ Cardinality({entries[i].proposer : i \in DOMAIN entries}) >= p.minProposers

\* ComputeCandidateSetHash and ComputeBeaconHash: the preimages
CandidateSetHash(slot, ids) == <<slot, ids>>
BeaconHash(slot, ids, first, last, entries) ==
  <<slot, CandidateSetHash(slot, ids), first, last, entries>>

\* CompareCandidates: by ticket, then by draw ID
CompareCandidates(hash, a, b) ==
  \/ TicketHash(hash, a) < TicketHash(hash, b)
  \/ TicketHash(hash, a) = TicketHash(hash, b) /\ a < b

\* slices.SortStableFunc, as a stable insertion: each candidate goes behind the
\* last of those before it that it does not precede.
Insert(hash, ranked, id) ==
  LET behind == Max({0} \cup {j \in DOMAIN ranked : ~ CompareCandidates(hash, id, ranked[j])})
  IN InsertAt(ranked, behind + 1, id)

\* RankCandidates, over tickets computed for every candidate
RankCandidates(hash, ids) ==
  LET ranked[i \in 0 .. Len(ids)] ==
        IF i = 0 THEN <<>> ELSE Insert(hash, ranked[i - 1], ids[i])
  IN ranked[Len(ids)]

LimitsOK(l) ==
  l.rate \in 1 .. AbsoluteMaxSelectionRateBps /\ l.slotMax > 0 /\ l.protocolMax > 0

SelectedCount_QuotientDropped(n, l) ==
  LET rateK == ((n % BasisPointsDenominator) * l.rate) \div BasisPointsDenominator
  IN Min({Max({1, rateK}), l.slotMax, l.protocolMax, n \div 2})
\* SelectedCount for two candidates or more
SelectedCount(n, l) ==
  LET rateK == (n \div BasisPointsDenominator) * l.rate
                 + ((n % BasisPointsDenominator) * l.rate) \div BasisPointsDenominator
  IN Min({Max({1, rateK}), l.slotMax, l.protocolMax, n \div 2})

Outcome(name, entries, selected) == [outcome |-> name, entries |-> entries, selected |-> selected]
Malformed == Outcome("MALFORMED", <<>>, <<>>)

\* Evaluate and SelectFirstK
Evaluate(slot, ids, start, p, observed, l) ==
  LET first == BeaconStart(start, p)
      last == BeaconEnd(start, p)
      entries == FilterBeaconEntries(slot, observed)
      hash == BeaconHash(slot, ids, first, last, entries)
      k == SelectedCount(Len(ids), l)
  IN CASE ~ Canonical(ids) -> Malformed
       [] ids = <<>> -> Outcome("NO_CANDIDATES", <<>>, <<>>)
       [] Canonical(ids) /\ Len(ids) = 1 -> Outcome("SUCCESS", <<>>, ids)
       [] OTHER ->
            IF ~ ValidBeaconParams(p) \/ ~ BeaconWindowDerivable(start, p)
                 \/ ~ ObservedOK(observed, first, last)
            THEN Malformed
            ELSE IF ~ BeaconValid(entries, p) THEN Outcome("NO_VALID_BEACON", entries, <<>>)
            ELSE IF ~ LimitsOK(l) THEN Malformed
            ELSE Outcome("SUCCESS", entries, SubSeq(RankCandidates(hash, ids), 1, k))

\* ValidateSelectedList and VerifySelectedDrawIDs, of a published list
SelectedListOK(declared, selected) == declared = Len(selected) /\ IsInjective(selected)
ResultVerified(derived, published) ==
  SelectedListOK(Len(published), published) /\ derived.selected = published

-----------------------------------------------------------------------------
(* One Selection while epoch N-1 runs.                                     *)

VARIABLES
  rules,       \* epoch starts, beacon parameters and limits of the Selection
  height,      \* block being executed
  observed,    \* blocks of the window so far whose proposer has a slot
  candidates,  \* list committed to
  committed,   \* height of the commitment, 0 before it
  published    \* height of the result, 0 before it

selectionVars == <<rules, height, observed, candidates, committed, published>>

SelectionInit ==
  /\ rules \in [epochs : EpochStarts, beacon : BeaconParams, limits : Limits]
  /\ height = rules.epochs.start
  /\ observed = <<>>
  /\ candidates = <<>>
  /\ committed = 0
  /\ published = 0

WindowFirst == BeaconStart(rules.epochs.start, rules.beacon)
WindowLast == BeaconEnd(rules.epochs.start, rules.beacon)
Result(window) ==
  Evaluate(TargetSlot, candidates, rules.epochs.start, rules.beacon, window, rules.limits)

Commit(ids) ==
  /\ committed = 0
  /\ Canonical(ids)
  /\ ValidBeaconParams(rules.beacon)
  /\ LimitsOK(rules.limits)
  /\ BeaconWindowDerivable(rules.epochs.start, rules.beacon)
  /\ CommitmentHeightOK(height, rules.epochs.start, WindowFirst)
  /\ BeaconWindowFits(WindowLast, rules.epochs.next)
  /\ candidates' = ids
  /\ committed' = height
  /\ UNCHANGED <<rules, height, observed, published>>

\* Anyone can verify a published list; one that does not verify is no result.
Publish(selected) ==
  /\ committed # 0 /\ published = 0
  /\ PublicationHeightOK(height, rules.epochs.start, rules.epochs.next, Len(candidates), WindowLast)
  /\ ResultVerified(Result(observed), selected)
  /\ published' = height
  /\ UNCHANGED <<rules, height, observed, candidates, committed>>

\* The block gets its hash and the next one starts; a block of the window whose
\* proposer no slot is found for is not observed.
NextBlock(proposer, hash) ==
  /\ height < rules.epochs.next
  /\ height' = height + 1
  /\ observed' = IF height \in WindowFirst .. WindowLast /\ proposer # NoSlot
                 THEN Append(observed, [height |-> height, proposer |-> proposer, hash |-> hash])
                 ELSE observed
  /\ UNCHANGED <<rules, candidates, committed, published>>

SelectionNext ==
  \/ \E ids \in CandidateLists : Commit(ids)
  \/ \E selected \in CandidateLists \cup {Result(observed).selected} : Publish(selected)
  \/ \E proposer \in Slots \cup {NoSlot}, hash \in BlockHashes : NextBlock(proposer, hash)

SelectionSpec == SelectionInit /\ [][SelectionNext]_selectionVars

-----------------------------------------------------------------------------
(* Properties.                                                             *)

\* The window without the blocks at the positions in missed.
Skipping(w, missed) ==
  LET kept[i \in 0 .. Len(w)] ==
        IF i = 0 THEN <<>>
        ELSE IF i \in missed THEN kept[i - 1]
        ELSE Append(kept[i - 1], w[i])
  IN kept[Len(w)]

\* Windows that differ from w in the target slot's own blocks only: some have
\* another hash, and some are not observed at all.
OwnVariations(w) ==
  LET own == {i \in DOMAIN w : w[i].proposer = TargetSlot}
      Rehashed(f) == [i \in DOMAIN w |-> IF i \in own THEN [w[i] EXCEPT !.hash = f[i]] ELSE w[i]]
  IN {Skipping(Rehashed(f), missed) : f \in [own -> BlockHashes], missed \in SUBSET own}

\* A slot cannot influence its own draw with the blocks it proposes, neither
\* by their contents nor by having them missed, in any combination
\* (FilterBeaconEntries).
OwnBlocksDoNotCount ==
  committed # 0 => \A w \in OwnVariations(observed) : Result(w) = Result(observed)

\* The number the protocol promises: the rate's share of the candidates rounded
\* down, at least one, never more than the maxima or half of the candidates.
PromisedCount(n, l) ==
  CHOOSE k \in 1 .. n :
    LET share == (n * l.rate) \div BasisPointsDenominator
        caps == {l.slotMax, l.protocolMax, n \div 2}
    IN /\ \A c \in caps : k <= c
       /\ k \in caps \cup {share, 1}
       /\ k <= Max({share, 1})
       /\ k < Max({share, 1}) => k \in caps

\* The draw is what its definition promises and depends on nothing else: with
\* enough external blocks of enough proposers, the promised number of candidates,
\* none of them twice, each of which beats every candidate left out and those
\* listed after it.
DrawIsExact ==
  committed # 0 /\ Len(candidates) >= 2 =>
    LET r == Result(observed)
        external == {i \in DOMAIN observed : observed[i].proposer # TargetSlot}
        enough == /\ Cardinality(external) >= rules.beacon.minBlocks
                  /\ Cardinality({observed[i].proposer : i \in external})
                       >= rules.beacon.minProposers
        hash == BeaconHash(TargetSlot, candidates, WindowFirst, WindowLast, r.entries)
        Beats(a, b) == /\ TicketHash(hash, a) <= TicketHash(hash, b)
                       /\ TicketHash(hash, a) = TicketHash(hash, b) => a < b
    IN IF enough
       THEN /\ r.outcome = "SUCCESS"
            /\ Len(r.selected) = PromisedCount(Len(candidates), rules.limits)
            /\ IsInjective(r.selected) /\ ToSet(r.selected) \subseteq ToSet(candidates)
            /\ \A i \in DOMAIN r.selected :
                 \A c \in ToSet(candidates) \ {r.selected[j] : j \in 1 .. i} :
                   Beats(r.selected[i], c)
       ELSE r.outcome = "NO_VALID_BEACON" /\ r.selected = <<>>

\* Candidates come before randomness and the result after it: no block of
\* the window has its hash when the commitment lands, all of them have it
\* when a drawn result does, and a committed Selection always has a block left
\* in which its result can be published.
CandidatesBeforeRandomness ==
  committed # 0 =>
    /\ committed < WindowFirst
    /\ published # 0 /\ Len(candidates) >= 2 => published > WindowLast
    /\ \E h \in committed .. (rules.epochs.next - 1) :
         h > WindowLast /\ PublicationHeightOK(h, rules.epochs.start, rules.epochs.next,
                                         Len(candidates), WindowLast)
=============================================================================
