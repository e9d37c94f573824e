----------------------------- MODULE MCEmission -----------------------------
(***************************************************************************)
(* The emission schedule over all small caps, subsidies and splits of the  *)
(* blocks into epochs, against a definition that goes tier by tier rather  *)
(* than block by block.                                                    *)
(***************************************************************************)
EXTENDS Emission

CONSTANTS
  Caps,         \* values of max_supply
  Subsidies,    \* values of initial_block_subsidy
  EpochBlocks,  \* reward-enabled blocks an epoch may count
  MaxBlocks     \* bound of the model: blocks emitted altogether

ASSUME EmissionAssumption ==
  /\ Caps \subseteq Nat \ {0}
  /\ Subsidies \subseteq Nat
  /\ EpochBlocks \subseteq Nat
  /\ MaxBlocks \in Nat

VARIABLES max, initial, start, cumulative, blocks

vars == <<max, initial, start, cumulative, blocks>>

Init ==
  /\ max \in Caps
  /\ initial \in Subsidies
  /\ start \in 0 .. max
  /\ cumulative = start
  /\ blocks = 0

\* An epoch closes having counted n reward-enabled blocks.
CloseEpoch(n) ==
  /\ blocks + n <= MaxBlocks
  /\ blocks' = blocks + n
  /\ cumulative' = CumulativeAfter(cumulative, n, max, initial)
  /\ UNCHANGED <<max, initial, start>>

Next == \E n \in EpochBlocks : CloseEpoch(n)

Spec == Init /\ [][Next]_vars

-----------------------------------------------------------------------------
\* The start of tier t and the rate paid in it.
PowerOfTwo(t) ==
  LET power[i \in 0 .. t] == IF i = 0 THEN 1 ELSE 2 * power[i - 1]
  IN power[t]
TierStart(t) == max - max \div PowerOfTwo(t)
TierRate(t) == initial \div PowerOfTwo(t)
CeilDiv(a, b) == (a + b - 1) \div b

\* What is left of n blocks, and the amount reached, when tier t is done: its blocks
\* pay its rate, the last of them what is left up to the next tier.
FillTier(t, p) ==
  LET room == TierStart(t + 1) - p.amount
      need == CeilDiv(room, TierRate(t))
  IN IF room <= 0 \/ TierRate(t) = 0 THEN p
     ELSE IF p.left < need THEN [amount |-> p.amount + p.left * TierRate(t), left |-> 0]
     ELSE [amount |-> TierStart(t + 1), left |-> p.left - need]

\* n blocks starting at amount c.  The cap is reached in tier max at the latest.
InTiers(c, n) ==
  LET filled[t \in 0 .. max] ==
        IF t = 0 THEN [amount |-> c, left |-> n] ELSE FillTier(t - 1, filled[t - 1])
  IN filled[max].amount

\* What has been emitted depends on the reward-enabled blocks alone, not on how
\* they were split into epochs, and is what filling the tiers in order gives:
\* no unit is paid at the rate of another tier, and none past the cap
\* (ComputeEpochEmission).
EmissionFillsTiers == cumulative = InTiers(start, blocks)

=============================================================================
