------------------------------ MODULE Emission ------------------------------
(***************************************************************************)
(* x/rewards/keeper/emission.go: the subsidy of a block as a function of   *)
(* what was emitted before it, and the emission of an epoch.               *)
(*                                                                         *)
(* The arguments are those the Go functions accept: validateSupply and     *)
(* validateEmissionInputs admit 0 <= cumulative <= max, 0 < max and        *)
(* 0 <= initial, and the callers pass nothing else.                        *)
(***************************************************************************)
EXTENDS Naturals

Least(a, b) == IF a < b THEN a ELSE b

\* The loop over max/2, max/4, ...: one tier per threshold already reached.
HalvingTier(cumulative, max) ==
  LET tier[remaining \in 0 .. max] ==
        IF remaining = 0 \/ cumulative < max - remaining THEN 0
        ELSE 1 + tier[remaining \div 2]
  IN tier[max \div 2]

\* The first threshold above cumulative; the cap itself after the last one.
NextHalvingThreshold(cumulative, max) ==
  LET next[remaining \in 0 .. max] ==
        IF remaining = 0 THEN max
        ELSE IF cumulative < max - remaining THEN max - remaining
        ELSE next[remaining \div 2]
  IN next[max \div 2]

\* The subsidy halved tier times, rounding down at every halving.
HalvedSubsidy(initial, tier) ==
  LET halved[i \in 0 .. tier] == IF i = 0 THEN initial ELSE halved[i - 1] \div 2
  IN halved[tier]

NextBlockSubsidy_ThresholdIgnored(cumulative, max, initial) ==
  IF cumulative = max \/ initial = 0 THEN 0
  ELSE Least(HalvedSubsidy(initial, HalvingTier(cumulative, max)), max - cumulative)
\* A block never takes more than what is left up to the next threshold.
NextBlockSubsidy(cumulative, max, initial) ==
  IF cumulative = max \/ initial = 0 THEN 0
  ELSE Least(HalvedSubsidy(initial, HalvingTier(cumulative, max)),
             Least(max - cumulative, NextHalvingThreshold(cumulative, max) - cumulative))

\* ComputeEpochEmission: cumulative emission after the given number of blocks.
CumulativeAfter(cumulative, blocks, max, initial) ==
  LET after[i \in 0 .. blocks] ==
        IF i = 0 THEN cumulative
        ELSE after[i - 1] + NextBlockSubsidy(after[i - 1], max, initial)
  IN after[blocks]

=============================================================================
