----------------------------- MODULE MCCoreSlot -----------------------------
(***************************************************************************)
(* Instances of CoreSlot for TLC.                                          *)
(***************************************************************************)
EXTENDS CoreSlot, TLC

CONSTANTS k1, k2, k3, a1, a2, mod, m1, m2, p1, p2

Doc(power, min, max, delay, lockout, below, cooldown) ==
  [slotVotingPower |-> power, minActiveSlots |-> min, maxActiveSlots |-> max,
   keyRotationDelay |-> delay, reuseLockout |-> lockout, belowMin |-> below,
   cooldown |-> cooldown]

\* Documents the authority submits: admissible ones that tighten and relax the
\* active-set window and the delay, one of them with more power than CometBFT takes
\* from two slots, and inadmissible ones that Params.Validate refuses.
OneDoc == {Doc(1, 1, 2, 1, 1, FALSE, 2)}
ParamDocs ==
  {Doc(1, 1, 2, 0, 0, FALSE, 2), Doc(1, 2, 2, 1, 2, TRUE, 2),
   Doc(2, 1, 2, 0, 0, FALSE, 2), Doc(1, 0, 2, 0, 0, FALSE, 2),
   Doc(16, 1, 2, 0, 0, FALSE, 2)}

\* A lockout above the top of int64, which Params.Validate does not refuse.
OverflowDocs == {Doc(1, 1, 2, 1, IntMax + 1, FALSE, 2)}

\* One account holds both roles; its nominations name other economic accounts.
OneAuthority == {[r \in Roles |-> a1]}
TwoAuthorities == {[r \in Roles |-> IF r = "PRIMARY" THEN a1 ELSE a2]}

\* Keys are interchangeable, and so are the operators without a role.
Interchange ==
  {f @@ g : f \in Permutations(Keys), g \in Permutations(Accounts \ {a1})}

=============================================================================
