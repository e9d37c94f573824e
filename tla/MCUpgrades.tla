----------------------------- MODULE MCUpgrades -----------------------------
(* Small instances of Upgrades: two large validators and a small one.       *)
EXTENDS Upgrades, TLC

CONSTANTS n1, n2, n3

MCPower == n1 :> 2 @@ n2 :> 2 @@ n3 :> 1
MCReleases == 0 .. 2
=============================================================================
