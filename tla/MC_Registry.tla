----------------------------- MODULE MC_Registry -----------------------------
(* One channel key, three requests and three hubs: enough for two         *)
(* concurrent creators, a reaper racing a newer hub, and a third request  *)
(* that finds a hub through the map.                                      *)
EXTENDS Registry, TLC

CONSTANTS k1, h1, h2, h3, r1, r2, r3

MCKeys == {k1}
MCHubs == {h1, h2, h3}
MCReqs == {r1, r2, r3}

MCSymmetry == Permutations(MCHubs) \cup Permutations(MCReqs)

=============================================================================
