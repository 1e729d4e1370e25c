---------------------------- MODULE MC_HubAccess ----------------------------
(* HubAccess with two recalls, two resolutions and another command, and a    *)
(* record that changes once: a hub leaves, another joins, and one that stays *)
(* lies.                                                                     *)
EXTENDS HubAccess, TLC

CONSTANTS h1, h2, h3, k1, k2, r1, r2, c1, c2

MCHubs      == {h1, h2, h3}
MCLiars     == {h2}
MCListOf    == <<{h1, h2}, {h2, h3}>>
MCKeyOf     == <<k1, k2>>
MCRecalls   == {r1, r2}
MCResolvers == {c1, c2}
Symmetry    == Permutations(MCRecalls) \cup Permutations(MCResolvers)
=============================================================================
