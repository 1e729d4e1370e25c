--------------------------- MODULE MC_ServeOutcome ---------------------------
(* ServeOutcome with two serves of two episodes and three outcome calls.     *)
EXTENDS ServeOutcome, TLC

CONSTANTS e1, e2, s1, s2, o1, o2, o3

MCEpisodes == {e1, e2}
MCServes   == {s1, s2}
MCOutcomes == {o1, o2, o3}
Symmetry   == Permutations(MCEpisodes) \cup Permutations(MCServes) \cup Permutations(MCOutcomes)
=============================================================================
