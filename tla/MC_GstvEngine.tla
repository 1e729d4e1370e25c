---------------------------- MODULE MC_GstvEngine ----------------------------
(* GstvEngine with two sessions and three trees: the sealed one, one whose   *)
(* code changed, and one whose predicate files drifted.                      *)
EXTENDS GstvEngine

CONSTANTS s1, s2, t0, code, drift

MCSessions    == {s1, s2}
MCTrees       == {t0, code, drift}
MCSealedTrees == {t0, code}
=============================================================================
