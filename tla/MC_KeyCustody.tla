---------------------------- MODULE MC_KeyCustody ---------------------------
(* KeyCustody with one call of every kind, two of those that race with each  *)
(* other, and the commands in processes of their own.  Any two calls are     *)
(* made together, and threes and fours that share keys or an identity.       *)
EXTENDS KeyCustody, TLC, FiniteSetsExt

CONSTANTS s1, c1, c2, v1, r1, r2, b1, b2, x1, i1

MCSetups     == {s1}
MCCreates    == {c1, c2}
MCProvisions == {v1}
MCRecalls    == {r1, r2}
MCSubmits    == {b1, b2}
MCRecovers   == {x1}
MCImports    == {i1}
MCProcessOf  == [t \in Calls |-> IF t \in {c2, v1, x1, i1} THEN t ELSE Server]
MCMixes      == kSubset(2, Calls) \cup {{s1, c1, i1}, {s1, c2, x1}, {s1, v1, r1}, {s1, b1, b2},
                  {c1, v1, r1}, {c1, r1, r2}, {c1, c2, i1}, {c1, c2, v1}, {c2, x1, v1}, {c2, v1, r1, r2}}
Symmetry     == Permutations(MCSubmits) \cup Permutations(MCRecalls)
=============================================================================
