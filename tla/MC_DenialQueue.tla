--------------------------- MODULE MC_DenialQueue ---------------------------
(* DenialQueue with two denials that can be signed and one that cannot, and  *)
(* two flush calls that may overlap.                                         *)
EXTENDS DenialQueue

CONSTANTS d1, d2, nokey, f1, f2

MCDenials    == {d1, d2, nokey}
MCUnsignable == {nokey}
MCFlushes    == {f1, f2}
=============================================================================
