---------------------------- MODULE MC_GstvSpool ----------------------------
(* GstvSpool on a small instance: two spool files, so that one poll reads   *)
(* both and a crash or a failed read can fall between them; the first file  *)
(* has room for two rows, so that rows can be reordered or repeated.        *)
EXTENDS GstvSpool, TLC

CONSTANTS a, b

MCSpools  == {a, b}
MCMaxRows == a :> 2 @@ b :> 1
=============================================================================
