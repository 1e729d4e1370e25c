---------------------------- MODULE MC_Instances ----------------------------
(* Two servers, one of which hands over to the other or finds the port busy,  *)
(* and two rows: one can be read before the handover and one in it, and one   *)
(* can come after the chain has forked.                                       *)
EXTENDS Instances

CONSTANTS a, b

MCProcesses == {a, b}
=============================================================================
