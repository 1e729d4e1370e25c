---------------------------- MODULE MC_Extraction ----------------------------
(* Two discoveries, of two characters (the overlap's length) and of three.   *)
(* Transcripts of five and eight characters; with room for four or five, of   *)
(* which two overlap, there are one, two or three slices for two workers;     *)
(* with room for two there is no overlap, and with none no plan.              *)
EXTENDS Extraction

CONSTANTS w1, w2

MCTotals  == {5, 8}
MCRooms   == {0, 2, 4, 5}
MCSize    == <<2, 3>>
MCPool == {w1, w2}

==============================================================================
