------------------------------- MODULE ChunkRun -------------------------------
(***************************************************************************)
(* What a run over the chunks of a transcript promises, as counts: each    *)
(* chunk is taken once and told at most once; the first that fails makes   *)
(* the run fail, while the others go on and take what is left; and the run *)
(* succeeds only with every chunk told.                                    *)
(*                                                                         *)
(* Each run of ExtractJobs implements this, and so does Extraction, which  *)
(* has what ExtractJobs leaves out: what a chunk is and how it is told.    *)
(***************************************************************************)
EXTENDS Naturals

VARIABLES
  stage, \* "new", "working", "failing" or "over"
  left,  \* chunks nobody has taken
  busy,  \* chunks that a worker is at
  done   \* chunks told

counts == <<left, busy, done>>
vars == <<stage, counts>>

Init == stage = "new" /\ left = 0 /\ busy = 0 /\ done = 0

\* The transcript is cut; workers may take chunks at once.
Cut ==
  /\ stage = "new" /\ stage' = "working"
  /\ left' \in Nat /\ busy' \in Nat /\ left' + busy' > 0
  /\ done' = 0

CannotCut == stage = "new" /\ stage' = "failing" /\ UNCHANGED counts

Take ==
  /\ left > 0
  /\ left' = left - 1 /\ busy' = busy + 1
  /\ UNCHANGED <<stage, done>>

\* A worker tells its chunk, and may take the next at once.
Tell ==
  /\ busy > 0
  /\ done' = done + 1
  /\ \/ busy' = busy - 1 /\ left' = left
     \/ left > 0 /\ left' = left - 1 /\ busy' = busy
  /\ UNCHANGED stage

\* A chunk fails, and its worker stops.
Break ==
  /\ busy > 0 /\ busy' = busy - 1
  /\ stage' = IF stage = "working" THEN "failing" ELSE stage
  /\ UNCHANGED <<left, done>>

\* Every chunk was told: none is left, none is out, and none has failed.
AllTold == stage = "working" /\ left = 0 /\ busy = 0

Succeed == AllTold /\ stage' = "over" /\ UNCHANGED counts
Reject  == AllTold /\ stage' = "failing" /\ UNCHANGED counts
Settle  == stage = "failing" /\ stage' = "over" /\ UNCHANGED counts

\* The process dies, and its runs with it.
Die == stage' = "new" /\ left' = 0 /\ busy' = 0 /\ done' = 0

Next ==
  \/ Cut \/ CannotCut \/ Take \/ Tell \/ Break
  \/ Succeed \/ Reject \/ Settle \/ Die

Spec == Init /\ [][Next]_vars
===============================================================================
