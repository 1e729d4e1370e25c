--------------------------- MODULE MC_ExtractJobs ---------------------------
(* One job (jobs share nothing but the process), of four chunks for two     *)
(* workers: the first chunks can fail with others waiting, and a worker can  *)
(* be two runs late.                                                        *)
EXTENDS ExtractJobs

CONSTANTS a

MCJobs == {a}
=============================================================================
