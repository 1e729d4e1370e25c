----------------------------- MODULE ExtractJobs -----------------------------
(***************************************************************************)
(* Extraction jobs: the records a client polls, and the runs behind them.  *)
(*                                                                         *)
(* POST /v1/extract answers with a job at once and extracts behind it; a   *)
(* free model that has lapsed parks the job until the user resumes it with *)
(* another (handleExtract, runExtractionJob, handleExtractResume of        *)
(* src/http-server.ts).  A job is a record in memory, written through to   *)
(* <job>.json at every change and read back from it after a restart        *)
(* (src/extract-jobs.ts).  A run cuts the transcript into chunks and has   *)
(* Workers of them extracted at a time (extractMemories and runBounded of  *)
(* src/extraction.ts); the first chunk to fail ends the run, but the other *)
(* workers are not told.                                                   *)
(*                                                                         *)
(* A record is its status and its progress.  Its result, error, failure    *)
(* and inputs are set and deleted together with the status; what the model *)
(* extracts, and the integrity log lines, are left out.  The lookup before *)
(* the first run of a free model cannot park the job: no window without a  *)
(* provider is ever returned or cached (src/openrouter-catalog.ts).        *)
(***************************************************************************)
EXTENDS Integers, Sequences, FiniteSets

CONSTANTS
  Jobs,
  Chunks,  \* how many chunks a transcript makes; 1 is the single pass
  Workers, \* how many are extracted at a time: 1 for a local model
  None,
  Torn,    \* a file that does not parse
  MaxRuns, MaxCrashes, MaxFaults \* bounds

ASSUME CountsAssumption == Chunks \in Nat \ {0} /\ Workers \in Nat \ {0}
ASSUME BoundsAssumption == MaxRuns \in Nat /\ MaxCrashes \in Nat /\ MaxFaults \in Nat

VARIABLES
  mem,       \* the Map `jobs`: [Jobs -> record or None]
  disk,      \* [Jobs -> record, None or Torn]
  preflight, \* jobs created whose handler waits for the model's window
  runs,      \* [Jobs -> the runs of this process, oldest first]
  crashes, faults \* counters for the bounds

vars == <<mem, disk, preflight, runs, crashes, faults>>

Statuses == {"running", "awaiting_decision", "done", "error"}
Records  == [status : Statuses, done : 0 .. Chunks, total : {0, Chunks}]

ASSUME NoneAssumption == None \notin Records \cup {Torn} /\ Torn \notin Records

\* A run: chunks nobody has taken, chunks being extracted, chunks reported done.
Phases == {"starting", "going", "failing", "over"}
Run    == [phase : Phases, left : 0 .. Chunks, busy : 0 .. Chunks, done : 0 .. Chunks]
NewRun == [phase |-> "starting", left |-> Chunks, busy |-> 0, done |-> 0]

-----------------------------------------------------------------------------
(* src/extract-jobs.ts *)

\* parseJobRecord
Readable(j) == disk[j] \in Records

\* getJob: memory first, and what is read from disk is kept in memory.
Lookup_DiskFirst(j) == IF Readable(j) THEN disk[j] ELSE mem[j]
Lookup(j) ==
  IF mem[j] # None THEN mem[j] ELSE IF Readable(j) THEN disk[j] ELSE None

\* persistJob writes in place and only logs an error: the old file may stay, or
\* half of the new one.
Persist(j, rec) ==
  \/ disk' = [disk EXCEPT ![j] = rec] /\ UNCHANGED faults
  \/ /\ faults < MaxFaults /\ faults' = faults + 1
     /\ disk' \in {disk, [disk EXCEPT ![j] = Torn]}

Save(j, rec) == mem' = [mem EXCEPT ![j] = rec] /\ Persist(j, rec)

Fresh(status) == [status |-> status, done |-> 0, total |-> 0]

\* recordChunkProgress: whichever run reports, the record has its figures.
WithProgress_Running(rec, n) == [status |-> "running", done |-> n, total |-> Chunks]
WithProgress(rec, n) == [status |-> rec.status, done |-> n, total |-> Chunks]

\* completeJob, failJob and parkJob leave the progress as it is.
WithStatus(rec, status) == [status |-> status, done |-> rec.done, total |-> rec.total]

-----------------------------------------------------------------------------
Init ==
  /\ mem = [j \in Jobs |-> None] /\ disk = [j \in Jobs |-> None]
  /\ preflight = {}
  /\ runs = [j \in Jobs |-> <<>>]
  /\ crashes = 0 /\ faults = 0

(* The handlers. *)

Unused(j) == mem[j] = None /\ disk[j] = None

\* handleExtract creates the job and starts a run, or first asks for the window of
\* a free model.
Submit(j) ==
  /\ Unused(j)
  /\ Save(j, Fresh("running"))
  /\ \/ runs' = [runs EXCEPT ![j] = <<NewRun>>] /\ UNCHANGED preflight
     \/ preflight' = preflight \cup {j} /\ UNCHANGED runs
  /\ UNCHANGED crashes

\* Nothing was resolved in the session: the job is created and completed at once,
\* and either write may fail.
SubmitEmpty(j) ==
  /\ Unused(j)
  /\ mem' = [mem EXCEPT ![j] = Fresh("done")]
  /\ \/ Persist(j, Fresh("done"))
     \/ /\ faults < MaxFaults /\ faults' = faults + 1
        /\ disk' = [disk EXCEPT ![j] = Fresh("running")]
  /\ UNCHANGED <<preflight, runs, crashes>>

\* The window is known, or the lookup gave up.
EndPreflight(j) ==
  /\ j \in preflight
  /\ preflight' = preflight \ {j}
  /\ runs' = [runs EXCEPT ![j] = Append(@, NewRun)]
  /\ UNCHANGED <<mem, disk, crashes, faults>>

\* handleExtractResume and markJobResuming: a parked job runs again from scratch.
CanResume(j) == Lookup(j) # None /\ Lookup(j).status = "awaiting_decision"

Resume(j) ==
  /\ CanResume(j) /\ Len(runs[j]) < MaxRuns
  /\ Save(j, Fresh("running"))
  /\ runs' = [runs EXCEPT ![j] = Append(@, NewRun)]
  /\ UNCHANGED <<preflight, crashes>>

\* handleExtractStatus asks for one job ...
Poll(j) ==
  /\ mem' = [mem EXCEPT ![j] = Lookup(j)]
  /\ UNCHANGED <<disk, preflight, runs, crashes, faults>>

\* ... and handleExtractParked goes through every file.
ListParked ==
  /\ mem' = [j \in Jobs |-> Lookup(j)]
  /\ UNCHANGED <<disk, preflight, runs, crashes, faults>>

(* A run. *)

InPhase(j, r, phase) == r \in 1 .. Len(runs[j]) /\ runs[j][r].phase = phase
SetRun(j, r, x) == runs' = [runs EXCEPT ![j] = [@ EXCEPT ![r] = x]]
SetPhase(j, r, phase) ==
  SetRun(j, r, [phase |-> phase, left |-> runs[j][r].left, busy |-> runs[j][r].busy,
                done |-> runs[j][r].done])

\* The transcript is cut; the workers take their first chunks.
FirstTaken == IF Workers < Chunks THEN Workers ELSE Chunks
BeginChunks(j, r) ==
  /\ InPhase(j, r, "starting")
  /\ SetRun(j, r, [phase |-> "going", left |-> Chunks - FirstTaken,
                   busy |-> FirstTaken, done |-> 0])
  /\ Save(j, WithProgress(mem[j], 0))
  /\ UNCHANGED <<preflight, crashes>>

\* The org's vocabulary cannot be loaded, or no room is left for a chunk.
StartFails(j, r) ==
  /\ InPhase(j, r, "starting")
  /\ SetPhase(j, r, "failing")
  /\ UNCHANGED <<mem, disk, preflight, crashes, faults>>

\* A chunk is extracted: its worker reports and takes the next, if there is one.
AfterChunk(x) ==
  [phase |-> x.phase, left |-> IF x.left > 0 THEN x.left - 1 ELSE 0,
   busy |-> IF x.left > 0 THEN x.busy ELSE x.busy - 1, done |-> x.done + 1]

ChunkSucceeds(j, r) ==
  /\ r \in 1 .. Len(runs[j]) /\ runs[j][r].busy > 0
  /\ SetRun(j, r, AfterChunk(runs[j][r]))
  /\ Save(j, WithProgress(mem[j], runs[j][r].done + 1))
  /\ UNCHANGED <<preflight, crashes>>

\* A chunk fails for good: its worker stops.  Promise.all hears of the first failure
\* only, and does not stop the other workers.
PhaseAfterFailure_Swallowed(phase) == phase
PhaseAfterFailure(phase) == IF phase = "going" THEN "failing" ELSE phase

ChunkFails(j, r) ==
  /\ r \in 1 .. Len(runs[j]) /\ runs[j][r].busy > 0
  /\ SetRun(j, r, [phase |-> PhaseAfterFailure(runs[j][r].phase), left |-> runs[j][r].left,
                   busy |-> runs[j][r].busy - 1, done |-> runs[j][r].done])
  /\ UNCHANGED <<mem, disk, preflight, crashes, faults>>

AllDone_NoneLeft(j, r) == InPhase(j, r, "going") /\ runs[j][r].left = 0
AllDone(j, r) == InPhase(j, r, "going") /\ runs[j][r].done = Chunks

\* An envelope does not validate.
MergeFails(j, r) ==
  /\ AllDone(j, r)
  /\ SetPhase(j, r, "failing")
  /\ UNCHANGED <<mem, disk, preflight, crashes, faults>>

Complete(j, r) ==
  /\ AllDone(j, r)
  /\ SetPhase(j, r, "over")
  /\ Save(j, WithStatus(mem[j], "done"))
  /\ UNCHANGED <<preflight, crashes>>

\* The run's promise rejects: the job is parked when classifyFreeModelLapse says that
\* the free model has lapsed, else it has failed.
Settle(j, r) ==
  /\ InPhase(j, r, "failing")
  /\ SetPhase(j, r, "over")
  /\ \E status \in {"awaiting_decision", "error"} : Save(j, WithStatus(mem[j], status))
  /\ UNCHANGED <<preflight, crashes>>

\* The process dies and is started again; nothing restarts the runs it had.
Crash ==
  /\ crashes < MaxCrashes /\ crashes' = crashes + 1
  /\ mem' = [j \in Jobs |-> None] /\ preflight' = {} /\ runs' = [j \in Jobs |-> <<>>]
  /\ UNCHANGED <<disk, faults>>

ChunkStep(j, r) == ChunkSucceeds(j, r) \/ ChunkFails(j, r)
RunStep(j, r) ==
  \/ BeginChunks(j, r) \/ StartFails(j, r) \/ ChunkStep(j, r)
  \/ MergeFails(j, r) \/ Complete(j, r) \/ Settle(j, r)
Handlers(j) == Submit(j) \/ SubmitEmpty(j) \/ EndPreflight(j) \/ Resume(j) \/ Poll(j)

Next ==
  \/ \E j \in Jobs : Handlers(j) \/ \E r \in 1 .. Len(runs[j]) : RunStep(j, r)
  \/ ListParked \/ Crash

Spec == Init /\ [][Next]_vars

\* Every await of a handler or a run ends: the catalog lookup is aborted after 15 s, a
\* call of the model after its timeout and its retries, and the rest is local.
FairSpec ==
  /\ Spec
  /\ \A j \in Jobs : /\ WF_vars(EndPreflight(j))
                     /\ \A r \in 1 .. MaxRuns : WF_vars(RunStep(j, r))

-----------------------------------------------------------------------------
(* Properties. *)

\* The variables hold values of their types.
TypeOK ==
  /\ mem \in [Jobs -> Records \cup {None}]
  /\ disk \in [Jobs -> Records \cup {None, Torn}]
  /\ preflight \subseteq Jobs
  /\ runs \in [Jobs -> Seq(Run)]
  /\ crashes \in Nat /\ faults \in Nat

\* The runs of j that will still settle it, and its place in preflight.
Working(j) ==
  {r \in 1 .. Len(runs[j]) : runs[j][r].phase # "over"} \cup (IF j \in preflight THEN {0} ELSE {})

\* A process that did not start the job's work can have it in memory as running.
Adopted(j) == crashes > 0 /\ Working(j) = {} /\ runs[j] = <<>>

(* A job is running as long as exactly one run works on it: two resumes of  *)
(* it never run it twice, the workers a failed run left behind never settle *)
(* it again, and no path leaves it running with nobody to settle it (but a  *)
(* restart does: nothing takes up the jobs of the process before).          *)
RunningMeansOneRun ==
  \A j \in Jobs :
    IF mem[j] # None /\ mem[j].status = "running" /\ ~Adopted(j)
    THEN Cardinality(Working(j)) = 1
    ELSE Working(j) = {}

\* What GET /v1/extract/status/{job} says.
Visible(j) ==
  IF mem[j] # None THEN mem[j].status ELSE IF Readable(j) THEN disk[j].status ELSE "not found"

Moves == {<<"not found", "running">>, <<"not found", "done">>, <<"running", "done">>,
          <<"running", "error">>, <<"running", "awaiting_decision">>,
          <<"awaiting_decision", "running">>}

(* A client that polls sees a job go through its states: done and error are *)
(* final, a parked job can only be resumed, no late report of an abandoned  *)
(* worker moves it, and a restart changes nothing.  It takes both a failed  *)
(* write and a restart to break this.                                       *)
StatusFlow ==
  [][(faults' = 0 \/ crashes' = 0) =>
       \A j \in Jobs : Visible(j)' # Visible(j) => <<Visible(j), Visible(j)'>> \in Moves]_vars

\* Run r of j as ChunkRun has it: it is new until it begins, and no chunk is counted
\* until the transcript is cut.
HasBegun(j, r) == r \in 1 .. Len(runs[j]) /\ runs[j][r].left < Chunks
StageOf(j, r) ==
  IF r \notin 1 .. Len(runs[j]) \/ runs[j][r].phase = "starting" THEN "new"
  ELSE IF runs[j][r].phase = "going" THEN "working" ELSE runs[j][r].phase

RunAt(j, r) == INSTANCE ChunkRun WITH
  stage <- StageOf(j, r),
  left  <- IF HasBegun(j, r) THEN runs[j][r].left ELSE 0,
  busy  <- IF HasBegun(j, r) THEN runs[j][r].busy ELSE 0,
  done  <- IF HasBegun(j, r) THEN runs[j][r].done ELSE 0

\* Every run does what ChunkRun says, whatever other runs of its job, resumes, failed
\* writes and restarts do.
RunsAreChunkRuns ==
  /\ \A j \in Jobs, r \in 1 .. MaxRuns : RunAt(j, r)!Init
  /\ [][\A j \in Jobs, r \in 1 .. MaxRuns : [RunAt(j, r)!Next]_(RunAt(j, r)!vars)]_vars

(* A job that is worked on is settled, or the process dies.                 *)
JobsSettle == \A j \in Jobs : (Working(j) # {}) ~> (Working(j) = {})
==============================================================================
