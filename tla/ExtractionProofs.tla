--------------------------- MODULE ExtractionProofs ---------------------------
(***************************************************************************)
(* Proofs about the jobs (ExtractJobs) and about the extraction inside one *)
(* (Extraction), which are proved apart and share no state.                *)
(*                                                                         *)
(* The jobs, for any jobs, chunks and workers, and any number of resumes,  *)
(* restarts and failed writes: a job is running as long as exactly one run *)
(* works on it, and a client sees only the documented moves of its status. *)
(* RunningMeansOneRun is inductive only with two facts about memory and    *)
(* disk: a job that is worked on is in memory, and a job that only the     *)
(* disk knows comes from a process before (Known).  StatusFlow needs that  *)
(* the two agree until a write fails (Written).                            *)
(*                                                                         *)
(* The extraction, for any transcript, room, overlap, workers, attempts    *)
(* and formats: what is said of the end rests on what holds on the way.    *)
(* What lies before the cursor of the plan is covered (Plans); a slice     *)
(* that is taken is one worker's until it is answered, so no answer is     *)
(* overwritten (Workings); an answer that is not cut tells what its slice  *)
(* has whole (Answers); and the merge has kept just what it has read, each *)
(* once, in order (HasRead, WasTold, InOrder).                             *)
(*                                                                         *)
(* Both implement ChunkRun, which has the counts alone: each run of a job, *)
(* and the extraction with its slices for chunks.  For the latter, a slice *)
(* that is taken or answered changes the set of busy workers and that of   *)
(* heard answers by one element, and no slice is taken beyond the last     *)
(* (InBounds).                                                             *)
(***************************************************************************)
EXTENDS ExtractJobs, Extraction, FiniteSetTheorems, TLAPS

(* The jobs. *)

Live(j, r) == r \in 1 .. Len(runs[j]) /\ runs[j][r].phase # "over"
NoneLive(j) == j \notin preflight /\ \A r \in 1 .. Len(runs[j]) : ~Live(j, r)

\* Either the lookup of the window or one run works on j.
OneLive(j) ==
  \/ j \in preflight /\ \A r \in 1 .. Len(runs[j]) : ~Live(j, r)
  \/ j \notin preflight /\ \E r \in 1 .. Len(runs[j]) :
       Live(j, r) /\ \A q \in 1 .. Len(runs[j]) : Live(j, q) => q = r

\* No run has more chunks than there are.
Counts ==
  \A j \in Jobs : \A r \in 1 .. Len(runs[j]) :
    runs[j][r].left + runs[j][r].busy + runs[j][r].done <= Chunks

Known(j) ==
  /\ mem[j] = None => runs[j] = <<>> /\ j \notin preflight
  /\ mem[j] = None /\ crashes = 0 => disk[j] = None

\* RunningMeansOneRun, said without counting.
Works(j) ==
  /\ mem[j] # None /\ mem[j].status = "running" =>
       OneLive(j) \/ (crashes > 0 /\ runs[j] = <<>> /\ j \notin preflight)
  /\ mem[j] # None /\ mem[j].status # "running" => NoneLive(j)

Written(j) == faults = 0 => disk[j] # Torn /\ (mem[j] # None => disk[j] = mem[j])

JobInv(j) == Known(j) /\ Works(j) /\ Written(j)
Inv == TypeOK /\ Counts /\ \A j \in Jobs : JobInv(j)

-----------------------------------------------------------------------------
(* What is written, and what that does to one job and not to the others. *)

LEMMA Distinct == None \notin Records /\ None # Torn /\ Torn \notin Records
BY NoneAssumption

LEMMA PersistFact ==
  ASSUME TypeOK, NEW j \in Jobs, NEW rec \in Records, Persist(j, rec)
  PROVE  /\ disk' \in [Jobs -> Records \cup {None, Torn}] /\ faults' \in Nat
         /\ \A k \in Jobs \ {j} : disk'[k] = disk[k]
         /\ faults' = 0 => faults = 0 /\ disk'[j] = rec
<1>1. faults' \in Nat /\ (faults' = 0 => faults = 0)
  BY DEF Persist, TypeOK
<1>2. CASE disk' = [disk EXCEPT ![j] = rec]
  BY <1>1, <1>2 DEF TypeOK
<1>3. CASE disk' # [disk EXCEPT ![j] = rec]
  <2>1. faults' # 0 /\ disk' \in {disk, [disk EXCEPT ![j] = Torn]}
    BY <1>3 DEF Persist, TypeOK
  <2>2. CASE disk' = disk
    BY <1>1, <2>1, <2>2 DEF TypeOK
  <2>3. CASE disk' = [disk EXCEPT ![j] = Torn]
    BY <1>1, <2>1, <2>3 DEF TypeOK
  <2> QED BY <2>1, <2>2, <2>3
<1> QED BY <1>2, <1>3

\* Nothing changes for a job whose record, file and runs stay.
LEMMA Untouched ==
  ASSUME NEW k \in Jobs, JobInv(k), mem'[k] = mem[k], disk'[k] = disk[k], runs'[k] = runs[k],
         k \in preflight' <=> k \in preflight, crashes' = crashes, faults \in Nat, faults' \in Nat,
         faults' = 0 => faults = 0
  PROVE  JobInv(k)'
BY DEF JobInv, Known, Works, Written, OneLive, NoneLive, Live

LEMMA RunTypes ==
  ASSUME TypeOK, NEW j \in Jobs, NEW r \in 1 .. Len(runs[j])
  PROVE  /\ runs[j] \in Seq(Run) /\ runs[j][r] \in Run
         /\ runs[j][r].phase \in Phases /\ runs[j][r].left \in 0 .. Chunks
         /\ runs[j][r].busy \in 0 .. Chunks /\ runs[j][r].done \in 0 .. Chunks
<1>1. runs[j] \in Seq(Run)
  BY DEF TypeOK
<1>2. runs[j][r] \in Run
  BY <1>1
<1> QED BY <1>1, <1>2 DEF Run

\* A record keeps its type whatever is changed in it.
LEMMA RecordTypes ==
  /\ \A status \in Statuses : Fresh(status) \in Records /\ Fresh(status).status = status
  /\ \A rec \in Records : rec.status \in Statuses
  /\ \A rec \in Records : \A n \in 0 .. Chunks :
       WithProgress(rec, n) \in Records /\ WithProgress(rec, n).status = rec.status
  /\ \A rec \in Records : \A status \in Statuses :
       WithStatus(rec, status) \in Records /\ WithStatus(rec, status).status = status
BY CountsAssumption DEF Records, Fresh, WithProgress, WithStatus

LEMMA SaveFact ==
  ASSUME TypeOK, NEW j \in Jobs, NEW rec \in Records, Save(j, rec)
  PROVE  /\ mem' \in [Jobs -> Records \cup {None}] /\ mem'[j] = rec
         /\ \A k \in Jobs \ {j} : mem'[k] = mem[k]
         /\ disk' \in [Jobs -> Records \cup {None, Torn}] /\ faults' \in Nat
         /\ \A k \in Jobs \ {j} : disk'[k] = disk[k]
         /\ faults' = 0 => faults = 0 /\ disk'[j] = rec
<1>1. Persist(j, rec) /\ mem' = [mem EXCEPT ![j] = rec]
  BY DEF Save
<1> QED BY <1>1, PersistFact DEF TypeOK

-----------------------------------------------------------------------------
LEMMA InvInit == Init => Inv
<1> SUFFICES ASSUME Init PROVE Inv
  OBVIOUS
<1>1. TypeOK
  BY DEF Init, TypeOK
<1>2. \A j \in Jobs : runs[j] = <<>> /\ mem[j] = None /\ disk[j] = None
  BY DEF Init
<1>3. Counts
  BY <1>2 DEF Counts
<1>4. \A j \in Jobs : JobInv(j)
  BY <1>2, Distinct DEF Init, JobInv, Known, Works, Written
<1> QED BY <1>1, <1>3, <1>4 DEF Inv

\* A run is begun for a job nobody works on.
LEMMA BeginRun ==
  ASSUME Inv, NEW j \in Jobs, \A r \in 1 .. Len(runs[j]) : ~Live(j, r), j \notin preflight',
         runs' = [runs EXCEPT ![j] = Append(@, NewRun)]
  PROVE  runs' \in [Jobs -> Seq(Run)] /\ Counts' /\ OneLive(j)'
<1>1. NewRun \in Run /\ NewRun.phase = "starting"
      /\ NewRun.left + NewRun.busy + NewRun.done = Chunks
  BY CountsAssumption DEF NewRun, Run, Phases
<1>2. runs \in [Jobs -> Seq(Run)]
  BY DEF Inv, TypeOK
<1>3. runs'[j] = Append(runs[j], NewRun) /\ \A k \in Jobs \ {j} : runs'[k] = runs[k]
  BY <1>2
<1>4. /\ runs[j] \in Seq(Run) /\ Len(runs[j]) \in Nat /\ Len(runs'[j]) = Len(runs[j]) + 1
      /\ \A r \in 1 .. Len(runs[j]) : runs'[j][r] = runs[j][r]
      /\ runs'[j][Len(runs[j]) + 1] = NewRun
  BY <1>1, <1>2, <1>3
<1>5. runs' \in [Jobs -> Seq(Run)]
  BY <1>1, <1>2
<1>6. ASSUME NEW k \in Jobs, NEW r \in 1 .. Len(runs'[k])
      PROVE  runs'[k][r].left + runs'[k][r].busy + runs'[k][r].done <= Chunks
  <2>1. CASE k = j /\ r = Len(runs[j]) + 1
    BY <1>1, <1>4, <2>1, CountsAssumption
  <2>2. CASE k = j /\ r # Len(runs[j]) + 1
    <3>1. r \in 1 .. Len(runs[j])
      BY <1>4, <2>2
    <3> QED BY <1>4, <2>2, <3>1 DEF Inv, Counts
  <2>3. CASE k # j
    BY <1>3, <2>3 DEF Inv, Counts
  <2> QED BY <2>1, <2>2, <2>3
<1>7. OneLive(j)'
  <2>0. PICK n \in Nat : n = Len(runs[j]) + 1
    BY <1>4
  <2>1. n \in 1 .. Len(runs'[j]) /\ Live(j, n)'
    BY <1>1, <1>4, <2>0 DEF Live
  <2>2. ASSUME NEW q \in 1 .. Len(runs'[j]), Live(j, q)' PROVE q = n
    <3>1. q \in 1 .. Len(runs[j]) \/ q = n
      BY <1>4, <2>0
    <3> QED BY <1>4, <2>2, <3>1 DEF Live
  <2> QED BY <2>1, <2>2 DEF OneLive
<1> QED BY <1>5, <1>6, <1>7 DEF Counts

\* A run takes a step: who works on its job is as before, or it no longer does.
LEMMA ChangeRun ==
  ASSUME Inv, NEW j \in Jobs, NEW r \in 1 .. Len(runs[j]), NEW x \in Run, SetRun(j, r, x),
         x.left + x.busy + x.done <= Chunks, preflight' = preflight
  PROVE  /\ runs' \in [Jobs -> Seq(Run)] /\ Counts' /\ runs'[j] # <<>>
         /\ \A k \in Jobs \ {j} : runs'[k] = runs[k]
         /\ (x.phase = "over" <=> runs[j][r].phase = "over") =>
              (OneLive(j) => OneLive(j)') /\ (NoneLive(j) => NoneLive(j)')
         /\ x.phase = "over" /\ Live(j, r) /\ OneLive(j) => NoneLive(j)'
<1>2. runs \in [Jobs -> Seq(Run)] /\ runs[j] \in Seq(Run)
  BY DEF Inv, TypeOK
<1>3. runs'[j] = [runs[j] EXCEPT ![r] = x] /\ \A k \in Jobs \ {j} : runs'[k] = runs[k]
  BY <1>2 DEF SetRun
<1>4. /\ runs'[j] \in Seq(Run) /\ Len(runs'[j]) = Len(runs[j]) /\ Len(runs[j]) \in Nat
      /\ \A q \in 1 .. Len(runs[j]) : runs'[j][q] = IF q = r THEN x ELSE runs[j][q]
  BY <1>2, <1>3
<1>5. runs' \in [Jobs -> Seq(Run)]
  BY <1>2, <1>3, <1>4 DEF SetRun
<1>6. Counts'
  BY <1>3, <1>4 DEF Inv, Counts
<1>7. \A q \in 1 .. Len(runs[j]) : Live(j, q)' <=> IF q = r THEN x.phase # "over" ELSE Live(j, q)
  BY <1>4 DEF Live
<1>8. (x.phase = "over" <=> runs[j][r].phase = "over") =>
        (OneLive(j) => OneLive(j)') /\ (NoneLive(j) => NoneLive(j)')
  BY <1>4, <1>7 DEF OneLive, NoneLive, Live
<1>9. x.phase = "over" /\ Live(j, r) /\ OneLive(j) => NoneLive(j)'
  BY <1>4, <1>7 DEF OneLive, NoneLive, Live
<1>10. runs'[j] # <<>>
  BY <1>4
<1> QED BY <1>3, <1>5, <1>6, <1>8, <1>9, <1>10

-----------------------------------------------------------------------------
\* What one step may show a client of job j.
Flow(j) ==
  (faults' = 0 \/ crashes' = 0) /\ Visible(j)' # Visible(j) => <<Visible(j), Visible(j)'>> \in Moves

Good == Inv' /\ \A j \in Jobs : Flow(j)

LEMMA SameFlow ==
  ASSUME NEW j \in Jobs, mem'[j] = mem[j], disk'[j] = disk[j]
  PROVE  Flow(j)
BY DEF Flow, Visible, Readable

\* A job that a run works on is in memory, as running as long as it works.
LEMMA RunsInMemory ==
  ASSUME Inv, NEW j \in Jobs, NEW r \in 1 .. Len(runs[j])
  PROVE  /\ mem[j] \in Records /\ mem[j] # None
         /\ mem[j].status = "running" => OneLive(j)
         /\ Live(j, r) => mem[j].status = "running"
<1>1. JobInv(j) /\ mem[j] \in Records \cup {None} /\ runs[j] # <<>>
  BY DEF Inv, TypeOK
<1>2. mem[j] \in Records /\ mem[j] # None
  BY <1>1 DEF JobInv, Known
<1> QED BY <1>1, <1>2 DEF JobInv, Works, NoneLive

\* A run goes on, and the job's record may get its figures.
LEMMA RunGoesOn ==
  ASSUME Inv, NEW j \in Jobs, NEW r \in 1 .. Len(runs[j]), NEW x \in Run, SetRun(j, r, x),
         x.left + x.busy + x.done <= Chunks, x.phase = "over" <=> runs[j][r].phase = "over",
         UNCHANGED <<preflight, crashes>>,
         \/ UNCHANGED <<mem, disk, faults>>
         \/ \E rec \in Records : rec.status = mem[j].status /\ Save(j, rec)
  PROVE  Good
<1>1. /\ runs' \in [Jobs -> Seq(Run)] /\ Counts' /\ runs'[j] # <<>>
      /\ \A k \in Jobs \ {j} : runs'[k] = runs[k]
      /\ (OneLive(j) => OneLive(j)') /\ (NoneLive(j) => NoneLive(j)')
  BY ChangeRun
<1>2. TypeOK /\ mem[j] \in Records /\ mem[j] # None /\ (mem[j].status = "running" => OneLive(j))
  BY RunsInMemory DEF Inv
<1>3. /\ mem' \in [Jobs -> Records \cup {None}] /\ disk' \in [Jobs -> Records \cup {None, Torn}]
      /\ faults' \in Nat /\ (faults' = 0 => faults = 0)
      /\ \A k \in Jobs \ {j} : mem'[k] = mem[k] /\ disk'[k] = disk[k]
      /\ mem'[j] \in Records /\ mem'[j].status = mem[j].status
      /\ faults' = 0 => (mem'[j] = mem[j] /\ disk'[j] = disk[j]) \/ disk'[j] = mem'[j]
  <2>1. CASE UNCHANGED <<mem, disk, faults>>
    BY <1>2, <2>1 DEF TypeOK
  <2>2. CASE \E rec \in Records : rec.status = mem[j].status /\ Save(j, rec)
    <3>1. PICK rec \in Records : rec.status = mem[j].status /\ Save(j, rec)
      BY <2>2
    <3> QED BY <1>2, <3>1, SaveFact
  <2> QED BY <2>1, <2>2
<1>4. TypeOK'
  BY <1>1, <1>2, <1>3 DEF TypeOK
<1>5. JobInv(j)'
  <2>1. mem'[j] # None /\ JobInv(j)
    BY <1>3, Distinct DEF Inv
  <2>2. Known(j)'
    BY <2>1 DEF Known
  <2>3. Works(j)'
    BY <1>1, <1>2, <1>3, <2>1 DEF JobInv, Works
  <2>4. Written(j)'
    BY <1>2, <1>3, <2>1, Distinct DEF JobInv, Written
  <2> QED BY <2>2, <2>3, <2>4 DEF JobInv
<1>6. ASSUME NEW k \in Jobs, k # j PROVE JobInv(k)' /\ Flow(k)
  BY <1>1, <1>2, <1>3, <1>6, Untouched, SameFlow DEF Inv, TypeOK
<1>7. Flow(j)
  <2>1. mem'[j] # None
    BY <1>3, Distinct
  <2> QED BY <1>2, <1>3, <2>1 DEF Flow, Visible
<1> QED BY <1>1, <1>4, <1>5, <1>6, <1>7 DEF Good, Inv

\* A run settles its job, as done, failed or parked.
LEMMA RunEnds ==
  ASSUME Inv, NEW j \in Jobs, NEW r \in 1 .. Len(runs[j]), NEW x \in Run, SetRun(j, r, x),
         x.left + x.busy + x.done <= Chunks, x.phase = "over", Live(j, r),
         UNCHANGED <<preflight, crashes>>,
         NEW status \in {"done", "error", "awaiting_decision"}, Save(j, WithStatus(mem[j], status))
  PROVE  Good
<1>1. TypeOK /\ mem[j] \in Records /\ mem[j] # None /\ OneLive(j) /\ mem[j].status = "running"
  BY RunsInMemory DEF Inv
<1>2. /\ runs' \in [Jobs -> Seq(Run)] /\ Counts' /\ runs'[j] # <<>>
      /\ \A k \in Jobs \ {j} : runs'[k] = runs[k]
      /\ NoneLive(j)'
  BY <1>1, ChangeRun
<1>3. WithStatus(mem[j], status) \in Records /\ WithStatus(mem[j], status).status = status
  BY <1>1, RecordTypes DEF Statuses
<1>4. /\ mem' \in [Jobs -> Records \cup {None}] /\ disk' \in [Jobs -> Records \cup {None, Torn}]
      /\ faults' \in Nat /\ (faults' = 0 => faults = 0 /\ disk'[j] = mem'[j])
      /\ \A k \in Jobs \ {j} : mem'[k] = mem[k] /\ disk'[k] = disk[k]
      /\ mem'[j] \in Records /\ mem'[j].status = status
  BY <1>1, <1>3, SaveFact
<1>5. TypeOK'
  BY <1>1, <1>2, <1>4 DEF TypeOK
<1>6. mem'[j] # None
  BY <1>4, Distinct
<1>7. JobInv(j)'
  BY <1>2, <1>4, <1>6, Distinct DEF JobInv, Known, Works, Written
<1>8. ASSUME NEW k \in Jobs, k # j PROVE JobInv(k)' /\ Flow(k)
  BY <1>1, <1>2, <1>4, <1>8, Untouched, SameFlow DEF Inv, TypeOK
<1>9. Flow(j)
  BY <1>1, <1>4, <1>6 DEF Flow, Visible, Moves
<1> QED BY <1>2, <1>5, <1>7, <1>8, <1>9 DEF Good, Inv

\* A chunk done is one less to do or in work.
LEMMA OneMoreDone ==
  ASSUME NEW c \in Nat, NEW l \in 0 .. c, NEW b \in 0 .. c, NEW d \in 0 .. c,
         b > 0, l + b + d <= c
  PROVE  LET left == IF l > 0 THEN l - 1 ELSE 0
             busy == IF l > 0 THEN b ELSE b - 1
         IN /\ left \in 0 .. c /\ busy \in 0 .. c /\ d + 1 \in 0 .. c
            /\ left + busy + (d + 1) <= c
<1>1. CASE l > 0
  BY <1>1
<1>2. CASE l = 0
  BY <1>2
<1> QED BY <1>1, <1>2

LEMMA RunStepGood ==
  ASSUME Inv, NEW j \in Jobs, NEW r \in 1 .. Len(runs[j]), RunStep(j, r)
  PROVE  Good
<1>1. /\ TypeOK /\ mem[j] \in Records
      /\ runs[j][r] \in Run /\ runs[j][r].phase \in Phases /\ runs[j][r].left \in 0 .. Chunks
      /\ runs[j][r].busy \in 0 .. Chunks /\ runs[j][r].done \in 0 .. Chunks
      /\ runs[j][r].left + runs[j][r].busy + runs[j][r].done <= Chunks
      /\ Chunks \in Nat /\ Chunks > 0
  BY RunTypes, RunsInMemory, CountsAssumption DEF Inv, Counts
<1>2. ASSUME NEW p \in Phases
      PROVE  LET x == [phase |-> p, left |-> runs[j][r].left, busy |-> runs[j][r].busy,
                       done |-> runs[j][r].done]
             IN x \in Run /\ x.phase = p /\ x.left + x.busy + x.done <= Chunks
  BY <1>1 DEF Run
<1>3. CASE BeginChunks(j, r)
  <2> DEFINE x == [phase |-> "going", left |-> Chunks - FirstTaken, busy |-> FirstTaken, done |-> 0]
  <2>1. FirstTaken \in 0 .. Chunks
    BY <1>1, CountsAssumption DEF FirstTaken
  <2>2. x \in Run /\ x.phase = "going" /\ x.left + x.busy + x.done <= Chunks
    BY <1>1, <2>1 DEF Run, Phases
  <2>3. SetRun(j, r, x) /\ Save(j, WithProgress(mem[j], 0)) /\ UNCHANGED <<preflight, crashes>>
        /\ runs[j][r].phase # "over"
    BY <1>3 DEF BeginChunks, InPhase
  <2>4. WithProgress(mem[j], 0) \in Records /\ WithProgress(mem[j], 0).status = mem[j].status
    <3>1. 0 \in 0 .. Chunks
      BY <1>1
    <3> QED BY <1>1, <3>1, RecordTypes
  <2> HIDE DEF x
  <2> QED BY <2>2, <2>3, <2>4, RunGoesOn
<1>4. CASE StartFails(j, r) \/ MergeFails(j, r)
  <2> DEFINE x == [phase |-> "failing", left |-> runs[j][r].left, busy |-> runs[j][r].busy,
                   done |-> runs[j][r].done]
  <2>1. x \in Run /\ x.phase = "failing" /\ x.left + x.busy + x.done <= Chunks
    BY <1>2 DEF Phases
  <2>2. SetRun(j, r, x) /\ UNCHANGED <<mem, disk, faults, preflight, crashes>>
        /\ runs[j][r].phase # "over"
    BY <1>4 DEF StartFails, MergeFails, AllDone, InPhase, SetPhase
  <2> HIDE DEF x
  <2> QED BY <2>1, <2>2, RunGoesOn
<1>5. CASE ChunkSucceeds(j, r)
  <2> DEFINE x == AfterChunk(runs[j][r])
  <2>1. /\ x \in Run /\ x.phase = runs[j][r].phase /\ x.left + x.busy + x.done <= Chunks
        /\ runs[j][r].done + 1 \in 0 .. Chunks
    <3> DEFINE l == runs[j][r].left
               b == runs[j][r].busy
               d == runs[j][r].done
               left == IF l > 0 THEN l - 1 ELSE 0
               busy == IF l > 0 THEN b ELSE b - 1
    <3>1. /\ l \in 0 .. Chunks /\ b \in 0 .. Chunks /\ d \in 0 .. Chunks
          /\ b > 0 /\ l + b + d <= Chunks /\ Chunks \in Nat
      BY <1>1, <1>5 DEF ChunkSucceeds
    <3>2. x = [phase |-> runs[j][r].phase, left |-> left, busy |-> busy, done |-> d + 1]
      BY DEF AfterChunk
    <3>3. runs[j][r].done = d
      OBVIOUS
    <3> HIDE DEF l, b, d
    <3>4. /\ left \in 0 .. Chunks /\ busy \in 0 .. Chunks /\ d + 1 \in 0 .. Chunks
          /\ left + busy + (d + 1) <= Chunks
      BY <3>1, OneMoreDone
    <3> HIDE DEF left, busy, x
    <3> QED BY <1>1, <3>2, <3>3, <3>4 DEF Run
  <2>2. SetRun(j, r, x) /\ Save(j, WithProgress(mem[j], runs[j][r].done + 1))
        /\ UNCHANGED <<preflight, crashes>>
    BY <1>5 DEF ChunkSucceeds
  <2>3. LET rec == WithProgress(mem[j], runs[j][r].done + 1)
        IN rec \in Records /\ rec.status = mem[j].status
    BY <1>1, <2>1, RecordTypes
  <2> HIDE DEF x
  <2> QED BY <2>1, <2>2, <2>3, RunGoesOn
<1>6. CASE ChunkFails(j, r)
  <2> DEFINE x == [phase |-> PhaseAfterFailure(runs[j][r].phase), left |-> runs[j][r].left,
                   busy |-> runs[j][r].busy - 1, done |-> runs[j][r].done]
  <2>1. /\ x \in Run /\ (x.phase = "over" <=> runs[j][r].phase = "over")
        /\ x.left + x.busy + x.done <= Chunks
    BY <1>1, <1>6 DEF ChunkFails, PhaseAfterFailure, Run, Phases
  <2>2. SetRun(j, r, x) /\ UNCHANGED <<mem, disk, faults, preflight, crashes>>
    BY <1>6 DEF ChunkFails
  <2> HIDE DEF x
  <2> QED BY <2>1, <2>2, RunGoesOn
<1>7. CASE Complete(j, r) \/ Settle(j, r)
  <2> DEFINE x == [phase |-> "over", left |-> runs[j][r].left, busy |-> runs[j][r].busy,
                   done |-> runs[j][r].done]
  <2>1. x \in Run /\ x.phase = "over" /\ x.left + x.busy + x.done <= Chunks
    BY <1>2 DEF Phases
  <2>2. SetRun(j, r, x) /\ UNCHANGED <<preflight, crashes>> /\ Live(j, r)
    BY <1>7 DEF Complete, Settle, AllDone, InPhase, SetPhase, Live
  <2>3. PICK status \in {"done", "error", "awaiting_decision"} : Save(j, WithStatus(mem[j], status))
    BY <1>7 DEF Complete, Settle
  <2> HIDE DEF x
  <2> QED BY <2>1, <2>2, <2>3, RunEnds
<1> QED BY <1>3, <1>4, <1>5, <1>6, <1>7 DEF RunStep, ChunkStep

-----------------------------------------------------------------------------
(* The handlers. *)

\* Work is begun for a job that was not there, or was parked.
LEMMA WorkBegins ==
  ASSUME Inv, NEW j \in Jobs, Save(j, Fresh("running")), crashes' = crashes,
         runs' \in [Jobs -> Seq(Run)], Counts', preflight' \subseteq Jobs, OneLive(j)',
         \A k \in Jobs \ {j} : runs'[k] = runs[k] /\ (k \in preflight' <=> k \in preflight),
         Visible(j) \in {"not found", "awaiting_decision"}
  PROVE  Good
<1>1. TypeOK /\ Fresh("running") \in Records /\ Fresh("running").status = "running"
  BY RecordTypes DEF Inv, Statuses
<1>2. /\ mem' \in [Jobs -> Records \cup {None}] /\ disk' \in [Jobs -> Records \cup {None, Torn}]
      /\ faults' \in Nat /\ (faults' = 0 => faults = 0 /\ disk'[j] = mem'[j])
      /\ \A k \in Jobs \ {j} : mem'[k] = mem[k] /\ disk'[k] = disk[k]
      /\ mem'[j] \in Records /\ mem'[j].status = "running"
  BY <1>1, SaveFact
<1>3. TypeOK'
  BY <1>1, <1>2 DEF TypeOK
<1>4. mem'[j] # None
  BY <1>2, Distinct
<1>5. JobInv(j)'
  <2>1. Known(j)'
    BY <1>4 DEF Known
  <2>2. Works(j)'
    BY <1>2 DEF Works
  <2>3. Written(j)'
    BY <1>2, Distinct DEF Written
  <2> QED BY <2>1, <2>2, <2>3 DEF JobInv
<1>6. ASSUME NEW k \in Jobs, k # j PROVE JobInv(k)' /\ Flow(k)
  BY <1>1, <1>2, <1>6, Untouched, SameFlow DEF Inv, TypeOK
<1>7. Flow(j)
  <2>1. Visible(j)' = "running"
    BY <1>2, <1>4 DEF Visible
  <2> QED BY <2>1 DEF Flow, Moves
<1> QED BY <1>3, <1>5, <1>6, <1>7 DEF Good, Inv

\* A job that is not there has no run.
LEMMA UnusedJob ==
  ASSUME Inv, NEW j \in Jobs, Unused(j)
  PROVE  /\ runs[j] = <<>> /\ (\A r \in 1 .. Len(runs[j]) : ~Live(j, r))
         /\ j \notin preflight /\ Visible(j) = "not found"
         /\ runs \in [Jobs -> Seq(Run)] /\ preflight \subseteq Jobs /\ TypeOK
<1>1. JobInv(j) /\ mem[j] = None /\ disk[j] = None
  BY DEF Inv, Unused
<1>2. runs[j] = <<>> /\ Len(<<>>) = 0
  BY <1>1 DEF JobInv, Known
<1> QED BY <1>1, <1>2, Distinct DEF Inv, TypeOK, JobInv, Known, Visible, Readable

LEMMA SubmitGood ==
  ASSUME Inv, NEW j \in Jobs, Submit(j)
  PROVE  Good
<1>1. /\ runs[j] = <<>> /\ (\A r \in 1 .. Len(runs[j]) : ~Live(j, r))
      /\ j \notin preflight /\ Visible(j) = "not found"
      /\ runs \in [Jobs -> Seq(Run)] /\ preflight \subseteq Jobs
  BY UnusedJob DEF Submit
<1>2. Save(j, Fresh("running")) /\ crashes' = crashes
  BY DEF Submit
<1>3. CASE runs' = [runs EXCEPT ![j] = <<NewRun>>] /\ UNCHANGED preflight
  <2>1. runs' = [runs EXCEPT ![j] = Append(@, NewRun)]
    <3>1. Append(runs[j], NewRun) = <<NewRun>>
      <4>1. NewRun \in Run
        BY CountsAssumption DEF NewRun, Run, Phases
      <4>2. \A x \in Run : Append(<<>>, x) = <<x>>
        OBVIOUS
      <4> QED BY <1>1, <4>1, <4>2
    <3> QED BY <1>1, <1>3, <3>1
  <2>3. runs' \in [Jobs -> Seq(Run)] /\ Counts' /\ OneLive(j)'
    BY <1>1, <1>3, <2>1, BeginRun
  <2>4. \A k \in Jobs \ {j} : runs'[k] = runs[k] /\ (k \in preflight' <=> k \in preflight)
    BY <1>1, <1>3
  <2> QED BY <1>1, <1>2, <1>3, <2>3, <2>4, WorkBegins
<1>4. CASE preflight' = preflight \cup {j} /\ UNCHANGED runs
  <2>1. Counts' /\ preflight' \subseteq Jobs
    BY <1>1, <1>4 DEF Inv, Counts
  <2>2. OneLive(j)'
    <3>1. j \in preflight' /\ \A r \in 1 .. Len(runs'[j]) : ~Live(j, r)'
      BY <1>1, <1>4 DEF Live
    <3> QED BY <3>1 DEF OneLive
  <2> QED BY <1>1, <1>2, <1>4, <2>1, <2>2, WorkBegins
<1> QED BY <1>3, <1>4 DEF Submit

LEMMA SubmitEmptyGood ==
  ASSUME Inv, NEW j \in Jobs, SubmitEmpty(j)
  PROVE  Good
<1>1. /\ runs[j] = <<>> /\ (\A r \in 1 .. Len(runs[j]) : ~Live(j, r))
      /\ j \notin preflight /\ Visible(j) = "not found" /\ TypeOK
  BY UnusedJob DEF SubmitEmpty
<1>2. /\ Fresh("done") \in Records /\ Fresh("done").status = "done" /\ Fresh("running") \in Records
  BY RecordTypes DEF Statuses
<1>3. /\ disk' \in [Jobs -> Records \cup {None, Torn}] /\ faults' \in Nat
      /\ \A k \in Jobs \ {j} : disk'[k] = disk[k]
      /\ faults' = 0 => faults = 0 /\ disk'[j] = Fresh("done")
  <2>1. CASE Persist(j, Fresh("done"))
    BY <1>1, <1>2, <2>1, PersistFact
  <2>2. CASE faults' = faults + 1 /\ disk' = [disk EXCEPT ![j] = Fresh("running")]
    <3>1. disk \in [Jobs -> Records \cup {None, Torn}] /\ faults' \in Nat /\ faults' # 0
      <4>1. TypeOK
        BY DEF Inv
      <4> QED BY <2>2, <4>1 DEF TypeOK
    <3>2. PICK rec \in Records : rec = Fresh("running")
      BY <1>2
    <3>3. disk' = [disk EXCEPT ![j] = rec]
      BY <2>2, <3>2
    <3> QED BY <3>1, <3>3
  <2> QED BY <2>1, <2>2 DEF SubmitEmpty
<1>4. /\ mem' \in [Jobs -> Records \cup {None}] /\ mem'[j] = Fresh("done")
      /\ \A k \in Jobs \ {j} : mem'[k] = mem[k]
      /\ UNCHANGED <<preflight, runs, crashes>>
  BY <1>1, <1>2 DEF SubmitEmpty, TypeOK
<1>5. TypeOK' /\ Counts'
  BY <1>1, <1>3, <1>4 DEF TypeOK, Inv, Counts
<1>6. mem'[j] # None
  BY <1>2, <1>4, Distinct
<1>7. JobInv(j)'
  <2>1. Known(j)'
    BY <1>6 DEF Known
  <2>2. NoneLive(j)'
    BY <1>1, <1>4 DEF NoneLive, Live
  <2>3. Works(j)'
    BY <1>2, <1>4, <2>2 DEF Works
  <2>4. Written(j)'
    BY <1>2, <1>3, <1>4, Distinct DEF Written
  <2> QED BY <2>1, <2>3, <2>4 DEF JobInv
<1>8. ASSUME NEW k \in Jobs, k # j PROVE JobInv(k)' /\ Flow(k)
  BY <1>1, <1>3, <1>4, <1>8, Untouched, SameFlow DEF Inv, TypeOK
<1>9. Flow(j)
  <2>1. Visible(j)' = "done"
    BY <1>2, <1>4, <1>6 DEF Visible
  <2> QED BY <1>1, <2>1 DEF Flow, Moves
<1> QED BY <1>5, <1>7, <1>8, <1>9 DEF Good, Inv

\* The lookup of the window hands its job over to a run.
LEMMA EndPreflightGood ==
  ASSUME Inv, NEW j \in Jobs, EndPreflight(j)
  PROVE  Good
<1>1. /\ j \in preflight /\ preflight' = preflight \ {j} /\ UNCHANGED <<mem, disk, crashes, faults>>
      /\ runs' = [runs EXCEPT ![j] = Append(@, NewRun)]
      /\ JobInv(j) /\ TypeOK
  BY DEF EndPreflight, Inv
<1>2. mem[j] # None /\ OneLive(j)
  BY <1>1 DEF JobInv, Known, Works, NoneLive
<1>3. runs' \in [Jobs -> Seq(Run)] /\ Counts' /\ OneLive(j)'
  BY <1>1, <1>2, BeginRun DEF OneLive
<1>4. TypeOK'
  BY <1>1, <1>3 DEF TypeOK
<1>5. mem[j].status = "running"
  BY <1>1, <1>2 DEF JobInv, Works, NoneLive
<1>6. JobInv(j)'
  BY <1>1, <1>2, <1>3, <1>5 DEF JobInv, Known, Works, Written
<1>7. ASSUME NEW k \in Jobs, k # j PROVE JobInv(k)'
  <2>1. runs'[k] = runs[k] /\ (k \in preflight' <=> k \in preflight)
    BY <1>1, <1>7 DEF TypeOK
  <2> QED BY <1>1, <2>1, Untouched DEF Inv, TypeOK
<1>8. \A k \in Jobs : Flow(k)
  BY <1>1, SameFlow
<1> QED BY <1>3, <1>4, <1>6, <1>7, <1>8 DEF Good, Inv

LEMMA ResumeGood ==
  ASSUME Inv, NEW j \in Jobs, Resume(j)
  PROVE  Good
<1>1. /\ Lookup(j) # None /\ Lookup(j).status = "awaiting_decision"
      /\ Save(j, Fresh("running")) /\ runs' = [runs EXCEPT ![j] = Append(@, NewRun)]
      /\ UNCHANGED <<preflight, crashes>>
      /\ JobInv(j) /\ TypeOK
  BY DEF Resume, CanResume, Inv
<1>2. Visible(j) = "awaiting_decision"
  BY <1>1 DEF Visible, Lookup
<1>3. NoneLive(j)
  <2>1. CASE mem[j] # None
    BY <1>1, <2>1 DEF JobInv, Works, Lookup
  <2>2. CASE mem[j] = None
    BY <1>1, <2>2 DEF JobInv, Known, NoneLive
  <2> QED BY <2>1, <2>2
<1>4. runs' \in [Jobs -> Seq(Run)] /\ Counts' /\ OneLive(j)'
  BY <1>1, <1>3, BeginRun DEF NoneLive
<1>5. preflight' \subseteq Jobs /\ \A k \in Jobs \ {j} : runs'[k] = runs[k] /\ (k \in preflight' <=> k \in preflight)
  BY <1>1 DEF TypeOK
<1> QED BY <1>1, <1>2, <1>4, <1>5, WorkBegins

\* What is read from disk is kept in memory: of a job this process never worked on.
LEMMA ReadGood ==
  ASSUME Inv, UNCHANGED <<disk, preflight, runs, crashes, faults>>,
         mem' \in [Jobs -> Records \cup {None}],
         \A k \in Jobs : mem'[k] \in {mem[k], Lookup(k)}
  PROVE  Good
<1>1. TypeOK' /\ Counts'
  BY DEF Inv, TypeOK, Counts
<1>2. ASSUME NEW k \in Jobs PROVE JobInv(k)' /\ Flow(k)
  <2>1. JobInv(k) /\ faults \in Nat /\ crashes \in Nat /\ mem[k] \in Records \cup {None}
    BY DEF Inv, TypeOK
  <2>2. CASE mem'[k] = mem[k]
    BY <2>1, <2>2, Untouched, SameFlow
  <2>3. CASE mem'[k] # mem[k]
    <3>1. mem[k] = None /\ disk[k] \in Records /\ mem'[k] = disk[k]
      BY <2>3 DEF Lookup, Readable
    <3>2. crashes > 0 /\ runs[k] = <<>> /\ k \notin preflight
      BY <2>1, <3>1, Distinct DEF JobInv, Known
    <3>3. mem'[k] # None
      BY <3>1, Distinct
    <3>4. JobInv(k)'
      BY <3>1, <3>2, <3>3, Distinct DEF JobInv, Known, Works, Written, NoneLive
    <3>5. Flow(k)
      BY <3>1, <3>3 DEF Flow, Visible, Readable
    <3> QED BY <3>4, <3>5
  <2> QED BY <2>2, <2>3
<1> QED BY <1>1, <1>2 DEF Good, Inv

LEMMA LookupType ==
  ASSUME TypeOK, NEW k \in Jobs
  PROVE  Lookup(k) \in Records \cup {None}
BY DEF TypeOK, Lookup, Readable

LEMMA CrashGood ==
  ASSUME Inv, Crash
  PROVE  Good
<1>1. /\ crashes' = crashes + 1 /\ UNCHANGED <<disk, faults>> /\ TypeOK
      /\ mem' = [k \in Jobs |-> None] /\ preflight' = {} /\ runs' = [k \in Jobs |-> <<>>]
  BY DEF Crash, Inv
<1>2. TypeOK' /\ crashes' > 0
  BY <1>1 DEF TypeOK
<1>3. Counts'
  BY <1>1 DEF Counts
<1>4. ASSUME NEW k \in Jobs PROVE JobInv(k)' /\ Flow(k)
  <2>1. JobInv(k) /\ mem[k] \in Records \cup {None}
    BY <1>1 DEF Inv, TypeOK
  <2>2. JobInv(k)'
    BY <1>1, <1>2, <2>1 DEF JobInv, Known, Works, Written
  <2>3. Flow(k)
    <3>1. CASE faults = 0 /\ mem[k] # None
      <4>1. disk'[k] = mem[k] /\ mem[k] \in Records /\ mem'[k] = None
        BY <1>1, <2>1, <3>1 DEF JobInv, Written
      <4> QED BY <1>1, <3>1, <4>1 DEF Flow, Visible, Readable
    <3>2. CASE faults = 0 /\ mem[k] = None
      BY <1>1, <3>2, SameFlow
    <3>3. CASE faults # 0
      BY <1>1, <1>2, <3>3 DEF Flow, TypeOK
    <3> QED BY <3>1, <3>2, <3>3
  <2> QED BY <2>2, <2>3
<1> QED BY <1>2, <1>3, <1>4 DEF Good, Inv

-----------------------------------------------------------------------------
LEMMA StepGood ==
  ASSUME Inv, [Next]_vars
  PROVE  Good
<1>1. TypeOK
  BY DEF Inv
<1>2. CASE \E j \in Jobs : Handlers(j) \/ \E r \in 1 .. Len(runs[j]) : RunStep(j, r)
  <2>1. PICK j \in Jobs : Handlers(j) \/ \E r \in 1 .. Len(runs[j]) : RunStep(j, r)
    BY <1>2
  <2>2. CASE Poll(j)
    <3>1. Lookup(j) \in Records \cup {None}
      BY <1>1, LookupType
    <3>2. mem' = [mem EXCEPT ![j] = Lookup(j)] /\ UNCHANGED <<disk, preflight, runs, crashes, faults>>
      BY <2>2 DEF Poll
    <3>3. /\ mem' \in [Jobs -> Records \cup {None}]
          /\ \A k \in Jobs : mem'[k] \in {mem[k], Lookup(k)}
      BY <1>1, <3>1, <3>2 DEF TypeOK
    <3> QED BY <3>2, <3>3, ReadGood
  <2>3. CASE Submit(j) \/ SubmitEmpty(j) \/ EndPreflight(j) \/ Resume(j)
    BY <2>3, SubmitGood, SubmitEmptyGood, EndPreflightGood, ResumeGood
  <2>4. CASE \E r \in 1 .. Len(runs[j]) : RunStep(j, r)
    BY <2>4, RunStepGood
  <2> QED BY <2>1, <2>2, <2>3, <2>4 DEF Handlers
<1>3. CASE ListParked
  <2>1. \A k \in Jobs : Lookup(k) \in Records \cup {None}
    BY <1>1, LookupType
  <2>2. mem' = [k \in Jobs |-> Lookup(k)] /\ UNCHANGED <<disk, preflight, runs, crashes, faults>>
    BY <1>3 DEF ListParked
  <2>3. /\ mem' \in [Jobs -> Records \cup {None}]
        /\ \A k \in Jobs : mem'[k] \in {mem[k], Lookup(k)}
    BY <2>1, <2>2
  <2> QED BY <2>2, <2>3, ReadGood
<1>4. CASE Crash
  BY <1>4, CrashGood
<1>5. CASE UNCHANGED vars
  <2>1. UNCHANGED <<mem, disk, preflight, runs, crashes, faults>>
    BY <1>5 DEF vars
  <2> QED BY <1>1, <2>1, ReadGood DEF TypeOK
<1> QED BY <1>2, <1>3, <1>4, <1>5 DEF Next

THEOREM Always == Spec => []Inv
<1>1. Inv /\ [Next]_vars => Inv'
  BY StepGood DEF Good
<1> QED BY <1>1, InvInit, PTL DEF Spec

(* The records in memory and on disk, the runs and the counters keep their *)
(* types: no run takes or reports more chunks than there are.              *)
THEOREM TypeCorrect == Spec => []TypeOK
<1>1. Inv => TypeOK
  BY DEF Inv
<1> QED BY <1>1, Always, PTL

(* A job is running as long as exactly one run, or the lookup before it,   *)
(* works on it: no resume, poll, late worker or restart makes it two, and  *)
(* none leaves a running job of this process with nobody to settle it.     *)
THEOREM OneRunPerJob == Spec => []RunningMeansOneRun
<1>1. ASSUME Inv, NEW j \in Jobs
      PROVE  IF mem[j] # None /\ mem[j].status = "running" /\ ~Adopted(j)
             THEN Cardinality(Working(j)) = 1
             ELSE Working(j) = {}
  <2>1. JobInv(j)
    BY <1>1 DEF Inv
  <2>2. \A r : r \in Working(j) <=> Live(j, r) \/ (r = 0 /\ j \in preflight)
    BY DEF Working, Live
  <2>3. NoneLive(j) => Working(j) = {}
    BY <2>2 DEF NoneLive, Live
  <2>4. OneLive(j) => \E x : Working(j) = {x}
    <3>1. CASE j \in preflight /\ \A r \in 1 .. Len(runs[j]) : ~Live(j, r)
      <4>1. Working(j) = {0}
        BY <2>2, <3>1 DEF Live
      <4> QED BY <4>1
    <3>2. CASE j \notin preflight /\ \E r \in 1 .. Len(runs[j]) :
                 Live(j, r) /\ \A q \in 1 .. Len(runs[j]) : Live(j, q) => q = r
      <4>1. PICK r \in 1 .. Len(runs[j]) :
              Live(j, r) /\ \A q \in 1 .. Len(runs[j]) : Live(j, q) => q = r
        BY <3>2
      <4>2. Working(j) = {r}
        BY <2>2, <3>2, <4>1 DEF Live
      <4> QED BY <4>2
    <3> QED BY <3>1, <3>2 DEF OneLive
  <2>5. OneLive(j) => Cardinality(Working(j)) = 1 /\ Working(j) # {}
    BY <2>4, FS_Singleton
  <2>6. CASE mem[j] = None
    <3>1. NoneLive(j)
      BY <2>1, <2>6 DEF JobInv, Known, NoneLive
    <3> QED BY <2>3, <2>6, <3>1
  <2>7. CASE mem[j] # None /\ mem[j].status # "running"
    BY <2>1, <2>3, <2>7 DEF JobInv, Works
  <2>8. CASE mem[j] # None /\ mem[j].status = "running" /\ OneLive(j)
    BY <2>5, <2>8 DEF Adopted
  <2>9. CASE mem[j] # None /\ mem[j].status = "running" /\ ~OneLive(j)
    <3>1. crashes > 0 /\ runs[j] = <<>> /\ j \notin preflight
      BY <2>1, <2>9 DEF JobInv, Works
    <3>2. NoneLive(j)
      BY <3>1 DEF NoneLive
    <3> QED BY <2>3, <3>1, <3>2 DEF Adopted
  <2> QED BY <2>6, <2>7, <2>8, <2>9
<1>2. Inv => RunningMeansOneRun
  BY <1>1 DEF RunningMeansOneRun
<1> QED BY <1>2, Always, PTL

(* A client that polls sees only the documented moves of a job's status,   *)
(* as long as no write has failed or the process has not been restarted.   *)
THEOREM ClientSeesTheFlow == Spec => StatusFlow
<1>1. Inv /\ [Next]_vars =>
        [(faults' = 0 \/ crashes' = 0) =>
           \A j \in Jobs : Visible(j)' # Visible(j) => <<Visible(j), Visible(j)'>> \in Moves]_vars
  BY StepGood DEF Good, Flow
<1> QED BY <1>1, Always, PTL DEF Spec, StatusFlow

-----------------------------------------------------------------------------
(* Runs as ChunkRun has them. *)

\* What ChunkRun sees of run r is that run and nothing else.
LEMMA SameRun ==
  ASSUME NEW j \in Jobs, NEW r \in Nat, r \in 1 .. Len(runs[j]) <=> r \in 1 .. Len(runs'[j]),
         r \in 1 .. Len(runs[j]) => runs'[j][r] = runs[j][r]
  PROVE  UNCHANGED RunAt(j, r)!vars
<1>1. HasBegun(j, r)' <=> HasBegun(j, r)
  BY DEF HasBegun
<1>2. StageOf(j, r)' = StageOf(j, r)
  BY DEF StageOf
<1>3. HasBegun(j, r) => runs'[j][r] = runs[j][r]
  BY DEF HasBegun
<1> QED BY <1>1, <1>2, <1>3 DEF RunAt!vars, RunAt!counts

\* A run that has not been cut counts nothing; one that has been counts what it has.
LEMMA SeenRun ==
  ASSUME Inv, NEW j \in Jobs, NEW r \in 1 .. Len(runs[j])
  PROVE  /\ runs[j][r].left \in 0 .. Chunks /\ runs[j][r].busy \in 0 .. Chunks
         /\ runs[j][r].done \in 0 .. Chunks /\ runs[j][r].phase \in Phases
         /\ runs[j][r].left + runs[j][r].busy + runs[j][r].done <= Chunks
         /\ runs[j][r].busy > 0 \/ runs[j][r].done > 0 => HasBegun(j, r)
<1>1. /\ runs[j][r].left \in 0 .. Chunks /\ runs[j][r].busy \in 0 .. Chunks
      /\ runs[j][r].done \in 0 .. Chunks /\ runs[j][r].phase \in Phases
      /\ runs[j][r].left + runs[j][r].busy + runs[j][r].done <= Chunks
  BY RunTypes DEF Inv, Counts
<1> QED BY <1>1, CountsAssumption DEF HasBegun

LEMMA RunMoves ==
  ASSUME Inv, NEW j \in Jobs, NEW r \in 1 .. Len(runs[j]), RunStep(j, r)
  PROVE  /\ RunAt(j, r)!Next
         /\ \A k \in Jobs, q \in Nat : k # j \/ q # r => UNCHANGED RunAt(k, q)!vars
<1>0. /\ runs[j][r].left \in 0 .. Chunks /\ runs[j][r].busy \in 0 .. Chunks
      /\ runs[j][r].done \in 0 .. Chunks /\ runs[j][r].phase \in Phases
      /\ runs[j][r].left + runs[j][r].busy + runs[j][r].done <= Chunks
      /\ runs[j][r].busy > 0 \/ runs[j][r].done > 0 => HasBegun(j, r)
      /\ Chunks \in Nat /\ Chunks > 0
  BY SeenRun, CountsAssumption
<1> USE DEF StageOf, HasBegun
<1>1. ASSUME NEW x, SetRun(j, r, x)
      PROVE  /\ r \in 1 .. Len(runs'[j]) /\ runs'[j][r] = x
             /\ \A k \in Jobs, q \in Nat : k # j \/ q # r => UNCHANGED RunAt(k, q)!vars
  <2>1. /\ runs' = [runs EXCEPT ![j] = [runs[j] EXCEPT ![r] = x]]
        /\ runs \in [Jobs -> Seq(Run)] /\ runs[j] \in Seq(Run)
    BY <1>1 DEF SetRun, Inv, TypeOK
  <2>2. /\ runs'[j] = [runs[j] EXCEPT ![r] = x] /\ \A k \in Jobs \ {j} : runs'[k] = runs[k]
    BY <2>1
  <2>3. /\ Len(runs'[j]) = Len(runs[j]) /\ runs'[j][r] = x
        /\ \A q \in 1 .. Len(runs[j]) : q # r => runs'[j][q] = runs[j][q]
    BY <2>1, <2>2
  <2>4. ASSUME NEW k \in Jobs, NEW q \in Nat, k # j \/ q # r PROVE UNCHANGED RunAt(k, q)!vars
    <3>1. r \in 1 .. Len(runs[k]) => (k = j => q # r)
      BY <2>4
    <3>2. /\ q \in 1 .. Len(runs[k]) <=> q \in 1 .. Len(runs'[k])
          /\ q \in 1 .. Len(runs[k]) => runs'[k][q] = runs[k][q]
      BY <2>2, <2>3, <2>4
    <3> QED BY <3>2, SameRun
  <2> QED BY <2>3, <2>4
<1>2. CASE BeginChunks(j, r)
  <2> DEFINE x == [phase |-> "going", left |-> Chunks - FirstTaken, busy |-> FirstTaken, done |-> 0]
  <2>1. SetRun(j, r, x) /\ runs[j][r].phase = "starting"
    BY <1>2 DEF BeginChunks, InPhase
  <2>2. FirstTaken \in 1 .. Chunks
    BY <1>0, CountsAssumption DEF FirstTaken
  <2>3. RunAt(j, r)!Cut
    BY <1>0, <1>1, <2>1, <2>2 DEF RunAt!Cut
  <2> QED BY <1>1, <2>1, <2>3 DEF RunAt!Next
<1>3. CASE StartFails(j, r) \/ MergeFails(j, r) \/ Complete(j, r) \/ Settle(j, r)
  <2>1. PICK p : /\ SetPhase(j, r, p)
                 /\ p = IF StartFails(j, r) \/ MergeFails(j, r) THEN "failing" ELSE "over"
    BY <1>3 DEF StartFails, MergeFails, Complete, Settle
  <2> DEFINE x == [phase |-> p, left |-> runs[j][r].left, busy |-> runs[j][r].busy,
                   done |-> runs[j][r].done]
  <2>2. SetRun(j, r, x)
    BY <2>1 DEF SetPhase
  <2>3. UNCHANGED RunAt(j, r)!counts
    BY <1>1, <2>2 DEF RunAt!counts
  <2>4. StageOf(j, r)' = p
    BY <1>1, <2>1, <2>2
  <2>5. CASE StartFails(j, r)
    <3>1. RunAt(j, r)!CannotCut
      BY <1>0, <2>1, <2>3, <2>4, <2>5 DEF StartFails, InPhase, RunAt!CannotCut
    <3> QED BY <1>1, <2>2, <3>1 DEF RunAt!Next
  <2>6. CASE AllDone(j, r)
    <3>1. runs[j][r].phase = "going" /\ runs[j][r].left = 0 /\ runs[j][r].busy = 0
      BY <1>0, <2>6 DEF AllDone, InPhase
    <3>2. RunAt(j, r)!AllTold
      BY <3>1 DEF RunAt!AllTold
    <3>3. RunAt(j, r)!Reject \/ RunAt(j, r)!Succeed
      BY <2>1, <2>3, <2>4, <3>2 DEF RunAt!Reject, RunAt!Succeed
    <3> QED BY <1>1, <2>2, <3>3 DEF RunAt!Next
  <2>7. CASE Settle(j, r)
    <3>1. runs[j][r].phase = "failing" /\ p = "over"
      BY <2>1, <2>7 DEF Settle, StartFails, MergeFails, AllDone, InPhase
    <3>2. RunAt(j, r)!Settle
      BY <2>3, <2>4, <3>1 DEF RunAt!Settle
    <3> QED BY <1>1, <2>2, <3>2 DEF RunAt!Next
  <2> QED BY <1>3, <2>5, <2>6, <2>7 DEF MergeFails, Complete
<1>4. CASE ChunkSucceeds(j, r)
  <2> DEFINE x == AfterChunk(runs[j][r])
  <2>1. SetRun(j, r, x) /\ runs[j][r].busy > 0
    BY <1>4 DEF ChunkSucceeds
  <2>2. /\ x.phase = runs[j][r].phase /\ x.done = runs[j][r].done + 1
        /\ \/ x.left = runs[j][r].left /\ x.busy = runs[j][r].busy - 1
           \/ runs[j][r].left > 0 /\ x.left = runs[j][r].left - 1 /\ x.busy = runs[j][r].busy
    BY <1>0 DEF AfterChunk
  <2> HIDE DEF x
  <2>3. HasBegun(j, r) /\ HasBegun(j, r)'
    BY <1>0, <1>1, <2>1, <2>2
  <2>4. RunAt(j, r)!Tell
    BY <1>0, <1>1, <2>1, <2>2, <2>3 DEF RunAt!Tell
  <2> QED BY <1>1, <2>1, <2>4 DEF RunAt!Next
<1>5. CASE ChunkFails(j, r)
  <2> DEFINE x == [phase |-> PhaseAfterFailure(runs[j][r].phase), left |-> runs[j][r].left,
                   busy |-> runs[j][r].busy - 1, done |-> runs[j][r].done]
  <2>1. SetRun(j, r, x) /\ runs[j][r].busy > 0
    BY <1>5 DEF ChunkFails
  <2>2. HasBegun(j, r) /\ HasBegun(j, r)'
    BY <1>0, <1>1, <2>1
  <2>3. RunAt(j, r)!Break
    BY <1>0, <1>1, <2>1, <2>2 DEF RunAt!Break, PhaseAfterFailure, Phases
  <2> QED BY <1>1, <2>1, <2>3 DEF RunAt!Next
<1> QED BY <1>2, <1>3, <1>4, <1>5 DEF RunStep, ChunkStep

\* A run that joins its job's others is new, and so is one that does not exist.
LEMMA RunJoins ==
  ASSUME Inv, NEW j \in Jobs, runs' = [runs EXCEPT ![j] = Append(runs[j], NewRun)],
         NEW k \in Jobs, NEW q \in Nat
  PROVE  UNCHANGED RunAt(k, q)!vars
<1>0. NewRun \in Run /\ NewRun.phase = "starting" /\ NewRun.left = Chunks /\ Chunks \in Nat
  BY CountsAssumption DEF NewRun, Run, Phases
<1>1. runs \in [Jobs -> Seq(Run)] /\ runs[j] \in Seq(Run)
  BY DEF Inv, TypeOK
<1>2. /\ Len(runs'[j]) = Len(runs[j]) + 1 /\ Len(runs[j]) \in Nat
      /\ \A p \in 1 .. Len(runs[j]) : runs'[j][p] = runs[j][p]
      /\ runs'[j][Len(runs[j]) + 1] = NewRun
      /\ \A i \in Jobs \ {j} : runs'[i] = runs[i]
  BY <1>0, <1>1
<1>3. CASE k = j /\ q = Len(runs[j]) + 1
  <2>1. /\ StageOf(k, q) = "new" /\ StageOf(k, q)' = "new"
        /\ ~HasBegun(k, q) /\ ~HasBegun(k, q)'
    BY <1>0, <1>2, <1>3 DEF StageOf, HasBegun
  <2> QED BY <2>1 DEF RunAt!vars, RunAt!counts
<1>4. CASE k # j \/ q # Len(runs[j]) + 1
  <2>1. /\ q \in 1 .. Len(runs[k]) <=> q \in 1 .. Len(runs'[k])
        /\ q \in 1 .. Len(runs[k]) => runs'[k][q] = runs[k][q]
    BY <1>2, <1>4
  <2> QED BY <2>1, SameRun
<1> QED BY <1>3, <1>4

LEMMA JobStepRefines ==
  ASSUME Inv, [Next]_vars, NEW k \in Jobs, NEW q \in 1 .. MaxRuns
  PROVE  [RunAt(k, q)!Next]_(RunAt(k, q)!vars)
<1>0. q \in Nat
  BY BoundsAssumption
<1>1. CASE UNCHANGED runs
  BY <1>0, <1>1, SameRun
<1>2. ASSUME NEW j \in Jobs, NEW r \in 1 .. Len(runs[j]), RunStep(j, r)
      PROVE  [RunAt(k, q)!Next]_(RunAt(k, q)!vars)
  BY <1>0, <1>2, RunMoves
<1>3. ASSUME NEW j \in Jobs, Handlers(j) PROVE [RunAt(k, q)!Next]_(RunAt(k, q)!vars)
  <2>1. CASE EndPreflight(j) \/ Resume(j)
    <3>1. runs' = [runs EXCEPT ![j] = Append(runs[j], NewRun)]
      BY <2>1 DEF EndPreflight, Resume
    <3> QED BY <1>0, <3>1, RunJoins
  <2>2. CASE Submit(j) /\ ~UNCHANGED runs
    <3>1. runs[j] = <<>> /\ runs' = [runs EXCEPT ![j] = <<NewRun>>]
      BY <2>2, UnusedJob DEF Submit
    <3>2. Append(runs[j], NewRun) = <<NewRun>>
      <4>1. NewRun \in Run
        BY CountsAssumption DEF NewRun, Run, Phases
      <4>2. \A x \in Run : Append(<<>>, x) = <<x>>
        OBVIOUS
      <4> QED BY <3>1, <4>1, <4>2
    <3> QED BY <1>0, <3>1, <3>2, RunJoins
  <2>3. CASE SubmitEmpty(j) \/ Poll(j)
    BY <1>1, <2>3 DEF SubmitEmpty, Poll
  <2> QED BY <1>1, <1>3, <2>1, <2>2, <2>3 DEF Handlers
<1>4. CASE ListParked \/ UNCHANGED vars
  BY <1>1, <1>4 DEF ListParked, vars
<1>5. CASE Crash
  <2>1. runs'[k] = <<>> /\ q \notin 1 .. Len(runs'[k])
    BY <1>5 DEF Crash
  <2>2. RunAt(k, q)!Die
    BY <2>1 DEF RunAt!Die, StageOf, HasBegun
  <2> QED BY <2>2 DEF RunAt!Next
<1> QED BY <1>2, <1>3, <1>4, <1>5 DEF Next

\* Each run of a job does what ChunkRun says, whatever the other runs of its job, resumes,
\* failed writes and restarts do.
THEOREM RunsDoAsChunkRun == Spec => RunsAreChunkRuns
<1>1. Init => \A j \in Jobs, r \in 1 .. MaxRuns : RunAt(j, r)!Init
  <2> SUFFICES ASSUME Init, NEW j \in Jobs, NEW r \in 1 .. MaxRuns PROVE RunAt(j, r)!Init
    OBVIOUS
  <2>1. runs[j] = <<>> /\ r \notin 1 .. Len(runs[j])
    BY DEF Init
  <2> QED BY <2>1 DEF RunAt!Init, StageOf, HasBegun
<1>2. Inv /\ [Next]_vars =>
        \A j \in Jobs, r \in 1 .. MaxRuns : [RunAt(j, r)!Next]_(RunAt(j, r)!vars)
  BY JobStepRefines
<1> QED BY <1>1, <1>2, Always, PTL DEF Spec, RunsAreChunkRuns

-----------------------------------------------------------------------------
(* The extraction: its inductive invariant. *)

Sized == \A c \in 1 .. Len(slices) : slices[c].end - slices[c].start <= room
CoveredTo(x) ==
  \A p \in 0 .. total : \A n \in 1 .. Stretch :
    p < x /\ p + n <= total =>
      \E c \in 1 .. Len(slices) : slices[c].start <= p /\ p + n <= slices[c].end
Inside == \A d \in Discoveries : at[d] \in 0 .. total /\ at[d] + Size[d] <= total

\* Every stretch that begins before what is planned lies in a slice; only a single pass
\* makes one slice of it all.
Plans ==
  /\ phase = "starting" => slices = <<>> /\ cursor = 0
  /\ phase = "planning" =>
       /\ 0 < room /\ room < total /\ (slices = <<>> => cursor = 0)
       /\ Sized /\ CoveredTo(cursor)
  /\ phase \in {"asking", "merging", "done"} =>
       /\ slices # <<>> /\ Sized /\ CoveredTo(total)
       /\ Len(slices) = 1 => slices[1].start = 0 /\ slices[1].end = total
  /\ Len(answers) = IF phase = "planning" THEN 0 ELSE Len(slices)

Backoffs == \A w \in Pool : call[w].state = "waiting" => call[w].attempt < MaxAttempts

Out(w) == call[w].state \in {"asking", "waiting"}
\* Each slice that is taken is one worker's, until it is answered or its worker stops.
Workings ==
  /\ phase \in {"starting", "planning"} => next = 1
  /\ \A w \in Pool : Out(w) =>
       /\ call[w].chunk \in 1 .. Len(answers) /\ call[w].chunk < next
       /\ answers[call[w].chunk] = NoAnswer
       /\ \A v \in Pool \ {w} : Out(v) => call[v].chunk # call[w].chunk
  /\ \A c \in 1 .. Len(answers) : c >= next => answers[c] = NoAnswer

Answers ==
  \A c \in 1 .. Len(answers) : answers[c] # NoAnswer /\ c \notin cut =>
    \A d \in Discoveries : Whole(d, slices[c]) =>
      \E i \in 1 .. Len(answers[c]) : answers[c][i].what = d

\* What the merge has read.
IsRead(c, i) == c < source \/ (c = source /\ i <= taken)
IsFirst(m, c) == Contains(answers[c], m) /\ \A b \in 1 .. c - 1 : ~Contains(answers[b], m)

HasRead ==
  \A c \in 1 .. Len(answers) : \A i \in 1 .. Len(answers[c]) :
    IsRead(c, i) => Contains(result, answers[c][i])
WasTold ==
  \A k \in 1 .. Len(result) :
    \E c \in 1 .. Len(answers) : c <= source /\ IsFirst(result[k], c)
InOrder ==
  Len(answers) > 1 => \A j, k \in 1 .. Len(result) : j < k =>
    /\ result[j] # result[k]
    /\ \A b, c \in 1 .. Len(answers) : IsFirst(result[j], b) /\ IsFirst(result[k], c) => b <= c

Merges ==
  /\ phase \in {"starting", "planning", "asking"} => source = 1 /\ taken = 0 /\ result = <<>>
  /\ phase = "done" => source = Len(answers) + 1
  /\ phase \in {"merging", "done"} =>
       /\ \A c \in 1 .. Len(answers) : answers[c] # NoAnswer
       /\ source \in 1 .. Len(answers) + 1
       /\ taken <= IF source <= Len(answers) THEN Len(answers[source]) ELSE 0
       /\ HasRead /\ WasTold /\ InOrder

ExtractionInv == ExtractionTypeOK /\ Inside /\ Plans /\ Backoffs /\ Workings /\ Answers /\ Merges

-----------------------------------------------------------------------------
LEMMA SeqExcept ==
  ASSUME NEW S, NEW s \in Seq(S), NEW c \in 1 .. Len(s), NEW x \in S,
         NEW t, t = [s EXCEPT ![c] = x]
  PROVE  /\ t \in Seq(S) /\ Len(t) = Len(s) /\ t[c] = x
         /\ \A b \in 1 .. Len(s) : b # c => t[b] = s[b]
<1>1. s \in [1 .. Len(s) -> S] /\ Len(s) \in Nat
  OBVIOUS
<1>2. t \in [1 .. Len(s) -> S]
  BY <1>1
<1>3. t \in Seq(S) /\ Len(t) = Len(s)
  BY <1>1, <1>2
<1> QED BY <1>1, <1>3

LEMMA ExtractionBegins == ExtractionInit => ExtractionInv
<1> SUFFICES ASSUME ExtractionInit PROVE ExtractionInv
  OBVIOUS
<1>1. total \in Nat /\ room \in Int /\ at \in [Discoveries -> 0 .. total]
  BY InputsAssumption DEF ExtractionInit
<1>2. call \in [Pool -> Call]
  BY RetriesAssumption DEF ExtractionInit, Free, Call, States
<1>3. ExtractionTypeOK
  BY <1>1, <1>2 DEF ExtractionInit, ExtractionTypeOK, Stages
<1>4. Inside /\ Plans
  BY <1>1 DEF ExtractionInit, Inside, Plans
<1>5. Backoffs /\ Workings /\ Answers /\ Merges
  BY DEF ExtractionInit, Backoffs, Workings, Out, Answers, Merges, Free
<1> QED BY <1>3, <1>4, <1>5 DEF ExtractionInv

\* Slices, once planned, keep what they cover.
Later ==
  /\ UNCHANGED <<input, plan>> /\ Len(answers') = Len(answers)
  /\ \/ phase' \in {phase, "failed"} /\ phase # "planning"
     \/ phase = "asking" /\ phase' = "merging"
     \/ phase = "merging" /\ phase' = "done"

LEMMA LaterPlans ==
  ASSUME ExtractionInv, Later
  PROVE  Inside' /\ Plans' /\ phase' \in Stages

<1>1. Inside'
  BY DEF ExtractionInv, Later, Inside, input
<1>2. Plans'
  BY DEF ExtractionInv, Later, Plans, Sized, CoveredTo, Stretch, input, plan
<1> QED BY <1>1, <1>2 DEF ExtractionInv, ExtractionTypeOK, Later, Stages

\* The calls begin: nothing is taken, answered or merged yet.
LEMMA BegunAsking ==
  ASSUME ExtractionInv, phase \in {"starting", "planning"}, phase' = "asking",
         slices' \in Seq(Slice), answers' = [c \in 1 .. Len(slices') |-> NoAnswer],
         UNCHANGED <<next, call, cut, merge>>
  PROVE  Workings' /\ Answers' /\ Merges'
<1>1. \A w \in Pool : ~Out(w)
  BY DEF ExtractionInv, ExtractionTypeOK, Workings
<1>2. Len(answers') = Len(slices') /\ Len(slices') \in Nat
      /\ \A c \in 1 .. Len(answers') : answers'[c] = NoAnswer
  OBVIOUS
<1>3. Workings'
  BY <1>1, <1>2 DEF Workings, Out
<1>4. Answers' /\ Merges'
  BY <1>2 DEF ExtractionInv, Answers, Merges, merge
<1> QED BY <1>3, <1>4

LEMMA SinglePassStep ==
  ASSUME ExtractionInv, SinglePass
  PROVE  ExtractionInv'
<1> DEFINE s == [start |-> 0, end |-> total]
<1>1. s \in Slice /\ s.start = 0 /\ s.end = total /\ total \in Nat /\ room \in Int /\ total <= room
  BY DEF ExtractionInv, ExtractionTypeOK, SinglePass, Slice
<1>2. /\ slices' = <<s>> /\ phase = "starting" /\ phase' = "asking"
      /\ answers' = [c \in 1 .. Len(slices') |-> NoAnswer]
      /\ UNCHANGED <<input, cursor, next, call, cut, merge>>
  BY DEF SinglePass, BeginAsking
<1> HIDE DEF s
<1>3. slices' \in Seq(Slice) /\ Len(slices') = 1 /\ slices'[1] = s
  BY <1>1, <1>2
<1>4. ExtractionTypeOK' /\ Inside' /\ Backoffs'
  <2>1. answers' \in Seq(Seq(Memories) \cup {NoAnswer})
    BY <1>2, <1>3
  <2> QED BY <1>2, <1>3, <2>1
          DEF ExtractionInv, ExtractionTypeOK, Inside, Backoffs, input, merge, Stages
<1>5. Sized'
  BY <1>1, <1>2, <1>3 DEF Sized, input
<1>6. CoveredTo(total)'
  <2>1. total' = total
    BY <1>2 DEF input
  <2>2. 1 \in 1 .. Len(slices') /\ slices'[1].start = 0 /\ slices'[1].end = total
    BY <1>1, <1>3
  <2>3. ASSUME NEW p \in 0 .. total, NEW n \in 1 .. Stretch', p + n <= total
        PROVE  \E c \in 1 .. Len(slices') : slices'[c].start <= p /\ p + n <= slices'[c].end
    BY <1>1, <2>2, <2>3
  <2> QED BY <2>1, <2>3 DEF CoveredTo
<1>7. Plans'
  <2>1. total' = total /\ Len(answers') = 1 /\ slices' # <<>>
    BY <1>2, <1>3 DEF input
  <2> QED BY <1>1, <1>2, <1>3, <1>5, <1>6, <2>1 DEF Plans
<1>8. Workings' /\ Answers' /\ Merges'
  BY <1>2, <1>3, BegunAsking
<1> QED BY <1>4, <1>7, <1>8 DEF ExtractionInv

\* The heart of planChunkSlices: a stretch that begins before the next cursor ends
\* within the slice just made.
LEMMA SliceHolds ==
  ASSUME NEW x \in Nat, NEW t \in Nat, NEW r \in Nat, NEW o \in Nat, x < t, r > 0,
         NEW end \in Nat, end = IF x + r < t THEN x + r ELSE t,
         NEW p \in Nat, NEW n \in Nat, n > 0, n <= IF r > o THEN o + 1 ELSE 1, p + n <= t,
         end < t => p < IF end - o > x THEN end - o ELSE end
  PROVE  p + n <= end
OBVIOUS

LEMMA PlanSliceStep ==
  ASSUME ExtractionInv, PlanSlice
  PROVE  ExtractionInv'
<1> DEFINE s == [start |-> cursor, end |-> SliceEnd]
<1>1. /\ total \in Nat /\ room \in Nat /\ room > 0 /\ cursor \in Nat /\ cursor < total
      /\ SliceEnd \in Nat /\ SliceEnd - cursor <= room /\ SliceEnd <= total
      /\ SliceEnd = IF cursor + room < total THEN cursor + room ELSE total
      /\ room < total /\ (slices = <<>> => cursor = 0)
  BY DEF ExtractionInv, ExtractionTypeOK, Plans, PlanSlice, SliceEnd
<1>2. s \in Slice /\ s.start = cursor /\ s.end = SliceEnd
  BY <1>1 DEF Slice
<1>3. slices' = Append(slices, s) /\ phase = "planning" /\ UNCHANGED <<input, next, call, cut, merge>>
  BY DEF PlanSlice, BeginAsking
<1>4. IF SliceEnd >= total
      THEN /\ phase' = "asking" /\ cursor' = cursor
           /\ answers' = [c \in 1 .. Len(slices') |-> NoAnswer]
      ELSE phase' = "planning" /\ cursor' = NextCursor /\ answers' = answers
  BY DEF PlanSlice, BeginAsking
<1> HIDE DEF s
<1>5. /\ slices' \in Seq(Slice) /\ Len(slices) \in Nat /\ Len(slices') = Len(slices) + 1
      /\ \A c \in 1 .. Len(slices) : slices'[c] = slices[c]
      /\ slices'[Len(slices) + 1] = s
  BY <1>2, <1>3 DEF ExtractionInv, ExtractionTypeOK
<1>6. NextCursor \in Nat
  BY <1>1, InputsAssumption DEF NextCursor
<1>7. total' = total /\ room' = room /\ at' = at /\ Stretch' = Stretch
  BY <1>3 DEF input, Stretch
<1>8. ExtractionTypeOK'
  <2>1. answers' \in Seq(Seq(Memories) \cup {NoAnswer})
    BY <1>4, <1>5 DEF ExtractionInv, ExtractionTypeOK
  <2> QED BY <1>3, <1>4, <1>5, <1>6, <1>7, <2>1 DEF ExtractionInv, ExtractionTypeOK, merge, Stages
<1>9. Inside'
  BY <1>7 DEF ExtractionInv, Inside
<1>10. Sized'
  <2>1. Sized
    BY DEF ExtractionInv, Plans, PlanSlice
  <2>2. ASSUME NEW c \in 1 .. Len(slices') PROVE slices'[c].end - slices'[c].start <= room
    <3>1. c \in 1 .. Len(slices) \/ c = Len(slices) + 1
      BY <1>5
    <3> QED BY <1>1, <1>2, <1>5, <2>1, <3>1 DEF Sized
  <2> QED BY <1>7, <2>2 DEF Sized
<1>11. ASSUME NEW x \in Nat, SliceEnd < total => x = NextCursor
       PROVE  CoveredTo(x)'
  <2>1. SUFFICES ASSUME NEW p \in 0 .. total, NEW n \in 1 .. Stretch, p < x, p + n <= total
                 PROVE  \E c \in 1 .. Len(slices') : slices'[c].start <= p /\ p + n <= slices'[c].end
    BY <1>7 DEF CoveredTo
  <2>2. CASE p < cursor
    <3>1. PICK c \in 1 .. Len(slices) : slices[c].start <= p /\ p + n <= slices[c].end
      BY <2>1, <2>2 DEF ExtractionInv, Plans, PlanSlice, CoveredTo
    <3> QED BY <1>5, <3>1
  <2>3. CASE p >= cursor
    <3>1. n \in Nat /\ n > 0 /\ n <= IF room > Overlap THEN Overlap + 1 ELSE 1
      BY <1>1, <2>1, InputsAssumption DEF Stretch
    <3>2. SliceEnd < total => p < IF SliceEnd - Overlap > cursor THEN SliceEnd - Overlap ELSE SliceEnd
      BY <1>11, <2>1 DEF NextCursor
    <3>3. p + n <= SliceEnd
      BY <1>1, <2>1, <3>1, <3>2, SliceHolds, InputsAssumption
    <3> QED BY <1>2, <1>5, <2>3, <3>3
  <2> QED BY <1>1, <2>1, <2>2, <2>3
<1>12. Plans'
  <2>0. slices' # <<>>
    BY <1>5
  <2>1. CASE SliceEnd >= total
    <3>1. PICK x \in Nat : x = total /\ x = total'
      BY <1>1, <1>7
    <3>2. CoveredTo(x)'
      BY <1>1, <1>11, <2>1
    <3>3. CoveredTo(total)'
      BY <3>1, <3>2 DEF CoveredTo
    <3>4. phase' = "asking" /\ Len(answers') = Len(slices')
      BY <1>4, <1>5, <2>1
    <3>5. Len(slices') # 1
      BY <1>1, <1>5, <2>1 DEF ExtractionInv, ExtractionTypeOK
    <3> QED BY <1>10, <2>0, <3>3, <3>4, <3>5 DEF Plans
  <2>2. CASE SliceEnd < total
    <3>1. PICK x \in Nat : x = NextCursor /\ x = cursor'
      BY <1>1, <1>4, <1>6, <2>2
    <3>2. CoveredTo(x)'
      BY <1>11, <3>1
    <3>3. CoveredTo(cursor)'
      BY <3>1, <3>2 DEF CoveredTo
    <3>4. phase' = "planning" /\ room' > 0 /\ room' < total' /\ Len(answers') = 0
      BY <1>1, <1>3, <1>4, <1>7, <2>2 DEF ExtractionInv, Plans
    <3> QED BY <1>10, <2>0, <3>3, <3>4 DEF Plans
  <2> QED BY <1>1, <2>1, <2>2
<1>13. Backoffs'
  BY <1>3 DEF ExtractionInv, Backoffs
<1>14. Workings' /\ Answers' /\ Merges'
  <2>1. CASE SliceEnd >= total
    BY <1>3, <1>4, <1>5, <2>1, BegunAsking
  <2>2. CASE SliceEnd < total
    BY <1>3, <1>4, <2>2 DEF ExtractionInv, Plans, Workings, Out, Answers, Merges, merge
  <2> QED BY <1>1, <2>1, <2>2
<1> QED BY <1>8, <1>9, <1>12, <1>13, <1>14 DEF ExtractionInv

-----------------------------------------------------------------------------
\* A call that is out has its slice to itself, and the extraction is in no phase but those.
LEMMA OutFacts ==
  ASSUME ExtractionInv, NEW w \in Pool, Out(w)
  PROVE  /\ call[w] \in Call /\ call[w].chunk \in 1 .. Len(answers)
         /\ call[w].attempt \in 1 .. MaxAttempts /\ call[w].format \in 1 .. Formats
         /\ phase \in {"asking", "failed"}
<1>1. call[w] \in Call
  BY DEF ExtractionInv, ExtractionTypeOK
<1>2. /\ call[w].chunk \in 1 .. Len(answers) /\ answers[call[w].chunk] = NoAnswer
      /\ call[w].chunk < next
  BY DEF ExtractionInv, Workings
<1>3. phase \notin {"merging", "done"}
  BY <1>2 DEF ExtractionInv, Merges
<1>4. phase \notin {"starting", "planning"}
  BY <1>1, <1>2 DEF ExtractionInv, Workings, Call
<1> QED BY <1>1, <1>2, <1>3, <1>4 DEF ExtractionInv, ExtractionTypeOK, Stages, Call

\* A worker goes on with its slice, or leaves it.
LEMMA SameSlice ==
  ASSUME ExtractionInv, NEW w \in Pool, Out(w), NEW k \in Call, SetCall(w, k),
         k.state \in {"asking", "waiting"} => k.chunk = call[w].chunk,
         k.state = "waiting" => k.attempt < MaxAttempts,
         phase' \in {phase, "failed"}, UNCHANGED <<input, plan, next, answers, cut, merge>>
  PROVE  ExtractionInv'
<1>0. call \in [Pool -> Call] /\ phase \in {"asking", "failed"} /\ Len(answers) \in Nat
  BY OutFacts DEF ExtractionInv, ExtractionTypeOK
<1>1. call' \in [Pool -> Call] /\ call'[w] = k /\ \A v \in Pool : v # w => call'[v] = call[v]
  BY <1>0 DEF SetCall
<1>2. Inside' /\ Plans' /\ phase' \in Stages
  BY <1>0, LaterPlans DEF Later
<1>3. ExtractionTypeOK'
  BY <1>1, <1>2 DEF ExtractionInv, ExtractionTypeOK, input, plan, merge
<1>4. Backoffs'
  BY <1>1 DEF ExtractionInv, Backoffs
<1>5. Workings'
  <2>1. ASSUME NEW v \in Pool, Out(v)' PROVE Out(v) /\ call'[v].chunk = call[v].chunk
    BY <1>1, <2>1 DEF Out
  <2>2. \A v \in Pool : Out(v)' => Out(v) /\ call'[v].chunk = call[v].chunk
    BY <2>1
  <2> QED BY <1>0, <2>2 DEF ExtractionInv, Workings
<1>6. Answers'
  BY DEF ExtractionInv, Answers, Whole, input, plan
<1>7. Merges'
  BY <1>0 DEF ExtractionInv, Merges, merge
<1> QED BY <1>2, <1>3, <1>4, <1>5, <1>6, <1>7 DEF ExtractionInv

LEMMA TakeStep ==
  ASSUME ExtractionInv, NEW w \in Pool, Take(w)
  PROVE  ExtractionInv'
<1> DEFINE k == [state |-> "asking", chunk |-> next, attempt |-> 1, format |-> 1]
<1>0. /\ call \in [Pool -> Call] /\ phase \in {"asking", "failed"} /\ next \in Nat /\ next > 0
      /\ Len(answers) \in Nat /\ Len(slices) = Len(answers) /\ next <= Len(slices)
      /\ call[w].state = "free" /\ next' = next + 1
      /\ UNCHANGED <<input, phase, plan, answers, cut, merge>>
  BY DEF Take, ExtractionInv, ExtractionTypeOK, Plans
<1>1. k \in Call /\ k.state = "asking" /\ k.chunk = next
  BY <1>0, RetriesAssumption DEF Call, States
<1>2. call' = [call EXCEPT ![w] = k]
  BY DEF Take, Ask, SetCall
<1> HIDE DEF k
<1>3. call' \in [Pool -> Call] /\ call'[w] = k /\ \A v \in Pool : v # w => call'[v] = call[v]
  BY <1>0, <1>1, <1>2
<1>4. Inside' /\ Plans' /\ phase' \in Stages
  BY <1>0, LaterPlans DEF Later
<1>5. ExtractionTypeOK'
  BY <1>0, <1>3, <1>4 DEF ExtractionInv, ExtractionTypeOK, input, plan, merge
<1>6. Backoffs'
  BY <1>1, <1>3 DEF ExtractionInv, Backoffs
<1>7. Workings'
  <2>1. \A v \in Pool : v # w => (Out(v)' <=> Out(v))
    BY <1>3 DEF Out
  <2>2. \A v \in Pool : Out(v) => call[v].chunk < next /\ call[v].chunk \in 1 .. Len(answers)
    BY DEF ExtractionInv, Workings
  <2>3. answers[next] = NoAnswer
    BY <1>0 DEF ExtractionInv, Workings
  <2>4. ASSUME NEW v \in Pool, Out(v)'
        PROVE  /\ call'[v].chunk \in 1 .. Len(answers) /\ call'[v].chunk < next'
               /\ answers[call'[v].chunk] = NoAnswer
               /\ \A u \in Pool \ {v} : Out(u)' => call'[u].chunk # call'[v].chunk
    <3>1. CASE v = w
      BY <1>0, <1>1, <1>3, <2>1, <2>2, <2>3, <3>1
    <3>2. CASE v # w
      <4>1. Out(v) /\ call'[v] = call[v]
        BY <1>3, <2>1, <2>4, <3>2
      <4>2. call[v].chunk \in 1 .. Len(answers) /\ call[v].chunk < next
            /\ answers[call[v].chunk] = NoAnswer
            /\ \A u \in Pool \ {v} : Out(u) => call[u].chunk # call[v].chunk
        BY <4>1 DEF ExtractionInv, Workings
      <4>3. ASSUME NEW u \in Pool \ {v}, Out(u)' PROVE call'[u].chunk # call'[v].chunk
        BY <1>1, <1>3, <2>1, <4>1, <4>2, <4>3
      <4> QED BY <1>0, <4>1, <4>2, <4>3
    <3> QED BY <3>1, <3>2
  <2>5. \A c \in 1 .. Len(answers') : c >= next' => answers'[c] = NoAnswer
    BY <1>0 DEF ExtractionInv, Workings
  <2> QED BY <1>0, <2>4, <2>5 DEF Workings
<1>8. Answers'
  BY <1>0 DEF ExtractionInv, Answers, Whole, input, plan
<1>9. Merges'
  BY <1>0 DEF ExtractionInv, Merges, merge
<1> QED BY <1>4, <1>5, <1>6, <1>7, <1>8, <1>9 DEF ExtractionInv

\* The list of what a slice holds whole has all of it.
LEMMA FoundIs ==
  ASSUME NEW c, NEW found \in Found(c)
  PROVE  /\ found \in Seq(Discoveries)
         /\ \A d \in Discoveries : Whole(d, slices[c]) => \E i \in 1 .. Len(found) : found[i] = d
<1> DEFINE whole == {d \in Discoveries : Whole(d, slices[c])}
           n == Cardinality(whole)
<1>1. IsFiniteSet(whole)
  BY DiscoveriesAssumption, FS_Subset
<1>2. n \in Nat
  BY <1>1, FS_CardinalityType
<1>3. found \in Bijection(1 .. n, whole)
  BY DEF Found
<1>4. found \in [1 .. n -> whole] /\ \A d \in whole : \E i \in 1 .. n : found[i] = d
  BY <1>3 DEF Bijection, Surjection
<1>5. \A x \in whole : x \in Discoveries
  OBVIOUS
<1>6. \A d \in Discoveries : Whole(d, slices[c]) => d \in whole
  OBVIOUS
<1> HIDE DEF whole, n
<1>7. found \in [1 .. n -> Discoveries]
  BY <1>4, <1>5
<1>8. found \in Seq(Discoveries) /\ Len(found) = n
  BY <1>2, <1>7
<1> QED BY <1>4, <1>6, <1>8

LEMMA ToldIs ==
  ASSUME NEW found \in Seq(Discoveries), NEW n \in 0 .. Len(found), NEW words \in [1 .. n -> Wordings]
  PROVE  /\ Told(found, n, words) \in Seq(Memories) /\ Len(Told(found, n, words)) = n
         /\ \A i \in 1 .. n : Told(found, n, words)[i].what = found[i]
<1>1. n \in Nat /\ \A i \in 1 .. n : found[i] \in Discoveries
  OBVIOUS
<1>2. \A i \in 1 .. n : [what |-> found[i], words |-> words[i]] \in Memories
  BY <1>1 DEF Memories
<1>3. Told(found, n, words) \in [1 .. n -> Memories]
  BY <1>2 DEF Told
<1>4. Told(found, n, words) \in Seq(Memories) /\ Len(Told(found, n, words)) = n
  BY <1>1, <1>3
<1> QED BY <1>4 DEF Told

LEMMA TellsStep ==
  ASSUME ExtractionInv, NEW w \in Pool, Tells(w)
  PROVE  ExtractionInv'
<1> DEFINE c == call[w].chunk
<1>0. /\ call \in [Pool -> Call] /\ Out(w) /\ c \in 1 .. Len(answers) /\ phase \in {"asking", "failed"}
      /\ call[w] \in Call
  <2>1. Out(w)
    BY DEF Tells, Asking, Out
  <2> QED BY <2>1, OutFacts DEF ExtractionInv, ExtractionTypeOK
<1>1. PICK found \in Found(c) : \E n \in 0 .. Len(found) :
          /\ \E words \in [1 .. n -> Wordings] :
               answers' = [answers EXCEPT ![c] = Told(found, n, words)]
          /\ cut' = IF n < Len(found) THEN cut \cup {c} ELSE cut
  BY DEF Tells
<1>2. PICK n \in 0 .. Len(found) :
          /\ \E words \in [1 .. n -> Wordings] :
               answers' = [answers EXCEPT ![c] = Told(found, n, words)]
          /\ cut' = IF n < Len(found) THEN cut \cup {c} ELSE cut
  BY <1>1
<1>3. PICK words \in [1 .. n -> Wordings] :
          answers' = [answers EXCEPT ![c] = Told(found, n, words)]
  BY <1>2
<1>4. /\ found \in Seq(Discoveries)
      /\ \A d \in Discoveries : Whole(d, slices[c]) => \E i \in 1 .. Len(found) : found[i] = d
  BY FoundIs
<1> DEFINE told == Told(found, n, words)
<1>5. told \in Seq(Memories) /\ Len(told) = n /\ \A i \in 1 .. n : told[i].what = found[i]
  BY <1>4, ToldIs
<1>6. SetCall(w, Free) /\ UNCHANGED <<input, phase, plan, next, merge>>
  BY DEF Tells
<1> HIDE DEF told
<1>7. /\ answers' \in Seq(Seq(Memories) \cup {NoAnswer}) /\ Len(answers') = Len(answers)
      /\ answers'[c] = told /\ \A b \in 1 .. Len(answers) : b # c => answers'[b] = answers[b]
  <2>1. answers \in Seq(Seq(Memories) \cup {NoAnswer}) /\ told \in Seq(Memories) \cup {NoAnswer}
    BY <1>5 DEF ExtractionInv, ExtractionTypeOK
  <2>2. answers' = [answers EXCEPT ![c] = told]
    BY <1>3 DEF told
  <2> QED BY <1>0, <2>1, <2>2, SeqExcept
<1>8. /\ call' \in [Pool -> Call] /\ call'[w].state = "free"
      /\ \A v \in Pool : v # w => call'[v] = call[v]
  BY <1>0, <1>6, RetriesAssumption DEF SetCall, Free, Call, States
<1>9. Inside' /\ Plans' /\ phase' \in Stages
  BY <1>0, <1>6, <1>7, LaterPlans DEF Later
<1>10. ExtractionTypeOK'
  <2>1. cut' \subseteq Nat
    <3>1. cut \subseteq Nat /\ c \in Nat /\ (cut' = cut \cup {c} \/ cut' = cut)
      BY <1>0, <1>2 DEF ExtractionInv, ExtractionTypeOK
    <3> HIDE DEF c
    <3> QED BY <3>1
  <2> QED BY <1>6, <1>7, <1>8, <1>9, <2>1 DEF ExtractionInv, ExtractionTypeOK, input, plan, merge
<1>11. Backoffs'
  BY <1>8 DEF ExtractionInv, Backoffs
<1>12. Workings'
  <2>1. ASSUME NEW v \in Pool, Out(v)'
        PROVE  /\ Out(v) /\ call'[v] = call[v] /\ call[v].chunk # c
               /\ call[v].chunk \in 1 .. Len(answers)
    <3>1. v # w /\ Out(v) /\ call'[v] = call[v]
      BY <1>8, <2>1 DEF Out
    <3> QED BY <1>0, <3>1 DEF ExtractionInv, Workings
  <2>2. \A v \in Pool : Out(v)' => /\ Out(v) /\ call'[v] = call[v] /\ call[v].chunk # c
                                   /\ call[v].chunk \in 1 .. Len(answers)
    BY <2>1
  <2>3. c < next
    BY <1>0 DEF ExtractionInv, Workings
  <2>4. \A b \in 1 .. Len(answers') : b >= next' => answers'[b] = NoAnswer
    <3> SUFFICES ASSUME NEW b \in 1 .. Len(answers), b >= next PROVE answers'[b] = NoAnswer
      BY <1>6, <1>7
    <3>1. b # c /\ answers[b] = NoAnswer
      BY <1>0, <2>3 DEF ExtractionInv, ExtractionTypeOK, Workings
    <3> QED BY <1>7, <3>1
  <2> QED BY <1>0, <1>6, <1>7, <2>2, <2>4 DEF ExtractionInv, Workings
<1>13. Answers'
  <2>1. cut \subseteq cut' /\ UNCHANGED <<at, slices>>
    BY <1>2, <1>6 DEF input, plan
  <2>2. ASSUME NEW b \in 1 .. Len(answers'), answers'[b] # NoAnswer, b \notin cut',
               NEW d \in Discoveries, Whole(d, slices[b])
        PROVE  \E i \in 1 .. Len(answers'[b]) : answers'[b][i].what = d
    <3>1. CASE b = c
      <4>1. n = Len(found)
        BY <1>2, <1>4, <2>2, <3>1
      <4> QED BY <1>4, <1>5, <1>7, <2>2, <3>1, <4>1
    <3>2. CASE b # c
      <4>1. b \in 1 .. Len(answers) /\ answers'[b] = answers[b] /\ b \notin cut
        BY <1>7, <2>1, <2>2, <3>2
      <4>2. \A a \in 1 .. Len(answers) : answers[a] # NoAnswer /\ a \notin cut =>
              \A e \in Discoveries : Whole(e, slices[a]) =>
                \E i \in 1 .. Len(answers[a]) : answers[a][i].what = e
        BY DEF ExtractionInv, Answers
      <4> QED BY <2>2, <4>1, <4>2
    <3> QED BY <3>1, <3>2
  <2> QED BY <2>1, <2>2 DEF Answers, Whole
<1>14. Merges'
  BY <1>0, <1>6 DEF ExtractionInv, Merges, merge
<1> QED BY <1>9, <1>10, <1>11, <1>12, <1>13, <1>14 DEF ExtractionInv

LEMMA CallStep ==
  ASSUME ExtractionInv, NEW w \in Pool, Take(w) \/ Outcome(w) \/ Retry(w)
  PROVE  ExtractionInv'
<1>1. call[w] \in Call
  BY DEF ExtractionInv, ExtractionTypeOK
<1>2. /\ call[w].chunk \in Nat /\ call[w].attempt \in 1 .. MaxAttempts
      /\ call[w].format \in 1 .. Formats
  BY <1>1 DEF Call
<1>3. ASSUME Fails(w), Out(w) PROVE ExtractionInv'
  <2> DEFINE k == [call[w] EXCEPT !.state = "stopped"]
  <2>1. k \in Call /\ k.state = "stopped" /\ SetCall(w, k)
    BY <1>1, <1>3 DEF Call, States, Fails
  <2>2. phase' = "failed" /\ UNCHANGED <<input, plan, next, answers, cut, merge>>
    BY <1>3 DEF Fails
  <2> HIDE DEF k
  <2> QED BY <1>3, <2>1, <2>2, SameSlice
<1>4. ASSUME Out(w), NEW a \in 1 .. MaxAttempts, NEW f \in 1 .. Formats, Ask(w, call[w].chunk, a, f),
             UNCHANGED <<input, phase, plan, next, answers, cut, merge>>
      PROVE  ExtractionInv'
  <2> DEFINE k == [state |-> "asking", chunk |-> call[w].chunk, attempt |-> a, format |-> f]
  <2>1. k \in Call /\ k.state = "asking" /\ k.chunk = call[w].chunk /\ SetCall(w, k)
    BY <1>2, <1>4 DEF Call, States, Ask
  <2> HIDE DEF k
  <2> QED BY <1>4, <2>1, SameSlice
<1>5. CASE Take(w)
  BY <1>5, TakeStep
<1>6. CASE Tells(w)
  BY <1>6, TellsStep
<1>7. CASE RefusesFormat(w)
  <2>1. Out(w)
    BY <1>7 DEF RefusesFormat, Asking, Out
  <2>2. CASE call[w].format < Formats
    <3>1. call[w].format + 1 \in 1 .. Formats
      BY <1>2, <2>2, RetriesAssumption
    <3> QED BY <1>2, <1>4, <1>7, <2>1, <2>2, <3>1 DEF RefusesFormat
  <2> QED BY <1>3, <1>7, <2>1, <2>2 DEF RefusesFormat
<1>8. CASE Setback(w)
  <2>1. Out(w)
    BY <1>8 DEF Setback, Asking, Out
  <2>2. CASE MayRetry(w)
    <3> DEFINE k == [call[w] EXCEPT !.state = "waiting"]
    <3>1. /\ k \in Call /\ k.state = "waiting" /\ k.chunk = call[w].chunk
          /\ k.attempt < MaxAttempts /\ SetCall(w, k)
      BY <1>1, <1>8, <2>2 DEF Call, States, Setback, MayRetry
    <3>2. UNCHANGED <<input, phase, plan, next, answers, cut, merge>>
      BY <1>8, <2>2 DEF Setback
    <3> HIDE DEF k
    <3> QED BY <2>1, <3>1, <3>2, SameSlice
  <2> QED BY <1>3, <1>8, <2>1, <2>2 DEF Setback
<1>9. CASE Refuses(w)
  BY <1>3, <1>9 DEF Refuses, Asking, Out
<1>10. CASE Retry(w)
  <2>1. Out(w)
    BY <1>10 DEF Retry, Out
  <2>2. Attempt(w) \in 1 .. MaxAttempts
    BY <1>2, <1>10, RetriesAssumption DEF ExtractionInv, Backoffs, Retry, Attempt
  <2> QED BY <1>2, <1>4, <1>10, <2>1, <2>2, RetriesAssumption DEF Retry
<1> QED BY <1>5, <1>6, <1>7, <1>8, <1>9, <1>10 DEF Outcome

-----------------------------------------------------------------------------
\* The merge changes nothing that the plan and the calls are about.
LEMMA MergeKeeps ==
  ASSUME ExtractionInv, phase \in {"asking", "merging"},
         \/ phase' \in {phase, "failed"}
         \/ phase = "asking" /\ phase' = "merging"
         \/ phase = "merging" /\ phase' = "done",
         UNCHANGED <<input, plan, next, call, answers, cut>>,
         source' \in Nat, taken' \in Nat, result' \in Seq(Memories), Merges'
  PROVE  ExtractionInv'
<1>1. Inside' /\ Plans' /\ phase' \in Stages
  BY LaterPlans DEF Later
<1>2. ExtractionTypeOK'
  BY <1>1 DEF ExtractionInv, ExtractionTypeOK, input, plan
<1>3. Backoffs' /\ Workings' /\ Answers'
  BY DEF ExtractionInv, Backoffs, Workings, Out, Answers, Whole, input, plan
<1> QED BY <1>1, <1>2, <1>3 DEF ExtractionInv

LEMMA BeginMergeStep ==
  ASSUME ExtractionInv, BeginMerge
  PROVE  ExtractionInv'
<1>1. /\ phase = "asking" /\ phase' = "merging"
      /\ source = 1 /\ taken = 0 /\ result = <<>>
      /\ UNCHANGED <<input, plan, next, call, answers, cut, taken>>
  BY DEF ExtractionInv, Merges, BeginMerge, Answered
<1>2. /\ Len(answers) = Len(slices) /\ Len(answers) \in Nat \ {0}
      /\ \A c \in 1 .. Len(answers) : answers[c] # NoAnswer /\ answers[c] \in Seq(Memories)
  BY <1>1 DEF ExtractionInv, ExtractionTypeOK, Plans, BeginMerge, Answered
<1>3. CASE Len(slices) = 1
  <2>1. source' = 2 /\ result' = answers[1] /\ result' \in Seq(Memories) /\ taken' = 0
    BY <1>1, <1>2, <1>3 DEF BeginMerge
  <2>2. HasRead'
    <3> SUFFICES ASSUME NEW c \in 1 .. Len(answers), NEW i \in 1 .. Len(answers[c])
                 PROVE  Contains(result', answers[c][i])
      BY <1>1 DEF HasRead
    <3>1. c = 1
      BY <1>2, <1>3
    <3> QED BY <2>1, <3>1 DEF Contains
  <2>3. WasTold'
    <3> SUFFICES ASSUME NEW k \in 1 .. Len(result')
                 PROVE  \E c \in 1 .. Len(answers) : c <= source' /\ IsFirst(result[k], c)'
      BY <1>1 DEF WasTold
    <3>1. Contains(answers[1], result'[k]) /\ 1 \in 1 .. Len(answers)
      BY <1>2, <2>1 DEF Contains
    <3>2. IsFirst(result[k], 1)'
      BY <1>1, <3>1 DEF IsFirst
    <3> QED BY <2>1, <3>1, <3>2
  <2>4. InOrder'
    BY <1>1, <1>2, <1>3 DEF InOrder
  <2>5. Merges'
    BY <1>1, <1>2, <1>3, <2>1, <2>2, <2>3, <2>4 DEF Merges
  <2> QED BY <1>1, <2>1, <2>5, MergeKeeps
<1>4. CASE Len(slices) # 1
  <2>1. source' = 1 /\ result' = <<>> /\ result' \in Seq(Memories) /\ taken' = 0
    BY <1>1, <1>4 DEF BeginMerge
  <2>2. HasRead' /\ WasTold' /\ InOrder'
    BY <2>1 DEF HasRead, WasTold, InOrder, IsRead
  <2>3. Merges'
    BY <1>1, <1>2, <2>1, <2>2 DEF Merges
  <2> QED BY <1>1, <2>1, <2>3, MergeKeeps
<1> QED BY <1>3, <1>4

\* The first answer that has a memory is one.
LEMMA FirstIsOne ==
  ASSUME ExtractionTypeOK, NEW m, NEW b \in 1 .. Len(answers), NEW c \in 1 .. Len(answers),
         IsFirst(m, b), IsFirst(m, c)
  PROVE  b = c
<1>1. b \in Nat /\ c \in Nat /\ b > 0 /\ c > 0
  BY DEF ExtractionTypeOK
<1>2. ~(b < c)
  BY <1>1 DEF IsFirst
<1>3. ~(c < b)
  BY <1>1 DEF IsFirst
<1> QED BY <1>1, <1>2, <1>3

\* A memory that is read from an answer: if it is not in the result yet, no answer read
\* before has it.
LEMMA ReadOne ==
  ASSUME ExtractionInv, phase = "merging", source <= Len(answers), taken < Len(answers[source]),
         UNCHANGED <<answers, source>>, taken' = taken + 1,
         NEW m, m = answers[source][taken + 1], result' = Kept(m)
  PROVE  result' \in Seq(Memories) /\ HasRead' /\ WasTold' /\ InOrder'
<1>0. /\ source \in Nat /\ taken \in Nat /\ result \in Seq(Memories) /\ source \in 1 .. Len(answers)
      /\ Len(answers) \in Nat /\ answers[source] \in Seq(Memories)
  BY DEF ExtractionInv, ExtractionTypeOK, Merges
<1>1. m \in Memories /\ Contains(answers[source], m)
  BY <1>0 DEF Contains
<1>2. HasRead /\ WasTold /\ InOrder
  BY DEF ExtractionInv, Merges
<1>3. \A c, i : IsRead(c, i)' => IsRead(c, i) \/ (c = source /\ i = taken + 1) \/ i \notin Nat
  BY <1>0 DEF IsRead
<1>4. CASE Contains(result, m)
  <2>1. result' = result
    BY <1>4 DEF Kept
  <2>2. HasRead'
    BY <1>2, <1>3, <1>4, <2>1 DEF HasRead
  <2>3. WasTold' /\ InOrder'
    BY <1>2, <2>1 DEF WasTold, InOrder, IsFirst
  <2> QED BY <1>0, <2>1, <2>2, <2>3
<1>5. CASE ~Contains(result, m)
  <2>1. /\ result' = Append(result, m) /\ result' \in Seq(Memories)
        /\ Len(result) \in Nat /\ Len(result') = Len(result) + 1 /\ result'[Len(result) + 1] = m
        /\ \A k \in 1 .. Len(result) : result'[k] = result[k]
    BY <1>0, <1>1, <1>5 DEF Kept
  <2>2. IsFirst(m, source)
    <3>1. ASSUME NEW b \in 1 .. source - 1 PROVE ~Contains(answers[b], m)
      <4>1. b \in 1 .. Len(answers) /\ b < source
        BY <1>0
      <4>2. \A i \in 1 .. Len(answers[b]) : Contains(result, answers[b][i])
        BY <1>2, <4>1 DEF HasRead, IsRead
      <4> QED BY <1>5, <4>2 DEF Contains
    <3> QED BY <1>1, <3>1 DEF IsFirst
  <2>3. \A x, c : IsFirst(x, c)' <=> IsFirst(x, c)
    BY DEF IsFirst
  <2>4. HasRead'
    <3>1. \A x : Contains(result, x) => Contains(result', x)
      BY <2>1 DEF Contains
    <3>2. Contains(result', m)
      BY <2>1 DEF Contains
    <3> QED BY <1>2, <1>3, <3>1, <3>2 DEF HasRead
  <2>5. WasTold'
    <3> SUFFICES ASSUME NEW k \in 1 .. Len(result')
                 PROVE  \E c \in 1 .. Len(answers) : c <= source /\ IsFirst(result'[k], c)
      BY <2>3 DEF WasTold
    <3>1. CASE k \in 1 .. Len(result)
      BY <1>2, <2>1, <3>1 DEF WasTold
    <3>2. CASE k = Len(result) + 1
      BY <1>0, <2>1, <2>2, <3>2
    <3> QED BY <2>1, <3>1, <3>2
  <2>6. InOrder'
    <3> SUFFICES ASSUME Len(answers) > 1,
                        NEW j \in 1 .. Len(result'), NEW k \in 1 .. Len(result'), j < k
                 PROVE  /\ result'[j] # result'[k]
                        /\ \A b, c \in 1 .. Len(answers) :
                             IsFirst(result'[j], b) /\ IsFirst(result'[k], c) => b <= c
      BY <2>3 DEF InOrder
    <3>1. j \in 1 .. Len(result) /\ result'[j] = result[j]
      BY <2>1
    <3>2. CASE k \in 1 .. Len(result)
      <4>1. result'[k] = result[k]
        BY <2>1, <3>2
      <4> QED BY <1>2, <3>1, <3>2, <4>1 DEF InOrder
    <3>3. CASE k = Len(result) + 1
      <4>1. result'[k] = m /\ result[j] # m
        BY <1>5, <2>1, <3>1, <3>3 DEF Contains
      <4>2. PICK a \in 1 .. Len(answers) : a <= source /\ IsFirst(result[j], a)
        BY <1>2, <3>1 DEF WasTold
      <4>3. ASSUME NEW b \in 1 .. Len(answers), NEW c \in 1 .. Len(answers),
                   IsFirst(result[j], b), IsFirst(m, c)
            PROVE  b <= c
        <5>1. b = a
          BY <4>2, <4>3, FirstIsOne DEF ExtractionInv
        <5>2. c = source
          BY <1>0, <2>2, <4>3, FirstIsOne DEF ExtractionInv
        <5> QED BY <4>2, <5>1, <5>2
      <4> QED BY <3>1, <4>1, <4>3
    <3>4. k \in 1 .. Len(result) \/ k = Len(result) + 1
      BY <2>1
    <3> QED BY <3>2, <3>3, <3>4
  <2> QED BY <2>1, <2>4, <2>5, <2>6
<1> QED BY <1>4, <1>5

LEMMA MergeNextStep ==
  ASSUME ExtractionInv, MergeNext
  PROVE  ExtractionInv'
<1>0. /\ phase = "merging" /\ phase' = "merging" /\ UNCHANGED <<input, plan, next, call, answers, cut>>
      /\ source \in 1 .. Len(answers) /\ source \in Nat /\ taken \in Nat /\ Len(answers) \in Nat
      /\ result \in Seq(Memories) /\ HasRead /\ WasTold /\ InOrder
      /\ taken <= Len(answers[source])
      /\ \A c \in 1 .. Len(answers) : answers[c] # NoAnswer /\ answers[c] \in Seq(Memories)
  BY DEF MergeNext, ExtractionInv, ExtractionTypeOK, Plans, Merges
<1>1. CASE taken < Len(answers[source])
  <2>1. taken' = taken + 1 /\ source' = source /\ result' = Kept(answers[source][taken + 1])
    BY <1>1 DEF MergeNext
  <2>2. result' \in Seq(Memories) /\ HasRead' /\ WasTold' /\ InOrder'
    BY <1>0, <1>1, <2>1, ReadOne
  <2>3. Merges'
    BY <1>0, <1>1, <2>1, <2>2 DEF Merges
  <2> QED BY <1>0, <2>1, <2>2, <2>3, MergeKeeps
<1>2. CASE ~(taken < Len(answers[source]))
  <2>1. source' = source + 1 /\ taken' = 0 /\ result' = result
    BY <1>2 DEF MergeNext
  <2>2. HasRead'
    <3> SUFFICES ASSUME NEW c \in 1 .. Len(answers), NEW i \in 1 .. Len(answers[c]), IsRead(c, i)'
                 PROVE  Contains(result, answers[c][i])
      BY <1>0, <2>1 DEF HasRead
    <3>1. IsRead(c, i)
      BY <1>0, <1>2, <2>1 DEF IsRead
    <3> QED BY <1>0, <3>1 DEF HasRead
  <2>3. WasTold' /\ InOrder'
    BY <1>0, <2>1 DEF WasTold, InOrder, IsFirst
  <2>4. Merges'
    BY <1>0, <2>1, <2>2, <2>3 DEF Merges
  <2> QED BY <1>0, <2>1, <2>4, MergeKeeps
<1> QED BY <1>1, <1>2

\* What is said of the merge is about the answers and its own variables.
LEMMA SameMerge ==
  ASSUME HasRead, WasTold, InOrder, UNCHANGED <<answers, merge>>
  PROVE  HasRead' /\ WasTold' /\ InOrder'
<1>1. answers' = answers /\ source' = source /\ taken' = taken /\ result' = result
  BY DEF merge
<1>2. HasRead'
  BY <1>1 DEF HasRead, IsRead
<1>3. WasTold'
  BY <1>1 DEF WasTold, IsFirst
<1>4. InOrder'
  BY <1>1 DEF InOrder, IsFirst
<1> QED BY <1>2, <1>3, <1>4

LEMMA ExtractionStep == ExtractionInv /\ [ExtractionNext]_extractionVars => ExtractionInv'
<1> SUFFICES ASSUME ExtractionInv, [ExtractionNext]_extractionVars PROVE ExtractionInv'
  OBVIOUS
<1>1. CASE Plan
  <2>1. CASE BeginPlan
    <3>1. /\ phase = "starting" /\ phase' = "planning" /\ room > 0 /\ room < total
          /\ UNCHANGED <<input, plan, next, call, answers, cut, merge>>
      BY <2>1 DEF BeginPlan, ExtractionInv, ExtractionTypeOK
    <3>2. slices = <<>> /\ cursor = 0 /\ Len(slices) = 0 /\ Len(answers) = 0
          /\ slices' = slices /\ cursor' = cursor /\ answers' = answers
      BY <3>1 DEF ExtractionInv, Plans, plan
    <3>3. Sized' /\ CoveredTo(cursor)'
      BY <3>2 DEF Sized, CoveredTo
    <3>4. Plans'
      BY <3>1, <3>2, <3>3 DEF Plans, input
    <3> QED BY <3>1, <3>4
            DEF ExtractionInv, ExtractionTypeOK, Stages, Inside, Backoffs, Workings, Out, Answers,
                Whole, Merges, input, plan, merge
  <2>2. CASE CannotStart
    <3>1. /\ phase = "starting" /\ phase' = "failed"
          /\ UNCHANGED <<input, plan, next, call, answers, cut, merge>>
      BY <2>2 DEF CannotStart
    <3>2. Inside' /\ Plans' /\ phase' \in Stages
      BY <3>1, LaterPlans DEF Later
    <3> QED BY <3>1, <3>2
            DEF ExtractionInv, ExtractionTypeOK, Backoffs, Workings, Out, Answers,
                Whole, Merges, input, plan, merge
  <2> QED BY <1>1, <2>1, <2>2, SinglePassStep, PlanSliceStep DEF Plan
<1>2. CASE \E w \in Pool : Take(w) \/ Outcome(w) \/ Retry(w)
  BY <1>2, CallStep
<1>3. CASE Finish
  <2>1. CASE Completes \/ MergeThrows
    <3>1. /\ phase = "merging" /\ phase' \in {"done", "failed"}
          /\ phase' = "done" => source = Len(answers) + 1
          /\ UNCHANGED <<input, plan, next, call, answers, cut, merge>>
      BY <2>1 DEF Completes, MergeThrows, Merged, ExtractionInv, ExtractionTypeOK, Plans, Merges
    <3>2. source' \in Nat /\ taken' \in Nat /\ result' \in Seq(Memories)
      BY <3>1 DEF ExtractionInv, ExtractionTypeOK, merge
    <3>3. HasRead' /\ WasTold' /\ InOrder'
      BY <3>1, SameMerge DEF ExtractionInv, Merges
    <3>4. Merges'
      BY <3>1, <3>3 DEF ExtractionInv, Merges, merge
    <3> QED BY <3>1, <3>2, <3>4, MergeKeeps
  <2> QED BY <1>3, <2>1, BeginMergeStep, MergeNextStep DEF Finish
<1>4. CASE Over \/ UNCHANGED extractionVars
  <2>1. UNCHANGED extractionVars
    BY <1>4 DEF Over
  <2>2. UNCHANGED <<input, phase, plan, next, call, answers, cut, merge>>
    BY <2>1 DEF extractionVars
  <2>3. Plans' /\ Inside'
    BY <2>2 DEF ExtractionInv, Plans, Inside, Sized, CoveredTo, Stretch, input, plan
  <2>4. Merges'
    <3>1. phase \in {"merging", "done"} => HasRead' /\ WasTold' /\ InOrder'
      BY <2>2, SameMerge DEF ExtractionInv, Merges
    <3> QED BY <2>2, <3>1 DEF ExtractionInv, Merges, merge
  <2> QED BY <2>2, <2>3, <2>4
          DEF ExtractionInv, ExtractionTypeOK, Backoffs, Workings, Out, Answers, Whole,
              input, plan, merge
<1> QED BY <1>1, <1>2, <1>3, <1>4 DEF ExtractionNext

\* The inductive invariant of an extraction.
THEOREM ExtractionAlways == ExtractionSpec => []ExtractionInv
BY ExtractionBegins, ExtractionStep, PTL DEF ExtractionSpec

\* In every state of an extraction the variables hold what extractMemories, runBounded and
\* chat can hold.
THEOREM ExtractionTypeCorrect == ExtractionSpec => []ExtractionTypeOK
<1>1. ExtractionInv => ExtractionTypeOK
  BY DEF ExtractionInv
<1> QED BY <1>1, ExtractionAlways, PTL

-----------------------------------------------------------------------------
\* For every transcript, room and overlap: planChunkSlices leaves no stretch up to the
\* overlap's length, and one character more, without a slice that has it from end to end.
THEOREM PlanIsComplete == ExtractionSpec => []PlanCovers
<1>1. ExtractionInv => PlanCovers
  <2> SUFFICES ASSUME ExtractionInv, Planned PROVE PlanCovers
    BY DEF PlanCovers
  <2>1. Sized /\ CoveredTo(total) /\ total \in Nat
    BY DEF ExtractionInv, Plans, Planned, ExtractionTypeOK
  <2>2. ASSUME NEW p \in 0 .. total, NEW n \in 1 .. Stretch, p + n <= total
        PROVE  p < total
    BY <2>1, <2>2
  <2> QED BY <2>1, <2>2 DEF PlanCovers, Sized, CoveredTo
<1> QED BY <1>1, ExtractionAlways, PTL

\* Whatever a reader should find and is no longer than that is whole in a slice, so that
\* some call of the model is shown all of it; and so is everything when one call reads all.
ShownWhole ==
  Planned => \A d \in Discoveries :
    Size[d] \in 1 .. Stretch \/ Len(slices) = 1 => Holders(d) # {}

LEMMA InvShows == ExtractionInv => ShownWhole
<1> SUFFICES ASSUME ExtractionInv, Planned, NEW d \in Discoveries,
                    Size[d] \in 1 .. Stretch \/ Len(slices) = 1
             PROVE  Holders(d) # {}
  BY DEF ShownWhole
<1>1. CoveredTo(total) /\ total \in Nat /\ at[d] \in 0 .. total /\ at[d] + Size[d] <= total
  BY DEF ExtractionInv, Plans, Planned, ExtractionTypeOK, Inside
<1>2. CASE Size[d] \in 1 .. Stretch
  <2>1. at[d] < total
    BY <1>1, <1>2
  <2>2. PICK c \in 1 .. Len(slices) : slices[c].start <= at[d] /\ at[d] + Size[d] <= slices[c].end
    BY <1>1, <1>2, <2>1 DEF CoveredTo
  <2> QED BY <2>2 DEF Holders, Whole
<1>3. CASE Len(slices) = 1
  <2>1. 1 \in 1 .. Len(slices) /\ slices[1].start = 0 /\ slices[1].end = total
    BY <1>3 DEF ExtractionInv, Plans, Planned
  <2> QED BY <1>1, <2>1 DEF Holders, Whole
<1> QED BY <1>2, <1>3

THEOREM EveryDiscoveryIsShown == ExtractionSpec => []ShownWhole
BY InvShows, ExtractionAlways, PTL

\* However formats are refused and attempts fail, a call makes MaxAttempts attempts at
\* most, each with a format of the list.
Bounded == \A w \in Pool : call[w].attempt <= MaxAttempts /\ call[w].format <= Formats

THEOREM RequestsAreBounded == ExtractionSpec => []Bounded
<1>1. ExtractionInv => Bounded
  <2> SUFFICES ASSUME ExtractionInv, NEW w \in Pool
               PROVE  call[w].attempt <= MaxAttempts /\ call[w].format <= Formats
    BY DEF Bounded
  <2>1. call[w] \in Call
    BY DEF ExtractionInv, ExtractionTypeOK
  <2> QED BY <2>1, RetriesAssumption DEF Call
<1> QED BY <1>1, ExtractionAlways, PTL

\* An extraction that succeeds tells every discovery that a slice had whole, unless every
\* answer to such a slice was cut short: neither retries, weaker formats, failures, nor
\* the workers and the merge lose an answer.
THEOREM NoDiscoveryIsLost == ExtractionSpec => []NothingIsMissed
<1>1. ExtractionInv => NothingIsMissed
  <2> SUFFICES ASSUME ExtractionInv, phase = "done", NEW d \in Discoveries
               PROVE  /\ ~InResult(d) => Holders(d) \subseteq cut
                      /\ Size[d] \in 1 .. Stretch \/ Len(slices) = 1 => Holders(d) # {}
    BY DEF NothingIsMissed
  <2>1. Planned
    BY DEF ExtractionInv, Plans, Planned
  <2>2. /\ Len(answers) = Len(slices) /\ Len(answers) \in Nat /\ source = Len(answers) + 1
        /\ HasRead /\ Answers /\ \A c \in 1 .. Len(answers) : answers[c] # NoAnswer
    BY DEF ExtractionInv, ExtractionTypeOK, Plans, Merges
  <2>3. ASSUME NEW c \in Holders(d), c \notin cut PROVE InResult(d)
    <3>1. c \in 1 .. Len(answers) /\ Whole(d, slices[c]) /\ c < source
      BY <2>2 DEF Holders
    <3>2. PICK i \in 1 .. Len(answers[c]) : answers[c][i].what = d
      BY <2>2, <2>3, <3>1 DEF Answers
    <3>3. Contains(result, answers[c][i])
      BY <2>2, <3>1 DEF HasRead, IsRead
    <3> QED BY <3>2, <3>3 DEF Contains, InResult
  <2> QED BY <2>1, <2>3, InvShows DEF ShownWhole
<1> QED BY <1>1, ExtractionAlways, PTL

\* The memories of an extraction that succeeds are those that were told, each once, in the
\* order of the slices that first told them, whatever order the answers came in.
THEOREM ToldOnceInOrder == ExtractionSpec => []OnceInOrder
<1>1. ExtractionInv => OnceInOrder
  <2> SUFFICES ASSUME ExtractionInv, phase = "done" PROVE OnceInOrder
    BY DEF OnceInOrder
  <2>1. /\ Len(answers) = Len(slices) /\ Len(answers) \in Nat /\ source = Len(answers) + 1
        /\ HasRead /\ WasTold /\ InOrder /\ result \in Seq(Memories)
        /\ \A c \in 1 .. Len(answers) : answers[c] \in Seq(Memories)
    BY DEF ExtractionInv, ExtractionTypeOK, Plans, Merges
  <2>2. ASSUME NEW c \in 1 .. Len(answers), NEW m \in ToSet(answers[c])
        PROVE  m \in ToSet(result)
    <3>1. PICK i \in 1 .. Len(answers[c]) : m = answers[c][i]
      <4>1. PICK i \in DOMAIN answers[c] : m = answers[c][i]
        BY <2>2 DEF ToSet
      <4>2. answers[c] \in Seq(Memories)
        BY <2>1
      <4> QED BY <4>1, <4>2
    <3>2. Contains(result, m)
      BY <2>1, <3>1 DEF HasRead, IsRead
    <3> QED BY <2>1, <3>2 DEF ToSet, Contains
  <2>3. ASSUME NEW m \in ToSet(result)
        PROVE  \E c \in 1 .. Len(answers) : m \in ToSet(answers[c])
    <3>1. PICK k \in 1 .. Len(result) : m = result[k]
      BY <2>1 DEF ToSet
    <3>2. PICK c \in 1 .. Len(answers) : IsFirst(m, c)
      BY <2>1, <3>1 DEF WasTold
    <3>3. m \in ToSet(answers[c])
      BY <2>1, <3>2 DEF IsFirst, ToSet, Contains
    <3> QED BY <3>3
  <2>4. ToSet(result) = UNION {ToSet(answers[c]) : c \in 1 .. Len(answers)}
    BY <2>2, <2>3
  <2>5. ASSUME NEW k \in 1 .. Len(result)
        PROVE  FirstTeller(result[k]) \in 1 .. Len(answers) /\ IsFirst(result[k], FirstTeller(result[k]))
    <3>1. \E c \in 1 .. Len(answers) : IsFirst(result[k], c)
      BY <2>1 DEF WasTold
    <3> QED BY <3>1 DEF FirstTeller, IsFirst
  <2>6. ASSUME Len(slices) > 1, NEW i \in 1 .. Len(result), NEW j \in 1 .. Len(result), i < j
        PROVE  result[i] # result[j] /\ FirstTeller(result[i]) <= FirstTeller(result[j])
    BY <2>1, <2>5, <2>6 DEF InOrder
  <2> QED BY <2>4, <2>6 DEF OnceInOrder
<1> QED BY <1>1, ExtractionAlways, PTL

-----------------------------------------------------------------------------
(* The extraction as ChunkRun has it. *)

\* No more slices are taken than there are.
InBounds == next <= Len(answers) + 1

LEMMA CountTypes ==
  ASSUME ExtractionInv
  PROVE  /\ IsFiniteSet(AtWork) /\ Cardinality(AtWork) \in Nat
         /\ IsFiniteSet(Heard) /\ Cardinality(Heard) \in Nat
         /\ Len(answers) \in Nat /\ next \in Nat \ {0} /\ phase \in Stages
         /\ call \in [Pool -> Call] /\ \A w \in Pool : w \in AtWork <=> Out(w)
<1>1. Len(answers) \in Nat /\ next \in Nat \ {0} /\ phase \in Stages /\ call \in [Pool -> Call]
  BY DEF ExtractionInv, ExtractionTypeOK
<1>2. IsFiniteSet(AtWork)
  BY PoolAssumption, FS_Subset DEF AtWork
<1>3. IsFiniteSet(1 .. Len(answers)) /\ Heard \subseteq 1 .. Len(answers)
  BY <1>1, FS_Interval DEF Heard
<1>4. IsFiniteSet(Heard)
  BY <1>3, FS_Subset
<1>5. ASSUME NEW w \in Pool PROVE w \in AtWork <=> Out(w)
  <2>1. call[w].state \in States
    BY <1>1 DEF Call
  <2> QED BY <2>1 DEF AtWork, Idle, Out, States
<1> QED BY <1>1, <1>2, <1>4, <1>5, FS_CardinalityType

\* Nobody is at work before there are slices and after all were answered.
LEMMA NobodyAtWork ==
  ASSUME ExtractionInv,
         phase \in {"starting", "planning"} \/ \A c \in 1 .. Len(answers) : answers[c] # NoAnswer
  PROVE  AtWork = {} /\ Cardinality(AtWork) = 0
<1>1. \A w \in Pool : ~Out(w)
  <2> SUFFICES ASSUME NEW w \in Pool, Out(w) PROVE FALSE
    OBVIOUS
  <2>1. call[w].chunk \in 1 .. Len(answers) /\ answers[call[w].chunk] = NoAnswer
    BY DEF ExtractionInv, Workings
  <2>2. phase \in {"starting", "planning"} => Len(answers) = 0
    BY DEF ExtractionInv, Plans
  <2> QED BY <2>1, <2>2
<1>2. AtWork = {}
  BY <1>1, CountTypes DEF AtWork
<1> QED BY <1>2, FS_EmptySet

\* Who is at work after a worker's call has changed.
LEMMA AtWorkThen ==
  ASSUME ExtractionInv, NEW w \in Pool, NEW k \in Call, SetCall(w, k)
  PROVE  AtWork' = IF k.state \in {"free", "stopped"} THEN AtWork \ {w} ELSE AtWork \cup {w}
<1>1. call' \in [Pool -> Call] /\ call'[w] = k /\ \A v \in Pool : v # w => call'[v] = call[v]
  BY CountTypes DEF SetCall
<1>2. \A v \in Pool : Idle(v)' <=> IF v = w THEN k.state \in {"free", "stopped"} ELSE Idle(v)
  BY <1>1 DEF Idle
<1> QED BY <1>2 DEF AtWork

LEMMA SameCounts ==
  ASSUME UNCHANGED <<answers, next>>, AtWork' = AtWork, StageNow' = StageNow
  PROVE  UNCHANGED Counted!vars
<1>1. Heard' = Heard
  BY DEF Heard
<1> QED BY <1>1 DEF Counted!vars, Counted!counts

\* The slices are there, and nobody has taken one.
LEMMA CutRefines ==
  ASSUME ExtractionInv, phase \in {"starting", "planning"}, NEW cuts, BeginAsking(cuts),
         Len(cuts) \in Nat \ {0}, UNCHANGED <<next, call>>
  PROVE  Counted!Cut /\ InBounds'
<1>1. next = 1 /\ AtWork' = AtWork /\ Cardinality(AtWork) = 0
  BY NobodyAtWork DEF ExtractionInv, Workings, AtWork, Idle
<1>2. Len(answers') = Len(cuts) /\ \A c \in 1 .. Len(cuts) : answers'[c] = NoAnswer
  BY DEF BeginAsking
<1>3. Heard' = {}
  BY <1>2 DEF Heard
<1>4. Cardinality(Heard') = 0
  BY <1>3, FS_EmptySet
<1>5. StageNow = "new" /\ StageNow' = "working"
  BY DEF StageNow, BeginAsking
<1>6. Len(answers') - (next' - 1) = Len(cuts)
  BY <1>1, <1>2
<1> QED BY <1>1, <1>2, <1>4, <1>5, <1>6 DEF Counted!Cut, InBounds

LEMMA PlanRefines ==
  ASSUME ExtractionInv, InBounds, Plan
  PROVE  [Counted!Next]_(Counted!vars) /\ InBounds'
<1>1. CASE SinglePass
  <2> DEFINE cuts == <<[start |-> 0, end |-> total]>>
  <2>1. BeginAsking(cuts) /\ Len(cuts) = 1 /\ phase = "starting" /\ UNCHANGED <<next, call>>
    BY <1>1 DEF SinglePass
  <2> HIDE DEF cuts
  <2> QED BY <2>1, CutRefines DEF Counted!Next
<1>2. CASE PlanSlice /\ SliceEnd >= total
  <2> DEFINE cuts == Append(slices, [start |-> cursor, end |-> SliceEnd])
  <2>1. BeginAsking(cuts) /\ phase = "planning" /\ UNCHANGED <<next, call>>
    BY <1>2 DEF PlanSlice
  <2>2. Len(cuts) = Len(slices) + 1 /\ Len(slices) \in Nat
    BY DEF ExtractionInv, ExtractionTypeOK
  <2> HIDE DEF cuts
  <2> QED BY <2>1, <2>2, CutRefines DEF Counted!Next
<1>3. CASE BeginPlan \/ (PlanSlice /\ ~(SliceEnd >= total))
  <2>1. /\ phase \in {"starting", "planning"} /\ phase' = "planning"
        /\ UNCHANGED <<next, call, answers>>
    BY <1>3 DEF BeginPlan, PlanSlice
  <2>2. AtWork' = AtWork /\ StageNow' = StageNow
    BY <2>1 DEF AtWork, Idle, StageNow
  <2> QED BY <2>1, <2>2, SameCounts DEF InBounds
<1>4. CASE CannotStart
  <2>1. phase = "starting" /\ phase' = "failed" /\ UNCHANGED <<next, call, answers>>
    BY <1>4 DEF CannotStart
  <2>2. /\ StageNow = "new" /\ StageNow' = "failing" /\ AtWork' = AtWork /\ Heard' = Heard
    BY <2>1 DEF AtWork, Idle, StageNow, Heard
  <2>3. Counted!CannotCut
    BY <2>1, <2>2 DEF Counted!CannotCut, Counted!counts
  <2> QED BY <2>1, <2>3 DEF Counted!Next, InBounds
<1> QED BY <1>1, <1>2, <1>3, <1>4 DEF Plan

LEMMA TakeRefines ==
  ASSUME ExtractionInv, InBounds, NEW w \in Pool, Take(w)
  PROVE  Counted!Take /\ InBounds'
<1> DEFINE k == [state |-> "asking", chunk |-> next, attempt |-> 1, format |-> 1]
<1>1. /\ phase \in {"asking", "failed"} /\ next <= Len(answers) /\ next' = next + 1
      /\ SetCall(w, k) /\ UNCHANGED <<phase, answers>> /\ call[w].state = "free"
  BY DEF Take, Ask, ExtractionInv, Plans
<1>2. k \in Call /\ k.state = "asking"
  BY CountTypes, RetriesAssumption DEF Call, States
<1> HIDE DEF k
<1>3. AtWork' = AtWork \cup {w} /\ w \notin AtWork
  BY <1>1, <1>2, AtWorkThen DEF AtWork, Idle
<1>4. Cardinality(AtWork') = Cardinality(AtWork) + 1
  BY <1>3, CountTypes, FS_AddElement
<1>5. Heard' = Heard /\ StageNow' = StageNow
  BY <1>1 DEF Heard, StageNow
<1>6. /\ Len(answers) - (next - 1) > 0
      /\ Len(answers') - (next' - 1) = (Len(answers) - (next - 1)) - 1
  BY <1>1, CountTypes
<1> QED BY <1>1, <1>4, <1>5, <1>6, CountTypes DEF Counted!Take, InBounds

\* A worker leaves its slice.
LEMMA Leaves ==
  ASSUME ExtractionInv, NEW w \in Pool, NEW k \in Call, SetCall(w, k), Out(w),
         k.state \in {"free", "stopped"}
  PROVE  Cardinality(AtWork) > 0 /\ Cardinality(AtWork') = Cardinality(AtWork) - 1
<1>1. w \in AtWork /\ AtWork' = AtWork \ {w}
  BY AtWorkThen, CountTypes
<1>2. Cardinality(AtWork') = Cardinality(AtWork) - 1 /\ Cardinality(AtWork) # 0
  BY <1>1, CountTypes, FS_RemoveElement, FS_EmptySet
<1> QED BY <1>2, CountTypes

LEMMA TellsRefines ==
  ASSUME ExtractionInv, InBounds, NEW w \in Pool, Tells(w)
  PROVE  Counted!Tell /\ InBounds'
<1> DEFINE c == call[w].chunk
<1>1. Out(w) /\ SetCall(w, Free) /\ UNCHANGED <<phase, next>>
  BY DEF Tells, Asking, Out
<1>2. c \in 1 .. Len(answers) /\ answers[c] = NoAnswer
  BY <1>1 DEF ExtractionInv, Workings
<1>3. PICK found \in Found(c) : \E n \in 0 .. Len(found) :
        \E words \in [1 .. n -> Wordings] : answers' = [answers EXCEPT ![c] = Told(found, n, words)]
  BY DEF Tells
<1>4. PICK n \in 0 .. Len(found) :
        \E words \in [1 .. n -> Wordings] : answers' = [answers EXCEPT ![c] = Told(found, n, words)]
  BY <1>3
<1>5. PICK words \in [1 .. n -> Wordings] : answers' = [answers EXCEPT ![c] = Told(found, n, words)]
  BY <1>4
<1>6. found \in Seq(Discoveries)
  BY <1>2, FoundIs
<1> DEFINE told == Told(found, n, words)
<1>7. told \in Seq(Memories)
  BY <1>6, ToldIs
<1>8. told # NoAnswer
  BY <1>7, NoAnswerAssumption
<1>9. answers' = [answers EXCEPT ![c] = told]
  BY <1>5
<1> HIDE DEF told, c
<1>10. /\ Len(answers') = Len(answers) /\ answers'[c] = told
       /\ \A b \in 1 .. Len(answers) : b # c => answers'[b] = answers[b]
  <2>1. answers \in Seq(Seq(Memories) \cup {NoAnswer}) /\ told \in Seq(Memories) \cup {NoAnswer}
    BY <1>7 DEF ExtractionInv, ExtractionTypeOK
  <2> QED BY <1>2, <1>9, <2>1, SeqExcept
<1>11. Heard' = Heard \cup {c} /\ c \notin Heard
  BY <1>2, <1>8, <1>10 DEF Heard
<1>12. Cardinality(Heard') = Cardinality(Heard) + 1
  BY <1>11, CountTypes, FS_AddElement
<1>13. Free \in Call /\ Free.state = "free"
  BY RetriesAssumption DEF Free, Call, States
<1>14. Cardinality(AtWork) > 0 /\ Cardinality(AtWork') = Cardinality(AtWork) - 1
  BY <1>1, <1>13, Leaves
<1>15. StageNow' = StageNow /\ Len(answers') - (next' - 1) = Len(answers) - (next - 1)
  BY <1>1, <1>10 DEF StageNow
<1> QED BY <1>1, <1>10, <1>12, <1>14, <1>15 DEF Counted!Tell, InBounds

LEMMA FailsRefines ==
  ASSUME ExtractionInv, InBounds, NEW w \in Pool, Out(w), Fails(w)
  PROVE  Counted!Break /\ InBounds'
<1> DEFINE k == [call[w] EXCEPT !.state = "stopped"]
<1>1. SetCall(w, k) /\ phase' = "failed" /\ UNCHANGED <<next, answers>>
  BY DEF Fails
<1>2. k \in Call /\ k.state = "stopped"
  BY CountTypes DEF Call, States
<1> HIDE DEF k
<1>3. Cardinality(AtWork) > 0 /\ Cardinality(AtWork') = Cardinality(AtWork) - 1
  BY <1>1, <1>2, Leaves
<1>4. phase \in {"asking", "failed"}
  BY OutFacts
<1>5. Heard' = Heard /\ StageNow' = IF StageNow = "working" THEN "failing" ELSE StageNow
  BY <1>1, <1>4 DEF Heard, StageNow
<1> QED BY <1>1, <1>3, <1>5 DEF Counted!Break, InBounds

\* A worker asks again, or waits to: it is at work as before.
LEMMA StaysRefines ==
  ASSUME ExtractionInv, InBounds, NEW w \in Pool, Out(w), NEW k \in Call, SetCall(w, k),
         k.state \in {"asking", "waiting"}, UNCHANGED <<phase, next, answers>>
  PROVE  UNCHANGED Counted!vars /\ InBounds'
<1>1. AtWork' = AtWork
  BY AtWorkThen, CountTypes
<1>2. StageNow' = StageNow
  BY DEF StageNow
<1> QED BY <1>1, <1>2, SameCounts DEF InBounds

LEMMA CallRefines ==
  ASSUME ExtractionInv, InBounds, NEW w \in Pool, Take(w) \/ Outcome(w) \/ Retry(w)
  PROVE  [Counted!Next]_(Counted!vars) /\ InBounds'
<1>0. call[w] \in Call /\ (Asking(w) \/ call[w].state = "waiting" => Out(w))
  BY CountTypes DEF Asking, Out
<1>1. CASE Take(w)
  BY <1>1, TakeRefines DEF Counted!Next
<1>2. CASE Tells(w)
  BY <1>2, TellsRefines DEF Counted!Next
<1>3. CASE Out(w) /\ Fails(w)
  BY <1>3, FailsRefines DEF Counted!Next
<1>4. CASE RefusesFormat(w) /\ call[w].format < Formats
  <2> DEFINE k == [state |-> "asking", chunk |-> call[w].chunk, attempt |-> call[w].attempt,
                   format |-> call[w].format + 1]
  <2>1. Out(w) /\ SetCall(w, k) /\ UNCHANGED <<phase, next, answers>>
    BY <1>0, <1>4 DEF RefusesFormat, Ask
  <2>2. k \in Call /\ k.state = "asking"
    BY <1>0, <1>4, RetriesAssumption DEF Call, States
  <2> HIDE DEF k
  <2> QED BY <2>1, <2>2, StaysRefines
<1>5. CASE Setback(w) /\ MayRetry(w)
  <2> DEFINE k == [call[w] EXCEPT !.state = "waiting"]
  <2>1. Out(w) /\ SetCall(w, k) /\ UNCHANGED <<phase, next, answers>>
    BY <1>0, <1>5 DEF Setback
  <2>2. k \in Call /\ k.state = "waiting"
    BY <1>0 DEF Call, States
  <2> HIDE DEF k
  <2> QED BY <2>1, <2>2, StaysRefines
<1>6. CASE Retry(w)
  <2> DEFINE k == [state |-> "asking", chunk |-> call[w].chunk, attempt |-> call[w].attempt + 1,
                   format |-> 1]
  <2>1. Out(w) /\ SetCall(w, k) /\ UNCHANGED <<phase, next, answers>>
    BY <1>0, <1>6 DEF Retry, Ask, Attempt
  <2>2. call[w].attempt < MaxAttempts
    BY <1>6 DEF Retry, ExtractionInv, Backoffs
  <2>3. k \in Call /\ k.state = "asking"
    BY <1>0, <2>2, RetriesAssumption DEF Call, States
  <2> HIDE DEF k
  <2> QED BY <2>1, <2>3, StaysRefines
<1> QED BY <1>0, <1>1, <1>2, <1>3, <1>4, <1>5, <1>6
        DEF Outcome, RefusesFormat, Setback, Refuses

LEMMA FinishRefines ==
  ASSUME ExtractionInv, InBounds, Finish
  PROVE  [Counted!Next]_(Counted!vars) /\ InBounds'
<1>1. UNCHANGED <<next, call, answers>> /\ AtWork' = AtWork /\ Heard' = Heard
  BY DEF Finish, BeginMerge, MergeNext, Completes, MergeThrows, AtWork, Idle, Heard
<1>2. InBounds'
  BY <1>1 DEF InBounds
<1>3. CASE BeginMerge \/ MergeNext
  <2>1. StageNow' = StageNow
    BY <1>3 DEF BeginMerge, Answered, MergeNext, StageNow
  <2> QED BY <1>1, <1>2, <2>1, SameCounts
<1>4. CASE Completes \/ MergeThrows
  <2>1. phase = "merging" /\ phase' \in {"done", "failed"} /\ InBounds
    BY <1>4 DEF Completes, MergeThrows, Merged
  <2>2. \A c \in 1 .. Len(answers) : answers[c] # NoAnswer
    BY <2>1 DEF ExtractionInv, Merges
  <2>3. next = Len(answers) + 1
    <3>1. next \in 1 .. Len(answers) => answers[next] = NoAnswer
      BY CountTypes DEF ExtractionInv, Workings
    <3> QED BY <2>1, <2>2, <3>1, CountTypes DEF InBounds
  <2>4. Counted!AllTold
    BY <2>1, <2>2, <2>3, NobodyAtWork, CountTypes DEF Counted!AllTold, StageNow
  <2>5. Counted!Succeed \/ Counted!Reject
    BY <1>1, <2>1, <2>4 DEF Counted!Succeed, Counted!Reject, Counted!counts, StageNow
  <2> QED BY <1>2, <2>5 DEF Counted!Next
<1> QED BY <1>3, <1>4 DEF Finish

LEMMA ExtractionStepRefines ==
  ExtractionInv /\ InBounds /\ [ExtractionNext]_extractionVars =>
    [Counted!Next]_(Counted!vars) /\ InBounds'
<1> SUFFICES ASSUME ExtractionInv, InBounds, [ExtractionNext]_extractionVars
             PROVE  [Counted!Next]_(Counted!vars) /\ InBounds'
  OBVIOUS
<1>1. CASE Over \/ UNCHANGED extractionVars
  <2>1. UNCHANGED <<phase, next, call, answers>>
    BY <1>1 DEF Over, extractionVars
  <2>2. AtWork' = AtWork /\ StageNow' = StageNow
    BY <2>1 DEF AtWork, Idle, StageNow
  <2> QED BY <2>1, <2>2, SameCounts DEF InBounds
<1> QED BY <1>1, PlanRefines, CallRefines, FinishRefines DEF ExtractionNext

\* An extraction does as a run of ExtractJobs does, by the counts that both of them keep:
\* planChunkSlices and runBounded take each slice once, answer it once or fail, and only
\* an extraction all of whose slices were answered succeeds.
THEOREM ExtractionDoesAsChunkRun == ExtractionSpec => ExtractionIsAChunkRun
<1>1. ExtractionInit => Counted!Init /\ InBounds
  <2> SUFFICES ASSUME ExtractionInit PROVE Counted!Init /\ InBounds
    OBVIOUS
  <2>1. Len(answers) = 0 /\ next = 1 /\ Heard = {} /\ AtWork = {} /\ StageNow = "new"
    BY DEF ExtractionInit, Heard, AtWork, Idle, Free, StageNow
  <2>2. Cardinality(Heard) = 0 /\ Cardinality(AtWork) = 0
    BY <2>1, FS_EmptySet
  <2> QED BY <2>1, <2>2 DEF Counted!Init, InBounds
<1> QED BY <1>1, ExtractionStepRefines, ExtractionAlways, PTL
        DEF ExtractionSpec, ExtractionIsAChunkRun, Counted!Spec
===============================================================================
