----------------------------- MODULE GstvClose -----------------------------
(***************************************************************************)
(* What a closing goal leaves behind: receipts and the unlock record.      *)
(*                                                                         *)
(* GstvEngine!Measure is one step there; here is what it does (src/gstv/   *)
(* unlock.ts).  runGoalCloseMeasurement writes a signed predicate receipt, *)
(* reads the index of failure episodes, writes a negative receipt for      *)
(* every unresolved row, and at last extraction-unlock.json, which cites   *)
(* the receipts.  Each receipt is given one second: the measurement goes   *)
(* on without it, but nothing cancels the write, which may land later.     *)
(* To sign, a writer looks the identity's seed up; the keychain is asked   *)
(* synchronously, so while it prompts the user nothing else of the process *)
(* runs, timers included.                                                  *)
(* Meanwhile extraction requests append rows to the same index, computed   *)
(* from the session as it was when the request began.                      *)
(***************************************************************************)
EXTENDS Integers, Sequences, FiniteSets, SequencesExt

CONSTANTS
  Episodes,     \* failure episodes of the sessions attached to the goal
  Touched,      \* [Episodes -> sets of files]: what the failed attempt edited
  FinalFiles,   \* the files of the closing manifest (manifest-head.json)
  Nothing,
  MaxExtracts,  \* bounds: extraction requests,
  MaxFaults     \*   reads and writes that fail

ASSUME EpisodesAssumption == IsFiniteSet(Episodes)
ASSUME CloseBoundsAssumption == MaxExtracts \in Nat /\ MaxFaults \in Nat

VARIABLES
  outcome,    \* [Episodes -> "absent", "unresolved" or "resolved"], as the session stands
  batches,    \* rows of extraction requests, computed but not yet appended
  index,      \* episodes.jsonl
  pc,         \* where runGoalCloseMeasurement is; "failed": over without a record;
              \*   "gone": the process is dead
  waiting,    \* the receipt it awaits, or Nothing
  inflight,   \* receipt writers under way, timed out or not
  unasked,    \* those of them that have not looked the seed up yet
  prompt,     \* the keychain prompts the user: the event loop stands still
  receipts,   \* receipt files on disk
  cited,      \* receipt ids the measurement was given in time
  gaps,       \* gaps_disclosed
  snapshot,   \* the episodes it read
  next,       \* index into snapshot of the row it considers next
  unlockRecord, \* extraction-unlock.json, or Nothing
  extracts, faults \* counters for the bounds

closeVars == <<outcome, batches, index, pc, waiting, inflight, unasked, prompt, receipts, cited, gaps,
               snapshot, next, unlockRecord, extracts, faults>>

measureVars == <<pc, waiting, inflight, unasked, prompt, cited, gaps, snapshot, next>>

Outcomes  == {"unresolved", "resolved"}
Row       == [ep : Episodes, outcome : Outcomes]
\* A receipt is named by what it is about; row 0 stands for the predicate receipt.
Predicate == [kind |-> "predicate", row |-> 0]
Negative(i) == [kind |-> "negative", row |-> i]
Receipts  == {Predicate} \cup [kind : {"negative"}, row : Nat \ {0}]

\* What unlock.ts discloses when it cannot read the closing manifest.
NoManifest == [kind |-> "manifest", row |-> 0]

ASSUME NothingAssumption == Nothing \notin Receipts

-----------------------------------------------------------------------------
CloseInit ==
  /\ outcome = [e \in Episodes |-> "absent"]
  /\ batches = {} /\ index = <<>>
  /\ pc = "idle" /\ waiting = Nothing /\ inflight = {} /\ unasked = {} /\ prompt = FALSE
  /\ receipts = {} /\ cited = {} /\ gaps = {} /\ snapshot = <<>> /\ next = 1
  /\ unlockRecord = Nothing
  /\ extracts = 0 /\ faults = 0

\* Nothing of the process runs while the keychain prompts, or once it is dead.
Running == ~prompt /\ pc # "gone"

\* A read or a write fails.
CloseFault == faults < MaxFaults /\ faults' = faults + 1

(* The session and its extraction requests. *)

\* A command fails: an episode opens.  A later run passes: it is resolved.
Progress(e) ==
  /\ \/ outcome[e] = "absent" /\ outcome' = [outcome EXCEPT ![e] = "unresolved"]
     \/ outcome[e] = "unresolved" /\ outcome' = [outcome EXCEPT ![e] = "resolved"]
  /\ UNCHANGED <<batches, index, measureVars, receipts, unlockRecord, extracts, faults>>

\* handleExtract segments the whole session: one row for every episode so far.
RowsNow ==
  LET eps == SetToSeq({e \in Episodes : outcome[e] # "absent"})
  IN [i \in 1 .. Len(eps) |-> [ep |-> eps[i], outcome |-> outcome[eps[i]]]]

BeginExtract ==
  /\ Running /\ extracts < MaxExtracts
  /\ extracts' = extracts + 1
  /\ batches' = IF RowsNow = <<>> THEN batches
                ELSE batches \cup {[request |-> extracts + 1, rows |-> RowsNow]}
  /\ UNCHANGED <<outcome, index, measureVars, receipts, unlockRecord, faults>>

AppendedTo(rows) == index \o rows

\* appendGoalEpisodeIndex awaits mkdir and chmod before it appends.
AppendRows ==
  /\ Running
  /\ \E b \in batches : index' = AppendedTo(b.rows) /\ batches' = batches \ {b}
  /\ UNCHANGED <<outcome, measureVars, receipts, unlockRecord, extracts, faults>>

(* The measurement. *)

\* Start a receipt writer and wait for it.
Await(r) ==
  waiting' = r /\ inflight' = inflight \cup {r} /\ unasked' = unasked \cup {r}

\* Without a goal or a chain head there is nothing to sign: disclosed.
BeginMeasure ==
  /\ Running /\ pc = "idle" /\ pc' = "predicate"
  /\ \/ Await(Predicate) /\ UNCHANGED <<gaps, faults>>
     \/ CloseFault /\ gaps' = gaps \cup {Predicate} /\ UNCHANGED <<waiting, inflight, unasked>>
  /\ UNCHANGED <<outcome, batches, index, prompt, receipts, cited, snapshot, next,
                 unlockRecord, extracts>>

\* A writer looks the seed up; the keychain may prompt, until the user answers.
LooksUp(r) ==
  /\ Running /\ r \in unasked /\ unasked' = unasked \ {r}
  /\ prompt' \in BOOLEAN
  /\ UNCHANGED <<outcome, batches, index, pc, waiting, inflight, receipts, cited, gaps,
                 snapshot, next, unlockRecord, extracts, faults>>
Answered ==
  /\ prompt /\ prompt' = FALSE
  /\ UNCHANGED <<outcome, batches, index, pc, waiting, inflight, unasked, receipts, cited,
                 gaps, snapshot, next, unlockRecord, extracts, faults>>

\* The race of withTimeout is over as soon as the writer it waits for settles.
WaitingAfter(r) == IF waiting = r THEN Nothing ELSE waiting

\* A writer reaches the disk; the measurement hears of it if it still waits.
Lands(r) ==
  /\ Running /\ r \in inflight \ unasked /\ inflight' = inflight \ {r}
  /\ receipts' = receipts \cup {r}
  /\ waiting' = WaitingAfter(r)
  /\ cited' = IF waiting = r THEN cited \cup {r} ELSE cited
  /\ UNCHANGED <<outcome, batches, index, pc, unasked, prompt, gaps, snapshot, next,
                 unlockRecord, extracts, faults>>

\* No identity, or the write throws: disclosed if still awaited.
Fails(r) ==
  /\ Running /\ r \in inflight /\ inflight' = inflight \ {r} /\ unasked' = unasked \ {r}
  /\ CloseFault
  /\ waiting' = WaitingAfter(r)
  /\ gaps' = IF waiting = r THEN gaps \cup {r} ELSE gaps
  /\ UNCHANGED <<outcome, batches, index, pc, prompt, receipts, cited, snapshot, next,
                 unlockRecord, extracts>>

CanTimeOut_Never == FALSE
CanTimeOut == waiting # Nothing

CitedOnTimeout_Anyway == cited \cup {waiting}
CitedOnTimeout == cited
GapsOnTimeout_Silent == gaps
GapsOnTimeout == gaps \cup {waiting}

\* withTimeout: 1000 ms are over and the event loop turns.  The writer is not told.
TimesOut ==
  /\ Running /\ CanTimeOut
  /\ waiting' = Nothing
  /\ gaps' = GapsOnTimeout /\ cited' = CitedOnTimeout
  /\ UNCHANGED <<outcome, batches, index, pc, inflight, unasked, prompt, receipts, snapshot,
                 next, unlockRecord, extracts, faults>>

\* The index is read, then the closing manifest: an index that cannot be read ends
\* the measurement, a manifest that cannot be read drops every negative receipt.
LoadEpisodes ==
  /\ Running /\ pc = "predicate" /\ waiting = Nothing
  /\ \/ pc' = "rows" /\ snapshot' = index /\ UNCHANGED <<gaps, next, faults>>
     \/ /\ CloseFault /\ pc' = "rows" /\ snapshot' = index
        /\ gaps' = gaps \cup {NoManifest} /\ next' = Len(index) + 1
     \/ CloseFault /\ pc' = "failed" /\ UNCHANGED <<snapshot, gaps, next>>
  /\ UNCHANGED <<outcome, batches, index, waiting, inflight, unasked, prompt, receipts, cited,
                 unlockRecord, extracts>>

\* A row cites no files (episodeIndexRecord writes none), so an unresolved attempt
\* that edited anything gets its receipt without a look at the manifest.
WantsReceipt(row) == row.outcome = "unresolved" /\ Touched[row.ep] # {}

ConsiderRow ==
  /\ Running /\ pc = "rows" /\ waiting = Nothing /\ next <= Len(snapshot)
  /\ next' = next + 1
  /\ IF WantsReceipt(snapshot[next]) THEN Await(Negative(next))
                                     ELSE UNCHANGED <<waiting, inflight, unasked>>
  /\ UNCHANGED <<outcome, batches, index, pc, prompt, receipts, cited, gaps, snapshot, unlockRecord,
                 extracts, faults>>

\* extraction-unlock.json is written atomically, last of all; a failure is only logged.
WriteUnlock ==
  /\ Running /\ pc = "rows" /\ waiting = Nothing /\ next > Len(snapshot)
  /\ \/ /\ unlockRecord' = [cited |-> cited, episodes |-> snapshot, gaps |-> gaps,
                            tier |-> IF Predicate \in cited THEN "T1" ELSE "T0"]
        /\ pc' = "done" /\ UNCHANGED faults
     \/ CloseFault /\ pc' = "failed" /\ UNCHANGED unlockRecord
  /\ UNCHANGED <<outcome, batches, index, waiting, inflight, unasked, prompt, receipts, cited,
                 gaps, snapshot, next, extracts>>

\* The process dies: closed.json is there, so no restart measures this goal again.
Dies ==
  /\ pc # "gone" /\ pc' = "gone"
  /\ batches' = {} /\ inflight' = {} /\ unasked' = {} /\ prompt' = FALSE /\ waiting' = Nothing
  /\ UNCHANGED <<outcome, index, receipts, cited, gaps, snapshot, next, unlockRecord, extracts, faults>>

Session     == BeginExtract \/ AppendRows \/ \E e \in Episodes : Progress(e)
Writers     == Answered \/ \E r \in inflight : LooksUp(r) \/ Lands(r) \/ Fails(r)
Measurement == BeginMeasure \/ LoadEpisodes \/ ConsiderRow \/ WriteUnlock
CloseNext   == Session \/ Writers \/ Measurement \/ TimesOut \/ Dies

CloseSpec == CloseInit /\ [][CloseNext]_closeVars

\* The timer fires and the handler goes on, while the event loop turns.  A writer may
\* hang for ever and the user need never answer: nothing is assumed of Writers.
CloseFairSpec ==
  /\ CloseSpec
  /\ WF_closeVars(TimesOut) /\ WF_closeVars(LoadEpisodes)
  /\ WF_closeVars(ConsiderRow) /\ WF_closeVars(WriteUnlock)

-----------------------------------------------------------------------------
(* Properties. *)

\* The variables hold values of their types.
CloseTypeOK ==
  /\ outcome \in [Episodes -> Outcomes \cup {"absent"}]
  /\ \A b \in batches : b.request \in 1 .. MaxExtracts /\ b.rows \in Seq(Row)
  /\ index \in Seq(Row) /\ snapshot \in Seq(Row) /\ next \in 1 .. Len(snapshot) + 1
  /\ pc \in {"idle", "predicate", "rows", "done", "failed", "gone"} /\ prompt \in BOOLEAN
  /\ waiting \in inflight \cup {Nothing}
  /\ {inflight, receipts, cited} \subseteq SUBSET Receipts
  /\ unasked \subseteq inflight /\ gaps \subseteq Receipts \cup {NoManifest}
  /\ unlockRecord # Nothing => unlockRecord.tier \in {"T0", "T1"}
  /\ extracts \in 0 .. MaxExtracts /\ faults \in 0 .. MaxFaults

(* The unlock record cites only receipts that are on disk, and claims T1    *)
(* only on the strength of one: late or failed writes are never counted.    *)
CitedReceiptsExist ==
  unlockRecord # Nothing => /\ unlockRecord.cited \subseteq receipts
                            /\ unlockRecord.tier = "T1" => Predicate \in receipts

(* A receipt on disk that the unlock record does not cite landed after its  *)
(* deadline, and the record says that it was missed.                        *)
OrphansAreDisclosed ==
  unlockRecord # Nothing => receipts \ unlockRecord.cited \subseteq unlockRecord.gaps

(* However long a writer takes, the measurement ends: with an unlock record *)
(* unless the process died or a read or write failed.  The one thing it can *)
(* wait for in vain is a keychain prompt that is never answered.            *)
MeasurementEnds ==
  []<>~prompt =>
    ((pc = "predicate") ~>
      \/ pc = "gone"
      \/ pc = "done" /\ unlockRecord # Nothing
      \/ pc = "failed" /\ faults > 0)

(* What the code says of a negative receipt (receipts.ts:214-215): the      *)
(* files the attempt cited are absent from the closing manifest.            *)
NegativeMeansAbsent ==
  \A i \in 1 .. Len(snapshot) :
    Negative(i) \in receipts => Touched[snapshot[i].ep] \cap FinalFiles = {}
=============================================================================
