------------------------------ MODULE Extraction ------------------------------
(***************************************************************************)
(* One extraction: a transcript, the model calls it is read with, and the  *)
(* memories that come out (extractMemories of src/extraction.ts, chat of   *)
(* src/llm-openai-compat.ts).  `ExtractJobs` has the job around it.        *)
(*                                                                         *)
(* A transcript that does not fit the model's window beside the prompts is *)
(* cut into slices that overlap, so that what straddles a cut is still in  *)
(* one of them (planChunkSlices).  Workers take the slices in order        *)
(* (runBounded) and ask the model.  A call nests three retries: a response *)
(* format that is refused is followed by a weaker one, a transient failure *)
(* by another attempt, and a request that stays out is aborted.  The       *)
(* answers are put together in the order of the slices, whatever order     *)
(* they came in, and what two of them tell alike is kept once.             *)
(*                                                                         *)
(* A position counts characters.  The transcript's discoveries are what a  *)
(* reader should find in it: each is a span, and the model (external) is   *)
(* taken to tell those that a slice has whole, in words of its own, unless *)
(* its answer is cut short.  An answer is cut when the stream ends early,  *)
(* the token limit is met, or some of it does not parse: nothing in the    *)
(* code tells such an answer from a whole one.  Keywords, paths and the    *)
(* flags of near duplicates (which drop nothing) are left out.             *)
(***************************************************************************)
EXTENDS Integers, SequencesExt

CONSTANTS
  Totals,      \* lengths of the transcript
  Rooms,       \* what the window leaves for it, chunkRoomChars
  Overlap,     \* OVERLAP_CHARS
  Discoveries, \* their numbers
  Size,        \* [Discoveries -> length]
  Wordings,    \* ways to tell the same thing
  Pool,        \* the workers: REMOTE_CHUNK_CONCURRENCY of them, one for a local model
  MaxAttempts, \* 3, or 1 for a local model
  Formats,     \* length of buildFormatCascade's list: schema, object, none
  NoAnswer

ASSUME InputsAssumption == Totals \subseteq Nat /\ Rooms \subseteq Int /\ Overlap \in Nat
ASSUME DiscoveriesAssumption ==
  /\ Discoveries \subseteq Nat /\ IsFiniteSet(Discoveries)
  /\ Size \in [Discoveries -> Nat]
ASSUME PoolAssumption == IsFiniteSet(Pool)
ASSUME RetriesAssumption == MaxAttempts \in Nat \ {0} /\ Formats \in Nat \ {0}

VARIABLES
  total, room, \* the input
  at,          \* where each discovery begins
  phase,       \* of extractMemories
  slices,      \* [start, end) each
  cursor,      \* of the planning loop
  next,        \* the slice that is taken next, runBounded's nextIndex
  call,        \* [Pool -> the model call it waits for]
  answers,     \* what was told of each slice, or NoAnswer
  cut,         \* history: the slices whose answer was cut short
  source, taken, \* of the merge: the answer it reads, and how many memories of it are read
  result       \* the memories

input == <<total, room, at>>
plan  == <<slices, cursor>>
merge == <<source, taken, result>>
extractionVars == <<input, phase, plan, next, call, answers, cut, merge>>

Stages == {"starting", "planning", "asking", "merging", "failed", "done"}
States == {"free", "asking", "waiting", "stopped"}
Memories == [what : Discoveries, words : Wordings]
ASSUME NoAnswerAssumption == NoAnswer \notin Seq(Memories)

Slice == [start : Nat, end : Nat]
Call == [state : States, chunk : Nat, attempt : 1 .. MaxAttempts, format : 1 .. Formats]

Free == [state |-> "free", chunk |-> 0, attempt |-> 1, format |-> 1]

\* Discovery d lies in the slice from its first to its last character.
Whole(d, s) == s.start <= at[d] /\ at[d] + Size[d] <= s.end

ExtractionInit ==
  /\ total \in Totals /\ room \in Rooms
  /\ at \in [Discoveries -> 0 .. total]
  /\ \A d \in Discoveries : at[d] + Size[d] <= total
  /\ phase = "starting" /\ slices = <<>> /\ cursor = 0 /\ next = 1
  /\ call = [w \in Pool |-> Free]
  /\ answers = <<>> /\ cut = {}
  /\ source = 1 /\ taken = 0 /\ result = <<>>

-----------------------------------------------------------------------------
(* The plan. *)

BeginAsking(cuts) ==
  /\ slices' = cuts /\ phase' = "asking"
  /\ answers' = [c \in 1 .. Len(cuts) |-> NoAnswer]

\* fitsSinglePass: one call reads it all.
SinglePass ==
  /\ phase = "starting" /\ total <= room
  /\ BeginAsking(<<[start |-> 0, end |-> total]>>)
  /\ UNCHANGED <<input, cursor, next, call, cut, merge>>

BeginPlan ==
  /\ phase = "starting" /\ total > room /\ room > 0
  /\ phase' = "planning"
  /\ UNCHANGED <<input, plan, next, call, answers, cut, merge>>

\* The model's window is not known, the org's vocabulary cannot be loaded, or the
\* prompts leave no room.
CannotStart ==
  /\ phase = "starting"
  /\ phase' = "failed"
  /\ UNCHANGED <<input, plan, next, call, answers, cut, merge>>

\* planChunkSlices goes back by the overlap, unless that would bring it no further.
SliceEnd == IF cursor + room < total THEN cursor + room ELSE total
NextCursor_NoOverlap == SliceEnd
NextCursor == IF SliceEnd - Overlap > cursor THEN SliceEnd - Overlap ELSE SliceEnd

PlanSlice ==
  /\ phase = "planning" /\ cursor < total
  /\ LET cuts == Append(slices, [start |-> cursor, end |-> SliceEnd])
     IN IF SliceEnd >= total
        THEN BeginAsking(cuts) /\ UNCHANGED cursor
        ELSE slices' = cuts /\ cursor' = NextCursor /\ UNCHANGED <<phase, answers>>
  /\ UNCHANGED <<input, next, call, cut, merge>>

-----------------------------------------------------------------------------
(* The calls.  Those that are out when another fails go on, and their workers
   take what is left: nothing stops them. *)

Asking(w) == call[w].state = "asking"
Idle(w)   == call[w].state \in {"free", "stopped"}
SetCall(w, x) == call' = [call EXCEPT ![w] = x]

Ask(w, chunk, attempt, format) ==
  SetCall(w, [state |-> "asking", chunk |-> chunk, attempt |-> attempt, format |-> format])

Take(w) ==
  /\ phase \in {"asking", "failed"} /\ call[w].state = "free" /\ next <= Len(slices)
  /\ Ask(w, next, 1, 1)
  /\ next' = next + 1
  /\ UNCHANGED <<input, phase, plan, answers, cut, merge>>

\* What a slice holds whole, in the order of the transcript: there is one such list.
Before(d, e) == at[d] < at[e] \/ (at[d] = at[e] /\ d < e)
Found(c) ==
  LET whole == {d \in Discoveries : Whole(d, slices[c])}
  IN {found \in Bijection(1 .. Cardinality(whole), whole) :
        \A i, j \in DOMAIN found : i < j => Before(found[i], found[j])}

\* The answer when the first n memories come through, the i-th told as in words[i].
Told(found, n, words) == [i \in 1 .. n |-> [what |-> found[i], words |-> words[i]]]

\* n < Len(found): the stream ended early, or the token limit was met, and what is
\* complete of the answer is taken for all of it; or it does not parse, which gives none.
Tells(w) ==
  LET c == call[w].chunk
  IN /\ Asking(w)
     /\ \E found \in Found(c) : \E n \in 0 .. Len(found) :
          /\ \E words \in [1 .. n -> Wordings] :
               answers' = [answers EXCEPT ![c] = Told(found, n, words)]
          /\ cut' = IF n < Len(found) THEN cut \cup {c} ELSE cut
     /\ SetCall(w, Free)
     /\ UNCHANGED <<input, phase, plan, next, merge>>

\* The rejection leaves runBounded, and extractMemories throws it.
Fails_Swallowed(w) ==
  /\ SetCall(w, Free)
  /\ answers' = [answers EXCEPT ![call[w].chunk] = <<>>]
  /\ UNCHANGED <<input, phase, plan, next, cut, merge>>
Fails(w) ==
  /\ SetCall(w, [call[w] EXCEPT !.state = "stopped"])
  /\ phase' = "failed"
  /\ UNCHANGED <<input, plan, next, answers, cut, merge>>

\* A 400 that names response_format: the next of the list is tried in the same attempt.
RefusesFormat(w) ==
  /\ Asking(w)
  /\ IF call[w].format < Formats
     THEN /\ Ask(w, call[w].chunk, call[w].attempt, call[w].format + 1)
          /\ UNCHANGED <<input, phase, plan, next, answers, cut, merge>>
     ELSE Fails(w)

\* No text in the answer, a 429 or a 5xx, no connection, a body that is not JSON, and
\* both timers: the whole request's, and a stream's between two chunks.
MayRetry(w) == call[w].attempt < MaxAttempts
Setback(w) ==
  /\ Asking(w)
  /\ IF MayRetry(w)
     THEN /\ SetCall(w, [call[w] EXCEPT !.state = "waiting"])
          /\ UNCHANGED <<input, phase, plan, next, answers, cut, merge>>
     ELSE Fails(w)

\* Any other refusal, and an error or a line that is not JSON in a stream that began
\* with 200.
Refuses(w) == Asking(w) /\ Fails(w)

\* The backoff is over: the list of formats begins anew.
Attempt_Same(w) == call[w].attempt
Attempt(w) == call[w].attempt + 1
Retry(w) ==
  /\ call[w].state = "waiting"
  /\ Ask(w, call[w].chunk, Attempt(w), 1)
  /\ UNCHANGED <<input, phase, plan, next, answers, cut, merge>>

-----------------------------------------------------------------------------
(* The merge.  It is done without a pause, as is the plan, and step by step here; no
   call is out any more. *)

\* dedupeOverlapCandidatesByExtractionHash: of what is alike to the letter, the first.
Kept_All(m) == Append(result, m)
Kept(m) == IF Contains(result, m) THEN result ELSE Append(result, m)

Answered_NotAwaited == phase = "asking" /\ next > Len(slices)
Answered == phase = "asking" /\ \A c \in 1 .. Len(slices) : answers[c] # NoAnswer

\* The answer of a single pass is taken as it is.
BeginMerge ==
  /\ Answered
  /\ phase' = "merging"
  /\ IF Len(slices) = 1 THEN result' = answers[1] /\ source' = 2
                        ELSE UNCHANGED <<result, source>>
  /\ UNCHANGED <<input, plan, next, call, answers, cut, taken>>

MergeNext ==
  /\ phase = "merging" /\ source <= Len(slices)
  /\ IF taken < Len(answers[source])
     THEN taken' = taken + 1 /\ result' = Kept(answers[source][taken + 1]) /\ UNCHANGED source
     ELSE source' = source + 1 /\ taken' = 0 /\ UNCHANGED result
  /\ UNCHANGED <<input, phase, plan, next, call, answers, cut>>

Merged == phase = "merging" /\ source > Len(slices)

Completes ==
  /\ Merged
  /\ phase' = "done"
  /\ UNCHANGED <<input, plan, next, call, answers, cut, merge>>

\* validateMc1WriteEnvelope throws for one memory: all are lost.
MergeThrows ==
  /\ Merged
  /\ phase' = "failed"
  /\ UNCHANGED <<input, plan, next, call, answers, cut, merge>>

-----------------------------------------------------------------------------
Outcome(w) == Tells(w) \/ RefusesFormat(w) \/ Setback(w) \/ Refuses(w)

Plan == SinglePass \/ BeginPlan \/ CannotStart \/ PlanSlice
Finish == BeginMerge \/ MergeNext \/ Completes \/ MergeThrows

\* The extraction has settled and nothing of it is under way.
Over ==
  /\ phase \in {"failed", "done"}
  /\ \A w \in Pool : Idle(w) /\ (call[w].state = "free" => next > Len(slices))
  /\ UNCHANGED extractionVars

ExtractionNext ==
  \/ Plan
  \/ \E w \in Pool : Take(w) \/ Outcome(w) \/ Retry(w)
  \/ Finish
  \/ Over

ExtractionSpec == ExtractionInit /\ [][ExtractionNext]_extractionVars

\* Each request is bounded by two timers, each backoff by one; the rest is the
\* process's own.
ExtractionFairSpec ==
  /\ ExtractionSpec
  /\ WF_extractionVars(Plan) /\ WF_extractionVars(Finish)
  /\ \A w \in Pool : /\ WF_extractionVars(Take(w)) /\ WF_extractionVars(Outcome(w))
                     /\ WF_extractionVars(Retry(w))

-----------------------------------------------------------------------------
(* The properties. *)

\* The variables hold what extractMemories, runBounded and chat can hold.
ExtractionTypeOK ==
  /\ total \in Nat /\ room \in Int /\ at \in [Discoveries -> Nat]
  /\ phase \in Stages
  /\ slices \in Seq(Slice) /\ cursor \in Nat /\ next \in Nat \ {0}
  /\ call \in [Pool -> Call]
  /\ answers \in Seq(Seq(Memories) \cup {NoAnswer}) /\ cut \subseteq Nat
  /\ source \in Nat /\ taken \in Nat /\ result \in Seq(Memories)

\* The slices leave nothing out and none is longer than the room: when they overlap,
\* any stretch of the transcript no longer than the overlap, and one character more,
\* lies in one of them from end to end.  (With no more room than the overlap
\* planChunkSlices gives up the overlap, and holds only single characters.)
Planned == phase \in {"asking", "merging", "done"} /\ slices # <<>>
Stretch == IF room > Overlap THEN Overlap + 1 ELSE 1
PlanCovers ==
  Planned =>
    /\ \A c \in 1 .. Len(slices) : slices[c].end - slices[c].start <= room
    /\ \A p \in 0 .. total : \A n \in 1 .. Stretch :
         p + n <= total => \E c \in 1 .. Len(slices) : slices[c].start <= p /\ p + n <= slices[c].end

\* An extraction that succeeds has every discovery that a slice had whole, unless the
\* answer to every such slice was cut short; and there is such a slice for each that
\* is no longer than the overlap.  Retries, weaker formats and failures of other
\* slices lose nothing.
Holders(d) == {c \in 1 .. Len(slices) : Whole(d, slices[c])}
InResult(d) == \E i \in 1 .. Len(result) : result[i].what = d
NothingIsMissed ==
  phase = "done" => \A d \in Discoveries :
    /\ ~InResult(d) => Holders(d) \subseteq cut
    /\ (Size[d] \in 1 .. Stretch \/ Len(slices) = 1) => Holders(d) # {}

\* The memories are those that were told, each once, in the order of the slices that
\* first told them, whatever order the answers came in.
FirstTeller(m) == CHOOSE c \in 1 .. Len(answers) :
                    /\ Contains(answers[c], m)
                    /\ \A b \in 1 .. c - 1 : ~Contains(answers[b], m)
OnceInOrder ==
  phase = "done" =>
    /\ ToSet(result) = UNION {ToSet(answers[c]) : c \in 1 .. Len(answers)}
    /\ Len(slices) > 1 => \A i, j \in 1 .. Len(result) :
         i < j => result[i] # result[j] /\ FirstTeller(result[i]) <= FirstTeller(result[j])

\* Counting its slices, an extraction is what ChunkRun says a run of ExtractJobs is.
StageNow ==
  CASE phase \in {"starting", "planning"} -> "new"
    [] phase \in {"asking", "merging"}    -> "working"
    [] phase = "failed"                   -> "failing"
    [] phase = "done"                     -> "over"

AtWork == {w \in Pool : ~Idle(w)}
Heard  == {c \in 1 .. Len(answers) : answers[c] # NoAnswer}

Counted == INSTANCE ChunkRun WITH
  stage <- StageNow,
  left  <- Len(answers) - (next - 1),
  busy  <- Cardinality(AtWork),
  done  <- Cardinality(Heard)

ExtractionIsAChunkRun == Counted!Spec

\* Every extraction succeeds or fails, and leaves no call behind.
ExtractionEnds == <>[](phase \in {"failed", "done"} /\ \A w \in Pool : Idle(w))
================================================================================
