----------------------------- MODULE GstvSpool -----------------------------
(***************************************************************************)
(* The spool: how events written by the editor plugin reach the engine.    *)
(*                                                                         *)
(* The plugin (outside this repository) appends JSONL rows to one file per *)
(* spool directory.  SpoolConsumer (src/gstv/spool.ts) polls the files,    *)
(* hands every complete, well-formed row to the engine's in-memory promise *)
(* queue (GstvEngine.ingest), and remembers how far it has read: in memory *)
(* at once, on disk (spool-offsets.json) when the poll ends.  The queue    *)
(* runs the handlers one at a time, after the poll.  The process may die   *)
(* between any two steps; writing the offsets may fail; the plugin may     *)
(* truncate a file under the consumer.                                     *)
(*                                                                         *)
(* A row is a record [id, form]; the rows of a spool are numbered as they  *)
(* are begun, across truncations, so the history of handled events shows   *)
(* losses, repeats and reordering.  Byte offsets are abstracted to row     *)
(* counts: the unfinished last row counts as one.                          *)
(***************************************************************************)
EXTENDS Integers, Sequences, FiniteSets

CONSTANTS
  Spools,        \* the spool directories being polled (resolveSpoolDirs)
  MaxRows,       \* bounds: rows the plugin ever begins in each spool
  MaxCrashes,    \* bound: deaths of the process
  MaxFaults,     \* bound: failed reads, failed or unreadable offset files
  MaxTruncates   \* bound: truncations of one spool file by the plugin

ASSUME SpoolsAssumption == IsFiniteSet(Spools) /\ Spools # {}
ASSUME BoundsAssumption ==
  /\ MaxRows \in [Spools -> Nat] /\ MaxCrashes \in Nat
  /\ MaxFaults \in Nat /\ MaxTruncates \in Nat

VARIABLES
  file,      \* [Spools -> Seq(Row)]: spool-v1.jsonl of every directory
  rows,      \* [Spools -> Nat]: rows ever begun; ids are 1 .. rows[d]
  up,        \* the process that owns the consumer is running
  memOff,    \* SpoolConsumer.offsets: rows consumed, as the process knows it
  diskOff,   \* spool-offsets.json: rows consumed, as a restart will find it
  todo,      \* directories pollOnce has still to read
  polling,   \* the `polling` flag of safePollOnce
  dirty,     \* shouldPersistOffsets of the poll in progress
  lines,     \* lines of the directory being read, not yet handed on
  reading,   \* that directory
  queue,     \* events chained on GstvEngine.queue, not yet dispatched
  handled,   \* history: events dispatched to a handler, in order
  lost,      \* history: events that sat in `queue` when the process died
  crashes, faults, \* counters for the bounds
  truncates  \* [Spools -> Nat]: how often each file was truncated

consumerVars == <<memOff, diskOff, todo, polling, dirty, lines, reading>>
counters     == <<crashes, faults, truncates>>
vars == <<file, rows, up, memOff, diskOff, todo, polling, dirty, lines, reading,
          queue, handled, lost, crashes, faults, truncates>>

Forms == {"partial", "good", "bad"}
Row   == [id : Nat, form : Forms]
Event == [spool : Spools, id : Nat]
NoOffsets == [d \in Spools |-> 0]

-----------------------------------------------------------------------------
(* What a poll sees in a file.                                             *)

\* A row without its newline is not consumed (lastNewline in pollOnce).
CompleteOnly_TakesPartial(s) == Len(s)
CompleteOnly(s) ==
  IF s # <<>> /\ s[Len(s)].form = "partial" THEN Len(s) - 1 ELSE Len(s)

\* The persisted offset, or 0 when the file has become shorter than it.
StartOffset(d) == IF Len(file[d]) < memOff[d] THEN 0 ELSE memOff[d]

\* Where the offset stands after the poll: past the last complete row.
NextOffset_Whole(d) == Len(file[d])
NextOffset(d) ==
  IF CompleteOnly(file[d]) > StartOffset(d)
  THEN CompleteOnly(file[d]) ELSE StartOffset(d)

\* The complete rows a poll finds beyond the offset.
NewRows(d) == SubSeq(file[d], StartOffset(d) + 1, CompleteOnly(file[d]))

\* tryParseLine drops a row that is not a well-formed envelope.
Parsed(row) == IF row.form = "good" THEN <<[spool |-> reading, id |-> row.id]>> ELSE <<>>

-----------------------------------------------------------------------------
Init ==
  /\ file = [d \in Spools |-> <<>>]
  /\ rows = NoOffsets
  /\ up = FALSE
  /\ memOff = NoOffsets /\ diskOff = NoOffsets
  /\ todo = {} /\ polling = FALSE /\ dirty = FALSE
  /\ lines = <<>> /\ reading \in Spools
  /\ queue = <<>> /\ handled = <<>> /\ lost = {}
  /\ crashes = 0 /\ faults = 0 /\ truncates = NoOffsets

(* The plugin. *)

LastRow(d) == file[d][Len(file[d])]

\* The plugin starts a row; until its newline is written the row is partial.
BeginRow(d) ==
  /\ rows[d] < MaxRows[d]
  /\ file[d] # <<>> => LastRow(d).form # "partial"
  /\ rows' = [rows EXCEPT ![d] = @ + 1]
  /\ file' = [file EXCEPT ![d] = Append(@, [id |-> rows[d] + 1, form |-> "partial"])]
  /\ UNCHANGED <<up, consumerVars, queue, handled, lost, counters>>

\* The newline arrives; the line parses as an envelope or it does not.
FinishRow(d) ==
  /\ file[d] # <<>> /\ LastRow(d).form = "partial"
  /\ \E form \in {"good", "bad"} :
       file' = [file EXCEPT ![d] = [@ EXCEPT ![Len(file[d])] =
                                     [id |-> LastRow(d).id, form |-> form]]]
  /\ UNCHANGED <<rows, up, consumerVars, queue, handled, lost, counters>>

\* The plugin empties the file (rotation); the consumer is not told.
Truncate(d) ==
  /\ truncates[d] < MaxTruncates
  /\ file[d] # <<>>
  /\ file' = [file EXCEPT ![d] = <<>>]
  /\ truncates' = [truncates EXCEPT ![d] = @ + 1]
  /\ UNCHANGED <<rows, up, consumerVars, queue, handled, lost, crashes, faults>>

(* The process that owns the consumer. *)

\* The constructor loads spool-offsets.json; one it cannot use counts as empty.
Start ==
  /\ ~up
  /\ up' = TRUE
  /\ \/ memOff' = diskOff /\ UNCHANGED faults
     \/ faults < MaxFaults /\ faults' = faults + 1 /\ memOff' = NoOffsets
  /\ UNCHANGED <<file, rows, diskOff, todo, polling, dirty, lines, reading,
                 queue, handled, lost, crashes, truncates>>

\* The process dies, or stop() is followed by exit: what was in memory is gone.
Crash ==
  /\ up /\ crashes < MaxCrashes
  /\ up' = FALSE
  /\ crashes' = crashes + 1
  /\ lost' = lost \cup {queue[i] : i \in 1 .. Len(queue)}
  /\ queue' = <<>>
  /\ memOff' = NoOffsets /\ todo' = {} /\ polling' = FALSE /\ dirty' = FALSE
  /\ lines' = <<>>
  /\ UNCHANGED <<file, rows, diskOff, reading, handled, faults, truncates>>

(* The consumer: one poll at a time, all of it before any handler runs. *)

BeginPoll ==
  /\ up /\ ~polling
  /\ polling' = TRUE /\ todo' = Spools /\ dirty' = FALSE
  /\ UNCHANGED <<file, rows, up, memOff, diskOff, lines, reading, queue,
                 handled, lost, counters>>

\* One directory is read whole: its new rows are in a buffer, its offset moves on.
ReadSpool(d) ==
  /\ polling /\ lines = <<>> /\ d \in todo
  /\ todo' = todo \ {d}
  /\ reading' = d /\ lines' = NewRows(d)
  /\ memOff' = [memOff EXCEPT ![d] = NextOffset(d)]
  /\ dirty' = (dirty \/ memOff[d] # NextOffset(d))
  /\ UNCHANGED <<file, rows, up, diskOff, polling, queue, handled, lost, counters>>

\* The loop over the lines: onEvent chains each parsed envelope on the queue.
TakeLine ==
  /\ lines # <<>>
  /\ queue' = queue \o Parsed(Head(lines))
  /\ lines' = Tail(lines)
  /\ UNCHANGED <<file, rows, up, memOff, diskOff, todo, polling, dirty, reading,
                 handled, lost, counters>>

\* stat or read throws: the directory is left for the next poll.
ReadFails(d) ==
  /\ polling /\ lines = <<>> /\ d \in todo
  /\ faults < MaxFaults /\ faults' = faults + 1
  /\ todo' = todo \ {d}
  /\ UNCHANGED <<file, rows, up, memOff, diskOff, polling, dirty, lines, reading,
                 queue, handled, lost, crashes, truncates>>

\* The offsets are written once, at the end, by a temporary file and a rename.
SavedOffsets == IF dirty THEN memOff ELSE diskOff

EndPoll ==
  /\ polling /\ todo = {} /\ lines = <<>>
  /\ polling' = FALSE /\ dirty' = FALSE
  /\ diskOff' = SavedOffsets
  /\ UNCHANGED <<file, rows, up, memOff, todo, lines, reading, queue, handled,
                 lost, counters>>

\* persistOffsets throws: the disk keeps the old offsets, memory the new ones.
PersistFails ==
  /\ polling /\ todo = {} /\ lines = <<>> /\ dirty
  /\ faults < MaxFaults /\ faults' = faults + 1
  /\ polling' = FALSE /\ dirty' = FALSE
  /\ UNCHANGED <<file, rows, up, memOff, diskOff, todo, lines, reading, queue,
                 handled, lost, crashes, truncates>>

\* The next handler on the promise queue; never while a poll is on the stack.
CanHandle_MidPoll == up
CanHandle == up /\ ~polling
Handle ==
  /\ CanHandle
  /\ queue # <<>>
  /\ handled' = Append(handled, Head(queue))
  /\ queue' = Tail(queue)
  /\ UNCHANGED <<file, rows, up, consumerVars, lost, counters>>

-----------------------------------------------------------------------------
Plugin   == \E d \in Spools : BeginRow(d) \/ FinishRow(d) \/ Truncate(d)
Poll     == BeginPoll \/ TakeLine \/ EndPoll \/ PersistFails
            \/ \E d \in Spools : ReadSpool(d) \/ ReadFails(d)
Next     == Plugin \/ Start \/ Crash \/ Poll \/ Handle

Spec == Init /\ [][Next]_vars

\* The interval timer keeps firing, and a poll, once begun, runs to its end.  The
\* event loop runs pending promise jobs before the next timer callback, so a
\* handler that is ready between polls cannot be passed over for ever (SF).
\* Only starting the process again is up to whoever runs it.
Fairness == /\ WF_vars(BeginPoll) /\ WF_vars(TakeLine) /\ WF_vars(EndPoll)
             /\ SF_vars(Handle)
            /\ \A d \in Spools : WF_vars(ReadSpool(d))
FairSpec == Spec /\ Fairness

-----------------------------------------------------------------------------
(* Properties. *)

\* The variables hold values of their types; the bounds are kept.
TypeOK ==
  /\ file \in [Spools -> Seq(Row)]
  /\ rows \in [Spools -> Nat]
  /\ up \in BOOLEAN /\ polling \in BOOLEAN /\ dirty \in BOOLEAN
  /\ memOff \in [Spools -> Nat] /\ diskOff \in [Spools -> Nat]
  /\ todo \in SUBSET Spools
  /\ lines \in Seq(Row) /\ reading \in Spools
  /\ queue \in Seq(Event) /\ handled \in Seq(Event)
  /\ lost \in SUBSET Event
  /\ crashes \in Nat /\ faults \in Nat
  /\ truncates \in [Spools -> Nat]

\* What was, or is about to be, handed to the handlers.
Pipeline == handled \o queue

(* As long as no offset file failed to be written or read, the events of   *)
(* one spool reach the handlers in the order the plugin wrote them and at  *)
(* most once each, whenever the process dies and however the file is       *)
(* truncated: the offsets are on disk before the first handler runs.       *)
DeliveredOnceInOrder ==
  faults = 0 =>
    \A i, j \in 1 .. Len(Pipeline) :
      (i < j /\ Pipeline[i].spool = Pipeline[j].spool)
        => Pipeline[i].id < Pipeline[j].id

InPipeline(d, n) == \E i \in 1 .. Len(Pipeline) : Pipeline[i] = [spool |-> d, id |-> n]
Cursor(d) == IF up THEN memOff[d] ELSE diskOff[d]

(* In a file that was never truncated, every well-formed row the cursor    *)
(* has passed was handed over, is about to be, or was in the queue at a     *)
(* crash: no poll, restart or failed save steps over a row.              *)
NothingSkipped ==
  \A d \in Spools : truncates[d] = 0 =>
    \A p \in 1 .. Len(file[d]) :
      (p <= Cursor(d) /\ file[d][p].form # "bad")
        => \/ InPipeline(d, file[d][p].id)
           \/ [spool |-> d, id |-> file[d][p].id] \in lost
           \/ reading = d /\ \E i \in 1 .. Len(lines) : lines[i] = file[d][p]

\* The row numbered n of spool d is in the file, complete and well formed.
Written(d, n) == \E p \in 1 .. Len(file[d]) : file[d][p] = [id |-> n, form |-> "good"]
Handled(d, n) == \E i \in 1 .. Len(handled) : handled[i] = [spool |-> d, id |-> n]

(* While the process stays up, a complete row of a file nobody truncates   *)
(* is eventually handled; a crash is the only way to lose one.             *)
EveryRowSettled ==
  \A d \in Spools : \A n \in 1 .. MaxRows[d] :
    (Written(d, n) /\ up)
      ~> \/ Handled(d, n) \/ [spool |-> d, id |-> n] \in lost
         \/ ~up \/ truncates[d] > 0
=============================================================================
