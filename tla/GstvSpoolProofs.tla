-------------------------- MODULE GstvSpoolProofs --------------------------
(***************************************************************************)
(* Proofs about GstvSpool, for any set of spools and any bounds: the type  *)
(* invariant, in-order, at-most-once delivery (DeliveredOnceInOrder), and  *)
(* that no row is stepped over (NothingSkipped).                           *)
(*                                                                         *)
(* DeliveredOnceInOrder is not inductive: a poll repeats a row unless what *)
(* it finds beyond the offset is newer than everything already handed on,  *)
(* and a restart repeats one unless the same is true of the offset on disk *)
(* and of what was handled.  Inv adds that, for both offsets, and that the *)
(* two agree whenever a handler may run.                                   *)
(***************************************************************************)
EXTENDS GstvSpool, TLAPS

\* The rows of a file that a poll starting from offsets off would find new.
Unread(off, d) == {p \in 1 .. Len(file[d]) : p > off[d] \/ Len(file[d]) < off[d]}

\* Rows are numbered in the order they stand in the file.
IdsAscend ==
  \A d \in Spools : \A p \in 1 .. Len(file[d]) :
    /\ file[d][p].id <= rows[d]
    /\ \A q \in 1 .. Len(file[d]) : p < q => file[d][p].id < file[d][q].id

\* A process that is down holds nothing; outside a poll nothing is half read.
ProcessState ==
  /\ ~up => queue = <<>> /\ ~polling
  /\ ~polling => todo = {} /\ lines = <<>> /\ ~dirty

\* Everything handed on was begun by the plugin.
PipelineBegun ==
  /\ \A i \in 1 .. Len(handled) : handled[i].id <= rows[handled[i].spool]
  /\ \A i \in 1 .. Len(queue) : queue[i].id <= rows[queue[i].spool]
  /\ \A i \in 1 .. Len(lines) : lines[i].id <= rows[reading]

\* s holds events of each spool in ascending order.
Ascending(s) ==
  \A i, j \in 1 .. Len(s) : (i < j /\ s[i].spool = s[j].spool) => s[i].id < s[j].id

\* No event of d in s is as new as id n.
Below(s, d, n) == \A i \in 1 .. Len(s) : s[i].spool = d => s[i].id < n

\* The lines in hand follow one another and everything already handed on.
LinesAhead ==
  \A p \in 1 .. Len(lines) :
    /\ Below(handled, reading, lines[p].id)
    /\ Below(queue, reading, lines[p].id)
    /\ \A q \in 1 .. Len(lines) : p < q => lines[p].id < lines[q].id

\* A poll from the offset in memory finds only newer rows.
MemoryAhead ==
  up => \A d \in Spools : \A p \in Unread(memOff, d) :
          /\ Below(handled, d, file[d][p].id)
          /\ Below(queue, d, file[d][p].id)
          /\ reading = d => \A q \in 1 .. Len(lines) : lines[q].id < file[d][p].id

\* So does a poll after a restart, from the offset on disk.
DiskAhead ==
  \A d \in Spools : \A p \in Unread(diskOff, d) : Below(handled, d, file[d][p].id)

\* The queue follows what was handled.
QueueFollows ==
  \A i \in 1 .. Len(handled), j \in 1 .. Len(queue) :
    handled[i].spool = queue[j].spool => handled[i].id < queue[j].id

Delivery ==
  /\ up /\ ~dirty => memOff = diskOff
  /\ Ascending(handled) /\ Ascending(queue) /\ QueueFollows
  /\ LinesAhead /\ MemoryAhead /\ DiskAhead

Inv == /\ TypeOK /\ IdsAscend /\ ProcessState /\ PipelineBegun
       /\ faults = 0 => Delivery

-----------------------------------------------------------------------------
(* Type correctness. *)

\* Helpers of a poll return counts, rows and events.
LEMMA PollTypes ==
  ASSUME TypeOK, NEW d \in Spools
  PROVE  /\ CompleteOnly(file[d]) \in 0 .. Len(file[d])
         /\ StartOffset(d) \in 0 .. Len(file[d])
         /\ NextOffset(d) \in StartOffset(d) .. Len(file[d])
         /\ NextOffset(d) \in Nat
         /\ NextOffset(d) >= CompleteOnly(file[d])
         /\ NewRows(d) \in Seq(Row)
         /\ \A row \in Row : Parsed(row) \in Seq(Event)
<1>1. file[d] \in Seq(Row) /\ memOff[d] \in Nat
  BY DEF TypeOK
<1>2. CompleteOnly(file[d]) \in 0 .. Len(file[d])
  BY <1>1 DEF CompleteOnly
<1>3. StartOffset(d) \in 0 .. Len(file[d])
  BY <1>1 DEF StartOffset
<1>4. /\ NextOffset(d) \in StartOffset(d) .. Len(file[d])
      /\ NextOffset(d) >= CompleteOnly(file[d])
  BY <1>2, <1>3, <1>1 DEF NextOffset
<1>5. NewRows(d) \in Seq(Row)
  BY <1>1, <1>2, <1>3 DEF NewRows
<1>6. ASSUME NEW row \in Row PROVE Parsed(row) \in Seq(Event)
  <2>1. [spool |-> reading, id |-> row.id] \in Event
    BY DEF Row, Event, TypeOK
  <2> QED BY <2>1 DEF Parsed
<1> QED BY <1>2, <1>3, <1>4, <1>5, <1>6

\* A row of a slice is a row of the file.
LEMMA SliceAt ==
  ASSUME NEW S, NEW s \in Seq(S), NEW m \in 0 .. Len(s), NEW n \in 0 .. Len(s),
         NEW i \in 1 .. n - m
  PROVE  SubSeq(s, m + 1, n)[i] = s[m + i]
OBVIOUS

\* The rows a poll takes: those after the start, up to the last complete one.
LEMMA NewRowsAre ==
  ASSUME TypeOK, NEW d \in Spools
  PROVE  /\ Len(NewRows(d)) = IF CompleteOnly(file[d]) > StartOffset(d)
                              THEN CompleteOnly(file[d]) - StartOffset(d) ELSE 0
         /\ \A i \in 1 .. Len(NewRows(d)) : NewRows(d)[i] = file[d][StartOffset(d) + i]
<1>1. /\ file[d] \in Seq(Row)
      /\ CompleteOnly(file[d]) \in 0 .. Len(file[d])
      /\ StartOffset(d) \in 0 .. Len(file[d])
  BY PollTypes DEF TypeOK
<1>2. Len(NewRows(d)) = IF CompleteOnly(file[d]) > StartOffset(d)
                        THEN CompleteOnly(file[d]) - StartOffset(d) ELSE 0
  BY <1>1 DEF NewRows
<1>3. ASSUME NEW i \in 1 .. Len(NewRows(d))
      PROVE  NewRows(d)[i] = file[d][StartOffset(d) + i]
  <2>1. i \in 1 .. CompleteOnly(file[d]) - StartOffset(d)
    BY <1>1, <1>2
  <2> QED BY <1>1, <2>1, SliceAt DEF NewRows
<1> QED BY <1>2, <1>3

LEMMA TypeInit == Init => TypeOK
<1> SUFFICES ASSUME Init PROVE TypeOK
  OBVIOUS
<1>1. NoOffsets \in [Spools -> Nat]
  BY DEF NoOffsets
<1>2. file \in [Spools -> Seq(Row)]
  BY DEF Init
<1>3. queue \in Seq(Event) /\ handled \in Seq(Event) /\ lines \in Seq(Row)
  BY DEF Init
<1> QED BY <1>1, <1>2, <1>3 DEF Init, TypeOK

LEMMA TypeStep == TypeOK /\ [Next]_vars => TypeOK'
<1> SUFFICES ASSUME TypeOK, [Next]_vars PROVE TypeOK'
  OBVIOUS
<1>1. ASSUME NEW d \in Spools, BeginRow(d) PROVE TypeOK'
  <2>1. [id |-> rows[d] + 1, form |-> "partial"] \in Row
    BY <1>1 DEF TypeOK, Row, Forms
  <2>2. file' \in [Spools -> Seq(Row)] /\ rows' \in [Spools -> Nat]
    <3>1. file \in [Spools -> Seq(Row)] /\ rows \in [Spools -> Nat]
      BY DEF TypeOK
    <3>2. rows' \in [Spools -> Nat]
      BY <1>1, <3>1 DEF BeginRow
    <3>3. Append(file[d], [id |-> rows[d] + 1, form |-> "partial"]) \in Seq(Row)
      BY <2>1, <3>1
    <3> QED BY <1>1, <3>1, <3>2, <3>3 DEF BeginRow
  <2> QED BY <1>1, <2>2 DEF TypeOK, BeginRow, consumerVars, counters
<1>2. ASSUME NEW d \in Spools, FinishRow(d) PROVE TypeOK'
  <2>1. PICK form \in {"good", "bad"} :
          file' = [file EXCEPT ![d] = [file[d] EXCEPT ![Len(file[d])] =
                                        [id |-> LastRow(d).id, form |-> form]]]
    BY <1>2 DEF FinishRow
  <2>2. file[d] \in Seq(Row) /\ Len(file[d]) \in 1 .. Len(file[d])
    BY <1>2 DEF TypeOK, FinishRow
  <2>3. [id |-> LastRow(d).id, form |-> form] \in Row
    <3>1. LastRow(d) \in Row
      BY <2>2 DEF LastRow
    <3> QED BY <2>1, <3>1 DEF Row, Forms
  <2>4. [file[d] EXCEPT ![Len(file[d])] = [id |-> LastRow(d).id, form |-> form]] \in Seq(Row)
    BY <2>2, <2>3
  <2>5. file' \in [Spools -> Seq(Row)]
    BY <2>1, <2>4 DEF TypeOK
  <2> QED BY <1>2, <2>5 DEF TypeOK, FinishRow, consumerVars, counters
<1>3. ASSUME NEW d \in Spools, Truncate(d) PROVE TypeOK'
  <2>1. file' \in [Spools -> Seq(Row)]
    BY <1>3 DEF TypeOK, Truncate
  <2>2. truncates' \in [Spools -> Nat]
    BY <1>3 DEF TypeOK, Truncate
  <2> QED BY <1>3, <2>1, <2>2 DEF TypeOK, Truncate, consumerVars
<1>4. CASE Start
  <2>1. faults' \in Nat
    BY <1>4 DEF TypeOK, Start
  <2>2. memOff' \in [Spools -> Nat]
    <3>1. NoOffsets \in [Spools -> Nat]
      BY DEF NoOffsets
    <3>2. memOff' = diskOff \/ memOff' = NoOffsets
      BY <1>4 DEF Start
    <3> QED BY <3>1, <3>2 DEF TypeOK
  <2> QED BY <1>4, <2>1, <2>2 DEF TypeOK, Start
<1>5. CASE Crash
  <2>1. {queue[i] : i \in 1 .. Len(queue)} \in SUBSET Event
    BY DEF TypeOK
  <2>2. lost' \in SUBSET Event
    BY <1>5, <2>1 DEF TypeOK, Crash
  <2>3. queue' \in Seq(Event) /\ lines' \in Seq(Row) /\ memOff' \in [Spools -> Nat]
    BY <1>5 DEF Crash, NoOffsets
  <2>4. crashes' \in Nat
    BY <1>5 DEF TypeOK, Crash
  <2> QED BY <1>5, <2>2, <2>3, <2>4 DEF TypeOK, Crash
<1>6. CASE BeginPoll
  BY <1>6 DEF TypeOK, BeginPoll, counters
<1>7. ASSUME NEW d \in Spools, ReadSpool(d) PROVE TypeOK'
  <2>1. NextOffset(d) \in Nat /\ NewRows(d) \in Seq(Row)
    BY PollTypes DEF TypeOK
  <2> QED BY <1>7, <2>1 DEF TypeOK, ReadSpool, counters
<1>8. CASE TakeLine
  <2>1. Head(lines) \in Row /\ Tail(lines) \in Seq(Row)
    BY <1>8 DEF TypeOK, TakeLine
  <2>2. Parsed(Head(lines)) \in Seq(Event)
    BY <2>1, PollTypes DEF TypeOK
  <2>3. queue' \in Seq(Event)
    BY <1>8, <2>2 DEF TypeOK, TakeLine
  <2> QED BY <1>8, <2>1, <2>3 DEF TypeOK, TakeLine, counters
<1>9. ASSUME NEW d \in Spools, ReadFails(d) PROVE TypeOK'
  BY <1>9 DEF TypeOK, ReadFails
<1>10. CASE EndPoll
  <2>1. diskOff' \in [Spools -> Nat]
    BY <1>10 DEF TypeOK, EndPoll, SavedOffsets
  <2> QED BY <1>10, <2>1 DEF TypeOK, EndPoll, counters
<1>11. CASE PersistFails
  <2>1. faults' \in Nat
    BY <1>11 DEF TypeOK, PersistFails
  <2> QED BY <1>11, <2>1 DEF TypeOK, PersistFails
<1>12. CASE Handle
  <2>1. Head(queue) \in Event /\ Tail(queue) \in Seq(Event)
    BY <1>12 DEF TypeOK, Handle
  <2> QED BY <1>12, <2>1 DEF TypeOK, Handle, consumerVars, counters
<1>13. CASE UNCHANGED vars
  BY <1>13 DEF TypeOK, vars
<1> QED
  BY <1>1, <1>2, <1>3, <1>4, <1>5, <1>6, <1>7, <1>8, <1>9, <1>10, <1>11,
     <1>12, <1>13 DEF Next, Plugin, Poll

(* Every variable keeps its type, whatever the plugin writes, truncates or  *)
(* leaves unfinished and whenever the process dies.                         *)
THEOREM TypeCorrect == Spec => []TypeOK
BY TypeInit, TypeStep, PTL DEF Spec

-----------------------------------------------------------------------------
(* The parts of Inv that hold whatever fails. *)

\* A file only grows by a newer row, has its last row finished, or is emptied.
LEMMA IdsStep == TypeOK /\ IdsAscend /\ [Next]_vars => IdsAscend'
<1> SUFFICES ASSUME TypeOK, IdsAscend, [Next]_vars PROVE IdsAscend'
  OBVIOUS
<1>1. ASSUME NEW d \in Spools, BeginRow(d) PROVE IdsAscend'
  <2> DEFINE new == [id |-> rows[d] + 1, form |-> "partial"]
  <2>1. /\ rows' = [rows EXCEPT ![d] = rows[d] + 1]
        /\ file' = [file EXCEPT ![d] = Append(file[d], new)]
    BY <1>1 DEF BeginRow
  <2> SUFFICES ASSUME NEW e \in Spools, NEW p \in 1 .. Len(file'[e])
               PROVE  /\ file'[e][p].id <= rows'[e]
                      /\ \A q \in 1 .. Len(file'[e]) :
                           p < q => file'[e][p].id < file'[e][q].id
    BY DEF IdsAscend
  <2>2. CASE e # d
    <3>1. file'[e] = file[e] /\ rows'[e] = rows[e]
      BY <2>1, <2>2 DEF TypeOK
    <3> QED BY <3>1 DEF IdsAscend
  <2>3. CASE e = d
    <3>1. /\ file[d] \in Seq(Row) /\ rows[d] \in Nat
          /\ file'[d] = Append(file[d], new) /\ rows'[d] = rows[d] + 1
      BY <2>1 DEF TypeOK
    <3>2. \A i \in 1 .. Len(file[d]) : file[d][i].id \in Nat /\ file[d][i].id <= rows[d]
      <4>1. \A i \in 1 .. Len(file[d]) : file[d][i] \in Row
        BY <3>1
      <4> QED BY <4>1 DEF IdsAscend, Row
    <3>3. /\ Len(file'[d]) = Len(file[d]) + 1
          /\ file'[d][Len(file[d]) + 1].id = rows[d] + 1
          /\ \A i \in 1 .. Len(file[d]) : file'[d][i] = file[d][i]
      BY <3>1
    <3> QED BY <2>3, <3>1, <3>2, <3>3 DEF IdsAscend
  <2> QED BY <2>2, <2>3
<1>2. ASSUME NEW d \in Spools, FinishRow(d) PROVE IdsAscend'
  <2>1. PICK form \in {"good", "bad"} :
          file' = [file EXCEPT ![d] = [file[d] EXCEPT ![Len(file[d])] =
                                        [id |-> LastRow(d).id, form |-> form]]]
    BY <1>2 DEF FinishRow
  <2>2. file[d] \in Seq(Row) /\ Len(file[d]) \in 1 .. Len(file[d])
    BY <1>2 DEF TypeOK, FinishRow
  <2>3. ASSUME NEW e \in Spools
        PROVE  /\ Len(file'[e]) = Len(file[e])
               /\ \A p \in 1 .. Len(file[e]) : file'[e][p].id = file[e][p].id
    <3>1. CASE e # d
      BY <2>1, <3>1 DEF TypeOK
    <3>2. CASE e = d
      <4> DEFINE done == [id |-> LastRow(d).id, form |-> form]
      <4>1. file'[d] = [file[d] EXCEPT ![Len(file[d])] = done]
        BY <2>1 DEF TypeOK
      <4>2. Len(file'[d]) = Len(file[d])
        BY <4>1, <2>2
      <4>3. \A p \in 1 .. Len(file[d]) :
              file'[d][p] = IF p = Len(file[d]) THEN done ELSE file[d][p]
        BY <4>1, <2>2
      <4> QED BY <3>2, <4>2, <4>3 DEF LastRow
    <3> QED BY <3>1, <3>2
  <2>4. rows' = rows
    BY <1>2 DEF FinishRow
  <2> QED BY <2>3, <2>4 DEF IdsAscend
<1>3. ASSUME NEW d \in Spools, Truncate(d) PROVE IdsAscend'
  BY <1>3 DEF TypeOK, IdsAscend, Truncate
<1>4. ASSUME file' = file, rows' = rows PROVE IdsAscend'
  BY <1>4 DEF IdsAscend
<1> QED
  BY <1>1, <1>2, <1>3, <1>4 DEF Next, Plugin, Poll, Start, Crash, BeginPoll,
     TakeLine, EndPoll, PersistFails, ReadSpool, ReadFails, Handle, vars

LEMMA ProcessStep == TypeOK /\ ProcessState /\ [Next]_vars => ProcessState'
<1> SUFFICES ASSUME TypeOK, ProcessState, [Next]_vars PROVE ProcessState'
  OBVIOUS
<1>1. ASSUME NEW d \in Spools, BeginRow(d) \/ FinishRow(d) \/ Truncate(d)
      PROVE ProcessState'
  BY <1>1 DEF ProcessState, BeginRow, FinishRow, Truncate, consumerVars
<1>2. CASE Start \/ Crash \/ BeginPoll
  BY <1>2 DEF ProcessState, Start, Crash, BeginPoll
<1>3. ASSUME NEW d \in Spools, ReadSpool(d) \/ ReadFails(d) PROVE ProcessState'
  BY <1>3 DEF ProcessState, ReadSpool, ReadFails
<1>4. CASE TakeLine
  BY <1>4 DEF ProcessState, TakeLine
<1>5. CASE EndPoll \/ PersistFails
  BY <1>5 DEF ProcessState, EndPoll, PersistFails
<1>6. CASE Handle
  BY <1>6 DEF ProcessState, Handle, CanHandle, consumerVars
<1>7. CASE UNCHANGED vars
  BY <1>7 DEF ProcessState, vars
<1> QED
  BY <1>1, <1>2, <1>3, <1>4, <1>5, <1>6, <1>7 DEF Next, Plugin, Poll

\* Ids are numbers, so comparing them makes sense.
LEMMA IdsAreNumbers ==
  ASSUME TypeOK
  PROVE  /\ \A d \in Spools : rows[d] \in Nat
         /\ \A d \in Spools : \A p \in 1 .. Len(file[d]) : file[d][p] \in Row /\ file[d][p].id \in Nat
         /\ \A i \in 1 .. Len(handled) :
              handled[i] \in Event /\ handled[i].id \in Nat /\ handled[i].spool \in Spools
         /\ \A i \in 1 .. Len(queue) :
              queue[i] \in Event /\ queue[i].id \in Nat /\ queue[i].spool \in Spools
         /\ \A i \in 1 .. Len(lines) : lines[i] \in Row /\ lines[i].id \in Nat
<1>1. \A d \in Spools : rows[d] \in Nat
  BY DEF TypeOK
<1>2. ASSUME NEW d \in Spools, NEW p \in 1 .. Len(file[d])
      PROVE file[d][p] \in Row
  BY DEF TypeOK
<1>3. ASSUME NEW i \in 1 .. Len(handled) PROVE handled[i] \in Event
  BY DEF TypeOK
<1>4. ASSUME NEW i \in 1 .. Len(queue) PROVE queue[i] \in Event
  BY DEF TypeOK
<1>5. ASSUME NEW i \in 1 .. Len(lines) PROVE lines[i] \in Row
  BY DEF TypeOK
<1>6. (\A row \in Row : row.id \in Nat) /\ (\A e \in Event : e.id \in Nat /\ e.spool \in Spools)
  BY DEF Row, Event
<1> QED BY <1>1, <1>2, <1>3, <1>4, <1>5, <1>6

\* What one step of the line loop does to the queue: nothing, or one event more.
LEMMA TakeLineQueue ==
  ASSUME TypeOK, TakeLine
  PROVE  /\ lines \in Seq(Row) /\ Len(lines) > 0
         /\ Len(lines') = Len(lines) - 1
         /\ \A i \in 1 .. Len(lines') : lines'[i] = lines[i + 1]
         /\ \A i \in 1 .. Len(queue) : queue'[i] = queue[i]
         /\ \/ Len(queue') = Len(queue)
            \/ /\ Len(queue') = Len(queue) + 1
               /\ queue'[Len(queue) + 1] = [spool |-> reading, id |-> lines[1].id]
<1>1. lines \in Seq(Row) /\ queue \in Seq(Event) /\ lines # <<>> /\ lines' = Tail(lines)
      /\ queue' = queue \o Parsed(Head(lines))
  BY DEF TakeLine, TypeOK
<1>2. Len(lines) > 0 /\ Head(lines) = lines[1]
  BY <1>1
<1>3. Len(lines') = Len(lines) - 1 /\ \A i \in 1 .. Len(lines') : lines'[i] = lines[i + 1]
  BY <1>1, <1>2
<1> DEFINE e == [spool |-> reading, id |-> lines[1].id]
<1>4. e \in Event
  <2>1. lines[1].id \in Nat /\ reading \in Spools
    BY <1>1, <1>2, IdsAreNumbers DEF TypeOK
  <2> QED BY <2>1 DEF Event
<1>5. CASE lines[1].form = "good"
  <2>1. queue' = queue \o <<e>>
    BY <1>1, <1>2, <1>5 DEF Parsed
  <2> QED BY <1>1, <1>2, <1>3, <1>4, <2>1
<1>6. CASE lines[1].form # "good"
  <2>1. queue' = queue \o <<>>
    BY <1>1, <1>2, <1>6 DEF Parsed
  <2> QED BY <1>1, <1>2, <1>3, <2>1
<1> QED BY <1>5, <1>6

\* What dispatching the next handler does to the two sequences.
LEMMA HandleMoves ==
  ASSUME TypeOK, Handle
  PROVE  /\ Len(queue) > 0
         /\ Len(queue') = Len(queue) - 1
         /\ \A i \in 1 .. Len(queue') : queue'[i] = queue[i + 1]
         /\ Len(handled') = Len(handled) + 1
         /\ \A i \in 1 .. Len(handled) : handled'[i] = handled[i]
         /\ handled'[Len(handled) + 1] = queue[1]
<1>1. /\ queue \in Seq(Event) /\ handled \in Seq(Event) /\ queue # <<>>
      /\ queue' = Tail(queue) /\ handled' = Append(handled, Head(queue))
  BY DEF TypeOK, Handle
<1>2. Len(queue) > 0 /\ Head(queue) = queue[1]
  BY <1>1
<1> QED BY <1>1, <1>2

LEMMA BegunStep == Inv /\ [Next]_vars => PipelineBegun'
<1> SUFFICES ASSUME TypeOK, IdsAscend, ProcessState, PipelineBegun, [Next]_vars
             PROVE  PipelineBegun'
  BY DEF Inv
<1>1. ASSUME NEW d \in Spools, BeginRow(d) PROVE PipelineBegun'
  <2>1. \A e \in Spools : rows'[e] \in Nat /\ rows[e] <= rows'[e]
    <3>1. rows \in [Spools -> Nat] /\ rows' = [rows EXCEPT ![d] = rows[d] + 1]
      BY <1>1 DEF TypeOK, BeginRow
    <3> QED BY <3>1
  <2>2. handled' = handled /\ queue' = queue /\ lines' = lines /\ reading' = reading
    BY <1>1 DEF BeginRow, consumerVars
  <2>3. reading \in Spools
    BY DEF TypeOK
  <2>4. \A e \in Spools : rows[e] \in Nat
    BY IdsAreNumbers
  <2>5. \A n \in Nat : \A e \in Spools : n <= rows[e] => n <= rows'[e]
    BY <2>1, <2>4
  <2>6. \A i \in 1 .. Len(handled) : handled[i].id <= rows'[handled[i].spool]
    BY <2>5, IdsAreNumbers DEF PipelineBegun
  <2>7. \A i \in 1 .. Len(queue) : queue[i].id <= rows'[queue[i].spool]
    BY <2>5, IdsAreNumbers DEF PipelineBegun
  <2>8. \A i \in 1 .. Len(lines) : lines[i].id <= rows'[reading]
    BY <2>3, <2>5, IdsAreNumbers DEF PipelineBegun
  <2> QED BY <2>2, <2>6, <2>7, <2>8 DEF PipelineBegun
<1>2. CASE TakeLine
  <2>1. rows' = rows /\ handled' = handled /\ reading' = reading /\ reading \in Spools
    BY <1>2 DEF TakeLine, TypeOK
  <2>2. lines[1].id <= rows[reading]
    BY <1>2, TakeLineQueue DEF PipelineBegun
  <2>3. \A i \in 1 .. Len(queue') : queue'[i].id <= rows[queue'[i].spool]
    <3>1. queue \in Seq(Event)
      BY DEF TypeOK
    <3> QED BY <2>2, <3>1, <1>2, TakeLineQueue DEF PipelineBegun
  <2>4. \A i \in 1 .. Len(lines') : lines'[i].id <= rows[reading]
    BY <1>2, TakeLineQueue DEF PipelineBegun
  <2> QED BY <2>1, <2>3, <2>4 DEF PipelineBegun
<1>3. CASE Handle
  <2>1. rows' = rows /\ lines' = lines /\ reading' = reading
    BY <1>3 DEF Handle, consumerVars
  <2>2. queue \in Seq(Event) /\ handled \in Seq(Event)
    BY DEF TypeOK
  <2>3. \A i \in 1 .. Len(queue') : queue'[i].id <= rows[queue'[i].spool]
    BY <2>2, <1>3, HandleMoves DEF PipelineBegun
  <2>4. \A i \in 1 .. Len(handled') : handled'[i].id <= rows[handled'[i].spool]
    BY <2>2, <1>3, HandleMoves DEF PipelineBegun
  <2> QED BY <2>1, <2>3, <2>4 DEF PipelineBegun
<1>4. ASSUME NEW d \in Spools, ReadSpool(d) PROVE PipelineBegun'
  <2>1. /\ rows' = rows /\ handled' = handled /\ queue' = queue
        /\ reading' = d /\ lines' = NewRows(d)
    BY <1>4 DEF ReadSpool
  <2>2. \A i \in 1 .. Len(lines') : \E p \in 1 .. Len(file[d]) : lines'[i] = file[d][p]
    <3>1. /\ Len(lines') <= CompleteOnly(file[d]) - StartOffset(d) \/ Len(lines') = 0
          /\ \A i \in 1 .. Len(lines') : lines'[i] = file[d][StartOffset(d) + i]
      BY <2>1, NewRowsAre
    <3>2. Len(file[d]) \in Nat
      BY DEF TypeOK
    <3>3. \A i \in 1 .. Len(lines') : StartOffset(d) + i \in 1 .. Len(file[d])
      BY <2>1, <3>2, NewRowsAre, PollTypes
    <3> QED BY <3>1, <3>3
  <2> QED BY <2>1, <2>2 DEF PipelineBegun, IdsAscend
<1>5. CASE Crash
  BY <1>5 DEF Crash, PipelineBegun
<1>6. ASSUME rows' = rows, handled' = handled, queue' = queue, lines' = lines,
             reading' = reading
      PROVE  PipelineBegun'
  BY <1>6 DEF PipelineBegun
<1> QED
  BY <1>1, <1>2, <1>3, <1>4, <1>5, <1>6 DEF Next, Plugin, Poll, FinishRow, Truncate,
     Start, BeginPoll, EndPoll, PersistFails, ReadFails, vars, consumerVars

-----------------------------------------------------------------------------
(* Delivery, one lemma per action that disturbs it. *)

LEMMA DeliveryBeginRow ==
  ASSUME Inv, Delivery, NEW d \in Spools, BeginRow(d)
  PROVE  Delivery'
<1> USE DEF Inv
<1> DEFINE new == [id |-> rows[d] + 1, form |-> "partial"]
<1>1. /\ file' = [file EXCEPT ![d] = Append(file[d], new)]
      /\ up' = up /\ dirty' = dirty /\ memOff' = memOff /\ diskOff' = diskOff
      /\ handled' = handled /\ queue' = queue /\ lines' = lines /\ reading' = reading
  BY DEF BeginRow, consumerVars
<1>2. file[d] \in Seq(Row) /\ rows[d] \in Nat
  BY DEF TypeOK
<1>3. /\ Len(file'[d]) = Len(file[d]) + 1
      /\ file'[d][Len(file[d]) + 1].id = rows[d] + 1
      /\ \A p \in 1 .. Len(file[d]) : file'[d][p] = file[d][p]
      /\ \A e \in Spools : e # d => file'[e] = file[e]
  BY <1>1, <1>2 DEF TypeOK
\* An unread row is one that was unread before, or the new one.
<1>4. ASSUME NEW off \in [Spools -> Nat], NEW e \in Spools, NEW p \in Unread(off, e)'
      PROVE  \/ p \in Unread(off, e) /\ file'[e][p] = file[e][p]
             \/ e = d /\ file'[e][p].id = rows[d] + 1
  <2>1. off[e] \in Nat /\ Len(file[e]) \in Nat
    BY DEF TypeOK
  <2>2. CASE e # d
    BY <1>3, <2>2 DEF Unread
  <2>3. CASE e = d
    BY <1>3, <2>1, <2>3 DEF Unread
  <2> QED BY <2>2, <2>3
\* Everything handed on of spool d is older than the new row.
<1>5. /\ Below(handled, d, rows[d] + 1) /\ Below(queue, d, rows[d] + 1)
      /\ reading = d => \A q \in 1 .. Len(lines) : lines[q].id < rows[d] + 1
  BY <1>2, IdsAreNumbers DEF PipelineBegun, Below
<1>6. memOff \in [Spools -> Nat] /\ diskOff \in [Spools -> Nat]
  BY DEF TypeOK
<1>7. MemoryAhead'
  <2> SUFFICES ASSUME up, NEW e \in Spools, NEW p \in Unread(memOff, e)'
               PROVE  /\ Below(handled, e, file'[e][p].id)
                      /\ Below(queue, e, file'[e][p].id)
                      /\ reading = e =>
                           \A q \in 1 .. Len(lines) : lines[q].id < file'[e][p].id
    BY <1>1 DEF MemoryAhead, Below, Unread
  <2>1. CASE p \in Unread(memOff, e) /\ file'[e][p] = file[e][p]
    BY <2>1 DEF Delivery, MemoryAhead
  <2>2. CASE e = d /\ file'[e][p].id = rows[d] + 1
    BY <2>2, <1>5
  <2> QED BY <2>1, <2>2, <1>1, <1>4, <1>6 DEF Unread
<1>8. DiskAhead'
  <2> SUFFICES ASSUME NEW e \in Spools, NEW p \in Unread(diskOff, e)'
               PROVE  Below(handled, e, file'[e][p].id)
    BY <1>1 DEF DiskAhead, Below, Unread
  <2>1. CASE p \in Unread(diskOff, e) /\ file'[e][p] = file[e][p]
    BY <2>1 DEF Delivery, DiskAhead
  <2>2. CASE e = d /\ file'[e][p].id = rows[d] + 1
    BY <2>2, <1>5
  <2> QED BY <2>1, <2>2, <1>1, <1>4, <1>6 DEF Unread
<1> QED
  BY <1>1, <1>7, <1>8 DEF Delivery, Ascending, QueueFollows, LinesAhead, Below

LEMMA DeliveryFinishRow ==
  ASSUME Inv, Delivery, NEW d \in Spools, FinishRow(d) \/ Truncate(d)
  PROVE  Delivery'
<1> USE DEF Inv
<1>1. /\ up' = up /\ dirty' = dirty /\ memOff' = memOff /\ diskOff' = diskOff
      /\ handled' = handled /\ queue' = queue /\ lines' = lines /\ reading' = reading
  BY DEF FinishRow, Truncate, consumerVars
\* No row becomes unread, and none changes its id.
<1>2. ASSUME NEW off, NEW e \in Spools, NEW p \in Unread(off, e)'
      PROVE  p \in Unread(off, e) /\ file'[e][p].id = file[e][p].id
  <2>1. CASE FinishRow(d)
    <3>1. /\ Len(file'[e]) = Len(file[e])
          /\ \A q \in 1 .. Len(file[e]) : file'[e][q].id = file[e][q].id
      <4>1. PICK form \in {"good", "bad"} :
              file' = [file EXCEPT ![d] = [file[d] EXCEPT ![Len(file[d])] =
                                            [id |-> LastRow(d).id, form |-> form]]]
        BY <2>1 DEF FinishRow
      <4>2. file[d] \in Seq(Row) /\ Len(file[d]) \in 1 .. Len(file[d])
        BY <2>1 DEF TypeOK, FinishRow
      <4> DEFINE done == [id |-> LastRow(d).id, form |-> form]
      <4>3. CASE e # d
        BY <4>1, <4>3 DEF TypeOK
      <4>4. CASE e = d
        <5>1. file'[d] = [file[d] EXCEPT ![Len(file[d])] = done]
          BY <4>1 DEF TypeOK
        <5>2. Len(file'[d]) = Len(file[d])
          BY <5>1, <4>2
        <5>3. \A q \in 1 .. Len(file[d]) :
                file'[d][q] = IF q = Len(file[d]) THEN done ELSE file[d][q]
          BY <5>1, <4>2
        <5> QED BY <4>4, <5>2, <5>3 DEF LastRow
      <4> QED BY <4>3, <4>4
    <3> QED BY <3>1 DEF Unread
  <2>2. CASE Truncate(d)
    <3>1. file' = [file EXCEPT ![d] = <<>>]
      BY <2>2 DEF Truncate
    <3>2. e # d
      BY <3>1 DEF Unread, TypeOK
    <3> QED BY <3>1, <3>2 DEF Unread, TypeOK
  <2> QED BY <2>1, <2>2
<1>3. MemoryAhead'
  BY <1>1, <1>2 DEF Delivery, MemoryAhead, Below, Unread
<1>4. DiskAhead'
  BY <1>1, <1>2 DEF Delivery, DiskAhead, Below, Unread
<1> QED
  BY <1>1, <1>3, <1>4 DEF Delivery, Ascending, QueueFollows, LinesAhead, Below

LEMMA DeliveryReadSpool ==
  ASSUME Inv, Delivery, NEW d \in Spools, ReadSpool(d)
  PROVE  Delivery'
<1> USE DEF Inv
<1> DEFINE start == StartOffset(d)
           last  == CompleteOnly(file[d])
<1>1. /\ polling /\ up' = up /\ diskOff' = diskOff /\ file' = file
      /\ handled' = handled /\ queue' = queue
      /\ reading' = d /\ lines' = NewRows(d)
      /\ memOff' = [memOff EXCEPT ![d] = NextOffset(d)]
      /\ dirty' = (dirty \/ memOff[d] # NextOffset(d))
  BY DEF ReadSpool
<1>2. /\ memOff \in [Spools -> Nat] /\ file[d] \in Seq(Row) /\ Len(file[d]) \in Nat
      /\ start \in 0 .. Len(file[d]) /\ last \in 0 .. Len(file[d])
      /\ NextOffset(d) \in start .. Len(file[d]) /\ NextOffset(d) >= last
  <2>1. memOff \in [Spools -> Nat] /\ file[d] \in Seq(Row)
    BY DEF TypeOK
  <2>2. Len(file[d]) \in Nat
    BY <2>1
  <2> QED BY <2>1, <2>2, PollTypes
<1>3. lines = <<>>
  BY DEF ReadSpool
\* The rows beyond the start were unread.
<1>4. \A p \in 1 .. Len(file[d]) : p > start => p \in Unread(memOff, d)
  BY <1>2 DEF StartOffset, Unread
<1>5. \A i \in 1 .. Len(lines') : /\ start + i \in 1 .. Len(file[d]) /\ start + i <= last
                                  /\ lines'[i] = file[d][start + i]
  BY <1>1, <1>2, NewRowsAre
<1>6. up
  BY <1>1 DEF ProcessState
<1>7. up' /\ ~dirty' => memOff' = diskOff'
  BY <1>1, <1>2 DEF Delivery
<1>8. LinesAhead'
  <2> SUFFICES ASSUME NEW i \in 1 .. Len(lines')
               PROVE  /\ Below(handled, d, lines'[i].id) /\ Below(queue, d, lines'[i].id)
                      /\ \A q \in 1 .. Len(lines') : i < q => lines'[i].id < lines'[q].id
    BY <1>1 DEF LinesAhead, Below
  <2>1. start + i \in Unread(memOff, d)
    BY <1>2, <1>4, <1>5
  <2>2. Below(handled, d, lines'[i].id) /\ Below(queue, d, lines'[i].id)
    BY <2>1, <1>5, <1>6 DEF Delivery, MemoryAhead
  <2>3. ASSUME NEW q \in 1 .. Len(lines'), i < q PROVE lines'[i].id < lines'[q].id
    <3>1. start + i < start + q
      BY <1>2, <2>3
    <3> QED BY <1>5, <3>1 DEF IdsAscend
  <2> QED BY <2>2, <2>3
<1>9. MemoryAhead'
  <2> SUFFICES ASSUME NEW e \in Spools, NEW p \in Unread(memOff, e)'
               PROVE  /\ Below(handled, e, file[e][p].id)
                      /\ Below(queue, e, file[e][p].id)
                      /\ d = e => \A q \in 1 .. Len(lines') : lines'[q].id < file[e][p].id
    BY <1>1 DEF MemoryAhead, Below, Unread
  <2>1. CASE e # d
    <3>1. p \in Unread(memOff, e)
      BY <1>1, <1>2, <2>1 DEF Unread
    <3> QED BY <3>1, <2>1, <1>6 DEF Delivery, MemoryAhead
  <2>2. CASE e = d
    <3>1. memOff'[d] = NextOffset(d)
      BY <1>1, <1>2
    <3>2. p \in 1 .. Len(file[d]) /\ p > NextOffset(d)
      BY <1>1, <1>2, <2>2, <3>1 DEF Unread
    <3>3. p \in Unread(memOff, d)
      BY <1>2, <1>4, <3>2
    <3>4. \A q \in 1 .. Len(lines') : start + q < p
      BY <1>2, <1>5, <3>2
    <3>5. \A q \in 1 .. Len(lines') : lines'[q].id < file[d][p].id
      BY <1>5, <3>2, <3>4 DEF IdsAscend
    <3> QED BY <2>2, <3>3, <3>5, <1>6 DEF Delivery, MemoryAhead
  <2> QED BY <2>1, <2>2
<1>10. DiskAhead'
  BY <1>1 DEF Delivery, DiskAhead, Below, Unread
<1> QED
  BY <1>1, <1>7, <1>8, <1>9, <1>10 DEF Delivery, Ascending, QueueFollows

LEMMA DeliveryTakeLine ==
  ASSUME Inv, Delivery, TakeLine
  PROVE  Delivery'
<1> USE DEF Inv
<1>1. /\ up' = up /\ dirty' = dirty /\ memOff' = memOff /\ diskOff' = diskOff
      /\ file' = file /\ handled' = handled /\ reading' = reading
  BY DEF TakeLine
<1>2. /\ Len(lines) > 0 /\ Len(lines) \in Nat /\ Len(queue) \in Nat
      /\ Len(lines') = Len(lines) - 1
      /\ \A i \in 1 .. Len(lines') : lines'[i] = lines[i + 1]
      /\ \A i \in 1 .. Len(queue) : queue'[i] = queue[i]
  <2>1. Len(lines) \in Nat /\ Len(queue) \in Nat
    BY DEF TypeOK
  <2> QED BY <2>1, TakeLineQueue
<1> DEFINE e == [spool |-> reading, id |-> lines[1].id]
\* An event of the new queue is one of the old queue, or the first line, last.
<1>3. \A i \in 1 .. Len(queue') :
        \/ i \in 1 .. Len(queue) /\ queue'[i] = queue[i]
        \/ i = Len(queue) + 1 /\ queue'[i] = e
  BY <1>2, TakeLineQueue
<1>4. /\ Below(handled, reading, lines[1].id) /\ Below(queue, reading, lines[1].id)
      /\ \A q \in 1 .. Len(lines') : lines[1].id < lines'[q].id
  BY <1>2 DEF Delivery, LinesAhead
<1>5. ASSUME NEW i \in 1 .. Len(queue'), NEW j \in 1 .. Len(queue'), i < j,
             queue'[i].spool = queue'[j].spool
      PROVE  queue'[i].id < queue'[j].id
  <2>1. i \in 1 .. Len(queue) /\ queue'[i] = queue[i]
    BY <1>2, <1>3, <1>5
  <2>2. CASE j \in 1 .. Len(queue) /\ queue'[j] = queue[j]
    BY <1>5, <2>1, <2>2 DEF Delivery, Ascending
  <2>3. CASE queue'[j] = e
    BY <1>4, <1>5, <2>1, <2>3 DEF Below
  <2> QED BY <1>3, <2>2, <2>3
<1>6. QueueFollows'
  BY <1>1, <1>3, <1>4 DEF Delivery, QueueFollows, Below
<1>7. LinesAhead'
  <2> SUFFICES ASSUME NEW p \in 1 .. Len(lines')
               PROVE  /\ Below(handled, reading, lines'[p].id)
                      /\ Below(queue', reading, lines'[p].id)
                      /\ \A q \in 1 .. Len(lines') : p < q => lines'[p].id < lines'[q].id
    BY <1>1 DEF LinesAhead, Below
  <2>1. p + 1 \in 1 .. Len(lines) /\ lines'[p] = lines[p + 1]
    BY <1>2
  <2>2. Below(handled, reading, lines'[p].id) /\ Below(queue, reading, lines'[p].id)
    BY <2>1 DEF Delivery, LinesAhead
  <2>3. Below(queue', reading, lines'[p].id)
    BY <2>2, <1>3, <1>4 DEF Below
  <2>4. ASSUME NEW q \in 1 .. Len(lines'), p < q PROVE lines'[p].id < lines'[q].id
    <3>1. q + 1 \in 1 .. Len(lines) /\ lines'[q] = lines[q + 1] /\ p + 1 < q + 1
      BY <1>2, <2>4
    <3> QED BY <2>1, <3>1 DEF Delivery, LinesAhead
  <2> QED BY <2>2, <2>3, <2>4
<1>8. MemoryAhead'
  <2> SUFFICES ASSUME up, NEW f \in Spools, NEW p \in Unread(memOff, f)
               PROVE  /\ Below(handled, f, file[f][p].id)
                      /\ Below(queue', f, file[f][p].id)
                      /\ reading = f =>
                           \A q \in 1 .. Len(lines') : lines'[q].id < file[f][p].id
    BY <1>1 DEF MemoryAhead, Below, Unread
  <2>1. /\ Below(handled, f, file[f][p].id) /\ Below(queue, f, file[f][p].id)
        /\ reading = f => \A q \in 1 .. Len(lines) : lines[q].id < file[f][p].id
    BY DEF Delivery, MemoryAhead
  <2>2. Below(queue', f, file[f][p].id)
    BY <2>1, <1>2, <1>3 DEF Below
  <2>3. reading = f => \A q \in 1 .. Len(lines') : lines'[q].id < file[f][p].id
    BY <2>1, <1>2
  <2> QED BY <2>1, <2>2, <2>3
<1>9. DiskAhead'
  BY <1>1 DEF Delivery, DiskAhead, Below, Unread
<1> QED
  BY <1>1, <1>5, <1>6, <1>7, <1>8, <1>9 DEF Delivery, Ascending

LEMMA DeliveryHandle ==
  ASSUME Inv, Delivery, Handle
  PROVE  Delivery'
<1> USE DEF Inv
<1>1. /\ up /\ ~polling /\ up' = up /\ dirty' = dirty /\ memOff' = memOff
      /\ diskOff' = diskOff /\ file' = file /\ lines' = lines /\ reading' = reading
  BY DEF Handle, CanHandle, consumerVars
<1>2. /\ Len(queue) > 0 /\ Len(queue) \in Nat /\ Len(handled) \in Nat
      /\ Len(queue') = Len(queue) - 1
      /\ \A i \in 1 .. Len(queue') : i + 1 \in 1 .. Len(queue) /\ queue'[i] = queue[i + 1]
  <2>1. Len(queue) \in Nat /\ Len(handled) \in Nat
    BY DEF TypeOK
  <2> QED BY <2>1, HandleMoves
\* An event of the new history is one of the old, or the first of the queue, last.
<1>3. \A i \in 1 .. Len(handled') :
        \/ i \in 1 .. Len(handled) /\ handled'[i] = handled[i]
        \/ i = Len(handled) + 1 /\ handled'[i] = queue[1]
  BY <1>2, HandleMoves
<1>4. \A n : \A f \in Spools :
        (Below(handled, f, n) /\ Below(queue, f, n))
          => Below(handled', f, n) /\ Below(queue', f, n)
  <2> SUFFICES ASSUME NEW n, NEW f \in Spools, Below(handled, f, n), Below(queue, f, n)
               PROVE  Below(handled', f, n) /\ Below(queue', f, n)
    OBVIOUS
  <2>1. 1 \in 1 .. Len(queue)
    BY <1>2
  <2>2. Below(handled', f, n)
    BY <1>3, <2>1 DEF Below
  <2>3. Below(queue', f, n)
    BY <1>2 DEF Below
  <2> QED BY <2>2, <2>3
\* No poll is on the stack and nothing is unsaved: the offsets agree.
<1>5. lines = <<>> /\ memOff = diskOff
  BY <1>1 DEF ProcessState, Delivery
<1>6. ASSUME NEW i \in 1 .. Len(handled'), NEW j \in 1 .. Len(handled'), i < j,
             handled'[i].spool = handled'[j].spool
      PROVE  handled'[i].id < handled'[j].id
  <2>1. i \in 1 .. Len(handled) /\ handled'[i] = handled[i]
    BY <1>2, <1>3, <1>6
  <2>2. CASE j \in 1 .. Len(handled) /\ handled'[j] = handled[j]
    BY <1>6, <2>1, <2>2 DEF Delivery, Ascending
  <2>3. CASE handled'[j] = queue[1]
    BY <1>2, <1>6, <2>1, <2>3 DEF Delivery, QueueFollows
  <2> QED BY <1>3, <2>2, <2>3
<1>7. ASSUME NEW i \in 1 .. Len(queue'), NEW j \in 1 .. Len(queue'), i < j,
             queue'[i].spool = queue'[j].spool
      PROVE  queue'[i].id < queue'[j].id
  <2>1. i + 1 < j + 1
    BY <1>7
  <2> QED BY <1>2, <1>7, <2>1 DEF Delivery, Ascending
<1>8. ASSUME NEW i \in 1 .. Len(handled'), NEW j \in 1 .. Len(queue'),
             handled'[i].spool = queue'[j].spool
      PROVE  handled'[i].id < queue'[j].id
  <2>1. j + 1 \in 1 .. Len(queue) /\ queue'[j] = queue[j + 1]
    BY <1>2
  <2>2. CASE i \in 1 .. Len(handled) /\ handled'[i] = handled[i]
    BY <1>8, <2>1, <2>2 DEF Delivery, QueueFollows
  <2>3. CASE handled'[i] = queue[1]
    <3>1. 1 \in 1 .. Len(queue) /\ 1 < j + 1
      BY <1>2
    <3> QED BY <1>8, <2>1, <2>3, <3>1 DEF Delivery, Ascending
  <2> QED BY <1>3, <2>2, <2>3
<1>9. LinesAhead'
  BY <1>1, <1>5 DEF LinesAhead
<1>10. MemoryAhead'
  <2> SUFFICES ASSUME NEW f \in Spools, NEW p \in Unread(memOff, f)
               PROVE  /\ Below(handled', f, file[f][p].id) /\ Below(queue', f, file[f][p].id)
                      /\ reading = f => \A q \in 1 .. Len(lines) : lines[q].id < file[f][p].id
    BY <1>1 DEF MemoryAhead, Below, Unread
  <2> QED BY <1>1, <1>4 DEF Delivery, MemoryAhead
<1>11. DiskAhead'
  <2> SUFFICES ASSUME NEW f \in Spools, NEW p \in Unread(diskOff, f)
               PROVE  Below(handled', f, file[f][p].id)
    BY <1>1 DEF DiskAhead, Below, Unread
  <2> QED BY <1>1, <1>4, <1>5 DEF Delivery, MemoryAhead
<1> QED
  BY <1>1, <1>6, <1>7, <1>8, <1>9, <1>10, <1>11 DEF Delivery, Ascending, QueueFollows

LEMMA DeliveryStep ==
  ASSUME Inv, [Next]_vars, faults' = 0
  PROVE  Delivery'
<1> USE DEF Inv
\* A step that fails counts as a fault: no fault now means none before.
<1>1. faults = 0
  <2>1. faults' = faults \/ faults' = faults + 1
    BY DEF Next, Plugin, Poll, BeginRow, FinishRow, Truncate, Start, Crash, BeginPoll,
       ReadSpool, TakeLine, ReadFails, EndPoll, PersistFails, Handle, counters, vars
  <2> QED BY <2>1 DEF TypeOK
<1>2. Delivery
  BY <1>1
<1>3. ASSUME NEW d \in Spools, BeginRow(d) \/ FinishRow(d) \/ Truncate(d) PROVE Delivery'
  BY <1>2, <1>3, DeliveryBeginRow, DeliveryFinishRow
<1>4. CASE Start
  <2>1. /\ up' /\ dirty' = dirty /\ memOff' = diskOff /\ diskOff' = diskOff /\ file' = file
        /\ handled' = handled /\ queue' = queue /\ lines' = lines /\ reading' = reading
    BY <1>1, <1>4 DEF Start, TypeOK
  <2>2. queue = <<>> /\ lines = <<>>
    BY <1>4 DEF Start, ProcessState
  <2>3. MemoryAhead'
    BY <1>2, <2>1, <2>2 DEF Delivery, DiskAhead, MemoryAhead, Below, Unread
  <2>4. DiskAhead'
    BY <1>2, <2>1 DEF Delivery, DiskAhead, Below, Unread
  <2> QED BY <1>2, <2>1, <2>2, <2>3, <2>4
          DEF Delivery, Ascending, QueueFollows, LinesAhead
<1>5. CASE Crash
  <2>1. /\ ~up' /\ diskOff' = diskOff /\ file' = file /\ handled' = handled
        /\ queue' = <<>> /\ lines' = <<>>
    BY <1>5 DEF Crash
  <2>2. DiskAhead'
    BY <1>2, <2>1 DEF Delivery, DiskAhead, Below, Unread
  <2> QED BY <1>2, <2>1, <2>2
          DEF Delivery, Ascending, QueueFollows, LinesAhead, MemoryAhead
<1>6. CASE BeginPoll \/ EndPoll
  <2>1. /\ up' = up /\ memOff' = memOff /\ file' = file /\ handled' = handled
        /\ queue' = queue /\ lines' = lines /\ reading' = reading
    BY <1>6 DEF BeginPoll, EndPoll
  <2>2. up /\ memOff = diskOff'
    BY <1>2, <1>6 DEF BeginPoll, EndPoll, SavedOffsets, ProcessState, Delivery
  <2>3. MemoryAhead'
    BY <1>2, <2>1 DEF Delivery, MemoryAhead, Below, Unread
  <2>4. DiskAhead'
    BY <1>2, <2>1, <2>2 DEF Delivery, MemoryAhead, DiskAhead, Below, Unread
  <2> QED BY <1>2, <2>1, <2>2, <2>3, <2>4
          DEF Delivery, Ascending, QueueFollows, LinesAhead, Below
<1>7. ASSUME NEW d \in Spools, ReadSpool(d) PROVE Delivery'
  BY <1>2, <1>7, DeliveryReadSpool
<1>8. CASE TakeLine
  BY <1>2, <1>8, DeliveryTakeLine
<1>9. ASSUME NEW d \in Spools, ReadFails(d) PROVE FALSE
  BY <1>1, <1>9 DEF ReadFails
<1>10. CASE PersistFails
  BY <1>1, <1>10 DEF PersistFails
<1>11. CASE Handle
  BY <1>2, <1>11, DeliveryHandle
<1>12. CASE UNCHANGED vars
  BY <1>2, <1>12 DEF vars, Delivery, Ascending, QueueFollows, LinesAhead, MemoryAhead,
     DiskAhead, Below, Unread
<1> QED
  BY <1>3, <1>4, <1>5, <1>6, <1>7, <1>8, <1>9, <1>10, <1>11, <1>12 DEF Next, Plugin, Poll

-----------------------------------------------------------------------------
LEMMA InvInit == Init => Inv
<1> SUFFICES ASSUME Init PROVE Inv
  OBVIOUS
<1>1. TypeOK
  BY TypeInit
<1>2. /\ handled = <<>> /\ queue = <<>> /\ lines = <<>> /\ ~up /\ ~polling /\ ~dirty
      /\ todo = {} /\ \A d \in Spools : file[d] = <<>>
  BY DEF Init
<1>3. IdsAscend /\ ProcessState /\ PipelineBegun
  BY <1>2 DEF IdsAscend, ProcessState, PipelineBegun
<1>4. Delivery
  BY <1>2 DEF Delivery, Ascending, QueueFollows, LinesAhead, MemoryAhead, DiskAhead, Unread
<1> QED BY <1>1, <1>3, <1>4 DEF Inv

LEMMA InvStep == Inv /\ [Next]_vars => Inv'
<1> SUFFICES ASSUME Inv, [Next]_vars PROVE Inv'
  OBVIOUS
<1>1. TypeOK' /\ IdsAscend' /\ ProcessState' /\ PipelineBegun'
  BY TypeStep, IdsStep, ProcessStep, BegunStep DEF Inv
<1>2. faults' = 0 => Delivery'
  BY DeliveryStep
<1> QED BY <1>1, <1>2 DEF Inv

\* What Inv says of the two sequences is what the property says of their union.
LEMMA InvImpliesOrder == Inv => DeliveredOnceInOrder
<1> SUFFICES ASSUME Inv, faults = 0, NEW i \in 1 .. Len(Pipeline), NEW j \in 1 .. Len(Pipeline),
                    i < j, Pipeline[i].spool = Pipeline[j].spool
             PROVE  Pipeline[i].id < Pipeline[j].id
  BY DEF DeliveredOnceInOrder
<1>1. handled \in Seq(Event) /\ queue \in Seq(Event)
  BY DEF Inv, TypeOK
<1>2. /\ Len(handled) \in Nat /\ Len(queue) \in Nat
      /\ Len(Pipeline) = Len(handled) + Len(queue)
      /\ \A k \in 1 .. Len(Pipeline) :
           Pipeline[k] = IF k <= Len(handled) THEN handled[k] ELSE queue[k - Len(handled)]
  BY <1>1 DEF Pipeline
<1>3. Ascending(handled) /\ Ascending(queue) /\ QueueFollows
  BY DEF Inv, Delivery
<1>4. CASE j <= Len(handled)
  BY <1>2, <1>3, <1>4 DEF Ascending
<1>5. CASE i <= Len(handled) /\ j > Len(handled)
  BY <1>2, <1>3, <1>5 DEF QueueFollows
<1>6. CASE i > Len(handled)
  BY <1>2, <1>3, <1>6 DEF Ascending
<1> QED BY <1>2, <1>4, <1>5, <1>6

(* As long as no offsets file fails to be written or read, the handlers get *)
(* the events of each spool at most once and in the order of the file,      *)
(* through any number of crashes, restarts and truncations.                 *)
THEOREM DeliveryCorrect == Spec => []DeliveredOnceInOrder
<1>1. Spec => []Inv
  BY InvInit, InvStep, PTL DEF Spec
<1> QED BY <1>1, InvImpliesOrder, PTL

-----------------------------------------------------------------------------
(* Nothing is skipped.  What either offset has passed is complete, and was handed
   on; only for the offset in memory may it still be in hand. *)

\* Only the last row of a file may be unfinished.
LastOnly ==
  \A d \in Spools : \A p \in 1 .. Len(file[d]) :
    p # Len(file[d]) => file[d][p].form # "partial"

EventOf(d, n) == [spool |-> d, id |-> n]
Occurs(e, s) == \E i \in 1 .. Len(s) : s[i] = e
Taken(e) == Occurs(e, handled) \/ Occurs(e, queue) \/ e \in lost
InHand(d, row) == reading = d /\ Occurs(row, lines)

PassedInMemory(d) ==
  /\ memOff[d] <= Len(file[d])
  /\ \A p \in 1 .. Len(file[d]) : p <= memOff[d] =>
       /\ file[d][p].form # "partial"
       /\ file[d][p].form = "good" => Taken(EventOf(d, file[d][p].id)) \/ InHand(d, file[d][p])

PassedOnDisk(d) ==
  /\ diskOff[d] <= Len(file[d])
  /\ \A p \in 1 .. Len(file[d]) : p <= diskOff[d] =>
       /\ file[d][p].form # "partial"
       /\ file[d][p].form = "good" => Taken(EventOf(d, file[d][p].id))

Passed == \A d \in Spools : truncates[d] = 0 => PassedInMemory(d) /\ PassedOnDisk(d)

\* An event that was handed on stays so: the queue loses it to a handler or to a crash.
LEMMA TakenStays ==
  ASSUME TypeOK, [Next]_vars, NEW e, Taken(e)
  PROVE  Taken(e)'
<1>0. lost \subseteq lost'
  BY DEF Next, Plugin, Poll, BeginRow, FinishRow, Truncate, Start, Crash, BeginPoll,
     ReadSpool, TakeLine, ReadFails, EndPoll, PersistFails, Handle, vars
<1>1. CASE TakeLine
  <2>1. handled' = handled /\ lost' = lost
    BY <1>1 DEF TakeLine
  <2>2. Occurs(e, queue) => Occurs(e, queue')
    <3>1. Len(queue) \in Nat /\ Len(queue') \in {Len(queue), Len(queue) + 1}
      BY <1>1, TakeLineQueue DEF TypeOK
    <3> QED BY <1>1, <3>1, TakeLineQueue DEF Occurs
  <2> QED BY <2>1, <2>2 DEF Taken
<1>2. CASE Handle
  <2>1. Len(queue) \in Nat /\ Len(handled) \in Nat /\ lost' = lost
    BY <1>2 DEF TypeOK, Handle
  <2>2. Occurs(e, handled) => Occurs(e, handled')
    BY <1>2, <2>1, HandleMoves DEF Occurs
  <2>3. ASSUME NEW i \in 1 .. Len(queue), queue[i] = e
        PROVE  Occurs(e, handled') \/ Occurs(e, queue')
    <3>1. CASE i = 1
      BY <1>2, <2>1, <2>3, <3>1, HandleMoves DEF Occurs
    <3>2. CASE i # 1
      <4>1. i - 1 \in 1 .. Len(queue') /\ queue'[i - 1] = e
        BY <1>2, <2>1, <2>3, <3>2, HandleMoves
      <4> QED BY <4>1 DEF Occurs
    <3> QED BY <3>1, <3>2
  <2> QED BY <2>1, <2>2, <2>3 DEF Taken, Occurs
<1>3. CASE Crash
  BY <1>3 DEF Crash, Taken, Occurs
<1>4. ASSUME handled' = handled, queue' = queue PROVE Taken(e)'
  BY <1>0, <1>4 DEF Taken, Occurs
<1> QED
  BY <1>1, <1>2, <1>3, <1>4 DEF Next, Plugin, Poll, BeginRow, FinishRow, Truncate, Start,
     BeginPoll, ReadSpool, ReadFails, EndPoll, PersistFails, vars

\* A row that is begun or finished was not yet passed by any offset.
LEMMA PassedPlugin ==
  ASSUME Inv, Passed, [Next]_vars, NEW d \in Spools, BeginRow(d) \/ FinishRow(d) \/ Truncate(d)
  PROVE  Passed'
<1> USE DEF Inv
<1>1. /\ memOff' = memOff /\ diskOff' = diskOff /\ lines' = lines /\ reading' = reading
      /\ handled' = handled /\ queue' = queue /\ lost' = lost
      /\ \A e \in Spools \ {d} : file'[e] = file[e] /\ truncates'[e] = truncates[e]
  BY DEF BeginRow, FinishRow, Truncate, consumerVars, counters, TypeOK
<1> SUFFICES ASSUME NEW e \in Spools, truncates'[e] = 0
             PROVE  PassedInMemory(e)' /\ PassedOnDisk(e)'
  BY DEF Passed
<1>2. CASE e # d
  BY <1>1, <1>2 DEF Passed, PassedInMemory, PassedOnDisk, Taken, InHand, Occurs
<1>3. CASE e = d
  <2>0. /\ file[d] \in Seq(Row) /\ Len(file[d]) \in Nat /\ memOff[d] \in Nat
        /\ diskOff[d] \in Nat /\ rows[d] \in Nat
    BY DEF TypeOK
  <2>1. ~Truncate(d) /\ truncates[d] = 0
    BY <1>3 DEF Truncate, BeginRow, FinishRow, counters, TypeOK
  <2>2. PassedInMemory(d) /\ PassedOnDisk(d)
    BY <2>1 DEF Passed
  \* A row an offset has passed is the same as before.
  <2>3. /\ Len(file'[d]) >= Len(file[d])
        /\ \A p \in 1 .. Len(file'[d]) : p <= memOff[d] \/ p <= diskOff[d] =>
             p \in 1 .. Len(file[d]) /\ file'[d][p] = file[d][p]
    <3>1. CASE BeginRow(d)
      <4>1. file'[d] = Append(file[d], [id |-> rows[d] + 1, form |-> "partial"])
        BY <3>1 DEF BeginRow, TypeOK
      <4>2. /\ Len(file'[d]) = Len(file[d]) + 1
            /\ \A p \in 1 .. Len(file[d]) : file'[d][p] = file[d][p]
        BY <2>0, <4>1
      <4> QED BY <2>0, <2>2, <4>2 DEF PassedInMemory, PassedOnDisk
    <3>2. CASE FinishRow(d)
      <4>1. PICK form \in {"good", "bad"} :
              file' = [file EXCEPT ![d] = [file[d] EXCEPT ![Len(file[d])] =
                                            [id |-> LastRow(d).id, form |-> form]]]
        BY <3>2 DEF FinishRow
      <4> DEFINE new == [id |-> LastRow(d).id, form |-> form]
      <4>2. file'[d] = [file[d] EXCEPT ![Len(file[d])] = new]
        BY <4>1 DEF TypeOK
      <4> HIDE DEF new
      <4>3. /\ Len(file'[d]) = Len(file[d])
            /\ \A p \in 1 .. Len(file[d]) : p # Len(file[d]) => file'[d][p] = file[d][p]
        BY <2>0, <4>2
      <4>4. Len(file[d]) > 0 /\ file[d][Len(file[d])].form = "partial"
        BY <2>0, <3>2 DEF FinishRow, LastRow
      <4>5. memOff[d] < Len(file[d]) /\ diskOff[d] < Len(file[d])
        BY <2>0, <2>2, <4>4 DEF PassedInMemory, PassedOnDisk
      <4> QED BY <2>0, <4>3, <4>5
    <3> QED BY <2>1, <3>1, <3>2
  <2>4. Len(file'[d]) \in Nat
    <3>1. TypeOK'
      BY TypeStep
    <3> QED BY <3>1 DEF TypeOK
  <2>5. PassedInMemory(d)'
    <3>1. \A ev, row : (Taken(ev)' <=> Taken(ev)) /\ (InHand(d, row)' <=> InHand(d, row))
      BY <1>1 DEF Taken, InHand, Occurs
    <3>2. memOff'[d] <= Len(file'[d])
      BY <1>1, <2>0, <2>2, <2>3, <2>4 DEF PassedInMemory
    <3> QED BY <1>1, <2>2, <2>3, <3>1, <3>2 DEF PassedInMemory
  <2>6. PassedOnDisk(d)'
    BY <1>1, <2>0, <2>2, <2>3, <2>4 DEF PassedOnDisk, Taken, Occurs
  <2> QED BY <1>3, <2>5, <2>6
<1> QED BY <1>2, <1>3

\* A poll passes only complete rows, and has all of them in hand.
LEMMA PassedReadSpool ==
  ASSUME Inv, LastOnly, Passed, [Next]_vars, NEW d \in Spools, ReadSpool(d)
  PROVE  Passed'
<1> USE DEF Inv
<1>1. /\ diskOff' = diskOff /\ file' = file /\ truncates' = truncates
      /\ handled' = handled /\ queue' = queue /\ lost' = lost
      /\ reading' = d /\ lines' = NewRows(d) /\ lines = <<>>
      /\ memOff' = [memOff EXCEPT ![d] = NextOffset(d)]
  BY DEF ReadSpool, counters
<1> SUFFICES ASSUME NEW e \in Spools, truncates[e] = 0
             PROVE  PassedInMemory(e)' /\ PassedOnDisk(e)'
  BY <1>1 DEF Passed
<1>2. PassedOnDisk(e)'
  BY <1>1 DEF Passed, PassedOnDisk, Taken, Occurs
<1>3. \A row : ~InHand(e, row)
  BY <1>1 DEF InHand, Occurs
<1>4. CASE e # d
  <2>1. memOff'[e] = memOff[e]
    BY <1>1, <1>4 DEF TypeOK
  <2> QED BY <1>1, <1>2, <1>3, <2>1 DEF Passed, PassedInMemory, Taken, Occurs
<1>5. CASE e = d
  <2>0. /\ file[d] \in Seq(Row) /\ Len(file[d]) \in Nat /\ memOff[d] \in Nat
        /\ memOff'[d] = NextOffset(d) /\ NextOffset(d) \in 0 .. Len(file[d])
        /\ CompleteOnly(file[d]) \in 0 .. Len(file[d])
    <3>1. file[d] \in Seq(Row) /\ memOff[d] \in Nat /\ memOff \in [Spools -> Nat]
      BY DEF TypeOK
    <3>2. Len(file[d]) \in Nat /\ memOff'[d] = NextOffset(d)
      BY <1>1, <3>1
    <3>3. /\ StartOffset(d) \in 0 .. Len(file[d])
          /\ NextOffset(d) \in StartOffset(d) .. Len(file[d])
          /\ CompleteOnly(file[d]) \in 0 .. Len(file[d])
      BY PollTypes
    <3>4. NextOffset(d) \in 0 .. Len(file[d])
      BY <3>2, <3>3
    <3> QED BY <3>1, <3>2, <3>3, <3>4
  <2>1. PassedInMemory(d) /\ StartOffset(d) = memOff[d]
    BY <1>5, <2>0 DEF Passed, PassedInMemory, StartOffset
  <2>2. ASSUME NEW p \in 1 .. Len(file[d]), p <= NextOffset(d), p > memOff[d]
        PROVE  file[d][p].form # "partial" /\ InHand(d, file[d][p])'
    <3>1. p <= CompleteOnly(file[d])
      BY <2>0, <2>1, <2>2 DEF NextOffset
    <3>2. file[d][p].form # "partial"
      <4>1. CASE p = Len(file[d])
        BY <2>0, <3>1, <4>1 DEF CompleteOnly
      <4>2. CASE p # Len(file[d])
        BY <4>2 DEF LastOnly
      <4> QED BY <4>1, <4>2
    <3>3. /\ p - memOff[d] \in 1 .. Len(lines')
          /\ lines'[p - memOff[d]] = file[d][memOff[d] + (p - memOff[d])]
      <4>1. Len(lines') = CompleteOnly(file[d]) - memOff[d]
        BY <1>1, <2>0, <2>1, <2>2, <3>1, NewRowsAre
      <4>2. p - memOff[d] \in 1 .. Len(lines')
        BY <2>0, <2>2, <3>1, <4>1
      <4> QED BY <1>1, <2>1, <4>2, NewRowsAre
    <3>4. memOff[d] + (p - memOff[d]) = p
      BY <2>0
    <3> QED BY <1>1, <3>2, <3>3, <3>4 DEF InHand, Occurs
  <2>3. \A p \in 1 .. Len(file[d]) : p <= memOff[d] =>
          /\ file[d][p].form # "partial"
          /\ file[d][p].form = "good" => Taken(EventOf(d, file[d][p].id))'
    BY <1>1, <1>3, <1>5, <2>1 DEF PassedInMemory, Taken, Occurs
  <2>4. PassedInMemory(d)'
    BY <1>1, <2>0, <2>2, <2>3 DEF PassedInMemory
  <2> QED BY <1>2, <1>5, <2>4
<1> QED BY <1>4, <1>5

\* A good row in hand becomes the newest event of the queue.
LEMMA PassedTakeLine ==
  ASSUME Inv, Passed, [Next]_vars, TakeLine
  PROVE  Passed'
<1> USE DEF Inv
<1>1. /\ diskOff' = diskOff /\ memOff' = memOff /\ file' = file /\ truncates' = truncates
      /\ reading' = reading /\ lines # <<>> /\ lines' = Tail(lines)
      /\ queue' = queue \o Parsed(Head(lines))
  BY DEF TakeLine, counters
<1> SUFFICES ASSUME NEW d \in Spools, truncates[d] = 0
             PROVE  PassedInMemory(d)' /\ PassedOnDisk(d)'
  BY <1>1 DEF Passed
<1>2. PassedInMemory(d) /\ PassedOnDisk(d)
  BY DEF Passed
<1>3. /\ lines \in Seq(Row) /\ Len(lines) \in Nat /\ Len(lines) > 0 /\ Head(lines) = lines[1]
      /\ queue \in Seq(Event) /\ Len(queue) \in Nat
  BY <1>1 DEF TypeOK
<1>4. ASSUME NEW row \in Row, row.form = "good", InHand(d, row)
      PROVE  Taken(EventOf(d, row.id))' \/ InHand(d, row)'
  <2>1. PICK i \in 1 .. Len(lines) : lines[i] = row
    BY <1>4 DEF InHand, Occurs
  <2>2. reading = d
    BY <1>4 DEF InHand
  <2>3. CASE i = 1
    <3>1. Parsed(Head(lines)) = <<EventOf(d, row.id)>>
      BY <1>3, <1>4, <2>1, <2>2, <2>3 DEF Parsed, EventOf
    <3>2. EventOf(d, row.id) \in Event
      BY DEF EventOf, Event, Row
    <3>3. queue' = queue \o <<EventOf(d, row.id)>>
      BY <1>1, <3>1
    <3>4. /\ Len(queue) + 1 \in 1 .. Len(queue')
          /\ queue'[Len(queue) + 1] = EventOf(d, row.id)
      BY <1>3, <3>2, <3>3
    <3>5. Occurs(EventOf(d, row.id), queue')
      BY <3>4 DEF Occurs
    <3> QED BY <3>5 DEF Taken, EventOf, Occurs
  <2>4. CASE i # 1
    <3>1. i - 1 \in 1 .. Len(lines') /\ lines'[i - 1] = row
      BY <1>3, <2>1, <2>4, TakeLineQueue
    <3> QED BY <1>1, <2>2, <3>1 DEF InHand, Occurs
  <2> QED BY <2>3, <2>4
<1>5. \A p \in 1 .. Len(file[d]) : file[d][p] \in Row
  BY IdsAreNumbers
<1>6. \A n : Taken(EventOf(d, n)) => Taken(EventOf(d, n))'
  BY TakenStays DEF EventOf
<1>7. PassedInMemory(d)'
  BY <1>1, <1>2, <1>4, <1>5, <1>6 DEF PassedInMemory
<1>8. PassedOnDisk(d)'
  BY <1>1, <1>2, <1>6 DEF PassedOnDisk
<1> QED BY <1>7, <1>8

LEMMA PassedStep == Inv /\ LastOnly /\ Passed /\ [Next]_vars => Passed'
<1> SUFFICES ASSUME Inv, LastOnly, Passed, [Next]_vars PROVE Passed'
  OBVIOUS
<1> USE DEF Inv
<1>0. \A e : Taken(e) => Taken(e)'
  BY TakenStays
<1>1. ASSUME NEW d \in Spools, BeginRow(d) \/ FinishRow(d) \/ Truncate(d) PROVE Passed'
  BY <1>1, PassedPlugin
<1>2. ASSUME NEW d \in Spools, ReadSpool(d) PROVE Passed'
  BY <1>2, PassedReadSpool
<1>3. CASE TakeLine
  BY <1>3, PassedTakeLine
<1>4. CASE Start \/ Crash
  <2>1. /\ file' = file /\ truncates' = truncates /\ diskOff' = diskOff
        /\ memOff' = NoOffsets \/ memOff' = diskOff
    BY <1>4 DEF Start, Crash
  <2> SUFFICES ASSUME NEW d \in Spools, truncates[d] = 0
               PROVE  PassedInMemory(d)' /\ PassedOnDisk(d)'
    BY <2>1 DEF Passed
  <2>2. \A n : Taken(EventOf(d, n)) => Taken(EventOf(d, n))'
    BY <1>0 DEF EventOf
  <2>3. PassedOnDisk(d)'
    BY <2>1, <2>2 DEF Passed, PassedOnDisk
  <2>4. PassedInMemory(d)'
    <3>1. CASE memOff' = diskOff
      BY <2>1, <2>3, <3>1 DEF PassedOnDisk, PassedInMemory
    <3>2. CASE memOff' = NoOffsets
      <4>1. memOff'[d] = 0 /\ Len(file[d]) \in Nat
        BY <3>2 DEF NoOffsets, TypeOK
      <4> QED BY <2>1, <4>1 DEF PassedInMemory
    <3> QED BY <2>1, <3>1, <3>2
  <2> QED BY <2>3, <2>4
<1>5. ASSUME file' = file, truncates' = truncates, memOff' = memOff, lines' = lines,
             reading' = reading, diskOff' = diskOff \/ (lines = <<>> /\ diskOff' = memOff)
      PROVE  Passed'
  <2> SUFFICES ASSUME NEW d \in Spools, truncates[d] = 0
               PROVE  PassedInMemory(d)' /\ PassedOnDisk(d)'
    BY <1>5 DEF Passed
  <2>1. \A n : Taken(EventOf(d, n)) => Taken(EventOf(d, n))'
    BY <1>0 DEF EventOf
  <2>2. PassedInMemory(d)'
    BY <1>5, <2>1 DEF Passed, PassedInMemory, InHand, Occurs
  <2>3. CASE diskOff' = diskOff
    BY <1>5, <2>1, <2>2, <2>3 DEF Passed, PassedOnDisk
  <2>4. CASE lines = <<>> /\ diskOff' = memOff
    <3>1. \A row : ~InHand(d, row)
      BY <2>4 DEF InHand, Occurs
    <3> QED BY <1>5, <2>1, <2>2, <2>4, <3>1 DEF Passed, PassedInMemory, PassedOnDisk
  <2> QED BY <1>5, <2>2, <2>3, <2>4
<1>6. CASE EndPoll
  <2>1. diskOff' = diskOff \/ (lines = <<>> /\ diskOff' = memOff)
    BY <1>6 DEF EndPoll, SavedOffsets
  <2> QED BY <1>5, <1>6, <2>1 DEF EndPoll, counters
<1>7. CASE BeginPoll \/ PersistFails \/ Handle \/ UNCHANGED vars
  BY <1>5, <1>7 DEF BeginPoll, PersistFails, Handle, vars, counters, consumerVars
<1>8. ASSUME NEW d \in Spools, ReadFails(d) PROVE Passed'
  BY <1>5, <1>8 DEF ReadFails
<1> QED BY <1>1, <1>2, <1>3, <1>4, <1>6, <1>7, <1>8 DEF Next, Plugin, Poll

LEMMA LastOnlyStep == TypeOK /\ LastOnly /\ [Next]_vars => LastOnly'
<1> SUFFICES ASSUME TypeOK, LastOnly, [Next]_vars PROVE LastOnly'
  OBVIOUS
<1>1. ASSUME NEW d \in Spools, BeginRow(d) \/ FinishRow(d) PROVE LastOnly'
  <2>0. file[d] \in Seq(Row) /\ Len(file[d]) \in Nat /\ rows[d] \in Nat
    BY DEF TypeOK
  <2>1. \A e \in Spools \ {d} : file'[e] = file[e]
    BY <1>1 DEF BeginRow, FinishRow, TypeOK
  <2>2. \A p \in 1 .. Len(file'[d]) :
          p # Len(file'[d]) => file'[d][p].form # "partial"
    <3>1. CASE BeginRow(d)
      <4>1. file'[d] = Append(file[d], [id |-> rows[d] + 1, form |-> "partial"])
        BY <3>1 DEF BeginRow, TypeOK
      <4>2. /\ Len(file'[d]) = Len(file[d]) + 1
            /\ \A p \in 1 .. Len(file[d]) : file'[d][p] = file[d][p]
        BY <2>0, <4>1
      <4>3. Len(file[d]) > 0 => file[d][Len(file[d])].form # "partial"
        BY <2>0, <3>1 DEF BeginRow, LastRow
      <4> QED BY <2>0, <4>2, <4>3 DEF LastOnly
    <3>2. CASE FinishRow(d)
      <4>1. PICK form \in {"good", "bad"} :
              file' = [file EXCEPT ![d] = [file[d] EXCEPT ![Len(file[d])] =
                                            [id |-> LastRow(d).id, form |-> form]]]
        BY <3>2 DEF FinishRow
      <4> DEFINE new == [id |-> LastRow(d).id, form |-> form]
      <4>2. file'[d] = [file[d] EXCEPT ![Len(file[d])] = new]
        BY <4>1 DEF TypeOK
      <4> HIDE DEF new
      <4>3. /\ Len(file'[d]) = Len(file[d])
            /\ \A p \in 1 .. Len(file[d]) : p # Len(file[d]) => file'[d][p] = file[d][p]
        BY <2>0, <4>2
      <4> QED BY <4>3 DEF LastOnly
    <3> QED BY <1>1, <3>1, <3>2
  <2> QED BY <2>1, <2>2 DEF LastOnly
<1>2. ASSUME NEW d \in Spools, Truncate(d) PROVE LastOnly'
  <2>1. /\ \A e \in Spools \ {d} : file'[e] = file[e]
        /\ file'[d] = <<>> /\ Len(file'[d]) = 0
    BY <1>2 DEF Truncate, TypeOK
  <2> QED BY <2>1 DEF LastOnly
<1>3. ASSUME file' = file PROVE LastOnly'
  BY <1>3 DEF LastOnly
<1> QED
  BY <1>1, <1>2, <1>3 DEF Next, Plugin, Poll, Start, Crash, BeginPoll,
     TakeLine, EndPoll, PersistFails, ReadSpool, ReadFails, Handle, vars

(* In a file nobody truncated, no poll, restart or failed save steps over a *)
(* well-formed row: whatever either offset has passed was handed on, is     *)
(* about to be, or went down with the queue of a process that died.         *)
THEOREM SkippingCorrect == Spec => []NothingSkipped
<1>1. Init => LastOnly /\ Passed
  BY DEF Init, LastOnly, Passed, PassedInMemory, PassedOnDisk, NoOffsets
<1>2. Inv /\ Passed => NothingSkipped
  <2> SUFFICES ASSUME Inv, Passed, NEW d \in Spools, truncates[d] = 0, NEW p \in 1 .. Len(file[d]),
                      p <= Cursor(d), file[d][p].form # "bad"
               PROVE  \/ InPipeline(d, file[d][p].id)
                      \/ [spool |-> d, id |-> file[d][p].id] \in lost
                      \/ reading = d /\ \E i \in 1 .. Len(lines) : lines[i] = file[d][p]
    BY DEF NothingSkipped
  <2> DEFINE e == [spool |-> d, id |-> file[d][p].id]
  <2>1. file[d][p].form \in Forms
    BY IdsAreNumbers DEF Inv, Row
  <2>2. Taken(e) \/ InHand(d, file[d][p])
    BY <2>1 DEF Passed, PassedInMemory, PassedOnDisk, Cursor, Forms, EventOf
  <2>3. Occurs(e, handled) \/ Occurs(e, queue) => InPipeline(d, file[d][p].id)
    <3>1. handled \in Seq(Event) /\ queue \in Seq(Event)
      BY DEF Inv, TypeOK
    <3>2. /\ Len(handled) \in Nat /\ Len(queue) \in Nat
          /\ Len(Pipeline) = Len(handled) + Len(queue)
          /\ \A k \in 1 .. Len(handled) : Pipeline[k] = handled[k]
          /\ \A k \in 1 .. Len(queue) : Pipeline[Len(handled) + k] = queue[k]
      BY <3>1 DEF Pipeline
    <3>3. ASSUME NEW k \in 1 .. Len(handled), handled[k] = e PROVE InPipeline(d, file[d][p].id)
      <4>1. k \in 1 .. Len(Pipeline) /\ Pipeline[k] = e
        BY <3>2, <3>3
      <4> QED BY <4>1 DEF InPipeline
    <3>4. ASSUME NEW k \in 1 .. Len(queue), queue[k] = e PROVE InPipeline(d, file[d][p].id)
      <4>1. Len(handled) + k \in 1 .. Len(Pipeline) /\ Pipeline[Len(handled) + k] = e
        BY <3>2, <3>4
      <4> QED BY <4>1 DEF InPipeline
    <3> QED BY <3>3, <3>4 DEF Occurs
  <2> QED BY <2>2, <2>3 DEF Taken, InHand, Occurs
<1>3. Inv => TypeOK
  BY DEF Inv
<1> QED BY <1>1, <1>2, <1>3, InvInit, InvStep, LastOnlyStep, PassedStep, PTL DEF Spec
=============================================================================
