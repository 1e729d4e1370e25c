-------------------------- MODULE GstvEngineProofs --------------------------
(***************************************************************************)
(* Proofs about GstvEngine, for any sessions, trees and bounds: the type   *)
(* invariant, the chain that stays readable, gap links that mark exactly   *)
(* the changes nobody saw, the unlock record that agrees with the close    *)
(* record, the close record that is never rewritten and is earned, the     *)
(* base of every diff, and the attach link that comes before a session's   *)
(* own.                                                                    *)
(*                                                                         *)
(* Everything rests on the promise queue: at most one handler is under way *)
(* (Serial), so what a handler read of the files still holds when it       *)
(* writes.  HandlerFacts says, for each point of a handler, what it has    *)
(* read and what that still means.  A read or write that fails ends the    *)
(* handler and is remembered in `failed`, which only grows (Remembers);    *)
(* a line cut short leaves a chain that takes no further link.             *)
(*                                                                         *)
(* The last part is about GstvClose, the measurement that the engine makes *)
(* once a goal is closed: its type invariant, and what its unlock record   *)
(* may say of receipts whose writers may be late.  Accounts relates the    *)
(* measurement's own lists to what is on disk and under way, and holds     *)
(* until the record is written, which then only has to repeat it.          *)
(***************************************************************************)
EXTENDS GstvEngine, GstvClose, FiniteSetTheorems, TLAPS

Serial == \A r, s \in Sessions : Busy(r) /\ Busy(s) => r = s

\* What kind of event a handler at a given point may be for.
Shape(w) ==
  /\ w.pc \in {"locate", "append", "save"} => w.cause \in Causes
  /\ w.pc \in {"match", "observe", "close", "measure"} => w.run
  /\ w.run => w.cause \in {"tool", "boundary", "command"}
  /\ w.cause = "command" => w.exit = "other"
  /\ w.pc = "close" => w.exit = "zero"

\* Before its link is written, a handler knows where it goes and how it compares.
BeforeLink(w) ==
  /\ w.pc \in {"locate", "append"} /\ w.cause = "attach" =>
       (w.kind = "gap" <=> w.tree # HeadState)
  /\ w.pc = "append" => w.prev = HeadId /\ w.index = Len(chain) /\ chainEnd # "torn"

\* After, the head of the chain is its own link, if the file can still be read.
AfterLink(w) ==
  /\ w.pc \in {"save", "match", "observe", "close", "measure"} /\ w.cause # "command"
     /\ chainEnd # "torn" => chain # <<>> /\ HeadId = w.id
  /\ w.pc = "close" => closed = None /\ (obsEnd # "torn" => obs # <<>>)
  /\ w.pc = "measure" => /\ closed # None /\ closed.id = HeadId
                         /\ closed.links = Len(chain) /\ closed.gaps = Gaps(chain)

HandlerFacts(s) ==
  work[s] # None => Shape(work[s]) /\ BeforeLink(work[s]) /\ AfterLink(work[s])

Inv == /\ TypeOK /\ Serial
       /\ \A s \in Sessions : HandlerFacts(s)
       /\ ChainReadable /\ GapsMarkUnseenChange /\ UnlockAgrees
-----------------------------------------------------------------------------
(* Counting links.                                                         *)

\* The number of gaps of a sequence of links is a natural number.
LEMMA GapsType ==
  ASSUME NEW c, Len(c) \in Nat
  PROVE  Gaps(c) \in Nat
<1>1. IsFiniteSet(1 .. Len(c))
  BY FS_Interval
<1>2. {i \in 1 .. Len(c) : c[i].kind = "gap"} \in SUBSET (1 .. Len(c))
  OBVIOUS
<1>3. IsFiniteSet({i \in 1 .. Len(c) : c[i].kind = "gap"})
  BY <1>1, <1>2, FS_Subset
<1> QED BY <1>3, FS_CardinalityType DEF Gaps

\* A close record made after at least one observation has its type.
LEMMA CloseRecordType ==
  ASSUME NEW id \in Ids, NEW o \in Seq(Observation), o # <<>>, NEW c \in Seq(Link)
  PROVE  CloseRecord(id, o, c) \in CloseRecords
<1> DEFINE reds == {i \in 1 .. Len(o) : o[i].source = "boundary" /\ o[i].exit # "zero"}
           sessions == IF c = <<>> THEN 1 ELSE Cardinality(ReadSessions(c))
<1>1. Len(o) \in Nat \ {0} /\ Len(c) \in Nat
  OBVIOUS
<1>2. Gaps(c) \in Nat
  BY <1>1, GapsType
<1>3. Cardinality(reds) \in Nat
  <2>1. IsFiniteSet(1 .. Len(o))
    BY <1>1, FS_Interval
  <2>2. reds \in SUBSET (1 .. Len(o))
    OBVIOUS
  <2>3. IsFiniteSet(reds)
    BY <2>1, <2>2, FS_Subset
  <2> HIDE DEF reds
  <2> QED BY <2>3, FS_CardinalityType
<1>4. sessions \in Nat \ {0}
  <2>1. CASE c = <<>>
    BY <2>1
  <2>2. CASE c # <<>>
    <3>1. \A i \in 1 .. Len(c) : c[i].sess \in Sessions
      <4>1. \A i \in 1 .. Len(c) : c[i] \in Link
        OBVIOUS
      <4> QED BY <4>1 DEF Link
    <3>2. ReadSessions(c) \in SUBSET Sessions
      BY <3>1 DEF ReadSessions
    <3>3. IsFiniteSet(ReadSessions(c))
      BY <3>2, FS_Subset, SessionsAssumption
    <3>4. c[1].sess \in ReadSessions(c)
      BY <2>2 DEF ReadSessions
    <3>5. Cardinality(ReadSessions(c)) \in Nat
      BY <3>3, FS_CardinalityType
    <3>6. Cardinality(ReadSessions(c)) # 0
      BY <3>3, <3>4, FS_EmptySet
    <3> QED BY <2>2, <3>5, <3>6
  <2> QED BY <2>1, <2>2
<1> HIDE DEF sessions
<1>5. CloseRecord(id, o, c) = [id |-> id, attempts |-> Len(o), links |-> Len(c), gaps |-> Gaps(c),
                               sessions |-> sessions, reds |-> Cardinality(reds)]
  BY DEF CloseRecord, sessions
<1> HIDE DEF reds
<1> QED BY <1>1, <1>2, <1>3, <1>4, <1>5 DEF CloseRecords

-----------------------------------------------------------------------------
(* Type correctness. *)

\* What the files say has the types a handler needs.
LEMMA ReadTypes ==
  ASSUME TypeOK
  PROVE  /\ HeadState \in Trees /\ HeadId \in 0 .. MaxEvents
         /\ \A cause : \A m \in Trees \cup {None} : DiffBase(cause, m) \in Trees \cup {None}
         /\ \A cause : LinkKind(cause) \in {"state", "gap"}
<1>1. chain # <<>> => chain[Len(chain)] \in Link
  BY DEF TypeOK
<1>2. HeadState \in Trees
  BY <1>1, TreesAssumption DEF HeadState, Link
<1>3. HeadId \in 0 .. MaxEvents
  BY <1>1, BoundsAssumption DEF HeadId, Link, Ids
<1>4. \A cause : \A m \in Trees \cup {None} : DiffBase(cause, m) \in Trees \cup {None}
  BY DEF DiffBase, TypeOK
<1>5. \A cause : LinkKind(cause) \in {"state", "gap"}
  BY DEF LinkKind
<1> QED BY <1>2, <1>3, <1>4, <1>5

\* The handler of the event that is being dispatched is well typed.
LEMMA WalkedForType ==
  ASSUME TypeOK, events < MaxEvents, NEW cause \in Causes \cup {"command"},
         NEW run \in BOOLEAN, NEW exit \in Exits, NEW m \in Trees \cup {None}
  PROVE  WalkedFor(cause, run, exit, m) \in Handler
<1>1. events + 1 \in Ids
  BY BoundsAssumption DEF TypeOK, Ids
<1>2. tree \in Trees /\ DiffBase(cause, m) \in Trees \cup {None} /\ LinkKind(cause) \in {"state", "gap"}
  BY ReadTypes DEF TypeOK
<1>3. 0 \in 0 .. MaxEvents /\ 0 \in Nat
  BY BoundsAssumption
<1> QED BY <1>1, <1>2, <1>3 DEF WalkedFor, Handler

\* What failed before is remembered.
Remembers == failed \subseteq failed'

\* A failure is remembered with the type of the handler it ended.
LEMMA FaultTypes ==
  ASSUME TypeOK, NEW id \in Ids, NEW s \in Sessions, NEW cause \in Causes \cup {"command"},
         NEW step, Fault(id, s, cause, step),
         step \in {"walk", "read", "locate", "append", "save", "match", "observe",
                   "close", "count", "measure"}
  PROVE  failed' \subseteq Failure /\ Remembers
<1> DEFINE f == [id |-> id, sess |-> s, boot |-> crashes, cause |-> cause, step |-> step]
<1>1. f \in Failure
  BY DEF Failure, TypeOK
<1>2. failed' = failed \cup {f}
  BY DEF Fault
<1> HIDE DEF f
<1> QED BY <1>1, <1>2 DEF TypeOK, Remembers

\* Dispatching keeps the types, whatever the walk does.
LEMMA DispatchType ==
  ASSUME TypeOK, NEW s \in Sessions, NextEvent(s),
         \/ UNCHANGED work
         \/ \E h \in Handler : work' = [work EXCEPT ![s] = h],
         failed' \subseteq Failure,
         UNCHANGED <<tree, disk, edits, crashes>>,
         attached' \subseteq Sessions, recentTool' \subseteq Sessions, recentEdit' \subseteq Sessions
  PROVE  TypeOK'
<1>1. events' \in 0 .. MaxEvents
  BY BoundsAssumption DEF NextEvent, TypeOK
<1>2. work' \in [Sessions -> Handler \cup {None}]
  BY DEF TypeOK
<1> QED BY <1>1, <1>2 DEF TypeOK, disk

\* A walk leaves a handler, or a failure that is remembered.
LEMMA WalkTypes ==
  ASSUME TypeOK, NEW s \in Sessions, NextEvent(s), NEW cause \in Causes \cup {"command"},
         NEW run \in BOOLEAN, NEW exit \in Exits, Walk(s, cause, run, exit)
  PROVE  /\ \/ UNCHANGED work
            \/ \E h \in Handler : work' = [work EXCEPT ![s] = h]
         /\ failed' \subseteq Failure /\ Remembers
<1>1. \A m \in Trees \cup {None} : WalkedFor(cause, run, exit, m) \in Handler
  BY WalkedForType DEF NextEvent
<1>2. manifestHead \in Trees \cup {None} /\ None \in Trees \cup {None}
  BY DEF TypeOK
<1>3. events + 1 \in Ids
  BY BoundsAssumption DEF NextEvent, TypeOK, Ids
<1>4. \/ UNCHANGED failed \/ Fault(events + 1, s, cause, "read")
      \/ Fault(events + 1, s, cause, "walk")
  BY DEF Walk
<1>5. failed' \subseteq Failure /\ Remembers
  <2>1. CASE UNCHANGED failed
    BY <2>1 DEF TypeOK, Remembers
  <2>2. CASE Fault(events + 1, s, cause, "read")
    BY <1>3, <2>2, FaultTypes
  <2>3. CASE Fault(events + 1, s, cause, "walk")
    BY <1>3, <2>3, FaultTypes
  <2> QED BY <1>4, <2>1, <2>2, <2>3
<1>6. \/ UNCHANGED work
      \/ \E m \in Trees \cup {None} : work' = [work EXCEPT ![s] = WalkedFor(cause, run, exit, m)]
  BY <1>2 DEF Walk
<1> QED BY <1>1, <1>5, <1>6

LEMMA TypeInit == Init => TypeOK
<1> SUFFICES ASSUME Init PROVE TypeOK
  OBVIOUS
<1>1. chain \in Seq(Link) /\ obs \in Seq(Observation)
  BY DEF Init
<1>2. events \in 0 .. MaxEvents
  BY BoundsAssumption DEF Init
<1> QED BY <1>1, <1>2 DEF Init, TypeOK, Endings

\* Handling an event keeps the types.
LEMMA TypeHandle ==
  ASSUME TypeOK, NEW s \in Sessions, Handle(s)
  PROVE  TypeOK'
<1>1. CASE Attach(s)
  <2>1. failed \subseteq Failure /\ attached' \subseteq Sessions
    BY <1>1 DEF Attach, TypeOK
  <2>2. NextEvent(s) /\ UNCHANGED <<tree, disk, recentTool, recentEdit, edits, crashes>>
    BY <1>1 DEF Attach
  <2>3. /\ \/ UNCHANGED work
           \/ \E h \in Handler : work' = [work EXCEPT ![s] = h]
        /\ failed' \subseteq Failure
    <3>1. CASE chainEnd = "torn"
      BY <1>1, <2>1, <3>1 DEF Attach
    <3>2. CASE chainEnd # "torn"
      <4>1. Walk(s, "attach", FALSE, "other")
        BY <1>1, <3>2 DEF Attach
      <4> QED BY <4>1, <2>2, WalkTypes DEF Causes, Exits
    <3> QED BY <3>1, <3>2
  <2> QED BY <2>1, <2>2, <2>3, DispatchType DEF TypeOK
<1>2. CASE CommandExecuted(s)
  <2> DEFINE h == [WalkedFor("command", TRUE, "other", None) EXCEPT !.pc = "match"]
  <2>1. WalkedFor("command", TRUE, "other", None) \in Handler
    BY <1>2, WalkedForType DEF CommandExecuted, NextEvent, Exits
  <2>2. h \in Handler
    BY <2>1 DEF Handler
  <2>3. work' = [work EXCEPT ![s] = h]
    BY <1>2 DEF CommandExecuted
  <2> HIDE DEF h
  <2>4. failed' \subseteq Failure /\ NextEvent(s) /\ UNCHANGED <<tree, disk, memory, edits, crashes>>
    BY <1>2 DEF CommandExecuted, TypeOK
  <2> QED BY <2>2, <2>3, <2>4, DispatchType DEF TypeOK, memory
<1>3. CASE FileEditedSkipped(s)
  <2>1. /\ failed' \subseteq Failure /\ recentEdit' \subseteq Sessions /\ NextEvent(s)
        /\ UNCHANGED <<tree, disk, attached, recentTool, work, edits, crashes>>
    BY <1>3 DEF FileEditedSkipped, TypeOK
  <2> QED BY <2>1, DispatchType DEF TypeOK
<1>4. CASE FileEdited(s)
  <2>1. /\ Walk(s, "edited", FALSE, "other") /\ NextEvent(s)
        /\ UNCHANGED <<tree, disk, memory, edits, crashes>>
    BY <1>4 DEF FileEdited
  <2>2. /\ \/ UNCHANGED work
           \/ \E h \in Handler : work' = [work EXCEPT ![s] = h]
        /\ failed' \subseteq Failure
    BY <2>1, WalkTypes DEF Causes, Exits
  <2> QED BY <2>1, <2>2, DispatchType DEF TypeOK, memory
<1>5. CASE WatcherUpdated(s)
  <2>1. /\ Walk(s, "watcher", FALSE, "other") /\ NextEvent(s)
        /\ UNCHANGED <<tree, disk, memory, edits, crashes>>
    BY <1>5 DEF WatcherUpdated
  <2>2. /\ \/ UNCHANGED work
           \/ \E h \in Handler : work' = [work EXCEPT ![s] = h]
        /\ failed' \subseteq Failure
    BY <2>1, WalkTypes DEF Causes, Exits
  <2> QED BY <2>1, <2>2, DispatchType DEF TypeOK, memory
<1>6. ASSUME NEW exit \in Exits, BoundaryRun(s, exit) PROVE TypeOK'
  <2>1. /\ Walk(s, "boundary", TRUE, exit) /\ NextEvent(s)
        /\ UNCHANGED <<tree, disk, memory, edits, crashes>>
    BY <1>6 DEF BoundaryRun
  <2>2. /\ \/ UNCHANGED work
           \/ \E h \in Handler : work' = [work EXCEPT ![s] = h]
        /\ failed' \subseteq Failure
    BY <2>1, <1>6, WalkTypes DEF Causes
  <2> QED BY <2>1, <2>2, DispatchType DEF TypeOK, memory
<1>7. ASSUME NEW exit \in Exits, NEW sealed \in BOOLEAN, ToolAfter(s, sealed, exit) PROVE TypeOK'
  <2>1. /\ Walk(s, "tool", sealed, exit) /\ NextEvent(s)
        /\ UNCHANGED <<tree, disk, memory, edits, crashes>>
    BY <1>7 DEF ToolAfter
  <2>2. /\ \/ UNCHANGED work
           \/ \E h \in Handler : work' = [work EXCEPT ![s] = h]
        /\ failed' \subseteq Failure
    BY <2>1, <1>7, WalkTypes DEF Causes
  <2> QED BY <2>1, <2>2, DispatchType DEF TypeOK, memory
<1> QED BY <1>1, <1>2, <1>3, <1>4, <1>5, <1>6, <1>7 DEF Handle

\* A handler that is under way is well typed.
LEMMA HandlerType ==
  ASSUME TypeOK, NEW s \in Sessions, Busy(s)
  PROVE  work[s] \in Handler
BY DEF TypeOK, Busy

\* A step that throws ends its handler and is remembered.
LEMMA ThrowTypes ==
  ASSUME TypeOK, NEW s \in Sessions, Busy(s), NEW step,
         step \in {"walk", "read", "locate", "append", "save", "match", "observe",
                   "close", "count", "measure"}
  PROVE  /\ FaultAt(s, step) => failed' \subseteq Failure /\ Remembers
         /\ Throws(s, step) => /\ failed' \subseteq Failure /\ Remembers
                               /\ work' \in [Sessions -> Handler \cup {None}]
<1>1. work[s].id \in Ids /\ work[s].cause \in Causes \cup {"command"}
  BY HandlerType DEF Handler
<1>2. FaultAt(s, step) => failed' \subseteq Failure /\ Remembers
  BY <1>1, FaultTypes DEF FaultAt
<1> QED BY <1>2 DEF Throws, Finish, TypeOK

\* An append, whole or cut short, keeps the type of the chain.
LEMMA LinkTypes ==
  ASSUME TypeOK, NEW s \in Sessions, HandlerFacts(s), At(s, "append"),
         WriteLink(s) \/ CutLink(s)
  PROVE  chain' \in Seq(Link) /\ chainEnd' \in Endings
<1>1. work[s] \in Handler /\ work[s].cause \in Causes
  BY HandlerType DEF At, Busy, HandlerFacts, Shape
<1>2. NewLink(s) \in Link
  BY <1>1 DEF NewLink, Link, Handler, TypeOK
<1>3. chain \in Seq(Link) /\ Append(chain, NewLink(s)) \in Seq(Link)
  BY <1>2 DEF TypeOK
<1>4. chain' = chain \/ chain' = Append(chain, NewLink(s))
  BY DEF WriteLink, CutLink
<1>5. chainEnd' \in Endings
  BY DEF WriteLink, CutLink, TypeOK, Endings
<1> QED BY <1>3, <1>4, <1>5

\* So does an observation.
LEMMA ObservationTypes ==
  ASSUME TypeOK, NEW s \in Sessions, HandlerFacts(s), At(s, "observe"),
         WriteObservation(s) \/ CutObservation(s)
  PROVE  obs' \in Seq(Observation) /\ obsEnd' \in Endings
<1>1. work[s] \in Handler /\ work[s].cause \in {"tool", "boundary", "command"}
  BY HandlerType DEF At, Busy, HandlerFacts, Shape
<1>2. SeenNow(s) \in Observation
  BY <1>1 DEF SeenNow, Observation, Handler, TypeOK
<1>3. obs \in Seq(Observation) /\ Append(obs, SeenNow(s)) \in Seq(Observation)
  BY <1>2 DEF TypeOK
<1>4. obs' = obs \/ obs' = Append(obs, SeenNow(s))
  BY DEF WriteObservation, CutObservation
<1>5. obsEnd' \in Endings
  BY DEF WriteObservation, CutObservation, TypeOK, Endings
<1> QED BY <1>3, <1>4, <1>5

\* A step of a handler keeps the types.
LEMMA TypeHandlerStep ==
  ASSUME TypeOK, NEW s \in Sessions, HandlerFacts(s), HandlerStep(s)
  PROVE  TypeOK' /\ Remembers
<1>0. /\ work \in [Sessions -> Handler \cup {None}]
      /\ Finish(s) => work' \in [Sessions -> Handler \cup {None}]
      /\ UNCHANGED failed => failed' \subseteq Failure /\ Remembers
      /\ Busy(s) /\ work[s] \in Handler
  <2>1. Busy(s)
    BY DEF HandlerStep, Locate, AppendLink, SaveHead, MatchTestfiles, Observe, Close, Measure,
           At, Busy
  <2> QED BY <2>1, HandlerType DEF TypeOK, Finish, Remembers
<1>1. CASE Locate(s)
  <2>1. HeadId \in 0 .. MaxEvents /\ Len(chain) \in Nat
    BY ReadTypes DEF TypeOK
  <2>2. [work[s] EXCEPT !.pc = "append", !.prev = HeadId, !.index = Len(chain)] \in Handler
    BY <1>0, <2>1 DEF Handler
  <2>3. /\ work' \in [Sessions -> Handler \cup {None}]
        /\ failed' \subseteq Failure /\ Remembers
    BY <1>0, <1>1, <2>2, ThrowTypes DEF Locate
  <2> QED BY <1>1, <2>3 DEF Locate, TypeOK, disk, memory, counters
<1>2. CASE AppendLink(s)
  <2>1. chain' \in Seq(Link) /\ chainEnd' \in Endings
    BY <1>2, LinkTypes DEF AppendLink
  <2>2. [work[s] EXCEPT !.pc = "save"] \in Handler
    BY <1>0 DEF Handler
  <2>3. /\ work' \in [Sessions -> Handler \cup {None}]
        /\ failed' \subseteq Failure /\ Remembers
    BY <1>0, <1>2, <2>2, ThrowTypes DEF AppendLink, GoTo
  <2> QED BY <1>2, <2>1, <2>3 DEF AppendLink, TypeOK, memory, counters
<1>3. CASE SaveHead(s)
  <2>1. manifestHead' \in Trees \cup {None}
    BY <1>0, <1>3 DEF SaveHead, SavedHead, Handler, TypeOK
  <2>2. [work[s] EXCEPT !.pc = "match"] \in Handler
    BY <1>0 DEF Handler
  <2>3. /\ work' \in [Sessions -> Handler \cup {None}]
        /\ failed' \subseteq Failure /\ Remembers
    BY <1>0, <1>3, <2>2, ThrowTypes DEF SaveHead, GoTo
  <2>4. recentTool' \subseteq Sessions /\ recentEdit' \subseteq Sessions
    BY <1>3 DEF SaveHead, TypeOK
  <2> QED BY <1>3, <2>1, <2>3, <2>4 DEF SaveHead, TypeOK, counters
<1>4. CASE MatchTestfiles(s)
  <2>1. PICK match \in BOOLEAN :
          /\ work' = [work EXCEPT ![s] = [@ EXCEPT !.pc = "observe", !.match = match]]
          /\ UNCHANGED failed \/ FaultAt(s, "match")
    BY <1>4 DEF MatchTestfiles
  <2>2. [work[s] EXCEPT !.pc = "observe", !.match = match] \in Handler
    BY <1>0 DEF Handler
  <2>3. /\ work' \in [Sessions -> Handler \cup {None}]
        /\ failed' \subseteq Failure /\ Remembers
    BY <1>0, <2>1, <2>2, ThrowTypes
  <2> QED BY <1>4, <2>3 DEF MatchTestfiles, TypeOK, disk, memory, counters
<1>5. CASE Observe(s)
  <2>1. obs' \in Seq(Observation) /\ obsEnd' \in Endings
    BY <1>5, ObservationTypes DEF Observe
  <2>2. [work[s] EXCEPT !.pc = "close"] \in Handler
    BY <1>0 DEF Handler
  <2>3. /\ work' \in [Sessions -> Handler \cup {None}]
        /\ failed' \subseteq Failure /\ Remembers
    BY <1>0, <1>5, <2>2, ThrowTypes DEF Observe, GoTo
  <2> QED BY <1>5, <2>1, <2>3 DEF Observe, TypeOK, memory, counters
<1>6. CASE Close(s)
  <2>1. work[s].id \in Ids
    BY <1>0 DEF Handler
  <2>2. closed' \in CloseRecords \cup {None}
    <3>1. CASE UNCHANGED closed
      BY <3>1 DEF TypeOK
    <3>2. CASE /\ "torn" \notin {chainEnd, obsEnd}
               /\ closed' = CloseRecord(work[s].id, obs, chain)
      <4>1. obs # <<>>
        BY <1>6, <3>2 DEF Close, At, HandlerFacts, AfterLink
      <4> QED BY <2>1, <3>2, <4>1, CloseRecordType DEF TypeOK
    <3> QED BY <1>6, <3>1, <3>2 DEF Close
  <2>3. [work[s] EXCEPT !.pc = "measure"] \in Handler
    BY <1>0 DEF Handler
  <2>4. /\ work' \in [Sessions -> Handler \cup {None}]
        /\ failed' \subseteq Failure /\ Remembers
    BY <1>0, <1>6, <2>3, ThrowTypes DEF Close, GoTo
  <2> QED BY <1>6, <2>2, <2>4 DEF Close, TypeOK, memory, counters
<1>7. CASE Measure(s)
  <2>1. Len(chain) \in Nat
    BY DEF TypeOK
  <2>2. Gaps(chain) \in Nat /\ HeadId \in 0 .. MaxEvents /\ 0 \in 0 .. MaxEvents
    BY <2>1, GapsType, ReadTypes, BoundsAssumption
  <2>3. \A unread \in SUBSET {"links", "head"} : UnlockRecord(unread) \in UnlockRecords
    BY <2>1, <2>2 DEF UnlockRecord, UnlockRecords
  <2>4. \/ UNCHANGED unlock
        \/ \E unread \in SUBSET {"links", "head"} : unlock' = UnlockRecord(unread)
    BY <1>7 DEF Measure
  <2>5. unlock' \in UnlockRecords \cup {None}
    BY <2>3, <2>4 DEF TypeOK
  <2>6. /\ work' \in [Sessions -> Handler \cup {None}]
        /\ failed' \subseteq Failure /\ Remembers
    BY <1>0, <1>7, ThrowTypes DEF Measure
  <2> QED BY <1>7, <2>5, <2>6 DEF Measure, TypeOK, memory, counters
<1> QED BY <1>1, <1>2, <1>3, <1>4, <1>5, <1>6, <1>7 DEF HandlerStep

\* So does everything that goes on around the handlers.
LEMMA TypeAround ==
  ASSUME TypeOK, \A s \in Sessions : HandlerFacts(s)
  PROVE  /\ \A t \in Trees : EditTree(t) => TypeOK'
         /\ \A s \in Sessions : Expire(s) => TypeOK'
         /\ Crash => TypeOK'
<1>1. ASSUME NEW t \in Trees, EditTree(t) PROVE TypeOK'
  <2>1. edits' \in Nat
    BY <1>1 DEF EditTree, TypeOK
  <2> QED BY <1>1, <2>1 DEF EditTree, TypeOK, disk, memory
<1>2. ASSUME NEW s \in Sessions, Expire(s) PROVE TypeOK'
  BY <1>2 DEF Expire, TypeOK, disk, counters
<1>3. ASSUME Crash PROVE TypeOK'
  <2>1. crashes' \in Nat
    BY <1>3 DEF Crash, TypeOK
  <2>2. chain' \in Seq(Link) /\ chainEnd' \in Endings /\ obs' \in Seq(Observation) /\ obsEnd' \in Endings
    <3>1. CASE UNCHANGED <<chain, chainEnd, obs, obsEnd>>
      BY <3>1 DEF TypeOK
    <3>2. ASSUME NEW s \in Sessions, At(s, "append"), CutLink(s), UNCHANGED <<obs, obsEnd>>
          PROVE  chain' \in Seq(Link) /\ chainEnd' \in Endings
      BY <3>2, LinkTypes
    <3>3. ASSUME NEW s \in Sessions, At(s, "observe"), CutObservation(s), UNCHANGED <<chain, chainEnd>>
          PROVE  obs' \in Seq(Observation) /\ obsEnd' \in Endings
      BY <3>3, ObservationTypes
    <3> QED BY <1>3, <3>1, <3>2, <3>3 DEF Crash, TypeOK
  <2>3. work' \in [Sessions -> Handler \cup {None}]
    BY <1>3 DEF Crash
  <2> QED BY <1>3, <2>1, <2>2, <2>3 DEF Crash, TypeOK
<1> QED BY <1>1, <1>2, <1>3

-----------------------------------------------------------------------------
(* The queue: what a handler read still holds when it writes. *)

\* The invariant without the types.
Facts == /\ Serial
         /\ \A s \in Sessions : HandlerFacts(s)
         /\ ChainReadable /\ GapsMarkUnseenChange /\ UnlockAgrees

\* What the properties of Inv say of the files, and the two parts of the first.
Files == ChainReadable /\ GapsMarkUnseenChange /\ UnlockAgrees
Linked ==
  \A i \in 1 .. Len(chain) :
    /\ chain[i].index = i - 1
    /\ chain[i].prev = IF i = 1 THEN 0 ELSE chain[i - 1].id
Excused == crashes > 0 \/ \E f \in failed : f.step = "append"

\* Files that have not changed are as good as before.
LEMMA FilesKept ==
  ASSUME TypeOK, Facts, UNCHANGED <<chain, chainEnd, closed, unlock>>, Remembers,
         crashes' \in {crashes, crashes + 1}
  PROVE  /\ Files'
         /\ HeadState' = HeadState /\ HeadId' = HeadId /\ Gaps(chain)' = Gaps(chain)
<1>1. Excused => Excused'
  <2>1. crashes \in Nat
    BY DEF TypeOK
  <2> QED BY <2>1 DEF Excused, Remembers
<1>2. ChainReadable'
  BY <1>1 DEF Facts, ChainReadable, Excused
<1> QED BY <1>2 DEF Files, Facts, GapsMarkUnseenChange, StateBefore, UnlockAgrees, HeadState,
                    HeadId, Gaps

\* When a handler of s moves on, every other session has none.
LEMMA OnlyOne ==
  ASSUME TypeOK, Serial, NEW s \in Sessions,
         Busy(s) \/ \A r \in Sessions : ~Busy(r),
         NEW h, work' = [work EXCEPT ![s] = h]
  PROVE  /\ work'[s] = h
         /\ \A r \in Sessions : r # s => work'[r] = None
         /\ Serial'
<1>1. \A r \in Sessions : r # s => work[r] = None
  BY DEF Serial, Busy
<1>2. \A r \in Sessions : work'[r] = IF r = s THEN h ELSE work[r]
  BY DEF TypeOK
<1> QED BY <1>1, <1>2 DEF Serial, Busy

\* A handler begins: it has compared the tree with the head of the chain.
LEMMA Begins ==
  ASSUME TypeOK, Facts, NEW s \in Sessions, NextEvent(s), UNCHANGED <<disk, crashes>>, Remembers,
         NEW h, work' = [work EXCEPT ![s] = h],
         Shape(h), h.pc = "locate" \/ (h.pc = "match" /\ h.cause = "command"),
         h.cause = "attach" => (h.kind = "gap" <=> h.tree # HeadState)
  PROVE  Facts'
<1>1. /\ work'[s] = h /\ Serial'
      /\ \A r \in Sessions : r # s => work'[r] = None
  BY OnlyOne DEF Facts, NextEvent, QueueFree
<1>2. HeadState' = HeadState /\ Files'
  BY FilesKept DEF disk
<1>3. HandlerFacts(s)'
  <2>1. Shape(work[s])'
    BY <1>1 DEF Shape
  <2>2. BeforeLink(work[s])'
    BY <1>1, <1>2 DEF BeforeLink
  <2>3. AfterLink(work[s])'
    BY <1>1 DEF AfterLink
  <2> QED BY <2>1, <2>2, <2>3 DEF HandlerFacts
<1>4. \A r \in Sessions : HandlerFacts(r)'
  BY <1>1, <1>3 DEF HandlerFacts
<1> QED BY <1>1, <1>2, <1>4 DEF Facts, Files

\* Steps that touch neither a file nor a handler.
LEMMA Unrelated ==
  ASSUME TypeOK, Facts, UNCHANGED <<disk, work, crashes>>, Remembers
  PROVE  Facts'
<1>1. HeadState' = HeadState /\ HeadId' = HeadId /\ Gaps(chain)' = Gaps(chain) /\ Files'
  BY FilesKept DEF disk
<1>2. Serial'
  BY DEF Facts, Serial, Busy
<1>3. \A s \in Sessions : HandlerFacts(s)'
  <2> SUFFICES ASSUME NEW s \in Sessions, work[s] # None
               PROVE  Shape(work[s])' /\ BeforeLink(work[s])' /\ AfterLink(work[s])'
    BY DEF HandlerFacts
  <2>1. Shape(work[s]) /\ BeforeLink(work[s]) /\ AfterLink(work[s])
    BY DEF Facts, HandlerFacts
  <2>2. Shape(work[s])'
    BY <2>1 DEF Shape
  <2>3. BeforeLink(work[s])'
    BY <1>1, <2>1 DEF BeforeLink, disk
  <2>4. AfterLink(work[s])'
    BY <1>1, <2>1 DEF AfterLink, disk
  <2> QED BY <2>2, <2>3, <2>4
<1> QED BY <1>1, <1>2, <1>3 DEF Facts, Files

\* A handler that a walk leaves has the facts of one that begins.
LEMMA WalkFacts ==
  ASSUME TypeOK, Facts, NEW s \in Sessions, NextEvent(s), UNCHANGED <<disk, crashes>>,
         NEW cause \in Causes, NEW run \in BOOLEAN, NEW exit \in Exits,
         run => cause \in {"tool", "boundary"},
         Walk(s, cause, run, exit)
  PROVE  Facts'
<1>0. Remembers
  BY WalkTypes
<1>1. CASE UNCHANGED work
  BY <1>0, <1>1, Unrelated
<1>2. ASSUME NEW m, work' = [work EXCEPT ![s] = WalkedFor(cause, run, exit, m)] PROVE Facts'
  <2> DEFINE h == WalkedFor(cause, run, exit, m)
  <2>1. /\ h.pc = "locate" /\ h.cause = cause /\ h.run = run /\ h.exit = exit
        /\ h.kind = LinkKind(cause) /\ h.tree = tree
    BY DEF WalkedFor
  <2>2. work' = [work EXCEPT ![s] = h]
    BY <1>2
  <2> HIDE DEF h
  <2>3. Shape(h)
    BY <2>1 DEF Shape, Causes
  <2>4. h.cause = "attach" => (h.kind = "gap" <=> h.tree # HeadState)
    BY <2>1 DEF LinkKind
  <2> QED BY <1>0, <2>1, <2>2, <2>3, <2>4, Begins
<1> QED BY <1>1, <1>2 DEF Walk

\* Handling an event keeps the facts.
LEMMA FactsHandle ==
  ASSUME TypeOK, Facts, NEW s \in Sessions, Handle(s)
  PROVE  Facts'
<1>1. CASE Attach(s)
  <2>1. NextEvent(s) /\ UNCHANGED <<disk, crashes>>
    BY <1>1 DEF Attach
  <2>2. CASE chainEnd = "torn"
    BY <1>1, <2>1, <2>2, Unrelated DEF Attach, Remembers
  <2>3. CASE chainEnd # "torn"
    <3>1. Walk(s, "attach", FALSE, "other")
      BY <1>1, <2>3 DEF Attach
    <3> QED BY <2>1, <3>1, WalkFacts DEF Causes, Exits
  <2> QED BY <2>2, <2>3
<1>2. CASE CommandExecuted(s)
  <2> DEFINE h == [WalkedFor("command", TRUE, "other", None) EXCEPT !.pc = "match"]
  <2>1. /\ h.pc = "match" /\ h.cause = "command" /\ h.run = TRUE /\ h.exit = "other"
    BY DEF WalkedFor
  <2>2. work' = [work EXCEPT ![s] = h]
    BY <1>2 DEF CommandExecuted
  <2> HIDE DEF h
  <2>3. Shape(h)
    BY <2>1 DEF Shape
  <2>4. NextEvent(s) /\ UNCHANGED <<disk, crashes>> /\ Remembers
    BY <1>2 DEF CommandExecuted, Remembers
  <2> QED BY <2>1, <2>2, <2>3, <2>4, Begins
<1>3. CASE FileEditedSkipped(s)
  BY <1>3, Unrelated DEF FileEditedSkipped, Remembers
<1>4. CASE FileEdited(s)
  <2>1. NextEvent(s) /\ UNCHANGED <<disk, crashes>> /\ Walk(s, "edited", FALSE, "other")
    BY <1>4 DEF FileEdited
  <2> QED BY <2>1, WalkFacts DEF Causes, Exits
<1>5. CASE WatcherUpdated(s)
  <2>1. NextEvent(s) /\ UNCHANGED <<disk, crashes>> /\ Walk(s, "watcher", FALSE, "other")
    BY <1>5 DEF WatcherUpdated
  <2> QED BY <2>1, WalkFacts DEF Causes, Exits
<1>6. ASSUME NEW exit \in Exits, BoundaryRun(s, exit) PROVE Facts'
  <2>1. NextEvent(s) /\ UNCHANGED <<disk, crashes>> /\ Walk(s, "boundary", TRUE, exit)
    BY <1>6 DEF BoundaryRun
  <2> QED BY <2>1, WalkFacts DEF Causes
<1>7. ASSUME NEW exit \in Exits, NEW sealed \in BOOLEAN, ToolAfter(s, sealed, exit) PROVE Facts'
  <2>1. NextEvent(s) /\ UNCHANGED <<disk, crashes>> /\ Walk(s, "tool", sealed, exit)
    BY <1>7 DEF ToolAfter
  <2> QED BY <2>1, WalkFacts DEF Causes
<1> QED BY <1>1, <1>2, <1>3, <1>4, <1>5, <1>6, <1>7 DEF Handle

\* A handler that ends leaves the facts, if it has not spoilt the files.
LEMMA Ends ==
  ASSUME TypeOK, Serial, NEW s \in Sessions, Busy(s), Finish(s), Files'
  PROVE  Facts'
<1>1. Serial' /\ \A r \in Sessions : work'[r] = None
  <2>1. /\ work'[s] = None /\ Serial'
        /\ \A r \in Sessions : r # s => work'[r] = None
    BY OnlyOne DEF Finish
  <2> QED BY <2>1
<1>2. \A r \in Sessions : HandlerFacts(r)'
  BY <1>1 DEF HandlerFacts
<1> QED BY <1>1, <1>2 DEF Facts, Files

\* A handler that goes on keeps the facts, if they hold of its next point.
LEMMA GoesOn ==
  ASSUME TypeOK, Serial, NEW s \in Sessions, Busy(s),
         NEW h, work' = [work EXCEPT ![s] = h],
         HandlerFacts(s)', Files'
  PROVE  Facts'
<1>1. Serial' /\ \A r \in Sessions : r # s => work'[r] = None
  BY OnlyOne
<1>2. \A r \in Sessions : HandlerFacts(r)'
  BY <1>1 DEF HandlerFacts
<1> QED BY <1>1, <1>2 DEF Facts, Files

\* A link appended where the handler located it keeps the chain in order.
LEMMA LinkAdded ==
  ASSUME TypeOK, Facts, NEW s \in Sessions, At(s, "append"),
         chain' = Append(chain, NewLink(s)), UNCHANGED <<closed, unlock>>
  PROVE  /\ Linked' /\ GapsMarkUnseenChange' /\ UnlockAgrees'
         /\ chain' # <<>> /\ HeadId' = work[s].id
<1> DEFINE n == Len(chain)
<1>0. work[s].pc = "append" /\ BeforeLink(work[s])
  BY DEF At, Facts, HandlerFacts
<1>1. /\ NewLink(s).id = work[s].id /\ NewLink(s).prev = HeadId /\ NewLink(s).index = n
      /\ NewLink(s).cause = work[s].cause /\ NewLink(s).state = work[s].tree
      /\ NewLink(s).kind = work[s].kind
      /\ work[s].cause = "attach" => (work[s].kind = "gap" <=> work[s].tree # HeadState)
  BY <1>0 DEF NewLink, BeforeLink
<1>2. /\ Len(chain') = n + 1 /\ chain'[n + 1] = NewLink(s) /\ n \in Nat
      /\ \A i \in 1 .. n : chain'[i] = chain[i]
      /\ chain = <<>> <=> n = 0
  BY DEF TypeOK
<1>3. HeadId' = work[s].id /\ chain' # <<>>
  <2>1. chain' # <<>> /\ HeadId' = chain'[Len(chain')].id
    BY <1>2 DEF HeadId
  <2> QED BY <1>1, <1>2, <2>1
<1>4. Linked'
  <2> SUFFICES ASSUME NEW i \in 1 .. n + 1
               PROVE  /\ chain'[i].index = i - 1
                      /\ chain'[i].prev = IF i = 1 THEN 0 ELSE chain'[i - 1].id
    BY <1>2 DEF Linked
  <2>1. CASE i \in 1 .. n
    <3>1. chain'[i] = chain[i] /\ (i # 1 => chain'[i - 1] = chain[i - 1])
      BY <1>2, <2>1
    <3>2. chain[i].index = i - 1 /\ chain[i].prev = IF i = 1 THEN 0 ELSE chain[i - 1].id
      BY <2>1 DEF Facts, ChainReadable
    <3> QED BY <3>1, <3>2
  <2>2. CASE i = n + 1
    <3>1. chain'[i] = NewLink(s) /\ (i # 1 => chain'[i - 1] = chain[n] /\ chain # <<>>)
      BY <1>2, <2>2
    <3>2. HeadId = IF i = 1 THEN 0 ELSE chain[n].id
      BY <1>2, <2>2 DEF HeadId
    <3> QED BY <1>1, <1>2, <2>2, <3>1, <3>2
  <2> QED BY <1>2, <2>1, <2>2
<1>5. GapsMarkUnseenChange'
  <2> SUFFICES ASSUME NEW i \in 1 .. n + 1, chain'[i].cause = "attach"
               PROVE  chain'[i].kind = "gap" <=> chain'[i].state # StateBefore(i)'
    BY <1>2 DEF GapsMarkUnseenChange
  <2>1. CASE i \in 1 .. n
    <3>1. chain'[i] = chain[i] /\ (i # 1 => chain'[i - 1] = chain[i - 1])
      BY <1>2, <2>1
    <3>2. StateBefore(i)' = StateBefore(i)
      BY <3>1 DEF StateBefore
    <3>3. chain[i].kind = "gap" <=> chain[i].state # StateBefore(i)
      BY <2>1, <3>1 DEF Facts, GapsMarkUnseenChange
    <3> QED BY <3>1, <3>2, <3>3
  <2>2. CASE i = n + 1
    <3>1. chain'[i] = NewLink(s) /\ (i # 1 => chain'[i - 1] = chain[n] /\ chain # <<>>)
      BY <1>2, <2>2
    <3>2. StateBefore(i)' = HeadState
      BY <1>2, <2>2, <3>1 DEF StateBefore, HeadState
    <3> QED BY <1>1, <3>1, <3>2
  <2> QED BY <1>2, <2>1, <2>2
<1>6. UnlockAgrees'
  BY DEF Facts, UnlockAgrees
<1> QED BY <1>3, <1>4, <1>5, <1>6

\* What an append leaves of the chain: in order, and cut short only for a reason.
LEMMA AppendFiles ==
  ASSUME TypeOK, Facts, NEW s \in Sessions, At(s, "append"),
         WriteLink(s) \/ CutLink(s), UNCHANGED <<closed, unlock>>,
         CutLink(s) => Excused', Remembers, crashes' \in {crashes, crashes + 1}
  PROVE  Files'
<1>1. CASE UNCHANGED chain
  <2>1. Linked' /\ GapsMarkUnseenChange' /\ UnlockAgrees'
    BY <1>1 DEF Facts, ChainReadable, Linked, GapsMarkUnseenChange, StateBefore, UnlockAgrees
  <2>2. chainEnd' # "whole" => Excused'
    <3>1. Excused => Excused'
      <4>1. crashes \in Nat
        BY DEF TypeOK
      <4> QED BY <4>1 DEF Excused, Remembers
    <3>2. chainEnd # "whole" => Excused
      BY DEF Facts, ChainReadable, Excused
    <3> QED BY <3>1, <3>2 DEF WriteLink
  <2> QED BY <2>1, <2>2 DEF Files, ChainReadable, Linked, Excused
<1>2. CASE chain' = Append(chain, NewLink(s))
  <2>1. Linked' /\ GapsMarkUnseenChange' /\ UnlockAgrees'
    BY <1>2, LinkAdded
  <2>2. chainEnd' # "whole" => Excused'
    <3>1. Excused => Excused'
      <4>1. crashes \in Nat
        BY DEF TypeOK
      <4> QED BY <4>1 DEF Excused, Remembers
    <3>2. chainEnd # "whole" => Excused
      BY DEF Facts, ChainReadable, Excused
    <3> QED BY <3>1, <3>2 DEF WriteLink
  <2> QED BY <2>1, <2>2 DEF Files, ChainReadable, Linked, Excused
<1> QED BY <1>1, <1>2 DEF WriteLink, CutLink

\* A step of a handler keeps the facts.
LEMMA FactsHandlerStep ==
  ASSUME TypeOK, Facts, NEW s \in Sessions, HandlerStep(s)
  PROVE  Facts'
<1>0. /\ Busy(s) /\ Serial /\ work[s] \in Handler
      /\ Shape(work[s]) /\ BeforeLink(work[s]) /\ AfterLink(work[s])
      /\ Remembers /\ crashes' = crashes
      /\ \A step : Throws(s, step) => Finish(s)
  <2>1. Busy(s)
    BY DEF HandlerStep, Locate, AppendLink, SaveHead, MatchTestfiles, Observe, Close, Measure,
           At, Busy
  <2>2. Remembers
    BY TypeHandlerStep DEF Facts
  <2>3. crashes' = crashes
    BY DEF HandlerStep, Locate, AppendLink, SaveHead, MatchTestfiles, Observe, Close, Measure,
           counters
  <2> QED BY <2>1, <2>2, <2>3, HandlerType DEF Facts, HandlerFacts, Busy, Throws
<1>1. CASE Locate(s)
  <2>1. UNCHANGED <<chain, chainEnd, closed, unlock, obs, obsEnd>>
    BY <1>1 DEF Locate, disk
  <2>2. CASE Finish(s)
    BY <1>0, <2>1, <2>2, FilesKept, Ends
  <2>3. CASE ~Finish(s)
    <3> DEFINE h == [work[s] EXCEPT !.pc = "append", !.prev = HeadId, !.index = Len(chain)]
    <3>1. work' = [work EXCEPT ![s] = h] /\ chainEnd # "torn"
      BY <1>0, <1>1, <2>3 DEF Locate
    <3>2. /\ h.pc = "append" /\ h.prev = HeadId /\ h.index = Len(chain)
          /\ h.cause = work[s].cause /\ h.kind = work[s].kind /\ h.tree = work[s].tree
          /\ h.run = work[s].run /\ h.exit = work[s].exit
      BY <1>0 DEF Handler
    <3>3. work[s].pc = "locate"
      BY <1>1 DEF Locate, At
    <3> HIDE DEF h
    <3>4. Shape(h)
      BY <1>0, <3>2, <3>3 DEF Shape
    <3>5. work'[s] = h
      BY <1>0, <3>1, OnlyOne
    <3>6. HandlerFacts(s)'
      <4>1. BeforeLink(work[s])'
        BY <1>0, <2>1, <3>1, <3>2, <3>3, <3>5, FilesKept DEF BeforeLink
      <4>2. AfterLink(work[s])'
        BY <3>2, <3>5 DEF AfterLink
      <4> QED BY <3>4, <3>5, <4>1, <4>2 DEF HandlerFacts, Shape
    <3> QED BY <1>0, <2>1, <3>1, <3>6, FilesKept, GoesOn
  <2> QED BY <2>2, <2>3
<1>2. CASE AppendLink(s)
  <2> DEFINE h == [work[s] EXCEPT !.pc = "save"]
  <2>1. /\ UNCHANGED <<closed, unlock, obs, obsEnd>> /\ work[s].pc = "append"
        /\ At(s, "append")
    BY <1>2 DEF AppendLink, At
  <2>2. Files'
    <3>1. WriteLink(s) \/ CutLink(s)
      BY <1>2 DEF AppendLink
    <3>2. CASE Throws(s, "append")
      <4> DEFINE f == [id |-> work[s].id, sess |-> s, boot |-> crashes,
                       cause |-> work[s].cause, step |-> "append"]
      <4>1. f \in failed' /\ f.step = "append"
        BY <3>2 DEF Throws, FaultAt, Fault
      <4> HIDE DEF f
      <4>2. Excused'
        BY <4>1 DEF Excused
      <4> QED BY <1>0, <2>1, <3>1, <4>2, AppendFiles
    <3>3. CASE WriteLink(s) /\ UNCHANGED failed /\ GoTo(s, "save")
      <4>1. CASE UNCHANGED chain
        <5>1. chainEnd # "whole"
          BY <3>3, <4>1 DEF WriteLink, TypeOK
        <5>2. Excused'
          BY <1>0, <3>3, <5>1 DEF Facts, ChainReadable, Excused
        <5> QED BY <1>0, <2>1, <3>1, <5>2, AppendFiles
      <4>2. CASE ~CutLink(s)
        BY <1>0, <2>1, <3>1, <4>2, AppendFiles
      <4>3. CASE chain' # chain /\ CutLink(s)
        <5>1. chainEnd' # chainEnd
          BY <4>3 DEF CutLink
        <5>2. chainEnd' = chainEnd
          BY <3>3, <4>3 DEF WriteLink
        <5> QED BY <5>1, <5>2
      <4> QED BY <4>1, <4>2, <4>3
    <3> QED BY <1>2, <3>2, <3>3 DEF AppendLink
  <2>3. CASE Finish(s)
    BY <1>0, <2>2, <2>3, Ends
  <2>4. CASE ~Finish(s)
    <3>1. work' = [work EXCEPT ![s] = h] /\ WriteLink(s)
      BY <1>0, <1>2, <2>4 DEF AppendLink, GoTo
    <3>2. /\ h.pc = "save" /\ h.id = work[s].id /\ h.cause = work[s].cause
          /\ h.run = work[s].run /\ h.exit = work[s].exit
      BY <1>0 DEF Handler
    <3> HIDE DEF h
    <3>3. work'[s] = h
      BY <1>0, <3>1, OnlyOne
    <3>4. chainEnd' # "torn" => chain' # <<>> /\ HeadId' = work[s].id
      BY <2>1, <3>1, LinkAdded DEF WriteLink
    <3>5. HandlerFacts(s)'
      <4>1. Shape(work[s])'
        BY <1>0, <2>1, <3>2, <3>3 DEF Shape
      <4>2. BeforeLink(work[s])'
        BY <3>2, <3>3 DEF BeforeLink
      <4>3. AfterLink(work[s])'
        BY <3>2, <3>3, <3>4 DEF AfterLink
      <4> QED BY <4>1, <4>2, <4>3 DEF HandlerFacts
    <3> QED BY <1>0, <2>2, <3>1, <3>5, GoesOn
  <2> QED BY <2>3, <2>4
<1>3. CASE SaveHead(s)
  <2> DEFINE h == [work[s] EXCEPT !.pc = "match"]
  <2>1. UNCHANGED <<chain, chainEnd, closed, unlock>> /\ work[s].pc = "save"
    BY <1>3 DEF SaveHead, At
  <2>2. CASE Finish(s)
    BY <1>0, <2>1, <2>2, FilesKept, Ends
  <2>3. CASE ~Finish(s)
    <3>1. work' = [work EXCEPT ![s] = h] /\ work[s].run
      BY <1>0, <1>3, <2>3 DEF SaveHead, GoTo
    <3>2. /\ h.pc = "match" /\ h.id = work[s].id /\ h.cause = work[s].cause
          /\ h.run = work[s].run /\ h.exit = work[s].exit
      BY <1>0 DEF Handler
    <3> HIDE DEF h
    <3>3. work'[s] = h
      BY <1>0, <3>1, OnlyOne
    <3>4. HandlerFacts(s)'
      <4>1. Shape(work[s])' /\ BeforeLink(work[s])'
        BY <1>0, <2>1, <3>1, <3>2, <3>3 DEF Shape, BeforeLink
      <4>2. AfterLink(work[s])'
        BY <1>0, <2>1, <3>2, <3>3, FilesKept DEF AfterLink
      <4> QED BY <4>1, <4>2 DEF HandlerFacts
    <3> QED BY <1>0, <2>1, <3>1, <3>4, FilesKept, GoesOn
  <2> QED BY <2>2, <2>3
<1>4. CASE MatchTestfiles(s)
  <2>0. PICK match \in BOOLEAN :
          work' = [work EXCEPT ![s] = [@ EXCEPT !.pc = "observe", !.match = match]]
    BY <1>4 DEF MatchTestfiles
  <2> DEFINE h == [work[s] EXCEPT !.pc = "observe", !.match = match]
  <2>1. /\ UNCHANGED <<chain, chainEnd, closed, unlock>> /\ work[s].pc = "match"
        /\ work' = [work EXCEPT ![s] = h]
    BY <1>4, <2>0 DEF MatchTestfiles, At, disk
  <2>2. /\ h.pc = "observe" /\ h.id = work[s].id /\ h.cause = work[s].cause
        /\ h.run = work[s].run /\ h.exit = work[s].exit
    BY <1>0 DEF Handler
  <2> HIDE DEF h
  <2>3. work'[s] = h
    BY <1>0, <2>1, OnlyOne
  <2>4. HandlerFacts(s)'
    <3>1. Shape(work[s])' /\ BeforeLink(work[s])'
      BY <1>0, <2>1, <2>2, <2>3 DEF Shape, BeforeLink
    <3>2. AfterLink(work[s])'
      BY <1>0, <2>1, <2>2, <2>3, FilesKept DEF AfterLink
    <3> QED BY <3>1, <3>2 DEF HandlerFacts
  <2> QED BY <1>0, <2>1, <2>4, FilesKept, GoesOn
<1>5. CASE Observe(s)
  <2> DEFINE h == [work[s] EXCEPT !.pc = "close"]
  <2>1. UNCHANGED <<chain, chainEnd, closed, unlock>> /\ work[s].pc = "observe"
    BY <1>5 DEF Observe, At
  <2>2. CASE Finish(s)
    BY <1>0, <2>1, <2>2, FilesKept, Ends
  <2>3. CASE ~Finish(s)
    <3>1. /\ work' = [work EXCEPT ![s] = h] /\ WriteObservation(s)
          /\ ~AlreadyClosed /\ ShouldClose(work[s])
      BY <1>0, <1>5, <2>3 DEF Observe, GoTo
    <3>2. /\ h.pc = "close" /\ h.id = work[s].id /\ h.cause = work[s].cause
          /\ h.run = work[s].run /\ h.exit = work[s].exit
      BY <1>0 DEF Handler
    <3>3. closed = None /\ work[s].exit = "zero"
      BY <3>1 DEF AlreadyClosed, ShouldClose
    <3> HIDE DEF h
    <3>4. work'[s] = h
      BY <1>0, <3>1, OnlyOne
    <3>5. obsEnd' # "torn" => obs' # <<>>
      BY <3>1 DEF WriteObservation, TypeOK
    <3>6. HandlerFacts(s)'
      <4>1. Shape(work[s])' /\ BeforeLink(work[s])'
        BY <1>0, <2>1, <3>2, <3>3, <3>4 DEF Shape, BeforeLink
      <4>2. AfterLink(work[s])'
        BY <1>0, <2>1, <3>2, <3>3, <3>4, <3>5, FilesKept DEF AfterLink
      <4> QED BY <4>1, <4>2 DEF HandlerFacts
    <3> QED BY <1>0, <2>1, <3>1, <3>6, FilesKept, GoesOn
  <2> QED BY <2>2, <2>3
<1>6. CASE Close(s)
  <2> DEFINE h == [work[s] EXCEPT !.pc = "measure"]
  <2>1. UNCHANGED <<chain, chainEnd, unlock>> /\ work[s].pc = "close"
    BY <1>6 DEF Close, At
  <2>2. CASE Finish(s) /\ UNCHANGED closed
    BY <1>0, <2>1, <2>2, FilesKept, Ends
  <2>3. CASE ~(Finish(s) /\ UNCHANGED closed)
    <3>1. /\ work' = [work EXCEPT ![s] = h] /\ closed' = CloseRecord(work[s].id, obs, chain)
          /\ chainEnd # "torn" /\ obsEnd # "torn" /\ failed' = failed
      BY <1>0, <1>6, <2>3 DEF Close, GoTo
    <3>2. /\ h.pc = "measure" /\ h.id = work[s].id /\ h.cause = work[s].cause
          /\ h.run = work[s].run /\ h.exit = work[s].exit
      BY <1>0 DEF Handler
    <3> HIDE DEF h
    <3>3. work'[s] = h
      BY <1>0, <3>1, OnlyOne
    <3>4. closed = None /\ obs # <<>> /\ chain # <<>> /\ HeadId = work[s].id
      BY <1>0, <2>1, <3>1 DEF AfterLink, Shape
    <3>5. closed' # None
      <4>1. work[s].id \in Ids
        BY <1>0 DEF Handler
      <4>2. CloseRecord(work[s].id, obs, chain) \in CloseRecords
        BY <3>4, <4>1, CloseRecordType DEF TypeOK
      <4> QED BY <3>1, <4>2, NoneAssumption
    <3>6. /\ closed'.id = HeadId /\ closed'.links = Len(chain) /\ closed'.gaps = Gaps(chain)
      BY <3>1, <3>4 DEF CloseRecord
    <3>7. HeadId' = HeadId /\ Gaps(chain)' = Gaps(chain)
      BY <2>1 DEF HeadId, Gaps
    <3>8. HandlerFacts(s)'
      <4>1. Shape(work[s])' /\ BeforeLink(work[s])'
        BY <1>0, <2>1, <3>2, <3>3 DEF Shape, BeforeLink
      <4>2. AfterLink(work[s])'
        BY <2>1, <3>2, <3>3, <3>4, <3>5, <3>6, <3>7 DEF AfterLink
      <4> QED BY <4>1, <4>2 DEF HandlerFacts
    <3>9. Files'
      <4>1. unlock = None
        BY <3>4 DEF Facts, UnlockAgrees
      <4> QED BY <1>0, <2>1, <3>1, <4>1 DEF Files, Facts, ChainReadable, GapsMarkUnseenChange,
                                         StateBefore, UnlockAgrees
    <3> QED BY <1>0, <3>1, <3>8, <3>9, GoesOn
  <2> QED BY <2>2, <2>3
<1>7. CASE Measure(s)
  <2>1. /\ UNCHANGED <<chain, chainEnd, closed>> /\ work[s].pc = "measure" /\ Finish(s)
        /\ \/ UNCHANGED unlock
           \/ \E unread \in SUBSET {"links", "head"} : unlock' = UnlockRecord(unread)
    BY <1>0, <1>7 DEF Measure, At
  <2>2. CASE UNCHANGED unlock
    BY <1>0, <2>1, <2>2, FilesKept, Ends
  <2>3. ASSUME NEW unread \in SUBSET {"links", "head"}, unlock' = UnlockRecord(unread)
        PROVE  Facts'
    <3>1. /\ closed # None /\ closed.id = HeadId
          /\ closed.links = Len(chain) /\ closed.gaps = Gaps(chain)
      BY <1>0, <2>1 DEF AfterLink
    <3>2. Len(chain) \in Nat /\ Gaps(chain) \in Nat
      BY GapsType DEF TypeOK
    <3>3. /\ unlock'.unread = unread
          /\ "links" \notin unread => unlock'.links = Len(chain) - Gaps(chain)
                                      /\ unlock'.gaps = Gaps(chain)
          /\ "head" \notin unread => unlock'.head = HeadId
      BY <2>3 DEF UnlockRecord
    <3>4. UnlockAgrees'
      BY <2>1, <3>1, <3>2, <3>3 DEF UnlockAgrees
    <3>5. Linked' /\ GapsMarkUnseenChange'
      BY <2>1 DEF Facts, ChainReadable, Linked, GapsMarkUnseenChange, StateBefore
    <3>6. chainEnd' # "whole" => Excused'
      BY <1>0, <2>1 DEF Facts, ChainReadable, Excused, Remembers
    <3>7. Files'
      BY <3>4, <3>5, <3>6 DEF Files, ChainReadable, Linked, Excused
    <3> QED BY <1>0, <2>1, <3>7, Ends
  <2> QED BY <2>1, <2>2, <2>3
<1> QED BY <1>1, <1>2, <1>3, <1>4, <1>5, <1>6, <1>7 DEF HandlerStep

\* A crash ends every handler; the append it cuts short leaves the chain in order.
LEMMA FactsCrash ==
  ASSUME TypeOK, Facts, Crash
  PROVE  Facts'
<1>1. /\ UNCHANGED <<closed, unlock, failed>> /\ \A s \in Sessions : work'[s] = None
      /\ crashes' = crashes + 1 /\ crashes \in Nat /\ Remembers
  BY DEF Crash, TypeOK, Remembers
<1>2. Excused'
  BY <1>1 DEF Excused
<1>3. Files'
  <2>1. CASE UNCHANGED <<chain, chainEnd>>
    BY <1>1, <2>1, FilesKept
  <2>2. ASSUME NEW s \in Sessions, At(s, "append"), CutLink(s) PROVE Files'
    BY <1>1, <1>2, <2>2, AppendFiles
  <2> QED BY <2>1, <2>2 DEF Crash
<1>4. Serial' /\ \A s \in Sessions : HandlerFacts(s)'
  BY <1>1 DEF Serial, Busy, HandlerFacts
<1> QED BY <1>3, <1>4 DEF Facts, Files

-----------------------------------------------------------------------------
(* The invariant, and what follows from it. *)

LEMMA InvInit == Init => Inv
<1> SUFFICES ASSUME Init PROVE Inv
  OBVIOUS
<1>1. Serial /\ \A s \in Sessions : HandlerFacts(s)
  BY DEF Init, Serial, Busy, HandlerFacts
<1>2. Len(chain) = 0 /\ unlock = None /\ chainEnd = "whole"
  BY DEF Init
<1> QED BY <1>1, <1>2, TypeInit DEF Inv, ChainReadable, GapsMarkUnseenChange, UnlockAgrees

LEMMA InvStep == Inv /\ [Next]_vars => Inv'
<1> SUFFICES ASSUME Inv, [Next]_vars PROVE Inv'
  OBVIOUS
<1>0. TypeOK /\ Facts /\ (UNCHANGED failed => Remembers)
  BY DEF Inv, Facts, Remembers
<1>1. ASSUME NEW s \in Sessions, Handle(s) PROVE Inv'
  BY <1>0, <1>1, TypeHandle, FactsHandle DEF Inv, Facts
<1>2. ASSUME NEW s \in Sessions, HandlerStep(s) PROVE Inv'
  BY <1>0, <1>2, TypeHandlerStep, FactsHandlerStep DEF Inv, Facts
<1>3. ASSUME NEW s \in Sessions, Expire(s) PROVE Inv'
  <2>1. UNCHANGED <<disk, work, crashes, failed>>
    BY <1>3 DEF Expire, counters
  <2>2. TypeOK'
    BY <1>0, <1>3, TypeAround DEF Facts
  <2> QED BY <1>0, <2>1, <2>2, Unrelated DEF Inv, Facts
<1>4. ASSUME NEW t \in Trees, EditTree(t) PROVE Inv'
  <2>1. UNCHANGED <<disk, work, crashes, failed>>
    BY <1>4 DEF EditTree
  <2>2. TypeOK'
    BY <1>0, <1>4, TypeAround DEF Facts
  <2> QED BY <1>0, <2>1, <2>2, Unrelated DEF Inv, Facts
<1>5. CASE Crash
  BY <1>0, <1>5, TypeAround, FactsCrash DEF Inv, Facts
<1>6. CASE UNCHANGED vars
  <2>1. UNCHANGED <<disk, work, crashes, failed>>
    BY <1>6 DEF vars, disk
  <2>2. TypeOK'
    BY <1>0, <1>6 DEF vars, TypeOK
  <2> QED BY <1>0, <2>1, <2>2, Unrelated DEF Inv, Facts
<1> QED BY <1>1, <1>2, <1>3, <1>4, <1>5, <1>6 DEF Next

\* Inv is an invariant of every behaviour of the engine.
THEOREM Invariant == Spec => []Inv
BY InvInit, InvStep, PTL DEF Spec

\* Every file and every handler keeps its type.
THEOREM TypeCorrect == Spec => []TypeOK
<1>1. Inv => TypeOK
  BY DEF Inv
<1> QED BY <1>1, Invariant, PTL

\* The whole lines of chain.jsonl are in order (the queue keeps two handlers from
\* both reading the head before either appends), and only an append that a death or
\* a failed write cut short leaves a file that readChain may refuse.
THEOREM ChainCorrect == Spec => []ChainReadable
<1>1. Inv => ChainReadable
  BY DEF Inv
<1> QED BY <1>1, Invariant, PTL

\* An attach link is a gap exactly when the tree changed unseen, whatever
\* manifest-head.json was left at by a crash.
THEOREM GapsCorrect == Spec => []GapsMarkUnseenChange
<1>1. Inv => GapsMarkUnseenChange
  BY DEF Inv
<1> QED BY <1>1, Invariant, PTL

\* The unlock record describes the chain the close record counted, where it does
\* not disclose that it could not read it.
THEOREM UnlockCorrect == Spec => []UnlockAgrees
<1>1. Inv => UnlockAgrees
  BY DEF Inv
<1> QED BY <1>1, Invariant, PTL

\* A handler that closes finds the goal open, so closed.json is written at most once.
LEMMA CloseStep == Inv /\ [Next]_vars => [closed # None => closed' = closed]_vars
<1> SUFFICES ASSUME Inv, Next, closed # None PROVE closed' = closed
  BY DEF vars
<1>1. ASSUME NEW s \in Sessions, HandlerStep(s) PROVE closed' = closed
  <2>1. CASE Close(s)
    <3>1. work[s] # None /\ work[s].pc = "close" /\ HandlerFacts(s)
      BY <2>1 DEF Close, At, Inv
    <3>2. closed = None
      BY <3>1 DEF HandlerFacts, AfterLink
    <3> QED BY <3>2
  <2>2. CASE ~Close(s)
    BY <1>1, <2>2 DEF HandlerStep, Locate, AppendLink, SaveHead, MatchTestfiles, Observe,
                      Measure, disk
  <2> QED BY <2>1, <2>2
<1>2. ASSUME NEW s \in Sessions, Handle(s) PROVE closed' = closed
  BY <1>2 DEF Handle, Attach, CommandExecuted, FileEditedSkipped, FileEdited, WatcherUpdated,
              BoundaryRun, ToolAfter, disk
<1>3. ASSUME NEW s \in Sessions, Expire(s) PROVE closed' = closed
  BY <1>3 DEF Expire, disk
<1>4. ASSUME NEW t \in Trees, EditTree(t) PROVE closed' = closed
  BY <1>4 DEF EditTree, disk
<1>5. CASE Crash
  BY <1>5 DEF Crash
<1> QED BY <1>1, <1>2, <1>3, <1>4, <1>5 DEF Next

\* closed.json, once written, is never rewritten.
THEOREM CloseCorrect == Spec => ClosedForGood
<1>1. Spec => [][Next]_vars
  BY PTL DEF Spec
<1> QED BY <1>1, CloseStep, Invariant, PTL DEF ClosedForGood

-----------------------------------------------------------------------------
(* What earned the close, what a diff was taken from, what was checked first:
   facts that rest on Inv and do not feed back into it. *)

\* This run of the process attached s, and the attach failed on its way to the link.
AttachFailed(s) == \E f \in failed : /\ f.cause = "attach" /\ f.step \in {"walk", "locate", "append"}
                                     /\ f.sess = s /\ f.boot = crashes

\* The manifest head could not be read for this link, or was not saved after it.
NotRead(F, id)  == \E f \in F : f.id = id /\ f.step = "read"
NotSaved(F, id) == \E f \in F : f.id = id /\ f.step = "save"

\* What a failed step leaves behind is there for good, and an attach for this run.
LEMMA FaultSays ==
  ASSUME NEW id, NEW s, NEW cause, NEW step, Fault(id, s, cause, step)
  PROVE  /\ Remembers
         /\ step = "read" => NotRead(failed', id)
         /\ step = "save" => NotSaved(failed', id)
         /\ cause = "attach" /\ step \in {"walk", "locate", "append"} /\ crashes' = crashes
              => AttachFailed(s)'
<1> DEFINE f == [id |-> id, sess |-> s, boot |-> crashes, cause |-> cause, step |-> step]
<1>1. failed' = failed \cup {f}
  BY DEF Fault
<1>2. f.id = id /\ f.sess = s /\ f.boot = crashes /\ f.cause = cause /\ f.step = step
  OBVIOUS
<1> HIDE DEF f
<1>3. f \in failed' /\ Remembers
  BY <1>1 DEF Remembers
<1>4. step = "read" => NotRead(failed', id)
  BY <1>2, <1>3 DEF NotRead
<1>5. step = "save" => NotSaved(failed', id)
  BY <1>2, <1>3 DEF NotSaved
<1>6. cause = "attach" /\ step \in {"walk", "locate", "append"} /\ crashes' = crashes
        => AttachFailed(s)'
  BY <1>2, <1>3 DEF AttachFailed
<1> QED BY <1>3, <1>4, <1>5, <1>6

LEMMA StillSays ==
  ASSUME Remembers
  PROVE  /\ \A id : NotRead(failed, id) => NotRead(failed', id)
         /\ \A id : NotSaved(failed, id) => NotSaved(failed', id)
         /\ \A s : crashes' = crashes /\ AttachFailed(s) => AttachFailed(s)'
BY DEF Remembers, NotRead, NotSaved, AttachFailed

\* An event whose walk failed, or that found a torn chain, starts no handler.
Unwalked(s) ==
  /\ UNCHANGED work
  /\ \/ attached' = attached
     \/ attached' = attached \cup {s} /\ (chainEnd = "torn" \/ AttachFailed(s)')

\* A handler begins at its link, or past it when it is for a command.
Begun(s, h) ==
  /\ work' = [work EXCEPT ![s] = h]
  /\ \/ h.pc = "match" /\ attached' = attached
     \/ /\ h # None /\ h.pc = "locate"
        /\ h.base = DiffBase(h.cause, manifestHead) \/ NotRead(failed', h.id)
        /\ IF h.cause = "attach" THEN attached' = attached \cup {s} ELSE attached' = attached
        /\ h.cause \in {"tool", "edited", "watcher"} => s \in attached

LEMMA WalkBegins ==
  ASSUME TypeOK, NEW s \in Sessions, NextEvent(s), NEW cause \in Causes, crashes' = crashes,
         NEW run \in BOOLEAN, NEW exit \in Exits, Walk(s, cause, run, exit),
         IF cause = "attach" THEN attached' = attached \cup {s} ELSE attached' = attached,
         cause \in {"tool", "edited", "watcher"} => s \in attached
  PROVE  Remembers /\ (Unwalked(s) \/ \E h : Begun(s, h))
<1>0. Remembers
  BY WalkTypes
<1>1. ASSUME NEW m \in Trees \cup {None}, work' = [work EXCEPT ![s] = WalkedFor(cause, run, exit, m)],
             m = manifestHead \/ Fault(events + 1, s, cause, "read")
      PROVE  \E h : Begun(s, h)
  <2> DEFINE h == WalkedFor(cause, run, exit, m)
  <2>0. h \in Handler
    BY WalkedForType DEF NextEvent
  <2>1. /\ h # None /\ h.pc = "locate" /\ h.cause = cause /\ h.base = DiffBase(cause, m)
        /\ h.id = events + 1
    BY <2>0, NoneAssumption DEF WalkedFor
  <2>2. work' = [work EXCEPT ![s] = h]
    BY <1>1
  <2> HIDE DEF h
  <2>3. h.base = DiffBase(h.cause, manifestHead) \/ NotRead(failed', h.id)
    <3>1. CASE m = manifestHead
      BY <2>1, <3>1
    <3>2. CASE Fault(events + 1, s, cause, "read")
      BY <2>1, <3>2, FaultSays
    <3> QED BY <1>1, <3>1, <3>2
  <2>4. Begun(s, h)
    BY <2>1, <2>2, <2>3 DEF Begun
  <2> QED BY <2>4
<1>2. CASE Fault(events + 1, s, cause, "walk") /\ UNCHANGED work
  BY <1>2, FaultSays DEF Unwalked
<1>3. manifestHead \in Trees \cup {None} /\ None \in Trees \cup {None}
  BY DEF TypeOK
<1> QED BY <1>0, <1>1, <1>2, <1>3 DEF Walk

LEMMA HandleBegins ==
  ASSUME TypeOK, NEW s \in Sessions, Handle(s)
  PROVE  /\ UNCHANGED <<disk, crashes>> /\ \A r \in Sessions : work[r] = None
         /\ Remembers
         /\ Unwalked(s) \/ \E h : Begun(s, h)
<1>0. NextEvent(s)
  BY DEF Handle, Attach, CommandExecuted, FileEditedSkipped, FileEdited, WatcherUpdated,
         BoundaryRun, ToolAfter
<1>1. UNCHANGED <<disk, crashes>> /\ \A r \in Sessions : work[r] = None
  BY DEF Handle, Attach, CommandExecuted, FileEditedSkipped, FileEdited, WatcherUpdated,
         BoundaryRun, ToolAfter, NextEvent, QueueFree, Busy
<1>2. CASE Attach(s)
  <2>0. attached' = attached \cup {s}
    BY <1>2 DEF Attach
  <2>1. CASE chainEnd = "torn"
    <3>1. work' = work /\ failed' = failed
      BY <1>2, <2>1, Zenon DEF Attach
    <3>2. Unwalked(s)
      BY <2>0, <2>1, <3>1, Zenon DEF Unwalked
    <3> QED BY <1>1, <3>1, <3>2 DEF Remembers
  <2>2. CASE chainEnd # "torn"
    <3>1. Walk(s, "attach", FALSE, "other")
      BY <1>2, <2>2, Zenon DEF Attach
    <3> QED BY <1>0, <1>1, <2>0, <3>1, WalkBegins DEF Causes, Exits
  <2> QED BY <2>1, <2>2
<1>3. CASE CommandExecuted(s)
  <2> DEFINE h == [WalkedFor("command", TRUE, "other", None) EXCEPT !.pc = "match"]
  <2>1. h.pc = "match"
    BY DEF WalkedFor
  <2>2. work' = [work EXCEPT ![s] = h] /\ attached' = attached /\ failed' = failed
    BY <1>3 DEF CommandExecuted, memory
  <2> HIDE DEF h
  <2>3. Begun(s, h)
    BY <2>1, <2>2 DEF Begun
  <2> QED BY <1>1, <2>2, <2>3 DEF Remembers
<1>4. CASE FileEditedSkipped(s)
  BY <1>1, <1>4 DEF FileEditedSkipped, Unwalked, Remembers
<1>5. CASE FileEdited(s)
  <2>1. Walk(s, "edited", FALSE, "other") /\ attached' = attached /\ s \in attached
    BY <1>5 DEF FileEdited, HasGoal, memory
  <2> QED BY <1>0, <1>1, <2>1, WalkBegins DEF Causes, Exits
<1>6. CASE WatcherUpdated(s)
  <2>1. Walk(s, "watcher", FALSE, "other") /\ attached' = attached /\ s \in attached
    BY <1>6 DEF WatcherUpdated, HasGoal, memory
  <2> QED BY <1>0, <1>1, <2>1, WalkBegins DEF Causes, Exits
<1>7. ASSUME NEW exit \in Exits, BoundaryRun(s, exit)
      PROVE  Remembers /\ (Unwalked(s) \/ \E h : Begun(s, h))
  <2>1. Walk(s, "boundary", TRUE, exit) /\ attached' = attached
    BY <1>7 DEF BoundaryRun, memory
  <2> QED BY <1>0, <1>1, <2>1, WalkBegins DEF Causes, Exits
<1>8. ASSUME NEW exit \in Exits, NEW sealed \in BOOLEAN, ToolAfter(s, sealed, exit)
      PROVE  Remembers /\ (Unwalked(s) \/ \E h : Begun(s, h))
  <2>1. Walk(s, "tool", sealed, exit) /\ attached' = attached /\ s \in attached
    BY <1>8 DEF ToolAfter, HasGoal, memory
  <2> QED BY <1>0, <1>1, <2>1, WalkBegins DEF Causes, Exits
<1> QED BY <1>1, <1>2, <1>3, <1>4, <1>5, <1>6, <1>7, <1>8 DEF Handle

\* The one handler under way takes its step: the others have none.
LEMMA StepAlone ==
  ASSUME Inv, NEW s \in Sessions, HandlerStep(s)
  PROVE  /\ work[s] \in Handler /\ \A r \in Sessions \ {s} : work[r] = None /\ work'[r] = None
         /\ HandlerFacts(s) /\ attached' = attached /\ crashes' = crashes /\ Remembers
<1>1. Busy(s)
  BY DEF HandlerStep, Locate, AppendLink, SaveHead, MatchTestfiles, Observe, Close, Measure,
         At, Busy
<1>2. work[s] \in Handler /\ HandlerFacts(s) /\ Remembers
  BY <1>1, HandlerType, TypeHandlerStep DEF Inv
<1>3. attached' = attached /\ crashes' = crashes
  BY DEF HandlerStep, Locate, AppendLink, SaveHead, MatchTestfiles, Observe, Close, Measure,
         memory, counters
<1>4. \E h : work' = [work EXCEPT ![s] = h]
  BY DEF HandlerStep, Locate, AppendLink, SaveHead, MatchTestfiles, Observe, Close, Measure,
         Throws, Finish, GoTo
<1>5. PICK h : work' = [work EXCEPT ![s] = h]
  BY <1>4
<1>6. \A r \in Sessions \ {s} : work[r] = None /\ work'[r] = work[r]
  BY <1>1, <1>5 DEF Inv, TypeOK, Serial, Busy
<1> QED BY <1>2, <1>3, <1>6

\* A new link comes last.
LEMMA NewLinkLast ==
  ASSUME TypeOK, NEW s \in Sessions, chain' = Append(chain, NewLink(s))
  PROVE  LET n == Len(chain)
         IN /\ n \in Nat /\ Len(chain') = n + 1 /\ chain'[n + 1] = NewLink(s)
            /\ \A i \in 1 .. n : chain'[i] = chain[i]
<1>1. chain \in Seq(Link)
  BY DEF TypeOK
<1> QED BY <1>1

-----------------------------------------------------------------------------
(* The close. *)

\* Whoever is about to close has recorded the run that earns it, last; if the line
\* before it was cut short, the record cannot be made.
Earning(w) ==
  w.pc = "close" /\ obsEnd # "torn" =>
    /\ obs # <<>>
    /\ obs[Len(obs)].exit = "zero" /\ obs[Len(obs)].match = TRUE
    /\ obs[Len(obs)].source # "command" /\ obs[Len(obs)].id = w.id

Earned == CloseIsEarned /\ \A s \in Sessions : work[s] # None => Earning(work[s])

\* What a close record counted stays as it is when the files grow.
LEMMA EarnedGrows ==
  ASSUME TypeOK, CloseIsEarned, closed' = closed,
         Len(chain') \in Nat, Len(chain) <= Len(chain'),
         \A i \in 1 .. Len(chain) : chain'[i] = chain[i],
         Len(obs') \in Nat, Len(obs) <= Len(obs'),
         \A i \in 1 .. Len(obs) : obs'[i] = obs[i],
         chain' \in Seq(Link)
  PROVE  CloseIsEarned'
<1> SUFFICES ASSUME closed # None PROVE CloseIsEarned'
  BY DEF CloseIsEarned
<1> DEFINE k == closed.links
           a == closed.attempts
<1>1. closed \in CloseRecords /\ chain \in Seq(Link) /\ obs \in Seq(Observation)
  BY DEF TypeOK
<1>2. a \in Nat \ {0} /\ k \in Nat /\ a <= Len(obs) /\ k \in 1 .. Len(chain)
  BY <1>1 DEF CloseRecords, CloseIsEarned
<1>3. obs'[a] = obs[a] /\ chain'[k] = chain[k] /\ Len(obs) \in Nat /\ Len(chain) \in Nat
  BY <1>1, <1>2
<1>4. Gaps(SubSeq(chain', 1, k)) = Gaps(SubSeq(chain, 1, k))
  <2> DEFINE new == SubSeq(chain', 1, k)
             old == SubSeq(chain, 1, k)
  <2>1. Len(old) = k /\ \A i \in 1 .. k : old[i] = chain[i]
    BY <1>1, <1>2
  <2>2. Len(new) = k /\ \A i \in 1 .. k : new[i] = chain'[i]
    BY <1>2
  <2>3. \A i \in 1 .. k : new[i] = old[i]
    BY <1>2, <1>3, <2>1, <2>2
  <2> HIDE DEF new, old
  <2>4. {i \in 1 .. Len(new) : new[i].kind = "gap"} = {i \in 1 .. Len(old) : old[i].kind = "gap"}
    BY <2>1, <2>2, <2>3
  <2> QED BY <2>4 DEF Gaps, new, old
<1>5. /\ closed.attempts <= Len(obs') /\ closed.links \in 1 .. Len(chain')
      /\ obs'[closed.attempts] = obs[closed.attempts] /\ chain'[closed.links] = chain[closed.links]
      /\ Gaps(SubSeq(chain', 1, closed.links)) = Gaps(SubSeq(chain, 1, closed.links))
  BY <1>2, <1>3, <1>4
<1> HIDE DEF k, a
<1> QED BY <1>5 DEF CloseIsEarned

LEMMA EarnedAppends ==
  ASSUME TypeOK, TypeOK', CloseIsEarned, closed' = closed, NEW s \in Sessions,
         chain' = chain \/ chain' = Append(chain, NewLink(s)),
         obs' = obs \/ obs' = Append(obs, SeenNow(s))
  PROVE  CloseIsEarned'
<1>1. chain \in Seq(Link) /\ obs \in Seq(Observation) /\ chain' \in Seq(Link)
  BY DEF TypeOK
<1>2. /\ Len(chain') \in Nat /\ Len(chain) <= Len(chain')
      /\ \A i \in 1 .. Len(chain) : chain'[i] = chain[i]
  <2>1. CASE chain' = chain
    BY <1>1, <2>1
  <2>2. CASE chain' = Append(chain, NewLink(s))
    BY <2>2, NewLinkLast
  <2> QED BY <2>1, <2>2
<1>3. /\ Len(obs') \in Nat /\ Len(obs) <= Len(obs')
      /\ \A i \in 1 .. Len(obs) : obs'[i] = obs[i]
  <2>1. CASE obs' = obs
    BY <1>1, <2>1
  <2>2. CASE obs' = Append(obs, SeenNow(s))
    BY <1>1, <2>2
  <2> QED BY <2>1, <2>2
<1> QED BY <1>1, <1>2, <1>3, EarnedGrows

LEMMA EarnedObserve ==
  ASSUME Inv, Inv', Earned, NEW s \in Sessions, Observe(s)
  PROVE  Earned'
<1> DEFINE w == work[s]
<1>0. /\ w \in Handler /\ HandlerFacts(s) /\ TypeOK /\ TypeOK'
      /\ \A r \in Sessions \ {s} : work'[r] = None
  BY StepAlone DEF HandlerStep, Inv
<1>1. /\ chain' = chain /\ closed' = closed /\ w # None
      /\ obs' = obs \/ obs' = Append(obs, SeenNow(s))
  BY DEF Observe, At, WriteObservation, CutObservation
<1>2. \/ Finish(s)
      \/ WriteObservation(s) /\ GoTo(s, "close") /\ ShouldClose(w)
  BY DEF Observe, Throws
<1>3. CloseIsEarned'
  BY <1>0, <1>1, EarnedAppends DEF Earned
<1>4. work'[s] # None => Earning(work[s])'
  <2>1. CASE Finish(s)
    BY <1>0, <2>1 DEF Finish, TypeOK
  <2>2. CASE WriteObservation(s) /\ GoTo(s, "close") /\ ShouldClose(w)
    <3>1. w.exit = "zero" /\ w.match = TRUE
      BY <1>0, <2>2 DEF ShouldClose, Handler
    <3>2. w.cause # "command"
      BY <1>0, <1>1, <3>1 DEF HandlerFacts, Shape
    <3>3. work'[s].id = w.id
      <4>1. work'[s] = [w EXCEPT !.pc = "close"]
        BY <1>0, <2>2 DEF GoTo, TypeOK
      <4> QED BY <1>0, <4>1 DEF Handler
    <3>4. obsEnd' # "torn" => obs' = Append(obs, SeenNow(s))
      BY <2>2 DEF WriteObservation
    <3>5. /\ SeenNow(s).id = w.id /\ SeenNow(s).source = w.cause
          /\ SeenNow(s).exit = w.exit /\ SeenNow(s).match = w.match
      BY DEF SeenNow
    <3>6. obsEnd' # "torn" => obs' # <<>> /\ obs'[Len(obs')] = SeenNow(s)
      BY <1>0, <3>4 DEF TypeOK
    <3> QED BY <3>1, <3>2, <3>3, <3>5, <3>6 DEF Earning
  <2> QED BY <1>2, <2>1, <2>2
<1> QED BY <1>0, <1>3, <1>4 DEF Earned

LEMMA EarnedClose ==
  ASSUME Inv, Earned, NEW s \in Sessions, Close(s)
  PROVE  Earned'
<1> DEFINE w == work[s]
<1>0. /\ w \in Handler /\ HandlerFacts(s) /\ TypeOK
      /\ \A r \in Sessions \ {s} : work'[r] = None
  BY StepAlone DEF HandlerStep, Inv
<1>1. chain' = chain /\ obs' = obs /\ w # None /\ w.pc = "close"
  BY DEF Close, At
<1>2. CASE Finish(s) /\ UNCHANGED closed
  <2>1. closed' = closed /\ work'[s] = None
    BY <1>0, <1>2 DEF Finish, TypeOK
  <2>2. CloseIsEarned'
    BY <1>1, <2>1 DEF Earned, CloseIsEarned
  <2> QED BY <1>0, <2>1, <2>2 DEF Earned
<1>3. CASE /\ "torn" \notin {chainEnd, obsEnd}
           /\ closed' = CloseRecord(w.id, obs, chain) /\ GoTo(s, "measure")
  <2>1. closed' = CloseRecord(w.id, obs, chain) /\ GoTo(s, "measure")
        /\ chainEnd # "torn" /\ obsEnd # "torn"
    BY <1>3
  <2>2. work'[s].pc = "measure"
    <3>1. work'[s] = [w EXCEPT !.pc = "measure"]
      BY <1>0, <2>1 DEF GoTo, TypeOK
    <3> QED BY <1>0, <3>1 DEF Handler
  <2>3. Earning(w)
    BY <1>1 DEF Earned
  <2>4. w.cause # "command" /\ chain # <<>> /\ HeadId = w.id
    BY <1>0, <1>1, <2>1, <2>3 DEF HandlerFacts, Shape, AfterLink, Earning
  <2>5. /\ closed'.attempts = Len(obs) /\ closed'.links = Len(chain) /\ closed'.id = w.id
        /\ closed'.gaps = Gaps(chain)
    BY <2>1 DEF CloseRecord
  <2>6. chain \in Seq(Link) /\ obs \in Seq(Observation) /\ Len(obs) \in Nat
        /\ Len(chain) \in Nat /\ Len(chain) # 0
    BY <1>0, <2>4 DEF TypeOK
  <2>7. Gaps(SubSeq(chain, 1, Len(chain))) = Gaps(chain)
    <3> DEFINE c == SubSeq(chain, 1, Len(chain))
    <3>1. Len(c) = Len(chain) /\ \A i \in 1 .. Len(chain) : c[i] = chain[i]
      BY <2>6
    <3> HIDE DEF c
    <3>2. {i \in 1 .. Len(c) : c[i].kind = "gap"} = {i \in 1 .. Len(chain) : chain[i].kind = "gap"}
      BY <3>1
    <3> QED BY <3>2 DEF Gaps, c
  <2>8. chain[Len(chain)].id = w.id
    BY <2>4 DEF HeadId
  <2>9. CloseIsEarned'
    BY <1>1, <2>1, <2>3, <2>4, <2>5, <2>6, <2>7, <2>8 DEF CloseIsEarned, Earning
  <2>10. Earning(work[s])'
    BY <2>2 DEF Earning
  <2> QED BY <1>0, <2>9, <2>10 DEF Earned
<1> QED BY <1>2, <1>3 DEF Close, Throws

LEMMA EarnedStep == Inv /\ Inv' /\ Earned /\ [Next]_vars => Earned'
<1> SUFFICES ASSUME Inv, Inv', Earned, [Next]_vars PROVE Earned'
  OBVIOUS
<1>0. TypeOK /\ TypeOK'
  BY DEF Inv
<1>1. ASSUME NEW s \in Sessions, Observe(s) \/ Close(s) PROVE Earned'
  BY <1>1, EarnedObserve, EarnedClose
<1>2. ASSUME NEW s \in Sessions,
             Locate(s) \/ AppendLink(s) \/ SaveHead(s) \/ MatchTestfiles(s) \/ Measure(s)
      PROVE  Earned'
  <2>1. /\ work[s] \in Handler /\ \A r \in Sessions \ {s} : work'[r] = None
    BY <1>2, StepAlone DEF HandlerStep
  <2>2. /\ closed' = closed /\ obs' = obs
        /\ chain' = chain \/ chain' = Append(chain, NewLink(s))
    BY <1>2 DEF Locate, AppendLink, SaveHead, MatchTestfiles, Measure, disk, WriteLink, CutLink
  <2>3. CloseIsEarned'
    BY <1>0, <2>2, EarnedAppends DEF Earned
  <2>4. work'[s] # None => work'[s].pc # "close"
    <3>0. s \in DOMAIN work /\ "pc" \in DOMAIN work[s]
      BY <1>0, <2>1 DEF TypeOK, Handler
    <3>1. CASE Finish(s)
      BY <3>0, <3>1 DEF Finish
    <3>2. CASE Locate(s)
      BY <3>0, <3>1, <3>2 DEF Locate, Throws
    <3>3. CASE AppendLink(s)
      BY <3>0, <3>1, <3>3 DEF AppendLink, Throws, GoTo
    <3>4. CASE SaveHead(s)
      BY <3>0, <3>1, <3>4 DEF SaveHead, Throws, GoTo
    <3>5. CASE MatchTestfiles(s)
      BY <3>0, <3>5 DEF MatchTestfiles
    <3>6. CASE Measure(s)
      BY <3>0, <3>1, <3>6 DEF Measure, Throws
    <3> QED BY <1>2, <3>2, <3>3, <3>4, <3>5, <3>6
  <2> QED BY <2>1, <2>3, <2>4 DEF Earned, Earning
<1>3. ASSUME NEW s \in Sessions, Handle(s) PROVE Earned'
  <2>1. UNCHANGED disk /\ (Unwalked(s) \/ \E h : Begun(s, h))
    BY <1>0, <1>3, HandleBegins
  <2>2. CloseIsEarned'
    BY <2>1 DEF disk, Earned, CloseIsEarned
  <2>3. CASE Unwalked(s)
    BY <2>1, <2>2, <2>3 DEF Unwalked, disk, Earned, Earning
  <2>4. ASSUME NEW h, Begun(s, h) PROVE Earned'
    <3>1. h.pc # "close" /\ \A r \in Sessions : work'[r] = IF r = s THEN h ELSE work[r]
      BY <1>0, <2>4 DEF Begun, TypeOK
    <3> QED BY <2>1, <2>2, <3>1 DEF disk, Earned, Earning
  <2> QED BY <2>1, <2>3, <2>4
<1>4. ASSUME UNCHANGED <<chain, obs, obsEnd, closed, work>>
      PROVE  Earned'
  <2>1. CloseIsEarned'
    BY <1>4 DEF Earned, CloseIsEarned
  <2>2. ASSUME NEW s \in Sessions, work'[s] # None PROVE Earning(work[s])'
    BY <1>4, <2>2 DEF Earned, Earning
  <2> QED BY <2>1, <2>2 DEF Earned
<1>5. ASSUME NEW s \in Sessions, Expire(s) PROVE Earned'
  BY <1>4, <1>5 DEF Expire, disk
<1>6. ASSUME NEW t \in Trees, EditTree(t) PROVE Earned'
  BY <1>4, <1>6 DEF EditTree, disk
<1>7. CASE Crash
  <2>1. (\A s \in Sessions : work'[s] = None) /\ closed' = closed
    BY <1>7 DEF Crash
  <2>2. CASE UNCHANGED <<chain, obs>>
    BY <2>1, <2>2 DEF Earned, CloseIsEarned
  <2>3. ASSUME NEW s \in Sessions,
               \/ CutLink(s) /\ UNCHANGED obs
               \/ CutObservation(s) /\ UNCHANGED chain
        PROVE  Earned'
    <3>1. CloseIsEarned'
      BY <1>0, <2>1, <2>3, EarnedAppends DEF Earned, CutLink, CutObservation
    <3> QED BY <2>1, <3>1 DEF Earned
  <2> QED BY <1>7, <2>2, <2>3 DEF Crash
<1>8. CASE UNCHANGED vars
  BY <1>4, <1>8 DEF vars
<1> QED BY <1>1, <1>2, <1>3, <1>5, <1>6, <1>7, <1>8 DEF Next, HandlerStep

(* Whatever the order of events, edits and deaths, a closed goal has the    *)
(* run that closed it: exit 0, sealed predicate files, a link of its own;   *)
(* and the record counts exactly what was there.                            *)
THEOREM EarnedCorrect == Spec => []CloseIsEarned
<1>1. Init => Earned
  BY DEF Init, Earned, CloseIsEarned
<1>2. Earned => CloseIsEarned
  BY DEF Earned
<1> QED BY <1>1, <1>2, EarnedStep, InvStep, Invariant, PTL DEF Spec

-----------------------------------------------------------------------------
(* The base of the next diff. *)

\* The head of the chain was appended by the process now running.
Fresh == chain # <<>> /\ chain[Len(chain)].boot = crashes

\* A base taken from a manifest head that has fallen behind the chain, or was not read.
Based(w) ==
  /\ w.pc \in {"locate", "append"} /\ chainEnd = "whole" /\ Fresh =>
       w.base = HeadState \/ NotSaved(failed, HeadId) \/ NotRead(failed, w.id)
  /\ w.pc = "save" /\ chainEnd = "whole" => w.tree = HeadState

Boots == \A i \in 1 .. Len(chain) : chain[i].boot <= crashes

\* manifest-head.json lags behind the chain only while a save is pending, because
\* the save failed, or because the process that appended the head died before it.
\* A chain whose last line was cut short takes no further link.
BaseInv ==
  /\ Boots
  /\ DiffBaseIsPrevious
  /\ chainEnd = "whole" /\ Fresh /\ (\A s \in Sessions : ~At(s, "save")) =>
       manifestHead = HeadState \/ NotSaved(failed, HeadId)
  /\ \A s \in Sessions : work[s] # None => Based(work[s])

\* What was said of the links there are is still so.
LEMMA BasesKept ==
  ASSUME DiffBaseIsPrevious, chain' = chain, Remembers
  PROVE  DiffBaseIsPrevious'
BY DEF DiffBaseIsPrevious, Remembers

\* A link added to a whole chain starts at the tree of the one before, or a failure
\* says why not.
LEMMA BaseLink ==
  ASSUME TypeOK, BaseInv, NEW s \in Sessions, At(s, "append"), chainEnd = "whole",
         chain' = Append(chain, NewLink(s)), Remembers
  PROVE  /\ DiffBaseIsPrevious' /\ HeadState' = work[s].tree
         /\ \A i \in 1 .. Len(chain') : chain'[i].boot <= crashes
<1> DEFINE w == work[s]
           n == Len(chain)
<1>1. w # None /\ w.pc = "append" /\ crashes \in Nat
  BY DEF At, TypeOK
<1>3. /\ n \in Nat /\ Len(chain') = n + 1 /\ chain'[n + 1] = NewLink(s)
      /\ \A i \in 1 .. n : chain'[i] = chain[i]
  BY NewLinkLast
<1>4. /\ NewLink(s).state = w.tree /\ NewLink(s).base = w.base /\ NewLink(s).boot = crashes
      /\ NewLink(s).id = w.id
  BY DEF NewLink
<1>5. HeadState' = w.tree
  <2>1. chain' # <<>>
    BY DEF TypeOK
  <2> QED BY <1>3, <1>4, <2>1 DEF HeadState
<1>6. \A i \in 1 .. Len(chain') : chain'[i].boot <= crashes
  BY <1>1, <1>3, <1>4 DEF BaseInv, Boots
<1>7. DiffBaseIsPrevious'
  <2> SUFFICES ASSUME NEW i \in 2 .. n + 1, chain'[i].boot = chain'[i - 1].boot
               PROVE  \/ chain'[i].base = chain'[i - 1].state
                      \/ \E f \in failed' : \/ f.id = chain'[i - 1].id /\ f.step = "save"
                                            \/ f.id = chain'[i].id /\ f.step = "read"
    BY <1>3 DEF DiffBaseIsPrevious
  <2>1. CASE i \in 2 .. n
    <3>1. chain'[i] = chain[i] /\ chain'[i - 1] = chain[i - 1]
      <4>1. i \in 1 .. n /\ i - 1 \in 1 .. n
        BY <1>3, <2>1
      <4> QED BY <1>3, <4>1
    <3>2. \/ chain[i].base = chain[i - 1].state
          \/ \E f \in failed : \/ f.id = chain[i - 1].id /\ f.step = "save"
                               \/ f.id = chain[i].id /\ f.step = "read"
      BY <2>1, <3>1 DEF BaseInv, DiffBaseIsPrevious
    <3> QED BY <3>1, <3>2 DEF Remembers
  <2>2. CASE i = n + 1
    <3>1. n \in 1 .. n /\ i - 1 = n /\ chain'[n] = chain[n]
      BY <1>3, <2>2
    <3>2. chain # <<>> /\ chain[n].boot = crashes
      BY <1>3, <1>4, <2>2, <3>1
    <3>3. w.base = HeadState \/ NotSaved(failed, HeadId) \/ NotRead(failed, w.id)
      BY <1>1, <3>2 DEF BaseInv, Based, Fresh
    <3>4. HeadState = chain[n].state /\ HeadId = chain[n].id
      BY <3>2 DEF HeadState, HeadId
    <3>5. chain'[i] = NewLink(s) /\ chain'[i - 1] = chain[n]
      BY <1>3, <2>2, <3>1
    <3> QED BY <1>4, <3>3, <3>4, <3>5 DEF NotSaved, NotRead, Remembers
  <2> QED BY <1>3, <2>1, <2>2
<1> QED BY <1>5, <1>6, <1>7

LEMMA BaseAppend ==
  ASSUME Inv, BaseInv, NEW s \in Sessions, AppendLink(s)
  PROVE  BaseInv'
<1> DEFINE w == work[s]
<1>0. /\ w \in Handler /\ TypeOK /\ crashes' = crashes /\ Remembers /\ BeforeLink(w)
      /\ \A r \in Sessions \ {s} : work[r] = None /\ work'[r] = None
  BY StepAlone DEF HandlerStep, Inv, HandlerFacts, AppendLink, At
<1>1. /\ w # None /\ w.pc = "append" /\ At(s, "append") /\ chainEnd # "torn"
      /\ manifestHead' = manifestHead
  BY <1>0 DEF AppendLink, At, BeforeLink
<1>2. CASE chainEnd' # "whole" /\ chain' = chain
  BY <1>0, <1>2, BasesKept DEF BaseInv, Boots, Based
<1>3. CASE chainEnd' # "whole" /\ chainEnd = "whole" /\ chain' = Append(chain, NewLink(s))
  <2>1. DiffBaseIsPrevious' /\ Boots'
    BY <1>0, <1>1, <1>3, BaseLink DEF Boots
  <2> QED BY <1>3, <2>1 DEF BaseInv, Based
<1>4. CASE chainEnd' = "whole" /\ GoTo(s, "save") /\ chain' = Append(chain, NewLink(s))
           /\ chainEnd = "whole"
  <2>1. DiffBaseIsPrevious' /\ Boots' /\ HeadState' = w.tree
    BY <1>0, <1>1, <1>4, BaseLink DEF Boots
  <2>2. work'[s] # None /\ work'[s].pc = "save" /\ work'[s].tree = w.tree
    <3>1. work'[s] = [w EXCEPT !.pc = "save"]
      BY <1>0, <1>4 DEF GoTo, TypeOK
    <3>2. work'[s] \in Handler
      BY <1>0, <3>1 DEF Handler
    <3> QED BY <1>0, <3>1, <3>2, NoneAssumption DEF Handler
  <2>3. \A r \in Sessions : work'[r] # None => Based(work[r])'
    BY <1>0, <2>1, <2>2 DEF Based
  <2>4. ~ \A r \in Sessions : ~At(r, "save")'
    BY <2>2 DEF At
  <2> QED BY <2>1, <2>3, <2>4 DEF BaseInv
<1>5. CASE UNCHANGED <<chain, chainEnd>> /\ Finish(s)
  <2>1. \A r \in Sessions : work'[r] = None /\ ~At(r, "save")
    BY <1>0, <1>1, <1>5 DEF Finish, TypeOK, At
  <2>2. Fresh' = Fresh /\ HeadState' = HeadState /\ HeadId' = HeadId
    BY <1>0, <1>5 DEF Fresh, HeadState, HeadId
  <2>3. NotSaved(failed, HeadId) => NotSaved(failed', HeadId)
    BY <1>0 DEF NotSaved, Remembers
  <2>4. DiffBaseIsPrevious' /\ Boots'
    BY <1>0, <1>5, BasesKept DEF BaseInv, Boots
  <2> QED BY <1>1, <1>5, <2>1, <2>2, <2>3, <2>4 DEF BaseInv
<1>6. chainEnd \in {"whole", "open"}
  BY <1>0, <1>1 DEF TypeOK, Endings
<1>7. CASE WriteLink(s) /\ GoTo(s, "save")
  BY <1>2, <1>4, <1>6, <1>7 DEF WriteLink
<1>8. CASE CutLink(s) /\ Finish(s)
  BY <1>2, <1>3, <1>5, <1>8 DEF CutLink
<1> QED BY <1>7, <1>8 DEF AppendLink, Throws

LEMMA BaseSave ==
  ASSUME Inv, BaseInv, NEW s \in Sessions, SaveHead(s)
  PROVE  BaseInv'
<1> DEFINE w == work[s]
<1>0. /\ w \in Handler /\ TypeOK /\ crashes' = crashes /\ HandlerFacts(s) /\ Remembers
      /\ \A r \in Sessions \ {s} : work'[r] = None
  BY StepAlone DEF HandlerStep, Inv
<1>1. w # None /\ w.pc = "save" /\ chain' = chain /\ chainEnd' = chainEnd
  BY DEF SaveHead, At
<1>2. work'[s] = None \/ work'[s].pc = "match"
  BY <1>0 DEF SaveHead, Throws, GoTo, Finish, TypeOK, Handler
<1>3. HeadState' = HeadState /\ HeadId' = HeadId
  BY <1>1 DEF HeadState, HeadId
<1>4. chainEnd = "whole" => manifestHead' = HeadState \/ NotSaved(failed', HeadId)
  <2>1. CASE manifestHead' = SavedHead(s)
    BY <1>1, <2>1 DEF SavedHead, BaseInv, Based
  <2>2. CASE Throws(s, "save")
    <3>1. NotSaved(failed', w.id)
      BY <2>2, FaultSays DEF Throws, FaultAt
    <3>2. chainEnd # "torn" => HeadId = w.id
      BY <1>0, <1>1 DEF HandlerFacts, Shape, AfterLink, Causes
    <3> QED BY <3>1, <3>2
  <2> QED BY <2>1, <2>2 DEF SaveHead
<1>5. \A r \in Sessions : work'[r] # None => Based(work[r])'
  BY <1>0, <1>2 DEF Based
<1>6. DiffBaseIsPrevious' /\ Boots'
  BY <1>0, <1>1, BasesKept DEF BaseInv, Boots
<1> QED BY <1>1, <1>3, <1>4, <1>5, <1>6 DEF BaseInv

\* Steps that touch neither the chain nor the base, and leave no save pending.
LEMMA BaseKept ==
  ASSUME BaseInv, UNCHANGED <<chain, chainEnd, manifestHead, crashes>>, Remembers,
         \A s \in Sessions : At(s, "save") => work'[s] = work[s],
         \A s \in Sessions : \/ work'[s] = work[s]
                             \/ work'[s] = None
                             \/ work'[s].pc \in {"match", "observe", "close", "measure"}
                             \/ /\ work'[s].pc \in {"locate", "append"}
                                /\ chainEnd = "whole" /\ Fresh =>
                                     \/ work'[s].base = HeadState
                                     \/ NotSaved(failed', HeadId)
                                     \/ NotRead(failed', work'[s].id)
  PROVE  BaseInv'
<1>1. Fresh' = Fresh /\ HeadState' = HeadState /\ HeadId' = HeadId
  BY DEF Fresh, HeadState, HeadId
<1>2. \A s \in Sessions : work'[s] # None => Based(work[s])'
  <2> SUFFICES ASSUME NEW s \in Sessions, work'[s] # None PROVE Based(work[s])'
    OBVIOUS
  <2>1. CASE work'[s] = work[s]
    <3>1. Based(work[s])
      BY <2>1 DEF BaseInv
    <3> QED BY <1>1, <2>1, <3>1, StillSays DEF Based
  <2>2. CASE work'[s] # work[s]
    BY <1>1, <2>2 DEF Based
  <2> QED BY <2>1, <2>2
<1>3. (\A s \in Sessions : ~At(s, "save")') => \A s \in Sessions : ~At(s, "save")
  BY DEF At
<1>4. NotSaved(failed, HeadId) => NotSaved(failed', HeadId)
  BY DEF NotSaved, Remembers
<1>5. DiffBaseIsPrevious' /\ Boots'
  BY BasesKept DEF BaseInv, Boots
<1> QED BY <1>1, <1>2, <1>3, <1>4, <1>5 DEF BaseInv

LEMMA BaseHandler ==
  ASSUME Inv, BaseInv, NEW s \in Sessions,
         Locate(s) \/ MatchTestfiles(s) \/ Observe(s) \/ Close(s) \/ Measure(s)
  PROVE  BaseInv'
<1>0. /\ work[s] \in Handler /\ crashes' = crashes /\ TypeOK /\ Remembers
      /\ \A r \in Sessions \ {s} : work[r] = None /\ work'[r] = None
  BY StepAlone DEF HandlerStep, Inv
<1>1. /\ UNCHANGED <<chain, chainEnd, manifestHead>> /\ ~At(s, "save") /\ work[s] # None
  BY DEF Locate, MatchTestfiles, Observe, Close, Measure, disk, At
<1>2. \/ work'[s] = None
      \/ work'[s].pc \in {"match", "observe", "close", "measure"}
      \/ /\ work'[s].pc = "append" /\ work[s].pc = "locate"
         /\ work'[s].base = work[s].base /\ work'[s].id = work[s].id
  <2>1. \/ work'[s] = None
        \/ /\ work[s].pc = "locate"
           /\ work'[s] = [work[s] EXCEPT !.pc = "append", !.prev = HeadId, !.index = Len(chain)]
        \/ \E m \in BOOLEAN : work'[s] = [work[s] EXCEPT !.pc = "observe", !.match = m]
        \/ work'[s] = [work[s] EXCEPT !.pc = "close"]
        \/ work'[s] = [work[s] EXCEPT !.pc = "measure"]
    BY <1>0 DEF Locate, MatchTestfiles, Observe, Close, Measure, Throws, Finish, GoTo, TypeOK, At
  <2> QED BY <1>0, <2>1 DEF Handler
<1>3. work[s].pc = "locate" /\ chainEnd = "whole" /\ Fresh =>
        work[s].base = HeadState \/ NotSaved(failed', HeadId) \/ NotRead(failed', work[s].id)
  BY <1>0, <1>1 DEF BaseInv, Based, Remembers, NotSaved, NotRead
<1> QED BY <1>0, <1>1, <1>2, <1>3, BaseKept

LEMMA BaseCrash == Inv /\ BaseInv /\ Crash => BaseInv'
<1> SUFFICES ASSUME Inv, BaseInv, Crash PROVE BaseInv'
  OBVIOUS
<1>0. TypeOK /\ crashes \in Nat
  BY DEF Inv, TypeOK
<1>1. /\ crashes' = crashes + 1 /\ Remembers /\ \A s \in Sessions : work'[s] = None
      /\ \/ chain' = chain
         \/ \E s \in Sessions : At(s, "append") /\ CutLink(s)
  BY DEF Crash, Remembers
<1>2. DiffBaseIsPrevious' /\ \A i \in 1 .. Len(chain') : chain'[i].boot <= crashes
  <2>1. CASE chain' = chain
    BY <1>1, <2>1, BasesKept DEF BaseInv, Boots
  <2>2. ASSUME NEW s \in Sessions, At(s, "append"), chainEnd = "whole",
               chain' = Append(chain, NewLink(s))
        PROVE  DiffBaseIsPrevious' /\ \A i \in 1 .. Len(chain') : chain'[i].boot <= crashes
    BY <1>0, <1>1, <2>2, BaseLink
  <2> QED BY <1>1, <2>1, <2>2 DEF CutLink
<1>3. \A i \in 1 .. Len(chain') : chain'[i].boot \in Nat
  <2>1. \A i \in 1 .. Len(chain') : chain'[i] \in Link
    BY InvStep DEF Inv, TypeOK, Next
  <2> QED BY <2>1 DEF Link
<1>4. ~Fresh' /\ Boots'
  <2>1. chain' # <<>> => Len(chain') \in 1 .. Len(chain')
    BY InvStep DEF Inv, TypeOK, Next
  <2> QED BY <1>0, <1>1, <1>2, <1>3, <2>1 DEF Fresh, Boots
<1> QED BY <1>1, <1>2, <1>4 DEF BaseInv

LEMMA BaseStep == Inv /\ Inv' /\ BaseInv /\ [Next]_vars => BaseInv'
<1> SUFFICES ASSUME Inv, Inv', BaseInv, [Next]_vars PROVE BaseInv'
  OBVIOUS
<1>0. TypeOK /\ Len(chain) \in Nat /\ crashes \in Nat
  BY DEF Inv, TypeOK
<1>1. ASSUME NEW s \in Sessions, HandlerStep(s) PROVE BaseInv'
  BY <1>1, BaseAppend, BaseSave, BaseHandler DEF HandlerStep
<1>2. ASSUME NEW s \in Sessions, Handle(s) PROVE BaseInv'
  <2>1. /\ UNCHANGED <<disk, crashes>> /\ \A r \in Sessions : work[r] = None
        /\ Remembers
        /\ Unwalked(s) \/ \E h : Begun(s, h)
    BY <1>0, <1>2, HandleBegins
  <2>2. CASE Unwalked(s)
    BY <2>1, <2>2, BaseKept DEF Unwalked, disk
  <2>3. ASSUME NEW h, Begun(s, h) PROVE BaseInv'
    <3>1. \A r \in Sessions : ~At(r, "save")
      BY <2>1 DEF At
    <3>2. \A r \in Sessions : work'[r] = IF r = s THEN h ELSE None
      BY <1>0, <2>1, <2>3 DEF Begun, TypeOK
    <3>3. chainEnd = "whole" /\ Fresh =>
            DiffBase(h.cause, manifestHead) = HeadState \/ NotSaved(failed', HeadId)
      <4>1. HeadState \in Trees /\ HeadState # None
        BY <1>0, ReadTypes, TreesAssumption
      <4>2. chainEnd = "whole" /\ Fresh => manifestHead = HeadState \/ NotSaved(failed, HeadId)
        BY <3>1 DEF BaseInv
      <4>3. NotSaved(failed, HeadId) => NotSaved(failed', HeadId)
        BY <2>1 DEF NotSaved, Remembers
      <4> QED BY <4>1, <4>2, <4>3 DEF DiffBase
    <3>4. \/ h.pc = "match"
          \/ /\ h.pc = "locate"
             /\ h.base = DiffBase(h.cause, manifestHead) \/ NotRead(failed', h.id)
      BY <2>3 DEF Begun
    <3> QED BY <2>1, <3>1, <3>2, <3>3, <3>4, BaseKept DEF disk
  <2> QED BY <2>1, <2>2, <2>3
<1>3. ASSUME NEW s \in Sessions, Expire(s) PROVE BaseInv'
  BY <1>3, BaseKept DEF Expire, disk, counters, Remembers
<1>4. ASSUME NEW t \in Trees, EditTree(t) PROVE BaseInv'
  BY <1>4, BaseKept DEF EditTree, disk, Remembers
<1>5. CASE Crash
  BY <1>5, BaseCrash
<1>6. CASE UNCHANGED vars
  BY <1>6, BaseKept DEF vars, Remembers
<1> QED BY <1>1, <1>2, <1>3, <1>4, <1>5, <1>6 DEF Next

(* Within one run of the process every diff starts at the tree of the link  *)
(* before it, for any order of the events, any deaths of the process and    *)
(* any failures but the two that are named: the save of that link's         *)
(* manifest head, and the read of it by the handler of the link itself.     *)
THEOREM BaseCorrect == Spec => []DiffBaseIsPrevious
<1>1. Init => BaseInv
  BY DEF Init, BaseInv, Boots, DiffBaseIsPrevious, Fresh
<1>2. BaseInv => DiffBaseIsPrevious
  BY DEF BaseInv
<1> QED BY <1>1, <1>2, BaseStep, InvStep, Invariant, PTL DEF Spec

-----------------------------------------------------------------------------
(* The attach link comes first. *)

\* This run of the process has compared the tree with the chain for s.
Seen(s) == \E j \in 1 .. Len(chain) :
             chain[j].cause = "attach" /\ chain[j].sess = s /\ chain[j].boot = crashes

AttachUnderWay(s) ==
  work[s] # None /\ work[s].cause = "attach" /\ work[s].pc \in {"locate", "append"}

\* A session's own work on its way to the chain.
OwnLink(w) ==
  w # None /\ w.pc \in {"locate", "append"} /\ w.cause \in {"tool", "edited", "watcher"}

\* An attached session is checked or about to be, or its attach failed, or the
\* chain is torn and takes no link at all.
Checked ==
  /\ HeadCheckFirst
  /\ \A s \in attached : chainEnd = "torn" \/ Seen(s) \/ AttachUnderWay(s) \/ AttachFailed(s)
  /\ \A s \in Sessions : OwnLink(work[s]) => chainEnd = "torn" \/ Seen(s) \/ AttachFailed(s)

LEMMA ChecksKept ==
  ASSUME HeadCheckFirst, chain' = chain, Remembers
  PROVE  HeadCheckFirst'
BY DEF HeadCheckFirst, Remembers

\* A link added to the chain comes after its session's check, or is that check.
LEMMA CheckLink ==
  ASSUME TypeOK, Checked, NEW s \in Sessions, At(s, "append"), chainEnd # "torn",
         chain' = Append(chain, NewLink(s)), Remembers
  PROVE  /\ HeadCheckFirst'
         /\ crashes' = crashes => /\ \A r : Seen(r) => Seen(r)'
                                  /\ work[s].cause = "attach" => Seen(s)'
<1> DEFINE w == work[s]
           n == Len(chain)
           OK(c, F, i) == \/ \E j \in 1 .. i - 1 : /\ c[j].cause = "attach"
                                                   /\ c[j].sess = c[i].sess
                                                   /\ c[j].boot = c[i].boot
                          \/ \E f \in F : /\ f.cause = "attach"
                                          /\ f.step \in {"walk", "locate", "append"}
                                          /\ f.sess = c[i].sess /\ f.boot = c[i].boot
<1>1. w # None /\ w.pc = "append"
  BY DEF At
<1>3. /\ n \in Nat /\ Len(chain') = n + 1 /\ chain'[n + 1] = NewLink(s)
      /\ \A i \in 1 .. n : chain'[i] = chain[i]
  BY NewLinkLast
<1>4. NewLink(s).sess = s /\ NewLink(s).cause = w.cause /\ NewLink(s).boot = crashes
  BY DEF NewLink
<1>5. HeadCheckFirst'
  <2> SUFFICES ASSUME NEW i \in 1 .. n + 1, chain'[i].cause \in {"tool", "edited", "watcher"}
               PROVE  OK(chain', failed', i)
    BY <1>3 DEF HeadCheckFirst
  <2>1. CASE i \in 1 .. n
    <3>1. OK(chain, failed, i)
      BY <1>3, <2>1 DEF Checked, HeadCheckFirst
    <3>2. \A j \in 1 .. i : chain'[j] = chain[j]
      BY <1>3, <2>1
    <3>3. CASE \E j \in 1 .. i - 1 : /\ chain[j].cause = "attach"
                                     /\ chain[j].sess = chain[i].sess
                                     /\ chain[j].boot = chain[i].boot
      <4>1. PICK j \in 1 .. i - 1 : /\ chain[j].cause = "attach"
                                    /\ chain[j].sess = chain[i].sess
                                    /\ chain[j].boot = chain[i].boot
        BY <3>3
      <4>2. j \in 1 .. i /\ i \in 1 .. i
        BY <1>3, <2>1
      <4> QED BY <3>2, <4>1, <4>2
    <3>4. CASE \E f \in failed : /\ f.cause = "attach"
                                 /\ f.step \in {"walk", "locate", "append"}
                                 /\ f.sess = chain[i].sess /\ f.boot = chain[i].boot
      <4>1. chain'[i] = chain[i]
        BY <1>3, <2>1
      <4> QED BY <3>4, <4>1 DEF Remembers
    <3> QED BY <3>1, <3>3, <3>4
  <2>2. CASE i = n + 1
    <3>1. chain'[i] = NewLink(s)
      BY <1>3, <2>2
    <3>2. Seen(s) \/ AttachFailed(s)
      BY <1>1, <1>4, <2>2, <3>1 DEF Checked, OwnLink
    <3>3. CASE Seen(s)
      <4>1. PICK j \in 1 .. n :
              chain[j].cause = "attach" /\ chain[j].sess = s /\ chain[j].boot = crashes
        BY <3>3 DEF Seen
      <4>2. j \in 1 .. i - 1 /\ chain'[j] = chain[j]
        BY <1>3, <2>2
      <4> QED BY <1>4, <3>1, <4>1, <4>2
    <3>4. CASE AttachFailed(s)
      BY <1>4, <3>1, <3>4 DEF AttachFailed, Remembers
    <3> QED BY <3>2, <3>3, <3>4
  <2> QED BY <1>3, <2>1, <2>2
<1>6. crashes' = crashes => \A r : Seen(r) => Seen(r)'
  BY <1>3 DEF Seen
<1>7. crashes' = crashes /\ w.cause = "attach" => Seen(s)'
  <2>1. n + 1 \in 1 .. Len(chain')
    BY <1>3
  <2> QED BY <1>3, <1>4, <2>1 DEF Seen
<1> QED BY <1>5, <1>6, <1>7

LEMMA CheckAppend ==
  ASSUME Inv, Checked, NEW s \in Sessions, AppendLink(s)
  PROVE  Checked'
<1> DEFINE w == work[s]
<1>0. /\ w \in Handler /\ TypeOK /\ crashes' = crashes /\ attached' = attached /\ Remembers
      /\ \A r \in Sessions \ {s} : work[r] = None /\ work'[r] = None
      /\ attached \subseteq Sessions /\ BeforeLink(w)
  BY StepAlone DEF HandlerStep, Inv, TypeOK, HandlerFacts, AppendLink, At
<1>1. w # None /\ w.pc = "append" /\ At(s, "append") /\ chainEnd # "torn"
  BY <1>0 DEF AppendLink, At, BeforeLink
<1>2. /\ WriteLink(s) \/ CutLink(s)
      /\ chain' = chain \/ chain' = Append(chain, NewLink(s))
  BY DEF AppendLink, WriteLink, CutLink
<1>3. HeadCheckFirst' /\ \A r : Seen(r) => Seen(r)'
  <2>1. CASE chain' = chain
    BY <1>0, <2>1, ChecksKept DEF Checked, Seen
  <2>2. CASE chain' = Append(chain, NewLink(s))
    BY <1>0, <1>1, <2>2, CheckLink
  <2> QED BY <1>2, <2>1, <2>2
<1>4. work'[s] = None \/ work'[s].pc = "save"
  BY <1>0 DEF AppendLink, Throws, Finish, GoTo, TypeOK, Handler
<1>5. w.cause = "attach" => chainEnd' = "torn" \/ Seen(s)' \/ AttachFailed(s)'
  <2>1. CASE WriteLink(s)
    BY <1>0, <1>1, <2>1, CheckLink DEF WriteLink
  <2>2. CASE Throws(s, "append")
    BY <1>0, <2>2, FaultSays DEF Throws, FaultAt
  <2> QED BY <2>1, <2>2 DEF AppendLink
<1>6. ASSUME NEW r \in attached PROVE chainEnd' = "torn" \/ Seen(r)' \/ AttachFailed(r)'
  <2>1. Seen(r) \/ AttachUnderWay(r) \/ AttachFailed(r)
    BY <1>1, <1>6 DEF Checked
  <2>2. AttachUnderWay(r) => r = s /\ w.cause = "attach"
    BY <1>0, <1>6 DEF AttachUnderWay
  <2> QED BY <1>0, <1>3, <1>5, <2>1, <2>2, StillSays
<1> QED BY <1>0, <1>3, <1>4, <1>6 DEF Checked, OwnLink

\* Steps that leave the chain alone, and start no handler that needs a check
\* for a session that has none.
LEMMA CheckKept ==
  ASSUME Checked, UNCHANGED <<chain, crashes, chainEnd>>, Remembers,
         \A s \in attached' : \/ s \in attached /\ (AttachUnderWay(s) => AttachUnderWay(s)')
                              \/ chainEnd = "torn" \/ AttachUnderWay(s)' \/ AttachFailed(s)',
         \A s \in Sessions :
           OwnLink(work'[s]) => OwnLink(work[s]) \/ (s \in attached /\ work[s] = None)
  PROVE  Checked'
<1>1. \A s : Seen(s)' = Seen(s) /\ (AttachFailed(s) => AttachFailed(s)')
  BY StillSays DEF Seen
<1>2. HeadCheckFirst'
  BY ChecksKept DEF Checked
<1>3. \A s \in attached' : chainEnd = "torn" \/ Seen(s) \/ AttachUnderWay(s)' \/ AttachFailed(s)'
  BY <1>1 DEF Checked
<1>4. \A s \in attached : work[s] = None => chainEnd = "torn" \/ Seen(s) \/ AttachFailed(s)
  BY DEF Checked, AttachUnderWay
<1>5. \A s \in Sessions : OwnLink(work'[s]) => chainEnd = "torn" \/ Seen(s) \/ AttachFailed(s)
  BY <1>4 DEF Checked
<1>6. \A s \in Sessions : OwnLink(work[s])' = OwnLink(work'[s])
  BY DEF OwnLink
<1> QED BY <1>1, <1>2, <1>3, <1>5, <1>6 DEF Checked

LEMMA CheckHandler ==
  ASSUME Inv, Checked, NEW s \in Sessions,
         Locate(s) \/ SaveHead(s) \/ MatchTestfiles(s) \/ Observe(s) \/ Close(s) \/ Measure(s)
  PROVE  Checked'
<1>0. /\ work[s] \in Handler /\ crashes' = crashes /\ attached' = attached /\ TypeOK
      /\ \A r \in Sessions \ {s} : work[r] = None /\ work'[r] = None
      /\ attached \subseteq Sessions /\ Remembers
  BY StepAlone DEF HandlerStep, Inv, TypeOK
<1>1. chain' = chain /\ chainEnd' = chainEnd /\ work[s] # None
  BY DEF Locate, SaveHead, MatchTestfiles, Observe, Close, Measure, disk, At
<1>2. \A r \in Sessions : r # s => ~AttachUnderWay(r) /\ ~OwnLink(work'[r])
  BY <1>0 DEF AttachUnderWay, OwnLink
<1>3. CASE /\ work[s].pc = "locate"
           /\ work' = [work EXCEPT ![s] = [@ EXCEPT !.pc = "append", !.prev = HeadId,
                                                     !.index = Len(chain)]]
  <2>1. work'[s] = [work[s] EXCEPT !.pc = "append", !.prev = HeadId, !.index = Len(chain)]
    BY <1>0, <1>3 DEF TypeOK
  <2>2. work'[s].pc = "append" /\ work'[s].cause = work[s].cause /\ work'[s] \in Handler
    <3>1. HeadId \in 0 .. MaxEvents /\ Len(chain) \in Nat
      BY <1>0, ReadTypes DEF TypeOK
    <3> QED BY <1>0, <2>1, <3>1 DEF Handler
  <2>3. work'[s] # None
    BY <2>2, NoneAssumption
  <2>4. AttachUnderWay(s) => AttachUnderWay(s)'
    BY <2>2, <2>3 DEF AttachUnderWay
  <2>5. OwnLink(work'[s]) => OwnLink(work[s])
    BY <1>1, <1>3, <2>2 DEF OwnLink
  <2> QED BY <1>0, <1>1, <1>2, <2>4, <2>5, CheckKept
<1>4. CASE Finish(s) /\ (chainEnd = "torn" \/ Throws(s, "locate"))
  <2>1. work'[s] = None
    BY <1>0, <1>4 DEF Finish, TypeOK
  <2>2. AttachUnderWay(s) => chainEnd = "torn" \/ AttachFailed(s)'
    BY <1>0, <1>4, FaultSays DEF Throws, FaultAt, AttachUnderWay
  <2> QED BY <1>0, <1>1, <1>2, <2>1, <2>2, CheckKept DEF OwnLink
<1>5. CASE SaveHead(s) \/ MatchTestfiles(s) \/ Observe(s) \/ Close(s) \/ Measure(s)
  <2>1. work'[s] = None \/ work'[s].pc \in {"match", "observe", "close", "measure"}
    <3>1. \/ work'[s] = None
          \/ work'[s] = [work[s] EXCEPT !.pc = "match"]
          \/ \E m \in BOOLEAN : work'[s] = [work[s] EXCEPT !.pc = "observe", !.match = m]
          \/ work'[s] = [work[s] EXCEPT !.pc = "close"]
          \/ work'[s] = [work[s] EXCEPT !.pc = "measure"]
      BY <1>0, <1>5 DEF SaveHead, MatchTestfiles, Observe, Close, Measure, Throws, Finish, GoTo,
         TypeOK
    <3> QED BY <1>0, <3>1 DEF Handler
  <2>2. ~AttachUnderWay(s)
    BY <1>5 DEF AttachUnderWay, SaveHead, MatchTestfiles, Observe, Close, Measure, At
  <2>3. ~OwnLink(work'[s])
    BY <2>1 DEF OwnLink
  <2> QED BY <1>0, <1>1, <1>2, <2>2, <2>3, CheckKept
<1>6. CASE Locate(s)
  BY <1>3, <1>4, <1>6 DEF Locate, Throws, At
<1> QED BY <1>5, <1>6

LEMMA CheckStep == Inv /\ Inv' /\ Checked /\ [Next]_vars => Checked'
<1> SUFFICES ASSUME Inv, Inv', Checked, [Next]_vars PROVE Checked'
  OBVIOUS
<1>0. TypeOK /\ attached \subseteq Sessions
  BY DEF Inv, TypeOK
<1>1. ASSUME NEW s \in Sessions, HandlerStep(s) PROVE Checked'
  BY <1>1, CheckAppend, CheckHandler DEF HandlerStep
<1>2. ASSUME NEW s \in Sessions, Handle(s) PROVE Checked'
  <2>1. /\ UNCHANGED <<disk, crashes>> /\ Remembers
        /\ \A r \in Sessions : work[r] = None
        /\ Unwalked(s) \/ \E h : Begun(s, h)
    BY <1>0, <1>2, HandleBegins
  <2>2. \A r \in Sessions : ~AttachUnderWay(r)
    BY <2>1 DEF AttachUnderWay
  <2>3. CASE Unwalked(s)
    <3>1. \A r \in attached' : r \in attached \/ chainEnd = "torn" \/ AttachFailed(r)'
      BY <1>0, <2>3 DEF Unwalked
    <3>2. work' = work
      BY <2>3 DEF Unwalked
    <3> QED BY <1>0, <2>1, <2>2, <2>3, <3>1, <3>2, CheckKept DEF disk, Unwalked
  <2>4. ASSUME NEW h, Begun(s, h) PROVE Checked'
    <3>1. \A r \in Sessions : work'[r] = IF r = s THEN h ELSE None
      BY <1>0, <2>1, <2>4 DEF Begun, TypeOK
    <3>2. \/ h.pc = "match" /\ attached' = attached
          \/ h.pc = "locate" /\ attached' = attached
             /\ (h.cause \in {"tool", "edited", "watcher"} => s \in attached)
          \/ /\ h # None /\ h.pc = "locate" /\ h.cause = "attach"
             /\ attached' = attached \cup {s}
      BY <2>4 DEF Begun
    <3>3. \A r \in attached' : r \in attached \/ AttachUnderWay(r)'
      BY <3>1, <3>2 DEF AttachUnderWay
    <3>4. \A r \in Sessions : OwnLink(work'[r]) => r \in attached /\ work[r] = None
      BY <2>1, <3>1, <3>2 DEF OwnLink
    <3> QED BY <1>0, <2>1, <2>2, <3>3, <3>4, CheckKept DEF disk
  <2> QED BY <2>1, <2>3, <2>4
<1>3. ASSUME NEW s \in Sessions, Expire(s) PROVE Checked'
  BY <1>0, <1>3, CheckKept DEF Expire, disk, counters, AttachUnderWay, Remembers
<1>4. ASSUME NEW t \in Trees, EditTree(t) PROVE Checked'
  BY <1>0, <1>4, CheckKept DEF EditTree, disk, memory, AttachUnderWay, Remembers
<1>5. CASE Crash
  <2>1. /\ attached' = {} /\ Remembers /\ \A s \in Sessions : work'[s] = None
    BY <1>5 DEF Crash, Remembers
  <2>2. ASSUME NEW s \in Sessions, At(s, "append"), CutLink(s) PROVE HeadCheckFirst'
    <3>1. CASE chain' = chain
      BY <2>1, <3>1, ChecksKept DEF Checked
    <3>2. CASE chainEnd = "whole" /\ chain' = Append(chain, NewLink(s))
      BY <1>0, <2>1, <2>2, <3>2, CheckLink
    <3> QED BY <2>2, <3>1, <3>2 DEF CutLink
  <2>3. HeadCheckFirst'
    BY <1>5, <2>1, <2>2, ChecksKept DEF Crash, Checked
  <2> QED BY <2>1, <2>3 DEF Checked, OwnLink
<1>6. CASE UNCHANGED vars
  BY <1>0, <1>6, CheckKept DEF vars, AttachUnderWay, Remembers
<1> QED BY <1>1, <1>2, <1>3, <1>4, <1>5, <1>6 DEF Next

(* No session's work reaches the chain before the link that compared the    *)
(* tree with it in the same run of the process, whatever the order of the   *)
(* events, the deaths and the failures - unless the attach itself failed    *)
(* between attaching the session and writing that link.                     *)
THEOREM HeadCheckCorrect == Spec => []HeadCheckFirst
<1>1. Init => Checked
  BY DEF Init, Checked, HeadCheckFirst, OwnLink
<1>2. Checked => HeadCheckFirst
  BY DEF Checked
<1> QED BY <1>1, <1>2, CheckStep, InvStep, Invariant, PTL DEF Spec

-----------------------------------------------------------------------------
(* GstvClose. *)

\* Nothing is awaited before the measurement begins or after it ends, and its
\* first row is the first of the snapshot it is yet to take.
CloseStages ==
  /\ pc \in {"idle", "done", "failed", "gone"} => waiting = Nothing
  /\ pc \in {"idle", "predicate"} => next = 1

\* A receipt it was told of is on disk; one it was not told of, on disk or under way,
\* is disclosed, unless it still waits for it.
Accounts ==
  /\ cited \subseteq receipts
  /\ receipts \ cited \subseteq gaps
  /\ inflight \ {waiting} \subseteq gaps

\* What the unlock record says of the receipts: it was written last, when nothing was
\* awaited, so writers that are late find their receipts disclosed in it.
RecordHolds ==
  unlockRecord # Nothing =>
    /\ pc \in {"done", "gone"}
    /\ unlockRecord.cited \subseteq receipts
    /\ receipts \ unlockRecord.cited \subseteq unlockRecord.gaps
    /\ inflight \subseteq unlockRecord.gaps
    /\ unlockRecord.tier = "T1" => Predicate \in unlockRecord.cited

CloseInv == CloseTypeOK /\ CloseStages /\ Accounts /\ RecordHolds

\* The rows of an extraction request.
LEMMA RowsNowType ==
  ASSUME outcome \in [Episodes -> Outcomes \cup {"absent"}]
  PROVE  RowsNow \in Seq(Row)
<1> DEFINE S == {e \in Episodes : outcome[e] # "absent"}
           n == Cardinality(S)
<1>1. IsFiniteSet(S)
  BY EpisodesAssumption, FS_Subset
<1>2. n \in Nat /\ \E f : f \in Bijection(1 .. n, S)
  BY <1>1, FS_CardinalityType DEF ExistsBijection
<1>3. \E f \in [1 .. n -> S] : IsInjective(f)
  BY <1>2 DEF Bijection, Injection, Surjection, IsInjective
<1>4. SetToSeq(S) \in [1 .. n -> S]
  BY <1>3 DEF SetToSeq
<1>5. SetToSeq(S) \in Seq(S) /\ Len(SetToSeq(S)) = n
  BY <1>2, <1>4
<1>6. \A e \in S : outcome[e] \in Outcomes /\ e \in Episodes
  OBVIOUS
<1> HIDE DEF n, S
<1> DEFINE eps == SetToSeq(S)
<1>7. [i \in 1 .. Len(eps) |-> [ep |-> eps[i], outcome |-> outcome[eps[i]]]] \in [1 .. n -> Row]
  BY <1>4, <1>5, <1>6 DEF Row
<1>8. RowsNow = [i \in 1 .. Len(eps) |-> [ep |-> eps[i], outcome |-> outcome[eps[i]]]]
  BY DEF RowsNow, S
<1> QED BY <1>2, <1>7, <1>8

LEMMA CloseInvInit == CloseInit => CloseInv
<1> SUFFICES ASSUME CloseInit PROVE CloseInv
  OBVIOUS
<1>1. /\ outcome \in [Episodes -> Outcomes \cup {"absent"}] /\ batches = {}
      /\ index = <<>> /\ snapshot = <<>> /\ next = 1
  BY DEF CloseInit
<1>2. index \in Seq(Row) /\ snapshot \in Seq(Row) /\ next \in 1 .. Len(snapshot) + 1
  BY <1>1
<1>3. CloseTypeOK
  <2>1. waiting \in inflight \cup {Nothing} /\ unasked \subseteq inflight
    BY DEF CloseInit
  <2>2. {inflight, receipts, cited} \subseteq SUBSET Receipts /\ gaps \subseteq Receipts \cup {NoManifest}
    BY DEF CloseInit
  <2>3. pc \in {"idle", "predicate", "rows", "done", "failed", "gone"} /\ prompt \in BOOLEAN
    BY DEF CloseInit
  <2>4. extracts \in 0 .. MaxExtracts /\ faults \in 0 .. MaxFaults /\ unlockRecord = Nothing
    BY CloseBoundsAssumption DEF CloseInit
  <2> QED BY <1>1, <1>2, <2>1, <2>2, <2>3, <2>4 DEF CloseTypeOK
<1>4. CloseStages /\ Accounts /\ RecordHolds
  BY DEF CloseInit, CloseStages, Accounts, RecordHolds
<1> QED BY <1>3, <1>4 DEF CloseInv

\* What the measurement and the session's requests leave alone.
LEMMA SessionStep ==
  ASSUME CloseInv, Session
  PROVE  CloseInv'
<1>1. UNCHANGED <<measureVars, receipts, unlockRecord, faults>>
  BY DEF Session, BeginExtract, AppendRows, Progress
<1>2. CASE BeginExtract
  <2>1. \A b \in batches' : b.request \in 1 .. MaxExtracts /\ b.rows \in Seq(Row)
    <3>1. RowsNow \in Seq(Row)
      BY RowsNowType DEF CloseInv, CloseTypeOK
    <3> DEFINE b == [request |-> extracts + 1, rows |-> RowsNow]
    <3>2. b.request \in 1 .. MaxExtracts /\ b.rows \in Seq(Row)
      BY <1>2, <3>1, CloseBoundsAssumption DEF BeginExtract, CloseInv, CloseTypeOK
    <3>3. batches' \subseteq batches \cup {b}
      BY <1>2 DEF BeginExtract
    <3> QED BY <3>2, <3>3 DEF CloseInv, CloseTypeOK
  <2>2. UNCHANGED <<outcome, index>> /\ extracts' \in 0 .. MaxExtracts
    BY <1>2, CloseBoundsAssumption DEF BeginExtract, CloseInv, CloseTypeOK
  <2> QED BY <1>1, <2>1, <2>2
          DEF CloseInv, CloseTypeOK, CloseStages, Accounts, RecordHolds, measureVars
<1>3. CASE AppendRows
  <2>1. PICK b \in batches : index' = index \o b.rows /\ batches' = batches \ {b}
    BY <1>3 DEF AppendRows, AppendedTo
  <2>2. index' \in Seq(Row)
    BY <2>1 DEF CloseInv, CloseTypeOK
  <2>3. UNCHANGED <<outcome, extracts>>
    BY <1>3 DEF AppendRows
  <2> QED BY <1>1, <2>1, <2>2, <2>3
          DEF CloseInv, CloseTypeOK, CloseStages, Accounts, RecordHolds, measureVars
<1>4. CASE \E e \in Episodes : Progress(e)
  <2>1. outcome' \in [Episodes -> Outcomes \cup {"absent"}] /\ UNCHANGED <<batches, index, extracts>>
    BY <1>4 DEF Progress, CloseInv, CloseTypeOK, Outcomes
  <2> QED BY <1>1, <2>1
          DEF CloseInv, CloseTypeOK, CloseStages, Accounts, RecordHolds, measureVars
<1> QED BY <1>2, <1>3, <1>4 DEF Session

\* A writer that settles: what it says counts only while it is awaited.
LEMMA WritersStep ==
  ASSUME CloseInv, Writers
  PROVE  CloseInv'
<1>0. CASE Answered
  BY <1>0 DEF Answered, CloseInv, CloseTypeOK, CloseStages, Accounts, RecordHolds
<1> SUFFICES ASSUME ~Answered PROVE CloseInv'
  BY <1>0
<1>1. PICK r \in inflight : LooksUp(r) \/ Lands(r) \/ Fails(r)
  BY DEF Writers
<1>2. r \in Receipts /\ r # Nothing
  BY <1>1, NothingAssumption DEF CloseInv, CloseTypeOK
<1>3. CASE Lands(r)
  <2>1. CloseTypeOK'
    BY <1>2, <1>3 DEF Lands, WaitingAfter, CloseInv, CloseTypeOK
  <2>2. CloseStages' /\ Accounts'
    BY <1>2, <1>3 DEF Lands, WaitingAfter, CloseInv, CloseTypeOK, CloseStages, Accounts
  <2>3. RecordHolds'
    BY <1>2, <1>3 DEF Lands, WaitingAfter, CloseInv, RecordHolds
  <2> QED BY <2>1, <2>2, <2>3 DEF CloseInv
<1>4. CASE Fails(r)
  <2>1. CloseTypeOK'
    BY <1>2, <1>4, CloseBoundsAssumption DEF Fails, CloseFault, WaitingAfter, CloseInv, CloseTypeOK
  <2>2. CloseStages' /\ Accounts'
    BY <1>2, <1>4 DEF Fails, WaitingAfter, CloseInv, CloseTypeOK, CloseStages, Accounts
  <2>3. RecordHolds'
    BY <1>4 DEF Fails, CloseInv, RecordHolds
  <2> QED BY <2>1, <2>2, <2>3 DEF CloseInv
<1>5. CASE LooksUp(r)
  BY <1>5 DEF LooksUp, CloseInv, CloseTypeOK, CloseStages, Accounts, RecordHolds
<1> QED BY <1>1, <1>3, <1>4, <1>5

\* The measurement goes on: it starts writers only when it awaits none, and writes the
\* record last.
LEMMA MeasurementStep ==
  ASSUME CloseInv, Measurement
  PROVE  CloseInv'
<1>1. CASE BeginMeasure
  <2>1. Predicate \in Receipts
    BY DEF Receipts
  <2>2. CASE Await(Predicate) /\ UNCHANGED <<gaps, faults>>
    BY <1>1, <2>1, <2>2, NothingAssumption
       DEF BeginMeasure, Await, CloseInv, CloseTypeOK, CloseStages, Accounts, RecordHolds
  <2>3. CASE CloseFault /\ gaps' = gaps \cup {Predicate} /\ UNCHANGED <<waiting, inflight, unasked>>
    BY <1>1, <2>1, <2>3, CloseBoundsAssumption
       DEF BeginMeasure, CloseFault, CloseInv, CloseTypeOK, CloseStages, Accounts, RecordHolds
  <2> QED BY <1>1, <2>2, <2>3 DEF BeginMeasure
<1>2. CASE LoadEpisodes
  <2>1. /\ snapshot' \in Seq(Row) /\ next' \in 1 .. Len(snapshot') + 1
        /\ pc' \in {"rows", "failed"} /\ gaps \subseteq gaps' /\ gaps' \subseteq gaps \cup {NoManifest}
    BY <1>2 DEF LoadEpisodes, CloseInv, CloseTypeOK, CloseStages
  <2>2. faults' \in 0 .. MaxFaults
    BY <1>2, CloseBoundsAssumption DEF LoadEpisodes, CloseFault, CloseInv, CloseTypeOK
  <2>3. /\ UNCHANGED <<outcome, batches, index, waiting, inflight, unasked, prompt, receipts, cited,
                       unlockRecord, extracts>>
        /\ pc = "predicate" /\ waiting = Nothing
    BY <1>2 DEF LoadEpisodes
  <2>4. CloseTypeOK'
    BY <2>1, <2>2, <2>3 DEF CloseInv, CloseTypeOK
  <2> QED BY <2>1, <2>3, <2>4 DEF CloseInv, CloseStages, Accounts, RecordHolds
<1>3. CASE ConsiderRow
  <2>1. Negative(next) \in Receipts
    BY DEF Receipts, Negative, CloseInv, CloseTypeOK
  <2>2. Nothing \notin inflight /\ waiting = Nothing
    BY <1>3, NothingAssumption DEF ConsiderRow, CloseInv, CloseTypeOK
  <2>3. /\ inflight' \subseteq inflight \cup {waiting'}
        /\ inflight \subseteq inflight' /\ waiting' \in inflight' \cup {Nothing}
        /\ inflight' \subseteq Receipts /\ unasked' \subseteq inflight'
    BY <1>3, <2>1, <2>2 DEF ConsiderRow, Await, CloseInv, CloseTypeOK
  <2>4. UNCHANGED <<outcome, batches, index, pc, prompt, receipts, cited, gaps, snapshot,
                    unlockRecord, extracts, faults>>
        /\ pc = "rows" /\ next' = next + 1 /\ next <= Len(snapshot)
    BY <1>3 DEF ConsiderRow
  <2>5. CloseTypeOK'
    BY <2>3, <2>4 DEF CloseInv, CloseTypeOK
  <2> QED BY <2>2, <2>3, <2>4, <2>5 DEF CloseInv, CloseStages, Accounts, RecordHolds
<1>4. CASE WriteUnlock
  <2>1. CloseTypeOK'
    BY <1>4, CloseBoundsAssumption DEF WriteUnlock, CloseFault, CloseInv, CloseTypeOK
  <2>2. CloseStages' /\ Accounts'
    BY <1>4 DEF WriteUnlock, CloseInv, CloseStages, Accounts
  <2>3. inflight \subseteq gaps
    BY <1>4, NothingAssumption DEF WriteUnlock, CloseInv, CloseTypeOK, Accounts
  <2>4. RecordHolds'
    BY <1>4, <2>3 DEF WriteUnlock, CloseInv, Accounts, RecordHolds
  <2> QED BY <2>1, <2>2, <2>4 DEF CloseInv
<1> QED BY <1>1, <1>2, <1>3, <1>4 DEF Measurement

LEMMA CloseInvNext == CloseInv /\ [CloseNext]_closeVars => CloseInv'
<1> SUFFICES ASSUME CloseInv, [CloseNext]_closeVars PROVE CloseInv'
  OBVIOUS
<1>1. CASE Session
  BY <1>1, SessionStep
<1>2. CASE Writers
  BY <1>2, WritersStep
<1>3. CASE Measurement
  BY <1>3, MeasurementStep
<1>4. CASE TimesOut
  BY <1>4 DEF TimesOut, CanTimeOut, GapsOnTimeout, CitedOnTimeout,
              CloseInv, CloseTypeOK, CloseStages, Accounts, RecordHolds
<1>5. CASE Dies
  BY <1>5 DEF Dies, CloseInv, CloseTypeOK, CloseStages, Accounts, RecordHolds
<1>6. CASE UNCHANGED closeVars
  BY <1>6 DEF closeVars, CloseInv, CloseTypeOK, CloseStages, Accounts, RecordHolds
<1> QED BY <1>1, <1>2, <1>3, <1>4, <1>5, <1>6 DEF CloseNext

\* The inductive invariant of the measurement, for any episodes, requests and failures.
THEOREM CloseInvariant == CloseSpec => []CloseInv
  BY CloseInvInit, CloseInvNext, PTL DEF CloseSpec

\* The variables of a measurement hold what runCloseMeasurement and its receipt writers can
\* hold.
THEOREM CloseTypeCorrect == CloseSpec => []CloseTypeOK
<1>1. CloseInv => CloseTypeOK
  BY DEF CloseInv
<1> QED BY CloseInvariant, <1>1, PTL

\* An unlock record cites only receipts that are on disk, and has tier T1 only with the
\* predicate's, however late or failing the writers of receipts are.
THEOREM ReceiptsBackTheRecord == CloseSpec => []CitedReceiptsExist
<1>1. CloseInv => CitedReceiptsExist
  BY DEF CloseInv, RecordHolds, CitedReceiptsExist
<1> QED BY CloseInvariant, <1>1, PTL

\* A receipt on disk that the unlock record does not cite is disclosed among its gaps,
\* whether it was there when the record was written or came later: a timeout hides none.
THEOREM LateReceiptsDisclosed == CloseSpec => []OrphansAreDisclosed
<1>1. CloseInv => OrphansAreDisclosed
  BY DEF CloseInv, RecordHolds, OrphansAreDisclosed
<1> QED BY CloseInvariant, <1>1, PTL

=============================================================================
