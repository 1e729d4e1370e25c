----------------------------- MODULE GstvEngine -----------------------------
(***************************************************************************)
(* The engine that keeps one goal's chain, observations and close record.  *)
(*                                                                         *)
(* Spool events are handled one at a time on GstvEngine.queue (src/gstv/   *)
(* engine.ts).  A handler walks the working tree, appends a link to        *)
(* chain.jsonl, rewrites manifest-head.json (the base of the next diff)    *)
(* and, for a predicate run, appends to observations.jsonl; the first      *)
(* green observation whose predicate files are still the sealed ones       *)
(* closes the goal and triggers the measurement that unlocks extraction.   *)
(* Meanwhile editors change the tree, the process may die between any two  *)
(* writes or in the middle of an append, and a read or a write may fail:   *)
(* ingest catches the error, the handler is over, and the same process     *)
(* goes on to the next event.                                              *)
(*                                                                         *)
(* A working tree is a member of Trees; those in SealedTrees have the      *)
(* predicate files the seal recorded.  An event is numbered when its       *)
(* handler starts; the number stands for its timestamp and for the hash of *)
(* the link it appends (the hash covers the timestamp).                    *)
(***************************************************************************)
EXTENDS Integers, Sequences, FiniteSets

CONSTANTS
  Sessions,       \* agent sessions
  Trees,          \* manifest hashes of the working tree (walk-v1)
  SealedTrees,    \* those whose predicate files match the seal
  Tree0,          \* seal.state0_hash
  None,           \* an absent file or value
  MaxEvents,      \* bounds: events that start a handler,
  MaxEdits,       \*   changes of the tree,
  MaxMishaps      \*   deaths of the process and failing reads and writes, together

ASSUME SessionsAssumption == IsFiniteSet(Sessions)
ASSUME TreesAssumption ==
  /\ SealedTrees \subseteq Trees /\ Tree0 \in SealedTrees /\ None \notin Trees
ASSUME BoundsAssumption ==
  /\ MaxEvents \in Nat /\ MaxEdits \in Nat /\ MaxMishaps \in Nat

VARIABLES
  tree,           \* the working tree as it is now
  chain,          \* chain.jsonl: sequence of links
  chainEnd,       \* how the file ends: a member of Endings
  manifestHead,   \* manifest-head.json: the tree it lists, or None
  obs,            \* observations.jsonl
  obsEnd,         \* how the file ends
  closed,         \* closed.json: the close record, or None
  unlock,         \* extraction-unlock.json, or None
  attached,       \* GstvEngine.attachments: the sessions attached to the goal
  recentTool, recentEdit, \* sessions whose last tool call, edit is recent
  work,           \* [Sessions -> handler state]
  failed,         \* history: the reads and writes that failed
  events, edits, crashes \* counters for the bounds

disk     == <<chain, chainEnd, manifestHead, obs, obsEnd, closed, unlock>>
memory   == <<attached, recentTool, recentEdit>>
counters == <<events, edits, crashes>>
vars     == <<tree, chain, chainEnd, manifestHead, obs, obsEnd, closed, unlock,
              attached, recentTool, recentEdit, work, failed, events, edits, crashes>>

Causes == {"attach", "tool", "boundary", "edited", "watcher"}
Exits  == {"zero", "other"}   \* other: non-zero, or no exit code at all
Ids    == 1 .. MaxEvents
Link   == [id : Ids, prev : 0 .. MaxEvents, index : Nat, state : Trees,
           base : Trees \cup {None}, sess : Sessions, cause : Causes,
           kind : {"state", "gap"}, boot : Nat]
Observation == [id : Ids, sess : Sessions, source : {"tool", "command", "boundary"},
                exit : Exits, state : Trees, match : BOOLEAN]

\* A handler between two of its writes.  `run` says that it observes the predicate.
Handler == [pc : {"locate", "append", "save", "match", "observe", "close", "measure"},
            id : Ids, cause : Causes \cup {"command"}, run : BOOLEAN, exit : Exits,
            tree : Trees, base : Trees \cup {None}, kind : {"state", "gap"},
            prev : 0 .. MaxEvents, index : Nat, match : BOOLEAN]

\* The last line is whole, lacks only its newline, or cannot be parsed.
Endings == {"whole", "open", "torn"}

\* The handler `id` of session `sess` failed at this step.
Failure == [id : Ids, sess : Sessions, boot : Nat, cause : Causes \cup {"command"},
            step : {"walk", "read", "locate", "append", "save", "match", "observe",
                    "close", "count", "measure"}]

CloseRecords  == [id : Ids, attempts : Nat \ {0}, links : Nat, gaps : Nat,
                  sessions : Nat \ {0}, reds : Nat]
UnlockRecords == [head : 0 .. MaxEvents, links : Int, gaps : Nat, unread : SUBSET {"links", "head"}]

ASSUME NoneAssumption == None \notin Handler \cup CloseRecords \cup UnlockRecords

-----------------------------------------------------------------------------
(* What the files say.                                                     *)

HeadState == IF chain = <<>> THEN Tree0 ELSE chain[Len(chain)].state
HeadId    == IF chain = <<>> THEN 0 ELSE chain[Len(chain)].id

\* What the handler starting now makes of the tree: attach compares it with the
\* chain's head; a missing base means "all files added".
LinkKind_ManifestHead(cause) ==
  LET recorded == IF manifestHead = None THEN HeadState ELSE manifestHead
  IN IF cause = "watcher" \/ (cause = "attach" /\ tree # recorded) THEN "gap" ELSE "state"
LinkKind(cause) ==
  IF cause = "watcher" \/ (cause = "attach" /\ tree # HeadState)
  THEN "gap" ELSE "state"
DiffBase(cause, recorded) ==
  IF recorded = None /\ cause = "attach" /\ tree = HeadState
  THEN tree ELSE recorded

\* D-GSTV-PREDICATE-DEFAULT: exit 0 against the sealed predicate files.
ShouldClose_AnyFiles(w) == w.exit = "zero"
ShouldClose_BoundaryOnly(w) == w.exit = "zero" /\ w.match /\ w.cause = "boundary"
ShouldClose(w) == w.exit = "zero" /\ w.match

AlreadyClosed == closed # None

-----------------------------------------------------------------------------
Init ==
  /\ tree \in Trees
  /\ chain = <<>> /\ chainEnd = "whole" /\ manifestHead = None
  /\ obs = <<>> /\ obsEnd = "whole"
  /\ closed = None /\ unlock = None
  /\ attached = {} /\ recentTool = {} /\ recentEdit = {}
  /\ work = [s \in Sessions |-> None]
  /\ failed = {} /\ events = 0 /\ edits = 0 /\ crashes = 0

Busy(s) == work[s] # None
At(s, pc) == work[s] # None /\ work[s].pc = pc
Finish(s)   == work' = [work EXCEPT ![s] = None]
GoTo(s, pc) == work' = [work EXCEPT ![s] = [@ EXCEPT !.pc = pc]]

Mishaps == crashes + Cardinality(failed)

\* A step of a handler fails, with or without ending the handler.
Fault(id, s, cause, step) ==
  /\ Mishaps < MaxMishaps
  /\ failed' = failed \cup {[id |-> id, sess |-> s, boot |-> crashes, cause |-> cause, step |-> step]}
FaultAt(s, step) == Fault(work[s].id, s, work[s].cause, step)

\* It throws: ingest logs the error, and the handler is over.
Throws(s, step) == FaultAt(s, step) /\ Finish(s)

\* One promise queue: a handler starts when the one before has finished.
QueueFree_EachSession(s) == ~Busy(s)
QueueFree_DetachedMeasure(s) == \A r \in Sessions : Busy(r) => At(r, "measure") /\ r # s
QueueFree(s) == \A r \in Sessions : ~Busy(r)

\* getAttachedGoal: the events of a session not attached are dropped.
HasGoal_Always(s) == TRUE
HasGoal(s) == s \in attached

\* The next event reaches its handler.
NextEvent(s) ==
  /\ QueueFree(s) /\ events < MaxEvents
  /\ events' = events + 1

\* The handler walks the tree and notes the base of the diff; the link is next.
WalkedFor(cause, run, exit, recorded) ==
  [pc |-> "locate", id |-> events + 1, cause |-> cause, run |-> run, exit |-> exit,
   tree |-> tree, base |-> DiffBase(cause, recorded), kind |-> LinkKind(cause),
   prev |-> 0, index |-> 0, match |-> FALSE]

\* A manifest head that cannot be read counts as absent; a walk that throws (a
\* file vanishes under lstat) ends the handler.
Walk(s, cause, run, exit) ==
  \/ /\ work' = [work EXCEPT ![s] = WalkedFor(cause, run, exit, manifestHead)]
     /\ UNCHANGED failed
  \/ /\ manifestHead # None /\ Fault(events + 1, s, cause, "read")
     /\ work' = [work EXCEPT ![s] = WalkedFor(cause, run, exit, None)]
  \/ Fault(events + 1, s, cause, "walk") /\ UNCHANGED work

\* attachFlow: the session is attached before the head is read or the tree walked.
Attach(s) ==
  /\ NextEvent(s)
  /\ attached' = attached \cup {s}
  /\ IF chainEnd = "torn" THEN UNCHANGED <<work, failed>> ELSE Walk(s, "attach", FALSE, "other")
  /\ UNCHANGED <<tree, disk, recentTool, recentEdit, edits, crashes>>

\* tool.execute.after; `sealed` says that the tool string is the sealed command.
ToolAfter(s, sealed, exit) ==
  /\ NextEvent(s) /\ HasGoal(s)
  /\ sealed \/ exit = "other"
  /\ Walk(s, "tool", sealed, exit)
  /\ UNCHANGED <<tree, disk, memory, edits, crashes>>

\* command.executed with the sealed command: no link, and no exit code to observe.
CommandExecuted(s) ==
  /\ NextEvent(s) /\ HasGoal(s)
  /\ work' = [work EXCEPT ![s] = [WalkedFor("command", TRUE, "other", None) EXCEPT !.pc = "match"]]
  /\ UNCHANGED <<tree, disk, memory, failed, edits, crashes>>

\* gstv.boundary.run names its goal: the session need not be attached.
BoundaryRun(s, exit) ==
  /\ NextEvent(s)
  /\ Walk(s, "boundary", TRUE, exit)
  /\ UNCHANGED <<tree, disk, memory, edits, crashes>>

\* file.edited just after a tool call is left to the tool's link.
FileEditedSkipped(s) ==
  /\ NextEvent(s) /\ HasGoal(s) /\ s \in recentTool
  /\ recentEdit' = recentEdit \cup {s}
  /\ UNCHANGED <<tree, disk, attached, recentTool, work, failed, edits, crashes>>

FileEdited(s) ==
  /\ NextEvent(s) /\ HasGoal(s) /\ s \notin recentTool
  /\ Walk(s, "edited", FALSE, "other")
  /\ UNCHANGED <<tree, disk, memory, edits, crashes>>

\* file.watcher.updated that neither a tool call nor an edit explains is a gap.
WatcherUpdated(s) ==
  /\ NextEvent(s) /\ HasGoal(s) /\ s \notin recentTool \cup recentEdit
  /\ Walk(s, "watcher", FALSE, "other")
  /\ UNCHANGED <<tree, disk, memory, edits, crashes>>

\* appendLink reads the chain for the place of the new link; a torn chain throws.
Locate(s) ==
  /\ At(s, "locate")
  /\ \/ chainEnd = "torn" /\ Finish(s) /\ UNCHANGED failed
     \/ /\ chainEnd # "torn" /\ UNCHANGED failed
        /\ work' = [work EXCEPT ![s] = [@ EXCEPT !.pc = "append", !.prev = HeadId,
                                                 !.index = Len(chain)]]
     \/ Throws(s, "locate")
  /\ UNCHANGED <<tree, disk, memory, counters>>

NewLink(s) ==
  [id |-> work[s].id, prev |-> work[s].prev, index |-> work[s].index,
   state |-> work[s].tree, base |-> work[s].base, sess |-> s,
   cause |-> work[s].cause, kind |-> work[s].kind, boot |-> crashes]

\* A line appended to one that lacks its newline spoils both.
WriteLink(s) ==
  IF chainEnd = "open" THEN chainEnd' = "torn" /\ UNCHANGED chain
  ELSE chain' = Append(chain, NewLink(s)) /\ UNCHANGED chainEnd

\* An append cut short leaves nothing, part of the line, or all but its newline.
CutLink(s) ==
  \/ UNCHANGED <<chain, chainEnd>>
  \/ chainEnd' = "torn" /\ UNCHANGED chain
  \/ chainEnd = "whole" /\ chainEnd' = "open" /\ chain' = Append(chain, NewLink(s))

AppendLink(s) ==
  /\ At(s, "append")
  /\ \/ WriteLink(s) /\ GoTo(s, "save") /\ UNCHANGED failed
     \/ CutLink(s) /\ Throws(s, "append")
  /\ UNCHANGED <<tree, manifestHead, obs, obsEnd, closed, unlock, memory, counters>>

SavedHead_StateLinksOnly(s) == IF work[s].kind = "state" THEN work[s].tree ELSE manifestHead
SavedHead(s) == work[s].tree

\* writeManifestHead, then the correlation entry, then the observation if any.
SaveHead(s) ==
  /\ At(s, "save")
  /\ \/ /\ manifestHead' = SavedHead(s) /\ UNCHANGED failed
        /\ recentTool' = IF work[s].cause = "tool" THEN recentTool \cup {s} ELSE recentTool
        /\ recentEdit' = IF work[s].cause = "edited" THEN recentEdit \cup {s} ELSE recentEdit
        /\ IF work[s].run THEN GoTo(s, "match") ELSE Finish(s)
     \/ Throws(s, "save") /\ UNCHANGED <<manifestHead, recentTool, recentEdit>>
  /\ UNCHANGED <<tree, chain, chainEnd, obs, obsEnd, closed, unlock, attached, counters>>

\* observePredicate hashes the predicate files first; one it cannot read is no match.
MatchTestfiles(s) ==
  /\ At(s, "match")
  /\ \E match \in BOOLEAN :
       /\ work' = [work EXCEPT ![s] = [@ EXCEPT !.pc = "observe", !.match = match]]
       /\ \/ match = (tree \in SealedTrees) /\ UNCHANGED failed
          \/ match = FALSE /\ FaultAt(s, "match")
  /\ UNCHANGED <<tree, disk, memory, counters>>

SeenNow(s) == [id |-> work[s].id, sess |-> s, source |-> work[s].cause,
               exit |-> work[s].exit, state |-> tree, match |-> work[s].match]

WriteObservation(s) ==
  IF obsEnd = "open" THEN obsEnd' = "torn" /\ UNCHANGED obs
  ELSE obs' = Append(obs, SeenNow(s)) /\ UNCHANGED obsEnd
CutObservation(s) ==
  \/ UNCHANGED <<obs, obsEnd>>
  \/ obsEnd' = "torn" /\ UNCHANGED obs
  \/ obsEnd = "whole" /\ obsEnd' = "open" /\ obs' = Append(obs, SeenNow(s))

\* Then it walks the tree again, appends the observation and decides to close.
Observe(s) ==
  /\ At(s, "observe")
  /\ \/ /\ WriteObservation(s) /\ UNCHANGED failed
        /\ IF ~AlreadyClosed /\ ShouldClose(work[s]) THEN GoTo(s, "close") ELSE Finish(s)
     \/ CutObservation(s) /\ Throws(s, "observe")
  /\ UNCHANGED <<tree, chain, chainEnd, manifestHead, closed, unlock, memory, counters>>

Gaps(c)       == Cardinality({i \in 1 .. Len(c) : c[i].kind = "gap"})
ReadSessions(c) == {c[i].sess : i \in 1 .. Len(c)}
CloseRecord(id, o, c) ==
  [id |-> id, attempts |-> Len(o), links |-> Len(c), gaps |-> Gaps(c),
   sessions |-> IF c = <<>> THEN 1 ELSE Cardinality(ReadSessions(c)),
   reds |-> Cardinality({i \in 1 .. Len(o) : o[i].source = "boundary" /\ o[i].exit # "zero"})]

\* The counts are read back from both files; one that is torn throws: no close.
Close(s) ==
  /\ At(s, "close")
  /\ \/ /\ "torn" \in {chainEnd, obsEnd}
        /\ Finish(s) /\ UNCHANGED <<closed, failed>>
     \/ /\ "torn" \notin {chainEnd, obsEnd} /\ UNCHANGED failed
        /\ closed' = CloseRecord(work[s].id, obs, chain) /\ GoTo(s, "measure")
     \/ Throws(s, "close") /\ UNCHANGED closed
  /\ UNCHANGED <<tree, chain, chainEnd, manifestHead, obs, obsEnd, unlock, memory, counters>>

\* runGoalCloseMeasurement counts again and writes the unlock record, in which
\* it discloses what of the chain it could not read.
UnlockRecord(unread) ==
  LET counted == "links" \notin unread
  IN [head  |-> IF "head" \in unread THEN 0 ELSE HeadId,
      links |-> IF counted THEN Len(chain) - Gaps(chain) ELSE 0,
      gaps  |-> IF counted THEN Gaps(chain) ELSE 0,
      unread |-> unread]
Measure(s) ==
  /\ At(s, "measure")
  /\ \/ unlock' = UnlockRecord({}) /\ Finish(s) /\ UNCHANGED failed
     \/ \E unread \in SUBSET {"links", "head"} :
          unread # {} /\ unlock' = UnlockRecord(unread) /\ Throws(s, "count")
     \/ Throws(s, "measure") /\ UNCHANGED unlock
  /\ UNCHANGED <<tree, chain, chainEnd, manifestHead, obs, obsEnd, closed, memory, counters>>

HandlerStep(s) ==
  \/ Locate(s) \/ AppendLink(s) \/ SaveHead(s) \/ MatchTestfiles(s)
  \/ Observe(s) \/ Close(s) \/ Measure(s)

(* The world around the handlers. *)

EditTree(t) ==
  /\ edits < MaxEdits /\ t # tree
  /\ tree' = t /\ edits' = edits + 1
  /\ UNCHANGED <<disk, memory, work, failed, events, crashes>>

\* CORRELATION_WINDOW_MS passes.
Expire(s) ==
  /\ \/ s \in recentTool /\ recentTool' = recentTool \ {s} /\ UNCHANGED recentEdit
     \/ s \in recentEdit /\ recentEdit' = recentEdit \ {s} /\ UNCHANGED recentTool
  /\ UNCHANGED <<tree, disk, attached, work, failed, counters>>

\* The process dies and is started again; an append it was in may be cut short.
Crash ==
  /\ Mishaps < MaxMishaps /\ crashes' = crashes + 1
  /\ attached' = {} /\ recentTool' = {} /\ recentEdit' = {}
  /\ work' = [s \in Sessions |-> None]
  /\ \/ UNCHANGED <<chain, chainEnd, obs, obsEnd>>
     \/ \E s \in Sessions : At(s, "append") /\ CutLink(s) /\ UNCHANGED <<obs, obsEnd>>
     \/ \E s \in Sessions : At(s, "observe") /\ CutObservation(s) /\ UNCHANGED <<chain, chainEnd>>
  /\ UNCHANGED <<tree, manifestHead, closed, unlock, failed, events, edits>>

Handle(s) ==
  \/ Attach(s) \/ CommandExecuted(s) \/ FileEditedSkipped(s) \/ FileEdited(s)
  \/ WatcherUpdated(s)
  \/ \E exit \in Exits : BoundaryRun(s, exit) \/ \E sealed \in BOOLEAN : ToolAfter(s, sealed, exit)

Next ==
  \/ \E s \in Sessions : Handle(s) \/ HandlerStep(s) \/ Expire(s)
  \/ \E t \in Trees : EditTree(t)
  \/ Crash

Spec == Init /\ [][Next]_vars

\* A handler that has begun is run to its end by the event loop.
FairSpec == Spec /\ \A s \in Sessions : WF_vars(HandlerStep(s))
-----------------------------------------------------------------------------
(* Properties. *)

\* The variables hold values of their types; a close record counts at least the
\* observation that earned it.
TypeOK ==
  /\ tree \in Trees /\ manifestHead \in Trees \cup {None}
  /\ chain \in Seq(Link) /\ obs \in Seq(Observation)
  /\ chainEnd \in Endings /\ obsEnd \in Endings
  /\ closed \in CloseRecords \cup {None} /\ unlock \in UnlockRecords \cup {None}
  /\ attached \subseteq Sessions /\ recentTool \subseteq Sessions /\ recentEdit \subseteq Sessions
  /\ work \in [Sessions -> Handler \cup {None}]
  /\ failed \subseteq Failure
  /\ events \in 0 .. MaxEvents /\ edits \in Nat /\ crashes \in Nat

StateBefore(i) == IF i = 1 THEN Tree0 ELSE chain[i - 1].state

(* The whole lines of the chain count up from 0 and each names its          *)
(* predecessor: two handlers that both read the head before either appends  *)
(* would break the goal for good.  readChain accepts the file unless an     *)
(* append was cut short, by a death of the process or by a failed write;    *)
(* from then on every read throws, and nothing mends it.                    *)
ChainReadable ==
  /\ \A i \in 1 .. Len(chain) :
       /\ chain[i].index = i - 1
       /\ chain[i].prev = IF i = 1 THEN 0 ELSE chain[i - 1].id
  /\ chainEnd # "whole" => crashes > 0 \/ \E f \in failed : f.step = "append"

(* A closed goal was closed by a recorded run of the predicate that exited  *)
(* with 0 on the sealed predicate files and has a link of its own; the      *)
(* record counts exactly the observations and links up to that run.         *)
CloseIsEarned ==
  closed # None =>
    /\ closed.attempts <= Len(obs) /\ closed.links \in 1 .. Len(chain)
    /\ LET run == obs[closed.attempts] IN
         /\ run.exit = "zero" /\ run.match /\ run.source # "command"
         /\ closed.id = run.id /\ chain[closed.links].id = run.id
    /\ closed.gaps = Gaps(SubSeq(chain, 1, closed.links))

(* The measurement reads the chain a second time; whatever of it the unlock *)
(* record does not disclose as unread is of the very chain the close record *)
(* counted.                                                                 *)
UnlockAgrees ==
  unlock # None =>
    /\ closed # None
    /\ "links" \notin unlock.unread => /\ unlock.links + unlock.gaps = closed.links
                                       /\ unlock.gaps = closed.gaps
    /\ "head" \notin unlock.unread => unlock.head = closed.id

(* Later green runs, restarts and queued events never rewrite closed.json.  *)
ClosedForGood == [][closed # None => closed' = closed]_vars

(* An attach link is a gap exactly when the tree is not the one the link    *)
(* before it (the seal, for the first) recorded, also after a crash that    *)
(* left manifest-head.json behind the chain.                                *)
GapsMarkUnseenChange ==
  \A i \in 1 .. Len(chain) :
    chain[i].cause = "attach" => (chain[i].kind = "gap" <=> chain[i].state # StateBefore(i))

(* Whatever a session's tools, edits and watcher add to the chain comes     *)
(* after the attach link, in the same run of the process, that compared the *)
(* tree with the chain for that session - unless the session's attach       *)
(* failed on the way to its link, which leaves the session attached.        *)
HeadCheckFirst ==
  \A i \in 1 .. Len(chain) :
    chain[i].cause \in {"tool", "edited", "watcher"} =>
      \/ \E j \in 1 .. i - 1 : /\ chain[j].cause = "attach"
                               /\ chain[j].sess = chain[i].sess
                               /\ chain[j].boot = chain[i].boot
      \/ \E f \in failed : /\ f.cause = "attach" /\ f.step \in {"walk", "locate", "append"}
                           /\ f.sess = chain[i].sess /\ f.boot = chain[i].boot

(* Within one run of the process every diff is taken from the tree of the   *)
(* link before it, unless that link's manifest head was not saved or this   *)
(* link's handler could not read it.                                        *)
DiffBaseIsPrevious ==
  \A i \in 2 .. Len(chain) :
    chain[i].boot = chain[i - 1].boot =>
      \/ chain[i].base = chain[i - 1].state
      \/ \E f \in failed : \/ f.id = chain[i - 1].id /\ f.step = "save"
                           \/ f.id = chain[i].id /\ f.step = "read"

Green(o) == o.exit = "zero" /\ o.match

(* A green run on sealed files closes the goal and unlocks the extraction,  *)
(* unless the process dies, a file ends in a line that an append cut short, *)
(* or the close record or the unlock record cannot be made or written.      *)
GreenUnlocks ==
  (\E i \in 1 .. Len(obs) : Green(obs[i])) ~>
     \/ unlock # None
     \/ crashes > 0 \/ chainEnd # "whole" \/ obsEnd # "whole"
     \/ \E f \in failed : f.step \in {"close", "measure"}

(* What the comments of the code say.                                       *)

\* boundaryStampDecision: timestamps are event numbers, the seal's is 0.
Newest(o)           == o[Len(o)].id
NeedsBoundaryRun    == IF obs = <<>> THEN TRUE ELSE Newest(obs) <= HeadId
StateChanges        == {i \in 1 .. Len(chain) : chain[i].state # StateBefore(i)}
LastStateChange     == IF StateChanges = {} THEN 0
                       ELSE chain[CHOOSE i \in StateChanges : \A j \in StateChanges : j <= i].id

(* predicate.ts:247-250: no boundary run is needed if and only if the       *)
(* newest observation is strictly later than the last change of the state.  *)
StampMeansNewerThanChange ==
  (\A s \in Sessions : ~Busy(s)) /\ obs # <<>> =>
    (~NeedsBoundaryRun <=> Newest(obs) > LastStateChange)
=============================================================================
