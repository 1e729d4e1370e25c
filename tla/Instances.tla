------------------------------ MODULE Instances ------------------------------
(***************************************************************************)
(* Several server processes on one machine (src/server.ts, startHttpServer *)
(* and stopHttpServer of src/http-server.ts, src/session-token.ts).        *)
(*                                                                         *)
(* Every editor window starts a server.  Each takes its session token from *)
(* ~/.wevibe/mcp-session-token, or makes one up; one of them gets the port *)
(* of the HTTP API, and that one writes its token to the file, where       *)
(* clients find it, and runs the GSTV runtime (spool consumer and engine). *)
(* The others answer their window over stdio and never try for the port    *)
(* again.  A server that is told to stop closes its listener at once and   *)
(* lives on until its connections are done, three seconds at most: nobody  *)
(* stops its runtime, whose timer goes on until the process exits, while   *)
(* the next server may have the port and a runtime of its own.             *)
(*                                                                         *)
(* GstvSpool and GstvEngine have one process at a time; here is what the   *)
(* processes do to each other.  The spool is one file of good rows, a      *)
(* handler appends one link for its row, and a link is its index and row.  *)
(***************************************************************************)
EXTENDS Integers, Sequences, FiniteSets

CONSTANTS
  Processes,  \* each is started once; the token it may make up has its name
  None,       \* no process; no token in the file
  MaxRows,    \* bounds: rows the plugin writes,
  MaxFaults   \*   writes of the token that fail

ASSUME ProcessesAssumption == None \notin Processes
ASSUME BoundsAssumption == MaxRows \in Nat /\ MaxFaults \in Nat

VARIABLES
  owner,    \* the process that listens on the port, or None
  file,     \* the token in the file, or None: no file, or an empty one
  token,    \* [Processes -> SessionTokenStore.currentToken]
  main,     \* [Processes -> how far main() has come]
  closing,  \* the processes whose shutdown() has begun
  runtime,  \* the processes whose SpoolConsumer has its timer
  rows,     \* rows in the spool file
  saved,    \* spool-offsets.json
  offset,   \* [Processes -> SpoolConsumer.offsets]
  polling,  \* the processes between reading the rows and saving the offset
  queue,    \* [Processes -> GstvEngine.queue]
  head,     \* [Processes -> what readChainHead gave the handler that runs, or NoHead]
  chain,    \* chain.jsonl
  writer,   \* history: who last opened the token file for writing
  lost,     \* history: rows a process took along when it ended, or whose handler threw
  overlapped, \* history: a runtime was started beside another
  faults

api     == <<owner, file, token, writer, faults>>
spool   == <<rows, saved, offset, polling, queue, head, chain, lost>>
vars    == <<owner, file, token, main, closing, runtime, rows, saved, offset, polling,
             queue, head, chain, writer, lost, overlapped, faults>>

Steps == {"off", "starting", "bound", "writing", "settled", "unwritten", "stdioOnly", "gone"}
Link  == [index : Nat, row : Nat]
NoHead == 0 - 1

Alive(p) == main[p] \notin {"off", "gone"}

Init ==
  /\ owner = None /\ file = None /\ token = [p \in Processes |-> None]
  /\ main = [p \in Processes |-> "off"] /\ closing = {} /\ runtime = {}
  /\ rows = 0 /\ saved = 0 /\ offset = [p \in Processes |-> 0] /\ polling = {}
  /\ queue = [p \in Processes |-> <<>>] /\ head = [p \in Processes |-> NoHead]
  /\ chain = <<>> /\ writer = None /\ lost = {} /\ overlapped = FALSE /\ faults = 0

-----------------------------------------------------------------------------
(* main(). *)

\* initSessionToken: what is in the file, else a token of its own.
Start(p) ==
  /\ main[p] = "off"
  /\ main' = [main EXCEPT ![p] = "starting"]
  /\ token' = [token EXCEPT ![p] = IF file = None THEN p ELSE file]
  /\ UNCHANGED <<owner, file, writer, faults, closing, runtime, spool, overlapped>>

\* The consumer's constructor loads the offsets.
LoadedOffset_AtEnd == rows
LoadedOffset == saved
StartRuntime(p) ==
  /\ runtime' = runtime \cup {p}
  /\ offset' = [offset EXCEPT ![p] = LoadedOffset]
  /\ overlapped' = (overlapped \/ runtime # {})
  /\ UNCHANGED <<rows, saved, polling, queue, head, chain, lost>>

\* The callback of listen.  A shutdown that began before this does not prevent it.
Listens(p) ==
  /\ main[p] = "starting" /\ owner = None
  /\ owner' = p /\ main' = [main EXCEPT ![p] = "bound"]
  /\ StartRuntime(p)
  /\ UNCHANGED <<file, token, writer, faults, closing>>

\* EADDRINUSE: the server goes on without the API.
AfterBusy_PersistsToo == "bound"
AfterBusy == "stdioOnly"
RuntimeWhenBusy_Starts(p) == StartRuntime(p)
RuntimeWhenBusy(p) == UNCHANGED <<runtime, spool, overlapped>>
PortBusy(p) ==
  /\ main[p] = "starting" /\ owner # None
  /\ main' = [main EXCEPT ![p] = AfterBusy]
  /\ RuntimeWhenBusy(p)
  /\ UNCHANGED <<api, closing>>

\* writeToDisk opens the file, which empties it, and then writes.
OpenTokenFile(p) ==
  /\ main[p] = "bound"
  /\ main' = [main EXCEPT ![p] = "writing"]
  /\ file' = None /\ writer' = p
  /\ UNCHANGED <<owner, token, faults, closing, runtime, spool, overlapped>>

WriteToken(p) ==
  /\ main[p] = "writing"
  /\ main' = [main EXCEPT ![p] = "settled"]
  /\ file' = token[p] /\ writer' = p
  /\ UNCHANGED <<owner, token, faults, closing, runtime, spool, overlapped>>

\* main rejects and only logs it: the API stays up, with a token no client can know.
PersistFails(p) ==
  /\ main[p] \in {"bound", "writing"} /\ faults < MaxFaults
  /\ main' = [main EXCEPT ![p] = "unwritten"] /\ faults' = faults + 1
  /\ UNCHANGED <<owner, file, token, writer, closing, runtime, spool, overlapped>>

\* A signal, the end of stdin or /v1/shutdown: stopHttpServer closes the listener.
Shutdown(p) ==
  /\ Alive(p) /\ p \notin closing
  /\ closing' = closing \cup {p}
  /\ owner' = IF owner = p THEN None ELSE owner
  /\ UNCHANGED <<file, token, writer, faults, main, runtime, spool, overlapped>>

\* The connections are done or three seconds over; or the process is killed.
Ends(p) ==
  /\ Alive(p)
  /\ main' = [main EXCEPT ![p] = "gone"]
  /\ owner' = IF owner = p THEN None ELSE owner
  /\ closing' = closing \ {p} /\ token' = [token EXCEPT ![p] = None]
  /\ runtime' = runtime \ {p} /\ polling' = polling \ {p}
  /\ lost' = lost \cup {queue[p][i] : i \in 1 .. Len(queue[p])}
  /\ queue' = [queue EXCEPT ![p] = <<>>] /\ head' = [head EXCEPT ![p] = NoHead]
  /\ offset' = [offset EXCEPT ![p] = 0]
  /\ UNCHANGED <<file, writer, faults, rows, saved, chain, overlapped>>
Exit(p) == p \in closing /\ Ends(p)
Kill(p) == p \notin closing /\ Ends(p)

-----------------------------------------------------------------------------
(* The runtime: spool, queue, chain. *)

shell == <<api, main, closing, runtime, overlapped>>

\* The plugin writes a row.
Row ==
  /\ rows < MaxRows
  /\ rows' = rows + 1
  /\ UNCHANGED <<shell, saved, offset, polling, queue, head, chain, lost>>

Poll(p) ==
  /\ p \in runtime /\ p \notin polling /\ offset[p] < rows
  /\ polling' = polling \cup {p}
  /\ queue' = [queue EXCEPT ![p] = @ \o [i \in 1 .. rows - offset[p] |-> offset[p] + i]]
  /\ offset' = [offset EXCEPT ![p] = rows]
  /\ UNCHANGED <<shell, rows, saved, head, chain, lost>>

SaveOffset(p) ==
  /\ p \in polling
  /\ polling' = polling \ {p} /\ saved' = offset[p]
  /\ UNCHANGED <<shell, rows, offset, queue, head, chain, lost>>

\* readChain throws when a link's index is not its place, or its prev is not the link before.
Forked == \E i \in 1 .. Len(chain) : chain[i].index # i - 1

CanHandle(p) == p \in runtime /\ p \notin polling /\ queue[p] # <<>>

ReadHead(p) ==
  /\ CanHandle(p) /\ head[p] = NoHead
  /\ IF Forked
     THEN /\ queue' = [queue EXCEPT ![p] = Tail(@)]
          /\ lost' = lost \cup {Head(queue[p])}
          /\ UNCHANGED head
     ELSE head' = [head EXCEPT ![p] = Len(chain)] /\ UNCHANGED <<queue, lost>>
  /\ UNCHANGED <<shell, rows, saved, offset, polling, chain>>

AppendLink(p) ==
  /\ CanHandle(p) /\ head[p] # NoHead
  /\ chain' = Append(chain, [index |-> head[p], row |-> Head(queue[p])])
  /\ queue' = [queue EXCEPT ![p] = Tail(@)] /\ head' = [head EXCEPT ![p] = NoHead]
  /\ UNCHANGED <<shell, rows, saved, offset, polling, lost>>

-----------------------------------------------------------------------------
Persist(p) == OpenTokenFile(p) \/ WriteToken(p) \/ PersistFails(p)
Main(p)    == Listens(p) \/ PortBusy(p) \/ Persist(p)
Handle(p)  == ReadHead(p) \/ AppendLink(p)

Next ==
  \/ Row
  \/ \E p \in Processes : \/ Start(p) \/ Main(p) \/ Shutdown(p) \/ Exit(p) \/ Kill(p)
                          \/ Poll(p) \/ SaveOffset(p) \/ Handle(p)

Spec == Init /\ [][Next]_vars

\* main runs to its end, the hard timeout fires, the poll timer fires and the queue runs:
\* all of a live process's own.  Starting and stopping processes is the user's.
FairSpec ==
  /\ Spec
  /\ \A p \in Processes : /\ WF_vars(Main(p)) /\ WF_vars(Exit(p))
                          /\ WF_vars(Poll(p)) /\ WF_vars(SaveOffset(p)) /\ SF_vars(Handle(p))

-----------------------------------------------------------------------------
(* The properties. *)

\* The variables hold what the files and the processes can hold.
TypeOK ==
  /\ owner \in Processes \cup {None} /\ file \in Processes \cup {None}
  /\ token \in [Processes -> Processes \cup {None}]
  /\ main \in [Processes -> Steps]
  /\ closing \subseteq Processes /\ runtime \subseteq Processes /\ polling \subseteq Processes
  /\ rows \in Nat /\ saved \in Nat /\ offset \in [Processes -> Nat]
  /\ queue \in [Processes -> Seq(Nat)] /\ head \in [Processes -> Nat \cup {NoHead}]
  /\ chain \in Seq(Link) /\ lost \subseteq Nat
  /\ writer \in Processes \cup {None} /\ overlapped \in BOOLEAN /\ faults \in Nat

\* Once the process that has the port has written its token, clients find it in the
\* file: another process's write can only have come after it when that process was
\* already stopping (it had the port before, and its write was late).
TokenAgrees ==
  owner # None /\ main[owner] = "settled" =>
    \/ file = token[owner]
    \/ writer # owner /\ (writer \in closing \/ main[writer] = "gone")

\* Two processes run the spool and the chain at once only while all but one of them
\* are stopping; and never, until that first happens, does the chain fork or get a row
\* twice, however processes come, go and die.
Twice == \E i, j \in 1 .. Len(chain) : i < j /\ chain[i].row = chain[j].row
OneWriter ==
  /\ \A p, q \in runtime : p # q => p \in closing \/ q \in closing
  /\ Forked \/ Twice => overlapped

\* When one process comes to have the port for good, every row ends as a link, unless
\* a process ended with it in its queue or the chain had forked.
Linked(r) == \E i \in 1 .. Len(chain) : chain[i].row = r
RowsAreHandled ==
  (\E p \in Processes : <>[](owner = p)) => <>[](\A r \in 1 .. rows : Linked(r) \/ r \in lost)
==============================================================================
