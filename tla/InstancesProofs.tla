--------------------------- MODULE InstancesProofs ---------------------------
(***************************************************************************)
(* Proofs about Instances, for any number of processes and of rows.        *)
(*                                                                         *)
(* TokenAgrees and OneWriter both rest on Ports: whatever a process does   *)
(* that only the port's owner may do, it is the owner or is stopping.      *)
(* Tokens says what the last opening of the token file left.  OneWriter    *)
(* also needs Order: as long as runtimes did not overlap, what is linked   *)
(* is saved, what is queued comes after it, and the head a handler read is *)
(* still the head.                                                         *)
(***************************************************************************)
EXTENDS Instances, TLAPS

Serving(p) == main[p] \in {"bound", "writing", "settled", "unwritten"}

\* Only a process that got the port runs the spool or touches the token file; until it
\* is told to stop it has the port.
Ports ==
  /\ \A p \in Processes : Serving(p) /\ p \notin closing => owner = p
  /\ \A p \in runtime : Serving(p)

\* The last to open the token file got that far; if it has written, the file has its token.
Tokens ==
  /\ writer # None => main[writer] \in {"writing", "settled", "unwritten", "gone"}
  /\ \A p \in Processes : main[p] = "settled" =>
       /\ writer # None
       /\ writer = p => file = token[p]

\* The rows of a sequence of links are ascending.
Ascending == \A i, j \in 1 .. Len(chain) : i < j => chain[i].row < chain[j].row
Chained == \A i \in 1 .. Len(chain) : chain[i].index = i - 1 /\ chain[i].row <= saved

\* What a process has in its queue is beyond the chain, in order, and not past its offset.
Queued(p) ==
  /\ saved <= offset[p] /\ (p \notin polling => saved = offset[p])
  /\ \A k \in 1 .. Len(queue[p]) :
       /\ queue[p][k] <= offset[p]
       /\ \A i \in 1 .. Len(chain) : chain[i].row < queue[p][k]
       /\ \A l \in 1 .. Len(queue[p]) : k < l => queue[p][k] < queue[p][l]
  /\ head[p] # NoHead => head[p] = Len(chain)

Order ==
  ~overlapped =>
    /\ \A p, q \in runtime : p = q
    /\ Ascending /\ Chained
    /\ \A p \in runtime : Queued(p)

\* A process without a runtime has nothing of one.
Outside ==
  /\ polling \subseteq runtime
  /\ \A p \in Processes \ runtime : queue[p] = <<>> /\ head[p] = NoHead

Inv == TypeOK /\ Ports /\ Tokens /\ Outside /\ Order

-----------------------------------------------------------------------------
\* The rows a poll finds, put behind those in the queue.
LEMMA NewRows ==
  ASSUME NEW q \in Seq(Nat), NEW m \in Nat, NEW n \in Nat, m < n
  PROVE  LET s == q \o [i \in 1 .. n - m |-> m + i]
         IN /\ s \in Seq(Nat) /\ Len(s) = Len(q) + (n - m)
            /\ \A k \in 1 .. Len(q) : s[k] = q[k]
            /\ \A k \in Len(q) + 1 .. Len(s) : s[k] = m + (k - Len(q))
<1> DEFINE t == [i \in 1 .. n - m |-> m + i]
<1>1. t \in Seq(Nat) /\ Len(t) = n - m /\ \A i \in 1 .. n - m : t[i] = m + i
  OBVIOUS
<1> HIDE DEF t
<1> QED BY <1>1

LEMMA RowsOfChain ==
  ASSUME TypeOK
  PROVE  \A i \in 1 .. Len(chain) : chain[i].row \in Nat
<1>1. TAKE i \in 1 .. Len(chain)
<1>2. chain \in Seq(Link)
  BY DEF TypeOK
<1>3. chain[i] \in Link
  BY <1>2
<1> QED BY <1>3 DEF Link

LEMMA InvInit == Init => Inv
<1> SUFFICES ASSUME Init PROVE Inv
  OBVIOUS
<1>1. main \in [Processes -> Steps] /\ head \in [Processes -> Nat \cup {NoHead}]
  BY DEF Init, Steps
<1>2. queue \in [Processes -> Seq(Nat)] /\ chain \in Seq(Link)
  BY DEF Init
<1>3. TypeOK
  BY <1>1, <1>2 DEF Init, TypeOK
<1>4. Ports /\ Tokens /\ Outside /\ Order
  BY DEF Init, Ports, Serving, Tokens, Outside, Order, Ascending, Chained
<1> QED BY <1>3, <1>4 DEF Inv

\* Steps of main() and of the signals leave the spool's part alone.
LEMMA KeepsSpool ==
  ASSUME Inv, UNCHANGED <<spool, runtime, overlapped>>
  PROVE  Outside' /\ Order'
BY DEF Inv, spool, Outside, Order, Ascending, Chained, Queued

LEMMA StartStep ==
  ASSUME Inv, NEW p \in Processes, Start(p)
  PROVE  Inv'
<1> USE DEF Inv
<1>1. TypeOK'
  BY DEF Start, TypeOK, Steps, spool
<1>2. Ports'
  BY DEF Start, Ports, Serving, TypeOK
<1>3. Tokens'
  BY DEF Start, Tokens, TypeOK
<1> QED BY <1>1, <1>2, <1>3, KeepsSpool DEF Start

LEMMA ListensStep ==
  ASSUME Inv, NEW p \in Processes, Listens(p)
  PROVE  Inv'
<1> USE DEF Inv
<1>0. p \notin runtime
  BY DEF Listens, Ports, Serving
<1>1. TypeOK'
  BY DEF Listens, StartRuntime, LoadedOffset, TypeOK, Steps
<1>2. Ports'
  <2>1. \A q \in Processes : q # p => ~(Serving(q) /\ q \notin closing)
    BY ProcessesAssumption DEF Listens, Ports
  <2>2. \A q \in Processes : q # p => main'[q] = main[q]
    BY DEF Listens, TypeOK
  <2>3. main'[p] = "bound"
    BY DEF Listens, TypeOK
  <2> QED BY <2>1, <2>2, <2>3 DEF Listens, StartRuntime, Ports, Serving, TypeOK
<1>3. Tokens'
  BY DEF Listens, Tokens, TypeOK
<1>4. Outside'
  BY DEF Listens, StartRuntime, Outside
<1>5. Order'
  <2> SUFFICES ASSUME ~overlapped' PROVE Order'
    BY DEF Order
  <2>1. ~overlapped /\ runtime = {} /\ runtime' = {p}
    BY DEF Listens, StartRuntime
  <2>2. queue[p] = <<>> /\ head[p] = NoHead /\ p \notin polling
    BY <1>0 DEF Outside
  <2>3. Queued(p)'
    BY <2>2 DEF Queued, Listens, StartRuntime, LoadedOffset, TypeOK
  <2> QED BY <2>1, <2>3 DEF Order, Listens, StartRuntime, Ascending, Chained
<1> QED BY <1>1, <1>2, <1>3, <1>4, <1>5

LEMMA PortBusyStep ==
  ASSUME Inv, NEW p \in Processes, PortBusy(p)
  PROVE  Inv'
<1> USE DEF Inv
<1>1. TypeOK'
  BY DEF PortBusy, AfterBusy, RuntimeWhenBusy, TypeOK, Steps, api, spool
<1>2. Ports'
  BY DEF PortBusy, AfterBusy, RuntimeWhenBusy, Ports, Serving, TypeOK, api
<1>3. Tokens'
  BY DEF PortBusy, AfterBusy, Tokens, TypeOK, api
<1> QED BY <1>1, <1>2, <1>3, KeepsSpool DEF PortBusy, RuntimeWhenBusy

LEMMA PersistStep ==
  ASSUME Inv, NEW p \in Processes, Persist(p)
  PROVE  Inv'
<1> USE DEF Inv
<1>1. UNCHANGED <<spool, runtime, overlapped, closing, owner, token>>
  BY DEF Persist, OpenTokenFile, WriteToken, PersistFails
<1>2. TypeOK'
  <2>1. main' \in [Processes -> Steps] /\ file' \in Processes \cup {None}
    <3>1. /\ main \in [Processes -> Steps] /\ file \in Processes \cup {None}
          /\ token[p] \in Processes \cup {None}
      BY DEF TypeOK
    <3>2. \E m \in Steps : main' = [main EXCEPT ![p] = m]
      BY DEF Persist, OpenTokenFile, WriteToken, PersistFails, Steps
    <3>3. file' \in {None, token[p], file}
      BY DEF Persist, OpenTokenFile, WriteToken, PersistFails
    <3> QED BY <3>1, <3>2, <3>3
  <2>2. writer' \in Processes \cup {None} /\ faults' \in Nat
    BY DEF Persist, OpenTokenFile, WriteToken, PersistFails, TypeOK
  <2> QED BY <1>1, <2>1, <2>2 DEF TypeOK, spool
<1>3. Ports'
  BY <1>1 DEF Persist, OpenTokenFile, WriteToken, PersistFails, Ports, Serving, TypeOK
<1>4. Tokens'
  <2>1. CASE OpenTokenFile(p)
    BY <2>1, ProcessesAssumption DEF OpenTokenFile, Tokens, TypeOK
  <2>2. CASE WriteToken(p)
    BY <2>2, ProcessesAssumption DEF WriteToken, Tokens, TypeOK
  <2>3. CASE PersistFails(p)
    BY <2>3 DEF PersistFails, Tokens, TypeOK
  <2> QED BY <2>1, <2>2, <2>3 DEF Persist
<1> QED BY <1>1, <1>2, <1>3, <1>4, KeepsSpool

LEMMA ShutdownStep ==
  ASSUME Inv, NEW p \in Processes, Shutdown(p)
  PROVE  Inv'
<1> USE DEF Inv
<1>1. TypeOK'
  BY DEF Shutdown, TypeOK, spool
<1>2. Ports'
  BY DEF Shutdown, Ports, Serving, TypeOK
<1>3. Tokens'
  BY DEF Shutdown, Tokens, TypeOK
<1> QED BY <1>1, <1>2, <1>3, KeepsSpool DEF Shutdown

LEMMA EndsStep ==
  ASSUME Inv, NEW p \in Processes, Ends(p)
  PROVE  Inv'
<1> USE DEF Inv
<1>0. \A i \in 1 .. Len(queue[p]) : queue[p][i] \in Nat
  BY DEF TypeOK
<1>1. TypeOK'
  <2>1. main' \in [Processes -> Steps] /\ token' \in [Processes -> Processes \cup {None}]
    BY DEF Ends, TypeOK, Steps
  <2>2. queue' \in [Processes -> Seq(Nat)] /\ head' \in [Processes -> Nat \cup {NoHead}]
        /\ offset' \in [Processes -> Nat]
    BY DEF Ends, TypeOK
  <2>3. /\ owner' \in Processes \cup {None} /\ closing' \subseteq Processes
        /\ runtime' \subseteq Processes /\ polling' \subseteq Processes /\ lost' \subseteq Nat
    BY <1>0 DEF Ends, TypeOK
  <2> QED BY <2>1, <2>2, <2>3 DEF Ends, TypeOK
<1>2. Ports'
  BY DEF Ends, Ports, Serving, TypeOK
<1>3. Tokens'
  BY DEF Ends, Tokens, TypeOK
<1>4. Outside'
  BY DEF Ends, Outside, TypeOK
<1>5. Order'
  <2>1. \A q \in runtime' : q \in runtime /\ queue'[q] = queue[q] /\ head'[q] = head[q]
                            /\ offset'[q] = offset[q] /\ (q \in polling' <=> q \in polling)
    BY DEF Ends, TypeOK
  <2> QED BY <2>1 DEF Ends, Order, Ascending, Chained, Queued
<1> QED BY <1>1, <1>2, <1>3, <1>4, <1>5

-----------------------------------------------------------------------------
\* Steps of the runtime leave main() and the token alone.
LEMMA KeepsShell ==
  ASSUME Inv, UNCHANGED shell
  PROVE  Ports' /\ Tokens'
BY DEF Inv, shell, api, Ports, Serving, Tokens

LEMMA RowStep ==
  ASSUME Inv, Row
  PROVE  Inv'
<1>1. TypeOK'
  BY DEF Inv, Row, TypeOK, shell, api
<1>2. Outside' /\ Order'
  BY DEF Inv, Row, shell, Outside, Order, Ascending, Chained, Queued
<1> QED BY <1>1, <1>2, KeepsShell DEF Row, Inv

LEMMA PollStep ==
  ASSUME Inv, NEW p \in Processes, Poll(p)
  PROVE  Inv'
<1> USE DEF Inv
<1> DEFINE s == queue[p] \o [i \in 1 .. rows - offset[p] |-> offset[p] + i]
<1>0. /\ s \in Seq(Nat) /\ Len(s) = Len(queue[p]) + (rows - offset[p])
      /\ \A k \in 1 .. Len(queue[p]) : s[k] = queue[p][k]
      /\ \A k \in Len(queue[p]) + 1 .. Len(s) : s[k] = offset[p] + (k - Len(queue[p]))
  <2>1. queue[p] \in Seq(Nat) /\ rows \in Nat /\ offset[p] \in Nat /\ offset[p] < rows
    BY DEF Poll, TypeOK
  <2> QED BY <2>1, NewRows
<1>00. queue' = [queue EXCEPT ![p] = s]
  BY DEF Poll
<1> HIDE DEF s
<1>01. /\ Len(queue[p]) \in Nat /\ offset[p] \in Nat /\ rows \in Nat /\ offset[p] < rows
       /\ \A k \in 1 .. Len(queue[p]) : queue[p][k] \in Nat
  BY DEF Poll, TypeOK
<1>1. TypeOK'
  BY <1>0, <1>00 DEF Poll, TypeOK, shell, api
<1>2. Outside'
  BY <1>00 DEF Poll, Outside, shell, TypeOK
<1>3. Order'
  <2> SUFFICES ASSUME ~overlapped PROVE Order'
    BY DEF Order, Poll, shell
  <2>1. Queued(p) /\ \A q \in runtime : q = p
    BY DEF Order, Poll
  <2>2. queue'[p] = s /\ offset'[p] = rows /\ p \in polling' /\ head'[p] = head[p]
    BY <1>00 DEF Poll, TypeOK
  <2>3. \A k \in 1 .. Len(s) :
          /\ s[k] <= rows
          /\ \A i \in 1 .. Len(chain) : chain[i].row < s[k]
    <3>1. TAKE k \in 1 .. Len(s)
    <3>2. CASE k <= Len(queue[p])
      <4>1. s[k] = queue[p][k] /\ k \in 1 .. Len(queue[p])
        BY <1>0, <1>01, <3>2
      <4> QED BY <1>01, <2>1, <4>1 DEF Queued
    <3>3. CASE k > Len(queue[p])
      <4>1. s[k] = offset[p] + (k - Len(queue[p])) /\ k - Len(queue[p]) <= rows - offset[p]
        <5>1. k \in Len(queue[p]) + 1 .. Len(s)
          BY <1>0, <1>01, <3>3
        <5> QED BY <1>0, <1>01, <5>1
      <4>2. \A i \in 1 .. Len(chain) : chain[i].row \in Nat /\ chain[i].row <= offset[p]
        <5>1. Chained /\ saved \in Nat /\ saved <= offset[p]
          BY <2>1 DEF Order, Queued, TypeOK
        <5>2. \A i \in 1 .. Len(chain) : chain[i].row \in Nat
          BY RowsOfChain
        <5> QED BY <1>01, <5>1, <5>2 DEF Chained
      <4> QED BY <1>01, <3>3, <4>1, <4>2
    <3> QED BY <3>2, <3>3, <1>0, <1>01
  <2>4. \A k, l \in 1 .. Len(s) : k < l => s[k] < s[l]
    <3>1. TAKE k, l \in 1 .. Len(s)
    <3>2. CASE l <= Len(queue[p])
      <4>1. k < l => k \in 1 .. Len(queue[p]) /\ l \in 1 .. Len(queue[p])
        BY <1>01, <3>2, <1>0
      <4> QED BY <1>0, <4>1, <2>1 DEF Queued
    <3>3. CASE k <= Len(queue[p]) /\ l > Len(queue[p])
      <4>1. k \in 1 .. Len(queue[p]) /\ l \in Len(queue[p]) + 1 .. Len(s)
        BY <1>0, <1>01, <3>3
      <4>2. s[k] = queue[p][k] /\ s[l] = offset[p] + (l - Len(queue[p])) /\ s[k] <= offset[p]
        BY <1>0, <4>1, <2>1 DEF Queued
      <4> QED BY <1>01, <3>3, <4>1, <4>2
    <3>4. CASE k > Len(queue[p])
      <4>1. k < l => k \in Len(queue[p]) + 1 .. Len(s) /\ l \in Len(queue[p]) + 1 .. Len(s)
        BY <1>0, <1>01, <3>4
      <4>2. k < l => s[k] = offset[p] + (k - Len(queue[p])) /\ s[l] = offset[p] + (l - Len(queue[p]))
        BY <1>0, <4>1
      <4> QED BY <1>01, <4>2
    <3> QED BY <3>2, <3>3, <3>4, <1>0, <1>01
  <2>5. Queued(p)'
    <3>1. saved' = saved /\ chain' = chain /\ saved \in Nat /\ saved <= rows
      BY <1>01, <2>1 DEF Poll, Queued, TypeOK
    <3> QED BY <2>1, <2>2, <2>3, <2>4, <3>1 DEF Queued
  <2> QED BY <2>1, <2>5 DEF Order, Poll, shell, Ascending, Chained
<1> QED BY <1>1, <1>2, <1>3, KeepsShell DEF Poll

LEMMA SaveOffsetStep ==
  ASSUME Inv, NEW p \in Processes, SaveOffset(p)
  PROVE  Inv'
<1> USE DEF Inv
<1>1. TypeOK'
  BY DEF SaveOffset, TypeOK, shell, api
<1>2. Outside'
  BY DEF SaveOffset, Outside, shell
<1>3. Order'
  <2> SUFFICES ASSUME ~overlapped PROVE Order'
    BY DEF Order, SaveOffset, shell
  <2>1. Queued(p) /\ \A q \in runtime : q = p
    BY DEF Order, SaveOffset, Outside
  <2>2. Chained'
    <3>1. Chained /\ saved <= saved' /\ saved \in Nat /\ saved' \in Nat /\ chain' = chain
      BY <2>1 DEF Order, Queued, SaveOffset, TypeOK
    <3>2. \A i \in 1 .. Len(chain) : chain[i].row \in Nat
      BY RowsOfChain
    <3> QED BY <3>1, <3>2 DEF Chained
  <2>3. Queued(p)'
    BY <2>1 DEF Queued, SaveOffset, TypeOK
  <2> QED BY <2>1, <2>2, <2>3 DEF Order, SaveOffset, shell, Ascending
<1> QED BY <1>1, <1>2, <1>3, KeepsShell DEF SaveOffset

\* A runtime that did not overlap has not forked the chain.
LEMMA NotForked == ASSUME Inv, ~overlapped PROVE ~Forked /\ ~Twice
<1>1. ~Forked
  BY DEF Inv, Order, Chained, Forked
<1>2. ~Twice
  <2>1. \A i \in 1 .. Len(chain) : chain[i].row \in Nat
    BY RowsOfChain DEF Inv
  <2>2. Ascending
    BY DEF Inv, Order
  <2>3. ASSUME NEW i \in 1 .. Len(chain), NEW j \in 1 .. Len(chain), i < j
        PROVE  chain[i].row # chain[j].row
    BY <2>1, <2>2, <2>3 DEF Ascending
  <2> QED BY <2>3 DEF Twice
<1> QED BY <1>1, <1>2

LEMMA ReadHeadStep ==
  ASSUME Inv, NEW p \in Processes, ReadHead(p)
  PROVE  Inv'
<1> USE DEF Inv
<1>1. CASE Forked
  <2>0. Head(queue[p]) \in Nat /\ Tail(queue[p]) \in Seq(Nat)
    BY DEF ReadHead, CanHandle, TypeOK
  <2>1. TypeOK'
    BY <1>1, <2>0 DEF ReadHead, TypeOK, shell, api
  <2>2. Outside' /\ Order'
    BY <1>1, NotForked DEF ReadHead, CanHandle, Outside, Order, shell, TypeOK
  <2> QED BY <2>1, <2>2, KeepsShell DEF ReadHead
<1>2. CASE ~Forked
  <2>1. TypeOK'
    <3>1. head' \in [Processes -> Nat \cup {NoHead}]
      <4>1. Len(chain) \in Nat /\ head \in [Processes -> Nat \cup {NoHead}]
        BY DEF TypeOK
      <4> QED BY <1>2, <4>1 DEF ReadHead
    <3> QED BY <1>2, <3>1 DEF ReadHead, TypeOK, shell, api
  <2>2. Outside'
    BY <1>2 DEF ReadHead, CanHandle, Outside, shell, TypeOK
  <2>3. \A q \in runtime : Queued(q) => Queued(q)'
    BY <1>2 DEF ReadHead, Queued, TypeOK
  <2>4. Order'
    BY <1>2, <2>3 DEF ReadHead, Order, Ascending, Chained, shell
  <2> QED BY <2>1, <2>2, <2>4, KeepsShell DEF ReadHead
<1> QED BY <1>1, <1>2

LEMMA AppendLinkStep ==
  ASSUME Inv, NEW p \in Processes, AppendLink(p)
  PROVE  Inv'
<1> USE DEF Inv
<1> DEFINE link == [index |-> head[p], row |-> Head(queue[p])]
<1>0. /\ queue[p] \in Seq(Nat) /\ queue[p] # <<>> /\ link \in Link
      /\ link.index = head[p] /\ link.row = queue[p][1]
  BY DEF AppendLink, CanHandle, TypeOK, Link, NoHead
<1>00. chain' = Append(chain, link)
  BY DEF AppendLink
<1> HIDE DEF link
<1>1. TypeOK'
  <2>1. chain' \in Seq(Link)
    BY <1>0, <1>00 DEF TypeOK
  <2>2. queue' \in [Processes -> Seq(Nat)] /\ head' \in [Processes -> Nat \cup {NoHead}]
    BY <1>0 DEF AppendLink, TypeOK
  <2> QED BY <2>1, <2>2 DEF AppendLink, TypeOK, shell, api
<1>2. Outside'
  BY DEF AppendLink, CanHandle, Outside, shell, TypeOK
<1>3. Order'
  <2> SUFFICES ASSUME ~overlapped PROVE Order'
    BY DEF Order, AppendLink, shell
  <2>1. Queued(p) /\ \A q \in runtime : q = p
    BY DEF Order, AppendLink, CanHandle
  <2>2. /\ chain \in Seq(Link) /\ Len(chain') = Len(chain) + 1
        /\ \A i \in 1 .. Len(chain) : chain'[i] = chain[i]
        /\ chain'[Len(chain) + 1] = link
    BY <1>0, <1>00 DEF TypeOK
  <2>3. Ascending'
    <3>1. Ascending /\ \A i \in 1 .. Len(chain) : chain[i].row < link.row
      <4>1. 1 \in 1 .. Len(queue[p])
        BY <1>0
      <4> QED BY <1>0, <2>1, <4>1 DEF Order, Queued
    <3>2. Len(chain) \in Nat
      BY <2>2
    <3>3. ASSUME NEW i \in 1 .. Len(chain'), NEW j \in 1 .. Len(chain'), i < j
          PROVE  chain'[i].row < chain'[j].row
      <4>1. i \in 1 .. Len(chain) /\ (j \in 1 .. Len(chain) \/ j = Len(chain) + 1)
        BY <2>2, <3>2, <3>3
      <4> QED BY <2>2, <3>1, <3>3, <4>1 DEF Ascending
    <3> QED BY <3>3 DEF Ascending
  <2>4. Chained'
    <3>1. saved = offset[p] /\ link.row <= saved /\ link.index = Len(chain)
      BY <1>0, <2>1 DEF AppendLink, CanHandle, Queued, TypeOK
    <3>2. Chained /\ Len(chain) \in Nat /\ saved' = saved
      BY <2>2 DEF Order, AppendLink
    <3>3. ASSUME NEW i \in 1 .. Len(chain')
          PROVE  chain'[i].index = i - 1 /\ chain'[i].row <= saved
      <4>1. i \in 1 .. Len(chain) \/ i = Len(chain) + 1
        BY <2>2, <3>2
      <4> QED BY <2>2, <3>1, <3>2, <4>1 DEF Chained
    <3> QED BY <3>2, <3>3 DEF Chained
  <2>5. Queued(p)'
    <3>1. /\ queue'[p] = Tail(queue[p]) /\ Len(queue'[p]) = Len(queue[p]) - 1
          /\ \A k \in 1 .. Len(queue'[p]) : queue'[p][k] = queue[p][k + 1]
      BY <1>0 DEF AppendLink, TypeOK
    <3>2. head'[p] = NoHead
      BY DEF AppendLink, TypeOK
    <3>3. \A k \in 1 .. Len(queue'[p]) : \A i \in 1 .. Len(chain') : chain'[i].row < queue'[p][k]
      <4>1. TAKE k \in 1 .. Len(queue'[p])
      <4>2. k + 1 \in 1 .. Len(queue[p]) /\ 1 \in 1 .. Len(queue[p]) /\ 1 < k + 1
        BY <1>0, <3>1
      <4>3. link.row < queue'[p][k]
        BY <1>0, <2>1, <3>1, <4>2 DEF Queued
      <4>4. \A i \in 1 .. Len(chain) : chain[i].row < queue'[p][k]
        BY <2>1, <3>1, <4>2 DEF Queued
      <4> QED BY <2>2, <4>3, <4>4
    <3>4. \A k, l \in 1 .. Len(queue'[p]) : /\ queue'[p][k] <= offset[p]
                                            /\ k < l => queue'[p][k] < queue'[p][l]
      <4>1. TAKE k, l \in 1 .. Len(queue'[p])
      <4>2. k + 1 \in 1 .. Len(queue[p]) /\ l + 1 \in 1 .. Len(queue[p])
        BY <1>0, <3>1
      <4> QED BY <2>1, <3>1, <4>2 DEF Queued
    <3> QED BY <2>1, <3>2, <3>3, <3>4 DEF Queued, AppendLink
  <2> QED BY <2>1, <2>3, <2>4, <2>5 DEF Order, AppendLink, shell
<1> QED BY <1>1, <1>2, <1>3, KeepsShell DEF AppendLink

LEMMA InvStep == Inv /\ [Next]_vars => Inv'
<1> SUFFICES ASSUME Inv, [Next]_vars PROVE Inv'
  OBVIOUS
<1>1. CASE Row
  BY <1>1, RowStep
<1>2. ASSUME NEW p \in Processes,
             Start(p) \/ Main(p) \/ Shutdown(p) \/ Exit(p) \/ Kill(p)
      PROVE  Inv'
  BY <1>2, StartStep, ListensStep, PortBusyStep, PersistStep, ShutdownStep, EndsStep
     DEF Main, Exit, Kill
<1>3. ASSUME NEW p \in Processes, Poll(p) \/ SaveOffset(p) \/ Handle(p)
      PROVE  Inv'
  BY <1>3, PollStep, SaveOffsetStep, ReadHeadStep, AppendLinkStep DEF Handle
<1>4. CASE UNCHANGED vars
  <2>1. TypeOK'
    BY <1>4 DEF Inv, vars, TypeOK
  <2>2. UNCHANGED <<spool, runtime, overlapped>> /\ UNCHANGED shell
    BY <1>4 DEF vars, spool, shell, api
  <2> QED BY <2>1, <2>2, KeepsSpool, KeepsShell DEF Inv
<1> QED BY <1>1, <1>2, <1>3, <1>4 DEF Next

LEMMA Always == Spec => []Inv
BY InvInit, InvStep, PTL DEF Spec

-----------------------------------------------------------------------------
\* The variables keep their types, whatever processes come, go and die.
THEOREM TypeCorrect == Spec => []TypeOK
<1>1. Inv => TypeOK
  BY DEF Inv
<1> QED BY <1>1, Always, PTL

\* The token file has the token of the process that listens and has written it, unless
\* a process that was stopping wrote later: clients of any number of servers are let in.
THEOREM TokenIsShared == Spec => []TokenAgrees
<1>1. Inv => TokenAgrees
  <2> SUFFICES ASSUME Inv, owner # None, main[owner] = "settled"
               PROVE  \/ file = token[owner]
                      \/ writer # owner /\ (writer \in closing \/ main[writer] = "gone")
    BY DEF TokenAgrees
  <2>1. owner \in Processes /\ writer \in Processes
    BY DEF Inv, TypeOK, Tokens
  <2>2. CASE writer = owner
    BY <2>1, <2>2 DEF Inv, Tokens
  <2>3. CASE writer # owner
    BY <2>1, <2>3, ProcessesAssumption DEF Inv, Tokens, Ports, Serving
  <2> QED BY <2>2, <2>3
<1> QED BY <1>1, Always, PTL

\* Two runtimes never work at once unless one of them is stopping, and the chain neither
\* forks nor gets a row twice before that happens.
THEOREM ChainHasOneWriter == Spec => []OneWriter
<1>1. Inv => OneWriter
  <2> SUFFICES ASSUME Inv PROVE OneWriter
    OBVIOUS
  <2>1. \A p, q \in runtime : p # q => p \in closing \/ q \in closing
    BY DEF Inv, Ports, TypeOK
  <2>2. Forked \/ Twice => overlapped
    BY NotForked DEF Inv
  <2> QED BY <2>1, <2>2 DEF OneWriter
<1> QED BY <1>1, Always, PTL
==============================================================================
