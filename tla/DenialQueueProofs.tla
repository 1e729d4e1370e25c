-------------------------- MODULE DenialQueueProofs --------------------------
(***************************************************************************)
(* Proofs about DenialQueue, for any denials, any number of overlapping    *)
(* flushes, and any number of crashes, lost replies and failed rewrites:   *)
(* no denial is lost, the queue implements Outbox, and duplicates have a   *)
(* cause.                                                                  *)
(*                                                                         *)
(* NothingLost is not inductive: the denials a flush takes out are those   *)
(* it believes answered.  Inv adds that this belief is true (Answered) and *)
(* that only queued denials are ever sent (Known).                         *)
(***************************************************************************)
EXTENDS DenialQueue, TLAPS

\* What a flush counts as done, or is about to, the hub has dealt with.
Answered ==
  \A f \in Flushes :
    /\ done[f] \subseteq Reached
    /\ sending[f] # None /\ Settles(reply[f]) => sending[f] \in Reached

\* A flush with no request out waits for no reply.
NoReplyWhenIdle == \A f \in Flushes : sending[f] = None => reply[f] = "none"

\* Everything in a snapshot or on the wire was queued once.
Known ==
  /\ \A f \in Flushes : todo[f] \subseteq added /\ sending[f] \in added \cup {None}
  /\ late \subseteq added

Inv == TypeOK /\ Answered /\ NoReplyWhenIdle /\ Known /\ NothingLost

-----------------------------------------------------------------------------
\* The hub dealing with d adds exactly d to Reached.
LEMMA ReachedGrows ==
  ASSUME TypeOK, NEW d \in Denials,
         \/ accepted' = [accepted EXCEPT ![d] = @ + 1] /\ UNCHANGED rejected
         \/ rejected' = rejected \cup {d} /\ UNCHANGED accepted
  PROVE  Reached' = Reached \cup {d} /\ accepted' \in [Denials -> Nat]
<1>1. CASE accepted' = [accepted EXCEPT ![d] = @ + 1] /\ UNCHANGED rejected
  <2>1. accepted' \in [Denials -> Nat] /\ accepted'[d] > 0
    BY <1>1 DEF TypeOK
  <2>2. \A e \in Denials : e # d => accepted'[e] = accepted[e]
    BY <1>1 DEF TypeOK
  <2> QED BY <1>1, <2>1, <2>2 DEF Reached
<1>2. CASE rejected' = rejected \cup {d} /\ UNCHANGED accepted
  BY <1>2 DEF Reached, TypeOK
<1> QED BY <1>1, <1>2

LEMMA InvInit == Init => Inv
<1> SUFFICES ASSUME Init PROVE Inv
  OBVIOUS
<1>1. TypeOK
  BY DEF Init, TypeOK, Replies
<1>2. Answered /\ NoReplyWhenIdle /\ Known /\ NothingLost
  BY DEF Init, Answered, NoReplyWhenIdle, Known, NothingLost
<1> QED BY <1>1, <1>2 DEF Inv

\* One step, seen through the refinement: the hub's knowledge only grows, and the
\* queue loses only what the hub knows.
LEMMA InvStep == Inv /\ [Next]_vars => Inv'
<1> SUFFICES ASSUME Inv, [Next]_vars PROVE Inv'
  OBVIOUS
<1> USE DEF Inv
<1>1. ASSUME NEW d \in Denials, AddDenial(d) PROVE Inv'
  <2>1. Reached' = Reached
    BY <1>1 DEF AddDenial, hubVars, Reached
  <2>2. TypeOK'
    BY <1>1 DEF AddDenial, TypeOK, flushVars, hubVars
  <2>3. Answered' /\ NoReplyWhenIdle'
    BY <1>1, <2>1 DEF AddDenial, Answered, NoReplyWhenIdle, flushVars
  <2>4. Known' /\ NothingLost'
    BY <1>1, <2>1 DEF AddDenial, Known, NothingLost, flushVars, hubVars
  <2> QED BY <2>2, <2>3, <2>4
<1>2. ASSUME NEW d \in Denials, LateArrival(d) PROVE Inv'
  <2>1. Reached' = Reached \cup {d} /\ accepted' \in [Denials -> Nat]
    BY <1>2, ReachedGrows DEF LateArrival
  <2>2. TypeOK'
    BY <1>2, <2>1 DEF LateArrival, TypeOK, flushVars
  <2>3. Answered' /\ NoReplyWhenIdle'
    BY <1>2, <2>1 DEF LateArrival, Answered, NoReplyWhenIdle, flushVars
  <2>4. Known' /\ NothingLost'
    BY <1>2, <2>1 DEF LateArrival, Known, NothingLost, flushVars
  <2> QED BY <2>2, <2>3, <2>4
<1>3. ASSUME NEW f \in Flushes, BeginFlush(f) PROVE Inv'
  <2>1. Reached' = Reached
    BY <1>3 DEF BeginFlush, hubVars, Reached
  <2>2. overlaps' \in BOOLEAN
    BY <1>3 DEF BeginFlush, TypeOK
  <2>3. TypeOK'
    BY <1>3, <2>2 DEF BeginFlush, TypeOK, hubVars
  <2>4. Answered' /\ NoReplyWhenIdle'
    BY <1>3, <2>1 DEF BeginFlush, Answered, NoReplyWhenIdle
  <2>5. Known' /\ NothingLost'
    BY <1>3, <2>1 DEF BeginFlush, Known, NothingLost, hubVars, TypeOK
  <2> QED BY <2>3, <2>4, <2>5
<1>4. ASSUME NEW f \in Flushes, SkipUnsigned(f) PROVE Inv'
  <2>1. Reached' = Reached
    BY <1>4 DEF SkipUnsigned, hubVars, Reached
  <2>2. TypeOK'
    BY <1>4 DEF SkipUnsigned, TodoAfterSkip, TypeOK, hubVars
  <2>3. Answered' /\ NoReplyWhenIdle'
    BY <1>4, <2>1 DEF SkipUnsigned, Answered, NoReplyWhenIdle
  <2>4. Known' /\ NothingLost'
    BY <1>4, <2>1 DEF SkipUnsigned, TodoAfterSkip, Known, NothingLost, hubVars, TypeOK
  <2> QED BY <2>2, <2>3, <2>4
<1>5. ASSUME NEW f \in Flushes, Post(f) PROVE Inv'
  <2>0. PICK d \in todo[f] \ Unsignable : /\ sending' = [sending EXCEPT ![f] = d]
                                          /\ todo' = [todo EXCEPT ![f] = @ \ {d}]
    BY <1>5 DEF Post
  <2>1. Reached' = Reached
    BY <1>5 DEF Post, hubVars, Reached
  <2>2. TypeOK'
    BY <1>5, <2>0 DEF Post, TypeOK, hubVars
  <2>3. reply[f] = "none"
    BY <1>5 DEF Post, Idle, NoReplyWhenIdle
  <2>4. Answered'
    BY <1>5, <2>0, <2>1, <2>3 DEF Post, Answered, Settles, TypeOK
  <2>5. NoReplyWhenIdle'
    BY <1>5, <2>0, <2>3 DEF Post, NoReplyWhenIdle, TypeOK
  <2>6. Known' /\ NothingLost'
    BY <1>5, <2>0, <2>1 DEF Post, Known, NothingLost, hubVars, TypeOK
  <2> QED BY <2>2, <2>4, <2>5, <2>6
<1>6. ASSUME NEW f \in Flushes, HubAccepts(f) PROVE Inv'
  <2>0. sending[f] \in Denials
    BY <1>6 DEF HubAccepts, TypeOK
  <2>1. Reached' = Reached \cup {sending[f]} /\ accepted' \in [Denials -> Nat]
    BY <1>6, <2>0, ReachedGrows DEF HubAccepts
  <2>2. TypeOK'
    BY <1>6, <2>1 DEF HubAccepts, TypeOK, Replies
  <2>3. Answered' /\ NoReplyWhenIdle'
    BY <1>6, <2>1 DEF HubAccepts, Answered, NoReplyWhenIdle, TypeOK
  <2>4. Known' /\ NothingLost'
    BY <1>6, <2>1 DEF HubAccepts, Known, NothingLost
  <2> QED BY <2>2, <2>3, <2>4
<1>7. ASSUME NEW f \in Flushes, HubRejects(f) PROVE Inv'
  <2>0. sending[f] \in Denials
    BY <1>7 DEF HubRejects, TypeOK
  <2>1. Reached' = Reached \cup {sending[f]}
    BY <1>7, <2>0, ReachedGrows DEF HubRejects
  <2>2. TypeOK'
    BY <1>7, <2>0 DEF HubRejects, TypeOK, Replies
  <2>3. Answered' /\ NoReplyWhenIdle'
    BY <1>7, <2>1 DEF HubRejects, Answered, NoReplyWhenIdle, TypeOK
  <2>4. Known' /\ NothingLost'
    BY <1>7, <2>1 DEF HubRejects, Known, NothingLost
  <2> QED BY <2>2, <2>3, <2>4
<1>8. ASSUME NEW f \in Flushes, HubErrs(f) PROVE Inv'
  <2>1. Reached' = Reached
    BY <1>8 DEF HubErrs, hubVars, Reached
  <2>2. losses' \in Nat
    BY <1>8 DEF HubErrs, TypeOK
  <2>3. TypeOK'
    BY <1>8, <2>2 DEF HubErrs, TypeOK, Replies, hubVars
  <2>4. Answered' /\ NoReplyWhenIdle'
    BY <1>8, <2>1 DEF HubErrs, Answered, NoReplyWhenIdle, Settles, TypeOK
  <2>5. Known' /\ NothingLost'
    BY <1>8, <2>1 DEF HubErrs, Known, NothingLost, hubVars
  <2> QED BY <2>3, <2>4, <2>5
<1>9. ASSUME NEW f \in Flushes, GetReply(f) PROVE Inv'
  <2>1. Reached' = Reached
    BY <1>9 DEF GetReply, hubVars, Reached
  <2>2. TypeOK'
    BY <1>9 DEF GetReply, TypeOK, Replies, hubVars
  <2>3. Answered'
    BY <1>9, <2>1 DEF GetReply, Answered, TypeOK
  <2>4. NoReplyWhenIdle'
    BY <1>9 DEF GetReply, NoReplyWhenIdle, TypeOK
  <2>5. Known' /\ NothingLost'
    BY <1>9, <2>1 DEF GetReply, Known, NothingLost, TypeOK, hubVars
  <2> QED BY <2>2, <2>3, <2>4, <2>5
<1>10. ASSUME NEW f \in Flushes, LoseReply(f) PROVE Inv'
  <2>0. OnTheWire(f) \subseteq Denials /\ OnTheWire(f) \subseteq added
    BY <1>10 DEF OnTheWire, TypeOK, Known
  <2>1. Reached' = Reached
    BY <1>10 DEF LoseReply, Reached
  <2>2. losses' \in Nat
    BY <1>10 DEF LoseReply, TypeOK
  <2>3. TypeOK'
    BY <1>10, <2>0, <2>2 DEF LoseReply, TypeOK, Replies
  <2>4. Answered'
    BY <1>10, <2>1 DEF LoseReply, Answered, TypeOK
  <2>5. NoReplyWhenIdle'
    BY <1>10 DEF LoseReply, NoReplyWhenIdle, TypeOK
  <2>6. Known' /\ NothingLost'
    BY <1>10, <2>0, <2>1 DEF LoseReply, Known, NothingLost, TypeOK
  <2> QED BY <2>3, <2>4, <2>5, <2>6
<1>11. ASSUME NEW f \in Flushes, EndFlush(f) PROVE Inv'
  <2>1. Reached' = Reached /\ failures' \in Nat
    BY <1>11 DEF EndFlush, hubVars, Reached, TypeOK
  <2>2. TypeOK'
    BY <1>11, <2>1 DEF EndFlush, Remaining, TypeOK, hubVars
  <2>3. Answered' /\ NoReplyWhenIdle'
    BY <1>11, <2>1 DEF EndFlush, Answered, NoReplyWhenIdle, TypeOK
  <2>4. Known'
    BY <1>11 DEF EndFlush, Known, hubVars
  <2>5. NothingLost'  \* what goes is done, and what is done was answered
    BY <1>11, <2>1 DEF EndFlush, Remaining, NothingLost, Answered
  <2> QED BY <2>2, <2>3, <2>4, <2>5
<1>12. CASE Crash
  <2>0. UNION {OnTheWire(f) : f \in Flushes} \subseteq added
    BY DEF OnTheWire, Known
  <2>1. Reached' = Reached
    BY <1>12 DEF Crash, Reached
  <2>2. crashes' \in Nat
    BY <1>12 DEF Crash, TypeOK
  <2>3. TypeOK'
    BY <1>12, <2>0, <2>2 DEF Crash, TypeOK, Replies
  <2>4. Answered' /\ NoReplyWhenIdle'
    BY <1>12, <2>1 DEF Crash, Answered, NoReplyWhenIdle
  <2>5. Known' /\ NothingLost'
    BY <1>12, <2>0, <2>1 DEF Crash, Known, NothingLost
  <2> QED BY <2>3, <2>4, <2>5
<1>13. CASE UNCHANGED vars
  <2>1. Reached' = Reached
    BY <1>13 DEF vars, Reached
  <2>2. TypeOK' /\ Known' /\ NothingLost'
    BY <1>13, <2>1 DEF vars, TypeOK, Known, NothingLost
  <2>3. Answered' /\ NoReplyWhenIdle'
    BY <1>13, <2>1 DEF vars, Answered, NoReplyWhenIdle
  <2> QED BY <2>2, <2>3
<1> QED
  BY <1>1, <1>2, <1>3, <1>4, <1>5, <1>6, <1>7, <1>8, <1>9, <1>10, <1>11, <1>12, <1>13
     DEF Next, Flush, GoesOn, Hub

\* The strengthened invariant holds in every reachable state.
THEOREM Invariant == Spec => []Inv
BY InvInit, InvStep, PTL DEF Spec

\* The queue, the flushes and the hub keep to their types.
THEOREM TypeCorrect == Spec => []TypeOK
<1>1. Inv => TypeOK
  BY DEF Inv
<1> QED BY <1>1, Invariant, PTL

\* No denial is lost: it is in pending-denials.json or the hub has dealt with it.
THEOREM NothingLostCorrect == Spec => []NothingLost
<1>1. Inv => NothingLost
  BY DEF Inv
<1> QED BY <1>1, Invariant, PTL

-----------------------------------------------------------------------------
\* What the refinement needs of a step in which the hub deals with d: d is in the
\* file, or the hub knew it already.
LEMMA ReachSteps ==
  ASSUME Inv, NEW d \in added, UNCHANGED queue, Reached' = Reached \cup {d}
  PROVE  AbstractOutbox!Reach(d) \/ UNCHANGED <<queue, Reached>>
<1>1. CASE d \in queue
  BY <1>1 DEF AbstractOutbox!Reach
<1>2. CASE d \in Reached
  BY <1>2
<1> QED BY <1>1, <1>2 DEF Inv, NothingLost

\* Every step of the queue is a step of the outbox, or changes nothing it shows.
LEMMA StepRefines == Inv /\ [Next]_vars => [AbstractOutbox!Next]_<<queue, Reached>>
<1> SUFFICES ASSUME Inv, [Next]_vars PROVE [AbstractOutbox!Next]_<<queue, Reached>>
  OBVIOUS
<1>0. added \subseteq Denials /\ queue \subseteq added
  BY DEF Inv, TypeOK
<1>1. ASSUME NEW d \in Denials, AddDenial(d) PROVE AbstractOutbox!TakeIn(d)
  <2>1. Reached' = Reached
    BY <1>1 DEF AddDenial, hubVars, Reached
  <2> QED BY <1>0, <1>1, <2>1 DEF AddDenial, AbstractOutbox!TakeIn
<1>2. ASSUME NEW d \in Denials, LateArrival(d)
      PROVE  \/ \E m \in Denials : AbstractOutbox!Reach(m)
             \/ UNCHANGED <<queue, Reached>>
  <2>1. d \in added /\ UNCHANGED queue
    BY <1>2 DEF LateArrival, Inv, Known
  <2>2. Reached' = Reached \cup {d}
    BY <1>2, ReachedGrows DEF LateArrival, Inv
  <2> QED BY <2>1, <2>2, ReachSteps
<1>3. ASSUME NEW f \in Flushes, HubAccepts(f) \/ HubRejects(f)
      PROVE  \/ \E m \in Denials : AbstractOutbox!Reach(m)
             \/ UNCHANGED <<queue, Reached>>
  <2>1. sending[f] \in added /\ UNCHANGED queue
    BY <1>3 DEF HubAccepts, HubRejects, Inv, Known
  <2>2. Reached' = Reached \cup {sending[f]}
    BY <1>0, <1>3, <2>1, ReachedGrows DEF HubAccepts, HubRejects, Inv
  <2> QED BY <1>0, <2>1, <2>2, ReachSteps
<1>4. ASSUME NEW f \in Flushes, EndFlush(f)
      PROVE  \/ \E S \in SUBSET queue : AbstractOutbox!Release(S)
             \/ UNCHANGED <<queue, Reached>>
  <2> DEFINE S == done[f] \cap queue
  <2>1. Reached' = Reached /\ (queue' = queue \ S \/ queue' = queue)
    BY <1>4 DEF EndFlush, Remaining, hubVars, Reached
  <2>2. S \subseteq queue \cap Reached
    BY DEF Inv, Answered
  <2> QED BY <2>1, <2>2 DEF AbstractOutbox!Release
<1>5. ASSUME NEW f \in Flushes,
             \/ BeginFlush(f) \/ SkipUnsigned(f) \/ Post(f)
             \/ GetReply(f) \/ LoseReply(f) \/ HubErrs(f)
      PROVE  UNCHANGED <<queue, Reached>>
  BY <1>5 DEF BeginFlush, SkipUnsigned, Post, GetReply, LoseReply, HubErrs, hubVars, Reached
<1>6. CASE Crash \/ UNCHANGED vars
  BY <1>6 DEF Crash, vars, Reached
<1> QED
  BY <1>1, <1>2, <1>3, <1>4, <1>5, <1>6 DEF Next, Flush, GoesOn, Hub, AbstractOutbox!Next

\* The denial queue implements the outbox, with the file as what is held.
THEOREM ImplementsOutbox == Spec => OutboxSpec
<1>1. Init => AbstractOutbox!Init
  BY DEF Init, AbstractOutbox!Init, Reached
<1> QED BY <1>1, StepRefines, Invariant, PTL DEF Spec, OutboxSpec, AbstractOutbox!Spec, AbstractOutbox!vars

-----------------------------------------------------------------------------
(* Duplicates.  A flush that has not begun, or is over, holds nothing; and as long
   as nothing went wrong there is one flush, and what the hub took it remembers. *)

Rests == \A f \in Flushes \ running : todo[f] = {} /\ done[f] = {} /\ sending[f] = None

Calm == ~overlaps /\ crashes = 0 /\ losses = 0 /\ failures = 0

\* The running flush knows that the hub took d.
Remembers(f, d) == d \in done[f] \/ (sending[f] = d /\ reply[f] = "2xx")

Once(d) ==
  /\ accepted[d] <= 1
  /\ accepted[d] > 0 =>
       /\ d \in added
       /\ \A f \in Flushes : d \notin todo[f] /\ (sending[f] = d => reply[f] = "2xx")
       /\ d \in queue => \E f \in running : Remembers(f, d)

Tidy ==
  Calm =>
    /\ late = {} /\ \A f, g \in running : f = g
    /\ \A f \in Flushes : sending[f] \notin todo[f]
    /\ \A d \in Denials : Once(d)

LEMMA RestsStep == Inv /\ Rests /\ [Next]_vars => Rests'
<1> SUFFICES ASSUME Inv, Rests, [Next]_vars PROVE Rests'
  OBVIOUS
<1> USE DEF Inv
<1>1. ASSUME NEW d \in Denials, AddDenial(d) \/ LateArrival(d) PROVE Rests'
  BY <1>1 DEF AddDenial, LateArrival, flushVars, Rests
<1>2. ASSUME NEW f \in Flushes, BeginFlush(f) PROVE Rests'
  BY <1>2 DEF BeginFlush, Rests, TypeOK
<1>3. ASSUME NEW f \in Flushes, SkipUnsigned(f) PROVE Rests'
  BY <1>3 DEF SkipUnsigned, Idle, Rests, TypeOK
<1>4. ASSUME NEW f \in Flushes, Post(f) PROVE Rests'
  BY <1>4 DEF Post, Idle, Rests, TypeOK
<1>5. ASSUME NEW f \in Flushes, Hub(f) PROVE Rests'
  BY <1>5 DEF Hub, HubAccepts, HubRejects, HubErrs, Rests
<1>6. ASSUME NEW f \in Flushes, GetReply(f) \/ LoseReply(f) PROVE Rests'
  <2>1. f \in running
    BY <1>6 DEF GetReply, LoseReply, Rests
  <2> QED BY <1>6, <2>1 DEF GetReply, LoseReply, Rests, TypeOK
<1>7. ASSUME NEW f \in Flushes, EndFlush(f) PROVE Rests'
  BY <1>7 DEF EndFlush, Idle, Rests, TypeOK
<1>8. CASE Crash \/ UNCHANGED vars
  BY <1>8 DEF Crash, vars, Rests
<1> QED BY <1>1, <1>2, <1>3, <1>4, <1>5, <1>6, <1>7, <1>8 DEF Next, Flush, GoesOn

\* Nothing that went wrong is undone.
LEMMA CalmBefore ==
  ASSUME Inv, [Next]_vars, Calm'
  PROVE  Calm
<1> DEFINE Counted == /\ crashes' \in {crashes, crashes + 1} /\ losses' \in {losses, losses + 1}
                     /\ failures' \in {failures, failures + 1}
<1>1. ASSUME NEW d \in Denials, AddDenial(d) \/ LateArrival(d)
      PROVE  Counted /\ overlaps' = overlaps
  BY <1>1 DEF AddDenial, LateArrival
<1>2. ASSUME NEW f \in Flushes, SkipUnsigned(f) \/ Post(f)
      PROVE  Counted /\ overlaps' = overlaps
  BY <1>2 DEF SkipUnsigned, Post
<1>3. ASSUME NEW f \in Flushes, GetReply(f) \/ LoseReply(f) \/ EndFlush(f)
      PROVE  Counted /\ overlaps' = overlaps
  BY <1>3 DEF GetReply, LoseReply, EndFlush
<1>4. ASSUME NEW f \in Flushes, Hub(f) PROVE Counted /\ overlaps' = overlaps
  BY <1>4 DEF Hub, HubAccepts, HubRejects, HubErrs
<1>5. CASE Crash
  BY <1>5 DEF Crash, Calm, Inv, TypeOK
<1>6. ASSUME NEW f \in Flushes, BeginFlush(f)
      PROVE  Counted /\ overlaps' = (overlaps \/ running # {})
  BY <1>6 DEF BeginFlush
<1>7. CASE UNCHANGED vars
  BY <1>7 DEF vars, Calm
<1>8. ASSUME Counted, overlaps' = overlaps PROVE Calm
  BY <1>8 DEF Calm, Inv, TypeOK
<1>9. ASSUME Counted, overlaps' = (overlaps \/ running # {}) PROVE Calm
  BY <1>9 DEF Calm, Inv, TypeOK
<1> QED BY <1>1, <1>2, <1>3, <1>4, <1>5, <1>6, <1>7, <1>8, <1>9 DEF Next, Flush, GoesOn

LEMMA TidyStep == Inv /\ Rests /\ Tidy /\ [Next]_vars => Tidy'
<1> SUFFICES ASSUME Inv, Rests, Tidy, [Next]_vars, Calm' PROVE Tidy'
  BY DEF Tidy
<1> USE DEF Inv
<1>0. /\ Calm /\ late = {} /\ \A f, g \in running : f = g
      /\ \A f \in Flushes : sending[f] \notin todo[f]
      /\ \A d \in Denials : Once(d)
  BY CalmBefore DEF Tidy
<1>1. ASSUME NEW d \in Denials, AddDenial(d) PROVE Tidy'
  <2>1. d \notin added
    BY <1>1 DEF AddDenial
  <2>2. \A e \in Denials : Once(e)'
    BY <1>0, <1>1, <2>1 DEF AddDenial, Once, Remembers, flushVars, hubVars, TypeOK
  <2> QED BY <1>0, <1>1, <2>2 DEF AddDenial, Tidy, flushVars, hubVars
<1>2. ASSUME NEW d \in Denials, LateArrival(d) PROVE FALSE
  BY <1>0, <1>2 DEF LateArrival
<1>3. ASSUME NEW f \in Flushes, BeginFlush(f) PROVE Tidy'
  <2>1. running = {} /\ running' = {f}
    BY <1>3 DEF BeginFlush, Calm
  <2>2. /\ todo' = [todo EXCEPT ![f] = queue] /\ queue' = queue /\ added' = added
        /\ sending' = sending /\ reply' = reply /\ accepted' = accepted /\ late' = late
    BY <1>3 DEF BeginFlush, hubVars
  <2>3. sending[f] = None /\ None \notin queue
    BY <2>1, NoneAssumption DEF Rests, TypeOK
  <2>4. \A g \in Flushes : sending'[g] \notin todo'[g]
    BY <1>0, <2>2, <2>3 DEF TypeOK
  <2>5. ASSUME NEW e \in Denials PROVE Once(e)'
    <3>1. accepted[e] > 0 => e \notin queue
      BY <1>0, <2>1 DEF Once
    <3> QED BY <1>0, <2>2, <3>1 DEF Once, TypeOK
  <2> QED BY <1>0, <2>1, <2>2, <2>4, <2>5 DEF Tidy
<1>4. ASSUME NEW f \in Flushes, SkipUnsigned(f) PROVE Tidy'
  <2>1. /\ queue' = queue /\ added' = added /\ running' = running /\ sending' = sending
        /\ reply' = reply /\ done' = done /\ accepted' = accepted /\ late' = late
        /\ \A g \in Flushes : todo'[g] \subseteq todo[g]
    BY <1>4 DEF SkipUnsigned, TodoAfterSkip, hubVars, TypeOK
  <2>2. \A e \in Denials : Once(e)'
    BY <1>0, <2>1 DEF Once, Remembers
  <2> QED BY <1>0, <2>1, <2>2 DEF Tidy
<1>5. ASSUME NEW f \in Flushes, Post(f) PROVE Tidy'
  <2>0. PICK d \in todo[f] \ Unsignable : /\ sending' = [sending EXCEPT ![f] = d]
                                          /\ todo' = [todo EXCEPT ![f] = @ \ {d}]
    BY <1>5 DEF Post
  <2>1. /\ queue' = queue /\ added' = added /\ running' = running /\ sending[f] = None
        /\ reply' = reply /\ done' = done /\ accepted' = accepted /\ late' = late
    BY <1>5 DEF Post, Idle, hubVars
  <2>2. /\ sending'[f] = d /\ todo'[f] = todo[f] \ {d}
        /\ \A g \in Flushes \ {f} : sending'[g] = sending[g] /\ todo'[g] = todo[g]
    BY <2>0 DEF TypeOK
  <2>3. d \in Denials /\ ~(accepted[d] > 0)
    BY <1>0 DEF Once, TypeOK
  <2>4. ASSUME NEW e \in Denials PROVE Once(e)'
    <3>1. CASE accepted[e] > 0
      <4>1. e # d /\ e # None
        BY <2>3, <3>1, NoneAssumption
      <4>2. \A g \in Flushes : e \notin todo'[g] /\ (sending'[g] = e => reply[g] = "2xx")
        BY <1>0, <2>2, <3>1, <4>1 DEF Once
      <4>3. \A g \in running : Remembers(g, e) => Remembers(g, e)'
        BY <2>1, <2>2, <4>1 DEF Remembers, TypeOK
      <4> QED BY <1>0, <2>1, <3>1, <4>2, <4>3 DEF Once
    <3>2. CASE ~(accepted[e] > 0)
      BY <1>0, <2>1, <3>2 DEF Once
    <3> QED BY <3>1, <3>2
  <2> QED BY <1>0, <2>1, <2>2, <2>4 DEF Tidy
<1>6. ASSUME NEW f \in Flushes, HubAccepts(f) PROVE Tidy'
  <2>0. PICK d \in Denials : d = sending[f]
    BY <1>6 DEF HubAccepts, TypeOK
  <2>1. /\ d \in Denials /\ d \in added /\ reply[f] = "none" /\ f \in running
        /\ ~(accepted[d] > 0)
    BY <1>0, <1>6, <2>0 DEF HubAccepts, TypeOK, Known, Rests, Once
  <2>2. /\ queue' = queue /\ added' = added /\ running' = running /\ sending' = sending
        /\ todo' = todo /\ done' = done /\ late' = late
        /\ accepted'[d] = accepted[d] + 1 /\ reply'[f] = "2xx"
        /\ \A e \in Denials \ {d} : accepted'[e] = accepted[e]
        /\ \A g \in Flushes \ {f} : reply'[g] = reply[g]
    BY <1>6, <2>0, <2>1 DEF HubAccepts, TypeOK
  <2>3. Once(d)'
    <3>1. \A g \in Flushes \ {f} : todo[g] = {} /\ sending[g] # d
      BY <1>0, <2>0, <2>1, NoneAssumption DEF Rests
    <3>2. d \notin todo[f]
      BY <1>0, <2>0
    <3>3. accepted'[d] <= 1
      BY <2>1, <2>2 DEF TypeOK
    <3> QED BY <2>0, <2>1, <2>2, <3>1, <3>2, <3>3 DEF Once, Remembers
  <2>4. ASSUME NEW e \in Denials \ {d} PROVE Once(e)'
    <3>1. \A g \in Flushes : sending[g] = e => g # f
      BY <2>0
    <3>2. \A g \in Flushes : Remembers(g, e) => Remembers(g, e)'
      BY <2>2, <3>1 DEF Remembers
    <3> QED BY <1>0, <2>2, <3>1, <3>2, <2>1 DEF Once, TypeOK
  <2>5. ASSUME NEW e \in Denials PROVE Once(e)'
    <3>1. CASE e = d
      BY <2>3, <3>1
    <3>2. CASE e # d
      BY <2>4, <3>2
    <3> QED BY <3>1, <3>2
  <2> QED BY <1>0, <2>2, <2>5 DEF Tidy
<1>7. ASSUME NEW f \in Flushes, HubRejects(f) PROVE Tidy'
  <2>1. /\ queue' = queue /\ added' = added /\ running' = running /\ sending' = sending
        /\ todo' = todo /\ done' = done /\ late' = late /\ accepted' = accepted
        /\ reply[f] = "none" /\ \A g \in Flushes \ {f} : reply'[g] = reply[g]
    BY <1>7 DEF HubRejects, TypeOK
  <2>2. ASSUME NEW e \in Denials PROVE Once(e)'
    <3>1. accepted[e] > 0 => sending[f] # e
      BY <1>0, <2>1 DEF Once
    <3>2. accepted[e] > 0 => \A g \in Flushes : Remembers(g, e) => Remembers(g, e)'
      BY <2>1, <3>1 DEF Remembers
    <3> QED BY <1>0, <2>1, <3>1, <3>2 DEF Once, TypeOK
  <2> QED BY <1>0, <2>1, <2>2 DEF Tidy
<1>8. ASSUME NEW f \in Flushes, HubErrs(f) \/ LoseReply(f) PROVE FALSE
  BY <1>0, <1>8 DEF HubErrs, LoseReply, Calm, TypeOK
<1>9. ASSUME NEW f \in Flushes, GetReply(f) PROVE Tidy'
  <2>1. /\ queue' = queue /\ added' = added /\ running' = running /\ todo' = todo
        /\ accepted' = accepted /\ late' = late /\ sending[f] # None
        /\ \A g \in Flushes \ {f} : /\ sending'[g] = sending[g] /\ reply'[g] = reply[g]
                                    /\ done'[g] = done[g]
    BY <1>9 DEF GetReply, hubVars, TypeOK
  <2>2. /\ sending'[f] = None /\ None \notin todo[f]
        /\ done'[f] = IF Settles(reply[f]) THEN done[f] \cup {sending[f]} ELSE done[f]
    BY <1>9, NoneAssumption DEF GetReply, TypeOK
  <2>3. ASSUME NEW e \in Denials PROVE Once(e)'
    <3>1. e # None
      BY NoneAssumption
    <3>2. \A g \in Flushes : Remembers(g, e) => Remembers(g, e)'
      BY <2>1, <2>2 DEF Remembers, Settles
    <3> QED BY <1>0, <2>1, <2>2, <3>1, <3>2 DEF Once, TypeOK
  <2>4. \A g \in Flushes : sending'[g] \notin todo'[g]
    BY <1>0, <2>1, <2>2
  <2> QED BY <1>0, <2>1, <2>3, <2>4 DEF Tidy
<1>10. ASSUME NEW f \in Flushes, EndFlush(f) PROVE Tidy'
  <2>0. failures' = failures
    BY <1>0, <1>10 DEF EndFlush, Calm, TypeOK
  <2>1. /\ queue' = queue \ done[f] /\ added' = added /\ running' = running \ {f}
        /\ todo' = todo /\ sending' = sending /\ reply' = reply /\ accepted' = accepted
        /\ late' = late /\ f \in running /\ sending[f] = None
    BY <1>10, <2>0 DEF EndFlush, Remaining, Idle, hubVars, TypeOK
  <2>2. ASSUME NEW e \in Denials PROVE Once(e)'
    <3>1. accepted[e] > 0 /\ e \in queue => e \in done[f]
      BY <1>0, <2>1, NoneAssumption DEF Once, Remembers
    <3> QED BY <1>0, <2>1, <3>1 DEF Once
  <2> QED BY <1>0, <2>1, <2>2 DEF Tidy
<1>11. CASE Crash
  BY <1>0, <1>11 DEF Crash, Calm, TypeOK
<1>12. CASE UNCHANGED vars
  <2>1. \A e \in Denials : Once(e)'
    BY <1>0, <1>12 DEF vars, Once, Remembers
  <2> QED BY <1>0, <1>12, <2>1 DEF vars, Tidy
<1> QED
  BY <1>1, <1>2, <1>3, <1>4, <1>5, <1>6, <1>7, <1>8, <1>9, <1>10, <1>11, <1>12
     DEF Next, Flush, GoesOn, Hub

(* Without overlapping flushes, lost replies, crashes and rewrites of the   *)
(* file that fail, the hub takes no denial twice, however many are queued   *)
(* and flushed.                                                             *)
THEOREM DuplicatesCorrect == Spec => []DuplicatesHaveACause
<1>1. Init => Rests /\ Tidy
  BY NoneAssumption DEF Init, Rests, Tidy, Once
<1>2. Rests /\ Tidy => DuplicatesHaveACause
  BY DEF Tidy, Calm, Once, DuplicatesHaveACause
<1> QED BY <1>1, <1>2, RestsStep, TidyStep, Invariant, PTL DEF Spec
=============================================================================
