----------------------------- MODULE DenialQueue -----------------------------
(***************************************************************************)
(* The denial queue: refusals of a memory on their way to the hub.         *)
(*                                                                         *)
(* POST /v1/denials appends a denial to pending-denials.json and starts a  *)
(* flush; so do every recall and a 60 s timer, and nothing keeps flushes   *)
(* from overlapping (src/denial-queue.ts).  A flush takes a snapshot of    *)
(* the file, signs and posts the denials one after the other, and only at  *)
(* the end reads the file again to take out those the hub answered for.    *)
(* The process may die at any point; a reply may be lost, late or wrongly  *)
(* signed after the hub has acted; the rewrite of the file may fail, and   *)
(* what was answered then stays in it.                                     *)
(*                                                                         *)
(* The file's order is not modelled: a flush posts its snapshot in any     *)
(* order.  An id is a random UUID: a member of Denials, used once.         *)
(***************************************************************************)
EXTENDS Integers, FiniteSets

CONSTANTS
  Denials,     \* ids of denials
  Unsignable,  \* those whose org key this machine cannot derive
  Flushes,     \* flush calls that can be under way at once
  None,
  MaxLosses,   \* bounds: replies that never count,
  MaxMishaps   \*   deaths of the process and rewrites that fail, together

ASSUME UnsignableAssumption == Unsignable \subseteq Denials
ASSUME NoneAssumption == None \notin Denials
ASSUME BoundsAssumption == MaxLosses \in Nat /\ MaxMishaps \in Nat

VARIABLES
  queue,    \* pending-denials.json
  added,    \* denials ever queued
  running,  \* flush calls under way
  todo,     \* [Flushes -> SUBSET Denials]: what is left of each snapshot
  sending,  \* [Flushes -> Denials or None]: the request that is out
  reply,    \* [Flushes -> the hub's answer to it, not yet seen]
  done,     \* [Flushes -> successIds]
  accepted, \* [Denials -> how often the hub accepted it]
  rejected, \* denials the hub refused with a 4xx
  late,     \* requests nobody waits for any more that may still reach the hub
  overlaps, \* history: two flushes were under way at once
  crashes, losses, failures \* counters for the bounds

flushVars == <<running, todo, sending, reply, done>>
hubVars   == <<accepted, rejected, late>>
vars == <<queue, added, running, todo, sending, reply, done, accepted, rejected, late,
          overlaps, crashes, losses, failures>>

Replies == {"none", "2xx", "4xx", "5xx"}

-----------------------------------------------------------------------------
Init ==
  /\ queue = {} /\ added = {}
  /\ running = {}
  /\ todo = [f \in Flushes |-> {}] /\ done = [f \in Flushes |-> {}]
  /\ sending = [f \in Flushes |-> None] /\ reply = [f \in Flushes |-> "none"]
  /\ accepted = [d \in Denials |-> 0] /\ rejected = {} /\ late = {}
  /\ overlaps = FALSE /\ crashes = 0 /\ losses = 0 /\ failures = 0

Mishaps == crashes + failures

\* addDenial reads, appends and renames without a pause.
AddDenial(d) ==
  /\ d \notin added
  /\ added' = added \cup {d} /\ queue' = queue \cup {d}
  /\ UNCHANGED <<flushVars, hubVars, overlaps, crashes, losses, failures>>

\* flushDenials starts: on a recall, on POST /v1/denials, or on the timer.
BeginFlush(f) ==
  /\ f \notin running /\ queue # {}
  /\ running' = running \cup {f}
  /\ todo' = [todo EXCEPT ![f] = queue]
  /\ overlaps' = (overlaps \/ running # {})
  /\ UNCHANGED <<queue, added, sending, reply, done, hubVars, crashes, losses, failures>>

Idle(f) == f \in running /\ sending[f] = None

\* Signing the request, or the denial itself, fails: on to the next one.
TodoAfterSkip_GivesUp(f, d) == {}
TodoAfterSkip(f, d) == todo[f] \ {d}

SkipUnsigned(f) ==
  /\ Idle(f)
  /\ \E d \in todo[f] \cap Unsignable : todo' = [todo EXCEPT ![f] = TodoAfterSkip(f, d)]
  /\ UNCHANGED <<queue, added, running, sending, reply, done, hubVars, overlaps, crashes, losses, failures>>

Post(f) ==
  /\ Idle(f)
  /\ \E d \in todo[f] \ Unsignable :
       /\ sending' = [sending EXCEPT ![f] = d]
       /\ todo' = [todo EXCEPT ![f] = @ \ {d}]
  /\ UNCHANGED <<queue, added, running, reply, done, hubVars, overlaps, crashes, losses, failures>>

\* The hub gets the request and acts on it; its answer is on the way.
HubAccepts(f) ==
  /\ sending[f] # None /\ reply[f] = "none"
  /\ accepted' = [accepted EXCEPT ![sending[f]] = @ + 1]
  /\ reply' = [reply EXCEPT ![f] = "2xx"]
  /\ UNCHANGED <<queue, added, running, todo, sending, done, rejected, late, overlaps, crashes, losses, failures>>

HubRejects(f) ==
  /\ sending[f] # None /\ reply[f] = "none"
  /\ rejected' = rejected \cup {sending[f]}
  /\ reply' = [reply EXCEPT ![f] = "4xx"]
  /\ UNCHANGED <<queue, added, running, todo, sending, done, accepted, late, overlaps, crashes, losses, failures>>

HubErrs(f) ==
  /\ sending[f] # None /\ reply[f] = "none" /\ losses < MaxLosses
  /\ reply' = [reply EXCEPT ![f] = "5xx"] /\ losses' = losses + 1
  /\ UNCHANGED <<queue, added, running, todo, sending, done, hubVars, overlaps, crashes, failures>>

\* 2xx and 4xx settle a denial, 5xx leaves it for the next flush.
Settles_Any(r) == r # "none"
Settles(r) == r \in {"2xx", "4xx"}

GetReply(f) ==
  /\ sending[f] # None /\ reply[f] # "none"
  /\ done' = [done EXCEPT ![f] = IF Settles(reply[f]) THEN @ \cup {sending[f]} ELSE @]
  /\ sending' = [sending EXCEPT ![f] = None]
  /\ reply' = [reply EXCEPT ![f] = "none"]
  /\ UNCHANGED <<queue, added, running, todo, hubVars, overlaps, crashes, losses, failures>>

\* The request of f, if the hub has not got it yet.
OnTheWire(f) == IF sending[f] # None /\ reply[f] = "none" THEN {sending[f]} ELSE {}

\* hubFetchVerified throws: 10 s are over, the network fails, or the signature of
\* the reply does not verify -- whether or not the hub has acted.
LoseReply(f) ==
  /\ sending[f] # None /\ losses < MaxLosses
  /\ losses' = losses + 1
  /\ late' = late \cup OnTheWire(f)
  /\ sending' = [sending EXCEPT ![f] = None]
  /\ reply' = [reply EXCEPT ![f] = "none"]
  /\ UNCHANGED <<queue, added, running, todo, done, accepted, rejected, overlaps, crashes, failures>>

\* A request that was given up, or whose sender died, arrives after all.
LateArrival(d) ==
  /\ d \in late /\ late' = late \ {d}
  /\ \/ accepted' = [accepted EXCEPT ![d] = @ + 1] /\ UNCHANGED rejected
     \/ rejected' = rejected \cup {d} /\ UNCHANGED accepted
  /\ UNCHANGED <<queue, added, flushVars, overlaps, crashes, losses, failures>>

\* removeDenials reads the file again, so what was added meanwhile stays.
Remaining_Snapshot(f) == IF done[f] = {} THEN queue ELSE {}
Remaining_Never(f) == queue
Remaining(f) == queue \ done[f]

\* The rewrite may throw; the caller only logs that, and the flush is over.
EndFlush(f) ==
  /\ Idle(f) /\ todo[f] = {}
  /\ \/ queue' = Remaining(f) /\ UNCHANGED failures
     \/ done[f] # {} /\ Mishaps < MaxMishaps /\ failures' = failures + 1 /\ UNCHANGED queue
  /\ running' = running \ {f}
  /\ done' = [done EXCEPT ![f] = {}]
  /\ UNCHANGED <<added, todo, sending, reply, hubVars, overlaps, crashes, losses>>

\* The process dies; the file is whole, before or after the rename.
Crash ==
  /\ Mishaps < MaxMishaps /\ crashes' = crashes + 1
  /\ running' = {}
  /\ todo' = [f \in Flushes |-> {}] /\ done' = [f \in Flushes |-> {}]
  /\ sending' = [f \in Flushes |-> None] /\ reply' = [f \in Flushes |-> "none"]
  /\ late' = late \cup UNION {OnTheWire(f) : f \in Flushes}
  /\ UNCHANGED <<queue, added, accepted, rejected, overlaps, losses, failures>>

Hub(f)   == HubAccepts(f) \/ HubRejects(f) \/ HubErrs(f)
GoesOn(f) == SkipUnsigned(f) \/ Post(f) \/ GetReply(f) \/ EndFlush(f)
Flush(f) == BeginFlush(f) \/ GoesOn(f) \/ LoseReply(f)
Next     == (\E d \in Denials : AddDenial(d) \/ LateArrival(d)) \/ (\E f \in Flushes : Flush(f) \/ Hub(f)) \/ Crash

Spec == Init /\ [][Next]_vars

\* The timer keeps starting flushes and a flush runs to its end.  Of the hub it is
\* assumed that it answers a request that stays out: the bounds stand for an
\* outage, or a full disk, that ends.
FairSpec ==
  /\ Spec
  /\ \A f \in Flushes : /\ WF_vars(BeginFlush(f)) /\ WF_vars(GoesOn(f))
                        /\ WF_vars(HubAccepts(f) \/ HubRejects(f))

-----------------------------------------------------------------------------
(* Properties. *)

\* The variables hold values of their types.
TypeOK ==
  /\ queue \subseteq added /\ added \subseteq Denials
  /\ running \subseteq Flushes
  /\ todo \in [Flushes -> SUBSET Denials] /\ done \in [Flushes -> SUBSET Denials]
  /\ sending \in [Flushes -> Denials \cup {None}] /\ reply \in [Flushes -> Replies]
  /\ accepted \in [Denials -> Nat] /\ rejected \subseteq Denials /\ late \subseteq Denials
  /\ overlaps \in BOOLEAN /\ crashes \in Nat /\ losses \in Nat /\ failures \in Nat

\* The hub has dealt with a denial: it took it, or refused it with a 4xx.
Reached == {d \in Denials : accepted[d] > 0} \cup rejected

(* A denial leaves the file only after the hub took it or refused it for    *)
(* good, however flushes overlap, replies are lost, denials are added       *)
(* during a flush, and the process dies.                                    *)
NothingLost == added \subseteq queue \cup Reached

(* With no overlapping flushes, no lost reply, no crash and no rewrite of   *)
(* the file that failed, no denial is posted again once the hub took it:    *)
(* the duplicates the hub has to put up with come from those four alone.    *)
DuplicatesHaveACause ==
  ~overlaps /\ crashes = 0 /\ losses = 0 /\ failures = 0 =>
    \A d \in Denials : accepted[d] <= 1

(* Every denial that can be signed leaves the queue: one that cannot is no  *)
(* obstacle to the others.                                                  *)
SignableLeave == \A d \in Denials \ Unsignable : (d \in queue) ~> (d \notin queue)

(* The queue is an outbox: it takes a denial in, holds it, and releases it  *)
(* when the hub has dealt with it.                                          *)
AbstractOutbox == INSTANCE Outbox WITH Messages <- Denials, held <- queue, reached <- Reached
OutboxSpec == AbstractOutbox!Spec
=============================================================================
