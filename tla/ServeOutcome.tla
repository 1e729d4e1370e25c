---------------------------- MODULE ServeOutcome ----------------------------
(***************************************************************************)
(* Serves and their outcomes: pairing what the agent was given with how it *)
(* turned out.                                                             *)
(*                                                                         *)
(* POST /v1/serves notes, in pending-serve-refs.json, that an episode was  *)
(* served a memory in some epoch (src/serve-ref-store.ts).  A later POST   *)
(* of an outcome event for the episode takes that memo out, signs the      *)
(* outcome with it and posts it to the hub; when the hub does not answer   *)
(* with a 2xx, the memo is put back.  Both handlers of src/http-server.ts  *)
(* await the hub several times, so any number of them interleave.          *)
(*                                                                         *)
(* One org.  The store's functions read, change and rename the file        *)
(* without a pause.  A serve stands for the serve_ref computed from its    *)
(* memory, key and epoch; the memory itself is read by nothing here.       *)
(***************************************************************************)
EXTENDS Integers

CONSTANTS
  Episodes,
  Serves,     \* calls of POST /v1/serves
  Outcomes,   \* calls of POST /v1/orgs/{org}/outcome-events
  None,
  MaxEpoch, MaxCrashes, MaxLosses, MaxFailures \* bounds

ASSUME NoneAssumption == None \notin Episodes \cup Serves
ASSUME BoundsAssumption ==
  MaxEpoch \in Nat /\ MaxCrashes \in Nat /\ MaxLosses \in Nat /\ MaxFailures \in Nat

VARIABLES
  epochNow, \* the hub's current chain epoch
  store,    \* pending-serve-refs.json: [Episodes -> memo or None]
  serveAt,  \* [Serves -> how far the call is]
  served,   \* [Serves -> its episode and epoch]
  at,       \* [Outcomes -> how far the call is]
  about,    \* [Outcomes -> its episode, and whether its resolution claims the serve]
  memo,     \* [Outcomes -> the memo it was paired with, or NoMemo]
  atHub,    \* [Outcomes -> what became of its request]
  crashes, losses, failures \* counters for the bounds

serveVars == <<serveAt, served>>
callVars  == <<at, about, memo>>
vars == <<epochNow, store, serveAt, served, at, about, memo, atHub, crashes, losses, failures>>

Epochs == 0..MaxEpoch
Memos  == [epoch : Epochs, serve : Serves]
NoMemo == [epoch |-> 0, serve |-> None]

-----------------------------------------------------------------------------
(* src/serve-ref-store.ts *)

\* recordServeRef: a memo never gives way to one of an older epoch.
Recorded_Always(e, m) == [store EXCEPT ![e] = m]
Recorded(e, m) ==
  IF store[e] = NoMemo \/ m.epoch >= store[e].epoch THEN [store EXCEPT ![e] = m] ELSE store

\* consumeServeRef and peekServeRef find the memo of the episode.
Lookup_AnyEpisode(e) ==
  IF \E k \in Episodes : store[k] # NoMemo
  THEN store[CHOOSE k \in Episodes : store[k] # NoMemo] ELSE NoMemo
Lookup(e) == store[e]

\* worked and didnt_work claim the serve and take the memo out; unobserved peeks.
StoreAfterPairing_PeekOnly(o) == store
StoreAfterPairing(o) ==
  IF about[o].claims THEN [store EXCEPT ![about[o].episode] = NoMemo] ELSE store

\* restorePendingServeRef
Restored(o) ==
  IF about[o].claims THEN Recorded(about[o].episode, memo[o]) ELSE store

-----------------------------------------------------------------------------
Init ==
  /\ epochNow = 0
  /\ store = [e \in Episodes |-> NoMemo]
  /\ serveAt = [s \in Serves |-> "new"]
  /\ served = [s \in Serves |-> [episode |-> None, epoch |-> 0]]
  /\ at = [o \in Outcomes |-> "new"]
  /\ about = [o \in Outcomes |-> [episode |-> None, claims |-> FALSE]]
  /\ memo = [o \in Outcomes |-> NoMemo]
  /\ atHub = [o \in Outcomes |-> "none"]
  /\ crashes = 0 /\ losses = 0 /\ failures = 0

AdvanceEpoch ==
  /\ epochNow < MaxEpoch /\ epochNow' = epochNow + 1
  /\ UNCHANGED <<store, serveVars, callVars, atHub, crashes, losses, failures>>

\* handleServes has its epoch from the hub; it still checks the memory and signs.
BeginServe(s) ==
  /\ serveAt[s] = "new"
  /\ serveAt' = [serveAt EXCEPT ![s] = "signing"]
  /\ \E e \in Episodes : served' = [served EXCEPT ![s] = [episode |-> e, epoch |-> epochNow]]
  /\ UNCHANGED <<epochNow, store, callVars, atHub, crashes, losses, failures>>

\* The memo is written before the serve is posted; what the hub then says of the
\* serve, or that it says nothing, changes nothing here.
RecordServe(s) ==
  /\ serveAt[s] = "signing"
  /\ serveAt' = [serveAt EXCEPT ![s] = "recorded"]
  /\ store' = Recorded(served[s].episode, [epoch |-> served[s].epoch, serve |-> s])
  /\ UNCHANGED <<epochNow, served, callVars, atHub, crashes, losses, failures>>

\* The memory is not approved, or a key or a signature fails.
ServeFails(s) ==
  /\ serveAt[s] = "signing"
  /\ serveAt' = [serveAt EXCEPT ![s] = "over"]
  /\ UNCHANGED <<epochNow, store, served, callVars, atHub, crashes, losses, failures>>

\* handleOutcomeEvents passed its checks; the identity is being loaded.
BeginOutcome(o) ==
  /\ at[o] = "new"
  /\ at' = [at EXCEPT ![o] = "checked"]
  /\ \E e \in Episodes, c \in BOOLEAN : about' = [about EXCEPT ![o] = [episode |-> e, claims |-> c]]
  /\ UNCHANGED <<epochNow, store, serveVars, memo, atHub, crashes, losses, failures>>

\* No memo: 409.
Pair(o) ==
  /\ at[o] = "checked"
  /\ LET m == Lookup(about[o].episode) IN
     IF m = NoMemo
     THEN /\ at' = [at EXCEPT ![o] = "over"]
          /\ UNCHANGED <<store, memo>>
     ELSE /\ at' = [at EXCEPT ![o] = "signing"]
          /\ memo' = [memo EXCEPT ![o] = m]
          /\ store' = StoreAfterPairing(o)
  /\ UNCHANGED <<epochNow, serveVars, about, atHub, crashes, losses, failures>>

\* Deriving the key, signing or building the auth headers fails: the call ends, and
\* the memo it took out is not put back.
OutcomeFails(o) ==
  /\ at[o] = "signing" /\ failures < MaxFailures
  /\ at' = [at EXCEPT ![o] = "over"] /\ failures' = failures + 1
  /\ UNCHANGED <<epochNow, store, serveVars, about, memo, atHub, crashes, losses>>

PostOutcome(o) ==
  /\ at[o] = "signing"
  /\ at' = [at EXCEPT ![o] = "posted"]
  /\ atHub' = [atHub EXCEPT ![o] = "out"]
  /\ UNCHANGED <<epochNow, store, serveVars, about, memo, crashes, losses, failures>>

\* The hub gets the request, perhaps after its sender gave up or died.
HubAnswers(o) ==
  /\ atHub[o] = "out"
  /\ \E answer \in {"accepted", "refused"} : atHub' = [atHub EXCEPT ![o] = answer]
  /\ UNCHANGED <<epochNow, store, serveVars, callVars, crashes, losses, failures>>

GetAnswer(o) ==
  /\ at[o] = "posted" /\ atHub[o] # "out"
  /\ store' = IF atHub[o] = "refused" THEN Restored(o) ELSE store
  /\ at' = [at EXCEPT ![o] = "over"]
  /\ UNCHANGED <<epochNow, serveVars, about, memo, atHub, crashes, losses, failures>>

\* hubFetchVerified throws: the connection fails or the reply is wrongly signed,
\* whether or not the hub has acted or still will.
LoseAnswer(o) ==
  /\ at[o] = "posted" /\ losses < MaxLosses
  /\ losses' = losses + 1
  /\ store' = Restored(o)
  /\ at' = [at EXCEPT ![o] = "over"]
  /\ UNCHANGED <<epochNow, serveVars, about, memo, atHub, crashes, failures>>

\* The process dies with every call under way; requests may still be on the wire.
Crash ==
  /\ crashes < MaxCrashes /\ crashes' = crashes + 1
  /\ serveAt' = [s \in Serves |-> IF serveAt[s] = "signing" THEN "over" ELSE serveAt[s]]
  /\ at' = [o \in Outcomes |-> IF at[o] # "new" THEN "over" ELSE "new"]
  /\ UNCHANGED <<epochNow, store, served, about, memo, atHub, losses, failures>>

ServeCall(s)   == BeginServe(s) \/ RecordServe(s) \/ ServeFails(s)
OutcomeCall(o) == \/ BeginOutcome(o) \/ Pair(o) \/ OutcomeFails(o) \/ PostOutcome(o)
                  \/ GetAnswer(o) \/ LoseAnswer(o)

Next == \/ AdvanceEpoch
        \/ \E s \in Serves : ServeCall(s)
        \/ \E o \in Outcomes : OutcomeCall(o) \/ HubAnswers(o)
        \/ Crash

Spec == Init /\ [][Next]_vars

-----------------------------------------------------------------------------
(* Properties. *)

\* The variables hold values of their types.
TypeOK ==
  /\ epochNow \in Epochs
  /\ store \in [Episodes -> Memos \cup {NoMemo}]
  /\ serveAt \in [Serves -> {"new", "signing", "recorded", "over"}]
  /\ served \in [Serves -> [episode : Episodes \cup {None}, epoch : Epochs]]
  /\ at \in [Outcomes -> {"new", "checked", "signing", "posted", "over"}]
  /\ about \in [Outcomes -> [episode : Episodes \cup {None}, claims : BOOLEAN]]
  /\ memo \in [Outcomes -> Memos \cup {NoMemo}]
  /\ atHub \in [Outcomes -> {"none", "out", "accepted", "refused"}]
  /\ crashes \in Nat /\ losses \in Nat /\ failures \in Nat

\* o took the memo of s and has not given it back: it is at work on it, or the
\* request it signed with it counts at the hub or may yet.
Holds(o, s) ==
  /\ about[o].claims /\ memo[o] # NoMemo /\ memo[o].serve = s
  /\ at[o] \in {"signing", "posted"} \/ atHub[o] \in {"out", "accepted"}

Claimed(o, s) == Holds(o, s) /\ atHub[o] = "accepted"

(* An outcome reaches the hub only with the serve_ref and the epoch of a    *)
(* serve that was recorded for the same episode.                            *)
PairedWithServe ==
  \A o \in Outcomes : atHub[o] # "none" =>
    \E s \in Serves : /\ serveAt[s] = "recorded"
                      /\ memo[o] = [epoch |-> served[s].epoch, serve |-> s]
                      /\ served[s].episode = about[o].episode

(* The hub is told of one serve at most once that it worked or did not,     *)
(* however outcome calls overlap and the process dies, unless an answer of  *)
(* the hub is lost: then the memo is put back for an outcome that counts.   *)
ClaimedAtMostOnce ==
  losses = 0 => \A s \in Serves : \A o1, o2 \in Outcomes :
                  Claimed(o1, s) /\ Claimed(o2, s) => o1 = o2

\* o has the memo of a serve of e at least as new as epoch x, which it is claiming
\* or has claimed.
Claims(o, e, x) ==
  /\ about[o].claims /\ about[o].episode = e
  /\ memo[o] # NoMemo /\ memo[o].epoch >= x
  /\ at[o] \in {"signing", "posted"} \/ atHub[o] = "accepted"

\* Such a serve is there to be paired, or is being claimed, or was.
Covered(e, x) ==
  \/ store[e] # NoMemo /\ store[e].epoch >= x
  \/ \E o \in Outcomes : Claims(o, e, x)

(* A serve that was recorded can be paired until it is claimed, or a serve  *)
(* of the episode at least as new can: neither unobserved outcomes, nor     *)
(* late serves, nor memos put back after newer ones bury it.  Not so when   *)
(* the process dies or fails between taking the memo out and posting.       *)
NewestKept ==
  (crashes = 0 /\ failures = 0) =>
    \A s \in Serves : serveAt[s] = "recorded" => Covered(served[s].episode, served[s].epoch)
=============================================================================
