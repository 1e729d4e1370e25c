------------------------- MODULE ServeOutcomeProofs -------------------------
(***************************************************************************)
(* Proofs about ServeOutcome, for any episodes, any number of serve and    *)
(* outcome calls, and any number of crashes, failures and lost answers.    *)
(*                                                                         *)
(* Inv adds to the properties where a memo can come from (StoreTrue,       *)
(* HeldTrue), at which point of a call its request is out (Phases), and    *)
(* that without lost answers a memo is in one place only (Exclusive): the  *)
(* store, or one outcome call.                                             *)
(***************************************************************************)
EXTENDS ServeOutcome, TLAPS

\* m is the memo of a serve recorded for e.
MemoOf(m, e) ==
  /\ m \in Memos
  /\ serveAt[m.serve] = "recorded"
  /\ served[m.serve].episode = e /\ served[m.serve].epoch = m.epoch

StoreTrue == \A e \in Episodes : store[e] # NoMemo => MemoOf(store[e], e)

HeldTrue ==
  \A o \in Outcomes : memo[o] # NoMemo =>
    MemoOf(memo[o], about[o].episode) /\ about[o].episode \in Episodes

Phases ==
  \A o \in Outcomes :
    /\ at[o] = "checked" => about[o].episode \in Episodes
    /\ at[o] \in {"new", "checked", "signing"} => atHub[o] = "none"
    /\ at[o] \in {"new", "checked"} => memo[o] = NoMemo
    /\ at[o] \in {"signing", "posted"} => memo[o] # NoMemo
    /\ at[o] = "posted" => atHub[o] # "none"
    /\ atHub[o] # "none" => memo[o] # NoMemo

KnownEpisodes ==
  \A s \in Serves : serveAt[s] \in {"signing", "recorded"} => served[s].episode \in Episodes

Exclusive ==
  losses = 0 =>
    /\ \A s \in Serves : \A o1, o2 \in Outcomes : Holds(o1, s) /\ Holds(o2, s) => o1 = o2
    /\ \A e \in Episodes, o \in Outcomes : store[e] # NoMemo => ~Holds(o, store[e].serve)

Inv == /\ TypeOK /\ StoreTrue /\ HeldTrue /\ Phases /\ KnownEpisodes
       /\ Exclusive /\ NewestKept

-----------------------------------------------------------------------------
LEMMA NoMemoIsNone == NoMemo \notin Memos
BY NoneAssumption DEF NoMemo, Memos

\* Writing a memo disturbs no other episode, and the one it leaves is as new as the
\* one that was there and as the one written.
LEMMA RecordedLeaves ==
  ASSUME TypeOK, NEW e \in Episodes, NEW m \in Memos, store' = Recorded(e, m)
  PROVE  /\ store' \in [Episodes -> Memos \cup {NoMemo}]
         /\ \A k \in Episodes \ {e} : store'[k] = store[k]
         /\ store'[e] \in {store[e], m} /\ store'[e] # NoMemo
         /\ store'[e].epoch >= m.epoch
         /\ store[e] # NoMemo => store'[e].epoch >= store[e].epoch
<1>1. m.epoch \in Int /\ m # NoMemo
  BY NoMemoIsNone, BoundsAssumption DEF Memos, Epochs
<1>2. store[e] # NoMemo => store[e].epoch \in Int
  BY BoundsAssumption DEF TypeOK, Memos, Epochs
<1>3. CASE store[e] = NoMemo \/ m.epoch >= store[e].epoch
  <2>1. store' = [store EXCEPT ![e] = m]
    BY <1>3 DEF Recorded
  <2> QED BY <1>1, <1>2, <1>3, <2>1 DEF TypeOK
<1>4. CASE store[e] # NoMemo /\ ~(m.epoch >= store[e].epoch)
  <2>1. store' = store
    BY <1>4 DEF Recorded
  <2> QED BY <1>1, <1>2, <1>4, <2>1 DEF TypeOK
<1> QED BY <1>3, <1>4

\* Writing a memo leaves the store as good for pairing as it was.
LEMMA StoreCovers ==
  ASSUME TypeOK, NEW e \in Episodes, NEW m \in Memos, store' = Recorded(e, m),
         NEW k \in Episodes, NEW x \in Epochs,
         store[k] # NoMemo, store[k].epoch >= x
  PROVE  store'[k] # NoMemo /\ store'[k].epoch >= x
<1>1. CASE k = e
  <2>1. store'[e] # NoMemo /\ store'[e].epoch >= store[e].epoch /\ store'[e] \in Memos \cup {NoMemo}
    BY <1>1, RecordedLeaves
  <2>2. store'[e].epoch \in Int /\ store[e].epoch \in Int /\ x \in Int
    BY <1>1, <2>1, BoundsAssumption DEF TypeOK, Memos, Epochs
  <2> QED BY <1>1, <2>1, <2>2
<1>2. CASE k # e
  BY <1>2, RecordedLeaves
<1> QED BY <1>1, <1>2

LEMMA InvInit == Init => Inv
<1> SUFFICES ASSUME Init PROVE Inv
  OBVIOUS
<1>1. TypeOK
  BY BoundsAssumption DEF Init, TypeOK, Epochs
<1>2. StoreTrue /\ HeldTrue /\ Phases /\ KnownEpisodes
  BY DEF Init, StoreTrue, HeldTrue, Phases, KnownEpisodes
<1>3. Exclusive /\ NewestKept
  BY DEF Init, Exclusive, Holds, NewestKept
<1> QED BY <1>1, <1>2, <1>3 DEF Inv

\* The epoch advancing.
LEMMA EpochStep == Inv /\ AdvanceEpoch => Inv'
<1> SUFFICES ASSUME Inv, AdvanceEpoch PROVE Inv'
  OBVIOUS
<1> USE DEF Inv, AdvanceEpoch, serveVars, callVars
<1>1. epochNow' \in Epochs
  BY BoundsAssumption DEF TypeOK, Epochs
<1>2. TypeOK' /\ StoreTrue' /\ HeldTrue' /\ Phases' /\ KnownEpisodes'
  BY <1>1 DEF TypeOK, StoreTrue, HeldTrue, MemoOf, Phases, KnownEpisodes
<1>3. Exclusive' /\ NewestKept'
  BY DEF Exclusive, NewestKept, Covered, Claims, Holds
<1> QED BY <1>2, <1>3

\* A step that leaves the recorded serves and everything else as they are.
LEMMA ServeSteady ==
  ASSUME Inv, TypeOK', KnownEpisodes',
         UNCHANGED <<store, at, about, memo, atHub, crashes, losses, failures>>,
         \A t \in Serves : /\ serveAt'[t] = "recorded" <=> serveAt[t] = "recorded"
                           /\ serveAt[t] = "recorded" => served'[t] = served[t]
  PROVE  Inv'
<1> USE DEF Inv
<1>1. \A m, k : MemoOf(m, k) => MemoOf(m, k)'
  BY DEF MemoOf, Memos
<1>2. StoreTrue' /\ HeldTrue' /\ Phases'
  BY <1>1 DEF StoreTrue, HeldTrue, Phases
<1>3. Exclusive' /\ NewestKept'
  BY DEF Exclusive, NewestKept, Covered, Claims, Holds
<1> QED BY <1>2, <1>3

\* The steps of a serve call.
LEMMA ServeStep == Inv /\ (\E s \in Serves : ServeCall(s)) => Inv'
<1> SUFFICES ASSUME Inv, NEW s \in Serves, ServeCall(s) PROVE Inv'
  OBVIOUS
<1> USE DEF Inv, callVars
<1>1. CASE BeginServe(s)
  <2>0. PICK e \in Episodes : served' = [served EXCEPT ![s] = [episode |-> e, epoch |-> epochNow]]
    BY <1>1 DEF BeginServe
  <2>1. TypeOK' /\ KnownEpisodes'
    BY <1>1, <2>0 DEF BeginServe, TypeOK, KnownEpisodes
  <2>2. \A t \in Serves : /\ serveAt'[t] = "recorded" <=> serveAt[t] = "recorded"
                          /\ serveAt[t] = "recorded" => served'[t] = served[t]
    BY <1>1, <2>0 DEF BeginServe, TypeOK
  <2> QED BY <1>1, <2>1, <2>2, ServeSteady DEF BeginServe
<1>2. CASE ServeFails(s)
  <2>1. TypeOK' /\ KnownEpisodes'
    BY <1>2 DEF ServeFails, TypeOK, KnownEpisodes
  <2>2. \A t \in Serves : serveAt'[t] = "recorded" <=> serveAt[t] = "recorded"
    BY <1>2 DEF ServeFails, TypeOK
  <2> QED BY <1>2, <2>1, <2>2, ServeSteady DEF ServeFails
<1>3. CASE RecordServe(s)
  <2>0. PICK e \in Episodes, m \in Memos :
          /\ m = [epoch |-> served[s].epoch, serve |-> s] /\ m.serve = s
          /\ e = served[s].episode /\ m.epoch = served[s].epoch
    BY <1>3 DEF RecordServe, KnownEpisodes, TypeOK, Memos
  <2>1. store' = Recorded(e, m)
    BY <1>3, <2>0 DEF RecordServe
  <2>2. /\ serveAt' = [serveAt EXCEPT ![s] = "recorded"] /\ serveAt[s] = "signing"
        /\ UNCHANGED <<epochNow, served, at, about, memo, atHub, crashes, losses, failures>>
    BY <1>3 DEF RecordServe
  <2>3. MemoOf(m, e)'
    <3>1. served[s] = [episode |-> e, epoch |-> m.epoch]
      BY <2>0 DEF TypeOK
    <3> QED BY <2>0, <2>2, <3>1 DEF MemoOf, TypeOK
  <2>4. TypeOK'
    BY <2>0, <2>1, <2>2, RecordedLeaves DEF TypeOK
  <2>5. \A n, k : MemoOf(n, k) => MemoOf(n, k)'
    BY <2>2 DEF MemoOf, TypeOK, Memos
  <2>6. StoreTrue'
    BY <2>0, <2>1, <2>3, <2>5, RecordedLeaves DEF StoreTrue
  <2>7. HeldTrue' /\ Phases'
    BY <2>2, <2>5 DEF HeldTrue, Phases
  <2>8. KnownEpisodes'
    BY <2>2 DEF KnownEpisodes, TypeOK
  <2>9. \A o, q : Holds(o, q)' = Holds(o, q)
    BY <2>2 DEF Holds
  <2>10. Exclusive'  \* nobody can hold a memo of s yet: s was not recorded
    <3>1. \A o \in Outcomes : ~Holds(o, s)
      BY <2>2 DEF HeldTrue, Holds, MemoOf
    <3> QED BY <2>0, <2>1, <2>2, <2>9, <3>1, RecordedLeaves DEF Exclusive
  <2>11. NewestKept'
    <3>1. \A k \in Episodes, x \in Epochs : Covered(k, x) => Covered(k, x)'
      BY <2>0, <2>1, <2>2, StoreCovers DEF Covered, Claims
    <3>2. Covered(e, m.epoch)'
      BY <2>0, <2>1, RecordedLeaves DEF Covered
    <3>4. \A t \in Serves \ {s} : serveAt'[t] = serveAt[t]
      BY <2>2 DEF TypeOK
    <3>5. \A t \in Serves : served'[t] = served[t] /\ served[t].epoch \in Epochs
      BY <2>2 DEF TypeOK
    <3> QED BY <2>0, <2>2, <3>1, <3>2, <3>4, <3>5 DEF NewestKept, KnownEpisodes
  <2> QED BY <2>4, <2>6, <2>7, <2>8, <2>10, <2>11
<1> QED BY <1>1, <1>2, <1>3 DEF ServeCall

\* A step of the outcome calls or the hub that leaves the store and the memos as
\* they are, and gives nobody a hold.
LEMMA OutcomeSteady ==
  ASSUME Inv, TypeOK', HeldTrue', Phases',
         UNCHANGED <<store, serveAt, served, memo, losses>>,
         \A o \in Outcomes : \A q : Holds(o, q)' => Holds(o, q),
         crashes' = 0 /\ failures' = 0 =>
           /\ crashes = 0 /\ failures = 0
           /\ \A o \in Outcomes : \A k, x : Claims(o, k, x) => Claims(o, k, x)'
  PROVE  Inv'
<1> USE DEF Inv
<1>1. StoreTrue' /\ KnownEpisodes'
  BY DEF StoreTrue, MemoOf, KnownEpisodes
<1>2. Exclusive'
  BY DEF Exclusive
<1>3. NewestKept'
  BY DEF NewestKept, Covered
<1> QED BY <1>1, <1>2, <1>3

\* The steps that change neither the store nor a memo.
LEMMA SteadyOutcomeStep ==
  ASSUME Inv, NEW o \in Outcomes,
         BeginOutcome(o) \/ OutcomeFails(o) \/ PostOutcome(o) \/ HubAnswers(o)
  PROVE  Inv'
<1> USE DEF Inv, serveVars, callVars
<1>1. CASE BeginOutcome(o)
  <2>1. TypeOK'
    BY <1>1 DEF BeginOutcome, TypeOK
  <2>2. memo[o] = NoMemo /\ UNCHANGED memo
    BY <1>1 DEF BeginOutcome, Phases
  <2>3. \A p \in Outcomes \ {o} : at'[p] = at[p] /\ about'[p] = about[p]
    BY <1>1 DEF BeginOutcome, TypeOK
  <2>4. about'[o].episode \in Episodes /\ at'[o] = "checked" /\ at[o] = "new"
    BY <1>1 DEF BeginOutcome, TypeOK
  <2>5. HeldTrue' /\ Phases'
    BY <1>1, <2>2, <2>3, <2>4 DEF BeginOutcome, HeldTrue, MemoOf, Phases
  <2>6. \A p \in Outcomes : \A q : Holds(p, q)' => Holds(p, q)
    BY <1>1, <2>2, <2>3 DEF BeginOutcome, Holds
  <2>7. \A p \in Outcomes : \A k, x : Claims(p, k, x) => Claims(p, k, x)'
    BY <1>1, <2>2, <2>3 DEF BeginOutcome, Claims
  <2> QED BY <1>1, <2>1, <2>5, <2>6, <2>7, OutcomeSteady DEF BeginOutcome
<1>2. CASE OutcomeFails(o)
  <2>1. at' = [at EXCEPT ![o] = "over"] /\ at[o] = "signing" /\ failures' \in Nat /\ failures' # 0
    BY <1>2 DEF OutcomeFails, TypeOK
  <2>2. TypeOK'
    BY <1>2, <2>1 DEF OutcomeFails, TypeOK
  <2>3. HeldTrue' /\ Phases'
    BY <1>2, <2>1 DEF OutcomeFails, HeldTrue, MemoOf, Phases, TypeOK
  <2>4. \A p \in Outcomes : \A q : Holds(p, q)' => Holds(p, q)
    BY <1>2, <2>1 DEF OutcomeFails, Holds, TypeOK
  <2> QED BY <1>2, <2>1, <2>2, <2>3, <2>4, OutcomeSteady DEF OutcomeFails
<1>3. CASE PostOutcome(o)
  <2>1. TypeOK'
    BY <1>3 DEF PostOutcome, TypeOK
  <2>2. HeldTrue' /\ Phases'
    BY <1>3 DEF PostOutcome, HeldTrue, MemoOf, Phases, TypeOK
  <2>3. \A p \in Outcomes : \A q : Holds(p, q)' => Holds(p, q)
    BY <1>3 DEF PostOutcome, Holds, TypeOK
  <2>4. \A p \in Outcomes : \A k, x : Claims(p, k, x) => Claims(p, k, x)'
    BY <1>3 DEF PostOutcome, Claims, Phases, TypeOK
  <2> QED BY <1>3, <2>1, <2>2, <2>3, <2>4, OutcomeSteady DEF PostOutcome
<1>4. CASE HubAnswers(o)
  <2>0. PICK answer \in {"accepted", "refused"} : atHub' = [atHub EXCEPT ![o] = answer]
    BY <1>4 DEF HubAnswers
  <2>1. TypeOK'
    BY <1>4, <2>0 DEF HubAnswers, TypeOK
  <2>2. HeldTrue' /\ Phases'
    BY <1>4, <2>0 DEF HubAnswers, HeldTrue, MemoOf, Phases, TypeOK
  <2>3. \A p \in Outcomes : \A q : Holds(p, q)' => Holds(p, q)
    BY <1>4, <2>0 DEF HubAnswers, Holds, TypeOK
  <2>4. \A p \in Outcomes : \A k, x : Claims(p, k, x) => Claims(p, k, x)'
    BY <1>4, <2>0 DEF HubAnswers, Claims, TypeOK
  <2> QED BY <1>4, <2>1, <2>2, <2>3, <2>4, OutcomeSteady DEF HubAnswers
<1> QED BY <1>1, <1>2, <1>3, <1>4

\* Pairing: the memo leaves the store for one call, or is only looked at.
LEMMA PairStep ==
  ASSUME Inv, NEW o \in Outcomes, Pair(o)
  PROVE  Inv'
<1> USE DEF Inv, serveVars, Lookup
<1>0. PICK e \in Episodes : e = about[o].episode /\ at[o] = "checked" /\ atHub[o] = "none"
  BY DEF Pair, Phases
<1>1. CASE store[e] = NoMemo
  <2>1. at' = [at EXCEPT ![o] = "over"]
        /\ UNCHANGED <<epochNow, store, serveAt, served, about, memo, atHub, crashes, losses, failures>>
    BY <1>0, <1>1 DEF Pair
  <2>2. TypeOK' /\ HeldTrue' /\ Phases'
    BY <1>0, <2>1 DEF TypeOK, HeldTrue, MemoOf, Phases
  <2>3. \A p \in Outcomes : \A q : Holds(p, q)' => Holds(p, q)
    BY <2>1 DEF Holds, TypeOK
  <2>4. \A p \in Outcomes : \A k, x : Claims(p, k, x) => Claims(p, k, x)'
    BY <1>0, <2>1 DEF Claims, TypeOK
  <2> QED BY <2>1, <2>2, <2>3, <2>4, OutcomeSteady
<1>2. CASE store[e] # NoMemo
  <2>0. PICK m \in Memos : m = store[e] /\ m # NoMemo /\ MemoOf(m, e)
    BY <1>2 DEF TypeOK, StoreTrue, MemoOf
  <2>1. /\ at' = [at EXCEPT ![o] = "signing"] /\ memo' = [memo EXCEPT ![o] = m]
        /\ UNCHANGED <<epochNow, serveAt, served, about, atHub, crashes, losses, failures>>
    BY <1>0, <1>2, <2>0 DEF Pair
  <2>2. store' = IF about[o].claims THEN [store EXCEPT ![e] = NoMemo] ELSE store
    BY <1>0, <1>2, <2>0 DEF Pair, StoreAfterPairing
  <2>3. /\ store' \in [Episodes -> Memos \cup {NoMemo}]
        /\ \A k \in Episodes : store'[k] = store[k] \/ store'[k] = NoMemo
        /\ \A k \in Episodes \ {e} : store'[k] = store[k]
        /\ about[o].claims => store'[e] = NoMemo
        /\ ~about[o].claims => store' = store
    BY <2>2 DEF TypeOK
  <2>4. TypeOK'
    BY <2>1, <2>3 DEF TypeOK
  <2>5. \A n, k : MemoOf(n, k) => MemoOf(n, k)'
    BY <2>1 DEF MemoOf
  <2>6. StoreTrue'
    BY <2>3, <2>5 DEF StoreTrue
  <2>7. HeldTrue'
    BY <1>0, <2>0, <2>1, <2>5 DEF HeldTrue, TypeOK
  <2>8. Phases' /\ KnownEpisodes'
    BY <1>0, <2>0, <2>1 DEF Phases, KnownEpisodes, TypeOK
  <2>9. Exclusive'
    <3>1. \A p \in Outcomes \ {o} : \A q : Holds(p, q)' = Holds(p, q)
      BY <2>1 DEF Holds, TypeOK
    <3>2. \A q : Holds(o, q)' => q = m.serve /\ about[o].claims
      BY <2>1 DEF Holds, TypeOK
    <3>3. losses = 0 => \A p \in Outcomes : ~Holds(p, m.serve)
      BY <1>2, <2>0 DEF Exclusive
    <3>4. \A k \in Episodes \ {e} : store[k] # NoMemo => store[k].serve # m.serve
      BY <1>2, <2>0 DEF StoreTrue, MemoOf
    <3>5. losses' = losses
      BY <2>1
    <3>6. losses = 0 => \A q \in Serves : \A p1, p2 \in Outcomes : Holds(p1, q)' /\ Holds(p2, q)' => p1 = p2
      BY <3>1, <3>2, <3>3 DEF Exclusive
    <3>7. losses = 0 => \A k \in Episodes, p \in Outcomes :
                          store'[k] # NoMemo => \A q : q = store'[k].serve => ~Holds(p, q)'
      <4> SUFFICES ASSUME losses = 0, NEW k \in Episodes, NEW p \in Outcomes, store'[k] # NoMemo,
                          NEW q, q = store'[k].serve, Holds(p, q)'
                   PROVE  FALSE
        OBVIOUS
      <4>1. store'[k] = store[k] /\ ~Holds(p, q)
        BY <2>3 DEF Exclusive
      <4>2. p = o /\ q = m.serve /\ about[o].claims
        BY <3>1, <3>2, <4>1
      <4>3. k # e
        BY <2>3, <4>2
      <4> QED BY <3>4, <4>1, <4>2, <4>3
    <3> QED BY <3>5, <3>6, <3>7 DEF Exclusive, Holds
  <2>10. NewestKept'
    <3>1. \A k \in Episodes, x \in Epochs : Covered(k, x) => Covered(k, x)'
      <4> SUFFICES ASSUME NEW k \in Episodes, NEW x \in Epochs, Covered(k, x)
                   PROVE  Covered(k, x)'
        OBVIOUS
      <4>1. \A p \in Outcomes : Claims(p, k, x) => Claims(p, k, x)'
        BY <1>0, <2>1 DEF Claims, TypeOK
      <4>2. CASE store[k] # NoMemo /\ store[k].epoch >= x /\ k = e /\ about[o].claims
        <5>1. Claims(o, k, x)'
          BY <1>0, <2>0, <2>1, <4>2 DEF Claims, TypeOK
        <5> QED BY <5>1 DEF Covered
      <4> QED BY <2>3, <4>1, <4>2 DEF Covered
    <3> QED BY <2>1, <3>1 DEF NewestKept, KnownEpisodes, TypeOK
  <2> QED BY <2>4, <2>6, <2>7, <2>8, <2>9, <2>10
<1> QED BY <1>1, <1>2

\* A memo that o holds goes back to the store, and o lets go of it.
LEMMA RestoreStep ==
  ASSUME Inv, NEW o \in Outcomes, at[o] = "posted", store' = Restored(o),
         at' = [at EXCEPT ![o] = "over"],
         UNCHANGED <<epochNow, serveAt, served, about, memo, atHub, crashes, failures>>,
         losses' \in Nat,
         losses' = 0 => losses = 0 /\ atHub[o] = "refused"
  PROVE  Inv'
<1> USE DEF Inv
<1>0. PICK e \in Episodes, m \in Memos :
        e = about[o].episode /\ m = memo[o] /\ m # NoMemo /\ MemoOf(m, e)
  BY DEF Phases, HeldTrue, MemoOf
<1>1. /\ about[o].claims => store' = Recorded(e, m)
      /\ ~about[o].claims => store' = store
  BY <1>0 DEF Restored
<1>2. /\ store' \in [Episodes -> Memos \cup {NoMemo}]
      /\ \A k \in Episodes : store'[k] = store[k] \/ (k = e /\ store'[k] = m /\ about[o].claims)
      /\ about[o].claims => store'[e] # NoMemo /\ store'[e].epoch >= m.epoch
  <2>1. CASE about[o].claims
    BY <1>0, <1>1, <2>1, RecordedLeaves
  <2>2. CASE ~about[o].claims
    BY <1>1, <2>2 DEF TypeOK
  <2> QED BY <2>1, <2>2
<1>3. TypeOK'
  BY <1>2 DEF TypeOK
<1>4. StoreTrue'
  BY <1>0, <1>2 DEF StoreTrue, MemoOf
<1>5. HeldTrue' /\ Phases' /\ KnownEpisodes'
  BY <1>0 DEF HeldTrue, MemoOf, Phases, KnownEpisodes, TypeOK
<1>6. Exclusive'
  <2> SUFFICES ASSUME losses' = 0 PROVE Exclusive'
    BY DEF Exclusive
  <2>0. losses = 0 /\ atHub[o] = "refused"
    OBVIOUS
  <2>1. \A p \in Outcomes : \A q : Holds(p, q)' => Holds(p, q) /\ p # o
    BY <2>0 DEF Holds, TypeOK
  <2>2. \A q \in Serves : \A p1, p2 \in Outcomes : Holds(p1, q)' /\ Holds(p2, q)' => p1 = p2
    BY <2>0, <2>1 DEF Exclusive
  <2>3. about[o].claims => Holds(o, m.serve)
    BY <1>0 DEF Holds
  <2>4. \A k \in Episodes, p \in Outcomes :
          store'[k] # NoMemo => \A q : q = store'[k].serve => ~Holds(p, q)'
    <3> SUFFICES ASSUME NEW k \in Episodes, NEW p \in Outcomes, store'[k] # NoMemo,
                        NEW q, q = store'[k].serve, Holds(p, q)'
                 PROVE  FALSE
      OBVIOUS
    <3>1. Holds(p, q) /\ p # o
      BY <2>1
    <3>2. CASE store'[k] = store[k]
      BY <2>0, <3>1, <3>2 DEF Exclusive
    <3>3. CASE store'[k] = m /\ about[o].claims
      <4>1. m.serve \in Serves /\ q = m.serve
        BY <3>3 DEF Memos
      <4> QED BY <2>0, <2>3, <3>1, <3>3, <4>1 DEF Exclusive
    <3> QED BY <1>2, <3>2, <3>3
  <2> QED BY <2>2, <2>4 DEF Exclusive, Holds
<1>7. NewestKept'
  <2>1. \A k \in Episodes, x \in Epochs : Covered(k, x) => Covered(k, x)'
    <3> SUFFICES ASSUME NEW k \in Episodes, NEW x \in Epochs, Covered(k, x)
                 PROVE  Covered(k, x)'
      OBVIOUS
    <3>1. CASE store[k] # NoMemo /\ store[k].epoch >= x
      <4>1. CASE about[o].claims
        BY <1>0, <1>1, <3>1, <4>1, StoreCovers DEF Covered
      <4>2. CASE ~about[o].claims
        BY <1>1, <3>1, <4>2 DEF Covered
      <4> QED BY <4>1, <4>2
    <3>2. ASSUME NEW p \in Outcomes, Claims(p, k, x) PROVE Covered(k, x)'
      <4>1. CASE p = o  \* its memo is back, or gave way to a newer one
        <5>1. about[o].claims /\ k = e /\ m.epoch >= x
          BY <1>0, <3>2, <4>1 DEF Claims
        <5>2. store'[e] # NoMemo /\ store'[e].epoch >= m.epoch
          BY <1>2, <5>1
        <5>3. store'[e].epoch \in Int /\ m.epoch \in Int /\ x \in Int
          BY <1>2, <5>2, BoundsAssumption DEF Memos, Epochs
        <5> QED BY <5>1, <5>2, <5>3 DEF Covered
      <4>2. CASE p # o
        <5>1. Claims(p, k, x)'
          BY <3>2, <4>2 DEF Claims, TypeOK
        <5> QED BY <5>1 DEF Covered
      <4> QED BY <4>1, <4>2
    <3> QED BY <3>1, <3>2 DEF Covered
  <2> QED BY <2>1 DEF NewestKept, KnownEpisodes, TypeOK
<1> QED BY <1>3, <1>4, <1>5, <1>6, <1>7

\* The end of an outcome call, with or without the hub's answer.
LEMMA EndStep ==
  ASSUME Inv, NEW o \in Outcomes, GetAnswer(o) \/ LoseAnswer(o)
  PROVE  Inv'
<1> USE DEF Inv, serveVars
<1>1. CASE GetAnswer(o) /\ atHub[o] = "refused"
  BY <1>1, RestoreStep DEF GetAnswer, TypeOK
<1>2. CASE LoseAnswer(o)
  <2>1. losses' \in Nat /\ losses' # 0
    BY <1>2 DEF LoseAnswer, TypeOK
  <2> QED BY <1>2, <2>1, RestoreStep DEF LoseAnswer
<1>3. CASE GetAnswer(o) /\ atHub[o] # "refused"
  <2>1. /\ at[o] = "posted" /\ atHub[o] = "accepted"
        /\ at' = [at EXCEPT ![o] = "over"]
        /\ UNCHANGED <<epochNow, store, serveAt, served, about, memo, atHub, crashes, losses, failures>>
    BY <1>3 DEF GetAnswer, Phases, TypeOK
  <2>2. TypeOK' /\ HeldTrue' /\ Phases'
    BY <2>1 DEF TypeOK, HeldTrue, MemoOf, Phases
  <2>3. \A p \in Outcomes : \A q : Holds(p, q)' => Holds(p, q)
    BY <2>1 DEF Holds, TypeOK
  <2>4. \A p \in Outcomes : \A k, x : Claims(p, k, x) => Claims(p, k, x)'
    BY <2>1 DEF Claims, TypeOK
  <2> QED BY <2>1, <2>2, <2>3, <2>4, OutcomeSteady
<1> QED BY <1>1, <1>2, <1>3

\* The death of the process.
LEMMA CrashStep == Inv /\ Crash => Inv'
<1> SUFFICES ASSUME Inv, Crash PROVE Inv'
  OBVIOUS
<1> USE DEF Inv
<1>1. crashes' \in Nat /\ crashes' # 0
  BY DEF Crash, TypeOK
<1>2. TypeOK'
  BY <1>1 DEF Crash, TypeOK
<1>3. StoreTrue' /\ HeldTrue' /\ KnownEpisodes'
  BY DEF Crash, StoreTrue, HeldTrue, MemoOf, Memos, KnownEpisodes
<1>4. Phases'
  BY DEF Crash, Phases
<1>5. Exclusive'
  <2>1. \A p \in Outcomes : \A q : Holds(p, q)' => Holds(p, q)
    BY DEF Crash, Holds
  <2> QED BY <2>1 DEF Crash, Exclusive, Holds
<1>6. NewestKept'
  BY <1>1 DEF NewestKept
<1> QED BY <1>2, <1>3, <1>4, <1>5, <1>6

LEMMA InvStep == Inv /\ [Next]_vars => Inv'
<1> SUFFICES ASSUME Inv, [Next]_vars PROVE Inv'
  OBVIOUS
<1>1. CASE UNCHANGED vars
  BY <1>1 DEF vars, Inv, TypeOK, StoreTrue, HeldTrue, MemoOf, Phases, KnownEpisodes,
              Exclusive, Holds, NewestKept, Covered, Claims
<1>2. CASE Next
  BY <1>2, EpochStep, ServeStep, SteadyOutcomeStep, PairStep, EndStep, CrashStep
     DEF Next, OutcomeCall
<1> QED BY <1>1, <1>2

-----------------------------------------------------------------------------
\* The strengthened invariant holds in every reachable state.
THEOREM Invariant == Spec => []Inv
BY InvInit, InvStep, PTL DEF Spec

\* Calls, memos and requests keep to their types.
THEOREM TypeCorrect == Spec => []TypeOK
<1>1. Inv => TypeOK
  BY DEF Inv
<1> QED BY <1>1, Invariant, PTL

\* An outcome is signed with a serve recorded for its own episode.
THEOREM PairedCorrect == Spec => []PairedWithServe
<1>1. Inv => PairedWithServe
  <2> SUFFICES ASSUME Inv, NEW o \in Outcomes, atHub[o] # "none"
               PROVE  \E s \in Serves : /\ serveAt[s] = "recorded"
                                        /\ memo[o] = [epoch |-> served[s].epoch, serve |-> s]
                                        /\ served[s].episode = about[o].episode
    BY DEF PairedWithServe
  <2>1. MemoOf(memo[o], about[o].episode)
    BY DEF Inv, Phases, HeldTrue
  <2>2. memo[o] = [epoch |-> memo[o].epoch, serve |-> memo[o].serve]
    BY <2>1 DEF MemoOf, Memos
  <2> QED BY <2>1, <2>2 DEF MemoOf, Memos
<1> QED BY <1>1, Invariant, PTL

\* Unless an answer is lost, a serve is claimed at most once.
THEOREM ClaimedCorrect == Spec => []ClaimedAtMostOnce
<1>1. Inv => ClaimedAtMostOnce
  BY DEF Inv, Exclusive, ClaimedAtMostOnce, Claimed
<1> QED BY <1>1, Invariant, PTL

\* Unless the process dies or fails with a memo in hand, a serve stays pairable
\* until it, or a newer one of its episode, is claimed.
THEOREM NewestKeptCorrect == Spec => []NewestKept
<1>1. Inv => NewestKept
  BY DEF Inv
<1> QED BY <1>1, Invariant, PTL
=============================================================================
