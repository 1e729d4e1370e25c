--------------------------- MODULE KeyCustodyProofs ---------------------------
(***************************************************************************)
(* Proofs about KeyCustody, for any calls, processes and failures: type    *)
(* correctness, that orgs are led by the identities that asked for them    *)
(* (LeadersKnown), that what others rely on stays in the keystore          *)
(* (KeysKept), and that no org at the hub is left without keys             *)
(* (KeysSomewhere).                                                        *)
(*                                                                         *)
(* State and Hands say what the variables hold, and what each call has at  *)
(* the step it is at.  Leads, for the identities, and OneWriter and Keeps, *)
(* for the keys, are preserved beside them.                                *)
(*                                                                         *)
(* The keystore's file is no place to state what is kept, as an update     *)
(* leaves it empty for a while.  Keeps therefore says that there is a      *)
(* keystore k, which is the file but while an update is under way and      *)
(* which every update under way has read, and that k has the keys.  An     *)
(* update that ends makes another k, which has one key more; it replaces   *)
(* none, as nobody makes a key that k has (OneWriter, PreKey, DeviceKey).  *)
(***************************************************************************)
EXTENDS KeyCustody, TLAPS

CallRec == [at : Steps, org : Orgs \cup {None}, left : SUBSET Orgs,
            inner : DeviceKeys \cup {None}, seen : (SUBSET Creates) \cup {None},
            asker : Identities \cup {None}]

\* What a call at a step is, and what it has.
Fits(t, l) ==
  /\ l \in CallRec
  /\ l.at \in {"verified", "given", "created"} => t \in Setups
  /\ l.at = "seed" => t \in Creates \cup Imports
  /\ l.at \in {"post", "vault"} => t \in Creates
  /\ l.at = "master" => t \in Orgs \cup Recovers
  /\ l.at = "mod" => t \in Orgs
  /\ l.at \in {"needPre", "pre", "register"} => t \in Creates \cup Provisions \cup Recalls
  /\ l.at = "memberships" => t \in Recalls
  /\ l.at \in {"inner", "newInner", "outer", "newOuter"} => t \in Submits
  /\ t \in Orgs => l.org = t
  /\ l.at \in {"master", "mod"} => l.org # None
  /\ t \in Creates => l.left = {t}
  /\ l.at \in {"needPre", "pre", "register"} /\ t \in Provisions => l.left # {}
  /\ l.at = "register" => l.left # {}
  /\ l.at \in {"outer", "newOuter"} => l.inner # None

\* TypeOK with the domains of functions, and what a call has by its step.
State ==
  /\ file \in Stores
  /\ writing \in [Processes -> Updates \cup {None}]
  /\ identity \in Identities \cup {None}
  /\ cached \in [Processes -> Identities \cup {None}]
  /\ preCache \in [Processes -> PreKeys \cup {None}]
  /\ pending \subseteq Setups /\ done \in BOOLEAN /\ vault \subseteq Creates
  /\ call \in [Calls -> CallRec] /\ \A t \in Calls : Fits(t, call[t])
  /\ leader \in [Orgs -> Identities \cup {None}] /\ hub \subseteq Orgs
  /\ registered \subseteq Orgs \X PreKeys
  /\ entries \in [Submits -> (DeviceKeys \X DeviceKeys) \cup {None}]
  /\ mishaps \in 0 .. MaxMishaps
  /\ acked \subseteq Orgs /\ dropped \subseteq Orgs
  /\ clash \in BOOLEAN /\ broken \in BOOLEAN /\ twice \in BOOLEAN /\ twin \in BOOLEAN
  /\ replaced \in BOOLEAN

\* A process writes for a call of its own, and a call has the PRE key it registers.
Hands ==
  /\ \A p \in Processes : writing[p] # None =>
       ProcessOf[writing[p].by] = p /\ call[writing[p].by].at \in Storing
  /\ \A t \in Calls : call[t].at \in {"memberships", "register"} => preCache[ProcessOf[t]] # None

\* Only one call makes an identity, and a setup_org that does finds none.
OneSeed ==
  ~twin =>
    /\ \A t, u \in Calls : call[t].at = "seed" /\ call[u].at = "seed" => t = u
    /\ \A c \in Creates : call[c].at = "seed" =>
         ProcessOf[c] = Server /\ identity = None /\ cached[Server] = None

\* A dashboard's org is led by the identity that the server verified, which it still
\* remembers when it signs.
Asked ==
  ~twin => \A s \in Setups :
    /\ call[s].at = "new" => s \notin hub
    /\ call[s].at = "verified" => call[s].asker # None /\ call[s].asker = cached[Server] /\ s \notin hub
    /\ call[s].at = "given" \/ s \in hub => call[s].asker # None /\ leader[s] = call[s].asker

\* There is only one identity: all remember it and all orgs are led by it.
Lone ==
  ~twin /\ ~replaced =>
    /\ \A p \in Processes : cached[p] \in {None, identity}
    /\ \A o \in Orgs : leader[o] \in {None, identity}

\* Only an org that has a leader comes to the hub.
Led == \A c \in Creates : call[c].at = "post" \/ c \in hub => leader[c] # None

\* One process at a time updates the keystore, and one makes a PRE key.
OneWriter ==
  ~clash => /\ \A p, q \in Processes : writing[p] # None /\ writing[q] # None => p = q
            /\ \A t, u \in Calls : call[t].at = "pre" /\ call[u].at = "pre" => t = u

\* k is what the keystore holds, or will hold again.
IsKeystore(k) ==
  /\ \A p \in Processes : writing[p] # None => writing[p].read = k
  /\ file = k \/ \E p \in Processes : writing[p] # None /\ writing[p].step = "write"

\* k has the keys of orgs: by what the hub and their makers know, and by the step that
\* the call which makes the org is at.
OrgKeys(k) ==
  /\ \A o \in hub : \/ o \in k.master \cap k.mod
                    \/ o \in pending \cup dropped
                    \/ o \in Creates /\ call[o].at \in {"master", "mod"}
  /\ \A s \in Setups : call[s].at = "given" => s \in pending \cup dropped
  /\ \A o \in Orgs : call[o].at = "mod" => o \in k.master
  /\ \A c \in Creates : call[c].at \in {"vault", "needPre", "pre", "register"} => c \in k.master \cap k.mod
  /\ acked \subseteq k.master \cap k.mod /\ vault \subseteq k.master
  /\ \A t \in Calls : call[t].seen # None => call[t].seen \subseteq k.master

\* The PRE key of k is the one that all use, and none is being made beside it.
PreKey(k) ==
  /\ \A r \in registered : r[2] = k.pre
  /\ \A p \in Processes : preCache[p] \in {None, k.pre}
  /\ \A t \in Calls : call[t].at = "pre" => k.pre = None

\* The device key of k is the one that entries were encrypted with.
DeviceKey(k) ==
  ~twice =>
    /\ \A b, c \in Submits : call[b].at = "newInner" /\ call[c].at = "newInner" => b = c
    /\ \A b \in Submits :
         /\ call[b].at = "newInner" => k.device = None
         /\ call[b].at # "newOuter"
         /\ call[b].at = "outer" => call[b].inner = k.device
         /\ entries[b] # None => entries[b] = <<k.device, k.device>>

Keeps ==
  ~clash /\ ~broken =>
    \E k \in Stores : IsKeystore(k) /\ OrgKeys(k) /\ PreKey(k) /\ DeviceKey(k)

Leads == OneSeed /\ Asked /\ Lone /\ Led

-----------------------------------------------------------------------------
\* No call is of two kinds.
LEMMA Kinds ==
  /\ Setups \cap Creates = {} /\ Orgs \cap (Provisions \cup Recalls \cup Submits) = {}
  /\ Orgs \cap (Recovers \cup Imports) = {} /\ Provisions \cap (Recalls \cup Submits) = {}
  /\ Recalls \cap Submits = {} /\ (Provisions \cup Recalls \cup Submits) \cap (Recovers \cup Imports) = {}
  /\ Recovers \cap Imports = {}
<1> DEFINE kinds == <<Setups, Creates, Provisions, Recalls, Submits, Recovers, Imports>>
<1>1. \A i, j \in 1 .. 7 : i # j => kinds[i] \cap kinds[j] = {}
  BY CallsAssumption
<1>2. /\ kinds[1] = Setups /\ kinds[2] = Creates /\ kinds[3] = Provisions /\ kinds[4] = Recalls
      /\ kinds[5] = Submits /\ kinds[6] = Recovers /\ kinds[7] = Imports
  OBVIOUS
<1> HIDE DEF kinds
<1>3. \A i \in 1 .. 7 : \A j \in 1 .. 7 \ {i} : \A x : ~(x \in kinds[i] /\ x \in kinds[j])
  BY <1>1
<1>4. /\ \A x : ~(x \in Setups /\ x \in Creates) /\ ~(x \in Setups /\ x \in Provisions)
      /\ \A x : ~(x \in Setups /\ x \in Recalls) /\ ~(x \in Setups /\ x \in Submits)
      /\ \A x : ~(x \in Setups /\ x \in Recovers) /\ ~(x \in Setups /\ x \in Imports)
  BY <1>2, <1>3
<1>5. /\ \A x : ~(x \in Creates /\ x \in Provisions) /\ ~(x \in Creates /\ x \in Recalls)
      /\ \A x : ~(x \in Creates /\ x \in Submits) /\ ~(x \in Creates /\ x \in Recovers)
      /\ \A x : ~(x \in Creates /\ x \in Imports)
  BY <1>2, <1>3
<1>6. /\ \A x : ~(x \in Provisions /\ x \in Recalls) /\ ~(x \in Provisions /\ x \in Submits)
      /\ \A x : ~(x \in Provisions /\ x \in Recovers) /\ ~(x \in Provisions /\ x \in Imports)
  BY <1>2, <1>3
<1>7. /\ \A x : ~(x \in Recalls /\ x \in Submits) /\ ~(x \in Recalls /\ x \in Recovers)
      /\ \A x : ~(x \in Recalls /\ x \in Imports) /\ ~(x \in Submits /\ x \in Recovers)
      /\ \A x : ~(x \in Submits /\ x \in Imports) /\ ~(x \in Recovers /\ x \in Imports)
  BY <1>2, <1>3
<1> QED BY <1>4, <1>5, <1>6, <1>7 DEF Orgs

LEMMA Nones ==
  /\ None \notin Orgs /\ None \notin Calls /\ None \notin PreKeys /\ None \notin Identities
  /\ None \notin DeviceKeys /\ None \notin Processes
BY CallsAssumption, ProcessesAssumption DEF Calls, Orgs, PreKeys, Identities

LEMMA Belong ==
  /\ \A t \in Calls : ProcessOf[t] \in Processes
  /\ Server \in Processes
BY DEF Processes

LEMMA StateInit == Init => State /\ Hands
<1> SUFFICES ASSUME Init PROVE State /\ Hands
  OBVIOUS
<1>1. PICK made \in Mixes : call = [t \in Calls |-> NewCall(t, IF t \in made THEN "new" ELSE "over")]
  BY DEF Init
<1>2. ASSUME NEW t \in Calls, NEW at \in {"new", "over"} PROVE Fits(t, NewCall(t, at))
  BY DEF Fits, NewCall, CallRec, Steps, Orgs
<1>3. call \in [Calls -> CallRec] /\ \A t \in Calls : Fits(t, call[t]) /\ call[t].at \in {"new", "over"}
  BY <1>1, <1>2 DEF Fits, NewCall
<1>4. file \in Stores
  BY DEF Init, Empty, Stores
<1>5. State
  <2>1. /\ writing \in [Processes -> Updates \cup {None}]
        /\ cached \in [Processes -> Identities \cup {None}]
        /\ preCache \in [Processes -> PreKeys \cup {None}]
        /\ leader \in [Orgs -> Identities \cup {None}]
        /\ entries \in [Submits -> (DeviceKeys \X DeviceKeys) \cup {None}]
    BY DEF Init
  <2>2. identity \in Identities \cup {None} /\ mishaps \in 0 .. MaxMishaps
    BY BoundsAssumption DEF Init, Identities
  <2> QED BY <1>3, <1>4, <2>1, <2>2 DEF Init, State
<1>6. Hands
  BY <1>3 DEF Init, Hands
<1> QED BY <1>5, <1>6

LEMMA OverFits ==
  ASSUME State, NEW t \in Calls
  PROVE  Fits(t, Over(t)) /\ Over(t).at = "over"
<1>1. call[t].asker \in Identities \cup {None}
  BY DEF State, CallRec
<1>2. Over(t) = [at |-> "over", org |-> IF t \in Orgs THEN t ELSE None,
                 left |-> IF t \in Creates THEN {t} ELSE {}, inner |-> None, seen |-> None,
                 asker |-> call[t].asker]
  BY DEF Over, NewCall
<1> QED BY <1>1, <1>2 DEF Fits, CallRec, Steps, Orgs

\* One call moves on; its process may end an update of the keystore, and none begins one.
LEMMA Move ==
  ASSUME State, Hands, NEW t \in Calls, NEW l, Fits(t, l), call' = [call EXCEPT ![t] = l],
         \A p \in Processes :
            /\ writing'[p] # None => /\ writing'[p] = writing[p]
                                     /\ p = ProcessOf[t] => call[t].at \notin Storing
            /\ preCache[p] # None => preCache'[p] # None,
         l.at \in {"memberships", "register"} => preCache'[ProcessOf[t]] # None
  PROVE  /\ call' \in [Calls -> CallRec] /\ \A u \in Calls : Fits(u, call'[u])
         /\ Hands'
<1>1. \A u \in Calls : call'[u] = IF u = t THEN l ELSE call[u]
  BY DEF State
<1>2. call' \in [Calls -> CallRec] /\ \A u \in Calls : Fits(u, call'[u])
  BY <1>1 DEF State, Fits
<1>3. \A p \in Processes : writing'[p] # None =>
        ProcessOf[writing'[p].by] = p /\ call'[writing'[p].by].at \in Storing
  BY <1>1 DEF Hands, State, Updates
<1>4. \A u \in Calls : call'[u].at \in {"memberships", "register"} => preCache'[ProcessOf[u]] # None
  BY <1>1, Belong DEF Hands
<1> QED BY <1>2, <1>3, <1>4 DEF Hands

LEMMA Goes ==
  ASSUME State, Hands, NEW t \in Calls, NEW at, GoTo(t, at),
         at # "over" => Fits(t, [call[t] EXCEPT !.at = at]),
         \A p \in Processes :
            /\ writing'[p] # None => /\ writing'[p] = writing[p]
                                     /\ p = ProcessOf[t] => call[t].at \notin Storing
            /\ preCache[p] # None => preCache'[p] # None,
         at \in {"memberships", "register"} => preCache'[ProcessOf[t]] # None
  PROVE  /\ call' \in [Calls -> CallRec] /\ \A u \in Calls : Fits(u, call'[u])
         /\ Hands'
<1>1. CASE at = "over"
  BY <1>1, OverFits, Move DEF GoTo
<1>2. CASE at # "over"
  <2> DEFINE l == [call[t] EXCEPT !.at = at]
  <2>1. call' = [call EXCEPT ![t] = l] /\ Fits(t, l)
    BY <1>2 DEF GoTo
  <2>2. l.at = at
    BY DEF State, CallRec
  <2> HIDE DEF l
  <2> QED BY <2>1, <2>2, Move
<1> QED BY <1>1, <1>2

\* What a step may be changed to without anything else.
LEMMA FitsAt ==
  ASSUME State, NEW t \in Calls, NEW at,
         \/ at = "new" /\ t \in Calls
         \/ at = "seed" /\ t \in Creates \cup Imports
         \/ at \in {"given", "created"} /\ t \in Setups
         \/ at = "master" /\ t \in Orgs
         \/ at = "mod" /\ t \in Orgs
         \/ at = "vault" /\ t \in Creates
         \/ at \in {"needPre", "pre"} /\ t \in Creates \cup Recalls
         \/ at = "pre" /\ call[t].at \in {"needPre", "pre"}
         \/ at = "memberships" /\ t \in Recalls
         \/ at = "register" /\ t \notin Recalls /\ call[t].at \in {"needPre", "pre"}
         \/ at \in {"inner", "newInner"} /\ t \in Submits
         \/ at = "newOuter" /\ call[t].at = "outer"
  PROVE  Fits(t, [call[t] EXCEPT !.at = at]) /\ at # "over"
<1>1. Fits(t, call[t]) /\ call[t] \in CallRec
  BY DEF State
<1>2. t \in Orgs => t # None
  BY Nones
<1> QED BY <1>1, <1>2, Kinds DEF Fits, CallRec, Steps, Orgs

LEMMA IdentityState ==
  ASSUME State, Hands, NEW t \in Calls, BeginImport(t) \/ NeedIdentity(t) \/ StoreIdentity(t)
  PROVE  State' /\ Hands'
<1>1. CASE BeginImport(t) \/ NeedIdentity(t)
  <2>1. GoTo(t, "seed") /\ At(t, "new") /\ t \in Creates \cup Imports /\ UNCHANGED <<writing, preCache>>
    BY <1>1 DEF BeginImport, NeedIdentity
  <2>2. call' \in [Calls -> CallRec] /\ (\A u \in Calls : Fits(u, call'[u])) /\ Hands'
    BY <2>1, FitsAt, Goes DEF At
  <2> QED BY <1>1, <2>2 DEF BeginImport, NeedIdentity, State, hubside
<1>2. CASE StoreIdentity(t)
  <2>1. t \in Creates \cup Imports /\ At(t, "seed") /\ UNCHANGED <<writing, preCache>>
    BY <1>2 DEF StoreIdentity, At, State, Fits
  <2>2. call' \in [Calls -> CallRec] /\ (\A u \in Calls : Fits(u, call'[u])) /\ Hands'
    BY <1>2, <2>1, FitsAt, Goes DEF StoreIdentity, At
  <2>3. identity' \in Identities /\ cached' \in [Processes -> Identities \cup {None}]
    BY <1>2, <2>1 DEF StoreIdentity, Identities, State
  <2> QED BY <1>2, <2>2, <2>3 DEF StoreIdentity, State, hubside
<1> QED BY <1>1, <1>2

LEMMA PutState ==
  ASSUME State, Hands, NEW t \in Calls, BeginPut(t)
  PROVE  State' /\ Hands'
<1> DEFINE w == [by |-> t, read |-> file, step |-> "open"]
<1>1. w \in Updates /\ w.by = t
  BY DEF Updates, State
<1>2. writing' = [writing EXCEPT ![ProcessOf[t]] = w] /\ UNCHANGED <<call, preCache>>
  BY DEF BeginPut
<1> HIDE DEF w
<1>3. writing' \in [Processes -> Updates \cup {None}]
  BY <1>1, <1>2, Belong DEF State
<1>4. Hands'
  BY <1>1, <1>2, Belong DEF Hands, State, BeginPut
<1>5. State'
  BY <1>2, <1>3 DEF State, BeginPut, hubside
<1> QED BY <1>4, <1>5

LEMMA LoadType ==
  ASSUME State, NEW p \in Processes
  PROVE  /\ Known(p) \in Identities \cup {None}
         /\ Load(p) => cached' \in [Processes -> Identities \cup {None}]
BY DEF Known, Load, State

LEMMA SubmitState ==
  ASSUME State, Hands, NEW t \in Calls, Submit(t) \/ GetDeviceKey(t)
  PROVE  State' /\ Hands'
<1>1. CASE Submit(t)
  <2>1. call' \in [Calls -> CallRec] /\ (\A u \in Calls : Fits(u, call'[u])) /\ Hands'
    BY <1>1, FitsAt, Goes DEF Submit, At
  <2> QED BY <1>1, <2>1, LoadType, Belong DEF Submit, State, hubside, histories
<1>2. CASE GetDeviceKey(t)
  <2>1. t \in Submits /\ writing[ProcessOf[t]] = None /\ UNCHANGED <<writing, preCache>>
    BY <1>2 DEF GetDeviceKey, At, State, Fits
  <2>2. file.device \in DeviceKeys \cup {None} /\ call[t].inner \in DeviceKeys \cup {None}
        /\ call[t] \in CallRec /\ Fits(t, call[t])
    BY DEF State, Stores, CallRec
  <2>3. CASE file.device = None
    <3>1. UNCHANGED entries
      BY <1>2, <2>3 DEF GetDeviceKey
    <3>2. \/ GoTo(t, "newInner")
          \/ GoTo(t, "newOuter") /\ call[t].at = "outer"
      BY <1>2, <2>3 DEF GetDeviceKey, At
    <3>3. call' \in [Calls -> CallRec] /\ (\A u \in Calls : Fits(u, call'[u])) /\ Hands'
      BY <2>1, <3>2, FitsAt, Goes
    <3> QED BY <1>2, <3>1, <3>3 DEF GetDeviceKey, State, hubside
  <2>4. CASE file.device # None /\ call[t].at = "inner"
    <3> DEFINE l == [call[t] EXCEPT !.at = "outer", !.inner = file.device]
    <3>0. /\ l \in CallRec /\ l.at = "outer" /\ l.inner = file.device
          /\ l.org = call[t].org /\ l.left = call[t].left
      BY <2>2, <2>4 DEF CallRec, Steps
    <3>2. call' = [call EXCEPT ![t] = l] /\ UNCHANGED entries
      BY <1>2, <2>4 DEF GetDeviceKey
    <3> HIDE DEF l
    <3>1. Fits(t, l)
      BY <2>1, <2>2, <2>4, <3>0, Kinds DEF Fits
    <3>3. call' \in [Calls -> CallRec] /\ (\A u \in Calls : Fits(u, call'[u])) /\ Hands'
      BY <2>1, <3>0, <3>1, <3>2, Move
    <3> QED BY <1>2, <3>2, <3>3 DEF GetDeviceKey, State, hubside
  <2>5. CASE file.device # None /\ call[t].at # "inner"
    <3>1. GoTo(t, "over") /\ call[t].at = "outer"
          /\ entries' = [entries EXCEPT ![t] = <<call[t].inner, file.device>>]
      BY <1>2, <2>5 DEF GetDeviceKey, At
    <3>2. call' \in [Calls -> CallRec] /\ (\A u \in Calls : Fits(u, call'[u])) /\ Hands'
      BY <2>1, <3>1, Goes
    <3>3. <<call[t].inner, file.device>> \in DeviceKeys \X DeviceKeys
      BY <2>2, <2>5, <3>1 DEF Fits
    <3> HIDE DEF GoTo
    <3>4. entries' \in [Submits -> (DeviceKeys \X DeviceKeys) \cup {None}]
      BY <2>1, <3>1, <3>3 DEF State
    <3> QED BY <1>2, <3>2, <3>4 DEF GetDeviceKey, State, hubside
  <2> QED BY <2>3, <2>4, <2>5
<1> QED BY <1>1, <1>2

LEMMA SetupState ==
  ASSUME State, Hands, NEW t \in Calls, Verify(t) \/ Setup(t) \/ HubMakes(t) \/ Finalize(t)
  PROVE  State' /\ Hands'
<1>1. CASE Verify(t)
  <2> DEFINE l == [call[t] EXCEPT !.at = "verified", !.asker = Known(Server)]
  <2>1. call[t] \in CallRec /\ Fits(t, call[t]) /\ Known(Server) \in Identities \cup {None}
    BY LoadType, Belong DEF State
  <2>2. Fits(t, l) /\ l.at = "verified"
    <3>1. l \in CallRec
      BY <2>1 DEF CallRec, Steps
    <3>2. /\ l.at = "verified" /\ l.org = call[t].org /\ l.left = call[t].left
          /\ l.inner = call[t].inner
      BY <2>1 DEF CallRec
    <3> HIDE DEF l
    <3> QED BY <1>1, <2>1, <3>1, <3>2 DEF Verify, Fits
  <2>3. call' = [call EXCEPT ![t] = l]
    BY <1>1 DEF Verify
  <2> HIDE DEF l
  <2>4. call' \in [Calls -> CallRec] /\ (\A u \in Calls : Fits(u, call'[u])) /\ Hands'
    BY <1>1, <2>2, <2>3, Move DEF Verify, At
  <2> QED BY <1>1, <2>4, LoadType, Belong DEF Verify, State, hubside, histories
<1>2. CASE Setup(t)
  <2>1. t \in Setups
    BY <1>2 DEF Setup, At, State, Fits
  <2>2. call' \in [Calls -> CallRec] /\ (\A u \in Calls : Fits(u, call'[u])) /\ Hands'
    BY <1>2, <2>1, FitsAt, Goes DEF Setup, At
  <2>3. pending' \subseteq Setups /\ dropped' \subseteq Orgs
    BY <1>2, <2>1 DEF Setup, Purged, State, Orgs
  <2>4. leader' \in [Orgs -> Identities \cup {None}]
    BY <1>2, <2>1, LoadType, Belong DEF Setup, State, Orgs
  <2> QED BY <1>2, <2>2, <2>3, <2>4, LoadType, Belong DEF Setup, State
<1>3. CASE HubMakes(t)
  <2>1. t \in Setups
    BY <1>3 DEF HubMakes, State, Fits
  <2>2. call' \in [Calls -> CallRec] /\ (\A u \in Calls : Fits(u, call'[u])) /\ Hands'
    BY <1>3, <2>1, FitsAt, Goes DEF HubMakes, Storing
  <2> QED BY <1>3, <2>1, <2>2 DEF HubMakes, State, histories, Orgs
<1>4. CASE Finalize(t)
  <2>1. t \in Setups
    BY <1>4 DEF Finalize, At, State, Fits
  <2>2. GoTo(t, "master") \/ GoTo(t, "over")
    BY <1>4 DEF Finalize
  <2>3. call' \in [Calls -> CallRec] /\ (\A u \in Calls : Fits(u, call'[u])) /\ Hands'
    BY <1>4, <2>1, <2>2, FitsAt, Goes DEF Finalize, At, Orgs
  <2>4. pending' \subseteq Setups /\ dropped' \subseteq Orgs
    BY <1>4, <2>1 DEF Finalize, Purged, Left, State, Orgs
  <2> QED BY <1>4, <2>3, <2>4 DEF Finalize, State, hubside
<1> QED BY <1>1, <1>2, <1>3, <1>4

LEMMA CreateState ==
  ASSUME State, Hands, NEW t \in Calls, Build(t) \/ Post(t) \/ SaveVault(t)
  PROVE  State' /\ Hands'
<1>0. call[t] \in CallRec /\ Fits(t, call[t])
  BY DEF State
<1>1. CASE Build(t)
  <2>1. t \in Creates /\ UNCHANGED <<writing, preCache>> /\ writing[ProcessOf[t]] = None
    BY <1>1 DEF Build, At
  <2>2. PICK seen \in {None, vault} : call' = [call EXCEPT ![t].at = "post", ![t].seen = seen]
    BY <1>1 DEF Build
  <2> DEFINE l == [call[t] EXCEPT !.at = "post", !.seen = seen]
  <2>3. l \in CallRec
    BY <1>0 DEF CallRec, Steps, State
  <2>4. l.at = "post" /\ l.org = call[t].org /\ l.left = call[t].left /\ l.inner = call[t].inner
    BY <1>0 DEF CallRec
  <2>5. call' = [call EXCEPT ![t] = l]
    BY <2>2
  <2> HIDE DEF l
  <2>6. Fits(t, l)
    BY <1>0, <2>1, <2>3, <2>4 DEF Fits
  <2>7. call' \in [Calls -> CallRec] /\ (\A u \in Calls : Fits(u, call'[u])) /\ Hands'
    BY <2>1, <2>4, <2>5, <2>6, Move
  <2>8. leader' \in [Orgs -> Identities \cup {None}] /\ cached' \in [Processes -> Identities \cup {None}]
    BY <1>1, <2>1, LoadType, Belong DEF Build, State, Orgs
  <2> QED BY <1>1, <2>7, <2>8 DEF Build, State, histories
<1>2. CASE Post(t)
  <2>1. t \in Creates /\ UNCHANGED <<writing, preCache>> /\ writing[ProcessOf[t]] = None
    BY <1>0, <1>2 DEF Post, At, Fits
  <2>2. GoTo(t, "master") \/ GoTo(t, "over")
    BY <1>2 DEF Post
  <2>3. call' \in [Calls -> CallRec] /\ (\A u \in Calls : Fits(u, call'[u])) /\ Hands'
    BY <2>1, <2>2, FitsAt, Goes DEF Orgs
  <2>4. mishaps' \in 0 .. MaxMishaps /\ dropped' \subseteq Orgs /\ hub' \subseteq Orgs
    BY <1>2, <2>1, BoundsAssumption DEF Post, Mishap, State, Orgs
  <2> QED BY <1>2, <2>3, <2>4 DEF Post, State
<1>3. CASE SaveVault(t)
  <2>1. t \in Creates /\ UNCHANGED <<writing, preCache>> /\ writing[ProcessOf[t]] = None
    BY <1>0, <1>3 DEF SaveVault, At, Fits
  <2>2. GoTo(t, "over")
    BY <1>3 DEF SaveVault
  <2>3. call' \in [Calls -> CallRec] /\ (\A u \in Calls : Fits(u, call'[u])) /\ Hands'
    BY <2>1, <2>2, Goes
  <2>4. mishaps' \in 0 .. MaxMishaps /\ acked' \subseteq Orgs
    BY <1>3, <2>1, BoundsAssumption DEF SaveVault, Acked, Mishap, State, Orgs
  <2>5. vault' \subseteq Creates
    <3>1. call[t].seen # None => call[t].seen \subseteq Creates
      BY <1>0 DEF CallRec
    <3> QED BY <1>3, <2>1, <3>1 DEF SaveVault, State
  <2> QED BY <1>3, <2>3, <2>4, <2>5 DEF SaveVault, State, hubside
<1> QED BY <1>1, <1>2, <1>3

LEMMA MemberState ==
  ASSUME State, Hands, NEW t \in Calls,
         Provision(t) \/ EnsureIdentity(t) \/ LoadMemberships(t) \/ Recover(t) \/ Refused(t)
  PROVE  State' /\ Hands'
<1>0. call[t] \in CallRec /\ Fits(t, call[t])
  BY DEF State
<1>1. CASE Provision(t)
  <2>1. t \in Provisions /\ UNCHANGED <<writing, preCache>> /\ writing[ProcessOf[t]] = None
    BY <1>1 DEF Provision, At
  <2>2. PICK o \in Orgs :
          call' = IF o \in file.master
                  THEN [call EXCEPT ![t].at = "needPre", ![t].org = o, ![t].left = {o}]
                  ELSE [call EXCEPT ![t] = Over(t)]
    BY <1>1 DEF Provision
  <2>5. call' \in [Calls -> CallRec] /\ (\A u \in Calls : Fits(u, call'[u])) /\ Hands'
    <3>1. CASE o \in file.master
      <4> DEFINE l == [call[t] EXCEPT !.at = "needPre", !.org = o, !.left = {o}]
      <4>1. l \in CallRec /\ l.at = "needPre" /\ l.left = {o}
        BY <1>0 DEF CallRec, Steps
      <4>2. call' = [call EXCEPT ![t] = l]
        BY <2>2, <3>1
      <4> HIDE DEF l
      <4>3. Fits(t, l)
        BY <1>0, <2>1, <4>1, Kinds DEF Fits, Orgs
      <4> QED BY <2>1, <4>1, <4>2, <4>3, Move
    <3>2. CASE o \notin file.master
      BY <2>1, <2>2, <3>2, OverFits, Move
    <3> QED BY <3>1, <3>2
  <2> QED BY <1>1, <2>5 DEF Provision, State, hubside, histories
<1>2. CASE EnsureIdentity(t)
  <2>1. t \in Recalls /\ UNCHANGED <<writing, preCache>> /\ writing[ProcessOf[t]] = None
    BY <1>2 DEF EnsureIdentity, At
  <2>2. GoTo(t, "needPre") \/ GoTo(t, "over")
    BY <1>2 DEF EnsureIdentity
  <2>3. call' \in [Calls -> CallRec] /\ (\A u \in Calls : Fits(u, call'[u])) /\ Hands'
    BY <2>1, <2>2, FitsAt, Goes
  <2> QED BY <1>2, <2>3, LoadType, Belong DEF EnsureIdentity, State, hubside, histories
<1>3. CASE LoadMemberships(t)
  <2>1. /\ t \in Recalls /\ UNCHANGED <<writing, preCache>> /\ writing[ProcessOf[t]] = None
        /\ preCache[ProcessOf[t]] # None
    BY <1>0, <1>3 DEF LoadMemberships, At, Fits, Hands
  <2> DEFINE orgs == {o \in hub : leader[o] = Known(Server)}
             l == [call[t] EXCEPT !.left = orgs, !.at = "register"]
  <2>2. orgs \subseteq Orgs
    BY DEF State
  <2>3. \/ GoTo(t, "over")
        \/ call' = [call EXCEPT ![t] = Over(t)]
        \/ orgs # {} /\ call' = [call EXCEPT ![t] = l]
    BY <1>3 DEF LoadMemberships
  <2>4. l \in CallRec /\ l.at = "register" /\ l.left = orgs
    BY <1>0, <2>2 DEF CallRec, Steps
  <2> HIDE DEF l, orgs
  <2>5. orgs # {} => Fits(t, l)
    BY <1>0, <2>1, <2>4, Kinds DEF Fits, Orgs
  <2>6. call' \in [Calls -> CallRec] /\ (\A u \in Calls : Fits(u, call'[u])) /\ Hands'
    <3>1. CASE GoTo(t, "over")
      BY <2>1, <3>1, Goes
    <3>2. CASE call' = [call EXCEPT ![t] = Over(t)]
      BY <2>1, <3>2, OverFits, Move
    <3>3. CASE orgs # {} /\ call' = [call EXCEPT ![t] = l]
      BY <2>1, <2>4, <2>5, <3>3, Move
    <3> QED BY <2>3, <3>1, <3>2, <3>3
  <2>7. mishaps' \in 0 .. MaxMishaps
    BY <1>3, BoundsAssumption DEF LoadMemberships, Mishap, State
  <2>8. done' \in BOOLEAN
    BY <1>3 DEF LoadMemberships, State
  <2> QED BY <1>3, <2>6, <2>7, <2>8 DEF LoadMemberships, State, hubside, histories
<1>4. CASE Recover(t)
  <2>1. t \in Recovers /\ UNCHANGED <<writing, preCache>> /\ writing[ProcessOf[t]] = None
    BY <1>4 DEF Recover, At
  <2>2. PICK o \in Orgs : call' = [call EXCEPT ![t].at = "master", ![t].org = o]
    BY <1>4 DEF Recover
  <2> DEFINE l == [call[t] EXCEPT !.at = "master", !.org = o]
  <2>3. l \in CallRec /\ l.at = "master" /\ l.org = o
    BY <1>0 DEF CallRec, Steps
  <2>4. call' = [call EXCEPT ![t] = l]
    BY <2>2
  <2> HIDE DEF l
  <2>5. Fits(t, l)
    BY <2>1, <2>3, Kinds, Nones DEF Fits, Orgs
  <2>6. call' \in [Calls -> CallRec] /\ (\A u \in Calls : Fits(u, call'[u])) /\ Hands'
    BY <2>1, <2>3, <2>4, <2>5, Move
  <2> QED BY <1>4, <2>6 DEF Recover, State, hubside, histories
<1>5. CASE Refused(t)
  <2>1. call' \in [Calls -> CallRec] /\ (\A u \in Calls : Fits(u, call'[u])) /\ Hands'
    BY <1>5, Goes DEF Refused, At
  <2> QED BY <1>5, <2>1 DEF Refused, State, hubside, histories
<1> QED BY <1>1, <1>2, <1>3, <1>4, <1>5

LEMMA RegisterState ==
  ASSUME State, Hands, NEW t \in Calls, Register(t)
  PROVE  State' /\ Hands'
<1>1. /\ call[t] \in CallRec /\ Fits(t, call[t]) /\ call[t].at = "register"
      /\ preCache[ProcessOf[t]] # None /\ call[t].left \subseteq Orgs
      /\ UNCHANGED <<writing, preCache>> /\ writing[ProcessOf[t]] = None
  BY DEF Register, At, State, Hands, CallRec
<1>2. PICK o \in call[t].left, ok \in BOOLEAN :
        /\ registered' = IF ok THEN registered \cup {<<o, preCache[ProcessOf[t]]>>} ELSE registered
        /\ call' = IF call[t].left = {o} THEN [call EXCEPT ![t] = Over(t)]
                   ELSE [call EXCEPT ![t].left = @ \ {o}]
        /\ IF ok \/ o \notin hub \/ leader[o] # Known(ProcessOf[t])
           THEN UNCHANGED mishaps ELSE Mishap
  BY DEF Register
<1> DEFINE l == [call[t] EXCEPT !.left = @ \ {o}]
<1>3. l \in CallRec /\ l.at = "register" /\ l.left = call[t].left \ {o} /\ l.org = call[t].org
  BY <1>1 DEF CallRec
<1>4. call' = IF call[t].left = {o} THEN [call EXCEPT ![t] = Over(t)] ELSE [call EXCEPT ![t] = l]
  BY <1>2
<1> HIDE DEF l
<1>5. call[t].left # {o} => Fits(t, l)
  BY <1>1, <1>2, <1>3 DEF Fits
<1>6. call' \in [Calls -> CallRec] /\ (\A u \in Calls : Fits(u, call'[u])) /\ Hands'
  <2>1. CASE call[t].left = {o}
    BY <1>1, <1>4, <2>1, OverFits, Move
  <2>2. CASE call[t].left # {o}
    BY <1>1, <1>3, <1>4, <1>5, <2>2, Move
  <2> QED BY <2>1, <2>2
<1>7. registered' \subseteq Orgs \X PreKeys
  <2>1. preCache[ProcessOf[t]] \in PreKeys
    BY <1>1, Belong DEF State
  <2> QED BY <1>1, <1>2, <2>1 DEF State
<1>8. mishaps' \in 0 .. MaxMishaps
  BY <1>2, BoundsAssumption DEF Mishap, State
<1>9. acked' \subseteq Orgs /\ cached' \in [Processes -> Identities \cup {None}]
  BY LoadType, Belong DEF Register, Acked, State, Orgs
<1> QED BY <1>6, <1>7, <1>8, <1>9 DEF Register, State

LEMMA GetPreState ==
  ASSUME State, Hands, NEW t \in Calls, GetPre(t)
  PROVE  State' /\ Hands'
<1> DEFINE p == ProcessOf[t]
           key == IF preCache[p] # None THEN preCache[p] ELSE file.pre
<1>1. Fits(t, call[t]) /\ p \in Processes /\ file.pre \in PreKeys \cup {None}
  BY Belong DEF State, Stores
<1>2. /\ preCache' = [preCache EXCEPT ![p] = key] /\ writing' = writing /\ writing[p] = None
      /\ call[t].at = "needPre"
      /\ GoTo(t, IF key = None THEN "pre" ELSE IF t \in Recalls THEN "memberships" ELSE "register")
  BY DEF GetPre, At
<1>3. preCache' \in [Processes -> PreKeys \cup {None}] /\ preCache'[p] = key
      /\ \A q \in Processes : preCache[q] # None => preCache'[q] # None
  BY <1>1, <1>2 DEF State
<1> HIDE DEF key
<1>4. call' \in [Calls -> CallRec] /\ (\A u \in Calls : Fits(u, call'[u])) /\ Hands'
  <2>1. CASE key = None
    BY <1>2, <1>3, <2>1, FitsAt, Goes
  <2>2. CASE key # None /\ t \in Recalls
    BY <1>2, <1>3, <2>2, FitsAt, Goes
  <2>3. CASE key # None /\ t \notin Recalls
    BY <1>2, <1>3, <2>3, FitsAt, Goes
  <2> QED BY <2>1, <2>2, <2>3
<1>5. clash' \in BOOLEAN
  BY DEF GetPre, State
<1> QED BY <1>3, <1>4, <1>5 DEF GetPre, State, hubside

LEMMA OpenState ==
  ASSUME State, Hands, NEW p \in Processes, OpenFile(p)
  PROVE  State' /\ Hands'
<1>1. writing[p] \in Updates /\ writing' = [writing EXCEPT ![p].step = "write"]
  BY DEF OpenFile, State
<1> DEFINE w == [writing[p] EXCEPT !.step = "write"]
<1>2. w \in Updates /\ w.by = writing[p].by /\ writing' = [writing EXCEPT ![p] = w]
  BY <1>1 DEF Updates
<1> HIDE DEF w
<1>3. writing' \in [Processes -> Updates \cup {None}]
  BY <1>2 DEF State
<1>4. Empty \in Stores
  BY DEF Empty, Stores
<1>5. UNCHANGED <<call, preCache>> /\ writing[p] # None
  BY DEF OpenFile
<1>6. Hands'
  BY <1>2, <1>5 DEF Hands, State
<1> QED BY <1>3, <1>4, <1>6 DEF OpenFile, State, hubside, histories

\* The call that a process updates the keystore for.
LEMMA Writing ==
  ASSUME State, Hands, NEW p \in Processes, writing[p] # None
  PROVE  /\ writing[p] \in Updates /\ writing[p].by \in Calls /\ writing[p].read \in Stores
         /\ ProcessOf[writing[p].by] = p /\ call[writing[p].by].at \in Storing
BY DEF State, Hands, Updates

LEMMA KeyedType ==
  ASSUME State, NEW t \in Calls, call[t].at \in Storing, NEW s \in Stores
  PROVE  Keyed(s, t) \in Stores
<1>1. Fits(t, call[t]) /\ call[t].org \in Orgs \cup {None}
  BY DEF State, CallRec
<1>2. CASE call[t].at = "master"
  BY <1>1, <1>2 DEF Keyed, Stores, Fits
<1>3. CASE call[t].at = "mod"
  BY <1>1, <1>3 DEF Keyed, Stores, Fits
<1>4. CASE call[t].at = "pre"
  BY <1>1, <1>4 DEF Keyed, Stores, Fits, PreKeys
<1>5. CASE call[t].at = "newInner"
  BY <1>1, <1>5 DEF Keyed, Stores, Fits, DeviceKeys
<1>6. CASE call[t].at = "newOuter"
  BY <1>1, <1>6 DEF Keyed, Stores, Fits, DeviceKeys
<1> QED BY <1>2, <1>3, <1>4, <1>5, <1>6 DEF Storing

LEMMA StoredFits ==
  ASSUME State, NEW t \in Calls, call[t].at \in Storing
  PROVE  /\ Fits(t, Stored(t))
         /\ Stored(t).at \in {"memberships", "register"} => call[t].at = "pre"
<1>1. Fits(t, call[t]) /\ call[t] \in CallRec
  BY DEF State
<1>2. Fits(t, Over(t)) /\ Over(t).at = "over"
  BY OverFits
<1>3. CASE call[t].at = "master"
  <2>1. Stored(t) = IF t \in Recovers THEN Over(t) ELSE [call[t] EXCEPT !.at = "mod"]
    BY <1>3 DEF Stored
  <2>2. t \notin Recovers => t \in Orgs
    BY <1>1, <1>3 DEF Fits
  <2>3. [call[t] EXCEPT !.at = "mod"].at = "mod"
    BY <1>1 DEF CallRec
  <2> QED BY <1>2, <2>1, <2>2, <2>3, FitsAt
<1>4. CASE call[t].at = "mod"
  <2>1. Stored(t) = IF t \in Setups THEN Over(t)
                    ELSE [call[t] EXCEPT !.at = IF InServer(t) THEN "needPre" ELSE "vault"]
    BY <1>4 DEF Stored
  <2>2. t \notin Setups => t \in Creates
    BY <1>1, <1>4 DEF Fits, Orgs
  <2>3. \A at \in Steps : [call[t] EXCEPT !.at = at].at = at
    BY <1>1 DEF CallRec
  <2> QED BY <1>2, <2>1, <2>2, <2>3, FitsAt DEF Steps
<1>5. CASE call[t].at = "pre"
  <2>1. Stored(t) = [call[t] EXCEPT !.at = IF t \in Recalls THEN "memberships" ELSE "register"]
    BY <1>5 DEF Stored
  <2> QED BY <1>5, <2>1, FitsAt
<1>6. CASE call[t].at = "newInner"
  <2>1. Stored(t) = [call[t] EXCEPT !.at = "outer", !.inner = <<t, 1>>]
    BY <1>6 DEF Stored
  <2>2. t \in Submits /\ <<t, 1>> \in DeviceKeys
    BY <1>1, <1>6 DEF Fits, DeviceKeys
  <2>3. /\ Stored(t) \in CallRec /\ Stored(t).at = "outer" /\ Stored(t).inner = <<t, 1>>
    BY <1>1, <2>1, <2>2 DEF CallRec, Steps
  <2> QED BY <2>2, <2>3, Kinds, Nones DEF Fits, Orgs
<1>7. CASE call[t].at = "newOuter"
  BY <1>2, <1>7 DEF Stored
<1> QED BY <1>3, <1>4, <1>5, <1>6, <1>7 DEF Storing

LEMMA WriteState ==
  ASSUME State, Hands, NEW p \in Processes, WriteFile(p)
  PROVE  State' /\ Hands'
<1> DEFINE t == writing[p].by
<1>1. /\ t \in Calls /\ writing[p].read \in Stores /\ ProcessOf[t] = p /\ call[t].at \in Storing
      /\ Fits(t, call[t])
  BY Writing DEF WriteFile, State
<1>2. /\ writing' = [writing EXCEPT ![p] = None]
      /\ call' = [call EXCEPT ![t] = Stored(t)]
      /\ preCache' = IF call[t].at = "pre" THEN [preCache EXCEPT ![p] = t] ELSE preCache
  BY DEF WriteFile
<1>3. file' \in Stores
  BY <1>1, KeyedType DEF WriteFile
<1>4. /\ pending' = IF call[t].at = "mod" THEN pending \ {t} ELSE pending
      /\ acked' = IF call[t].at = "mod" /\ t \in Setups THEN acked \cup {t} ELSE acked
      /\ entries' = IF call[t].at = "newOuter"
                    THEN [entries EXCEPT ![t] = <<call[t].inner, <<t, 2>>>>] ELSE entries
  BY DEF WriteFile
<1> HIDE DEF t
<1>5. /\ preCache' \in [Processes -> PreKeys \cup {None}]
      /\ \A q \in Processes : preCache[q] # None => preCache'[q] # None
      /\ call[t].at = "pre" => preCache'[p] # None
  <2>1. call[t].at = "pre" => t \in PreKeys
    BY <1>1 DEF Fits, PreKeys
  <2> QED BY <1>2, <2>1, Nones DEF State
<1>6. /\ writing' \in [Processes -> Updates \cup {None}]
      /\ \A q \in Processes : writing'[q] # None => writing'[q] = writing[q] /\ q # p
  BY <1>2 DEF State
<1>7. call' \in [Calls -> CallRec] /\ (\A u \in Calls : Fits(u, call'[u])) /\ Hands'
  BY <1>1, <1>2, <1>5, <1>6, StoredFits, Move
<1>8. entries' \in [Submits -> (DeviceKeys \X DeviceKeys) \cup {None}]
  <2>1. CASE call[t].at = "newOuter"
    <3>1. t \in Submits /\ call[t].inner \in DeviceKeys /\ <<t, 2>> \in DeviceKeys
      BY <1>1, <2>1, Nones DEF Fits, CallRec, DeviceKeys
    <3> QED BY <1>4, <2>1, <3>1 DEF State
  <2>2. CASE call[t].at # "newOuter"
    BY <1>4, <2>2 DEF State
  <2> QED BY <2>1, <2>2
<1>9. pending' \subseteq Setups /\ acked' \subseteq Orgs
  BY <1>4 DEF State, Orgs
<1> QED BY <1>3, <1>5, <1>6, <1>7, <1>8, <1>9 DEF WriteFile, State, hubside

LEMMA PutFailsState ==
  ASSUME State, Hands, NEW p \in Processes, PutFails(p)
  PROVE  State' /\ Hands'
<1> DEFINE t == writing[p].by
<1>1. /\ t \in Calls /\ ProcessOf[t] = p /\ call[t].at \in Storing
      /\ Fits(t, call[t])
  BY Writing DEF PutFails, State
<1>2. /\ writing' = [writing EXCEPT ![p] = None] /\ preCache' = preCache
      /\ GoTo(t, IF t \in Setups THEN "created" ELSE IF call[t].at = "pre" THEN "pre" ELSE "over")
      /\ dropped' = IF t \in Creates /\ call[t].at \in {"master", "mod"} THEN dropped \cup {t}
                    ELSE dropped
  BY DEF PutFails
<1> HIDE DEF t
<1>3. /\ writing' \in [Processes -> Updates \cup {None}]
      /\ \A q \in Processes : writing'[q] # None => writing'[q] = writing[q] /\ q # p
  BY <1>2 DEF State
<1>4. call' \in [Calls -> CallRec] /\ (\A u \in Calls : Fits(u, call'[u])) /\ Hands'
  <2>1. CASE t \in Setups
    BY <1>1, <1>2, <1>3, <2>1, FitsAt, Goes
  <2>2. CASE t \notin Setups /\ call[t].at = "pre"
    BY <1>1, <1>2, <1>3, <2>2, FitsAt, Goes
  <2>3. CASE t \notin Setups /\ call[t].at # "pre"
    BY <1>1, <1>2, <1>3, <2>3, Goes
  <2> QED BY <2>1, <2>2, <2>3
<1>5. dropped' \subseteq Orgs
  BY <1>2 DEF State, Orgs
<1>6. mishaps' \in 0 .. MaxMishaps
  BY BoundsAssumption DEF PutFails, Mishap, State
<1>7. broken' \in BOOLEAN
  BY DEF PutFails, State
<1> QED BY <1>3, <1>4, <1>5, <1>6, <1>7 DEF PutFails, State, hubside

LEMMA KillState ==
  ASSUME State, Hands, NEW p \in Processes, Kill(p)
  PROVE  State' /\ Hands'
<1>1. \A t \in Calls :
        call'[t] = IF ProcessOf[t] # p \/ call[t].at \in {"new", "over", "given", "created"} THEN call[t]
                   ELSE IF t \in Setups \cap hub THEN [call[t] EXCEPT !.at = "created"] ELSE Over(t)
  BY DEF Kill
<1>2. ASSUME NEW t \in Calls
      PROVE  /\ Fits(t, call'[t])
             /\ call'[t] # call[t] => ProcessOf[t] = p /\ call'[t].at \in {"created", "over"}
             /\ call'[t].at \in Storing \cup {"memberships", "register"} => ProcessOf[t] # p /\ call'[t] = call[t]
  <2>1. Fits(t, call[t]) /\ call[t] \in CallRec
    BY DEF State
  <2>2. CASE ProcessOf[t] # p \/ call[t].at \in {"new", "over", "given", "created"}
    BY <1>1, <2>1, <2>2 DEF Storing
  <2>3. CASE ~(ProcessOf[t] # p \/ call[t].at \in {"new", "over", "given", "created"}) /\ t \in Setups \cap hub
    <3>1. call'[t] = [call[t] EXCEPT !.at = "created"]
      BY <1>1, <2>3
    <3>2. call'[t].at = "created"
      BY <2>1, <3>1 DEF CallRec
    <3> QED BY <2>3, <3>1, <3>2, FitsAt DEF Storing
  <2>4. CASE ~(ProcessOf[t] # p \/ call[t].at \in {"new", "over", "given", "created"}) /\ t \notin Setups \cap hub
    <3>1. call'[t] = Over(t)
      BY <1>1, <2>4
    <3> QED BY <2>4, <3>1, OverFits DEF Storing
  <2> QED BY <2>2, <2>3, <2>4
<1>3. DOMAIN call' = Calls /\ call' = [t \in Calls |-> call'[t]]
  BY DEF Kill
<1>4. call' \in [Calls -> CallRec]
  BY <1>2, <1>3 DEF Fits
<1>5. /\ writing' = [writing EXCEPT ![p] = None] /\ preCache' = [preCache EXCEPT ![p] = None]
      /\ cached' = [cached EXCEPT ![p] = None]
  BY DEF Kill
<1>6. /\ writing' \in [Processes -> Updates \cup {None}]
      /\ cached' \in [Processes -> Identities \cup {None}]
      /\ preCache' \in [Processes -> PreKeys \cup {None}]
  BY <1>5 DEF State
<1>7. Hands'
  <2>1. ASSUME NEW q \in Processes, writing'[q] # None
        PROVE  ProcessOf[writing'[q].by] = q /\ call'[writing'[q].by].at \in Storing
    <3>1. writing'[q] = writing[q] /\ q # p
      BY <1>5, <2>1 DEF State
    <3>2. writing[q].by \in Calls /\ ProcessOf[writing[q].by] = q /\ call[writing[q].by].at \in Storing
      BY <2>1, <3>1, Writing
    <3> QED BY <1>2, <3>1, <3>2
  <2>2. ASSUME NEW t \in Calls, call'[t].at \in {"memberships", "register"}
        PROVE  preCache'[ProcessOf[t]] # None
    BY <1>2, <1>5, <2>2, Belong DEF Hands, State
  <2> QED BY <2>1, <2>2 DEF Hands
<1>8. pending' \subseteq Setups /\ dropped' \subseteq Orgs
  BY DEF Kill, State, Orgs
<1>9. mishaps' \in 0 .. MaxMishaps
  BY BoundsAssumption DEF Kill, Mishap, State
<1>10. broken' \in BOOLEAN /\ done' \in BOOLEAN
  BY DEF Kill, State
<1> QED BY <1>2, <1>4, <1>6, <1>7, <1>8, <1>9, <1>10 DEF Kill, State, hubside

LEMMA StateNext == State /\ Hands /\ [Next]_vars => State' /\ Hands'
<1> SUFFICES ASSUME State, Hands, [Next]_vars PROVE State' /\ Hands'
  OBVIOUS
<1>1. ASSUME NEW t \in Calls,
             \/ BeginImport(t) \/ NeedIdentity(t) \/ StoreIdentity(t)
             \/ BeginPut(t) \/ GetPre(t) \/ Submit(t) \/ GetDeviceKey(t)
             \/ Verify(t) \/ Setup(t) \/ HubMakes(t) \/ Finalize(t)
             \/ Build(t) \/ Post(t) \/ SaveVault(t)
             \/ Provision(t) \/ EnsureIdentity(t) \/ LoadMemberships(t) \/ Register(t)
             \/ Recover(t) \/ Refused(t)
      PROVE  State' /\ Hands'
  BY <1>1, IdentityState, PutState, GetPreState, SubmitState, SetupState, CreateState, MemberState,
     RegisterState
<1>2. ASSUME NEW p \in Processes, OpenFile(p) \/ WriteFile(p) \/ PutFails(p) \/ Kill(p)
      PROVE  State' /\ Hands'
  BY <1>2, OpenState, WriteState, PutFailsState, KillState
<1>3. CASE UNCHANGED vars
  BY <1>3 DEF vars, hubside, histories, State, Hands
<1> QED BY <1>1, <1>2, <1>3 DEF Next

\* In every state of any run the variables are of their types and each call has what its
\* step needs: an org to store keys of, a PRE key to register, a device key.
THEOREM TypeCorrect == Spec => []TypeOK
<1>1. State /\ Hands => TypeOK
  <2> SUFFICES ASSUME State, Hands PROVE TypeOK
    OBVIOUS
  <2>1. ASSUME NEW p \in Processes, writing[p] # None
        PROVE  /\ writing[p] \in Updates
               /\ ProcessOf[writing[p].by] = p /\ call[writing[p].by].at \in Storing
    BY <2>1, Writing
  <2>2. ASSUME NEW t \in Calls
        PROVE  LET l == call[t] IN
               /\ l.at \in Steps /\ l.org \in Orgs \cup {None} /\ l.left \subseteq Orgs
               /\ l.inner \in DeviceKeys \cup {None} /\ l.asker \in Identities \cup {None}
               /\ l.seen = None \/ l.seen \subseteq Creates
               /\ l.at \in {"master", "mod"} => l.org # None
               /\ l.at = "register" => l.left # {} /\ preCache[ProcessOf[t]] # None
               /\ l.at \in {"outer", "newOuter"} => l.inner # None
    <3>1. call[t] \in CallRec /\ Fits(t, call[t])
      BY DEF State
    <3> QED BY <3>1 DEF Fits, Hands, CallRec
  <2> QED BY <2>1, <2>2 DEF TypeOK, State
<1> QED BY <1>1, StateInit, StateNext, PTL DEF Spec

-----------------------------------------------------------------------------
LEMMA Others ==
  ASSUME State, NEW t \in Calls, NEW l, call' = [call EXCEPT ![t] = l]
  PROVE  /\ call'[t] = l
         /\ \A u \in Calls : u # t => call'[u] = call[u]
BY DEF State

LEMMA GoneTo ==
  ASSUME State, NEW t \in Calls, NEW at, GoTo(t, at)
  PROVE  /\ \A u \in Calls : u # t => call'[u] = call[u]
         /\ call'[t].at = at /\ call'[t].asker = call[t].asker
         /\ call'[t].seen \in {call[t].seen, None}
         /\ at # "over" => call'[t].inner = call[t].inner
<1>1. call[t] \in CallRec
  BY DEF State
<1>2. CASE at = "over"
  <2>1. call' = [call EXCEPT ![t] = Over(t)]
    BY <1>2 DEF GoTo
  <2>2. Over(t).at = "over" /\ Over(t).asker = call[t].asker /\ Over(t).seen = None
    BY DEF Over, NewCall
  <2> QED BY <1>2, <2>1, <2>2, Others
<1>3. CASE at # "over"
  <2> DEFINE l == [call[t] EXCEPT !.at = at]
  <2>1. call' = [call EXCEPT ![t] = l]
    BY <1>3 DEF GoTo
  <2>2. l.at = at /\ l.asker = call[t].asker /\ l.seen = call[t].seen /\ l.inner = call[t].inner
    BY <1>1 DEF CallRec
  <2> HIDE DEF l
  <2> QED BY <2>1, <2>2, Others
<1> QED BY <1>2, <1>3

\* No call has come to a step at which it does something for an identity.
Calm ==
  \A u \in Calls :
     \/ call'[u] = call[u]
     \/ /\ call'[u].asker = call[u].asker
        /\ call'[u].at \notin {"seed", "new", "verified", "given", "post"}

\* Processes remember what they did, or what they load now, and the server goes on
\* remembering an identity that it has verified a dashboard against.
Remembered ==
  /\ \A p \in Processes : cached'[p] \in {cached[p], None, Known(p)}
  /\ cached[Server] # None /\ (\E s \in Setups : call'[s].at = "verified")
       => cached'[Server] = cached[Server]

\* Such a step leaves the orgs to those who lead them.
LEMMA LeadsCalm ==
  ASSUME State, Leads, Calm, Remembered,
         UNCHANGED <<identity, twin, replaced, leader, hub>>
  PROVE  Leads'
<1>1. OneSeed'
  <2>1. ~twin' => \A u \in Calls : call'[u].at = "seed" => call[u].at = "seed"
    BY DEF Calm
  <2>2. identity = None /\ cached[Server] = None => cached'[Server] = None
    BY Belong DEF Remembered, Known
  <2> QED BY <2>1, <2>2 DEF Leads, OneSeed, Calls, Orgs
<1>2. Asked'
  <2> SUFFICES ASSUME ~twin, NEW s \in Setups
               PROVE  /\ call'[s].at = "new" => s \notin hub
                      /\ call'[s].at = "verified" =>
                           call'[s].asker # None /\ call'[s].asker = cached'[Server] /\ s \notin hub
                      /\ call'[s].at = "given" \/ s \in hub =>
                           call'[s].asker # None /\ leader[s] = call'[s].asker
    BY DEF Asked
  <2>1. s \in Calls
    BY DEF Calls, Orgs
  <2> QED BY <2>1 DEF Leads, Asked, Calm, Remembered
<1>3. Lone'
  BY DEF Leads, Lone, Remembered, Known
<1>4. Led'
  BY DEF Leads, Led, Calm, Calls, Orgs
<1> QED BY <1>1, <1>2, <1>3, <1>4 DEF Leads

LEMMA CalmGoes ==
  ASSUME State, NEW t \in Calls, NEW at,
         GoTo(t, at), at \notin {"seed", "new", "verified", "given", "post"}
  PROVE  Calm
BY GoneTo DEF Calm

LEMMA CalmMoves ==
  ASSUME State, NEW t \in Calls, NEW l, call' = [call EXCEPT ![t] = l],
         l.asker = call[t].asker, l.at \notin {"seed", "new", "verified", "given", "post"}
  PROVE  Calm
BY Others DEF Calm

LEMMA LoadRemembered ==
  ASSUME State, NEW p \in Processes, Load(p) \/ UNCHANGED cached
  PROVE  Remembered
BY Belong DEF Load, Remembered, Known, State

LEMMA QuietLeads ==
  ASSUME State, Leads, NEW t \in Calls,
         \/ BeginPut(t) \/ GetPre(t) \/ Submit(t) \/ GetDeviceKey(t) \/ Finalize(t)
         \/ SaveVault(t) \/ EnsureIdentity(t) \/ Refused(t)
  PROVE  Leads'
<1>0. ProcessOf[t] \in Processes /\ Server \in Processes
  BY Belong
<1>1. CASE BeginPut(t)
  <2>1. Calm /\ UNCHANGED cached
    BY <1>1 DEF BeginPut, Calm
  <2> QED BY <1>0, <1>1, <2>1, LoadRemembered, LeadsCalm DEF BeginPut, hubside
<1>2. CASE GetPre(t)
  <2>1. Calm /\ UNCHANGED cached
    BY <1>2, CalmGoes DEF GetPre
  <2> QED BY <1>0, <1>2, <2>1, LoadRemembered, LeadsCalm DEF GetPre, hubside
<1>3. CASE Submit(t)
  <2>1. Calm /\ Load(Server)
    BY <1>3, CalmGoes DEF Submit
  <2> QED BY <1>0, <1>3, <2>1, LoadRemembered, LeadsCalm DEF Submit, hubside, histories
<1>4. CASE GetDeviceKey(t)
  <2>0. call[t] \in CallRec
    BY DEF State
  <2> DEFINE l == [call[t] EXCEPT !.at = "outer", !.inner = file.device]
  <2>1. l.at = "outer" /\ l.asker = call[t].asker
    BY <2>0 DEF CallRec
  <2>2. \/ GoTo(t, "newInner") \/ GoTo(t, "newOuter") \/ GoTo(t, "over")
        \/ call' = [call EXCEPT ![t] = l]
    BY <1>4 DEF GetDeviceKey
  <2> HIDE DEF l
  <2>3. Calm /\ UNCHANGED cached
    BY <1>4, <2>1, <2>2, CalmGoes, CalmMoves DEF GetDeviceKey
  <2> QED BY <1>0, <1>4, <2>3, LoadRemembered, LeadsCalm DEF GetDeviceKey, hubside
<1>5. CASE Finalize(t)
  <2>1. GoTo(t, "master") \/ GoTo(t, "over")
    BY <1>5 DEF Finalize
  <2>2. Calm /\ UNCHANGED cached
    BY <1>5, <2>1, CalmGoes DEF Finalize
  <2> QED BY <1>0, <1>5, <2>2, LoadRemembered, LeadsCalm DEF Finalize, hubside
<1>6. CASE SaveVault(t)
  <2>1. Calm /\ UNCHANGED cached
    BY <1>6, CalmGoes DEF SaveVault
  <2> QED BY <1>0, <1>6, <2>1, LoadRemembered, LeadsCalm DEF SaveVault, hubside
<1>7. CASE EnsureIdentity(t)
  <2>1. GoTo(t, "needPre") \/ GoTo(t, "over")
    BY <1>7 DEF EnsureIdentity
  <2>2. Calm /\ Load(Server)
    BY <1>7, <2>1, CalmGoes DEF EnsureIdentity
  <2> QED BY <1>0, <1>7, <2>2, LoadRemembered, LeadsCalm DEF EnsureIdentity, hubside, histories
<1>8. CASE Refused(t)
  <2>1. Calm /\ UNCHANGED cached
    BY <1>8, CalmGoes DEF Refused
  <2> QED BY <1>0, <1>8, <2>1, LoadRemembered, LeadsCalm DEF Refused, hubside, histories
<1> QED BY <1>1, <1>2, <1>3, <1>4, <1>5, <1>6, <1>7, <1>8

LEMMA MemberLeads ==
  ASSUME State, Leads, NEW t \in Calls,
         Provision(t) \/ LoadMemberships(t) \/ Register(t) \/ Recover(t)
  PROVE  Leads'
<1>0. ProcessOf[t] \in Processes /\ Server \in Processes /\ call[t] \in CallRec
      /\ Over(t).at = "over" /\ Over(t).asker = call[t].asker
  BY Belong DEF State, Over, NewCall
<1>1. CASE Provision(t)
  <2>1. PICK o \in Orgs :
          call' = IF o \in file.master
                  THEN [call EXCEPT ![t].at = "needPre", ![t].org = o, ![t].left = {o}]
                  ELSE [call EXCEPT ![t] = Over(t)]
    BY <1>1 DEF Provision
  <2> DEFINE l == [call[t] EXCEPT !.at = "needPre", !.org = o, !.left = {o}]
  <2>2. l.at = "needPre" /\ l.asker = call[t].asker
    BY <1>0 DEF CallRec
  <2>3. call' = [call EXCEPT ![t] = l] \/ call' = [call EXCEPT ![t] = Over(t)]
    BY <2>1
  <2> HIDE DEF l
  <2>4. Calm /\ UNCHANGED cached
    BY <1>0, <1>1, <2>2, <2>3, CalmMoves DEF Provision
  <2> QED BY <1>0, <1>1, <2>4, LoadRemembered, LeadsCalm DEF Provision, hubside, histories
<1>2. CASE LoadMemberships(t)
  <2> DEFINE orgs == {o \in hub : leader[o] = Known(Server)}
             l == [call[t] EXCEPT !.left = orgs, !.at = "register"]
  <2>1. \/ GoTo(t, "over")
        \/ call' = [call EXCEPT ![t] = Over(t)]
        \/ call' = [call EXCEPT ![t] = l]
    BY <1>2 DEF LoadMemberships
  <2>2. l.at = "register" /\ l.asker = call[t].asker
    BY <1>0 DEF CallRec
  <2> HIDE DEF l, orgs
  <2>3. Calm /\ UNCHANGED cached
    BY <1>0, <1>2, <2>1, <2>2, CalmMoves, CalmGoes DEF LoadMemberships
  <2> QED BY <1>0, <1>2, <2>3, LoadRemembered, LeadsCalm DEF LoadMemberships, hubside, histories
<1>3. CASE Register(t)
  <2>1. PICK o \in call[t].left :
          call' = IF call[t].left = {o} THEN [call EXCEPT ![t] = Over(t)]
                  ELSE [call EXCEPT ![t].left = @ \ {o}]
    BY <1>3 DEF Register
  <2> DEFINE l == [call[t] EXCEPT !.left = @ \ {o}]
  <2>2. call' = [call EXCEPT ![t] = l] \/ call' = [call EXCEPT ![t] = Over(t)]
    BY <2>1
  <2>3. l.at = "register" /\ l.asker = call[t].asker
    BY <1>0, <1>3 DEF CallRec, Register, At
  <2> HIDE DEF l
  <2>4. Calm /\ Load(ProcessOf[t])
    BY <1>0, <1>3, <2>2, <2>3, CalmMoves DEF Register
  <2> QED BY <1>0, <1>3, <2>4, LoadRemembered, LeadsCalm DEF Register
<1>4. CASE Recover(t)
  <2>1. PICK o \in Orgs : call' = [call EXCEPT ![t].at = "master", ![t].org = o]
    BY <1>4 DEF Recover
  <2> DEFINE l == [call[t] EXCEPT !.at = "master", !.org = o]
  <2>2. l.at = "master" /\ l.asker = call[t].asker /\ call' = [call EXCEPT ![t] = l]
    BY <1>0, <2>1 DEF CallRec
  <2> HIDE DEF l
  <2>3. Calm /\ UNCHANGED cached
    BY <1>4, <2>2, CalmMoves DEF Recover
  <2> QED BY <1>0, <1>4, <2>3, LoadRemembered, LeadsCalm DEF Recover, hubside, histories
<1> QED BY <1>1, <1>2, <1>3, <1>4

LEMMA StoredCalm ==
  ASSUME State, NEW t \in Calls, call[t].at \in Storing
  PROVE  /\ Stored(t).asker = call[t].asker
         /\ Stored(t).at \notin {"seed", "new", "verified", "given", "post"}
<1>1. call[t] \in CallRec /\ Over(t).at = "over" /\ Over(t).asker = call[t].asker
  BY DEF State, Over, NewCall
<1>2. \A at : [call[t] EXCEPT !.at = at].at = at /\ [call[t] EXCEPT !.at = at].asker = call[t].asker
  BY <1>1 DEF CallRec
<1>3. CASE call[t].at = "master"
  <2>1. Stored(t) = IF t \in Recovers THEN Over(t) ELSE [call[t] EXCEPT !.at = "mod"]
    BY <1>3 DEF Stored
  <2> QED BY <1>1, <1>2, <2>1
<1>4. CASE call[t].at = "mod"
  <2>1. Stored(t) = IF t \in Setups THEN Over(t)
                    ELSE [call[t] EXCEPT !.at = IF InServer(t) THEN "needPre" ELSE "vault"]
    BY <1>4 DEF Stored
  <2> QED BY <1>1, <1>2, <2>1
<1>5. CASE call[t].at = "pre"
  <2>1. Stored(t) = [call[t] EXCEPT !.at = IF t \in Recalls THEN "memberships" ELSE "register"]
    BY <1>5 DEF Stored
  <2> QED BY <1>2, <2>1
<1>6. CASE call[t].at = "newInner"
  <2>1. Stored(t) = [call[t] EXCEPT !.at = "outer", !.inner = <<t, 1>>]
    BY <1>6 DEF Stored
  <2> QED BY <1>1, <2>1 DEF CallRec
<1>7. CASE call[t].at = "newOuter"
  BY <1>1, <1>7 DEF Stored
<1> QED BY <1>3, <1>4, <1>5, <1>6, <1>7 DEF Storing

LEMMA ProcessLeads ==
  ASSUME State, Hands, Leads, NEW p \in Processes,
         OpenFile(p) \/ WriteFile(p) \/ PutFails(p) \/ Kill(p)
  PROVE  Leads'
<1>0. Server \in Processes
  BY Belong
<1>1. CASE OpenFile(p)
  <2>1. Calm /\ UNCHANGED cached
    BY <1>1 DEF OpenFile, Calm
  <2> QED BY <1>0, <1>1, <2>1, LoadRemembered, LeadsCalm DEF OpenFile, hubside, histories
<1>2. CASE WriteFile(p)
  <2>1. writing[p].by \in Calls /\ call[writing[p].by].at \in Storing
    BY <1>2, Writing DEF WriteFile
  <2>2. call' = [call EXCEPT ![writing[p].by] = Stored(writing[p].by)] /\ UNCHANGED cached
    BY <1>2 DEF WriteFile
  <2>3. Calm
    BY <2>1, <2>2, StoredCalm, CalmMoves
  <2> QED BY <1>0, <1>2, <2>2, <2>3, LoadRemembered, LeadsCalm DEF WriteFile, hubside
<1>3. CASE PutFails(p)
  <2>1. writing[p].by \in Calls
    BY <1>3, Writing DEF PutFails
  <2>2. \/ GoTo(writing[p].by, "created") \/ GoTo(writing[p].by, "pre") \/ GoTo(writing[p].by, "over")
    BY <1>3 DEF PutFails
  <2>3. Calm /\ UNCHANGED cached
    BY <1>3, <2>1, <2>2, CalmGoes DEF PutFails
  <2> QED BY <1>0, <1>3, <2>3, LoadRemembered, LeadsCalm DEF PutFails, hubside
<1>4. CASE Kill(p)
  <2>1. ASSUME NEW t \in Calls
        PROVE  \/ call'[t] = call[t] /\ (ProcessOf[t] # p \/ call[t].at # "verified")
               \/ call'[t].asker = call[t].asker /\ call'[t].at \in {"created", "over"}
    <3>1. call[t] \in CallRec /\ Over(t).at = "over" /\ Over(t).asker = call[t].asker
      BY DEF State, Over, NewCall
    <3> DEFINE l == [call[t] EXCEPT !.at = "created"]
    <3>2. l.at = "created" /\ l.asker = call[t].asker
      BY <3>1 DEF CallRec
    <3>3. call'[t] = IF ProcessOf[t] # p \/ call[t].at \in {"new", "over", "given", "created"} THEN call[t]
                     ELSE IF t \in Setups \cap hub THEN l ELSE Over(t)
      BY <1>4 DEF Kill
    <3> HIDE DEF l
    <3> QED BY <3>1, <3>2, <3>3
  <2>2. Calm
    BY <2>1 DEF Calm
  <2>3. cached' = [cached EXCEPT ![p] = None]
    BY <1>4 DEF Kill
  <2>4. \A s \in Setups : ProcessOf[s] = Server /\ s \in Calls
    BY ProcessesAssumption DEF Calls, Orgs
  <2>5. Remembered
    BY <1>0, <2>1, <2>3, <2>4 DEF Remembered, State
  <2> QED BY <1>4, <2>2, <2>5, LeadsCalm DEF Kill, hubside
<1> QED BY <1>1, <1>2, <1>3, <1>4

LEMMA IdentityLeads ==
  ASSUME State, Hands, State', Leads, NEW t \in Calls,
         BeginImport(t) \/ NeedIdentity(t) \/ StoreIdentity(t)
  PROVE  Leads'
<1>0. /\ ProcessOf[t] \in Processes /\ Server \in Processes
      /\ \A c \in Creates : c \in Calls /\ c \in Orgs /\ c \notin Imports
      /\ \A s \in Setups : s \in Calls /\ s \in Orgs /\ s \notin Creates /\ s \notin Imports
      /\ \A i \in Imports : ProcessOf[i] # Server
  BY Belong, Kinds, ProcessesAssumption DEF Calls, Orgs
<1>1. CASE BeginImport(t) \/ NeedIdentity(t)
  <2>1. /\ GoTo(t, "seed") /\ t \in Creates \cup Imports
        /\ twin' = (twin \/ \E u \in Calls : call[u].at = "seed")
        /\ UNCHANGED <<identity, cached, replaced, leader, hub>>
        /\ t \in Creates => ProcessOf[t] = Server /\ identity = None /\ cached[Server] = None
    BY <1>0, <1>1 DEF BeginImport, NeedIdentity, InServer, Known, hubside
  <2>2. \A u \in Calls : u # t => call'[u] = call[u]
    BY <2>1, GoneTo
  <2>3. call'[t].at = "seed"
    BY <2>1, GoneTo
  <2>4. OneSeed'
    BY <1>0, <2>1, <2>2, <2>3 DEF OneSeed
  <2>5. Asked'
    BY <1>0, <2>1, <2>2 DEF Leads, Asked
  <2>6. Lone'
    BY <2>1 DEF Leads, Lone
  <2>7. Led'
    BY <1>0, <2>1, <2>2, <2>3 DEF Leads, Led
  <2> QED BY <2>4, <2>5, <2>6, <2>7 DEF Leads
<1>2. CASE StoreIdentity(t)
  <2>1. /\ call[t].at = "seed" /\ t \in Creates \cup Imports
        /\ identity' = t /\ cached' = [cached EXCEPT ![ProcessOf[t]] = None]
        /\ replaced' = (replaced \/ (t \in Imports /\ identity # None))
        /\ UNCHANGED <<twin, leader, hub>>
        /\ GoTo(t, "over") \/ GoTo(t, "new")
    BY <1>2 DEF StoreIdentity, At, State, Fits, hubside
  <2>2. \A u \in Calls : u # t => call'[u] = call[u]
    BY <2>1, GoneTo
  <2>3. call'[t].at \in {"over", "new"}
    BY <2>1, GoneTo
  <2>4. ~twin => \A u \in Calls : call'[u].at # "seed"
    BY <2>1, <2>2, <2>3 DEF Leads, OneSeed
  <2>5. OneSeed'
    BY <1>0, <2>1, <2>4 DEF OneSeed
  <2>6. ~twin => cached'[Server] = cached[Server]
    BY <1>0, <2>1 DEF Leads, OneSeed, State
  <2>7. Asked'
    BY <1>0, <2>1, <2>2, <2>6 DEF Leads, Asked
  <2>8. ~twin /\ ~replaced' => identity = None
    BY <1>0, <2>1 DEF Leads, OneSeed
  <2>9. Lone'
    <3>1. \A q \in Processes : cached'[q] \in {cached[q], None}
      BY <2>1 DEF State
    <3> QED BY <2>1, <2>8, <3>1 DEF Leads, Lone
  <2>10. Led'
    BY <1>0, <2>1, <2>2, <2>3 DEF Leads, Led
  <2> QED BY <2>5, <2>7, <2>9, <2>10 DEF Leads
<1> QED BY <1>1, <1>2

\* A step of a call that makes an org changes no more than that org's leader, and what
\* its process remembers.
LEMMA MakerLeads ==
  ASSUME State, Leads, NEW t \in Orgs, Remembered,
         \A u \in Calls : u # t => call'[u] = call[u],
         call'[t].at \in {"verified", "given", "created", "post", "master", "over"},
         UNCHANGED <<identity, twin, replaced>>,
         leader' = leader \/ leader' = [leader EXCEPT ![t] = Known(ProcessOf[t])],
         hub' \subseteq hub \cup {t},
         t \in Creates /\ (call'[t].at = "post" \/ t \in hub') => leader'[t] # None,
         ~twin /\ t \in Setups =>
           /\ call'[t].at = "verified" =>
                call'[t].asker # None /\ call'[t].asker = cached'[Server] /\ t \notin hub'
           /\ call'[t].at = "given" \/ t \in hub' =>
                call'[t].asker # None /\ leader'[t] = call'[t].asker
  PROVE  Leads'
<1>0. /\ \A o \in Orgs : o \in Calls
      /\ \A c \in Creates : c \in Orgs
      /\ \A s \in Setups : s \in Orgs
      /\ ProcessOf[t] \in Processes /\ Server \in Processes
  BY Belong DEF Calls, Orgs
<1>1. \A o \in Orgs : o # t => leader'[o] = leader[o]
  BY DEF State
<1>2. OneSeed'
  <2>1. identity = None /\ cached[Server] = None => cached'[Server] = None
    BY <1>0 DEF Remembered, Known
  <2>2. \A u \in Calls : call'[u].at = "seed" => call[u].at = "seed"
    OBVIOUS
  <2> QED BY <1>0, <2>1, <2>2 DEF Leads, OneSeed
<1>3. Asked'
  <2> SUFFICES ASSUME ~twin, NEW s \in Setups
               PROVE  /\ call'[s].at = "new" => s \notin hub'
                      /\ call'[s].at = "verified" =>
                           call'[s].asker # None /\ call'[s].asker = cached'[Server] /\ s \notin hub'
                      /\ call'[s].at = "given" \/ s \in hub' =>
                           call'[s].asker # None /\ leader'[s] = call'[s].asker
    BY DEF Asked
  <2>1. CASE s = t
    BY <2>1
  <2>2. CASE s # t
    <3>1. call'[s] = call[s] /\ leader'[s] = leader[s] /\ (s \in hub' => s \in hub)
      BY <1>0, <1>1, <2>2
    <3>2. call[s].at = "verified" => cached'[Server] = cached[Server]
      BY <3>1 DEF Leads, Asked, Remembered
    <3> QED BY <3>1, <3>2 DEF Leads, Asked
  <2> QED BY <2>1, <2>2
<1>4. Lone'
  <2>1. ~twin /\ ~replaced => \A q \in Processes : Known(q) \in {None, identity}
    BY DEF Leads, Lone, Known
  <2>2. ~twin /\ ~replaced => \A q \in Processes : cached'[q] \in {None, identity}
    BY <2>1 DEF Leads, Lone, Remembered
  <2>3. ~twin /\ ~replaced => \A o \in Orgs : leader'[o] \in {None, identity}
    BY <1>0, <2>1 DEF Leads, Lone, State
  <2> QED BY <2>2, <2>3 DEF Lone
<1>5. Led'
  <2> SUFFICES ASSUME NEW c \in Creates, call'[c].at = "post" \/ c \in hub'
               PROVE  leader'[c] # None
    BY DEF Led
  <2>1. CASE c = t
    BY <2>1
  <2>2. CASE c # t
    BY <1>0, <1>1, <2>2 DEF Leads, Led
  <2> QED BY <2>1, <2>2
<1> QED BY <1>2, <1>3, <1>4, <1>5 DEF Leads

LEMMA SetupLeads ==
  ASSUME State, Leads, NEW t \in Calls, Verify(t) \/ Setup(t) \/ HubMakes(t)
  PROVE  Leads'
<1>0. t \in Setups /\ t \in Orgs /\ ProcessOf[t] = Server /\ Server \in Processes /\ t \notin Creates
      /\ call[t] \in CallRec
  BY Belong, Kinds, ProcessesAssumption DEF Verify, Setup, HubMakes, At, State, Fits, Orgs
<1>1. CASE Verify(t)
  <2> DEFINE l == [call[t] EXCEPT !.at = "verified", !.asker = Known(Server)]
  <2>1. l.at = "verified" /\ l.asker = Known(Server) /\ call' = [call EXCEPT ![t] = l]
    BY <1>0, <1>1 DEF Verify, CallRec
  <2> HIDE DEF l
  <2>2. call'[t] = l /\ \A u \in Calls : u # t => call'[u] = call[u]
    BY <2>1, Others
  <2>3. Known(Server) # None /\ Load(Server) /\ call[t].at = "new" /\ UNCHANGED <<identity, twin, replaced, leader, hub>>
    BY <1>1 DEF Verify, At, hubside, histories
  <2>4. cached'[Server] = Known(Server) /\ (~twin => t \notin hub)
    BY <1>0, <2>3 DEF Load, State, Leads, Asked
  <2> QED BY <1>0, <2>1, <2>2, <2>3, <2>4, LoadRemembered, MakerLeads
<1>2. CASE Setup(t)
  <2>1. /\ call[t].at = "verified" /\ Load(Server) /\ GoTo(t, "given")
        /\ leader' = [leader EXCEPT ![t] = Known(Server)]
        /\ UNCHANGED <<identity, twin, replaced, hub>>
    BY <1>2 DEF Setup, At
  <2>2. /\ call'[t].at = "given" /\ call'[t].asker = call[t].asker
        /\ \A u \in Calls : u # t => call'[u] = call[u]
    BY <2>1, GoneTo
  <2>3. leader'[t] = Known(Server)
    BY <1>0, <2>1 DEF State
  <2>4. ~twin => call[t].asker # None /\ call[t].asker = Known(Server)
    BY <1>0, <2>1 DEF Leads, Asked, Known
  <2>5. Remembered
    BY <1>0, <2>1, LoadRemembered
  <2> QED BY <1>0, <2>1, <2>2, <2>3, <2>4, <2>5, MakerLeads
<1>3. CASE HubMakes(t)
  <2>1. /\ call[t].at = "given" /\ hub' = hub \cup {t} /\ GoTo(t, "created")
        /\ UNCHANGED <<identity, twin, replaced, leader, cached>>
    BY <1>3 DEF HubMakes, histories
  <2>2. /\ call'[t].at = "created" /\ call'[t].asker = call[t].asker
        /\ \A u \in Calls : u # t => call'[u] = call[u]
    BY <2>1, GoneTo
  <2>3. ~twin => call[t].asker # None /\ leader[t] = call[t].asker
    BY <1>0, <2>1 DEF Leads, Asked
  <2>4. Remembered
    BY <1>0, <2>1, LoadRemembered
  <2> QED BY <1>0, <2>1, <2>2, <2>3, <2>4, MakerLeads
<1> QED BY <1>1, <1>2, <1>3

LEMMA CreateLeads ==
  ASSUME State, Leads, NEW t \in Calls, Build(t) \/ Post(t)
  PROVE  Leads'
<1>0. t \in Creates /\ t \in Orgs /\ ProcessOf[t] \in Processes /\ t \notin Setups /\ call[t] \in CallRec
  BY Belong, Kinds DEF Build, Post, At, State, Fits, Orgs
<1>1. CASE Build(t)
  <2>1. PICK seen \in {None, vault} : call' = [call EXCEPT ![t].at = "post", ![t].seen = seen]
    BY <1>1 DEF Build
  <2> DEFINE l == [call[t] EXCEPT !.at = "post", !.seen = seen]
  <2>2. l.at = "post" /\ call' = [call EXCEPT ![t] = l]
    BY <1>0, <2>1 DEF CallRec
  <2> HIDE DEF l
  <2>3. call'[t] = l /\ \A u \in Calls : u # t => call'[u] = call[u]
    BY <2>2, Others
  <2>4. /\ Known(ProcessOf[t]) # None /\ Load(ProcessOf[t])
        /\ leader' = [leader EXCEPT ![t] = Known(ProcessOf[t])]
        /\ UNCHANGED <<identity, twin, replaced, hub>>
    BY <1>1 DEF Build, histories
  <2>5. leader'[t] # None
    BY <1>0, <2>4 DEF State
  <2>6. Remembered
    BY <1>0, <2>4, LoadRemembered
  <2> QED BY <1>0, <2>2, <2>3, <2>4, <2>5, <2>6, MakerLeads
<1>2. CASE Post(t)
  <2>1. /\ call[t].at = "post" /\ hub' = hub \cup {t} /\ (GoTo(t, "master") \/ GoTo(t, "over"))
        /\ UNCHANGED <<identity, twin, replaced, leader, cached>>
    BY <1>2 DEF Post, At
  <2>2. /\ call'[t].at \in {"master", "over"}
        /\ \A u \in Calls : u # t => call'[u] = call[u]
    BY <2>1, GoneTo
  <2>3. leader[t] # None
    BY <1>0, <2>1 DEF Leads, Led
  <2>4. Remembered
    BY <1>0, <2>1, LoadRemembered
  <2> QED BY <1>0, <2>1, <2>2, <2>3, <2>4, MakerLeads
<1> QED BY <1>1, <1>2

LEMMA LeadsInit == Init => Leads
<1> SUFFICES ASSUME Init PROVE Leads
  OBVIOUS
<1>1. \A t \in Calls : call[t].at \in {"new", "over"}
  BY DEF Init, NewCall
<1>2. /\ \A p \in Processes : cached[p] = None
      /\ \A o \in Orgs : leader[o] = None
      /\ hub = {}
  BY DEF Init
<1>3. \A o \in Orgs : o \in Calls
  BY DEF Calls
<1> QED BY <1>1, <1>2, <1>3 DEF Leads, OneSeed, Asked, Lone, Led, Orgs

LEMMA LeadsNext == State /\ Hands /\ Leads /\ [Next]_vars => Leads'
<1> SUFFICES ASSUME State, Hands, Leads, [Next]_vars PROVE Leads'
  OBVIOUS
<1>0. State'
  BY StateNext
<1>1. ASSUME NEW t \in Calls,
             \/ BeginImport(t) \/ NeedIdentity(t) \/ StoreIdentity(t)
             \/ BeginPut(t) \/ GetPre(t) \/ Submit(t) \/ GetDeviceKey(t)
             \/ Verify(t) \/ Setup(t) \/ HubMakes(t) \/ Finalize(t)
             \/ Build(t) \/ Post(t) \/ SaveVault(t)
             \/ Provision(t) \/ EnsureIdentity(t) \/ LoadMemberships(t) \/ Register(t)
             \/ Recover(t) \/ Refused(t)
      PROVE  Leads'
  BY <1>0, <1>1, IdentityLeads, QuietLeads, MemberLeads, SetupLeads, CreateLeads
<1>2. ASSUME NEW p \in Processes, OpenFile(p) \/ WriteFile(p) \/ PutFails(p) \/ Kill(p)
      PROVE  Leads'
  BY <1>2, ProcessLeads
<1>3. CASE UNCHANGED vars
  BY <1>3 DEF vars, hubside, histories, Leads, OneSeed, Asked, Lone, Led
<1> QED BY <1>1, <1>2, <1>3 DEF Next

\* The org a dashboard asked for is led by the identity that asked (verifyRequesterIdentity,
\* buildOrgCryptoSetup), and every org by the identity stored when none was replaced.
THEOREM OrgsAreLedByTheirMakers == Spec => []LeadersKnown
<1>1. State /\ Leads => LeadersKnown
  <2> SUFFICES ASSUME State, Leads, ~twin
               PROVE  /\ \A s \in Setups \cap hub : leader[s] = call[s].asker
                      /\ ~replaced => \A o \in hub : leader[o] = identity
    BY DEF LeadersKnown
  <2>1. \A s \in Setups \cap hub : leader[s] = call[s].asker /\ leader[s] # None
    BY DEF Leads, Asked
  <2>2. ASSUME ~replaced, NEW o \in hub PROVE leader[o] = identity
    <3>1. o \in Orgs /\ (o \in Setups \/ o \in Creates)
      BY DEF State, Orgs
    <3>2. leader[o] # None
      BY <2>1, <3>1 DEF Leads, Led
    <3> QED BY <2>2, <3>1, <3>2 DEF Leads, Lone
  <2> QED BY <2>1, <2>2
<1>2. Init => State /\ Hands /\ Leads
  BY StateInit, LeadsInit
<1>3. State /\ Hands /\ Leads /\ [Next]_vars => (State /\ Hands /\ Leads)'
  BY StateNext, LeadsNext
<1> QED BY <1>1, <1>2, <1>3, PTL DEF Spec

-----------------------------------------------------------------------------
\* No call comes to hold the keys of an org, or gives them up without a trace.
OrgsIdle ==
  \A u \in Calls :
     \/ call'[u] = call[u]
     \/ /\ call'[u].at \notin {"given", "mod", "vault"}
        /\ u \in Creates /\ call'[u].at \in {"needPre", "pre", "register"}
             => call[u].at \in {"needPre", "pre", "register"}
        /\ u \in Creates /\ call[u].at \in {"master", "mod"} => u \in dropped'
        /\ call'[u].seen \in {call[u].seen, None}

\* No call comes to make a PRE key.
PreIdle == \A u \in Calls : call'[u].at = "pre" => call[u].at = "pre"

\* No submission comes to make a device key or to hold one.
DevicesIdle ==
  \A b \in Submits : call'[b] = call[b] \/ call'[b].at \notin {"newInner", "newOuter", "outer"}

LEMMA IdleMoves ==
  ASSUME NEW t \in Calls, \A u \in Calls : u # t => call'[u] = call[u],
         call[t].at \notin {"master", "mod"},
         call'[t].at \notin {"given", "mod", "vault", "pre", "newInner", "newOuter", "outer"},
         t \in Creates => call'[t].at \notin {"needPre", "register"},
         call'[t].seen \in {call[t].seen, None}
  PROVE  OrgsIdle /\ PreIdle /\ DevicesIdle
<1>1. OrgsIdle
  BY DEF OrgsIdle
<1>2. PreIdle
  BY DEF PreIdle
<1>3. DevicesIdle
  BY DEF DevicesIdle, Calls
<1> QED BY <1>1, <1>2, <1>3

LEMMA SameStore ==
  ASSUME NEW k, IsKeystore(k), UNCHANGED <<file, writing>>
  PROVE  IsKeystore(k)'
BY DEF IsKeystore

LEMMA SameOrgs ==
  ASSUME State, NEW k, OrgKeys(k), OrgsIdle, UNCHANGED <<hub, acked, vault>>,
         pending \cup dropped \subseteq pending' \cup dropped'
  PROVE  OrgKeys(k)'
<1>0. /\ \A o \in Orgs : o \in Calls
      /\ \A s \in Setups : s \in Orgs
      /\ \A c \in Creates : c \in Orgs
  BY DEF Calls, Orgs
<1>1. ASSUME NEW o \in hub
      PROVE  \/ o \in k.master \cap k.mod
             \/ o \in pending' \cup dropped'
             \/ o \in Creates /\ call'[o].at \in {"master", "mod"}
  <2>1. o \in Calls
    BY <1>0 DEF State
  <2> QED BY <2>1 DEF OrgKeys, OrgsIdle
<1>2. ASSUME NEW s \in Setups, call'[s].at = "given" PROVE s \in pending' \cup dropped'
  BY <1>0, <1>2 DEF OrgKeys, OrgsIdle
<1>3. ASSUME NEW o \in Orgs, call'[o].at = "mod" PROVE o \in k.master
  BY <1>0, <1>3 DEF OrgKeys, OrgsIdle
<1>4. ASSUME NEW c \in Creates, call'[c].at \in {"vault", "needPre", "pre", "register"}
      PROVE  c \in k.master \cap k.mod
  BY <1>0, <1>4 DEF OrgKeys, OrgsIdle
<1>5. ASSUME NEW t \in Calls, call'[t].seen # None PROVE call'[t].seen \subseteq k.master
  BY <1>5 DEF OrgKeys, OrgsIdle
<1> QED BY <1>1, <1>2, <1>3, <1>4, <1>5 DEF OrgKeys

LEMMA SamePre ==
  ASSUME NEW k, PreKey(k), PreIdle, UNCHANGED registered,
         \A p \in Processes : preCache'[p] \in {preCache[p], None}
  PROVE  PreKey(k)'
BY DEF PreKey, PreIdle

LEMMA SameDevices ==
  ASSUME NEW k, DeviceKey(k), DevicesIdle, UNCHANGED <<entries, twice>>
  PROVE  DeviceKey(k)'
BY DEF DeviceKey, DevicesIdle

LEMMA SameWriter ==
  ASSUME OneWriter, PreIdle, UNCHANGED clash,
         \A p \in Processes : writing'[p] # None => writing[p] # None
  PROVE  OneWriter'
BY DEF OneWriter, PreIdle

\* Steps that leave every key where it is.
LEMMA IdleKeeps ==
  ASSUME State, OneWriter, Keeps, OrgsIdle, PreIdle, DevicesIdle,
         UNCHANGED <<file, writing, clash, broken, twice, hub, acked, vault, registered,
                     preCache, entries>>,
         pending \cup dropped \subseteq pending' \cup dropped'
  PROVE  OneWriter' /\ Keeps'
<1>1. OneWriter'
  BY SameWriter
<1>2. ASSUME ~clash', ~broken'
      PROVE  \E k \in Stores : IsKeystore(k)' /\ OrgKeys(k)' /\ PreKey(k)' /\ DeviceKey(k)'
  <2>1. PICK k \in Stores : IsKeystore(k) /\ OrgKeys(k) /\ PreKey(k) /\ DeviceKey(k)
    BY <1>2 DEF Keeps
  <2>2. IsKeystore(k)' /\ OrgKeys(k)' /\ PreKey(k)' /\ DeviceKey(k)'
    BY <2>1, SameStore, SameOrgs, SamePre, SameDevices
  <2> QED BY <2>2
<1> QED BY <1>1, <1>2 DEF Keeps

LEMMA IdentityKeeps ==
  ASSUME State, OneWriter, Keeps, NEW t \in Calls,
         \/ BeginImport(t) \/ NeedIdentity(t) \/ StoreIdentity(t) \/ Submit(t) \/ Verify(t)
         \/ Finalize(t) \/ Refused(t)
  PROVE  OneWriter' /\ Keeps'
<1>0. /\ call[t] \in CallRec /\ Fits(t, call[t]) /\ Setups \cap Creates = {}
  BY Kinds DEF State
<1>1. ASSUME NEW at, GoTo(t, at), call[t].at \notin {"master", "mod"},
             at \notin {"given", "mod", "vault", "needPre", "pre", "register", "newInner", "newOuter", "outer"}
      PROVE  OrgsIdle /\ PreIdle /\ DevicesIdle
  BY <1>1, GoneTo, IdleMoves
<1>2. CASE BeginImport(t) \/ NeedIdentity(t)
  <2>1. OrgsIdle /\ PreIdle /\ DevicesIdle
    BY <1>1, <1>2 DEF BeginImport, NeedIdentity, At
  <2> QED BY <1>2, <2>1, IdleKeeps DEF BeginImport, NeedIdentity, hubside
<1>3. CASE StoreIdentity(t)
  <2>1. GoTo(t, "over") \/ GoTo(t, "new")
    BY <1>3 DEF StoreIdentity
  <2>2. OrgsIdle /\ PreIdle /\ DevicesIdle
    BY <1>1, <1>3, <2>1 DEF StoreIdentity, At
  <2> QED BY <1>3, <2>2, IdleKeeps DEF StoreIdentity, hubside
<1>4. CASE Submit(t)
  <2>1. OrgsIdle /\ PreIdle /\ DevicesIdle
    BY <1>1, <1>4 DEF Submit, At
  <2> QED BY <1>4, <2>1, IdleKeeps DEF Submit, hubside, histories
<1>5. CASE Verify(t)
  <2> DEFINE l == [call[t] EXCEPT !.at = "verified", !.asker = Known(Server)]
  <2>1. l.at = "verified" /\ l.seen = call[t].seen /\ call' = [call EXCEPT ![t] = l]
    BY <1>0, <1>5 DEF Verify, CallRec
  <2> HIDE DEF l
  <2>2. call'[t].at = "verified" /\ call'[t].seen = call[t].seen /\ call[t].at = "new"
        /\ \A u \in Calls : u # t => call'[u] = call[u]
    BY <1>5, <2>1, Others DEF Verify, At
  <2>3. OrgsIdle /\ PreIdle /\ DevicesIdle
    BY <2>2, IdleMoves
  <2> QED BY <1>5, <2>3, IdleKeeps DEF Verify, hubside, histories
<1>6. CASE Finalize(t)
  <2>1. PICK gone \in SUBSET pending :
          /\ dropped' = dropped \cup gone /\ pending' = pending \ gone
          /\ GoTo(t, "master") \/ GoTo(t, "over")
    BY <1>6 DEF Finalize, Purged, Left
  <2>2. OrgsIdle /\ PreIdle /\ DevicesIdle
    BY <1>1, <1>6, <2>1 DEF Finalize, At
  <2> QED BY <1>6, <2>1, <2>2, IdleKeeps DEF Finalize, hubside
<1>7. CASE Refused(t)
  <2>1. OrgsIdle /\ PreIdle /\ DevicesIdle
    BY <1>1, <1>7 DEF Refused, At
  <2> QED BY <1>7, <2>1, IdleKeeps DEF Refused, hubside, histories
<1> QED BY <1>2, <1>3, <1>4, <1>5, <1>6, <1>7

LEMMA MemberKeeps ==
  ASSUME State, OneWriter, Keeps, NEW t \in Calls,
         Provision(t) \/ EnsureIdentity(t) \/ LoadMemberships(t) \/ Recover(t)
  PROVE  OneWriter' /\ Keeps'
<1>0. /\ call[t] \in CallRec /\ Fits(t, call[t]) /\ t \notin Creates
      /\ Over(t).at = "over" /\ Over(t).seen = None
  BY Kinds DEF Provision, EnsureIdentity, LoadMemberships, Recover, At, State, Fits, Over, NewCall, Orgs
<1>1. CASE Provision(t)
  <2>1. PICK o \in Orgs :
          call' = IF o \in file.master
                  THEN [call EXCEPT ![t].at = "needPre", ![t].org = o, ![t].left = {o}]
                  ELSE [call EXCEPT ![t] = Over(t)]
    BY <1>1 DEF Provision
  <2> DEFINE l == [call[t] EXCEPT !.at = "needPre", !.org = o, !.left = {o}]
  <2>2. l.at = "needPre" /\ l.seen = call[t].seen
    BY <1>0 DEF CallRec
  <2>3. call' = [call EXCEPT ![t] = l] \/ call' = [call EXCEPT ![t] = Over(t)]
    BY <2>1
  <2> HIDE DEF l
  <2>4. OrgsIdle /\ PreIdle /\ DevicesIdle
    <3>1. call[t].at = "new"
      BY <1>1 DEF Provision, At
    <3>2. CASE call' = [call EXCEPT ![t] = l]
      <4>1. call'[t] = l /\ \A u \in Calls : u # t => call'[u] = call[u]
        BY <3>2, Others
      <4> QED BY <1>0, <2>2, <3>1, <4>1, IdleMoves
    <3>3. CASE call' = [call EXCEPT ![t] = Over(t)]
      <4>1. call'[t] = Over(t) /\ \A u \in Calls : u # t => call'[u] = call[u]
        BY <3>3, Others
      <4> QED BY <1>0, <3>1, <4>1, IdleMoves
    <3> QED BY <2>3, <3>2, <3>3
  <2> QED BY <1>1, <2>4, IdleKeeps DEF Provision, hubside, histories
<1>2. CASE EnsureIdentity(t)
  <2>1. GoTo(t, "needPre") \/ GoTo(t, "over")
    BY <1>2 DEF EnsureIdentity
  <2>2. OrgsIdle /\ PreIdle /\ DevicesIdle
    BY <1>0, <1>2, <2>1, GoneTo, IdleMoves DEF EnsureIdentity, At
  <2> QED BY <1>2, <2>2, IdleKeeps DEF EnsureIdentity, hubside, histories
<1>3. CASE LoadMemberships(t)
  <2> DEFINE orgs == {o \in hub : leader[o] = Known(Server)}
             l == [call[t] EXCEPT !.left = orgs, !.at = "register"]
  <2>1. \/ GoTo(t, "over")
        \/ call' = [call EXCEPT ![t] = Over(t)]
        \/ call' = [call EXCEPT ![t] = l]
    BY <1>3 DEF LoadMemberships
  <2>2. l.at = "register" /\ l.seen = call[t].seen
    BY <1>0 DEF CallRec
  <2> HIDE DEF l, orgs
  <2>3. OrgsIdle /\ PreIdle /\ DevicesIdle
    <3>1. CASE GoTo(t, "over")
      BY <1>0, <1>3, <3>1, GoneTo, IdleMoves DEF LoadMemberships, At
    <3>2. CASE call' = [call EXCEPT ![t] = Over(t)] \/ call' = [call EXCEPT ![t] = l]
      <4>1. call[t].at = "memberships"
        BY <1>3 DEF LoadMemberships, At
      <4>2. /\ call'[t] = Over(t) \/ call'[t] = l
            /\ \A u \in Calls : u # t => call'[u] = call[u]
        BY <3>2, Others
      <4> QED BY <1>0, <2>2, <4>1, <4>2, IdleMoves
    <3> QED BY <2>1, <3>1, <3>2
  <2> QED BY <1>3, <2>3, IdleKeeps DEF LoadMemberships, hubside, histories
<1>4. CASE Recover(t)
  <2>1. PICK o \in Orgs : call' = [call EXCEPT ![t].at = "master", ![t].org = o]
    BY <1>4 DEF Recover
  <2> DEFINE l == [call[t] EXCEPT !.at = "master", !.org = o]
  <2>2. l.at = "master" /\ l.seen = call[t].seen /\ call' = [call EXCEPT ![t] = l]
    BY <1>0, <2>1 DEF CallRec
  <2> HIDE DEF l
  <2>3. OrgsIdle /\ PreIdle /\ DevicesIdle
    <3>1. call[t].at = "new"
      BY <1>4 DEF Recover, At
    <3>2. call'[t] = l /\ \A u \in Calls : u # t => call'[u] = call[u]
      BY <2>2, Others
    <3> QED BY <1>0, <2>2, <3>1, <3>2, IdleMoves
  <2> QED BY <1>4, <2>3, IdleKeeps DEF Recover, hubside, histories
<1> QED BY <1>1, <1>2, <1>3, <1>4

LEMMA MakerOrgs ==
  ASSUME State, NEW k, OrgKeys(k), NEW t \in Calls,
         \A u \in Calls : u # t => call'[u] = call[u],
         pending \cup dropped \subseteq pending' \cup dropped',
         call[t].at \notin {"master", "mod"},
         call'[t].at \notin {"mod", "vault", "needPre", "pre"},
         call'[t].at = "given" => t \in pending' \cup dropped',
         t \in Creates /\ call'[t].at = "register" => call[t].at = "register",
         call'[t].seen \in {call[t].seen, None, vault},
         \A o \in hub' : \/ o \in hub
                         \/ o = t /\ o \in pending' \cup dropped'
                         \/ o = t /\ o \in Creates /\ call'[t].at = "master",
         \A o \in acked' : o \in acked \/ (o = t /\ o \in Creates /\ call[t].at \in {"vault", "register"}),
         \A o \in vault' : \/ o \in vault
                           \/ call[t].seen # None /\ o \in call[t].seen
                           \/ o = t /\ o \in Creates /\ call[t].at = "vault"
  PROVE  OrgKeys(k)'
<1>0. /\ \A o \in Orgs : o \in Calls
      /\ \A s \in Setups : s \in Orgs
      /\ \A c \in Creates : c \in Orgs
  BY DEF Calls, Orgs
<1>1. ASSUME NEW o \in hub'
      PROVE  \/ o \in k.master \cap k.mod
             \/ o \in pending' \cup dropped'
             \/ o \in Creates /\ call'[o].at \in {"master", "mod"}
  <2>1. CASE o \in hub
    <3>1. o \in Calls
      BY <1>0, <2>1 DEF State
    <3> QED BY <2>1, <3>1 DEF OrgKeys
  <2>2. CASE o \notin hub
    BY <2>2
  <2> QED BY <2>1, <2>2
<1>2. ASSUME NEW s \in Setups, call'[s].at = "given" PROVE s \in pending' \cup dropped'
  BY <1>0, <1>2 DEF OrgKeys
<1>3. ASSUME NEW o \in Orgs, call'[o].at = "mod" PROVE o \in k.master
  BY <1>0, <1>3 DEF OrgKeys
<1>4. ASSUME NEW c \in Creates, call'[c].at \in {"vault", "needPre", "pre", "register"}
      PROVE  c \in k.master \cap k.mod
  BY <1>0, <1>4 DEF OrgKeys
<1>5. vault \subseteq k.master /\ (call[t].seen # None => call[t].seen \subseteq k.master)
  BY DEF OrgKeys
<1>6. ASSUME NEW u \in Calls, call'[u].seen # None PROVE call'[u].seen \subseteq k.master
  <2>1. CASE u = t
    BY <1>5, <1>6, <2>1
  <2>2. CASE u # t
    BY <1>6, <2>2 DEF OrgKeys
  <2> QED BY <2>1, <2>2
<1>7. acked' \subseteq k.master \cap k.mod
  BY DEF OrgKeys
<1>8. vault' \subseteq k.master
  BY <1>5 DEF OrgKeys
<1> QED BY <1>1, <1>2, <1>3, <1>4, <1>6, <1>7, <1>8 DEF OrgKeys

LEMMA MakerKeeps ==
  ASSUME OneWriter, Keeps, PreIdle, DevicesIdle,
         \A k \in Stores : OrgKeys(k) => OrgKeys(k)',
         \A r \in registered' : r \in registered \/ \E p \in Processes : preCache[p] # None /\ r[2] = preCache[p],
         UNCHANGED <<file, writing, clash, broken, twice, preCache, entries>>
  PROVE  OneWriter' /\ Keeps'
<1>1. OneWriter'
  BY SameWriter
<1>2. ASSUME ~clash', ~broken'
      PROVE  \E k \in Stores : IsKeystore(k)' /\ OrgKeys(k)' /\ PreKey(k)' /\ DeviceKey(k)'
  <2>1. PICK k \in Stores : IsKeystore(k) /\ OrgKeys(k) /\ PreKey(k) /\ DeviceKey(k)
    BY <1>2 DEF Keeps
  <2>2. IsKeystore(k)' /\ DeviceKey(k)'
    BY <2>1, SameStore, SameDevices
  <2>3. PreKey(k)'
    BY <2>1 DEF PreKey, PreIdle
  <2>4. OrgKeys(k)'
    BY <2>1
  <2> QED BY <2>1, <2>2, <2>3, <2>4
<1> QED BY <1>1, <1>2 DEF Keeps

LEMMA SetupKeeps ==
  ASSUME State, OneWriter, Keeps, NEW t \in Calls, Setup(t) \/ HubMakes(t)
  PROVE  OneWriter' /\ Keeps'
<1>0. t \in Setups /\ t \notin Creates /\ Fits(t, call[t])
  BY Kinds DEF Setup, HubMakes, At, State, Fits
<1>1. CASE Setup(t)
  <2>1. PICK gone \in SUBSET pending : dropped' = dropped \cup gone /\ pending' = (pending \ gone) \cup {t}
    BY <1>1 DEF Setup, Purged
  <2>2. /\ call'[t].at = "given" /\ call'[t].seen \in {call[t].seen, None} /\ call[t].at = "verified"
        /\ \A u \in Calls : u # t => call'[u] = call[u]
    BY <1>1, GoneTo DEF Setup, At
  <2>3. PreIdle /\ DevicesIdle
    BY <2>2 DEF PreIdle, DevicesIdle, Calls
  <2>4. UNCHANGED <<file, writing, clash, broken, twice, preCache, entries, registered, hub, acked, vault>>
    BY <1>1 DEF Setup
  <2>5. \A k \in Stores : OrgKeys(k) => OrgKeys(k)'
    BY <2>1, <2>2, <2>4, <1>0, MakerOrgs
  <2> QED BY <2>3, <2>4, <2>5, MakerKeeps
<1>2. CASE HubMakes(t)
  <2>1. /\ call[t].at = "given"
        /\ hub' = hub \cup {t} /\ GoTo(t, "created")
        /\ UNCHANGED <<file, writing, clash, broken, twice, preCache, entries, registered, acked, vault,
                       pending, dropped>>
    BY <1>2 DEF HubMakes, histories
  <2>2. /\ call'[t].at = "created" /\ call'[t].seen \in {call[t].seen, None}
        /\ \A u \in Calls : u # t => call'[u] = call[u]
    BY <2>1, GoneTo
  <2>3. PreIdle /\ DevicesIdle
    BY <2>2 DEF PreIdle, DevicesIdle, Calls
  <2>4. ASSUME NEW k \in Stores, OrgKeys(k) PROVE OrgKeys(k)'
    <3>1. t \in pending \cup dropped
      BY <1>0, <2>1, <2>4 DEF OrgKeys
    <3> QED BY <1>0, <2>1, <2>2, <2>4, <3>1, MakerOrgs
  <2> QED BY <2>1, <2>3, <2>4, MakerKeeps
<1> QED BY <1>1, <1>2

LEMMA CreateKeeps ==
  ASSUME State, OneWriter, Keeps, NEW t \in Calls, Build(t) \/ Post(t) \/ SaveVault(t)
  PROVE  OneWriter' /\ Keeps'
<1>0. t \in Creates /\ call[t] \in CallRec
  BY DEF Build, Post, SaveVault, At, State, Fits
<1>1. CASE Build(t)
  <2>1. PICK seen \in {None, vault} : call' = [call EXCEPT ![t].at = "post", ![t].seen = seen]
    BY <1>1 DEF Build
  <2> DEFINE l == [call[t] EXCEPT !.at = "post", !.seen = seen]
  <2>2. l.at = "post" /\ l.seen = seen /\ call' = [call EXCEPT ![t] = l] /\ call[t].at = "new"
    <3>1. l.at = "post" /\ l.seen = seen
      BY <1>0 DEF CallRec
    <3>2. call' = [call EXCEPT ![t] = l]
      BY <2>1
    <3> QED BY <1>1, <3>1, <3>2 DEF Build, At
  <2> HIDE DEF l
  <2>3. call'[t] = l /\ \A u \in Calls : u # t => call'[u] = call[u]
    BY <2>2, Others
  <2>4. PreIdle /\ DevicesIdle
    BY <2>2, <2>3 DEF PreIdle, DevicesIdle, Calls
  <2>5. UNCHANGED <<file, writing, clash, broken, twice, preCache, entries, registered, hub, acked, vault,
                    pending, dropped>>
    BY <1>1 DEF Build, histories
  <2>6. \A k \in Stores : OrgKeys(k) => OrgKeys(k)'
    BY <2>1, <2>2, <2>3, <2>5, MakerOrgs
  <2> QED BY <2>4, <2>5, <2>6, MakerKeeps
<1>2. CASE Post(t)
  <2>1. /\ call[t].at = "post" /\ hub' = hub \cup {t}
        /\ \/ GoTo(t, "master") /\ dropped' = dropped
           \/ GoTo(t, "over") /\ dropped' = dropped \cup {t}
        /\ UNCHANGED <<file, writing, clash, broken, twice, preCache, entries, registered, acked, vault, pending>>
    BY <1>2 DEF Post, At
  <2>2. /\ \/ call'[t].at = "master" /\ dropped' = dropped
           \/ call'[t].at = "over" /\ dropped' = dropped \cup {t}
        /\ call'[t].seen \in {call[t].seen, None}
        /\ \A u \in Calls : u # t => call'[u] = call[u]
    BY <2>1, GoneTo
  <2>3. PreIdle /\ DevicesIdle
    BY <2>2 DEF PreIdle, DevicesIdle, Calls
  <2>4. \A k \in Stores : OrgKeys(k) => OrgKeys(k)'
    BY <1>0, <2>1, <2>2, MakerOrgs
  <2> QED BY <2>1, <2>3, <2>4, MakerKeeps
<1>3. CASE SaveVault(t)
  <2>1. /\ call[t].at = "vault" /\ GoTo(t, "over")
        /\ vault' = vault \/ (call[t].seen # None /\ vault' = call[t].seen \cup {t})
        /\ acked' \subseteq acked \cup {t}
        /\ UNCHANGED <<file, writing, clash, broken, twice, preCache, entries, registered, hub, pending, dropped>>
    BY <1>3 DEF SaveVault, At, Acked, hubside
  <2>2. /\ call'[t].at = "over" /\ call'[t].seen \in {call[t].seen, None}
        /\ \A u \in Calls : u # t => call'[u] = call[u]
    BY <2>1, GoneTo
  <2>3. PreIdle /\ DevicesIdle
    BY <2>2 DEF PreIdle, DevicesIdle, Calls
  <2>4. \A k \in Stores : OrgKeys(k) => OrgKeys(k)'
    BY <1>0, <2>1, <2>2, MakerOrgs
  <2> QED BY <2>1, <2>3, <2>4, MakerKeeps
<1> QED BY <1>1, <1>2, <1>3

LEMMA RegisterKeeps ==
  ASSUME State, Hands, OneWriter, Keeps, NEW t \in Calls, Register(t)
  PROVE  OneWriter' /\ Keeps'
<1>1. /\ call[t] \in CallRec /\ call[t].at = "register" /\ ProcessOf[t] \in Processes
      /\ preCache[ProcessOf[t]] # None
      /\ Over(t).at = "over" /\ Over(t).seen = None
      /\ UNCHANGED <<file, writing, clash, broken, twice, preCache, entries, hub, vault, pending, dropped>>
      /\ acked' = acked \/ (t \in Creates /\ acked' \subseteq acked \cup {t})
  BY Belong DEF Register, At, State, Hands, Over, NewCall, Acked
<1>2. PICK o \in call[t].left, ok \in BOOLEAN :
        /\ registered' = IF ok THEN registered \cup {<<o, preCache[ProcessOf[t]]>>} ELSE registered
        /\ call' = IF call[t].left = {o} THEN [call EXCEPT ![t] = Over(t)]
                   ELSE [call EXCEPT ![t].left = @ \ {o}]
  BY DEF Register
<1> DEFINE l == [call[t] EXCEPT !.left = @ \ {o}]
<1>3. call' = [call EXCEPT ![t] = l] \/ call' = [call EXCEPT ![t] = Over(t)]
  BY <1>2
<1>4. l.at = "register" /\ l.seen = call[t].seen
  BY <1>1 DEF CallRec
<1> HIDE DEF l
<1>5. /\ call'[t].at \in {"register", "over"} /\ call'[t].seen \in {call[t].seen, None}
      /\ \A u \in Calls : u # t => call'[u] = call[u]
  BY <1>1, <1>3, <1>4, Others
<1>6. PreIdle /\ DevicesIdle
  BY <1>5 DEF PreIdle, DevicesIdle, Calls
<1>7. \A k \in Stores : OrgKeys(k) => OrgKeys(k)'
  BY <1>1, <1>5, MakerOrgs
<1>8. \A r \in registered' : r \in registered \/ \E p \in Processes : preCache[p] # None /\ r[2] = preCache[p]
  BY <1>1, <1>2
<1> QED BY <1>1, <1>6, <1>7, <1>8, MakerKeeps

\* A call that clashes with no other finds the keystore whole.
LEMMA Whole ==
  ASSUME State, Hands, NEW t \in Calls, NEW ats, ~Clashes(t, ats), writing[ProcessOf[t]] = None
  PROVE  /\ \A p \in Processes : writing[p] = None
         /\ \A k : IsKeystore(k) => k = file
<1>1. ASSUME NEW p \in Processes, writing[p] # None PROVE FALSE
  <2>1. writing[p].by \in Calls /\ ProcessOf[writing[p].by] = p
    BY <1>1, Writing
  <2>2. p # ProcessOf[t]
    BY <1>1
  <2> QED BY <1>1, <2>1, <2>2 DEF Clashes
<1> QED BY <1>1 DEF IsKeystore

LEMMA PutKeeps ==
  ASSUME State, Hands, OneWriter, Keeps, NEW t \in Calls, BeginPut(t)
  PROVE  OneWriter' /\ Keeps'
<1> DEFINE w == [by |-> t, read |-> file, step |-> "open"]
<1>1. /\ writing[ProcessOf[t]] = None /\ ProcessOf[t] \in Processes
      /\ writing' = [writing EXCEPT ![ProcessOf[t]] = w]
      /\ clash' = (clash \/ Clashes(t, {}))
      /\ UNCHANGED <<file, call, preCache, pending, vault, entries, hub, registered, acked, dropped,
                     broken, twice>>
  BY Belong DEF BeginPut, hubside
<1>2. w.read = file
  OBVIOUS
<1> HIDE DEF w
<1>3. ~clash' => \A p \in Processes : writing[p] = None
  BY <1>1, Whole
<1>4. OneWriter'
  <2>1. ~clash' => \A p \in Processes : writing'[p] # None => p = ProcessOf[t]
    BY <1>1, <1>3 DEF State
  <2>2. ~clash' => \A u, v \in Calls : call'[u].at = "pre" /\ call'[v].at = "pre" => u = v
    BY <1>1 DEF OneWriter
  <2> QED BY <2>1, <2>2 DEF OneWriter
<1>5. ASSUME ~clash', ~broken'
      PROVE  \E k \in Stores : IsKeystore(k)' /\ OrgKeys(k)' /\ PreKey(k)' /\ DeviceKey(k)'
  <2>1. PICK k \in Stores : IsKeystore(k) /\ OrgKeys(k) /\ PreKey(k) /\ DeviceKey(k)
    BY <1>1, <1>5 DEF Keeps
  <2>2. k = file
    BY <1>1, <1>5, <2>1, Whole
  <2>3. IsKeystore(k)'
    BY <1>1, <1>2, <1>3, <1>5, <2>2 DEF IsKeystore, State
  <2>4. OrgKeys(k)' /\ PreKey(k)' /\ DeviceKey(k)'
    BY <1>1, <2>1 DEF OrgKeys, PreKey, DeviceKey
  <2> QED BY <2>1, <2>3, <2>4
<1> QED BY <1>4, <1>5 DEF Keeps

LEMMA OpenKeeps ==
  ASSUME State, OneWriter, Keeps, NEW p \in Processes, OpenFile(p)
  PROVE  OneWriter' /\ Keeps'
<1>1. /\ writing[p] \in Updates /\ writing' = [writing EXCEPT ![p].step = "write"] /\ writing[p] # None
      /\ UNCHANGED <<call, preCache, pending, vault, entries, hub, registered, acked, dropped,
                     clash, broken, twice>>
  BY DEF OpenFile, State, hubside, histories
<1> DEFINE w == [writing[p] EXCEPT !.step = "write"]
<1>2. w.read = writing[p].read /\ w.step = "write" /\ w \in Updates /\ writing' = [writing EXCEPT ![p] = w]
  BY <1>1 DEF Updates
<1> HIDE DEF w
<1>3. \A q \in Processes : writing'[q] = IF q = p THEN w ELSE writing[q]
  BY <1>2 DEF State
<1>4. OneWriter'
  BY <1>1, <1>3 DEF OneWriter
<1>5. ASSUME ~clash', ~broken'
      PROVE  \E k \in Stores : IsKeystore(k)' /\ OrgKeys(k)' /\ PreKey(k)' /\ DeviceKey(k)'
  <2>1. PICK k \in Stores : IsKeystore(k) /\ OrgKeys(k) /\ PreKey(k) /\ DeviceKey(k)
    BY <1>1, <1>5 DEF Keeps
  <2>2. IsKeystore(k)'
    <3>1. writing'[p] = w /\ w # None
      BY <1>2, <1>3, UpdatesAssumption
    <3> QED BY <1>1, <1>2, <1>3, <2>1, <3>1 DEF IsKeystore
  <2>3. OrgKeys(k)' /\ PreKey(k)' /\ DeviceKey(k)'
    BY <1>1, <2>1 DEF OrgKeys, PreKey, DeviceKey
  <2> QED BY <2>1, <2>2, <2>3
<1> QED BY <1>4, <1>5 DEF Keeps

LEMMA GetPreKeeps ==
  ASSUME State, Hands, OneWriter, Keeps, NEW t \in Calls, GetPre(t)
  PROVE  OneWriter' /\ Keeps'
<1> DEFINE p == ProcessOf[t]
           key == IF preCache[p] # None THEN preCache[p] ELSE file.pre
<1>1. /\ call[t].at = "needPre" /\ writing[p] = None /\ p \in Processes
      /\ ~BeingMade(p) /\ preCache' = [preCache EXCEPT ![p] = key]
      /\ clash' = (clash \/ Clashes(t, {"pre"}))
      /\ UNCHANGED <<file, writing, pending, vault, entries, hub, registered, acked, dropped,
                     broken, twice>>
  BY Belong DEF GetPre, At, hubside
<1>2. /\ call'[t].at = IF key = None THEN "pre" ELSE IF t \in Recalls THEN "memberships" ELSE "register"
      /\ call'[t].seen \in {call[t].seen, None}
      /\ \A u \in Calls : u # t => call'[u] = call[u]
  BY GoneTo DEF GetPre
<1>3. preCache'[p] = key /\ \A q \in Processes : q # p => preCache'[q] = preCache[q]
  BY <1>1 DEF State
<1>4. key = IF preCache[p] # None THEN preCache[p] ELSE file.pre
  OBVIOUS
<1> HIDE DEF key
<1>5. ~clash' => \A u \in Calls : call[u].at # "pre"
  BY <1>1 DEF Clashes, BeingMade
<1>6. OneWriter'
  <2>1. ~clash' => \A u, v \in Calls : call'[u].at = "pre" /\ call'[v].at = "pre" => u = v
    BY <1>2, <1>5
  <2> QED BY <1>1, <2>1 DEF OneWriter
<1>7. ASSUME ~clash', ~broken'
      PROVE  \E k \in Stores : IsKeystore(k)' /\ OrgKeys(k)' /\ PreKey(k)' /\ DeviceKey(k)'
  <2>1. PICK k \in Stores : IsKeystore(k) /\ OrgKeys(k) /\ PreKey(k) /\ DeviceKey(k)
    BY <1>1, <1>7 DEF Keeps
  <2>2. k = file
    BY <1>1, <1>7, <2>1, Whole
  <2>3. IsKeystore(k)'
    BY <1>1, <2>1, SameStore
  <2>4. OrgKeys(k)'
    <3>1. OrgsIdle
      BY <1>1, <1>2 DEF OrgsIdle
    <3> QED BY <1>1, <2>1, <3>1, SameOrgs
  <2>5. PreKey(k)'
    <3>1. key = k.pre \/ (preCache[p] # None /\ key = preCache[p])
      BY <1>4, <2>2
    <3>2. key = k.pre
      BY <1>1, <2>1, <3>1 DEF PreKey
    <3>3. \A q \in Processes : preCache'[q] \in {None, k.pre}
      BY <1>3, <2>1, <3>2 DEF PreKey
    <3>4. \A u \in Calls : call'[u].at = "pre" => k.pre = None
      BY <1>2, <1>5, <1>7, <3>2
    <3> QED BY <1>1, <2>1, <3>3, <3>4 DEF PreKey
  <2>6. DeviceKey(k)'
    <3>1. DevicesIdle
      BY <1>2 DEF DevicesIdle, Calls
    <3> QED BY <1>1, <2>1, <3>1, SameDevices
  <2> QED BY <2>1, <2>3, <2>4, <2>5, <2>6
<1> QED BY <1>6, <1>7 DEF Keeps

LEMMA DeviceKeeps ==
  ASSUME State, Hands, OneWriter, Keeps, NEW t \in Calls, GetDeviceKey(t)
  PROVE  OneWriter' /\ Keeps'
<1>1. /\ call[t].at \in {"inner", "outer"} /\ writing[ProcessOf[t]] = None /\ t \in Submits
      /\ call[t] \in CallRec /\ Fits(t, call[t])
      /\ clash' = (clash \/ Clashes(t, {}))
      /\ twice' = (twice \/ \E u \in Calls \ {t} : call[u].at \in {"newInner", "newOuter"})
      /\ UNCHANGED <<file, writing, preCache, pending, vault, hub, registered, acked, dropped, broken>>
  BY DEF GetDeviceKey, At, State, Fits, hubside
<1> DEFINE l == [call[t] EXCEPT !.at = "outer", !.inner = file.device]
<1>2. \/ /\ file.device = None /\ call[t].at = "inner" /\ UNCHANGED entries /\ GoTo(t, "newInner")
      \/ /\ file.device = None /\ call[t].at = "outer" /\ UNCHANGED entries /\ GoTo(t, "newOuter")
      \/ /\ file.device # None /\ call[t].at = "inner" /\ UNCHANGED entries /\ call' = [call EXCEPT ![t] = l]
      \/ /\ file.device # None /\ call[t].at = "outer"
         /\ GoTo(t, "over") /\ entries' = [entries EXCEPT ![t] = <<call[t].inner, file.device>>]
  BY <1>1 DEF GetDeviceKey
<1>3. l.at = "outer" /\ l.inner = file.device /\ l.seen = call[t].seen
  BY <1>1 DEF CallRec
<1> HIDE DEF l
<1>4. /\ call'[t].at \in {"newInner", "newOuter", "outer", "over"}
      /\ call'[t].seen \in {call[t].seen, None}
      /\ \A u \in Calls : u # t => call'[u] = call[u]
  <2>1. CASE GoTo(t, "newInner") \/ GoTo(t, "newOuter") \/ GoTo(t, "over")
    BY <2>1, GoneTo
  <2>2. CASE call' = [call EXCEPT ![t] = l]
    BY <1>3, <2>2, Others
  <2> QED BY <1>2, <2>1, <2>2
<1>5. t \notin Creates /\ PreIdle /\ OrgsIdle
  <2>1. t \notin Creates
    BY <1>1, Kinds DEF Orgs
  <2>2. PreIdle
    BY <1>4 DEF PreIdle
  <2>3. OrgsIdle
    BY <1>4, <2>1 DEF OrgsIdle
  <2> QED BY <2>1, <2>2, <2>3
<1>6. OneWriter'
  <2>1. ~clash' => ~clash
    BY <1>1
  <2> QED BY <1>1, <1>5, <2>1 DEF OneWriter, PreIdle
<1>7. ASSUME ~clash', ~broken'
      PROVE  \E k \in Stores : IsKeystore(k)' /\ OrgKeys(k)' /\ PreKey(k)' /\ DeviceKey(k)'
  <2>1. PICK k \in Stores : IsKeystore(k) /\ OrgKeys(k) /\ PreKey(k) /\ DeviceKey(k)
    BY <1>1, <1>7 DEF Keeps
  <2>2. k = file
    BY <1>1, <1>7, <2>1, Whole
  <2>3. IsKeystore(k)' /\ OrgKeys(k)' /\ PreKey(k)'
    BY <1>1, <1>5, <2>1, SameStore, SameOrgs, SamePre
  <2>4. DeviceKey(k)'
    <3> SUFFICES ASSUME ~twice'
        PROVE  /\ \A b, c \in Submits : call'[b].at = "newInner" /\ call'[c].at = "newInner" => b = c
               /\ \A b \in Submits :
                    /\ call'[b].at = "newInner" => k.device = None
                    /\ call'[b].at # "newOuter"
                    /\ call'[b].at = "outer" => call'[b].inner = k.device
                    /\ entries'[b] # None => entries'[b] = <<k.device, k.device>>
      BY DEF DeviceKey
    <3>0. \A b \in Submits : b \in Calls
      BY DEF Calls
    <3>1. ~twice /\ \A u \in Calls : u # t => call[u].at # "newInner"
      BY <1>1
    <3>2. /\ call[t].at = "outer" => call[t].inner = k.device /\ k.device # None
          /\ \A b \in Submits : /\ call[b].at # "newOuter"
                                /\ call[b].at = "outer" => call[b].inner = k.device
                                /\ entries[b] # None => entries[b] = <<k.device, k.device>>
      BY <1>1, <2>1, <3>1 DEF DeviceKey, Fits
    <3>3. CASE file.device = None /\ call[t].at = "inner" /\ UNCHANGED entries /\ GoTo(t, "newInner")
      <4>1. call'[t].at = "newInner"
        BY <3>3, GoneTo
      <4> QED BY <1>4, <2>2, <3>0, <3>1, <3>2, <3>3, <4>1
    <3>4. CASE file.device = None /\ call[t].at = "outer"
      BY <2>2, <3>2, <3>4
    <3>5. CASE file.device # None /\ call[t].at = "inner" /\ UNCHANGED entries /\ call' = [call EXCEPT ![t] = l]
      <4>1. call'[t] = l
        BY <3>5, Others
      <4> QED BY <1>3, <1>4, <2>2, <3>0, <3>1, <3>2, <3>5, <4>1
    <3>6. CASE /\ file.device # None /\ call[t].at = "outer"
               /\ GoTo(t, "over") /\ entries' = [entries EXCEPT ![t] = <<call[t].inner, file.device>>]
      <4>1. call'[t].at = "over"
        BY <3>6, GoneTo
      <4>2. \A b \in Submits : entries'[b] = IF b = t THEN <<k.device, k.device>> ELSE entries[b]
        BY <2>2, <3>2, <3>6 DEF State
      <4> QED BY <1>4, <3>0, <3>1, <3>2, <4>1, <4>2
    <3> QED BY <1>2, <3>3, <3>4, <3>5, <3>6
  <2> QED BY <2>1, <2>3, <2>4
<1> QED BY <1>6, <1>7 DEF Keeps

LEMMA PutFailsKeeps ==
  ASSUME State, Hands, OneWriter, Keeps, NEW p \in Processes, PutFails(p)
  PROVE  OneWriter' /\ Keeps'
<1> DEFINE t == writing[p].by
<1>1. /\ t \in Calls /\ call[t].at \in Storing /\ writing[p] # None
      /\ writing' = [writing EXCEPT ![p] = None]
      /\ broken' = (broken \/ writing[p].step = "write")
      /\ GoTo(t, IF t \in Setups THEN "created" ELSE IF call[t].at = "pre" THEN "pre" ELSE "over")
      /\ dropped' = IF t \in Creates /\ call[t].at \in {"master", "mod"} THEN dropped \cup {t}
                    ELSE dropped
      /\ UNCHANGED <<file, preCache, pending, vault, entries, hub, registered, acked, clash, twice>>
  BY Writing DEF PutFails, hubside
<1> HIDE DEF t
<1>2. /\ call'[t].at \in {"created", "pre", "over"}
      /\ call'[t].at = "pre" => call[t].at = "pre"
      /\ call'[t].seen \in {call[t].seen, None}
      /\ \A u \in Calls : u # t => call'[u] = call[u]
  BY <1>1, GoneTo
<1>3. OrgsIdle
  BY <1>1, <1>2 DEF OrgsIdle
<1>4. PreIdle /\ DevicesIdle
  BY <1>2 DEF PreIdle, DevicesIdle, Calls
<1>5. \A q \in Processes : writing'[q] = IF q = p THEN None ELSE writing[q]
  BY <1>1 DEF State
<1>6. OneWriter'
  BY <1>1, <1>4, <1>5, SameWriter
<1>7. ASSUME ~clash', ~broken'
      PROVE  \E k \in Stores : IsKeystore(k)' /\ OrgKeys(k)' /\ PreKey(k)' /\ DeviceKey(k)'
  <2>1. PICK k \in Stores : IsKeystore(k) /\ OrgKeys(k) /\ PreKey(k) /\ DeviceKey(k)
    BY <1>1, <1>7 DEF Keeps
  <2>2. \A q \in Processes : writing[q] # None => q = p
    BY <1>1, <1>7 DEF OneWriter
  <2>3. file = k
    BY <1>1, <1>7, <2>1, <2>2 DEF IsKeystore
  <2>4. IsKeystore(k)'
    BY <1>1, <1>5, <2>2, <2>3 DEF IsKeystore
  <2>5. OrgKeys(k)' /\ PreKey(k)' /\ DeviceKey(k)'
    BY <1>1, <1>3, <1>4, <2>1, SameOrgs, SamePre, SameDevices
  <2> QED BY <2>1, <2>4, <2>5
<1> QED BY <1>6, <1>7 DEF Keeps

LEMMA KillKeeps ==
  ASSUME State, Hands, OneWriter, Keeps, NEW p \in Processes, Kill(p)
  PROVE  OneWriter' /\ Keeps'
<1>1. /\ writing' = [writing EXCEPT ![p] = None] /\ preCache' = [preCache EXCEPT ![p] = None]
      /\ broken' = (broken \/ (writing[p] # None /\ writing[p].step = "write"))
      /\ dropped' = dropped \cup (IF p = Server THEN pending ELSE {})
                      \cup {c \in Creates : ProcessOf[c] = p /\ call[c].at \in {"master", "mod"}}
      /\ pending' = IF p = Server THEN {} ELSE pending
      /\ UNCHANGED <<file, vault, entries, hub, registered, acked, clash, twice>>
  BY DEF Kill, hubside
<1>2. ASSUME NEW t \in Calls
      PROVE  \/ call'[t] = call[t]
             \/ ProcessOf[t] = p /\ call'[t].at \in {"created", "over"} /\ call'[t].seen \in {call[t].seen, None}
  <2>1. call[t] \in CallRec /\ Over(t).at = "over" /\ Over(t).seen = None
    BY DEF State, Over, NewCall
  <2> DEFINE l == [call[t] EXCEPT !.at = "created"]
  <2>2. l.at = "created" /\ l.seen = call[t].seen
    BY <2>1 DEF CallRec
  <2>3. call'[t] = IF ProcessOf[t] # p \/ call[t].at \in {"new", "over", "given", "created"} THEN call[t]
                   ELSE IF t \in Setups \cap hub THEN l ELSE Over(t)
    BY DEF Kill
  <2> HIDE DEF l
  <2> QED BY <2>1, <2>2, <2>3
<1>3. OrgsIdle
  BY <1>1, <1>2 DEF OrgsIdle
<1>4. PreIdle /\ DevicesIdle
  BY <1>2 DEF PreIdle, DevicesIdle, Calls
<1>5. /\ \A q \in Processes : writing'[q] = IF q = p THEN None ELSE writing[q]
      /\ \A q \in Processes : preCache'[q] \in {preCache[q], None}
      /\ pending \cup dropped \subseteq pending' \cup dropped'
  BY <1>1 DEF State
<1>6. OneWriter'
  BY <1>1, <1>4, <1>5, SameWriter
<1>7. ASSUME ~clash', ~broken'
      PROVE  \E k \in Stores : IsKeystore(k)' /\ OrgKeys(k)' /\ PreKey(k)' /\ DeviceKey(k)'
  <2>1. PICK k \in Stores : IsKeystore(k) /\ OrgKeys(k) /\ PreKey(k) /\ DeviceKey(k)
    BY <1>1, <1>7 DEF Keeps
  <2>2. IsKeystore(k)'
    BY <1>1, <1>5, <1>7, <2>1 DEF IsKeystore
  <2>3. OrgKeys(k)' /\ PreKey(k)' /\ DeviceKey(k)'
    BY <1>1, <1>3, <1>4, <1>5, <2>1, SameOrgs, SamePre, SameDevices
  <2> QED BY <2>1, <2>2, <2>3
<1> QED BY <1>6, <1>7 DEF Keeps

-----------------------------------------------------------------------------
(* A key written: the keystore is then what was read, with that key.       *)

\* What WriteFile of process p changes, for the call t it writes for.
Written(p, t) ==
  /\ t \in Calls /\ ProcessOf[t] = p /\ call[t].at \in Storing /\ Fits(t, call[t])
  /\ call[t] \in CallRec /\ writing[p] # None
  /\ \A q \in Processes : writing'[q] = IF q = p THEN None ELSE writing[q]
  /\ file' = Keyed(writing[p].read, t)
  /\ call'[t] = Stored(t) /\ \A u \in Calls : u # t => call'[u] = call[u]
  /\ preCache' = IF call[t].at = "pre" THEN [preCache EXCEPT ![p] = t] ELSE preCache
  /\ pending' = IF call[t].at = "mod" THEN pending \ {t} ELSE pending
  /\ acked' = IF call[t].at = "mod" /\ t \in Setups THEN acked \cup {t} ELSE acked
  /\ entries' = IF call[t].at = "newOuter" THEN [entries EXCEPT ![t] = <<call[t].inner, <<t, 2>>>>]
                ELSE entries
  /\ UNCHANGED <<vault, hub, registered, dropped, clash, broken, twice>>

LEMMA WriteIs ==
  ASSUME State, Hands, NEW p \in Processes, WriteFile(p)
  PROVE  Written(p, writing[p].by)
<1> DEFINE t == writing[p].by
<1>1. /\ t \in Calls /\ ProcessOf[t] = p /\ call[t].at \in Storing /\ writing[p] # None
      /\ call[t] \in CallRec /\ Fits(t, call[t])
  BY Writing DEF WriteFile, State
<1>2. call' = [call EXCEPT ![t] = Stored(t)] /\ writing' = [writing EXCEPT ![p] = None]
  BY DEF WriteFile
<1>3. call'[t] = Stored(t) /\ \A u \in Calls : u # t => call'[u] = call[u]
  BY <1>1, <1>2, Others
<1>4. \A q \in Processes : writing'[q] = IF q = p THEN None ELSE writing[q]
  BY <1>2 DEF State
<1>5. /\ file' = Keyed(writing[p].read, t)
      /\ preCache' = IF call[t].at = "pre" THEN [preCache EXCEPT ![p] = t] ELSE preCache
      /\ pending' = IF call[t].at = "mod" THEN pending \ {t} ELSE pending
      /\ acked' = IF call[t].at = "mod" /\ t \in Setups THEN acked \cup {t} ELSE acked
      /\ entries' = IF call[t].at = "newOuter" THEN [entries EXCEPT ![t] = <<call[t].inner, <<t, 2>>>>]
                    ELSE entries
      /\ UNCHANGED <<vault, hub, registered, dropped, clash, broken, twice>>
  BY DEF WriteFile, hubside
<1> QED BY <1>1, <1>3, <1>4, <1>5 DEF Written

\* The key stored, and where its call is then.
LEMMA StoredWhere ==
  ASSUME State, NEW t \in Calls, call[t] \in CallRec, NEW k \in Stores
  PROVE  /\ call[t].at = "master" =>
              /\ Keyed(k, t) = [k EXCEPT !.master = @ \cup {call[t].org}]
              /\ Stored(t).at = IF t \in Recovers THEN "over" ELSE "mod"
              /\ Stored(t).seen \in {call[t].seen, None}
         /\ call[t].at = "mod" =>
              /\ Keyed(k, t) = [k EXCEPT !.mod = @ \cup {call[t].org}]
              /\ Stored(t).at = IF t \in Setups THEN "over" ELSE IF InServer(t) THEN "needPre" ELSE "vault"
              /\ Stored(t).seen \in {call[t].seen, None}
         /\ call[t].at = "pre" =>
              /\ Keyed(k, t) = [k EXCEPT !.pre = t]
              /\ Stored(t).at = IF t \in Recalls THEN "memberships" ELSE "register"
              /\ Stored(t).seen \in {call[t].seen, None}
         /\ call[t].at = "newInner" =>
              /\ Keyed(k, t) = [k EXCEPT !.device = <<t, 1>>]
              /\ Stored(t).at = "outer" /\ Stored(t).inner = <<t, 1>>
              /\ Stored(t).seen \in {call[t].seen, None}
         /\ call[t].at = "newOuter" =>
              /\ Keyed(k, t) = [k EXCEPT !.device = <<t, 2>>]
              /\ Stored(t).at = "over"
              /\ Stored(t).seen \in {call[t].seen, None}
<1>1. Over(t).at = "over" /\ Over(t).seen = None
  BY DEF Over, NewCall
<1>2. \A at : [call[t] EXCEPT !.at = at].at = at /\ [call[t] EXCEPT !.at = at].seen = call[t].seen
  BY DEF CallRec
<1>3. ASSUME call[t].at = "master"
      PROVE  /\ Keyed(k, t) = [k EXCEPT !.master = @ \cup {call[t].org}]
             /\ Stored(t) = IF t \in Recovers THEN Over(t) ELSE [call[t] EXCEPT !.at = "mod"]
  BY <1>3 DEF Keyed, Stored
<1>4. ASSUME call[t].at = "mod"
      PROVE  /\ Keyed(k, t) = [k EXCEPT !.mod = @ \cup {call[t].org}]
             /\ Stored(t) = IF t \in Setups THEN Over(t)
                            ELSE [call[t] EXCEPT !.at = IF InServer(t) THEN "needPre" ELSE "vault"]
  BY <1>4 DEF Keyed, Stored
<1>5. ASSUME call[t].at = "pre"
      PROVE  /\ Keyed(k, t) = [k EXCEPT !.pre = t]
             /\ Stored(t) = [call[t] EXCEPT !.at = IF t \in Recalls THEN "memberships" ELSE "register"]
  BY <1>5 DEF Keyed, Stored
<1>6. ASSUME call[t].at = "newInner"
      PROVE  /\ Keyed(k, t) = [k EXCEPT !.device = <<t, 1>>]
             /\ Stored(t).at = "outer" /\ Stored(t).inner = <<t, 1>> /\ Stored(t).seen = call[t].seen
  <2>1. Stored(t) = [call[t] EXCEPT !.at = "outer", !.inner = <<t, 1>>]
    BY <1>6 DEF Stored
  <2>2. Keyed(k, t) = [k EXCEPT !.device = <<t, 1>>]
    BY <1>6 DEF Keyed
  <2> QED BY <2>1, <2>2 DEF CallRec
<1>7. ASSUME call[t].at = "newOuter"
      PROVE  Keyed(k, t) = [k EXCEPT !.device = <<t, 2>>] /\ Stored(t) = Over(t)
  BY <1>7 DEF Keyed, Stored
<1>8. ASSUME call[t].at = "master"
      PROVE  /\ Stored(t).at = IF t \in Recovers THEN "over" ELSE "mod"
             /\ Stored(t).seen \in {call[t].seen, None}
  <2>1. CASE t \in Recovers
    BY <1>1, <1>3, <1>8, <2>1
  <2>2. CASE t \notin Recovers
    <3>1. Stored(t) = [call[t] EXCEPT !.at = "mod"]
      BY <1>3, <1>8, <2>2
    <3> QED BY <1>2, <2>2, <3>1
  <2> QED BY <2>1, <2>2
<1>9. ASSUME call[t].at = "mod"
      PROVE  /\ Stored(t).at = IF t \in Setups THEN "over" ELSE IF InServer(t) THEN "needPre" ELSE "vault"
             /\ Stored(t).seen \in {call[t].seen, None}
  <2>1. CASE t \in Setups
    BY <1>1, <1>4, <1>9, <2>1
  <2>2. CASE t \notin Setups
    <3>1. Stored(t) = [call[t] EXCEPT !.at = IF InServer(t) THEN "needPre" ELSE "vault"]
      BY <1>4, <1>9, <2>2
    <3> QED BY <1>2, <2>2, <3>1
  <2> QED BY <2>1, <2>2
<1>10. ASSUME call[t].at = "pre"
       PROVE  /\ Stored(t).at = IF t \in Recalls THEN "memberships" ELSE "register"
              /\ Stored(t).seen \in {call[t].seen, None}
  BY <1>2, <1>5, <1>10
<1> HIDE DEF Keyed, Stored
<1> QED BY <1>1, <1>3, <1>4, <1>5, <1>6, <1>7, <1>8, <1>9, <1>10

\* Every step of WriteFile leaves the keys of orgs, the PRE key and the device key right.
LEMMA WrittenOrgs ==
  ASSUME State, NEW p \in Processes, NEW t, Written(p, t), NEW k \in Stores, OrgKeys(k),
         NEW n \in Stores, n = Keyed(k, t)
  PROVE  OrgKeys(n)'
<1>0. /\ \A o \in Orgs : o \in Calls
      /\ \A s \in Setups : s \in Orgs /\ s \notin Creates
      /\ \A c \in Creates : c \in Orgs /\ c \notin Recovers
      /\ Setups \cap Recovers = {}
  BY Kinds DEF Calls, Orgs
<1>1. /\ k.master \subseteq n.master /\ k.mod \subseteq n.mod
      /\ call[t].at \in {"master", "mod"} /\ t \in Orgs =>
           IF call[t].at = "master" THEN t \in n.master ELSE t \in n.mod
  BY StoredWhere DEF Written, Stores, Fits, Storing
<1>2. /\ call'[t].at \in {"mod", "over", "needPre", "vault", "memberships", "register", "outer"}
      /\ call'[t].at = "mod" => call[t].at = "master" /\ t \notin Recovers
      /\ call'[t].at \in {"needPre", "vault"} => call[t].at = "mod"
      /\ call'[t].at = "register" => call[t].at = "pre"
      /\ call[t].at = "master" /\ t \notin Recovers => call'[t].at = "mod"
      /\ call[t].at = "mod" /\ t \notin Setups => call'[t].at \in {"needPre", "vault"}
      /\ call'[t].seen \in {call[t].seen, None}
  BY StoredWhere DEF Written, Storing
<1>3. /\ t \in Calls /\ \A u \in Calls : u # t => call'[u] = call[u]
      /\ pending' = IF call[t].at = "mod" THEN pending \ {t} ELSE pending
      /\ acked' = IF call[t].at = "mod" /\ t \in Setups THEN acked \cup {t} ELSE acked
      /\ UNCHANGED <<vault, hub, dropped>>
  BY DEF Written
<1>4. call[t].at = "mod" => t \in Orgs /\ t \in n.master \cap n.mod
  <2>1. call[t].at = "mod" => t \in Orgs
    BY DEF Written, Fits
  <2> QED BY <1>1, <2>1 DEF OrgKeys
<1>5. ASSUME NEW o \in hub
      PROVE  \/ o \in n.master \cap n.mod
             \/ o \in pending' \cup dropped'
             \/ o \in Creates /\ call'[o].at \in {"master", "mod"}
  <2>1. o \in Calls
    BY <1>0 DEF State
  <2>2. CASE o \in k.master \cap k.mod
    BY <1>1, <2>2
  <2>3. CASE o \in pending \cup dropped
    BY <1>3, <1>4, <2>3
  <2>4. CASE o \in Creates /\ call[o].at \in {"master", "mod"}
    <3>1. CASE o # t
      BY <1>3, <2>1, <2>4, <3>1
    <3>2. CASE o = t /\ call[t].at = "master"
      BY <1>0, <1>2, <2>4, <3>2
    <3>3. CASE o = t /\ call[t].at = "mod"
      BY <1>4, <3>3
    <3> QED BY <2>4, <3>1, <3>2, <3>3
  <2> QED BY <2>2, <2>3, <2>4 DEF OrgKeys
<1>6. ASSUME NEW s \in Setups, call'[s].at = "given" PROVE s \in pending' \cup dropped'
  <2>1. s # t /\ s \in Calls
    BY <1>0, <1>2, <1>6
  <2>2. s \in pending \cup dropped
    BY <1>3, <1>6, <2>1 DEF OrgKeys
  <2> QED BY <1>3, <2>1, <2>2
<1>7. ASSUME NEW o \in Orgs, call'[o].at = "mod" PROVE o \in n.master
  <2>1. CASE o = t
    BY <1>1, <1>2, <1>7, <2>1
  <2>2. CASE o # t
    BY <1>0, <1>1, <1>3, <1>7, <2>2 DEF OrgKeys
  <2> QED BY <2>1, <2>2
<1>8. ASSUME NEW c \in Creates, call'[c].at \in {"vault", "needPre", "pre", "register"}
      PROVE  c \in n.master \cap n.mod
  <2>1. CASE c = t /\ call'[t].at \in {"needPre", "vault"}
    BY <1>2, <1>4, <2>1
  <2>2. CASE c = t /\ call'[t].at = "register"
    BY <1>1, <1>2, <2>2 DEF OrgKeys
  <2>3. CASE c # t
    BY <1>0, <1>1, <1>3, <1>8, <2>3 DEF OrgKeys
  <2> QED BY <1>2, <1>8, <2>1, <2>2, <2>3
<1>9. acked' \subseteq n.master \cap n.mod /\ vault \subseteq n.master
  BY <1>1, <1>3, <1>4 DEF OrgKeys
<1>10. ASSUME NEW u \in Calls, call'[u].seen # None PROVE call'[u].seen \subseteq n.master
  BY <1>1, <1>2, <1>3, <1>10 DEF OrgKeys
<1> QED BY <1>3, <1>5, <1>6, <1>7, <1>8, <1>9, <1>10 DEF OrgKeys

LEMMA WrittenPre ==
  ASSUME State, NEW p \in Processes, NEW t, Written(p, t), NEW k \in Stores, PreKey(k),
         \A u, v \in Calls : call[u].at = "pre" /\ call[v].at = "pre" => u = v,
         NEW n \in Stores, n = Keyed(k, t)
  PROVE  PreKey(n)'
<1>1. call'[t].at # "pre" /\ t \in Calls /\ \A u \in Calls : u # t => call'[u] = call[u]
  BY StoredWhere DEF Written, Storing
<1>2. CASE call[t].at = "pre"
  <2>1. n.pre = t /\ k.pre = None
    BY <1>2, StoredWhere DEF Written, Stores, PreKey
  <2>2. \A r \in registered : r[2] \in PreKeys
    BY DEF State
  <2>3. registered = {}
    BY <2>1, <2>2, Nones DEF PreKey
  <2>4. \A q \in Processes : preCache'[q] \in {None, t}
    BY <1>2, <2>1 DEF PreKey, Written, State
  <2>5. \A u \in Calls : call'[u].at # "pre"
    BY <1>1, <1>2
  <2>6. registered' = registered
    BY DEF Written
  <2> QED BY <2>1, <2>3, <2>4, <2>5, <2>6 DEF PreKey
<1>3. CASE call[t].at # "pre"
  <2>1. n.pre = k.pre
    BY <1>3, StoredWhere DEF Written, Stores, Storing
  <2>2. UNCHANGED <<registered, preCache>>
    BY <1>3 DEF Written
  <2> QED BY <1>1, <2>1, <2>2 DEF PreKey
<1> QED BY <1>2, <1>3

LEMMA WrittenDevices ==
  ASSUME State, NEW p \in Processes, NEW t, Written(p, t), NEW k \in Stores, DeviceKey(k),
         NEW n \in Stores, n = Keyed(k, t)
  PROVE  DeviceKey(n)'
<1>0. \A b \in Submits : b \in Calls
  BY DEF Calls
<1>1. t \in Calls /\ \A u \in Calls : u # t => call'[u] = call[u]
  BY DEF Written
<1>2. CASE call[t].at = "newInner"
  <2> SUFFICES ASSUME ~twice'
      PROVE  /\ \A b, c \in Submits : call'[b].at = "newInner" /\ call'[c].at = "newInner" => b = c
             /\ \A b \in Submits :
                  /\ call'[b].at = "newInner" => n.device = None
                  /\ call'[b].at # "newOuter"
                  /\ call'[b].at = "outer" => call'[b].inner = n.device
                  /\ entries'[b] # None => entries'[b] = <<n.device, n.device>>
    BY DEF DeviceKey
  <2>1. /\ n.device = <<t, 1>> /\ call'[t].at = "outer" /\ call'[t].inner = <<t, 1>>
        /\ t \in Submits /\ ~twice /\ UNCHANGED entries
    BY <1>2, StoredWhere DEF Written, Stores, Fits
  <2>2. k.device = None /\ \A b \in Submits : call[b].at = "newInner" => b = t
    BY <1>2, <2>1 DEF DeviceKey
  <2>3. ASSUME NEW b \in Submits, call[b].at = "outer" PROVE FALSE
    BY <1>0, <2>1, <2>2, <2>3 DEF DeviceKey, State, Fits
  <2>4. ASSUME NEW b \in Submits, entries[b] # None PROVE FALSE
    <3>1. entries[b] \in DeviceKeys \X DeviceKeys /\ entries[b] = <<None, None>>
      BY <2>1, <2>2, <2>4 DEF DeviceKey, State
    <3> QED BY <3>1, Nones
  <2>5. \A b \in Submits : call[b].at # "newOuter"
    BY <2>1 DEF DeviceKey
  <2> QED BY <1>0, <1>1, <2>1, <2>2, <2>3, <2>4, <2>5
<1>3. CASE call[t].at = "newOuter"
  BY <1>3 DEF DeviceKey, Written, Fits
<1>4. CASE call[t].at \in {"master", "mod", "pre"}
  <2>1. /\ n.device = k.device
        /\ call'[t].at \notin {"newInner", "newOuter", "outer"}
    BY <1>4, StoredWhere DEF Written, Stores
  <2>2. UNCHANGED <<entries, twice>>
    BY <1>4 DEF Written
  <2> QED BY <1>0, <1>1, <2>1, <2>2 DEF DeviceKey
<1> QED BY <1>2, <1>3, <1>4 DEF Written, Storing

LEMMA WriteKeeps ==
  ASSUME State, Hands, OneWriter, Keeps, NEW p \in Processes, WriteFile(p)
  PROVE  OneWriter' /\ Keeps'
<1> DEFINE t == writing[p].by
<1>1. Written(p, t)
  BY WriteIs
<1> HIDE DEF t
<1>2. \A q \in Processes : writing'[q] = IF q = p THEN None ELSE writing[q]
  BY <1>1 DEF Written
<1>3. PreIdle
  <2>1. call'[t].at # "pre"
    BY <1>1, StoredWhere DEF Written, Storing, Stores, State
  <2> QED BY <1>1, <2>1 DEF Written, PreIdle
<1>4. OneWriter'
  BY <1>1, <1>2, <1>3, SameWriter DEF Written
<1>5. ASSUME ~clash', ~broken'
      PROVE  \E k \in Stores : IsKeystore(k)' /\ OrgKeys(k)' /\ PreKey(k)' /\ DeviceKey(k)'
  <2>0. ~clash /\ ~broken /\ writing[p] # None /\ t \in Calls
    BY <1>1, <1>5 DEF Written
  <2>1. PICK k \in Stores : IsKeystore(k) /\ OrgKeys(k) /\ PreKey(k) /\ DeviceKey(k)
    BY <2>0 DEF Keeps
  <2>2. \A q \in Processes : writing'[q] = None
    BY <1>2, <2>0 DEF OneWriter
  <2>3. writing[p].read = k
    BY <2>0, <2>1 DEF IsKeystore
  <2>4. Keyed(k, t) \in Stores
    BY <1>1, <2>0, KeyedType DEF Written
  <2>5. PICK n \in Stores : n = Keyed(k, t)
    BY <2>4
  <2>6. IsKeystore(n)'
    <3>1. file' = n
      BY <1>1, <2>3, <2>5 DEF Written
    <3> QED BY <2>2, <3>1 DEF IsKeystore
  <2>7. OrgKeys(n)' /\ DeviceKey(n)'
    BY <1>1, <2>1, <2>5, WrittenOrgs, WrittenDevices
  <2>8. PreKey(n)'
    BY <1>1, <2>0, <2>1, <2>5, WrittenPre DEF OneWriter
  <2> QED BY <2>6, <2>7, <2>8
<1> QED BY <1>4, <1>5 DEF Keeps

LEMMA KeepsInit == Init => OneWriter /\ Keeps
<1> SUFFICES ASSUME Init PROVE OneWriter /\ Keeps
  OBVIOUS
<1>1. State
  BY StateInit
<1>2. \A t \in Calls : call[t].at \in {"new", "over"} /\ call[t].seen = None
  BY DEF Init, NewCall
<1>3. OneWriter
  BY <1>2 DEF Init, OneWriter
<1>4. PICK k \in Stores : k = file
  BY <1>1 DEF State
<1>5. IsKeystore(k)
  BY <1>4 DEF Init, IsKeystore
<1>6. OrgKeys(k)
  <2>1. hub = {} /\ acked = {} /\ vault = {}
    BY DEF Init
  <2> QED BY <1>2, <2>1 DEF OrgKeys, Calls, Orgs
<1>7. PreKey(k)
  BY <1>2 DEF Init, PreKey
<1>8. DeviceKey(k)
  <2>1. \A b \in Submits : entries[b] = None
    BY DEF Init
  <2> QED BY <1>2, <2>1 DEF DeviceKey, Calls
<1> QED BY <1>3, <1>4, <1>5, <1>6, <1>7, <1>8 DEF Keeps

LEMMA KeepsNext == State /\ Hands /\ OneWriter /\ Keeps /\ [Next]_vars => OneWriter' /\ Keeps'
<1> SUFFICES ASSUME State, Hands, OneWriter, Keeps, [Next]_vars PROVE OneWriter' /\ Keeps'
  OBVIOUS
<1>1. ASSUME NEW t \in Calls,
             \/ BeginImport(t) \/ NeedIdentity(t) \/ StoreIdentity(t)
             \/ BeginPut(t) \/ GetPre(t) \/ Submit(t) \/ GetDeviceKey(t)
             \/ Verify(t) \/ Setup(t) \/ HubMakes(t) \/ Finalize(t)
             \/ Build(t) \/ Post(t) \/ SaveVault(t)
             \/ Provision(t) \/ EnsureIdentity(t) \/ LoadMemberships(t) \/ Register(t)
             \/ Recover(t) \/ Refused(t)
      PROVE  OneWriter' /\ Keeps'
  BY <1>1, IdentityKeeps, MemberKeeps, SetupKeeps, CreateKeeps, RegisterKeeps, PutKeeps,
     GetPreKeeps, DeviceKeeps
<1>2. ASSUME NEW p \in Processes, OpenFile(p) \/ WriteFile(p) \/ PutFails(p) \/ Kill(p)
      PROVE  OneWriter' /\ Keeps'
  BY <1>2, OpenKeeps, WriteKeeps, PutFailsKeeps, KillKeeps
<1>3. CASE UNCHANGED vars
  <2>1. OrgsIdle /\ PreIdle /\ DevicesIdle
    BY <1>3 DEF vars, OrgsIdle, PreIdle, DevicesIdle
  <2> QED BY <1>3, <2>1, IdleKeeps DEF vars, hubside, histories
<1> QED BY <1>1, <1>2, <1>3 DEF Next

\* When nothing disturbs it, the file is the keystore.
LEMMA UndisturbedIs ==
  ASSUME State, Keeps, Undisturbed
  PROVE  OrgKeys(file) /\ PreKey(file) /\ DeviceKey(file)
<1>1. PICK k \in Stores : IsKeystore(k) /\ OrgKeys(k) /\ PreKey(k) /\ DeviceKey(k)
  BY DEF Keeps, Undisturbed
<1>2. k = file
  BY <1>1 DEF IsKeystore, Undisturbed
<1> QED BY <1>1, <1>2

LEMMA KeepsAlways == Spec => [](State /\ Keeps)
<1>1. Init => State /\ Hands /\ OneWriter /\ Keeps
  BY StateInit, KeepsInit
<1>2. State /\ Hands /\ OneWriter /\ Keeps /\ [Next]_vars => (State /\ Hands /\ OneWriter /\ Keeps)'
  BY StateNext, KeepsNext
<1> QED BY <1>1, <1>2, PTL DEF Spec

\* What storeKey has stored and others rely on, no later call, process or failure takes
\* from the keystore, unless two processes were writing it or a write was cut short.
THEOREM KeysAreKept == Spec => []KeysKept
<1>1. State /\ Keeps => KeysKept
  BY UndisturbedIs DEF KeysKept, OrgKeys, PreKey, DeviceKey
<1> QED BY <1>1, KeepsAlways, PTL

\* The keys of an org at the hub are stored, or its maker is about to store them, or the
\* setup is pending, or one of the named mishaps (dropped) took them.
THEOREM NoOrgLosesItsKeys == Spec => []KeysSomewhere
<1>1. State /\ Keeps => KeysSomewhere
  BY UndisturbedIs DEF KeysSomewhere, OrgKeys
<1> QED BY <1>1, KeepsAlways, PTL
=============================================================================
