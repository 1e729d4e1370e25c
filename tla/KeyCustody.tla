------------------------------ MODULE KeyCustody -----------------------------
(***************************************************************************)
(* Who holds the keys of a member and of the orgs it leads.                *)
(*                                                                         *)
(* The keystore, keys.json (src/key-store.ts), holds for every org led     *)
(* here a master key and a moderation key, and for this machine a PRE      *)
(* identity and a device key, both made when first needed (src/auth.ts,    *)
(* src/key-store.ts).  A key is stored by reading the whole file and       *)
(* writing it anew: without a pause within one process, but the server     *)
(* and each command are processes, and a file cut short reads as empty.    *)
(* The identity is one item of the system's keychain, and every process    *)
(* remembers the one it loaded.                                            *)
(*                                                                         *)
(* An org is made in two ways: by a dashboard, which asks the server for   *)
(* keys, creates the org at the hub itself and comes back to have the      *)
(* keys stored (org-setup and finalize, src/http-server.ts), or by one     *)
(* call (createOrg, src/org-client.ts).  It is named by the call that      *)
(* makes it, and so are keys and identities.                               *)
(***************************************************************************)
EXTENDS Integers

CONSTANTS
  Setups,     \* orgs set up by a dashboard
  Creates,    \* calls of createOrg: setup_org in the server, create-org as a command
  Provisions, \* provision-recall, in the server or as a command
  Recalls,    \* ensureIdentity, as recalls in the server begin with it
  Submits,    \* submitMemory in the server
  Recovers,   \* recover-org, a command
  Imports,    \* import-identity or pair with --force, a command
  ProcessOf,  \* the process each call runs in
  Server,
  FirstId,    \* an identity made before
  None,
  Mixes,      \* bound: the sets of calls that are made together
  MaxMishaps  \* bound: failures and kills

Orgs  == Setups \cup Creates
Calls == Orgs \cup Provisions \cup Recalls \cup Submits \cup Recovers \cup Imports
Processes  == {ProcessOf[t] : t \in Calls} \cup {Server}
Identities == Creates \cup Imports \cup {FirstId}
PreKeys    == Creates \cup Provisions \cup Recalls
DeviceKeys == Submits \X {1, 2}

ASSUME CallsAssumption ==
  /\ LET kinds == <<Setups, Creates, Provisions, Recalls, Submits, Recovers, Imports>>
     IN \A i, j \in 1 .. 7 : i # j => kinds[i] \cap kinds[j] = {}
  /\ FirstId \notin Calls /\ None \notin Calls \cup DeviceKeys \cup {FirstId}
ASSUME ProcessesAssumption ==
  /\ DOMAIN ProcessOf = Calls /\ None \notin Processes
  /\ \A t \in Setups \cup Recalls \cup Submits : ProcessOf[t] = Server
  /\ \A t \in Recovers \cup Imports : ProcessOf[t] # Server
  /\ \A t, u \in Calls : ProcessOf[t] = ProcessOf[u] /\ ProcessOf[t] # Server => t = u
ASSUME BoundsAssumption == Mixes \subseteq SUBSET Calls /\ MaxMishaps \in Nat

VARIABLES
  file,       \* what keys.json reads as
  writing,    \* [Processes -> the update of it under way: who, what it read, next step; or None]
  identity,   \* the keychain's item
  cached,     \* [Processes -> cachedIdentity]
  preCache,   \* [Processes -> cachedPreIdentity]
  pending,    \* pendingOrgSetups of the server
  done,       \* registrationDone of the server
  vault,      \* orgs in the vault's file
  call,       \* [Calls -> where it is, and its local variables]
  leader,     \* [Orgs -> the identity the org's keys were sealed to and signed with]
  hub,        \* orgs at the hub
  registered, \* the hub's PRE keys: pairs of an org and a key
  entries,    \* pending-vault entries: [Submits -> their inner and outer device key, or None]
  mishaps,    \* counter for the bound
  acked,      \* history: orgs whose maker was told that all went well
  dropped,    \* history: orgs whose keys only a process had when it was killed, gave up or forgot
  clash,      \* history: two processes were updating the keystore at once
  broken,     \* history: a write of the keystore was cut short
  twice,      \* history: two calls of the server were making a device key at once
  twin,       \* history: two calls were making an identity at once
  replaced    \* history: an identity was replaced with --force

histories == <<acked, dropped, clash, broken, twice, twin, replaced>>
hubside   == <<leader, hub, registered>>
vars == <<file, writing, identity, cached, preCache, pending, done, vault, call, entries,
          hubside, mishaps, histories>>

Stores == [master : SUBSET Orgs, mod : SUBSET Orgs, pre : PreKeys \cup {None},
           device : DeviceKeys \cup {None}]
Empty  == [master |-> {}, mod |-> {}, pre |-> None, device |-> None]
Updates == [by : Calls, read : Stores, step : {"open", "write"}]

ASSUME UpdatesAssumption == None \notin Updates

NewCall_NoOrg(t, at) ==
  [at |-> at, org |-> None, left |-> IF t \in Creates THEN {t} ELSE {}, inner |-> None,
   seen |-> None, asker |-> None]
NewCall(t, at) ==
  [at |-> at, org |-> IF t \in Orgs THEN t ELSE None,
   left |-> IF t \in Creates THEN {t} ELSE {}, inner |-> None, seen |-> None, asker |-> None]

Init ==
  /\ file = Empty /\ writing = [p \in Processes |-> None]
  /\ identity \in {None, FirstId}
  /\ cached = [p \in Processes |-> None] /\ preCache = [p \in Processes |-> None]
  /\ pending = {} /\ done = FALSE /\ vault = {}
  /\ \E made \in Mixes :
        call = [t \in Calls |-> NewCall(t, IF t \in made THEN "new" ELSE "over")]
  /\ leader = [o \in Orgs |-> None] /\ hub = {} /\ registered = {}
  /\ entries = [b \in Submits |-> None]
  /\ mishaps = 0
  /\ acked = {} /\ dropped = {}
  /\ clash = FALSE /\ broken = FALSE /\ twice = FALSE /\ twin = FALSE /\ replaced = FALSE

\* A call runs when it is at a step and its process is not in the middle of a write.
At(t, at)   == call[t].at = at /\ writing[ProcessOf[t]] = None
Over(t)     == [NewCall(t, "over") EXCEPT !.asker = call[t].asker]
GoTo(t, at) == call' = [call EXCEPT ![t] = IF at = "over" THEN Over(t) ELSE [@ EXCEPT !.at = at]]
InServer(t) == ProcessOf[t] = Server
Mishap      == mishaps < MaxMishaps /\ mishaps' = mishaps + 1

-----------------------------------------------------------------------------
(* The identity.                                                           *)

\* loadIdentity
Known_NotCached(p) == identity
Known(p)         == IF cached[p] # None THEN cached[p] ELSE identity
Load(p)          == cached' = [cached EXCEPT ![p] = Known(p)]

\* storeIdentitySeed, by setup_org when there was none and by a command with --force.
StoreIdentity(t) ==
  /\ At(t, "seed")
  /\ identity' = t
  /\ cached' = [cached EXCEPT ![ProcessOf[t]] = None]
  /\ GoTo(t, IF t \in Imports THEN "over" ELSE "new")
  /\ replaced' = (replaced \/ (t \in Imports /\ identity # None))
  /\ UNCHANGED <<file, writing, preCache, pending, done, vault, entries, hubside, mishaps,
                 acked, dropped, clash, broken, twice, twin>>

\* The user's phrase or pairing code is at hand before the seed is stored.
BeginImport(i) ==
  /\ At(i, "new") /\ i \in Imports
  /\ GoTo(i, "seed")
  /\ twin' = (twin \/ \E u \in Calls : call[u].at = "seed")
  /\ UNCHANGED <<file, writing, identity, cached, preCache, pending, done, vault, entries,
                 hubside, mishaps, acked, dropped, clash, broken, twice, replaced>>

\* setup_org makes an identity if there is none.
NeedIdentity(c) ==
  /\ At(c, "new") /\ c \in Creates
  /\ InServer(c) /\ Known(Server) = None
  /\ GoTo(c, "seed")
  /\ twin' = (twin \/ \E u \in Calls : call[u].at = "seed")
  /\ UNCHANGED <<file, writing, identity, cached, preCache, pending, done, vault, entries,
                 hubside, mishaps, acked, dropped, clash, broken, twice, replaced>>

-----------------------------------------------------------------------------
(* Updates of the keystore: read, cut to nothing, written.                 *)

Storing == {"master", "mod", "pre", "newInner", "newOuter"}

Keyed(s, t) ==
  CASE call[t].at = "master"   -> [s EXCEPT !.master = @ \cup {call[t].org}]
    [] call[t].at = "mod"      -> [s EXCEPT !.mod = @ \cup {call[t].org}]
    [] call[t].at = "pre"      -> [s EXCEPT !.pre = t]
    [] call[t].at = "newInner" -> [s EXCEPT !.device = <<t, 1>>]
    [] call[t].at = "newOuter" -> [s EXCEPT !.device = <<t, 2>>]

\* Another process is making the same key, or is writing any.
Clashes(t, ats) ==
  \E u \in Calls : /\ ProcessOf[u] # ProcessOf[t]
                   /\ writing[ProcessOf[u]] # None \/ call[u].at \in ats

BeginPut(t) ==
  /\ call[t].at \in Storing /\ writing[ProcessOf[t]] = None
  /\ writing' = [writing EXCEPT ![ProcessOf[t]] = [by |-> t, read |-> file, step |-> "open"]]
  /\ clash' = (clash \/ Clashes(t, {}))
  /\ UNCHANGED <<file, identity, cached, preCache, pending, done, vault, call, entries, hubside,
                 mishaps, acked, dropped, broken, twice, twin, replaced>>

OpenFile(p) ==
  /\ writing[p] # None /\ writing[p].step = "open"
  /\ file' = Empty
  /\ writing' = [writing EXCEPT ![p].step = "write"]
  /\ UNCHANGED <<identity, cached, preCache, pending, done, vault, call, entries, hubside, mishaps,
                 histories>>

\* Where a call goes on when its key is stored, and what it remembers.
Stored(t) ==
  LET l == call[t] IN
  CASE l.at = "master"   -> IF t \in Recovers THEN Over(t) ELSE [l EXCEPT !.at = "mod"]
    [] l.at = "mod"      -> IF t \in Setups THEN Over(t)
                            ELSE [l EXCEPT !.at = IF InServer(t) THEN "needPre" ELSE "vault"]
    [] l.at = "pre"      -> [l EXCEPT !.at = IF t \in Recalls THEN "memberships" ELSE "register"]
    [] l.at = "newInner" -> [l EXCEPT !.at = "outer", !.inner = <<t, 1>>]
    [] l.at = "newOuter" -> Over(t)

WriteFile(p) ==
  /\ writing[p] # None /\ writing[p].step = "write"
  /\ writing' = [writing EXCEPT ![p] = None]
  /\ LET t  == writing[p].by
         at == call[t].at
     IN /\ file' = Keyed(writing[p].read, t)
        /\ call' = [call EXCEPT ![t] = Stored(t)]
        /\ preCache' = IF at = "pre" THEN [preCache EXCEPT ![p] = t] ELSE preCache
        /\ pending' = IF at = "mod" THEN pending \ {t} ELSE pending
        /\ acked' = IF at = "mod" /\ t \in Setups THEN acked \cup {t} ELSE acked
        /\ entries' = IF at = "newOuter" THEN [entries EXCEPT ![t] = <<call[t].inner, <<t, 2>>>>]
                      ELSE entries
  /\ UNCHANGED <<identity, cached, done, vault, hubside, mishaps, dropped, clash, broken,
                 twice, twin, replaced>>

\* A write fails, before or after the file is cut.  A finalize may be called again;
\* a PRE identity is tried again at once, with another key; any other call ends.
PutFails(p) ==
  /\ Mishap
  /\ writing[p] # None
  /\ LET t == writing[p].by IN
     /\ GoTo(t, IF t \in Setups THEN "created"
                ELSE IF call[t].at = "pre" THEN "pre" ELSE "over")
     /\ dropped' = IF t \in Creates /\ call[t].at \in {"master", "mod"} THEN dropped \cup {t}
                   ELSE dropped
  /\ broken' = (broken \/ writing[p].step = "write")
  /\ writing' = [writing EXCEPT ![p] = None]
  /\ UNCHANGED <<file, identity, cached, preCache, pending, done, vault, entries, hubside,
                 acked, clash, twice, twin, replaced>>

-----------------------------------------------------------------------------
(* Keys made when first needed.                                            *)

\* preIdentityLoadPromise: callers in one process share the key being made.
BeingMade_Ignored(p) == FALSE
BeingMade(p) == \E t \in Calls : ProcessOf[t] = p /\ call[t].at = "pre"

\* getOrCreatePreIdentity
GetPre(t) ==
  /\ At(t, "needPre")
  /\ ~BeingMade(ProcessOf[t])
  /\ LET p == ProcessOf[t]
         key == IF preCache[p] # None THEN preCache[p] ELSE file.pre
     IN /\ preCache' = [preCache EXCEPT ![p] = key]
        /\ GoTo(t, IF key = None THEN "pre" ELSE IF t \in Recalls THEN "memberships" ELSE "register")
  /\ clash' = (clash \/ Clashes(t, {"pre"}))
  /\ UNCHANGED <<file, writing, identity, cached, pending, done, vault, entries, hubside, mishaps,
                 acked, dropped, broken, twice, twin, replaced>>

\* submitMemory: whatever the hub answers, storePendingDek follows, and encrypts twice:
\* what getDeviceKey finds or makes for the inner encryption, it finds again for the outer.
Submit(b) ==
  /\ At(b, "new") /\ b \in Submits
  /\ Known(Server) # None /\ Load(Server)
  /\ GoTo(b, "inner")
  /\ UNCHANGED <<file, writing, identity, preCache, pending, done, vault, entries, hubside, mishaps,
                 histories>>

GetDeviceKey(b) ==
  /\ At(b, "inner") \/ At(b, "outer")
  /\ LET inner == call[b].at = "inner" IN
     IF file.device = None
     THEN /\ GoTo(b, IF inner THEN "newInner" ELSE "newOuter")
          /\ UNCHANGED entries
     ELSE IF inner
     THEN /\ call' = [call EXCEPT ![b].at = "outer", ![b].inner = file.device]
          /\ UNCHANGED entries
     ELSE /\ GoTo(b, "over")
          /\ entries' = [entries EXCEPT ![b] = <<call[b].inner, file.device>>]
  /\ clash' = (clash \/ Clashes(b, {}))
  /\ twice' = (twice \/ \E u \in Calls \ {b} : call[u].at \in {"newInner", "newOuter"})
  /\ UNCHANGED <<file, writing, identity, cached, preCache, pending, done, vault, hubside, mishaps,
                 acked, dropped, broken, twin, replaced>>

-----------------------------------------------------------------------------
(* Orgs set up by a dashboard.                                             *)

\* verifyRequesterIdentity: the dashboard's identity is the one the server loads now.
Verify(s) ==
  /\ At(s, "new") /\ s \in Setups
  /\ Known(Server) # None /\ Load(Server)
  /\ call' = [call EXCEPT ![s].at = "verified", ![s].asker = Known(Server)]
  /\ UNCHANGED <<file, writing, identity, preCache, pending, done, vault, entries, hubside, mishaps,
                 histories>>

\* purgeExpiredOrgSetups: some have expired, as time may have passed.
Purged(gone) == gone \subseteq pending /\ dropped' = dropped \cup gone

\* buildOrgCryptoSetup; the answer has the recovery phrase.
Setup(s) ==
  /\ At(s, "verified")
  /\ Load(Server)
  /\ leader' = [leader EXCEPT ![s] = Known(Server)]
  /\ \E gone \in SUBSET pending : Purged(gone) /\ pending' = (pending \ gone) \cup {s}
  /\ GoTo(s, "given")
  /\ UNCHANGED <<file, writing, identity, preCache, done, vault, entries, hub, registered, mishaps,
                 acked, clash, broken, twice, twin, replaced>>

HubMakes(s) ==
  /\ call[s].at = "given"
  /\ hub' = hub \cup {s}
  /\ GoTo(s, "created")
  /\ UNCHANGED <<file, writing, identity, cached, preCache, pending, done, vault, entries, leader,
                 registered, mishaps, histories>>

\* Unknown and expired setups are refused.  The keys of others are stored, and stay
\* pending until that is done.
Left_Without(s, setups) == setups \ {s}
Left(s, setups) == setups
Finalize(s) ==
  /\ At(s, "created")
  /\ \E gone \in SUBSET pending :
        /\ Purged(gone) /\ pending' = Left(s, pending \ gone)
        /\ GoTo(s, IF s \in pending \ gone THEN "master" ELSE "over")
  /\ UNCHANGED <<file, writing, identity, cached, preCache, done, vault, entries, hubside, mishaps,
                 acked, clash, broken, twice, twin, replaced>>

-----------------------------------------------------------------------------
(* Orgs made by one call.                                                  *)

\* A command has the vault open when its passphrase is in the keychain.
Build(c) ==
  /\ At(c, "new") /\ c \in Creates
  /\ LET p == ProcessOf[c] IN
     /\ Known(p) # None /\ Load(p)
     /\ leader' = [leader EXCEPT ![c] = Known(p)]
     /\ \E seen \in {None, vault} :
           /\ InServer(c) => seen = None
           /\ call' = [call EXCEPT ![c].at = "post", ![c].seen = seen]
  /\ UNCHANGED <<file, writing, identity, preCache, pending, done, vault, entries, hub, registered,
                 mishaps, histories>>

\* The hub makes the org; its answer may be lost or lack the id.
Post(c) ==
  /\ At(c, "post")
  /\ hub' = hub \cup {c}
  /\ \/ GoTo(c, "master") /\ UNCHANGED <<dropped, mishaps>>
     \/ GoTo(c, "over") /\ dropped' = dropped \cup {c} /\ Mishap
  /\ UNCHANGED <<file, writing, identity, cached, preCache, pending, done, vault, entries, leader,
                 registered, acked, clash, broken, twice, twin, replaced>>

\* The recovery phrase is shown if the master key is found in the keystore.
Acked(t) == IF t \in file.master THEN acked \cup {t} ELSE acked

\* addOrgToVault: the vault as this process knows it replaces the file; errors are ignored.
SaveVault(c) ==
  /\ At(c, "vault")
  /\ \/ call[c].seen = None /\ UNCHANGED <<vault, mishaps>>
     \/ call[c].seen # None /\ vault' = call[c].seen \cup {c} /\ UNCHANGED mishaps
     \/ call[c].seen # None /\ Mishap /\ UNCHANGED vault
  /\ acked' = Acked(c)
  /\ GoTo(c, "over")
  /\ UNCHANGED <<file, writing, identity, cached, preCache, pending, done, entries, hubside,
                 dropped, clash, broken, twice, twin, replaced>>

-----------------------------------------------------------------------------
(* PRE keys at the hub, and recovery.                                      *)

\* provisionRecall begins with the org's master key.
Provision(v) ==
  /\ At(v, "new") /\ v \in Provisions
  /\ \E o \in Orgs :
        call' = IF o \in file.master
                THEN [call EXCEPT ![v].at = "needPre", ![v].org = o, ![v].left = {o}]
                ELSE [call EXCEPT ![v] = Over(v)]
  /\ UNCHANGED <<file, writing, identity, cached, preCache, pending, done, vault, entries, hubside,
                 mishaps, histories>>

\* ensureIdentity: the first one registers, and a later one does when that threw.
EnsureIdentity(r) ==
  /\ At(r, "new") /\ r \in Recalls
  /\ Known(Server) # None /\ Load(Server)
  /\ done' = TRUE
  /\ GoTo(r, IF done THEN "over" ELSE "needPre")
  /\ UNCHANGED <<file, writing, identity, preCache, pending, vault, entries, hubside, mishaps,
                 histories>>

LoadMemberships(r) ==
  /\ At(r, "memberships")
  /\ \/ LET orgs == {o \in hub : leader[o] = Known(Server)} IN
        /\ call' = [call EXCEPT ![r] = IF orgs = {} THEN Over(r)
                                       ELSE [@ EXCEPT !.left = orgs, !.at = "register"]]
        /\ UNCHANGED <<done, mishaps>>
     \/ done' = FALSE /\ GoTo(r, "over") /\ Mishap
  /\ UNCHANGED <<file, writing, identity, cached, preCache, pending, vault, entries, hubside,
                 histories>>

\* registerPrePubkey, for each membership, or for the one org of the call.  The hub
\* takes keys of members.  A failure is an answer and no exception, whoever calls.
Register(t) ==
  /\ At(t, "register")
  /\ Load(ProcessOf[t])
  /\ \E o \in call[t].left, ok \in BOOLEAN :
        /\ ok => o \in hub /\ leader[o] = Known(ProcessOf[t])
        /\ registered' = IF ok THEN registered \cup {<<o, preCache[ProcessOf[t]]>>} ELSE registered
        /\ call' = IF call[t].left = {o} THEN [call EXCEPT ![t] = Over(t)]
                   ELSE [call EXCEPT ![t].left = @ \ {o}]
        /\ IF ok \/ o \notin hub \/ leader[o] # Known(ProcessOf[t])
           THEN UNCHANGED mishaps ELSE Mishap
  /\ acked' = IF t \in Creates THEN Acked(t) ELSE acked
  /\ UNCHANGED <<file, writing, identity, preCache, pending, done, vault, entries, leader, hub,
                 dropped, clash, broken, twice, twin, replaced>>

\* recover-org, with the phrase that was shown when the org was made.
Recover(x) ==
  /\ At(x, "new") /\ x \in Recovers
  /\ \E o \in Orgs :
        /\ o \in acked \/ (o \in Setups /\ leader[o] # None)
        /\ call' = [call EXCEPT ![x].at = "master", ![x].org = o]
  /\ UNCHANGED <<file, writing, identity, cached, preCache, pending, done, vault, entries, hubside,
                 mishaps, histories>>

-----------------------------------------------------------------------------
\* A call ends before it changed anything: no identity, a prompt denied, the hub refuses.
Refused(t) ==
  /\ \/ At(t, "new") \/ At(t, "seed") \/ At(t, "verified") \/ At(t, "post")
  /\ GoTo(t, "over")
  /\ UNCHANGED <<file, writing, identity, cached, preCache, pending, done, vault, entries, hubside,
                 mishaps, histories>>

\* A process is killed; the server starts again.  What it had in memory is lost; a
\* dashboard goes on from where it was.
Kill(p) ==
  /\ Mishap
  /\ p # Server => \E t \in Calls : ProcessOf[t] = p /\ call[t].at \notin {"new", "over"}
  /\ call' = [t \in Calls |->
       IF ProcessOf[t] # p \/ call[t].at \in {"new", "over", "given", "created"} THEN call[t]
       ELSE IF t \in Setups \cap hub THEN [call[t] EXCEPT !.at = "created"] ELSE Over(t)]
  /\ dropped' = dropped \cup (IF p = Server THEN pending ELSE {})
                        \cup {c \in Creates : ProcessOf[c] = p /\ call[c].at \in {"master", "mod"}}
  /\ pending' = IF p = Server THEN {} ELSE pending
  /\ done' = (done /\ p # Server)
  /\ cached' = [cached EXCEPT ![p] = None] /\ preCache' = [preCache EXCEPT ![p] = None]
  /\ broken' = (broken \/ (writing[p] # None /\ writing[p].step = "write"))
  /\ writing' = [writing EXCEPT ![p] = None]
  /\ UNCHANGED <<file, identity, vault, entries, hubside, acked, clash,
                 twice, twin, replaced>>

Next ==
  \/ \E t \in Calls :
       \/ BeginImport(t) \/ NeedIdentity(t) \/ StoreIdentity(t)
       \/ BeginPut(t) \/ GetPre(t) \/ Submit(t) \/ GetDeviceKey(t)
       \/ Verify(t) \/ Setup(t) \/ HubMakes(t) \/ Finalize(t)
       \/ Build(t) \/ Post(t) \/ SaveVault(t)
       \/ Provision(t) \/ EnsureIdentity(t) \/ LoadMemberships(t) \/ Register(t)
       \/ Recover(t) \/ Refused(t)
  \/ \E p \in Processes : OpenFile(p) \/ WriteFile(p) \/ PutFails(p) \/ Kill(p)

Spec == Init /\ [][Next]_vars

-----------------------------------------------------------------------------
Steps == {"new", "seed", "verified", "given", "created", "post", "master", "mod", "vault",
          "needPre", "pre", "memberships", "register", "inner", "newInner", "outer", "newOuter",
          "over"}

\* Every variable has its type, and a call what its step needs: an org to store keys
\* of, a PRE key and orgs to register it with, the device key of an entry half encrypted.
TypeOK ==
  /\ file \in Stores
  /\ \A p \in Processes :
        writing[p] # None =>
          /\ writing[p] \in Updates
          /\ ProcessOf[writing[p].by] = p /\ call[writing[p].by].at \in Storing
  /\ identity \in Identities \cup {None}
  /\ cached \in [Processes -> Identities \cup {None}]
  /\ preCache \in [Processes -> PreKeys \cup {None}]
  /\ pending \subseteq Setups /\ done \in BOOLEAN /\ vault \subseteq Creates
  /\ \A t \in Calls : LET l == call[t] IN
        /\ l.at \in Steps /\ l.org \in Orgs \cup {None} /\ l.left \subseteq Orgs
        /\ l.inner \in DeviceKeys \cup {None} /\ l.asker \in Identities \cup {None}
        /\ l.seen = None \/ l.seen \subseteq Creates
        /\ l.at \in {"master", "mod"} => l.org # None
        /\ l.at = "register" => l.left # {} /\ preCache[ProcessOf[t]] # None
        /\ l.at \in {"outer", "newOuter"} => l.inner # None
  /\ leader \in [Orgs -> Identities \cup {None}] /\ hub \subseteq Orgs
  /\ registered \subseteq Orgs \X PreKeys
  /\ entries \in [Submits -> (DeviceKeys \X DeviceKeys) \cup {None}]
  /\ mishaps \in 0 .. MaxMishaps
  /\ acked \subseteq Orgs /\ dropped \subseteq Orgs
  /\ {clash, broken, twice, twin, replaced} \subseteq BOOLEAN

\* The keystore is whole, and no two processes were writing it and no write was cut.
Undisturbed ==
  ~clash /\ ~broken /\ \A p \in Processes : writing[p] # None => writing[p].step = "open"

\* What others rely on is in the keystore: the keys of orgs whose makers were told so
\* and of those in the vault, the PRE key the hub has and processes use, and the
\* device key of entries, if no two submissions made one at once.
KeysKept ==
  Undisturbed =>
    /\ acked \subseteq file.master \cap file.mod /\ vault \subseteq file.master
    /\ \A r \in registered : r[2] = file.pre
    /\ \A p \in Processes : preCache[p] \in {None, file.pre}
    /\ ~twice => \A b \in Submits :
                   entries[b] # None => entries[b] = <<file.device, file.device>>

\* The keys of every org at the hub are in the keystore, or can still be stored: a
\* setup is kept until finalize has succeeded, however often it failed.  Only an
\* expiry, a killed process and a lost answer or failed write of createOrg undo that.
KeysSomewhere ==
  Undisturbed =>
    \A o \in hub : \/ o \in file.master \cap file.mod
                   \/ o \in pending \cup dropped
                   \/ o \in Creates /\ call[o].at \in {"master", "mod"}

\* Unless two identities were made at once, the org a dashboard asked for is led by the
\* identity that asked, although identities are replaced between the check and the
\* signature, and every org by the identity stored, if none was replaced by force.
LeadersKnown ==
  ~twin =>
    /\ \A s \in Setups \cap hub : leader[s] = call[s].asker
    /\ ~replaced => \A o \in hub : leader[o] = identity
=============================================================================
