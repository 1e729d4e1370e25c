------------------------------ MODULE HubAccess ------------------------------
(***************************************************************************)
(* How a recall finds its hub and trusts the answers.                      *)
(*                                                                         *)
(* The chain says which endpoints serve an org and with which key their    *)
(* answers are signed.  resolveAllOrgsOnce (src/hub-resolver.ts), run as   *)
(* `wevibe-admin resolve-endpoints`, copies that into identity.json, the   *)
(* sidecar.  A recall in the server (src/retrieve-cli.ts) starts from the  *)
(* endpoint noted there as active, verifies every answer with the key      *)
(* noted (src/hub-fetch.ts), and on a bad signature moves on to another    *)
(* endpoint, once, and notes that one as active; but the org's keys and    *)
(* keywords, which it can do without, it asks for once only.  Other        *)
(* commands write other fields.  An update of the sidecar reads the file,  *)
(* patches it and renames a new one over it (src/identity-sidecar.ts):     *)
(* without a pause within one process, but several processes do it.        *)
(*                                                                         *)
(* One org.  Endpoints are probed in order until one is healthy, and the   *)
(* first is taken if none is; any of them may be down, so any may come     *)
(* out, and a list of endpoints is modelled as a set.                      *)
(***************************************************************************)
EXTENDS Integers, FiniteSets

CONSTANTS
  Hubs,        \* endpoints
  HubUrl,      \* HUB_URL, the configured one
  Liars,       \* hubs that sign with a key of their own
  LastVersion, \* bound: how often the org's record on the chain changes
  ListOf,      \* [1 .. LastVersion -> the endpoints of that version of the record]
  KeyOf,       \* [1 .. LastVersion -> its key]
  ForgedKey,   \* what liars sign with
  Recalls,     \* calls of retrieve in the server
  Resolvers,   \* runs of resolve-endpoints, a process each
  Server, Command, \* the processes of the recalls and of another command
  None,
  Memories,    \* requests of a recall after its query
  MaxFaults, MaxRestarts \* bounds: requests and writes that fail, restarts of the server

Versions  == 1 .. LastVersion
Processes == Resolvers \cup {Server, Command}
Keys      == {KeyOf[v] : v \in Versions} \cup {ForgedKey}

ASSUME HubsAssumption ==
  IsFiniteSet(Hubs) /\ HubUrl \in Hubs /\ Liars \subseteq Hubs /\ None \notin Hubs
ASSUME RecordsAssumption ==
  /\ LastVersion \in Nat \ {0}
  /\ ListOf \in [Versions -> SUBSET Hubs] /\ DOMAIN KeyOf = Versions
  /\ \A v \in Versions : KeyOf[v] \notin {ForgedKey, None} /\ None # ForgedKey
  /\ \A v, w \in Versions : ListOf[v] = ListOf[w] /\ KeyOf[v] = KeyOf[w] => v = w
ASSUME ProcessesAssumption ==
  Server # Command /\ Server \notin Resolvers /\ Command \notin Resolvers
ASSUME BoundsAssumption == Memories \in Nat /\ MaxFaults \in Nat /\ MaxRestarts \in Nat

VARIABLES
  version, \* the org's record on the chain
  sidecar, \* identity.json: the org's state, and one of the other fields
  writing, \* [Processes -> the update of the sidecar it is in the middle of, or None]
  recall,  \* [Recalls -> where the call is, and its local variables]
  hubKey,  \* hubResponsePubkeyCache of HUB_URL: a key, "pending" or None
  resolve, \* [Resolvers -> where it is, and its local variables]
  faults, restarts, \* counters for the bounds
  ideal,   \* history: the sidecar, had every update been made in one step
  overlap, \* history: two processes were updating it at once
  raced,   \* history: endpoints were replaced while a recall was choosing one
  crossed, \* history: two resolutions were under way at once
  stale,   \* history: recalls during which the sidecar was behind the chain
  unnoted  \* history: recalls whose failover could not write the sidecar

histories == <<ideal, overlap, raced, crossed, stale, unnoted>>
vars == <<version, sidecar, writing, recall, hubKey, resolve, faults, restarts, histories>>

\* An org's state: the version of the record it was copied from, which stands for
\* hubEndpoints and hubResponsePubkey (0: it has none), and activeHubEndpoint.
OrgStates    == [version : 0 .. LastVersion, active : Hubs \cup {None}]
VersionIn(o) == IF o = None THEN 0 ELSE o.version
Endpoints(o) == IF VersionIn(o) = 0 THEN {} ELSE ListOf[o.version]
KeyIn(o)     == IF VersionIn(o) = 0 THEN None ELSE KeyOf[o.version]
ActiveIn(o)  == IF o = None THEN None ELSE o.active

ASSUME NoneAssumption == None \notin OrgStates

\* The key a hub signs an answer with now.
SignKey(h) == IF h \in Liars THEN ForgedKey ELSE KeyOf[version]

\* The local variables of a call that has not begun, or has ended.
NewRecall  == [at |-> "new", hub |-> None, trying |-> None, again |-> FALSE, key |-> None,
               others |-> {}, left |-> Memories + 2, refused |-> FALSE]
Ended(l)   == [NewRecall EXCEPT !.at = "over", !.refused = l.refused]
NewResolve == [at |-> "new", version |-> 0, current |-> None]
Resolved   == [NewResolve EXCEPT !.at = "over"]

Init ==
  /\ version = 1
  /\ sidecar \in [org : {None} \cup [version : {1}, active : ListOf[1]], other : {"old"}]
  /\ writing = [p \in Processes |-> None]
  /\ recall = [r \in Recalls |-> NewRecall]
  /\ hubKey = None
  /\ resolve = [c \in Resolvers |-> NewResolve]
  /\ faults = 0 /\ restarts = 0
  /\ ideal = sidecar
  /\ overlap = FALSE /\ raced = FALSE /\ crossed = FALSE /\ stale = {} /\ unnoted = {}

-----------------------------------------------------------------------------
(* The requests of a recall.                                               *)

\* Of the requests of a recall, l.left are still to come after the present one: first
\* the org's keys, of HUB_URL, then its keywords, of the active endpoint, then the
\* query, then the memories.  The next goes to h, where the present one ended up.
ActiveHub == IF ActiveIn(sidecar.org) = None THEN HubUrl ELSE ActiveIn(sidecar.org)
NextRequest(l, h) ==
  IF l.left = 0 THEN Ended(l)
  ELSE LET hub == IF l.left = Memories + 2 THEN ActiveHub ELSE h IN
       [l EXCEPT !.at = "ask", !.hub = hub, !.trying = hub, !.again = FALSE, !.key = None,
                 !.left = @ - 1]

\* A request comes to nothing: without its query a recall is over, but a memory that
\* cannot be had is only left out.
GivesUp(l) == IF l.left = Memories THEN Ended(l) ELSE NextRequest(l, l.hub)

-----------------------------------------------------------------------------
(* Updates of the sidecar, each three steps of its process.  One that fails *)
(* changes nothing.                                                         *)

Underway == {r \in Recalls : recall[r].at \notin {"new", "over"}}
Behind(o) == VersionIn(o) \notin {0, version}

\* A patch sets an org's whole state (resolution), its active endpoint (failover) or
\* another field (Command).
Patched_KeepsActive(s, patch) ==
  IF patch.sets = "other" THEN [s EXCEPT !.other = "new"]
  ELSE [s EXCEPT !.org =
    [version |-> IF patch.sets = "org" THEN patch.org.version ELSE VersionIn(s.org),
     active  |-> IF patch.sets = "org" /\ ActiveIn(s.org) # None THEN ActiveIn(s.org)
                 ELSE patch.org.active]]
Patched_DropsRest(s, patch) ==
  IF patch.sets = "other" THEN [s EXCEPT !.other = "new"] ELSE [s EXCEPT !.org = patch.org]
Patched(s, patch) ==
  IF patch.sets = "other" THEN [s EXCEPT !.other = "new"]
  ELSE [s EXCEPT !.org =
    [version |-> IF patch.sets = "org" THEN patch.org.version ELSE VersionIn(s.org),
     active  |-> patch.org.active]]

\* setOrgHubState reads the orgs and patches them; writeIdentitySidecar reads the
\* file again for the rest.
BeginWrite_OverDefaults(p, patch) ==
  /\ writing' = [writing EXCEPT ![p] =
       [patch |-> patch, read |-> Patched([org |-> None, other |-> "old"], patch),
        step |-> IF patch.sets = "other" THEN "rename" ELSE "rest"]]
  /\ overlap' = (overlap \/ \E q \in Processes : writing[q] # None)
BeginWrite(p, patch) ==
  /\ writing' = [writing EXCEPT ![p] =
       [patch |-> patch, read |-> Patched(sidecar, patch),
        step |-> IF patch.sets = "other" THEN "rename" ELSE "rest"]]
  /\ overlap' = (overlap \/ \E q \in Processes : writing[q] # None)

ReadRest(p) ==
  /\ writing[p] # None /\ writing[p].step = "rest"
  /\ writing' = [writing EXCEPT ![p] =
       [patch |-> @.patch, read |-> [org |-> @.read.org, other |-> sidecar.other], step |-> "rename"]]
  /\ UNCHANGED <<version, sidecar, recall, hubKey, resolve, faults, restarts, histories>>

\* The new file is renamed over the old one.
Rename(p) ==
  /\ writing[p] # None /\ writing[p].step = "rename"
  /\ sidecar' = writing[p].read
  /\ writing' = [writing EXCEPT ![p] = None]
  /\ ideal' = Patched(ideal, writing[p].patch)
  /\ raced' = (raced \/ /\ Endpoints(sidecar'.org) # Endpoints(sidecar.org)
                        /\ \E r \in Recalls : recall[r].at = "probe")
  /\ stale' = stale \cup (IF Behind(sidecar'.org) THEN Underway ELSE {})
  /\ recall' = [r \in Recalls |-> IF p = Server /\ recall[r].at = "note"
                                  THEN [recall[r] EXCEPT !.at = "ask"] ELSE recall[r]]
  /\ resolve' = [c \in Resolvers |-> IF p = c THEN Resolved ELSE resolve[c]]
  /\ UNCHANGED <<version, hubKey, faults, restarts, overlap, crossed, unnoted>>

\* The new file cannot be written, and the old one stays.  A resolution passes the org
\* over; a failover throws, and with it the request it was for.
WriteFails(p) ==
  /\ writing[p] # None /\ writing[p].step = "rename"
  /\ faults < MaxFaults /\ faults' = faults + 1
  /\ writing' = [writing EXCEPT ![p] = None]
  /\ recall' = [r \in Recalls |-> IF p = Server /\ recall[r].at = "note"
                                  THEN GivesUp([recall[r] EXCEPT !.refused = TRUE]) ELSE recall[r]]
  /\ unnoted' = unnoted \cup {r \in Recalls : p = Server /\ recall[r].at = "note"}
  /\ resolve' = [c \in Resolvers |-> IF p = c THEN Resolved ELSE resolve[c]]
  /\ UNCHANGED <<version, sidecar, hubKey, restarts, ideal, overlap, raced, crossed, stale>>

\* Another command (pairing, setup-identity) updates a field of its own.
RunCommand ==
  /\ writing[Command] = None /\ sidecar.other = "old" /\ ideal.other = "old"
  /\ BeginWrite(Command, [sets |-> "other", org |-> None])
  /\ UNCHANGED <<version, sidecar, recall, hubKey, resolve, faults, restarts, ideal, raced, crossed, stale, unnoted>>

-----------------------------------------------------------------------------
(* Resolution.                                                             *)

\* The org is resolved when the sidecar has it or, with includeMembershipBootstrap,
\* when the hub lists it.
StartResolve(c) ==
  /\ resolve[c].at = "new"
  /\ \E bootstrap \in BOOLEAN :
       resolve' = [resolve EXCEPT ![c] =
         IF sidecar.org # None \/ bootstrap THEN [@ EXCEPT !.at = "query"] ELSE Resolved]
  /\ crossed' = (crossed \/ \E d \in Resolvers : resolve[d].at \notin {"new", "over"})
  /\ UNCHANGED <<version, sidecar, writing, recall, hubKey, faults, restarts, ideal, overlap, raced, stale, unnoted>>

\* The chain answers, or does not and the org is passed over; the current state is
\* read at once.
QueryChain(c) ==
  /\ resolve[c].at = "query"
  /\ \/ resolve' = [resolve EXCEPT ![c] = [at |-> "probe", version |-> version, current |-> sidecar.org]]
     \/ resolve' = [resolve EXCEPT ![c] = Resolved]
  /\ UNCHANGED <<version, sidecar, writing, recall, hubKey, faults, restarts, histories>>

\* What pickActiveEndpoint may come out with.
Picks(list) == IF list = {} THEN {None} ELSE list

\* The endpoints have been probed; the state is set unless it is the one read before.
SetResolved(c) ==
  /\ resolve[c].at = "probe"
  /\ \E h \in Picks(ListOf[resolve[c].version]) :
       LET org == [version |-> resolve[c].version, active |-> h] IN
       IF org = resolve[c].current
       THEN /\ resolve' = [resolve EXCEPT ![c] = Resolved]
            /\ UNCHANGED <<writing, overlap>>
       ELSE /\ resolve' = [resolve EXCEPT ![c] = [NewResolve EXCEPT !.at = "write"]]
            /\ BeginWrite(c, [sets |-> "org", org |-> org])
  /\ UNCHANGED <<version, sidecar, recall, hubKey, faults, restarts, ideal, raced, crossed, stale, unnoted>>

Resolve(c) == StartResolve(c) \/ QueryChain(c) \/ SetResolved(c)

-----------------------------------------------------------------------------
(* Recalls.  Updating the sidecar holds up the whole server.               *)

Goes(r, at) == recall[r].at = at /\ writing[Server] = None
AtHub  == <<version, sidecar, resolve, restarts, ideal, raced, crossed, unnoted>>

\* loadMemberships needs the key HUB_URL reports of itself; the first call asks for
\* it, and calls meanwhile wait for the same answer.
Begin(r) ==
  /\ Goes(r, "new")
  /\ recall' = [recall EXCEPT ![r] = [@ EXCEPT !.at = "members"]]
  /\ hubKey' = IF hubKey = None THEN "pending" ELSE hubKey
  /\ stale' = stale \cup (IF Behind(sidecar.org) THEN {r} ELSE {})
  /\ UNCHANGED <<AtHub, writing, faults, overlap>>

HubKeyArrives ==
  /\ hubKey = "pending" /\ writing[Server] = None
  /\ \/ hubKey' = SignKey(HubUrl) /\ UNCHANGED <<recall, faults>>
     \/ /\ faults < MaxFaults /\ faults' = faults + 1
        /\ hubKey' = None
        /\ recall' = [r \in Recalls |-> IF recall[r].at = "members"
                                        THEN Ended(recall[r]) ELSE recall[r]]
  /\ UNCHANGED <<AtHub, writing, overlap, stale>>

\* The memberships must be signed with that key, however long ago it was reported;
\* then the same hub is asked for the org's keys.
LoadMemberships(r) ==
  /\ Goes(r, "members") /\ hubKey \in Keys
  /\ recall' = [recall EXCEPT ![r] =
       IF SignKey(HubUrl) = hubKey
       THEN [@ EXCEPT !.at = "ask", !.hub = HubUrl, !.trying = HubUrl] ELSE Ended(@)]
  /\ UNCHANGED <<AtHub, writing, hubKey, faults, overlap, stale>>

\* The org's keys and keywords are asked for once: whether the answer comes and verifies
\* or not, the recall goes on with what it has.
HasFailover(l) == l.left <= Memories
AskOnce(r) ==
  /\ Goes(r, "ask") /\ ~HasFailover(recall[r])
  /\ recall' = [recall EXCEPT ![r] = NextRequest(@, @.hub)]
  /\ UNCHANGED <<AtHub, writing, hubKey, faults, overlap, stale>>

\* The hub answers, with a signature.
HubAnswers(r) ==
  /\ Goes(r, "ask") /\ HasFailover(recall[r])
  /\ recall' = [recall EXCEPT ![r] = [@ EXCEPT !.at = "answered", !.key = SignKey(recall[r].trying)]]
  /\ UNCHANGED <<AtHub, writing, hubKey, faults, overlap, stale>>

RequestFails(r) ==
  /\ Goes(r, "ask") /\ HasFailover(recall[r]) /\ faults < MaxFaults
  /\ faults' = faults + 1
  /\ recall' = [recall EXCEPT ![r] = GivesUp(@)]
  /\ UNCHANGED <<AtHub, writing, hubKey, overlap, stale>>

\* hubFetchVerified: the key is looked up when the answer is there; no key, no check.
Verified(r) == KeyIn(sidecar.org) \in {None, recall[r].key}

\* failoverAfterSignatureFailure, once per request, to any endpoint but the failed one.
Others_WithFailed(r) == Endpoints(sidecar.org)
Others(r) == Endpoints(sidecar.org) \ {recall[r].trying}

Verify(r) ==
  /\ Goes(r, "answered")
  /\ recall' = [recall EXCEPT ![r] =
       IF Verified(r) THEN NextRequest(@, @.trying)
       ELSE IF ~@.again /\ Others(r) # {} THEN [@ EXCEPT !.at = "probe", !.key = None, !.others = Others(r)]
       ELSE GivesUp([@ EXCEPT !.refused = TRUE])]
  /\ UNCHANGED <<AtHub, writing, hubKey, faults, overlap, stale>>

\* The other endpoints have been probed; the one picked is noted and asked.
Switch(r) ==
  /\ Goes(r, "probe")
  /\ \E h \in recall[r].others :
       /\ recall' = [recall EXCEPT ![r] =
            [@ EXCEPT !.at = "note", !.trying = h, !.again = TRUE, !.others = {}]]
       /\ BeginWrite(Server, [sets |-> "active", org |-> [version |-> 0, active |-> h]])
  /\ UNCHANGED <<AtHub, hubKey, faults, stale>>

Recall(r) == \/ Begin(r) \/ LoadMemberships(r) \/ AskOnce(r) \/ HubAnswers(r)
             \/ RequestFails(r) \/ Verify(r) \/ Switch(r)

\* The server is killed and started again: its calls and its cache are gone.
Restart ==
  /\ restarts < MaxRestarts /\ Underway # {}
  /\ restarts' = restarts + 1
  /\ recall' = [r \in Recalls |-> IF r \in Underway THEN Ended(recall[r]) ELSE recall[r]]
  /\ hubKey' = None
  /\ writing' = [writing EXCEPT ![Server] = None]
  /\ UNCHANGED <<version, sidecar, resolve, faults, histories>>

\* The org's record on the chain is changed; the hubs sign with the new key.
Publish ==
  /\ version < LastVersion
  /\ version' = version + 1
  /\ stale' = stale \cup Underway
  /\ UNCHANGED <<sidecar, writing, recall, hubKey, resolve, faults, restarts, ideal, overlap, raced, crossed, unnoted>>

Next ==
  \/ \E r \in Recalls : Recall(r)
  \/ \E c \in Resolvers : Resolve(c)
  \/ \E p \in Processes : ReadRest(p) \/ Rename(p) \/ WriteFails(p)
  \/ HubKeyArrives \/ RunCommand \/ Restart \/ Publish

Spec == Init /\ [][Next]_vars
-----------------------------------------------------------------------------
(* Properties. *)

\* The variables hold values of their types.
TypeOK ==
  /\ version \in Versions
  /\ sidecar \in [org : OrgStates \cup {None}, other : {"old", "new"}]
  /\ ideal \in [org : OrgStates \cup {None}, other : {"old", "new"}]
  /\ \A p \in Processes : writing[p] # None =>
       /\ writing[p].step \in {"rest", "rename"}
       /\ writing[p].read \in [org : OrgStates \cup {None}, other : {"old", "new"}]
  /\ recall \in [Recalls -> [at : {"new", "members", "ask", "answered", "probe", "note", "over"},
       hub : Hubs \cup {None}, trying : Hubs \cup {None}, again : BOOLEAN, key : Keys \cup {None},
       others : SUBSET Hubs, left : 0 .. Memories + 2, refused : BOOLEAN]]
  /\ hubKey \in Keys \cup {None, "pending"}
  /\ resolve \in [Resolvers -> [at : {"new", "query", "probe", "write", "over"},
       version : 0 .. LastVersion, current : OrgStates \cup {None}]]
  /\ faults \in Nat /\ restarts \in Nat
  /\ {overlap, raced, crossed} \subseteq BOOLEAN /\ stale \subseteq Recalls /\ unnoted \subseteq Recalls

(* Unless two processes update the sidecar at the same time, no update is   *)
(* lost and none brings back what another replaced, though every process    *)
(* decides what to write from an older reading of the file.                 *)
SidecarAsIfAtomic == ~overlap => sidecar = ideal

(* The active endpoint is one the noted record lists, so that a recall does *)
(* not go to a hub the org has left; except when the list was replaced      *)
(* while a failover was probing endpoints of the old one.                   *)
ActiveIsListed ==
  ~raced => ActiveIn(sidecar.org) \in Endpoints(sidecar.org) \cup {None}

(* One hub that signs wrongly costs no recall its query or a memory as long *)
(* as the org lists another hub, the sidecar keeps up with the chain and    *)
(* the failover can be written to it.  Keys and keywords it may cost.       *)
OneLiarIsSurvived ==
  Cardinality(Liars) <= 1 /\ (\A v \in Versions : Cardinality(ListOf[v]) >= 2) =>
    \A r \in Recalls : recall[r].refused => r \in stale \cup unnoted

(* The sidecar goes back to an older record only when two resolutions, or   *)
(* two updates of the file, were under way at once.                         *)
NeverOlder ==
  [][~(overlap' \/ crossed') => VersionIn(sidecar'.org) >= VersionIn(sidecar.org)]_vars
=============================================================================
