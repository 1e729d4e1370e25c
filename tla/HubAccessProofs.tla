--------------------------- MODULE HubAccessProofs ---------------------------
(***************************************************************************)
(* Proofs about HubAccess.                                                 *)
(*                                                                         *)
(* The invariant says of every update in progress what it will write, as   *)
(* long as no other process got in between (Undisturbed), of every         *)
(* resolution and failover that what it found out is not behind the        *)
(* sidecar (NotBehind, Listing), and whose updates are which (Owners).     *)
(* Of a recall that the chain has not overtaken, and whose failover could  *)
(* be written, it says that the hub it tries the second time is not the    *)
(* one that lied (Honest).                                                 *)
(***************************************************************************)
EXTENDS HubAccess, FiniteSetTheorems, TLAPS

Sidecars == [org : OrgStates \cup {None}, other : {"old", "new"}]
Patches  == [sets : {"org", "active"}, org : OrgStates] \cup [sets : {"other"}, org : {None}]
Updates  == [patch : Patches, read : Sidecars, step : {"rest", "rename"}]
Locals   == [at : {"new", "members", "ask", "answered", "probe", "note", "over"},
             hub : Hubs \cup {None}, trying : Hubs \cup {None}, again : BOOLEAN,
             key : Keys \cup {None}, others : SUBSET Hubs, left : 0 .. Memories + 2,
             refused : BOOLEAN]
Findings == [at : {"new", "query", "probe", "write", "over"},
             version : 0 .. LastVersion, current : OrgStates \cup {None}]

WritingOK == writing \in [Processes -> Updates \cup {None}]

\* A resolution that is probing has a record of the chain.
Asked == \A c \in Resolvers : resolve[c].at = "probe" =>
           resolve[c].version \in Versions /\ resolve[c].version <= version

\* Who updates what, and that nobody is ahead of the chain.
Owners ==
  /\ \A p \in Processes : writing[p] # None =>
       /\ p \in Resolvers => writing[p].patch.sets = "org" /\ resolve[p].at = "write"
       /\ p = Server => writing[p].patch.sets = "active"
       /\ p = Command => writing[p].patch.sets = "other"
       /\ writing[p].patch.sets = "other" => writing[p].step = "rename"
  /\ VersionIn(sidecar.org) <= version
  /\ \A p \in Processes : writing[p] # None => VersionIn(writing[p].read.org) <= version

\* With one writer at a time, what it writes is its patch of the file as it is.
Undisturbed ==
  ~overlap =>
    /\ sidecar = ideal
    /\ \A p, q \in Processes : writing[p] # None /\ writing[q] # None => p = q
    /\ \A p \in Processes : writing[p] # None =>
         /\ writing[p].read.org = Patched(sidecar, writing[p].patch).org
         /\ writing[p].step = "rename" => writing[p].read = Patched(sidecar, writing[p].patch)

Listed(o) == ActiveIn(o) \in Endpoints(o) \cup {None}

Listing ==
  ~raced =>
    /\ Listed(sidecar.org)
    /\ \A p \in Processes : writing[p] # None => Listed(writing[p].read.org)
    /\ \A r \in Recalls : recall[r].at = "probe" => recall[r].others \subseteq Endpoints(sidecar.org)

Alone ==
  ~crossed => \A c, d \in Resolvers :
    resolve[c].at \notin {"new", "over"} /\ resolve[d].at \notin {"new", "over"} => c = d

NotBehind ==
  ~overlap /\ ~crossed =>
    /\ \A c \in Resolvers : resolve[c].at = "probe" => resolve[c].version >= VersionIn(sidecar.org)
    /\ \A p \in Processes : writing[p] # None =>
         VersionIn(writing[p].read.org) >= VersionIn(sidecar.org)

Typed == TypeOK /\ WritingOK
Inv   == Typed /\ Asked /\ Owners /\ Undisturbed /\ Listing /\ Alone /\ NotBehind

-----------------------------------------------------------------------------
(* Types. *)

LEMMA VersionInType ==
  ASSUME NEW o \in OrgStates \cup {None}
  PROVE  VersionIn(o) \in 0 .. LastVersion
BY RecordsAssumption DEF OrgStates, VersionIn

LEMMA EndpointsType ==
  ASSUME NEW o \in OrgStates \cup {None}
  PROVE  Endpoints(o) \subseteq Hubs
BY RecordsAssumption, VersionInType DEF OrgStates, VersionIn, Endpoints, Versions

LEMMA SignKeyType ==
  ASSUME TypeOK, NEW h
  PROVE  SignKey(h) \in Keys
BY DEF TypeOK, SignKey, Keys

LEMMA PatchedType ==
  ASSUME NEW s \in Sidecars, NEW patch \in Patches
  PROVE  Patched(s, patch) \in Sidecars
<1>1. VersionIn(s.org) \in 0 .. LastVersion
  BY VersionInType DEF Sidecars
<1>2. CASE patch \in [sets : {"org", "active"}, org : OrgStates]
  BY <1>1, <1>2 DEF Patched, Sidecars, OrgStates
<1>3. CASE patch \in [sets : {"other"}, org : {None}]
  BY <1>3 DEF Patched, Sidecars
<1> QED BY <1>2, <1>3 DEF Patches

LEMMA BeginWriteType ==
  ASSUME Typed, NEW p \in Processes, NEW patch \in Patches, BeginWrite(p, patch)
  PROVE  WritingOK' /\ overlap' \in BOOLEAN
<1>1. Patched(sidecar, patch) \in Sidecars
  BY PatchedType DEF Typed, TypeOK, Sidecars
<1> QED BY <1>1 DEF BeginWrite, Typed, TypeOK, WritingOK, Updates

LEMMA EndedType ==
  ASSUME NEW l \in Locals
  PROVE  Ended(l) \in Locals
<1>1. NewRecall \in Locals
  BY BoundsAssumption DEF NewRecall, Locals
<1> QED BY <1>1 DEF Ended, Locals

LEMMA ActiveHubType ==
  ASSUME TypeOK
  PROVE  ActiveHub \in Hubs
BY HubsAssumption DEF TypeOK, ActiveHub, ActiveIn, OrgStates

LEMMA NextRequestType ==
  ASSUME TypeOK, NEW l \in Locals, NEW h \in Hubs \cup {None}
  PROVE  NextRequest(l, h) \in Locals
<1>1. CASE l.left = 0
  BY <1>1, EndedType DEF NextRequest
<1>2. CASE l.left # 0
  <2>1. l.left - 1 \in 0 .. Memories + 2
    BY <1>2, BoundsAssumption DEF Locals
  <2>2. ActiveHub \in Hubs \cup {None}
    BY ActiveHubType
  <2> DEFINE hub == IF l.left = Memories + 2 THEN ActiveHub ELSE h
             m == [l EXCEPT !.at = "ask", !.hub = hub, !.trying = hub, !.again = FALSE,
                            !.key = None, !.left = @ - 1]
  <2>3. NextRequest(l, h) = m
    BY <1>2 DEF NextRequest
  <2>4. hub \in Hubs \cup {None}
    BY <2>2
  <2> HIDE DEF hub
  <2>5. m \in Locals
    BY <2>1, <2>4 DEF Locals
  <2> QED BY <2>3, <2>5
<1> QED BY <1>1, <1>2

LEMMA GivesUpType ==
  ASSUME TypeOK, NEW l \in Locals
  PROVE  GivesUp(l) \in Locals
<1>1. l.hub \in Hubs \cup {None}
  BY DEF Locals
<1> QED BY <1>1, EndedType, NextRequestType DEF GivesUp

LEMMA ResolvedType == Resolved \in Findings
BY RecordsAssumption DEF Resolved, NewResolve, Findings

LEMMA TypedInit == Init => Typed
<1> SUFFICES ASSUME Init PROVE Typed
  OBVIOUS
<1>1. sidecar \in Sidecars
  BY RecordsAssumption DEF Init, Sidecars, OrgStates, Versions
<1>2. NewRecall \in Locals /\ NewResolve \in Findings
  BY RecordsAssumption, BoundsAssumption DEF NewRecall, NewResolve, Locals, Findings
<1>3. version \in Versions
  BY RecordsAssumption DEF Init, Versions
<1>4. recall \in [Recalls -> Locals] /\ resolve \in [Resolvers -> Findings]
  BY <1>2 DEF Init
<1>5. WritingOK /\ \A p \in Processes : writing[p] = None
  BY DEF Init, WritingOK
<1>6. ideal = sidecar /\ hubKey = None /\ faults = 0 /\ restarts = 0 /\ stale = {} /\ unnoted = {}
      /\ overlap = FALSE /\ raced = FALSE /\ crossed = FALSE
  BY DEF Init
<1> QED BY <1>1, <1>3, <1>4, <1>5, <1>6 DEF Typed, TypeOK, Sidecars, Locals, Findings

LEMMA TypedNext == Typed /\ Asked /\ [Next]_vars => Typed'
<1> SUFFICES ASSUME Typed, Asked, [Next]_vars PROVE Typed'
  OBVIOUS
<1> USE DEF Typed
<1>1. ASSUME NEW r \in Recalls, Begin(r) PROVE Typed'
  BY <1>1 DEF TypeOK, WritingOK, Begin, Goes, AtHub
<1>2. ASSUME NEW r \in Recalls, LoadMemberships(r) PROVE Typed'
  <2>1. recall[r] \in Locals
    BY DEF TypeOK, Locals
  <2>3. [recall[r] EXCEPT !.at = "ask", !.hub = HubUrl, !.trying = HubUrl] \in Locals
    BY <2>1, HubsAssumption DEF Locals
  <2>4. recall' \in [Recalls -> Locals]
    BY <1>2, <2>1, <2>3, EndedType DEF LoadMemberships, TypeOK, Locals
  <2> QED BY <1>2, <2>4 DEF TypeOK, WritingOK, LoadMemberships, AtHub, Locals
<1>3. ASSUME NEW r \in Recalls, HubAnswers(r) PROVE Typed'
  <2>1. SignKey(recall[r].trying) \in Keys
    BY SignKeyType
  <2>2. recall[r] \in Locals
    BY DEF TypeOK, Locals
  <2>3. [recall[r] EXCEPT !.at = "answered", !.key = SignKey(recall[r].trying)] \in Locals
    BY <2>1, <2>2 DEF Locals
  <2>4. recall' \in [Recalls -> Locals]
    BY <1>3, <2>3 DEF HubAnswers, TypeOK, Locals
  <2> QED BY <1>3, <2>4 DEF TypeOK, WritingOK, HubAnswers, AtHub, Locals
<1>4. ASSUME NEW r \in Recalls, RequestFails(r) PROVE Typed'
  <2>1. recall' \in [Recalls -> Locals]
    BY <1>4, GivesUpType DEF RequestFails, TypeOK, Locals
  <2> QED BY <1>4, <2>1 DEF TypeOK, WritingOK, RequestFails, AtHub, Locals
<1>5. ASSUME NEW r \in Recalls, Verify(r) PROVE Typed'
  <2>1. recall[r] \in Locals
    BY DEF TypeOK, Locals
  <2>2. NextRequest(recall[r], recall[r].trying) \in Locals
    BY <2>1, NextRequestType DEF Locals
  <2>3. Others(r) \subseteq Hubs
    BY EndpointsType DEF Others, TypeOK
  <2>4. [recall[r] EXCEPT !.at = "probe", !.key = None, !.others = Others(r)] \in Locals
    BY <2>1, <2>3 DEF Locals
  <2>5. [recall[r] EXCEPT !.refused = TRUE] \in Locals
    BY <2>1 DEF Locals
  <2>6. GivesUp([recall[r] EXCEPT !.refused = TRUE]) \in Locals
    BY <2>5, GivesUpType
  <2>7. recall' \in [Recalls -> Locals]
    BY <1>5, <2>2, <2>4, <2>6 DEF Verify, TypeOK, Locals
  <2> QED BY <1>5, <2>7 DEF TypeOK, WritingOK, Verify, AtHub, Locals
<1>6. ASSUME NEW r \in Recalls, Switch(r) PROVE Typed'
  <2>1. PICK h \in recall[r].others :
          /\ recall' = [recall EXCEPT ![r] =
               [@ EXCEPT !.at = "note", !.trying = h, !.again = TRUE, !.others = {}]]
          /\ BeginWrite(Server, [sets |-> "active", org |-> [version |-> 0, active |-> h]])
    BY <1>6 DEF Switch
  <2>2. h \in Hubs
    BY DEF TypeOK
  <2>3. [sets |-> "active", org |-> [version |-> 0, active |-> h]] \in Patches
    BY <2>2, RecordsAssumption DEF Patches, OrgStates
  <2>4. WritingOK' /\ overlap' \in BOOLEAN
    BY <2>1, <2>3, BeginWriteType DEF Processes
  <2>5. recall[r] \in Locals
    BY DEF TypeOK, Locals
  <2>6. [recall[r] EXCEPT !.at = "note", !.trying = h, !.again = TRUE, !.others = {}] \in Locals
    BY <2>2, <2>5 DEF Locals
  <2>7. recall' \in [Recalls -> Locals]
    BY <2>1, <2>6 DEF TypeOK, Locals
  <2> QED BY <1>6, <2>4, <2>7 DEF TypeOK, WritingOK, Updates, Sidecars, Switch, AtHub, Locals
<1>17. ASSUME NEW r \in Recalls, AskOnce(r) PROVE Typed'
  <2>1. recall[r] \in Locals /\ recall[r].hub \in Hubs \cup {None}
    BY DEF TypeOK, Locals
  <2>2. recall' \in [Recalls -> Locals]
    BY <1>17, <2>1, NextRequestType DEF AskOnce, TypeOK, Locals
  <2> QED BY <1>17, <2>2 DEF TypeOK, WritingOK, AskOnce, AtHub, Locals
<1>18. ASSUME NEW p \in Processes, WriteFails(p) PROVE Typed'
  <2>1. WritingOK'
    BY <1>18 DEF WriteFails, WritingOK
  <2>2. recall' \in [Recalls -> Locals]
    <3>1. \A r \in Recalls : recall[r] \in Locals
      BY DEF TypeOK, Locals
    <3>2. \A r \in Recalls : [recall[r] EXCEPT !.refused = TRUE] \in Locals
      BY <3>1 DEF Locals
    <3>3. \A r \in Recalls : GivesUp([recall[r] EXCEPT !.refused = TRUE]) \in Locals
      BY <3>2, GivesUpType
    <3> QED BY <1>18, <3>1, <3>3 DEF WriteFails
  <2>3. resolve' \in [Resolvers -> Findings]
    <3>1. \A c \in Resolvers : resolve[c] \in Findings
      BY DEF TypeOK, Findings
    <3> QED BY <1>18, <3>1, ResolvedType DEF WriteFails
  <2>4. unnoted' \subseteq Recalls
    BY <1>18 DEF WriteFails, TypeOK
  <2> QED BY <1>18, <2>1, <2>2, <2>3, <2>4
          DEF WriteFails, TypeOK, WritingOK, Updates, Sidecars, Locals, Findings
<1>7. ASSUME NEW c \in Resolvers, StartResolve(c) PROVE Typed'
  BY <1>7, RecordsAssumption
  DEF StartResolve, TypeOK, WritingOK, Resolved, NewResolve
<1>8. ASSUME NEW c \in Resolvers, QueryChain(c) PROVE Typed'
  <2>1. [at |-> "probe", version |-> version, current |-> sidecar.org] \in Findings
    BY RecordsAssumption DEF TypeOK, Findings, Versions
  <2>2. Resolved \in Findings
    BY ResolvedType
  <2>3. resolve' \in [Resolvers -> Findings]
    BY <1>8, <2>1, <2>2 DEF QueryChain, TypeOK, Findings
  <2> QED BY <1>8, <2>3 DEF QueryChain, TypeOK, WritingOK, Findings, histories
<1>9. ASSUME NEW c \in Resolvers, SetResolved(c) PROVE Typed'
  <2>1. PICK h \in Picks(ListOf[resolve[c].version]) :
          LET org == [version |-> resolve[c].version, active |-> h] IN
          IF org = resolve[c].current
          THEN /\ resolve' = [resolve EXCEPT ![c] = Resolved]
               /\ UNCHANGED <<writing, overlap>>
          ELSE /\ resolve' = [resolve EXCEPT ![c] = [NewResolve EXCEPT !.at = "write"]]
               /\ BeginWrite(c, [sets |-> "org", org |-> org])
    BY <1>9 DEF SetResolved
  <2>2. CASE [version |-> resolve[c].version, active |-> h] = resolve[c].current
    BY <1>9, <2>1, <2>2, ResolvedType DEF SetResolved, TypeOK, WritingOK, Findings
  <2>3. CASE [version |-> resolve[c].version, active |-> h] # resolve[c].current
    <3>1. resolve[c].version \in Versions
      BY <1>9 DEF SetResolved, Asked
    <3>2. h \in Hubs \cup {None}
      BY <3>1, RecordsAssumption DEF Picks
    <3>3. [sets |-> "org", org |-> [version |-> resolve[c].version, active |-> h]] \in Patches
      BY <3>2 DEF Patches, OrgStates, TypeOK
    <3>4. WritingOK' /\ overlap' \in BOOLEAN
      BY <2>1, <2>3, <3>3, BeginWriteType DEF Processes
    <3>5. [NewResolve EXCEPT !.at = "write"] \in Findings
      BY RecordsAssumption DEF NewResolve, Findings
    <3>6. resolve' \in [Resolvers -> Findings]
      BY <2>1, <2>3, <3>5 DEF TypeOK, Findings
    <3> QED BY <1>9, <3>4, <3>6 DEF SetResolved, TypeOK, WritingOK, Updates, Sidecars, Findings
  <2> QED BY <2>2, <2>3
<1>10. ASSUME NEW p \in Processes, ReadRest(p) PROVE Typed'
  BY <1>10 DEF TypeOK, ReadRest, WritingOK, Updates, Sidecars, histories
<1>11. ASSUME NEW p \in Processes, Rename(p) PROVE Typed'
  <2>1. writing[p] \in Updates
    BY <1>11 DEF Rename, WritingOK
  <2>2. sidecar' \in Sidecars
    BY <1>11, <2>1 DEF Rename, Updates
  <2>3. ideal' \in Sidecars
    BY <1>11, <2>1, PatchedType DEF Rename, Updates, TypeOK, Sidecars
  <2>4. WritingOK'
    BY <1>11 DEF Rename, WritingOK
  <2>5. recall' \in [Recalls -> Locals]
    <3>1. \A r \in Recalls : recall[r] \in Locals
      BY DEF TypeOK, Locals
    <3>2. \A r \in Recalls : [recall[r] EXCEPT !.at = "ask"] \in Locals
      BY <3>1 DEF Locals
    <3> QED BY <1>11, <3>1, <3>2 DEF Rename
  <2>6. resolve' \in [Resolvers -> Findings]
    <3>1. \A c \in Resolvers : resolve[c] \in Findings
      BY DEF TypeOK, Findings
    <3> QED BY <1>11, <3>1, ResolvedType DEF Rename
  <2>7. raced' \in BOOLEAN /\ stale' \subseteq Recalls
    BY <1>11 DEF Rename, TypeOK, Underway
  <2> QED BY <1>11, <2>2, <2>3, <2>4, <2>5, <2>6, <2>7
          DEF Rename, TypeOK, WritingOK, Updates, Sidecars, Locals, Findings
<1>12. CASE HubKeyArrives
  <2>1. SignKey(HubUrl) \in Keys
    BY SignKeyType
  <2>2. recall' \in [Recalls -> Locals]
    BY <1>12, EndedType DEF HubKeyArrives, TypeOK, Locals
  <2> QED BY <1>12, <2>1, <2>2 DEF HubKeyArrives, TypeOK, WritingOK, AtHub, Locals
<1>13. CASE RunCommand
  <2>1. [sets |-> "other", org |-> None] \in Patches
    BY DEF Patches
  <2>2. WritingOK' /\ overlap' \in BOOLEAN
    BY <1>13, <2>1, BeginWriteType DEF RunCommand, Processes
  <2> QED BY <1>13, <2>2 DEF RunCommand, TypeOK, WritingOK, Updates, Sidecars
<1>14. CASE Restart
  <2>1. recall' \in [Recalls -> Locals]
    BY <1>14, EndedType DEF Restart, TypeOK, Locals
  <2>2. WritingOK'
    BY <1>14 DEF Restart, WritingOK
  <2> QED BY <1>14, <2>1, <2>2
          DEF Restart, TypeOK, WritingOK, Updates, Sidecars, Locals, histories
<1>15. CASE Publish
  BY <1>15, RecordsAssumption DEF Publish, TypeOK, WritingOK, Versions, Underway
<1>16. CASE UNCHANGED vars
  BY <1>16 DEF vars, histories, TypeOK, WritingOK
<1> QED BY <1>1, <1>2, <1>3, <1>4, <1>5, <1>6, <1>7, <1>8, <1>9, <1>10, <1>11, <1>12, <1>13,
           <1>14, <1>15, <1>16, <1>17, <1>18 DEF Next, Recall, Resolve

-----------------------------------------------------------------------------
(* Steps. *)

\* What a patch makes of the sidecar.
LEMMA PatchedFacts ==
  ASSUME NEW s \in Sidecars, NEW patch \in Patches
  PROVE  /\ Patched(s, patch) = [org |-> Patched(s, patch).org, other |-> Patched(s, patch).other]
         /\ patch.sets = "other" => Patched(s, patch).org = s.org
         /\ patch.sets # "other" => Patched(s, patch).other = s.other
         /\ patch.sets = "org" => VersionIn(Patched(s, patch).org) = patch.org.version
                                  /\ ActiveIn(Patched(s, patch).org) = patch.org.active
         /\ patch.sets = "active" => VersionIn(Patched(s, patch).org) = VersionIn(s.org)
                                     /\ ActiveIn(Patched(s, patch).org) = patch.org.active
<1>1. Patched(s, patch) \in Sidecars
  BY PatchedType
<1>2. CASE patch \in [sets : {"other"}, org : {None}]
  BY <1>1, <1>2 DEF Patched, Sidecars
<1>3. CASE patch \in [sets : {"org", "active"}, org : OrgStates]
  <2>1. VersionIn(s.org) \in 0 .. LastVersion
    BY VersionInType DEF Sidecars
  <2> DEFINE v == IF patch.sets = "org" THEN patch.org.version ELSE VersionIn(s.org)
             o == [version |-> v, active |-> patch.org.active]
  <2>2. o \in OrgStates /\ o.version = v /\ o.active = patch.org.active
    BY <1>3, <2>1 DEF OrgStates
  <2>3. Patched(s, patch) = [org |-> o, other |-> s.other]
    BY <1>3 DEF Patched, Sidecars
  <2> HIDE DEF o
  <2>4. Patched(s, patch).org = o /\ Patched(s, patch).other = s.other
    BY <2>3
  <2>5. VersionIn(o) = o.version /\ ActiveIn(o) = o.active
    BY <2>2, NoneAssumption DEF VersionIn, ActiveIn
  <2> QED BY <1>1, <1>3, <2>2, <2>3, <2>4, <2>5
<1> QED BY <1>2, <1>3 DEF Patches

\* Steps that touch neither the sidecar and its updates nor the resolutions.
Quiet == UNCHANGED <<sidecar, ideal, writing, resolve, overlap, raced, crossed>>
         /\ version' \in Nat /\ version' >= version

LEMMA Steps ==
  ASSUME Typed, [Next]_vars
  PROVE  \/ Quiet
         \/ \E r \in Recalls : Switch(r)
         \/ \E c \in Resolvers : StartResolve(c) \/ QueryChain(c) \/ SetResolved(c)
         \/ \E p \in Processes : ReadRest(p) \/ Rename(p) \/ WriteFails(p)
         \/ RunCommand \/ Restart
<1>1. version \in Nat
  BY RecordsAssumption DEF Typed, TypeOK, Versions
<1>2. ASSUME NEW r \in Recalls,
             \/ Begin(r) \/ LoadMemberships(r) \/ AskOnce(r) \/ HubAnswers(r)
             \/ RequestFails(r) \/ Verify(r)
      PROVE  Quiet
  BY <1>1, <1>2 DEF Begin, LoadMemberships, AskOnce, HubAnswers, RequestFails, Verify, AtHub, Quiet
<1>3. HubKeyArrives \/ Publish \/ UNCHANGED vars => Quiet
  BY <1>1 DEF HubKeyArrives, Publish, vars, histories, AtHub, Quiet
<1> QED BY <1>2, <1>3 DEF Next, Recall, Resolve

\* A step of a resolution changes its own local variables only.
LEMMA ResolutionStep ==
  ASSUME Typed, NEW c \in Resolvers, StartResolve(c) \/ QueryChain(c) \/ SetResolved(c)
  PROVE  \E l \in Findings : /\ resolve' = [resolve EXCEPT ![c] = l]
                             /\ (l.at = "probe" => l.version = version)
<1>1. Resolved \in Findings /\ Resolved.at = "over"
  BY ResolvedType DEF Resolved, NewResolve
<1>2. CASE StartResolve(c)
  <2>1. resolve[c] \in Findings
    BY DEF Typed, TypeOK, Findings
  <2>2. [resolve[c] EXCEPT !.at = "query"] \in Findings
    BY <2>1 DEF Findings
  <2>3. [resolve[c] EXCEPT !.at = "query"].at = "query"
    BY <2>1 DEF Findings
  <2> QED BY <1>1, <1>2, <2>2, <2>3 DEF StartResolve
<1>3. CASE QueryChain(c)
  <2>1. [at |-> "probe", version |-> version, current |-> sidecar.org] \in Findings
    BY RecordsAssumption DEF Typed, TypeOK, Findings, Versions
  <2> QED BY <1>1, <1>3, <2>1 DEF QueryChain
<1>4. CASE SetResolved(c)
  <2>1. [NewResolve EXCEPT !.at = "write"] \in Findings
    BY RecordsAssumption DEF NewResolve, Findings
  <2>2. [NewResolve EXCEPT !.at = "write"].at = "write"
    BY DEF NewResolve
  <2>3. \/ resolve' = [resolve EXCEPT ![c] = Resolved]
        \/ resolve' = [resolve EXCEPT ![c] = [NewResolve EXCEPT !.at = "write"]]
    BY <1>4 DEF SetResolved
  <2> QED BY <1>1, <2>1, <2>2, <2>3
<1> QED BY <1>2, <1>3, <1>4

LEMMA AskedNext == Typed /\ Asked /\ [Next]_vars => Asked'
<1> SUFFICES ASSUME Typed, Asked, [Next]_vars PROVE Asked'
  OBVIOUS
<1> USE DEF Asked
<1>1. version \in Nat /\ version \in Versions
  BY RecordsAssumption DEF Typed, TypeOK, Versions
<1>2. \A c \in Resolvers : resolve[c] \in Findings
  BY DEF Typed, TypeOK, Findings
<1>3. CASE Quiet
  BY <1>1, <1>2, <1>3, RecordsAssumption DEF Quiet, Versions
<1>4. ASSUME NEW r \in Recalls, Switch(r) PROVE Asked'
  BY <1>4 DEF Switch, AtHub
<1>5. ASSUME NEW c \in Resolvers, StartResolve(c) \/ QueryChain(c) \/ SetResolved(c) PROVE Asked'
  <2>1. PICK l \in Findings : resolve' = [resolve EXCEPT ![c] = l]
                              /\ (l.at = "probe" => l.version = version)
    BY <1>5, ResolutionStep
  <2>2. version' = version
    BY <1>5 DEF StartResolve, QueryChain, SetResolved
  <2> QED BY <1>1, <1>2, <2>1, <2>2 DEF Typed, TypeOK
<1>6. ASSUME NEW p \in Processes, ReadRest(p) \/ Rename(p) \/ WriteFails(p) PROVE Asked'
  BY <1>6 DEF ReadRest, Rename, WriteFails, Resolved, NewResolve
<1>7. CASE RunCommand \/ Restart
  BY <1>7 DEF RunCommand, Restart
<1> QED BY <1>3, <1>4, <1>5, <1>6, <1>7, Steps

\* The updates that are begun.
LEMMA SwitchBegins ==
  ASSUME Typed, NEW r \in Recalls, Switch(r)
  PROVE  \E h \in recall[r].others \cap Hubs :
           LET patch == [sets |-> "active", org |-> [version |-> 0, active |-> h]]
           IN  patch \in Patches /\ BeginWrite(Server, patch)
<1>1. PICK h \in recall[r].others :
        BeginWrite(Server, [sets |-> "active", org |-> [version |-> 0, active |-> h]])
  BY DEF Switch
<1>2. h \in Hubs
  BY DEF Typed, TypeOK
<1>3. [sets |-> "active", org |-> [version |-> 0, active |-> h]] \in Patches
  BY <1>2, RecordsAssumption DEF Patches, OrgStates
<1> QED BY <1>1, <1>2, <1>3

LEMMA SetResolvedBegins ==
  ASSUME Typed, Asked, NEW c \in Resolvers, SetResolved(c)
  PROVE  \/ UNCHANGED <<writing, overlap>>
         \/ \E h \in Picks(ListOf[resolve[c].version]) :
              LET patch == [sets |-> "org", org |-> [version |-> resolve[c].version, active |-> h]]
              IN  /\ patch \in Patches /\ BeginWrite(c, patch)
                  /\ resolve' = [resolve EXCEPT ![c] = [NewResolve EXCEPT !.at = "write"]]
<1>1. SUFFICES ASSUME ~UNCHANGED <<writing, overlap>>
      PROVE  \E h \in Picks(ListOf[resolve[c].version]) :
              LET patch == [sets |-> "org", org |-> [version |-> resolve[c].version, active |-> h]]
              IN  /\ patch \in Patches /\ BeginWrite(c, patch)
                  /\ resolve' = [resolve EXCEPT ![c] = [NewResolve EXCEPT !.at = "write"]]
  OBVIOUS
<1>2. PICK h \in Picks(ListOf[resolve[c].version]) :
        /\ BeginWrite(c, [sets |-> "org", org |-> [version |-> resolve[c].version, active |-> h]])
        /\ resolve' = [resolve EXCEPT ![c] = [NewResolve EXCEPT !.at = "write"]]
  BY <1>1 DEF SetResolved
<1>3. resolve[c].version \in Versions
  BY DEF SetResolved, Asked
<1>4. h \in Hubs \cup {None}
  BY <1>3, RecordsAssumption DEF Picks
<1>5. resolve[c].version \in 0 .. LastVersion
  BY <1>3, RecordsAssumption DEF Versions
<1>6. [sets |-> "org", org |-> [version |-> resolve[c].version, active |-> h]] \in Patches
  BY <1>4, <1>5 DEF Patches, OrgStates
<1> QED BY <1>2, <1>6

LEMMA CommandBegins ==
  ASSUME RunCommand
  PROVE  LET patch == [sets |-> "other", org |-> None]
         IN  patch \in Patches /\ BeginWrite(Command, patch)
BY DEF RunCommand, Patches

\* What an update that is begun adds to writing.
LEMMA BeginWriteStep ==
  ASSUME Typed, NEW p \in Processes, NEW patch \in Patches, BeginWrite(p, patch)
  PROVE  \E w \in Updates :
           /\ writing' = [writing EXCEPT ![p] = w]
           /\ w.patch = patch /\ w.read = Patched(sidecar, patch)
           /\ (patch.sets = "other" <=> w.step = "rename")
<1>1. Patched(sidecar, patch) \in Sidecars
  BY PatchedType DEF Typed, TypeOK, Sidecars
<1> DEFINE w == [patch |-> patch, read |-> Patched(sidecar, patch),
                 step |-> IF patch.sets = "other" THEN "rename" ELSE "rest"]
<1>2. w \in Updates
  BY <1>1 DEF Updates
<1>3. writing' = [writing EXCEPT ![p] = w]
  BY DEF BeginWrite
<1>4. w.patch = patch /\ w.read = Patched(sidecar, patch)
      /\ (patch.sets = "other" <=> w.step = "rename")
  OBVIOUS
<1> QED BY <1>2, <1>3, <1>4

LEMMA OwnersNext == Inv /\ [Next]_vars => Owners'
<1> SUFFICES ASSUME Inv, [Next]_vars PROVE Owners'
  OBVIOUS
<1>1. version \in Nat /\ VersionIn(sidecar.org) \in Nat
  <2>1. VersionIn(sidecar.org) \in 0 .. LastVersion
    BY VersionInType DEF Inv, Typed, TypeOK
  <2> QED BY <2>1, RecordsAssumption DEF Inv, Typed, TypeOK, Versions
<1>2. \A q \in Processes : writing[q] # None =>
        writing[q] \in Updates /\ VersionIn(writing[q].read.org) \in Nat
  <2>1. \A q \in Processes : writing[q] # None =>
          writing[q] \in Updates /\ writing[q].read.org \in OrgStates \cup {None}
    BY DEF Inv, Typed, WritingOK, Updates, Sidecars
  <2>2. \A o \in OrgStates \cup {None} : VersionIn(o) \in 0 .. LastVersion
    BY VersionInType
  <2> QED BY <2>1, <2>2, RecordsAssumption
<1>3. CASE Quiet
  BY <1>1, <1>2, <1>3 DEF Inv, Owners, Quiet
<1>4. ASSUME NEW p \in Processes, NEW patch \in Patches, BeginWrite(p, patch),
             VersionIn(Patched(sidecar, patch).org) <= version,
             UNCHANGED <<version, sidecar>>,
             p \in Resolvers => patch.sets = "org" /\ resolve'[p].at = "write",
             p = Server => patch.sets = "active",
             p = Command => patch.sets = "other",
             \A q \in Resolvers \ {p} : resolve'[q] = resolve[q]
      PROVE  Owners'
  <2>1. PICK w \in Updates : /\ writing' = [writing EXCEPT ![p] = w]
                             /\ w.patch = patch /\ w.read = Patched(sidecar, patch)
                             /\ (patch.sets = "other" <=> w.step = "rename")
    BY <1>4, BeginWriteStep DEF Inv
  <2> QED BY <1>4, <2>1 DEF Inv, Owners, Typed, WritingOK
<1>5. ASSUME NEW r \in Recalls, Switch(r) PROVE Owners'
  <2>1. PICK h \in Hubs :
          LET patch == [sets |-> "active", org |-> [version |-> 0, active |-> h]]
          IN  patch \in Patches /\ BeginWrite(Server, patch)
    BY <1>5, SwitchBegins DEF Inv
  <2> DEFINE patch == [sets |-> "active", org |-> [version |-> 0, active |-> h]]
  <2>2. VersionIn(Patched(sidecar, patch).org) = VersionIn(sidecar.org)
    BY <2>1, PatchedFacts DEF Inv, Typed, TypeOK, Sidecars
  <2>3. UNCHANGED <<version, sidecar, resolve>>
    BY <1>5 DEF Switch, AtHub
  <2> QED BY <1>4, <2>1, <2>2, <2>3, ProcessesAssumption DEF Inv, Owners, Processes
<1>6. ASSUME NEW c \in Resolvers, StartResolve(c) \/ QueryChain(c) \/ SetResolved(c) PROVE Owners'
  <2>1. PICK l \in Findings : resolve' = [resolve EXCEPT ![c] = l]
    BY <1>6, ResolutionStep DEF Inv
  <2>2. UNCHANGED <<version, sidecar>> /\ resolve[c].at # "write" /\ resolve \in [Resolvers -> Findings]
    BY <1>6 DEF StartResolve, QueryChain, SetResolved, Inv, Typed, TypeOK, Findings
  <2>3. CASE UNCHANGED writing
    BY <2>1, <2>2, <2>3 DEF Inv, Owners, Processes
  <2>4. ASSUME SetResolved(c), ~UNCHANGED writing PROVE Owners'
    <3>1. PICK h \in Picks(ListOf[resolve[c].version]) :
            LET patch == [sets |-> "org", org |-> [version |-> resolve[c].version, active |-> h]]
            IN  /\ patch \in Patches /\ BeginWrite(c, patch)
                /\ resolve' = [resolve EXCEPT ![c] = [NewResolve EXCEPT !.at = "write"]]
      BY <2>4, SetResolvedBegins DEF Inv
    <3> DEFINE patch == [sets |-> "org", org |-> [version |-> resolve[c].version, active |-> h]]
    <3>2. VersionIn(Patched(sidecar, patch).org) <= version
      BY <2>4, <3>1, PatchedFacts DEF Inv, Typed, TypeOK, Sidecars, Asked, SetResolved
    <3>3. [NewResolve EXCEPT !.at = "write"].at = "write"
      BY DEF NewResolve
    <3>4. resolve'[c].at = "write"
      BY <2>2, <3>1, <3>3
    <3> QED BY <1>4, <2>1, <2>2, <3>1, <3>2, <3>4, ProcessesAssumption DEF Processes
  <2> QED BY <1>6, <2>3, <2>4 DEF StartResolve, QueryChain
<1>7. ASSUME NEW p \in Processes, ReadRest(p) PROVE Owners'
  BY <1>2, <1>7 DEF ReadRest, Inv, Owners, Typed, WritingOK, Updates, histories
<1>8. ASSUME NEW p \in Processes, Rename(p) PROVE Owners'
  <2>1. writing' = [writing EXCEPT ![p] = None] /\ sidecar' = writing[p].read
        /\ version' = version /\ writing[p] # None
    BY <1>8 DEF Rename
  <2>2. \A c \in Resolvers \ {p} : resolve'[c] = resolve[c]
    BY <1>8 DEF Rename
  <2> QED BY <2>1, <2>2 DEF Inv, Owners, Typed, WritingOK, Processes
<1>9. CASE RunCommand
  <2> DEFINE patch == [sets |-> "other", org |-> None]
  <2>1. patch \in Patches /\ BeginWrite(Command, patch)
    BY <1>9, CommandBegins
  <2>2. Patched(sidecar, patch).org = sidecar.org
    BY <2>1, PatchedFacts DEF Inv, Typed, TypeOK, Sidecars
  <2>3. UNCHANGED <<version, sidecar, resolve>>
    BY <1>9 DEF RunCommand
  <2> QED BY <1>4, <2>1, <2>2, <2>3, ProcessesAssumption DEF Inv, Owners, Processes
<1>10. CASE Restart
  BY <1>10 DEF Restart, Inv, Owners, Typed, WritingOK, histories
<1>11. ASSUME NEW p \in Processes, WriteFails(p) PROVE Owners'
  <2>1. writing' = [writing EXCEPT ![p] = None] /\ UNCHANGED <<sidecar, version>>
        /\ \A c \in Resolvers \ {p} : resolve'[c] = resolve[c]
    BY <1>11 DEF WriteFails
  <2> QED BY <2>1 DEF Inv, Owners, Typed, WritingOK, Processes
<1> QED BY <1>3, <1>5, <1>6, <1>7, <1>8, <1>9, <1>10, <1>11, Steps DEF Inv

LEMMA AloneNext == Inv /\ [Next]_vars => Alone'
<1> SUFFICES ASSUME Inv, [Next]_vars PROVE Alone'
  OBVIOUS
<1> DEFINE Idle(d) == resolve[d].at \in {"new", "over"}
<1>1. resolve \in [Resolvers -> Findings]
  BY DEF Inv, Typed, TypeOK, Findings
<1>2. CASE Quiet
  BY <1>2 DEF Quiet, Inv, Alone
<1>3. ASSUME NEW r \in Recalls, Switch(r) PROVE Alone'
  BY <1>3 DEF Switch, AtHub, Inv, Alone
<1>4. ASSUME NEW c \in Resolvers, StartResolve(c) PROVE Alone'
  <2>1. PICK l \in Findings : resolve' = [resolve EXCEPT ![c] = l]
    BY <1>4, ResolutionStep DEF Inv
  <2>2. crossed' = (crossed \/ \E d \in Resolvers : ~Idle(d))
    BY <1>4 DEF StartResolve
  <2> QED BY <1>1, <2>1, <2>2 DEF Alone
<1>5. ASSUME NEW c \in Resolvers, QueryChain(c) \/ SetResolved(c) PROVE Alone'
  <2>1. PICK l \in Findings : resolve' = [resolve EXCEPT ![c] = l]
    BY <1>5, ResolutionStep DEF Inv
  <2>2. ~Idle(c) /\ crossed' = crossed
    BY <1>5 DEF QueryChain, SetResolved, histories
  <2> QED BY <1>1, <2>1, <2>2 DEF Inv, Alone
<1>6. ASSUME NEW p \in Processes, ReadRest(p) \/ Rename(p) \/ WriteFails(p) PROVE Alone'
  <2>1. Resolved.at = "over"
    BY DEF Resolved, NewResolve
  <2>2. crossed' = crossed /\ \A c \in Resolvers : resolve'[c] \in {resolve[c], Resolved}
    BY <1>6 DEF ReadRest, Rename, WriteFails, histories
  <2> QED BY <2>1, <2>2 DEF Inv, Alone
<1>7. CASE RunCommand \/ Restart
  BY <1>7 DEF RunCommand, Restart, histories, Inv, Alone
<1> QED BY <1>2, <1>3, <1>4, <1>5, <1>6, <1>7, Steps DEF Inv

\* An update begun with nobody else at it will write its patch of the file as it is.
LEMMA BeginUndisturbed ==
  ASSUME Inv, NEW p \in Processes, NEW patch \in Patches, BeginWrite(p, patch),
         UNCHANGED <<sidecar, ideal>>
  PROVE  Undisturbed'
<1>1. PICK w \in Updates : /\ writing' = [writing EXCEPT ![p] = w]
                           /\ w.patch = patch /\ w.read = Patched(sidecar, patch)
  BY BeginWriteStep DEF Inv
<1>2. overlap' = (overlap \/ \E q \in Processes : writing[q] # None)
  BY DEF BeginWrite
<1> QED BY <1>1, <1>2 DEF Inv, Undisturbed, Typed, WritingOK

LEMMA UndisturbedNext == Inv /\ [Next]_vars => Undisturbed'
<1> SUFFICES ASSUME Inv, [Next]_vars PROVE Undisturbed'
  OBVIOUS
<1>1. sidecar \in Sidecars /\ writing \in [Processes -> Updates \cup {None}]
  BY DEF Inv, Typed, TypeOK, WritingOK, Sidecars
<1>2. CASE Quiet
  BY <1>2 DEF Quiet, Inv, Undisturbed
<1>3. ASSUME NEW r \in Recalls, Switch(r) PROVE Undisturbed'
  <2>1. UNCHANGED <<sidecar, ideal>>
    BY <1>3 DEF Switch, AtHub
  <2> QED BY <1>3, <2>1, SwitchBegins, BeginUndisturbed DEF Inv, Processes
<1>4. ASSUME NEW c \in Resolvers, StartResolve(c) \/ QueryChain(c) \/ SetResolved(c)
      PROVE  Undisturbed'
  <2>1. UNCHANGED <<sidecar, ideal>>
    BY <1>4 DEF StartResolve, QueryChain, SetResolved, histories
  <2>2. CASE UNCHANGED <<writing, overlap>>
    BY <2>1, <2>2 DEF Inv, Undisturbed
  <2>3. CASE SetResolved(c) /\ ~UNCHANGED <<writing, overlap>>
    BY <2>1, <2>3, SetResolvedBegins, BeginUndisturbed DEF Inv, Processes
  <2> QED BY <1>4, <2>2, <2>3 DEF StartResolve, QueryChain, histories
<1>5. ASSUME NEW p \in Processes, ReadRest(p) PROVE Undisturbed'
  <2> DEFINE w == writing[p]
             n == [patch |-> w.patch, read |-> [org |-> w.read.org, other |-> sidecar.other],
                   step |-> "rename"]
  <2>1. w \in Updates /\ w # None /\ w.step = "rest" /\ writing' = [writing EXCEPT ![p] = n]
        /\ UNCHANGED <<sidecar, ideal, overlap>>
    BY <1>1, <1>5 DEF ReadRest, histories
  <2>2. w.patch \in Patches /\ w.patch.sets # "other"
    BY <2>1 DEF Inv, Owners, Updates
  <2>3. ASSUME ~overlap
        PROVE  n.read.org = Patched(sidecar, n.patch).org /\ n.read = Patched(sidecar, n.patch)
    <3>1. w.read.org = Patched(sidecar, w.patch).org
      BY <2>1, <2>3 DEF Inv, Undisturbed
    <3>2. Patched(sidecar, w.patch) = [org |-> w.read.org, other |-> sidecar.other]
      BY <1>1, <2>2, <3>1, PatchedFacts
    <3> QED BY <3>1, <3>2
  <2>4. n.read.org = w.read.org
    OBVIOUS
  <2> HIDE DEF n
  <2> QED BY <1>1, <2>1, <2>3, <2>4 DEF Inv, Undisturbed
<1>6. ASSUME NEW p \in Processes, Rename(p) PROVE Undisturbed'
  <2>1. writing' = [writing EXCEPT ![p] = None] /\ sidecar' = writing[p].read
        /\ ideal' = Patched(ideal, writing[p].patch) /\ overlap' = overlap
        /\ writing[p] # None /\ writing[p].step = "rename"
    BY <1>6 DEF Rename
  <2> QED BY <1>1, <2>1 DEF Inv, Undisturbed
<1>7. CASE RunCommand
  <2>1. UNCHANGED <<sidecar, ideal>>
    BY <1>7 DEF RunCommand
  <2> QED BY <1>7, <2>1, CommandBegins, BeginUndisturbed DEF Inv, Processes
<1>8. CASE Restart
  BY <1>1, <1>8 DEF Restart, histories, Inv, Undisturbed
<1>9. ASSUME NEW p \in Processes, WriteFails(p) PROVE Undisturbed'
  BY <1>1, <1>9 DEF WriteFails, Inv, Undisturbed
<1> QED BY <1>2, <1>3, <1>4, <1>5, <1>6, <1>7, <1>8, <1>9, Steps DEF Inv

\* A failover that is choosing an endpoint chooses among those the sidecar lists.
LEMMA Probing ==
  ASSUME Typed, [Next]_vars, NEW q \in Recalls, recall'[q].at = "probe"
  PROVE  \/ recall[q].at = "probe" /\ recall'[q].others = recall[q].others
         \/ recall'[q].others = Endpoints(sidecar.org) \ {recall[q].trying} /\ UNCHANGED sidecar
<1>1. recall \in [Recalls -> Locals]
  BY DEF Typed, TypeOK, Locals
<1>2. \A l \in Locals : Ended(l).at = "over"
  <2>1. NewRecall \in Locals
    BY BoundsAssumption DEF NewRecall, Locals
  <2> QED BY <2>1 DEF Ended, Locals
<1>3. \A l \in Locals : \A h \in Hubs \cup {None} : NextRequest(l, h).at # "probe"
  BY <1>2 DEF NextRequest, Locals
<1>4. \A l \in Locals : GivesUp(l).at # "probe"
  <2>1. \A l \in Locals : l.hub \in Hubs \cup {None}
    BY DEF Locals
  <2> QED BY <1>2, <1>3, <2>1 DEF GivesUp
<1>5. ASSUME NEW r \in Recalls, Begin(r) PROVE recall'[q] = recall[q]
  BY <1>1, <1>5 DEF Begin, Locals
<1>6. ASSUME NEW r \in Recalls, LoadMemberships(r) PROVE recall'[q] = recall[q]
  <2>1. [recall[r] EXCEPT !.at = "ask", !.hub = HubUrl, !.trying = HubUrl].at = "ask"
    BY <1>1 DEF Locals
  <2>2. recall[r] \in Locals
    BY <1>1
  <2>3. recall'[r].at # "probe"
    BY <1>1, <1>2, <1>6, <2>1, <2>2 DEF LoadMemberships
  <2> QED BY <1>1, <1>6, <2>3 DEF LoadMemberships
<1>7. ASSUME NEW r \in Recalls, HubAnswers(r) PROVE recall'[q] = recall[q]
  <2>1. [recall[r] EXCEPT !.at = "answered", !.key = SignKey(recall[r].trying)].at = "answered"
    BY <1>1 DEF Locals
  <2> QED BY <1>1, <1>7, <2>1 DEF HubAnswers
<1>8. ASSUME NEW r \in Recalls, RequestFails(r) PROVE recall'[q] = recall[q]
  BY <1>1, <1>4, <1>8 DEF RequestFails
<1>9. ASSUME NEW r \in Recalls, Verify(r)
      PROVE  \/ recall'[q] = recall[q]
             \/ recall'[q].others = Endpoints(sidecar.org) \ {recall[q].trying}
  <2>1. recall[r] \in Locals /\ recall[r].trying \in Hubs \cup {None}
    BY <1>1 DEF Locals
  <2>2. [recall[r] EXCEPT !.refused = TRUE] \in Locals
    BY <2>1 DEF Locals
  <2>3. [recall[r] EXCEPT !.at = "probe", !.key = None, !.others = Others(r)].others = Others(r)
    BY <2>1 DEF Locals
  <2>4. NextRequest(recall[r], recall[r].trying).at # "probe"
    BY <1>3, <2>1
  <2>5. GivesUp([recall[r] EXCEPT !.refused = TRUE]).at # "probe"
    BY <1>4, <2>2
  <2> QED BY <1>1, <1>9, <2>3, <2>4, <2>5 DEF Verify, Others
<1>10. ASSUME NEW r \in Recalls, Switch(r) PROVE recall'[q] = recall[q]
  <2>1. PICK h : recall' = [recall EXCEPT ![r] =
          [@ EXCEPT !.at = "note", !.trying = h, !.again = TRUE, !.others = {}]]
    BY <1>10 DEF Switch
  <2>2. [recall[r] EXCEPT !.at = "note", !.trying = h, !.again = TRUE, !.others = {}].at = "note"
    BY <1>1 DEF Locals
  <2> QED BY <1>1, <2>1, <2>2
<1>17. ASSUME NEW r \in Recalls, AskOnce(r) PROVE recall'[q] = recall[q]
  <2>1. recall[r] \in Locals /\ recall[r].hub \in Hubs \cup {None}
    BY <1>1 DEF Locals
  <2> QED BY <1>1, <1>3, <1>17, <2>1 DEF AskOnce
<1>18. ASSUME NEW p \in Processes, WriteFails(p) PROVE recall'[q] = recall[q]
  <2>1. [recall[q] EXCEPT !.refused = TRUE] \in Locals
    BY <1>1 DEF Locals
  <2>2. GivesUp([recall[q] EXCEPT !.refused = TRUE]).at # "probe"
    BY <1>4, <2>1
  <2> QED BY <1>18, <2>2 DEF WriteFails
<1>11. ASSUME NEW c \in Resolvers, Resolve(c) PROVE recall'[q] = recall[q]
  BY <1>11 DEF Resolve, StartResolve, QueryChain, SetResolved
<1>12. ASSUME NEW p \in Processes, ReadRest(p) \/ Rename(p) PROVE recall'[q] = recall[q]
  <2>1. [recall[q] EXCEPT !.at = "ask"].at = "ask"
    BY <1>1 DEF Locals
  <2> QED BY <1>12, <2>1 DEF ReadRest, Rename
<1>13. CASE HubKeyArrives
  BY <1>1, <1>2, <1>13 DEF HubKeyArrives
<1>14. CASE Restart
  BY <1>1, <1>2, <1>14 DEF Restart
<1>15. CASE RunCommand \/ Publish \/ UNCHANGED vars
  BY <1>15 DEF RunCommand, Publish, vars
<1>16. ASSUME NEW r \in Recalls, Verify(r) PROVE UNCHANGED sidecar
  BY <1>16 DEF Verify, AtHub
<1> QED BY <1>5, <1>6, <1>7, <1>8, <1>9, <1>10, <1>11, <1>12, <1>13, <1>14, <1>15, <1>16,
           <1>17, <1>18 DEF Next, Recall

LEMMA EndpointsByVersion ==
  ASSUME NEW o
  PROVE  Endpoints(o) = IF VersionIn(o) = 0 THEN {} ELSE ListOf[VersionIn(o)]
BY DEF Endpoints, VersionIn

\* Whatever a step makes the sidecar list, a failover still choosing agrees, or it raced.
LEMMA ListingNext == Inv /\ [Next]_vars => Listing'
<1> SUFFICES ASSUME Inv, [Next]_vars, ~raced' PROVE Listing'
  BY DEF Listing
<1>1. sidecar \in Sidecars /\ writing \in [Processes -> Updates \cup {None}]
  BY DEF Inv, Typed, TypeOK, WritingOK, Sidecars
<1>2. ASSUME UNCHANGED sidecar, ~raced,
             \A p \in Processes : writing'[p] # None =>
               writing'[p] = writing[p] \/ Listed(writing'[p].read.org)
      PROVE  Listing'
  <2>1. Listed(sidecar'.org)
    BY <1>2 DEF Inv, Listing
  <2>2. \A p \in Processes : writing'[p] # None => Listed(writing'[p].read.org)
    BY <1>2 DEF Inv, Listing
  <2>3. ASSUME NEW r \in Recalls, recall'[r].at = "probe"
        PROVE  recall'[r].others \subseteq Endpoints(sidecar'.org)
    BY <1>2, <2>3, Probing DEF Inv, Listing
  <2> QED BY <2>1, <2>2, <2>3 DEF Listing
<1>3. ASSUME NEW p \in Processes, NEW patch \in Patches, BeginWrite(p, patch),
             UNCHANGED sidecar, ~raced, Listed(Patched(sidecar, patch).org)
      PROVE  Listing'
  <2>1. PICK w \in Updates : writing' = [writing EXCEPT ![p] = w] /\ w.read = Patched(sidecar, patch)
    BY <1>3, BeginWriteStep DEF Inv
  <2> QED BY <1>1, <1>2, <1>3, <2>1
<1>4. CASE Quiet
  BY <1>2, <1>4 DEF Quiet
<1>5. ASSUME NEW r \in Recalls, Switch(r) PROVE Listing'
  <2>1. PICK h \in recall[r].others \cap Hubs :
          LET patch == [sets |-> "active", org |-> [version |-> 0, active |-> h]]
          IN  patch \in Patches /\ BeginWrite(Server, patch)
    BY <1>5, SwitchBegins DEF Inv
  <2> DEFINE patch == [sets |-> "active", org |-> [version |-> 0, active |-> h]]
  <2>2. UNCHANGED sidecar /\ ~raced /\ h \in Endpoints(sidecar.org)
    BY <1>5 DEF Switch, AtHub, Goes, Inv, Listing
  <2>3. VersionIn(Patched(sidecar, patch).org) = VersionIn(sidecar.org)
        /\ ActiveIn(Patched(sidecar, patch).org) = h
    BY <1>1, <2>1, PatchedFacts
  <2>4. Listed(Patched(sidecar, patch).org)
    BY <2>2, <2>3, EndpointsByVersion DEF Listed
  <2> QED BY <1>3, <2>1, <2>2, <2>4 DEF Processes
<1>6. ASSUME NEW c \in Resolvers, StartResolve(c) \/ QueryChain(c) \/ SetResolved(c)
      PROVE  Listing'
  <2>1. UNCHANGED sidecar /\ ~raced
    BY <1>6 DEF StartResolve, QueryChain, SetResolved, histories
  <2>2. CASE UNCHANGED writing
    BY <1>2, <2>1, <2>2
  <2>3. CASE SetResolved(c) /\ ~UNCHANGED writing
    <3>1. PICK h \in Picks(ListOf[resolve[c].version]) :
            LET patch == [sets |-> "org", org |-> [version |-> resolve[c].version, active |-> h]]
            IN  patch \in Patches /\ BeginWrite(c, patch)
      BY <2>3, SetResolvedBegins DEF Inv
    <3> DEFINE patch == [sets |-> "org", org |-> [version |-> resolve[c].version, active |-> h]]
    <3>2. VersionIn(Patched(sidecar, patch).org) = resolve[c].version
          /\ ActiveIn(Patched(sidecar, patch).org) = h
      BY <1>1, <3>1, PatchedFacts
    <3>3. resolve[c].version \in Versions /\ resolve[c].version # 0
      BY <2>3, RecordsAssumption DEF Inv, Asked, SetResolved, Versions
    <3>4. h \in ListOf[resolve[c].version] \cup {None}
      BY DEF Picks
    <3>5. Listed(Patched(sidecar, patch).org)
      BY <3>2, <3>3, <3>4, EndpointsByVersion DEF Listed
    <3> QED BY <1>3, <2>1, <3>1, <3>5 DEF Processes
  <2> QED BY <1>6, <2>2, <2>3 DEF StartResolve, QueryChain
<1>7. ASSUME NEW p \in Processes, ReadRest(p) PROVE Listing'
  <2>1. UNCHANGED sidecar /\ ~raced /\ writing[p] # None
    BY <1>7 DEF ReadRest, histories
  <2> DEFINE n == [patch |-> writing[p].patch,
                   read |-> [org |-> writing[p].read.org, other |-> sidecar.other], step |-> "rename"]
  <2>2. writing' = [writing EXCEPT ![p] = n]
    BY <1>7 DEF ReadRest
  <2>3. Listed(n.read.org)
    BY <2>1 DEF Inv, Listing
  <2> HIDE DEF n
  <2> QED BY <1>1, <1>2, <2>1, <2>2, <2>3
<1>8. ASSUME NEW p \in Processes, Rename(p) PROVE Listing'
  <2>1. writing' = [writing EXCEPT ![p] = None] /\ sidecar' = writing[p].read
        /\ ~raced /\ writing[p] # None
    BY <1>8 DEF Rename
  <2>2. Listed(sidecar'.org)
    BY <2>1 DEF Inv, Listing
  <2>3. \A q \in Processes : writing'[q] # None => Listed(writing'[q].read.org)
    BY <1>1, <2>1 DEF Inv, Listing
  <2>4. ASSUME NEW r \in Recalls, recall'[r].at = "probe"
        PROVE  recall'[r].others \subseteq Endpoints(sidecar'.org)
    <3>1. recall'[r] = recall[r]
      <4>1. [recall[r] EXCEPT !.at = "ask"].at = "ask"
        BY DEF Inv, Typed, TypeOK
      <4> QED BY <1>8, <2>4, <4>1 DEF Rename
    <3>2. Endpoints(sidecar'.org) = Endpoints(sidecar.org)
      BY <1>8, <2>4, <3>1 DEF Rename
    <3> QED BY <2>1, <2>4, <3>1, <3>2 DEF Inv, Listing
  <2> QED BY <2>2, <2>3, <2>4 DEF Listing
<1>9. CASE RunCommand
  <2> DEFINE patch == [sets |-> "other", org |-> None]
  <2>1. patch \in Patches /\ BeginWrite(Command, patch)
    BY <1>9, CommandBegins
  <2>2. UNCHANGED sidecar /\ ~raced
    BY <1>9 DEF RunCommand
  <2>3. Patched(sidecar, patch).org = sidecar.org
    BY <1>1, <2>1, PatchedFacts
  <2>4. Listed(Patched(sidecar, patch).org)
    BY <2>2, <2>3 DEF Inv, Listing
  <2> QED BY <1>3, <2>1, <2>2, <2>4 DEF Processes
<1>10. CASE Restart
  <2>1. UNCHANGED sidecar /\ ~raced /\ writing' = [writing EXCEPT ![Server] = None]
    BY <1>10 DEF Restart, histories
  <2> QED BY <1>1, <1>2, <2>1
<1>11. ASSUME NEW p \in Processes, WriteFails(p) PROVE Listing'
  <2>1. UNCHANGED sidecar /\ ~raced /\ writing' = [writing EXCEPT ![p] = None]
    BY <1>11 DEF WriteFails
  <2> QED BY <1>1, <1>2, <2>1
<1> QED BY <1>4, <1>5, <1>6, <1>7, <1>8, <1>9, <1>10, <1>11, Steps DEF Inv

LEMMA NotBehindNext == Inv /\ [Next]_vars => NotBehind'
<1> SUFFICES ASSUME Inv, [Next]_vars, ~overlap', ~crossed' PROVE NotBehind'
  BY DEF NotBehind
<1>1. sidecar \in Sidecars /\ writing \in [Processes -> Updates \cup {None}]
      /\ resolve \in [Resolvers -> Findings]
  BY DEF Inv, Typed, TypeOK, WritingOK, Sidecars, Findings
<1>2. VersionIn(sidecar.org) \in Nat /\ version \in Nat
  <2>1. VersionIn(sidecar.org) \in 0 .. LastVersion
    BY <1>1, VersionInType DEF Sidecars
  <2> QED BY <2>1, RecordsAssumption DEF Inv, Typed, TypeOK, Versions
<1>3. ASSUME NEW p \in Processes, NEW patch \in Patches, BeginWrite(p, patch),
             UNCHANGED sidecar, ~crossed,
             VersionIn(Patched(sidecar, patch).org) >= VersionIn(sidecar.org),
             \A c \in Resolvers : resolve'[c].at = "probe" => resolve'[c] = resolve[c]
      PROVE  NotBehind'
  <2>1. PICK w \in Updates : writing' = [writing EXCEPT ![p] = w] /\ w.read = Patched(sidecar, patch)
    BY <1>3, BeginWriteStep DEF Inv
  <2>2. ~overlap
    BY <1>3 DEF BeginWrite
  <2> QED BY <1>1, <1>3, <2>1, <2>2 DEF Inv, NotBehind
<1>4. CASE Quiet
  BY <1>4 DEF Quiet, Inv, NotBehind
<1>5. ASSUME NEW r \in Recalls, Switch(r) PROVE NotBehind'
  <2>1. PICK h \in Hubs :
          LET patch == [sets |-> "active", org |-> [version |-> 0, active |-> h]]
          IN  patch \in Patches /\ BeginWrite(Server, patch)
    BY <1>5, SwitchBegins DEF Inv
  <2> DEFINE patch == [sets |-> "active", org |-> [version |-> 0, active |-> h]]
  <2>2. UNCHANGED <<sidecar, resolve, crossed>>
    BY <1>5 DEF Switch, AtHub
  <2>3. VersionIn(Patched(sidecar, patch).org) = VersionIn(sidecar.org)
    BY <1>1, <2>1, PatchedFacts
  <2> QED BY <1>2, <1>3, <2>1, <2>2, <2>3 DEF Processes
<1>6. ASSUME NEW c \in Resolvers, StartResolve(c) \/ QueryChain(c) PROVE NotBehind'
  <2>1. PICK l \in Findings : resolve' = [resolve EXCEPT ![c] = l]
                              /\ (l.at = "probe" => l.version = version)
    BY <1>6, ResolutionStep DEF Inv
  <2>2. UNCHANGED <<sidecar, writing, overlap>> /\ ~crossed
    <3>1. CASE StartResolve(c)
      BY <3>1 DEF StartResolve
    <3>2. CASE QueryChain(c)
      BY <3>2 DEF QueryChain, histories
    <3> QED BY <1>6, <3>1, <3>2
  <2> QED BY <1>1, <1>2, <2>1, <2>2 DEF Inv, NotBehind, Owners
<1>7. ASSUME NEW c \in Resolvers, SetResolved(c) PROVE NotBehind'
  <2>1. UNCHANGED <<sidecar, crossed>> /\ resolve[c].at = "probe"
    BY <1>7 DEF SetResolved
  <2>2. resolve'[c].at # "probe" /\ \A d \in Resolvers \ {c} : resolve'[d] = resolve[d]
    <3>1. Resolved.at = "over" /\ [NewResolve EXCEPT !.at = "write"].at = "write"
      BY DEF Resolved, NewResolve
    <3>2. \/ resolve' = [resolve EXCEPT ![c] = Resolved]
          \/ resolve' = [resolve EXCEPT ![c] = [NewResolve EXCEPT !.at = "write"]]
      BY <1>7 DEF SetResolved
    <3> QED BY <1>1, <3>1, <3>2
  <2>3. CASE UNCHANGED <<writing, overlap>>
    BY <2>1, <2>2, <2>3 DEF Inv, NotBehind
  <2>4. CASE ~UNCHANGED <<writing, overlap>>
    <3>1. PICK h \in Picks(ListOf[resolve[c].version]) :
            LET patch == [sets |-> "org", org |-> [version |-> resolve[c].version, active |-> h]]
            IN  patch \in Patches /\ BeginWrite(c, patch)
      BY <1>7, <2>4, SetResolvedBegins DEF Inv
    <3> DEFINE patch == [sets |-> "org", org |-> [version |-> resolve[c].version, active |-> h]]
    <3>2. VersionIn(Patched(sidecar, patch).org) = resolve[c].version
      BY <1>1, <3>1, PatchedFacts
    <3>3. ~overlap
      BY <3>1 DEF BeginWrite
    <3>4. resolve[c].version >= VersionIn(sidecar.org)
      BY <2>1, <3>3 DEF Inv, NotBehind
    <3> QED BY <1>3, <2>1, <2>2, <3>1, <3>2, <3>4 DEF Processes
  <2> QED BY <2>3, <2>4
<1>8. ASSUME NEW p \in Processes, ReadRest(p) PROVE NotBehind'
  <2>1. UNCHANGED <<sidecar, resolve, overlap, crossed>> /\ writing[p] # None
    BY <1>8 DEF ReadRest, histories
  <2> DEFINE n == [patch |-> writing[p].patch,
                   read |-> [org |-> writing[p].read.org, other |-> sidecar.other], step |-> "rename"]
  <2>2. writing' = [writing EXCEPT ![p] = n] /\ n.read.org = writing[p].read.org
    BY <1>8 DEF ReadRest
  <2> HIDE DEF n
  <2> QED BY <1>1, <2>1, <2>2 DEF Inv, NotBehind
<1>9. ASSUME NEW p \in Processes, Rename(p) PROVE NotBehind'
  <2>1. writing' = [writing EXCEPT ![p] = None] /\ sidecar' = writing[p].read
        /\ ~overlap /\ ~crossed /\ writing[p] # None
        /\ \A c \in Resolvers : resolve'[c] = IF p = c THEN Resolved ELSE resolve[c]
    BY <1>9 DEF Rename
  <2>2. \A q \in Processes : writing'[q] = None
    BY <1>1, <2>1 DEF Inv, Undisturbed
  <2>3. ASSUME NEW c \in Resolvers, resolve'[c].at = "probe"
        PROVE  resolve'[c].version >= VersionIn(sidecar'.org)
    <3>1. p # c /\ resolve'[c] = resolve[c]
      BY <2>1, <2>3 DEF Resolved, NewResolve
    <3>2. p \notin Resolvers
      BY <2>1, <2>3, <3>1 DEF Inv, Owners, Alone
    <3>3. writing[p].patch \in Patches /\ writing[p].patch.sets \in {"active", "other"}
      BY <1>1, <2>1, <3>2 DEF Inv, Owners, Processes, Updates
    <3>4. VersionIn(Patched(sidecar, writing[p].patch).org) = VersionIn(sidecar.org)
      BY <1>1, <3>3, PatchedFacts
    <3>5. sidecar'.org = Patched(sidecar, writing[p].patch).org
      BY <2>1 DEF Inv, Undisturbed
    <3> QED BY <2>1, <2>3, <3>1, <3>4, <3>5 DEF Inv, NotBehind
  <2> QED BY <2>2, <2>3 DEF NotBehind
<1>10. CASE RunCommand
  <2> DEFINE patch == [sets |-> "other", org |-> None]
  <2>1. patch \in Patches /\ BeginWrite(Command, patch)
    BY <1>10, CommandBegins
  <2>2. UNCHANGED <<sidecar, resolve, crossed>>
    BY <1>10 DEF RunCommand
  <2>3. Patched(sidecar, patch).org = sidecar.org
    BY <1>1, <2>1, PatchedFacts
  <2> QED BY <1>2, <1>3, <2>1, <2>2, <2>3 DEF Processes
<1>11. CASE Restart
  BY <1>1, <1>11 DEF Restart, histories, Inv, NotBehind
<1>12. ASSUME NEW p \in Processes, WriteFails(p) PROVE NotBehind'
  <2>1. \A c \in Resolvers : resolve'[c].at = "probe" => resolve'[c] = resolve[c]
    BY <1>12 DEF WriteFails, Resolved, NewResolve
  <2>2. UNCHANGED <<sidecar, overlap, crossed>> /\ writing' = [writing EXCEPT ![p] = None]
    BY <1>12 DEF WriteFails
  <2> QED BY <1>1, <2>1, <2>2 DEF Inv, NotBehind
<1> QED BY <1>4, <1>5, <1>6, <1>7, <1>8, <1>9, <1>10, <1>11, <1>12, Steps DEF Inv

-----------------------------------------------------------------------------
(* Theorems. *)

LEMMA InvInit == Init => Inv
<1> SUFFICES ASSUME Init PROVE Inv
  OBVIOUS
<1>1. \A p \in Processes : writing[p] = None
  BY DEF Init
<1>2. \A c \in Resolvers : resolve[c].at = "new"
  BY DEF Init, NewResolve
<1>3. \A r \in Recalls : recall[r].at = "new"
  BY DEF Init, NewRecall
<1>4. PICK o \in {None} \cup [version : {1}, active : ListOf[1]] : sidecar.org = o
  BY DEF Init
<1>5. 1 \in Versions
  BY RecordsAssumption DEF Versions
<1>6. VersionIn(o) \in {0, 1} /\ (o # None => VersionIn(o) = 1 /\ ActiveIn(o) \in ListOf[1])
      /\ (o = None => ActiveIn(o) = None)
  BY DEF VersionIn, ActiveIn
<1>7. Listed(o)
  BY <1>6, EndpointsByVersion DEF Listed
<1>8. version = 1 /\ sidecar = ideal
  BY DEF Init
<1>9. Asked /\ Owners /\ Undisturbed /\ Listing /\ Alone /\ NotBehind
  BY <1>1, <1>2, <1>3, <1>4, <1>6, <1>7, <1>8
  DEF Asked, Owners, Undisturbed, Listing, Alone, NotBehind
<1> QED BY <1>9, TypedInit DEF Inv

(* The invariant of resolve-endpoints, failover and the updates of          *)
(* identity.json between them, on which the theorems below rest.            *)
THEOREM Invariant == Spec => []Inv
<1>1. Inv /\ [Next]_vars => Inv'
  BY TypedNext, AskedNext, OwnersNext, UndisturbedNext, ListingNext, AloneNext, NotBehindNext
  DEF Inv
<1> QED BY <1>1, InvInit, PTL DEF Spec

(* Every variable of HubAccess keeps its type.                              *)
THEOREM TypeCorrect == Spec => []TypeOK
<1>1. Inv => TypeOK
  BY DEF Inv, Typed
<1> QED BY <1>1, Invariant, PTL

(* Updates of identity.json that do not overlap, of however many processes, *)
(* lose nothing of one another (patchIdentitySidecar, setOrgHubState).      *)
THEOREM SidecarCorrect == Spec => []SidecarAsIfAtomic
<1>1. Inv => SidecarAsIfAtomic
  BY DEF Inv, Undisturbed, SidecarAsIfAtomic
<1> QED BY <1>1, Invariant, PTL

(* Failover and resolution keep the active endpoint among those listed,     *)
(* unless the list was replaced while a failover was probing.               *)
THEOREM ActiveCorrect == Spec => []ActiveIsListed
<1>1. Inv => ActiveIsListed
  BY DEF Inv, Listing, Listed, ActiveIsListed
<1> QED BY <1>1, Invariant, PTL

(* The noted record of the chain is never replaced by an older one, unless  *)
(* two resolutions or two updates of the file were under way at once.       *)
THEOREM NeverOlderCorrect == Spec => NeverOlder
<1>1. ASSUME Inv, [Next]_vars, ~(overlap' \/ crossed')
      PROVE  VersionIn(sidecar'.org) >= VersionIn(sidecar.org)
  <2>1. VersionIn(sidecar.org) \in Nat
    <3>1. VersionIn(sidecar.org) \in 0 .. LastVersion
      BY <1>1, VersionInType DEF Inv, Typed, TypeOK
    <3> QED BY <3>1, RecordsAssumption
  <2>2. CASE UNCHANGED sidecar
    BY <2>1, <2>2
  <2>3. ASSUME NEW p \in Processes, Rename(p)
        PROVE  VersionIn(sidecar'.org) >= VersionIn(sidecar.org)
    BY <1>1, <2>3 DEF Rename, Inv, NotBehind
  <2> QED
    BY <1>1, <2>2, <2>3, Steps
    DEF Inv, Quiet, Switch, AtHub, StartResolve, QueryChain, SetResolved, ReadRest, WriteFails,
        RunCommand, Restart
<1>2. Inv /\ [Next]_vars
      => [~(overlap' \/ crossed') => VersionIn(sidecar'.org) >= VersionIn(sidecar.org)]_vars
  BY <1>1
<1> QED BY <1>2, Invariant, PTL DEF Spec, NeverOlder

-----------------------------------------------------------------------------
(* One hub that lies. *)

OneLiar == Cardinality(Liars) <= 1 /\ \A v \in Versions : Cardinality(ListOf[v]) >= 2

\* The local variables of a recall that the chain has not overtaken: what a failover
\* may choose, and has chosen, is not the hub whose answer was refused.
Honest(l) ==
  /\ l.refused = FALSE
  /\ l.at = "answered" => l.key = SignKey(l.trying)
  /\ l.at = "probe" => l.others \cap Liars = {}
  /\ l.again = TRUE => l.trying \notin Liars /\ l.at \notin {"new", "members"}

\* Recalls that the chain overtook, or whose failover could not write the sidecar.
Excused == stale \cup unnoted

Surviving ==
  OneLiar => \A r \in Recalls \ Excused :
    Honest(recall[r]) /\ (r \in Underway => ~Behind(sidecar.org))

LEMMA LiarsAreOne ==
  ASSUME OneLiar, NEW g \in Liars, NEW h \in Liars
  PROVE  g = h
<1>1. IsFiniteSet(Liars)
  BY HubsAssumption, FS_Subset
<1>2. SUFFICES ASSUME g # h PROVE FALSE
  OBVIOUS
<1>3. /\ IsFiniteSet({h}) /\ Cardinality({h}) = 1
  BY FS_Singleton
<1>4. Cardinality(Liars) \in Nat /\ {h} \in SUBSET Liars
  BY <1>1, FS_CardinalityType
<1>5. Cardinality({h}) <= Cardinality(Liars) /\ (Cardinality(Liars) = Cardinality({h}) => Liars = {h})
  BY <1>1, <1>4, FS_Subset
<1>6. Cardinality(Liars) = Cardinality({h})
  BY <1>3, <1>4, <1>5 DEF OneLiar
<1> QED BY <1>2, <1>5, <1>6

LEMMA AnotherIsListed ==
  ASSUME OneLiar, NEW v \in Versions, NEW h
  PROVE  ListOf[v] \ {h} # {}
<1>1. ListOf[v] \in SUBSET Hubs /\ Cardinality(ListOf[v]) >= 2
  BY RecordsAssumption DEF OneLiar
<1>2. SUFFICES ASSUME ListOf[v] \in SUBSET {h} PROVE FALSE
  OBVIOUS
<1>3. IsFiniteSet({h}) /\ Cardinality({h}) = 1
  BY FS_Singleton
<1>4. IsFiniteSet(ListOf[v]) /\ Cardinality(ListOf[v]) <= 1
  BY <1>2, <1>3, FS_Subset
<1>5. Cardinality(ListOf[v]) \in Nat
  BY <1>4, FS_CardinalityType
<1> QED BY <1>1, <1>4, <1>5

\* A recall that turns to its next request, or ends, is honest if it was.
LEMMA HonestGoesOn ==
  ASSUME NEW l \in Locals, Honest(l), NEW h
  PROVE  Honest(Ended(l)) /\ Honest(NextRequest(l, h)) /\ Honest(GivesUp(l))
<1>1. Honest(Ended(l))
  BY DEF Ended, NewRecall, Honest
<1>2. ASSUME NEW g PROVE Honest(NextRequest(l, g))
  <2>1. CASE l.left = 0
    BY <1>1, <2>1 DEF NextRequest
  <2>2. CASE l.left # 0
    <3> DEFINE hub == IF l.left = Memories + 2 THEN ActiveHub ELSE g
               m == [l EXCEPT !.at = "ask", !.hub = hub, !.trying = hub, !.again = FALSE,
                              !.key = None, !.left = @ - 1]
    <3>2. NextRequest(l, g) = m
      BY <2>2 DEF NextRequest
    <3> HIDE DEF hub
    <3>1. m.at = "ask" /\ m.again = FALSE /\ m.refused = l.refused
      BY DEF Locals
    <3> HIDE DEF m
    <3> QED BY <3>1, <3>2 DEF Honest
  <2> QED BY <2>1, <2>2
<1> QED BY <1>1, <1>2 DEF GivesUp

\* The recalls change only as r does, the chain and the sidecar not at all.
LEMMA SurvivingOne ==
  ASSUME Typed, Surviving, NEW r \in Recalls, NEW l,
         recall' = [recall EXCEPT ![r] = l], version' = version, sidecar' = sidecar,
         Excused \subseteq Excused',
         OneLiar /\ r \notin Excused' =>
           Honest(l) /\ (l.at \notin {"new", "over"} => ~Behind(sidecar.org))
  PROVE  Surviving'
<1>1. \A q \in Recalls : recall'[q] = IF q = r THEN l ELSE recall[q]
  BY DEF Typed, TypeOK
<1>2. \A m : Honest(m)' <=> Honest(m)
  BY DEF Honest, SignKey
<1>3. Behind(sidecar.org)' = Behind(sidecar.org)
  BY DEF Behind
<1>4. ASSUME OneLiar, NEW q \in Recalls \ Excused'
      PROVE  Honest(recall'[q]) /\ (q \in Underway' => ~Behind(sidecar.org))
  <2>1. CASE q = r
    BY <1>1, <1>4, <2>1 DEF Underway
  <2>2. CASE q # r
    BY <1>1, <1>4, <2>2 DEF Surviving, Underway
  <2> QED BY <2>1, <2>2
<1> QED BY <1>2, <1>3, <1>4 DEF Surviving, OneLiar, Honest, SignKey

\* The hub that answers wrongly is the liar, so another is listed, and honest.
LEMMA SurvivingVerify ==
  ASSUME Typed, Surviving, NEW r \in Recalls, Verify(r)
  PROVE  Surviving'
<1> DEFINE l == recall[r]
<1>1. /\ l \in Locals /\ l.at = "answered" /\ r \in Underway
      /\ version' = version /\ sidecar' = sidecar /\ Excused' = Excused
  BY DEF Typed, TypeOK, Locals, Verify, Goes, Underway, AtHub, Excused
<1>2. CASE Verified(r)
  <2>1. recall' = [recall EXCEPT ![r] = NextRequest(l, l.trying)]
    BY <1>2 DEF Verify
  <2>2. OneLiar /\ r \notin Excused => Honest(l) /\ ~Behind(sidecar.org)
    BY <1>1 DEF Surviving
  <2> QED BY <1>1, <2>1, <2>2, HonestGoesOn, SurvivingOne
<1>3. CASE ~Verified(r)
  <2>1. ASSUME OneLiar, r \notin Excused
        PROVE  l.trying \in Liars /\ l.again = FALSE /\ Others(r) # {} /\ Others(r) \cap Liars = {}
    <3>1. Honest(l) /\ ~Behind(sidecar.org)
      BY <1>1, <2>1 DEF Surviving
    <3>2. VersionIn(sidecar.org) = version
      <4>1. VersionIn(sidecar.org) # 0
        BY <1>3 DEF Verified, KeyIn
      <4> QED BY <3>1, <4>1 DEF Behind
    <3>3. version \in Versions /\ version # 0
      BY RecordsAssumption DEF Typed, TypeOK, Versions
    <3>4. KeyIn(sidecar.org) = KeyOf[version] /\ Endpoints(sidecar.org) = ListOf[version]
      BY <3>2, <3>3 DEF KeyIn, Endpoints, VersionIn
    <3>5. l.key = SignKey(l.trying)
      BY <1>1, <3>1 DEF Honest
    <3>6. l.trying \in Liars
      BY <1>3, <3>4, <3>5 DEF Verified, SignKey
    <3>7. l.again = FALSE
      BY <1>1, <3>1, <3>6 DEF Honest, Locals
    <3>8. Others(r) # {}
      BY <2>1, <3>3, <3>4, AnotherIsListed DEF Others
    <3>9. Others(r) \cap Liars = {}
      BY <2>1, <3>6, LiarsAreOne DEF Others
    <3> QED BY <3>6, <3>7, <3>8, <3>9
  <2> DEFINE m == [l EXCEPT !.at = "probe", !.key = None, !.others = Others(r)]
             n == IF ~l.again /\ Others(r) # {} THEN m ELSE GivesUp([l EXCEPT !.refused = TRUE])
  <2>2. recall' = [recall EXCEPT ![r] = n]
    BY <1>3 DEF Verify
  <2>3. m.at = "probe" /\ m.others = Others(r) /\ m.again = l.again /\ m.refused = l.refused
    BY <1>1 DEF Locals
  <2>4. ASSUME OneLiar, r \notin Excused PROVE Honest(n) /\ ~Behind(sidecar.org)
    <3>1. n = m
      BY <2>1, <2>4
    <3>2. Honest(l) /\ ~Behind(sidecar.org)
      BY <1>1, <2>4 DEF Surviving
    <3> HIDE DEF m, n
    <3> QED BY <2>1, <2>3, <2>4, <3>1, <3>2 DEF Honest
  <2> HIDE DEF n
  <2> QED BY <1>1, <2>2, <2>4, SurvivingOne
<1> QED BY <1>2, <1>3

LEMMA SurvivingRecall ==
  ASSUME Typed, Surviving, NEW r \in Recalls, Recall(r)
  PROVE  Surviving'
<1> DEFINE l == recall[r]
<1>0. l \in Locals
  BY DEF Typed, TypeOK, Locals
<1>1. CASE Begin(r)
  <2>1. /\ recall' = [recall EXCEPT ![r] = [l EXCEPT !.at = "members"]]
        /\ version' = version /\ sidecar' = sidecar
        /\ Excused' = Excused \cup (IF Behind(sidecar.org) THEN {r} ELSE {})
    BY <1>1 DEF Begin, AtHub, Excused
  <2> DEFINE m == [l EXCEPT !.at = "members"]
  <2>0. l.at = "new"
    BY <1>1 DEF Begin, Goes
  <2>2. m.at = "members" /\ m.again = l.again /\ m.trying = l.trying /\ m.refused = l.refused
    BY <1>0 DEF Locals
  <2> HIDE DEF m
  <2>3. OneLiar /\ r \notin Excused' => Honest(m) /\ ~Behind(sidecar.org)
    BY <2>0, <2>1, <2>2 DEF Surviving, Honest
  <2> QED BY <2>1, <2>3, SurvivingOne DEF m
<1>2. CASE LoadMemberships(r)
  <2>1. /\ version' = version /\ sidecar' = sidecar /\ Excused' = Excused /\ r \in Underway
    BY <1>2 DEF LoadMemberships, AtHub, Goes, Underway, Excused
  <2>0. l.at = "members"
    BY <1>2 DEF LoadMemberships, Goes
  <2> DEFINE m == [l EXCEPT !.at = "ask", !.hub = HubUrl, !.trying = HubUrl]
  <2>3. m.at = "ask" /\ m.again = l.again /\ m.refused = l.refused
    BY <1>0 DEF Locals
  <2>2. recall' = [recall EXCEPT ![r] = IF SignKey(HubUrl) = hubKey THEN m ELSE Ended(l)]
    BY <1>2 DEF LoadMemberships
  <2> HIDE DEF m
  <2>4. OneLiar /\ r \notin Excused => Honest(l) /\ ~Behind(sidecar.org)
    BY <2>1 DEF Surviving
  <2>5. OneLiar /\ r \notin Excused => Honest(m)
    BY <2>0, <2>3, <2>4 DEF Honest
  <2>6. OneLiar /\ r \notin Excused => Honest(Ended(l))
    BY <1>0, <2>4, HonestGoesOn
  <2>7. CASE SignKey(HubUrl) = hubKey
    BY <2>1, <2>2, <2>4, <2>5, <2>7, SurvivingOne
  <2>8. CASE SignKey(HubUrl) # hubKey
    BY <2>1, <2>2, <2>4, <2>6, <2>8, SurvivingOne
  <2> QED BY <2>7, <2>8
<1>3. CASE HubAnswers(r)
  <2> DEFINE m == [l EXCEPT !.at = "answered", !.key = SignKey(l.trying)]
  <2>1. /\ version' = version /\ sidecar' = sidecar /\ Excused' = Excused /\ r \in Underway
        /\ recall' = [recall EXCEPT ![r] = m]
    BY <1>3 DEF HubAnswers, AtHub, Goes, Underway, Excused
  <2>2. /\ m.at = "answered" /\ m.key = SignKey(l.trying) /\ m.trying = l.trying
        /\ m.again = l.again /\ m.refused = l.refused
    BY <1>0 DEF Locals
  <2> HIDE DEF m
  <2>3. OneLiar /\ r \notin Excused => Honest(m) /\ ~Behind(sidecar.org)
    BY <2>1, <2>2 DEF Surviving, Honest
  <2> QED BY <2>1, <2>3, SurvivingOne
<1>4. CASE RequestFails(r)
  <2>1. /\ version' = version /\ sidecar' = sidecar /\ Excused' = Excused /\ r \in Underway
        /\ recall' = [recall EXCEPT ![r] = GivesUp(l)]
    BY <1>4 DEF RequestFails, AtHub, Goes, Underway, Excused
  <2>2. OneLiar /\ r \notin Excused => Honest(GivesUp(l)) /\ ~Behind(sidecar.org)
    BY <1>0, <2>1, HonestGoesOn DEF Surviving
  <2> QED BY <2>1, <2>2, SurvivingOne
<1>5. CASE Switch(r)
  <2>1. PICK h \in l.others : recall' = [recall EXCEPT ![r] =
          [l EXCEPT !.at = "note", !.trying = h, !.again = TRUE, !.others = {}]]
    BY <1>5 DEF Switch
  <2> DEFINE m == [l EXCEPT !.at = "note", !.trying = h, !.again = TRUE, !.others = {}]
  <2>2. /\ version' = version /\ sidecar' = sidecar /\ Excused' = Excused /\ r \in Underway
        /\ l.at = "probe"
    BY <1>5 DEF Switch, AtHub, Goes, Underway, Excused
  <2>3. m.at = "note" /\ m.trying = h /\ m.refused = l.refused
    BY <1>0 DEF Locals
  <2>4. recall' = [recall EXCEPT ![r] = m]
    BY <2>1
  <2> HIDE DEF m
  <2>5. OneLiar /\ r \notin Excused => Honest(m) /\ ~Behind(sidecar.org)
    BY <2>2, <2>3 DEF Surviving, Honest
  <2> QED BY <2>2, <2>4, <2>5, SurvivingOne
<1>6. CASE AskOnce(r)
  <2>1. /\ version' = version /\ sidecar' = sidecar /\ Excused' = Excused /\ r \in Underway
        /\ recall' = [recall EXCEPT ![r] = NextRequest(l, l.hub)]
    BY <1>6 DEF AskOnce, AtHub, Goes, Underway, Excused
  <2>2. OneLiar /\ r \notin Excused => Honest(NextRequest(l, l.hub)) /\ ~Behind(sidecar.org)
    BY <1>0, <2>1, HonestGoesOn DEF Surviving
  <2> QED BY <2>1, <2>2, SurvivingOne
<1> QED BY <1>1, <1>2, <1>3, <1>4, <1>5, <1>6, SurvivingVerify DEF Recall

\* Recalls only end, or go on to ask what they have noted.
LEMMA SurvivingMany ==
  ASSUME Typed, Surviving, version' = version, Excused \subseteq Excused',
         \A r \in Recalls : \/ recall'[r] = recall[r] \/ r \in Excused'
                            \/ recall'[r] = Ended(recall[r])
                            \/ recall[r].at = "note" /\ recall'[r] = [recall[r] EXCEPT !.at = "ask"],
         sidecar' = sidecar \/ (Behind(sidecar.org)' => Underway \subseteq Excused')
  PROVE  Surviving'
<1> SUFFICES ASSUME OneLiar, NEW r \in Recalls \ Excused'
             PROVE  Honest(recall[r])' /\ (r \in Underway' => ~Behind(sidecar.org)')
  BY DEF Surviving, OneLiar
<1>1. recall[r] \in Locals /\ Honest(recall[r]) /\ (r \in Underway => ~Behind(sidecar.org))
  BY DEF Typed, TypeOK, Locals, Surviving
<1>2. Honest(recall'[r])
  <2>1. CASE recall'[r] = recall[r]
    BY <1>1, <2>1
  <2>2. CASE recall'[r] = Ended(recall[r])
    BY <1>1, <2>2, HonestGoesOn
  <2>3. CASE recall[r].at = "note" /\ recall'[r] = [recall[r] EXCEPT !.at = "ask"]
    <3> DEFINE m == [recall[r] EXCEPT !.at = "ask"]
    <3>1. /\ m.at = "ask" /\ m.again = recall[r].again /\ m.trying = recall[r].trying
          /\ m.refused = recall[r].refused
      BY <1>1 DEF Locals
    <3>2. recall'[r] = m
      BY <2>3
    <3> HIDE DEF m
    <3> QED BY <1>1, <3>1, <3>2 DEF Honest
  <2> QED BY <2>1, <2>2, <2>3
<1>3. Honest(recall[r])'
  BY <1>2 DEF Honest, SignKey
<1>4. r \in Underway' => r \in Underway
  <2>1. Ended(recall[r]).at = "over"
    BY DEF Ended, NewRecall
  <2> QED BY <2>1 DEF Underway
<1>5. sidecar' = sidecar => Behind(sidecar.org)' = Behind(sidecar.org)
  BY DEF Behind
<1> QED BY <1>1, <1>3, <1>4, <1>5

LEMMA SurvivingNext == Inv /\ Surviving /\ [Next]_vars => Surviving'
<1> SUFFICES ASSUME Inv, Surviving, [Next]_vars PROVE Surviving'
  OBVIOUS
<1>0. Typed
  BY DEF Inv
<1>1. ASSUME NEW r \in Recalls, Recall(r) PROVE Surviving'
  BY <1>0, <1>1, SurvivingRecall
<1>2. ASSUME NEW p \in Processes, Rename(p) PROVE Surviving'
  <2>1. /\ version' = version /\ Excused' = Excused \cup (IF Behind(sidecar'.org) THEN Underway ELSE {})
        /\ \A r \in Recalls : \/ recall'[r] = recall[r]
                              \/ recall[r].at = "note" /\ recall'[r] = [recall[r] EXCEPT !.at = "ask"]
    BY <1>2 DEF Rename, Excused
  <2>2. Behind(sidecar.org)' => Underway \subseteq Excused'
    BY <2>1 DEF Behind
  <2> QED BY <1>0, <2>1, <2>2, SurvivingMany
<1>3. CASE HubKeyArrives \/ Restart
  <2>1. /\ version' = version /\ Excused' = Excused /\ sidecar' = sidecar
        /\ \A r \in Recalls : recall'[r] = recall[r] \/ recall'[r] = Ended(recall[r])
    BY <1>0, <1>3 DEF HubKeyArrives, Restart, AtHub, histories, Excused
  <2> QED BY <1>0, <2>1, SurvivingMany
<1>4. CASE Publish
  <2>1. Excused' = Excused \cup Underway /\ recall' = recall
    BY <1>4 DEF Publish, Excused
  <2>2. \A r \in Recalls \ Excused' : recall[r].at \in {"new", "over"} /\ r \notin Underway'
    BY <2>1 DEF Underway
  <2>3. ASSUME OneLiar PROVE \A r \in Recalls \ Excused' : Honest(recall[r])'
    BY <2>1, <2>2, <2>3 DEF Surviving, Honest
  <2> QED BY <2>2, <2>3 DEF Surviving, OneLiar
<1>5. ASSUME UNCHANGED <<version, sidecar, recall, stale, unnoted>> PROVE Surviving'
  BY <1>0, <1>5, SurvivingMany DEF Excused
<1>6. ASSUME NEW c \in Resolvers, Resolve(c) PROVE Surviving'
  BY <1>5, <1>6 DEF Resolve, StartResolve, QueryChain, SetResolved, histories
<1>7. ASSUME NEW p \in Processes, ReadRest(p) PROVE Surviving'
  BY <1>5, <1>7 DEF ReadRest, histories
<1>8. CASE RunCommand \/ UNCHANGED vars
  BY <1>5, <1>8 DEF RunCommand, vars, histories
<1>9. ASSUME NEW p \in Processes, WriteFails(p) PROVE Surviving'
  <2>1. /\ version' = version /\ sidecar' = sidecar /\ Excused \subseteq Excused'
        /\ \A r \in Recalls : recall'[r] = recall[r] \/ r \in Excused'
    BY <1>9 DEF WriteFails, Excused
  <2> QED BY <1>0, <2>1, SurvivingMany
<1> QED BY <1>1, <1>2, <1>3, <1>4, <1>6, <1>7, <1>8, <1>9 DEF Next

(* However many hubs there are: if only one of them signs with a key of its *)
(* own, a recall in step with the chain is never refused its query or a     *)
(* memory, because failoverAfterSignatureFailure asks another listed one;   *)
(* unless setOrgHubState could not write which.                             *)
THEOREM SurvivalCorrect == Spec => []OneLiarIsSurvived
<1>1. Init => Surviving
  BY DEF Init, Surviving, Honest, NewRecall, Underway
<1>2. Typed /\ Surviving => OneLiarIsSurvived
  BY DEF Surviving, OneLiarIsSurvived, OneLiar, Honest, Excused
<1>3. Inv => Typed
  BY DEF Inv
<1> QED BY <1>1, <1>2, <1>3, SurvivingNext, Invariant, PTL DEF Spec
=============================================================================
