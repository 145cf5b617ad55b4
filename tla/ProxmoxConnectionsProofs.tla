----------------------- MODULE ProxmoxConnectionsProofs -----------------------
(***************************************************************************)
(* Proofs about ProxmoxConnections, for any number of tabs, hosts, builds, *)
(* applies and connections.  The argument is that an id means one host     *)
(* for good: ids only grow, so whatever named a connection, a panel, a     *)
(* build or an apply still says of it what its row said.                   *)
(***************************************************************************)
EXTENDS ProxmoxConnections, TLAPS

\* What a request noted of the connection it names is what its row said.
Noted(x) == x.id \in 1 .. lastId /\ x.host = host[x.id] /\ x.seen = x.host

PanelsTrue ==
  \A t \in Tabs : panel[t].id # 0 => panel[t].id <= lastId /\ panel[t].host = host[panel[t].id]

BuildsTrue ==
  \A b \in Builds :
    /\ IF build[b].at = "new" THEN build[b].host = build[b].seen ELSE Noted(build[b])
    /\ build[b].at # "over" => template[b] = 0

AppliesTrue ==
  \A a \in Applies :
    /\ IF apply[a].at = "new" THEN apply[a].host = apply[a].seen ELSE Noted(apply[a])
    /\ apply[a].at \in {"recorded", "synced"} => apply[a].token = apply[a].host
    /\ apply[a].at # "new" => apply[a].from \in Builds
    /\ apply[a].at \in {"new", "previewed"} => cluster[a] = 0

\* From the first step of its job on, an apply finds its host in its Secret, or
\* no Secret at all.
SecretsTrue ==
  \A a \in Applies :
    /\ a \in objects => apply[a].at = "over"
    /\ a \in objects \/ apply[a].at = "synced" => secret[apply[a].id] \in {apply[a].host, Nothing}

\* It finds it there, unless it is exposed.
Finds(a) ==
  (a \in objects \/ apply[a].at = "synced") /\ a \notin exposed
    => secret[apply[a].id] = apply[a].host

SecretsStay == \A a \in Applies : Finds(a)

\* What a connect request has checked is still so when it inserts.
ChecksHold ==
  ~overlapped =>
    /\ \A t, u \in Tabs : connecting[t] # "idle" /\ connecting[u] # "idle" => t = u
    /\ \A t \in Tabs : connecting[t] # "idle" => \A i \in live : host[i] # entered[t]
    /\ \A t \in Tabs : connecting[t] = "counted" /\ first[t] => live = {}

ConnectionsIInv ==
  /\ ConnectionsTypeOK
  /\ PanelsTrue /\ BuildsTrue /\ AppliesTrue /\ SecretsTrue /\ SecretsStay
  /\ NoDanglingRows /\ ChecksHold /\ OneByOneInOrder

-----------------------------------------------------------------------------
(* Types *)

(***************************************************************************)
(* Steps of a connect request, and a disconnect, keep the types.           *)
(***************************************************************************)
LEMMA ConnectTypes ==
  ASSUME ConnectionsTypeOK,
         (\E t \in Tabs : Connect(t)) \/ (\E i \in Ids : RemoveConnection(i))
  PROVE  ConnectionsTypeOK'
<1> USE ConnectionsAssumption
    DEF ConnectionsTypeOK, connVars, entryVars, pageVars, workVars, MaybeHost, MaybeIds, Ids, MoveOn
<1>1. ASSUME NEW t \in Tabs, NEW h \in Hosts, CheckKnown(t, h)
      PROVE  ConnectionsTypeOK'
  BY <1>1 DEF CheckKnown
<1>2. ASSUME NEW t \in Tabs, ReachHost(t) \/ GiveUp(t)
      PROVE  ConnectionsTypeOK'
  BY <1>2 DEF ReachHost, GiveUp
<1>3. ASSUME NEW t \in Tabs, CountRows(t)
      PROVE  ConnectionsTypeOK'
  BY <1>3 DEF CountRows
<1>4. ASSUME NEW t \in Tabs, InsertConnection(t)
      PROVE  ConnectionsTypeOK'
  <2>1. /\ lastId' = lastId + 1 /\ lastId' \in 1 .. MaxId
        /\ live' = live \cup {lastId'}
        /\ primary' \subseteq primary \cup {lastId'}
        /\ lastId' \notin live => primary' = primary \/ primary' = primary \cup {lastId'}
    BY <1>4 DEF InsertConnection
  <2>2. primary' \subseteq live' /\ live' \subseteq 1 .. lastId' /\ lastId' \in 0 .. MaxId
    BY <2>1
  <2>3. host' \in [1 .. MaxId -> Hosts \cup {Nothing}]
    BY <1>4, <2>1 DEF InsertConnection
  <2>4. remembered' \in 0 .. lastId'
    BY <1>4, <2>1 DEF InsertConnection
  <2>5. connecting' \in [Tabs -> {"idle", "unknown", "reached", "counted"}]
    BY <1>4 DEF InsertConnection
  <2>6. QED
    BY <1>4, <2>2, <2>3, <2>4, <2>5 DEF InsertConnection
<1>5. ASSUME NEW i \in Ids, RemoveConnection(i)
      PROVE  ConnectionsTypeOK'
  <2>1. template' \in [Builds -> 0 .. MaxId] /\ cluster' \in [Applies -> 0 .. MaxId]
    BY <1>5 DEF RemoveConnection, Cascade
  <2>2. QED
    BY <1>5, <2>1 DEF RemoveConnection
<1>6. QED
  BY <1>1, <1>2, <1>3, <1>4, <1>5 DEF Connect

(***************************************************************************)
(* A request that moves on stays of its kind.                              *)
(***************************************************************************)
LEMMA StatesChange ==
  /\ \A x \in BuildStates : [x EXCEPT !.at = "over"] \in BuildStates /\ x.id \in MaybeIds
  /\ \A x \in ApplyStates :
       /\ \A p \in {"synced", "over"} : [x EXCEPT !.at = p] \in ApplyStates
       /\ \A h \in MaybeHost : [x EXCEPT !.at = "recorded", !.token = h] \in ApplyStates
       /\ x.token \in MaybeHost /\ x.id \in MaybeIds
<1>1. ASSUME NEW x \in BuildStates
      PROVE  [x EXCEPT !.at = "over"] \in BuildStates /\ x.id \in MaybeIds
  BY DEF BuildStates
<1>2. ASSUME NEW x \in ApplyStates, NEW p \in {"synced", "over"}
      PROVE  [x EXCEPT !.at = p] \in ApplyStates
  BY DEF ApplyStates
<1>3. ASSUME NEW x \in ApplyStates, NEW h \in MaybeHost
      PROVE  [x EXCEPT !.at = "recorded", !.token = h] \in ApplyStates
  BY DEF ApplyStates
<1>4. ASSUME NEW x \in ApplyStates
      PROVE  x.token \in MaybeHost /\ x.id \in MaybeIds
  BY DEF ApplyStates
<1>5. QED
  BY <1>1, <1>2, <1>3, <1>4

(***************************************************************************)
(* Pages, builds and applies keep the types.                               *)
(***************************************************************************)
LEMMA WorkTypes ==
  ASSUME ConnectionsTypeOK,
         \/ \E t \in Tabs : Look(t) \/ Submit(t)
         \/ \E b \in Builds : BuildStep(b)
         \/ \E a \in Applies : ApplyJobStep(a)
  PROVE  ConnectionsTypeOK'
<1> USE ConnectionsAssumption
    DEF ConnectionsTypeOK, connVars, entryVars, pageVars, workVars, MaybeHost, MaybeIds, Ids
<1>1. ASSUME NEW t \in Tabs, NEW i \in MaybeIds, OpenPage(t, i)
      PROVE  ConnectionsTypeOK'
  BY <1>1 DEF OpenPage
<1>2. ASSUME NEW t \in Tabs, NEW i \in Ids, LoadPanel(t, i)
      PROVE  ConnectionsTypeOK'
  BY <1>2 DEF LoadPanel, Active
<1>3. ASSUME NEW t \in Tabs, NEW i \in Ids, NEW b \in Builds, StartBuild(b, t, i)
      PROVE  ConnectionsTypeOK'
  <2> DEFINE new == [at |-> "running", id |-> i, host |-> host[i], seen |-> panel[t].host]
  <2>1. new \in BuildStates
    BY DEF BuildStates
  <2>2. build' \in [Builds -> BuildStates]
    BY <1>3, <2>1 DEF StartBuild
  <2>3. QED
    BY <1>3, <2>2 DEF StartBuild
<1>4. ASSUME NEW t \in Tabs, NEW i \in Ids, NEW b \in Builds, NEW a \in Applies, Preview(a, t, i, b)
      PROVE  ConnectionsTypeOK'
  <2> DEFINE new == [at |-> "previewed", id |-> i, host |-> host[i], seen |-> panel[t].host,
                     token |-> Nothing, from |-> b]
  <2>1. new \in ApplyStates
    BY DEF ApplyStates
  <2>2. apply' \in [Applies -> ApplyStates]
    BY <1>4, <2>1 DEF Preview
  <2>3. QED
    BY <1>4, <2>2 DEF Preview
<1>5. ASSUME NEW b \in Builds, RecordTemplate(b) \/ EndBuild(b) \/ RemoveTemplate(b)
      PROVE  ConnectionsTypeOK'
  <2>1. [build[b] EXCEPT !.at = "over"] \in BuildStates /\ build[b].id \in 0 .. MaxId
    BY StatesChange
  <2>2. build' \in [Builds -> BuildStates]
    BY <1>5, <2>1 DEF RecordTemplate, EndBuild, RemoveTemplate
  <2>a. 0 \in 0 .. MaxId
    OBVIOUS
  <2>b. PICK n \in 0 .. MaxId : template' = template \/ template' = [template EXCEPT ![b] = n]
    BY <1>5, <2>1, <2>a DEF RecordTemplate, EndBuild, RemoveTemplate
  <2>3. template' \in [Builds -> 0 .. MaxId]
    BY <2>b
  <2>4. QED
    BY <1>5, <2>2, <2>3 DEF RecordTemplate, EndBuild, RemoveTemplate
<1>a. ASSUME NEW a \in Applies
      PROVE  /\ [apply[a] EXCEPT !.at = "synced"] \in ApplyStates
             /\ [apply[a] EXCEPT !.at = "over"] \in ApplyStates
             /\ apply[a].token \in Hosts \cup {Nothing}
  BY StatesChange
<1>6. ASSUME NEW a \in Applies, NEW i \in Ids, RecordCluster(a, i)
      PROVE  ConnectionsTypeOK'
  <2>1. [apply[a] EXCEPT !.at = "recorded", !.token = host[i]] \in ApplyStates
    BY StatesChange
  <2>2. apply' = [apply EXCEPT ![a] = [apply[a] EXCEPT !.at = "recorded", !.token = host[i]]]
    BY <1>6 DEF RecordCluster
  <2>3. apply' \in [Applies -> ApplyStates]
    BY <2>1, <2>2
  <2>4. QED
    BY <1>6, <2>3 DEF RecordCluster
<1>7. ASSUME NEW a \in Applies, WriteSecret(a)
      PROVE  ConnectionsTypeOK'
  <2>1. apply' \in [Applies -> ApplyStates]
    BY <1>7, <1>a DEF WriteSecret
  <2>2. secret' \in [1 .. MaxId -> Hosts \cup {Nothing}]
    BY <1>7, <1>a DEF WriteSecret
  <2>3. QED
    BY <1>7, <2>1, <2>2 DEF WriteSecret
<1>8. ASSUME NEW a \in Applies, ApplyObject(a) \/ RemoveCluster(a)
      PROVE  ConnectionsTypeOK'
  <2>0. secret' \in [1 .. MaxId -> Hosts \cup {Nothing}] /\ exposed' \in SUBSET Applies
    BY <1>8 DEF ApplyObject, RemoveCluster, Collect
  <2>1. apply' \in [Applies -> ApplyStates]
    BY <1>8, <1>a DEF ApplyObject, RemoveCluster
  <2>2. cluster' \in [Applies -> 0 .. MaxId] /\ objects' \in SUBSET Applies
    <3>1. CASE ApplyObject(a)
      BY <3>1 DEF ApplyObject
    <3>2. CASE RemoveCluster(a)
      <4>1. objects' = objects \ {a} /\ (cluster' = cluster \/ cluster' = [cluster EXCEPT ![a] = 0])
        BY <3>2 DEF RemoveCluster
      <4>2. QED
        BY <4>1
    <3>3. QED
      BY <1>8, <3>1, <3>2
  <2>3. QED
    BY <1>8, <2>0, <2>1, <2>2 DEF ApplyObject, RemoveCluster
<1>9. ASSUME NEW a \in Applies, EndApply(a)
      PROVE  ConnectionsTypeOK'
  <2>1. /\ cluster' = cluster \/ cluster' = [cluster EXCEPT ![a] = 0]
        /\ secret' = secret \/ secret' = [secret EXCEPT ![apply[a].id] = apply[a].token]
        /\ objects' = objects \/ objects' = objects \cup {a}
    BY <1>9 DEF EndApply
  <2>a. secret' \in [1 .. MaxId -> Hosts \cup {Nothing}]
    BY <1>a, <2>1
  <2>b. cluster' \in [Applies -> 0 .. MaxId] /\ objects' \in SUBSET Applies
    BY <2>1
  <2>2. apply' \in [Applies -> ApplyStates]
    BY <1>9, <1>a DEF EndApply
  <2>3. QED
    BY <1>9, <2>a, <2>b, <2>2 DEF EndApply
<1>10. QED
  BY <1>1, <1>2, <1>3, <1>4, <1>5, <1>6, <1>7, <1>8, <1>9 DEF Look, Submit, BuildStep, ApplyJobStep

LEMMA ConnectionsTypeStep ==
  ASSUME ConnectionsTypeOK, [ConnectionsNext]_vars
  PROVE  ConnectionsTypeOK'
<1>1. CASE UNCHANGED vars
  BY <1>1 DEF vars, connVars, entryVars, pageVars, workVars, ConnectionsTypeOK
<1>2. QED
  BY <1>1, ConnectTypes, WorkTypes DEF ConnectionsNext
-----------------------------------------------------------------------------
(* An id means one host for good *)

(***************************************************************************)
(* Ids only grow, and the host of an id that was given never changes.      *)
(***************************************************************************)
LEMMA IdsStand ==
  ASSUME ConnectionsTypeOK, ConnectionsNext
  PROVE  lastId' \in Nat /\ lastId <= lastId' /\ \A i \in 1 .. lastId : host'[i] = host[i]
<1> USE ConnectionsAssumption DEF connVars, MaybeIds, Ids
<1>0. lastId \in 0 .. MaxId /\ host \in [1 .. MaxId -> MaybeHost]
  BY DEF ConnectionsTypeOK
<1>1. ASSUME NEW t \in Tabs, InsertConnection(t)
      PROVE  lastId' \in Nat /\ lastId <= lastId' /\ \A i \in 1 .. lastId : host'[i] = host[i]
  BY <1>0, <1>1 DEF InsertConnection
<1>2. ASSUME NEW t \in Tabs, Connect(t), ~InsertConnection(t)
      PROVE  UNCHANGED <<lastId, host>>
  BY <1>2 DEF Connect, CheckKnown, ReachHost, CountRows, GiveUp
<1>3. ASSUME NEW i \in Ids, RemoveConnection(i)
      PROVE  UNCHANGED <<lastId, host>>
  BY <1>3 DEF RemoveConnection
<1>4. ASSUME NEW t \in Tabs, Look(t) \/ Submit(t)
      PROVE  UNCHANGED <<lastId, host>>
  BY <1>4 DEF Look, Submit, OpenPage, LoadPanel, StartBuild, Preview
<1>5. ASSUME NEW b \in Builds, BuildStep(b)
      PROVE  UNCHANGED <<lastId, host>>
  BY <1>5 DEF BuildStep, RecordTemplate, EndBuild, RemoveTemplate
<1>6. ASSUME NEW a \in Applies, ApplyJobStep(a)
      PROVE  UNCHANGED <<lastId, host>>
  BY <1>6 DEF ApplyJobStep, RecordCluster, WriteSecret, ApplyObject, EndApply, RemoveCluster
<1>7. QED
  BY <1>0, <1>1, <1>2, <1>3, <1>4, <1>5, <1>6 DEF ConnectionsNext

(***************************************************************************)
(* Connect requests leave all else alone; only pages change panels, builds *)
(* their rows and states, and applies theirs.                              *)
(***************************************************************************)
LEMMA WhoChangesWhat ==
  ASSUME ConnectionsNext
  PROVE  /\ \/ panel' = panel
            \/ \E t \in Tabs : \/ \E i \in MaybeIds : OpenPage(t, i)
                               \/ \E i \in Ids : LoadPanel(t, i)
         /\ \/ UNCHANGED <<build, template>>
            \/ \E i \in Ids : RemoveConnection(i)
            \/ \E t \in Tabs, i \in Ids, b \in Builds : StartBuild(b, t, i)
            \/ \E b \in Builds : BuildStep(b)
         /\ \/ UNCHANGED <<apply, cluster, secret, objects, exposed>>
            \/ \E i \in Ids : RemoveConnection(i)
            \/ \E t \in Tabs, i \in Ids, b \in Builds, a \in Applies : Preview(a, t, i, b)
            \/ \E a \in Applies : ApplyJobStep(a)
<1> USE DEF pageVars, workVars
<1>1. ASSUME NEW t \in Tabs, Connect(t)
      PROVE  UNCHANGED <<panel, build, template, apply, cluster, secret, objects, exposed>>
  BY <1>1 DEF Connect, CheckKnown, ReachHost, CountRows, InsertConnection, GiveUp
<1>2. ASSUME NEW i \in Ids, RemoveConnection(i)
      PROVE  panel' = panel
  BY <1>2 DEF RemoveConnection
<1>3. ASSUME NEW t \in Tabs, Look(t)
      PROVE  /\ UNCHANGED <<build, template, apply, cluster, secret, objects, exposed>>
             /\ (\E i \in MaybeIds : OpenPage(t, i)) \/ (\E i \in Ids : LoadPanel(t, i))
  BY <1>3 DEF Look, OpenPage, LoadPanel
<1>4. ASSUME NEW t \in Tabs, Submit(t)
      PROVE  /\ panel' = panel
             /\ \/ /\ UNCHANGED <<apply, cluster, secret, objects, exposed>>
                   /\ \E i \in Ids, b \in Builds : StartBuild(b, t, i)
                \/ /\ UNCHANGED <<build, template>>
                   /\ \E i \in Ids, b \in Builds, a \in Applies : Preview(a, t, i, b)
  BY <1>4 DEF Submit, StartBuild, Preview
<1>5. ASSUME NEW b \in Builds, BuildStep(b)
      PROVE  UNCHANGED <<panel, apply, cluster, secret, objects, exposed>>
  BY <1>5 DEF BuildStep, RecordTemplate, EndBuild, RemoveTemplate
<1>6. ASSUME NEW a \in Applies, ApplyJobStep(a)
      PROVE  UNCHANGED <<panel, build, template>>
  BY <1>6 DEF ApplyJobStep, RecordCluster, WriteSecret, ApplyObject, EndApply, RemoveCluster
<1>7. CASE \E t \in Tabs : Connect(t) \/ Look(t) \/ Submit(t)
  BY <1>1, <1>3, <1>4, <1>7
<1>8. CASE (\E i \in Ids : RemoveConnection(i)) \/ (\E b \in Builds : BuildStep(b))
           \/ (\E a \in Applies : ApplyJobStep(a))
  BY <1>2, <1>5, <1>6, <1>8
<1>9. QED
  BY <1>7, <1>8 DEF ConnectionsNext

(***************************************************************************)
(* A panel says the host of the connection it names.                       *)
(***************************************************************************)
LEMMA PanelsStep ==
  ASSUME ConnectionsTypeOK, ConnectionsNext, PanelsTrue
  PROVE  PanelsTrue'
<1> USE ConnectionsAssumption DEF MaybeIds, Ids
<1>0. /\ lastId \in 0 .. MaxId /\ live \subseteq 1 .. lastId
      /\ panel \in [Tabs -> [id : 0 .. MaxId, host : MaybeHost]]
  BY DEF ConnectionsTypeOK
<1>a. ASSUME NEW t \in Tabs, panel'[t] = panel[t]
      PROVE  panel'[t].id # 0 => panel'[t].id <= lastId' /\ panel'[t].host = host'[panel'[t].id]
  <2>1. panel[t].id \in 0 .. MaxId
    BY <1>0
  <2>2. QED
    BY <1>0, <1>a, <2>1, IdsStand DEF PanelsTrue
<1>1. CASE panel' = panel
  BY <1>a, <1>1 DEF PanelsTrue
<1>2. ASSUME NEW t \in Tabs, NEW i \in MaybeIds, OpenPage(t, i)
      PROVE  PanelsTrue'
  <2>1. panel'[t].id = 0 /\ \A u \in Tabs \ {t} : panel'[u] = panel[u]
    BY <1>0, <1>2 DEF OpenPage
  <2>2. QED
    BY <1>a, <2>1 DEF PanelsTrue
<1>3. ASSUME NEW t \in Tabs, NEW i \in Ids, LoadPanel(t, i)
      PROVE  PanelsTrue'
  <2>1. /\ panel'[t] = [id |-> i, host |-> host[i]] /\ i \in live
        /\ UNCHANGED <<lastId, host>> /\ \A u \in Tabs \ {t} : panel'[u] = panel[u]
    BY <1>0, <1>3 DEF LoadPanel, Active, connVars
  <2>2. QED
    BY <1>0, <1>a, <2>1 DEF PanelsTrue
<1>4. QED
  BY <1>1, <1>2, <1>3, WhoChangesWhat

(***************************************************************************)
(* What was noted of a connection stays true.                              *)
(***************************************************************************)
LEMMA NotedStays ==
  ASSUME ConnectionsTypeOK, ConnectionsNext, NEW x, Noted(x)
  PROVE  x.id \in 1 .. lastId' /\ x.host = host'[x.id] /\ x.seen = x.host
<1>1. lastId \in Nat
  BY ConnectionsAssumption DEF ConnectionsTypeOK, MaybeIds
<1>2. QED
  BY <1>1, IdsStand DEF Noted

(***************************************************************************)
(* Builds go where their panel said, and have no row before they are over. *)
(***************************************************************************)
LEMMA BuildsStep ==
  ASSUME ConnectionsTypeOK, ConnectionsNext, PanelsTrue, BuildsTrue
  PROVE  BuildsTrue'
<1> USE ConnectionsAssumption DEF MaybeIds, Ids, workVars
<1>0. /\ lastId \in 0 .. MaxId /\ live \subseteq 1 .. lastId
      /\ build \in [Builds -> BuildStates] /\ template \in [Builds -> 0 .. MaxId]
  BY DEF ConnectionsTypeOK
<1>1. ASSUME NEW b \in Builds, build'[b] = build[b],
             template'[b] = template[b] \/ template'[b] = 0
      PROVE  /\ IF build'[b].at = "new" THEN build'[b].host = build'[b].seen
                ELSE Noted(build[b])'
             /\ build'[b].at # "over" => template'[b] = 0
  <2>1. Noted(build[b]) => Noted(build[b])'
    BY <1>1, NotedStays DEF Noted
  <2>2. QED
    BY <1>1, <2>1 DEF BuildsTrue
<1>2. CASE UNCHANGED <<build, template>>
  BY <1>1, <1>2 DEF BuildsTrue
<1>3. ASSUME NEW i \in Ids, RemoveConnection(i)
      PROVE  BuildsTrue'
  <2>1. \A b \in Builds : build'[b] = build[b] /\ (template'[b] = template[b] \/ template'[b] = 0)
    BY <1>3 DEF RemoveConnection, Cascade
  <2>2. QED
    BY <1>1, <2>1 DEF BuildsTrue
<1>4. ASSUME NEW t \in Tabs, NEW i \in Ids, NEW b \in Builds, StartBuild(b, t, i)
      PROVE  BuildsTrue'
  <2>1. /\ build'[b] = [at |-> "running", id |-> i, host |-> host[i], seen |-> panel[t].host]
        /\ UNCHANGED <<lastId, host, template>>
        /\ i = panel[t].id /\ i \in live
        /\ \A c \in Builds \ {b} : build'[c] = build[c]
    BY <1>0, <1>4 DEF StartBuild, FormConnection, connVars
  <2>2. i \in 1 .. lastId /\ panel[t].host = host[i]
    BY <1>0, <2>1 DEF PanelsTrue
  <2>3. Noted(build[b])' /\ build'[b].at = "running" /\ template'[b] = 0
    BY <1>4, <2>1, <2>2 DEF Noted, StartBuild, BuildsTrue
  <2>4. QED
    BY <1>1, <2>1, <2>3 DEF BuildsTrue
<1>5. ASSUME NEW b \in Builds, BuildStep(b)
      PROVE  BuildsTrue'
  <2>1. CASE RemoveTemplate(b)
    <3>1. \A c \in Builds : build'[c] = build[c] /\ (template'[c] = template[c] \/ template'[c] = 0)
      BY <1>0, <2>1 DEF RemoveTemplate
    <3>2. QED
      BY <1>1, <3>1 DEF BuildsTrue
  <2>2. CASE RecordTemplate(b) \/ EndBuild(b)
    <3>1. /\ build[b].at = "running" /\ build'[b] = [build[b] EXCEPT !.at = "over"]
          /\ \A c \in Builds \ {b} : build'[c] = build[c] /\ template'[c] = template[c]
      BY <1>0, <2>2 DEF RecordTemplate, EndBuild
    <3>2. Noted(build[b])
      BY <3>1 DEF BuildsTrue
    <3>3. /\ build[b].id \in 1 .. lastId' /\ build[b].host = host'[build[b].id]
          /\ build[b].seen = build[b].host
      BY <3>2, NotedStays
    <3>4. build'[b].at = "over" /\ build'[b].id = build[b].id /\ build'[b].host = build[b].host
          /\ build'[b].seen = build[b].seen
      <4>1. build[b] \in BuildStates
        BY <1>0
      <4>2. QED
        BY <3>1, <4>1 DEF BuildStates
    <3>5. Noted(build[b])' /\ build'[b].at = "over"
      BY <3>3, <3>4 DEF Noted
    <3>6. QED
      BY <1>1, <3>1, <3>5 DEF BuildsTrue
  <2>3. QED
    BY <1>5, <2>1, <2>2 DEF BuildStep
<1>6. QED
  BY <1>2, <1>3, <1>4, <1>5, WhoChangesWhat

(***************************************************************************)
(* An apply that a step leaves alone, but for its row, keeps its facts: a  *)
(* Secret is only ever written with the host of the id in its name.        *)
(***************************************************************************)
LEMMA ApplyKept ==
  ASSUME ConnectionsTypeOK, ConnectionsNext, AppliesTrue, SecretsTrue,
         \A i \in Ids : secret'[i] \in {secret[i], host[i], Nothing},
         NEW a \in Applies, apply'[a] = apply[a],
         cluster'[a] = cluster[a] \/ cluster'[a] = 0,
         a \in objects' => a \in objects
  PROVE  /\ IF apply'[a].at = "new" THEN apply'[a].host = apply'[a].seen ELSE Noted(apply[a])'
         /\ apply'[a].at \in {"recorded", "synced"} => apply'[a].token = apply'[a].host
         /\ apply'[a].at # "new" => apply'[a].from \in Builds
         /\ apply'[a].at \in {"new", "previewed"} => cluster'[a] = 0
         /\ a \in objects' => apply'[a].at = "over"
         /\ a \in objects' \/ apply'[a].at = "synced" => secret'[apply'[a].id] \in {apply'[a].host, Nothing}
<1>1. Noted(apply[a]) => Noted(apply[a])'
  BY NotedStays DEF Noted
<1>2. Noted(apply[a]) => apply[a].id \in Ids /\ apply[a].host = host[apply[a].id]
  BY ConnectionsAssumption DEF Noted, ConnectionsTypeOK, MaybeIds, Ids
<1>3. a \in objects' \/ apply'[a].at = "synced" => secret'[apply'[a].id] \in {apply'[a].host, Nothing}
  <2>1. SUFFICES ASSUME a \in objects \/ apply[a].at = "synced"
                 PROVE  secret'[apply[a].id] \in {apply[a].host, Nothing}
    OBVIOUS
  <2>2. Noted(apply[a]) /\ secret[apply[a].id] \in {apply[a].host, Nothing}
    BY <2>1 DEF AppliesTrue, SecretsTrue
  <2>3. QED
    BY <1>2, <2>2
<1>4. QED
  BY <1>1, <1>3 DEF AppliesTrue, SecretsTrue

(***************************************************************************)
(* What a step of an apply's job does to its own apply and to Secrets.     *)
(***************************************************************************)
LEMMA ApplyJobStepOwn ==
  ASSUME ConnectionsTypeOK, AppliesTrue, SecretsTrue, NEW a \in Applies, ApplyJobStep(a)
  PROVE  /\ UNCHANGED <<lastId, host>>
         /\ \A i \in Ids : secret'[i] \in {secret[i], host[i], Nothing}
         /\ \A c \in Applies \ {a} :
              apply'[c] = apply[c] /\ cluster'[c] = cluster[c] /\ (c \in objects' => c \in objects)
         /\ apply[a].at # "new" /\ apply'[a].at \in {"recorded", "synced", "over"}
         /\ apply'[a].id = apply[a].id /\ apply'[a].host = apply[a].host
         /\ apply'[a].seen = apply[a].seen /\ apply'[a].from = apply[a].from
         /\ apply'[a].at \in {"recorded", "synced"} => apply'[a].token = apply'[a].host
         /\ a \in objects' => apply'[a].at = "over"
         /\ a \in objects' \/ apply'[a].at = "synced" => secret'[apply'[a].id] \in {apply'[a].host, Nothing}
<1> USE ConnectionsAssumption DEF Ids, MaybeIds, connVars
<1>0. /\ lastId \in 0 .. MaxId /\ apply \in [Applies -> ApplyStates] /\ secret \in [1 .. MaxId -> MaybeHost]
      /\ cluster \in [Applies -> 0 .. MaxId] /\ objects \subseteq Applies
  BY DEF ConnectionsTypeOK
<1>1. apply[a].at # "new" => apply[a].id \in 1 .. MaxId /\ apply[a].host = host[apply[a].id]
  BY <1>0 DEF AppliesTrue, Noted
<1>a. apply[a] \in ApplyStates
  BY <1>0
<1> DEFINE Same == /\ apply'[a].id = apply[a].id /\ apply'[a].host = apply[a].host
                   /\ apply'[a].seen = apply[a].seen /\ apply'[a].from = apply[a].from
<1>b. ASSUME NEW p, apply'[a] = [apply[a] EXCEPT !.at = p]
      PROVE  Same /\ apply'[a].at = p /\ apply'[a].token = apply[a].token
  BY <1>a, <1>b DEF ApplyStates
<1>c. ASSUME NEW h, apply'[a] = [apply[a] EXCEPT !.at = "recorded", !.token = h]
      PROVE  Same /\ apply'[a].at = "recorded" /\ apply'[a].token = h
  BY <1>a, <1>c DEF ApplyStates
<1>3. ASSUME NEW i \in Ids, RecordCluster(a, i)
      PROVE  /\ UNCHANGED <<lastId, host, secret, objects>>
             /\ \A c \in Applies \ {a} : apply'[c] = apply[c] /\ cluster'[c] = cluster[c]
             /\ apply[a].at = "previewed" /\ i = apply[a].id
             /\ apply'[a] = [apply[a] EXCEPT !.at = "recorded", !.token = host[i]]
  BY <1>0, <1>3 DEF RecordCluster, FormConnection
<1>4. CASE \E i \in Ids : RecordCluster(a, i)
  <2>1. PICK i \in Ids : RecordCluster(a, i)
    BY <1>4
  <2>2. apply[a].at # "over" /\ a \notin objects
    BY <1>3, <2>1 DEF SecretsTrue
  <2>3. Same /\ apply'[a].at = "recorded" /\ apply'[a].token = host[i]
    BY <1>3, <1>c, <2>1
  <2>4. apply[a].at = "previewed" /\ host[i] = apply[a].host
    BY <1>1, <1>3, <2>1
  <2>5. QED
    BY <1>3, <2>1, <2>2, <2>3, <2>4
<1>5. CASE WriteSecret(a)
  <2>1. /\ UNCHANGED <<lastId, host, cluster, objects>>
        /\ apply[a].at = "recorded"
        /\ apply'[a] = [apply[a] EXCEPT !.at = "synced"]
        /\ \A c \in Applies \ {a} : apply'[c] = apply[c]
        /\ secret' = [secret EXCEPT ![apply[a].id] = apply[a].token]
    BY <1>0, <1>5 DEF WriteSecret
  <2>2. apply[a].token = apply[a].host /\ a \notin objects
    BY <2>1 DEF AppliesTrue, SecretsTrue
  <2>3. secret'[apply[a].id] \in {apply[a].host, Nothing}
        /\ \A i \in Ids : secret'[i] \in {secret[i], host[i], Nothing}
    BY <1>0, <1>1, <2>1, <2>2
  <2>4. Same /\ apply'[a].at = "synced" /\ apply'[a].token = apply[a].token
    BY <1>b, <2>1
  <2>5. QED
    BY <2>1, <2>2, <2>3, <2>4
<1>6. CASE ApplyObject(a) \/ RemoveCluster(a)
  <2>1. /\ UNCHANGED <<lastId, host>>
        /\ \A c \in Applies \ {a} :
             apply'[c] = apply[c] /\ cluster'[c] = cluster[c] /\ (c \in objects' => c \in objects)
    BY <1>0, <1>6 DEF ApplyObject, RemoveCluster
  <2>a. \A i \in Ids : secret'[i] \in {secret[i], Nothing}
    <3>1. secret' = secret \/ secret' = [secret EXCEPT ![apply[a].id] = Nothing]
      BY <1>6 DEF ApplyObject, RemoveCluster, Collect
    <3>2. QED
      BY <1>0, <3>1
  <2>2. CASE ApplyObject(a)
    <3>1. apply[a].at = "synced" /\ apply'[a] = [apply[a] EXCEPT !.at = "over"] /\ secret' = secret
      BY <1>0, <2>2 DEF ApplyObject
    <3>2. secret[apply[a].id] \in {apply[a].host, Nothing}
      BY <3>1 DEF SecretsTrue
    <3>3. Same /\ apply'[a].at = "over"
      BY <1>b, <3>1
    <3>4. QED
      BY <2>1, <2>a, <3>1, <3>2, <3>3
  <2>3. CASE RemoveCluster(a)
    <3>1. apply[a].at = "over" /\ apply' = apply /\ a \notin objects'
      BY <2>3 DEF RemoveCluster
    <3>2. QED
      BY <2>1, <2>a, <3>1
  <2>4. QED
    BY <1>6, <2>2, <2>3
<1>7. CASE EndApply(a)
  <2>1. /\ UNCHANGED <<lastId, host>>
        /\ apply[a].at \in {"previewed", "recorded", "synced"}
        /\ apply'[a] = [apply[a] EXCEPT !.at = "over"]
        /\ \A c \in Applies \ {a} : apply'[c] = apply[c]
    BY <1>0, <1>7 DEF EndApply
  <2>2. /\ \A c \in Applies \ {a} : cluster'[c] = cluster[c] /\ (c \in objects' => c \in objects)
        /\ a \in objects' => a \in objects \/ (apply[a].at = "synced" /\ secret' = secret)
    <3>1. CASE UNCHANGED <<cluster, secret, objects>>
      BY <3>1
    <3>2. CASE apply[a].at = "recorded"
      <4>1. objects' = objects /\ (cluster' = cluster \/ cluster' = [cluster EXCEPT ![a] = 0])
        BY <1>7, <3>2 DEF EndApply
      <4>2. \A c \in Applies \ {a} : cluster'[c] = cluster[c]
        <5>1. CASE cluster' = cluster
          BY <5>1
        <5>2. CASE cluster' = [cluster EXCEPT ![a] = 0]
          BY <1>0, <5>2
        <5>3. QED
          BY <4>1, <5>1, <5>2
      <4>3. \A c \in Applies : c \in objects' => c \in objects
        BY <4>1
      <4>4. QED
        BY <4>2, <4>3
    <3>3. CASE apply[a].at = "synced"
      <4>1. UNCHANGED <<cluster, secret>> /\ (objects' = objects \/ objects' = objects \cup {a})
        BY <1>7, <3>3 DEF EndApply
      <4>2. QED
        BY <3>3, <4>1
    <3>4. QED
      BY <1>7, <3>1, <3>2, <3>3 DEF EndApply
  <2>3. \/ secret' = secret
        \/ apply[a].at = "recorded" /\ secret' = [secret EXCEPT ![apply[a].id] = apply[a].token]
    BY <1>7 DEF EndApply
  <2>4. apply[a].at = "recorded" => apply[a].token = host[apply[a].id]
    BY <1>1 DEF AppliesTrue
  <2>5. \A i \in Ids : secret'[i] \in {secret[i], host[i], Nothing}
    BY <1>0, <1>1, <2>3, <2>4
  <2>6. a \notin objects
    BY <2>1 DEF SecretsTrue
  <2>7. a \in objects' => secret'[apply[a].id] \in {apply[a].host, Nothing}
    BY <2>2, <2>6 DEF SecretsTrue
  <2>8. Same /\ apply'[a].at = "over"
    BY <1>b, <2>1
  <2>9. QED
    BY <2>1, <2>2, <2>5, <2>7, <2>8
<1>8. QED
  BY <1>4, <1>5, <1>6, <1>7 DEF ApplyJobStep

(***************************************************************************)
(* A Secret goes with the last of its owners, and leaves exposed whoever   *)
(* counted on it.                                                          *)
(***************************************************************************)
LEMMA SecretsStayStep ==
  ASSUME ConnectionsTypeOK, ConnectionsNext, AppliesTrue, SecretsTrue, SecretsStay
  PROVE  SecretsStay'
<1> USE ConnectionsAssumption DEF Ids, MaybeIds
<1>0. /\ apply \in [Applies -> ApplyStates] /\ secret \in [1 .. MaxId -> MaybeHost]
      /\ lastId \in 0 .. MaxId /\ objects \subseteq Applies
  BY DEF ConnectionsTypeOK
<1>1. ASSUME NEW c \in Applies, apply[c].at # "new"
      PROVE  apply[c].id \in 1 .. MaxId /\ apply[c].host = host[apply[c].id]
  BY <1>0, <1>1 DEF AppliesTrue, Noted
<1>2. CASE UNCHANGED <<apply, cluster, secret, objects, exposed>>
  BY <1>2 DEF SecretsStay, Finds
<1>3. ASSUME NEW i \in Ids, RemoveConnection(i)
      PROVE  SecretsStay'
  BY <1>3 DEF RemoveConnection, SecretsStay, Finds
<1>a. ASSUME NEW a \in Applies,
             \A c \in Applies \ {a} : apply'[c] = apply[c] /\ (c \in objects' => c \in objects),
             UNCHANGED <<secret, exposed>>, Finds(a)'
      PROVE  SecretsStay'
  BY <1>a DEF SecretsStay, Finds
<1>4. ASSUME NEW t \in Tabs, NEW i \in Ids, NEW b \in Builds, NEW a \in Applies, Preview(a, t, i, b)
      PROVE  SecretsStay'
  <2>1. /\ apply'[a].at = "previewed" /\ a \notin objects'
        /\ UNCHANGED <<secret, exposed, objects>> /\ \A c \in Applies \ {a} : apply'[c] = apply[c]
    BY <1>0, <1>4 DEF Preview, SecretsTrue
  <2>2. QED
    BY <1>a, <2>1 DEF Finds
<1>5. ASSUME NEW a \in Applies, ApplyJobStep(a)
      PROVE  SecretsStay'
  <2>0. /\ \A c \in Applies \ {a} : apply'[c] = apply[c] /\ (c \in objects' => c \in objects)
        /\ apply'[a].id = apply[a].id /\ apply'[a].host = apply[a].host
        /\ apply[a].at # "new"
    BY <1>5, ApplyJobStepOwn
  <2>1. CASE \E i \in Ids : RecordCluster(a, i)
    <3>1. apply'[a].at = "recorded" /\ a \notin objects' /\ UNCHANGED <<secret, exposed>>
      BY <1>0, <1>5, <2>1 DEF RecordCluster, SecretsTrue
    <3>2. QED
      BY <1>a, <2>0, <3>1 DEF Finds
  <2>a. ASSUME secret' = [secret EXCEPT ![apply[a].id] = apply[a].token], exposed' = exposed,
               apply[a].at = "recorded", objects' = objects
        PROVE  SecretsStay'
    <3>1. apply[a].token = apply[a].host /\ a \notin objects
      BY <2>a DEF AppliesTrue, SecretsTrue
    <3>2. apply[a].id \in 1 .. MaxId /\ apply[a].host = host[apply[a].id]
      BY <1>1, <2>0
    <3>3. Finds(a)'
      BY <1>0, <2>0, <2>a, <3>1, <3>2 DEF Finds
    <3>4. ASSUME NEW c \in Applies \ {a}
          PROVE  Finds(c)'
      <4>1. SUFFICES ASSUME c \in objects \/ apply[c].at = "synced", c \notin exposed
                     PROVE  secret'[apply[c].id] = apply[c].host
        BY <2>0, <2>a DEF Finds
      <4>2. apply[c].at # "new" /\ secret[apply[c].id] = apply[c].host
        BY <4>1 DEF SecretsTrue, SecretsStay, Finds
      <4>3. QED
        BY <1>0, <1>1, <2>a, <3>1, <3>2, <4>2
    <3>5. QED
      BY <3>3, <3>4 DEF SecretsStay
  <2>2. CASE WriteSecret(a)
    BY <2>2, <2>a DEF WriteSecret
  <2>3. CASE ApplyObject(a)
    <3>1. apply[a].at = "synced" /\ UNCHANGED <<secret, exposed>>
      BY <2>3 DEF ApplyObject
    <3>2. Finds(a)'
      BY <2>0, <3>1 DEF SecretsStay, Finds
    <3>3. QED
      BY <1>a, <2>0, <3>1, <3>2
  <2>4. CASE EndApply(a)
    <3>1. /\ apply'[a].at = "over" /\ exposed' = exposed
          /\ apply[a].at \in {"previewed", "recorded", "synced"}
      BY <1>0, <2>4 DEF EndApply
    <3>2. CASE apply[a].at = "recorded" /\ secret' # secret
      <4>1. secret' = [secret EXCEPT ![apply[a].id] = apply[a].token] /\ objects' = objects
        BY <2>4, <3>2 DEF EndApply
      <4>2. QED
        BY <2>a, <3>1, <3>2, <4>1
    <3>3. CASE secret' = secret
      <4>1. a \in objects' => apply[a].at = "synced" \/ a \in objects
        BY <2>4, <3>1 DEF EndApply
      <4>2. Finds(a)'
        BY <2>0, <3>1, <3>3, <4>1 DEF SecretsStay, Finds
      <4>3. QED
        BY <1>a, <2>0, <3>1, <3>3, <4>2
    <3>4. QED
      BY <2>4, <3>1, <3>2, <3>3 DEF EndApply
  <2>5. CASE RemoveCluster(a)
    <3>1. /\ apply[a].at = "over" /\ apply' = apply /\ objects' = objects \ {a} /\ Collect(a)
      BY <2>5 DEF RemoveCluster
    <3>2. CASE UNCHANGED <<secret, exposed>>
      BY <1>a, <2>0, <3>1, <3>2 DEF Finds
    <3>3. CASE /\ Last(a) /\ secret' = [secret EXCEPT ![apply[a].id] = Nothing]
               /\ exposed' = exposed \cup
                    {c \in Applies : apply[c].at = "synced" /\ apply[c].id = apply[a].id}
      <4>1. ASSUME NEW c \in Applies
            PROVE  Finds(c)'
        <5>1. SUFFICES ASSUME c \in objects \ {a} \/ apply[c].at = "synced", c \notin exposed'
                       PROVE  secret'[apply[c].id] = apply[c].host
          BY <3>1 DEF Finds
        <5>2. apply[c].at # "new" /\ secret[apply[c].id] = apply[c].host /\ apply[c].id # apply[a].id
          BY <3>3, <5>1 DEF SecretsTrue, SecretsStay, Finds, Last
        <5>3. QED
          BY <1>0, <1>1, <3>3, <5>2
      <4>2. QED
        BY <4>1 DEF SecretsStay
    <3>4. QED
      BY <3>1, <3>2, <3>3 DEF Collect
  <2>6. QED
    BY <1>5, <2>1, <2>2, <2>3, <2>4, <2>5 DEF ApplyJobStep
<1>6. QED
  BY <1>2, <1>3, <1>4, <1>5, WhoChangesWhat

(***************************************************************************)
(* Applies go where their panel said, with credentials to match.           *)
(***************************************************************************)
LEMMA AppliesStep ==
  ASSUME ConnectionsTypeOK, ConnectionsNext, PanelsTrue, AppliesTrue, SecretsTrue
  PROVE  AppliesTrue' /\ SecretsTrue'
<1> USE ConnectionsAssumption DEF Ids, MaybeIds, connVars
<1>0. /\ lastId \in 0 .. MaxId /\ live \subseteq 1 .. lastId
      /\ apply \in [Applies -> ApplyStates] /\ cluster \in [Applies -> 0 .. MaxId]
  BY DEF ConnectionsTypeOK
<1>1. ASSUME \A a \in Applies : /\ apply'[a] = apply[a] /\ (cluster'[a] = cluster[a] \/ cluster'[a] = 0)
                                /\ a \in objects' => a \in objects,
             secret' = secret
      PROVE  AppliesTrue' /\ SecretsTrue'
  BY <1>1, ApplyKept DEF AppliesTrue, SecretsTrue
<1>2. CASE UNCHANGED <<apply, cluster, secret, objects, exposed>>
  BY <1>1, <1>2
<1>3. ASSUME NEW i \in Ids, RemoveConnection(i)
      PROVE  AppliesTrue' /\ SecretsTrue'
  <2>1. /\ UNCHANGED <<apply, secret, objects>>
        /\ \A a \in Applies : cluster'[a] = cluster[a] \/ cluster'[a] = 0
    BY <1>3 DEF RemoveConnection, Cascade
  <2>2. QED
    BY <1>1, <2>1
<1>4. ASSUME NEW t \in Tabs, NEW i \in Ids, NEW b \in Builds, NEW a \in Applies, Preview(a, t, i, b)
      PROVE  AppliesTrue' /\ SecretsTrue'
  <2>1. /\ apply[a].at = "new" /\ i = panel[t].id /\ i \in live
        /\ apply'[a] = [at |-> "previewed", id |-> i, host |-> host[i], seen |-> panel[t].host,
                        token |-> Nothing, from |-> b]
        /\ \A c \in Applies \ {a} : apply'[c] = apply[c]
        /\ UNCHANGED <<lastId, host, cluster, secret, objects>>
    BY <1>0, <1>4 DEF Preview, FormConnection
  <2>2. Noted(apply[a])' /\ cluster'[a] = 0 /\ a \notin objects'
    BY <1>0, <2>1 DEF PanelsTrue, Noted, AppliesTrue, SecretsTrue
  <2>3. QED
    BY <2>1, <2>2, ApplyKept DEF AppliesTrue, SecretsTrue
<1>5. ASSUME NEW a \in Applies, ApplyJobStep(a)
      PROVE  AppliesTrue' /\ SecretsTrue'
  <2>1. apply[a].at # "new" /\ UNCHANGED <<lastId, host>>
        /\ apply'[a].id = apply[a].id /\ apply'[a].host = apply[a].host
        /\ apply'[a].seen = apply[a].seen /\ apply'[a].from = apply[a].from
        /\ apply'[a].at \in {"recorded", "synced", "over"}
    BY <1>5, ApplyJobStepOwn
  <2>2. Noted(apply[a])' /\ apply'[a].from \in Builds
    BY <2>1 DEF AppliesTrue, Noted
  <2>3. \A c \in Applies \ {a} :
          /\ apply'[c] = apply[c] /\ cluster'[c] = cluster[c] /\ (c \in objects' => c \in objects)
    BY <1>5, ApplyJobStepOwn
  <2>4. \A i \in Ids : secret'[i] \in {secret[i], host[i], Nothing}
    BY <1>5, ApplyJobStepOwn
  <2>5. /\ apply'[a].at \in {"recorded", "synced"} => apply'[a].token = apply'[a].host
        /\ a \in objects' => apply'[a].at = "over"
        /\ a \in objects' \/ apply'[a].at = "synced" => secret'[apply'[a].id] \in {apply'[a].host, Nothing}
    BY <1>5, ApplyJobStepOwn
  <2>6. QED
    BY <2>1, <2>2, <2>3, <2>4, <2>5, ApplyKept DEF AppliesTrue, SecretsTrue
<1>6. QED
  BY <1>2, <1>3, <1>4, <1>5, WhoChangesWhat

-----------------------------------------------------------------------------
(* Rows *)

(***************************************************************************)
(* The rows below a connection go with it, and none is added below one     *)
(* that is gone.  A build records its row only once, so no cluster finds   *)
(* its template's row moved to another connection.                         *)
(***************************************************************************)
LEMMA RowsStep ==
  ASSUME ConnectionsTypeOK, ConnectionsNext, BuildsTrue, AppliesTrue, SecretsTrue, NoDanglingRows
  PROVE  NoDanglingRows'
<1> USE ConnectionsAssumption DEF Ids, MaybeIds, connVars, workVars
<1>0. /\ template \in [Builds -> 0 .. MaxId] /\ build \in [Builds -> BuildStates]
      /\ cluster \in [Applies -> 0 .. MaxId] /\ apply \in [Applies -> ApplyStates]
  BY DEF ConnectionsTypeOK
<1>a. \A a \in Applies : cluster[a] # 0 => apply[a].from \in Builds
  BY DEF AppliesTrue
<1>1. CASE UNCHANGED <<template, apply, cluster>> /\ live \subseteq live'
  BY <1>1 DEF NoDanglingRows
<1>2. ASSUME NEW t \in Tabs, Connect(t) \/ Look(t)
      PROVE  NoDanglingRows'
  <2>1. CASE Connect(t)
    BY <1>1, <2>1 DEF Connect, CheckKnown, ReachHost, CountRows, InsertConnection, GiveUp
  <2>2. CASE Look(t)
    BY <1>1, <2>2 DEF Look, OpenPage, LoadPanel
  <2>3. QED
    BY <1>2, <2>1, <2>2
<1>3. ASSUME NEW i \in Ids, RemoveConnection(i)
      PROVE  NoDanglingRows'
  <2>1. live' = live \ {i} /\ apply' = apply
    BY <1>3 DEF RemoveConnection
  <2>2. /\ \A b \in Builds : template'[b] = IF template[b] = i THEN 0 ELSE template[b]
        /\ \A a \in Applies : cluster'[a] = IF cluster[a] = i THEN 0 ELSE cluster[a]
    BY <1>3 DEF RemoveConnection, Cascade
  <2>3. \A b \in Builds : template'[b] # 0 => template'[b] \in live'
    BY <2>1, <2>2 DEF NoDanglingRows
  <2>4. ASSUME NEW a \in Applies, cluster'[a] # 0
        PROVE  cluster'[a] \in live' /\ template'[apply[a].from] = cluster'[a]
    <3>1. cluster[a] # 0 /\ cluster[a] # i /\ cluster'[a] = cluster[a]
      BY <2>2, <2>4
    <3>2. cluster[a] \in live /\ template[apply[a].from] = cluster[a] /\ apply[a].from \in Builds
      BY <1>a, <3>1 DEF NoDanglingRows
    <3>3. QED
      BY <2>1, <2>2, <3>1, <3>2
  <2>5. QED
    BY <2>1, <2>3, <2>4 DEF NoDanglingRows
<1>4. ASSUME NEW t \in Tabs, NEW i \in Ids, NEW b \in Builds, StartBuild(b, t, i)
      PROVE  NoDanglingRows'
  BY <1>1, <1>4 DEF StartBuild
<1>5. ASSUME NEW t \in Tabs, NEW i \in Ids, NEW b \in Builds, NEW a \in Applies, Preview(a, t, i, b)
      PROVE  NoDanglingRows'
  <2>1. cluster[a] = 0 /\ \A c \in Applies \ {a} : apply'[c] = apply[c]
    BY <1>0, <1>5 DEF Preview, AppliesTrue
  <2>2. QED
    BY <1>5, <2>1 DEF Preview, NoDanglingRows
<1>6. ASSUME NEW b \in Builds, BuildStep(b)
      PROVE  NoDanglingRows'
  <2>1. CASE EndBuild(b)
    BY <1>1, <2>1 DEF EndBuild
  <2>2. CASE RecordTemplate(b)
    <3>1. /\ template[b] = 0 /\ template'[b] \in live
          /\ \A c \in Builds \ {b} : template'[c] = template[c]
          /\ UNCHANGED <<live, apply, cluster>>
      BY <1>0, <2>2 DEF RecordTemplate, BuildsTrue
    <3>2. QED
      BY <1>a, <3>1 DEF NoDanglingRows
  <2>3. CASE RemoveTemplate(b)
    <3>1. /\ template'[b] = 0
          /\ \A c \in Builds \ {b} : template'[c] = template[c]
          /\ \A a \in Applies : cluster[a] # 0 => apply[a].from # b
          /\ UNCHANGED <<live, apply, cluster>>
      BY <1>0, <2>3 DEF RemoveTemplate
    <3>2. QED
      BY <1>a, <3>1 DEF NoDanglingRows
  <2>4. QED
    BY <1>6, <2>1, <2>2, <2>3 DEF BuildStep
<1>7. ASSUME NEW a \in Applies, ApplyJobStep(a)
      PROVE  NoDanglingRows'
  <2>1. /\ UNCHANGED <<live, template>>
        /\ \/ cluster'[a] \in {cluster[a], 0}
           \/ cluster'[a] \in live /\ template[apply[a].from] = cluster'[a]
    <3>1. CASE \E i \in Ids : RecordCluster(a, i)
      BY <1>0, <3>1 DEF RecordCluster, FormConnection, TemplateOf
    <3>2. CASE WriteSecret(a) \/ ApplyObject(a)
      BY <3>2 DEF WriteSecret, ApplyObject
    <3>3. CASE EndApply(a) \/ RemoveCluster(a)
      <4>1. cluster' = cluster \/ cluster' = [cluster EXCEPT ![a] = 0]
        BY <3>3 DEF EndApply, RemoveCluster
      <4>2. cluster'[a] \in {cluster[a], 0}
        BY <1>0, <4>1
      <4>3. QED
        BY <3>3, <4>2 DEF EndApply, RemoveCluster
    <3>4. QED
      BY <1>7, <3>1, <3>2, <3>3 DEF ApplyJobStep
  <2>2. /\ \A c \in Applies \ {a} : apply'[c] = apply[c] /\ cluster'[c] = cluster[c]
        /\ apply'[a].from = apply[a].from
    BY <1>7, ApplyJobStepOwn
  <2>3. QED
    BY <2>1, <2>2 DEF NoDanglingRows
<1>8. QED
  BY <1>2, <1>3, <1>4, <1>5, <1>6, <1>7 DEF ConnectionsNext, Submit

-----------------------------------------------------------------------------
(* Connecting *)

(***************************************************************************)
(* While connect requests do not overlap, what one of them read before the *)
(* host answered is still so when it inserts.                              *)
(***************************************************************************)
LEMMA ConnectStep ==
  ASSUME ConnectionsTypeOK, ConnectionsNext, ChecksHold, OneByOneInOrder
  PROVE  ChecksHold' /\ OneByOneInOrder'
<1> USE ConnectionsAssumption DEF Ids, MaybeIds, connVars, entryVars, MoveOn
<1>0. /\ lastId \in 0 .. MaxId /\ host \in [1 .. MaxId -> MaybeHost]
      /\ live \subseteq 1 .. lastId /\ primary \subseteq live
      /\ connecting \in [Tabs -> {"idle", "unknown", "reached", "counted"}]
      /\ entered \in [Tabs -> MaybeHost] /\ first \in [Tabs -> BOOLEAN]
  BY DEF ConnectionsTypeOK
<1>1. ASSUME UNCHANGED <<connVars, entryVars>>
      PROVE  ChecksHold' /\ OneByOneInOrder'
  BY <1>1 DEF ChecksHold, OneByOneInOrder, IdentifiedByToken
<1>2. ASSUME NEW t \in Tabs, NEW h \in Hosts, CheckKnown(t, h)
      PROVE  ChecksHold' /\ OneByOneInOrder'
  <2>1. SUFFICES ASSUME ~overlapped'
                 PROVE  ChecksHold' /\ OneByOneInOrder'
    BY DEF ChecksHold, OneByOneInOrder
  <2>2. ~overlapped /\ \A u \in Tabs : connecting[u] = "idle"
    BY <1>2, <2>1 DEF CheckKnown
  <2>3. /\ connecting'[t] = "unknown" /\ \A u \in Tabs \ {t} : connecting'[u] = "idle"
        /\ entered'[t] = h /\ UNCHANGED connVars /\ \A i \in live : host[i] # h
    BY <1>0, <1>2, <2>2 DEF CheckKnown
  <2>4. QED
    BY <2>2, <2>3 DEF ChecksHold, OneByOneInOrder, IdentifiedByToken
<1>3. ASSUME NEW t \in Tabs, ReachHost(t) \/ GiveUp(t)
      PROVE  ChecksHold' /\ OneByOneInOrder'
  <2>1. /\ connecting[t] # "idle" /\ connecting'[t] # "counted"
        /\ \A u \in Tabs \ {t} : connecting'[u] = connecting[u]
        /\ UNCHANGED <<connVars, entered, first, overlapped>>
    BY <1>0, <1>3 DEF ReachHost, GiveUp
  <2>2. QED
    BY <2>1 DEF ChecksHold, OneByOneInOrder, IdentifiedByToken
<1>4. ASSUME NEW t \in Tabs, CountRows(t)
      PROVE  ChecksHold' /\ OneByOneInOrder'
  <2>1. /\ connecting[t] # "idle" /\ first'[t] = (live = {})
        /\ \A u \in Tabs \ {t} : connecting'[u] = connecting[u] /\ first'[u] = first[u]
        /\ UNCHANGED <<connVars, entered, overlapped>>
    BY <1>0, <1>4 DEF CountRows
  <2>2. QED
    BY <2>1 DEF ChecksHold, OneByOneInOrder, IdentifiedByToken
<1>5. ASSUME NEW t \in Tabs, InsertConnection(t)
      PROVE  ChecksHold' /\ OneByOneInOrder'
  <2>1. SUFFICES ASSUME ~overlapped
                 PROVE  ChecksHold' /\ OneByOneInOrder'
    BY <1>5 DEF InsertConnection, ChecksHold, OneByOneInOrder
  <2>2. /\ connecting[t] = "counted" /\ connecting'[t] = "idle"
        /\ \A u \in Tabs \ {t} : connecting'[u] = connecting[u]
        /\ lastId' = lastId + 1 /\ live' = live \cup {lastId'} /\ lastId' \in 1 .. MaxId
        /\ primary' = IF first[t] THEN primary \cup {lastId'} ELSE primary
    BY <1>0, <1>5 DEF InsertConnection
  <2>3. host'[lastId'] = entered[t] /\ \A i \in live : host'[i] = host[i] /\ i # lastId'
    BY <1>0, <1>5, <2>2 DEF InsertConnection
  <2>4. /\ \A u \in Tabs \ {t} : connecting[u] = "idle"
        /\ \A i \in live : host[i] # entered[t]
        /\ first[t] => live = {}
    BY <2>1, <2>2 DEF ChecksHold
  <2>5. \A u \in Tabs : connecting'[u] = "idle"
    BY <2>2, <2>4
  <2>6. IdentifiedByToken'
    BY <2>1, <2>2, <2>3, <2>4 DEF OneByOneInOrder, IdentifiedByToken
  <2>7. \A i, j \in primary' : i = j
    BY <1>0, <2>1, <2>2, <2>4 DEF OneByOneInOrder
  <2>8. QED
    BY <2>5, <2>6, <2>7 DEF ChecksHold, OneByOneInOrder
<1>6. ASSUME NEW i \in Ids, RemoveConnection(i)
      PROVE  ChecksHold' /\ OneByOneInOrder'
  BY <1>6 DEF RemoveConnection, ChecksHold, OneByOneInOrder, IdentifiedByToken
<1>7. ASSUME NEW t \in Tabs, Look(t) \/ Submit(t)
      PROVE  UNCHANGED <<connVars, entryVars>>
  BY <1>7 DEF Look, Submit, OpenPage, LoadPanel, StartBuild, Preview
<1>8. ASSUME NEW b \in Builds, BuildStep(b)
      PROVE  UNCHANGED <<connVars, entryVars>>
  BY <1>8 DEF BuildStep, RecordTemplate, EndBuild, RemoveTemplate
<1>9. ASSUME NEW a \in Applies, ApplyJobStep(a)
      PROVE  UNCHANGED <<connVars, entryVars>>
  BY <1>9 DEF ApplyJobStep, RecordCluster, WriteSecret, ApplyObject, EndApply, RemoveCluster
<1>10. QED
  BY <1>1, <1>2, <1>3, <1>4, <1>5, <1>6, <1>7, <1>8, <1>9 DEF ConnectionsNext, Connect

-----------------------------------------------------------------------------
(* The invariant and what follows from it *)

LEMMA ConnectionsStart == ConnectionsInit => ConnectionsIInv
<1> USE ConnectionsAssumption DEF ConnectionsInit, MaybeHost, MaybeIds, Ids
<1>1. ASSUME ConnectionsInit
      PROVE  ConnectionsTypeOK
  <2> DEFINE b0 == [at |-> "new", id |-> 0, host |-> Nothing, seen |-> Nothing]
             a0 == [at |-> "new", id |-> 0, host |-> Nothing, seen |-> Nothing,
                    token |-> Nothing, from |-> Nothing]
  <2>1. b0 \in BuildStates
    BY DEF BuildStates
  <2>2. a0 \in ApplyStates
    BY DEF ApplyStates
  <2>3. build = [b \in Builds |-> b0] /\ apply = [a \in Applies |-> a0]
    BY <1>1
  <2>4. build \in [Builds -> BuildStates] /\ apply \in [Applies -> ApplyStates]
    BY <2>1, <2>2, <2>3
  <2>5. /\ connecting \in [Tabs -> {"idle", "unknown", "reached", "counted"}]
        /\ panel \in [Tabs -> [id : 0 .. MaxId, host : Hosts \cup {Nothing}]]
    BY <1>1
  <2>6. live \subseteq 1 .. lastId /\ primary \subseteq live
        /\ objects \in SUBSET Applies /\ exposed \in SUBSET Applies
    BY <1>1
  <2>7. /\ lastId \in 0 .. MaxId /\ remembered \in 0 .. lastId
        /\ host \in [1 .. MaxId -> Hosts \cup {Nothing}] /\ secret \in [1 .. MaxId -> Hosts \cup {Nothing}]
    BY <1>1
  <2>8. /\ template \in [Builds -> 0 .. MaxId] /\ cluster \in [Applies -> 0 .. MaxId]
        /\ entered \in [Tabs -> Hosts \cup {Nothing}]
    BY <1>1
  <2>9. first \in [Tabs -> BOOLEAN] /\ overlapped \in BOOLEAN
    <3>1. first = [t \in Tabs |-> FALSE] /\ overlapped = FALSE
      BY <1>1
    <3>2. QED
      BY <3>1, Zenon
  <2>10. QED
    BY <2>4, <2>5, <2>6, <2>7, <2>8, <2>9 DEF ConnectionsTypeOK
<1>2. ASSUME ConnectionsInit
      PROVE  PanelsTrue /\ BuildsTrue /\ AppliesTrue /\ SecretsTrue /\ SecretsStay
  BY <1>2 DEF PanelsTrue, BuildsTrue, AppliesTrue, SecretsTrue, SecretsStay, Finds
<1>3. ASSUME ConnectionsInit
      PROVE  NoDanglingRows /\ ChecksHold /\ OneByOneInOrder
  BY <1>3 DEF NoDanglingRows, ChecksHold, OneByOneInOrder, IdentifiedByToken
<1>4. QED
  BY <1>1, <1>2, <1>3 DEF ConnectionsIInv

LEMMA ConnectionsStep == ConnectionsIInv /\ [ConnectionsNext]_vars => ConnectionsIInv'
<1>1. ASSUME ConnectionsIInv, ConnectionsNext
      PROVE  ConnectionsIInv'
  BY <1>1, ConnectionsTypeStep, PanelsStep, BuildsStep, AppliesStep, SecretsStayStep, RowsStep, ConnectStep
     DEF ConnectionsIInv
<1>2. ASSUME ConnectionsIInv, UNCHANGED vars
      PROVE  ConnectionsIInv'
  <2> USE <1>2 DEF vars, connVars, entryVars, pageVars, workVars, ConnectionsIInv
  <2>1. ConnectionsTypeOK' /\ PanelsTrue' /\ BuildsTrue' /\ AppliesTrue' /\ SecretsTrue' /\ SecretsStay'
    BY DEF ConnectionsTypeOK, PanelsTrue, BuildsTrue, AppliesTrue, SecretsTrue, SecretsStay, Finds, Noted
  <2>2. NoDanglingRows' /\ ChecksHold' /\ OneByOneInOrder'
    BY DEF NoDanglingRows, ChecksHold, OneByOneInOrder, IdentifiedByToken
  <2>3. QED
    BY <2>1, <2>2
<1>3. QED
  BY <1>1, <1>2

(***************************************************************************)
(* The inductive invariant: an id means one host for good, requests and    *)
(* panels say what its row said, and Secrets hold the host of their id.    *)
(***************************************************************************)
THEOREM ConnectionsInvariance == ConnectionsSpec => []ConnectionsIInv
<1>1. QED
  BY ConnectionsStart, ConnectionsStep, PTL DEF ConnectionsSpec

(***************************************************************************)
(* Every variable keeps its type; a primary connection has a row, and what *)
(* is remembered was once given to a connection.                           *)
(***************************************************************************)
THEOREM ConnectionsTypes == ConnectionsSpec => []ConnectionsTypeOK
<1>1. ConnectionsIInv => ConnectionsTypeOK
  BY DEF ConnectionsIInv
<1>2. QED
  BY <1>1, ConnectionsInvariance, PTL

(***************************************************************************)
(* As long as no two connect requests overlapped, no (url, token_id) has   *)
(* two rows and at most one row is primary (handleProxmoxConnect).         *)
(***************************************************************************)
THEOREM ConnectingOneByOne == ConnectionsSpec => []OneByOneInOrder
<1>1. ConnectionsIInv => OneByOneInOrder
  BY DEF ConnectionsIInv
<1>2. QED
  BY <1>1, ConnectionsInvariance, PTL

(***************************************************************************)
(* Templates and clusters name a connection that has a row, and a cluster  *)
(* a template of its own connection, whatever was disconnected while its   *)
(* build or its apply was at work.                                         *)
(***************************************************************************)
THEOREM RowsNeverDangle == ConnectionsSpec => []NoDanglingRows
<1>1. ConnectionsIInv => NoDanglingRows
  BY DEF ConnectionsIInv
<1>2. QED
  BY <1>1, ConnectionsInvariance, PTL

(***************************************************************************)
(* Builds and applies go to the host the panel they were submitted from    *)
(* showed (formConnection).                                                *)
(***************************************************************************)
THEOREM GoesWhereShown == ConnectionsSpec => []SentWhereShown
<1>1. ConnectionsIInv => SentWhereShown
  BY DEF ConnectionsIInv, BuildsTrue, AppliesTrue, SentWhereShown, Noted
<1>2. QED
  BY <1>1, ConnectionsInvariance, PTL

(***************************************************************************)
(* The Secret a cluster's object refers to never holds the credentials of  *)
(* another host than its manifest was made for, and is there as long as    *)
(* the object (EnsureConnectionCredentialsSecret, ApplySpec), whichever    *)
(* connections and clusters were removed and added, unless it went between *)
(* the first two steps of the object's own apply.                          *)
(***************************************************************************)
THEOREM CredentialsStay == ConnectionsSpec => []CredentialsKept
<1>1. ConnectionsIInv => CredentialsKept
  BY DEF ConnectionsIInv, ConnectionsTypeOK, SecretsTrue, SecretsStay, Finds, CredentialsKept
<1>2. QED
  BY <1>1, ConnectionsInvariance, PTL
=============================================================================
