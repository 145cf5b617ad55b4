-------------------------- MODULE ProxmoxConnections --------------------------
(***************************************************************************)
(* The Proxmox hosts a PVEKube instance knows, the pages that show one of  *)
(* them, and the templates and clusters recorded below them.  A connection *)
(* is named by its row id everywhere else: in app_state (the host selected *)
(* last), in the hidden fields of open pages, in jobs at work, in rows of  *)
(* templates and clusters, and in the name of the Secret from which the    *)
(* management cluster takes a cluster's credentials.  Browser tabs act at  *)
(* the same time, and a handler's statements are separate transactions.    *)
(***************************************************************************)
EXTENDS Naturals

CONSTANTS
  Tabs,      \* browser tabs, each with at most one connect request at a time
  Hosts,     \* what a connection is meant to be identified by: (url, token_id)
  Builds,    \* template builds; a template's row is named by its build
  Applies,   \* cluster applies; a cluster's row is named by its apply
  Nothing,   \* no host
  MaxId      \* bound: how many connections are ever added

ASSUME ConnectionsAssumption == MaxId \in Nat /\ Nothing \notin Hosts

VARIABLES
  live,       \* ids of the rows of proxmox_connections
  host,       \* id -> (url, token_id) of the row that has, or last had, that id
  primary,    \* ids of the rows with is_primary = 1
  lastId,     \* sqlite_sequence: the highest id ever given
  remembered, \* app_state's active_connection_id, 0 before there is one
  connecting, \* where each tab's connect request is
  entered,    \* the host it is about
  first,      \* its isPrimary
  overlapped, \* history: a connect began while another was under way
  panel,      \* tab -> the connection its panel was rendered for and the host it says
  build,      \* template builds: where, and on which connection and host
  template,   \* build -> templates.connection_id of its row, 0 without a row
  apply,      \* cluster applies: where, on which connection, with which template
  cluster,    \* apply -> clusters.connection_id of its row, 0 without a row
  secret,     \* id -> the host in Secret pvekube-conn-<id>-credentials
  objects,    \* applies whose ProxmoxCluster object exists
  exposed     \* history: applies between their Secret and their object when the
              \* last other owner of that Secret went

connVars  == <<live, host, primary, lastId>>
entryVars == <<connecting, entered, first, overlapped>>
pageVars  == <<remembered, panel>>
workVars  == <<build, template, apply, cluster, secret, objects, exposed>>
vars      == <<connVars, entryVars, pageVars, workVars>>

Ids      == 1 .. MaxId
MaybeIds == 0 .. MaxId

MaybeHost == Hosts \cup {Nothing}

\* Where a build or an apply is, the connection it names, that connection's host
\* as it read it, and as its panel showed it.
BuildStates ==
  [at : {"new", "running", "over"}, id : MaybeIds, host : MaybeHost, seen : MaybeHost]

\* An apply also has the host of the credentials its job carries, and a template.
ApplyStates ==
  [at : {"new", "previewed", "recorded", "synced", "over"}, id : MaybeIds,
   host : MaybeHost, seen : MaybeHost, token : MaybeHost, from : Builds \cup {Nothing}]

ConnectionsTypeOK ==
  /\ lastId \in MaybeIds /\ host \in [Ids -> MaybeHost]
  /\ live \subseteq 1 .. lastId /\ primary \subseteq live
  /\ remembered \in 0 .. lastId
  /\ connecting \in [Tabs -> {"idle", "unknown", "reached", "counted"}]
  /\ entered \in [Tabs -> MaybeHost] /\ first \in [Tabs -> BOOLEAN]
  /\ overlapped \in BOOLEAN
  /\ panel \in [Tabs -> [id : MaybeIds, host : MaybeHost]]
  /\ build \in [Builds -> BuildStates]
  /\ template \in [Builds -> MaybeIds]
  /\ apply \in [Applies -> ApplyStates]
  /\ cluster \in [Applies -> MaybeIds]
  /\ secret \in [Ids -> MaybeHost]
  /\ objects \in SUBSET Applies /\ exposed \in SUBSET Applies

ConnectionsInit ==
  /\ live = {} /\ host = [i \in Ids |-> Nothing] /\ primary = {} /\ lastId = 0
  /\ remembered = 0
  /\ connecting = [t \in Tabs |-> "idle"] /\ entered = [t \in Tabs |-> Nothing]
  /\ first = [t \in Tabs |-> FALSE] /\ overlapped = FALSE
  /\ panel = [t \in Tabs |-> [id |-> 0, host |-> Nothing]]
  /\ build = [b \in Builds |-> [at |-> "new", id |-> 0, host |-> Nothing, seen |-> Nothing]]
  /\ template = [b \in Builds |-> 0]
  /\ apply = [a \in Applies |-> [at |-> "new", id |-> 0, host |-> Nothing, seen |-> Nothing,
                                 token |-> Nothing, from |-> Nothing]]
  /\ cluster = [a \in Applies |-> 0]
  /\ secret = [i \in Ids |-> Nothing]
  /\ objects = {} /\ exposed = {}

-----------------------------------------------------------------------------
(* handleProxmoxConnect *)

MoveOn(t, where) == connecting' = [connecting EXCEPT ![t] = where]

\* Mutant of CheckKnown: a host that is known is not refused.
CheckNothing(t, h) ==
  /\ connecting[t] = "idle"
  /\ MoveOn(t, "unknown") /\ entered' = [entered EXCEPT ![t] = h]
  /\ overlapped' = (overlapped \/ \E u \in Tabs : connecting[u] # "idle")
  /\ UNCHANGED <<connVars, first, pageVars, workVars>>

\* COUNT(*) of rows with this url and token_id.
CheckKnown(t, h) ==
  /\ connecting[t] = "idle"
  /\ \A i \in live : host[i] # h
  /\ MoveOn(t, "unknown") /\ entered' = [entered EXCEPT ![t] = h]
  /\ overlapped' = (overlapped \/ \E u \in Tabs : connecting[u] # "idle")
  /\ UNCHANGED <<connVars, first, pageVars, workVars>>

\* client.Version answers, up to ten seconds later, and the secret is sealed.
ReachHost(t) ==
  /\ connecting[t] = "unknown"
  /\ MoveOn(t, "reached")
  /\ UNCHANGED <<connVars, entered, first, overlapped, pageVars, workVars>>

\* COUNT(*) of all rows: the first connection becomes primary.
CountRows(t) ==
  /\ connecting[t] = "reached"
  /\ first' = [first EXCEPT ![t] = live = {}]
  /\ MoveOn(t, "counted")
  /\ UNCHANGED <<connVars, entered, overlapped, pageVars, workVars>>

\* Mutant of InsertConnection: INTEGER PRIMARY KEY without AUTOINCREMENT, which
\* gives the id of a row that was deleted to the next one.
InsertReusing(t) ==
  /\ connecting[t] = "counted"
  /\ \E i \in Ids \ live :
       /\ \A j \in live : j < i
       /\ \A k \in Ids : k < i => \E j \in live : k <= j
       /\ live' = live \cup {i} /\ lastId' = i
       /\ host' = [host EXCEPT ![i] = entered[t]]
       /\ primary' = IF first[t] THEN primary \cup {i} ELSE primary
  /\ MoveOn(t, "idle")
  /\ UNCHANGED <<entered, first, overlapped, pageVars, workVars>>

\* INSERT, with an id above every one given before (AUTOINCREMENT).
InsertConnection(t) ==
  /\ connecting[t] = "counted" /\ lastId < MaxId
  /\ lastId' = lastId + 1
  /\ live' = live \cup {lastId'}
  /\ host' = [host EXCEPT ![lastId'] = entered[t]]
  /\ primary' = IF first[t] THEN primary \cup {lastId'} ELSE primary
  /\ MoveOn(t, "idle")
  /\ UNCHANGED <<entered, first, overlapped, pageVars, workVars>>

\* The host does not answer, an error, or the process dies.
GiveUp(t) ==
  /\ connecting[t] # "idle"
  /\ MoveOn(t, "idle")
  /\ UNCHANGED <<connVars, entered, first, overlapped, pageVars, workVars>>

-----------------------------------------------------------------------------
(* handleProxmoxDisconnect *)

\* ON DELETE CASCADE of templates.connection_id and clusters.connection_id.
Cascade(i) ==
  /\ template' = [b \in Builds |-> IF template[b] = i THEN 0 ELSE template[b]]
  /\ cluster' = [a \in Applies |-> IF cluster[a] = i THEN 0 ELSE cluster[a]]

\* DELETE in one statement.  Jobs at work, open pages, app_state, the Secret
\* and the objects of its clusters stay.
RemoveConnection(i) ==
  /\ i \in live
  /\ live' = live \ {i} /\ primary' = primary \ {i}
  /\ Cascade(i)
  /\ UNCHANGED <<host, lastId, entryVars, pageVars, build, apply, secret, objects, exposed>>

-----------------------------------------------------------------------------
(* The host a page is about: rememberConnOverride, activeConnection *)

\* The one remembered, if it is still there, or else the one added last.
Active(i) ==
  /\ i \in live
  /\ IF remembered \in live THEN i = remembered ELSE \A j \in live : j <= i

\* Mutant of OpenPage: whatever ?conn= says is remembered.
OpenPageUnchecked(t, i) ==
  /\ remembered' = i
  /\ panel' = [panel EXCEPT ![t] = [id |-> 0, host |-> Nothing]]
  /\ UNCHANGED <<connVars, entryVars, workVars>>

\* GET /clusters?conn=i or /templates?conn=i: an old link may name a host that
\* is gone, and 0 is a page opened without ?conn=.  The panel inside is a second
\* request.
OpenPage(t, i) ==
  /\ remembered' = IF i \in live THEN i ELSE remembered
  /\ panel' = [panel EXCEPT ![t] = [id |-> 0, host |-> Nothing]]
  /\ UNCHANGED <<connVars, entryVars, workVars>>

\* GET /clusters/panel or /templates/panel, which pages send without ?conn=.
LoadPanel(t, i) ==
  /\ Active(i)
  /\ panel' = [panel EXCEPT ![t] = [id |-> i, host |-> host[i]]]
  /\ UNCHANGED <<connVars, entryVars, remembered, workVars>>

\* Mutant of FormConnection: the active connection, looked up once more.
ActiveConnection(id, i) == Active(i)

\* formConnection: the id of the hidden field, if its row is still there.
FormConnection(id, i) == i = id /\ i \in live

-----------------------------------------------------------------------------
(* handleTemplatesBuild and its job, handleTemplatesDelete *)

\* The job's settings are taken from the row now.
StartBuild(b, t, i) ==
  /\ build[b].at = "new"
  /\ FormConnection(panel[t].id, i)
  /\ build' = [build EXCEPT ![b] = [at |-> "running", id |-> i, host |-> host[i],
                                    seen |-> panel[t].host]]
  /\ UNCHANGED <<connVars, entryVars, pageVars, template, apply, cluster, secret, objects, exposed>>

\* Mutant of RecordTemplate: foreign keys are not enforced.
RecordUnchecked(b) ==
  /\ build[b].at = "running"
  /\ template' = [template EXCEPT ![b] = build[b].id]
  /\ build' = [build EXCEPT ![b].at = "over"]
  /\ UNCHANGED <<connVars, entryVars, pageVars, apply, cluster, secret, objects, exposed>>

\* INSERT INTO templates, the last step of a build: the foreign key refuses it
\* when the connection has been removed meanwhile, and the job fails.
RecordTemplate(b) ==
  /\ build[b].at = "running"
  /\ build[b].id \in live
  /\ template' = [template EXCEPT ![b] = build[b].id]
  /\ build' = [build EXCEPT ![b].at = "over"]
  /\ UNCHANGED <<connVars, entryVars, pageVars, apply, cluster, secret, objects, exposed>>

\* Any other end of the build: see module Images.
EndBuild(b) ==
  /\ build[b].at = "running"
  /\ build' = [build EXCEPT ![b].at = "over"]
  /\ UNCHANGED <<connVars, entryVars, pageVars, template, apply, cluster, secret, objects, exposed>>

\* DELETE FROM templates; a cluster's template_id refuses it.
RemoveTemplate(b) ==
  /\ template[b] # 0
  /\ \A a \in Applies : cluster[a] # 0 => apply[a].from # b
  /\ template' = [template EXCEPT ![b] = 0]
  /\ UNCHANGED <<connVars, entryVars, pageVars, build, apply, cluster, secret, objects, exposed>>

-----------------------------------------------------------------------------
(* handleClustersPreview, handleClustersApply and the apply's job *)

\* parseClusterForm: the template must be one of this connection.
TemplateOf(b, i) == template[b] = i

\* The manifest names the Secret of connection i and is made for its host.
Preview(a, t, i, b) ==
  /\ apply[a].at = "new"
  /\ FormConnection(panel[t].id, i) /\ TemplateOf(b, i)
  /\ apply' = [apply EXCEPT ![a] = [at |-> "previewed", id |-> i, host |-> host[i],
                                    seen |-> panel[t].host, token |-> Nothing, from |-> b]]
  /\ UNCHANGED <<connVars, entryVars, pageVars, build, template, cluster, secret, objects, exposed>>

\* The form again, from the preview's hidden fields, and INSERT INTO clusters.
\* The credentials the job will write are read from the row now.
RecordCluster(a, i) ==
  /\ apply[a].at = "previewed"
  /\ FormConnection(apply[a].id, i) /\ TemplateOf(apply[a].from, i)
  /\ cluster' = [cluster EXCEPT ![a] = i]
  /\ apply' = [apply EXCEPT ![a].at = "recorded", ![a].token = host[i]]
  /\ UNCHANGED <<connVars, entryVars, pageVars, build, template, secret, objects, exposed>>

\* EnsureConnectionCredentialsSecret, first step of the job.
WriteSecret(a) ==
  /\ apply[a].at = "recorded"
  /\ secret' = [secret EXCEPT ![apply[a].id] = apply[a].token]
  /\ apply' = [apply EXCEPT ![a].at = "synced"]
  /\ UNCHANGED <<connVars, entryVars, pageVars, build, template, cluster, objects, exposed>>

\* kubectl apply of the manifest; the rest of the job is module Provision.
ApplyObject(a) ==
  /\ apply[a].at = "synced"
  /\ objects' = objects \cup {a}
  /\ apply' = [apply EXCEPT ![a].at = "over"]
  /\ UNCHANGED <<connVars, entryVars, pageVars, build, template, cluster, secret, exposed>>

\* The preview is left, the form refused, or the job fails or dies.  A job that
\* did not start takes its row back, one that failed leaves it; and a kubectl
\* that is killed may have been obeyed.
EndApply(a) ==
  /\ apply[a].at \in {"previewed", "recorded", "synced"}
  /\ apply' = [apply EXCEPT ![a].at = "over"]
  /\ \/ UNCHANGED <<cluster, secret, objects>>
     \/ /\ apply[a].at = "recorded"
        /\ \/ cluster' = [cluster EXCEPT ![a] = 0] /\ UNCHANGED secret
           \/ secret' = [secret EXCEPT ![apply[a].id] = apply[a].token] /\ UNCHANGED cluster
        /\ UNCHANGED objects
     \/ /\ apply[a].at = "synced"
        /\ objects' = objects \cup {a}
        /\ UNCHANGED <<cluster, secret>>
  /\ UNCHANGED <<connVars, entryVars, pageVars, build, template, exposed>>

\* External: CAPMOX has every object own its Secret, and Kubernetes collects the
\* Secret with the last of them.
Last(a) == a \in objects /\ \A c \in objects \ {a} : apply[c].id # apply[a].id

Collect(a) ==
  IF Last(a)
  THEN /\ secret' = [secret EXCEPT ![apply[a].id] = Nothing]
       /\ exposed' = exposed \cup
                       {c \in Applies : apply[c].at = "synced" /\ apply[c].id = apply[a].id}
  ELSE UNCHANGED <<secret, exposed>>

\* A delete job, the steps of which are in module ClusterLifecycle; it may end
\* before the row is removed.  Its key is the cluster's name, so another
\* cluster's apply may be at work.
RemoveCluster(a) ==
  /\ apply[a].at = "over" /\ cluster[a] # 0
  /\ objects' = objects \ {a}
  /\ Collect(a)
  /\ UNCHANGED cluster \/ cluster' = [cluster EXCEPT ![a] = 0]
  /\ UNCHANGED <<connVars, entryVars, pageVars, build, template, apply>>

-----------------------------------------------------------------------------
Connect(t) == (\E h \in Hosts : CheckKnown(t, h)) \/ ReachHost(t) \/ CountRows(t)
              \/ InsertConnection(t) \/ GiveUp(t)

Look(t) == \/ \E i \in MaybeIds : OpenPage(t, i)
           \/ \E i \in Ids : LoadPanel(t, i)

Submit(t) == \E i \in Ids, b \in Builds :
               StartBuild(b, t, i) \/ \E a \in Applies : Preview(a, t, i, b)

BuildStep(b) == RecordTemplate(b) \/ EndBuild(b) \/ RemoveTemplate(b)

ApplyJobStep(a) == \/ \E i \in Ids : RecordCluster(a, i)
                   \/ WriteSecret(a) \/ ApplyObject(a) \/ EndApply(a) \/ RemoveCluster(a)

ConnectionsNext ==
  \/ \E t \in Tabs : Connect(t) \/ Look(t) \/ Submit(t)
  \/ \E i \in Ids : RemoveConnection(i)
  \/ \E b \in Builds : BuildStep(b)
  \/ \E a \in Applies : ApplyJobStep(a)

ConnectionsSpec == ConnectionsInit /\ [][ConnectionsNext]_vars

-----------------------------------------------------------------------------
(* Properties *)

(***************************************************************************)
(* "A connection is identified by (url, token_id)" (handleProxmoxConnect). *)
(***************************************************************************)
IdentifiedByToken == \A i, j \in live : host[i] = host[j] => i = j

(***************************************************************************)
(* "every connection added after that is explicitly not primary"           *)
(* (handleProxmoxConnect), and no host is there twice, as long as no two   *)
(* connect requests overlapped: whatever was disconnected, abandoned and   *)
(* added anew in between.                                                  *)
(***************************************************************************)
OneByOneInOrder ==
  ~overlapped => /\ IdentifiedByToken
                 /\ \A i, j \in primary : i = j

(***************************************************************************)
(* Rows name rows that exist: the connection of a template and of a        *)
(* cluster, and a cluster's template, which is of the cluster's own        *)
(* connection.  So a disconnect takes everything below it and is never     *)
(* refused because of the rest, although a build or an apply that started  *)
(* before it may end after it.                                             *)
(***************************************************************************)
NoDanglingRows ==
  /\ \A b \in Builds : template[b] # 0 => template[b] \in live
  /\ \A a \in Applies : cluster[a] # 0 => /\ cluster[a] \in live
                                          /\ template[apply[a].from] = cluster[a]

(***************************************************************************)
(* "what gets submitted is exactly what the operator saw on screen"        *)
(* (formConnection): a build goes to the host its panel showed, and an     *)
(* apply has the manifest and the credentials of the host its panel        *)
(* showed, whatever other tabs selected, removed or added meanwhile.       *)
(***************************************************************************)
SentWhereShown ==
  /\ \A b \in Builds : build[b].host = build[b].seen
  /\ \A a \in Applies : /\ apply[a].host = apply[a].seen
                        /\ apply[a].at \in {"recorded", "synced"} => apply[a].token = apply[a].seen

(***************************************************************************)
(* "every cluster ... resolves its own credentials from its own Secret"    *)
(* (ClusterConnection): the Secret a cluster's object refers to never      *)
(* holds another host's credentials than those its manifest was made for,  *)
(* although a Secret is named by id alone, and outlives its connection     *)
(* while others are added.  It is there as long as the object, since       *)
(* "CAPMOX would otherwise reconcile against a Secret that doesn't exist   *)
(* yet" (ApplySpec), whatever other clusters of the connection are applied *)
(* and deleted; except that one deleted between an apply's first two steps *)
(* may take the Secret with it, which exposed records.                     *)
(***************************************************************************)
CredentialsKept ==
  \A a \in objects :
    /\ secret[apply[a].id] \in {apply[a].host, Nothing}
    /\ a \notin exposed => secret[apply[a].id] = apply[a].host
=============================================================================
