--------------------------- MODULE ClusterLifecycle ---------------------------
(***************************************************************************)
(* One workload cluster name from its first apply to its last delete: the  *)
(* row PVEKube keeps of it, the Cluster object on the management cluster,  *)
(* and the requests that create, scale, watch and delete it.  The row and  *)
(* the object are changed at different moments by handlers and jobs, and   *)
(* only the jobs exclude each other, by the lock of ResourceLock.          *)
(*                                                                         *)
(* Cluster API is external: it tears a deleted object down some time later *)
(* or never, and brings replica counts to what is declared.                *)
(***************************************************************************)
EXTENDS Naturals, FiniteSets

CONSTANTS
  Requests,       \* HTTP requests about the cluster, each at most one job
  Nobody,         \* owner of a row that does not exist
  Connections,    \* Proxmox connections the cluster may be applied through
  Cluster,        \* clusterOperationLock(name)
  Counts,         \* replica counts a form may ask for
  MaxCrashes,     \* bound: how often the process may die
  MaxDisconnects  \* bound: how many connections may be removed

ASSUME LifecycleAssumption ==
  /\ Nobody \notin Requests
  /\ Connections # {}
  /\ 1 \in Counts /\ Counts \subseteq Nat
  /\ MaxCrashes \in Nat /\ MaxDisconnects \in Nat

VARIABLES
  place,          \* where each request's handler, then its job, is
  owner,          \* the apply whose INSERT the clusters row is, or Nobody
  status,         \* clusters.status
  link,           \* clusters.connection_id
  connected,      \* connections that exist
  object,         \* the Cluster object: absent, live or going
  wanted,         \* role -> spec.replicas
  asked,          \* scale request -> <<role, count>>
  unmarked,       \* deletes whose job started and whose handler has still to
                  \* write the deleting mark
  holders, past,  \* the lock
  crashes,
  stray           \* history: a delete job started on a row that was missing or
                  \* still being recorded, or a connection took the row with it

requestVars == <<place, asked, unmarked>>
rowVars     == <<owner, status, link>>
objectVars  == <<object, wanted>>
lockVars    == <<holders, past>>
rest        == <<crashes, stray>>
lifeVars    == <<requestVars, rowVars, connected, objectVars, lockVars, rest>>

Lock == INSTANCE ResourceLock WITH Operations <- Requests, Keys <- {Cluster}

Roles    == {"controlplane", "workers"}
Phases   == {"live", "going"}
Statuses == {"provisioning", "deleting"} \cup Phases

ApplyJob  == {"credentials", "manifest", "provision"}
DeleteJob == {"deleteObject", "awaitGone", "removeRow", "removed"}
ScaleJob  == {"patch", "awaitCount"}
JobPlaces == ApplyJob \cup DeleteJob \cup ScaleJob \cup {"finish"}
Handling  == {"recorded", "undo", "live", "going"}   \* the last two: a poll's answer
Places    == {"new", "over"} \cup Handling \cup JobPlaces

LifecycleTypeOK ==
  /\ place \in [Requests -> Places]
  /\ owner \in Requests \cup {Nobody} /\ status \in Statuses
  /\ link \in Connections /\ connected \in SUBSET Connections
  /\ object \in Phases \cup {"absent"}
  /\ wanted \in [Roles -> Nat]
  /\ asked \in [Requests -> Roles \X Nat]
  /\ unmarked \in SUBSET Requests
  /\ Lock!LockTypeOK
  /\ crashes \in Nat /\ stray \in BOOLEAN

LifecycleInit ==
  /\ place = [r \in Requests |-> "new"]
  /\ owner = Nobody /\ status = "provisioning" /\ link = CHOOSE c \in Connections : TRUE
  /\ connected = Connections
  /\ object = "absent"
  /\ wanted = [role \in Roles |-> 1]
  /\ asked = [r \in Requests |-> <<"workers", 1>>]
  /\ unmarked = {}
  /\ Lock!LockInit
  /\ crashes = 0 /\ stray = FALSE

GoTo(r, p) == place' = [place EXCEPT ![r] = p]

-----------------------------------------------------------------------------
(* handleClustersApply *)

\* Mutant of Record: clusters.name is not UNIQUE.
RecordOver(r, c) ==
  /\ place[r] = "new"
  /\ c \in connected
  /\ owner' = r /\ status' = "provisioning" /\ link' = c
  /\ GoTo(r, "recorded")
  /\ UNCHANGED <<asked, unmarked, connected, objectVars, lockVars, rest>>

\* The row is inserted first; the UNIQUE name refuses a second one, and so
\* does the foreign key of a connection that is gone.
Record(r, c) ==
  /\ place[r] = "new"
  /\ IF owner = Nobody /\ c \in connected
     THEN owner' = r /\ status' = "provisioning" /\ link' = c /\ GoTo(r, "recorded")
     ELSE GoTo(r, "over") /\ UNCHANGED rowVars
  /\ UNCHANGED <<asked, unmarked, connected, objectVars, lockVars, rest>>

\* StartExclusive; a busy lock, or any other error, has the row taken back.
StartApply(r) ==
  /\ place[r] = "recorded"
  /\ \/ Lock!Acquire(r, Cluster) /\ GoTo(r, "credentials")
     \/ GoTo(r, "undo") /\ UNCHANGED lockVars
  /\ UNCHANGED <<asked, unmarked, rowVars, connected, objectVars, rest>>

\* DELETE by name, whoever inserted that row; after three failed attempts the
\* row stays.
Undo(r) ==
  /\ place[r] = "undo"
  /\ owner' \in {owner, Nobody}
  /\ GoTo(r, "over")
  /\ UNCHANGED <<asked, unmarked, status, link, connected, objectVars,
                 lockVars, rest>>

-----------------------------------------------------------------------------
(* The job of ApplySpec *)

\* The credentials Secret of the connection: every apply writes it anew.
SyncCredentials(r) ==
  /\ place[r] = "credentials"
  /\ GoTo(r, "manifest")
  /\ UNCHANGED <<asked, unmarked, rowVars, connected, objectVars,
                 lockVars, rest>>

\* kubectl apply creates the object; one that is there is only modified, also
\* one that is being torn down.
Create ==
  IF object = "absent"
  THEN object' = "live" /\ wanted' = [role \in Roles |-> 1]
  ELSE UNCHANGED objectVars

ApplyManifest(r) ==
  /\ place[r] = "manifest"
  /\ Create
  /\ GoTo(r, "provision")
  /\ UNCHANGED <<asked, unmarked, rowVars, connected, lockVars, rest>>

\* CNI, nodes, DNS, trust, credentials, addons: module Provision.
Provisioned(r) ==
  /\ place[r] = "provision"
  /\ GoTo(r, "finish")
  /\ UNCHANGED <<asked, unmarked, rowVars, connected, objectVars,
                 lockVars, rest>>

-----------------------------------------------------------------------------
(* handleClusterDelete and runDeleteJob *)

\* No other request can still insert or remove the row by name.
RowSettled == owner # Nobody /\ \A r \in Requests : place[r] \notin {"recorded", "undo"}

\* Mutant of StartDelete: Start instead of StartExclusive.
StartDeleteAnyway(r) ==
  /\ place[r] = "new"
  /\ GoTo(r, "deleteObject")
  /\ unmarked' = unmarked \cup {r}
  /\ stray' = (stray \/ ~RowSettled)
  /\ UNCHANGED <<asked, rowVars, connected, objectVars, lockVars, crashes>>

\* The handler does not look at the row before it starts the job.
StartDelete(r) ==
  /\ place[r] = "new"
  /\ \/ /\ Lock!Acquire(r, Cluster)
        /\ GoTo(r, "deleteObject")
        /\ unmarked' = unmarked \cup {r}
        /\ stray' = (stray \/ ~RowSettled)
     \/ /\ holders[Cluster] # {}
        /\ GoTo(r, "over")
        /\ UNCHANGED <<lockVars, unmarked, stray>>
  /\ UNCHANGED <<asked, rowVars, connected, objectVars, crashes>>

\* UPDATE ... SET status = 'deleting'; when it fails the job is cancelled,
\* which Stop covers.
Mark(r) ==
  /\ r \in unmarked
  /\ unmarked' = unmarked \ {r}
  /\ status' = IF owner = Nobody THEN status ELSE "deleting"
  /\ UNCHANGED <<place, asked, owner, link, connected, objectVars, lockVars, rest>>

MarkFails(r) ==
  /\ r \in unmarked
  /\ unmarked' = unmarked \ {r}
  /\ UNCHANGED <<place, asked, rowVars, connected, objectVars, lockVars, rest>>

\* kubectl delete --wait=false --ignore-not-found.
RequestTeardown(r) ==
  /\ place[r] = "deleteObject"
  /\ object' = IF object = "absent" THEN "absent" ELSE "going"
  /\ GoTo(r, "awaitGone")
  /\ UNCHANGED <<asked, unmarked, rowVars, connected, wanted,
                 lockVars, rest>>

\* Mutant of ConfirmAbsent: a lookup that fails counts as not found.
LookupFailed(r) ==
  /\ place[r] = "awaitGone"
  /\ GoTo(r, "removeRow")
  /\ UNCHANGED <<asked, unmarked, rowVars, connected, objectVars,
                 lockVars, rest>>

\* A lookup succeeds and prints nothing.
ConfirmAbsent(r) ==
  /\ place[r] = "awaitGone" /\ object = "absent"
  /\ GoTo(r, "removeRow")
  /\ UNCHANGED <<asked, unmarked, rowVars, connected, objectVars,
                 lockVars, rest>>

\* DELETE FROM clusters WHERE name = ?
RemoveRow(r) ==
  /\ place[r] = "removeRow"
  /\ owner' = Nobody
  /\ GoTo(r, "removed")
  /\ UNCHANGED <<asked, unmarked, status, link, connected, objectVars,
                 lockVars, rest>>

-----------------------------------------------------------------------------
(* handleClusterScaleWorkers, handleClusterScaleControlPlane *)

\* Mutant of StartScale: Start instead of StartExclusive.
StartScaleAnyway(r, role, n) ==
  /\ place[r] = "new"
  /\ asked' = [asked EXCEPT ![r] = <<role, n>>]
  /\ GoTo(r, "patch")
  /\ UNCHANGED << unmarked, rowVars, connected, objectVars, lockVars, rest>>

StartScale(r, role, n) ==
  /\ place[r] = "new"
  /\ asked' = [asked EXCEPT ![r] = <<role, n>>]
  /\ \/ Lock!Acquire(r, Cluster) /\ GoTo(r, "patch")
     \/ holders[Cluster] # {} /\ GoTo(r, "over") /\ UNCHANGED lockVars
  /\ UNCHANGED << unmarked, rowVars, connected, objectVars, rest>>

\* A control plane of a size without quorum, and an object that is not there,
\* fail the step.
Patch(r) ==
  /\ object # "absent"
  /\ asked[r][1] = "controlplane" => asked[r][2] \in {1, 3, 5}
  /\ wanted' = [wanted EXCEPT ![asked[r][1]] = asked[r][2]]

PatchReplicas(r) ==
  /\ place[r] = "patch"
  /\ Patch(r)
  /\ GoTo(r, "awaitCount")
  /\ UNCHANGED <<asked, unmarked, rowVars, connected, object,
                 lockVars, rest>>

\* A poll reads status.replicas and status.readyReplicas, both as asked for;
\* when Cluster API gets there is its own affair.
CountReached(r) ==
  /\ place[r] = "awaitCount"
  /\ object # "absent"
  /\ GoTo(r, "finish")
  /\ UNCHANGED <<asked, unmarked, rowVars, connected, objectVars,
                 lockVars, rest>>

-----------------------------------------------------------------------------
(* How jobs end *)

Finish(r) ==
  /\ place[r] \in {"finish", "removed"}
  /\ GoTo(r, "over")
  /\ Lock!Release({r})
  /\ UNCHANGED <<asked, unmarked, rowVars, connected, objectVars, rest>>

\* Mutant of Stop: the waits have no deadline.
StopButForWaits(r) ==
  /\ place[r] \in JobPlaces \ {"finish", "removed", "awaitGone", "awaitCount"}
  /\ GoTo(r, "over")
  /\ Lock!Release({r})
  /\ UNCHANGED <<asked, unmarked, rowVars, connected, objectVars, rest>>

\* A step fails, times out or is cancelled.  Nothing is rolled back, and a
\* kubectl that is killed may have been obeyed all the same.
Stop(r) ==
  /\ place[r] \in JobPlaces \ {"finish", "removed"}
  /\ \/ UNCHANGED objectVars
     \/ /\ place[r] = "manifest" /\ Create
     \/ /\ place[r] = "deleteObject" /\ object = "live" /\ object' = "going"
        /\ UNCHANGED wanted
     \/ /\ place[r] = "patch" /\ Patch(r) /\ UNCHANGED object
  /\ GoTo(r, "over")
  /\ Lock!Release({r})
  /\ UNCHANGED <<asked, unmarked, rowVars, connected, rest>>

\* The process dies and is started again: its jobs are interrupted, which
\* frees the lock, its handlers are gone, the row is what it was.
Crash ==
  /\ crashes < MaxCrashes
  /\ crashes' = crashes + 1
  /\ place' = [r \in Requests |->
                IF place[r] \in JobPlaces \cup Handling THEN "over" ELSE place[r]]
  /\ unmarked' = {}
  /\ Lock!Release(Requests)
  /\ UNCHANGED <<asked, rowVars, connected, objectVars, stray>>

-----------------------------------------------------------------------------
(* handleClusterStatus and handleClustersList; handleProxmoxDisconnect *)

\* GetStatus: a lookup that fails is answered like one that finds nothing.
Observe(r) ==
  /\ place[r] = "new"
  /\ \/ object # "absent" /\ GoTo(r, object)
     \/ GoTo(r, "over")
  /\ UNCHANGED <<asked, unmarked, rowVars, connected, objectVars, lockVars, rest>>

\* UPDATE ... SET status = ? WHERE name = ?, whichever row has that name now.
WriteStatus(r) ==
  /\ place[r] \in Phases
  /\ status' = IF owner = Nobody THEN status ELSE place[r]
  /\ GoTo(r, "over")
  /\ UNCHANGED <<asked, unmarked, owner, link, connected, objectVars, lockVars, rest>>

\* Deleting the connection's row takes the cluster's row with it (ON DELETE
\* CASCADE), whatever job is at work.
Disconnect(c) ==
  /\ c \in connected
  /\ Cardinality(Connections \ connected) < MaxDisconnects
  /\ connected' = connected \ {c}
  /\ IF owner # Nobody /\ link = c
     THEN owner' = Nobody /\ stray' = TRUE
     ELSE UNCHANGED <<owner, stray>>
  /\ UNCHANGED <<requestVars, status, link, objectVars, lockVars, crashes>>

-----------------------------------------------------------------------------
(* Cluster API *)

TornDown ==
  /\ object = "going" /\ object' = "absent"
  /\ UNCHANGED <<requestVars, rowVars, connected, wanted, lockVars, rest>>

-----------------------------------------------------------------------------
ApplySteps(r)  == SyncCredentials(r) \/ ApplyManifest(r) \/ Provisioned(r)
DeleteSteps(r) == RequestTeardown(r) \/ ConfirmAbsent(r) \/ RemoveRow(r)
ScaleSteps(r)  == PatchReplicas(r) \/ CountReached(r)
Job(r)         == ApplySteps(r) \/ DeleteSteps(r) \/ ScaleSteps(r) \/ Finish(r)
Handler(r)     == StartApply(r) \/ Undo(r) \/ WriteStatus(r) \/ Mark(r) \/ MarkFails(r)

LifecycleNext ==
  \/ \E r \in Requests : \/ \E c \in Connections : Record(r, c)
                         \/ StartDelete(r) \/ Observe(r)
                         \/ \E role \in Roles, n \in Counts : StartScale(r, role, n)
                         \/ Handler(r) \/ Job(r) \/ Stop(r)
  \/ \E c \in Connections : Disconnect(c)
  \/ Crash \/ TornDown

LifecycleSpec == LifecycleInit /\ [][LifecycleNext]_lifeVars

\* Handlers go on, and a step returns: kubectl comes back, and each wait has a
\* deadline (15 or 30 minutes) after which it fails.  Cluster API owes nothing.
LifecycleFairness ==
  \A r \in Requests : WF_lifeVars(StartApply(r) \/ Undo(r) \/ WriteStatus(r) \/ Job(r) \/ Stop(r))

LiveLifecycle == LifecycleSpec /\ LifecycleFairness

-----------------------------------------------------------------------------
(* Properties *)

(***************************************************************************)
(* "callers can safely add a step after this spec's steps (e.g. removing a *)
(* local DB record) knowing the infrastructure is really gone by the time  *)
(* it runs" (DeleteClusterSpec): while a delete job removes the row, and   *)
(* until it has succeeded, no Cluster object of that name exists, whatever *)
(* other requests, cancellations and restarts came in between.             *)
(***************************************************************************)
RemovalMeansGone ==
  \A r \in Requests :
    place[r] \in {"removeRow", "removed"} => object = "absent"

(***************************************************************************)
(* What runs is recorded: while a Cluster object exists, or an apply job   *)
(* that may create it is at work, the clusters table has a row of that     *)
(* name, so it is listed and can be deleted.  Two ways to lose the row are *)
(* left, and stray records them: a delete that was started on a row that   *)
(* did not exist or was not settled yet, and a connection's removal.       *)
(***************************************************************************)
NothingForgotten ==
  ~stray /\ (object # "absent" \/ \E r \in Requests : place[r] \in ApplyJob)
    => owner # Nobody

(***************************************************************************)
(* clusters.name "is what rejects a duplicate name before any real work    *)
(* happens" (handleClustersApply): no apply job writes its manifest over a *)
(* Cluster object that is there already, live or half torn down, not even  *)
(* after cancelled, failed and interrupted jobs; with the proviso above.   *)
(***************************************************************************)
NeverAppliedOver ==
  \A r \in Requests : ~stray /\ place[r] \in {"credentials", "manifest"} => object = "absent"

(***************************************************************************)
(* A scale job waits for the count that is declared: nothing else changes  *)
(* it while the job waits, so its success is not about somebody else's.    *)
(***************************************************************************)
AwaitedCountIsDeclared ==
  \A r \in Requests : place[r] = "awaitCount" => wanted[asked[r][1]] = asked[r][2]

(***************************************************************************)
(* Every request that started something ends, and with it its claim on the *)
(* cluster's lock, also when Cluster API never tears down or scales.       *)
(***************************************************************************)
EveryRequestEnds ==
  \A r \in Requests : place[r] \in JobPlaces \cup Handling ~> place[r] = "over"
=============================================================================
