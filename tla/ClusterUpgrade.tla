---------------------------- MODULE ClusterUpgrade ----------------------------
(***************************************************************************)
(* Version upgrades of one workload cluster: handleClusterUpgrade          *)
(* validates a template and starts an exclusive job, UpgradeSpec patches   *)
(* the control plane, then the workers, and waits; Cluster API replaces    *)
(* the machines; handleTemplatesDelete may destroy a template's image      *)
(* meanwhile.  Jobs exclude each other by the lock of ResourceLock, which  *)
(* JobEngine implements.                                                   *)
(*                                                                         *)
(* Cluster API is external: a controller notices a patched spec some time  *)
(* later and then replaces one machine after the other, control plane and  *)
(* workers independently ("CAPI reconciles both patches concurrently").    *)
(***************************************************************************)
EXTENDS Naturals, FiniteSets

CONSTANTS
  Templates,      \* rows of the templates table, each an image on Proxmox
  VersionOf,      \* template -> <<major, minor, patch>>, what parseSemver returns
  CreatedFrom,    \* clusters.template_id: no statement ever changes it
  ControlPlanes, Workers,   \* the cluster's machines
  Requests,       \* POSTs to /clusters/{name}/upgrade, each at most one job
  Cluster,        \* the lock key of the cluster
  MaxCrashes,     \* bound: how often the process may die
  MaxDeletes      \* bound: how many requests to delete a template

ASSUME UpgradeAssumption ==
  /\ VersionOf \in [Templates -> Nat \X Nat \X Nat]
  /\ CreatedFrom \in Templates
  /\ MaxCrashes \in Nat /\ MaxDeletes \in Nat

VARIABLES
  templates,      \* template rows that exist
  images,         \* template images that exist on Proxmox
  deleting,       \* place of handleTemplatesDelete, by template
  declared,       \* role -> the template its spec names
  noticed,        \* role -> the template its controller last reconciled
  runs,           \* machine -> the template it was cloned from
  place,          \* where each request's handler, then its job, is
  chosen,         \* UpgradeInput: the template of each request
  against,        \* UpgradeInput.CurrentVersion: the template it was validated against
  holders, past,  \* the lock
  crashes, deletes,
  upset           \* history: a job started on a cluster that was not the one
                  \* validated, or whose machines were still being replaced

templateVars == <<templates, images, deleting>>
clusterVars  == <<declared, noticed, runs>>
requestVars  == <<place, chosen, against>>
lockVars     == <<holders, past>>
bounds       == <<crashes, deletes>>
upgradeVars  == <<templateVars, clusterVars, requestVars, lockVars, bounds, upset>>

Lock == INSTANCE ResourceLock WITH Operations <- Requests, Keys <- {Cluster}

Roles     == {"controlplane", "workers"}
Machines  == ControlPlanes \cup Workers
RoleOf(m) == IF m \in ControlPlanes THEN "controlplane" ELSE "workers"

JobPlaces == {"clone", "patchControlPlane", "patchWorkers", "wait"}
Places    == {"new", "validated", "refused", "succeeded", "stopped"} \cup JobPlaces

UpgradeTypeOK ==
  /\ templates \in SUBSET Templates /\ images \in SUBSET Templates
  /\ deleting \in [Templates -> {"no", "checked", "destroyed"}]
  /\ declared \in [Roles -> Templates] /\ noticed \in [Roles -> Templates]
  /\ runs \in [Machines -> Templates]
  /\ place \in [Requests -> Places]
  /\ chosen \in [Requests -> Templates] /\ against \in [Requests -> Templates]
  /\ Lock!LockTypeOK
  /\ crashes \in Nat /\ deletes \in Nat /\ upset \in BOOLEAN

UpgradeInit ==
  /\ templates = Templates /\ images = Templates
  /\ deleting = [t \in Templates |-> "no"]
  /\ declared = [role \in Roles |-> CreatedFrom]
  /\ noticed = declared
  /\ runs = [m \in Machines |-> CreatedFrom]
  /\ place = [r \in Requests |-> "new"]
  /\ chosen = [r \in Requests |-> CreatedFrom]
  /\ against = chosen
  /\ Lock!LockInit
  /\ crashes = 0 /\ deletes = 0 /\ upset = FALSE

-----------------------------------------------------------------------------
(* Versions *)

\* Older(a, b): a is the lower of two <<major, minor, patch>>.
Older(a, b) ==
  \/ a[1] < b[1]
  \/ a[1] = b[1] /\ a[2] < b[2]
  \/ a[1] = b[1] /\ a[2] = b[2] /\ a[3] < b[3]

\* Neither the version it runs nor a downgrade, the same major version, at
\* most one minor version ahead.
ValidateUpgrade(current, target) ==
  /\ Older(current, target)
  /\ target[1] = current[1]
  /\ target[2] <= current[2] + 1

\* Every machine is what both specs declare.
Settled ==
  /\ declared["workers"] = declared["controlplane"]
  /\ \A m \in Machines : runs[m] = declared["controlplane"]

\* status.upToDateReplicas and readyReplicas equal spec.replicas, as of the
\* spec the controller last saw.
ReportsUpToDate(role) ==
  \A m \in Machines : RoleOf(m) = role => runs[m] = noticed[role]

-----------------------------------------------------------------------------
(* handleClusterUpgrade *)

GoTo(r, p) == place' = [place EXCEPT ![r] = p]

\* The template row is read, CurrentVersion asked for, the pair validated.
Validate(r, t) ==
  /\ place[r] = "new"
  /\ t \in templates
  /\ ValidateUpgrade(VersionOf[declared["controlplane"]], VersionOf[t])
  /\ chosen' = [chosen EXCEPT ![r] = t]
  /\ against' = [against EXCEPT ![r] = declared["controlplane"]]
  /\ GoTo(r, "validated")
  /\ UNCHANGED <<templateVars, clusterVars, lockVars, bounds, upset>>

\* Mutant of StartJob: Start instead of StartExclusive.
StartAnyway(r) ==
  /\ place[r] = "validated"
  /\ GoTo(r, "clone")
  /\ upset' = (upset \/ ~Settled \/ against[r] # declared["controlplane"])
  /\ UNCHANGED <<templateVars, clusterVars, chosen, against, lockVars, bounds>>

\* StartExclusive takes the cluster's key, or the request is refused.
StartJob(r) ==
  /\ place[r] = "validated"
  /\ \/ /\ Lock!Acquire(r, Cluster)
        /\ GoTo(r, "clone")
        /\ upset' = (upset \/ ~Settled \/ against[r] # declared["controlplane"])
     \/ /\ holders[Cluster] # {}
        /\ GoTo(r, "refused")
        /\ UNCHANGED <<lockVars, upset>>
  /\ UNCHANGED <<templateVars, clusterVars, chosen, against, bounds>>

-----------------------------------------------------------------------------
(* The job of UpgradeSpec *)

\* Both machine templates are cloned under a name of the chosen template's own.
Clone(r) ==
  /\ place[r] = "clone"
  /\ GoTo(r, "patchControlPlane")
  /\ UNCHANGED <<templateVars, clusterVars, chosen, against, lockVars, bounds, upset>>

Patch(r, role) == declared' = [declared EXCEPT ![role] = chosen[r]]

\* Mutant of PatchControlPlane: the workers are patched first.
PatchWorkersFirst(r) ==
  /\ place[r] = "patchControlPlane"
  /\ Patch(r, "workers")
  /\ GoTo(r, "patchWorkers")
  /\ UNCHANGED <<templateVars, noticed, runs, chosen, against, lockVars, bounds, upset>>

PatchControlPlane(r) ==
  /\ place[r] = "patchControlPlane"
  /\ Patch(r, "controlplane")
  /\ GoTo(r, "patchWorkers")
  /\ UNCHANGED <<templateVars, noticed, runs, chosen, against, lockVars, bounds, upset>>

PatchWorkers(r) ==
  /\ place[r] = "patchWorkers"
  /\ Patch(r, "workers")
  /\ GoTo(r, "wait")
  /\ UNCHANGED <<templateVars, noticed, runs, chosen, against, lockVars, bounds, upset>>

\* Mutants of Complete: only the control plane is waited for; the replicas of
\* the old version are counted; the lock is not given back.
CompleteWithoutWorkers(r) ==
  /\ place[r] = "wait"
  /\ ReportsUpToDate("controlplane")
  /\ GoTo(r, "succeeded")
  /\ Lock!Release({r})
  /\ UNCHANGED <<templateVars, clusterVars, chosen, against, bounds, upset>>

CompleteOnOldVersion(r) ==
  /\ place[r] = "wait"
  /\ \A m \in Machines : runs[m] = against[r]
  /\ GoTo(r, "succeeded")
  /\ Lock!Release({r})
  /\ UNCHANGED <<templateVars, clusterVars, chosen, against, bounds, upset>>

\* One poll finds every replica up-to-date and ready; the job succeeds.
Complete(r) ==
  /\ place[r] = "wait"
  /\ \A role \in Roles : ReportsUpToDate(role)
  /\ GoTo(r, "succeeded")
  /\ Lock!Release({r})
  /\ UNCHANGED <<templateVars, clusterVars, chosen, against, bounds, upset>>

\* The job is cancelled, fails or times out.  Nothing is rolled back, and a
\* patch whose kubectl is killed may have been accepted all the same.
Stop(r) ==
  /\ place[r] \in JobPlaces
  /\ \/ UNCHANGED declared
     \/ place[r] = "patchControlPlane" /\ Patch(r, "controlplane")
     \/ place[r] = "patchWorkers" /\ Patch(r, "workers")
  /\ GoTo(r, "stopped")
  /\ Lock!Release({r})
  /\ UNCHANGED <<templateVars, noticed, runs, chosen, against, bounds, upset>>

\* The process dies and is started again: its jobs are interrupted, which
\* frees the lock, and its handlers are gone.
Crash ==
  /\ crashes < MaxCrashes
  /\ crashes' = crashes + 1
  /\ place' = [r \in Requests |->
       CASE place[r] \in JobPlaces  -> "stopped"
         [] place[r] = "validated" -> "refused"
         [] OTHER                  -> place[r]]
  /\ deleting' = [t \in Templates |-> "no"]
  /\ Lock!Release(Requests)
  /\ UNCHANGED <<templates, images, clusterVars, chosen, against, deletes, upset>>

-----------------------------------------------------------------------------
(* handleTemplatesDelete *)

\* No cluster row names the template.
CheckUnused(t) ==
  /\ deletes < MaxDeletes /\ deletes' = deletes + 1
  /\ t \in templates /\ deleting[t] = "no"
  /\ t # CreatedFrom
  /\ deleting' = [deleting EXCEPT ![t] = "checked"]
  /\ UNCHANGED <<templates, images, clusterVars, requestVars, lockVars, crashes, upset>>

\* DeleteVM; an image that was gone already counts as deleted.  When Proxmox
\* refuses, the handler returns.
DestroyImage(t) ==
  /\ deleting[t] = "checked"
  /\ \/ images' = images \ {t} /\ deleting' = [deleting EXCEPT ![t] = "destroyed"]
     \/ UNCHANGED images /\ deleting' = [deleting EXCEPT ![t] = "no"]
  /\ UNCHANGED <<templates, clusterVars, requestVars, lockVars, bounds, upset>>

DeleteRow(t) ==
  /\ deleting[t] = "destroyed"
  /\ templates' = templates \ {t}
  /\ deleting' = [deleting EXCEPT ![t] = "no"]
  /\ UNCHANGED <<images, clusterVars, requestVars, lockVars, bounds, upset>>

-----------------------------------------------------------------------------
(* Cluster API *)

Notice(role) ==
  /\ noticed[role] # declared[role]
  /\ noticed' = [noticed EXCEPT ![role] = declared[role]]
  /\ UNCHANGED <<templateVars, declared, runs, requestVars, lockVars, bounds, upset>>

\* A machine of an older spec is replaced by a clone of the image.
Replace(m) ==
  LET t == noticed[RoleOf(m)] IN
  /\ runs[m] # t /\ t \in images
  /\ runs' = [runs EXCEPT ![m] = t]
  /\ UNCHANGED <<templateVars, declared, noticed, requestVars, lockVars, bounds, upset>>

ClusterAPI == (\E role \in Roles : Notice(role)) \/ (\E m \in Machines : Replace(m))

Job(r) == Clone(r) \/ PatchControlPlane(r) \/ PatchWorkers(r) \/ Complete(r)

UpgradeNext ==
  \/ \E r \in Requests : \/ \E t \in Templates : Validate(r, t)
                         \/ StartJob(r) \/ Job(r) \/ Stop(r)
  \/ \E t \in Templates : CheckUnused(t) \/ DestroyImage(t) \/ DeleteRow(t)
  \/ Crash \/ ClusterAPI

UpgradeSpecification == UpgradeInit /\ [][UpgradeNext]_upgradeVars

\* Jobs poll, controllers reconcile.  Nobody has to cancel, delete or crash.
UpgradeFairness ==
  /\ \A r \in Requests : WF_upgradeVars(Job(r))
  /\ WF_upgradeVars(ClusterAPI)

LiveUpgrade == UpgradeSpecification /\ UpgradeFairness

-----------------------------------------------------------------------------
(* Properties *)

(***************************************************************************)
(* The cluster's key is held exactly while an upgrade job is at work, so a *)
(* job that ended, was stopped or died with the process blocks nobody, and *)
(* two are never at work together.                                         *)
(***************************************************************************)
LockHeldByTheJob ==
  /\ holders[Cluster] = {r \in Requests : place[r] \in JobPlaces}
  /\ Lock!AtMostOneHolder

\* From version a to version b is no downgrade and at most one minor version.
OneMinor(a, b) == ~Older(b, a) /\ b[1] = a[1] /\ b[2] <= a[2] + 1

(***************************************************************************)
(* "kubeadm only supports one minor at a time" (ValidateUpgrade), for each *)
(* machine that is replaced, through cancelled, failed and interrupted     *)
(* jobs: as long as no job started on a cluster that was still rolling or  *)
(* had changed since it was validated, which the code does not prevent.    *)
(***************************************************************************)
OneMinorAtATime ==
  [][~upset' =>
       \A m \in Machines : OneMinor(VersionOf[runs[m]], VersionOf[runs'[m]])]_upgradeVars

(***************************************************************************)
(* What the specs declare keeps kubeadm's order (UpgradeSpec: "Control     *)
(* plane first, then workers"): the workers' version is never newer, also  *)
(* when the job dies between its two patches.                              *)
(***************************************************************************)
WorkersDeclaredBehind ==
  ~upset => ~Older(VersionOf[declared["controlplane"]], VersionOf[declared["workers"]])

(***************************************************************************)
(* A job that succeeds has replaced every machine, provided the            *)
(* controllers had noticed both patches by the time it looked.             *)
(***************************************************************************)
CompleteOnceNoticed ==
  [][\A r \in Requests :
       place[r] = "wait" /\ place'[r] = "succeeded" /\ noticed = declared
         => \A m \in Machines : runs[m] = chosen[r]]_upgradeVars

(***************************************************************************)
(* A job that waits ends as long as its template's image is there: it is   *)
(* not held up by what an earlier, abandoned upgrade left behind.          *)
(***************************************************************************)
WaitEnds ==
  \A r \in Requests : place[r] = "wait" ~> place[r] # "wait" \/ chosen[r] \notin images

-----------------------------------------------------------------------------
(* What comments say and the code does not do: each is refuted by a run.   *)

(***************************************************************************)
(* "upToDateReplicas is what actually says the rollout finished"           *)
(* (waitForUpgradeStep): when an upgrade job succeeds, every machine runs  *)
(* its template.                                                           *)
(***************************************************************************)
CompleteMeansReplaced ==
  [][\A r \in Requests :
       place[r] = "wait" /\ place'[r] = "succeeded"
         => \A m \in Machines : runs[m] = chosen[r]]_upgradeVars

(***************************************************************************)
(* "the control plane must never trail the nodes" (UpgradeSpec): no worker *)
(* runs a newer version than a control plane machine.                      *)
(***************************************************************************)
NodesNeverAhead ==
  \A c \in ControlPlanes, w \in Workers : ~Older(VersionOf[runs[c]], VersionOf[runs[w]])

(***************************************************************************)
(* "this template is still used by ... deleting it would leave that        *)
(* cluster unable to scale or upgrade" (handleTemplatesDelete): the image  *)
(* a cluster's machines are cloned from is never destroyed.                *)
(***************************************************************************)
TemplateInUseKept == \A role \in Roles : declared[role] \in images
=============================================================================
