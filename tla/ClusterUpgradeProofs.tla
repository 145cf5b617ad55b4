------------------------ MODULE ClusterUpgradeProofs ------------------------
(***************************************************************************)
(* Proofs about ClusterUpgrade, for any number of machines, requests,      *)
(* templates, crashes and deletions: types, the lock, and the two          *)
(* properties about versions, which all follow from one inductive          *)
(* invariant: while no job has started on an unsettled cluster, every      *)
(* template in play is the old or the new one of a single upgrade, and     *)
(* machine, controller and spec take up the new one in that order          *)
(* backwards: the spec first, the machine last.                            *)
(***************************************************************************)
EXTENDS ClusterUpgrade, TLAPS

\* The cluster is on its way from template a to template b, or at rest on both.
Rolling(a, b) ==
  /\ a = b \/ ValidateUpgrade(VersionOf[a], VersionOf[b])
  /\ \A role \in Roles : declared[role] \in {a, b}
  /\ declared["workers"] = b => declared["controlplane"] = b
  /\ \A r \in Requests : place[r] \in JobPlaces => against[r] = a /\ chosen[r] = b
  /\ \A r \in Requests : place[r] = "patchWorkers" => declared["controlplane"] = b
  /\ \A m \in Machines :
       /\ noticed[RoleOf(m)] \in {a, b} /\ runs[m] \in {a, b}
       /\ noticed[RoleOf(m)] = b => declared[RoleOf(m)] = b
       /\ runs[m] = b => noticed[RoleOf(m)] = b

OneUpgrade == ~upset => \E a, b \in Templates : Rolling(a, b)

\* A request waiting for its job has passed the validation.
RequestsValid ==
  \A r \in Requests :
    place[r] = "validated" => ValidateUpgrade(VersionOf[against[r]], VersionOf[chosen[r]])

UpgradeIInv == UpgradeTypeOK /\ LockHeldByTheJob /\ RequestsValid /\ OneUpgrade

-----------------------------------------------------------------------------
(* Versions *)

(***************************************************************************)
(* Older is a strict order on the versions of templates, and a validated   *)
(* upgrade, like no upgrade at all, is a step of one minor version.        *)
(***************************************************************************)
LEMMA VersionOrder ==
  ASSUME NEW s \in Templates, NEW t \in Templates
  PROVE  /\ ~Older(VersionOf[s], VersionOf[s])
         /\ Older(VersionOf[s], VersionOf[t]) => ~Older(VersionOf[t], VersionOf[s])
         /\ OneMinor(VersionOf[s], VersionOf[s])
         /\ ValidateUpgrade(VersionOf[s], VersionOf[t])
              => s # t /\ OneMinor(VersionOf[s], VersionOf[t])
<1> DEFINE v == VersionOf[s]
           w == VersionOf[t]
<1>1. /\ v[1] \in Nat /\ v[2] \in Nat /\ v[3] \in Nat
      /\ w[1] \in Nat /\ w[2] \in Nat /\ w[3] \in Nat
  BY UpgradeAssumption
<1>2. ~Older(v, v) /\ (Older(v, w) => ~Older(w, v))
  BY <1>1 DEF Older
<1>3. OneMinor(v, v)
  BY <1>1, <1>2 DEF OneMinor
<1>4. ValidateUpgrade(v, w) => s # t /\ OneMinor(v, w)
  BY <1>2 DEF ValidateUpgrade, OneMinor
<1>5. QED
  BY <1>2, <1>3, <1>4

-----------------------------------------------------------------------------
(* Types *)

(***************************************************************************)
(* Taking and giving back the cluster's key keeps the lock's variables     *)
(* well-formed and with at most one holder.                                *)
(***************************************************************************)
LEMMA LockOps ==
  ASSUME Lock!LockTypeOK, Lock!AtMostOneHolder
  PROVE  /\ \A r \in Requests : Lock!Acquire(r, Cluster) =>
              /\ Lock!LockTypeOK' /\ Lock!AtMostOneHolder'
              /\ holders[Cluster] = {} /\ holders'[Cluster] = {r}
         /\ \A Done \in SUBSET Requests : Lock!Release(Done) =>
              /\ Lock!LockTypeOK' /\ Lock!AtMostOneHolder'
              /\ holders'[Cluster] = holders[Cluster] \ Done
         /\ UNCHANGED lockVars => Lock!LockTypeOK' /\ Lock!AtMostOneHolder'
BY DEF Lock!LockTypeOK, Lock!AtMostOneHolder, Lock!Acquire, Lock!Release, lockVars

\* The actions that leave the lock alone.
Unlocked ==
  \/ \E r \in Requests : \/ \E t \in Templates : Validate(r, t)
                         \/ Clone(r) \/ PatchControlPlane(r) \/ PatchWorkers(r)
  \/ \E t \in Templates : CheckUnused(t) \/ DestroyImage(t) \/ DeleteRow(t)
  \/ ClusterAPI

(***************************************************************************)
(* Every step but those that take or give back the key keeps the types.    *)
(***************************************************************************)
LEMMA TypeUnlocked ==
  ASSUME UpgradeTypeOK, Lock!AtMostOneHolder, Unlocked
  PROVE  UpgradeTypeOK' /\ UNCHANGED lockVars
<1> USE DEF templateVars, clusterVars, requestVars, lockVars, bounds, GoTo, Places, JobPlaces, Roles
<1>a. UNCHANGED lockVars => Lock!LockTypeOK'
  BY LockOps DEF UpgradeTypeOK
<1> HIDE DEF lockVars
<1>1. ASSUME NEW r \in Requests, NEW t \in Templates, Validate(r, t)
      PROVE  UpgradeTypeOK' /\ UNCHANGED lockVars
  BY <1>a, <1>1 DEF Validate, UpgradeTypeOK
<1>2. ASSUME NEW r \in Requests, Clone(r) \/ PatchControlPlane(r) \/ PatchWorkers(r)
      PROVE  UpgradeTypeOK' /\ UNCHANGED lockVars
  BY <1>a, <1>2 DEF Clone, PatchControlPlane, PatchWorkers, Patch, UpgradeTypeOK
<1>3. ASSUME NEW t \in Templates, CheckUnused(t) \/ DestroyImage(t) \/ DeleteRow(t)
      PROVE  UpgradeTypeOK' /\ UNCHANGED lockVars
  BY <1>a, <1>3 DEF CheckUnused, DestroyImage, DeleteRow, UpgradeTypeOK
<1>4. CASE ClusterAPI
  BY <1>a, <1>4 DEF ClusterAPI, Notice, Replace, RoleOf, UpgradeTypeOK
<1>5. QED
  BY <1>1, <1>2, <1>3, <1>4 DEF Unlocked

(***************************************************************************)
(* Types and the lock are preserved together by every step.                *)
(***************************************************************************)
LEMMA LockStep ==
  ASSUME UpgradeTypeOK, LockHeldByTheJob, [UpgradeNext]_upgradeVars
  PROVE  UpgradeTypeOK' /\ LockHeldByTheJob'
<1> USE DEF templateVars, clusterVars, requestVars, bounds, GoTo, Places, JobPlaces, Roles
<1>a. Lock!LockTypeOK /\ Lock!AtMostOneHolder
  BY DEF UpgradeTypeOK, LockHeldByTheJob
<1>1. CASE Unlocked
  <2>1. UpgradeTypeOK' /\ UNCHANGED lockVars
    BY <1>1, <1>a, TypeUnlocked
  <2>2. {r \in Requests : place'[r] \in JobPlaces} = {r \in Requests : place[r] \in JobPlaces}
    BY <1>1 DEF Unlocked, Validate, Clone, PatchControlPlane, PatchWorkers, CheckUnused,
                DestroyImage, DeleteRow, ClusterAPI, Notice, Replace, UpgradeTypeOK
  <2>3. QED
    BY <1>a, <2>1, <2>2, LockOps DEF LockHeldByTheJob, lockVars
<1>2. ASSUME NEW r \in Requests, StartJob(r)
      PROVE  UpgradeTypeOK' /\ LockHeldByTheJob'
  <2>1. CASE Lock!Acquire(r, Cluster) /\ GoTo(r, "clone")
    <3>1. /\ Lock!LockTypeOK' /\ Lock!AtMostOneHolder'
          /\ holders[Cluster] = {} /\ holders'[Cluster] = {r}
      BY <1>a, <2>1, LockOps
    <3>2. holders'[Cluster] = {q \in Requests : place'[q] \in JobPlaces}
      BY <2>1, <3>1 DEF LockHeldByTheJob, UpgradeTypeOK
    <3>3. upset' \in BOOLEAN
      BY <1>2 DEF StartJob, UpgradeTypeOK, Settled
    <3>4. QED
      BY <1>2, <2>1, <3>1, <3>2, <3>3 DEF StartJob, UpgradeTypeOK, LockHeldByTheJob
  <2>2. CASE UNCHANGED lockVars /\ GoTo(r, "refused") /\ UNCHANGED upset
    <3>1. Lock!LockTypeOK' /\ Lock!AtMostOneHolder'
      BY <1>a, <2>2, LockOps
    <3>2. holders'[Cluster] = {q \in Requests : place'[q] \in JobPlaces}
      BY <1>2, <2>2 DEF StartJob, LockHeldByTheJob, UpgradeTypeOK, lockVars
    <3>3. QED
      BY <1>2, <2>2, <3>1, <3>2 DEF StartJob, UpgradeTypeOK, LockHeldByTheJob
  <2>3. QED
    BY <1>2, <2>1, <2>2 DEF StartJob
<1>3. ASSUME NEW r \in Requests, Complete(r) \/ Stop(r)
      PROVE  UpgradeTypeOK' /\ LockHeldByTheJob'
  <2>1. PICK p \in {"succeeded", "stopped"} : GoTo(r, p)
    BY <1>3 DEF Complete, Stop
  <2>2. /\ Lock!LockTypeOK' /\ Lock!AtMostOneHolder'
        /\ holders'[Cluster] = holders[Cluster] \ {r}
    BY <1>3, <1>a, LockOps DEF Complete, Stop
  <2>3. holders'[Cluster] = {q \in Requests : place'[q] \in JobPlaces}
    BY <2>1, <2>2 DEF LockHeldByTheJob, UpgradeTypeOK
  <2>4. declared' \in [Roles -> Templates]
    BY <1>3 DEF Complete, Stop, Patch, UpgradeTypeOK
  <2>5. QED
    BY <1>3, <2>1, <2>2, <2>3, <2>4 DEF Complete, Stop, UpgradeTypeOK, LockHeldByTheJob
<1>4. CASE Crash
  <2>1. /\ Lock!LockTypeOK' /\ Lock!AtMostOneHolder'
        /\ holders'[Cluster] = holders[Cluster] \ Requests
    BY <1>4, <1>a, LockOps DEF Crash
  <2>2. /\ place' \in [Requests -> Places]
        /\ \A r \in Requests : place'[r] \notin JobPlaces
    BY <1>4 DEF Crash, UpgradeTypeOK
  <2>3. holders'[Cluster] = {q \in Requests : place'[q] \in JobPlaces}
    BY <2>1, <2>2 DEF LockHeldByTheJob
  <2>4. QED
    BY <1>4, <2>1, <2>2, <2>3 DEF Crash, UpgradeTypeOK, LockHeldByTheJob
<1>5. CASE UNCHANGED upgradeVars
  <2>1. Lock!LockTypeOK' /\ Lock!AtMostOneHolder'
    BY <1>5, <1>a, LockOps DEF upgradeVars
  <2>2. QED
    BY <1>5, <2>1 DEF upgradeVars, lockVars, UpgradeTypeOK, LockHeldByTheJob
<1>6. QED
  BY <1>1, <1>2, <1>3, <1>4, <1>5 DEF UpgradeNext, Job, Unlocked

(***************************************************************************)
(* Types and the lock at the start.                                        *)
(***************************************************************************)
LEMMA LockInitially ==
  ASSUME UpgradeInit
  PROVE  UpgradeTypeOK /\ LockHeldByTheJob
<1>1. Lock!LockTypeOK /\ Lock!AtMostOneHolder /\ holders[Cluster] = {}
  BY DEF UpgradeInit, Lock!LockInit, Lock!LockTypeOK, Lock!AtMostOneHolder
<1>2. {r \in Requests : place[r] \in JobPlaces} = {}
  BY DEF UpgradeInit, JobPlaces
<1>3. UpgradeTypeOK
  BY <1>1, UpgradeAssumption DEF UpgradeInit, UpgradeTypeOK, Places
<1>4. QED
  BY <1>1, <1>2, <1>3 DEF LockHeldByTheJob

(***************************************************************************)
(* The upgrade's variables keep their types.                               *)
(***************************************************************************)
THEOREM UpgradeTypeCorrect == UpgradeSpecification => []UpgradeTypeOK
<1>1. UpgradeInit => UpgradeTypeOK /\ LockHeldByTheJob
  BY LockInitially
<1>2. UpgradeTypeOK /\ LockHeldByTheJob /\ [UpgradeNext]_upgradeVars
        => UpgradeTypeOK' /\ LockHeldByTheJob'
  BY LockStep
<1>3. QED
  BY <1>1, <1>2, PTL DEF UpgradeSpecification

(***************************************************************************)
(* For any number of requests and crashes, the cluster's key is held       *)
(* exactly by the one job at work, if there is one.                        *)
(***************************************************************************)
THEOREM KeyIsTheJobs == UpgradeSpecification => []LockHeldByTheJob
<1>1. UpgradeInit => UpgradeTypeOK /\ LockHeldByTheJob
  BY LockInitially
<1>2. UpgradeTypeOK /\ LockHeldByTheJob /\ [UpgradeNext]_upgradeVars
        => UpgradeTypeOK' /\ LockHeldByTheJob'
  BY LockStep
<1>3. QED
  BY <1>1, <1>2, PTL DEF UpgradeSpecification

-----------------------------------------------------------------------------
(* One upgrade at a time *)

(***************************************************************************)
(* A request's choice is fixed by the validation it passes.                *)
(***************************************************************************)
LEMMA ValidStep ==
  ASSUME UpgradeTypeOK, RequestsValid, [UpgradeNext]_upgradeVars
  PROVE  RequestsValid'
<1> USE DEF requestVars, GoTo, Places, JobPlaces, UpgradeTypeOK, RequestsValid
<1>1. ASSUME NEW r \in Requests, NEW t \in Templates, Validate(r, t)
      PROVE  RequestsValid'
  BY <1>1 DEF Validate
<1>2. ASSUME UNCHANGED <<chosen, against>>,
             \A r \in Requests : place'[r] = "validated" => place[r] = "validated"
      PROVE  RequestsValid'
  BY <1>2
<1>3. ASSUME NEW r \in Requests, StartJob(r) \/ Job(r) \/ Stop(r)
      PROVE  RequestsValid'
  <2>1. UNCHANGED <<chosen, against>>
    BY <1>3 DEF StartJob, Job, Clone, PatchControlPlane, PatchWorkers, Complete, Stop
  <2>2. \A q \in Requests : place'[q] = "validated" => place[q] = "validated"
    BY <1>3 DEF StartJob, Job, Clone, PatchControlPlane, PatchWorkers, Complete, Stop
  <2>3. QED
    BY <1>2, <2>1, <2>2
<1>4. CASE Crash
  <2>1. \A q \in Requests : place'[q] = "validated" => place[q] = "validated"
    BY <1>4 DEF Crash
  <2>2. QED
    BY <1>2, <1>4, <2>1 DEF Crash
<1>5. CASE \/ \E t \in Templates : CheckUnused(t) \/ DestroyImage(t) \/ DeleteRow(t)
           \/ ClusterAPI \/ UNCHANGED upgradeVars
  BY <1>2, <1>5 DEF CheckUnused, DestroyImage, DeleteRow, ClusterAPI, Notice, Replace,
                    upgradeVars
<1>6. QED
  BY <1>1, <1>3, <1>4, <1>5 DEF UpgradeNext

(***************************************************************************)
(* A job that starts on the cluster it was validated against finds it at   *)
(* rest on one template, and begins a new upgrade from there.              *)
(***************************************************************************)
LEMMA UpgradeBegins ==
  ASSUME UpgradeTypeOK, LockHeldByTheJob, RequestsValid,
         NEW a \in Templates, NEW b \in Templates, Rolling(a, b),
         NEW r \in Requests, StartJob(r), ~upset', place'[r] = "clone"
  PROVE  Rolling(against[r], chosen[r])'
<1> DEFINE x == declared["controlplane"]
           y == chosen[r]
<1>1. /\ place[r] = "validated" /\ holders[Cluster] = {}
      /\ place' = [place EXCEPT ![r] = "clone"]
      /\ Settled /\ against[r] = x
      /\ UNCHANGED <<declared, noticed, runs, chosen, against>>
  BY DEF StartJob, Lock!Acquire, GoTo, clusterVars, UpgradeTypeOK
<1>2. /\ x \in Templates /\ y \in Templates /\ x # y
      /\ ValidateUpgrade(VersionOf[x], VersionOf[y])
  BY <1>1, VersionOrder DEF RequestsValid, UpgradeTypeOK, Roles
<1>3. \A role \in Roles : declared[role] = x
  BY <1>1 DEF Settled, Roles
<1>4. \A m \in Machines : runs[m] = x /\ noticed[RoleOf(m)] = x
  <2> SUFFICES ASSUME NEW m \in Machines
               PROVE  runs[m] = x /\ noticed[RoleOf(m)] = x
    OBVIOUS
  <2>1. runs[m] = x
    BY <1>1 DEF Settled
  <2>2. RoleOf(m) \in Roles
    BY DEF RoleOf, Roles
  <2>3. QED
    BY <1>3, <2>1, <2>2 DEF Rolling
<1>5. \A q \in Requests : place'[q] \in JobPlaces => q = r
  BY <1>1 DEF LockHeldByTheJob, UpgradeTypeOK
<1>6. place'[r] # "patchWorkers"
  OBVIOUS
<1>7. QED
  BY <1>1, <1>2, <1>3, <1>4, <1>5, <1>6 DEF Rolling, Roles, JobPlaces

(***************************************************************************)
(* Whatever else happens leaves the cluster on the same way.               *)
(***************************************************************************)
LEMMA UpgradeGoesOn ==
  ASSUME UpgradeTypeOK,
         NEW a \in Templates, NEW b \in Templates, Rolling(a, b),
         [UpgradeNext]_upgradeVars,
         \A r \in Requests : place'[r] \in JobPlaces => place[r] \in JobPlaces
  PROVE  Rolling(a, b)'
<1> USE DEF GoTo, Roles, Places
\* Nothing of the cluster changes, and no job comes to its second patch.
<1>1. ASSUME UNCHANGED clusterVars,
             \A r \in Requests : place'[r] \in JobPlaces =>
               against'[r] = against[r] /\ chosen'[r] = chosen[r],
             \A r \in Requests : place'[r] = "patchWorkers" => place[r] = "patchWorkers"
      PROVE  Rolling(a, b)'
  BY <1>1 DEF Rolling, clusterVars
\* A job writes the spec of one role, and may go on or end.
<1>2. ASSUME NEW r \in Requests, NEW role \in Roles, NEW p \in Places,
             Patch(r, role), GoTo(r, p), UNCHANGED <<noticed, runs, chosen, against>>,
             \/ place[r] = "patchControlPlane" /\ role = "controlplane"
             \/ place[r] = "patchWorkers" /\ role = "workers" /\ p # "patchWorkers"
      PROVE  Rolling(a, b)'
  <2>1. chosen[r] = b /\ declared' = [declared EXCEPT ![role] = b]
    BY <1>2 DEF Rolling, Patch, JobPlaces
  <2>2. \A l \in Roles : declared[l] = b => declared'[l] = b
    BY <2>1 DEF UpgradeTypeOK
  <2>3. declared'["controlplane"] = b
    BY <1>2, <2>1 DEF Rolling, UpgradeTypeOK
  <2>4. \A l \in Roles : declared'[l] \in {a, b}
    BY <2>1 DEF Rolling, UpgradeTypeOK
  <2>5. \A m \in Machines : RoleOf(m) \in Roles
    BY DEF RoleOf
  <2>6. QED
    BY <1>2, <2>2, <2>3, <2>4, <2>5 DEF Rolling
<1>3. ASSUME NEW r \in Requests, NEW t \in Templates, Validate(r, t)
      PROVE  Rolling(a, b)'
  BY <1>1, <1>3 DEF Validate, JobPlaces, UpgradeTypeOK
<1>4. ASSUME NEW r \in Requests, StartJob(r) \/ Clone(r) \/ Complete(r)
      PROVE  Rolling(a, b)'
  BY <1>1, <1>4 DEF StartJob, Clone, Complete, clusterVars, UpgradeTypeOK
<1>5. ASSUME NEW r \in Requests, PatchControlPlane(r)
      PROVE  Rolling(a, b)'
  <2>1. "patchWorkers" \in Places
    BY DEF JobPlaces
  <2>2. QED
    BY <1>2, <1>5, <2>1 DEF PatchControlPlane
<1>6. ASSUME NEW r \in Requests, PatchWorkers(r)
      PROVE  Rolling(a, b)'
  <2>1. "wait" \in Places
    BY DEF JobPlaces
  <2>2. QED
    BY <1>2, <1>6, <2>1 DEF PatchWorkers
<1>7. ASSUME NEW r \in Requests, Stop(r)
      PROVE  Rolling(a, b)'
  <2>1. CASE UNCHANGED declared
    BY <1>1, <1>7, <2>1 DEF Stop, clusterVars, UpgradeTypeOK
  <2>2. CASE ~UNCHANGED declared
    BY <1>2, <1>7, <2>2 DEF Stop
  <2>3. QED
    BY <2>1, <2>2
<1>8. CASE Crash
  <2>1. \A r \in Requests : place'[r] \notin JobPlaces
    BY <1>8 DEF Crash, JobPlaces, UpgradeTypeOK
  <2>2. QED
    BY <1>1, <1>8, <2>1 DEF Crash, JobPlaces
<1>9. ASSUME NEW t \in Templates, CheckUnused(t) \/ DestroyImage(t) \/ DeleteRow(t)
      PROVE  Rolling(a, b)'
  BY <1>1, <1>9 DEF CheckUnused, DestroyImage, DeleteRow, requestVars
\* A controller catches up with its spec, which names b if it ever did.
<1>10. ASSUME NEW role \in Roles, Notice(role)
       PROVE  Rolling(a, b)'
  BY <1>10 DEF Notice, Rolling, requestVars, RoleOf, UpgradeTypeOK
\* A machine becomes what its controller has seen.
<1>11. ASSUME NEW m \in Machines, Replace(m)
       PROVE  Rolling(a, b)'
  BY <1>11 DEF Replace, Rolling, requestVars, UpgradeTypeOK
<1>12. CASE UNCHANGED upgradeVars
  BY <1>1, <1>12 DEF upgradeVars, requestVars
<1>13. QED
  BY <1>3, <1>4, <1>5, <1>6, <1>7, <1>8, <1>9, <1>10, <1>11, <1>12
     DEF UpgradeNext, Job, ClusterAPI

(***************************************************************************)
(* upset, once true, stays true.                                           *)
(***************************************************************************)
LEMMA UpsetStays ==
  ASSUME [UpgradeNext]_upgradeVars, ~upset'
  PROVE  ~upset
BY DEF UpgradeNext, Validate, StartJob, Job, Clone, PatchControlPlane, PatchWorkers, Complete,
       Stop, Crash, CheckUnused, DestroyImage, DeleteRow, ClusterAPI, Notice, Replace, upgradeVars

(***************************************************************************)
(* Only StartJob brings a request to where a job is at work.               *)
(***************************************************************************)
LEMMA JobsStart ==
  ASSUME UpgradeTypeOK, [UpgradeNext]_upgradeVars,
         NEW r \in Requests, place'[r] \in JobPlaces, place[r] \notin JobPlaces
  PROVE  StartJob(r) /\ place'[r] = "clone"
<1> USE DEF GoTo, UpgradeTypeOK, JobPlaces
<1>1. ASSUME NEW q \in Requests, StartJob(q)
      PROVE  StartJob(r) /\ place'[r] = "clone"
  <2>1. q = r /\ place'[r] = "clone"
    BY <1>1 DEF StartJob
  <2>2. QED
    BY <1>1, <2>1
<1>2. ASSUME NEW q \in Requests, Job(q) \/ Stop(q) \/ \E t \in Templates : Validate(q, t)
      PROVE  FALSE
  BY <1>2 DEF Job, Clone, PatchControlPlane, PatchWorkers, Complete, Stop, Validate
<1>3. CASE Crash
  BY <1>3 DEF Crash
<1>4. CASE \/ \E t \in Templates : CheckUnused(t) \/ DestroyImage(t) \/ DeleteRow(t)
           \/ ClusterAPI \/ UNCHANGED upgradeVars
  BY <1>4 DEF CheckUnused, DestroyImage, DeleteRow, ClusterAPI, Notice, Replace,
              upgradeVars, requestVars
<1>5. QED
  BY <1>1, <1>2, <1>3, <1>4 DEF UpgradeNext

(***************************************************************************)
(* The inductive invariant.                                                *)
(***************************************************************************)
LEMMA UpgradeInductive ==
  /\ UpgradeInit => UpgradeIInv
  /\ UpgradeIInv /\ [UpgradeNext]_upgradeVars => UpgradeIInv'
<1>1. ASSUME UpgradeInit
      PROVE  UpgradeIInv
  <2>1. UpgradeTypeOK /\ LockHeldByTheJob /\ RequestsValid
    BY <1>1, LockInitially DEF UpgradeInit, RequestsValid
  <2>2. Rolling(CreatedFrom, CreatedFrom)
    BY <1>1 DEF UpgradeInit, Rolling, RoleOf, Roles, JobPlaces
  <2>3. QED
    BY <2>1, <2>2, UpgradeAssumption DEF UpgradeIInv, OneUpgrade
<1>2. ASSUME UpgradeIInv, [UpgradeNext]_upgradeVars
      PROVE  UpgradeIInv'
  <2>1. UpgradeTypeOK' /\ LockHeldByTheJob'
    BY <1>2, LockStep DEF UpgradeIInv
  <2>2. RequestsValid'
    BY <1>2, ValidStep DEF UpgradeIInv
  <2>3. ASSUME ~upset'
        PROVE  \E c, d \in Templates : Rolling(c, d)'
    <3>1. PICK a \in Templates, b \in Templates : Rolling(a, b)
      BY <1>2, <2>3, UpsetStays DEF UpgradeIInv, OneUpgrade
    <3>2. CASE \A r \in Requests : place'[r] \in JobPlaces => place[r] \in JobPlaces
      BY <1>2, <3>1, <3>2, UpgradeGoesOn DEF UpgradeIInv
    <3>3. ASSUME NEW r \in Requests, place'[r] \in JobPlaces, place[r] \notin JobPlaces
          PROVE  \E c, d \in Templates : Rolling(c, d)'
      <4>1. StartJob(r) /\ place'[r] = "clone"
        BY <1>2, <3>3, JobsStart DEF UpgradeIInv
      <4>2. Rolling(against[r], chosen[r])'
        BY <1>2, <2>3, <3>1, <4>1, UpgradeBegins DEF UpgradeIInv
      <4>3. against'[r] \in Templates /\ chosen'[r] \in Templates
        BY <2>1 DEF UpgradeTypeOK
      <4>4. QED
        BY <4>2, <4>3
    <3>4. QED
      BY <3>2, <3>3
  <2>4. QED
    BY <2>1, <2>2, <2>3 DEF UpgradeIInv, OneUpgrade
<1>3. QED
  BY <1>1, <1>2

(***************************************************************************)
(* The workers' spec never names a newer version than the control plane's, *)
(* for any sequence of upgrades, cancellations, failures and crashes whose *)
(* jobs each start on a settled cluster.                                   *)
(***************************************************************************)
THEOREM ControlPlaneLeads == UpgradeSpecification => []WorkersDeclaredBehind
<1>1. ASSUME UpgradeIInv
      PROVE  WorkersDeclaredBehind
  <2> SUFFICES ASSUME ~upset
               PROVE  ~Older(VersionOf[declared["controlplane"]],
                             VersionOf[declared["workers"]])
    BY DEF WorkersDeclaredBehind
  <2>1. PICK a \in Templates, b \in Templates : Rolling(a, b)
    BY <1>1 DEF UpgradeIInv, OneUpgrade
  <2>2. CASE declared["workers"] = declared["controlplane"]
    BY <2>1, <2>2, VersionOrder DEF Rolling, Roles
  <2>3. CASE declared["workers"] # declared["controlplane"]
    <3>1. declared["workers"] = a /\ declared["controlplane"] = b /\ a # b
      BY <2>1, <2>3 DEF Rolling, Roles
    <3>2. Older(VersionOf[a], VersionOf[b])
      BY <2>1, <3>1 DEF Rolling, ValidateUpgrade
    <3>3. QED
      BY <3>1, <3>2, VersionOrder
  <2>4. QED
    BY <2>2, <2>3
<1>2. QED
  BY <1>1, UpgradeInductive, PTL DEF UpgradeSpecification

(***************************************************************************)
(* No machine is ever replaced by one that is older, of another major      *)
(* version or more than one minor version ahead, for any sequence of       *)
(* upgrades, abandoned ones included, whose jobs each start on a settled   *)
(* cluster.                                                                *)
(***************************************************************************)
THEOREM MinorByMinor == UpgradeSpecification => OneMinorAtATime
<1> DEFINE Step == ~upset' =>
      \A m \in Machines : OneMinor(VersionOf[runs[m]], VersionOf[runs'[m]])
<1>1. ASSUME UpgradeIInv, UpgradeIInv', [UpgradeNext]_upgradeVars
      PROVE  Step
  <2> SUFFICES ASSUME ~upset', NEW m \in Machines
               PROVE  OneMinor(VersionOf[runs[m]], VersionOf[runs'[m]])
    OBVIOUS
  <2>1. runs[m] \in Templates
    BY <1>1 DEF UpgradeIInv, UpgradeTypeOK
  <2>2. CASE runs'[m] = runs[m]
    BY <2>1, <2>2, VersionOrder
  <2>3. CASE runs'[m] # runs[m]
    <3>1. Replace(m)
      BY <1>1, <2>3
      DEF UpgradeIInv, UpgradeTypeOK, UpgradeNext, Validate, StartJob, Job, Clone,
          PatchControlPlane, PatchWorkers, Complete, Stop, Crash, CheckUnused,
          DestroyImage, DeleteRow, ClusterAPI, Notice, Replace, upgradeVars, clusterVars
    <3>2. PICK a \in Templates, b \in Templates : Rolling(a, b)
      BY <1>1, UpsetStays DEF UpgradeIInv, OneUpgrade
    <3>3. runs'[m] = noticed[RoleOf(m)]
      BY <1>1, <3>1 DEF Replace, UpgradeIInv, UpgradeTypeOK
    <3>4. runs[m] = a /\ runs'[m] = b /\ a # b
      BY <2>3, <3>2, <3>3 DEF Rolling
    <3>5. ValidateUpgrade(VersionOf[a], VersionOf[b])
      BY <3>2, <3>4 DEF Rolling
    <3>6. QED
      BY <3>4, <3>5, VersionOrder
  <2>4. QED
    BY <2>2, <2>3
<1>2. UpgradeIInv /\ UpgradeIInv' /\ [UpgradeNext]_upgradeVars => [Step]_upgradeVars
  BY <1>1
<1>3. QED
  BY <1>2, UpgradeInductive, PTL DEF UpgradeSpecification, OneMinorAtATime

-----------------------------------------------------------------------------
(* What the job at work has declared is still declared *)

JobDeclares ==
  \A r \in Requests :
    /\ place[r] \in {"patchWorkers", "wait"} => declared["controlplane"] = chosen[r]
    /\ place[r] = "wait" => declared["workers"] = chosen[r]

(***************************************************************************)
(* Nobody but the job at work patches the specs: this is what the lock is  *)
(* for.                                                                    *)
(***************************************************************************)
LEMMA DeclaresStep ==
  ASSUME UpgradeTypeOK, LockHeldByTheJob, JobDeclares, [UpgradeNext]_upgradeVars
  PROVE  JobDeclares'
<1> USE DEF GoTo, JobPlaces, Roles, UpgradeTypeOK
<1>1. \A q, r \in Requests : place[q] \in JobPlaces /\ place[r] \in JobPlaces => q = r
  BY DEF LockHeldByTheJob, Lock!AtMostOneHolder
<1>2. ASSUME UNCHANGED declared,
             \A r \in Requests : place'[r] \in {"patchWorkers", "wait"} =>
               place'[r] = place[r] /\ chosen'[r] = chosen[r]
      PROVE  JobDeclares'
  BY <1>2 DEF JobDeclares
<1>3. ASSUME NEW r \in Requests, PatchControlPlane(r)
      PROVE  JobDeclares'
  <2>1. /\ place[r] = "patchControlPlane" /\ place' = [place EXCEPT ![r] = "patchWorkers"]
        /\ declared'["controlplane"] = chosen[r] /\ chosen' = chosen
    BY <1>3 DEF PatchControlPlane, Patch
  <2>2. \A q \in Requests : q # r => place'[q] \notin {"patchWorkers", "wait"}
    BY <1>1, <2>1
  <2>3. QED
    BY <2>1, <2>2 DEF JobDeclares
<1>4. ASSUME NEW r \in Requests, PatchWorkers(r)
      PROVE  JobDeclares'
  <2>1. /\ place[r] = "patchWorkers" /\ place' = [place EXCEPT ![r] = "wait"]
        /\ declared' = [declared EXCEPT !["workers"] = chosen[r]] /\ chosen' = chosen
    BY <1>4 DEF PatchWorkers, Patch
  <2>2. \A q \in Requests : q # r => place'[q] \notin {"patchWorkers", "wait"}
    BY <1>1, <2>1
  <2>3. QED
    BY <2>1, <2>2 DEF JobDeclares
<1>5. ASSUME NEW r \in Requests, Stop(r)
      PROVE  JobDeclares'
  <2>1. \A q \in Requests : place'[q] \notin {"patchWorkers", "wait"}
    BY <1>1, <1>5 DEF Stop
  <2>2. QED
    BY <2>1 DEF JobDeclares
<1>6. ASSUME NEW r \in Requests,
             StartJob(r) \/ Clone(r) \/ Complete(r) \/ \E t \in Templates : Validate(r, t)
      PROVE  JobDeclares'
  BY <1>2, <1>6 DEF StartJob, Clone, Complete, Validate, clusterVars
<1>7. CASE Crash
  BY <1>2, <1>7 DEF Crash, clusterVars
<1>8. CASE \/ \E t \in Templates : CheckUnused(t) \/ DestroyImage(t) \/ DeleteRow(t)
           \/ ClusterAPI \/ UNCHANGED upgradeVars
  BY <1>2, <1>8 DEF CheckUnused, DestroyImage, DeleteRow, ClusterAPI, Notice, Replace,
                    upgradeVars, clusterVars, requestVars
<1>9. QED
  BY <1>3, <1>4, <1>5, <1>6, <1>7, <1>8 DEF UpgradeNext, Job

(***************************************************************************)
(* A job that succeeds after the controllers have noticed its patches      *)
(* leaves every machine on its template, whatever jobs were abandoned      *)
(* before it and on whatever cluster it started.                           *)
(***************************************************************************)
THEOREM SuccessMeansReplaced == UpgradeSpecification => CompleteOnceNoticed
<1> DEFINE Step == \A r \in Requests :
      place[r] = "wait" /\ place'[r] = "succeeded" /\ noticed = declared
        => \A m \in Machines : runs[m] = chosen[r]
           IInv == UpgradeIInv /\ JobDeclares
<1>1. UpgradeInit => IInv
  BY UpgradeInductive DEF UpgradeInit, JobDeclares
<1>2. IInv /\ [UpgradeNext]_upgradeVars => IInv'
  BY UpgradeInductive, DeclaresStep DEF UpgradeIInv
<1>3. ASSUME IInv, [UpgradeNext]_upgradeVars
      PROVE  Step
  <2> SUFFICES ASSUME NEW r \in Requests,
                      place[r] = "wait", place'[r] = "succeeded", noticed = declared,
                      NEW m \in Machines
               PROVE  runs[m] = chosen[r]
    OBVIOUS
  <2>1. place \in [Requests -> Places]
    BY <1>3 DEF UpgradeIInv, UpgradeTypeOK
  <2>2. Complete(r)
    BY <1>3, <2>1
    DEF UpgradeNext, Validate, StartJob, Job, Clone, PatchControlPlane, PatchWorkers,
        Complete, Stop, Crash, CheckUnused, DestroyImage, DeleteRow, ClusterAPI, Notice,
        Replace, upgradeVars, requestVars, GoTo, JobPlaces
  <2>3. RoleOf(m) \in Roles
    BY DEF RoleOf, Roles
  <2>4. runs[m] = declared[RoleOf(m)]
    BY <2>2, <2>3 DEF Complete, ReportsUpToDate
  <2>5. declared[RoleOf(m)] = chosen[r]
    BY <1>3, <2>3 DEF JobDeclares, Roles
  <2>6. QED
    BY <2>4, <2>5
<1>4. IInv /\ [UpgradeNext]_upgradeVars => [Step]_upgradeVars
  BY <1>3
<1> HIDE DEF IInv, Step
<1>5. UpgradeSpecification => [][Step]_upgradeVars
  BY <1>1, <1>2, <1>4, PTL DEF UpgradeSpecification
<1>6. QED
  BY <1>5 DEF Step, CompleteOnceNoticed
=============================================================================
