----------------------- MODULE ClusterLifecycleProofs -----------------------
(***************************************************************************)
(* Proofs about ClusterLifecycle, for any number of requests, connections, *)
(* crashes and removed connections.  The invariant says who owns what      *)
(* while the history variable stray is FALSE: the one job at work holds    *)
(* the lock, an apply owns the row from its INSERT to the end of its job,  *)
(* nobody else is about to insert or take back a row while a delete is at  *)
(* work, and a request that still may create the object finds none.        *)
(***************************************************************************)
EXTENDS ClusterLifecycle, TLAPS

\* The lock belongs to the job at work, and there is one at most.
LockIsTheJobs ==
  /\ \A r \in Requests : r \in holders[Cluster] <=> place[r] \in JobPlaces
  /\ \A r, s \in Requests : place[r] \in JobPlaces /\ place[s] \in JobPlaces => r = s

AppliesOwnTheRow ==
  ~stray => \A r \in Requests : place[r] \in ApplyJob \cup {"recorded", "undo"} => owner = r

DeletesAreSettled ==
  ~stray => \A r \in Requests :
              place[r] \in {"deleteObject", "awaitGone", "removeRow"} => RowSettled

ObjectsAreListed == ~stray /\ object # "absent" => owner # Nobody

AppliesStartAfresh ==
  ~stray => \A r \in Requests :
              place[r] \in {"recorded", "undo", "credentials", "manifest"} => object = "absent"

LifecycleIInv ==
  /\ LifecycleTypeOK
  /\ LockIsTheJobs /\ RemovalMeansGone /\ AwaitedCountIsDeclared
  /\ AppliesOwnTheRow /\ DeletesAreSettled /\ ObjectsAreListed /\ AppliesStartAfresh
-----------------------------------------------------------------------------
(* Types *)

(***************************************************************************)
(* Taking and giving back the lock keeps its variables well-formed.        *)
(***************************************************************************)
LEMMA LifeLockOps ==
  ASSUME Lock!LockTypeOK
  PROVE  /\ \A r \in Requests : Lock!Acquire(r, Cluster) =>
              Lock!LockTypeOK' /\ holders[Cluster] = {} /\ holders'[Cluster] = {r}
         /\ \A Done \in SUBSET Requests : Lock!Release(Done) =>
              Lock!LockTypeOK' /\ holders'[Cluster] = holders[Cluster] \ Done
         /\ UNCHANGED lockVars => Lock!LockTypeOK' /\ UNCHANGED holders
BY DEF Lock!LockTypeOK, Lock!Acquire, Lock!Release, lockVars

(***************************************************************************)
(* Every step of a request keeps the types.                                *)
(***************************************************************************)
LEMMA LifeTypeOfRequests ==
  ASSUME LifecycleTypeOK, NEW r \in Requests, NEW c \in Connections
  PROVE  /\ Record(r, c) \/ StartDelete(r) \/ Observe(r) => LifecycleTypeOK'
         /\ \A role \in Roles, n \in Counts : StartScale(r, role, n) => LifecycleTypeOK'
         /\ Handler(r) => LifecycleTypeOK'
         /\ Job(r) \/ Stop(r) => LifecycleTypeOK'
<1> USE DEF requestVars, rowVars, objectVars, rest, GoTo, Places, Handling, JobPlaces, ApplyJob,
            DeleteJob, ScaleJob, Phases, Statuses
<1>a. UNCHANGED lockVars => Lock!LockTypeOK'
  BY LifeLockOps DEF LifecycleTypeOK
<1>b. Lock!Acquire(r, Cluster) \/ Lock!Release({r}) => Lock!LockTypeOK'
  BY LifeLockOps DEF LifecycleTypeOK
<1>1. CASE Record(r, c)
  BY <1>a, <1>1 DEF Record, LifecycleTypeOK
<1>2. CASE StartDelete(r)
  <2>1. stray' \in BOOLEAN
    BY <1>2 DEF StartDelete, LifecycleTypeOK, RowSettled
  <2>2. Lock!LockTypeOK'
    BY <1>a, <1>b, <1>2 DEF StartDelete
  <2>3. QED
    BY <1>2, <2>1, <2>2 DEF StartDelete, LifecycleTypeOK
<1>3. CASE Observe(r)
  BY <1>a, <1>3 DEF Observe, LifecycleTypeOK
<1>4. ASSUME NEW role \in Roles, NEW n \in Counts, StartScale(r, role, n)
      PROVE  LifecycleTypeOK'
  <2>1. Lock!LockTypeOK'
    BY <1>a, <1>b, <1>4 DEF StartScale
  <2>2. n \in Nat
    BY LifecycleAssumption
  <2>3. QED
    BY <1>4, <2>1, <2>2 DEF StartScale, LifecycleTypeOK, Roles
<1>5. CASE StartApply(r)
  <2>1. Lock!LockTypeOK'
    BY <1>a, <1>b, <1>5 DEF StartApply
  <2>2. QED
    BY <1>5, <2>1 DEF StartApply, LifecycleTypeOK
<1>6. CASE Undo(r) \/ WriteStatus(r) \/ Mark(r) \/ MarkFails(r)
  BY <1>a, <1>6 DEF Undo, WriteStatus, Mark, MarkFails, LifecycleTypeOK
<1>7. CASE ApplySteps(r)
  BY <1>a, <1>7 DEF ApplySteps, SyncCredentials, ApplyManifest, Create, Provisioned, LifecycleTypeOK
<1>8. CASE DeleteSteps(r)
  BY <1>a, <1>8 DEF DeleteSteps, RequestTeardown, ConfirmAbsent, RemoveRow, LifecycleTypeOK
<1>9. CASE ScaleSteps(r)
  BY <1>a, <1>9 DEF ScaleSteps, PatchReplicas, Patch, CountReached, LifecycleTypeOK
<1>10. CASE Finish(r)
  BY <1>b, <1>10 DEF Finish, LifecycleTypeOK
<1>11. CASE Stop(r)
  <2>1. Lock!LockTypeOK'
    BY <1>b, <1>11 DEF Stop
  <2>2. object' \in Phases \cup {"absent"} /\ wanted' \in [Roles -> Nat]
    BY <1>11 DEF Stop, Create, Patch, LifecycleTypeOK
  <2>3. QED
    BY <1>11, <2>1, <2>2 DEF Stop, LifecycleTypeOK
<1>12. QED
  BY <1>1, <1>2, <1>3, <1>4, <1>5, <1>6, <1>7, <1>8, <1>9, <1>10, <1>11 DEF Handler, Job
(***************************************************************************)
(* Every step keeps the types.                                             *)
(***************************************************************************)
LEMMA LifeTypeStep ==
  ASSUME LifecycleTypeOK, [LifecycleNext]_lifeVars
  PROVE  LifecycleTypeOK'
<1> USE DEF requestVars, rowVars, objectVars, rest
<1>a. UNCHANGED lockVars => Lock!LockTypeOK'
  BY LifeLockOps DEF LifecycleTypeOK
<1>1. ASSUME NEW r \in Requests, NEW c \in Connections,
             Record(r, c) \/ StartDelete(r) \/ Observe(r) \/ Handler(r) \/ Job(r) \/ Stop(r)
      PROVE  LifecycleTypeOK'
  BY <1>1, LifeTypeOfRequests
<1>2. ASSUME NEW r \in Requests, NEW role \in Roles, NEW n \in Counts, StartScale(r, role, n)
      PROVE  LifecycleTypeOK'
  <2>1. PICK c \in Connections : TRUE
    BY LifecycleAssumption
  <2>2. QED
    BY <1>2, LifeTypeOfRequests
<1>3. ASSUME NEW c \in Connections, Disconnect(c)
      PROVE  LifecycleTypeOK'
  BY <1>a, <1>3 DEF Disconnect, LifecycleTypeOK
<1>4. CASE Crash
  <2>1. Lock!LockTypeOK'
    BY <1>4, LifeLockOps DEF Crash, LifecycleTypeOK
  <2>2. place' \in [Requests -> Places]
    BY <1>4 DEF Crash, LifecycleTypeOK, Places
  <2>3. QED
    BY <1>4, <2>1, <2>2, LifecycleAssumption DEF Crash, LifecycleTypeOK
<1>5. CASE TornDown
  BY <1>a, <1>5 DEF TornDown, LifecycleTypeOK
<1>6. CASE UNCHANGED lifeVars
  BY <1>a, <1>6 DEF lifeVars, lockVars, LifecycleTypeOK
<1>7. PICK any \in Connections : TRUE
  BY LifecycleAssumption
<1>8. QED
  BY <1>1, <1>2, <1>3, <1>4, <1>5, <1>6, <1>7 DEF LifecycleNext

(***************************************************************************)
(* Before the first request, types and invariant hold.                     *)
(***************************************************************************)
LEMMA LifeInit == LifecycleInit => LifecycleIInv
<1> SUFFICES ASSUME LifecycleInit PROVE LifecycleIInv
  OBVIOUS
<1>1. LifecycleTypeOK
  BY LifecycleAssumption
     DEF LifecycleInit, LifecycleTypeOK, Lock!LockInit, Lock!LockTypeOK, Places, Statuses, Roles
<1>2. LockIsTheJobs /\ RemovalMeansGone /\ AwaitedCountIsDeclared
  BY DEF LifecycleInit, Lock!LockInit, LockIsTheJobs, RemovalMeansGone, AwaitedCountIsDeclared,
         JobPlaces, ApplyJob, DeleteJob, ScaleJob
<1>3. AppliesOwnTheRow /\ DeletesAreSettled /\ ObjectsAreListed /\ AppliesStartAfresh
  BY DEF LifecycleInit, AppliesOwnTheRow, DeletesAreSettled, ObjectsAreListed, AppliesStartAfresh,
         ApplyJob
<1>4. QED
  BY <1>1, <1>2, <1>3 DEF LifecycleIInv

-----------------------------------------------------------------------------
(* The lock *)

(***************************************************************************)
(* Jobs take the lock when they begin and give it back when they end, so   *)
(* that it goes on saying which job is at work.                            *)
(***************************************************************************)
LEMMA LifeLockStep ==
  ASSUME LifecycleTypeOK, LockIsTheJobs, [LifecycleNext]_lifeVars
  PROVE  LockIsTheJobs'
<1> USE DEF GoTo, JobPlaces, ApplyJob, DeleteJob, ScaleJob, Phases, LockIsTheJobs
<1>a. Lock!LockTypeOK /\ place \in [Requests -> Places] /\ object \in Phases \cup {"absent"}
  BY DEF LifecycleTypeOK
<1>b. UNCHANGED lockVars => UNCHANGED holders
  BY DEF lockVars
<1>1. ASSUME NEW r \in Requests,
             \/ StartApply(r) \/ StartDelete(r)
             \/ \E role \in Roles, n \in Counts : StartScale(r, role, n)
      PROVE  LockIsTheJobs'
  <2>1. CASE Lock!Acquire(r, Cluster) /\ place'[r] \in JobPlaces
                /\ \E p \in JobPlaces : place' = [place EXCEPT ![r] = p]
    <3>1. holders[Cluster] = {} /\ holders'[Cluster] = {r}
      BY <1>a, <2>1, LifeLockOps
    <3>2. QED
      BY <1>a, <2>1, <3>1
  <2>2. CASE UNCHANGED lockVars /\ place[r] \notin JobPlaces
                /\ \E p \in {"undo", "over"} : place' = [place EXCEPT ![r] = p]
    BY <1>a, <1>b, <2>2
  <2>3. QED
    BY <1>a, <1>1, <2>1, <2>2 DEF StartApply, StartDelete, StartScale
<1>2. ASSUME NEW r \in Requests, Finish(r) \/ Stop(r)
      PROVE  LockIsTheJobs'
  <2>1. holders'[Cluster] = holders[Cluster] \ {r} /\ place' = [place EXCEPT ![r] = "over"]
    BY <1>a, <1>2, LifeLockOps DEF Finish, Stop
  <2>2. QED
    BY <1>a, <2>1
<1>3. CASE Crash
  <2>1. holders'[Cluster] = {}
    BY <1>a, <1>3, LifeLockOps DEF Crash, Lock!LockTypeOK
  <2>2. \A r \in Requests : place'[r] \notin JobPlaces
    BY <1>a, <1>3 DEF Crash
  <2>3. QED
    BY <2>1, <2>2
<1>4. ASSUME NEW r \in Requests,
             \/ \E c \in Connections : Record(r, c)
             \/ Observe(r) \/ Undo(r) \/ WriteStatus(r) \/ Mark(r) \/ MarkFails(r)
      PROVE  LockIsTheJobs'
  BY <1>a, <1>b, <1>4 DEF Record, Observe, Undo, WriteStatus, Mark, MarkFails
<1>5. ASSUME NEW r \in Requests, ApplySteps(r) \/ DeleteSteps(r) \/ ScaleSteps(r)
      PROVE  LockIsTheJobs'
  BY <1>a, <1>b, <1>5 DEF ApplySteps, DeleteSteps, ScaleSteps, SyncCredentials, ApplyManifest,
       Provisioned, RequestTeardown, ConfirmAbsent, RemoveRow, PatchReplicas, CountReached
<1>6. CASE TornDown \/ (\E c \in Connections : Disconnect(c)) \/ UNCHANGED lifeVars
  BY <1>b, <1>6 DEF TornDown, Disconnect, requestVars, lifeVars
<1>7. QED
  BY <1>1, <1>2, <1>3, <1>4, <1>5, <1>6 DEF LifecycleNext, Handler, Job
-----------------------------------------------------------------------------
(* Row and object *)

(***************************************************************************)
(* Records, starts of jobs, marks and looks do not touch the object; what  *)
(* they do to the row fits the requests that rely on it.                   *)
(***************************************************************************)
LEMMA LifeHandlers ==
  ASSUME LifecycleIInv, LifecycleTypeOK', NEW r \in Requests,
         \/ \E c \in Connections : Record(r, c)
         \/ StartDelete(r) \/ Observe(r) \/ Handler(r)
         \/ \E role \in Roles, n \in Counts : StartScale(r, role, n)
  PROVE  /\ RemovalMeansGone' /\ AwaitedCountIsDeclared'
         /\ AppliesOwnTheRow' /\ DeletesAreSettled' /\ ObjectsAreListed' /\ AppliesStartAfresh'
<1> USE DEF GoTo, ApplyJob, Phases, rowVars, objectVars, rest, RowSettled
<1>a. /\ place \in [Requests -> Places] /\ object \in Phases \cup {"absent"}
      /\ asked \in [Requests -> Roles \X Nat]
      /\ owner \in Requests \cup {Nobody} /\ Nobody \notin Requests
  BY LifecycleAssumption DEF LifecycleIInv, LifecycleTypeOK
<1> USE DEF RemovalMeansGone, AwaitedCountIsDeclared, AppliesOwnTheRow, DeletesAreSettled,
            ObjectsAreListed, AppliesStartAfresh
<1>i. /\ RemovalMeansGone /\ AwaitedCountIsDeclared
      /\ AppliesOwnTheRow /\ DeletesAreSettled /\ ObjectsAreListed /\ AppliesStartAfresh
  BY DEF LifecycleIInv
<1>1. ASSUME NEW c \in Connections, Record(r, c)
      PROVE  /\ RemovalMeansGone' /\ AwaitedCountIsDeclared'
             /\ AppliesOwnTheRow' /\ DeletesAreSettled' /\ ObjectsAreListed' /\ AppliesStartAfresh'
  BY <1>a, <1>i, <1>1 DEF Record
<1>2. CASE StartApply(r)
  BY <1>a, <1>i, <1>2 DEF StartApply
<1>3. CASE Undo(r)
  BY <1>a, <1>i, <1>3 DEF Undo
<1>4. CASE StartDelete(r)
  BY <1>a, <1>i, <1>4 DEF StartDelete
<1>5. ASSUME NEW role \in Roles, NEW n \in Counts, StartScale(r, role, n)
      PROVE  /\ RemovalMeansGone' /\ AwaitedCountIsDeclared'
             /\ AppliesOwnTheRow' /\ DeletesAreSettled' /\ ObjectsAreListed' /\ AppliesStartAfresh'
  BY <1>a, <1>i, <1>5 DEF StartScale
<1>6. CASE Observe(r)
  BY <1>a, <1>i, <1>6 DEF Observe
<1>7. CASE WriteStatus(r) \/ Mark(r) \/ MarkFails(r)
  BY <1>a, <1>i, <1>7 DEF WriteStatus, Mark, MarkFails
<1>8. QED
  BY <1>1, <1>2, <1>3, <1>4, <1>5, <1>6, <1>7 DEF Handler

(***************************************************************************)
(* The job at work is alone, so what it does to row and object is what the *)
(* other requests rely on.                                                 *)
(***************************************************************************)
LEMMA LifeJobs ==
  ASSUME LifecycleIInv, NEW r \in Requests, Job(r) \/ Stop(r)
  PROVE  /\ RemovalMeansGone' /\ AwaitedCountIsDeclared'
         /\ AppliesOwnTheRow' /\ DeletesAreSettled' /\ ObjectsAreListed' /\ AppliesStartAfresh'
<1>a. /\ place \in [Requests -> Places] /\ object \in Phases \cup {"absent"}
      /\ asked \in [Requests -> Roles \X Nat] /\ wanted \in [Roles -> Nat]
      /\ owner \in Requests \cup {Nobody} /\ Nobody \notin Requests
  BY LifecycleAssumption DEF LifecycleIInv, LifecycleTypeOK
<1>i. /\ RemovalMeansGone /\ AwaitedCountIsDeclared
      /\ AppliesOwnTheRow /\ DeletesAreSettled /\ ObjectsAreListed /\ AppliesStartAfresh
  BY DEF LifecycleIInv
<1>b. \A s \in Requests : place[r] \in JobPlaces /\ place[s] \in JobPlaces => r = s
  BY DEF LifecycleIInv, LockIsTheJobs
<1> USE DEF GoTo, ApplyJob, DeleteJob, ScaleJob, JobPlaces, Phases, rowVars, objectVars, rest,
            RowSettled, RemovalMeansGone, AwaitedCountIsDeclared, AppliesOwnTheRow,
            DeletesAreSettled, ObjectsAreListed, AppliesStartAfresh
<1>1. CASE SyncCredentials(r) \/ Provisioned(r)
  BY <1>a, <1>i, <1>1 DEF SyncCredentials, Provisioned
<1>2. CASE ApplyManifest(r)
  BY <1>a, <1>i, <1>b, <1>2 DEF ApplyManifest, Create
<1>3. CASE RequestTeardown(r)
  BY <1>a, <1>i, <1>b, <1>3 DEF RequestTeardown
<1>4. CASE ConfirmAbsent(r)
  BY <1>a, <1>i, <1>b, <1>4 DEF ConfirmAbsent
<1>5. CASE RemoveRow(r)
  BY <1>a, <1>i, <1>b, <1>5 DEF RemoveRow
<1>6. CASE PatchReplicas(r)
  BY <1>a, <1>i, <1>b, <1>6 DEF PatchReplicas, Patch
<1>7. CASE CountReached(r)
  BY <1>a, <1>i, <1>7 DEF CountReached
<1>8. CASE Finish(r)
  BY <1>a, <1>i, <1>8 DEF Finish
<1>9. CASE Stop(r)
  <2>1. place' = [place EXCEPT ![r] = "over"] /\ UNCHANGED <<asked, owner, stray>>
    BY <1>9 DEF Stop
  <2>2. \A s \in Requests : place'[s] \in JobPlaces => FALSE
    BY <1>a, <1>b, <1>9, <2>1 DEF Stop
  <2>3. RemovalMeansGone' /\ AwaitedCountIsDeclared' /\ DeletesAreSettled'
    BY <2>2
  <2>4. AppliesOwnTheRow'
    BY <1>a, <1>i, <2>1
  <2>5. CASE UNCHANGED object
    BY <1>a, <1>i, <2>1, <2>3, <2>4, <2>5
  <2>6. CASE place[r] = "manifest" /\ Create
    BY <1>a, <1>i, <2>1, <2>3, <2>4, <2>6 DEF Create
  <2>7. CASE place[r] = "deleteObject" /\ object = "live" /\ object' = "going"
    BY <1>a, <1>i, <2>1, <2>3, <2>4, <2>7
  <2>8. QED
    BY <1>9, <2>3, <2>4, <2>5, <2>6, <2>7 DEF Stop
<1>10. QED
  BY <1>1, <1>2, <1>3, <1>4, <1>5, <1>6, <1>7, <1>8, <1>9
     DEF Job, ApplySteps, DeleteSteps, ScaleSteps

(***************************************************************************)
(* Crashes, removed connections and Cluster API leave what is relied upon, *)
(* or stray records it.                                                    *)
(***************************************************************************)
LEMMA LifeOthers ==
  ASSUME LifecycleIInv,
         \/ Crash \/ TornDown \/ UNCHANGED lifeVars
         \/ \E c \in Connections : Disconnect(c)
  PROVE  /\ RemovalMeansGone' /\ AwaitedCountIsDeclared'
         /\ AppliesOwnTheRow' /\ DeletesAreSettled' /\ ObjectsAreListed' /\ AppliesStartAfresh'
<1>a. /\ place \in [Requests -> Places] /\ object \in Phases \cup {"absent"}
      /\ owner \in Requests \cup {Nobody} /\ Nobody \notin Requests
  BY LifecycleAssumption DEF LifecycleIInv, LifecycleTypeOK
<1>i. /\ RemovalMeansGone /\ AwaitedCountIsDeclared
      /\ AppliesOwnTheRow /\ DeletesAreSettled /\ ObjectsAreListed /\ AppliesStartAfresh
  BY DEF LifecycleIInv
<1> USE DEF ApplyJob, DeleteJob, ScaleJob, JobPlaces, Handling, Phases, requestVars, rowVars,
            objectVars, rest, RowSettled, RemovalMeansGone, AwaitedCountIsDeclared,
            AppliesOwnTheRow, DeletesAreSettled, ObjectsAreListed, AppliesStartAfresh
<1>1. CASE Crash
  BY <1>a, <1>i, <1>1 DEF Crash
<1>2. CASE TornDown
  BY <1>a, <1>i, <1>2 DEF TornDown
<1>3. ASSUME NEW c \in Connections, Disconnect(c)
      PROVE  /\ RemovalMeansGone' /\ AwaitedCountIsDeclared'
             /\ AppliesOwnTheRow' /\ DeletesAreSettled' /\ ObjectsAreListed' /\ AppliesStartAfresh'
  BY <1>a, <1>i, <1>3 DEF Disconnect
<1>4. CASE UNCHANGED lifeVars
  BY <1>i, <1>4 DEF lifeVars
<1>5. QED
  BY <1>1, <1>2, <1>3, <1>4

(***************************************************************************)
(* The invariant is inductive.                                             *)
(***************************************************************************)
LEMMA LifeStep == LifecycleIInv /\ [LifecycleNext]_lifeVars => LifecycleIInv'
<1> SUFFICES ASSUME LifecycleIInv, [LifecycleNext]_lifeVars PROVE LifecycleIInv'
  OBVIOUS
<1>1. LifecycleTypeOK' /\ LockIsTheJobs'
  BY LifeTypeStep, LifeLockStep DEF LifecycleIInv
<1>2. /\ RemovalMeansGone' /\ AwaitedCountIsDeclared'
      /\ AppliesOwnTheRow' /\ DeletesAreSettled' /\ ObjectsAreListed' /\ AppliesStartAfresh'
  BY <1>1, LifeHandlers, LifeJobs, LifeOthers DEF LifecycleNext
<1>3. QED
  BY <1>1, <1>2 DEF LifecycleIInv

-----------------------------------------------------------------------------
(* Theorems *)

(***************************************************************************)
(* The invariant holds in every behaviour.                                 *)
(***************************************************************************)
THEOREM LifecycleInvariance == LifecycleSpec => []LifecycleIInv
BY LifeInit, LifeStep, PTL DEF LifecycleSpec

(***************************************************************************)
(* Every variable keeps its type.                                          *)
(***************************************************************************)
THEOREM LifecycleTypeCorrect == LifecycleSpec => []LifecycleTypeOK
<1>1. LifecycleIInv => LifecycleTypeOK
  BY DEF LifecycleIInv
<1>2. QED
  BY <1>1, LifecycleInvariance, PTL

(***************************************************************************)
(* A row is removed by a delete job only when the object is gone.          *)
(***************************************************************************)
THEOREM RemovedWhenGone == LifecycleSpec => []RemovalMeansGone
<1>1. LifecycleIInv => RemovalMeansGone
  BY DEF LifecycleIInv
<1>2. QED
  BY <1>1, LifecycleInvariance, PTL

(***************************************************************************)
(* What runs, or may come to run, has a row.                               *)
(***************************************************************************)
THEOREM RunningIsRecorded == LifecycleSpec => []NothingForgotten
<1>1. LifecycleIInv => NothingForgotten
  BY LifecycleAssumption
     DEF LifecycleIInv, ObjectsAreListed, AppliesOwnTheRow, NothingForgotten
<1>2. QED
  BY <1>1, LifecycleInvariance, PTL

(***************************************************************************)
(* No apply job works on an object that is there already.                  *)
(***************************************************************************)
THEOREM AppliesAreFresh == LifecycleSpec => []NeverAppliedOver
<1>1. LifecycleIInv => NeverAppliedOver
  BY DEF LifecycleIInv, AppliesStartAfresh, NeverAppliedOver
<1>2. QED
  BY <1>1, LifecycleInvariance, PTL

(***************************************************************************)
(* The count a scale job waits for stays the declared one.                 *)
(***************************************************************************)
THEOREM CountStaysDeclared == LifecycleSpec => []AwaitedCountIsDeclared
<1>1. LifecycleIInv => AwaitedCountIsDeclared
  BY DEF LifecycleIInv
<1>2. QED
  BY <1>1, LifecycleInvariance, PTL
=============================================================================
