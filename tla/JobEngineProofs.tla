-------------------------- MODULE JobEngineProofs --------------------------
(***************************************************************************)
(* Proofs about JobEngine, for every set of jobs and keys, every number of *)
(* steps and every bound.  First the states, then what a step may do to    *)
(* rows that exist: history is never rewritten, and the lock keys move as  *)
(* ResourceLock says, for as long as no second process is launched.        *)
(***************************************************************************)
EXTENDS JobEngine, TLAPS

(***************************************************************************)
(* What an UPDATE of one job row, or of one step row, can do.              *)
(***************************************************************************)
LEMMA WriteJobType ==
  ASSUME NEW j \in Jobs, NEW STATE s, s \in JobStatus \ {"absent"}, TypeOK, WriteJob(j, s)
  PROVE  /\ status' \in [Jobs -> JobStatus]
         /\ lost' \in Nat
         /\ \A i \in Jobs \ {j} : status'[i] = status[i]
         /\ status'[j] \in {status[j], s}
         /\ lost' = 0 => lost = 0
<1>1. status \in [Jobs -> JobStatus] /\ lost \in Nat
  BY DEF TypeOK
<1>2. CASE status' = [status EXCEPT ![j] = s] /\ lost' = lost
  BY <1>1, <1>2
<1>3. CASE status' = status /\ lost' \in {lost, lost + 1}
  BY <1>1, <1>3
<1>4. QED
  BY <1>2, <1>3 DEF WriteJob

(***************************************************************************)
(* An UPDATE of one step row writes that row, or is lost.                  *)
(***************************************************************************)
LEMMA WriteStepType ==
  ASSUME NEW j \in Jobs, NEW STATE i, i \in Steps, NEW STATE s, s \in StepStatus, TypeOK, WriteStep(j, i, s)
  PROVE  /\ step' \in [Jobs -> [Steps -> StepStatus]]
         /\ lost' \in Nat
         /\ lost' = 0 => lost = 0 /\ step' = [step EXCEPT ![j][i] = s]
<1>1. step \in [Jobs -> [Steps -> StepStatus]] /\ lost \in Nat
  BY DEF TypeOK
<1>2. CASE step' = [step EXCEPT ![j][i] = s] /\ lost' = lost
  BY <1>1, <1>2
<1>3. CASE step' = step /\ lost' = lost + 1
  BY <1>1, <1>3
<1>4. QED
  BY <1>2, <1>3 DEF WriteStep

(***************************************************************************)
(* run's loop counter stays within one past the last step.                 *)
(***************************************************************************)
LEMMA NextStepType ==
  ASSUME NEW j \in Jobs, TypeOK, idx[j] \in Steps, NextStep(j)
  PROVE  idx' \in [Jobs -> 1 .. NumSteps + 1]
BY NumStepsAssumption DEF TypeOK, NextStep, Steps

(***************************************************************************)
(* The invariant holds before the first start-up.                          *)
(***************************************************************************)
LEMMA InitIInv == Init => IInv
BY NumStepsAssumption, BoundsAssumption
   DEF Steps, Active, Terminal, JobStatus, StepStatus, Outcomes, Places,
       Init, IInv, TypeOK, PlacesFit, FinalRowsAtRest, WorkersOwnRows, StepsBehind,
       RunsOnlyAfterSuccess, OutcomeHonest, Working, Started

(***************************************************************************)
(* Types and places survive every step.                                    *)
(***************************************************************************)
LEMMA TypeStep == TypeOK /\ PlacesFit /\ [Next]_vars => TypeOK' /\ PlacesFit'
<1> SUFFICES ASSUME TypeOK, PlacesFit, [Next]_vars
             PROVE  TypeOK' /\ PlacesFit'
  OBVIOUS
<1> USE NumStepsAssumption
    DEF Active, Terminal, JobStatus, Outcomes, Places, dbVars, procVars, envVars, GoTo
<1>1. ASSUME NEW j \in Jobs, NEW k \in Keys \cup {NoKey}, Submit(j, k)
      PROVE  TypeOK' /\ PlacesFit'
  BY <1>1 DEF Submit, TypeOK, PlacesFit
<1>2. ASSUME NEW j \in Jobs, Cancel(j)
      PROVE  TypeOK' /\ PlacesFit'
  BY <1>2 DEF Cancel, TypeOK, PlacesFit
<1>3. ASSUME NEW j \in Jobs, StepSucceeds(j)
      PROVE  TypeOK' /\ PlacesFit'
  <2>1. WriteStep(j, idx[j], "succeeded") /\ idx[j] \in Steps
    BY <1>3 DEF StepSucceeds, PlacesFit
  <2>2. step' \in [Jobs -> [Steps -> StepStatus]] /\ lost' \in Nat
    BY <2>1, WriteStepType DEF StepStatus
  <2>3. idx' \in [Jobs -> 1 .. NumSteps + 1]
    BY <1>3, <2>1, NextStepType DEF StepSucceeds
  <2>4. QED
    BY <1>3, <2>1, <2>2, <2>3 DEF StepSucceeds, NextStep, TypeOK, PlacesFit
<1>4. ASSUME NEW j \in Jobs, StepFails(j)
      PROVE  TypeOK' /\ PlacesFit'
  <2>1. WriteStep(j, idx[j], "failed") /\ idx[j] \in Steps
    BY <1>4 DEF StepFails, PlacesFit
  <2>2. step' \in [Jobs -> [Steps -> StepStatus]] /\ lost' \in Nat
    BY <2>1, WriteStepType DEF StepStatus
  <2>3. QED
    BY <1>4, <2>1, <2>2 DEF StepFails, TypeOK, PlacesFit
<1>5. ASSUME NEW j \in Jobs, Engine(j)
      PROVE  TypeOK' /\ PlacesFit'
  <2>1. CASE Register(j)
    BY <2>1 DEF Register, TypeOK, PlacesFit
  <2>2. CASE Begin(j)
    <3>1. WriteJob(j, "running")
      BY <2>2 DEF Begin
    <3>2. QED
      BY <2>2, <3>1, WriteJobType DEF Begin, TypeOK, PlacesFit
  <2>3. CASE ListSteps(j)
    BY <2>3 DEF ListSteps, TypeOK, PlacesFit
  <2>4. CASE Abort(j)
    <3>1. WriteJob(j, "failed")
      BY <2>4 DEF Abort
    <3>2. QED
      BY <2>4, <3>1, WriteJobType DEF Abort, TypeOK, PlacesFit
  <2>5. CASE SkipCancelled(j)
    <3>1. WriteStep(j, idx[j], "skipped") /\ idx[j] \in Steps
      BY <2>5 DEF SkipCancelled
    <3>2. step' \in [Jobs -> [Steps -> StepStatus]] /\ lost' \in Nat
      BY <3>1, WriteStepType DEF StepStatus
    <3>3. idx' \in [Jobs -> 1 .. NumSteps + 1]
      BY <2>5, <3>1, NextStepType DEF SkipCancelled
    <3>4. QED
      BY <2>5, <3>1, <3>2, <3>3 DEF SkipCancelled, NextStep, TypeOK, PlacesFit
  <2>6. CASE SkipRest(j)
    <3>1. WriteStep(j, idx[j], "skipped") /\ idx[j] \in Steps
      BY <2>6 DEF SkipRest
    <3>2. step' \in [Jobs -> [Steps -> StepStatus]] /\ lost' \in Nat
      BY <3>1, WriteStepType DEF StepStatus
    <3>3. idx' \in [Jobs -> 1 .. NumSteps + 1]
      BY <2>6, <3>1, NextStepType DEF SkipRest
    <3>4. QED
      BY <2>6, <3>1, <3>2, <3>3 DEF SkipRest, NextStep, TypeOK, PlacesFit
  <2>7. CASE BeginStep(j)
    <3>1. WriteStep(j, idx[j], "running") /\ idx[j] \in Steps
      BY <2>7 DEF BeginStep
    <3>2. step' \in [Jobs -> [Steps -> StepStatus]] /\ lost' \in Nat
      BY <3>1, WriteStepType DEF StepStatus
    <3>3. QED
      BY <2>7, <3>1, <3>2 DEF BeginStep, TypeOK, PlacesFit
  <2>8. CASE OpenLog(j)
    BY <2>8 DEF OpenLog, TypeOK, PlacesFit
  <2>9. CASE Judge(j)
    <3>1. idx' \in [Jobs -> 1 .. NumSteps + 1]
      BY <2>9, NextStepType DEF Judge, PlacesFit
    <3>2. QED
      BY <2>9, <3>1 DEF Judge, NextStep, TypeOK, PlacesFit
  <2>10. CASE Finish(j)
    <3>1. WriteJob(j, outcome[j]) /\ outcome[j] \in JobStatus \ {"absent"}
      BY <2>10 DEF Finish, TypeOK
    <3>2. /\ status' \in [Jobs -> JobStatus] /\ lost' \in Nat
          /\ \A i \in Jobs \ {j} : status'[i] = status[i]
          /\ status'[j] \in {status[j], outcome[j]}
      BY <3>1, WriteJobType
    <3>3. QED
      BY <2>10, <3>1, <3>2 DEF Finish, TypeOK, PlacesFit
  <2>11. CASE Exit(j)
    BY <2>11 DEF Exit, TypeOK, PlacesFit
  <2>12. QED
    BY <1>5, <2>1, <2>2, <2>3, <2>4, <2>5, <2>6, <2>7, <2>8, <2>9, <2>10, <2>11 DEF Engine
<1>6. CASE Crash
  BY <1>6 DEF Crash, TypeOK, PlacesFit
<1>7. CASE ReconcileJobs
  BY <1>7 DEF ReconcileJobs, InterruptJobs, TypeOK, PlacesFit
<1>8. CASE ReconcileSteps
  BY <1>8 DEF ReconcileSteps, InterruptSteps, StepStatus, TypeOK, PlacesFit
<1>9. CASE RivalStarts
  BY <1>9 DEF RivalStarts, TypeOK, PlacesFit
<1>10. CASE RivalReconcilesJobs
  BY <1>10 DEF RivalReconcilesJobs, InterruptJobs, TypeOK, PlacesFit
<1>11. CASE RivalReconcilesSteps
  BY <1>11 DEF RivalReconcilesSteps, InterruptSteps, StepStatus, TypeOK, PlacesFit
<1>12. CASE UNCHANGED vars
  BY <1>12 DEF vars, TypeOK, PlacesFit
<1>13. QED
  BY <1>1, <1>2, <1>3, <1>4, <1>5, <1>6, <1>7, <1>8, <1>9, <1>10, <1>11, <1>12
     DEF Next, StepReturns

(***************************************************************************)
(* The engine's variables keep their types, under crashes, lost writes and *)
(* second processes.                                                       *)
(***************************************************************************)
THEOREM TypeCorrect == Spec => []TypeOK
<1>1. Init => TypeOK /\ PlacesFit
  BY InitIInv DEF IInv
<1>2. TypeOK /\ PlacesFit /\ [Next]_vars => TypeOK' /\ PlacesFit'
  BY TypeStep
<1>3. QED
  BY <1>1, <1>2, PTL DEF Spec

-----------------------------------------------------------------------------
(* Mutual exclusion *)

(***************************************************************************)
(* rivals counts the launches of a second process and never decreases.     *)
(***************************************************************************)
LEMMA RivalsGrow ==
  ASSUME [Next]_vars
  PROVE  rivals' \in {rivals, rivals + 1}
BY DEF Next, Engine, StepReturns, Submit, Cancel, StepSucceeds, StepFails, Register, Begin,
       ListSteps, Abort, SkipCancelled, SkipRest, BeginStep, OpenLog, Judge, Finish, Exit,
       Crash, ReconcileJobs, ReconcileSteps, RivalStarts, RivalReconcilesJobs,
       RivalReconcilesSteps, vars, dbVars, procVars, envVars

(***************************************************************************)
(* Only submission, the two UPDATEs of run and the start-up touch rows.    *)
(***************************************************************************)
LEMMA LockStep ==
  ASSUME TypeOK, PlacesFit, WorkersOwnRows, [Next]_vars, rivals' = 0
  PROVE  WorkersOwnRows'
<1>a. rivals = 0
  BY RivalsGrow DEF TypeOK
<1> USE DEF Active, Working, Places, dbVars, procVars, envVars, GoTo
<1>0. /\ rival = "none"
      /\ \A j \in Jobs : pc[j] \in Working => status[j] \in Active
      /\ \A i, j \in Jobs :
           i # j /\ lockKey[i] = lockKey[j] /\ lockKey[i] # NoKey
             => ~(status[i] \in Active /\ status[j] \in Active)
      /\ status \in [Jobs -> JobStatus] /\ pc \in [Jobs -> Places]
      /\ lockKey \in [Jobs -> Keys \cup {NoKey}]
      /\ rivals \in Nat
  BY <1>a DEF WorkersOwnRows, TypeOK
<1> HIDE DEF Places
<1>1. ASSUME NEW j \in Jobs, NEW k \in Keys \cup {NoKey}, Submit(j, k)
      PROVE  WorkersOwnRows'
  <2>1. /\ status' = [status EXCEPT ![j] = "pending"]
        /\ lockKey' = [lockKey EXCEPT ![j] = k]
        /\ pc' = [pc EXCEPT ![j] = "committed"]
        /\ rival' = "none"
    BY <1>0, <1>1 DEF Submit
  <2>2. \A i \in Jobs : i # j /\ k # NoKey /\ lockKey[i] = k => status[i] \notin Active
    BY <1>1 DEF Submit, KeyTaken
  <2>3. \A i \in Jobs : pc'[i] \in Working => status'[i] \in Active
    BY <1>0, <2>1
  <2>4. \A i, l \in Jobs :
          i # l /\ lockKey'[i] = lockKey'[l] /\ lockKey'[i] # NoKey
            => ~(status'[i] \in Active /\ status'[l] \in Active)
    BY <1>0, <2>1, <2>2
  <2>5. QED
    BY <2>1, <2>3, <2>4 DEF WorkersOwnRows
<1>2. ASSUME NEW j \in Jobs, Begin(j)
      PROVE  WorkersOwnRows'
  <2>1. /\ \A i \in Jobs \ {j} : status'[i] = status[i]
        /\ status'[j] \in {status[j], "running"}
    BY <1>2, WriteJobType DEF Begin, JobStatus, Terminal
  <2>2. /\ pc[j] = "begin" /\ pc' = [pc EXCEPT ![j] = "list"]
        /\ rival' = "none" /\ lockKey' = lockKey
    BY <1>0, <1>2 DEF Begin
  <2>3. status[j] \in Active
    BY <1>0, <2>2 DEF Places
  <2>4. \A i \in Jobs : status'[i] \in Active <=> status[i] \in Active
    BY <2>1, <2>3
  <2>5. \A i \in Jobs : pc'[i] \in Working => pc[i] \in Working
    BY <1>0, <2>2 DEF Places
  <2>6. QED
    BY <1>0, <2>2, <2>4, <2>5 DEF WorkersOwnRows
<1>3. ASSUME NEW j \in Jobs, NEW STATE s, s \in Terminal, WriteJob(j, s),
             pc' = [pc EXCEPT ![j] = "closing"], rival' = rival, lockKey' = lockKey
      PROVE  WorkersOwnRows'
  <2>1. /\ \A i \in Jobs \ {j} : status'[i] = status[i]
        /\ status'[j] \in {status[j], s}
    BY <1>3, WriteJobType DEF JobStatus, Terminal
  <2>2. \A i \in Jobs : status'[i] \in Active => status[i] \in Active
    BY <1>3, <2>1 DEF Terminal
  <2>3. \A i \in Jobs : pc'[i] \in Working => i # j /\ pc[i] \in Working
    BY <1>0, <1>3
  <2>4. QED
    BY <1>0, <1>3, <2>1, <2>2, <2>3 DEF WorkersOwnRows
<1>4. ASSUME NEW j \in Jobs, Abort(j)
      PROVE  WorkersOwnRows'
  BY <1>3, <1>4 DEF Abort, Terminal
<1>5. ASSUME NEW j \in Jobs, Finish(j)
      PROVE  WorkersOwnRows'
  <2>1. outcome[j] \in Terminal
    BY DEF TypeOK, Outcomes, Terminal
  <2>2. QED
    BY <1>3, <1>5, <2>1 DEF Finish
<1>6. ASSUME UNCHANGED <<status, lockKey, rival>>,
             \A i \in Jobs : pc'[i] \in Working => pc[i] \in Working
      PROVE  WorkersOwnRows'
  BY <1>0, <1>6 DEF WorkersOwnRows
<1>7. ASSUME NEW j \in Jobs,
             \/ Cancel(j) \/ StepSucceeds(j) \/ StepFails(j) \/ Register(j)
             \/ ListSteps(j) \/ SkipCancelled(j) \/ SkipRest(j) \/ BeginStep(j)
             \/ OpenLog(j) \/ Judge(j) \/ Exit(j)
      PROVE  WorkersOwnRows'
  <2>1. UNCHANGED <<status, lockKey, rival>>
    BY <1>7 DEF Cancel, StepSucceeds, StepFails, Register, ListSteps, SkipCancelled,
                SkipRest, BeginStep, OpenLog, Judge, Exit
  <2>2. \A i \in Jobs : pc'[i] \in Working => pc[i] \in Working
    BY <1>0, <1>7 DEF Places, Cancel, StepSucceeds, StepFails, Register, ListSteps,
                SkipCancelled, SkipRest, BeginStep, OpenLog, Judge, Exit
  <2>3. QED
    BY <1>6, <2>1, <2>2
<1>8. CASE Crash
  BY <1>6, <1>8 DEF Crash
<1>9. CASE ReconcileJobs
  <2>1. /\ \A i \in Jobs : pc'[i] = "none"
        /\ \A i \in Jobs : status'[i] \notin Active
        /\ rival' = "none"
    BY <1>0, <1>9 DEF ReconcileJobs, InterruptJobs, PlacesFit
  <2>2. QED
    BY <2>1 DEF WorkersOwnRows
<1>10. CASE ReconcileSteps
  BY <1>6, <1>10 DEF ReconcileSteps
<1>11. ~RivalStarts /\ ~RivalReconcilesJobs /\ ~RivalReconcilesSteps
  BY <1>0 DEF RivalStarts, RivalReconcilesJobs, RivalReconcilesSteps
<1>12. CASE UNCHANGED vars
  BY <1>6, <1>12 DEF vars
<1>13. QED
  BY <1>1, <1>2, <1>4, <1>5, <1>7, <1>8, <1>9, <1>10, <1>11, <1>12
     DEF Next, Engine, StepReturns

(***************************************************************************)
(* As long as no second process is launched on the database, the jobs of   *)
(* one lock key never work at the same time, for every number of jobs,     *)
(* crashes and lost UPDATEs.  The hypothesis inside LockExclusion is       *)
(* needed: run rival_lock shows a second process breaking it.              *)
(***************************************************************************)
THEOREM MutualExclusion == Spec => []LockExclusion
<1>1. Init => TypeOK /\ PlacesFit /\ WorkersOwnRows
  BY InitIInv DEF IInv
<1>2. ASSUME TypeOK, PlacesFit, WorkersOwnRows, [Next]_vars
      PROVE  TypeOK' /\ PlacesFit' /\ WorkersOwnRows'
  <2>1. CASE rivals' = 0
    BY <1>2, <2>1, TypeStep, LockStep
  <2>2. CASE rivals' # 0
    BY <1>2, <2>2, TypeStep DEF WorkersOwnRows
  <2>3. QED
    BY <2>1, <2>2
<1>3. WorkersOwnRows => LockExclusion
  BY DEF WorkersOwnRows, LockExclusion, OneActiveMutatingJob
<1>4. QED
  BY <1>1, <1>2, <1>3, PTL DEF Spec

-----------------------------------------------------------------------------
(* Step rows and outcomes *)

RunsInOrder(j) ==
  \A i, k \in Steps : i < k /\ step[j][k] \in Started => step[j][i] = "succeeded"

AllDone(j) == \A i \in Steps : step[j][i] = "succeeded"

Honest(j) ==
  /\ status[j] = "succeeded" => AllDone(j)
  /\ status[j] \in {"failed", "cancelled"} => ~AllDone(j)
  /\ status[j] = "cancelled" => j \in ctxDone

\* What the invariant says of one job.
JobInv(j) == StepsBehind(j) /\ RunsInOrder(j) /\ Honest(j)

(***************************************************************************)
(* The invariant of the step rows, split by job.                           *)
(***************************************************************************)
LEMMA ByJob ==
  (lost = 0 => \A j \in Jobs : JobInv(j))
    <=> /\ lost = 0 => (\A j \in Jobs : StepsBehind(j))
        /\ RunsOnlyAfterSuccess
        /\ OutcomeHonest
BY DEF JobInv, RunsInOrder, Honest, AllDone, RunsOnlyAfterSuccess, OutcomeHonest

(***************************************************************************)
(* The final UPDATE of a goroutine precedes its exit, and is not undone.   *)
(***************************************************************************)
LEMMA FinalRowsStep ==
  ASSUME TypeOK, PlacesFit, FinalRowsAtRest, [Next]_vars
  PROVE  FinalRowsAtRest'
<1> USE DEF dbVars, procVars, envVars, GoTo
<1>a. /\ status \in [Jobs -> JobStatus] /\ pc \in [Jobs -> Places]
      /\ \A i \in Jobs : status[i] \in Outcomes => pc[i] \notin Working
      /\ \A i \in Jobs : status[i] = "absent" => pc[i] = "none"
  BY DEF TypeOK, PlacesFit, FinalRowsAtRest
<1>1. ASSUME NEW j \in Jobs, NEW k \in Keys \cup {NoKey}, Submit(j, k)
      PROVE  FinalRowsAtRest'
  BY <1>a, <1>1 DEF Submit, FinalRowsAtRest, Outcomes
<1>2. ASSUME NEW j \in Jobs, Begin(j)
      PROVE  FinalRowsAtRest'
  <2>1. /\ \A i \in Jobs \ {j} : status'[i] = status[i]
        /\ status'[j] \in {status[j], "running"}
    BY <1>2, WriteJobType DEF Begin, JobStatus, Active
  <2>2. pc[j] = "begin" /\ pc' = [pc EXCEPT ![j] = "list"]
    BY <1>2 DEF Begin
  <2>3. status[j] \notin Outcomes
    BY <1>a, <2>2 DEF Working, Places
  <2>4. QED
    BY <1>a, <2>1, <2>2, <2>3 DEF FinalRowsAtRest, Outcomes
<1>3. ASSUME NEW j \in Jobs, Abort(j) \/ Finish(j)
      PROVE  FinalRowsAtRest'
  <2>1. PICK s \in Outcomes : WriteJob(j, s)
    BY <1>3 DEF Abort, Finish, TypeOK, Outcomes
  <2>2. \A i \in Jobs \ {j} : status'[i] = status[i]
    BY <2>1, WriteJobType DEF Outcomes, JobStatus, Terminal
  <2>3. pc' = [pc EXCEPT ![j] = "closing"]
    BY <1>3 DEF Abort, Finish
  <2>4. QED
    BY <1>a, <2>2, <2>3 DEF FinalRowsAtRest, Working
<1>4. ASSUME UNCHANGED status,
             \A i \in Jobs : pc'[i] \in Working => pc[i] \in Working
      PROVE  FinalRowsAtRest'
  BY <1>a, <1>4 DEF FinalRowsAtRest
<1>5. ASSUME NEW j \in Jobs,
             \/ Cancel(j) \/ StepSucceeds(j) \/ StepFails(j) \/ Register(j)
             \/ ListSteps(j) \/ SkipCancelled(j) \/ SkipRest(j) \/ BeginStep(j)
             \/ OpenLog(j) \/ Judge(j) \/ Exit(j)
      PROVE  FinalRowsAtRest'
  <2>1. UNCHANGED status
    BY <1>5 DEF Cancel, StepSucceeds, StepFails, Register, ListSteps, SkipCancelled,
                SkipRest, BeginStep, OpenLog, Judge, Exit
  <2>2. \A i \in Jobs : pc'[i] \in Working => pc[i] \in Working
    BY <1>a, <1>5 DEF Working, Places, Cancel, StepSucceeds, StepFails, Register, ListSteps,
                SkipCancelled, SkipRest, BeginStep, OpenLog, Judge, Exit
  <2>3. QED
    BY <1>4, <2>1, <2>2
<1>6. CASE ReconcileJobs \/ RivalReconcilesJobs
  <2>1. pc' = pc /\ \A i \in Jobs : status'[i] \in {status[i], "interrupted"}
    BY <1>6 DEF ReconcileJobs, RivalReconcilesJobs, InterruptJobs
  <2>2. QED
    BY <1>a, <2>1 DEF FinalRowsAtRest, Outcomes
<1>7. CASE Crash
  BY <1>4, <1>7 DEF Crash, Working
<1>8. CASE ReconcileSteps \/ RivalStarts \/ RivalReconcilesSteps \/ UNCHANGED vars
  BY <1>4, <1>8 DEF ReconcileSteps, RivalStarts, RivalReconcilesSteps, vars
<1>9. QED
  BY <1>1, <1>2, <1>3, <1>5, <1>6, <1>7, <1>8 DEF Next, Engine, StepReturns

(***************************************************************************)
(* A step of one job leaves what the invariant says of another alone.      *)
(***************************************************************************)
LEMMA Frame ==
  ASSUME NEW j \in Jobs, JobInv(j),
         status'[j] = status[j], step'[j] = step[j], pc'[j] = pc[j],
         idx'[j] = idx[j], outcome'[j] = outcome[j], j \in ctxDone => j \in ctxDone'
  PROVE  JobInv(j)'
BY DEF JobInv, StepsBehind, RunsInOrder, Honest, AllDone

(***************************************************************************)
(* An UPDATE of a step row that is not lost writes that row.               *)
(***************************************************************************)
LEMMA StepWritten ==
  ASSUME TypeOK, NEW j \in Jobs, lost' = 0,
         NEW STATE i, i \in Steps, NEW STATE s, s \in StepStatus, WriteStep(j, i, s)
  PROVE  /\ lost = 0
         /\ \A l \in Jobs : l # j => step'[l] = step[l]
         /\ step'[j][i] = s
         /\ \A k \in Steps : k # i => step'[j][k] = step[j][k]
<1>1. step \in [Jobs -> [Steps -> StepStatus]]
  BY DEF TypeOK
<1>2. lost = 0 /\ step' = [step EXCEPT ![j][i] = s]
  BY WriteStepType
<1>3. QED
  BY <1>1, <1>2

(***************************************************************************)
(* An UPDATE to a terminal status that is not lost writes it: the index    *)
(* has nothing against it.                                                 *)
(***************************************************************************)
LEMMA JobWritten ==
  ASSUME TypeOK, NEW j \in Jobs, lost' = 0,
         NEW STATE s, s \in Terminal, WriteJob(j, s)
  PROVE  /\ lost = 0
         /\ \A l \in Jobs : l # j => status'[l] = status[l]
         /\ status'[j] = s
<1>1. lost \in Nat /\ status \in [Jobs -> JobStatus]
  BY DEF TypeOK
<1>2. s \notin Active
  BY DEF Active, Terminal
<1>3. status' = [status EXCEPT ![j] = s] /\ lost' = lost
  BY <1>1, <1>2 DEF WriteJob
<1>4. QED
  BY <1>1, <1>3

(***************************************************************************)
(* lost counts the UPDATEs that failed and never decreases.                *)
(***************************************************************************)
LEMMA LostGrows ==
  ASSUME TypeOK, [Next]_vars, lost' = 0
  PROVE  lost = 0
<1>1. lost \in Nat
  BY DEF TypeOK
<1>2. lost' \in {lost, lost + 1}
  BY DEF Next, Engine, StepReturns, Submit, Cancel, StepSucceeds, StepFails, Register, Begin,
         ListSteps, Abort, SkipCancelled, SkipRest, BeginStep, OpenLog, Judge, Finish, Exit,
         Crash, ReconcileJobs, ReconcileSteps, RivalStarts, RivalReconcilesJobs,
         RivalReconcilesSteps, WriteJob, WriteStep, vars, dbVars, procVars, envVars
<1>3. QED
  BY <1>1, <1>2

(***************************************************************************)
(* Inside the loop, what the invariant says of a job follows from where    *)
(* its goroutine is, for its row is not final yet.                         *)
(***************************************************************************)
LEMMA LoopStep ==
  ASSUME TypeOK, PlacesFit, FinalRowsAtRest, TypeOK', lost' = 0,
         NEW j \in Jobs, JobInv(j),
         \/ ListSteps(j) \/ SkipCancelled(j) \/ SkipRest(j) \/ BeginStep(j)
         \/ OpenLog(j) \/ StepSucceeds(j) \/ StepFails(j) \/ Judge(j)
  PROVE  JobInv(j)'
<1> USE DEF GoTo
<1>a. /\ status[j] # "absent" /\ status[j] \notin Outcomes /\ status'[j] = status[j]
      /\ pc'[j] \in {"loop", "opening", "fn", "judge"}
      /\ pc[j] \in {"list", "loop", "opening", "fn", "judge"}
  BY DEF TypeOK, PlacesFit, FinalRowsAtRest, Working, Places, dbVars, ListSteps, SkipCancelled,
         SkipRest, BeginStep, OpenLog, StepSucceeds, StepFails, Judge
<1>b. idx[j] \in 1 .. NumSteps + 1 /\ NumSteps \in Nat
  BY NumStepsAssumption DEF TypeOK
<1>1. Honest(j)'
  BY <1>a DEF Honest, Outcomes
<1>2. CASE ListSteps(j)
  <2>1. /\ step' = step /\ idx'[j] = 1 /\ outcome'[j] = "succeeded" /\ pc'[j] = "loop"
        /\ \A i \in Steps : step[j][i] = "pending"
    BY <1>2 DEF ListSteps, dbVars, TypeOK, JobInv, StepsBehind
  <2>2. StepsBehind(j)' /\ RunsInOrder(j)'
    BY <1>a, <2>1 DEF StepsBehind, RunsInOrder, Started, Steps
  <2>3. QED
    BY <1>1, <2>2 DEF JobInv
<1>3. CASE SkipCancelled(j) \/ SkipRest(j)
  <2>1. /\ idx[j] \in Steps /\ pc[j] = "loop" /\ pc'[j] = "loop" /\ idx'[j] = idx[j] + 1
        /\ outcome'[j] # "succeeded" /\ (outcome'[j] = "cancelled" => j \in ctxDone')
        /\ WriteStep(j, idx[j], "skipped")
    BY <1>3 DEF SkipCancelled, SkipRest, NextStep, TypeOK, JobInv, StepsBehind
  <2>2. /\ step'[j][idx[j]] = "skipped"
        /\ \A k \in Steps : k # idx[j] => step'[j][k] = step[j][k]
    BY <2>1, StepWritten DEF StepStatus
  <2>3. \A k \in Steps : k >= idx[j] => step[j][k] = "pending"
    BY <2>1 DEF JobInv, StepsBehind
  <2>4. StepsBehind(j)'
    BY <1>a, <1>b, <2>1, <2>2, <2>3 DEF StepsBehind, Steps
  <2>5. RunsInOrder(j)'
    BY <1>b, <2>2, <2>3 DEF RunsInOrder, JobInv, Started, Steps
  <2>6. QED
    BY <1>1, <2>4, <2>5 DEF JobInv
<1>4. CASE BeginStep(j)
  <2>1. /\ idx[j] \in Steps /\ pc[j] = "loop" /\ pc'[j] = "opening" /\ idx'[j] = idx[j]
        /\ outcome[j] = "succeeded" /\ outcome'[j] = "succeeded"
        /\ WriteStep(j, idx[j], "running")
    BY <1>4 DEF BeginStep, TypeOK
  <2>2. /\ step'[j][idx[j]] = "running"
        /\ \A k \in Steps : k # idx[j] => step'[j][k] = step[j][k]
    BY <2>1, StepWritten DEF StepStatus
  <2>3. /\ \A k \in Steps : k >= idx[j] => step[j][k] = "pending"
        /\ \A k \in Steps : k < idx[j] => step[j][k] = "succeeded"
    BY <2>1 DEF JobInv, StepsBehind
  <2>4. StepsBehind(j)'
    BY <1>a, <1>b, <2>1, <2>2, <2>3 DEF StepsBehind, Steps
  <2>5. RunsInOrder(j)'
    BY <1>b, <2>2, <2>3 DEF RunsInOrder, Started, Steps
  <2>6. QED
    BY <1>1, <2>4, <2>5 DEF JobInv
<1>5. CASE OpenLog(j)
  <2>1. /\ step' = step /\ idx' = idx /\ outcome' = outcome
        /\ pc[j] = "opening" /\ pc'[j] = "fn"
    BY <1>5 DEF OpenLog, dbVars, TypeOK
  <2>2. QED
    BY <1>1, <1>a, <2>1 DEF JobInv, StepsBehind, RunsInOrder
<1>6. CASE StepSucceeds(j) \/ StepFails(j)
  <2>1. /\ pc[j] = "fn" /\ idx[j] \in Steps /\ outcome'[j] = "succeeded"
        /\ \A k \in Steps : k < idx[j] => step[j][k] = "succeeded"
        /\ \A k \in Steps : k > idx[j] => step[j][k] = "pending"
    BY <1>6 DEF StepSucceeds, StepFails, PlacesFit, JobInv, StepsBehind
  <2>2. PICK s \in {"succeeded", "failed"} :
          /\ WriteStep(j, idx[j], s)
          /\ s = "succeeded" => pc'[j] = "loop" /\ idx'[j] = idx[j] + 1
          /\ s = "failed" => pc'[j] = "judge" /\ idx'[j] = idx[j]
    BY <1>6 DEF StepSucceeds, StepFails, NextStep, TypeOK
  <2>3. /\ step'[j][idx[j]] = s
        /\ \A k \in Steps : k # idx[j] => step'[j][k] = step[j][k]
    BY <2>1, <2>2, StepWritten DEF StepStatus
  <2>4. StepsBehind(j)'
    BY <1>a, <1>b, <2>1, <2>2, <2>3 DEF StepsBehind, Steps
  <2>5. RunsInOrder(j)'
    BY <1>b, <2>1, <2>3 DEF RunsInOrder, Started, Steps
  <2>6. QED
    BY <1>1, <2>4, <2>5 DEF JobInv
<1>7. CASE Judge(j)
  <2>1. /\ pc[j] = "judge" /\ idx[j] \in Steps /\ step' = step
        /\ pc'[j] = "loop" /\ idx'[j] = idx[j] + 1
        /\ outcome'[j] # "succeeded" /\ (outcome'[j] = "cancelled" => j \in ctxDone')
        /\ step[j][idx[j]] = "failed"
        /\ \A k \in Steps : k > idx[j] => step[j][k] = "pending"
    BY <1>7 DEF Judge, NextStep, dbVars, PlacesFit, TypeOK, JobInv, StepsBehind
  <2>2. StepsBehind(j)'
    BY <1>a, <1>b, <2>1 DEF StepsBehind, Steps
  <2>3. RunsInOrder(j)'
    BY <2>1 DEF RunsInOrder, JobInv
  <2>4. QED
    BY <1>1, <2>2, <2>3 DEF JobInv
<1>8. QED
  BY <1>2, <1>3, <1>4, <1>5, <1>6, <1>7

(***************************************************************************)
(* The rest of a job's life: submission, start, the final UPDATE, exit.    *)
(***************************************************************************)
LEMMA EdgeStep ==
  ASSUME TypeOK, PlacesFit, FinalRowsAtRest, TypeOK', lost' = 0,
         NEW j \in Jobs, JobInv(j),
         \/ \E k \in Keys \cup {NoKey} : Submit(j, k)
         \/ Register(j) \/ Begin(j) \/ Abort(j) \/ Finish(j) \/ Exit(j)
  PROVE  JobInv(j)'
<1> USE DEF GoTo, dbVars
<1>a. /\ status[j] = "absent" => pc[j] = "none"
      /\ status[j] \in Outcomes => pc[j] \notin Working
      /\ NumSteps \in Nat \ {0}
  BY NumStepsAssumption DEF PlacesFit, FinalRowsAtRest
<1>1. ASSUME NEW k \in Keys \cup {NoKey}, Submit(j, k)
      PROVE  JobInv(j)'
  <2>1. /\ status'[j] = "pending" /\ pc'[j] = "committed" /\ step' = step
        /\ \A i \in Steps : step[j][i] = "pending"
    BY <1>1 DEF Submit, TypeOK, JobInv, StepsBehind
  <2>2. QED
    BY <2>1 DEF JobInv, StepsBehind, RunsInOrder, Started, Honest
<1>2. CASE Register(j)
  <2>1. /\ pc[j] = "committed" /\ pc'[j] = "begin"
        /\ UNCHANGED <<status, step, ctxDone>>
    BY <1>2 DEF Register, TypeOK
  <2>2. QED
    BY <2>1 DEF JobInv, StepsBehind, RunsInOrder, Honest, AllDone
<1>3. CASE Begin(j)
  <2>1. /\ pc[j] = "begin" /\ pc'[j] = "list" /\ step' = step
        /\ status'[j] \in {status[j], "running"}
    BY <1>3, WriteJobType DEF Begin, TypeOK, JobStatus, Active
  <2>2. status[j] \notin Outcomes
    BY <1>a, <2>1 DEF Working, Places
  <2>3. Honest(j)'
    BY <2>1, <2>2 DEF Honest, Outcomes
  <2>4. QED
    BY <2>1, <2>3 DEF JobInv, StepsBehind, RunsInOrder
<1>4. CASE Abort(j) \/ Finish(j)
  <2>1. PICK s \in Outcomes :
          /\ WriteJob(j, s)
          /\ Finish(j) => s = outcome[j]
          /\ Abort(j) => s = "failed"
    <3>1. outcome[j] \in Outcomes /\ "failed" \in Outcomes
      BY DEF TypeOK, Outcomes
    <3>2. ~(Abort(j) /\ Finish(j))
      BY DEF Abort, Finish
    <3>3. QED
      BY <1>4, <3>1, <3>2 DEF Abort, Finish
  <2>2. status'[j] = s
    BY <2>1, JobWritten DEF Outcomes, Terminal
  <2>3. pc'[j] = "closing" /\ step' = step /\ ctxDone' = ctxDone
    BY <1>4 DEF Abort, Finish, TypeOK
  <2>4. CASE Finish(j)
    <3>1. /\ idx[j] = NumSteps + 1 /\ s = outcome[j]
          /\ s = "succeeded" => \A i \in Steps : i < idx[j] => step[j][i] = "succeeded"
          /\ s # "succeeded" => \E i \in Steps : step[j][i] # "succeeded"
          /\ s = "cancelled" => j \in ctxDone
      BY <2>1, <2>4 DEF Finish, JobInv, StepsBehind
    <3>2. Honest(j)'
      BY <1>a, <2>2, <2>3, <3>1 DEF Honest, AllDone, Steps
    <3>3. QED
      BY <2>2, <2>3, <3>2 DEF JobInv, StepsBehind, RunsInOrder, Outcomes
  <2>5. CASE Abort(j)
    <3>1. s = "failed" /\ pc[j] \in {"list", "opening"}
      BY <2>1, <2>5 DEF Abort
    <3>2. 1 \in Steps /\ (pc[j] = "opening" => idx[j] \in Steps)
      BY <1>a DEF Steps, PlacesFit
    <3>3. \E i \in Steps : step[j][i] # "succeeded"
      BY <3>1, <3>2 DEF JobInv, StepsBehind
    <3>4. Honest(j)'
      BY <2>2, <2>3, <3>1, <3>3 DEF Honest, AllDone
    <3>5. QED
      BY <2>2, <2>3, <3>1, <3>4 DEF JobInv, StepsBehind, RunsInOrder
  <2>6. QED
    BY <1>4, <2>4, <2>5
<1>5. CASE Exit(j)
  <2>1. /\ status[j] # "absent" /\ pc'[j] = "none"
        /\ UNCHANGED <<status, step, ctxDone>>
    BY <1>5, <1>a DEF Exit, TypeOK
  <2>2. QED
    BY <2>1 DEF JobInv, StepsBehind, RunsInOrder, Honest, AllDone
<1>6. QED
  BY <1>1, <1>2, <1>3, <1>4, <1>5

(***************************************************************************)
(* Crashes and reconciliation, this process's and another's.               *)
(***************************************************************************)
LEMMA ProcessStep ==
  ASSUME TypeOK, PlacesFit, NEW j \in Jobs, JobInv(j),
         \/ Crash \/ ReconcileJobs \/ ReconcileSteps
         \/ RivalStarts \/ RivalReconcilesJobs \/ RivalReconcilesSteps
  PROVE  JobInv(j)'
<1> USE DEF dbVars, procVars
<1>1. CASE Crash
  <2>1. pc'[j] = "none" /\ UNCHANGED <<status, step, ctxDone>>
    BY <1>1 DEF Crash
  <2>2. QED
    BY <2>1 DEF JobInv, StepsBehind, RunsInOrder, Honest, AllDone
<1>2. CASE ReconcileJobs \/ RivalReconcilesJobs
  <2>1. /\ UNCHANGED <<step, pc, idx, outcome, ctxDone>>
        /\ \/ status'[j] = status[j]
           \/ status[j] # "absent" /\ status'[j] = "interrupted"
    BY <1>2 DEF ReconcileJobs, RivalReconcilesJobs, InterruptJobs, Active
  <2>2. QED
    BY <2>1 DEF JobInv, StepsBehind, RunsInOrder, Honest, AllDone
<1>3. CASE ReconcileSteps \/ RivalReconcilesSteps
  <2>1. /\ UNCHANGED <<status, pc, idx, outcome, ctxDone>>
        /\ \A i \in Steps : \/ step'[j][i] = step[j][i]
                            \/ step[j][i] = "running" /\ step'[j][i] = "interrupted"
    BY <1>3 DEF ReconcileSteps, RivalReconcilesSteps, InterruptSteps
  <2>2. \A i \in Steps : /\ step'[j][i] \in Started <=> step[j][i] \in Started
                         /\ step'[j][i] = "succeeded" <=> step[j][i] = "succeeded"
                         /\ step[j][i] \in {"pending", "failed"} => step'[j][i] = step[j][i]
                         /\ step[j][i] \in {"running", "interrupted"}
                              => step'[j][i] \in {"running", "interrupted"}
    BY <2>1 DEF Started
  <2>3. RunsInOrder(j)' /\ Honest(j)'
    BY <2>1, <2>2 DEF JobInv, RunsInOrder, Honest, AllDone
  <2>4. pc[j] \in {"opening", "fn", "judge"} => idx[j] \in Steps
    BY DEF PlacesFit
  <2>5. StepsBehind(j)'
    BY <2>1, <2>2, <2>4 DEF JobInv, StepsBehind
  <2>6. QED
    BY <2>3, <2>5 DEF JobInv
<1>4. CASE RivalStarts
  BY <1>4, Frame DEF RivalStarts
<1>5. QED
  BY <1>1, <1>2, <1>3, <1>4

(***************************************************************************)
(* The invariant is inductive.                                             *)
(***************************************************************************)
LEMMA IInvStep ==
  ASSUME IInv, [Next]_vars
  PROVE  IInv'
<1>1. TypeOK /\ PlacesFit /\ FinalRowsAtRest /\ WorkersOwnRows
  BY DEF IInv
<1>2. TypeOK' /\ PlacesFit'
  BY <1>1, TypeStep
<1>3. FinalRowsAtRest'
  BY <1>1, FinalRowsStep
<1>4. WorkersOwnRows'
  BY <1>1, LockStep DEF WorkersOwnRows
<1>5. ASSUME lost' = 0
      PROVE  \A j \in Jobs : JobInv(j)'
  <2>1. \A j \in Jobs : JobInv(j)
    BY <1>1, <1>5, LostGrows, ByJob DEF IInv
  <2>2. ASSUME NEW j \in Jobs, JobInv(j)', ctxDone \subseteq ctxDone',
               \A l \in Jobs : l # j =>
                 /\ status'[l] = status[l] /\ step'[l] = step[l] /\ pc'[l] = pc[l]
                 /\ idx'[l] = idx[l] /\ outcome'[l] = outcome[l]
        PROVE  \A l \in Jobs : JobInv(l)'
    BY <2>1, <2>2, Frame
  <2>3. ASSUME NEW j \in Jobs,
               \/ ListSteps(j) \/ SkipCancelled(j) \/ SkipRest(j) \/ BeginStep(j)
               \/ OpenLog(j) \/ StepSucceeds(j) \/ StepFails(j) \/ Judge(j)
        PROVE  \A l \in Jobs : JobInv(l)'
    <3>1. JobInv(j)'
      BY <1>1, <1>2, <1>5, <2>1, <2>3, LoopStep
    <3>2. \A l \in Jobs : l # j => step'[l] = step[l]
      <4>1. CASE step' = step
        BY <4>1
      <4>2. CASE step' # step
        <5>1. PICK s \in {"skipped", "running", "succeeded", "failed"} :
                WriteStep(j, idx[j], s) /\ idx[j] \in Steps
          BY <1>1, <2>3, <4>2
          DEF dbVars, ListSteps, SkipCancelled, SkipRest, BeginStep, OpenLog, StepSucceeds,
              StepFails, Judge, PlacesFit
        <5>2. QED
          BY <1>1, <1>5, <5>1, StepWritten DEF StepStatus
      <4>3. QED
        BY <4>1, <4>2
    <3>3. /\ ctxDone' = ctxDone /\ status' = status
          /\ \A l \in Jobs : l # j =>
               pc'[l] = pc[l] /\ idx'[l] = idx[l] /\ outcome'[l] = outcome[l]
      BY <1>1, <2>3
      DEF TypeOK, dbVars, GoTo, NextStep, ListSteps, SkipCancelled, SkipRest, BeginStep,
          OpenLog, StepSucceeds, StepFails, Judge
    <3>4. QED
      BY <2>2, <3>1, <3>2, <3>3
  <2>4. ASSUME NEW j \in Jobs,
               \/ \E k \in Keys \cup {NoKey} : Submit(j, k)
               \/ Register(j) \/ Begin(j) \/ Abort(j) \/ Finish(j) \/ Exit(j)
        PROVE  \A l \in Jobs : JobInv(l)'
    <3>1. JobInv(j)'
      BY <1>1, <1>2, <1>5, <2>1, <2>4, EdgeStep
    <3>2. \A l \in Jobs : l # j => status'[l] = status[l]
      <4>1. CASE status' = status \/ \E k \in Keys \cup {NoKey} : Submit(j, k)
        BY <1>1, <4>1 DEF Submit, TypeOK
      <4>2. CASE Begin(j) \/ Abort(j) \/ Finish(j)
        <5>1. PICK s \in JobStatus \ {"absent"} : WriteJob(j, s)
          BY <1>1, <4>2 DEF Begin, Abort, Finish, TypeOK, Outcomes, JobStatus, Active, Terminal
        <5>2. QED
          BY <1>1, <5>1, WriteJobType
      <4>3. QED
        BY <2>4, <4>1, <4>2 DEF Register, Exit, dbVars
    <3>3. /\ ctxDone' = ctxDone /\ step' = step
          /\ \A l \in Jobs : l # j =>
               pc'[l] = pc[l] /\ idx'[l] = idx[l] /\ outcome'[l] = outcome[l]
      BY <1>1, <2>4
      DEF TypeOK, dbVars, GoTo, Submit, Register, Begin, Abort, Finish, Exit
    <3>4. QED
      BY <2>2, <3>1, <3>2, <3>3
  <2>5. CASE \/ Crash \/ ReconcileJobs \/ ReconcileSteps
             \/ RivalStarts \/ RivalReconcilesJobs \/ RivalReconcilesSteps
    BY <1>1, <2>1, <2>5, ProcessStep
  <2>6. CASE (\E j \in Jobs : Cancel(j)) \/ UNCHANGED vars
    <3>1. /\ UNCHANGED <<status, step, pc, idx, outcome>>
          /\ ctxDone \subseteq ctxDone'
      BY <2>6 DEF Cancel, vars, dbVars, procVars
    <3>2. QED
      BY <2>1, <3>1, Frame
  <2>7. QED
    BY <2>3, <2>4, <2>5, <2>6 DEF Next, Engine, StepReturns
<1>6. /\ lost' = 0 => \A j \in Jobs : StepsBehind(j)'
      /\ RunsOnlyAfterSuccess' /\ OutcomeHonest'
  BY <1>5 DEF JobInv, RunsInOrder, Honest, AllDone, RunsOnlyAfterSuccess, OutcomeHonest
<1>7. QED
  BY <1>2, <1>3, <1>4, <1>6 DEF IInv

(***************************************************************************)
(* The invariant of the engine holds in every reachable state.             *)
(***************************************************************************)
THEOREM Invariance == Spec => []IInv
<1>1. IInv /\ [Next]_vars => IInv'
  BY IInvStep
<1>2. QED
  BY <1>1, InitIInv, PTL DEF Spec

(***************************************************************************)
(* No step starts before every earlier one has succeeded, for any number   *)
(* of steps, jobs, crashes and second processes.                           *)
(***************************************************************************)
THEOREM StepsInOrder == Spec => []RunsOnlyAfterSuccess
<1>1. IInv => RunsOnlyAfterSuccess
  BY DEF IInv
<1>2. QED
  BY <1>1, Invariance, PTL

(***************************************************************************)
(* The final status of a job agrees with its step rows and with whether    *)
(* somebody cancelled it.                                                  *)
(***************************************************************************)
THEOREM FinalStatusTrue == Spec => []OutcomeHonest
<1>1. IInv => OutcomeHonest
  BY DEF IInv
<1>2. QED
  BY <1>1, Invariance, PTL

-----------------------------------------------------------------------------
(* Stale rows *)

\* From the first half of reconciliation on.
NoneStale == phase # "down" /\ lost = 0 => \A j \in Jobs : Backed(j)

(***************************************************************************)
(* Reconciliation makes every row backed by a goroutine or final, and run  *)
(* leaves its row final before its goroutine goes.                         *)
(***************************************************************************)
LEMMA StaleStep ==
  ASSUME TypeOK, PlacesFit, NoneStale, [Next]_vars
  PROVE  NoneStale'
<1> SUFFICES ASSUME phase' # "down", lost' = 0
             PROVE  \A j \in Jobs : Backed(j)'
  BY DEF NoneStale
<1> USE DEF dbVars, procVars, envVars, GoTo
<1>a. /\ lost = 0 /\ status \in [Jobs -> JobStatus] /\ pc \in [Jobs -> Places]
      /\ phase # "down" => \A j \in Jobs : status[j] \in Active => pc[j] \in Working
  BY LostGrows DEF TypeOK, NoneStale, Backed
<1>1. ASSUME phase # "down",
             \A i \in Jobs : /\ status'[i] \in Active => status[i] \in Active
                             /\ pc[i] \in Working => pc'[i] \in Working
      PROVE  \A j \in Jobs : Backed(j)'
  BY <1>a, <1>1 DEF Backed
<1>2. ASSUME NEW j \in Jobs, NEW k \in Keys \cup {NoKey}, Submit(j, k)
      PROVE  \A i \in Jobs : Backed(i)'
  BY <1>a, <1>2 DEF Submit, Backed, Working, Places
<1>3. ASSUME NEW j \in Jobs, Begin(j)
      PROVE  \A i \in Jobs : Backed(i)'
  <2>1. \A i \in Jobs \ {j} : status'[i] = status[i]
    BY <1>3, WriteJobType DEF Begin, JobStatus, Active
  <2>2. pc' = [pc EXCEPT ![j] = "list"] /\ phase' = phase
    BY <1>3 DEF Begin
  <2>3. QED
    BY <1>a, <2>1, <2>2 DEF Backed, Working, Places
<1>4. ASSUME NEW j \in Jobs, Abort(j) \/ Finish(j)
      PROVE  \A i \in Jobs : Backed(i)'
  <2>1. PICK s \in Outcomes : WriteJob(j, s)
    BY <1>4 DEF Abort, Finish, TypeOK, Outcomes
  <2>2. status'[j] = s /\ \A i \in Jobs : i # j => status'[i] = status[i]
    BY <2>1, JobWritten DEF Outcomes, Terminal
  <2>3. pc' = [pc EXCEPT ![j] = "closing"] /\ phase' = phase
    BY <1>4 DEF Abort, Finish
  <2>4. QED
    BY <1>a, <2>2, <2>3 DEF Backed, Active, Outcomes
<1>5. ASSUME NEW j \in Jobs, Exit(j)
      PROVE  \A i \in Jobs : Backed(i)'
  BY <1>a, <1>5 DEF Exit, Backed, Working
<1>6. ASSUME NEW j \in Jobs,
             \/ Cancel(j) \/ StepSucceeds(j) \/ StepFails(j) \/ Register(j)
             \/ ListSteps(j) \/ SkipCancelled(j) \/ SkipRest(j) \/ BeginStep(j)
             \/ OpenLog(j) \/ Judge(j)
      PROVE  \A i \in Jobs : Backed(i)'
  <2>1. UNCHANGED <<status, phase>>
    BY <1>6 DEF Cancel, StepSucceeds, StepFails, Register, ListSteps, SkipCancelled,
                SkipRest, BeginStep, OpenLog, Judge
  <2>2. \A i \in Jobs : pc[i] \in Working => pc'[i] \in Working
    BY <1>a, <1>6 DEF Working, Places, Cancel, StepSucceeds, StepFails, Register, ListSteps,
                SkipCancelled, SkipRest, BeginStep, OpenLog, Judge
  <2>3. QED
    BY <1>1, <2>1, <2>2
<1>7. ~Crash
  BY DEF Crash
<1>8. CASE ReconcileJobs
  <2>1. \A i \in Jobs : status'[i] \notin Active
    BY <1>8 DEF ReconcileJobs, InterruptJobs, Active
  <2>2. QED
    BY <2>1 DEF Backed
<1>9. CASE RivalReconcilesJobs
  <2>1. \A i \in Jobs : status'[i] \notin Active
    BY <1>9 DEF RivalReconcilesJobs, InterruptJobs, Active
  <2>2. QED
    BY <2>1 DEF Backed
<1>10. CASE ReconcileSteps
  BY <1>1, <1>10 DEF ReconcileSteps
<1>11. CASE RivalStarts \/ RivalReconcilesSteps \/ UNCHANGED vars
  BY <1>1, <1>11 DEF RivalStarts, RivalReconcilesSteps, vars
<1>12. QED
  BY <1>2, <1>3, <1>4, <1>5, <1>6, <1>7, <1>8, <1>9, <1>10, <1>11
     DEF Next, Engine, StepReturns

(***************************************************************************)
(* While the process serves, every active row has a goroutine, for any     *)
(* number of crashes, unless an UPDATE was lost.                           *)
(***************************************************************************)
THEOREM NoSpinnerIsStale == Spec => []NoStaleRow
<1>1. Init => NoneStale
  BY DEF Init, NoneStale
<1>2. IInv /\ NoneStale /\ [Next]_vars => NoneStale'
  BY StaleStep DEF IInv
<1>3. NoneStale => NoStaleRow
  BY DEF NoneStale, NoStaleRow
<1>4. QED
  BY <1>1, <1>2, <1>3, Invariance, PTL DEF Spec

-----------------------------------------------------------------------------
(* Steps that are still to come *)

\* run never returns to a step row it has left, whether or not an UPDATE of
\* it was lost.
Ahead(j) ==
  /\ (status[j] = "absent" \/ pc[j] \in {"committed", "begin", "list"}) =>
       /\ \A i \in Steps : step[j][i] = "pending"
       /\ status[j] = "absent" => lockKey[j] = NoKey
  /\ pc[j] = "loop" => \A i \in Steps : i >= idx[j] => step[j][i] = "pending"
  /\ pc[j] \in {"opening", "fn", "judge"} =>
       \A i \in Steps : i > idx[j] => step[j][i] = "pending"
  /\ pc[j] \in {"opening", "fn"} => step[j][idx[j]] \in {"pending", "running"}

AllAhead == rivals = 0 => \A j \in Jobs : Ahead(j)

(***************************************************************************)
(* The UPDATE of one step row, lost or not, leaves the other rows alone.   *)
(***************************************************************************)
LEMMA StepRow ==
  ASSUME TypeOK, NEW j \in Jobs,
         NEW STATE i, i \in Steps, NEW STATE s, s \in StepStatus, WriteStep(j, i, s)
  PROVE  /\ \A l \in Jobs : l # j => step'[l] = step[l]
         /\ step'[j][i] \in {step[j][i], s}
         /\ \A k \in Steps : k # i => step'[j][k] = step[j][k]
<1>1. step \in [Jobs -> [Steps -> StepStatus]]
  BY DEF TypeOK
<1>2. step' = step \/ step' = [step EXCEPT ![j][i] = s]
  BY DEF WriteStep
<1>3. QED
  BY <1>1, <1>2

(***************************************************************************)
(* Every action of a goroutine that writes a step row writes the row its   *)
(* loop is at.                                                             *)
(***************************************************************************)
LEMMA RowWritten ==
  ASSUME TypeOK, PlacesFit, NEW j \in Jobs,
         \/ SkipCancelled(j) \/ SkipRest(j) \/ BeginStep(j)
         \/ StepSucceeds(j) \/ StepFails(j)
  PROVE  /\ idx[j] \in Steps /\ pc[j] \in {"loop", "fn"}
         /\ \A l \in Jobs : l # j => step'[l] = step[l]
         /\ BeginStep(j) => step'[j][idx[j]] \in {step[j][idx[j]], "running"}
         /\ \A k \in Steps : k # idx[j] => step'[j][k] = step[j][k]
         /\ UNCHANGED <<status, lockKey>>
<1>1. /\ idx[j] \in Steps /\ pc[j] \in {"loop", "fn"} /\ UNCHANGED <<status, lockKey>>
      /\ BeginStep(j) => WriteStep(j, idx[j], "running")
  BY DEF SkipCancelled, SkipRest, BeginStep, StepSucceeds, StepFails, PlacesFit
<1>2. PICK s \in {"skipped", "running", "succeeded", "failed"} : WriteStep(j, idx[j], s)
  BY DEF SkipCancelled, SkipRest, BeginStep, StepSucceeds, StepFails
<1>3. QED
  BY <1>1, <1>2, StepRow DEF StepStatus

(***************************************************************************)
(* A goroutine, at the place it is, has not touched the rows ahead.        *)
(***************************************************************************)
LEMMA AheadOwn ==
  ASSUME TypeOK, PlacesFit, TypeOK', NEW j \in Jobs, Ahead(j),
         \/ \E k \in Keys \cup {NoKey} : Submit(j, k)
         \/ StepReturns(j) \/ Engine(j)
  PROVE  Ahead(j)'
<1> USE DEF GoTo
<1>a. /\ status[j] = "absent" => pc[j] = "none"
      /\ pc[j] \in {"opening", "fn", "judge"} => idx[j] \in Steps
      /\ idx[j] \in 1 .. NumSteps + 1 /\ NumSteps \in Nat \ {0}
  BY NumStepsAssumption DEF PlacesFit, TypeOK
<1>1. ASSUME NEW k \in Keys \cup {NoKey}, Submit(j, k)
      PROVE  Ahead(j)'
  <2>1. /\ status'[j] = "pending" /\ pc'[j] = "committed" /\ step' = step
        /\ \A i \in Steps : step[j][i] = "pending"
    BY <1>1 DEF Submit, TypeOK, Ahead
  <2>2. QED
    BY <2>1 DEF Ahead
<1>2. CASE SkipCancelled(j) \/ SkipRest(j) \/ StepSucceeds(j)
  <2>1. /\ \A k \in Steps : k # idx[j] => step'[j][k] = step[j][k]
        /\ status' = status /\ pc[j] \in {"loop", "fn"}
    BY <1>2, RowWritten
  <2>2. pc'[j] = "loop" /\ idx'[j] = idx[j] + 1
    BY <1>2 DEF SkipCancelled, SkipRest, StepSucceeds, NextStep, TypeOK
  <2>3. QED
    BY <1>a, <2>1, <2>2 DEF Ahead, Steps
<1>3. CASE BeginStep(j) \/ StepFails(j)
  <2>1. /\ \A k \in Steps : k # idx[j] => step'[j][k] = step[j][k]
        /\ BeginStep(j) => step'[j][idx[j]] \in {step[j][idx[j]], "running"}
        /\ status' = status /\ pc[j] \in {"loop", "fn"} /\ idx[j] \in Steps
    BY <1>3, RowWritten
  <2>2. /\ idx'[j] = idx[j]
        /\ BeginStep(j) => pc[j] = "loop" /\ pc'[j] = "opening"
        /\ StepFails(j) => pc[j] = "fn" /\ pc'[j] = "judge"
    BY <1>3 DEF BeginStep, StepFails, TypeOK
  <2>3. QED
    BY <1>3, <1>a, <2>1, <2>2 DEF Ahead, Steps
<1>4. CASE Register(j) \/ ListSteps(j) \/ OpenLog(j) \/ Judge(j) \/ Exit(j)
  <2>1. UNCHANGED <<status, step>>
    BY <1>4 DEF Register, ListSteps, OpenLog, Judge, Exit, dbVars
  <2>2. \/ pc[j] = "committed" /\ pc'[j] = "begin"
        \/ pc[j] = "list" /\ pc'[j] = "loop" /\ idx'[j] = 1
        \/ pc[j] = "opening" /\ pc'[j] = "fn" /\ idx'[j] = idx[j]
        \/ pc[j] = "judge" /\ pc'[j] = "loop" /\ idx'[j] = idx[j] + 1
        \/ pc[j] = "closing" /\ pc'[j] = "none"
    BY <1>4 DEF Register, ListSteps, OpenLog, Judge, Exit, NextStep, TypeOK
  <2>3. status[j] # "absent"
    BY <1>a, <2>2
  <2>4. QED
    BY <1>a, <2>1, <2>2, <2>3 DEF Ahead, Steps
<1>5. CASE Begin(j) \/ Abort(j) \/ Finish(j)
  <2>1. PICK s \in JobStatus \ {"absent"} : WriteJob(j, s)
    BY <1>5 DEF Begin, Abort, Finish, TypeOK, Outcomes, JobStatus, Active, Terminal
  <2>2. /\ pc[j] # "none" /\ step' = step
        /\ \/ pc[j] = "begin" /\ pc'[j] = "list"
           \/ pc'[j] = "closing"
    BY <1>5 DEF Begin, Abort, Finish, TypeOK
  <2>3. status'[j] # "absent"
    BY <1>a, <2>1, <2>2, WriteJobType
  <2>4. QED
    BY <2>2, <2>3 DEF Ahead
<1>6. QED
  BY <1>1, <1>2, <1>3, <1>4, <1>5 DEF Engine, StepReturns

(***************************************************************************)
(* What is done for one job leaves the others' rows and places alone.      *)
(***************************************************************************)
LEMMA OthersSame ==
  ASSUME TypeOK, PlacesFit, NEW j \in Jobs, NEW l \in Jobs, l # j,
         \/ \E k \in Keys \cup {NoKey} : Submit(j, k)
         \/ StepReturns(j) \/ Engine(j)
  PROVE  /\ status'[l] = status[l] /\ lockKey'[l] = lockKey[l] /\ step'[l] = step[l]
         /\ pc'[l] = pc[l] /\ idx'[l] = idx[l]
<1> USE DEF GoTo, dbVars
<1>1. ASSUME NEW k \in Keys \cup {NoKey}, Submit(j, k)
      PROVE  /\ status'[l] = status[l] /\ lockKey'[l] = lockKey[l] /\ step'[l] = step[l]
             /\ pc'[l] = pc[l] /\ idx'[l] = idx[l]
  BY <1>1 DEF Submit, TypeOK
<1>2. CASE SkipCancelled(j) \/ SkipRest(j) \/ BeginStep(j) \/ StepReturns(j)
  <2>1. step'[l] = step[l] /\ UNCHANGED <<status, lockKey>>
    BY <1>2, RowWritten DEF StepReturns
  <2>2. pc'[l] = pc[l] /\ idx'[l] = idx[l]
    BY <1>2 DEF SkipCancelled, SkipRest, BeginStep, StepReturns, StepSucceeds, StepFails,
                NextStep, TypeOK
  <2>3. QED
    BY <2>1, <2>2
<1>3. CASE Begin(j) \/ Abort(j) \/ Finish(j)
  <2>1. PICK s \in JobStatus \ {"absent"} : WriteJob(j, s)
    BY <1>3 DEF Begin, Abort, Finish, TypeOK, Outcomes, JobStatus, Active, Terminal
  <2>2. status'[l] = status[l]
    BY <2>1, WriteJobType
  <2>3. UNCHANGED <<lockKey, step, idx>> /\ pc'[l] = pc[l]
    BY <1>3 DEF Begin, Abort, Finish, TypeOK
  <2>4. QED
    BY <2>2, <2>3
<1>4. CASE Register(j) \/ ListSteps(j) \/ OpenLog(j) \/ Judge(j) \/ Exit(j)
  BY <1>4 DEF Register, ListSteps, OpenLog, Judge, Exit, NextStep, TypeOK
<1>5. QED
  BY <1>1, <1>2, <1>3, <1>4 DEF Engine

(***************************************************************************)
(* The rows ahead of every goroutine stay untouched.                       *)
(***************************************************************************)
LEMMA AheadStep ==
  ASSUME IInv, AllAhead, [Next]_vars
  PROVE  AllAhead'
<1> SUFFICES ASSUME rivals' = 0, NEW l \in Jobs
             PROVE  Ahead(l)'
  BY DEF AllAhead
<1> USE DEF dbVars, procVars, envVars
<1>a. TypeOK /\ PlacesFit /\ TypeOK' /\ PlacesFit'
  BY TypeStep DEF IInv
<1>b. rivals = 0 /\ rival = "none" /\ Ahead(l)
  BY <1>a, RivalsGrow DEF TypeOK, AllAhead, IInv, WorkersOwnRows
<1>1. ASSUME NEW j \in Jobs,
             \/ \E k \in Keys \cup {NoKey} : Submit(j, k)
             \/ StepReturns(j) \/ Engine(j)
      PROVE  Ahead(l)'
  <2>1. CASE l = j
    BY <1>1, <1>a, <1>b, <2>1, AheadOwn
  <2>2. CASE l # j
    BY <1>1, <1>a, <1>b, <2>2, OthersSame DEF Ahead
  <2>3. QED
    BY <2>1, <2>2
<1>2. CASE (\E j \in Jobs : Cancel(j)) \/ UNCHANGED vars
  BY <1>2, <1>b DEF Cancel, vars, Ahead
<1>3. CASE Crash \/ ReconcileJobs
  <2>1. /\ pc'[l] = "none" /\ UNCHANGED <<step, lockKey>>
        /\ status'[l] = "absent" => status[l] = "absent"
    BY <1>3, <1>a DEF Crash, ReconcileJobs, InterruptJobs, PlacesFit
  <2>2. QED
    BY <1>b, <2>1 DEF Ahead
<1>4. CASE ReconcileSteps
  <2>1. /\ pc'[l] = "none" /\ UNCHANGED <<status, lockKey>>
        /\ \A i \in Steps : step[l][i] = "pending" => step'[l][i] = "pending"
    BY <1>4, <1>a DEF ReconcileSteps, InterruptSteps, PlacesFit
  <2>2. QED
    BY <1>b, <2>1 DEF Ahead
<1>5. ~RivalStarts /\ ~RivalReconcilesJobs /\ ~RivalReconcilesSteps
  BY <1>b DEF RivalStarts, RivalReconcilesJobs, RivalReconcilesSteps
<1>6. QED
  BY <1>1, <1>2, <1>3, <1>4, <1>5 DEF Next

(***************************************************************************)
(* The engine's invariant and the untouched rows hold in every reachable   *)
(* state.                                                                  *)
(***************************************************************************)
LEMMA AheadInvariant == Spec => [](IInv /\ AllAhead)
<1>1. Init => AllAhead
  BY DEF Init, AllAhead, Ahead
<1>2. IInv /\ AllAhead /\ [Next]_vars => AllAhead'
  BY AheadStep
<1>3. QED
  BY <1>1, <1>2, Invariance, PTL DEF Spec

-----------------------------------------------------------------------------
(* History *)

(***************************************************************************)
(* Whoever still works has an active row, so only active rows are written. *)
(***************************************************************************)
LEMMA ActiveWritten ==
  ASSUME IInv, rivals = 0, NEW j \in Jobs, Begin(j) \/ Abort(j) \/ Finish(j)
  PROVE  status[j] \in Active
<1>1. pc[j] \in Working
  BY DEF Begin, Abort, Finish, Working, Places
<1>2. QED
  BY <1>1 DEF IInv, WorkersOwnRows

(***************************************************************************)
(* What a step leaves alone: terminal job rows and finished step rows.     *)
(***************************************************************************)
LEMMA HistoryKept ==
  ASSUME IInv, AllAhead, [Next]_vars, rivals' = 0, NEW l \in Jobs
  PROVE  /\ status[l] \in Terminal => status'[l] = status[l]
         /\ \A i \in Steps :
              step[l][i] \notin {"pending", "running"} => step'[l][i] = step[l][i]
<1> USE DEF dbVars, procVars
<1>a. TypeOK /\ PlacesFit
  BY DEF IInv
<1>b. rivals = 0 /\ rival = "none" /\ Ahead(l)
  BY <1>a, RivalsGrow DEF TypeOK, AllAhead, IInv, WorkersOwnRows
<1>1. ASSUME NEW j \in Jobs, j # l,
             \/ \E k \in Keys \cup {NoKey} : Submit(j, k)
             \/ StepReturns(j) \/ Engine(j)
      PROVE  status'[l] = status[l] /\ step'[l] = step[l]
  BY <1>1, <1>a, OthersSame
<1>2. CASE \E k \in Keys \cup {NoKey} : Submit(l, k)
  BY <1>2 DEF Submit, Terminal
<1>3. CASE Begin(l) \/ Abort(l) \/ Finish(l)
  <2>1. status[l] \in Active
    BY <1>b, <1>3, ActiveWritten
  <2>2. step' = step
    BY <1>3 DEF Begin, Abort, Finish
  <2>3. QED
    BY <2>1, <2>2 DEF Active, Terminal
<1>4. CASE SkipCancelled(l) \/ SkipRest(l) \/ BeginStep(l) \/ StepReturns(l)
  <2>1. /\ idx[l] \in Steps /\ pc[l] \in {"loop", "fn"} /\ status' = status
        /\ \A k \in Steps : k # idx[l] => step'[l][k] = step[l][k]
    BY <1>4, <1>a, RowWritten DEF StepReturns
  <2>2. step[l][idx[l]] \in {"pending", "running"}
    BY <1>b, <2>1, NumStepsAssumption DEF Ahead, Steps
  <2>3. QED
    BY <2>1, <2>2
<1>5. CASE \/ Register(l) \/ ListSteps(l) \/ OpenLog(l) \/ Judge(l) \/ Exit(l)
           \/ (\E j \in Jobs : Cancel(j)) \/ Crash \/ UNCHANGED vars
  BY <1>5 DEF Register, ListSteps, OpenLog, Judge, Exit, Cancel, Crash, vars
<1>6. CASE ReconcileJobs
  BY <1>6 DEF ReconcileJobs, InterruptJobs, Active, Terminal
<1>7. CASE ReconcileSteps
  BY <1>7 DEF ReconcileSteps, InterruptSteps
<1>8. ~RivalStarts /\ ~RivalReconcilesJobs /\ ~RivalReconcilesSteps
  BY <1>b DEF RivalStarts, RivalReconcilesJobs, RivalReconcilesSteps
<1>9. QED
  BY <1>1, <1>2, <1>3, <1>4, <1>5, <1>6, <1>7, <1>8 DEF Next, Engine

(***************************************************************************)
(* A terminal job row and a finished step row keep their status for ever,  *)
(* through lost UPDATEs, crashes and every later start-up, while no second *)
(* process is launched.                                                    *)
(***************************************************************************)
THEOREM HistoryIsFinal == Spec => TerminalIsFinal
<1> DEFINE Kept == rivals' = 0 =>
      \A j \in Jobs :
        /\ status[j] \in Terminal => status'[j] = status[j]
        /\ \A i \in Steps :
             step[j][i] \notin {"pending", "running"} => step'[j][i] = step[j][i]
<1>1. IInv /\ AllAhead /\ [Next]_vars => [Kept]_dbVars
  BY HistoryKept
<1> HIDE DEF Kept
<1>2. Spec => [][Kept]_dbVars
  BY <1>1, AheadInvariant, PTL DEF Spec
<1>3. QED
  BY <1>2 DEF Kept, TerminalIsFinal

-----------------------------------------------------------------------------
(* Refinement *)

(***************************************************************************)
(* Submitting a job with a key takes the key, which nobody holds.          *)
(***************************************************************************)
LEMMA SubmitAcquires ==
  ASSUME TypeOK, NEW j \in Jobs, Ahead(j), NEW k \in Keys \cup {NoKey}, Submit(j, k)
  PROVE  Lock!LockNext \/ UNCHANGED Lock!lockVars
<1> USE DEF Active
<1>1. /\ status' = [status EXCEPT ![j] = "pending"]
      /\ lockKey' = [lockKey EXCEPT ![j] = k]
      /\ status[j] = "absent" /\ lockKey[j] = NoKey
      /\ status \in [Jobs -> JobStatus] /\ lockKey \in [Jobs -> Keys \cup {NoKey}]
  BY DEF Submit, Ahead, TypeOK
<1>2. \A q \in Keys : q # NoKey
  BY KeysAssumption
<1>3. CASE k = NoKey
  <2>1. \A q \in Keys : HoldersOf(q)' = HoldersOf(q)
    BY <1>1, <1>2, <1>3 DEF HoldersOf
  <2>2. {i \in Jobs : lockKey'[i] \in Keys} = {i \in Jobs : lockKey[i] \in Keys}
    BY <1>1, <1>2, <1>3
  <2>3. QED
    BY <2>1, <2>2 DEF Lock!lockVars
<1>4. CASE k \in Keys
  <2>1. HoldersOf(k) = {}
    BY <1>1, <1>2, <1>4 DEF Submit, KeyTaken, HoldersOf
  <2>2. HoldersOf(k)' = {j}
    BY <1>1, <2>1 DEF HoldersOf
  <2>3. \A q \in Keys : q # k => HoldersOf(q)' = HoldersOf(q)
    BY <1>1, <1>2 DEF HoldersOf
  <2>4. [q \in Keys |-> HoldersOf(q)'] = [[q \in Keys |-> HoldersOf(q)] EXCEPT ![k] = {j}]
    BY <1>4, <2>2, <2>3
  <2>5. j \notin {i \in Jobs : lockKey[i] \in Keys}
    BY <1>1, <1>2
  <2>6. {i \in Jobs : lockKey'[i] \in Keys} = {i \in Jobs : lockKey[i] \in Keys} \cup {j}
    BY <1>1, <1>4
  <2>7. Lock!Acquire(j, k)
    BY <1>4, <2>1, <2>4, <2>5, <2>6 DEF Lock!Acquire
  <2>8. QED
    BY <1>4, <2>7 DEF Lock!LockNext
<1>5. QED
  BY <1>3, <1>4

(***************************************************************************)
(* A step that only makes active rows final gives their keys back.         *)
(***************************************************************************)
LEMMA EndingReleases ==
  ASSUME UNCHANGED lockKey,
         NEW Done \in SUBSET Jobs,
         \A i \in Jobs : status'[i] \in Active <=> status[i] \in Active /\ i \notin Done
  PROVE  Lock!LockNext
<1>1. \A q \in Keys : HoldersOf(q)' = HoldersOf(q) \ Done
  BY DEF HoldersOf
<1>2. [q \in Keys |-> HoldersOf(q)'] = [q \in Keys |-> [p \in Keys |-> HoldersOf(p)][q] \ Done]
  BY <1>1
<1>3. Lock!Release(Done)
  BY <1>2 DEF Lock!Release
<1>4. QED
  BY <1>3 DEF Lock!LockNext

(***************************************************************************)
(* Without a second process, every step of the engine is a step of the     *)
(* lock or leaves the lock alone.                                          *)
(***************************************************************************)
LEMMA StepImplements ==
  ASSUME IInv, AllAhead, [Next]_vars, rivals = 0
  PROVE  [Lock!LockNext]_Lock!lockVars
<1> USE DEF dbVars, procVars
<1>a. /\ TypeOK /\ PlacesFit /\ rival = "none" /\ \A j \in Jobs : Ahead(j)
      /\ status \in [Jobs -> JobStatus]
  BY DEF IInv, AllAhead, WorkersOwnRows, TypeOK
<1>1. ASSUME UNCHANGED lockKey,
             \A i \in Jobs : status'[i] \in Active <=> status[i] \in Active
      PROVE  UNCHANGED Lock!lockVars
  <2>1. \A q \in Keys : HoldersOf(q)' = HoldersOf(q)
    BY <1>1 DEF HoldersOf
  <2>2. QED
    BY <1>1, <2>1 DEF Lock!lockVars
<1>2. ASSUME NEW j \in Jobs, NEW k \in Keys \cup {NoKey}, Submit(j, k)
      PROVE  Lock!LockNext \/ UNCHANGED Lock!lockVars
  BY <1>a, <1>2, SubmitAcquires
<1>3. ASSUME NEW j \in Jobs, Begin(j)
      PROVE  UNCHANGED Lock!lockVars
  <2>1. /\ \A i \in Jobs \ {j} : status'[i] = status[i]
        /\ status'[j] \in {status[j], "running"}
    BY <1>a, <1>3, WriteJobType DEF Begin, JobStatus, Active
  <2>2. status[j] \in Active
    BY <1>3, ActiveWritten
  <2>3. QED
    BY <1>1, <1>3, <2>1, <2>2 DEF Begin, Active
<1>4. ASSUME NEW j \in Jobs, Abort(j) \/ Finish(j)
      PROVE  Lock!LockNext \/ UNCHANGED Lock!lockVars
  <2>1. PICK s \in Outcomes : WriteJob(j, s)
    BY <1>a, <1>4 DEF Abort, Finish, TypeOK, Outcomes
  <2>2. /\ \A i \in Jobs \ {j} : status'[i] = status[i]
        /\ status'[j] \in {status[j], s}
        /\ s \notin Active /\ lockKey' = lockKey
    BY <1>a, <1>4, <2>1, WriteJobType
    DEF Abort, Finish, Outcomes, JobStatus, Terminal, Active
  <2>3. CASE status'[j] = status[j]
    BY <1>1, <2>2, <2>3
  <2>4. CASE status'[j] = s
    <3>1. \A i \in Jobs : status'[i] \in Active <=> status[i] \in Active /\ i \notin {j}
      BY <2>2, <2>4
    <3>2. QED
      BY <2>2, <3>1, EndingReleases
  <2>5. QED
    BY <2>2, <2>3, <2>4
<1>5. CASE ReconcileJobs
  <2>1. /\ \A i \in Jobs : status'[i] \notin Active
        /\ lockKey' = lockKey
    BY <1>5 DEF ReconcileJobs, InterruptJobs, Active
  <2>2. \A i \in Jobs : status'[i] \in Active <=> status[i] \in Active /\ i \notin Jobs
    BY <2>1
  <2>3. QED
    BY <2>1, <2>2, EndingReleases
<1>6. ASSUME NEW j \in Jobs,
             \/ Cancel(j) \/ StepSucceeds(j) \/ StepFails(j) \/ Register(j)
             \/ ListSteps(j) \/ SkipCancelled(j) \/ SkipRest(j) \/ BeginStep(j)
             \/ OpenLog(j) \/ Judge(j) \/ Exit(j)
      PROVE  UNCHANGED Lock!lockVars
  <2>1. UNCHANGED <<status, lockKey>>
    BY <1>6 DEF Cancel, StepSucceeds, StepFails, Register, ListSteps, SkipCancelled,
                SkipRest, BeginStep, OpenLog, Judge, Exit
  <2>2. QED
    BY <1>1, <2>1
<1>7. CASE Crash \/ ReconcileSteps \/ UNCHANGED vars
  BY <1>1, <1>7 DEF Crash, ReconcileSteps, vars
<1>8. CASE RivalStarts
  BY <1>1, <1>8 DEF RivalStarts
<1>9. ~RivalReconcilesJobs /\ ~RivalReconcilesSteps
  BY <1>a DEF RivalReconcilesJobs, RivalReconcilesSteps
<1>10. QED
  BY <1>2, <1>3, <1>4, <1>5, <1>6, <1>7, <1>8, <1>9 DEF Next, Engine, StepReturns

(***************************************************************************)
(* Every behaviour of the engine in which no second process is launched on *)
(* its database is one of the abstract lock, HoldersOf(k) being the        *)
(* holders of key k.                                                       *)
(***************************************************************************)
THEOREM EngineImplementsLock == Spec /\ [](rivals = 0) => ImplementsLock
<1>1. Init => Lock!LockInit
  <2> SUFFICES ASSUME Init
               PROVE  Lock!LockInit
    OBVIOUS
  <2>1. \A q \in Keys : HoldersOf(q) = {}
    BY DEF Init, HoldersOf, Active
  <2>2. {j \in Jobs : lockKey[j] \in Keys} = {}
    BY KeysAssumption DEF Init
  <2>3. QED
    BY <2>1, <2>2 DEF Lock!LockInit
<1>2. IInv /\ AllAhead /\ rivals = 0 /\ [Next]_vars => [Lock!LockNext]_Lock!lockVars
  BY StepImplements
<1>3. QED
  BY <1>1, <1>2, AheadInvariant, PTL DEF Spec, ImplementsLock, Lock!LockSpec

-----------------------------------------------------------------------------
(* No job runs for ever *)

\* How many steps of its own a goroutine at this place has before it at most:
\* three before run's loop, four for each step of the job, two at the end.
LeftAt(place, i) ==
  LET rounds == 4 * (NumSteps + 1 - i)
  IN  CASE place = "none"      -> 0
        [] place = "committed" -> 4 * NumSteps + 5
        [] place = "begin"     -> 4 * NumSteps + 4
        [] place = "list"      -> 4 * NumSteps + 3
        [] place = "loop"      -> rounds + 2
        [] place = "opening"   -> rounds + 1
        [] place = "fn"        -> rounds
        [] place = "judge"     -> rounds - 1
        [] place = "closing"   -> 1

StepsLeft(j) == IF status[j] = "absent" THEN 4 * NumSteps + 6 ELSE LeftAt(pc[j], idx[j])

(***************************************************************************)
(* No step of anybody leaves a job more to do, and each of its own leaves  *)
(* it less (run's loop over the steps).                                    *)
(***************************************************************************)
NeverBack ==
  [][\A j \in Jobs : /\ StepsLeft(j)' <= StepsLeft(j)
                     /\ Engine(j) \/ StepReturns(j) => StepsLeft(j)' < StepsLeft(j)]_vars

(***************************************************************************)
(* The numbers, one by one.                                                *)
(***************************************************************************)
LEMMA LeftAtPlaces ==
  ASSUME NEW i
  PROVE  /\ LeftAt("none", i) = 0
         /\ LeftAt("committed", i) = 4 * NumSteps + 5
         /\ LeftAt("begin", i) = 4 * NumSteps + 4
         /\ LeftAt("list", i) = 4 * NumSteps + 3
         /\ LeftAt("loop", i) = 4 * (NumSteps + 1 - i) + 2
         /\ LeftAt("opening", i) = 4 * (NumSteps + 1 - i) + 1
         /\ LeftAt("fn", i) = 4 * (NumSteps + 1 - i)
         /\ LeftAt("judge", i) = 4 * (NumSteps + 1 - i) - 1
         /\ LeftAt("closing", i) = 1
<1>1. LeftAt("none", i) = 0
  BY Zenon DEF LeftAt
<1>2. LeftAt("committed", i) = 4 * NumSteps + 5
  BY Zenon DEF LeftAt
<1>3. LeftAt("begin", i) = 4 * NumSteps + 4
  BY Zenon DEF LeftAt
<1>4. LeftAt("list", i) = 4 * NumSteps + 3
  BY Zenon DEF LeftAt
<1>5. LeftAt("loop", i) = 4 * (NumSteps + 1 - i) + 2
  BY Zenon DEF LeftAt
<1>6. LeftAt("opening", i) = 4 * (NumSteps + 1 - i) + 1
  BY Zenon DEF LeftAt
<1>7. LeftAt("fn", i) = 4 * (NumSteps + 1 - i)
  BY Zenon DEF LeftAt
<1>8. LeftAt("judge", i) = 4 * (NumSteps + 1 - i) - 1
  BY Zenon DEF LeftAt
<1>9. LeftAt("closing", i) = 1
  BY Zenon DEF LeftAt
<1> QED
  BY <1>1, <1>2, <1>3, <1>4, <1>5, <1>6, <1>7, <1>8, <1>9

(***************************************************************************)
(* A goroutine has a number of steps left.                                 *)
(***************************************************************************)
LEMMA LeftNumber ==
  ASSUME NEW place \in Places, NEW i \in 1 .. NumSteps + 1,
         place \in {"opening", "fn", "judge"} => i \in Steps
  PROVE  LeftAt(place, i) \in 0 .. 4 * NumSteps + 5
<1>1. NumSteps \in Nat /\ NumSteps >= 1
  BY NumStepsAssumption
<1>2. CASE place \notin {"opening", "fn", "judge"}
  BY <1>1, <1>2, LeftAtPlaces DEF Places
<1>3. CASE place \in {"opening", "fn", "judge"}
  <2>1. i \in 1 .. NumSteps
    BY <1>3 DEF Steps
  <2> QED
    BY <1>1, <1>3, <2>1, LeftAtPlaces
<1> QED
  BY <1>2, <1>3

(***************************************************************************)
(* So has every job.                                                       *)
(***************************************************************************)
LEMMA LeftIsNumber ==
  ASSUME TypeOK, PlacesFit, NEW j \in Jobs PROVE StepsLeft(j) \in 0 .. 4 * NumSteps + 6
<1>1. pc[j] \in Places /\ idx[j] \in 1 .. NumSteps + 1 /\ NumSteps \in Nat
  BY NumStepsAssumption DEF TypeOK
<1>2. pc[j] \in {"opening", "fn", "judge"} => idx[j] \in Steps
  BY DEF PlacesFit
<1>3. LeftAt(pc[j], idx[j]) \in 0 .. 4 * NumSteps + 5
  BY <1>1, <1>2, LeftNumber
<1> QED
  BY <1>1, <1>3 DEF StepsLeft

(***************************************************************************)
(* Without a step of its own a job has as many steps left as before, or    *)
(* none when its goroutine is gone.                                        *)
(***************************************************************************)
LEMMA LeftAlone ==
  ASSUME TypeOK, PlacesFit, NEW j \in Jobs, idx'[j] = idx[j],
         (status'[j] = "absent") = (status[j] = "absent"),
         pc'[j] = pc[j] \/ pc'[j] = "none"
  PROVE  StepsLeft(j)' <= StepsLeft(j)
<1>1. StepsLeft(j) \in 0 .. 4 * NumSteps + 6
  BY LeftIsNumber
<1>2. CASE pc'[j] = pc[j]
  <2>1. StepsLeft(j)' = StepsLeft(j)
    BY <1>2, Zenon DEF StepsLeft
  <2> QED
    BY <1>1, <2>1, NumStepsAssumption
<1>3. CASE pc'[j] = "none"
  <2>1. status[j] = "absent" => StepsLeft(j)' = StepsLeft(j)
    BY DEF StepsLeft
  <2>2. status[j] # "absent" => StepsLeft(j)' = 0
    BY <1>3, LeftAtPlaces DEF StepsLeft
  <2> QED
    BY <1>1, <2>1, <2>2, NumStepsAssumption
<1> QED
  BY <1>2, <1>3

\* Where a step of a goroutine leads from place p and index i.
Forward(p, i, q, k) ==
  \/ /\ i = k
     /\ \/ p = "committed" /\ q = "begin"
        \/ p = "begin" /\ q = "list"
        \/ p \in {"list", "loop", "opening"} /\ q = "closing"
        \/ p = "loop" /\ q = "opening"
        \/ p = "opening" /\ q = "fn"
        \/ p = "fn" /\ q = "judge"
        \/ p = "closing" /\ q = "none"
  \/ p = "list" /\ q = "loop" /\ k = 1
  \/ p \in {"loop", "fn", "judge"} /\ q = "loop" /\ k = i + 1

(***************************************************************************)
(* It leads to fewer steps.                                                *)
(***************************************************************************)
LEMMA ForwardLess ==
  ASSUME NEW p, NEW q, NEW i \in 1 .. NumSteps + 1, NEW k, Forward(p, i, q, k),
         p \in {"opening", "fn", "judge"} => i \in Steps
  PROVE  LeftAt(q, k) < LeftAt(p, i) /\ LeftAt(q, k) <= LeftAt(p, i)
<1>1. NumSteps \in Nat /\ NumSteps >= 1 /\ i \in 1 .. NumSteps + 1
  BY NumStepsAssumption
<1>2. p \in {"opening", "fn", "judge"} => i <= NumSteps
  BY <1>1 DEF Steps
<1>3. CASE i = k
  BY <1>1, <1>2, <1>3, LeftAtPlaces DEF Forward
<1>4. CASE p = "list" /\ q = "loop" /\ k = 1
  BY <1>1, <1>4, LeftAtPlaces
<1>5. CASE p \in {"loop", "fn", "judge"} /\ q = "loop" /\ k = i + 1
  BY <1>1, <1>2, <1>5, LeftAtPlaces
<1> QED
  BY <1>3, <1>4, <1>5 DEF Forward

(***************************************************************************)
(* A step of a goroutine is forward, and moves no other.                   *)
(***************************************************************************)
LEMMA GoesForward ==
  ASSUME TypeOK, PlacesFit, NEW j \in Jobs, Engine(j) \/ StepReturns(j)
  PROVE  /\ Forward(pc[j], idx[j], pc'[j], idx'[j])
         /\ \A l \in Jobs \ {j} : pc'[l] = pc[l] /\ idx'[l] = idx[l]
<1> USE DEF GoTo, NextStep, TypeOK
<1>1. CASE Register(j) \/ ListSteps(j) \/ OpenLog(j) \/ Exit(j)
  BY <1>1 DEF Register, ListSteps, OpenLog, Exit, Forward
<1>2. CASE Begin(j) \/ Abort(j) \/ Finish(j)
  BY <1>2 DEF Begin, Abort, Finish, Forward
<1>3. CASE SkipCancelled(j) \/ SkipRest(j) \/ BeginStep(j)
  BY <1>3 DEF SkipCancelled, SkipRest, BeginStep, Forward
<1>4. CASE StepReturns(j) \/ Judge(j)
  BY <1>4 DEF StepReturns, StepSucceeds, StepFails, Judge, Forward
<1> QED
  BY <1>1, <1>2, <1>3, <1>4 DEF Engine

(***************************************************************************)
(* Which rows there are changes only when a job is submitted.              *)
(***************************************************************************)
LEMMA RowsThereAre ==
  ASSUME TypeOK, PlacesFit, NEW j \in Jobs, Engine(j) \/ StepReturns(j)
  PROVE  \A l \in Jobs : (status'[l] = "absent") = (status[l] = "absent")
<1>1. status[j] # "absent"
  BY DEF PlacesFit, Engine, StepReturns, Register, ListSteps, OpenLog, Exit, Begin, Abort, Finish,
         SkipCancelled, SkipRest, BeginStep, StepSucceeds, StepFails, Judge
<1>2. ASSUME NEW s \in JobStatus \ {"absent"}, WriteJob(j, s)
      PROVE  \A l \in Jobs : (status'[l] = "absent") = (status[l] = "absent")
  BY <1>1, <1>2, WriteJobType
<1>3. CASE status' = status
  BY <1>3
<1>4. CASE Begin(j) \/ Abort(j) \/ Finish(j)
  <2>1. outcome[j] \in JobStatus \ {"absent"}
    BY DEF TypeOK, Outcomes, JobStatus, Active, Terminal
  <2>2. "running" \in JobStatus \ {"absent"} /\ "failed" \in JobStatus \ {"absent"}
    BY DEF JobStatus, Active, Terminal
  <2> QED
    BY <1>2, <1>4, <2>1, <2>2 DEF Begin, Abort, Finish
<1> QED
  BY <1>3, <1>4 DEF Engine, StepReturns, Register, ListSteps, OpenLog, Exit, SkipCancelled, SkipRest,
                    BeginStep, StepSucceeds, StepFails, Judge, dbVars

(***************************************************************************)
(* No step takes a job back, and one of its own brings it nearer its end.  *)
(***************************************************************************)
LEMMA LeftStep ==
  ASSUME TypeOK, PlacesFit, [Next]_vars, NEW j \in Jobs
  PROVE  /\ StepsLeft(j)' <= StepsLeft(j)
         /\ Engine(j) \/ StepReturns(j) => StepsLeft(j)' < StepsLeft(j)
<1>1. CASE Engine(j) \/ StepReturns(j)
  <2>1. pc[j] \in {"opening", "fn", "judge"} => idx[j] \in Steps
    BY DEF PlacesFit
  <2>2. idx[j] \in 1 .. NumSteps + 1
    BY DEF TypeOK
  <2>3. Forward(pc[j], idx[j], pc'[j], idx'[j])
    BY <1>1, GoesForward
  <2>4. /\ LeftAt(pc'[j], idx'[j]) < LeftAt(pc[j], idx[j])
        /\ LeftAt(pc'[j], idx'[j]) <= LeftAt(pc[j], idx[j])
    BY <2>1, <2>2, <2>3, ForwardLess
  <2>5. status[j] # "absent" /\ status'[j] # "absent"
    <3>1. status[j] # "absent"
      BY <2>3 DEF PlacesFit, Forward
    <3> QED
      BY <1>1, <3>1, RowsThereAre
  <2>6. StepsLeft(j) = LeftAt(pc[j], idx[j]) /\ StepsLeft(j)' = LeftAt(pc'[j], idx'[j])
    BY <2>5 DEF StepsLeft
  <2> QED
    BY <2>4, <2>6
<1>2. ASSUME ~(Engine(j) \/ StepReturns(j)) PROVE StepsLeft(j)' <= StepsLeft(j)
  <2>1. ASSUME NEW l \in Jobs, l # j, Engine(l) \/ StepReturns(l)
        PROVE  StepsLeft(j)' <= StepsLeft(j)
    BY <2>1, GoesForward, RowsThereAre, LeftAlone
  <2>2. ASSUME NEW k \in Keys \cup {NoKey}, NEW l \in Jobs, Submit(l, k)
        PROVE  StepsLeft(j)' <= StepsLeft(j)
    <3>1. CASE l = j
      <4>1. pc'[j] = "committed" /\ status[j] = "absent" /\ status'[j] # "absent" /\ idx'[j] = idx[j]
        BY <2>2, <3>1 DEF Submit, GoTo, TypeOK
      <4>2. StepsLeft(j) = 4 * NumSteps + 6 /\ StepsLeft(j)' = 4 * NumSteps + 5
        BY <4>1, LeftAtPlaces DEF StepsLeft
      <4> QED
        BY <4>2, NumStepsAssumption
    <3>2. CASE l # j
      BY <2>2, <3>2, LeftAlone DEF Submit, GoTo, TypeOK
    <3> QED
      BY <3>1, <3>2
  <2>3. CASE Crash
    <3>1. pc'[j] = "none" /\ idx' = idx /\ status' = status
      BY <2>3 DEF Crash, dbVars
    <3> QED
      BY <3>1, LeftAlone
  <2>4. CASE ReconcileJobs \/ RivalReconcilesJobs
    <3>1. pc' = pc /\ idx' = idx /\ InterruptJobs
      BY <2>4 DEF ReconcileJobs, RivalReconcilesJobs, procVars
    <3>2. (status'[j] = "absent") = (status[j] = "absent")
      BY <3>1 DEF InterruptJobs, Active
    <3> QED
      BY <3>1, <3>2, LeftAlone
  <2>5. CASE \/ \E l \in Jobs : Cancel(l)
             \/ ReconcileSteps \/ RivalStarts \/ RivalReconcilesSteps \/ UNCHANGED vars
    <3>1. pc' = pc /\ idx' = idx /\ status' = status
      BY <2>5 DEF Cancel, ReconcileSteps, RivalStarts, RivalReconcilesSteps, vars, dbVars, procVars
    <3> QED
      BY <3>1, LeftAlone
  <2> QED
    BY <1>2, <2>1, <2>2, <2>3, <2>4, <2>5 DEF Next
<1> QED
  BY <1>1, <1>2

(***************************************************************************)
(* run never turns back, whatever fails, is cancelled, is lost or crashes: *)
(* a job has at most 4 * NumSteps + 6 steps before it, each one of its own *)
(* leaves it fewer, and nobody else's leaves it more.  Of EveryJobEnds it  *)
(* is the part that needs no fairness.                                     *)
(***************************************************************************)
THEOREM RunNeverTurnsBack ==
  Spec => [](\A j \in Jobs : StepsLeft(j) \in 0 .. 4 * NumSteps + 6) /\ NeverBack
<1>1. IInv => \A j \in Jobs : StepsLeft(j) \in 0 .. 4 * NumSteps + 6
  BY LeftIsNumber DEF IInv
<1>2. IInv /\ [Next]_vars
        => [\A j \in Jobs : /\ StepsLeft(j)' <= StepsLeft(j)
                            /\ Engine(j) \/ StepReturns(j) => StepsLeft(j)' < StepsLeft(j)]_vars
  BY LeftStep DEF IInv
<1> QED
  BY <1>1, <1>2, Invariance, PTL DEF Spec, NeverBack
=============================================================================
