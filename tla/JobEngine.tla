------------------------------ MODULE JobEngine ------------------------------
(***************************************************************************)
(* The job engine of internal/jobs: rows of the jobs and job_steps tables, *)
(* one goroutine per job that walks the job's steps, cancellation, the     *)
(* exclusive lock keys enforced by a partial unique index, crashes of the  *)
(* process and the reconciliation the next process performs.               *)
(*                                                                         *)
(* The tables survive a crash.  Goroutines, the cancels map and contexts   *)
(* do not.  Each action is one atomic step of the code: a transaction, one *)
(* UPDATE, one read of the context, or one section under Engine.mu.  Log   *)
(* lines and subscribers are modelled in JobStream.                        *)
(***************************************************************************)
EXTENDS Integers, FiniteSets

CONSTANTS
  Jobs,        \* jobs.id: AUTOINCREMENT, so an id is used for one job only
  NumSteps,    \* how many steps a Spec has
  Keys,        \* the non-empty lock keys
  NoKey,       \* the empty lock key, which Engine.Start passes
  MaxCrashes,  \* bound: how often the process may die
  MaxLost,     \* bound: how many UPDATEs may fail (their error is ignored)
  MaxRivals    \* bound: how often a second process is launched on the database

ASSUME NumStepsAssumption == NumSteps \in Nat \ {0}
ASSUME KeysAssumption == NoKey \notin Keys
ASSUME BoundsAssumption ==
  MaxCrashes \in Nat /\ MaxLost \in Nat /\ MaxRivals \in Nat

VARIABLES
  \* the database
  status,      \* jobs.status, "absent" before the row is inserted
  lockKey,     \* jobs.lock_key
  step,        \* job_steps.status, by job and seq
  \* the process
  phase,       \* how far start-up is: "down", "jobsReconciled", "up"
  pc,          \* where the goroutine that starts or runs the job is
  idx,         \* run's loop counter i
  outcome,     \* run's finalStatus
  cancels,     \* keys of Engine.cancels
  ctxDone,     \* the jobs whose context has been cancelled
  \* the environment
  rival,       \* a second process on the same database: "none", "starting", "jobsReconciled"
  crashes, lost, rivals

dbVars   == <<status, lockKey, step>>
procVars == <<phase, pc, idx, outcome, cancels, ctxDone>>
envVars  == <<rival, crashes, lost, rivals>>
vars     == <<dbVars, procVars, envVars>>

Steps      == 1 .. NumSteps
Active     == {"pending", "running"}
Terminal   == {"succeeded", "failed", "cancelled", "interrupted"}
JobStatus  == Active \cup Terminal \cup {"absent"}
StepStatus == {"pending", "running", "succeeded", "failed", "skipped", "interrupted"}
Outcomes   == {"succeeded", "failed", "cancelled"}

\* "none" is a job without a goroutine; the others are places in start and run.
Places == {"none", "committed", "begin", "list", "loop", "opening", "fn", "judge", "closing"}

\* The goroutine has been promised the resource and may still touch it.
Working == Places \ {"none", "closing"}

TypeOK ==
  /\ status \in [Jobs -> JobStatus]
  /\ lockKey \in [Jobs -> Keys \cup {NoKey}]
  /\ step \in [Jobs -> [Steps -> StepStatus]]
  /\ phase \in {"down", "jobsReconciled", "up"}
  /\ pc \in [Jobs -> Places]
  /\ idx \in [Jobs -> 1 .. NumSteps + 1]
  /\ outcome \in [Jobs -> Outcomes]
  /\ cancels \in SUBSET Jobs
  /\ ctxDone \in SUBSET Jobs
  /\ rival \in {"none", "starting", "jobsReconciled"}
  /\ crashes \in Nat /\ lost \in Nat /\ rivals \in Nat

Init ==
  /\ status = [j \in Jobs |-> "absent"]
  /\ lockKey = [j \in Jobs |-> NoKey]
  /\ step = [j \in Jobs |-> [i \in Steps |-> "pending"]]
  /\ phase = "down"
  /\ pc = [j \in Jobs |-> "none"]
  /\ idx = [j \in Jobs |-> 1]
  /\ outcome = [j \in Jobs |-> "succeeded"]
  /\ cancels = {}
  /\ ctxDone = {}
  /\ rival = "none"
  /\ crashes = 0 /\ lost = 0 /\ rivals = 0

-----------------------------------------------------------------------------
(* The database *)

\* Mutant of KeyTaken: the index forgets pending rows.
KeyTakenByRunning(k, j) ==
  /\ k # NoKey
  /\ \E other \in Jobs \ {j} : lockKey[other] = k /\ status[other] = "running"

\* What the partial unique index jobs_one_active_lock counts as occupied.
KeyTaken(k, j) ==
  /\ k # NoKey
  /\ \E other \in Jobs \ {j} : lockKey[other] = k /\ status[other] \in Active

\* Exec(UPDATE jobs SET status = s WHERE id = j) with its error thrown away:
\* nothing changes when the index refuses the row or the write fails.
WriteJob(j, s) ==
  \/ /\ s \in Active => ~KeyTaken(lockKey[j], j)
     /\ status' = [status EXCEPT ![j] = s]
     /\ UNCHANGED lost
  \/ /\ s \in Active /\ KeyTaken(lockKey[j], j)
     /\ UNCHANGED <<status, lost>>
  \/ /\ lost < MaxLost
     /\ lost' = lost + 1
     /\ UNCHANGED status

\* Exec(UPDATE job_steps SET status = s WHERE id = stepIDs[i]), error ignored.
WriteStep(j, i, s) ==
  \/ /\ step' = [step EXCEPT ![j][i] = s]
     /\ UNCHANGED lost
  \/ /\ lost < MaxLost
     /\ lost' = lost + 1
     /\ UNCHANGED step

\* Mutant of InterruptJobs: a job that never began stays pending.
InterruptRunningJobs ==
  status' = [j \in Jobs |-> IF status[j] = "running" THEN "interrupted" ELSE status[j]]

\* ReconcileOnStartup's first UPDATE, over every row, one statement.
InterruptJobs ==
  status' = [j \in Jobs |-> IF status[j] \in Active THEN "interrupted" ELSE status[j]]

\* Mutant of InterruptSteps: the WHERE clause is dropped.
InterruptEveryStep ==
  step' = [j \in Jobs |-> [i \in Steps |-> "interrupted"]]

\* ReconcileOnStartup's second UPDATE: only running steps are touched.
InterruptSteps ==
  step' = [j \in Jobs |-> [i \in Steps |->
             IF step[j][i] = "running" THEN "interrupted" ELSE step[j][i]]]

GoTo(j, place) == pc' = [pc EXCEPT ![j] = place]

-----------------------------------------------------------------------------
(* start: the transaction, the registration of the cancel function, go run *)

\* Insert the job row and its step rows; the index refuses a busy key, and
\* the caller gets ErrResourceBusy with nothing changed.
Submit(j, k) ==
  /\ phase = "up"
  /\ status[j] = "absent"
  /\ ~KeyTaken(k, j)
  /\ status' = [status EXCEPT ![j] = "pending"]
  /\ lockKey' = [lockKey EXCEPT ![j] = k]
  /\ GoTo(j, "committed")
  /\ UNCHANGED <<step, phase, idx, outcome, cancels, ctxDone, envVars>>

Register(j) ==
  /\ pc[j] = "committed"
  /\ cancels' = cancels \cup {j}
  /\ GoTo(j, "begin")
  /\ UNCHANGED <<dbVars, phase, idx, outcome, ctxDone, envVars>>

\* Cancel of an id that is not in the map does nothing, whatever the row says.
Cancel(j) ==
  /\ phase = "up"
  /\ ctxDone' = IF j \in cancels THEN ctxDone \cup {j} ELSE ctxDone
  /\ UNCHANGED <<dbVars, phase, pc, idx, outcome, cancels, envVars>>

-----------------------------------------------------------------------------
(* run *)

Begin(j) ==
  /\ pc[j] = "begin"
  /\ WriteJob(j, "running")
  /\ GoTo(j, "list")
  /\ UNCHANGED <<lockKey, step, phase, idx, outcome, cancels, ctxDone, rival, crashes, rivals>>

ListSteps(j) ==
  /\ pc[j] = "list"
  /\ idx' = [idx EXCEPT ![j] = 1]
  /\ outcome' = [outcome EXCEPT ![j] = "succeeded"]
  /\ GoTo(j, "loop")
  /\ UNCHANGED <<dbVars, phase, cancels, ctxDone, envVars>>

\* failJob and return: the steps could not be read, or a step's log file could
\* not be opened.  The row of that step stays "running", later ones "pending".
Abort(j) ==
  /\ pc[j] \in {"list", "opening"}
  /\ WriteJob(j, "failed")
  /\ GoTo(j, "closing")
  /\ UNCHANGED <<lockKey, step, phase, idx, outcome, cancels, ctxDone, rival, crashes, rivals>>

\* Mutant of NextStep: a skipped step is counted twice.
NextStepTwice(j) == idx' = [idx EXCEPT ![j] = @ + 2]

NextStep(j) == idx' = [idx EXCEPT ![j] = @ + 1]

\* Mutants of SkipCancelled: finalStatus is not set; the loop does not advance.
SkipCancelledQuietly(j) ==
  /\ pc[j] = "loop" /\ idx[j] \in Steps
  /\ j \in ctxDone
  /\ WriteStep(j, idx[j], "skipped")
  /\ NextStep(j)
  /\ UNCHANGED <<status, lockKey, phase, pc, outcome, cancels, ctxDone, rival, crashes, rivals>>

SkipCancelledForever(j) ==
  /\ pc[j] = "loop" /\ idx[j] \in Steps
  /\ j \in ctxDone
  /\ WriteStep(j, idx[j], "skipped")
  /\ outcome' = [outcome EXCEPT ![j] = "cancelled"]
  /\ UNCHANGED <<status, lockKey, phase, pc, idx, cancels, ctxDone, rival, crashes, rivals>>

\* The context is done: the step is skipped and the job is a cancelled one,
\* even if it had failed before.
SkipCancelled(j) ==
  /\ pc[j] = "loop" /\ idx[j] \in Steps
  /\ j \in ctxDone
  /\ WriteStep(j, idx[j], "skipped")
  /\ outcome' = [outcome EXCEPT ![j] = "cancelled"]
  /\ NextStep(j)
  /\ UNCHANGED <<status, lockKey, phase, pc, cancels, ctxDone, rival, crashes, rivals>>

\* An earlier step failed or was cancelled: the rest is skipped.
SkipRest(j) ==
  /\ pc[j] = "loop" /\ idx[j] \in Steps
  /\ j \notin ctxDone
  /\ outcome[j] \in {"failed", "cancelled"}
  /\ WriteStep(j, idx[j], "skipped")
  /\ NextStep(j)
  /\ UNCHANGED <<status, lockKey, phase, pc, outcome, cancels, ctxDone, rival, crashes, rivals>>

BeginStep(j) ==
  /\ pc[j] = "loop" /\ idx[j] \in Steps
  /\ j \notin ctxDone
  /\ outcome[j] = "succeeded"
  /\ WriteStep(j, idx[j], "running")
  /\ GoTo(j, "opening")
  /\ UNCHANGED <<status, lockKey, phase, idx, outcome, cancels, ctxDone, rival, crashes, rivals>>

OpenLog(j) ==
  /\ pc[j] = "opening"
  /\ GoTo(j, "fn")
  /\ UNCHANGED <<dbVars, phase, idx, outcome, cancels, ctxDone, envVars>>

\* The step function returns nil; it may do so although the job was cancelled.
StepSucceeds(j) ==
  /\ pc[j] = "fn"
  /\ WriteStep(j, idx[j], "succeeded")
  /\ NextStep(j)
  /\ GoTo(j, "loop")
  /\ UNCHANGED <<status, lockKey, phase, outcome, cancels, ctxDone, rival, crashes, rivals>>

StepFails(j) ==
  /\ pc[j] = "fn"
  /\ WriteStep(j, idx[j], "failed")
  /\ GoTo(j, "judge")
  /\ UNCHANGED <<status, lockKey, phase, idx, outcome, cancels, ctxDone, rival, crashes, rivals>>

\* Mutant of Judge: the failure is not remembered.
JudgeForgets(j) ==
  /\ pc[j] = "judge"
  /\ NextStep(j)
  /\ GoTo(j, "loop")
  /\ UNCHANGED <<dbVars, phase, outcome, cancels, ctxDone, envVars>>

\* ctx.Err() is read only now, after the step row has been written.
Judge(j) ==
  /\ pc[j] = "judge"
  /\ outcome' = [outcome EXCEPT ![j] = IF j \in ctxDone THEN "cancelled" ELSE "failed"]
  /\ NextStep(j)
  /\ GoTo(j, "loop")
  /\ UNCHANGED <<dbVars, phase, cancels, ctxDone, envVars>>

Finish(j) ==
  /\ pc[j] = "loop" /\ idx[j] = NumSteps + 1
  /\ WriteJob(j, outcome[j])
  /\ GoTo(j, "closing")
  /\ UNCHANGED <<lockKey, step, phase, idx, outcome, cancels, ctxDone, rival, crashes, rivals>>

\* The deferred delete(e.cancels, jobID); the goroutine ends.
Exit(j) ==
  /\ pc[j] = "closing"
  /\ cancels' = cancels \ {j}
  /\ GoTo(j, "none")
  /\ UNCHANGED <<dbVars, phase, idx, outcome, ctxDone, envVars>>

StepReturns(j) == StepSucceeds(j) \/ StepFails(j)

\* Everything the goroutine of job j does by itself, step functions apart.
Engine(j) ==
  \/ Register(j) \/ Begin(j) \/ ListSteps(j) \/ Abort(j)
  \/ SkipCancelled(j) \/ SkipRest(j) \/ BeginStep(j) \/ OpenLog(j)
  \/ Judge(j) \/ Finish(j) \/ Exit(j)

-----------------------------------------------------------------------------
(* The process, and a second one *)

\* The process dies (a crash, an upgrade, SIGTERM: nothing waits for jobs).
Crash ==
  /\ phase # "down"
  /\ crashes < MaxCrashes
  /\ crashes' = crashes + 1
  /\ phase' = "down"
  /\ pc' = [j \in Jobs |-> "none"]
  /\ cancels' = {}
  /\ UNCHANGED <<dbVars, idx, outcome, ctxDone, rival, lost, rivals>>

ReconcileJobs ==
  /\ phase = "down"
  /\ InterruptJobs
  /\ phase' = "jobsReconciled"
  /\ UNCHANGED <<lockKey, step, pc, idx, outcome, cancels, ctxDone, envVars>>

ReconcileSteps ==
  /\ phase = "jobsReconciled"
  /\ InterruptSteps
  /\ phase' = "up"
  /\ UNCHANGED <<status, lockKey, pc, idx, outcome, cancels, ctxDone, envVars>>

\* A second process is launched while this one serves: main reconciles the
\* shared database before it finds the port taken and exits.
RivalStarts ==
  /\ phase = "up" /\ rival = "none"
  /\ rivals < MaxRivals
  /\ rivals' = rivals + 1
  /\ rival' = "starting"
  /\ UNCHANGED <<dbVars, procVars, crashes, lost>>

RivalReconcilesJobs ==
  /\ rival = "starting"
  /\ InterruptJobs
  /\ rival' = "jobsReconciled"
  /\ UNCHANGED <<lockKey, step, procVars, crashes, lost, rivals>>

RivalReconcilesSteps ==
  /\ rival = "jobsReconciled"
  /\ InterruptSteps
  /\ rival' = "none"
  /\ UNCHANGED <<status, lockKey, procVars, crashes, lost, rivals>>

Next ==
  \/ \E j \in Jobs : \/ \E k \in Keys \cup {NoKey} : Submit(j, k)
                     \/ Cancel(j) \/ StepReturns(j) \/ Engine(j)
  \/ Crash \/ ReconcileJobs \/ ReconcileSteps
  \/ RivalStarts \/ RivalReconcilesJobs \/ RivalReconcilesSteps

Spec == Init /\ [][Next]_vars

-----------------------------------------------------------------------------
(* Fairness: goroutines are scheduled, and an operator (or systemd)        *)
(* restarts a dead process.                                                *)
Scheduled ==
  /\ \A j \in Jobs : WF_vars(Engine(j))
  /\ WF_vars(ReconcileJobs) /\ WF_vars(ReconcileSteps)

\* A step function returns once its context is done, and no sooner need it.
CancelObserved == \A j \in Jobs : WF_vars(j \in ctxDone /\ StepReturns(j))

\* Every step function returns: each polls against a deadline of its own.
StepsReturn == \A j \in Jobs : WF_vars(StepReturns(j))

LiveSpec == Spec /\ Scheduled /\ CancelObserved

-----------------------------------------------------------------------------
(* Safety *)

(***************************************************************************)
(* "Only one active mutating job" per lock key (migration 0007_job_locks): *)
(* two jobs of one key never work at the same time.  The index speaks of   *)
(* rows; this speaks of goroutines, from the commit in start until the     *)
(* final UPDATE in run.  Refuted once a second process reconciles.         *)
(***************************************************************************)
OneActiveMutatingJob ==
  \A i, j \in Jobs :
    i # j /\ lockKey[i] = lockKey[j] /\ lockKey[i] # NoKey
      => ~(pc[i] \in Working /\ pc[j] \in Working)

(***************************************************************************)
(* The same, as long as no second process was ever launched: crashes, lost *)
(* UPDATEs and reconciliation at start-up do not break the exclusion.      *)
(***************************************************************************)
LockExclusion == rivals = 0 => OneActiveMutatingJob

Started == {"running", "succeeded", "failed", "interrupted"}

(***************************************************************************)
(* A step is started only when every step before it has succeeded, across  *)
(* failures, cancellations and restarts: "the job then stops running       *)
(* further steps" (StepFunc).  Read off the rows, so while no write of     *)
(* theirs was lost.                                                        *)
(***************************************************************************)
RunsOnlyAfterSuccess ==
  lost = 0 =>
    \A j \in Jobs : \A i, k \in Steps :
      i < k /\ step[j][k] \in Started => step[j][i] = "succeeded"

(***************************************************************************)
(* The final status run writes tells the truth about the steps: succeeded  *)
(* is all of them, failed and cancelled are not, and a cancelled job was   *)
(* one somebody cancelled.                                                 *)
(***************************************************************************)
OutcomeHonest ==
  lost = 0 =>
    \A j \in Jobs :
      LET allDone == \A i \in Steps : step[j][i] = "succeeded" IN
      /\ status[j] = "succeeded" => allDone
      /\ status[j] \in {"failed", "cancelled"} => ~allDone
      /\ status[j] = "cancelled" => j \in ctxDone

\* A pending or running row has a goroutine behind it.
Backed(j) == status[j] \in Active => pc[j] \in Working

(***************************************************************************)
(* While the process serves, no row shows a "stale spinner" (the comment   *)
(* on ReconcileOnStartup): whatever crashed before, an active row has a    *)
(* goroutine, so its lock key will be given back.                          *)
(***************************************************************************)
NoStaleRow == phase = "up" /\ lost = 0 => \A j \in Jobs : Backed(j)

(***************************************************************************)
(* A row that has reached a terminal status keeps it, and so does a step   *)
(* row: neither run nor a later start-up rewrites history.  (While no      *)
(* second process was launched: run overwrites what that one interrupts.)  *)
(***************************************************************************)
TerminalIsFinal ==
  [][rivals' = 0 =>
       \A j \in Jobs :
         /\ status[j] \in Terminal => status'[j] = status[j]
         /\ \A i \in Steps :
              step[j][i] \notin {"pending", "running"} => step'[j][i] = step[j][i]]_dbVars

\* The jobs whose rows occupy key k.
HoldersOf(k) == {j \in Jobs : lockKey[j] = k /\ status[j] \in Active}

Lock == INSTANCE ResourceLock WITH
          Operations <- Jobs,
          holders <- [k \in Keys |-> HoldersOf(k)],
          past <- {j \in Jobs : lockKey[j] \in Keys}

(***************************************************************************)
(* The engine implements the abstract lock: a key is taken by one          *)
(* submission that finds it free, and given back for good when the job     *)
(* ends or the next process reconciles.                                    *)
(***************************************************************************)
ImplementsLock == Lock!LockSpec

-----------------------------------------------------------------------------
(* The inductive invariant of JobEngineProofs *)

\* start-up precedes every goroutine, and the loop's index fits where it is.
PlacesFit ==
  /\ phase # "up" => (\A j \in Jobs : pc[j] = "none")
  /\ \A j \in Jobs : pc[j] \in {"opening", "fn", "judge"} => idx[j] \in Steps
  /\ \A j \in Jobs : status[j] = "absent" => pc[j] = "none"

\* run is the last to write its row: once it has, the goroutine is leaving.
FinalRowsAtRest ==
  \A j \in Jobs : status[j] \in Outcomes => pc[j] \notin Working

\* Without a second process, whoever works has an active row, and the index
\* keeps active rows of one key apart.
WorkersOwnRows ==
  rivals = 0 =>
    /\ rival = "none"
    /\ \A j \in Jobs : pc[j] \in Working => status[j] \in Active
    /\ \A i, j \in Jobs :
         i # j /\ lockKey[i] = lockKey[j] /\ lockKey[i] # NoKey
           => ~(status[i] \in Active /\ status[j] \in Active)

\* What the step rows of a job look like at each place of run.
StepsBehind(j) ==
  /\ (status[j] = "absent" \/ pc[j] \in {"committed", "begin", "list"}) =>
       \A i \in Steps : step[j][i] = "pending"
  /\ pc[j] = "loop" =>
       /\ \A i \in Steps : i >= idx[j] => step[j][i] = "pending"
       /\ outcome[j] = "succeeded" =>
            \A i \in Steps : i < idx[j] => step[j][i] = "succeeded"
       /\ outcome[j] # "succeeded" =>
            \E i \in Steps : i < idx[j] /\ step[j][i] # "succeeded"
       /\ outcome[j] = "cancelled" => j \in ctxDone
  /\ pc[j] \in {"opening", "fn", "judge"} =>
       /\ outcome[j] = "succeeded"
       /\ \A i \in Steps : i < idx[j] => step[j][i] = "succeeded"
       /\ \A i \in Steps : i > idx[j] => step[j][i] = "pending"
       /\ IF pc[j] = "judge" THEN step[j][idx[j]] = "failed"
                             ELSE step[j][idx[j]] \in {"running", "interrupted"}

(***************************************************************************)
(* Inductive: TypeOK, where goroutines may be, who owns which row, and the *)
(* shape of the step rows, with the safety properties they support.        *)
(***************************************************************************)
IInv ==
  /\ TypeOK
  /\ PlacesFit
  /\ FinalRowsAtRest
  /\ WorkersOwnRows
  /\ lost = 0 => (\A j \in Jobs : StepsBehind(j))
  /\ RunsOnlyAfterSuccess
  /\ OutcomeHonest

-----------------------------------------------------------------------------
(* Liveness *)

(***************************************************************************)
(* A job whose cancellation was registered reaches a terminal status,      *)
(* assuming only that a step function notices its done context.            *)
(***************************************************************************)
CancelEndsJob ==
  \A j \in Jobs : j \in ctxDone /\ status[j] \in Active ~> status[j] \in Terminal

(***************************************************************************)
(* If step functions return, a submitted job reaches a terminal status,    *)
(* whenever the process dies and is restarted, so its lock key becomes     *)
(* free again.                                                             *)
(***************************************************************************)
EveryJobEnds ==
  StepsReturn => \A j \in Jobs : status[j] \in Active ~> status[j] \in Terminal

=============================================================================
