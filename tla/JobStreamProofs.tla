--------------------------- MODULE JobStreamProofs ---------------------------
(***************************************************************************)
(* Proofs about the streams of JobStream, for any number of jobs, pages,   *)
(* steps and log lines and any capacity of a channel: the types, that a    *)
(* page is shown nothing which a crash could take back, and that a page    *)
(* which tailed its job to the end has missed nothing.                     *)
(*                                                                         *)
(* The engine's own invariant is reused: a step of the streams is a step   *)
(* of JobEngine or leaves its variables alone, and never launches a second *)
(* process.                                                                *)
(***************************************************************************)
EXTENDS JobStream, JobEngineProofs, SequenceTheorems

-----------------------------------------------------------------------------
(* The invariant *)

\* Start-up comes before every handler and every publish.
QuietBeforeUp ==
  phase # "up" =>
    /\ \A j \in Jobs : outbox[j] = Silent
    /\ \A s \in Streams : handler[s] = "off"

\* What an event tells is in the file or row it speaks of.
LineOnFile(j, e) == e.kind = "line" => e.line <= file[j][e.seq]

RowsAgree(j, e) ==
  /\ e.kind = "step" /\ e.status \in {"succeeded", "failed"} => step[j][e.seq] = e.status
  /\ e.kind = "job" /\ e.status \in Terminal => status[j] = e.status

LinesSafe ==
  /\ \A j \in Jobs : outbox[j] \in Event => LineOnFile(j, outbox[j])
  /\ \A s \in Streams :
       /\ \A n \in 1 .. Len(channel[s]) : LineOnFile(WatchedBy[s], channel[s][n])
       /\ \A i \in Steps, n \in 1 .. MaxLines :
            <<i, n>> \in seen[s] => n <= file[WatchedBy[s]][i]

RowsSafe ==
  lost = 0 =>
    /\ \A j \in Jobs : outbox[j] \in Event => RowsAgree(j, outbox[j])
    /\ \A s \in Streams :
         LET j == WatchedBy[s] IN
         /\ \A n \in 1 .. Len(channel[s]) : RowsAgree(j, channel[s][n])
         /\ \A i \in Steps : view[s][i] \in {"succeeded", "failed"} => step[j][i] = view[s][i]
         /\ final[s] # "none" => status[j] = final[s]

\* The log of a step is empty until the step function runs.
NothingYet(j) ==
  /\ status[j] = "absent" \/ pc[j] \in {"committed", "begin", "list"} =>
       \A i \in Steps : file[j][i] = 0
  /\ pc[j] \in {"loop", "opening"} => \A i \in Steps : i >= idx[j] => file[j][i] = 0
  /\ pc[j] \in {"fn", "judge"} => \A i \in Steps : i > idx[j] => file[j][i] = 0

FilesAhead == \A j \in Jobs : NothingYet(j)

\* A step's log file is in its row before the first line is in the file.
LogsNamed ==
  lost = 0 =>
    \A j \in Jobs :
      /\ \A i \in Steps : file[j][i] > 0 => i \in logPath[j]
      /\ pc[j] \in {"opening", "fn"} => idx[j] \in logPath[j]

\* The goroutine has nothing more to say: it has published the end of its job.
Gone(j) ==
  /\ status[j] # "absent" /\ pc[j] \in {"closing", "none"}
  /\ outbox[j] \in {Silent, Closing}

Ends(e) == e.kind = "job" /\ e.status \in Terminal

\* The end of a job is the last thing published of it, and a channel is closed
\* after that.
EndIsLast ==
  /\ \A j \in Jobs : outbox[j] = Closing \/ Ends(outbox[j])
                       => status[j] # "absent" /\ pc[j] = "closing"
  /\ \A s \in Streams :
       LET j == WatchedBy[s] IN
       /\ handler[s] # "off" /\ s \notin open => Gone(j)
       /\ \A n \in 1 .. Len(channel[s]) :
            Ends(channel[s][n]) => n = Len(channel[s]) /\ Gone(j)
       /\ s \in fromChannel =>
            /\ final[s] # "none" /\ channel[s] = <<>> /\ Gone(j)
            /\ handler[s] \in {"off", "tail"}

\* On its way to the page: in its channel, or published next.
Coming(s, e) ==
  \/ \E n \in 1 .. Len(channel[s]) : channel[s][n] = e
  \/ outbox[WatchedBy[s]] = e

\* The rows the handler has read by now.
Replayed(s) ==
  {i \in Steps : handler[s] \in {"check", "tail"} \/ (handler[s] = "replay" /\ i < row[s])}

Following(s) == handler[s] # "off" /\ s \notin gaps

NoLineMissed ==
  \A s \in Streams :
    Following(s) =>
      \A i \in Replayed(s), n \in 1 .. MaxLines :
        i \in logPath[WatchedBy[s]] /\ n <= file[WatchedBy[s]][i]
          => <<i, n>> \in seen[s] \/ Coming(s, LineEvent(i, n))

Ran == {"running", "succeeded", "failed"}

\* The row's status is the last one that page s will have been sent of step i.
Latest(s, i) ==
  LET now == StepEvent(i, step[WatchedBy[s]][i]) IN
  \A m \in 1 .. Len(channel[s]) :
    channel[s][m].kind = "step" /\ channel[s][m].seq = i /\ channel[s][m] # now =>
      \/ \E n \in 1 .. Len(channel[s]) : n > m /\ channel[s][n] = now
      \/ outbox[WatchedBy[s]] = now

NoStatusMissed ==
  lost = 0 =>
    /\ \A j \in Jobs, i \in Steps, x \in StepStatus :
         outbox[j] = StepEvent(i, x) => step[j][i] = x
    /\ \A s \in Streams :
         Following(s) =>
           \A i \in Steps :
             step[WatchedBy[s]][i] \in Ran =>
               /\ Latest(s, i)
               /\ i \in Replayed(s) =>
                    \/ view[s][i] = step[WatchedBy[s]][i]
                    \/ Coming(s, StepEvent(i, step[WatchedBy[s]][i]))

\* TailIsComplete, the lines one by one.
TailHasAll ==
  \A s \in fromChannel \ gaps :
    LET j == WatchedBy[s] IN
    /\ \A i \in Steps, n \in 1 .. MaxLines :
         i \in logPath[j] /\ n <= file[j][i] => <<i, n>> \in seen[s]
    /\ lost = 0 => \A i \in Steps : step[j][i] \in Ran => view[s][i] = step[j][i]

EngineInv == IInv /\ AllAhead /\ rivals = 0

StreamInv ==
  /\ EngineInv /\ StreamTypeOK /\ QuietBeforeUp
  /\ FilesAhead /\ LogsNamed /\ LinesSafe /\ RowsSafe /\ EndIsLast
  /\ NoLineMissed /\ NoStatusMissed /\ TailHasAll

-----------------------------------------------------------------------------
(* The kinds of step *)

\* The engine moves and no stream hears of it.
Quiet ==
  \/ \E j \in Jobs : outbox[j] = Silent /\ (Unannounced(j) \/ Local(j))
  \/ \E j \in Jobs : CancelJob(j) \/ SubmitJob(j)
  \/ Reconcile

Said(j) == outbox[j] = Silent /\ Announced(j)
Fails(s) == SkipRow(s) \/ ReplayFails(s) \/ CheckFails(s)
Page(s) == Subscribe(s) \/ Serve(s) \/ Send(s) \/ Leave(s) \/ Fails(s)

(***************************************************************************)
(* Every step of the streams is of one of these kinds.                     *)
(***************************************************************************)
LEMMA StepKinds ==
  ASSUME [StreamNext]_allVars
  PROVE  \/ Quiet \/ UNCHANGED allVars \/ StreamCrash
         \/ \E j \in Jobs : Said(j) \/ Log(j) \/ Publish(j) \/ CloseSubscribers(j)
         \/ \E s \in Streams : Page(s)
BY DEF StreamNext, Goroutine, Statement, Quiet, Said, Page, Fails, Local

(***************************************************************************)
(* Handlers read the rows and the log files, and write neither.            *)
(***************************************************************************)
LEMMA PageReads ==
  ASSUME NEW s \in Streams, Page(s)
  PROVE  UNCHANGED <<vars, logVars>>
BY DEF Page, Subscribe, Serve, Send, Leave, OpenRows, ReplayRow, EndReplay, CheckStatus,
       Receive, EndOfChannel, Fails, SkipRow, ReplayFails, CheckFails, Fault

(***************************************************************************)
(* Every step is one of JobEngine, with no second process.                 *)
(***************************************************************************)
LEMMA EngineStep ==
  ASSUME [StreamNext]_allVars
  PROVE  [Next]_vars /\ rivals' = rivals
<1> USE DEF envVars, procVars
<1>1. CASE Quiet
  <2>1. CASE \E j \in Jobs : Unannounced(j)
    BY <2>1 DEF Unannounced, Next, Engine, ListSteps, SkipCancelled, SkipRest
  <2>2. CASE \E j \in Jobs : Local(j)
    BY <2>2 DEF Local, Next, Engine, Register, OpenLog, Judge, Exit
  <2>3. CASE \E j \in Jobs : CancelJob(j)
    BY <2>3 DEF CancelJob, Next, Cancel
  <2>4. CASE \E j \in Jobs : SubmitJob(j)
    BY <2>4 DEF SubmitJob, Next, Submit
  <2>5. CASE Reconcile
    BY <2>5 DEF Reconcile, Next, ReconcileJobs, ReconcileSteps
  <2>6. QED
    BY <1>1, <2>1, <2>2, <2>3, <2>4, <2>5 DEF Quiet
<1>2. ASSUME NEW j \in Jobs, Said(j)
      PROVE  [Next]_vars /\ rivals' = rivals
  BY <1>2 DEF Said, Announced, Next, Engine, StepReturns, Begin, Abort, BeginStep,
              StepSucceeds, StepFails, Finish
<1>3. ASSUME NEW j \in Jobs, Log(j) \/ Publish(j) \/ CloseSubscribers(j)
      PROVE  [Next]_vars /\ rivals' = rivals
  BY <1>3 DEF Log, Publish, CloseSubscribers, vars
<1>4. ASSUME NEW s \in Streams, Page(s)
      PROVE  [Next]_vars /\ rivals' = rivals
  BY <1>4, PageReads DEF vars
<1>5. CASE StreamCrash
  BY <1>5 DEF StreamCrash, Next, Crash
<1>6. CASE UNCHANGED allVars
  BY <1>6 DEF allVars, vars
<1>7. QED
  BY <1>1, <1>2, <1>3, <1>4, <1>5, <1>6, StepKinds

(***************************************************************************)
(* The engine's invariant holds of an engine that is watched.              *)
(***************************************************************************)
LEMMA EngineInvStep ==
  ASSUME EngineInv, [StreamNext]_allVars
  PROVE  EngineInv'
BY EngineStep, IInvStep, AheadStep DEF EngineInv

-----------------------------------------------------------------------------
(* Events and channels *)

(***************************************************************************)
(* The fields of an event.                                                 *)
(***************************************************************************)
LEMMA EventFields ==
  ASSUME NEW STATE e, e \in Event
  PROVE  /\ e.kind \in {"job", "step", "line"}
         /\ e.kind = "step" => /\ e.seq \in Steps /\ e.status \in StepStatus
                               /\ e = StepEvent(e.seq, e.status)
         /\ e.kind = "line" => /\ e.seq \in Steps /\ e.line \in 1 .. MaxLines
                               /\ e = LineEvent(e.seq, e.line)
         /\ e # Silent /\ e # Closing
<1>1. CASE e \in {JobEvent(x) : x \in JobStatus \ {"absent"}}
  BY <1>1 DEF JobEvent, Silent, Closing
<1>2. CASE e \in {StepEvent(i, x) : i \in Steps, x \in StepStatus}
  BY <1>2 DEF StepEvent, Silent, Closing
<1>3. CASE e \in {LineEvent(i, n) : i \in Steps, n \in 1 .. MaxLines}
  BY <1>3 DEF LineEvent, Silent, Closing
<1>4. QED
  BY <1>1, <1>2, <1>3 DEF Event

(***************************************************************************)
(* The engine's goroutines publish events of their own job, and what they  *)
(* publish of a step or an end has been written unless the UPDATE was lost.*)
(***************************************************************************)
LEMMA SaidIs ==
  ASSUME EngineInv, NEW j \in Jobs, Said(j)
  PROVE  /\ \E e \in Event :
              /\ Speaks(j, e) /\ e.kind \in {"job", "step"}
              /\ Ends(e) => pc'[j] = "closing"
              /\ lost' = 0 => RowsAgree(j, e)'
              /\ lost' = 0 => (e.kind = "step" => step'[j][e.seq] = e.status)
              /\ lost' = 0 => \A i \in Steps :
                   step'[j][i] = step[j][i] \/ e = StepEvent(i, step'[j][i])
         /\ status[j] # "absent" /\ status'[j] # "absent"
         /\ pc[j] \notin {"closing", "none"} /\ phase' = phase /\ phase = "up"
         /\ \A l \in Jobs : l # j => /\ status'[l] = status[l] /\ step'[l] = step[l]
                                    /\ pc'[l] = pc[l]
<1>a. /\ TypeOK /\ PlacesFit /\ idx[j] \in 1 .. NumSteps + 1
      /\ pc \in [Jobs -> Places] /\ outcome[j] \in Outcomes
  BY DEF EngineInv, IInv, TypeOK
<1>b. StepReturns(j) \/ Engine(j)
  BY DEF Said, Announced, StepReturns, Engine
<1>1. \A l \in Jobs : l # j => /\ status'[l] = status[l] /\ step'[l] = step[l]
                             /\ pc'[l] = pc[l]
  BY <1>a, <1>b, OthersSame
<1>2. /\ pc[j] \notin {"closing", "none"} /\ phase' = phase /\ phase = "up"
      /\ status[j] # "absent"
  BY <1>a DEF Said, Announced, Begin, Abort, BeginStep, StepSucceeds, StepFails, Finish,
              PlacesFit
<1>3. CASE Begin(j) \/ Abort(j) \/ Finish(j)
  <2>1. PICK x \in {"running"} \cup Outcomes :
          /\ WriteJob(j, x) /\ Speaks(j, JobEvent(x))
          /\ x # "running" => pc'[j] = "closing"
    <3>1. CASE Begin(j)
      BY <1>a, <3>1 DEF Said, Announced, Begin, Abort, BeginStep, StepSucceeds, StepFails,
                        Finish
    <3>2. CASE Abort(j)
      BY <1>a, <3>2 DEF Said, Announced, Begin, Abort, BeginStep, StepSucceeds, StepFails,
                        Finish, Outcomes, GoTo
    <3>3. CASE Finish(j)
      BY <1>a, <3>3 DEF Said, Announced, Begin, Abort, BeginStep, StepSucceeds, StepFails,
                        Finish, GoTo
    <3>4. QED
      BY <1>3, <3>1, <3>2, <3>3
  <2>2. step' = step
    BY <1>3 DEF Begin, Abort, Finish
  <2>3. JobEvent(x) \in Event /\ x \in JobStatus \ {"absent"} /\ JobEvent(x).kind = "job"
        /\ JobEvent(x).status = x
    BY DEF Event, JobEvent, Outcomes, JobStatus, Active, Terminal
  <2>4. status'[j] # "absent"
    BY <1>a, <1>2, <2>1, <2>3, WriteJobType
  <2>5. lost' = 0 => (x \in Terminal => status'[j] = x)
    BY <1>a, <2>1, JobWritten
  <2>6. x \in Terminal => x # "running"
    BY DEF Terminal
  <2>7. QED
    BY <1>1, <1>2, <2>1, <2>2, <2>3, <2>4, <2>5, <2>6 DEF Ends, RowsAgree
<1>4. CASE BeginStep(j) \/ StepSucceeds(j) \/ StepFails(j)
  <2>1. PICK x \in {"running", "succeeded", "failed"} :
          WriteStep(j, idx[j], x) /\ Speaks(j, StepEvent(idx[j], x)) /\ idx[j] \in Steps
    <3>1. idx[j] \in Steps
      BY <1>a, <1>4 DEF BeginStep, StepSucceeds, StepFails, PlacesFit
    <3>2. CASE BeginStep(j)
      <4>1. pc[j] = "loop" /\ idx[j] # NumSteps + 1 /\ WriteStep(j, idx[j], "running")
        BY <3>1, <3>2, NumStepsAssumption DEF BeginStep, Steps
      <4>2. Speaks(j, StepEvent(idx[j], "running"))
        BY <4>1 DEF Said, Announced, Begin, Abort, StepSucceeds, StepFails, Finish
      <4>3. QED
        BY <3>1, <4>1, <4>2
    <3>3. CASE StepSucceeds(j) \/ StepFails(j)
      <4>1. pc[j] = "fn"
        BY <3>3 DEF StepSucceeds, StepFails
      <4>2. \/ StepSucceeds(j) /\ Speaks(j, StepEvent(idx[j], "succeeded"))
            \/ StepFails(j) /\ Speaks(j, StepEvent(idx[j], "failed"))
        BY <4>1 DEF Said, Announced, Begin, Abort, BeginStep, Finish
      <4>3. QED
        BY <3>1, <4>2 DEF StepSucceeds, StepFails
    <3>4. QED
      BY <1>4, <3>2, <3>3
  <2>2. /\ StepEvent(idx[j], x) \in Event /\ x \in StepStatus
        /\ StepEvent(idx[j], x).kind = "step"
        /\ StepEvent(idx[j], x).seq = idx[j] /\ StepEvent(idx[j], x).status = x
    BY <2>1 DEF Event, StepEvent, StepStatus
  <2>3. lost' = 0 => /\ step'[j][idx[j]] = x
                     /\ \A k \in Steps : k # idx[j] => step'[j][k] = step[j][k]
    BY <1>a, <2>1, <2>2, StepWritten
  <2>4. status' = status
    BY <1>4 DEF BeginStep, StepSucceeds, StepFails
  <2>5. QED
    BY <1>1, <1>2, <2>1, <2>2, <2>3, <2>4 DEF Ends, RowsAgree
<1>5. QED
  BY <1>3, <1>4 DEF Said, Announced

(***************************************************************************)
(* A step nobody is told of makes no step row one that ran, and moves no   *)
(* goroutine that has something to publish.                                *)
(***************************************************************************)
LEMMA QuietIs ==
  ASSUME EngineInv, QuietBeforeUp, Quiet, NEW l \in Jobs
  PROVE  /\ UNCHANGED streamVars
         /\ \A i \in Steps : step'[l][i] \in Ran => step'[l][i] = step[l][i]
         /\ outbox[l] # Silent => step'[l] = step[l]
         /\ status[l] # "absent" =>
              /\ status'[l] # "absent"
              /\ outbox[l] # Silent => pc'[l] = pc[l]
              /\ pc[l] \in {"closing", "none"} => pc'[l] \in {"closing", "none"}
<1> USE DEF dbVars, procVars, GoTo
<1>a. /\ TypeOK /\ PlacesFit /\ pc \in [Jobs -> Places]
      /\ step \in [Jobs -> [Steps -> StepStatus]]
  BY DEF EngineInv, IInv, TypeOK
<1>0. UNCHANGED streamVars
  BY DEF Quiet, Unannounced, Local, CancelJob, SubmitJob, Reconcile
<1>1. ASSUME NEW j \in Jobs, outbox[j] = Silent, Unannounced(j) \/ Local(j)
      PROVE  /\ \A i \in Steps : step'[l][i] \in Ran => step'[l][i] = step[l][i]
             /\ status' = status
             /\ outbox[l] # Silent => pc'[l] = pc[l] /\ step'[l] = step[l]
             /\ pc[l] \in {"closing", "none"} => pc'[l] \in {"closing", "none"}
  <2>1. status' = status
    BY <1>1 DEF Unannounced, Local, ListSteps, SkipCancelled, SkipRest, Register, OpenLog,
                Judge, Exit
  <2>2. CASE l # j
    <3>1. StepReturns(j) \/ Engine(j)
      BY <1>1 DEF Unannounced, Local, Engine
    <3>2. QED
      BY <1>a, <2>1, <2>2, <3>1, OthersSame
  <2>3. CASE l = j /\ (SkipCancelled(j) \/ SkipRest(j))
    <3>1. WriteStep(j, idx[j], "skipped") /\ idx[j] \in Steps /\ pc' = pc
      BY <2>3 DEF SkipCancelled, SkipRest
    <3>2. /\ step'[j][idx[j]] \in {step[j][idx[j]], "skipped"}
          /\ \A k \in Steps : k # idx[j] => step'[j][k] = step[j][k]
      BY <1>a, <3>1, StepRow DEF StepStatus
    <3>3. QED
      BY <1>1, <2>1, <2>3, <3>1, <3>2 DEF Ran
  <2>4. CASE l = j /\ (ListSteps(j) \/ Register(j) \/ OpenLog(j) \/ Judge(j) \/ Exit(j))
    <3>1. step' = step /\ (pc[j] \in {"closing", "none"} => pc'[j] \in {"closing", "none"})
      BY <1>a, <2>4 DEF ListSteps, Register, OpenLog, Judge, Exit
    <3>2. QED
      BY <1>1, <2>1, <2>4, <3>1
  <2>5. QED
    BY <1>1, <2>2, <2>3, <2>4 DEF Unannounced, Local
<1>2. ASSUME NEW j \in Jobs, CancelJob(j)
      PROVE  UNCHANGED <<status, step, pc>>
  BY <1>2 DEF CancelJob, Cancel
<1>3. ASSUME NEW j \in Jobs, SubmitJob(j)
      PROVE  /\ step' = step
             /\ status[l] # "absent" => status'[l] = status[l] /\ pc'[l] = pc[l]
  BY <1>a, <1>3 DEF SubmitJob, Submit, TypeOK
<1>4. CASE Reconcile
  <2>1. outbox[l] = Silent /\ pc' = pc
    BY <1>4 DEF Reconcile, ReconcileJobs, ReconcileSteps, QuietBeforeUp
  <2>2. status[l] # "absent" => status'[l] # "absent"
    BY <1>4 DEF Reconcile, ReconcileJobs, ReconcileSteps, InterruptJobs
  <2>3. \A i \in Steps : step'[l][i] \in Ran => step'[l][i] = step[l][i]
    BY <1>4 DEF Reconcile, ReconcileJobs, ReconcileSteps, InterruptSteps, Ran
  <2>4. QED
    BY <1>0, <2>1, <2>2, <2>3
<1>5. QED
  BY <1>0, <1>1, <1>2, <1>3, <1>4 DEF Quiet

(***************************************************************************)
(* After the end of its job has been published, a log is complete and no   *)
(* step of the job runs any more.                                          *)
(***************************************************************************)
LEMMA GoneKept ==
  ASSUME EngineInv, QuietBeforeUp, StreamTypeOK, [StreamNext]_allVars,
         NEW l \in Jobs, Gone(l)
  PROVE  /\ Gone(l)' /\ file'[l] = file[l]
         /\ \A i \in Steps : step'[l][i] \in Ran => step'[l][i] = step[l][i]
<1> USE DEF Gone
<1>a. outbox \in [Jobs -> Event \cup {Silent, Closing}]
  BY DEF StreamTypeOK
<1>b. file \in [Jobs -> [Steps -> 0 .. MaxLines]]
  BY DEF StreamTypeOK
<1>1. CASE Quiet
  <2>1. outbox' = outbox /\ file' = file
    BY <1>1, QuietIs DEF streamVars, logVars
  <2>2. QED
    BY <1>1, <2>1, QuietIs
<1>2. ASSUME NEW j \in Jobs, Said(j)
      PROVE  /\ Gone(l)' /\ file'[l] = file[l]
             /\ \A i \in Steps : step'[l][i] \in Ran => step'[l][i] = step[l][i]
  <2>1. /\ \E e \in Event : Speaks(j, e)
        /\ pc[j] \notin {"closing", "none"}
        /\ l # j => status'[l] = status[l] /\ step'[l] = step[l] /\ pc'[l] = pc[l]
    BY <1>2, SaidIs
  <2>2. QED
    BY <1>a, <2>1 DEF Speaks
<1>3. ASSUME NEW j \in Jobs, Log(j)
      PROVE  /\ Gone(l)' /\ file'[l] = file[l]
             /\ \A i \in Steps : step'[l][i] \in Ran => step'[l][i] = step[l][i]
  BY <1>a, <1>b, <1>3 DEF Log, vars, dbVars, procVars
<1>4. ASSUME NEW j \in Jobs, Publish(j) \/ CloseSubscribers(j)
      PROVE  /\ Gone(l)' /\ file'[l] = file[l]
             /\ \A i \in Steps : step'[l][i] \in Ran => step'[l][i] = step[l][i]
  BY <1>a, <1>4 DEF Publish, CloseSubscribers, vars, dbVars, procVars
<1>5. ASSUME NEW s \in Streams, Page(s)
      PROVE  UNCHANGED <<vars, logVars>>
  BY <1>5, PageReads
<1>6. CASE StreamCrash
  BY <1>6 DEF StreamCrash, Crash, dbVars, Silent, Closing
<1>7. CASE UNCHANGED allVars
  BY <1>7 DEF allVars, vars, dbVars, procVars, streamVars, logVars
<1>8. QED
  BY <1>1, <1>2, <1>3, <1>4, <1>5, <1>6, <1>7, StepKinds
     DEF vars, dbVars, procVars, logVars

(***************************************************************************)
(* What publish does to the channels: each is left alone, or gets the      *)
(* event at its end.                                                       *)
(***************************************************************************)
LEMMA PublishIs ==
  ASSUME StreamTypeOK, NEW j \in Jobs, Publish(j)
  PROVE  /\ outbox[j] \in Event /\ channel' \in [Streams -> Seq(Event)]
         /\ outbox' = [outbox EXCEPT ![j] = IF Ends(outbox[j]) THEN Closing ELSE Silent]
         /\ \A s \in Streams :
              \/ channel'[s] = channel[s]
                 /\ (s \in open /\ WatchedBy[s] = j => s \in gaps')
              \/ /\ WatchedBy[s] = j /\ Len(channel[s]) < Capacity
                 /\ Len(channel'[s]) = Len(channel[s]) + 1
                 /\ channel'[s][Len(channel[s]) + 1] = outbox[j]
                 /\ \A n \in 1 .. Len(channel[s]) : channel'[s][n] = channel[s][n]
<1>a. /\ outbox \in [Jobs -> Event \cup {Silent, Closing}]
      /\ channel \in [Streams -> Seq(Event)]
      /\ \A s \in Streams : Len(channel[s]) \in Nat /\ Len(channel[s]) <= Capacity
      /\ Capacity \in Nat
  BY StreamAssumption DEF StreamTypeOK
<1>1. outbox[j] \in Event
  BY <1>a DEF Publish
<1> DEFINE fed == Subscribers(j) \ {s \in Subscribers(j) : Len(channel[s]) = Capacity}
<1>2. /\ channel' = [s \in Streams |-> IF s \in fed THEN Append(channel[s], outbox[j])
                                                 ELSE channel[s]]
      /\ gaps' = gaps \cup {s \in Subscribers(j) : Len(channel[s]) = Capacity}
  BY DEF Publish
<1>3. ASSUME NEW s \in Streams, s \in fed
      PROVE  /\ WatchedBy[s] = j /\ Len(channel[s]) < Capacity
             /\ channel'[s] \in Seq(Event)
             /\ Len(channel'[s]) = Len(channel[s]) + 1
             /\ channel'[s][Len(channel[s]) + 1] = outbox[j]
             /\ \A n \in 1 .. Len(channel[s]) : channel'[s][n] = channel[s][n]
  <2>1. channel'[s] = Append(channel[s], outbox[j])
    BY <1>2, <1>3
  <2>2. /\ channel'[s] \in Seq(Event)
        /\ Len(channel'[s]) = Len(channel[s]) + 1
        /\ channel'[s][Len(channel[s]) + 1] = outbox[j]
        /\ \A n \in 1 .. Len(channel[s]) : channel'[s][n] = channel[s][n]
    BY <1>a, <1>1, <2>1, AppendProperties
  <2>3. QED
    BY <1>a, <1>3, <2>2 DEF Subscribers
<1>4. ASSUME NEW s \in Streams, s \notin fed
      PROVE  /\ channel'[s] = channel[s] /\ channel'[s] \in Seq(Event)
             /\ s \in open /\ WatchedBy[s] = j => s \in gaps'
  BY <1>a, <1>2, <1>4 DEF Subscribers
<1>5. channel' \in [Streams -> Seq(Event)]
  BY <1>2, <1>3, <1>4
<1> HIDE DEF fed
<1>6. QED
  BY <1>1, <1>3, <1>4, <1>5 DEF Publish, Ends

(***************************************************************************)
(* Receiving shows the first event and moves the others up.                *)
(***************************************************************************)
LEMMA ReceiveIs ==
  ASSUME StreamTypeOK, NEW s \in Streams, Receive(s)
  PROVE  /\ Len(channel[s]) \in Nat \ {0} /\ channel[s][1] \in Event
         /\ Show(s, channel[s][1])
         /\ channel' \in [Streams -> Seq(Event)]
         /\ \A l \in Streams : l # s => channel'[l] = channel[l]
         /\ Len(channel'[s]) = Len(channel[s]) - 1
         /\ \A n \in 1 .. Len(channel'[s]) : channel'[s][n] = channel[s][n + 1]
<1>1. channel \in [Streams -> Seq(Event)] /\ channel[s] # <<>>
  BY DEF StreamTypeOK, Receive
<1>2. /\ Len(channel[s]) \in Nat \ {0} /\ Head(channel[s]) = channel[s][1]
      /\ channel[s][1] \in Event /\ Tail(channel[s]) \in Seq(Event)
      /\ Len(Tail(channel[s])) = Len(channel[s]) - 1
      /\ \A n \in 1 .. Len(Tail(channel[s])) : Tail(channel[s])[n] = channel[s][n + 1]
  BY <1>1, HeadTailProperties, EmptySeq, LenProperties, ElementOfSeq
<1>3. channel' = [channel EXCEPT ![s] = Tail(channel[s])]
  BY DEF Receive
<1>4. QED
  BY <1>1, <1>2, <1>3 DEF Receive

-----------------------------------------------------------------------------
(* Each part of the invariant is kept *)

(***************************************************************************)
(* Only the start of a step names a log file, and no row forgets its own.  *)
(***************************************************************************)
LEMMA PathsGrow ==
  ASSUME EngineInv, StreamTypeOK, [StreamNext]_allVars
  PROVE  /\ logPath' \in [Jobs -> SUBSET Steps]
         /\ \A l \in Jobs, i \in Steps :
              /\ i \in logPath[l] => i \in logPath'[l]
              /\ i \in logPath'[l] => i \in logPath[l] \/ (BeginStep(l) /\ i = idx[l])
<1>a. logPath \in [Jobs -> SUBSET Steps]
  BY DEF StreamTypeOK
<1>1. CASE logPath' = logPath
  BY <1>1, <1>a
<1>2. ASSUME NEW j \in Jobs, Said(j)
      PROVE  logPath' = logPath \/ (BeginStep(j) /\ NameLog(j))
  BY <1>2 DEF Said, Announced
<1>3. ASSUME NEW j \in Jobs, BeginStep(j), NameLog(j)
      PROVE  \/ logPath' = logPath
             \/ logPath' = [logPath EXCEPT ![j] = logPath[j] \cup {idx[j]}] /\ idx[j] \in Steps
  BY <1>3 DEF NameLog, BeginStep
<1>4. ASSUME NEW j \in Jobs, idx[j] \in Steps, BeginStep(j),
             logPath' = [logPath EXCEPT ![j] = logPath[j] \cup {idx[j]}]
      PROVE  /\ logPath' \in [Jobs -> SUBSET Steps]
             /\ \A l \in Jobs, i \in Steps :
                  /\ i \in logPath[l] => i \in logPath'[l]
                  /\ i \in logPath'[l] => i \in logPath[l] \/ (BeginStep(l) /\ i = idx[l])
  BY <1>4, <1>a
<1>5. CASE \/ Quiet \/ UNCHANGED allVars \/ StreamCrash
           \/ \E j \in Jobs : Log(j) \/ Publish(j) \/ CloseSubscribers(j)
           \/ \E s \in Streams : Page(s)
  <2>1. logPath' = logPath
    BY <1>5, PageReads DEF Quiet, Unannounced, Local, CancelJob, SubmitJob, Reconcile, allVars,
                           streamVars, logVars, StreamCrash, Log, Publish, CloseSubscribers
  <2>2. QED
    BY <2>1, <1>1
<1>6. QED
  BY <1>1, <1>2, <1>3, <1>4, <1>5, StepKinds

(***************************************************************************)
(* The types.                                                              *)
(***************************************************************************)
LEMMA StreamTypeStep ==
  ASSUME EngineInv, QuietBeforeUp, StreamTypeOK, [StreamNext]_allVars
  PROVE  StreamTypeOK'
<1> USE StreamAssumption, NumStepsAssumption
    DEF streamVars, logVars, chanVars, pageVars, handleVars, faultVars, vars
<1>0. TypeOK' /\ TypeOK /\ logPath' \in [Jobs -> SUBSET Steps]
  BY EngineInvStep, PathsGrow DEF EngineInv, IInv
<1>1. CASE Quiet
  <2>1. UNCHANGED streamVars
    BY <1>1 DEF Quiet, Unannounced, Local, CancelJob, SubmitJob, Reconcile
  <2>2. QED
    BY <1>0, <2>1 DEF StreamTypeOK
<1>2. ASSUME NEW j \in Jobs, Said(j)
      PROVE  StreamTypeOK'
  <2>1. \E e \in Event : Speaks(j, e)
    BY <1>2, SaidIs
  <2>2. QED
    BY <1>0, <2>1 DEF StreamTypeOK, Speaks
<1>3. ASSUME NEW j \in Jobs, Log(j)
      PROVE  StreamTypeOK'
  <2>1. idx[j] \in Steps
    BY <1>3 DEF EngineInv, IInv, PlacesFit, Log
  <2>2. file[j][idx[j]] + 1 \in 1 .. MaxLines
    BY <1>3, <2>1 DEF StreamTypeOK, Log
  <2>3. LineEvent(idx[j], file[j][idx[j]] + 1) \in Event
    BY <2>1, <2>2 DEF Event
  <2>4. file' \in [Jobs -> [Steps -> 0 .. MaxLines]]
    BY <1>3, <2>1, <2>2 DEF StreamTypeOK, Log
  <2>5. QED
    BY <1>0, <1>3, <2>3, <2>4 DEF StreamTypeOK, Log
<1>4. ASSUME NEW j \in Jobs, Publish(j)
      PROVE  StreamTypeOK'
  <2>1. /\ channel' \in [Streams -> Seq(Event)]
        /\ outbox' \in [Jobs -> Event \cup {Silent, Closing}]
    <3>1. outbox' \in [Jobs -> Event \cup {Silent, Closing}]
      <4>1. \/ outbox' = [outbox EXCEPT ![j] = Closing]
            \/ outbox' = [outbox EXCEPT ![j] = Silent]
        BY <1>4, PublishIs
      <4>2. QED
        BY <4>1 DEF StreamTypeOK
    <3>2. QED
      BY <1>4, <3>1, PublishIs
  <2>2. \A s \in Streams : Len(channel'[s]) <= Capacity
    <3> SUFFICES ASSUME NEW s \in Streams
                 PROVE  Len(channel'[s]) <= Capacity
      OBVIOUS
    <3>1. channel[s] \in Seq(Event) /\ Len(channel[s]) <= Capacity
      BY DEF StreamTypeOK
    <3>2. Len(channel[s]) \in Nat
      BY <3>1, LenProperties
    <3>3. QED
      BY <1>4, <3>1, <3>2, PublishIs
  <2>3. gaps' \in SUBSET Streams
    BY <1>4 DEF StreamTypeOK, Publish, Subscribers
  <2>4. UNCHANGED <<vars, file, logPath, open, pageVars, handleVars>>
    BY <1>4 DEF Publish
  <2>5. QED
    BY <1>0, <2>1, <2>2, <2>3, <2>4 DEF StreamTypeOK
<1>5. ASSUME NEW j \in Jobs, CloseSubscribers(j)
      PROVE  StreamTypeOK'
  BY <1>0, <1>5 DEF StreamTypeOK, CloseSubscribers
<1>6. ASSUME NEW s \in Streams, Page(s)
      PROVE  StreamTypeOK'
  <2>a. <<>> \in Seq(Event) /\ Len(<<>>) = 0 /\ WatchedBy[s] \in Jobs
    BY EmptySeq
  <2>1. CASE Subscribe(s)
    BY <1>0, <2>1, <2>a DEF StreamTypeOK, Subscribe
  <2>2. CASE OpenRows(s)
    BY <1>0, <2>2 DEF StreamTypeOK, OpenRows
  <2>3. CASE ReplayRow(s)
    <3>1. /\ row[s] \in Steps /\ row[s] + 1 \in 1 .. NumSteps + 1
          /\ step[WatchedBy[s]][row[s]] \in StepStatus
          /\ file[WatchedBy[s]][row[s]] \in 0 .. MaxLines
      <4>1. row[s] \in Steps
        BY <2>3 DEF ReplayRow
      <4>2. row[s] + 1 \in 1 .. NumSteps + 1
        BY <4>1 DEF Steps
      <4>3. step[WatchedBy[s]][row[s]] \in StepStatus
        BY <1>0, <2>a, <4>1 DEF TypeOK
      <4>4. file[WatchedBy[s]][row[s]] \in 0 .. MaxLines
        BY <2>a, <4>1 DEF StreamTypeOK
      <4>5. QED
        BY <4>1, <4>2, <4>3, <4>4
    <3>2. view' \in [Streams -> [Steps -> StepStatus]]
      BY <2>3, <3>1 DEF StreamTypeOK, ReplayRow, SendStatus
    <3>3. seen' \in [Streams -> SUBSET Lines]
      BY <2>3 DEF StreamTypeOK, ReplayRow, LogOf
    <3>4. row' \in [Streams -> 1 .. NumSteps + 1]
      BY <2>3, <3>1 DEF StreamTypeOK, ReplayRow
    <3>5. QED
      BY <1>0, <2>3, <3>2, <3>3, <3>4 DEF StreamTypeOK, ReplayRow
  <2>4. CASE EndReplay(s)
    BY <1>0, <2>4 DEF StreamTypeOK, EndReplay
  <2>5. CASE CheckStatus(s)
    <3>1. \/ UNCHANGED <<final, open, channel>> /\ handler' = [handler EXCEPT ![s] = "tail"]
          \/ Return(s) /\ final' \in [Streams -> Terminal \cup {"none"}]
      <4>1. CASE status[WatchedBy[s]] \in Terminal /\ Return(s)
                 /\ final' = [final EXCEPT ![s] = status[WatchedBy[s]]]
        BY <4>1 DEF StreamTypeOK
      <4>2. QED
        BY <2>5, <4>1 DEF CheckStatus
    <3>2. UNCHANGED <<vars, logVars, gaps, seen, view, fromChannel, conn, row, leaves, faultVars>>
      BY <2>5 DEF CheckStatus
    <3>3. CASE Return(s)
      BY <1>0, <2>a, <3>1, <3>2, <3>3 DEF StreamTypeOK, Return
    <3>4. CASE UNCHANGED <<final, open, channel>> /\ handler' = [handler EXCEPT ![s] = "tail"]
      BY <1>0, <3>2, <3>4 DEF StreamTypeOK
    <3>5. QED
      BY <3>1, <3>3, <3>4
  <2>6. CASE Receive(s)
    <3>1. /\ channel[s][1] \in Event /\ Show(s, channel[s][1])
          /\ channel' \in [Streams -> Seq(Event)]
          /\ \A l \in Streams : Len(channel'[l]) <= Capacity
      <4>1. \A l \in Streams : Len(channel[l]) \in Nat /\ Len(channel[l]) <= Capacity
        BY LenProperties DEF StreamTypeOK
      <4>2. QED
        BY <2>6, <4>1, ReceiveIs
    <3>2. /\ seen' \in [Streams -> SUBSET Lines]
          /\ view' \in [Streams -> [Steps -> StepStatus]]
      BY <3>1, EventFields DEF StreamTypeOK, Show, Lines
    <3>3. final' \in [Streams -> Terminal \cup {"none"}] /\ fromChannel' \in SUBSET Streams
      BY <3>1 DEF StreamTypeOK, Show
    <3>4. UNCHANGED <<vars, logVars, open, gaps, handleVars>>
      BY <2>6 DEF Receive
    <3>5. QED
      BY <1>0, <3>1, <3>2, <3>3, <3>4 DEF StreamTypeOK
  <2>7. CASE EndOfChannel(s)
    BY <1>0, <2>7, <2>a DEF StreamTypeOK, EndOfChannel, Return
  <2>8. CASE Leave(s)
    BY <1>0, <2>8, <2>a DEF StreamTypeOK, Leave, Return
  <2>9. CASE SkipRow(s)
    <3>1. row[s] \in Steps /\ row[s] + 1 \in 1 .. NumSteps + 1
      BY <2>9 DEF SkipRow, Steps
    <3>2. step[WatchedBy[s]][row[s]] \in StepStatus
      BY <1>0, <2>a, <3>1 DEF TypeOK
    <3>3. view' \in [Streams -> [Steps -> StepStatus]]
      <4>1. view \in [Streams -> [Steps -> StepStatus]]
        BY DEF StreamTypeOK
      <4>2. view' = view \/ view' = [view EXCEPT ![s][row[s]] = step[WatchedBy[s]][row[s]]]
        BY <2>9 DEF SkipRow, SendStatus
      <4>3. QED
        BY <4>1, <4>2, <3>1, <3>2
    <3>4. row' \in [Streams -> 1 .. NumSteps + 1]
      BY <2>9, <3>1 DEF StreamTypeOK, SkipRow
    <3>5. gaps' \in SUBSET Streams /\ faults' \in Nat
      BY <2>9 DEF StreamTypeOK, SkipRow, Fault
    <3>6. UNCHANGED <<vars, logVars, channel, open, seen, final, fromChannel, leaves,
                      conn, handler, blind>>
      BY <2>9 DEF SkipRow, Fault
    <3>7. QED
      BY <1>0, <3>3, <3>4, <3>5, <3>6 DEF StreamTypeOK
  <2>10. CASE ReplayFails(s)
    <3>1. /\ conn' \in Streams \cup {Free} /\ row' \in [Streams -> 1 .. NumSteps + 1]
          /\ gaps' \in SUBSET Streams /\ faults' \in Nat
      BY <2>10 DEF StreamTypeOK, ReplayFails, Fault
    <3>2. handler' \in [Streams -> {"off", "subscribed", "replay", "check", "tail"}]
      BY <2>10 DEF StreamTypeOK, ReplayFails
    <3>3. UNCHANGED <<vars, logVars, channel, open, seen, final, fromChannel, leaves,
                      view, blind>>
      BY <2>10 DEF ReplayFails, Fault
    <3>4. QED
      BY <1>0, <3>1, <3>2, <3>3 DEF StreamTypeOK
  <2>11. CASE CheckFails(s)
    <3>1. blind' \in SUBSET Streams /\ faults' \in Nat
      BY <2>11 DEF StreamTypeOK, CheckFails, Fault
    <3>2. handler' \in [Streams -> {"off", "subscribed", "replay", "check", "tail"}]
      BY <2>11 DEF StreamTypeOK, CheckFails
    <3>3. UNCHANGED <<vars, logVars, channel, open, seen, final, fromChannel, leaves,
                      view, conn, row, gaps>>
      BY <2>11 DEF CheckFails, Fault
    <3>4. QED
      BY <1>0, <3>1, <3>2, <3>3 DEF StreamTypeOK
  <2>12. QED
    BY <1>6, <2>1, <2>2, <2>3, <2>4, <2>5, <2>6, <2>7, <2>8, <2>9, <2>10, <2>11
    DEF Page, Serve, Send, Fails
<1>7. CASE StreamCrash
  <2>1. <<>> \in Seq(Event) /\ Len(<<>>) = 0
    BY EmptySeq
  <2>2. QED
    BY <1>0, <1>7, <2>1 DEF StreamTypeOK, StreamCrash
<1>8. CASE UNCHANGED allVars
  BY <1>8, <1>0 DEF StreamTypeOK, allVars
<1>9. QED
  BY <1>1, <1>2, <1>3, <1>4, <1>5, <1>6, <1>7, <1>8, StepKinds

(***************************************************************************)
(* Handlers and publishers exist only while the process serves.            *)
(***************************************************************************)
LEMMA QuietBeforeUpStep ==
  ASSUME EngineInv, QuietBeforeUp, StreamTypeOK, [StreamNext]_allVars
  PROVE  QuietBeforeUp'
<1> USE DEF streamVars, logVars, chanVars, pageVars, handleVars, faultVars, vars, procVars
<1>a. PlacesFit
  BY DEF EngineInv, IInv
<1>1. CASE Quiet
  <2>1. phase' # "up" => phase # "up"
    BY <1>1 DEF Quiet, Unannounced, Local, CancelJob, SubmitJob, Reconcile, ListSteps,
                SkipCancelled, SkipRest, Register, OpenLog, Judge, Exit, Cancel, Submit,
                ReconcileJobs, ReconcileSteps
  <2>2. UNCHANGED streamVars
    BY <1>1 DEF Quiet, Unannounced, Local, CancelJob, SubmitJob, Reconcile
  <2>3. QED
    BY <2>1, <2>2 DEF QuietBeforeUp
<1>2. ASSUME NEW j \in Jobs, Said(j)
      PROVE  phase' = "up"
  BY <1>2, SaidIs
<1>3. ASSUME NEW j \in Jobs, Log(j) \/ Publish(j) \/ CloseSubscribers(j)
      PROVE  phase' = phase /\ phase = "up"
  BY <1>a, <1>3 DEF Log, Publish, CloseSubscribers, QuietBeforeUp, PlacesFit, Silent, Closing
<1>4. ASSUME NEW s \in Streams, Page(s)
      PROVE  phase' = phase /\ phase = "up"
  BY <1>4 DEF Page, Subscribe, Serve, Send, Leave, OpenRows, ReplayRow, EndReplay,
              CheckStatus, Receive, EndOfChannel, Fails, SkipRow, ReplayFails,
              CheckFails, Fault, QuietBeforeUp
<1>5. CASE StreamCrash
  BY <1>5 DEF StreamCrash, QuietBeforeUp
<1>6. CASE UNCHANGED allVars
  BY <1>6 DEF allVars, QuietBeforeUp
<1>7. QED
  BY <1>1, <1>2, <1>3, <1>4, <1>5, <1>6, StepKinds DEF QuietBeforeUp

(***************************************************************************)
(* What is in a channel was there, or was published just now.              *)
(***************************************************************************)
LEMMA ChannelOrigin ==
  ASSUME StreamTypeOK, [StreamNext]_allVars, NEW s \in Streams,
         NEW n \in 1 .. Len(channel'[s])
  PROVE  \/ \E m \in 1 .. Len(channel[s]) : channel'[s][n] = channel[s][m]
         \/ outbox[WatchedBy[s]] \in Event /\ channel'[s][n] = outbox[WatchedBy[s]]
<1>a. /\ Len(channel[s]) \in Nat /\ Len(<<>>) = 0
      /\ channel \in [Streams -> Seq(Event)]
  BY LenProperties, EmptySeq DEF StreamTypeOK
<1>1. ASSUME NEW j \in Jobs, Publish(j)
      PROVE  \/ \E m \in 1 .. Len(channel[s]) : channel'[s][n] = channel[s][m]
             \/ outbox[WatchedBy[s]] \in Event /\ channel'[s][n] = outbox[WatchedBy[s]]
  <2>1. \/ channel'[s] = channel[s]
        \/ /\ WatchedBy[s] = j /\ Len(channel'[s]) = Len(channel[s]) + 1
           /\ channel'[s][Len(channel[s]) + 1] = outbox[j]
           /\ \A m \in 1 .. Len(channel[s]) : channel'[s][m] = channel[s][m]
    BY <1>1, PublishIs
  <2>2. outbox[j] \in Event
    BY <1>1, PublishIs
  <2>3. n \in 1 .. Len(channel[s]) \/ n = Len(channel'[s])
    BY <1>a, <2>1
  <2>4. QED
    BY <1>a, <2>1, <2>2, <2>3
<1>2. ASSUME NEW l \in Streams, Receive(l)
      PROVE  \E m \in 1 .. Len(channel[s]) : channel'[s][n] = channel[s][m]
  <2>1. CASE l = s
    <3>1. n + 1 \in 1 .. Len(channel[s]) /\ channel'[s][n] = channel[s][n + 1]
      BY <1>2, <1>a, <2>1, ReceiveIs
    <3>2. QED
      BY <3>1
  <2>2. CASE l # s
    BY <1>2, <1>a, <2>2, ReceiveIs
  <2>3. QED
    BY <2>1, <2>2
<1>3. CASE \/ StreamCrash
           \/ \E l \in Streams : Subscribe(l) \/ CheckStatus(l) \/ EndOfChannel(l) \/ Leave(l)
  <2>1. channel'[s] \in {channel[s], <<>>}
    BY <1>3, <1>a DEF StreamCrash, Subscribe, CheckStatus, EndOfChannel, Leave, Return
  <2>2. QED
    BY <1>a, <2>1
<1>4. CASE \/ Quiet \/ UNCHANGED allVars
           \/ \E j \in Jobs : Said(j) \/ Log(j) \/ CloseSubscribers(j)
           \/ \E l \in Streams : OpenRows(l) \/ ReplayRow(l) \/ EndReplay(l) \/ Fails(l)
  <2>1. channel' = channel
    BY <1>4 DEF Quiet, Unannounced, Local, CancelJob, SubmitJob, Reconcile, allVars,
                streamVars, chanVars, Said, Announced, Speaks, Log, CloseSubscribers,
                OpenRows, ReplayRow, EndReplay, Fails, SkipRow, ReplayFails, CheckFails, Fault
  <2>2. QED
    BY <2>1
<1>5. QED
  BY <1>1, <1>2, <1>3, <1>4, StepKinds DEF Page, Serve, Send

(***************************************************************************)
(* What a goroutine publishes next comes from a statement or a log line,   *)
(* and after the end of a job the channels are closed.                     *)
(***************************************************************************)
LEMMA OutboxOrigin ==
  ASSUME StreamTypeOK, [StreamNext]_allVars, NEW l \in Jobs
  PROVE  \/ outbox'[l] = outbox[l] \/ Said(l) \/ Log(l)
         \/ outbox'[l] = Silent /\ (Publish(l) \/ CloseSubscribers(l) \/ StreamCrash)
         \/ outbox'[l] = Closing /\ Publish(l) /\ Ends(outbox[l])
<1>a. outbox \in [Jobs -> Event \cup {Silent, Closing}]
  BY DEF StreamTypeOK
<1>1. ASSUME NEW j \in Jobs, Said(j)
      PROVE  outbox'[l] = outbox[l] \/ l = j
  BY <1>1, <1>a DEF Said, Announced, Speaks
<1>2. ASSUME NEW j \in Jobs, Log(j) \/ Publish(j) \/ CloseSubscribers(j)
      PROVE  \/ outbox'[l] = outbox[l] \/ Log(l)
             \/ outbox'[l] = Silent /\ (Publish(l) \/ CloseSubscribers(l))
             \/ outbox'[l] = Closing /\ Publish(l) /\ Ends(outbox[l])
  <2>1. CASE j = l /\ Publish(j)
    BY <1>a, <2>1, PublishIs
  <2>2. CASE j # l \/ ~Publish(j)
    BY <1>2, <1>a, <2>2 DEF Log, Publish, CloseSubscribers
  <2>3. QED
    BY <2>1, <2>2
<1>3. CASE StreamCrash
  BY <1>3 DEF StreamCrash
<1>4. CASE Quiet \/ UNCHANGED allVars \/ \E s \in Streams : Page(s)
  <2>1. outbox' = outbox
    BY <1>4, PageReads DEF Quiet, Unannounced, Local, CancelJob, SubmitJob, Reconcile,
                           allVars, streamVars, logVars
  <2>2. QED
    BY <2>1
<1>5. QED
  BY <1>1, <1>2, <1>3, <1>4, StepKinds

(***************************************************************************)
(* What a page shows it has shown, or was read from a row or file, or came *)
(* through its channel.                                                    *)
(***************************************************************************)
LEMMA PageOrigin ==
  ASSUME EngineInv, StreamTypeOK, [StreamNext]_allVars, NEW s \in Streams
  PROVE  LET j == WatchedBy[s] IN
         /\ \A i \in Steps, n \in 1 .. MaxLines :
              <<i, n>> \in seen'[s] =>
                \/ <<i, n>> \in seen[s] \/ n <= file[j][i]
                \/ \E m \in 1 .. Len(channel[s]) : channel[s][m] = LineEvent(i, n)
         /\ \A i \in Steps :
              \/ view'[s][i] \in {view[s][i], step[j][i]}
              \/ \E m \in 1 .. Len(channel[s]) : channel[s][m] = StepEvent(i, view'[s][i])
         /\ \/ final'[s] = final[s]
            \/ final'[s] = status[j] /\ status[j] \in Terminal
            \/ \E m \in 1 .. Len(channel[s]) :
                 Ends(channel[s][m]) /\ channel[s][m].status = final'[s]
<1> DEFINE j == WatchedBy[s]
<1>a. /\ seen \in [Streams -> SUBSET Lines] /\ final \in [Streams -> Terminal \cup {"none"}]
      /\ view \in [Streams -> [Steps -> StepStatus]]
  BY DEF StreamTypeOK
<1>1. CASE Receive(s)
  <2>1. /\ channel[s][1] \in Event /\ 1 \in 1 .. Len(channel[s])
        /\ Show(s, channel[s][1])
    BY <1>1, ReceiveIs
  <2>2. ASSUME NEW i \in Steps, NEW n \in 1 .. MaxLines, <<i, n>> \in seen'[s]
        PROVE  <<i, n>> \in seen[s] \/ channel[s][1] = LineEvent(i, n)
    BY <1>a, <2>1, <2>2, EventFields DEF Show
  <2>3. ASSUME NEW i \in Steps
        PROVE  view'[s][i] = view[s][i] \/ channel[s][1] = StepEvent(i, view'[s][i])
    BY <1>a, <2>1, EventFields DEF Show
  <2>4. \/ final'[s] = final[s]
        \/ Ends(channel[s][1]) /\ channel[s][1].status = final'[s]
    BY <1>a, <2>1 DEF Show, Ends
  <2>5. QED
    BY <2>1, <2>2, <2>3, <2>4
<1>2. CASE ReplayRow(s)
  <2>1. /\ \A i \in Steps, n \in 1 .. MaxLines :
             <<i, n>> \in seen'[s] => <<i, n>> \in seen[s] \/ n <= file[j][i]
        /\ final' = final
    BY <1>2, <1>a DEF ReplayRow, LogOf
  <2>2. ASSUME NEW i \in Steps
        PROVE  view'[s][i] \in {view[s][i], step[j][i]}
    BY <1>2, <1>a DEF ReplayRow, SendStatus
  <2>3. QED
    BY <2>1, <2>2
<1>3. CASE CheckStatus(s)
  <2>1. /\ UNCHANGED <<seen, view>>
        /\ final'[s] = final[s] \/ (final'[s] = status[j] /\ status[j] \in Terminal)
    BY <1>3, <1>a DEF CheckStatus
  <2>2. QED
    BY <2>1
<1>4. CASE SkipRow(s)
  <2>1. seen' = seen /\ final' = final
    BY <1>4 DEF SkipRow, Fault
  <2>2. ASSUME NEW i \in Steps
        PROVE  view'[s][i] \in {view[s][i], step[j][i]}
    BY <1>4, <1>a DEF SkipRow, SendStatus
  <2>3. QED
    BY <2>1, <2>2
<1>5. CASE ~Receive(s) /\ ~ReplayRow(s) /\ ~CheckStatus(s) /\ ~SkipRow(s)
  <2>1. CASE \E l \in Streams : Receive(l) \/ ReplayRow(l) \/ CheckStatus(l) \/ SkipRow(l)
    <3>1. PICK l \in Streams \ {s} :
                 Receive(l) \/ ReplayRow(l) \/ CheckStatus(l) \/ SkipRow(l)
      BY <1>5, <2>1
    <3>2. seen'[s] = seen[s] /\ view'[s] = view[s] /\ final'[s] = final[s]
      BY <1>a, <3>1 DEF Receive, Show, ReplayRow, SendStatus, CheckStatus, SkipRow, Fault
    <3>3. QED
      BY <3>2
  <2>2. CASE ~\E l \in Streams : Receive(l) \/ ReplayRow(l) \/ CheckStatus(l) \/ SkipRow(l)
    <3>1. UNCHANGED pageVars
      <4>1. CASE Quiet \/ UNCHANGED allVars \/ StreamCrash
        BY <4>1 DEF Quiet, Unannounced, Local, CancelJob, SubmitJob, Reconcile, allVars,
                    streamVars, StreamCrash
      <4>2. CASE \E l \in Jobs : Said(l) \/ Log(l) \/ Publish(l) \/ CloseSubscribers(l)
        BY <4>2 DEF Said, Announced, Speaks, Log, Publish, CloseSubscribers
      <4>3. CASE \E l \in Streams : Page(l)
        BY <2>2, <4>3 DEF Page, Serve, Send, Subscribe, OpenRows, EndReplay, EndOfChannel,
                          Leave, Fails, ReplayFails, CheckFails, Fault, pageVars
      <4>4. QED
        BY <4>1, <4>2, <4>3, StepKinds
    <3>2. QED
      BY <3>1 DEF pageVars
  <2>3. QED
    BY <2>1, <2>2
<1>6. QED
  BY <1>1, <1>2, <1>3, <1>4, <1>5

(***************************************************************************)
(* Log files only grow, and grow by what is published next.                *)
(***************************************************************************)
LEMMA FileGrows ==
  ASSUME EngineInv, StreamTypeOK, [StreamNext]_allVars, NEW l \in Jobs, NEW i \in Steps
  PROVE  /\ file[l][i] \in Nat /\ file'[l][i] \in Nat /\ file[l][i] <= file'[l][i]
         /\ file'[l][i] # file[l][i] => Log(l) /\ i = idx[l] /\ file'[l][i] = file[l][i] + 1
<1>a. file \in [Jobs -> [Steps -> 0 .. MaxLines]] /\ file[l][i] \in Nat /\ MaxLines \in Nat
  BY StreamAssumption DEF StreamTypeOK
<1>1. ASSUME NEW j \in Jobs, Log(j)
      PROVE  \/ file'[l][i] = file[l][i]
             \/ l = j /\ i = idx[l] /\ file'[l][i] = file[l][i] + 1
  <2>1. idx[j] \in Steps
    BY <1>1 DEF EngineInv, IInv, PlacesFit, Log
  <2>2. file' = [file EXCEPT ![j][idx[j]] = file[j][idx[j]] + 1]
    BY <1>1 DEF Log
  <2>3. QED
    BY <1>a, <2>1, <2>2
<1>2. CASE \/ Quiet \/ UNCHANGED allVars \/ StreamCrash
           \/ \E j \in Jobs : Said(j) \/ Publish(j) \/ CloseSubscribers(j)
           \/ \E s \in Streams : Page(s)
  <2>1. file' = file
    BY <1>2, PageReads DEF Quiet, Unannounced, Local, CancelJob, SubmitJob, Reconcile, allVars,
                streamVars, logVars, StreamCrash, Said, Announced, Speaks, Publish,
                CloseSubscribers
  <2>2. QED
    BY <1>a, <2>1
<1>3. QED
  BY <1>a, <1>1, <1>2, StepKinds

(***************************************************************************)
(* A log file is empty until the step function of its step runs.           *)
(***************************************************************************)
LEMMA FilesAheadStep ==
  ASSUME EngineInv, StreamTypeOK, FilesAhead, [StreamNext]_allVars
  PROVE  FilesAhead'
<1> SUFFICES ASSUME NEW l \in Jobs
             PROVE  NothingYet(l)'
  BY DEF FilesAhead
<1> USE DEF GoTo, dbVars, procVars, envVars
<1>a. /\ TypeOK /\ PlacesFit /\ NothingYet(l)
      /\ idx[l] \in 1 .. NumSteps + 1 /\ NumSteps \in Nat
      /\ pc \in [Jobs -> Places] /\ idx \in [Jobs -> 1 .. NumSteps + 1]
  BY NumStepsAssumption DEF EngineInv, IInv, FilesAhead, TypeOK
<1>b. [Next]_vars
  BY EngineStep
<1>c. CASE Log(l)
  <2>1. /\ pc[l] = "fn" /\ pc' = pc /\ idx' = idx /\ status' = status
        /\ status[l] # "absent"
    BY <1>c, <1>a DEF Log, vars, PlacesFit
  <2>2. \A i \in Steps : i # idx[l] => file'[l][i] = file[l][i]
    BY FileGrows
  <2>3. \A i \in Steps : i > idx[l] => file'[l][i] = 0
    BY <1>a, <2>1, <2>2 DEF NothingYet, Steps
  <2>4. QED
    BY <2>1, <2>3 DEF NothingYet
<1>d. CASE ~Log(l)
  <2>0. \A i \in Steps : file'[l][i] = file[l][i]
    BY <1>d, FileGrows
  <2>1. ASSUME NEW j \in Jobs, l # j,
               \/ \E k \in Keys \cup {NoKey} : Submit(j, k)
               \/ StepReturns(j) \/ Engine(j)
        PROVE  NothingYet(l)'
    <3>1. status'[l] = status[l] /\ pc'[l] = pc[l] /\ idx'[l] = idx[l]
      BY <1>a, <2>1, OthersSame
    <3>2. QED
      BY <1>a, <2>0, <3>1 DEF NothingYet
  <2>2. CASE \E k \in Keys \cup {NoKey} : Submit(l, k)
    BY <1>a, <2>0, <2>2 DEF Submit, NothingYet
  <2>3. CASE Begin(l) \/ Abort(l) \/ Finish(l) \/ Exit(l)
    <3>1. /\ (pc'[l] = "list" /\ pc[l] = "begin") \/ pc'[l] \in {"closing", "none"}
          /\ status[l] # "absent"
      BY <1>a, <2>3 DEF Begin, Abort, Finish, Exit, PlacesFit
    <3>2. status'[l] # "absent"
      <4>1. CASE Exit(l)
        BY <3>1, <4>1 DEF Exit
      <4>2. CASE Begin(l) \/ Abort(l) \/ Finish(l)
        <5>1. PICK x \in JobStatus \ {"absent"} : WriteJob(l, x)
          BY <1>a, <4>2 DEF Begin, Abort, Finish, TypeOK, Outcomes, JobStatus, Active, Terminal
        <5>2. QED
          BY <1>a, <3>1, <5>1, WriteJobType
      <4>3. QED
        BY <2>3, <4>1, <4>2
    <3>3. QED
      BY <1>a, <2>0, <3>1, <3>2 DEF NothingYet
  <2>4. CASE Register(l)
    BY <1>a, <2>0, <2>4 DEF Register, NothingYet, PlacesFit
  <2>5. CASE ListSteps(l)
    BY <1>a, <2>0, <2>5 DEF ListSteps, NothingYet, PlacesFit
  <2>6. CASE SkipCancelled(l) \/ SkipRest(l) \/ StepSucceeds(l) \/ Judge(l)
    <3>1. /\ pc[l] \in {"loop", "fn", "judge"} /\ pc'[l] = "loop" /\ idx'[l] = idx[l] + 1
          /\ status' = status /\ status[l] # "absent"
      BY <1>a, <2>6 DEF SkipCancelled, SkipRest, StepSucceeds, Judge, NextStep, PlacesFit
    <3>2. \A i \in Steps : i >= idx[l] + 1 => i > idx[l] /\ i >= idx[l]
      BY <1>a DEF Steps
    <3>3. QED
      BY <1>a, <2>0, <3>1, <3>2 DEF NothingYet
  <2>7. CASE BeginStep(l) \/ OpenLog(l) \/ StepFails(l)
    <3>1. /\ pc[l] \in {"loop", "opening", "fn"} /\ idx'[l] = idx[l]
          /\ (pc'[l] = "opening" /\ pc[l] = "loop") \/ pc'[l] \in {"fn", "judge"}
          /\ status' = status /\ status[l] # "absent"
      BY <1>a, <2>7 DEF BeginStep, OpenLog, StepFails, PlacesFit
    <3>2. \A i \in Steps : i > idx[l] => i >= idx[l]
      BY <1>a DEF Steps
    <3>3. QED
      BY <1>a, <2>0, <3>1, <3>2 DEF NothingYet
  <2>8. CASE (\E j \in Jobs : Cancel(j)) \/ UNCHANGED vars
    BY <1>a, <2>0, <2>8 DEF Cancel, vars, NothingYet
  <2>9. CASE Crash \/ ReconcileJobs \/ ReconcileSteps
    <3>1. pc'[l] = "none" /\ (status'[l] = "absent" => status[l] = "absent")
      BY <1>a, <2>9 DEF Crash, ReconcileJobs, ReconcileSteps, InterruptJobs, PlacesFit
    <3>2. QED
      BY <1>a, <2>0, <3>1 DEF NothingYet
  <2>10. CASE RivalStarts \/ RivalReconcilesJobs \/ RivalReconcilesSteps
    <3>1. /\ pc'[l] = pc[l] /\ idx'[l] = idx[l]
          /\ status'[l] = "absent" => status[l] = "absent"
      BY <1>a, <2>10 DEF RivalStarts, RivalReconcilesJobs, RivalReconcilesSteps, InterruptJobs,
                         InterruptSteps
    <3>2. QED
      BY <1>a, <2>0, <3>1 DEF NothingYet
  <2>11. QED
    BY <1>b, <2>1, <2>2, <2>3, <2>4, <2>5, <2>6, <2>7, <2>8, <2>9, <2>10
    DEF Next, Engine, StepReturns
<1>e. QED
  BY <1>c, <1>d

(***************************************************************************)
(* A goroutine gets to open a log file through the UPDATE that names it.   *)
(***************************************************************************)
LEMMA OpeningIsNamed ==
  ASSUME EngineInv, [StreamNext]_allVars, NEW l \in Jobs, pc'[l] \in {"opening", "fn"}
  PROVE  \/ pc[l] \in {"opening", "fn"} /\ idx'[l] = idx[l]
         \/ BeginStep(l) /\ NameLog(l)
<1> USE DEF GoTo, procVars, vars
<1>a. TypeOK /\ PlacesFit /\ pc \in [Jobs -> Places] /\ idx \in [Jobs -> 1 .. NumSteps + 1]
  BY DEF EngineInv, IInv, TypeOK
<1>1. ASSUME NEW j \in Jobs, l # j,
             \/ \E k \in Keys \cup {NoKey} : Submit(j, k)
             \/ StepReturns(j) \/ Engine(j)
      PROVE  pc'[l] = pc[l] /\ idx'[l] = idx[l]
  BY <1>a, <1>1, OthersSame
<1>2. CASE Said(l)
  BY <1>a, <1>2 DEF Said, Announced, Begin, Abort, StepSucceeds, StepFails, Finish
<1>3. CASE Unannounced(l) \/ Local(l)
  BY <1>a, <1>3 DEF Unannounced, Local, ListSteps, SkipCancelled, SkipRest, Register, OpenLog,
                    Judge, Exit
<1>4. CASE SubmitJob(l)
  BY <1>a, <1>4 DEF SubmitJob, Submit
<1>5. ASSUME NEW j \in Jobs, l # j, Said(j) \/ Unannounced(j) \/ Local(j) \/ SubmitJob(j)
      PROVE  pc'[l] = pc[l] /\ idx'[l] = idx[l]
  <2>1. \/ \E k \in Keys \cup {NoKey} : Submit(j, k)
        \/ StepReturns(j) \/ Engine(j)
    BY <1>5 DEF Said, Announced, Unannounced, Local, SubmitJob, StepReturns, Engine
  <2>2. QED
    BY <1>1, <1>5, <2>1
<1>6. CASE (\E j \in Jobs : CancelJob(j)) \/ Reconcile
  BY <1>6 DEF CancelJob, Cancel, Reconcile, ReconcileJobs, ReconcileSteps
<1>7. CASE \/ \E j \in Jobs : Log(j) \/ Publish(j) \/ CloseSubscribers(j)
           \/ \E s \in Streams : Page(s)
           \/ UNCHANGED allVars
  BY <1>7, PageReads DEF Log, Publish, CloseSubscribers, allVars
<1>8. CASE StreamCrash
  BY <1>8 DEF StreamCrash, Crash
<1>9. QED
  BY <1>2, <1>3, <1>4, <1>5, <1>6, <1>7, <1>8, StepKinds DEF Quiet

(***************************************************************************)
(* While no UPDATE is lost, each step that has lines has its file named.   *)
(***************************************************************************)
LEMMA LogsNamedStep ==
  ASSUME EngineInv, StreamTypeOK, LogsNamed, [StreamNext]_allVars
  PROVE  LogsNamed'
<1> SUFFICES ASSUME lost' = 0, NEW l \in Jobs
             PROVE  /\ \A i \in Steps : file'[l][i] > 0 => i \in logPath'[l]
                    /\ pc'[l] \in {"opening", "fn"} => idx'[l] \in logPath'[l]
  BY DEF LogsNamed
<1>a. /\ TypeOK /\ PlacesFit
      /\ \A i \in Steps : file[l][i] > 0 => i \in logPath[l]
      /\ pc[l] \in {"opening", "fn"} => idx[l] \in logPath[l] /\ idx[l] \in Steps
  BY EngineStep, LostGrows DEF EngineInv, IInv, LogsNamed, PlacesFit
<1>1. ASSUME NEW i \in Steps, file'[l][i] > 0
      PROVE  i \in logPath'[l]
  <2>1. CASE Log(l) /\ i = idx[l]
    BY <1>a, <2>1, PathsGrow DEF Log
  <2>2. CASE file'[l][i] = file[l][i]
    BY <1>a, <1>1, <2>2, PathsGrow
  <2>3. QED
    BY <2>1, <2>2, FileGrows
<1>2. ASSUME pc'[l] \in {"opening", "fn"}
      PROVE  idx'[l] \in logPath'[l]
  <2>1. CASE pc[l] \in {"opening", "fn"} /\ idx'[l] = idx[l]
    BY <1>a, <2>1, PathsGrow
  <2>2. CASE BeginStep(l) /\ NameLog(l)
    <3>1. idx[l] \in Steps /\ WriteStep(l, idx[l], "running") /\ idx' = idx
      BY <2>2 DEF BeginStep
    <3>2. step'[l][idx[l]] = "running"
      BY <1>a, <3>1, StepWritten DEF StepStatus
    <3>3. logPath' = [logPath EXCEPT ![l] = logPath[l] \cup {idx[l]}]
      BY <2>2, <3>2 DEF NameLog
    <3>4. QED
      BY <3>1, <3>3 DEF StreamTypeOK
  <2>3. QED
    BY <1>2, <2>1, <2>2, OpeningIsNamed
<1>3. QED
  BY <1>1, <1>2

(***************************************************************************)
(* A line that is published or shown stays in its file.                    *)
(***************************************************************************)
LEMMA LinesSafeStep ==
  ASSUME EngineInv, StreamTypeOK, LinesSafe, [StreamNext]_allVars
  PROVE  LinesSafe'
<1>a. \A s \in Streams : WatchedBy[s] \in Jobs /\ Len(channel[s]) \in Nat
  BY StreamAssumption, LenProperties DEF StreamTypeOK
<1>b. /\ outbox \in [Jobs -> Event \cup {Silent, Closing}]
      /\ \A s \in Streams : \A n \in 1 .. Len(channel[s]) : channel[s][n] \in Event
  BY ElementOfSeq DEF StreamTypeOK
<1>0. ASSUME NEW l \in Jobs, NEW STATE e, e \in Event, LineOnFile(l, e)
      PROVE  e.kind = "line" => e.line <= file'[l][e.seq]
  <2>1. CASE e.kind = "line"
    <3>1. e.seq \in Steps /\ e.line \in 1 .. MaxLines /\ e.line \in Int
      BY <1>0, <2>1, EventFields
    <3>2. /\ file[l][e.seq] \in Nat /\ file'[l][e.seq] \in Nat
          /\ file[l][e.seq] <= file'[l][e.seq] /\ e.line <= file[l][e.seq]
      BY <1>0, <2>1, <3>1, FileGrows DEF LineOnFile
    <3>3. QED
      BY <3>1, <3>2
  <2>2. QED
    BY <2>1
<1>1. ASSUME NEW l \in Jobs, outbox'[l] \in Event
      PROVE  LineOnFile(l, outbox[l])'
  <2>1. CASE outbox'[l] \in {outbox[l], Silent, Closing}
    <3>1. outbox'[l] = outbox[l]
      BY <1>1, <2>1, EventFields
    <3>2. QED
      BY <1>0, <1>1, <3>1 DEF LinesSafe, LineOnFile
  <2>2. CASE Said(l)
    <3>1. outbox'[l].kind \in {"job", "step"}
      BY <1>b, <2>2, SaidIs DEF Speaks
    <3>2. QED
      BY <3>1 DEF LineOnFile
  <2>3. CASE Log(l)
    <3>1. idx[l] \in Steps
      BY <2>3 DEF EngineInv, IInv, PlacesFit, Log
    <3>2. /\ outbox'[l] = LineEvent(idx[l], file[l][idx[l]] + 1)
          /\ file'[l][idx[l]] = file[l][idx[l]] + 1
      BY <1>b, <2>3, <3>1 DEF Log, StreamTypeOK
    <3>3. file'[l][idx[l]] \in Nat
      BY <3>1, FileGrows
    <3>4. QED
      BY <3>2, <3>3 DEF LineOnFile, LineEvent
  <2>4. QED
    BY <2>1, <2>2, <2>3, OutboxOrigin
<1>2. ASSUME NEW s \in Streams, NEW n \in 1 .. Len(channel'[s])
      PROVE  LineOnFile(WatchedBy[s], channel[s][n])'
  <2>1. PICK e \in Event : LineOnFile(WatchedBy[s], e) /\ channel'[s][n] = e
    BY <1>a, <1>b, ChannelOrigin DEF LinesSafe
  <2>2. QED
    BY <1>0, <1>a, <2>1 DEF LineOnFile
<1>3. ASSUME NEW s \in Streams, NEW i \in Steps, NEW n \in 1 .. MaxLines, <<i, n>> \in seen'[s]
      PROVE  n <= file'[WatchedBy[s]][i]
  <2>1. n <= file[WatchedBy[s]][i]
    <3>1. CASE \E m \in 1 .. Len(channel[s]) : channel[s][m] = LineEvent(i, n)
      BY <3>1 DEF LinesSafe, LineOnFile, LineEvent
    <3>2. QED
      BY <1>3, <3>1, PageOrigin DEF LinesSafe
  <2>2. QED
    BY <1>a, <2>1, FileGrows
<1>4. QED
  BY <1>1, <1>2, <1>3 DEF LinesSafe

(***************************************************************************)
(* A finished step or job that is published or shown stays in its row.     *)
(***************************************************************************)
LEMMA RowsSafeStep ==
  ASSUME EngineInv, StreamTypeOK, RowsSafe, [StreamNext]_allVars
  PROVE  RowsSafe'
<1> SUFFICES ASSUME lost' = 0
             PROVE  /\ \A j \in Jobs : outbox'[j] \in Event => RowsAgree(j, outbox[j])'
                    /\ \A s \in Streams :
                         /\ \A n \in 1 .. Len(channel'[s]) :
                              RowsAgree(WatchedBy[s], channel[s][n])'
                         /\ \A i \in Steps : view'[s][i] \in {"succeeded", "failed"}
                                             => step'[WatchedBy[s]][i] = view'[s][i]
                         /\ final'[s] # "none" => status'[WatchedBy[s]] = final'[s]
  BY DEF RowsSafe
<1>a. \A s \in Streams : WatchedBy[s] \in Jobs
  BY StreamAssumption
<1>b. /\ outbox \in [Jobs -> Event \cup {Silent, Closing}]
      /\ \A s \in Streams : \A n \in 1 .. Len(channel[s]) : channel[s][n] \in Event
  BY ElementOfSeq DEF StreamTypeOK
<1>c. lost = 0
  BY EngineStep, LostGrows DEF EngineInv, IInv
<1>d. /\ \A j \in Jobs : outbox[j] \in Event => RowsAgree(j, outbox[j])
      /\ \A s \in Streams :
           /\ \A n \in 1 .. Len(channel[s]) : RowsAgree(WatchedBy[s], channel[s][n])
           /\ \A i \in Steps : view[s][i] \in {"succeeded", "failed"}
                               => step[WatchedBy[s]][i] = view[s][i]
           /\ final[s] # "none" => status[WatchedBy[s]] = final[s]
  BY <1>c DEF RowsSafe
<1>0. \A l \in Jobs :
        /\ status[l] \in Terminal => status'[l] = status[l]
        /\ \A i \in Steps :
             step[l][i] \notin {"pending", "running"} => step'[l][i] = step[l][i]
  BY EngineStep, HistoryKept DEF EngineInv
<1>1. ASSUME NEW l \in Jobs, NEW STATE e, e \in Event, RowsAgree(l, e)
      PROVE  /\ e.kind = "step" /\ e.status \in {"succeeded", "failed"}
                  => step'[l][e.seq] = e.status
             /\ e.kind = "job" /\ e.status \in Terminal => status'[l] = e.status
  BY <1>0, <1>1, EventFields DEF RowsAgree
<1>2. ASSUME NEW l \in Jobs, outbox'[l] \in Event
      PROVE  RowsAgree(l, outbox[l])'
  <2>1. CASE outbox'[l] \in {outbox[l], Silent, Closing}
    <3>1. outbox'[l] = outbox[l]
      BY <1>2, <2>1, EventFields
    <3>2. QED
      BY <1>1, <1>2, <1>d, <3>1 DEF RowsAgree
  <2>2. CASE Said(l)
    <3>1. PICK e \in Event : Speaks(l, e) /\ RowsAgree(l, e)'
      BY <2>2, SaidIs
    <3>2. outbox'[l] = e
      BY <1>b, <3>1 DEF Speaks
    <3>3. QED
      BY <3>1, <3>2 DEF RowsAgree
  <2>3. CASE Log(l)
    <3>1. outbox'[l].kind = "line"
      BY <1>b, <2>3 DEF Log, LineEvent
    <3>2. QED
      BY <3>1 DEF RowsAgree
  <2>4. QED
    BY <2>1, <2>2, <2>3, OutboxOrigin
<1>3. ASSUME NEW s \in Streams, NEW n \in 1 .. Len(channel'[s])
      PROVE  RowsAgree(WatchedBy[s], channel[s][n])'
  <2>1. PICK e \in Event : RowsAgree(WatchedBy[s], e) /\ channel'[s][n] = e
    BY <1>a, <1>b, <1>d, ChannelOrigin
  <2>2. QED
    BY <1>1, <1>a, <2>1 DEF RowsAgree
<1>4. ASSUME NEW s \in Streams, NEW i \in Steps, view'[s][i] \in {"succeeded", "failed"}
      PROVE  step'[WatchedBy[s]][i] = view'[s][i]
  <2>1. step[WatchedBy[s]][i] = view'[s][i]
    <3>1. CASE \E m \in 1 .. Len(channel[s]) : channel[s][m] = StepEvent(i, view'[s][i])
      BY <1>4, <1>d, <3>1 DEF RowsAgree, StepEvent
    <3>2. QED
      BY <1>4, <1>d, <3>1, PageOrigin
  <2>2. QED
    BY <1>0, <1>4, <1>a, <2>1
<1>5. ASSUME NEW s \in Streams, final'[s] # "none"
      PROVE  status'[WatchedBy[s]] = final'[s]
  <2>1. status[WatchedBy[s]] = final'[s] /\ final'[s] \in Terminal
    <3>1. CASE \E m \in 1 .. Len(channel[s]) :
                 Ends(channel[s][m]) /\ channel[s][m].status = final'[s]
      BY <1>d, <3>1 DEF RowsAgree, Ends
    <3>2. CASE final'[s] = final[s]
      BY <1>5, <1>d, <3>2 DEF StreamTypeOK
    <3>3. QED
      BY <3>1, <3>2, PageOrigin
  <2>2. QED
    BY <1>0, <1>a, <2>1
<1>6. QED
  BY <1>2, <1>3, <1>4, <1>5

\* Nothing of page s changes.
Still(s) ==
  /\ handler'[s] = handler[s] /\ row'[s] = row[s] /\ channel'[s] = channel[s]
  /\ seen'[s] = seen[s] /\ view'[s] = view[s] /\ final'[s] = final[s]
  /\ s \in open' <=> s \in open
  /\ s \in gaps' <=> s \in gaps
  /\ s \in fromChannel' <=> s \in fromChannel

(***************************************************************************)
(* A page is moved by its own handler, by its job's events, and by the end *)
(* of the process.                                                         *)
(***************************************************************************)
LEMMA StillUnless ==
  ASSUME StreamTypeOK, [StreamNext]_allVars, NEW s \in Streams
  PROVE  \/ Still(s)
         \/ Page(s) /\ UNCHANGED <<vars, logVars>>
         \/ StreamCrash \/ Publish(WatchedBy[s]) \/ CloseSubscribers(WatchedBy[s])
<1> USE DEF Still
<1>a. /\ handler \in [Streams -> {"off", "subscribed", "replay", "check", "tail"}]
      /\ row \in [Streams -> 1 .. NumSteps + 1] /\ channel \in [Streams -> Seq(Event)]
      /\ seen \in [Streams -> SUBSET Lines] /\ view \in [Streams -> [Steps -> StepStatus]]
      /\ final \in [Streams -> Terminal \cup {"none"}]
  BY DEF StreamTypeOK
<1>1. CASE Quiet \/ UNCHANGED allVars \/ \E j \in Jobs : Said(j) \/ Log(j)
  BY <1>1 DEF Quiet, Unannounced, Local, CancelJob, SubmitJob, Reconcile, allVars, streamVars,
              chanVars, pageVars, handleVars, Said, Announced, Speaks, Log
<1>2. ASSUME NEW j \in Jobs, Publish(j), j # WatchedBy[s]
      PROVE  Still(s)
  <2>1. channel'[s] = channel[s]
    BY <1>2, PublishIs
  <2>2. /\ s \in gaps' <=> s \in gaps
        /\ UNCHANGED <<open, pageVars, handleVars>>
    BY <1>2 DEF Publish, Subscribers
  <2>3. QED
    BY <2>1, <2>2 DEF pageVars, handleVars
<1>3. ASSUME NEW j \in Jobs, CloseSubscribers(j), j # WatchedBy[s]
      PROVE  Still(s)
  BY <1>3 DEF CloseSubscribers, Subscribers, pageVars, handleVars
<1>4. ASSUME NEW l \in Streams, Page(l)
      PROVE  UNCHANGED <<vars, logVars>>
  BY <1>4, PageReads
<1>5. ASSUME NEW l \in Streams, Page(l), l # s
      PROVE  Still(s)
  <2> USE DEF chanVars, pageVars, handleVars
  <2>1. CASE Subscribe(l) \/ OpenRows(l) \/ EndReplay(l) \/ EndOfChannel(l) \/ Leave(l)
    BY <1>a, <1>5, <2>1 DEF Subscribe, OpenRows, EndReplay, EndOfChannel, Leave, Return
  <2>2. CASE ReplayRow(l) \/ CheckStatus(l)
    BY <1>a, <1>5, <2>2 DEF ReplayRow, SendStatus, CheckStatus, Return
  <2>3. CASE Receive(l)
    BY <1>a, <1>5, <2>3 DEF Receive, Show
  <2>4. CASE Fails(l)
    BY <1>a, <1>5, <2>4 DEF Fails, SkipRow, SendStatus, ReplayFails, CheckFails, Fault
  <2>5. QED
    BY <1>5, <2>1, <2>2, <2>3, <2>4 DEF Page, Serve, Send
<1>6. QED
  BY <1>1, <1>2, <1>3, <1>4, <1>5, StepKinds

(***************************************************************************)
(* A goroutine with something to publish does nothing else.                *)
(***************************************************************************)
LEMMA Waits ==
  ASSUME EngineInv, QuietBeforeUp, StreamTypeOK, [StreamNext]_allVars, NEW l \in Jobs,
         outbox[l] # Silent, outbox'[l] # Silent
  PROVE  /\ step'[l] = step[l]
         /\ status[l] # "absent" => status'[l] # "absent" /\ pc'[l] = pc[l]
<1> USE DEF vars, dbVars, procVars
<1>1. CASE Quiet
  BY <1>1, QuietIs
<1>2. ASSUME NEW j \in Jobs, Said(j)
      PROVE  status'[l] = status[l] /\ pc'[l] = pc[l] /\ step'[l] = step[l]
  <2>1. j # l
    BY <1>2 DEF Said
  <2>2. QED
    BY <1>2, <2>1, SaidIs
<1>3. ASSUME NEW j \in Jobs, Log(j) \/ Publish(j) \/ CloseSubscribers(j)
      PROVE  UNCHANGED <<status, pc, step>>
  BY <1>3 DEF Log, Publish, CloseSubscribers
<1>4. ASSUME NEW s \in Streams, Page(s)
      PROVE  UNCHANGED <<status, pc, step>>
  BY <1>4, PageReads
<1>5. ~StreamCrash
  BY DEF StreamCrash
<1>6. CASE UNCHANGED allVars
  BY <1>6 DEF allVars
<1>7. QED
  BY <1>1, <1>2, <1>3, <1>4, <1>5, <1>6, StepKinds

(***************************************************************************)
(* Nothing follows the end of a job.                                       *)
(***************************************************************************)
LEMMA EndIsLastStep ==
  ASSUME EngineInv, QuietBeforeUp, StreamTypeOK, EndIsLast, [StreamNext]_allVars
  PROVE  EndIsLast'
<1>a. /\ outbox \in [Jobs -> Event \cup {Silent, Closing}]
      /\ pc \in [Jobs -> Places]
      /\ \A s \in Streams : WatchedBy[s] \in Jobs /\ Len(channel[s]) \in Nat
      /\ channel \in [Streams -> Seq(Event)] /\ channel' \in [Streams -> Seq(Event)]
      /\ handler \in [Streams -> {"off", "subscribed", "replay", "check", "tail"}]
      /\ StreamTypeOK' /\ Len(<<>>) = 0
  BY StreamAssumption, LenProperties, EmptySeq, StreamTypeStep DEF StreamTypeOK, TypeOK
<1>b. Silent # Closing /\ ~Ends(Silent) /\ ~Ends(Closing)
  BY DEF Silent, Closing, Ends
<1>1. ASSUME NEW l \in Jobs, outbox'[l] = Closing \/ Ends(outbox[l])'
      PROVE  status'[l] # "absent" /\ pc'[l] = "closing"
  <2>1. CASE outbox'[l] \in {outbox[l], Silent}
    <3>1. outbox'[l] = outbox[l] /\ outbox[l] # Silent
      BY <1>1, <1>b, <2>1 DEF Ends
    <3>2. status[l] # "absent" /\ pc[l] = "closing"
      BY <1>1, <3>1 DEF EndIsLast, Ends
    <3>3. QED
      BY <3>1, <3>2, Waits
  <2>2. CASE Said(l)
    <3>1. PICK e \in Event : Speaks(l, e) /\ (Ends(e) => pc'[l] = "closing")
      BY <2>2, SaidIs
    <3>2. outbox'[l] = e /\ e # Closing
      BY <1>a, <3>1, EventFields DEF Speaks
    <3>3. QED
      BY <1>1, <2>2, <3>1, <3>2, SaidIs DEF Ends
  <2>3. CASE Log(l)
    <3>1. outbox'[l].kind = "line"
      BY <1>a, <2>3 DEF Log, LineEvent
    <3>2. QED
      BY <1>1, <3>1 DEF Ends, Closing
  <2>4. CASE Publish(l) /\ Ends(outbox[l])
    BY <2>4 DEF Publish, vars, dbVars, procVars, EndIsLast
  <2>5. QED
    BY <2>1, <2>2, <2>3, <2>4, OutboxOrigin
<1>2. ASSUME NEW s \in Streams
      PROVE  /\ handler'[s] # "off" /\ s \notin open' => Gone(WatchedBy[s])'
             /\ \A n \in 1 .. Len(channel'[s]) :
                  Ends(channel[s][n])' => n = Len(channel'[s]) /\ Gone(WatchedBy[s])'
             /\ s \in fromChannel' =>
                  /\ final'[s] # "none" /\ channel'[s] = <<>> /\ Gone(WatchedBy[s])'
                  /\ handler'[s] \in {"off", "tail"}
  <2> DEFINE j == WatchedBy[s]
             Good == /\ handler'[s] # "off" /\ s \notin open' => Gone(j)'
                     /\ \A n \in 1 .. Len(channel'[s]) :
                          Ends(channel[s][n])' => n = Len(channel'[s]) /\ Gone(j)'
                     /\ s \in fromChannel' =>
                          /\ final'[s] # "none" /\ channel'[s] = <<>> /\ Gone(j)'
                          /\ handler'[s] \in {"off", "tail"}
  <2>a. /\ handler[s] # "off" /\ s \notin open => Gone(j)
        /\ \A n \in 1 .. Len(channel[s]) :
             Ends(channel[s][n]) => n = Len(channel[s]) /\ Gone(j)
        /\ s \in fromChannel =>
             /\ final[s] # "none" /\ channel[s] = <<>> /\ Gone(j)
             /\ handler[s] \in {"off", "tail"}
    BY DEF EndIsLast
  <2>b. j \in Jobs /\ (Gone(j) => Gone(j)')
    BY <1>a, GoneKept
  <2>1. CASE Still(s)
    BY <2>1, <2>a, <2>b DEF Still, Ends
  <2>2. CASE StreamCrash
    BY <1>a, <2>2, <2>a, <2>b DEF StreamCrash, pageVars
  <2>3. CASE CloseSubscribers(j)
    <3>1. Gone(j)'
      BY <1>a, <2>3 DEF CloseSubscribers, vars, dbVars, procVars, EndIsLast, Gone
    <3>2. UNCHANGED <<channel, pageVars, handleVars>>
      BY <2>3 DEF CloseSubscribers
    <3>3. QED
      BY <2>a, <3>1, <3>2 DEF pageVars, handleVars, Ends
  <2>4. CASE Publish(j)
    <3>1. outbox[j] \in Event /\ ~Gone(j)
      BY <1>a, <2>4, <2>b, PublishIs, EventFields DEF Gone
    <3>2. UNCHANGED <<open, pageVars, handleVars>>
      BY <2>4 DEF Publish
    <3>3. Ends(outbox[j]) => Gone(j)'
      BY <1>a, <2>4, <2>b, PublishIs DEF Publish, vars, dbVars, procVars, EndIsLast, Gone
    <3>4. ASSUME NEW n \in 1 .. Len(channel'[s]), Ends(channel[s][n])'
          PROVE  n = Len(channel'[s]) /\ Ends(outbox[j])
      BY <1>a, <2>4, <2>a, <2>b, <3>1, <3>4, PublishIs DEF Ends
    <3>5. QED
      BY <2>a, <3>1, <3>2, <3>3, <3>4 DEF pageVars, handleVars
  <2>5. CASE Page(s) /\ UNCHANGED <<vars, logVars>>
    <3>1. CASE Subscribe(s)
      BY <1>a, <2>a, <2>b, <3>1 DEF Subscribe, pageVars
    <3>2. CASE OpenRows(s) \/ ReplayRow(s) \/ EndReplay(s)
      BY <1>a, <2>a, <2>b, <3>2 DEF OpenRows, ReplayRow, EndReplay, chanVars, pageVars, Ends
    <3>3. CASE CheckStatus(s)
      BY <1>a, <2>a, <2>b, <3>3 DEF CheckStatus, Return, Ends
    <3>4. CASE Receive(s)
      <4>1. /\ UNCHANGED <<open, handleVars>> /\ handler[s] = "tail"
            /\ Show(s, channel[s][1]) /\ channel[s] # <<>>
            /\ Len(channel[s]) \in Nat \ {0}
            /\ Len(channel'[s]) = Len(channel[s]) - 1
            /\ \A n \in 1 .. Len(channel'[s]) : channel'[s][n] = channel[s][n + 1]
        BY <3>4, ReceiveIs DEF Receive
      <4>2. \A n \in 1 .. Len(channel'[s]) :
              Ends(channel[s][n])' => n = Len(channel'[s]) /\ Gone(j)'
        BY <2>a, <2>b, <4>1 DEF Ends
      <4>3. ASSUME s \in fromChannel'
            PROVE  Ends(channel[s][1]) /\ final'[s] # "none"
        BY <2>a, <4>1, <4>3 DEF Show, Ends, Terminal, StreamTypeOK
      <4>4. Ends(channel[s][1]) => Len(channel'[s]) = 0 /\ Gone(j)'
        <5>1. 1 \in 1 .. Len(channel[s])
          BY <4>1
        <5>2. Ends(channel[s][1]) => 1 = Len(channel[s]) /\ Gone(j)
          BY <2>a, <5>1
        <5> HIDE DEF j
        <5>3. QED
          BY <2>b, <4>1, <5>2
      <4>5. Len(channel'[s]) = 0 => channel'[s] = <<>>
        BY <1>a, EmptySeq
      <4>6. QED
        BY <2>a, <2>b, <4>1, <4>2, <4>3, <4>4, <4>5 DEF handleVars
    <3>5. CASE EndOfChannel(s) \/ Leave(s)
      BY <1>a, <2>a, <2>b, <3>5 DEF EndOfChannel, Leave, Return, pageVars
    <3>6. CASE Fails(s)
      BY <1>a, <2>a, <2>b, <3>6 DEF Fails, SkipRow, ReplayFails, CheckFails, Fault, Ends
    <3>7. QED
      BY <2>5, <3>1, <3>2, <3>3, <3>4, <3>5, <3>6 DEF Page, Serve, Send
  <2>6. QED
    BY <2>1, <2>2, <2>3, <2>4, <2>5, StillUnless
<1>3. QED
  BY <1>1, <1>2 DEF EndIsLast, Ends

(***************************************************************************)
(* A page that follows its job has each line of the rows it has read, or   *)
(* will be sent it.                                                        *)
(***************************************************************************)
LEMMA NoLineMissedStep ==
  ASSUME EngineInv, QuietBeforeUp, StreamTypeOK, FilesAhead, EndIsLast, NoLineMissed,
         [StreamNext]_allVars
  PROVE  NoLineMissed'
<1> SUFFICES ASSUME NEW s \in Streams, Following(s)', NEW i \in Steps, i \in Replayed(s)',
                    NEW n \in 1 .. MaxLines, n <= file'[WatchedBy[s]][i],
                    i \in logPath'[WatchedBy[s]]
             PROVE  <<i, n>> \in seen'[s] \/ Coming(s, LineEvent(i, n))'
  BY DEF NoLineMissed, Replayed
<1> DEFINE j == WatchedBy[s]
<1>a. /\ j \in Jobs /\ Len(channel[s]) \in Nat /\ n \in Nat
      /\ outbox \in [Jobs -> Event \cup {Silent, Closing}]
      /\ row[s] \in 1 .. NumSteps + 1 /\ NumSteps \in Nat
      /\ handler \in [Streams -> {"off", "subscribed", "replay", "check", "tail"}]
      /\ row \in [Streams -> 1 .. NumSteps + 1] /\ seen \in [Streams -> SUBSET Lines]
  BY StreamAssumption, NumStepsAssumption, LenProperties DEF StreamTypeOK
\* A row that is only now given its log file has an empty one.
<1>d. i \in logPath[j]
  <2>1. i \in logPath[j] \/ (BeginStep(j) /\ i = idx[j])
    BY <1>a, PathsGrow
  <2>2. CASE BeginStep(j) /\ i = idx[j]
    <3>1. pc[j] = "loop"
      BY <2>2 DEF BeginStep
    <3>2. file[j][i] = 0
      BY <1>a, <2>2, <3>1 DEF FilesAhead, NothingYet, Steps
    <3>3. file'[j][i] = file[j][i]
      BY <1>a, <3>1, FileGrows DEF Log
    <3>4. QED
      BY <1>a, <3>2, <3>3
  <2>3. QED
    BY <2>1, <2>2
<1>b. Following(s) /\ i \in Replayed(s) /\ n <= file[j][i] =>
        <<i, n>> \in seen[s] \/ Coming(s, LineEvent(i, n))
  BY <1>d DEF NoLineMissed
<1>c. LineEvent(i, n) # Silent /\ LineEvent(i, n) # Closing
  BY DEF LineEvent, Silent, Closing
<1>1. CASE Publish(j)
  <2>1. /\ file' = file /\ seen' = seen /\ handler' = handler /\ row' = row /\ open' = open
        /\ gaps \subseteq gaps' /\ outbox[j] \notin {Silent, Closing}
    BY <1>1 DEF Publish, pageVars, handleVars
  <2>2. Following(s) /\ i \in Replayed(s)
    BY <2>1 DEF Following, Replayed
  <2>3. s \in open
    BY <2>1, <2>2 DEF EndIsLast, Following, Gone
  <2>4. /\ Len(channel'[s]) = Len(channel[s]) + 1
        /\ channel'[s][Len(channel[s]) + 1] = outbox[j]
        /\ \A m \in 1 .. Len(channel[s]) : channel'[s][m] = channel[s][m]
    BY <1>1, <1>a, <2>3, PublishIs DEF Following
  <2>5. \A m \in 1 .. Len(channel[s]) : m \in 1 .. Len(channel'[s])
    BY <1>a, <2>4
  <2>6. Len(channel[s]) + 1 \in 1 .. Len(channel'[s])
    BY <1>a, <2>4
  <2>7. QED
    BY <1>b, <2>1, <2>2, <2>4, <2>5, <2>6 DEF Coming
<1>2. CASE CloseSubscribers(j)
  BY <1>2, <1>b, <1>c DEF CloseSubscribers, pageVars, handleVars, Following, Replayed, Coming
<1>3. CASE Page(s) /\ UNCHANGED <<vars, logVars>>
  <2>1. file' = file /\ outbox' = outbox
    BY <1>3 DEF logVars
  <2>2. CASE Subscribe(s) \/ OpenRows(s) \/ EndOfChannel(s) \/ Leave(s)
    BY <1>a, <2>2 DEF Subscribe, OpenRows, EndOfChannel, Leave, Return, Following, Replayed,
                      Steps
  <2>3. CASE ReplayRow(s)
    <3>1. /\ handler'[s] = handler[s] /\ channel' = channel /\ gaps' = gaps
          /\ row'[s] = row[s] + 1 /\ handler[s] = "replay"
          /\ seen'[s] = seen[s] \cup {l \in LogOf(s) : l[1] = row[s]}
      BY <1>a, <2>3 DEF ReplayRow, chanVars
    <3>2. CASE i = row[s]
      <4>1. <<i, n>> \in LogOf(s)
        BY <1>d, <2>1 DEF LogOf, Lines
      <4>2. QED
        BY <3>1, <3>2, <4>1
    <3>3. CASE i # row[s]
      BY <1>a, <1>b, <2>1, <3>1, <3>3 DEF Following, Replayed, Coming, Steps
    <3>4. QED
      BY <3>2, <3>3
  <2>4. CASE EndReplay(s) \/ CheckStatus(s) \/ CheckFails(s)
    <3>1. Following(s) /\ i \in Replayed(s) /\ channel' = channel /\ seen' = seen
      BY <1>a, <2>4 DEF EndReplay, CheckStatus, CheckFails, Fault, Return, chanVars, pageVars,
                        Following, Replayed, Steps
    <3>2. QED
      BY <1>b, <2>1, <3>1 DEF Coming
  <2>5. CASE Receive(s)
    <3>1. /\ channel[s][1] \in Event /\ Show(s, channel[s][1])
          /\ Len(channel[s]) \in Nat \ {0}
          /\ Len(channel'[s]) = Len(channel[s]) - 1
          /\ \A m \in 1 .. Len(channel'[s]) : channel'[s][m] = channel[s][m + 1]
      BY <2>5, ReceiveIs
    <3>2. Following(s) /\ i \in Replayed(s)
      BY <2>5 DEF Receive, handleVars, Following, Replayed
    <3>3. seen[s] \subseteq seen'[s]
      BY <1>a, <3>1 DEF Show
    <3>4. channel[s][1] = LineEvent(i, n) => <<i, n>> \in seen'[s]
      BY <1>a, <3>1 DEF Show, LineEvent
    <3>5. ASSUME NEW m \in 1 .. Len(channel[s]), channel[s][m] = LineEvent(i, n), m # 1
          PROVE  Coming(s, LineEvent(i, n))'
      <4>1. m - 1 \in 1 .. Len(channel'[s]) /\ (m - 1) + 1 = m
        BY <3>1, <3>5
      <4>2. channel'[s][m - 1] = LineEvent(i, n)
        BY <3>1, <3>5, <4>1
      <4>3. QED
        BY <4>1, <4>2 DEF Coming
    <3>6. QED
      BY <1>b, <2>1, <3>2, <3>3, <3>4, <3>5 DEF Coming
  <2>6. ~SkipRow(s) /\ ~ReplayFails(s)
    BY DEF SkipRow, ReplayFails, Following
  <2>7. QED
    BY <1>3, <2>2, <2>3, <2>4, <2>5, <2>6 DEF Page, Serve, Send, Fails
<1>4. ~StreamCrash
  BY DEF StreamCrash, Following
<1>5. CASE Still(s) /\ ~Publish(j) /\ ~CloseSubscribers(j)
  <2>1. Following(s) /\ i \in Replayed(s) /\ channel'[s] = channel[s] /\ seen'[s] = seen[s]
    BY <1>5 DEF Still, Following, Replayed
  <2>2. outbox'[j] = outbox[j] \/ outbox[j] = Silent
    BY <1>4, <1>5, <1>a, OutboxOrigin DEF Said, Log
  <2>3. CASE n <= file[j][i]
    BY <1>b, <1>c, <2>1, <2>2, <2>3 DEF Coming
  <2>4. CASE ~(n <= file[j][i])
    <3>1. Log(j) /\ i = idx[j] /\ n = file[j][i] + 1
      BY <1>a, <2>4, FileGrows
    <3>2. outbox'[j] = LineEvent(i, n)
      BY <1>a, <3>1 DEF Log
    <3>3. QED
      BY <3>2 DEF Coming
  <2>5. QED
    BY <2>3, <2>4
<1>6. QED
  BY <1>1, <1>2, <1>3, <1>4, <1>5, StillUnless

(***************************************************************************)
(* A step row comes to say that a step ran only as its event is published. *)
(***************************************************************************)
LEMMA RanIsSaid ==
  ASSUME EngineInv, QuietBeforeUp, [StreamNext]_allVars, NEW l \in Jobs, ~Said(l),
         NEW i \in Steps, step'[l][i] \in Ran
  PROVE  step'[l][i] = step[l][i]
<1> USE DEF vars, dbVars
<1>1. CASE Quiet
  BY <1>1, QuietIs
<1>2. CASE \E j \in Jobs : Said(j)
  BY <1>2, SaidIs
<1>3. CASE \/ \E j \in Jobs : Log(j) \/ Publish(j) \/ CloseSubscribers(j)
           \/ StreamCrash \/ UNCHANGED allVars
  BY <1>3 DEF Log, Publish, CloseSubscribers, StreamCrash, Crash, allVars
<1>4. CASE \E s \in Streams : Page(s)
  BY <1>4, PageReads
<1>5. QED
  BY <1>1, <1>2, <1>3, <1>4, StepKinds

(***************************************************************************)
(* A page that follows its job shows the status of each step that ran, for *)
(* the rows it has read, or will be sent it last.                          *)
(***************************************************************************)
LEMMA NoStatusMissedStep ==
  ASSUME EngineInv, QuietBeforeUp, StreamTypeOK, EndIsLast, NoStatusMissed,
         [StreamNext]_allVars
  PROVE  NoStatusMissed'
<1> SUFFICES ASSUME lost' = 0
             PROVE  NoStatusMissed'
  BY DEF NoStatusMissed
<1>a. /\ \A l \in Jobs, i \in Steps, x \in StepStatus :
           outbox[l] = StepEvent(i, x) => step[l][i] = x
      /\ \A s \in Streams : Following(s) =>
           \A i \in Steps : step[WatchedBy[s]][i] \in Ran =>
             /\ Latest(s, i)
             /\ i \in Replayed(s) => \/ view[s][i] = step[WatchedBy[s]][i]
                                    \/ Coming(s, StepEvent(i, step[WatchedBy[s]][i]))
  BY EngineStep, LostGrows DEF EngineInv, IInv, NoStatusMissed
<1>b. outbox \in [Jobs -> Event \cup {Silent, Closing}]
  BY DEF StreamTypeOK
<1>1. ASSUME NEW l \in Jobs, NEW i \in Steps, NEW x \in StepStatus,
             outbox'[l] = StepEvent(i, x)
      PROVE  step'[l][i] = x
  <2>1. StepEvent(i, x) \notin {Silent, Closing} /\ StepEvent(i, x).kind = "step"
        /\ StepEvent(i, x).seq = i /\ StepEvent(i, x).status = x
    BY DEF StepEvent, Silent, Closing
  <2>2. CASE outbox'[l] = outbox[l]
    BY <1>1, <1>a, <2>1, <2>2, Waits
  <2>3. CASE Said(l)
    <3>1. PICK e \in Event : Speaks(l, e) /\ (e.kind = "step" => step'[l][e.seq] = e.status)
      BY <2>3, SaidIs
    <3>2. outbox'[l] = e
      BY <1>b, <3>1 DEF Speaks
    <3>3. QED
      BY <1>1, <2>1, <3>1, <3>2
  <2>4. ~Log(l)
    BY <1>1, <1>b, <2>1 DEF Log, LineEvent
  <2>5. QED
    BY <1>1, <2>1, <2>2, <2>3, <2>4, OutboxOrigin
<1>2. ASSUME NEW s \in Streams, Following(s)', NEW i \in Steps, step'[WatchedBy[s]][i] \in Ran
      PROVE  /\ Latest(s, i)'
             /\ i \in Replayed(s)' => \/ view'[s][i] = step'[WatchedBy[s]][i]
                                     \/ Coming(s, StepEvent(i, step[WatchedBy[s]][i]))'
  <2> DEFINE j == WatchedBy[s]
             now == StepEvent(i, step'[j][i])
             Of(e) == e.kind = "step" /\ e.seq = i
             Goal == /\ \A m \in 1 .. Len(channel'[s]) :
                          Of(channel'[s][m]) /\ channel'[s][m] # now =>
                            \/ \E n \in 1 .. Len(channel'[s]) : n > m /\ channel'[s][n] = now
                            \/ outbox'[j] = now
                     /\ i \in Replayed(s)' =>
                          \/ view'[s][i] = step'[j][i]
                          \/ \E n \in 1 .. Len(channel'[s]) : channel'[s][n] = now
                          \/ outbox'[j] = now
  <2>0. SUFFICES Goal
    BY DEF Latest, Coming
  <2>a. /\ j \in Jobs /\ Len(channel[s]) \in Nat
        /\ row[s] \in 1 .. NumSteps + 1 /\ NumSteps \in Nat
        /\ handler \in [Streams -> {"off", "subscribed", "replay", "check", "tail"}]
        /\ row \in [Streams -> 1 .. NumSteps + 1]
        /\ view \in [Streams -> [Steps -> StepStatus]]
        /\ channel \in [Streams -> Seq(Event)]
    BY StreamAssumption, NumStepsAssumption, LenProperties DEF StreamTypeOK
  <2>b. /\ now # Silent /\ now # Closing /\ Of(now) /\ now.status = step'[j][i]
        /\ step'[j][i] \in StepStatus
    BY <1>2 DEF StepEvent, Silent, Closing, Ran, StepStatus
  <2>c. ASSUME Following(s), step'[j][i] = step[j][i]
        PROVE  /\ \A m \in 1 .. Len(channel[s]) :
                    Of(channel[s][m]) /\ channel[s][m] # now =>
                      \/ \E n \in 1 .. Len(channel[s]) : n > m /\ channel[s][n] = now
                      \/ outbox[j] = now
               /\ i \in Replayed(s) =>
                    \/ view[s][i] = step'[j][i]
                    \/ \E n \in 1 .. Len(channel[s]) : channel[s][n] = now
                    \/ outbox[j] = now
    <3>1. /\ Latest(s, i)
          /\ i \in Replayed(s) => \/ view[s][i] = step[j][i]
                                 \/ Coming(s, StepEvent(i, step[j][i]))
      BY <1>2, <1>a, <2>c
    <3>2. QED
      BY <2>c, <3>1 DEF Latest, Coming
  <2>1. CASE Publish(j)
    <3>1. /\ step' = step /\ view' = view /\ handler' = handler /\ row' = row /\ open' = open
          /\ gaps \subseteq gaps' /\ outbox[j] \notin {Silent, Closing}
      BY <2>1 DEF Publish, pageVars, handleVars, vars, dbVars
    <3>2. Following(s) /\ (i \in Replayed(s)' => i \in Replayed(s))
      BY <1>2, <3>1 DEF Following, Replayed
    <3>3. s \in open
      BY <3>1, <3>2 DEF EndIsLast, Following, Gone
    <3>4. /\ Len(channel'[s]) = Len(channel[s]) + 1
          /\ channel'[s][Len(channel[s]) + 1] = outbox[j] /\ outbox[j] \in Event
          /\ \A m \in 1 .. Len(channel[s]) : channel'[s][m] = channel[s][m]
      BY <1>2, <2>1, <2>a, <3>3, PublishIs DEF Following
    <3>5. Of(outbox[j]) => outbox[j] = now
      <4>1. ASSUME Of(outbox[j])
            PROVE  outbox[j] = StepEvent(i, outbox[j].status) /\ outbox[j].status \in StepStatus
        BY <3>4, <4>1, EventFields
      <4>2. QED
        BY <1>a, <2>a, <3>1, <4>1
    <3>6. /\ Len(channel[s]) + 1 \in 1 .. Len(channel'[s])
          /\ \A m \in 1 .. Len(channel[s]) : m \in 1 .. Len(channel'[s]) /\ Len(channel[s]) + 1 > m
          /\ \A m \in 1 .. Len(channel'[s]) : m \in 1 .. Len(channel[s]) \/ m = Len(channel[s]) + 1
      BY <2>a, <3>4
    <3> HIDE DEF Of, now
    <3>7. outbox[j] = now => \E n \in 1 .. Len(channel'[s]) : channel'[s][n] = now
      BY <3>4, <3>6
    <3>8. ASSUME NEW m \in 1 .. Len(channel'[s]), Of(channel'[s][m]), channel'[s][m] # now
          PROVE  \E n \in 1 .. Len(channel'[s]) : n > m /\ channel'[s][n] = now
      <4>1. m \in 1 .. Len(channel[s]) /\ channel'[s][m] = channel[s][m]
        BY <3>4, <3>5, <3>6, <3>8
      <4>2. CASE outbox[j] = now
        BY <3>4, <3>6, <4>1, <4>2
      <4>3. CASE \E n \in 1 .. Len(channel[s]) : n > m /\ channel[s][n] = now
        BY <3>4, <3>6, <4>3
      <4>4. QED
        BY <2>c, <3>1, <3>2, <3>8, <4>1, <4>2, <4>3
    <3>9. ASSUME i \in Replayed(s)'
          PROVE  \/ view'[s][i] = step'[j][i]
                 \/ \E n \in 1 .. Len(channel'[s]) : channel'[s][n] = now
      BY <2>c, <3>1, <3>2, <3>4, <3>6, <3>7, <3>9
    <3>10. QED
      BY <3>8, <3>9
  <2>2. CASE CloseSubscribers(j)
    <3>1. /\ step' = step /\ view' = view /\ channel' = channel /\ outbox[j] = Closing
          /\ Following(s) /\ (i \in Replayed(s)' => i \in Replayed(s))
      BY <1>2, <2>2 DEF CloseSubscribers, pageVars, handleVars, vars, dbVars, Following, Replayed
    <3> HIDE DEF Of, now
    <3>2. QED
      BY <2>b, <2>c, <3>1
  <2>3. CASE Page(s) /\ UNCHANGED <<vars, logVars>>
    <3>1. step' = step /\ outbox' = outbox
      BY <2>3 DEF logVars, vars, dbVars
    <3>2. CASE Subscribe(s) \/ EndOfChannel(s) \/ Leave(s)
      <4>1. Subscribe(s) /\ channel'[s] = <<>> /\ handler'[s] = "subscribed"
        BY <1>2, <2>a, <3>2 DEF Subscribe, EndOfChannel, Leave, Return, Following
      <4>2. Len(channel'[s]) = 0 /\ i \notin Replayed(s)'
        BY <4>1, EmptySeq DEF Replayed
      <4>3. QED
        BY <4>2
    <3>3. CASE OpenRows(s) \/ EndReplay(s) \/ CheckStatus(s) \/ CheckFails(s)
      <4>1. /\ Following(s) /\ channel' = channel /\ view' = view
            /\ i \in Replayed(s)' => i \in Replayed(s)
        BY <1>2, <2>a, <3>3 DEF OpenRows, EndReplay, CheckStatus, CheckFails, Fault, Return,
                                chanVars, pageVars, Following, Replayed, Steps
      <4> HIDE DEF Of, now
      <4>2. QED
        BY <2>c, <3>1, <4>1
    <3>4. CASE ReplayRow(s)
      <4>1. /\ handler'[s] = handler[s] /\ channel' = channel /\ gaps' = gaps
            /\ row'[s] = row[s] + 1 /\ handler[s] = "replay" /\ row[s] \in Steps
        BY <2>a, <3>4 DEF ReplayRow, chanVars
      <4>2. Following(s)
        BY <1>2, <4>1 DEF Following
      <4>3. CASE i = row[s]
        <5>1. view'[s][i] = step'[j][i]
          BY <1>2, <2>a, <3>1, <3>4, <4>3 DEF ReplayRow, SendStatus, Ran
        <5> HIDE DEF Of, now
        <5>2. QED
          BY <2>c, <3>1, <4>1, <4>2, <5>1
      <4>4. CASE i # row[s]
        <5>1. view'[s][i] = view[s][i] /\ (i \in Replayed(s)' => i \in Replayed(s))
          BY <2>a, <3>4, <4>1, <4>4 DEF ReplayRow, SendStatus, Replayed, Steps
        <5> HIDE DEF Of, now
        <5>2. QED
          BY <2>c, <3>1, <4>1, <4>2, <5>1
      <4>5. QED
        BY <4>3, <4>4
    <3>5. CASE Receive(s)
      <4>1. /\ channel[s][1] \in Event /\ Show(s, channel[s][1])
            /\ Len(channel[s]) \in Nat \ {0}
            /\ Len(channel'[s]) = Len(channel[s]) - 1
            /\ \A m \in 1 .. Len(channel'[s]) : channel'[s][m] = channel[s][m + 1]
        BY <3>5, ReceiveIs
      <4>2. Following(s) /\ (i \in Replayed(s)' => i \in Replayed(s))
        BY <1>2, <3>5 DEF Receive, handleVars, Following, Replayed
      <4>3. ASSUME NEW n \in 1 .. Len(channel[s]), n > 1
            PROVE  /\ n - 1 \in 1 .. Len(channel'[s])
                   /\ channel'[s][n - 1] = channel[s][n]
        <5>1. n - 1 \in 1 .. Len(channel'[s]) /\ (n - 1) + 1 = n
          BY <4>1, <4>3
        <5>2. QED
          BY <4>1, <5>1
      <4>4. ASSUME NEW m \in 1 .. Len(channel'[s]), Of(channel'[s][m]), channel'[s][m] # now
            PROVE  \/ \E n \in 1 .. Len(channel'[s]) : n > m /\ channel'[s][n] = now
                   \/ outbox'[j] = now
        <5>1. m + 1 \in 1 .. Len(channel[s]) /\ channel'[s][m] = channel[s][m + 1]
          BY <4>1
        <5> HIDE DEF Of, now
        <5>2. CASE \E n \in 1 .. Len(channel[s]) : n > m + 1 /\ channel[s][n] = now
          <6>1. PICK n \in 1 .. Len(channel[s]) : n > m + 1 /\ channel[s][n] = now
            BY <5>2
          <6>2. n > 1 /\ n - 1 > m
            BY <4>1, <6>1
          <6>3. QED
            BY <4>3, <6>1, <6>2
        <5>3. QED
          BY <2>c, <3>1, <4>2, <4>4, <5>1, <5>2
      <4>5. Of(channel[s][1]) => view'[s][i] = channel[s][1].status
        BY <2>a, <4>1 DEF Show
      <4>6. ~Of(channel[s][1]) => view'[s][i] = view[s][i]
        <5>1. channel[s][1].kind = "step" => channel[s][1].seq \in Steps
          BY <4>1, EventFields
        <5>2. QED
          BY <2>a, <4>1, <5>1 DEF Show
      <4>7. ASSUME \E n \in 1 .. Len(channel[s]) : n > 1 /\ channel[s][n] = now
            PROVE  \E n \in 1 .. Len(channel'[s]) : channel'[s][n] = now
        BY <4>3, <4>7
      <4>8. ASSUME i \in Replayed(s)'
            PROVE  \/ view'[s][i] = step'[j][i]
                   \/ \E n \in 1 .. Len(channel'[s]) : channel'[s][n] = now
                   \/ outbox'[j] = now
        <5>1. 1 \in 1 .. Len(channel[s]) /\ \A n \in 1 .. Len(channel[s]) : n = 1 \/ n > 1
          BY <4>1
        <5>2. CASE channel[s][1] = now
          <6>1. Of(channel[s][1]) /\ channel[s][1].status = step'[j][i]
            BY <2>b, <5>2
          <6>2. QED
            BY <4>5, <6>1
        <5> HIDE DEF Of, now
        <5>3. CASE Of(channel[s][1]) /\ channel[s][1] # now
          BY <2>c, <3>1, <4>2, <4>7, <5>1, <5>3
        <5>4. CASE ~Of(channel[s][1]) /\ channel[s][1] # now
          BY <2>c, <3>1, <4>2, <4>6, <4>7, <4>8, <5>1, <5>4
        <5>5. QED
          BY <5>2, <5>3, <5>4
      <4>9. QED
        BY <4>4, <4>8
    <3>6. ~SkipRow(s) /\ ~ReplayFails(s)
      BY <1>2 DEF SkipRow, ReplayFails, Following
    <3>7. QED
      BY <2>3, <3>2, <3>3, <3>4, <3>5, <3>6 DEF Page, Serve, Send, Fails
  <2>4. ~StreamCrash
    BY <1>2 DEF StreamCrash, Following
  <2>5. CASE Still(s) /\ ~Publish(j) /\ ~CloseSubscribers(j)
    <3>1. /\ Following(s) /\ channel'[s] = channel[s] /\ view'[s] = view[s]
          /\ i \in Replayed(s)' => i \in Replayed(s)
      BY <1>2, <2>5 DEF Still, Following, Replayed
    <3>2. outbox'[j] = outbox[j] \/ outbox[j] = Silent
      BY <2>4, <2>5, <2>a, OutboxOrigin DEF Said, Log
    <3>3. step'[j][i] = step[j][i] \/ outbox'[j] = now
      <4>1. CASE Said(j)
        <5>1. \E e \in Event : Speaks(j, e)
                /\ (step'[j][i] = step[j][i] \/ e = StepEvent(i, step'[j][i]))
          BY <2>a, <4>1, SaidIs
        <5>2. QED
          BY <1>b, <2>a, <5>1 DEF Speaks
      <4>2. CASE ~Said(j)
        BY <1>2, <2>a, <4>2, RanIsSaid
      <4>3. QED
        BY <4>1, <4>2
    <3> HIDE DEF Of, now
    <3>4. QED
      BY <2>b, <2>c, <3>1, <3>2, <3>3
  <2>6. QED
    BY <2>1, <2>2, <2>3, <2>4, <2>5, StillUnless
<1>3. QED
  BY <1>1, <1>2 DEF NoStatusMissed

(***************************************************************************)
(* A page that learnt the end from its channel has everything, for good.   *)
(***************************************************************************)
LEMMA TailHasAllStep ==
  ASSUME EngineInv, QuietBeforeUp, StreamTypeOK, EndIsLast, NoLineMissed, NoStatusMissed,
         TailHasAll, [StreamNext]_allVars
  PROVE  TailHasAll'
<1> SUFFICES ASSUME NEW s \in Streams, s \in fromChannel', s \notin gaps'
             PROVE  /\ \A i \in Steps, n \in 1 .. MaxLines :
                         i \in logPath'[WatchedBy[s]] /\ n <= file'[WatchedBy[s]][i]
                           => <<i, n>> \in seen'[s]
                    /\ lost' = 0 => \A i \in Steps : step'[WatchedBy[s]][i] \in Ran
                                       => view'[s][i] = step'[WatchedBy[s]][i]
  <2>1. fromChannel' \subseteq Streams
    BY StreamTypeStep DEF StreamTypeOK
  <2>2. QED
    BY <2>1 DEF TailHasAll
<1> DEFINE j == WatchedBy[s]
           Has == /\ \A i \in Steps, n \in 1 .. MaxLines :
                       i \in logPath[j] /\ n <= file[j][i] => <<i, n>> \in seen[s]
                  /\ lost = 0 => \A i \in Steps :
                       step[j][i] \in Ran => view[s][i] = step[j][i]
<1>a. /\ j \in Jobs /\ (lost' = 0 => lost = 0)
      /\ seen \in [Streams -> SUBSET Lines] /\ view \in [Streams -> [Steps -> StepStatus]]
      /\ final \in [Streams -> Terminal \cup {"none"}]
  BY StreamAssumption, EngineStep, LostGrows DEF EngineInv, IInv, StreamTypeOK
<1>0. ASSUME Has, Gone(j), seen'[s] = seen[s], view'[s] = view[s]
      PROVE  /\ \A i \in Steps, n \in 1 .. MaxLines :
                  i \in logPath'[j] /\ n <= file'[j][i] => <<i, n>> \in seen'[s]
             /\ lost' = 0 => \A i \in Steps :
                  step'[j][i] \in Ran => view'[s][i] = step'[j][i]
  <2>1. \A i \in Steps : i \in logPath'[j] => i \in logPath[j]
    BY <1>0, <1>a, PathsGrow DEF Gone, BeginStep
  <2>2. QED
    BY <1>0, <1>a, <2>1, GoneKept
<1>1. CASE s \in fromChannel
  <2>1. /\ final[s] # "none" /\ channel[s] = <<>> /\ Gone(j)
        /\ handler[s] \in {"off", "tail"}
    BY <1>1 DEF EndIsLast
  <2>2. /\ seen'[s] = seen[s] /\ view'[s] = view[s]
        /\ s \in gaps => s \in gaps'
    <3>1. CASE Page(s)
      <4>1. EndOfChannel(s) \/ Leave(s)
        BY <2>1, <3>1 DEF Page, Serve, Send, Subscribe, OpenRows, ReplayRow, EndReplay,
                          CheckStatus, Receive, Fails, SkipRow, ReplayFails, CheckFails
      <4>2. QED
        BY <4>1 DEF EndOfChannel, Leave, pageVars
    <3>2. CASE StreamCrash \/ Publish(j) \/ CloseSubscribers(j)
      BY <3>2 DEF StreamCrash, Publish, CloseSubscribers, pageVars
    <3>3. QED
      BY <3>1, <3>2, StillUnless DEF Still
  <2>3. Has
    BY <1>1, <2>2 DEF TailHasAll
  <2>4. QED
    BY <1>0, <2>1, <2>2, <2>3
<1>2. CASE s \notin fromChannel
  <2>1. Receive(s)
    <3>1. ~Still(s) /\ ~StreamCrash /\ ~Publish(j) /\ ~CloseSubscribers(j)
      BY <1>2 DEF Still, StreamCrash, Publish, CloseSubscribers, pageVars
    <3>2. QED
      BY <1>2, <3>1, StillUnless
      DEF Page, Serve, Send, Subscribe, OpenRows, ReplayRow, EndReplay, CheckStatus,
          EndOfChannel, Leave, Fails, SkipRow, ReplayFails, CheckFails, Fault, pageVars
  <2>2. /\ Ends(channel[s][1]) /\ channel[s][1] \in Event /\ Len(channel[s]) \in Nat \ {0}
        /\ seen'[s] = seen[s] /\ view'[s] = view[s]
    BY <1>2, <2>1, ReceiveIs DEF Show, Ends
  <2>3. Gone(j) /\ Len(channel[s]) = 1
    <3>1. 1 \in 1 .. Len(channel[s])
      BY <2>2
    <3>2. QED
      BY <2>2, <3>1 DEF EndIsLast
  <2>4. Following(s) /\ Replayed(s) = Steps
    BY <2>1 DEF Receive, Following, Replayed
  <2>5. ASSUME NEW e, ~Ends(e), e \notin {Silent, Closing}
        PROVE  ~Coming(s, e)
    <3>1. \A n \in 1 .. Len(channel[s]) : n = 1
      BY <2>3
    <3>2. QED
      BY <2>2, <2>3, <2>5, <3>1 DEF Coming, Gone
  <2>6. ASSUME NEW i \in Steps, NEW n \in 1 .. MaxLines, n <= file[j][i], i \in logPath[j]
        PROVE  <<i, n>> \in seen[s]
    <3>1. ~Ends(LineEvent(i, n)) /\ LineEvent(i, n) \notin {Silent, Closing}
      BY DEF LineEvent, Ends, Silent, Closing
    <3>2. QED
      BY <2>4, <2>5, <2>6, <3>1 DEF NoLineMissed
  <2>7. ASSUME lost = 0, NEW i \in Steps, step[j][i] \in Ran
        PROVE  view[s][i] = step[j][i]
    <3>1. /\ ~Ends(StepEvent(i, step[j][i]))
          /\ StepEvent(i, step[j][i]) \notin {Silent, Closing}
      BY DEF StepEvent, Ends, Silent, Closing
    <3>2. ~Coming(s, StepEvent(i, step[j][i]))
      BY <2>5, <3>1
    <3>3. QED
      BY <2>4, <2>7, <3>2 DEF NoStatusMissed
  <2>8. QED
    BY <1>0, <2>2, <2>3, <2>6, <2>7
<1>3. QED
  BY <1>1, <1>2

-----------------------------------------------------------------------------
(* What holds in every reachable state *)

(***************************************************************************)
(* The invariant is inductive.                                             *)
(***************************************************************************)
LEMMA StreamInvariance == StreamSpec => []StreamInv
<1>1. StreamInit => StreamInv
  <2> SUFFICES ASSUME StreamInit
               PROVE  StreamInv
    OBVIOUS
  <2>a. /\ Init /\ <<>> \in Seq(Event) /\ Len(<<>>) = 0
        /\ \A s \in Streams : channel[s] = <<>> /\ Len(channel[s]) = 0 /\ handler[s] = "off"
        /\ \A j \in Jobs : outbox[j] = Silent
    BY EmptySeq DEF StreamInit
  <2>b. Silent \notin Event /\ Silent # Closing /\ ~Ends(Silent)
        /\ \A i \in Steps, x \in StepStatus : Silent # StepEvent(i, x)
    BY EventFields DEF Silent, Closing, Ends, StepEvent
  <2>1. EngineInv
    BY <2>a, InitIInv DEF EngineInv, AllAhead, Ahead, Init
  <2>2. StreamTypeOK
    <3>1. TypeOK
      BY <2>1 DEF EngineInv, IInv
    <3>2. 1 \in 1 .. NumSteps + 1 /\ 0 \in 0 .. MaxLines
      BY NumStepsAssumption, StreamAssumption
    <3>3. QED
      BY <2>a, <3>1, <3>2, StreamAssumption DEF StreamInit, StreamTypeOK, StepStatus
  <2>3. QuietBeforeUp /\ NoLineMissed
    BY <2>a DEF QuietBeforeUp, NoLineMissed, Following
  <2>5. FilesAhead /\ LogsNamed
    BY <2>a DEF StreamInit, Init, FilesAhead, NothingYet, LogsNamed
  <2>4. LinesSafe /\ RowsSafe /\ EndIsLast /\ TailHasAll /\ NoStatusMissed
    BY <2>a, <2>b DEF StreamInit, LinesSafe, RowsSafe, EndIsLast, TailHasAll, NoStatusMissed,
                      Following
  <2>6. QED
    BY <2>1, <2>2, <2>3, <2>4, <2>5 DEF StreamInv
<1>2. StreamInv /\ [StreamNext]_allVars => StreamInv'
  BY EngineInvStep, StreamTypeStep, QuietBeforeUpStep, FilesAheadStep, LogsNamedStep,
     LinesSafeStep, RowsSafeStep, EndIsLastStep, NoLineMissedStep, NoStatusMissedStep,
     TailHasAllStep
  DEF StreamInv
<1>3. QED
  BY <1>1, <1>2, PTL DEF StreamSpec

(***************************************************************************)
(* Every variable of the streams has its type, channels within their       *)
(* capacity.                                                               *)
(***************************************************************************)
THEOREM StreamTypes == StreamSpec => []StreamTypeOK
<1>1. StreamInv => StreamTypeOK
  BY DEF StreamInv
<1>2. QED
  BY <1>1, StreamInvariance, PTL

(***************************************************************************)
(* What a page has shown is in the files and rows, so that a refresh after *)
(* any number of crashes replays at least as much: a line was flushed, and *)
(* a finished step or job was written, before it was published.            *)
(***************************************************************************)
THEOREM ShownIsKept == StreamSpec => []NothingShownEarly
<1>1. StreamInv => NothingShownEarly
  <2> SUFFICES ASSUME StreamInv, lost = 0, NEW s \in Streams
               PROVE  /\ seen[s] \subseteq LogOf(s)
                      /\ \A i \in Steps : view[s][i] \in {"succeeded", "failed"}
                           => step[WatchedBy[s]][i] = view[s][i]
                      /\ final[s] # "none" => status[WatchedBy[s]] = final[s]
    BY DEF NothingShownEarly
  <2>1. ASSUME NEW i \in Steps, NEW n \in 1 .. MaxLines, <<i, n>> \in seen[s]
        PROVE  <<i, n>> \in LogOf(s)
    <3>1. /\ n <= file[WatchedBy[s]][i] /\ n \in Nat \ {0}
          /\ file[WatchedBy[s]][i] \in Nat /\ WatchedBy[s] \in Jobs
      BY <2>1, StreamAssumption DEF StreamInv, StreamTypeOK, LinesSafe
    <3>2. i \in logPath[WatchedBy[s]]
      BY <3>1 DEF StreamInv, LogsNamed
    <3>3. QED
      BY <3>1, <3>2 DEF LogOf, Lines
  <2>3. seen[s] \subseteq LogOf(s)
    BY <2>1 DEF StreamInv, StreamTypeOK, Lines
  <2>2. QED
    BY <2>3 DEF StreamInv, RowsSafe
<1>2. QED
  BY <1>1, StreamInvariance, PTL

(***************************************************************************)
(* Subscribing before the replay loses nothing: whatever is published      *)
(* between the two, a page that is told of the end by its channel, which   *)
(* never was full, and whose replay read every row and file, shows all     *)
(* that a refresh would, and while no UPDATE was lost the whole log and    *)
(* each step's status.                                                     *)
(***************************************************************************)
THEOREM TailMissesNothing == StreamSpec => []TailIsComplete
<1>1. StreamInv => TailIsComplete
  <2> SUFFICES ASSUME StreamInv, NEW s \in fromChannel \ gaps
               PROVE  /\ LogOf(s) \subseteq seen[s]
                      /\ lost = 0 =>
                           \A i \in Steps :
                             /\ \A n \in 1 .. file[WatchedBy[s]][i] : <<i, n>> \in seen[s]
                             /\ step[WatchedBy[s]][i] \in {"running", "succeeded", "failed"}
                                  => view[s][i] = step[WatchedBy[s]][i]
    BY DEF TailIsComplete
  <2>1. s \in Streams /\ WatchedBy[s] \in Jobs
    BY StreamAssumption DEF StreamInv, StreamTypeOK
  <2>2. LogOf(s) \subseteq seen[s]
    BY DEF StreamInv, TailHasAll, LogOf, Lines
  <2>3. ASSUME lost = 0, NEW i \in Steps, NEW n \in 1 .. file[WatchedBy[s]][i]
        PROVE  <<i, n>> \in seen[s]
    <3>1. file[WatchedBy[s]][i] \in 0 .. MaxLines /\ MaxLines \in Nat
      BY <2>1, StreamAssumption DEF StreamInv, StreamTypeOK
    <3>2. n \in 1 .. MaxLines /\ n <= file[WatchedBy[s]][i] /\ file[WatchedBy[s]][i] > 0
      BY <3>1
    <3>3. i \in logPath[WatchedBy[s]]
      BY <2>1, <2>3, <3>2 DEF StreamInv, LogsNamed
    <3>4. QED
      BY <3>2, <3>3 DEF StreamInv, TailHasAll
  <2>4. QED
    BY <2>2, <2>3 DEF StreamInv, TailHasAll, Ran
<1>2. QED
  BY <1>1, StreamInvariance, PTL

-----------------------------------------------------------------------------
(* The engine below the streams *)

(***************************************************************************)
(* Whoever watches, publishing and replaying leave the engine what it is   *)
(* alone: with its streams it implements JobEngine, so every theorem about *)
(* that one holds of it too.                                               *)
(***************************************************************************)
THEOREM StreamsLeaveTheEngine == StreamSpec => Spec
<1>1. StreamInit => Init
  BY DEF StreamInit
<1>2. [StreamNext]_allVars => [Next]_vars
  BY EngineStep
<1> QED
  BY <1>1, <1>2, PTL DEF StreamSpec, Spec
=============================================================================
