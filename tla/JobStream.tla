------------------------------ MODULE JobStream ------------------------------
(***************************************************************************)
(* What a browser sees of a job: the engine of JobEngine, extended with    *)
(* the log files its steps write, the subscriber channels publish feeds,   *)
(* and handleJobStream, which replays the rows and files and then tails    *)
(* its channel.  The store has one connection (SetMaxOpenConns(1)): every  *)
(* statement of the engine waits for it, and a stream holds it from the    *)
(* query of the step rows until the last of them is sent to the client.    *)
(* A handler whose read of the rows, of a log file or of the job's status  *)
(* fails goes on without what it could not read.                           *)
(*                                                                         *)
(* Every action is an action of JobEngine with its publish, or leaves the  *)
(* engine's variables unchanged.                                           *)
(***************************************************************************)
EXTENDS JobEngine, Sequences

CONSTANTS
  Streams,      \* browser pages, each with an EventSource
  WatchedBy,    \* stream -> the job whose page it is
  Capacity,     \* of a subscriber channel, 256 in Subscribe
  MaxLines,     \* bound: log lines of one step
  MaxLeaves,    \* bound: how often a page loses its connection
  MaxFaults     \* bound: reads of the handlers that fail

ASSUME StreamAssumption ==
  /\ WatchedBy \in [Streams -> Jobs]
  /\ Capacity \in Nat \ {0} /\ MaxLines \in Nat
  /\ MaxLeaves \in Nat /\ MaxFaults \in Nat

VARIABLES
  conn,         \* who holds the database connection: Free or a stream
  file,         \* lines in the log file of each step of each job
  logPath,      \* the step rows of each job that name a log file
  outbox,       \* what the job's goroutine publishes next
  handler,      \* where each stream's handler is
  row,          \* the next step row a replaying handler reads
  channel,      \* subscriber channel of each stream: events not yet received
  open,         \* streams whose channel is in Engine.broadcast
  seen,         \* browser: the lines shown, as <<step, line>>
  view,         \* browser: the step statuses it was sent
  final,        \* browser: the final job status shown, or "none"
  gaps,         \* history: streams that had an event dropped or a read of
                \* their replay fail
  fromChannel,  \* history: streams that learnt the final status by tailing
  blind,        \* history: streams that missed the end, and nobody will close
  leaves, faults

logVars    == <<file, logPath, outbox>>
chanVars   == <<channel, open, gaps>>
pageVars   == <<seen, view, final, fromChannel>>
faultVars  == <<blind, faults>>
handleVars == <<conn, handler, row, leaves, faultVars>>
streamVars == <<logVars, chanVars, pageVars, handleVars>>

Free    == "free"
Silent  == [kind |-> "silent"]
Closing == [kind |-> "close"]
JobEvent(s)     == [kind |-> "job", status |-> s]
StepEvent(i, s) == [kind |-> "step", seq |-> i, status |-> s]
LineEvent(i, n) == [kind |-> "line", seq |-> i, line |-> n]
Lines == Steps \X (1 .. MaxLines)

Event ==
  {JobEvent(s) : s \in JobStatus \ {"absent"}}
    \cup {StepEvent(i, s) : i \in Steps, s \in StepStatus}
    \cup {LineEvent(i, n) : i \in Steps, n \in 1 .. MaxLines}

StreamTypeOK ==
  /\ TypeOK
  /\ conn \in Streams \cup {Free}
  /\ file \in [Jobs -> [Steps -> 0 .. MaxLines]]
  /\ logPath \in [Jobs -> SUBSET Steps]
  /\ outbox \in [Jobs -> Event \cup {Silent, Closing}]
  /\ handler \in [Streams -> {"off", "subscribed", "replay", "check", "tail"}]
  /\ row \in [Streams -> 1 .. NumSteps + 1]
  /\ channel \in [Streams -> Seq(Event)]
  /\ \A s \in Streams : Len(channel[s]) <= Capacity
  /\ open \in SUBSET Streams
  /\ seen \in [Streams -> SUBSET Lines]
  /\ view \in [Streams -> [Steps -> StepStatus]]
  /\ final \in [Streams -> Terminal \cup {"none"}]
  /\ gaps \in SUBSET Streams /\ fromChannel \in SUBSET Streams
  /\ blind \in SUBSET Streams
  /\ leaves \in Nat /\ faults \in Nat

StreamInit ==
  /\ Init
  /\ conn = Free
  /\ file = [j \in Jobs |-> [i \in Steps |-> 0]]
  /\ logPath = [j \in Jobs |-> {}]
  /\ outbox = [j \in Jobs |-> Silent]
  /\ handler = [s \in Streams |-> "off"]
  /\ row = [s \in Streams |-> 1]
  /\ channel = [s \in Streams |-> <<>>]
  /\ open = {}
  /\ seen = [s \in Streams |-> {}]
  /\ view = [s \in Streams |-> [i \in Steps |-> "pending"]]
  /\ final = [s \in Streams |-> "none"]
  /\ gaps = {} /\ fromChannel = {} /\ blind = {}
  /\ leaves = 0 /\ faults = 0

-----------------------------------------------------------------------------
(* The goroutine of a job: a statement, then its event, then the next      *)
(* statement.                                                              *)

Speaks(j, e) ==
  /\ outbox' = [outbox EXCEPT ![j] = e]
  /\ UNCHANGED <<file, chanVars, pageVars, handleVars>>

\* One UPDATE starts a step and names its log file; both are lost together.
NameLog(j) ==
  logPath' = IF step'[j][idx[j]] = "running" THEN [logPath EXCEPT ![j] = @ \cup {idx[j]}]
             ELSE logPath

\* Statements that are followed by a publish.
Announced(j) ==
  \/ BeginStep(j) /\ Speaks(j, StepEvent(idx[j], "running")) /\ NameLog(j)
  \/ /\ \/ Begin(j) /\ Speaks(j, JobEvent("running"))
        \/ Abort(j) /\ Speaks(j, JobEvent("failed"))
        \/ StepSucceeds(j) /\ Speaks(j, StepEvent(idx[j], "succeeded"))
        \/ StepFails(j) /\ Speaks(j, StepEvent(idx[j], "failed"))
        \/ Finish(j) /\ Speaks(j, JobEvent(outcome[j]))
     /\ UNCHANGED logPath

\* Statements nobody is told about: a skipped step is one of them.
Unannounced(j) ==
  /\ ListSteps(j) \/ SkipCancelled(j) \/ SkipRest(j)
  /\ UNCHANGED streamVars

\* A statement needs the connection.
Statement(j) == conn = Free /\ outbox[j] = Silent /\ (Announced(j) \/ Unannounced(j))

\* What run does without the database.
Local(j) ==
  /\ outbox[j] = Silent
  /\ Register(j) \/ OpenLog(j) \/ Judge(j) \/ Exit(j)
  /\ UNCHANGED streamVars

\* Mutant of Log: the line is published without having been flushed.
LogUnflushed(j) ==
  LET i == idx[j] IN
  /\ pc[j] = "fn" /\ outbox[j] = Silent
  /\ file[j][i] < MaxLines
  /\ outbox' = [outbox EXCEPT ![j] = LineEvent(i, file[j][i] + 1)]
  /\ UNCHANGED <<vars, file, logPath, chanVars, pageVars, handleVars>>

\* Logf: the line is flushed to the step's file before it is published.
Log(j) ==
  LET i == idx[j] IN
  /\ pc[j] = "fn" /\ outbox[j] = Silent
  /\ file[j][i] < MaxLines
  /\ file' = [file EXCEPT ![j][i] = @ + 1]
  /\ outbox' = [outbox EXCEPT ![j] = LineEvent(i, file[j][i] + 1)]
  /\ UNCHANGED <<vars, logPath, chanVars, pageVars, handleVars>>

Subscribers(j) == {s \in open : WatchedBy[s] = j}

\* publish: an event goes to every subscriber whose channel has room and is
\* dropped for the others.  After a final event, closeSubscribers is next.
Publish(j) ==
  LET e == outbox[j]
      full == {s \in Subscribers(j) : Len(channel[s]) = Capacity}
  IN
  /\ e \notin {Silent, Closing}
  /\ channel' = [s \in Streams |->
       IF s \in Subscribers(j) \ full THEN Append(channel[s], e) ELSE channel[s]]
  /\ gaps' = gaps \cup full
  /\ outbox' = [outbox EXCEPT ![j] =
       IF e.kind = "job" /\ e.status \in Terminal THEN Closing ELSE Silent]
  /\ UNCHANGED <<vars, file, logPath, open, pageVars, handleVars>>

\* Mutant of CloseSubscribers: the channels are forgotten, not closed.
CloseNobody(j) ==
  /\ outbox[j] = Closing
  /\ outbox' = [outbox EXCEPT ![j] = Silent]
  /\ UNCHANGED <<vars, file, logPath, channel, open, gaps, pageVars, handleVars>>

CloseSubscribers(j) ==
  /\ outbox[j] = Closing
  /\ open' = open \ Subscribers(j)
  /\ outbox' = [outbox EXCEPT ![j] = Silent]
  /\ UNCHANGED <<vars, file, logPath, channel, gaps, pageVars, handleVars>>

Goroutine(j) == Statement(j) \/ Local(j) \/ Publish(j) \/ CloseSubscribers(j)

-----------------------------------------------------------------------------
(* handleJobStream *)

\* Subscribe and "connected".  The page retries while it has no final status.
Subscribe(s) ==
  /\ phase = "up" /\ status[WatchedBy[s]] # "absent"
  /\ handler[s] = "off" /\ final[s] = "none"
  /\ handler' = [handler EXCEPT ![s] = "subscribed"]
  /\ open' = open \cup {s}
  /\ channel' = [channel EXCEPT ![s] = <<>>]
  /\ gaps' = gaps \ {s} /\ blind' = blind \ {s}
  /\ UNCHANGED <<vars, logVars, pageVars, conn, row, leaves, faults>>

\* Query the step rows: the cursor keeps the connection.
OpenRows(s) ==
  /\ handler[s] = "subscribed" /\ conn = Free
  /\ conn' = s
  /\ handler' = [handler EXCEPT ![s] = "replay"]
  /\ row' = [row EXCEPT ![s] = 1]
  /\ UNCHANGED <<vars, logVars, chanVars, pageVars, leaves, faultVars>>

\* The lines of the log files that the step rows name: what a replay sends.
LogOf(s) ==
  LET j == WatchedBy[s] IN {l \in Lines : l[1] \in logPath[j] /\ l[2] <= file[j][l[1]]}

\* A step that has not started is not shown.
SendStatus(s, i) ==
  LET now == step[WatchedBy[s]][i] IN
  view' = IF now # "pending" THEN [view EXCEPT ![s][i] = now] ELSE view

\* Send one row and the lines its log file has by now.
ReplayRow(s) ==
  LET i == row[s] IN
  /\ handler[s] = "replay" /\ i \in Steps
  /\ SendStatus(s, i)
  /\ seen' = [seen EXCEPT ![s] = @ \cup {l \in LogOf(s) : l[1] = i}]
  /\ row' = [row EXCEPT ![s] = i + 1]
  /\ UNCHANGED <<vars, logVars, chanVars, final, fromChannel, conn, handler, leaves, faultVars>>

\* Mutants of EndReplay: the subscription starts only here, so the channel is
\* a new one; the loop is left by a break, and the cursor stays open until the
\* handler returns.
SubscribeAfterReplay(s) ==
  /\ handler[s] = "replay" /\ row[s] = NumSteps + 1
  /\ conn' = Free
  /\ handler' = [handler EXCEPT ![s] = "check"]
  /\ row' = [row EXCEPT ![s] = 1]
  /\ channel' = [channel EXCEPT ![s] = <<>>]
  /\ UNCHANGED <<vars, logVars, open, gaps, pageVars, leaves, faultVars>>

LeaveRowsOpen(s) ==
  /\ handler[s] = "replay" /\ row[s] = NumSteps + 1
  /\ handler' = [handler EXCEPT ![s] = "check"]
  /\ row' = [row EXCEPT ![s] = 1]
  /\ UNCHANGED <<vars, logVars, chanVars, pageVars, conn, leaves, faultVars>>

\* rows.Next is false: the cursor is closed and the connection given back.
EndReplay(s) ==
  /\ handler[s] = "replay" /\ row[s] = NumSteps + 1
  /\ conn' = Free
  /\ handler' = [handler EXCEPT ![s] = "check"]
  /\ row' = [row EXCEPT ![s] = 1]
  /\ UNCHANGED <<vars, logVars, chanVars, pageVars, leaves, faultVars>>

\* The handler returns: the deferred Unsubscribe runs, the response ends.
Return(s) ==
  /\ handler' = [handler EXCEPT ![s] = "off"]
  /\ open' = open \ {s}
  /\ channel' = [channel EXCEPT ![s] = <<>>]

\* jobStatus: a finished job is reported at once and the handler returns
\* without looking at its channel; otherwise it tails.
CheckStatus(s) ==
  LET now == status[WatchedBy[s]] IN
  /\ handler[s] = "check" /\ conn = Free
  /\ \/ /\ now \in Terminal
        /\ final' = [final EXCEPT ![s] = now]
        /\ Return(s)
     \/ /\ now \in Active
        /\ handler' = [handler EXCEPT ![s] = "tail"]
        /\ UNCHANGED <<final, open, channel>>
  /\ UNCHANGED <<vars, logVars, gaps, seen, view, fromChannel, conn, row, leaves, faultVars>>

\* onmessage in job_progress.html; after a final status the page is closed.
Show(s, e) ==
  /\ seen' = IF e.kind = "line" THEN [seen EXCEPT ![s] = @ \cup {<<e.seq, e.line>>}] ELSE seen
  /\ view' = IF e.kind = "step" THEN [view EXCEPT ![s][e.seq] = e.status] ELSE view
  /\ IF e.kind = "job" /\ e.status \in Terminal
     THEN final' = [final EXCEPT ![s] = e.status] /\ fromChannel' = fromChannel \cup {s}
     ELSE UNCHANGED <<final, fromChannel>>

Receive(s) ==
  /\ handler[s] = "tail" /\ channel[s] # <<>>
  /\ Show(s, Head(channel[s]))
  /\ channel' = [channel EXCEPT ![s] = Tail(@)]
  /\ UNCHANGED <<vars, logVars, open, gaps, handleVars>>

\* The channel is closed and drained.
EndOfChannel(s) ==
  /\ handler[s] = "tail" /\ channel[s] = <<>> /\ s \notin open
  /\ Return(s)
  /\ UNCHANGED <<vars, logVars, gaps, pageVars, conn, row, leaves, faultVars>>

\* The client goes away while the handler tails: r.Context().Done().
Leave(s) ==
  /\ handler[s] = "tail" /\ leaves < MaxLeaves
  /\ leaves' = leaves + 1
  /\ Return(s)
  /\ UNCHANGED <<vars, logVars, gaps, pageVars, conn, row, faultVars>>

\* A read of the handler fails: it is logged, and the handler goes on.
Fault ==
  /\ faults < MaxFaults
  /\ faults' = faults + 1
  /\ UNCHANGED <<vars, logVars, channel, open, seen, final, fromChannel, leaves>>

\* The row cannot be scanned, or its log file cannot be read: the next row.
SkipRow(s) ==
  LET i == row[s] IN
  /\ handler[s] = "replay" /\ i \in Steps
  /\ UNCHANGED view \/ (i \in logPath[WatchedBy[s]] /\ SendStatus(s, i))
  /\ row' = [row EXCEPT ![s] = i + 1]
  /\ gaps' = gaps \cup {s}
  /\ Fault
  /\ UNCHANGED <<conn, handler, blind>>

\* The query fails, or the rows end early: nothing more is replayed.
ReplayFails(s) ==
  /\ \/ handler[s] = "subscribed" /\ conn = Free
     \/ handler[s] = "replay" /\ row[s] \in Steps
  /\ conn' = Free
  /\ handler' = [handler EXCEPT ![s] = "check"]
  /\ row' = [row EXCEPT ![s] = 1]
  /\ gaps' = gaps \cup {s}
  /\ Fault
  /\ UNCHANGED <<view, blind>>

\* The page will hear no more of its job: it was too late for the final event
\* and for closeSubscribers.
TooLate(s) ==
  LET j == WatchedBy[s] IN
  s \in open /\ pc[j] \in {"closing", "none"} /\ outbox[j] = Silent

\* jobStatus fails: the handler tails, whether or not the job is still active.
CheckFails(s) ==
  /\ handler[s] = "check" /\ conn = Free
  /\ handler' = [handler EXCEPT ![s] = "tail"]
  /\ blind' = IF TooLate(s) THEN blind \cup {s} ELSE blind
  /\ Fault
  /\ UNCHANGED <<view, conn, row, gaps>>

\* Sending is what a client that does not read delays; the rest of the handler
\* is the server's own doing.
Send(s)  == ReplayRow(s) \/ Receive(s)
Serve(s) == OpenRows(s) \/ EndReplay(s) \/ CheckStatus(s) \/ EndOfChannel(s)

-----------------------------------------------------------------------------

\* The process dies with its handlers, channels and connection.
StreamCrash ==
  /\ Crash
  /\ conn' = Free
  /\ outbox' = [j \in Jobs |-> Silent]
  /\ handler' = [s \in Streams |-> "off"]
  /\ open' = {}
  /\ channel' = [s \in Streams |-> <<>>]
  /\ row' = [s \in Streams |-> 1]
  /\ UNCHANGED <<file, logPath, pageVars, gaps, leaves, faultVars>>

Reconcile == (ReconcileJobs \/ ReconcileSteps) /\ UNCHANGED streamVars

CancelJob(j) == Cancel(j) /\ UNCHANGED streamVars

SubmitJob(j) ==
  /\ conn = Free
  /\ \E k \in Keys \cup {NoKey} : Submit(j, k)
  /\ UNCHANGED streamVars

StreamNext ==
  \/ \E j \in Jobs : Goroutine(j) \/ Log(j) \/ CancelJob(j) \/ SubmitJob(j)
  \/ \E s \in Streams :
       \/ Subscribe(s) \/ Serve(s) \/ Send(s) \/ Leave(s)
       \/ SkipRow(s) \/ ReplayFails(s) \/ CheckFails(s)
  \/ StreamCrash \/ Reconcile

allVars == <<vars, streamVars>>

StreamSpec == StreamInit /\ [][StreamNext]_allVars

\* Goroutines run, step functions return (Goroutine includes the statement
\* that records it), the process is restarted, an open page retries.
ServerFairness ==
  /\ \A j \in Jobs : WF_allVars(Goroutine(j))
  /\ \A s \in Streams : WF_allVars(Subscribe(s)) /\ WF_allVars(Serve(s))
  /\ WF_allVars(Reconcile)

\* The client reads what it is sent.
ClientReads == \A s \in Streams : WF_allVars(Send(s))

LiveStreamSpec    == StreamSpec /\ ServerFairness /\ ClientReads
StalledStreamSpec == StreamSpec /\ ServerFairness

-----------------------------------------------------------------------------
(* Properties *)

(***************************************************************************)
(* Nothing is shown before it is safe from a crash: a line is in its file, *)
(* a finished step and a final status are in their rows.  What a refresh   *)
(* replays is never less than what the page has shown.                     *)
(***************************************************************************)
NothingShownEarly ==
  lost = 0 =>
    \A s \in Streams :
      LET j == WatchedBy[s] IN
      /\ seen[s] \subseteq LogOf(s)
      /\ \A i \in Steps : view[s][i] \in {"succeeded", "failed"} => step[j][i] = view[s][i]
      /\ final[s] # "none" => status[j] = final[s]

(***************************************************************************)
(* Subscribing before the replay pays off: a page that learnt the outcome  *)
(* from its channel, with no event dropped and no row or file unreadable,  *)
(* shows what a refresh would; while no UPDATE was lost, that is the whole *)
(* log and the status of every step that ran.                              *)
(***************************************************************************)
TailIsComplete ==
  \A s \in fromChannel \ gaps :
    LET j == WatchedBy[s] IN
    /\ LogOf(s) \subseteq seen[s]
    /\ lost = 0 =>
         \A i \in Steps :
           /\ \A n \in 1 .. file[j][i] : <<i, n>> \in seen[s]
           /\ step[j][i] \in {"running", "succeeded", "failed"} => view[s][i] = step[j][i]

(***************************************************************************)
(* A page that opened a stream eventually shows how the job ended, dropped *)
(* events, lost connections, restarts and unreadable rows notwithstanding. *)
(* The one way out: the status of a job that had ended could not be read   *)
(* (handleJobStream goes on to tail), and nobody is left to close the      *)
(* channel.                                                                *)
(***************************************************************************)
EveryWatcherLearns ==
  \A s \in Streams : handler[s] = "subscribed" ~> final[s] # "none" \/ s \in blind

-----------------------------------------------------------------------------
(* What comments say and the code does not do: each is refuted by a run.   *)

(***************************************************************************)
(* "Subscribe BEFORE replay so we never miss a line produced in the gap"   *)
(* (handleJobStream): a page that shows an outcome, with no event dropped  *)
(* and nothing unreadable, shows the whole log.                            *)
(***************************************************************************)
NeverMissesALine ==
  \A s \in Streams : final[s] # "none" /\ s \notin gaps => seen[s] = LogOf(s)

(***************************************************************************)
(* "Slow subscriber; drop rather than block the job" (publish): a job that *)
(* was submitted ends whether or not anybody reads its stream.             *)
(***************************************************************************)
SlowReaderBlocksNobody ==
  \A j \in Jobs : status[j] \in Active ~> status[j] \in Terminal
=============================================================================
