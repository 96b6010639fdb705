----------------------------- MODULE Subagents -----------------------------
(* Subagents of one thread: background tasks that a run starts, that        *)
(* outlive it, and that this or a later run of the thread waits for with    *)
(* subagent_poll.  A poll subscribes to activity, reads the row, looks the  *)
(* task up in activeSubagentExecutions, settles an orphan or waits.         *)
(*                                                                          *)
(* The runs of the thread execute one after the other (RunLifecycle) and    *)
(* take next_step input (RunInputs).                                        *)
EXTENDS Naturals

CONSTANTS
  Subagent,   \* ids of subagent_runs
  NoSubagent, \* no subagent
  MaxRuns,    \* bound: runs of the thread
  MaxInputs,  \* bound: next_step inputs of a run
  MaxLost,    \* bound: inputs committed although their request failed
  MaxStops    \* bound: crashes and SIGTERMs

ASSUME SubagentAssumption == NoSubagent \notin Subagent
ASSUME BoundAssumption == /\ MaxRuns \in Nat \ {0} /\ MaxInputs \in Nat
                          /\ MaxLost \in Nat /\ MaxStops \in Nat

VARIABLES
  \* ---- rows in PostgreSQL
  row,       \* subagent_runs.status, "none" before the row exists
  parent,    \* subagent_runs.parent_run_id, 0 before the row exists
  run,       \* the latest run of the thread
  runnable,  \* whether its status is running
  version,   \* its input_version
  \* ---- memory of the server process
  exec,      \* the executor of run: "none", "model" or "tools"
  applied,   \* lastAppliedExternalInputVersion
  task,      \* the promise chain of startSubagent
  active,    \* activeSubagentExecutions
  aborted,   \* the runs whose entry in activeExecutions is aborted
  poll,      \* where pollSubagent stands
  polled,    \* the subagent it is about
  seen,      \* the status its last query returned
  woken,     \* whether its activity promise is resolved
  notifying, \* requests between the commit of an input and notifyRunActivity
  server,    \* "up", "stopping" or "down"
  \* ---- history
  told,      \* the outcome of a subagent that a poll has returned
  lost,      \* inputs of run whose request failed after the commit
  stops      \* crashes and SIGTERMs so far

runVars == <<run, runnable, version, applied, lost>>
taskVars == <<row, parent, task, active>>
pollVars == <<poll, polled, seen, woken, told>>
processVars == <<aborted, server, stops>>
vars == <<runVars, taskVars, pollVars, processVars, exec, notifying>>

RowState == {"none", "running", "done", "error"}
Settled == {"done", "error"}

(***************************************************************************)
(* "created" between createSubagentRun and retainRunExecution, "works"      *)
(* turns and tools, "succeeded" a final text, "written" after done is       *)
(* saved, "failed" in the catch block, "reports" about to save error,       *)
(* "ends" before the finally block, "none" otherwise.                       *)
(***************************************************************************)
TaskState == {"none", "created", "works", "succeeded", "written", "failed",
              "reports", "ends"}

(***************************************************************************)
(* "read" subscribed and querying the row, "decide" the row is there,       *)
(* "orphan" settling an orphan, "reread" querying it again, "input"         *)
(* querying the run, "wait" on the activity promise, "none" otherwise.      *)
(***************************************************************************)
PollState == {"none", "read", "decide", "orphan", "reread", "input", "wait"}

TypeOK ==
  /\ row \in [Subagent -> RowState]
  /\ parent \in [Subagent -> 0..MaxRuns]
  /\ run \in 1..MaxRuns
  /\ runnable \in BOOLEAN
  /\ version \in 0..MaxInputs
  /\ exec \in {"none", "model", "tools"}
  /\ applied \in 0..MaxInputs
  /\ task \in [Subagent -> TaskState]
  /\ active \subseteq Subagent
  /\ aborted \subseteq 1..MaxRuns
  /\ poll \in PollState
  /\ polled \in Subagent \cup {NoSubagent}
  /\ seen \in RowState
  /\ woken \in BOOLEAN
  /\ notifying \in [1..MaxRuns -> Nat]
  /\ server \in {"up", "stopping", "down"}
  /\ told \in [Subagent -> {"none"} \cup Settled]
  /\ lost \in 0..MaxLost
  /\ stops \in 0..MaxStops

Init ==
  /\ row = [s \in Subagent |-> "none"] /\ parent = [s \in Subagent |-> 0]
  /\ run = 1 /\ runnable = TRUE /\ version = 0 /\ applied = 0
  /\ exec = "model"
  /\ task = [s \in Subagent |-> "none"] /\ active = {} /\ aborted = {}
  /\ poll = "none" /\ polled = NoSubagent /\ seen = "none" /\ woken = FALSE
  /\ notifying = [r \in 1..MaxRuns |-> 0]
  /\ server = "up"
  /\ told = [s \in Subagent |-> "none"] /\ lost = 0 /\ stops = 0

Aborted == run \in aborted

\* The runs that hold an entry of activeExecutions.
Held ==
  {r \in 1..MaxRuns : (exec # "none" /\ r = run) \/ \E s \in active : parent[s] = r}

\* The executor is between two tool calls: it runs them one at a time.
Idle == exec = "tools" /\ poll = "none" /\ \A s \in Subagent : task[s] # "created"

\* Mutant: the outcome is written over whatever is there.
FinishRowAlways(s, outcome) == row' = [row EXCEPT ![s] = outcome]

\* finishSubagentRun settles a running row and no other.
FinishRow(s, outcome) ==
  row' = IF row[s] = "running" THEN [row EXCEPT ![s] = outcome] ELSE row

\* Mutant: a poll subscribes to its own run only.
WakeOwn(r) == woken' = (woken \/ (poll # "none" /\ r = run))

\* notifyRunActivity(r): a poll subscribes to its own run and to the parent.
Wake(r) == woken' = (woken \/ (poll # "none" /\ r \in {run, parent[polled]}))

-----------------------------------------------------------------------------
(* The run and its inputs.                                                  *)

\* The top of the loop applies pending inputs, then the model is asked.
Request ==
  /\ exec = "model" /\ ~Aborted
  /\ applied' = version
  /\ exec' = "tools"
  /\ UNCHANGED <<run, runnable, version, lost, taskVars, pollVars, processVars, notifying>>

\* The tools of a step are done.
NextStep ==
  /\ Idle
  /\ exec' = "model"
  /\ UNCHANGED <<runVars, taskVars, pollVars, processVars, notifying>>

\* The run ends by itself, or its executor sees the abort at the top of the
\* loop; its subagents go on.
RunEnds ==
  /\ exec = "model" \/ Idle
  /\ exec' = "none"
  /\ runnable' = (runnable /\ Aborted)
  /\ UNCHANGED <<run, version, applied, lost, taskVars, pollVars, processVars, notifying>>

\* A new run of the thread.
NextRun ==
  /\ server = "up"
  /\ exec = "none" /\ ~runnable
  /\ run < MaxRuns
  /\ run' = run + 1
  /\ runnable' = TRUE /\ version' = 0 /\ applied' = 0 /\ lost' = 0
  /\ exec' = "model"
  /\ UNCHANGED <<taskVars, pollVars, processVars, notifying>>

\* A cancel request reaches the run, or late one that has ended while a
\* subagent still holds its entry.
Cancel(r) ==
  /\ server # "down"
  /\ r \in Held
  /\ aborted' = aborted \cup {r}
  /\ runnable' = (runnable /\ r # run)
  /\ UNCHANGED <<run, version, applied, lost, taskVars, pollVars, server, stops, exec, notifying>>

\* appendNextStep commits an input.  When the request fails after the commit,
\* its retry is a replay, and a replay does not notify.
AppendNextStep ==
  /\ server # "down"
  /\ runnable
  /\ version < MaxInputs
  /\ version' = version + 1
  /\ \/ /\ notifying' = [notifying EXCEPT ![run] = @ + 1]
        /\ UNCHANGED lost
     \/ /\ lost < MaxLost
        /\ lost' = lost + 1
        /\ UNCHANGED notifying
  /\ UNCHANGED <<run, runnable, applied, taskVars, pollVars, processVars, exec>>

NotifyInput(r) ==
  /\ notifying[r] > 0
  /\ notifying' = [notifying EXCEPT ![r] = @ - 1]
  /\ Wake(r)
  /\ UNCHANGED <<runVars, taskVars, poll, polled, seen, told, processVars, exec>>

-----------------------------------------------------------------------------
(* subagent_run and the background task.                                    *)

\* startSubagent commits the row ...
StartSubagent(s) ==
  /\ Idle /\ ~Aborted
  /\ row[s] = "none"
  /\ row' = [row EXCEPT ![s] = "running"]
  /\ parent' = [parent EXCEPT ![s] = run]
  /\ task' = [task EXCEPT ![s] = "created"]
  /\ UNCHANGED <<runVars, active, pollVars, processVars, exec, notifying>>

\* ... then retains the execution and enters the task.
Activate(s) ==
  /\ task[s] = "created"
  /\ task' = [task EXCEPT ![s] = "works"]
  /\ active' = active \cup {s}
  /\ UNCHANGED <<runVars, row, parent, pollVars, processVars, exec, notifying>>

\* completeSubagent: the signal is checked after every turn and every tool,
\* and a failure is thrown to the catch block.
TaskWorks(s) ==
  /\ task[s] = "works"
  /\ \/ /\ parent[s] \notin aborted
        /\ task' = [task EXCEPT ![s] = "succeeded"]
     \/ task' = [task EXCEPT ![s] = "failed"]
  /\ UNCHANGED <<runVars, row, parent, active, pollVars, processVars, exec, notifying>>

\* The result is saved, or the query fails.
SaveResult(s) ==
  /\ task[s] = "succeeded"
  /\ \/ /\ FinishRow(s, "done")
        /\ task' = [task EXCEPT ![s] = "written"]
     \/ /\ task' = [task EXCEPT ![s] = "failed"]
        /\ UNCHANGED row
  /\ UNCHANGED <<runVars, parent, active, pollVars, processVars, exec, notifying>>

\* The event of a saved result is written, or throws into the catch block.
EmitFinished(s) ==
  /\ task[s] = "written"
  /\ \E next \in {"ends", "failed"} : task' = [task EXCEPT ![s] = next]
  /\ UNCHANGED <<runVars, row, parent, active, pollVars, processVars, exec, notifying>>

\* The catch block leaves the row alone when a shutdown interrupted the task.
CatchFailure(s) ==
  /\ task[s] = "failed"
  /\ task' = [task EXCEPT ![s] = IF server = "stopping" /\ parent[s] \in aborted
                                 THEN "ends" ELSE "reports"]
  /\ UNCHANGED <<runVars, row, parent, active, pollVars, processVars, exec, notifying>>

\* The error is saved; when the query fails the outer catch block tries again
\* and then gives up.
SaveError(s) ==
  /\ task[s] = "reports"
  /\ FinishRow(s, "error") \/ UNCHANGED row
  /\ task' = [task EXCEPT ![s] = "ends"]
  /\ UNCHANGED <<runVars, parent, active, pollVars, processVars, exec, notifying>>

\* The finally block: delete, notify and release in one turn of the event loop.
EndTask(s) ==
  /\ task[s] = "ends"
  /\ task' = [task EXCEPT ![s] = "none"]
  /\ active' = active \ {s}
  /\ Wake(parent[s])
  /\ UNCHANGED <<runVars, row, parent, poll, polled, seen, told, processVars, exec, notifying>>

-----------------------------------------------------------------------------
(* subagent_poll.                                                           *)

\* The call returns: its finally block drops the subscription.
ReturnPoll == poll' = "none" /\ polled' = NoSubagent /\ seen' = "none" /\ woken' = FALSE

\* A subagent of this thread that exists: subscribe and query its row.
StartPoll(s) ==
  /\ Idle /\ ~Aborted
  /\ row[s] # "none"
  /\ poll' = "read" /\ polled' = s /\ woken' = FALSE
  /\ UNCHANGED <<runVars, taskVars, seen, told, processVars, exec, notifying>>

PollRead ==
  /\ poll = "read"
  /\ seen' = row[polled]
  /\ poll' = "decide"
  /\ UNCHANGED <<runVars, taskVars, polled, woken, told, processVars, exec, notifying>>

\* The row is settled: return it.
PollSettled ==
  /\ poll = "decide" /\ ~Aborted
  /\ seen \in Settled
  /\ told' = [told EXCEPT ![polled] = seen]
  /\ ReturnPoll
  /\ UNCHANGED <<runVars, taskVars, processVars, exec, notifying>>

\* Mutant: a running row is an orphan.
PollNeverLooksUp ==
  /\ poll = "decide" /\ ~Aborted
  /\ seen \notin Settled
  /\ poll' = "orphan"
  /\ UNCHANGED <<runVars, taskVars, polled, seen, woken, told, processVars, exec, notifying>>

\* The row was running; the set says whether a task of this process is on it.
PollLooksUp ==
  /\ poll = "decide" /\ ~Aborted
  /\ seen \notin Settled
  /\ poll' = IF polled \in active THEN "input" ELSE "orphan"
  /\ UNCHANGED <<runVars, taskVars, polled, seen, woken, told, processVars, exec, notifying>>

\* An orphan is settled, unless a concurrent end was first ...
PollOrphan ==
  /\ poll = "orphan"
  /\ FinishRow(polled, "error")
  /\ poll' = "reread"
  /\ UNCHANGED <<runVars, parent, task, active, polled, seen, woken, told, processVars, exec, notifying>>

\* Mutants: the orphan's error, or the row as it was, is returned unread.
PollRereadSkipped ==
  /\ poll = "reread"
  /\ told' = [told EXCEPT ![polled] = "error"]
  /\ ReturnPoll
  /\ UNCHANGED <<runVars, taskVars, processVars, exec, notifying>>
PollRereadStale ==
  /\ poll = "reread"
  /\ told' = [told EXCEPT ![polled] = seen]
  /\ ReturnPoll
  /\ UNCHANGED <<runVars, taskVars, processVars, exec, notifying>>

\* ... and what the row says then is returned.
PollReread ==
  /\ poll = "reread"
  /\ told' = [told EXCEPT ![polled] = row[polled]]
  /\ ReturnPoll
  /\ UNCHANGED <<runVars, taskVars, processVars, exec, notifying>>

\* Mutant: the subscription is made after the query, before the wait.
PollSubscribesLate ==
  /\ poll = "input"
  /\ IF version > applied
       THEN ReturnPoll
       ELSE poll' = "wait" /\ woken' = FALSE /\ UNCHANGED <<polled, seen>>
  /\ UNCHANGED <<runVars, taskVars, told, processVars, exec, notifying>>

\* An input the executor has not applied ends the poll, else it waits.
PollInput ==
  /\ poll = "input"
  /\ IF version > applied
       THEN ReturnPoll
       ELSE poll' = "wait" /\ UNCHANGED <<polled, seen, woken>>
  /\ UNCHANGED <<runVars, taskVars, told, processVars, exec, notifying>>

\* Activity: subscribe anew and query again.
PollAgain ==
  /\ poll = "wait" /\ woken /\ ~Aborted
  /\ poll' = "read" /\ woken' = FALSE /\ seen' = "none"
  /\ UNCHANGED <<runVars, taskVars, polled, told, processVars, exec, notifying>>

\* The signal of the run ends the poll.
PollAborted ==
  /\ poll \in {"decide", "wait"} /\ Aborted
  /\ ReturnPoll
  /\ UNCHANGED <<runVars, taskVars, told, processVars, exec, notifying>>

PollStep ==
  \/ PollRead \/ PollSettled \/ PollLooksUp \/ PollOrphan \/ PollReread
  \/ PollInput \/ PollAgain \/ PollAborted

-----------------------------------------------------------------------------
(* The process.                                                             *)

\* stopAcceptingNewRunExecutions aborts every entry.
Shutdown ==
  /\ server = "up"
  /\ stops < MaxStops
  /\ stops' = stops + 1
  /\ server' = "stopping"
  /\ aborted' = aborted \cup Held
  /\ UNCHANGED <<runVars, taskVars, pollVars, exec, notifying>>

\* The process ends and its memory with it.
Exit ==
  /\ server' = "down"
  /\ exec' = "none"
  /\ task' = [s \in Subagent |-> "none"] /\ active' = {} /\ aborted' = {}
  /\ ReturnPoll
  /\ notifying' = [r \in 1..MaxRuns |-> 0]
  /\ UNCHANGED <<runVars, row, parent, told>>

\* waitForAllRunExecutions and the requests in flight are done.
ShutdownEnds ==
  /\ server = "stopping"
  /\ Held = {}
  /\ \A r \in 1..MaxRuns : notifying[r] = 0
  /\ Exit
  /\ UNCHANGED stops

Crash ==
  /\ server # "down"
  /\ stops < MaxStops
  /\ stops' = stops + 1
  /\ Exit

\* recoverInterruptedRuns starts the run again.
Restart ==
  /\ server = "down"
  /\ server' = "up"
  /\ exec' = IF runnable THEN "model" ELSE "none"
  /\ UNCHANGED <<runVars, taskVars, pollVars, aborted, stops, notifying>>

Task(s) ==
  \/ Activate(s) \/ TaskWorks(s) \/ SaveResult(s) \/ EmitFinished(s)
  \/ CatchFailure(s) \/ SaveError(s) \/ EndTask(s)

Next ==
  \/ Request \/ NextStep \/ RunEnds \/ NextRun \/ AppendNextStep
  \/ \E r \in 1..MaxRuns : Cancel(r) \/ NotifyInput(r)
  \/ \E s \in Subagent : StartSubagent(s) \/ StartPoll(s) \/ Task(s)
  \/ PollStep
  \/ Shutdown \/ ShutdownEnds \/ Crash \/ Restart

Spec == Init /\ [][Next]_vars

\* The event loop runs the continuations of a poll and of a request.  Nothing
\* is assumed of the tasks: a subagent may work for ever.
FairSpec ==
  /\ Spec
  /\ WF_vars(PollStep)
  /\ \A r \in 1..MaxRuns : WF_vars(NotifyInput(r))

-----------------------------------------------------------------------------
(* Properties.                                                              *)

\* While a task of this process still works its row is running: no poll takes
\* a live subagent, of this run or of an earlier one, for an orphan.
LiveIsRunning ==
  \A s \in active : task[s] \in {"works", "succeeded"} => row[s] = "running"

\* What a poll has told of a subagent stays true: it is the outcome in the row.
ToldIsTrue == \A s \in Subagent : told[s] # "none" => row[s] = told[s]

\* A poll that waits unwoken waits for something: its subagent is in progress
\* in this process, and an input it has not seen is about to notify it, unless
\* that input's request failed.
NoLostWakeup ==
  poll = "wait" /\ ~woken =>
    /\ polled \in active
    /\ version > applied => notifying[run] > 0 \/ lost > 0

\* The outcome of a subagent is final: neither a late error of its own nor the
\* verdict of a poll replaces it.
OutcomeFinal ==
  [][\A s \in Subagent : row[s] \in Settled => row'[s] = row[s]]_vars

\* A poll whose subagent has no task, whose run is aborted or has new input
\* ends, even if every subagent works for ever.
PollWakes ==
  /\ poll # "none" /\ (polled \notin active \/ Aborted) ~> poll = "none"
  /\ poll # "none" /\ version > applied /\ lost = 0 ~> poll = "none"
=============================================================================
