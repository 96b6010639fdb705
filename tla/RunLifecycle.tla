---------------------------- MODULE RunLifecycle ----------------------------
(***************************************************************************)
(* The life of the runs of RunForge's threads: the rows in PostgreSQL      *)
(* (runs.status, threads.executing_run_id, threads.active_run_id), the     *)
(* process-local registry of executors, the executor of each run, the HTTP *)
(* and external handlers that cancel, continue and answer a run, and the   *)
(* crash, shutdown and restart of the one server process.                  *)
(*                                                                         *)
(* One step is the code between two awaits that matter: a transaction of   *)
(* the store, or the synchronous code of one process turn.  PostgreSQL     *)
(* runs the transactions at READ COMMITTED: one that starts with an update *)
(* is a step, for it locks the row until it commits; one that reads first  *)
(* (beginRunExecution, resumeRun, external cancel) is a step for the read  *)
(* and a step for the rest.                                                *)
(***************************************************************************)
EXTENDS Naturals, FiniteSets

CONSTANTS
  Run,           \* the runs that may ever be created
  Thread,        \* the threads
  threadOf,      \* the thread every run belongs to
  External,      \* runs of external threads: no ask_user, cancel by run.cancel
  NextStep,      \* external runs whose space config allows next_step input
  NoRun,         \* SQL NULL in executing_run_id / active_run_id
  HardStepCap,   \* deps.hardStepCap: model requests of one execution
  MaxBackground, \* bound: background holders (subagents, title) of one run
  MaxContinues,  \* bound: /continue requests of one run in flight
  MaxStops       \* bound: crashes and shutdowns of the process

ASSUME ThreadAssumption == threadOf \in [Run -> Thread]
ASSUME NoRunAssumption == NoRun \notin Run
ASSUME ExternalAssumption == NextStep \subseteq External /\ External \subseteq Run
ASSUME BoundAssumption ==
  /\ HardStepCap \in Nat \ {0}
  /\ MaxBackground \in Nat /\ MaxContinues \in Nat /\ MaxStops \in Nat

VARIABLES
  \* ---- rows in PostgreSQL, which survive the process
  status,      \* runs.status, "absent" before the row exists
  slot,        \* threads.executing_run_id, the thread's only execution slot
  leaf,        \* threads.active_run_id, the leaf of the shown branch
  \* ---- memory of the server process
  server,      \* "up", "stopping" after SIGTERM, "down"
  exec,        \* where the main executor of a run stands
  steps,       \* model requests the executor has made in this execution
  background,  \* holders of the registration besides the main executor
  aborted,     \* the registration's AbortSignal
  launch,      \* handlers that committed this run and will call executeRun
  cancel,      \* where the handler of a cancel request stands
  continuing,  \* /continue handlers that have passed their checks
  resuming,    \* ... and whose resumeRun has read the run and its slot
  recovering,  \* what startup recovery still has to do for a run
  stops        \* crashes and shutdowns so far

vars == <<status, slot, leaf, server, exec, steps, background, aborted,
          launch, cancel, continuing, resuming, recovering, stops>>

Terminal == {"done", "error", "canceled"}
RunStatus == {"pending", "running", "canceling", "waiting_for_user"} \cup Terminal

(***************************************************************************)
(* "failing" is the catch block before the start (bad configuration),      *)
(* "starting" a beginRunExecution that has read an active run,             *)
(* "loop" the status check at the top of a step, "step" the model request  *)
(* and its tools, "...Write" an outcome already decided and not yet        *)
(* written, "caught" the catch block of an aborted run, "cleanup" the      *)
(* finally blocks (completed step, MCP, leases) before the registration    *)
(* ends.                                                                   *)
(***************************************************************************)
ExecState == {"none", "registered", "failing", "starting", "loop", "step", "doneWrite",
              "errorWrite", "waitWrite", "cancelWrite", "caught", "cleanup"}
CancelState == {"idle", "active", "waiting", "externalRead", "abort", "finished"}

TypeOK ==
  /\ status \in [Run -> RunStatus \cup {"absent"}]
  /\ slot \in [Thread -> Run \cup {NoRun}]
  /\ leaf \in [Thread -> Run \cup {NoRun}]
  /\ server \in {"up", "stopping", "down"}
  /\ exec \in [Run -> ExecState]
  /\ steps \in [Run -> 0..HardStepCap]
  /\ background \in [Run -> 0..MaxBackground]
  /\ aborted \in [Run -> BOOLEAN]
  /\ launch \in [Run -> Nat]
  /\ cancel \in [Run -> CancelState]
  /\ continuing \in [Run -> Nat]
  /\ resuming \in [Run -> Nat]
  /\ recovering \in [Run -> {"none", "canceling", "interrupted"}]
  /\ stops \in 0..MaxStops

Init ==
  /\ status = [r \in Run |-> "absent"]
  /\ slot = [t \in Thread |-> NoRun]
  /\ leaf = [t \in Thread |-> NoRun]
  /\ server = "up"
  /\ exec = [r \in Run |-> "none"]
  /\ steps = [r \in Run |-> 0]
  /\ background = [r \in Run |-> 0]
  /\ aborted = [r \in Run |-> FALSE]
  /\ launch = [r \in Run |-> 0]
  /\ cancel = [r \in Run |-> "idle"]
  /\ continuing = [r \in Run |-> 0]
  /\ resuming = [r \in Run |-> 0]
  /\ recovering = [r \in Run |-> "none"]
  /\ stops = 0

-----------------------------------------------------------------------------
(* The store.                                                              *)

SlotFree(r) == slot[threadOf[r]] \in {NoRun, r}

\* Mutants of SetRunStatus: a failed run keeps its slot; a late write of a run
\* that has ended clears the slot of its successor.
SetRunStatusKeepsSlot(r, s) ==
  /\ status' = [status EXCEPT ![r] = s]
  /\ slot' = [slot EXCEPT ![threadOf[r]] =
                IF s \notin {"done", "canceled"} THEN r ELSE IF @ = r THEN NoRun ELSE @]
  /\ UNCHANGED leaf
SetRunStatusClearsSlot(r, s) ==
  /\ status' = [status EXCEPT ![r] = s]
  /\ slot' = [slot EXCEPT ![threadOf[r]] = IF s \notin Terminal THEN r ELSE NoRun]
  /\ UNCHANGED leaf

\* setRunStatus writes the new status whatever the current one is.  A status
\* that is not terminal claims the slot (its caller must have SlotFree(r));
\* a terminal one releases it if the run still holds it.
SetRunStatus(r, s) ==
  /\ status' = [status EXCEPT ![r] = s]
  /\ slot' = [slot EXCEPT ![threadOf[r]] =
                IF s \notin Terminal THEN r ELSE IF @ = r THEN NoRun ELSE @]
  /\ UNCHANGED leaf

-----------------------------------------------------------------------------
(* The registry of executors (activeExecutions).                           *)

Registered(r) == exec[r] # "none" \/ background[r] > 0

\* isExecutionShuttingDown; its mutant does not know of the shutdown.
ShuttingDownUnknown == FALSE
ShuttingDown == server = "stopping"

\* registerRunExecution throws: a main executor is active, the entry kept by
\* a background holder was aborted, or the server takes no new entry.
Refused(r) ==
  \/ exec[r] # "none"
  \/ background[r] > 0 /\ aborted[r]
  \/ ~Registered(r) /\ server # "up"

\* The process ends.  Its memory is gone; requests in flight are lost.
Exit ==
  /\ server' = "down"
  /\ exec' = [r \in Run |-> "none"]
  /\ steps' = [r \in Run |-> 0]
  /\ background' = [r \in Run |-> 0]
  /\ aborted' = [r \in Run |-> FALSE]
  /\ launch' = [r \in Run |-> 0]
  /\ cancel' = [r \in Run |-> IF cancel[r] = "idle" THEN "idle" ELSE "finished"]
  /\ continuing' = [r \in Run |-> 0]
  /\ resuming' = [r \in Run |-> 0]
  /\ recovering' = [r \in Run |-> "none"]
  /\ UNCHANGED <<status, slot, leaf>>

Abort(rs) == aborted' = [r \in Run |-> aborted[r] \/ (r \in rs /\ Registered(r))]

\* finish() of a registration: the last holder deletes the entry and with it
\* its AbortSignal.
Release(r, execAfter, backgroundAfter) ==
  /\ exec' = [exec EXCEPT ![r] = execAfter]
  /\ background' = [background EXCEPT ![r] = backgroundAfter]
  /\ aborted' = [aborted EXCEPT ![r] =
                   @ /\ (execAfter # "none" \/ backgroundAfter > 0)]

-----------------------------------------------------------------------------
(* Handlers that admit a run and start its executor.                       *)

\* POST /threads/:id/runs, /runs/:id/branch, run.create and run.append: the
\* new row and the claim of the free slot are one transaction.  Requests are
\* let in only while the server is up.
CreateRun(r) ==
  /\ server = "up"
  /\ status[r] = "absent"
  /\ slot[threadOf[r]] = NoRun
  /\ status' = [status EXCEPT ![r] = "pending"]
  /\ slot' = [slot EXCEPT ![threadOf[r]] = r]
  /\ leaf' = [leaf EXCEPT ![threadOf[r]] = r]
  /\ launch' = [launch EXCEPT ![r] = @ + 1]
  /\ UNCHANGED <<server, exec, steps, background, aborted, cancel, continuing,
                 resuming, recovering, stops>>

\* resumeRun: compare-and-set of the status, then the claim of the slot, which
\* rolls it back when another run holds the slot.
Resumable(r, expected) == status[r] \in expected /\ SlotFree(r)

ResumeRun(r, expected) ==
  /\ Resumable(r, expected)
  /\ status' = [status EXCEPT ![r] = "pending"]
  /\ slot' = [slot EXCEPT ![threadOf[r]] = r]
  /\ launch' = [launch EXCEPT ![r] = @ + 1]
  /\ UNCHANGED leaf

handlerOnly == <<server, exec, steps, background, aborted, cancel, recovering, stops>>

\* POST /runs/:id/continue reads the run and its thread ...
ContinueRead(r) ==
  /\ server = "up"
  /\ r \notin External
  /\ continuing[r] + resuming[r] + launch[r] < MaxContinues
  /\ leaf[threadOf[r]] = r
  /\ status[r] \in {"error", "pending"}
  /\ continuing' = [continuing EXCEPT ![r] = @ + 1]
  /\ UNCHANGED <<status, slot, leaf, launch, resuming, handlerOnly>>

\* What resumeRun's first read lets pass, a pending run only if it has lost its
\* slot; the mutant does not look at the slot.
PassesReadUnchecked(r) == status[r] \in {"error", "pending"}
PassesRead(r) ==
  /\ status[r] \in {"error", "pending"}
  /\ status[r] = "pending" => slot[threadOf[r]] # r

\* ... some queries later resumeRun reads them again, or the answer is 409 ...
ContinueCheck(r) ==
  /\ continuing[r] > 0
  /\ continuing' = [continuing EXCEPT ![r] = @ - 1]
  /\ \/ PassesRead(r) /\ resuming' = [resuming EXCEPT ![r] = @ + 1]
     \/ ~PassesRead(r) /\ UNCHANGED resuming
  /\ UNCHANGED <<status, slot, leaf, launch, handlerOnly>>

\* ... and updates them: the update takes a run that has meanwhile become
\* pending as well as one that is still in error.
ContinueResume(r) ==
  /\ resuming[r] > 0
  /\ resuming' = [resuming EXCEPT ![r] = @ - 1]
  /\ \/ ResumeRun(r, {"error", "pending"})
     \/ ~Resumable(r, {"error", "pending"}) /\ UNCHANGED <<status, slot, leaf, launch>>
  /\ UNCHANGED <<continuing, handlerOnly>>

\* POST /runs/:id/answer: the answer and the resumption commit together.
Answer(r) ==
  /\ server = "up"
  /\ ResumeRun(r, {"waiting_for_user"})
  /\ UNCHANGED <<continuing, resuming, handlerOnly>>

\* executeRun registers synchronously: the AbortSignal of a fresh entry is not
\* aborted, that of an entry kept by a background holder is shared.
Register(r) ==
  /\ ~Refused(r)
  /\ exec' = [exec EXCEPT ![r] = "registered"]
  /\ steps' = [steps EXCEPT ![r] = 0]
  /\ UNCHANGED <<server, background, aborted, cancel, continuing, resuming>>

\* The handler calls "void executeRun(...)".  Nobody handles its rejection, so
\* a refused registration is an unhandled rejection, which ends the process.
Launch(r) ==
  /\ launch[r] > 0
  /\ \/ /\ Register(r)
        /\ launch' = [launch EXCEPT ![r] = @ - 1]
        /\ UNCHANGED <<status, slot, leaf, recovering>>
     \/ Refused(r) /\ Exit
  /\ UNCHANGED stops

-----------------------------------------------------------------------------
(* The executor of a run.                                                  *)

requestVars == <<launch, cancel, continuing, resuming, recovering, stops>>
executorOnly == <<leaf, server, requestVars>>

Goto(r, state) ==
  /\ exec' = [exec EXCEPT ![r] = state]
  /\ UNCHANGED <<background, aborted, executorOnly>>

\* The configuration of the run cannot be used: the catch block before the
\* start first asks whether the server is shutting down ...
FailBeforeStart(r) ==
  /\ exec[r] = "registered"
  /\ Goto(r, IF ShuttingDown THEN "cleanup" ELSE "failing")
  /\ UNCHANGED <<status, slot, steps>>

\* ... then reads the run, and takes an aborted signal for a user's cancel.
ReportFailure(r) ==
  /\ exec[r] = "failing"
  /\ LET cancelled == aborted[r] \/ status[r] \in {"canceling", "canceled"}
     IN  Goto(r, CASE ~cancelled -> "errorWrite"
                   [] cancelled /\ status[r] = "canceled" -> "cleanup"
                   [] OTHER -> "cancelWrite")
  /\ UNCHANGED <<status, slot, steps>>

\* beginRunExecution reads the run.  A run that is no longer active is not
\* started; its cancel is completed here.
NotStarted(r) ==
  Goto(r, IF status[r] = "canceling" /\ ~ShuttingDown
          THEN "cancelWrite" ELSE "cleanup")

BeginRead(r) ==
  /\ exec[r] = "registered"
  /\ \/ status[r] \in {"pending", "running"} /\ Goto(r, "starting")
     \/ status[r] \notin {"pending", "running"} /\ NotStarted(r)
  /\ UNCHANGED <<status, slot, steps>>

\* It claims the slot and then sets the status on the condition that the run
\* is still active.  When it is not, the transaction commits all the same: the
\* claim stays.  An occupied slot throws outside any try block.
BeginClaim(r) ==
  /\ exec[r] = "starting"
  /\ \/ /\ SlotFree(r)
        /\ slot' = [slot EXCEPT ![threadOf[r]] = r]
        /\ \/ /\ status[r] \in {"pending", "running"}
              /\ status' = [status EXCEPT ![r] = "running"]
              /\ Goto(r, "loop")
           \/ /\ status[r] \notin {"pending", "running"}
              /\ NotStarted(r)
              /\ UNCHANGED status
        /\ UNCHANGED steps
     \/ ~SlotFree(r) /\ Exit /\ UNCHANGED stops

\* The loop runs for hardStepCap steps; its mutant for one more.
CapReachedLate(r) == steps[r] > HardStepCap
CapReached(r) == steps[r] >= HardStepCap

\* The top of the step loop: the hard cap, then abort and status.
LoopTop(r) ==
  /\ exec[r] = "loop"
  /\ LET cancelled == aborted[r] \/ status[r] \in {"canceling", "canceled"}
     IN  Goto(r, CASE CapReached(r) -> "errorWrite"
                   [] ~CapReached(r) /\ ~cancelled -> "step"
                   [] OTHER -> IF ShuttingDown THEN "cleanup" ELSE "cancelWrite")
  /\ steps' = [steps EXCEPT ![r] = IF CapReached(r) THEN @ ELSE @ + 1]
  /\ UNCHANGED <<status, slot>>

InStep(r) == exec[r] = "step" /\ UNCHANGED <<status, slot, steps>>

\* Tools have run, or the answer was empty: next step.
StepContinues(r) == InStep(r) /\ Goto(r, "loop")

\* A final text.  With next_step allowed the run first closes its input by a
\* compare-and-set on an active status, and goes on looping when that fails.
StepFinal(r) ==
  /\ InStep(r)
  /\ Goto(r, IF r \in NextStep /\ status[r] \notin {"pending", "running"}
             THEN "loop" ELSE "doneWrite")

\* An abnormal finish reason, the external loop guard, or any exception while
\* the signal is not aborted.
StepFails(r) == InStep(r) /\ Goto(r, "errorWrite")

\* ask_user, the stall limit and the loop guard pause a web run.
StepAsks(r) == InStep(r) /\ r \notin External /\ Goto(r, "waitWrite")

\* The aborted model request or tool call throws.
StepAborted(r) == InStep(r) /\ aborted[r] /\ Goto(r, "caught")

\* subagent_run retains the registration.
StartSubagent(r) ==
  /\ exec[r] = "step"
  /\ background[r] < MaxBackground
  /\ background' = [background EXCEPT ![r] = @ + 1]
  /\ UNCHANGED <<status, slot, exec, steps, aborted, executorOnly>>

\* A subagent or the title generation ends.
BackgroundEnds(r) ==
  /\ background[r] > 0
  /\ Release(r, exec[r], background[r] - 1)
  /\ UNCHANGED <<status, slot, steps, executorOnly>>

\* The catch block of an aborted run, after it recorded interrupted results.
Caught(r) ==
  /\ exec[r] = "caught"
  /\ Goto(r, IF ShuttingDown \/ status[r] = "canceled" THEN "cleanup" ELSE "cancelWrite")
  /\ UNCHANGED <<status, slot, steps>>

\* The final status, then title generation may retain the registration.
WriteDone(r) ==
  /\ exec[r] = "doneWrite"
  /\ SetRunStatus(r, "done")
  /\ \E b \in {background[r], background[r] + 1} :
       /\ b <= MaxBackground
       /\ r \in External => b = background[r]
       /\ Release(r, "cleanup", b)
  /\ UNCHANGED <<steps, server, requestVars>>

WriteOutcome(r, state, s) ==
  /\ exec[r] = state
  /\ SetRunStatus(r, s)
  /\ Release(r, "cleanup", background[r])
  /\ UNCHANGED <<steps, server, requestVars>>

WriteError(r) == WriteOutcome(r, "errorWrite", "error")
WriteCanceled(r) == WriteOutcome(r, "cancelWrite", "canceled")

\* A slot taken by another run makes setRunStatus throw into the catch block.
WriteWaiting(r) ==
  \/ /\ SlotFree(r)
     /\ WriteOutcome(r, "waitWrite", "waiting_for_user")
  \/ /\ exec[r] = "waitWrite"
     /\ ~SlotFree(r)
     /\ Goto(r, IF aborted[r] THEN "caught" ELSE "errorWrite")
     /\ UNCHANGED <<status, slot, steps>>

\* Mutant of Finish: the holder leaves only when the run has ended.
FinishEnded(r) ==
  /\ exec[r] = "cleanup" /\ status[r] \in Terminal
  /\ Release(r, "none", background[r])
  /\ UNCHANGED <<status, slot, steps, executorOnly>>

\* The finally blocks are done and the main holder leaves the registry.
Finish(r) ==
  /\ exec[r] = "cleanup"
  /\ Release(r, "none", background[r])
  /\ UNCHANGED <<status, slot, steps, executorOnly>>

-----------------------------------------------------------------------------
(* Handlers that cancel a run.                                             *)

cancelOnly == <<server, exec, steps, background, launch, continuing, resuming,
                recovering, stops>>

\* POST /runs/:id/cancel reads the status and then kills the run's commands.
CancelRead(r) ==
  /\ server = "up"
  /\ r \notin External
  /\ cancel[r] \in {"idle", "finished"}
  /\ \/ status[r] = "waiting_for_user" /\ cancel' = [cancel EXCEPT ![r] = "waiting"]
     \/ status[r] \in {"pending", "running"} /\ cancel' = [cancel EXCEPT ![r] = "active"]
  /\ UNCHANGED <<status, slot, leaf, aborted, cancelOnly>>

\* It had read waiting_for_user: canceled at once.
CancelWaiting(r) ==
  /\ cancel[r] = "waiting"
  /\ SetRunStatus(r, "canceled")
  /\ cancel' = [cancel EXCEPT ![r] = "finished"]
  /\ UNCHANGED <<aborted, cancelOnly>>

\* It had read pending or running: canceling, or 500 if the slot is taken.
CancelActive(r) ==
  /\ cancel[r] = "active"
  /\ \/ /\ SlotFree(r)
        /\ SetRunStatus(r, "canceling")
        /\ cancel' = [cancel EXCEPT ![r] = "abort"]
     \/ /\ ~SlotFree(r)
        /\ cancel' = [cancel EXCEPT ![r] = "finished"]
        /\ UNCHANGED <<status, slot, leaf>>
  /\ UNCHANGED <<aborted, cancelOnly>>

\* run.cancel reads the row in its transaction; a run that another request is
\* cancelling is written once more ...
ExternalCancelRead(r) ==
  /\ server = "up"
  /\ r \in External
  /\ cancel[r] \in {"idle", "finished"}
  /\ status[r] \in {"pending", "running", "canceling"}
  /\ cancel' = [cancel EXCEPT ![r] = "externalRead"]
  /\ UNCHANGED <<status, slot, leaf, aborted, cancelOnly>>

\* ... and updates it by its id, without a condition and without the slot.
ExternalCancelWrite(r) ==
  /\ cancel[r] = "externalRead"
  /\ status' = [status EXCEPT ![r] = "canceling"]
  /\ cancel' = [cancel EXCEPT ![r] = "abort"]
  /\ UNCHANGED <<slot, leaf, aborted, cancelOnly>>

\* abortRunExecution, after the transaction (and the commands) are done.
CancelAbort(r) ==
  /\ cancel[r] = "abort"
  /\ Abort({r})
  /\ cancel' = [cancel EXCEPT ![r] = "finished"]
  /\ UNCHANGED <<status, slot, leaf, cancelOnly>>

-----------------------------------------------------------------------------
(* The process.                                                            *)

Crash ==
  /\ server # "down"
  /\ stops < MaxStops
  /\ stops' = stops + 1
  /\ Exit

\* SIGTERM: no new request, no new entry, every execution aborted.
Shutdown ==
  /\ server = "up"
  /\ stops < MaxStops
  /\ stops' = stops + 1
  /\ server' = "stopping"
  /\ Abort(Run)
  /\ UNCHANGED <<status, slot, leaf, exec, steps, background, launch, cancel,
                 continuing, resuming, recovering>>

\* Requests, executions and the recovery task have drained: process.exit.
Drained ==
  \A r \in Run : /\ ~Registered(r)
                 /\ launch[r] = 0 /\ continuing[r] = 0 /\ resuming[r] = 0
                 /\ cancel[r] \in {"idle", "finished"}
                 /\ recovering[r] = "none"
ShutdownEnds ==
  /\ server = "stopping"
  /\ Drained
  /\ Exit
  /\ UNCHANGED stops

\* What startup recovery does for a run of each status; the mutant lists the
\* running ones only.
ToRecoverRunning(s) == IF s = "running" THEN "interrupted" ELSE "none"
ToRecover(s) ==
  CASE s \in {"pending", "running"} -> "interrupted"
    [] s = "canceling" -> "canceling"
    [] OTHER -> "none"

\* The container restarts the process.  Listing the runs to recover is the
\* first query the listening server issues, before any request reaches it.
Restart ==
  /\ server = "down"
  /\ server' = "up"
  /\ recovering' = [r \in Run |-> ToRecover(status[r])]
  /\ UNCHANGED <<status, slot, leaf, exec, steps, background, aborted, launch,
                 cancel, continuing, resuming, stops>>

\* recoverInterruptedRuns: one run of the list at a time, until shutdown.
Recover(r) ==
  /\ recovering[r] # "none"
  /\ recovering' = [recovering EXCEPT ![r] = "none"]
  /\ \/ /\ server = "stopping"
        /\ UNCHANGED <<status, slot, leaf, server, exec, steps, background,
                       aborted, cancel, continuing, resuming>>
     \/ /\ server = "up" /\ recovering[r] = "canceling"
        /\ SetRunStatus(r, "canceled")
        /\ UNCHANGED <<server, exec, steps, background, aborted, cancel, continuing,
                       resuming>>
     \/ /\ server = "up" /\ recovering[r] = "interrupted"
        /\ Register(r)
        /\ UNCHANGED <<status, slot, leaf>>
  /\ UNCHANGED <<launch, stops>>

-----------------------------------------------------------------------------

Handlers(r) ==
  \/ CreateRun(r) \/ Answer(r) \/ Launch(r)
  \/ ContinueRead(r) \/ ContinueCheck(r) \/ ContinueResume(r)
  \/ CancelRead(r) \/ CancelWaiting(r) \/ CancelActive(r)
  \/ ExternalCancelRead(r) \/ ExternalCancelWrite(r) \/ CancelAbort(r)

LeavesStep(r) ==
  StepContinues(r) \/ StepFinal(r) \/ StepFails(r) \/ StepAsks(r) \/ StepAborted(r)

WritesOutcome(r) ==
  WriteDone(r) \/ WriteError(r) \/ WriteCanceled(r) \/ WriteWaiting(r)

Executor(r) ==
  \/ FailBeforeStart(r) \/ ReportFailure(r) \/ BeginRead(r) \/ BeginClaim(r) \/ LoopTop(r)
  \/ LeavesStep(r) \/ StartSubagent(r) \/ BackgroundEnds(r)
  \/ Caught(r) \/ WritesOutcome(r) \/ Finish(r)

Process == Crash \/ Shutdown \/ ShutdownEnds \/ Restart \/ \E r \in Run : Recover(r)

Next == Process \/ \E r \in Run : Handlers(r) \/ Executor(r)

Spec == Init /\ [][Next]_vars

(***************************************************************************)
(* The event loop runs every continuation that is ready, model requests    *)
(* and tools end (they have timeouts and the hard cap), and the container  *)
(* is restarted (restart: unless-stopped).  Users promise nothing.         *)
(***************************************************************************)
ExecutorProgress(r) ==
  \/ FailBeforeStart(r) \/ ReportFailure(r) \/ BeginRead(r) \/ BeginClaim(r) \/ LoopTop(r)
  \/ LeavesStep(r) \/ Caught(r) \/ WritesOutcome(r) \/ Finish(r)

FairSpec ==
  /\ Spec
  /\ \A r \in Run :
       /\ WF_vars(Launch(r)) /\ WF_vars(ContinueCheck(r)) /\ WF_vars(ContinueResume(r))
       /\ WF_vars(CancelWaiting(r)) /\ WF_vars(CancelActive(r))
       /\ WF_vars(ExternalCancelWrite(r)) /\ WF_vars(CancelAbort(r))
       /\ WF_vars(ExecutorProgress(r)) /\ WF_vars(BackgroundEnds(r))
       /\ WF_vars(Recover(r))
  /\ WF_vars(Restart) /\ WF_vars(ShutdownEnds)

-----------------------------------------------------------------------------
(* Safety.                                                                 *)

Executing == {"loop", "step", "doneWrite", "errorWrite", "waitWrite", "cancelWrite", "caught"}

\* A thread's execution slot never points to a run that is done or failed, to
\* a run that was rolled back or to a run of another thread: such a slot would
\* refuse every later run of the thread (RUN_ACTIVE) until the database is
\* repaired by hand.  Only a run that a user canceled can keep it (README,
\* section 6).
SlotOwnerLive ==
  \A t \in Thread : slot[t] # NoRun =>
    /\ threadOf[slot[t]] = t
    /\ status[slot[t]] \notin {"absent", "done", "error"}
    /\ status[slot[t]] = "canceled" => cancel[slot[t]] # "idle"

\* A run that may still execute or be answered holds its thread's slot, so
\* that beginRunExecution and resumeRun never find it taken by another run.
\* Only run.cancel of an external run can leave a canceling run without it.
LiveRunHoldsSlot ==
  \A r \in Run :
    \/ status[r] \in {"pending", "running", "waiting_for_user"}
    \/ status[r] = "canceling" /\ r \notin External
    => slot[threadOf[r]] = r

\* While startup recovery has a run of its list still to start, no request of
\* the listening server starts it first, ends it or makes it wait for an
\* answer: recovery's executeRun is never refused, and never runs a second
\* executor of the run.
RecoveryExclusive ==
  \A r \in Run : recovering[r] = "interrupted" =>
    /\ exec[r] = "none" /\ background[r] = 0 /\ launch[r] = 0
    /\ status[r] \in {"pending", "running", "canceling"}

\* Once the loop has been entered, only a request of a user turns a run into
\* canceled: the abort of a shutting-down server, an exception or the hard cap
\* never does, in this process or in the next.
CancelNeedsRequest ==
  \A r \in Run :
    \/ status[r] = "canceling"
    \/ exec[r] = "cancelWrite" /\ steps[r] > 0
    => cancel[r] # "idle"

-----------------------------------------------------------------------------
(* Liveness.                                                               *)

\* Every admitted or resumed run ends, pauses or is being cancelled, across
\* crashes, shutdowns and refused registrations: recovery never drops a run.
RunProgress ==
  \A r \in Run : status[r] \in {"pending", "running"}
                   ~> status[r] \notin {"pending", "running"}

\* SIGTERM drains: no executor, background holder, handler or recovery waits
\* for another one forever.
ShutdownCompletes == server = "stopping" ~> server = "down"

\* After a restart a run that was being cancelled becomes canceled.
CancelingSettlesAfterRestart ==
  \A r \in Run : server = "down" /\ status[r] = "canceling" ~> status[r] = "canceled"

-----------------------------------------------------------------------------
(* What the documentation promises and the code does not keep: TLC finds   *)
(* it violated (see README, section 6).                                    *)

\* At most one run of a thread executes at a time.
OneExecutorPerThread ==
  \A r1, r2 \in Run :
    threadOf[r1] = threadOf[r2] /\ exec[r1] \in Executing /\ exec[r2] \in Executing
      => r1 = r2

=============================================================================
