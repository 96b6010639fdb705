--------------------------- MODULE ThreadDeletion ---------------------------
(* The permanent deletion of a thread, of its space or of its tenant beside  *)
(* the operations that create threads, start runs and start shell commands:  *)
(* the gate refuses or awaits operations, then executors and processes are   *)
(* stopped and awaited, and a serializable transaction deletes the rows.     *)
(* All threads are of one space and tenant, and any of them may be archived. *)
(* Cancels, which let a run end sooner, are in RunLifecycle, the kills of a  *)
(* command in ShellManager.                                                  *)
EXTENDS FiniteSets, Naturals

CONSTANTS
  Thread,    \* ids of threads
  NoThread,  \* an operation that names no thread
  Deletion,  \* requests that delete
  MaxOps     \* bound: operations under way at a time

ASSUME ThreadAssumption == NoThread \notin Thread
ASSUME OpsAssumption == MaxOps \in Nat

VARIABLES
  \* ---- PostgreSQL
  tenant,    \* "live" or "deleted"
  space,     \* "live" or "deleted"
  thread,    \* "none", "live" or "deleted"
  run,       \* the thread's latest run: "none", "active", "waiting" or "ended"
  command,   \* its shell command: "none", "live" or "ended"
  \* ---- memory of the server process
  exec,      \* the executor of the run
  aborted,   \* threads whose executor's signal is aborted
  proc,      \* the process of the command: "none", "live" or "killed"
  op,        \* the operations between enter and finish
  deletion,  \* what each deletion has done
  recovery,  \* "idle", or "list" before recoverInterruptedRuns has read
  recover    \* threads whose run it has yet to start

rows == <<tenant, space, thread, run, command>>
execution == <<exec, aborted>>
restartVars == <<recovery, recover>>
vars == <<rows, execution, proc, op, deletion, restartVars>>

OpKind == {"create", "run", "shell"}
Kind == {"thread", "space", "tenant"}

(***************************************************************************)
(* "registered" before the thread is bound to the entry, "bound" before     *)
(* beginRunExecution, "done" and "asks" about to write an outcome.          *)
(***************************************************************************)
ExecState == {"none", "registered", "bound", "working", "done", "asks", "cleanup"}

(***************************************************************************)
(* A deletion holds the sets of the gate, and in left what it waits for:    *)
(* operations, processes or executors.  It has begun ("begin"), waits for   *)
(* operations ("operations"), has cancelled the runs ("canceled"), waits    *)
(* for processes ("processes") and, once the rows of commands are ended,    *)
(* for executors ("executors"); then the rows go ("rows").                  *)
(***************************************************************************)
Stage == {"none", "begin", "operations", "canceled", "processes", "executors", "rows"}
DeletionState ==
  [stage : Stage, kind : Kind, threadIds : SUBSET Thread, targets : SUBSET Thread,
   runs : SUBSET Thread, left : SUBSET (Thread \cup OpKind \X Thread)]
NoDeletion == [stage |-> "none", kind |-> "thread", threadIds |-> {}, targets |-> {},
               runs |-> {}, left |-> {}]

InFlight == {o \in OpKind \X Thread : op[o] # "none"}

TypeOK ==
  /\ {tenant, space} \subseteq {"live", "deleted"}
  /\ thread \in [Thread -> {"none", "live", "deleted"}]
  /\ run \in [Thread -> {"none", "active", "waiting", "ended"}]
  /\ command \in [Thread -> {"none", "live", "ended"}]
  /\ exec \in [Thread -> ExecState] /\ aborted \subseteq Thread
  /\ \A t \in aborted : exec[t] # "none"
  /\ proc \in [Thread -> {"none", "live", "killed"}]
  /\ op \in [OpKind \X Thread -> {"none", "entered", "committed"}]
  /\ deletion \in [Deletion -> DeletionState]
  /\ \A d \in Deletion : deletion[d].stage = "operations" => deletion[d].left \subseteq InFlight
  /\ recovery \in {"idle", "list"} /\ recover \subseteq Thread

NoExec == [t \in Thread |-> "none"]
NoProc == [t \in Thread |-> "none"]
NoOps == [o \in OpKind \X Thread |-> "none"]
NoDeletions == [d \in Deletion |-> NoDeletion]

Init ==
  /\ tenant = "live" /\ space = "live" /\ thread = [t \in Thread |-> "none"]
  /\ run = [t \in Thread |-> "none"] /\ command = [t \in Thread |-> "none"]
  /\ exec = NoExec /\ aborted = {} /\ proc = NoProc /\ op = NoOps /\ deletion = NoDeletions
  /\ recovery = "idle" /\ recover = {}

-----------------------------------------------------------------------------
(* The gate.                                                                *)

\* A scope names the tenant, and perhaps the space and a thread.
Scope(bySpace, t) == [space |-> bySpace, thread |-> t]

\* Mutant: the threads are not looked at.
BlocksSpaceOnly(del, scope) ==
  \/ ~scope.space /\ scope.thread = NoThread
  \/ del.kind # "space" /\ del.threadIds = {}
  \/ scope.space /\ del.kind = "space"

Blocks(del, scope) ==
  \/ ~scope.space /\ scope.thread = NoThread
  \/ del.kind # "space" /\ del.threadIds = {}
  \/ scope.space /\ del.kind = "space"
  \/ scope.thread \in del.threadIds

Blocked(scope) ==
  \E d \in Deletion : deletion[d].stage # "none" /\ Blocks(deletion[d], scope)

\* What an operation names: the new thread of a create has no id yet, and the
\* shell manager does not name the space.
OpScope(o) == CASE o[1] = "create" -> Scope(TRUE, NoThread)
                [] o[1] = "run" -> Scope(TRUE, o[2])
                [] o[1] = "shell" -> Scope(FALSE, o[2])

\* What a deletion names when it begins.
DeletionScope(kind, t) == CASE kind = "thread" -> Scope(FALSE, t)
                            [] kind = "space" -> Scope(TRUE, NoThread)
                            [] kind = "tenant" -> Scope(FALSE, NoThread)

\* done of an operation, a process or an executor is resolved for those who
\* wait for it.
Resolve(stage, x) ==
  deletion' = [d \in Deletion |->
    IF deletion[d].stage = stage THEN [deletion[d] EXCEPT !.left = @ \ {x}] ELSE deletion[d]]

-----------------------------------------------------------------------------
(* Operations.  "run" is a new run, a continue or an answer.                *)

Enter(o) ==
  /\ op[o] = "none" /\ ~Blocked(OpScope(o)) /\ Cardinality(InFlight) < MaxOps
  /\ IF o[1] = "create" THEN thread[o[2]] = "none" ELSE thread[o[2]] = "live"
  /\ op' = [op EXCEPT ![o] = "entered"]
  /\ UNCHANGED <<rows, execution, proc, deletion, restartVars>>

\* The rows of an operation: they need those they refer to, a run a free slot,
\* and a command a session without one.
Commit(o) ==
  LET t == o[2] IN
  /\ op[o] = "entered"
  /\ op' = [op EXCEPT ![o] = "committed"]
  /\ \/ /\ o[1] = "create" /\ space = "live"
        /\ thread' = [thread EXCEPT ![t] = "live"]
        /\ UNCHANGED <<tenant, space, run, command>>
     \/ /\ o[1] = "run" /\ thread[t] = "live" /\ run[t] # "active"
        /\ run' = [run EXCEPT ![t] = "active"]
        /\ UNCHANGED <<tenant, space, thread, command>>
     \/ /\ o[1] = "shell" /\ thread[t] = "live" /\ command[t] # "live" /\ proc[t] = "none"
        /\ command' = [command EXCEPT ![t] = "live"]
        /\ UNCHANGED <<tenant, space, thread, run>>
  /\ UNCHANGED <<execution, proc, deletion, restartVars>>

\* Mutant: done is not resolved.
FinishSilently(o) == op' = [op EXCEPT ![o] = "none"] /\ UNCHANGED deletion

Finish(o) ==
  /\ op' = [op EXCEPT ![o] = "none"]
  /\ Resolve("operations", o)

\* It is refused, or fails before its rows are written.
Refused(o) ==
  /\ op[o] = "entered"
  /\ Finish(o)
  /\ UNCHANGED <<rows, execution, proc, restartVars>>

\* registerRunExecution throws while the entry of the run has an executor.
Register(t) == exec' = [exec EXCEPT ![t] = IF @ = "none" THEN "registered" ELSE @]

\* The executor is registered before anything is awaited.
Leave(o) ==
  LET t == o[2] IN
  /\ op[o] = "committed"
  /\ Finish(o)
  /\ IF o[1] = "run" THEN Register(t) ELSE UNCHANGED exec
  /\ IF o[1] = "shell" THEN proc' = [proc EXCEPT ![t] = "live"] ELSE UNCHANGED proc
  /\ UNCHANGED <<rows, aborted, restartVars>>

\* The spawn fails, and exec saves the failure.
StartFails(t) ==
  /\ op[<<"shell", t>>] = "committed"
  /\ command' = [command EXCEPT ![t] = IF @ = "live" THEN "ended" ELSE @]
  /\ Finish(<<"shell", t>>)
  /\ UNCHANGED <<tenant, space, thread, run, execution, proc, restartVars>>

-----------------------------------------------------------------------------
(* Executors and processes.                                                 *)

Goto(t, state) ==
  /\ exec' = [exec EXCEPT ![t] = state]
  /\ UNCHANGED <<aborted, proc, op, restartVars>>

\* Its rows are there, or it throws.
Bind(t) ==
  /\ exec[t] = "registered"
  /\ Goto(t, IF thread[t] = "live" THEN "bound" ELSE "cleanup")
  /\ UNCHANGED <<rows, deletion>>

BeginRunExecution(t) ==
  /\ exec[t] = "bound"
  /\ Goto(t, IF run[t] = "active" THEN "working" ELSE "cleanup")
  /\ UNCHANGED <<rows, deletion>>

\* Model requests and tools come to an outcome, if ever.
Decide(t) ==
  /\ exec[t] = "working"
  /\ \E outcome \in {"done", "asks"} : Goto(t, outcome)
  /\ UNCHANGED <<rows, deletion>>

\* Whatever it is at notices the signal and throws.
NoticeAbort(t) ==
  /\ exec[t] = "working" /\ t \in aborted
  /\ Goto(t, "done")
  /\ UNCHANGED <<rows, deletion>>

\* setRunStatus: whatever the row says, if it is there.
WriteOutcome(t) ==
  /\ exec[t] \in {"done", "asks"}
  /\ run' = [run EXCEPT ![t] = IF thread[t] # "live" THEN @
                               ELSE IF exec[t] = "asks" THEN "waiting" ELSE "ended"]
  /\ Goto(t, "cleanup")
  /\ UNCHANGED <<tenant, space, thread, command, deletion>>

\* The entry is removed and done resolved.
FinishExecution(t) ==
  /\ exec[t] = "cleanup"
  /\ exec' = [exec EXCEPT ![t] = "none"] /\ aborted' = aborted \ {t}
  /\ Resolve("executors", t)
  /\ UNCHANGED <<rows, proc, op, restartVars>>

\* The process exits, by itself or killed, and finishCommand writes the row.
ProcessEnds(t) ==
  /\ proc[t] # "none"
  /\ proc' = [proc EXCEPT ![t] = "none"]
  /\ command' = [command EXCEPT ![t] = IF @ = "live" THEN "ended" ELSE @]
  /\ Resolve("processes", t)
  /\ UNCHANGED <<tenant, space, thread, run, execution, op, restartVars>>

-----------------------------------------------------------------------------
(* A deletion.                                                              *)

\* From here waitForOperations waits for the operations of the moment.
Await(del) ==
  [del EXCEPT !.stage = "operations", !.left = {o \in InFlight : Blocks(del, OpScope(o))}]

SetDeletion(d, del) ==
  /\ deletion' = [deletion EXCEPT ![d] = del]
  /\ UNCHANGED <<op, restartVars>>

\* The deletion of a thread knows its target and waits at once.
Begin(d, kind, t) ==
  /\ deletion[d].stage = "none" /\ ~Blocked(DeletionScope(kind, t))
  /\ IF kind = "tenant" THEN tenant = "live" ELSE space = "live"
  /\ IF kind = "thread"
       THEN /\ thread[t] = "live"
            /\ SetDeletion(d, Await([NoDeletion EXCEPT !.kind = kind, !.threadIds = {t},
                                                       !.targets = {t}]))
       ELSE SetDeletion(d, [NoDeletion EXCEPT !.stage = "begin", !.kind = kind])
  /\ UNCHANGED <<rows, execution, proc>>

\* listThreadsForDeletion, addThreads.
ListThreads(d) ==
  LET ts == {t \in Thread : thread[t] = "live"} IN
  /\ deletion[d].stage = "begin"
  /\ SetDeletion(d, Await([deletion[d] EXCEPT !.threadIds = ts, !.targets = ts]))
  /\ UNCHANGED <<rows, execution, proc>>

\* cancelRunsForDeletion, once the operations are over.
CancelRuns(d) ==
  LET ts == {t \in deletion[d].targets : run[t] \in {"active", "waiting"}} IN
  /\ deletion[d].stage = "operations" /\ deletion[d].left = {}
  /\ run' = [t \in Thread |-> IF t \in ts THEN "ended" ELSE run[t]]
  /\ SetDeletion(d, [deletion[d] EXCEPT !.stage = "canceled", !.runs = ts])
  /\ UNCHANGED <<tenant, space, thread, command, execution, proc>>

\* Mutant: the executors are not aborted.
StopProcesses(d) ==
  LET bound == {t \in deletion[d].targets : exec[t] \notin {"none", "registered"}}
      commands == {t \in deletion[d].targets : proc[t] # "none"}
  IN
  /\ deletion[d].stage = "canceled"
  /\ proc' = [t \in Thread |-> IF t \in commands THEN "killed" ELSE proc[t]]
  /\ SetDeletion(d, [deletion[d] EXCEPT !.stage = "processes", !.left = commands,
                                        !.runs = @ \cup bound])
  /\ UNCHANGED <<rows, exec, aborted>>

\* Executors by run, and by thread if bound, are aborted, processes killed.
Stop(d) ==
  LET bound == {t \in deletion[d].targets : exec[t] \notin {"none", "registered"}}
      found == {t \in deletion[d].runs : exec[t] # "none"}
      commands == {t \in deletion[d].targets : proc[t] # "none"}
  IN
  /\ deletion[d].stage = "canceled"
  /\ aborted' = aborted \cup bound \cup found
  /\ proc' = [t \in Thread |-> IF t \in commands THEN "killed" ELSE proc[t]]
  /\ SetDeletion(d, [deletion[d] EXCEPT !.stage = "processes", !.left = commands,
                                        !.runs = @ \cup bound])
  /\ UNCHANGED <<rows, exec>>

\* Mutant: the executors are not awaited.
CancelCommandsOnly(d) ==
  /\ deletion[d].stage = "processes" /\ deletion[d].left = {}
  /\ command' = [t \in Thread |->
       IF t \in deletion[d].targets /\ command[t] = "live" THEN "ended" ELSE command[t]]
  /\ SetDeletion(d, [deletion[d] EXCEPT !.stage = "executors"])
  /\ UNCHANGED <<tenant, space, thread, run, execution, proc>>

\* cancelShellCommandsForDeletion; waitForRunExecution.
CancelCommands(d) ==
  /\ deletion[d].stage = "processes" /\ deletion[d].left = {}
  /\ command' = [t \in Thread |->
       IF t \in deletion[d].targets /\ command[t] = "live" THEN "ended" ELSE command[t]]
  /\ SetDeletion(d, [deletion[d] EXCEPT !.stage = "executors",
                                        !.left = {t \in deletion[d].runs : exec[t] # "none"}])
  /\ UNCHANGED <<tenant, space, thread, run, execution, proc>>

\* The executors have ended, and their leases are released.
ExecutorsEnd(d) ==
  /\ deletion[d].stage = "executors" /\ deletion[d].left = {}
  /\ SetDeletion(d, [deletion[d] EXCEPT !.stage = "rows"])
  /\ UNCHANGED <<rows, execution, proc>>

\* The threads whose rows go, those created meanwhile included.
Doomed(d) ==
  {t \in IF deletion[d].kind = "thread" THEN deletion[d].targets ELSE Thread : thread[t] = "live"}

\* deleteThread, deleteSpace, deleteTenant: refused while a run or a command
\* is active.  The gate is opened again in either case.
DeleteRows(d) ==
  /\ deletion[d].stage = "rows"
  /\ IF \E t \in Doomed(d) : run[t] \in {"active", "waiting"} \/ command[t] = "live"
       THEN UNCHANGED rows
       ELSE /\ thread' = [t \in Thread |-> IF t \in Doomed(d) THEN "deleted" ELSE thread[t]]
            /\ run' = [t \in Thread |-> IF t \in Doomed(d) THEN "none" ELSE run[t]]
            /\ command' = [t \in Thread |-> IF t \in Doomed(d) THEN "none" ELSE command[t]]
            /\ space' = IF deletion[d].kind = "thread" THEN space ELSE "deleted"
            /\ tenant' = IF deletion[d].kind = "tenant" THEN "deleted" ELSE tenant
  /\ SetDeletion(d, NoDeletion)
  /\ UNCHANGED <<execution, proc>>

-----------------------------------------------------------------------------
(* The process of the server.                                               *)

\* A crash and the start of the next process, whose gate knows nothing.
Crash ==
  /\ exec' = NoExec /\ aborted' = {} /\ proc' = NoProc /\ op' = NoOps
  /\ deletion' = NoDeletions
  /\ recovery' = "list" /\ recover' = {}
  /\ UNCHANGED rows

ListInterrupted ==
  /\ recovery = "list"
  /\ recovery' = "idle" /\ recover' = {t \in Thread : run[t] = "active"}
  /\ UNCHANGED <<rows, execution, proc, op, deletion>>

\* Recovery does not pass the gate.
Recover(t) ==
  /\ t \in recover
  /\ recover' = recover \ {t}
  /\ IF thread[t] = "live" THEN Register(t) ELSE UNCHANGED exec
  /\ UNCHANGED <<rows, aborted, proc, op, deletion, recovery>>

-----------------------------------------------------------------------------
OperationStep(o) == Commit(o) \/ Refused(o) \/ Leave(o)
ExecutorStep(t) == Bind(t) \/ BeginRunExecution(t) \/ NoticeAbort(t) \/ WriteOutcome(t)
                     \/ FinishExecution(t)
DeletionStep(d) == ListThreads(d) \/ CancelRuns(d) \/ Stop(d) \/ CancelCommands(d)
                     \/ ExecutorsEnd(d) \/ DeleteRows(d)

Next ==
  \/ \E o \in OpKind \X Thread : Enter(o) \/ OperationStep(o)
  \/ \E t \in Thread : StartFails(t) \/ ExecutorStep(t) \/ Decide(t) \/ ProcessEnds(t)
  \/ \E d \in Deletion, kind \in Kind, t \in Thread : Begin(d, kind, t)
  \/ \E d \in Deletion : DeletionStep(d)
  \/ Crash \/ ListInterrupted \/ \E t \in Thread : Recover(t)

Spec == Init /\ [][Next]_vars

-----------------------------------------------------------------------------
(* Properties.                                                              *)

Quiet(t) == exec[t] \notin {"working", "done", "asks"} /\ proc[t] = "none"

Stopping(d) == deletion[d].stage \notin {"none", "begin", "operations"}

\* When the rows of a thread go, no executor works for it and no process runs
\* that could write to its files, although recovery starts executors past the
\* gate, commands start without naming their space, and threads appear after
\* the deletion has listed them.  Only a tenant takes threads with it that it
\* has not stopped.
DeletedIsQuiet ==
  \A t \in Thread :
    \/ thread[t] = "deleted" /\ tenant = "live"
    \/ \E d \in Deletion : deletion[d].stage = "rows" /\ t \in deletion[d].targets
    => Quiet(t)

\* Once a deletion has waited for the operations, none is under way on the
\* threads it stops, whichever of the two began first.
TargetsClosed ==
  \A d \in Deletion : Stopping(d) =>
    \A o \in InFlight : OpScope(o).thread \notin deletion[d].targets

\* A deletion never waits for what may go on for ever: the executors it waits
\* for are told to end or have no run to work on, the processes are killed.
AwaitedWillEnd ==
  \A d \in Deletion : \A t \in deletion[d].left :
    /\ deletion[d].stage = "processes" => proc[t] = "killed"
    /\ deletion[d].stage = "executors" => exec[t] # "none"
         /\ (exec[t] = "working" => t \in aborted)
=============================================================================
