# RunForge in TLA+

RunForge runs LLM agents for the threads of its tenants: one Node process, one
PostgreSQL database, a web front end and an API for external callers.  This
directory holds TLA+ modules of its server, the TLC configurations that check
them and proofs that TLAPS checks.  `PROJECT.json` maps every definition to the
source lines it models and lists runs, mutants, findings, hazards and theorems.

Paths below are relative to `server/src/`.

## 1. The system

A **thread** is a conversation; a **run** is one user input and everything the
agent does about it; a **step** is one model request and its tool calls.

| Part | State | Operations | Talks to |
|---|---|---|---|
| executor (`agent/executor.ts`) | the step loop of one run, its model context, its signal | start, step, apply inputs, decide and write the outcome, catch, clean up | store, registry, providers, tools |
| registry of executors (`agent/executionControl.ts`) | entry per run: AbortController, holders, main flag; accepting / shutting down; waiters | register, retain, finish, abort, wait, notify | executor, handlers, shutdown |
| run store (`store/pgStore.ts`) | `runs`, `threads.executing_run_id`, `threads.active_run_id`, `run_inputs`, `steps`, `messages`, `subagent_runs`, shell rows | short transactions at READ COMMITTED, compare-and-set on status and slot | everything |
| HTTP API (`api/http.ts`) | requests in flight | create, branch, fork, continue, answer, cancel, delete | store, registry, executor |
| external API (`external/`) | idempotency rows, artifacts | run.create, run.append (new run or next_step), run.cancel, run.get, artifact.* | store, executor |
| recovery and lifecycle (`agent/recovery.ts`, `index.ts`) | the list of runs to recover, the request gate | restart, recover, SIGTERM, drain, exit | all |
| deletion (`deletion/`, `tenants/deletion.ts`, `spaces/access.ts`) | active deletions and admitted operations | begin, enter, stop, wait, delete | store, registry, shell |
| managed shell (`shell/manager.ts`) | sessions, commands, queues, child processes | start, queue, kill, stop, orphan marking | store, registry |
| subagents (in `executor.ts`) | `subagent_runs`, set of live subagents | run, complete, poll, list | registry, store |
| run bus and WebSocket (`agent/bus.ts`, `api/ws.ts`, `web/src/api.ts`, `web/src/App.tsx`) | buffer, cursor and active step per run; subscriptions; what a tab shows | publish, begin and complete a step, snapshot, replay, settle, merge, load history | executor, browsers |
| datasource accounts (`datasources/`) | leases of database accounts, the remote roles | acquire, grow, release, reconcile | executor, remote databases |
| history and context (`store/messageView.ts`, `agent/context.ts`, `agent/compaction.ts`, `agent/contextCompactor.ts`) | rows of `messages`, step results, marks in `runs.metadata`; the context in memory | load the view of a branch, repair calls, append, summarize, trim | store, providers |
| goal, providers, MCP, plugins, settings, files, usage, auth | see "Not modelled" | | |

What is hard here:

* the status of a run is written by handlers and by its executor, and most
  writes carry no condition on the status they replace;
* handlers act on what they read several awaits earlier;
* the status (database) and the registry (process) change at different moments,
  and a refused registration is an unhandled rejection, which ends the process;
* a crash can fall between any two transactions, and the restarted server
  takes requests while it still recovers;
* one AbortSignal carries both a user's cancel and a shutdown;
* a deletion, a shutdown and a kill wait for work that may be starting while
  they look for it;
* the remote database and the pool of its accounts are changed by unlocked
  sequences of queries, of which any may fail or be the last before a crash;
* a browser puts together live events, a snapshot and stored history, over
  connections that break;
* a caller may add input to a run that is about to end.

What makes each part correct:

* slot: a run that may execute holds its thread's slot, nothing else does, and
  no admitted run is lost by a crash (`RunLifecycle`);
* cancel and shutdown: only a request cancels a run, shutdown drains
  (`RunLifecycle`);
* next_step: an accepted input is delivered once, in order, before the run is
  done (`RunInputs` implements `InputDelivery`);
* subagents: a live task is never taken for an orphan, an outcome is final, a
  poll never waits for something that has happened (`Subagents`);
* history: a request answers each tool call once and next to it, the context is
  what a restart would load, and nothing of a branch's history is lost
  (`ThreadHistory`);
* deletion: rows go only when nobody works on them any more, and what a deletion
  waits for has been told to end (`ThreadDeletion`);
* managed shell: every live row has somebody who ends it, an orphan has no
  process, a shutdown leaves nothing behind (`ShellManager`);
* accounts: one lease per account, a released password is dead, the leases of an
  ended run come back (`AccountPool`);
* event stream: a tab has the live step exactly, every completed step, and in
  the end the run as stored (`EventStream`).

## 2. Plan

Order of work, the most important behaviour first; all but the last is done.

1. `RunLifecycle`: slot, status, registry, executors, requests, crashes; proofs.
2. `InputDelivery` / `RunInputs`: next_step inputs and the abstract promise to
   the caller; proofs, the refinement included.
3. `Subagents`: start, completion, poll with subscribe-before-read, orphans;
   proofs.
4. `ThreadHistory`: the messages of a thread, what a run sees of them, repair of
   calls without result, summaries; proofs.
5. `ThreadDeletion`: gate, stop, wait and delete against admission, recovery
   and executors; proofs.
6. `ShellManager`: starts, kills, waits, orphans, shutdown; proofs.
7. `AccountPool`: leases under unlocked releases, failures and crashes; proofs.
8. `EventStream`: the bus, the socket of a run and the tab behind it; proofs.
9. Not written: the copy of a branch (fork) beside its writers, patches of a
   goal as a pure function, uploads of artifacts.

## 3. Modules

### RunLifecycle

One action per handler step or per stretch of the executor between the awaits
that matter.

| Variables | Code |
|---|---|
| `status`, `slot`, `leaf` | `runs.status`, `threads.executing_run_id`, `threads.active_run_id` |
| `exec`, `background`, `aborted` | where `executeRunControlled` stands; the holders and the signal of the registry entry |
| `steps` | model requests of this execution (the loop variable and the hard cap) |
| `launch` | handlers between the commit that made the run pending and `void executeRun` |
| `cancel`, `continuing`, `resuming` | the cancel and continue handlers between their reads and writes |
| `server`, `recovering`, `stops` | the process, the list of `recoverInterruptedRuns`, crashes and SIGTERMs so far |

PostgreSQL runs the store's transactions at READ COMMITTED.  A transaction that
starts with an update is one step, since the row stays locked until it commits.
One that reads first and acts on what it read is two steps: `beginRunExecution`
(`BeginRead`, `BeginClaim`), `resumeRun` (`ContinueCheck`, `ContinueResume`),
external cancel (`ExternalCancelRead`, `ExternalCancelWrite`).  `Answer` is one
step: its expected status is not the one it sets, so the update decides alone.

The actions of an executor follow the code: `Launch`/`Register`, the catch block
before the start (`FailBeforeStart`, `ReportFailure`), `BeginRead`,
`BeginClaim`, `LoopTop` (hard cap, abort and status), the ways out of a step
(`StepContinues`, `StepFinal`, `StepFails`, `StepAsks`, `StepAborted`), the
catch block (`Caught`), the write of the outcome (`WriteDone`, `WriteError`,
`WriteCanceled`, `WriteWaiting`) and the finally blocks (`Finish`).  A decided
outcome and its write are separate steps because other transactions fall
between them.  `Exit` is the end of the process: an unhandled rejection
(`Launch` refused, `BeginClaim` without slot), the end of a drain, or `Crash`.

What is abstracted: the content of inputs, answers, tools and messages; the
reason for an error; the text of events; leases and MCP sessions (part of
`Finish`).  Queries that fail are not modelled.  One cancel request per run is
in flight at a time (a bound).

### InputDelivery and RunInputs

`InputDelivery` is the caller's view: accepted inputs, delivered inputs, fate of
the run.  `RunInputs` is one external run with next_step: `Accept`
(`appendNextStep`), the executor's `ApplyRead`/`ApplyClaim`
(`applyPendingRunInputs`, whose read and claim are two steps), `AddApplied`
(context and saved runtime state), `PrepareStop`
(`closeExternalInputAndApplyPending`), `run.cancel` in two steps, outcomes,
`Crash` and `Restart`.  The launch of the executor is RunLifecycle's and is left
out here, so a run starts right after it is created or recovered.

### Subagents

A subagent is a background task of a run: it outlives the run, and a later run
of the thread may poll it.

| Variables | Code |
|---|---|
| `row`, `parent` | `subagent_runs.status`, `subagent_runs.parent_run_id` |
| `run`, `runnable`, `version`, `applied` | the thread's latest run, its status, `input_version`, `lastAppliedExternalInputVersion` |
| `task`, `active` | the promise chain of `startSubagent` with its catch and finally blocks; `activeSubagentExecutions` |
| `aborted` | signals of `activeExecutions`; the entry of a run is held by its executor and by its tasks (`Held`) |
| `poll`, `polled`, `seen`, `woken` | where `pollSubagent` stands, its argument, the status its query returned, its activity promise |
| `notifying` | requests between the commit of an input and `notifyRunActivity` |
| `told`, `lost`, `stops` | history: what polls returned, inputs whose request failed after the commit, crashes and SIGTERMs |

`PollRead` to `PollAborted` are the stretches of `pollSubagent` between two
awaits.  The turns and tools of a task are one step (`TaskWorks`), since nothing
that a poll sees changes between them.  Queries may fail where the task's two
catch blocks answer them (`SaveResult`, `EmitFinished`, `SaveError`).

Taken from the other modules: the runs of a thread execute one after the other,
a recovered run starts again.  Left out: deletion of rows; /continue of an ended
run whose tasks still hold its entry; the crash between the commit of inputs and
the saved runtime state (`RunInputs` has it).

### ThreadHistory

| Variables | Code |
|---|---|
| `messages` | rows of `messages` with the step results they index; a message is its run, role, number of calls, the step and call it answers, the ids it covers (`summary_of`) |
| `summarized` | `runs.metadata.context.collapsed`, the marks "summarized" |
| `parent`, `status` | `runs.parent_run_id`; the status of the latest run, "active" for pending and running |
| `exec`, `resume`, `missing` | where `runLoop` stands, its argument, what `findMissingToolResults` returned |
| `context`, `unsaved`, `fresh` | the items of `ContextManager`, the one without DB id, the summaries it made itself |
| `folding` | the ids `persistCompaction` still has to mark |
| `dropped`, `branches`, `stops` | history: what the context has lost without a mark; bounds |

`View` is `loadThreadMessages` with its filter, its sort key and
`sanitizeThreadMessagesForModel`; `SummaryEnd`, `Window` and `LatestRound` are
the pure functions of `agent/compaction.ts` and `agent/contextCompactor.ts`.
The executor goes through `Load`, `RecordInterrupted`, `BuildContext`, the loop
(`LoopStops`, `ApplyInput`), compaction (`SummarizeOld` and, a transaction later,
`MarkSummarized`; `TrimWindow`; `SummarizeRound`), `Ask`, `Reply`, the ways out
of a reply, its tools, `AskUser` and `Pause`, and the catch block (`AbortThrows`,
`Mended`).  `Restart` may fall between any two.

Taken from `RunLifecycle`: only the latest run executes, at most one executor,
one abort.  Abstracted: whether the context is over budget is open at every
step, so every pass of compaction may happen or not; a window after a summary is
a pass of its own, which leaves the same context; masks shorten contents and
keep messages, so they are left out; so are skill instructions, which have no
row, and the counts behind the loop guard and the third empty reply.  The ids of
tool calls are taken to be unique.  The langchain-trim strategy, off by default,
is not modelled.

### ThreadDeletion

| Variables | Code |
|---|---|
| `tenant`, `space`, `thread`, `run`, `command` | the rows of the tenant, its space and threads, the latest run of each thread and its shell command |
| `exec`, `aborted` | where the executor of a thread stands as far as a deletion can tell: its registry entry, `threadId` bound or not, working, about to write, in its finally blocks; its signal |
| `proc` | the process of the command |
| `op` | the gate's `activeOperations`: between `enter` and `finish`, before or after the commit of their rows |
| `deletion` | the gate's `activeDeletions` with the sets they hold, and where `stopRuntimeForDeletion` stands; `left` is what it awaits |
| `recovery`, `recover` | the list of `recoverInterruptedRuns` |

`Blocks` is `deletionBlocks` of `deletion/gate.ts`: scopes name the tenant and
perhaps the space and a thread, and what they leave out decides what is let
through.  `Begin` to `DeleteRows` are the stretches of a deletion between awaits,
`Enter`, `Commit`, `Leave`, `Refused` those of an operation under the gate
(`create` a thread, `run` it, start a `shell` command).  `DeleteRows` is a
serializable transaction, so one step.  Recovery starts executors past the gate.
All threads are of one space and one tenant, which makes the scopes meet.

Left out: cancels and kills, which only end work sooner (`RunLifecycle`,
`ShellManager`); files on disk.

### ShellManager

| Variables | Code |
|---|---|
| `row` | `shell_commands.status` |
| `proc` | the child process in its sandbox, exited before its close event is handled |
| `start` | `startingCommands` and where `exec` / `spawnCommand` stand |
| `entry`, `signal` | the map `active`: until the close event, in `finishCommand`, after its write; the signal sent |
| `job` | kills: of requests, of an aborted foreground command, of a run, of the shutdown |
| `wait`, `awaited` | where `waitForCommand` stands, for `shell_poll` and foreground commands |
| `marker`, `todo` | `markInterruptedCommandsOrphaned` |
| `failures` | `commandFinishFailures` and the rejected results of `stopAndWaitForCommands` |
| `server`, `stops` | the process; SIGTERM drains, stops, ends |
| `early`, `unsaved` | history: rows ended while their command was starting; commands whose end this process failed to save |

One session, whose commands run one after the other.  Every action is what the
code does between two awaits; `WriteRunning`, `WriteOutcome`, `EndRow` write the
row without a condition, as the code does.  Every query may fail, and what
follows is the code's: a start goes to its catch block (`StartFails`), whose own
save may fail (`SaveFailureFails`); a failing `finishCommand` deletes the entry and
rejects `done` whatever the row says (`FinishFails`), so whoever holds that
promise stops (`KillSettles` needs a finish that did not fail); a failing kill
leaves the rest of its commands alone and is reported by a shutdown (`KillFails`);
a wait just ends (`WaitAborted`); the search for interrupted commands stops
(`MarkerFails`); a timer's failing query is not caught and ends the process (`Crash`).
`LiveRowHasOwner` and `ShutdownLeavesNothing` except what such a failure left, by
name: a command in `unsaved` until the next restart looks for it, and one in
`failures`, which the shutdown reports before it exits with 1.  Abstracted: output, logs and their
limits; the soft timeout, which only answers the caller; exit codes.  The
sandbox dies with the server, which is how it is started.

### AccountPool

| Variables | Code |
|---|---|
| `run` | the run's row and its workload token: active, paused, stopped by a shutdown, ended |
| `lease`, `runOf`, `of` | `datasource_account_leases` |
| `account` | `datasource_accounts.status` |
| `login` | the remote database: the lease whose password opens the account |
| `acquire` | where `acquireCredential` stands: reserve a row (`FOR UPDATE SKIP LOCKED`), grow the pool, enable the remote role, or the two writes of `markLeaseFailed` |
| `job` | where a release stands: of the executor that ends, of a request, of the reconciler |
| `raced`, `stops` | history: leases a release took from an unfinished acquire or release; crashes |

A release reads one lease, then writes the account, the remote role, the lease
and the account again, each a query of its own, so all are separate actions.
`DisableFails` and `EnableFails` leave the remote role either way.  The time of
a lease passes at any moment (`late` in `Reconcile`).  One data source and one
profile; grants, names and passwords are abstracted to who can log in.

### EventStream

| Variables | Code |
|---|---|
| `status`, `saved` | `runs.status` (`live`, `canceling`, `canceled`, `over` for every other end); per step, no result, some results, complete |
| `pc`, `step` | the executor: starting, between steps, in one, ended, before `runBus.clear`; a request or recovery about to start it |
| `active`, `cursor`, `buffer` | `RunBus`, with the rows it keeps of each step |
| `conn`, `after`, `rows`, `announced`, `checks` | the handler of `api/ws.ts`: subscribed before it reads, what it read, `announcedSteps`, pending `onSettled` |
| `channel` | the frames on the way |
| `mode`, `snapped`, `pending`, `view`, `through` | the tab: connection, snapshot received, events kept until then, what it shows, its cursor |
| `published`, `since`, `missed`, `quiet` | history: events published of each step, the step at which this process started, events a connection can no longer bring, a run canceled by recovery behind an open connection |

The frames of one connection arrive in order or are lost with it (`Drop`,
`Crash`).  An event is its number within its step.  Events do not only come in
the step they name.  The recovery, the answer and the repair of interrupted
calls publish one of the step to come before it begins (`EmitAhead` in `Launch`,
`RecoverLive` and `Start`), which `Begin` keeps in the buffer as
`clearBeforeStep` does; so does a cancel found between two steps (`EndBetween`).
Commands and subagents in the background publish events of the step that started
them after it has ended, and after the run has (`Publish` of a step that is not
in progress), up to a crash (`since`).

`Cancel` is the request that sets `canceling`; `EndInStep` may overwrite it.
After a crash recovery lists the run while requests are served again (`List`,
`RecoverCanceling`): a run it lists as live gets an executor, a run it lists as
canceling becomes canceled without one, and so without `runBus.clear` and its
`settled` notification.  `Merged` is `mergeHistoryAndLiveSteps`, `SafeThrough`
the cursor the tab derives from loaded history.

Left out: tabs other than one that follows a running run (one that sends an
answer or a continue takes another path through `App.tsx`); the cancel of a
waiting run, whose event nobody listens to; events that name no step or step 0;
the events at the boundary of a step that `applyCompletedStep` keeps beside the
aggregate; the sort of pending events by cursor, which are in that order but for
some of before a `runBus.clear`; a shutdown, which is to this protocol a crash
that comes later; a failing query of the socket, which closes it (`Drop`); a
pending run that is continued while its first executor starts (`RunLifecycle`);
runs of a thread without a user, which recovery skips.

## 4. Runs

| Run | Bounds | Question |
|---|---|---|
| `web` | 2 runs, 1 thread, cap 1, 1 background holder, 1 continue, 1 crash or SIGTERM; symmetry of runs | who holds the slot, when two web runs compete |
| `external` | 2 runs with next_step, cap 2, 2 crashes or SIGTERMs | the slot never sticks to an ended run under the unconditional run.cancel; only requests cancel |
| `recovery` | 1 run, cap 2, 2 continues, 2 crashes or SIGTERMs, fairness | recovery starts a run once and loses none; shutdown drains |
| `delivery` | 3 inputs, 2 crashes, fairness | the promise of next_step, as a refinement |
| `poll` | 1 subagent, 2 runs, 2 inputs each, 1 lost request, 2 crashes or SIGTERMs, fairness of polls and requests | polls against the end of tasks, cancels and restarts |
| `history` | 3 runs, 1 branch, steps of up to 2 calls, 6 messages, 1 summary, 1 recent message kept, 1 crash or SIGTERM | what the model is sent after failures, questions, repairs, branches and compaction |
| `deletion` | 2 threads, 1 deletion (the proofs have any number), 2 operations at a time; symmetry of threads | no deletion takes rows under somebody who works on them, or waits for what has not been told to end |
| `shell` | 2 commands, 1 killer, 1 waiter, 2 crashes or SIGTERMs, any failing queries; symmetry of commands | who ends the row of a command; orphans; shutdown |
| `leases` | 1 run, 2 leases, 1 account, 1 releaser beside the reconciler, pool of 1, 1 crash, fairness of the reconciler | accounts are not shared, released passwords are dead, leases come back |
| `stream` | 2 steps of 2 events, 1 late event of a step, events in a step only while fewer than 2 frames are under way, 1 fault (lost connection, failed load, crash or resumption), fairness; 1.8 million states | what a tab shows of a run that goes on |
| `oneexecutor`, `accountshared` | as small as the counterexample allows | the findings below |

Why the bounds are enough: the slot relates a thread to the runs that compete
for it, and every interference needs a run and its successor, so two runs; a
second crash reaches the recovery of a recovered run; two steps reach a step
after which the status is checked again; two continues are the least that can
race; three inputs distinguish order, a batch and a late one.  One subagent is
enough for `poll`: a poll is about one subagent, and all another one can do to
it is a wake-up too many, which inputs do as well.  Two runs let a run poll what
an earlier one started, before and after a restart.  Three runs are the least
with a branch beside a run that has summarized their common ancestor, two calls
the least of which one can have a result, and six messages hold a step with
calls and results, a summary of it and the inputs around.  Two threads let one
be listed by a deletion and the other appear after it, two operations let one be
awaited while another is refused.  Two commands let one start while the other is
stopped; the second stop reaches a shutdown during the search for interrupted
commands.  Two leases and one account are the least that can share; two releases
(a request's and the reconciler's) the least that can race.  Two steps and two
events distinguish a step in progress from the stored ones before it, and an
event before a snapshot from one behind it; one late event is enough for a step
that is published of after its end, and the fault is what a crash, a lost
connection or a continue each need once.  An event ahead of its step is bounded
by the steps.  The invariants of all passing runs
are also proved without bounds.

`CHECK_DEADLOCK FALSE`: a finite set of runs (or one run's inputs, leases or
steps) comes to rest, and the users owe the system no further request.
`deletion` and `shell` check deadlock.

Fairness (`FairSpec`) of `RunLifecycle` and `RunInputs`: weak fairness of every
continuation of the process (launch, executor, handlers, recovery) because the
event loop runs what is ready; of the end of model requests and tools, which
have timeouts and the hard cap; of the drain; and of `Restart`, because the
deployments restart the container (`restart: unless-stopped` in
`docker-compose.yml:5` and `deploy/compose.*.yml`).  Requests, crashes and
SIGTERM are never fair.  In `Subagents` only the continuations of a poll and of
an input's request are fair: a task may work for ever, and a poll must end all
the same.  In `AccountPool` the reconciler is fair, since a timer starts it and
each of its queries returns or fails; acquires and the other releases may hang.
In `EventStream` the finally blocks of an executor, the handlers of the socket
and the tab are fair; the executor itself may take for ever.

`CancelingSettlesAfterRestart` speaks of restarts only, because without one a
late cancel can stay canceling forever ("Other observations").

## 5. Proofs

`RunLifecycle_proofs` proves, for any runs, threads, bounds and number of
crashes, the type invariant, `SlotOwnerLive`, `LiveRunHoldsSlot`,
`RecoveryExclusive` and `CancelNeedsRequest`.  It assumes only the ASSUMEs of
`RunLifecycle`: every run has a thread, NoRun is not a run, external runs are
runs, the bounds are natural numbers.

None of the four is inductive.  `IInv` adds: a stopped process has no executor,
handler or recovery in memory (`DownIsEmpty`); a canceling run, or an executor
about to write canceled, has had a request (`CancelRequested`); a starting
executor and its slot (`StartingIsActive`); only external runs reach the
unconditional cancel (`ExternalCancelOnly`); and while recovery has a run left,
the run holds its slot and no handler that could start or end it is past its
check (`RecoveryAlone`).  The last one is the heart: a /continue that read
"pending" is refused by resumeRun's first read exactly because the run still
holds its slot, so the listening server cannot race recovery.  The proof has one
lemma per action that touches slot or status and a theorem that splits on Next.
All conjuncts of `IInv` were checked by TLC on the three instances first.

`Subagents_proofs` proves, for any subagents, runs, inputs and restarts, the type
invariant, `LiveIsRunning`, `ToldIsTrue`, `NoLostWakeup` and `OutcomeFinal`.  Its
`IInv` ties the set to the promise chain (`ActiveHasTask`), the chain to the row
(`WorkIsRunning`: from the commit of the row until the result is saved the row
is running), lets only one tool of a run be open (`OneToolCall`), and says what
each place in `pollSubagent` knows (`PollKnows`): a poll that is about to settle
an orphan polls a subagent that no task will settle differently, and an unwoken
poll that found its subagent active still finds it so.  The last is the
subscribe-before-read argument.

`RunInputs_proofs` proves, for any finite set of inputs and any number of
crashes, the type invariant, `RequestSeesInputs`, `NoPendingAfterEnd` and
`DeliversInputs`, the refinement of `InputDelivery`.  Its `IInv` says that the
versions up to the run's are given to exactly one input each (`Numbered`), that
the messages are the inputs of the first versions (`MessagesFirst`), that pending
inputs are discarded only at the end of a run (`DiscardedLast`), what an executor
has in its context at each place of its loop (`ContextFollows`), and that one that
is about to write "done" has closed the run after its last input (`DoneHasAll`).
So the accepted inputs in the order of their versions begin with the messages,
and a batch that is applied brings the messages up to all of them: every step is
a step of `InputDelivery` or changes none of its variables.  A lemma
(`ByVersionOrder`) says that the sequence of accepted inputs has the input of
version k at place k, by counting and without induction over sequences.

`ThreadDeletion_proofs` proves, for any threads, any number of deletions side by
side, operations and crashes, the type invariant, `DeletedIsQuiet`,
`TargetsClosed` and `AwaitedWillEnd`.  `IInv` follows a deletion: the operations
on its targets are among those it awaits (`OperationsAwaited`) and then gone
(`TargetsFree`), so that no run becomes active again (`TargetsNotActive`) and no
process starts; the processes and executors it has found are killed or aborted
and awaited, and then gone (`ProcessesStop`, `ExecutorsStop`).  A thread that
appears after the deletion of its space has listed them has nothing yet and gets
nothing, because the gate refuses runs of the space (`SpaceListed`); a process
has a live row (`ProcessHasRow`, `CommandWritten`), which makes the transaction
refuse.  The tenant is missing from `SpaceListed`: an operation that the gate let
through is why `DeletedIsQuiet` excepts it.

`ShellManager_proofs` proves, for any commands, kills, waits, stops and failing
queries, the type invariant, `OrphanHasNoProcess`, `LiveRowHasOwner` and `ShutdownLeavesNothing`.
`LiveRowHasOwner` is nearly inductive; `IInv` adds that a process has an entry in
the map (`ProcessHasEntry`), that a command starts once and has its row before
(`StartThenEntry`), that only another party ends the row of a command that is
starting (`EndedEarly`), that nothing starts once a shutdown kills
(`NoLateStart`), that a wait that did not find a command in the map is right
from then on (`NotHere`), and, for the shutdown, that its own kills are each about
a command it holds (`OwnKill`) and that every entry left has such a kill or a
failure to report (`KillOrFailure`).

`AccountPool_proofs` proves, for any runs, leases, accounts, releases, sizes of
the pool and crashes, the type invariant, `AccountExclusive` and
`ReleasedIsDead`.  `IInv` says that on an account no race has touched only one
acquire or release works (`OneWorker`), what that one knows of the leases of the
account (`WorkerKnows`), and that the password of a lease that is being released
is dead from the remote disable on (`ReleaseKnows`).

`EventStream_proofs` proves, for any number of steps, events and faults, the
type invariant, `StepsDelivered` and `LiveStepExact`.  Neither is inductive.
A step is *fresh* while it is in progress or has not begun: early events make the
second kind matter, because a tab may show or keep some of a step before it
begins, and so the invariant speaks of every fresh step, not of the active one.
`IInv` says that the bus has the last events of a fresh step in order
(`BufferInv`), that nobody knows an event that was not published (`NumbersInv`)
or one newer than the bus's cursor unless the bus forgot it (`PastInv`); that a
connection gets one snapshot, and where it is (`SnapshotInv`), and nothing after
its close (`ClosedInv`); that an announced step is shown as stored or will be by
a frame that no later snapshot takes back (`AnnouncedInv`); that the handler of
the socket has announced, or has read, every stored step behind the cursor
(`DeliveredInv`); and that, past the events the connection can no longer bring
(`missed`), the tab or the snapshot on its way has the first events of a fresh
step and the frames behind it bring the rest, each once and in order (`LiveInv`,
`AheadInv`).  The last is the heart: an event that comes before the snapshot is
in it or missed, by its cursor, and one that is not in it comes behind it.

`ThreadHistory_proofs` proves, for any number of runs, branches, messages, calls
per step, summaries and stops, the type invariant, `InputFirst`,
`RequestPaired`, `ReloadAgrees` and `HistoryKept`; and of every run of the
thread, not only the latest, that its view is what its branch has not marked, in
order and in whole rounds (`ViewsAreSound`), and that marks are set on whole
rounds (`MarkedRoundsAreWhole`).  `IInv` has three parts.

* The rows: calls are made by assistant messages and answered in order, once, by
  the same run (`MessageInv`), the input of a run comes first (`InputInv`), and
  what is marked is whole rounds which a summary covers (`MarkInv`, `FoldInv`).
* The queue of calls to be answered: each is the next one of its step, and
  before the context is built no other call of the branch is open
  (`MissingInv`).
* The context: it has what the run sees but for what is being marked or dropped
  (`SetInv`), in the order a reload would give (`OrderInv`), with whole rounds
  but for the one in progress at its end (`PairInv`, `RoundInv`), and summaries
  of earlier executions at its front (`FrontInv`), where no pass of compaction
  reaches them.

Most of the module is about operators.  The view, its sort (`ByKey`) and its
filters (`Only`) are recursive functions; a lemma gives for each the function
that satisfies its equations, and facts about all its values follow from the
least element that a nonempty set of naturals has (`LeastElement`), which the
library's theorem that < is well-founded yields without an operator as a
parameter.  So `ByKey` is proved to sort, `Only` to select, and then the view
(`ViewFacts`), the end of the candidate (`SummaryEndFacts`) and the window
(`WindowFacts`) never to fall into a round.  That a request pairs calls with
results is then a fact about positions: in an ordered context whose rounds are
whole a result stands as far behind its call as its number says.

The assumptions are the named ASSUMEs of the modules: the markers are outside of
the sets they mark, the bounds are natural numbers, inputs are finitely many.
All conjuncts were checked by TLC on small instances before they were proved.

Only model-checked is liveness (`RunProgress`, `ShutdownCompletes`,
`CancelingSettlesAfterRestart`, `InputSettles`, `PollWakes`, `LeaseReturned`,
`EndIsShown`), since fairness and ENABLED are out of the prover's reach.  All
other properties of the passing runs are theorems.

## 6. Findings

Each is a run that TLC finds violated; the quoted lines are in `PROJECT.json`.

* `oneexecutor`: a cancel that read `waiting_for_user` frees the slot of a run
  that an answer has restarted; the next run executes beside it.
* `accountshared`: a release checks that a lease is `leased` and writes its
  account `idle` several queries later, without looking again.  When a second
  release of the same lease is as far, the first makes the account idle, another
  run leases it, and the second makes it idle again: two runs have one account.
  `AccountExclusive` is what holds: nothing but such a race does it.

### Other observations

Met while modelling; most are reachable in the models and explain why a property
is stated as it is.

Runs:

* `beginRunExecution` claims the slot before its compare-and-set of the status
  (`store/pgStore.ts:813`).  When a stale cancel wrote `canceled` in between, the
  function returns false and the transaction commits the claim: the thread
  refuses every later run.  Hence `SlotOwnerLive` makes an exception for a run
  that was cancelled from outside; `docs/space-runtime-design.md:210` does not.
* `/continue` expects `['error', 'pending']` and sets `pending`
  (`store/pgStore.ts:1024`), so a second concurrent request passes the same
  compare-and-set.  The second `void executeRun` is refused by the registry and
  its rejection is unhandled.
* An outcome already decided overwrites `canceling` (`agent/executor.ts:1896`),
  though
  `docs/long-task-design.md:16` makes the cancel by a user a terminal operation of
  its own.
* The catch block before the start checks `isExecutionShuttingDown()` and then
  awaits `getRun`.  A SIGTERM during that await aborts the signal, and a run
  whose configuration failed is recorded as canceled by a user.
* An answer (or continue) right after the pause finds the old executor still in
  its finally blocks; the refused registration ends the process, and recovery
  restarts the run.
* A cancel that read `running` and writes `canceling` after the executor has
  ended leaves the run canceling, with the slot, until the next restart.
* `run.cancel` updates without a condition: a run that has ended becomes
  canceling while another run holds the slot.
* `/continue` checks the leaf before the resume transaction (`api/http.ts:738`);
  a branch created and ended in between is passed over.
* The answer of a user is committed before the next query of its handler
  (`api/http.ts:791`): if that fails, the caller sees an error and the run
  starts only with the next recovery.
* `setRunStatus` locks the thread before the run for a live status and the run
  before the thread for a terminal one (`store/pgStore.ts:906`); two of them can
  deadlock, which PostgreSQL ends by failing one.

Inputs, subagents and history:

* After a crash between the commit of applied inputs and
  `setRunRuntimeState`, `lastAppliedExternalInputVersion` stays behind
  `input_version` and every `subagent_poll` of the run returns early.
* `subagent_poll` waits for local notifications only (`agent/executor.ts:1581`).
  An input whose request failed after the commit is announced by nobody, since
  its retry is a replay; the re-check of the database that
  `docs/agent-core-boundaries.md:129` describes does not exist.
* The cap on subagents counts those of one execution (`agent/executor.ts:1605`),
  so a run that was restarted may start as many again.
* The marks of summarized messages are kept with the runs of those messages, the
  summary with the run that made it (`store/pgStore.ts:1500`).  A branch from an
  ancestor finds the messages filtered out and the summary not on its branch;
  `HistoryKept` excepts exactly that.
* A run that fails before it has written its input (`agent/executor.ts:1138`) is
  passed over: later runs of the thread do not see that input.
* Missing results are found by the ids of calls over the whole branch
  (`agent/executor.ts:572`), so a provider that repeats an id hides a gap.
* The context never learns the id of the input its execution wrote.  When the
  input is summarized together with older messages, it is neither covered by the
  summary nor marked, and a restart shows it again beside the summary.

Deletion:

* A tenant's deletion may take a thread it has not listed: one created by an
  operation the gate let through, deleted by nobody else.  Its executor may
  still work.  `DeletedIsQuiet` excepts it.
* An operation admitted for a space or tenant before the deletion narrowed its
  scope goes on beside it (`deletion/gate.ts:59`, `tenants/deletion.ts:38`).
* An executor's decided `waiting_for_user`, or a stale external cancel, replaces
  the `canceled` of the deletion, which then answers 409 and can be repeated.
* The runs a deletion cancels keep their pending inputs (`store/pgStore.ts:869`),
  unlike those any other cancel ends.
* A deletion of a tenant without threads blocks all of it until it ends.

Managed shell:

* A kill of a command that is starting ends its row and the command runs anyway;
  `docs/background-shell-design.md:58` leads from queued over running to killed,
  and `:122` lets the cancel of a run kill the commands it started.  `early`
  remembers it.
* When a query of `finishCommand` fails before the outcome is written
  (`shell/manager.ts:817`, `:819`), the entry goes and the row stays running
  without an owner (`unsaved`): the session refuses further commands until a wait
  or a kill ends the row or a restart marks it.  The failed catch block of `exec`
  (`:421`) and the failed search at the start leave the same.
* The check that no other command of the session is live and the insert are
  apart, so two requests may run side by side in one session; an exec that races
  the close of its session opens it again.
* After a restart, orphan marking may hit a command that was just started.
* A crash between the outcome of a command and the update of its session leaves
  the session busy; a stale kill replaces a natural outcome by "killed".

Datasource accounts:

* The end of a run releases a lease whose remote role is still being enabled:
  the role is enabled afterwards, on an idle account (`raced`).
* A crash between the last two writes of a release leaves the account
  `cooling_down` for ever, and the pool is the smaller by one.  A failed disable
  leaves the password valid until its `VALID UNTIL`.
* A release that is late makes an account idle that another one has disabled;
  two acquires may both grow the pool past its size.

Event stream:

* After a lost connection, `mergeHistoryAndLiveSteps` keeps the tab's partial
  events of its latest step, while the cursor it sends covers that step: it
  stays truncated until the run ends.
* The tab's cursor (`web/src/App.tsx:1194`) moves past steps it has not been
  sent, and a failed load of the history then leaves a gap until the run ends.
* An event that goes ahead of its step (`agent/recovery.ts:44`,
  `api/http.ts:755`, `:798`, `agent/executor.ts:927`) is
  kept by `clearBeforeStep`, but a snapshot made before the step begins has no
  step, and a cursor behind the event: a tab that connects in between does not
  show it until it connects again in that step (`missed`).
* A run in `canceling` is canceled by recovery alone
  (`agent/recovery.ts:27`): a tab whose connection read the status
  before that is never told, and stays online until the connection is lost
  (`quiet`); `EndIsShown` exempts it.
* A step that was incomplete when it was delivered is not sent again once a
  restart has completed it.
* The cursor of events starts at 1 again after `runBus.clear`;
  `docs/space-runtime-design.md:260` calls it the number of the event of the run
  within the server process.

## 7. Not modelled

* Model providers, MCP servers and tools are external or sequential: their
  effects on a run appear as the nondeterministic end of a step.  The retries of
  a provider happen within one request, before anything of it is visible.
* Settings, users, spaces, authentication, files, usage, traces and plugins are
  validation and single statements, without a protocol between actors.
* Goals are text patched by one run; external artifacts are sequential
  validation of uploads with a sweep of leftovers.
* The copy of a branch (fork) is one reader beside writers and is left for later.
* The in-memory store repeats the operations of the PostgreSQL store, one
  synchronous block each, for tests; a model of it would be the modelled one
  without its interleavings.
* The web front end beyond the following of a run is presentation: components,
  editors, panels.  It is most of the repository's lines, and holds no protocol.
* Vendored UI components, contracts, SDKs, evaluations and deployment scripts.

The hazards in `PROJECT.json` are those a property covers, and the one
(`agent/executor.ts:1896`) that the code does not withstand and no property can
hold of; the smaller ones without a property are the observations above.
