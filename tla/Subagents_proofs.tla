-------------------------- MODULE Subagents_proofs --------------------------
(* The safety theorems of Subagents, for every set of subagents and every   *)
(* bound.                                                                   *)
EXTENDS Subagents, TLAPS

-----------------------------------------------------------------------------
(* The inductive invariant.                                                 *)

\* The set holds exactly the subagents whose promise chain is under way.
ActiveHasTask ==
  \A s \in Subagent : s \in active <=> task[s] \notin {"none", "created"}

\* A task has a row, which is running as long as it has no outcome.
WorkIsRunning ==
  \A s \in Subagent :
    /\ task[s] # "none" => row[s] # "none"
    /\ task[s] \in {"created", "works", "succeeded"} => row[s] = "running"

\* A tool call belongs to an executor, and one is in progress at a time.
OneToolCall ==
  /\ poll # "none" => exec = "tools" /\ \A s \in Subagent : task[s] # "created"
  /\ \A s \in Subagent : task[s] = "created" => exec = "tools"
  /\ exec # "none" => server # "down"

\* What a poll knows of its subagent.
PollKnows ==
  /\ poll # "none" => polled \in Subagent /\ row[polled] # "none"
  /\ poll = "decide" => seen # "none" /\ (seen \in Settled => row[polled] = seen)
  /\ poll \in {"orphan", "reread"} => polled \notin active
  /\ poll = "reread" => row[polled] \in Settled
  /\ poll \in {"input", "wait"} /\ ~woken => polled \in active

IInv ==
  /\ TypeOK /\ ActiveHasTask /\ WorkIsRunning /\ OneToolCall /\ PollKnows
  /\ ToldIsTrue /\ NoLostWakeup

-----------------------------------------------------------------------------
(* Steps.                                                                   *)

\* Initially the invariant holds.
LEMMA InitIInv == Init => IInv
<1> SUFFICES ASSUME Init PROVE IInv
  OBVIOUS
<1>1. TypeOK
  <2>1. /\ 1 \in 1..MaxRuns /\ 0 \in 0..MaxRuns /\ 0 \in 0..MaxInputs
        /\ 0 \in 0..MaxLost /\ 0 \in 0..MaxStops
    BY BoundAssumption
  <2> QED  BY <2>1 DEF Init, TypeOK, RowState, TaskState, PollState, Settled
<1>2. ActiveHasTask /\ WorkIsRunning /\ OneToolCall /\ PollKnows
  BY DEF Init, ActiveHasTask, WorkIsRunning, OneToolCall, PollKnows
<1>3. ToldIsTrue /\ NoLostWakeup
  BY DEF Init, ToldIsTrue, NoLostWakeup
<1> QED  BY <1>1, <1>2, <1>3 DEF IInv

\* The run, its requests and its inputs keep the invariant.
LEMMA RunSteps ==
  ASSUME IInv,
         \/ Request \/ NextStep \/ RunEnds \/ NextRun \/ AppendNextStep
         \/ \E r \in 1..MaxRuns : Cancel(r) \/ NotifyInput(r)
  PROVE  IInv'
<1> USE BoundAssumption, SubagentAssumption
    DEF IInv, TypeOK, RowState, TaskState, PollState, Settled, ActiveHasTask,
        WorkIsRunning, OneToolCall, PollKnows, ToldIsTrue, NoLostWakeup,
        runVars, taskVars, pollVars, processVars, Idle, Aborted
<1>1. CASE Request  BY <1>1 DEF Request
<1>2. CASE NextStep  BY <1>2 DEF NextStep
<1>3. CASE RunEnds
  <2>1. TypeOK'  BY <1>3 DEF RunEnds
  <2>2. ActiveHasTask'  BY <1>3 DEF RunEnds
  <2>3. WorkIsRunning'  BY <1>3 DEF RunEnds
  <2>4. OneToolCall'  BY <1>3 DEF RunEnds
  <2>5. PollKnows'  BY <1>3 DEF RunEnds
  <2>6. ToldIsTrue'  BY <1>3 DEF RunEnds
  <2>7. NoLostWakeup'  BY <1>3 DEF RunEnds
  <2> QED  BY <2>1, <2>2, <2>3, <2>4, <2>5, <2>6, <2>7
<1>4. CASE NextRun  BY <1>4 DEF NextRun
<1>5. CASE AppendNextStep
  <2>0. /\ version' \in 0..MaxInputs /\ lost' \in 0..MaxLost
        /\ notifying' \in [1..MaxRuns -> Nat]
    <3>1. version' \in 0..MaxInputs  BY <1>5 DEF AppendNextStep
    <3>2. lost' \in 0..MaxLost  BY <1>5 DEF AppendNextStep
    <3>3. run \in 1..MaxRuns /\ notifying[run] + 1 \in Nat  OBVIOUS
    <3>4. notifying' \in [1..MaxRuns -> Nat]  BY ONLY TypeOK, <1>5, <3>3 DEF TypeOK, AppendNextStep
    <3> QED  BY <3>1, <3>2, <3>4
  <2>1. TypeOK'  BY <1>5, <2>0 DEF AppendNextStep
  <2>2. ActiveHasTask'  BY <1>5 DEF AppendNextStep
  <2>3. WorkIsRunning'  BY <1>5 DEF AppendNextStep
  <2>4. OneToolCall'  BY <1>5 DEF AppendNextStep
  <2>5. PollKnows'  BY <1>5 DEF AppendNextStep
  <2>6. ToldIsTrue'  BY <1>5 DEF AppendNextStep
  <2>7. NoLostWakeup'  BY <1>5 DEF AppendNextStep
  <2> QED  BY <2>1, <2>2, <2>3, <2>4, <2>5, <2>6, <2>7
<1>6. ASSUME NEW r \in 1..MaxRuns, Cancel(r) PROVE IInv'  BY <1>6 DEF Cancel
<1>7. ASSUME NEW r \in 1..MaxRuns, NotifyInput(r) PROVE IInv'
  <2>1. TypeOK'  BY <1>7 DEF NotifyInput, Wake
  <2>2. ActiveHasTask'  BY <1>7 DEF NotifyInput, Wake
  <2>3. WorkIsRunning'  BY <1>7 DEF NotifyInput, Wake
  <2>4. OneToolCall'  BY <1>7 DEF NotifyInput, Wake
  <2>5. PollKnows'  BY <1>7 DEF NotifyInput, Wake
  <2>6. ToldIsTrue'  BY <1>7 DEF NotifyInput, Wake
  <2>7. NoLostWakeup'  BY <1>7 DEF NotifyInput, Wake
  <2> QED  BY <2>1, <2>2, <2>3, <2>4, <2>5, <2>6, <2>7
<1> QED  BY <1>1, <1>2, <1>3, <1>4, <1>5, <1>6, <1>7

\* The background task keeps the invariant.
LEMMA TaskSteps ==
  ASSUME IInv, NEW s \in Subagent, StartSubagent(s) \/ Task(s)
  PROVE  IInv'
<1> USE BoundAssumption, SubagentAssumption
    DEF IInv, TypeOK, RowState, TaskState, PollState, Settled, ActiveHasTask,
        WorkIsRunning, OneToolCall, PollKnows, ToldIsTrue, NoLostWakeup,
        runVars, taskVars, pollVars, processVars, Idle, Aborted
<1>1. CASE StartSubagent(s)
  <2>1. TypeOK'  BY <1>1 DEF StartSubagent
  <2>2. ActiveHasTask'  BY <1>1 DEF StartSubagent
  <2>3. WorkIsRunning'  BY <1>1 DEF StartSubagent
  <2>4. OneToolCall'  BY <1>1 DEF StartSubagent
  <2>5. PollKnows'  BY <1>1 DEF StartSubagent
  <2>6. ToldIsTrue'  BY <1>1 DEF StartSubagent
  <2>7. NoLostWakeup'  BY <1>1 DEF StartSubagent
  <2> QED  BY <2>1, <2>2, <2>3, <2>4, <2>5, <2>6, <2>7
<1>2. CASE Activate(s)
  <2>1. TypeOK'  BY <1>2 DEF Activate
  <2>2. ActiveHasTask'  BY <1>2 DEF Activate
  <2>3. WorkIsRunning'  BY <1>2 DEF Activate
  <2>4. OneToolCall'  BY <1>2 DEF Activate
  <2>5. PollKnows'  BY <1>2 DEF Activate
  <2>6. ToldIsTrue'  BY <1>2 DEF Activate
  <2>7. NoLostWakeup'  BY <1>2 DEF Activate
  <2> QED  BY <2>1, <2>2, <2>3, <2>4, <2>5, <2>6, <2>7
<1>3. CASE TaskWorks(s)
  <2>1. TypeOK'  BY <1>3 DEF TaskWorks
  <2>2. ActiveHasTask'  BY <1>3 DEF TaskWorks
  <2>3. WorkIsRunning'  BY <1>3 DEF TaskWorks
  <2>4. OneToolCall'  BY <1>3 DEF TaskWorks
  <2>5. PollKnows'  BY <1>3 DEF TaskWorks
  <2>6. ToldIsTrue'  BY <1>3 DEF TaskWorks
  <2>7. NoLostWakeup'  BY <1>3 DEF TaskWorks
  <2> QED  BY <2>1, <2>2, <2>3, <2>4, <2>5, <2>6, <2>7
<1>4. CASE SaveResult(s)
  <2>1. TypeOK'  BY <1>4 DEF SaveResult, FinishRow
  <2>2. ActiveHasTask'  BY <1>4 DEF SaveResult, FinishRow
  <2>3. WorkIsRunning'  BY <1>4 DEF SaveResult, FinishRow
  <2>4. OneToolCall'  BY <1>4 DEF SaveResult, FinishRow
  <2>5. PollKnows'  BY <1>4 DEF SaveResult, FinishRow
  <2>6. ToldIsTrue'  BY <1>4 DEF SaveResult, FinishRow
  <2>7. NoLostWakeup'  BY <1>4 DEF SaveResult, FinishRow
  <2> QED  BY <2>1, <2>2, <2>3, <2>4, <2>5, <2>6, <2>7
<1>5. CASE EmitFinished(s)  BY <1>5 DEF EmitFinished
<1>6. CASE CatchFailure(s)  BY <1>6 DEF CatchFailure
<1>7. CASE SaveError(s)
  <2>1. TypeOK'  BY <1>7 DEF SaveError, FinishRow
  <2>2. ActiveHasTask'  BY <1>7 DEF SaveError, FinishRow
  <2>3. WorkIsRunning'  BY <1>7 DEF SaveError, FinishRow
  <2>4. OneToolCall'  BY <1>7 DEF SaveError, FinishRow
  <2>5. PollKnows'  BY <1>7 DEF SaveError, FinishRow
  <2>6. ToldIsTrue'  BY <1>7 DEF SaveError, FinishRow
  <2>7. NoLostWakeup'  BY <1>7 DEF SaveError, FinishRow
  <2> QED  BY <2>1, <2>2, <2>3, <2>4, <2>5, <2>6, <2>7
<1>8. CASE EndTask(s)
  <2>1. TypeOK'  BY <1>8 DEF EndTask, Wake
  <2>2. ActiveHasTask'  BY <1>8 DEF EndTask, Wake
  <2>3. WorkIsRunning'  BY <1>8 DEF EndTask, Wake
  <2>4. OneToolCall'  BY <1>8 DEF EndTask, Wake
  <2>5. PollKnows'  BY <1>8 DEF EndTask, Wake
  <2>6. ToldIsTrue'  BY <1>8 DEF EndTask, Wake
  <2>7. NoLostWakeup'  BY <1>8 DEF EndTask, Wake
  <2> QED  BY <2>1, <2>2, <2>3, <2>4, <2>5, <2>6, <2>7
<1> QED  BY <1>1, <1>2, <1>3, <1>4, <1>5, <1>6, <1>7, <1>8 DEF Task

\* A poll keeps the invariant.
LEMMA PollSteps ==
  ASSUME IInv, PollStep \/ \E s \in Subagent : StartPoll(s)
  PROVE  IInv'
<1> USE BoundAssumption, SubagentAssumption
    DEF IInv, TypeOK, RowState, TaskState, PollState, Settled, ActiveHasTask,
        WorkIsRunning, OneToolCall, PollKnows, ToldIsTrue, NoLostWakeup,
        runVars, taskVars, pollVars, processVars, Idle, Aborted, ReturnPoll
<1>1. ASSUME NEW s \in Subagent, StartPoll(s) PROVE IInv'  BY <1>1 DEF StartPoll
<1>2. CASE PollRead  BY <1>2 DEF PollRead
<1>3. CASE PollSettled  BY <1>3 DEF PollSettled
<1>4. CASE PollLooksUp  BY <1>4 DEF PollLooksUp
<1>5. CASE PollOrphan  BY <1>5 DEF PollOrphan, FinishRow
<1>6. CASE PollReread  BY <1>6 DEF PollReread
<1>7. CASE PollInput  BY <1>7 DEF PollInput
<1>8. CASE PollAgain  BY <1>8 DEF PollAgain
<1>9. CASE PollAborted  BY <1>9 DEF PollAborted
<1> QED  BY <1>1, <1>2, <1>3, <1>4, <1>5, <1>6, <1>7, <1>8, <1>9 DEF PollStep

\* Shutdown, the end of the process and its restart keep the invariant.
LEMMA ProcessSteps ==
  ASSUME IInv, Shutdown \/ ShutdownEnds \/ Crash \/ Restart
  PROVE  IInv'
<1> USE BoundAssumption, SubagentAssumption
    DEF IInv, TypeOK, RowState, TaskState, PollState, Settled, ActiveHasTask,
        WorkIsRunning, OneToolCall, PollKnows, ToldIsTrue, NoLostWakeup,
        runVars, taskVars, pollVars, processVars
<1>1. CASE Shutdown
  <2>0. Held \subseteq 1..MaxRuns  BY DEF Held
  <2>1. TypeOK'  BY <1>1, <2>0 DEF Shutdown
  <2>2. ActiveHasTask'  BY <1>1 DEF Shutdown, Held
  <2>3. WorkIsRunning'  BY <1>1 DEF Shutdown, Held
  <2>4. OneToolCall'  BY <1>1 DEF Shutdown, Held
  <2>5. PollKnows'  BY <1>1 DEF Shutdown, Held
  <2>6. ToldIsTrue'  BY <1>1 DEF Shutdown, Held
  <2>7. NoLostWakeup'  BY <1>1 DEF Shutdown, Held
  <2> QED  BY <2>1, <2>2, <2>3, <2>4, <2>5, <2>6, <2>7
<1>2. CASE Exit /\ (UNCHANGED stops \/ stops' \in 0..MaxStops)  BY <1>2 DEF Exit, ReturnPoll
<1>3. CASE Restart  BY <1>3 DEF Restart
<1>4. CASE ShutdownEnds  BY <1>2, <1>4 DEF ShutdownEnds
<1>5. CASE Crash
  <2>1. stops' \in 0..MaxStops  BY <1>5 DEF Crash
  <2> QED  BY <1>2, <1>5, <2>1 DEF Crash
<1> QED  BY <1>1, <1>3, <1>4, <1>5

LEMMA StepIInv == IInv /\ [Next]_vars => IInv'
<1> SUFFICES ASSUME IInv, [Next]_vars PROVE IInv'
  OBVIOUS
<1>1. CASE UNCHANGED vars
  BY <1>1 DEF IInv, TypeOK, ActiveHasTask, WorkIsRunning, OneToolCall, PollKnows,
     ToldIsTrue, NoLostWakeup, vars, runVars, taskVars, pollVars, processVars
<1>2. CASE Next
  BY <1>2, RunSteps, TaskSteps, PollSteps, ProcessSteps DEF Next
<1> QED  BY <1>1, <1>2

-----------------------------------------------------------------------------
(* The theorems.                                                            *)

\* The invariant holds in every reachable state.
THEOREM SubagentInvariant == Spec => []IInv
<1>1. Init => IInv  BY InitIInv
<1>2. IInv /\ [Next]_vars => IInv'  BY StepIInv
<1> QED  BY <1>1, <1>2, PTL DEF Spec

\* Every reachable state is well typed.
THEOREM SubagentTypes == Spec => []TypeOK
<1>1. IInv => TypeOK  BY DEF IInv
<1> QED  BY <1>1, SubagentInvariant, PTL

\* pollSubagent never takes a subagent whose task works for an orphan.
THEOREM NoFalseOrphan == Spec => []LiveIsRunning
<1>1. IInv => LiveIsRunning
  <2> SUFFICES ASSUME IInv, NEW s \in active, task[s] \in {"works", "succeeded"}
               PROVE  row[s] = "running"
    BY DEF LiveIsRunning
  <2> QED  BY DEF IInv, TypeOK, WorkIsRunning
<1> QED  BY <1>1, SubagentInvariant, PTL

\* The outcome a poll returns is the one in the row, then and later.
THEOREM PollsTellTheTruth == Spec => []ToldIsTrue
<1>1. IInv => ToldIsTrue  BY DEF IInv
<1> QED  BY <1>1, SubagentInvariant, PTL

\* waitForRunActivity before the query, and notifyRunActivity after every
\* change, leave no poll waiting for something that has already happened.
THEOREM WaitsAreWoken == Spec => []NoLostWakeup
<1>1. IInv => NoLostWakeup  BY DEF IInv
<1> QED  BY <1>1, SubagentInvariant, PTL

\* finishSubagentRun, whoever calls it, never replaces an outcome.
THEOREM OutcomesAreFinal == Spec => OutcomeFinal
<1>1. ASSUME IInv, [Next]_vars, NEW s \in Subagent, row[s] \in Settled
      PROVE  row'[s] = row[s]
  <2> USE <1>1 DEF Settled, taskVars
  <2>1. ASSUME NEW o, NEW u \in Subagent, FinishRow(u, o) PROVE row'[s] = row[s]
    BY <2>1 DEF FinishRow, IInv, TypeOK
  <2>2. ASSUME NEW u \in Subagent, StartSubagent(u) PROVE row'[s] = row[s]
    BY <2>2 DEF StartSubagent, IInv, TypeOK
  <2>3. ASSUME NEW u \in Subagent, Task(u) PROVE row'[s] = row[s]
    BY <2>1, <2>3
    DEF Task, Activate, TaskWorks, SaveResult, EmitFinished, CatchFailure, SaveError, EndTask
  <2>4. CASE PollStep
    <3>1. CASE PollOrphan
      <4>1. polled \in Subagent  BY <3>1 DEF PollOrphan, IInv, PollKnows
      <4> QED  BY <2>1, <3>1, <4>1 DEF PollOrphan
    <3> QED  BY <2>4, <3>1
        DEF PollStep, PollRead, PollSettled, PollLooksUp, PollReread, PollInput,
            PollAgain, PollAborted
  <2>5. CASE UNCHANGED row  BY <2>5
  <2> QED  BY <2>2, <2>3, <2>4, <2>5
      DEF Next, Request, NextStep, RunEnds, NextRun, AppendNextStep, Cancel,
          NotifyInput, StartPoll, Shutdown, ShutdownEnds, Crash, Exit, Restart, vars
<1>2. IInv /\ [Next]_vars
        => [\A s \in Subagent : row[s] \in Settled => row'[s] = row[s]]_vars
  BY <1>1
<1> QED  BY <1>2, SubagentInvariant, PTL DEF Spec, OutcomeFinal
=============================================================================
