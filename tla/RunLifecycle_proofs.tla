------------------------ MODULE RunLifecycle_proofs ------------------------
(* The safety theorems of RunLifecycle, for every set of runs and threads  *)
(* and every bound.                                                        *)
EXTENDS RunLifecycle, TLAPS

-----------------------------------------------------------------------------
(* Type correctness.                                                       *)

\* Initially every variable has its type.
LEMMA InitType == Init => TypeOK
  BY NoRunAssumption, BoundAssumption
  DEF Init, TypeOK, RunStatus, Terminal, ExecState, CancelState

\* The end of the process keeps the rows and forgets the memory.
LEMMA ExitType == ASSUME TypeOK, Exit, UNCHANGED stops \/ stops' \in 0..MaxStops
                  PROVE  TypeOK'
  BY BoundAssumption
  DEF Exit, TypeOK, RunStatus, Terminal, ExecState, CancelState

\* setRunStatus writes a status and the slot of the run's own thread.
LEMMA SetRunStatusType ==
  ASSUME TypeOK, NEW r \in Run, NEW s \in RunStatus, SetRunStatus(r, s)
  PROVE  /\ status' \in [Run -> RunStatus \cup {"absent"}]
         /\ slot' \in [Thread -> Run \cup {NoRun}]
         /\ leaf' = leaf
  BY ThreadAssumption DEF SetRunStatus, TypeOK

\* The handlers keep the types.
LEMMA HandlersType ==
  ASSUME TypeOK, NEW r \in Run, Handlers(r)
  PROVE  TypeOK'
<1> USE ThreadAssumption, NoRunAssumption, BoundAssumption
    DEF TypeOK, RunStatus, Terminal, ExecState, CancelState
<1>1. CASE CreateRun(r)  BY <1>1 DEF CreateRun
<1>2. CASE Answer(r)  BY <1>2 DEF Answer, ResumeRun, handlerOnly
<1>3. CASE Launch(r)
  <2>1. CASE Register(r)  BY <1>3, <2>1 DEF Launch, Register, Exit
  <2>2. CASE Exit  BY <1>3, <2>2, ExitType DEF Launch
  <2> QED  BY <1>3, <2>1, <2>2 DEF Launch
<1>4. CASE ContinueRead(r)  BY <1>4 DEF ContinueRead, handlerOnly
<1>5. CASE ContinueCheck(r)  BY <1>5 DEF ContinueCheck, handlerOnly
<1>6. CASE ContinueResume(r)  BY <1>6 DEF ContinueResume, ResumeRun, handlerOnly
<1>7. CASE CancelRead(r)  BY <1>7 DEF CancelRead, cancelOnly
<1>8. CASE CancelWaiting(r)  BY <1>8 DEF CancelWaiting, SetRunStatus, cancelOnly
<1>9. CASE CancelActive(r)  BY <1>9 DEF CancelActive, SetRunStatus, cancelOnly
<1>10. CASE ExternalCancelRead(r)  BY <1>10 DEF ExternalCancelRead, cancelOnly
<1>11. CASE ExternalCancelWrite(r)  BY <1>11 DEF ExternalCancelWrite, cancelOnly
<1>12. CASE CancelAbort(r)  BY <1>12 DEF CancelAbort, Abort, cancelOnly, Registered
<1> QED  BY <1>1, <1>2, <1>3, <1>4, <1>5, <1>6, <1>7, <1>8, <1>9, <1>10, <1>11, <1>12 DEF Handlers

\* The executor keeps the types.
LEMMA ExecutorType ==
  ASSUME TypeOK, NEW r \in Run, Executor(r)
  PROVE  TypeOK'
<1> USE ThreadAssumption, NoRunAssumption, BoundAssumption
    DEF TypeOK, RunStatus, Terminal, ExecState, CancelState
<1>1. CASE FailBeforeStart(r)  BY <1>1 DEF FailBeforeStart, Goto, executorOnly, requestVars
<1>2. CASE ReportFailure(r)  BY <1>2 DEF ReportFailure, Goto, executorOnly, requestVars
<1>3. CASE BeginRead(r)  BY <1>3 DEF BeginRead, Goto, executorOnly, requestVars, NotStarted
<1>4. CASE BeginClaim(r)
  <2>1. UNCHANGED stops  BY <1>4 DEF BeginClaim, NotStarted, Goto, executorOnly, requestVars
  <2>2. CASE Exit  BY <2>1, <2>2, ExitType
  <2>3. CASE ~Exit  BY <1>4, <2>3 DEF BeginClaim, NotStarted, Goto, executorOnly, requestVars
  <2> QED  BY <2>2, <2>3
<1>5. CASE LoopTop(r)  BY <1>5 DEF LoopTop, Goto, executorOnly, requestVars, CapReached
<1>6. CASE StepContinues(r)  BY <1>6 DEF StepContinues, InStep, Goto, executorOnly, requestVars
<1>7. CASE StepFinal(r)  BY <1>7 DEF StepFinal, InStep, Goto, executorOnly, requestVars
<1>8. CASE StepFails(r)  BY <1>8 DEF StepFails, InStep, Goto, executorOnly, requestVars
<1>9. CASE StepAsks(r)  BY <1>9 DEF StepAsks, InStep, Goto, executorOnly, requestVars
<1>10. CASE StepAborted(r)  BY <1>10 DEF StepAborted, InStep, Goto, executorOnly, requestVars
<1>11. CASE StartSubagent(r)  BY <1>11 DEF StartSubagent, executorOnly, requestVars
<1>12. CASE BackgroundEnds(r)  BY <1>12 DEF BackgroundEnds, Release, executorOnly, requestVars
<1>13. CASE Caught(r)  BY <1>13 DEF Caught, Goto, executorOnly, requestVars
<1>14. CASE WriteDone(r)  BY <1>14 DEF WriteDone, SetRunStatus, Release, requestVars
<1>15. CASE WriteError(r)  BY <1>15 DEF WriteError, WriteOutcome, SetRunStatus, Release, requestVars
<1>16. CASE WriteCanceled(r)  BY <1>16 DEF WriteCanceled, WriteOutcome, SetRunStatus, Release, requestVars
<1>17. CASE WriteWaiting(r)  BY <1>17 DEF WriteWaiting, WriteOutcome, SetRunStatus, Release, Goto, executorOnly, requestVars
<1>18. CASE Finish(r)  BY <1>18 DEF Finish, Release, executorOnly, requestVars
<1> QED  BY <1>1, <1>2, <1>3, <1>4, <1>5, <1>6, <1>7, <1>8, <1>9, <1>10, <1>11, <1>12, <1>13, <1>14, <1>15, <1>16, <1>17, <1>18 DEF Executor, LeavesStep, WritesOutcome

\* The process keeps the types.
LEMMA ProcessType == ASSUME TypeOK, Process PROVE TypeOK'
<1> USE ThreadAssumption, NoRunAssumption, BoundAssumption
    DEF TypeOK, RunStatus, Terminal, ExecState, CancelState
<1>1. CASE Crash  BY <1>1, ExitType DEF Crash
<1>2. CASE Shutdown  BY <1>2 DEF Shutdown, Abort, Registered
<1>3. CASE ShutdownEnds  BY <1>3, ExitType DEF ShutdownEnds
<1>4. CASE Restart  BY <1>4 DEF Restart, ToRecover
<1>5. ASSUME NEW r \in Run, Recover(r) PROVE TypeOK'
  BY <1>5 DEF Recover, SetRunStatus, Register
<1> QED  BY <1>1, <1>2, <1>3, <1>4, <1>5 DEF Process

\* Every step keeps the types.
LEMMA TypeStep == ASSUME TypeOK, [Next]_vars PROVE TypeOK'
<1>1. CASE UNCHANGED vars
  BY <1>1 DEF vars, TypeOK
<1>2. CASE Next
  BY <1>2, HandlersType, ExecutorType, ProcessType DEF Next
<1> QED  BY <1>1, <1>2

\* Every variable always has its type: no status, slot or counter of the code
\* leaves its range, and steps stays within hardStepCap.
THEOREM TypeCorrect == Spec => []TypeOK
<1>1. TypeOK /\ [Next]_vars => TypeOK'
  BY TypeStep
<1> QED  BY InitType, <1>1, PTL DEF Spec

-----------------------------------------------------------------------------
(* The inductive invariant.  Each part states what the parts before it     *)
(* need to be kept by every step.                                          *)

\* A process that has ended has no memory.
DownIsEmpty ==
  server = "down" => \A r \in Run :
    /\ exec[r] = "none" /\ background[r] = 0 /\ ~aborted[r]
    /\ launch[r] = 0 /\ continuing[r] = 0 /\ resuming[r] = 0
    /\ cancel[r] \in {"idle", "finished"}
    /\ recovering[r] = "none"

\* What the executor and recovery take for a user's cancel was requested, or
\* is the abort of a shutting-down server.
CancelRequested ==
  \A r \in Run :
    /\ status[r] = "canceling" => cancel[r] # "idle"
    /\ recovering[r] = "canceling" => cancel[r] # "idle"
    /\ status[r] = "canceled" /\ exec[r] \in {"starting", "loop", "step"}
         => cancel[r] # "idle"
    /\ aborted[r] => server = "stopping" \/ cancel[r] # "idle"
    /\ exec[r] = "caught" => aborted[r]
    /\ exec[r] \in {"registered", "failing"} => steps[r] = 0
    /\ exec[r] = "cancelWrite" /\ steps[r] > 0 => cancel[r] # "idle"

\* Between the read and the claim of beginRunExecution a run can be canceled,
\* but neither end nor pause.
StartingIsActive ==
  \A r \in Run : exec[r] = "starting" =>
    status[r] \in {"pending", "running", "canceling", "canceled"}

\* Only runs of external threads are cancelled by run.cancel.
ExternalCancelOnly ==
  \A r \in Run : cancel[r] = "externalRead" => r \in External

\* No handler that would start, end or pause a run of recovery's list is on
\* its way.
RecoveryAlone ==
  \A r \in Run : recovering[r] = "interrupted" =>
    resuming[r] = 0 /\ cancel[r] # "waiting"

IInv ==
  /\ TypeOK
  /\ DownIsEmpty
  /\ CancelRequested
  /\ StartingIsActive
  /\ ExternalCancelOnly
  /\ SlotOwnerLive
  /\ LiveRunHoldsSlot
  /\ RecoveryExclusive
  /\ RecoveryAlone

\* Initially no run exists.
LEMMA InitIInv == Init => IInv
  BY InitType DEF Init, IInv, DownIsEmpty, CancelRequested, StartingIsActive,
     ExternalCancelOnly, SlotOwnerLive, LiveRunHoldsSlot, RecoveryExclusive,
     RecoveryAlone

\* Only the end of the process brings it down, and it forgets everything; every
\* request, execution and recovery needs memory or a server that is up.
LEMMA DownIsEmptyStep ==
  ASSUME TypeOK, TypeOK', DownIsEmpty, [Next]_vars
  PROVE  DownIsEmpty'
<1> USE ThreadAssumption, NoRunAssumption, BoundAssumption
    DEF TypeOK, RunStatus, Terminal, ExecState, CancelState, DownIsEmpty
<1>1. ASSUME NEW r \in Run, Handlers(r) PROVE DownIsEmpty'
  BY <1>1 DEF Handlers, CreateRun, Answer, ResumeRun, Resumable, SlotFree,
     handlerOnly, Launch, Register, Exit, ContinueRead, ContinueCheck,
     PassesRead, ContinueResume, CancelRead, cancelOnly, CancelWaiting,
     SetRunStatus, CancelActive, ExternalCancelRead, ExternalCancelWrite,
     CancelAbort, Abort
<1>2. ASSUME NEW r \in Run, Executor(r) PROVE DownIsEmpty'
  BY <1>2 DEF Executor, LeavesStep, WritesOutcome, FailBeforeStart, Goto,
     executorOnly, requestVars, ReportFailure, BeginRead, NotStarted,
     BeginClaim, SlotFree, Exit, LoopTop, ShuttingDown, StepContinues, InStep,
     StepFinal, StepFails, StepAsks, StepAborted, StartSubagent,
     BackgroundEnds, Release, Caught, WriteDone, SetRunStatus, WriteError,
     WriteOutcome, WriteCanceled, WriteWaiting, Finish
<1>3. CASE Restart
  BY <1>3 DEF Restart, ToRecover
<1>4. CASE Crash \/ Shutdown \/ ShutdownEnds
  BY <1>4 DEF Crash, Exit, Shutdown, Abort, ShutdownEnds
<1>5. ASSUME NEW r \in Run, Recover(r) PROVE DownIsEmpty'
  BY <1>5 DEF Recover, SetRunStatus, Register
<1>6. CASE UNCHANGED vars
  BY <1>6 DEF vars
<1> QED
  BY <1>1, <1>2, <1>3, <1>4, <1>5, <1>6 DEF Next, Handlers, Executor,
     LeavesStep, WritesOutcome, Process

\* A cancel handler leaves idle before it writes; every other step that turns
\* to the canceled outcome finds the run canceling, canceled or aborted outside
\* a shutdown.
LEMMA CancelRequestedStep ==
  ASSUME TypeOK, TypeOK', DownIsEmpty, CancelRequested, [Next]_vars
  PROVE  CancelRequested'
<1> USE ThreadAssumption, NoRunAssumption, BoundAssumption
    DEF TypeOK, RunStatus, Terminal, ExecState, CancelState, DownIsEmpty,
    CancelRequested
<1>1. ASSUME NEW r \in Run, CancelWaiting(r) PROVE CancelRequested'
  BY <1>1 DEF CancelWaiting, SetRunStatus, cancelOnly
<1>2. ASSUME NEW r \in Run, CancelActive(r) PROVE CancelRequested'
  BY <1>2 DEF CancelActive, SetRunStatus, SlotFree, cancelOnly
<1>3. ASSUME NEW r \in Run, ExternalCancelWrite(r) PROVE CancelRequested'
  BY <1>3 DEF ExternalCancelWrite, cancelOnly
<1>4. ASSUME NEW r \in Run, CancelAbort(r) PROVE CancelRequested'
  BY <1>4 DEF CancelAbort, Abort, cancelOnly
<1>5. ASSUME NEW r \in Run, ReportFailure(r) PROVE CancelRequested'
  BY <1>5 DEF ReportFailure, Goto, executorOnly, requestVars
<1>6. ASSUME NEW r \in Run, BeginClaim(r) PROVE CancelRequested'
  BY <1>6 DEF BeginClaim, NotStarted, SlotFree, Exit, Goto, executorOnly,
     requestVars
<1>7. ASSUME NEW r \in Run, LoopTop(r) PROVE CancelRequested'
  BY <1>7 DEF LoopTop, ShuttingDown, Goto, executorOnly, requestVars
<1>8. ASSUME NEW r \in Run, StepAborted(r) PROVE CancelRequested'
  BY <1>8 DEF StepAborted, InStep, Goto, executorOnly, requestVars
<1>9. ASSUME NEW r \in Run, Caught(r) PROVE CancelRequested'
  BY <1>9 DEF Caught, ShuttingDown, Goto, executorOnly, requestVars
<1>10. ASSUME NEW r \in Run, WriteWaiting(r) PROVE CancelRequested'
  BY <1>10 DEF WriteWaiting, WriteOutcome, SlotFree, SetRunStatus, Release,
     Goto, executorOnly, requestVars
<1>11. ASSUME NEW r \in Run,
               CreateRun(r) \/ Answer(r) \/ Launch(r) \/ ContinueRead(r) \/
               ContinueCheck(r) \/ ContinueResume(r) \/ CancelRead(r) \/
               ExternalCancelRead(r)
     PROVE  CancelRequested'
  BY <1>11 DEF CreateRun, Answer, ResumeRun, Resumable, SlotFree, handlerOnly,
     Launch, Register, Exit, ContinueRead, ContinueCheck, PassesRead,
     ContinueResume, CancelRead, cancelOnly, ExternalCancelRead
<1>12. ASSUME NEW r \in Run,
               FailBeforeStart(r) \/ BeginRead(r) \/ StepContinues(r) \/
               StepFinal(r) \/ StepFails(r) \/ StepAsks(r) \/
               StartSubagent(r) \/ BackgroundEnds(r) \/ WriteDone(r) \/
               WriteError(r) \/ WriteCanceled(r) \/ Finish(r)
     PROVE  CancelRequested'
  BY <1>12 DEF FailBeforeStart, Goto, executorOnly, requestVars, BeginRead,
     NotStarted, StepContinues, InStep, StepFinal, StepFails, StepAsks,
     StartSubagent, BackgroundEnds, Release, WriteDone, SetRunStatus,
     WriteError, WriteOutcome, WriteCanceled, Finish
<1>13. CASE Shutdown
  BY <1>13 DEF Shutdown, Abort
<1>14. CASE Restart
  BY <1>14 DEF Restart, ToRecover
<1>15. CASE Crash \/ ShutdownEnds
  BY <1>15 DEF Crash, Exit, ShutdownEnds
<1>16. ASSUME NEW r \in Run, Recover(r) PROVE CancelRequested'
  BY <1>16 DEF Recover, SetRunStatus, Register
<1>17. CASE UNCHANGED vars
  BY <1>17 DEF vars
<1> QED
  BY <1>1, <1>2, <1>3, <1>4, <1>5, <1>6, <1>7, <1>8, <1>9, <1>10, <1>11,
     <1>12, <1>13, <1>14, <1>15, <1>16, <1>17 DEF Next, Handlers, Executor,
     LeavesStep, WritesOutcome, Process

\* Whatever reaches a run whose executor is starting resumes or cancels it;
\* done, error and waiting are written by that executor alone.
LEMMA StartingIsActiveStep ==
  ASSUME TypeOK, TypeOK', StartingIsActive, [Next]_vars
  PROVE  StartingIsActive'
<1> USE ThreadAssumption, NoRunAssumption, BoundAssumption
    DEF TypeOK, RunStatus, Terminal, ExecState, CancelState, StartingIsActive
<1>1. ASSUME NEW r \in Run, BeginRead(r) PROVE StartingIsActive'
  BY <1>1 DEF BeginRead, NotStarted, Goto, executorOnly, requestVars
<1>2. ASSUME NEW r \in Run, CancelWaiting(r) PROVE StartingIsActive'
  BY <1>2 DEF CancelWaiting, SetRunStatus, cancelOnly
<1>3. ASSUME NEW r \in Run, CancelActive(r) PROVE StartingIsActive'
  BY <1>3 DEF CancelActive, SetRunStatus, SlotFree, cancelOnly
<1>4. ASSUME NEW r \in Run,
               CreateRun(r) \/ Answer(r) \/ Launch(r) \/ ContinueRead(r) \/
               ContinueCheck(r) \/ ContinueResume(r) \/ CancelRead(r) \/
               ExternalCancelRead(r) \/ ExternalCancelWrite(r) \/
               CancelAbort(r)
     PROVE  StartingIsActive'
  BY <1>4 DEF CreateRun, Answer, ResumeRun, Resumable, SlotFree, handlerOnly,
     Launch, Register, Exit, ContinueRead, ContinueCheck, PassesRead,
     ContinueResume, CancelRead, cancelOnly, ExternalCancelRead,
     ExternalCancelWrite, CancelAbort, Abort
<1>5. ASSUME NEW r \in Run,
               FailBeforeStart(r) \/ ReportFailure(r) \/ BeginClaim(r) \/
               LoopTop(r) \/ StepContinues(r) \/ StepFinal(r) \/ StepFails(r)
               \/ StepAsks(r) \/ StepAborted(r) \/ StartSubagent(r) \/
               BackgroundEnds(r) \/ Caught(r) \/ WriteDone(r) \/
               WriteError(r) \/ WriteCanceled(r) \/ WriteWaiting(r) \/
               Finish(r)
     PROVE  StartingIsActive'
  BY <1>5 DEF FailBeforeStart, Goto, executorOnly, requestVars, ReportFailure,
     BeginClaim, NotStarted, SlotFree, Exit, LoopTop, ShuttingDown,
     StepContinues, InStep, StepFinal, StepFails, StepAsks, StepAborted,
     StartSubagent, BackgroundEnds, Release, Caught, WriteDone, SetRunStatus,
     WriteError, WriteOutcome, WriteCanceled, WriteWaiting, Finish
<1>6. CASE Crash \/ Shutdown \/ ShutdownEnds \/ Restart
  BY <1>6 DEF Crash, Exit, Shutdown, Abort, ShutdownEnds, Restart, ToRecover
<1>7. ASSUME NEW r \in Run, Recover(r) PROVE StartingIsActive'
  BY <1>7 DEF Recover, SetRunStatus, Register
<1>8. CASE UNCHANGED vars
  BY <1>8 DEF vars
<1> QED
  BY <1>1, <1>2, <1>3, <1>4, <1>5, <1>6, <1>7, <1>8 DEF Next, Handlers,
     Executor, LeavesStep, WritesOutcome, Process

\* The external cancel starts for external runs only.
LEMMA ExternalCancelOnlyStep ==
  ASSUME TypeOK, TypeOK', ExternalCancelOnly, [Next]_vars
  PROVE  ExternalCancelOnly'
<1> USE ThreadAssumption, NoRunAssumption, BoundAssumption
    DEF TypeOK, RunStatus, Terminal, ExecState, CancelState,
    ExternalCancelOnly
<1>1. ASSUME NEW r \in Run, ExternalCancelRead(r) PROVE ExternalCancelOnly'
  BY <1>1 DEF ExternalCancelRead, cancelOnly
<1>2. ASSUME NEW r \in Run,
               CreateRun(r) \/ Answer(r) \/ Launch(r) \/ ContinueRead(r) \/
               ContinueCheck(r) \/ ContinueResume(r) \/ CancelRead(r) \/
               CancelWaiting(r) \/ CancelActive(r) \/ ExternalCancelWrite(r)
               \/ CancelAbort(r)
     PROVE  ExternalCancelOnly'
  BY <1>2 DEF CreateRun, Answer, ResumeRun, Resumable, SlotFree, handlerOnly,
     Launch, Register, Exit, ContinueRead, ContinueCheck, PassesRead,
     ContinueResume, CancelRead, cancelOnly, CancelWaiting, SetRunStatus,
     CancelActive, ExternalCancelWrite, CancelAbort, Abort
<1>3. ASSUME NEW r \in Run, Executor(r) PROVE ExternalCancelOnly'
  BY <1>3 DEF Executor, LeavesStep, WritesOutcome, FailBeforeStart, Goto,
     executorOnly, requestVars, ReportFailure, BeginRead, NotStarted,
     BeginClaim, SlotFree, Exit, LoopTop, ShuttingDown, StepContinues, InStep,
     StepFinal, StepFails, StepAsks, StepAborted, StartSubagent,
     BackgroundEnds, Release, Caught, WriteDone, SetRunStatus, WriteError,
     WriteOutcome, WriteCanceled, WriteWaiting, Finish
<1>4. CASE Crash \/ Shutdown \/ ShutdownEnds \/ Restart
  BY <1>4 DEF Crash, Exit, Shutdown, Abort, ShutdownEnds, Restart, ToRecover
<1>5. ASSUME NEW r \in Run, Recover(r) PROVE ExternalCancelOnly'
  BY <1>5 DEF Recover, SetRunStatus, Register
<1>6. CASE UNCHANGED vars
  BY <1>6 DEF vars
<1> QED
  BY <1>1, <1>2, <1>3, <1>4, <1>5, <1>6 DEF Next, Handlers, Executor,
     LeavesStep, WritesOutcome, Process

\* A claim of the slot makes its run live, except the claim of
\* beginRunExecution, which can follow a cancel of the starting run; a terminal
\* status gives the run's own slot back.
LEMMA SlotOwnerLiveStep ==
  ASSUME TypeOK, TypeOK', CancelRequested, StartingIsActive, SlotOwnerLive, [Next]_vars
  PROVE  SlotOwnerLive'
<1> USE ThreadAssumption, NoRunAssumption, BoundAssumption
    DEF TypeOK, RunStatus, Terminal, ExecState, CancelState, CancelRequested,
    StartingIsActive, SlotOwnerLive
<1>1. ASSUME NEW r \in Run, CreateRun(r) PROVE SlotOwnerLive'
  BY <1>1 DEF CreateRun
<1>2. ASSUME NEW r \in Run, Answer(r) PROVE SlotOwnerLive'
  BY <1>2 DEF Answer, ResumeRun, Resumable, SlotFree, handlerOnly
<1>3. ASSUME NEW r \in Run, ContinueResume(r) PROVE SlotOwnerLive'
  BY <1>3 DEF ContinueResume, ResumeRun, Resumable, SlotFree, handlerOnly
<1>4. ASSUME NEW r \in Run, CancelWaiting(r) PROVE SlotOwnerLive'
  BY <1>4 DEF CancelWaiting, SetRunStatus, cancelOnly
<1>5. ASSUME NEW r \in Run, CancelActive(r) PROVE SlotOwnerLive'
  BY <1>5 DEF CancelActive, SetRunStatus, SlotFree, cancelOnly
<1>6. ASSUME NEW r \in Run, ExternalCancelWrite(r) PROVE SlotOwnerLive'
  BY <1>6 DEF ExternalCancelWrite, cancelOnly
<1>7. ASSUME NEW r \in Run, BeginClaim(r) PROVE SlotOwnerLive'
  BY <1>7 DEF BeginClaim, NotStarted, SlotFree, Exit, Goto, executorOnly,
     requestVars
<1>8. ASSUME NEW r \in Run, WriteDone(r) PROVE SlotOwnerLive'
  BY <1>8 DEF WriteDone, SetRunStatus, Release, requestVars
<1>9. ASSUME NEW r \in Run, WriteError(r) PROVE SlotOwnerLive'
  BY <1>9 DEF WriteError, WriteOutcome, SetRunStatus, Release, requestVars
<1>10. ASSUME NEW r \in Run, WriteCanceled(r) PROVE SlotOwnerLive'
  BY <1>10 DEF WriteCanceled, WriteOutcome, SetRunStatus, Release, requestVars
<1>11. ASSUME NEW r \in Run, WriteWaiting(r) PROVE SlotOwnerLive'
  BY <1>11 DEF WriteWaiting, WriteOutcome, SlotFree, SetRunStatus, Release,
     Goto, executorOnly, requestVars
<1>12. ASSUME NEW r \in Run,
               Launch(r) \/ ContinueRead(r) \/ ContinueCheck(r) \/
               CancelRead(r) \/ ExternalCancelRead(r) \/ CancelAbort(r)
     PROVE  SlotOwnerLive'
  BY <1>12 DEF Launch, Register, Exit, ContinueRead, handlerOnly,
     ContinueCheck, PassesRead, CancelRead, cancelOnly, ExternalCancelRead,
     CancelAbort, Abort
<1>13. ASSUME NEW r \in Run,
               FailBeforeStart(r) \/ ReportFailure(r) \/ BeginRead(r) \/
               LoopTop(r) \/ StepContinues(r) \/ StepFinal(r) \/ StepFails(r)
               \/ StepAsks(r) \/ StepAborted(r) \/ StartSubagent(r) \/
               BackgroundEnds(r) \/ Caught(r) \/ Finish(r)
     PROVE  SlotOwnerLive'
  BY <1>13 DEF FailBeforeStart, Goto, executorOnly, requestVars,
     ReportFailure, BeginRead, NotStarted, LoopTop, ShuttingDown,
     StepContinues, InStep, StepFinal, StepFails, StepAsks, StepAborted,
     StartSubagent, BackgroundEnds, Release, Caught, Finish
<1>14. CASE Crash
  BY <1>14 DEF Crash, Exit
<1>15. CASE ShutdownEnds
  BY <1>15 DEF ShutdownEnds, Exit
<1>16. CASE Shutdown \/ Restart
  BY <1>16 DEF Shutdown, Abort, Restart, ToRecover
<1>17. ASSUME NEW r \in Run, Recover(r) PROVE SlotOwnerLive'
  BY <1>17 DEF Recover, SetRunStatus, Register
<1>18. CASE UNCHANGED vars
  BY <1>18 DEF vars
<1> QED
  BY <1>1, <1>2, <1>3, <1>4, <1>5, <1>6, <1>7, <1>8, <1>9, <1>10, <1>11,
     <1>12, <1>13, <1>14, <1>15, <1>16, <1>17, <1>18 DEF Next, Handlers,
     Executor, LeavesStep, WritesOutcome, Process

\* Only a terminal status of the run itself takes the slot away from it: every
\* claim of another run needs the slot free.
LEMMA LiveRunHoldsSlotStep ==
  ASSUME TypeOK, TypeOK', ExternalCancelOnly, LiveRunHoldsSlot, [Next]_vars
  PROVE  LiveRunHoldsSlot'
<1> USE ThreadAssumption, NoRunAssumption, BoundAssumption
    DEF TypeOK, RunStatus, Terminal, ExecState, CancelState,
    ExternalCancelOnly, LiveRunHoldsSlot
<1>1. ASSUME NEW r \in Run, CreateRun(r) PROVE LiveRunHoldsSlot'
  BY <1>1 DEF CreateRun
<1>2. ASSUME NEW r \in Run, Answer(r) PROVE LiveRunHoldsSlot'
  BY <1>2 DEF Answer, ResumeRun, Resumable, SlotFree, handlerOnly
<1>3. ASSUME NEW r \in Run, ContinueResume(r) PROVE LiveRunHoldsSlot'
  BY <1>3 DEF ContinueResume, ResumeRun, Resumable, SlotFree, handlerOnly
<1>4. ASSUME NEW r \in Run, CancelWaiting(r) PROVE LiveRunHoldsSlot'
  BY <1>4 DEF CancelWaiting, SetRunStatus, cancelOnly
<1>5. ASSUME NEW r \in Run, CancelActive(r) PROVE LiveRunHoldsSlot'
  BY <1>5 DEF CancelActive, SetRunStatus, SlotFree, cancelOnly
<1>6. ASSUME NEW r \in Run, ExternalCancelWrite(r) PROVE LiveRunHoldsSlot'
  BY <1>6 DEF ExternalCancelWrite, cancelOnly
<1>7. ASSUME NEW r \in Run, BeginClaim(r) PROVE LiveRunHoldsSlot'
  BY <1>7 DEF BeginClaim, NotStarted, SlotFree, Exit, Goto, executorOnly,
     requestVars
<1>8. ASSUME NEW r \in Run, WriteDone(r) PROVE LiveRunHoldsSlot'
  BY <1>8 DEF WriteDone, SetRunStatus, Release, requestVars
<1>9. ASSUME NEW r \in Run, WriteError(r) PROVE LiveRunHoldsSlot'
  BY <1>9 DEF WriteError, WriteOutcome, SetRunStatus, Release, requestVars
<1>10. ASSUME NEW r \in Run, WriteCanceled(r) PROVE LiveRunHoldsSlot'
  BY <1>10 DEF WriteCanceled, WriteOutcome, SetRunStatus, Release, requestVars
<1>11. ASSUME NEW r \in Run, WriteWaiting(r) PROVE LiveRunHoldsSlot'
  BY <1>11 DEF WriteWaiting, WriteOutcome, SlotFree, SetRunStatus, Release,
     Goto, executorOnly, requestVars
<1>12. ASSUME NEW r \in Run,
               Launch(r) \/ ContinueRead(r) \/ ContinueCheck(r) \/
               CancelRead(r) \/ ExternalCancelRead(r) \/ CancelAbort(r)
     PROVE  LiveRunHoldsSlot'
  BY <1>12 DEF Launch, Register, Exit, ContinueRead, handlerOnly,
     ContinueCheck, PassesRead, CancelRead, cancelOnly, ExternalCancelRead,
     CancelAbort, Abort
<1>13. ASSUME NEW r \in Run,
               FailBeforeStart(r) \/ ReportFailure(r) \/ BeginRead(r) \/
               LoopTop(r) \/ StepContinues(r) \/ StepFinal(r) \/ StepFails(r)
               \/ StepAsks(r) \/ StepAborted(r) \/ StartSubagent(r) \/
               BackgroundEnds(r) \/ Caught(r) \/ Finish(r)
     PROVE  LiveRunHoldsSlot'
  BY <1>13 DEF FailBeforeStart, Goto, executorOnly, requestVars,
     ReportFailure, BeginRead, NotStarted, LoopTop, ShuttingDown,
     StepContinues, InStep, StepFinal, StepFails, StepAsks, StepAborted,
     StartSubagent, BackgroundEnds, Release, Caught, Finish
<1>14. CASE Crash \/ Shutdown \/ ShutdownEnds \/ Restart
  BY <1>14 DEF Crash, Exit, Shutdown, Abort, ShutdownEnds, Restart, ToRecover
<1>15. ASSUME NEW r \in Run, Recover(r) PROVE LiveRunHoldsSlot'
  BY <1>15 DEF Recover, SetRunStatus, Register
<1>16. CASE UNCHANGED vars
  BY <1>16 DEF vars
<1> QED
  BY <1>1, <1>2, <1>3, <1>4, <1>5, <1>6, <1>7, <1>8, <1>9, <1>10, <1>11,
     <1>12, <1>13, <1>14, <1>15, <1>16 DEF Next, Handlers, Executor,
     LeavesStep, WritesOutcome, Process

\* A run of recovery's list holds its slot (LiveRunHoldsSlot), so that continue
\* is refused, and is not waiting, so that answer is.
LEMMA RecoveryExclusiveStep ==
  ASSUME TypeOK, TypeOK', DownIsEmpty, LiveRunHoldsSlot, RecoveryExclusive, RecoveryAlone, [Next]_vars
  PROVE  RecoveryExclusive'
<1> USE ThreadAssumption, NoRunAssumption, BoundAssumption
    DEF TypeOK, RunStatus, Terminal, ExecState, CancelState, DownIsEmpty,
    LiveRunHoldsSlot, RecoveryExclusive, RecoveryAlone
<1>1. ASSUME NEW r \in Run, Answer(r) PROVE RecoveryExclusive'
  BY <1>1 DEF Answer, ResumeRun, Resumable, SlotFree, handlerOnly
<1>2. ASSUME NEW r \in Run, ContinueResume(r) PROVE RecoveryExclusive'
  BY <1>2 DEF ContinueResume, ResumeRun, Resumable, SlotFree, handlerOnly
<1>3. ASSUME NEW r \in Run, CancelWaiting(r) PROVE RecoveryExclusive'
  BY <1>3 DEF CancelWaiting, SetRunStatus, cancelOnly
<1>4. ASSUME NEW r \in Run, CancelActive(r) PROVE RecoveryExclusive'
  BY <1>4 DEF CancelActive, SetRunStatus, SlotFree, cancelOnly
<1>5. ASSUME NEW r \in Run, ExternalCancelWrite(r) PROVE RecoveryExclusive'
  BY <1>5 DEF ExternalCancelWrite, cancelOnly
<1>6. ASSUME NEW r \in Run, Launch(r) PROVE RecoveryExclusive'
  BY <1>6 DEF Launch, Register, Exit
<1>7. ASSUME NEW r \in Run,
               CreateRun(r) \/ ContinueRead(r) \/ ContinueCheck(r) \/
               CancelRead(r) \/ ExternalCancelRead(r) \/ CancelAbort(r)
     PROVE  RecoveryExclusive'
  BY <1>7 DEF CreateRun, ContinueRead, handlerOnly, ContinueCheck, PassesRead,
     CancelRead, cancelOnly, ExternalCancelRead, CancelAbort, Abort
<1>8. ASSUME NEW r \in Run, Executor(r) PROVE RecoveryExclusive'
  BY <1>8 DEF Executor, LeavesStep, WritesOutcome, FailBeforeStart, Goto,
     executorOnly, requestVars, ReportFailure, BeginRead, NotStarted,
     BeginClaim, SlotFree, Exit, LoopTop, ShuttingDown, StepContinues, InStep,
     StepFinal, StepFails, StepAsks, StepAborted, StartSubagent,
     BackgroundEnds, Release, Caught, WriteDone, SetRunStatus, WriteError,
     WriteOutcome, WriteCanceled, WriteWaiting, Finish
<1>9. CASE Restart
  BY <1>9 DEF Restart, ToRecover
<1>10. CASE Crash \/ Shutdown \/ ShutdownEnds
  BY <1>10 DEF Crash, Exit, Shutdown, Abort, ShutdownEnds
<1>11. ASSUME NEW r \in Run, Recover(r) PROVE RecoveryExclusive'
  BY <1>11 DEF Recover, SetRunStatus, Register
<1>12. CASE UNCHANGED vars
  BY <1>12 DEF vars
<1> QED
  BY <1>1, <1>2, <1>3, <1>4, <1>5, <1>6, <1>7, <1>8, <1>9, <1>10, <1>11, <1>12
     DEF Next, Handlers, Executor, LeavesStep, WritesOutcome, Process

\* A handler of a listed run passes its reads neither as a continue nor as a
\* cancel of a waiting run.
LEMMA RecoveryAloneStep ==
  ASSUME TypeOK, TypeOK', DownIsEmpty, LiveRunHoldsSlot, RecoveryExclusive, RecoveryAlone, [Next]_vars
  PROVE  RecoveryAlone'
<1> USE ThreadAssumption, NoRunAssumption, BoundAssumption
    DEF TypeOK, RunStatus, Terminal, ExecState, CancelState, DownIsEmpty,
    LiveRunHoldsSlot, RecoveryExclusive, RecoveryAlone
<1>1. ASSUME NEW r \in Run, ContinueCheck(r) PROVE RecoveryAlone'
  BY <1>1 DEF ContinueCheck, PassesRead, handlerOnly
<1>2. ASSUME NEW r \in Run, CancelRead(r) PROVE RecoveryAlone'
  BY <1>2 DEF CancelRead, cancelOnly
<1>3. ASSUME NEW r \in Run,
               CreateRun(r) \/ Answer(r) \/ Launch(r) \/ ContinueRead(r) \/
               ContinueResume(r) \/ CancelWaiting(r) \/ CancelActive(r) \/
               ExternalCancelRead(r) \/ ExternalCancelWrite(r) \/
               CancelAbort(r)
     PROVE  RecoveryAlone'
  BY <1>3 DEF CreateRun, Answer, ResumeRun, Resumable, SlotFree, handlerOnly,
     Launch, Register, Exit, ContinueRead, ContinueResume, CancelWaiting,
     SetRunStatus, cancelOnly, CancelActive, ExternalCancelRead,
     ExternalCancelWrite, CancelAbort, Abort
<1>4. ASSUME NEW r \in Run, Executor(r) PROVE RecoveryAlone'
  BY <1>4 DEF Executor, LeavesStep, WritesOutcome, FailBeforeStart, Goto,
     executorOnly, requestVars, ReportFailure, BeginRead, NotStarted,
     BeginClaim, SlotFree, Exit, LoopTop, ShuttingDown, StepContinues, InStep,
     StepFinal, StepFails, StepAsks, StepAborted, StartSubagent,
     BackgroundEnds, Release, Caught, WriteDone, SetRunStatus, WriteError,
     WriteOutcome, WriteCanceled, WriteWaiting, Finish
<1>5. CASE Restart
  BY <1>5 DEF Restart, ToRecover
<1>6. CASE Crash \/ Shutdown \/ ShutdownEnds
  BY <1>6 DEF Crash, Exit, Shutdown, Abort, ShutdownEnds
<1>7. ASSUME NEW r \in Run, Recover(r) PROVE RecoveryAlone'
  BY <1>7 DEF Recover, SetRunStatus, Register
<1>8. CASE UNCHANGED vars
  BY <1>8 DEF vars
<1> QED
  BY <1>1, <1>2, <1>3, <1>4, <1>5, <1>6, <1>7, <1>8 DEF Next, Handlers,
     Executor, LeavesStep, WritesOutcome, Process

\* Every step keeps the inductive invariant.
LEMMA IInvStep == IInv /\ [Next]_vars => IInv'
<1> SUFFICES ASSUME IInv, [Next]_vars PROVE IInv'
  OBVIOUS
<1>1. TypeOK'
  BY TypeStep DEF IInv
<1> QED
  BY <1>1, DownIsEmptyStep, CancelRequestedStep, StartingIsActiveStep,
     ExternalCancelOnlyStep, SlotOwnerLiveStep, LiveRunHoldsSlotStep,
     RecoveryExclusiveStep, RecoveryAloneStep DEF IInv

\* The inductive invariant holds in every reachable state.
THEOREM Invariance == Spec => []IInv
  BY InitIInv, IInvStep, PTL DEF Spec

-----------------------------------------------------------------------------
(* The properties the runs check, for every instance.                      *)

\* A thread's slot never points to a run that is done, failed, rolled back or
\* of another thread.
THEOREM SlotOwner == Spec => []SlotOwnerLive
<1>1. IInv => SlotOwnerLive
  BY DEF IInv
<1> QED  BY Invariance, <1>1, PTL

\* A pending, running or waiting run, and a canceling one of a web thread,
\* holds its thread's slot: no other run of the thread can start meanwhile.
THEOREM LiveRunsHoldTheirSlot == Spec => []LiveRunHoldsSlot
<1>1. IInv => LiveRunHoldsSlot
  BY DEF IInv
<1> QED  BY Invariance, <1>1, PTL

\* Startup recovery is never raced by a request that starts, ends or pauses a
\* run of its list.
THEOREM RecoveryIsExclusive == Spec => []RecoveryExclusive
<1>1. IInv => RecoveryExclusive
  BY DEF IInv
<1> QED  BY Invariance, <1>1, PTL

\* Once the loop has been entered only a user's request turns a run into
\* canceling or makes its executor decide for canceled.
THEOREM CancelIsRequested == Spec => []CancelNeedsRequest
<1>1. IInv => CancelNeedsRequest
  BY DEF IInv, CancelRequested, CancelNeedsRequest
<1> QED  BY Invariance, <1>1, PTL

=============================================================================
