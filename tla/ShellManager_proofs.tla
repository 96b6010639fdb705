------------------------- MODULE ShellManager_proofs -------------------------
(* The safety theorems of ShellManager, for every set of commands, kills and *)
(* waits and any number of crashes, shutdowns and failing queries.           *)
EXTENDS ShellManager, TLAPS

------------------------------------------------------------------------------
(* The inductive invariant. *)

\* A process is that of an open entry.
ProcessHasEntry == \A c \in Command : proc[c] # "none" => entry[c] = "open"

\* A server that is down has no memory.
DownIsEmpty ==
  ~Running => /\ \A c \in Command : start[c] = "none" /\ entry[c] = "none"
              /\ \A j \in Job : job[j].pc = "none"
              /\ \A w \in Waiter : wait[w] = "none"
              /\ marker = "off" /\ todo = {}

\* A command is started once, after its row exists, and has its entry then.
StartThenEntry ==
  \A c \in Command :
    /\ entry[c] # "none" => start[c] = "none" /\ row[c] # "none"
    /\ start[c] = "checked" => row[c] = "none"
    /\ start[c] \in {"created", "written", "failing"} => row[c] # "none"
    /\ entry[c] = "written" => row[c] = "done"
    /\ c \in todo => row[c] # "none"

\* Only another party ends a row while its command is starting.
EndedEarly ==
  \A c \in Command : row[c] = "done" /\ start[c] # "none" => c \in early

\* Nothing starts any more once a shutdown kills.
NoLateStart == server = "killing" => \A c \in Command : start[c] = "none"

\* A kill or wait that is under way is about commands that have a row.
KillHasCommand ==
  \A j \in Job :
    /\ \A c \in job[j].left : row[c] # "none"
    /\ job[j].pc \in {"act", "mark", "settle"} =>
         job[j].command \in Command /\ row[job[j].command] # "none"
WaitHasCommand ==
  \A w \in Waiter : wait[w] # "none" => awaited[w] \in Command /\ row[awaited[w]] # "none"

\* From the look at the map on, the command is not here and will not be.
NotHere ==
  \A w \in Waiter : wait[w] \in {"reread", "orphan"} =>
    awaited[w] \in early \/ (start[awaited[w]] = "none" /\ entry[awaited[w]] = "none")

\* A command's own kill is that of a shutdown: it holds the command.
OwnKill ==
  \A c \in Command : job[c].pc # "none" =>
    /\ server = "killing" /\ job[c].pc # "next"
    /\ job[c].left = {} /\ job[c].command = c /\ job[c].held

\* A shutdown awaits every entry that is left, or has a failure to report.
KillOrFailure ==
  server = "killing" =>
    \A c \in Command : entry[c] # "none" => c \in failures \/ job[c].pc \in {"act", "settle"}

IInv == /\ TypeOK /\ ProcessHasEntry /\ DownIsEmpty /\ StartThenEntry /\ EndedEarly /\ NoLateStart
        /\ KillHasCommand /\ WaitHasCommand /\ NotHere /\ LiveRowHasOwner
        /\ OwnKill /\ KillOrFailure

------------------------------------------------------------------------------
(* Steps. *)

\* Initially the invariant holds.
LEMMA InitIInv == Init => IInv
<1> USE ShellAssumption, StopAssumption
    DEF IInv, TypeOK, StartState, JobState, WaitState, KillAll, KillOne, NoJob, Job, ProcessHasEntry,
        DownIsEmpty, StartThenEntry, EndedEarly, NoLateStart, KillHasCommand, WaitHasCommand, NotHere,
        LiveRowHasOwner, OwnKill, KillOrFailure, Running, Interrupted,
        rowVars, childVars, waitVars, faultVars, serverVars
<1> QED  BY DEF Init, NoStart, NoEntry, NoSignal, NoJobs, NoWait, NoneAwaited

\* exec, up to the spawn or its failure.
LEMMA StartSteps ==
  ASSUME IInv, NEW c \in Command, Exec(c) \/ StartStep(c)
  PROVE  IInv'
<1> USE ShellAssumption, StopAssumption
    DEF IInv, TypeOK, StartState, JobState, WaitState, KillAll, KillOne, NoJob, Job, ProcessHasEntry,
        DownIsEmpty, StartThenEntry, EndedEarly, NoLateStart, KillHasCommand, WaitHasCommand, NotHere,
        LiveRowHasOwner, OwnKill, KillOrFailure, Running, Interrupted,
        rowVars, childVars, waitVars, faultVars, serverVars
<1>1. CASE Exec(c)
  <2>1. TypeOK'  BY <1>1 DEF Exec
  <2>2. ProcessHasEntry'  BY <1>1 DEF Exec
  <2>3. DownIsEmpty'  BY <1>1 DEF Exec
  <2>4. StartThenEntry'  BY <1>1 DEF Exec
  <2>5. EndedEarly'  BY <1>1 DEF Exec
  <2>6. NoLateStart'  BY <1>1 DEF Exec
  <2>7. KillHasCommand'  BY <1>1 DEF Exec
  <2>8. WaitHasCommand'  BY <1>1 DEF Exec
  <2>9. NotHere'  BY <1>1 DEF Exec
  <2>10. LiveRowHasOwner'  BY <1>1 DEF Exec
  <2>11. OwnKill'  BY <1>1 DEF Exec
  <2>12. KillOrFailure'  BY <1>1 DEF Exec
  <2> QED  BY <2>1, <2>2, <2>3, <2>4, <2>5, <2>6, <2>7, <2>8, <2>9, <2>10, <2>11, <2>12
<1>2. CASE StartFails(c)
  <2>1. TypeOK'  BY <1>2 DEF StartFails
  <2>2. ProcessHasEntry'  BY <1>2 DEF StartFails
  <2>3. DownIsEmpty'  BY <1>2 DEF StartFails
  <2>4. StartThenEntry'  BY <1>2 DEF StartFails
  <2>5. EndedEarly'  BY <1>2 DEF StartFails
  <2>6. NoLateStart'  BY <1>2 DEF StartFails
  <2>7. KillHasCommand'  BY <1>2 DEF StartFails
  <2>8. WaitHasCommand'  BY <1>2 DEF StartFails
  <2>9. NotHere'  BY <1>2 DEF StartFails
  <2>10. LiveRowHasOwner'  BY <1>2 DEF StartFails
  <2>11. OwnKill'  BY <1>2 DEF StartFails
  <2>12. KillOrFailure'  BY <1>2 DEF StartFails
  <2> QED  BY <2>1, <2>2, <2>3, <2>4, <2>5, <2>6, <2>7, <2>8, <2>9, <2>10, <2>11, <2>12
<1>3. CASE CreateCommand(c)
  <2>1. TypeOK'  BY <1>3 DEF CreateCommand
  <2>2. ProcessHasEntry'  BY <1>3 DEF CreateCommand
  <2>3. DownIsEmpty'  BY <1>3 DEF CreateCommand
  <2>4. StartThenEntry'  BY <1>3 DEF CreateCommand
  <2>5. EndedEarly'  BY <1>3 DEF CreateCommand
  <2>6. NoLateStart'  BY <1>3 DEF CreateCommand
  <2>7. KillHasCommand'  BY <1>3 DEF CreateCommand
  <2>8. WaitHasCommand'  BY <1>3 DEF CreateCommand
  <2>9. NotHere'  BY <1>3 DEF CreateCommand
  <2>10. LiveRowHasOwner'  BY <1>3 DEF CreateCommand
  <2>11. OwnKill'  BY <1>3 DEF CreateCommand
  <2>12. KillOrFailure'  BY <1>3 DEF CreateCommand
  <2> QED  BY <2>1, <2>2, <2>3, <2>4, <2>5, <2>6, <2>7, <2>8, <2>9, <2>10, <2>11, <2>12
<1>4. CASE WriteRunning(c)
  <2>1. TypeOK'  BY <1>4 DEF WriteRunning
  <2>2. ProcessHasEntry'  BY <1>4 DEF WriteRunning
  <2>3. DownIsEmpty'  BY <1>4 DEF WriteRunning
  <2>4. StartThenEntry'  BY <1>4 DEF WriteRunning
  <2>5. EndedEarly'  BY <1>4 DEF WriteRunning
  <2>6. NoLateStart'  BY <1>4 DEF WriteRunning
  <2>7. KillHasCommand'  BY <1>4 DEF WriteRunning
  <2>8. WaitHasCommand'  BY <1>4 DEF WriteRunning
  <2>9. NotHere'  BY <1>4 DEF WriteRunning
  <2>10. LiveRowHasOwner'  BY <1>4 DEF WriteRunning
  <2>11. OwnKill'  BY <1>4 DEF WriteRunning
  <2>12. KillOrFailure'  BY <1>4 DEF WriteRunning
  <2> QED  BY <2>1, <2>2, <2>3, <2>4, <2>5, <2>6, <2>7, <2>8, <2>9, <2>10, <2>11, <2>12
<1>5. CASE Spawn(c)
  <2>1. TypeOK'  BY <1>5 DEF Spawn, EndStart, Looks, Starting
  <2>2. ProcessHasEntry'  BY <1>5 DEF Spawn, EndStart, Looks, Starting
  <2>3. DownIsEmpty'  BY <1>5 DEF Spawn, EndStart, Looks, Starting
  <2>4. StartThenEntry'  BY <1>5 DEF Spawn, EndStart, Looks, Starting
  <2>5. EndedEarly'  BY <1>5 DEF Spawn, EndStart, Looks, Starting
  <2>6. NoLateStart'  BY <1>5 DEF Spawn, EndStart, Looks, Starting
  <2>7. KillHasCommand'  BY <1>5 DEF Spawn, EndStart, Looks, Starting
  <2>8. WaitHasCommand'  BY <1>5 DEF Spawn, EndStart, Looks, Starting
  <2>9. NotHere'  BY <1>5 DEF Spawn, EndStart, Looks, Starting
  <2>10. LiveRowHasOwner'  BY <1>5 DEF Spawn, EndStart, Looks, Starting
  <2>11. OwnKill'  BY <1>5 DEF Spawn, EndStart, Looks, Starting
  <2>12. KillOrFailure'  BY <1>5 DEF Spawn, EndStart, Looks, Starting
  <2> QED  BY <2>1, <2>2, <2>3, <2>4, <2>5, <2>6, <2>7, <2>8, <2>9, <2>10, <2>11, <2>12
<1>6. CASE SaveFailure(c)
  <2>1. TypeOK'  BY <1>6 DEF SaveFailure, EndStart, Looks, Starting
  <2>2. ProcessHasEntry'  BY <1>6 DEF SaveFailure, EndStart, Looks, Starting
  <2>3. DownIsEmpty'  BY <1>6 DEF SaveFailure, EndStart, Looks, Starting
  <2>4. StartThenEntry'  BY <1>6 DEF SaveFailure, EndStart, Looks, Starting
  <2>5. EndedEarly'  BY <1>6 DEF SaveFailure, EndStart, Looks, Starting
  <2>6. NoLateStart'  BY <1>6 DEF SaveFailure, EndStart, Looks, Starting
  <2>7. KillHasCommand'  BY <1>6 DEF SaveFailure, EndStart, Looks, Starting
  <2>8. WaitHasCommand'  BY <1>6 DEF SaveFailure, EndStart, Looks, Starting
  <2>9. NotHere'  BY <1>6 DEF SaveFailure, EndStart, Looks, Starting
  <2>10. LiveRowHasOwner'  BY <1>6 DEF SaveFailure, EndStart, Looks, Starting
  <2>11. OwnKill'  BY <1>6 DEF SaveFailure, EndStart, Looks, Starting
  <2>12. KillOrFailure'  BY <1>6 DEF SaveFailure, EndStart, Looks, Starting
  <2> QED  BY <2>1, <2>2, <2>3, <2>4, <2>5, <2>6, <2>7, <2>8, <2>9, <2>10, <2>11, <2>12
<1>7. CASE StartRefused(c)
  <2>1. TypeOK'  BY <1>7 DEF StartRefused, EndStart, Looks, Starting
  <2>2. ProcessHasEntry'  BY <1>7 DEF StartRefused, EndStart, Looks, Starting
  <2>3. DownIsEmpty'  BY <1>7 DEF StartRefused, EndStart, Looks, Starting
  <2>4. StartThenEntry'  BY <1>7 DEF StartRefused, EndStart, Looks, Starting
  <2>5. EndedEarly'  BY <1>7 DEF StartRefused, EndStart, Looks, Starting
  <2>6. NoLateStart'  BY <1>7 DEF StartRefused, EndStart, Looks, Starting
  <2>7. KillHasCommand'  BY <1>7 DEF StartRefused, EndStart, Looks, Starting
  <2>8. WaitHasCommand'  BY <1>7 DEF StartRefused, EndStart, Looks, Starting
  <2>9. NotHere'  BY <1>7 DEF StartRefused, EndStart, Looks, Starting
  <2>10. LiveRowHasOwner'  BY <1>7 DEF StartRefused, EndStart, Looks, Starting
  <2>11. OwnKill'  BY <1>7 DEF StartRefused, EndStart, Looks, Starting
  <2>12. KillOrFailure'  BY <1>7 DEF StartRefused, EndStart, Looks, Starting
  <2> QED  BY <2>1, <2>2, <2>3, <2>4, <2>5, <2>6, <2>7, <2>8, <2>9, <2>10, <2>11, <2>12
<1>8. CASE SaveFailureFails(c)
  <2>1. TypeOK'  BY <1>8 DEF SaveFailureFails, EndStart, Looks, Starting
  <2>2. ProcessHasEntry'  BY <1>8 DEF SaveFailureFails, EndStart, Looks, Starting
  <2>3. DownIsEmpty'  BY <1>8 DEF SaveFailureFails, EndStart, Looks, Starting
  <2>4. StartThenEntry'  BY <1>8 DEF SaveFailureFails, EndStart, Looks, Starting
  <2>5. EndedEarly'  BY <1>8 DEF SaveFailureFails, EndStart, Looks, Starting
  <2>6. NoLateStart'  BY <1>8 DEF SaveFailureFails, EndStart, Looks, Starting
  <2>7. KillHasCommand'  BY <1>8 DEF SaveFailureFails, EndStart, Looks, Starting
  <2>8. WaitHasCommand'  BY <1>8 DEF SaveFailureFails, EndStart, Looks, Starting
  <2>9. NotHere'  BY <1>8 DEF SaveFailureFails, EndStart, Looks, Starting
  <2>10. LiveRowHasOwner'  BY <1>8 DEF SaveFailureFails, EndStart, Looks, Starting
  <2>11. OwnKill'  BY <1>8 DEF SaveFailureFails, EndStart, Looks, Starting
  <2>12. KillOrFailure'  BY <1>8 DEF SaveFailureFails, EndStart, Looks, Starting
  <2> QED  BY <2>1, <2>2, <2>3, <2>4, <2>5, <2>6, <2>7, <2>8, <2>9, <2>10, <2>11, <2>12
<1> QED  BY <1>1, <1>2, <1>3, <1>4, <1>5, <1>6, <1>7, <1>8 DEF StartStep

\* The process, its signals and its end.
LEMMA CommandSteps ==
  ASSUME IInv, NEW c \in Command, ProcessExits(c) \/ CommandStep(c)
  PROVE  IInv'
<1> USE ShellAssumption, StopAssumption
    DEF IInv, TypeOK, StartState, JobState, WaitState, KillAll, KillOne, NoJob, Job, ProcessHasEntry,
        DownIsEmpty, StartThenEntry, EndedEarly, NoLateStart, KillHasCommand, WaitHasCommand, NotHere,
        LiveRowHasOwner, OwnKill, KillOrFailure, Running, Interrupted,
        rowVars, childVars, waitVars, faultVars, serverVars
<1>1. CASE ProcessExits(c)
  <2>1. TypeOK'  BY <1>1 DEF ProcessExits
  <2>2. ProcessHasEntry'  BY <1>1 DEF ProcessExits
  <2>3. DownIsEmpty'  BY <1>1 DEF ProcessExits
  <2>4. StartThenEntry'  BY <1>1 DEF ProcessExits
  <2>5. EndedEarly'  BY <1>1 DEF ProcessExits
  <2>6. NoLateStart'  BY <1>1 DEF ProcessExits
  <2>7. KillHasCommand'  BY <1>1 DEF ProcessExits
  <2>8. WaitHasCommand'  BY <1>1 DEF ProcessExits
  <2>9. NotHere'  BY <1>1 DEF ProcessExits
  <2>10. LiveRowHasOwner'  BY <1>1 DEF ProcessExits
  <2>11. OwnKill'  BY <1>1 DEF ProcessExits
  <2>12. KillOrFailure'  BY <1>1 DEF ProcessExits
  <2> QED  BY <2>1, <2>2, <2>3, <2>4, <2>5, <2>6, <2>7, <2>8, <2>9, <2>10, <2>11, <2>12
<1>2. CASE HardTimeout(c)
  <2>1. TypeOK'  BY <1>2 DEF HardTimeout, Terminate
  <2>2. ProcessHasEntry'  BY <1>2 DEF HardTimeout, Terminate
  <2>3. DownIsEmpty'  BY <1>2 DEF HardTimeout, Terminate
  <2>4. StartThenEntry'  BY <1>2 DEF HardTimeout, Terminate
  <2>5. EndedEarly'  BY <1>2 DEF HardTimeout, Terminate
  <2>6. NoLateStart'  BY <1>2 DEF HardTimeout, Terminate
  <2>7. KillHasCommand'  BY <1>2 DEF HardTimeout, Terminate
  <2>8. WaitHasCommand'  BY <1>2 DEF HardTimeout, Terminate
  <2>9. NotHere'  BY <1>2 DEF HardTimeout, Terminate
  <2>10. LiveRowHasOwner'  BY <1>2 DEF HardTimeout, Terminate
  <2>11. OwnKill'  BY <1>2 DEF HardTimeout, Terminate
  <2>12. KillOrFailure'  BY <1>2 DEF HardTimeout, Terminate
  <2> QED  BY <2>1, <2>2, <2>3, <2>4, <2>5, <2>6, <2>7, <2>8, <2>9, <2>10, <2>11, <2>12
<1>3. CASE KillTimer(c)
  <2>1. TypeOK'  BY <1>3 DEF KillTimer
  <2>2. ProcessHasEntry'  BY <1>3 DEF KillTimer
  <2>3. DownIsEmpty'  BY <1>3 DEF KillTimer
  <2>4. StartThenEntry'  BY <1>3 DEF KillTimer
  <2>5. EndedEarly'  BY <1>3 DEF KillTimer
  <2>6. NoLateStart'  BY <1>3 DEF KillTimer
  <2>7. KillHasCommand'  BY <1>3 DEF KillTimer
  <2>8. WaitHasCommand'  BY <1>3 DEF KillTimer
  <2>9. NotHere'  BY <1>3 DEF KillTimer
  <2>10. LiveRowHasOwner'  BY <1>3 DEF KillTimer
  <2>11. OwnKill'  BY <1>3 DEF KillTimer
  <2>12. KillOrFailure'  BY <1>3 DEF KillTimer
  <2> QED  BY <2>1, <2>2, <2>3, <2>4, <2>5, <2>6, <2>7, <2>8, <2>9, <2>10, <2>11, <2>12
<1>4. CASE Closes(c)
  <2>1. TypeOK'  BY <1>4 DEF Closes
  <2>2. ProcessHasEntry'  BY <1>4 DEF Closes
  <2>3. DownIsEmpty'  BY <1>4 DEF Closes
  <2>4. StartThenEntry'  BY <1>4 DEF Closes
  <2>5. EndedEarly'  BY <1>4 DEF Closes
  <2>6. NoLateStart'  BY <1>4 DEF Closes
  <2>7. KillHasCommand'  BY <1>4 DEF Closes
  <2>8. WaitHasCommand'  BY <1>4 DEF Closes
  <2>9. NotHere'  BY <1>4 DEF Closes
  <2>10. LiveRowHasOwner'  BY <1>4 DEF Closes
  <2>11. OwnKill'  BY <1>4 DEF Closes
  <2>12. KillOrFailure'  BY <1>4 DEF Closes
  <2> QED  BY <2>1, <2>2, <2>3, <2>4, <2>5, <2>6, <2>7, <2>8, <2>9, <2>10, <2>11, <2>12
<1>5. CASE WriteOutcome(c)
  <2>1. TypeOK'  BY <1>5 DEF WriteOutcome
  <2>2. ProcessHasEntry'  BY <1>5 DEF WriteOutcome
  <2>3. DownIsEmpty'  BY <1>5 DEF WriteOutcome
  <2>4. StartThenEntry'  BY <1>5 DEF WriteOutcome
  <2>5. EndedEarly'  BY <1>5 DEF WriteOutcome
  <2>6. NoLateStart'  BY <1>5 DEF WriteOutcome
  <2>7. KillHasCommand'  BY <1>5 DEF WriteOutcome
  <2>8. WaitHasCommand'  BY <1>5 DEF WriteOutcome
  <2>9. NotHere'  BY <1>5 DEF WriteOutcome
  <2>10. LiveRowHasOwner'  BY <1>5 DEF WriteOutcome
  <2>11. OwnKill'  BY <1>5 DEF WriteOutcome
  <2>12. KillOrFailure'  BY <1>5 DEF WriteOutcome
  <2> QED  BY <2>1, <2>2, <2>3, <2>4, <2>5, <2>6, <2>7, <2>8, <2>9, <2>10, <2>11, <2>12
<1>6. CASE EndCommand(c)
  <2>1. TypeOK'  BY <1>6 DEF EndCommand
  <2>2. ProcessHasEntry'  BY <1>6 DEF EndCommand
  <2>3. DownIsEmpty'  BY <1>6 DEF EndCommand
  <2>4. StartThenEntry'  BY <1>6 DEF EndCommand
  <2>5. EndedEarly'  BY <1>6 DEF EndCommand
  <2>6. NoLateStart'  BY <1>6 DEF EndCommand
  <2>7. KillHasCommand'  BY <1>6 DEF EndCommand
  <2>8. WaitHasCommand'  BY <1>6 DEF EndCommand
  <2>9. NotHere'  BY <1>6 DEF EndCommand
  <2>10. LiveRowHasOwner'  BY <1>6 DEF EndCommand
  <2>11. OwnKill'  BY <1>6 DEF EndCommand
  <2>12. KillOrFailure'  BY <1>6 DEF EndCommand
  <2> QED  BY <2>1, <2>2, <2>3, <2>4, <2>5, <2>6, <2>7, <2>8, <2>9, <2>10, <2>11, <2>12
<1>7. CASE FinishFails(c)
  <2>1. TypeOK'  BY <1>7 DEF FinishFails
  <2>2. ProcessHasEntry'  BY <1>7 DEF FinishFails
  <2>3. DownIsEmpty'  BY <1>7 DEF FinishFails
  <2>4. StartThenEntry'  BY <1>7 DEF FinishFails
  <2>5. EndedEarly'  BY <1>7 DEF FinishFails
  <2>6. NoLateStart'  BY <1>7 DEF FinishFails
  <2>7. KillHasCommand'  BY <1>7 DEF FinishFails
  <2>8. WaitHasCommand'  BY <1>7 DEF FinishFails
  <2>9. NotHere'  BY <1>7 DEF FinishFails
  <2>10. LiveRowHasOwner'  BY <1>7 DEF FinishFails
  <2>11. OwnKill'  BY <1>7 DEF FinishFails
  <2>12. KillOrFailure'  BY <1>7 DEF FinishFails
  <2> QED  BY <2>1, <2>2, <2>3, <2>4, <2>5, <2>6, <2>7, <2>8, <2>9, <2>10, <2>11, <2>12
<1> QED  BY <1>1, <1>2, <1>3, <1>4, <1>5, <1>6, <1>7 DEF CommandStep

\* A kill begins with the commands it is about.
LEMMA KillStarts ==
  ASSUME IInv, NEW k \in Killer, NEW new \in JobState, StartJob(k, new), Running,
         \A c \in new.left : row[c] # "none",
         new.pc \in {"act", "mark", "settle"} => new.command \in Command /\ row[new.command] # "none"
  PROVE  IInv'
<1> USE ShellAssumption, StopAssumption
    DEF IInv, TypeOK, StartState, JobState, WaitState, KillAll, KillOne, NoJob, Job, ProcessHasEntry,
        DownIsEmpty, StartThenEntry, EndedEarly, NoLateStart, KillHasCommand, WaitHasCommand, NotHere,
        LiveRowHasOwner, OwnKill, KillOrFailure, Running, Interrupted,
        rowVars, childVars, waitVars, faultVars, serverVars
<1>0. k \in Job /\ k \notin Command
  OBVIOUS
<1>1. TypeOK'  BY <1>0 DEF StartJob
<1>2. ProcessHasEntry'  BY <1>0 DEF StartJob
<1>3. DownIsEmpty'  BY <1>0 DEF StartJob
<1>4. StartThenEntry'  BY <1>0 DEF StartJob
<1>5. EndedEarly'  BY <1>0 DEF StartJob
<1>6. NoLateStart'  BY <1>0 DEF StartJob
<1>7. KillHasCommand'  BY <1>0 DEF StartJob
<1>8. WaitHasCommand'  BY <1>0 DEF StartJob
<1>9. NotHere'  BY <1>0 DEF StartJob
<1>10. LiveRowHasOwner'  BY <1>0 DEF StartJob
<1>11. OwnKill'  BY <1>0 DEF StartJob
<1>12. KillOrFailure'  BY <1>0 DEF StartJob
<1> QED  BY <1>1, <1>2, <1>3, <1>4, <1>5, <1>6, <1>7, <1>8, <1>9, <1>10, <1>11, <1>12

\* A kill goes on.
LEMMA KillSteps ==
  ASSUME IInv, NEW j \in Job, KillStep(j)
  PROVE  IInv'
<1> USE ShellAssumption, StopAssumption
    DEF IInv, TypeOK, StartState, JobState, WaitState, KillAll, KillOne, NoJob, Job, ProcessHasEntry,
        DownIsEmpty, StartThenEntry, EndedEarly, NoLateStart, KillHasCommand, WaitHasCommand, NotHere,
        LiveRowHasOwner, OwnKill, KillOrFailure, Running, Interrupted,
        rowVars, childVars, waitVars, faultVars, serverVars
<1>1. CASE KillTakes(j)
  <2>0. /\ job' \in [Job -> JobState] /\ \A k \in Job : k # j => job'[k] = job[k]
        /\ job'[j].left \subseteq job[j].left
        /\ job'[j].pc \in {"act", "mark", "settle"} => job'[j].command \in job[j].left
    <3>1. PICK c \in job[j].left :
            job' = [job EXCEPT ![j].pc = "act", ![j].left = @ \ {c}, ![j].command = c,
                               ![j].held = entry[c] # "none"]
      BY <1>1 DEF KillTakes
    <3> DEFINE held == entry[c] # "none"
               new == [pc |-> "act", left |-> job[j].left \ {c}, command |-> c, held |-> held]
    <3>2. held \in BOOLEAN
      OBVIOUS
    <3> HIDE DEF held
    <3>3. job[j] \in JobState /\ c \in Command
      OBVIOUS
    <3>4. new \in JobState
      BY <3>2, <3>3
    <3>5. job' = [job EXCEPT ![j] = new]
      BY ONLY <3>1, <3>3, job \in [Job -> JobState], j \in Job DEF held, JobState
    <3> QED  BY <3>4, <3>5
  <2>1. TypeOK'  BY <1>1, <2>0 DEF KillTakes
  <2>2. ProcessHasEntry'  BY <1>1 DEF KillTakes
  <2>3. DownIsEmpty'  BY <1>1 DEF KillTakes
  <2>4. StartThenEntry'  BY <1>1 DEF KillTakes
  <2>5. EndedEarly'  BY <1>1 DEF KillTakes
  <2>6. NoLateStart'  BY <1>1 DEF KillTakes
  <2>7. KillHasCommand'
    <3>1. job[j].left \subseteq Command
      OBVIOUS
    <3>2. row' = row
      BY <1>1 DEF KillTakes
    <3>3. \A c \in job[j].left : c \in Command /\ row[c] # "none"
      BY <3>1
    <3>4. \A k \in Job : k # j =>
            /\ \A c \in job'[k].left : row[c] # "none"
            /\ job'[k].pc \in {"act", "mark", "settle"} =>
                 job'[k].command \in Command /\ row[job'[k].command] # "none"
      BY <2>0
    <3> QED  BY ONLY <2>0, <3>2, <3>3, <3>4 DEF KillHasCommand
  <2>8. WaitHasCommand'  BY <1>1 DEF KillTakes
  <2>9. NotHere'  BY <1>1 DEF KillTakes
  <2>10. LiveRowHasOwner'  BY <1>1 DEF KillTakes
  <2>11. OwnKill'  BY <1>1 DEF KillTakes
  <2>12. KillOrFailure'  BY <1>1 DEF KillTakes
  <2> QED  BY <2>1, <2>2, <2>3, <2>4, <2>5, <2>6, <2>7, <2>8, <2>9, <2>10, <2>11, <2>12
<1>2. CASE KillActs(j)
  <2>0. /\ job' \in [Job -> JobState] /\ \A k \in Job : k # j => job'[k] = job[k]
        /\ job'[j].left \subseteq job[j].left
        /\ job'[j].pc \in {"act", "mark", "settle"} => job'[j].command = job[j].command
    <3> DEFINE marks == [job[j] EXCEPT !.pc = "mark"]
               settles == [job[j] EXCEPT !.pc = "settle"]
               goes == KillAll(job[j].left)
    <3>1. \E new \in {marks, settles, goes} : job' = [job EXCEPT ![j] = new]
      BY <1>2 DEF KillActs, Proceed
    <3>2. /\ marks \in JobState /\ marks.left = job[j].left /\ marks.command = job[j].command
          /\ settles \in JobState /\ settles.left = job[j].left /\ settles.command = job[j].command
          /\ goes \in JobState /\ goes.left = job[j].left /\ goes.pc \in {"none", "next"}
      <4>1. job[j] \in JobState
        OBVIOUS
      <4>2. marks \in JobState /\ marks.left = job[j].left /\ marks.command = job[j].command
        BY ONLY <4>1 DEF JobState
      <4>3. settles \in JobState /\ settles.left = job[j].left /\ settles.command = job[j].command
        BY ONLY <4>1 DEF JobState
      <4>4. goes \in JobState /\ goes.left = job[j].left /\ goes.pc \in {"none", "next"}
        BY ONLY <4>1 DEF JobState, KillAll, NoJob
      <4> QED  BY <4>2, <4>3, <4>4
    <3> HIDE DEF marks, settles, goes
    <3> QED  BY <3>1, <3>2
  <2>1. TypeOK'
    <3>1. /\ signal' \in [Command -> {"none", "term", "kill"}]
          /\ \A c \in Command : signal'[c] # "none" => entry[c] = "open"
      BY <1>2 DEF KillActs, Terminate
    <3> HIDE DEF JobState, Job
    <3> QED  BY <1>2, <2>0, <3>1 DEF KillActs
  <2>2. ProcessHasEntry'  BY <1>2 DEF KillActs, Proceed, Terminate
  <2>3. DownIsEmpty'  BY <1>2 DEF KillActs, Proceed, Terminate
  <2>4. StartThenEntry'  BY <1>2 DEF KillActs, Proceed, Terminate
  <2>5. EndedEarly'  BY <1>2 DEF KillActs, Proceed, Terminate
  <2>6. NoLateStart'  BY <1>2 DEF KillActs, Proceed, Terminate
  <2>7. KillHasCommand'
    <3> HIDE DEF JobState, Job
    <3> QED  BY <1>2, <2>0 DEF KillActs
  <2>8. WaitHasCommand'  BY <1>2 DEF KillActs, Proceed, Terminate
  <2>9. NotHere'  BY <1>2 DEF KillActs, Proceed, Terminate
  <2>10. LiveRowHasOwner'  BY <1>2 DEF KillActs, Proceed, Terminate
  <2>a. j \in Command => /\ job'[j].pc = IF entry[j] = "none" /\ row[j] = "live" THEN "mark" ELSE "settle"
                         /\ job'[j].left = {} /\ job'[j].command = j /\ job'[j].held
    <3> HAVE j \in Command
    <3>1. job[j] \in JobState /\ job[j].left = {} /\ job[j].command = j /\ job[j].held
      BY <1>2 DEF KillActs
    <3>2. job' = [job EXCEPT ![j] = [job[j] EXCEPT !.pc = IF entry[j] = "none" /\ row[j] = "live" THEN "mark" ELSE "settle"]]
      BY <1>2, <3>1 DEF KillActs, Proceed
    <3>3. job'[j] = [job[j] EXCEPT !.pc = IF entry[j] = "none" /\ row[j] = "live" THEN "mark" ELSE "settle"]
      BY ONLY <3>2, job \in [Job -> JobState], j \in Job
    <3> QED  BY ONLY <3>1, <3>3 DEF JobState
  <2>b. UNCHANGED <<row, entry, failures, server>>
    BY <1>2 DEF KillActs
  <2>11. OwnKill'
    <3>1. \A c \in Command : c # j => job'[c] = job[c]
      BY <2>0
    <3> QED  BY <1>2, <2>a, <2>b, <3>1 DEF KillActs
  <2>12. KillOrFailure'
    <3>1. \A c \in Command : c # j => job'[c] = job[c]
      BY <2>0
    <3> QED  BY <1>2, <2>a, <2>b, <3>1 DEF KillActs
  <2> QED  BY <2>1, <2>2, <2>3, <2>4, <2>5, <2>6, <2>7, <2>8, <2>9, <2>10, <2>11, <2>12
<1>3. CASE KillMarks(j)
  <2>1. TypeOK'  BY <1>3 DEF KillMarks, EndRow, Proceed
  <2>2. ProcessHasEntry'  BY <1>3 DEF KillMarks, EndRow, Proceed
  <2>3. DownIsEmpty'  BY <1>3 DEF KillMarks, EndRow, Proceed
  <2>4. StartThenEntry'  BY <1>3 DEF KillMarks, EndRow, Proceed
  <2>5. EndedEarly'  BY <1>3 DEF KillMarks, EndRow, Proceed
  <2>6. NoLateStart'  BY <1>3 DEF KillMarks, EndRow, Proceed
  <2>7. KillHasCommand'  BY <1>3 DEF KillMarks, EndRow, Proceed
  <2>8. WaitHasCommand'  BY <1>3 DEF KillMarks, EndRow, Proceed
  <2>9. NotHere'  BY <1>3 DEF KillMarks, EndRow, Proceed
  <2>10. LiveRowHasOwner'  BY <1>3 DEF KillMarks, EndRow, Proceed
  <2>11. OwnKill'  BY <1>3 DEF KillMarks, EndRow, Proceed
  <2>12. KillOrFailure'  BY <1>3 DEF KillMarks, EndRow, Proceed
  <2> QED  BY <2>1, <2>2, <2>3, <2>4, <2>5, <2>6, <2>7, <2>8, <2>9, <2>10, <2>11, <2>12
<1>4. CASE KillSettles(j)
  <2>1. TypeOK'  BY <1>4 DEF KillSettles, Proceed
  <2>2. ProcessHasEntry'  BY <1>4 DEF KillSettles, Proceed
  <2>3. DownIsEmpty'  BY <1>4 DEF KillSettles, Proceed
  <2>4. StartThenEntry'  BY <1>4 DEF KillSettles, Proceed
  <2>5. EndedEarly'  BY <1>4 DEF KillSettles, Proceed
  <2>6. NoLateStart'  BY <1>4 DEF KillSettles, Proceed
  <2>7. KillHasCommand'  BY <1>4 DEF KillSettles, Proceed
  <2>8. WaitHasCommand'  BY <1>4 DEF KillSettles, Proceed
  <2>9. NotHere'  BY <1>4 DEF KillSettles, Proceed
  <2>10. LiveRowHasOwner'  BY <1>4 DEF KillSettles, Proceed
  <2>11. OwnKill'  BY <1>4 DEF KillSettles, Proceed
  <2>12. KillOrFailure'  BY <1>4 DEF KillSettles, Proceed
  <2> QED  BY <2>1, <2>2, <2>3, <2>4, <2>5, <2>6, <2>7, <2>8, <2>9, <2>10, <2>11, <2>12
<1>5. CASE KillFails(j)
  <2>1. TypeOK'  BY <1>5 DEF KillFails
  <2>2. ProcessHasEntry'  BY <1>5 DEF KillFails
  <2>3. DownIsEmpty'  BY <1>5 DEF KillFails
  <2>4. StartThenEntry'  BY <1>5 DEF KillFails
  <2>5. EndedEarly'  BY <1>5 DEF KillFails
  <2>6. NoLateStart'  BY <1>5 DEF KillFails
  <2>7. KillHasCommand'  BY <1>5 DEF KillFails
  <2>8. WaitHasCommand'  BY <1>5 DEF KillFails
  <2>9. NotHere'  BY <1>5 DEF KillFails
  <2>10. LiveRowHasOwner'  BY <1>5 DEF KillFails
  <2>11. OwnKill'  BY <1>5 DEF KillFails
  <2>12. KillOrFailure'  BY <1>5 DEF KillFails
  <2> QED  BY <2>1, <2>2, <2>3, <2>4, <2>5, <2>6, <2>7, <2>8, <2>9, <2>10, <2>11, <2>12
<1> QED  BY <1>1, <1>2, <1>3, <1>4, <1>5 DEF KillStep

\* A wait reads, ends or gives the command up.
LEMMA WaitSteps ==
  ASSUME IInv, NEW w \in Waiter, WaitStep(w) \/ WaitAborted(w) \/ \E c \in Command : WaitReads(w, c)
  PROVE  IInv'
<1> USE ShellAssumption, StopAssumption
    DEF IInv, TypeOK, StartState, JobState, WaitState, KillAll, KillOne, NoJob, Job, ProcessHasEntry,
        DownIsEmpty, StartThenEntry, EndedEarly, NoLateStart, KillHasCommand, WaitHasCommand, NotHere,
        LiveRowHasOwner, OwnKill, KillOrFailure, Running, Interrupted,
        rowVars, childVars, waitVars, faultVars, serverVars
<1>1. CASE \E c \in Command : WaitReads(w, c)
  <2>1. TypeOK'  BY <1>1 DEF WaitReads, Looks, Starting
  <2>2. ProcessHasEntry'  BY <1>1 DEF WaitReads, Looks, Starting
  <2>3. DownIsEmpty'  BY <1>1 DEF WaitReads, Looks, Starting
  <2>4. StartThenEntry'  BY <1>1 DEF WaitReads, Looks, Starting
  <2>5. EndedEarly'  BY <1>1 DEF WaitReads, Looks, Starting
  <2>6. NoLateStart'  BY <1>1 DEF WaitReads, Looks, Starting
  <2>7. KillHasCommand'  BY <1>1 DEF WaitReads, Looks, Starting
  <2>8. WaitHasCommand'  BY <1>1 DEF WaitReads, Looks, Starting
  <2>9. NotHere'  BY <1>1 DEF WaitReads, Looks, Starting
  <2>10. LiveRowHasOwner'  BY <1>1 DEF WaitReads, Looks, Starting
  <2>11. OwnKill'  BY <1>1 DEF WaitReads, Looks, Starting
  <2>12. KillOrFailure'  BY <1>1 DEF WaitReads, Looks, Starting
  <2> QED  BY <2>1, <2>2, <2>3, <2>4, <2>5, <2>6, <2>7, <2>8, <2>9, <2>10, <2>11, <2>12
<1>2. CASE WaitEnds(w)
  <2>1. TypeOK'  BY <1>2 DEF WaitEnds, SetWait
  <2>2. ProcessHasEntry'  BY <1>2 DEF WaitEnds, SetWait
  <2>3. DownIsEmpty'  BY <1>2 DEF WaitEnds, SetWait
  <2>4. StartThenEntry'  BY <1>2 DEF WaitEnds, SetWait
  <2>5. EndedEarly'  BY <1>2 DEF WaitEnds, SetWait
  <2>6. NoLateStart'  BY <1>2 DEF WaitEnds, SetWait
  <2>7. KillHasCommand'  BY <1>2 DEF WaitEnds, SetWait
  <2>8. WaitHasCommand'  BY <1>2 DEF WaitEnds, SetWait
  <2>9. NotHere'  BY <1>2 DEF WaitEnds, SetWait
  <2>10. LiveRowHasOwner'  BY <1>2 DEF WaitEnds, SetWait
  <2>11. OwnKill'  BY <1>2 DEF WaitEnds, SetWait
  <2>12. KillOrFailure'  BY <1>2 DEF WaitEnds, SetWait
  <2> QED  BY <2>1, <2>2, <2>3, <2>4, <2>5, <2>6, <2>7, <2>8, <2>9, <2>10, <2>11, <2>12
<1>3. CASE WaitRereads(w)
  <2>1. TypeOK'  BY <1>3 DEF WaitRereads, SetWait
  <2>2. ProcessHasEntry'  BY <1>3 DEF WaitRereads, SetWait
  <2>3. DownIsEmpty'  BY <1>3 DEF WaitRereads, SetWait
  <2>4. StartThenEntry'  BY <1>3 DEF WaitRereads, SetWait
  <2>5. EndedEarly'  BY <1>3 DEF WaitRereads, SetWait
  <2>6. NoLateStart'  BY <1>3 DEF WaitRereads, SetWait
  <2>7. KillHasCommand'  BY <1>3 DEF WaitRereads, SetWait
  <2>8. WaitHasCommand'  BY <1>3 DEF WaitRereads, SetWait
  <2>9. NotHere'  BY <1>3 DEF WaitRereads, SetWait
  <2>10. LiveRowHasOwner'  BY <1>3 DEF WaitRereads, SetWait
  <2>11. OwnKill'  BY <1>3 DEF WaitRereads, SetWait
  <2>12. KillOrFailure'  BY <1>3 DEF WaitRereads, SetWait
  <2> QED  BY <2>1, <2>2, <2>3, <2>4, <2>5, <2>6, <2>7, <2>8, <2>9, <2>10, <2>11, <2>12
<1>4. CASE WaitOrphans(w)
  <2>1. TypeOK'  BY <1>4 DEF WaitOrphans, SetWait, EndRow
  <2>2. ProcessHasEntry'  BY <1>4 DEF WaitOrphans, SetWait, EndRow
  <2>3. DownIsEmpty'  BY <1>4 DEF WaitOrphans, SetWait, EndRow
  <2>4. StartThenEntry'  BY <1>4 DEF WaitOrphans, SetWait, EndRow
  <2>5. EndedEarly'  BY <1>4 DEF WaitOrphans, SetWait, EndRow
  <2>6. NoLateStart'  BY <1>4 DEF WaitOrphans, SetWait, EndRow
  <2>7. KillHasCommand'  BY <1>4 DEF WaitOrphans, SetWait, EndRow
  <2>8. WaitHasCommand'  BY <1>4 DEF WaitOrphans, SetWait, EndRow
  <2>9. NotHere'  BY <1>4 DEF WaitOrphans, SetWait, EndRow
  <2>10. LiveRowHasOwner'  BY <1>4 DEF WaitOrphans, SetWait, EndRow
  <2>11. OwnKill'  BY <1>4 DEF WaitOrphans, SetWait, EndRow
  <2>12. KillOrFailure'  BY <1>4 DEF WaitOrphans, SetWait, EndRow
  <2> QED  BY <2>1, <2>2, <2>3, <2>4, <2>5, <2>6, <2>7, <2>8, <2>9, <2>10, <2>11, <2>12
<1>5. CASE WaitAborted(w)
  <2>1. TypeOK'  BY <1>5 DEF WaitAborted, SetWait
  <2>2. ProcessHasEntry'  BY <1>5 DEF WaitAborted, SetWait
  <2>3. DownIsEmpty'  BY <1>5 DEF WaitAborted, SetWait
  <2>4. StartThenEntry'  BY <1>5 DEF WaitAborted, SetWait
  <2>5. EndedEarly'  BY <1>5 DEF WaitAborted, SetWait
  <2>6. NoLateStart'  BY <1>5 DEF WaitAborted, SetWait
  <2>7. KillHasCommand'  BY <1>5 DEF WaitAborted, SetWait
  <2>8. WaitHasCommand'  BY <1>5 DEF WaitAborted, SetWait
  <2>9. NotHere'  BY <1>5 DEF WaitAborted, SetWait
  <2>10. LiveRowHasOwner'  BY <1>5 DEF WaitAborted, SetWait
  <2>11. OwnKill'  BY <1>5 DEF WaitAborted, SetWait
  <2>12. KillOrFailure'  BY <1>5 DEF WaitAborted, SetWait
  <2> QED  BY <2>1, <2>2, <2>3, <2>4, <2>5, <2>6, <2>7, <2>8, <2>9, <2>10, <2>11, <2>12
<1> QED  BY <1>1, <1>2, <1>3, <1>4, <1>5 DEF WaitStep

\* Shutdown, crash, restart and the search for interrupted commands.
LEMMA ServerSteps ==
  ASSUME IInv, Shutdown \/ StopAndWait \/ ShutdownEnds \/ Crash \/ Restart
               \/ ListInterrupted \/ MarkInterrupted \/ MarkerFails
  PROVE  IInv'
<1> USE ShellAssumption, StopAssumption
    DEF IInv, TypeOK, StartState, JobState, WaitState, KillAll, KillOne, NoJob, Job, ProcessHasEntry,
        DownIsEmpty, StartThenEntry, EndedEarly, NoLateStart, KillHasCommand, WaitHasCommand, NotHere,
        LiveRowHasOwner, OwnKill, KillOrFailure, Running, Interrupted,
        rowVars, childVars, waitVars, faultVars, serverVars
<1>1. CASE Shutdown
  <2>1. TypeOK'  BY <1>1 DEF Shutdown
  <2>2. ProcessHasEntry'  BY <1>1 DEF Shutdown
  <2>3. DownIsEmpty'  BY <1>1 DEF Shutdown
  <2>4. StartThenEntry'  BY <1>1 DEF Shutdown
  <2>5. EndedEarly'  BY <1>1 DEF Shutdown
  <2>6. NoLateStart'  BY <1>1 DEF Shutdown
  <2>7. KillHasCommand'  BY <1>1 DEF Shutdown
  <2>8. WaitHasCommand'  BY <1>1 DEF Shutdown
  <2>9. NotHere'  BY <1>1 DEF Shutdown
  <2>10. LiveRowHasOwner'  BY <1>1 DEF Shutdown
  <2>11. OwnKill'  BY <1>1 DEF Shutdown
  <2>12. KillOrFailure'  BY <1>1 DEF Shutdown
  <2> QED  BY <2>1, <2>2, <2>3, <2>4, <2>5, <2>6, <2>7, <2>8, <2>9, <2>10, <2>11, <2>12
<1>2. CASE StopAndWait
  <2>1. TypeOK'  BY <1>2 DEF StopAndWait, Starting, active, KillAndAwait
  <2>2. ProcessHasEntry'  BY <1>2 DEF StopAndWait, Starting, active, KillAndAwait
  <2>3. DownIsEmpty'  BY <1>2 DEF StopAndWait, Starting, active, KillAndAwait
  <2>4. StartThenEntry'  BY <1>2 DEF StopAndWait, Starting, active, KillAndAwait
  <2>5. EndedEarly'  BY <1>2 DEF StopAndWait, Starting, active, KillAndAwait
  <2>6. NoLateStart'  BY <1>2 DEF StopAndWait, Starting, active, KillAndAwait
  <2>7. KillHasCommand'  BY <1>2 DEF StopAndWait, Starting, active, KillAndAwait
  <2>8. WaitHasCommand'  BY <1>2 DEF StopAndWait, Starting, active, KillAndAwait
  <2>9. NotHere'  BY <1>2 DEF StopAndWait, Starting, active, KillAndAwait
  <2>10. LiveRowHasOwner'  BY <1>2 DEF StopAndWait, Starting, active, KillAndAwait
  <2>11. OwnKill'  BY <1>2 DEF StopAndWait, Starting, active, KillAndAwait
  <2>12. KillOrFailure'  BY <1>2 DEF StopAndWait, Starting, active, KillAndAwait
  <2> QED  BY <2>1, <2>2, <2>3, <2>4, <2>5, <2>6, <2>7, <2>8, <2>9, <2>10, <2>11, <2>12
<1>3. CASE ShutdownEnds
  <2>1. TypeOK'  BY <1>3 DEF ShutdownEnds, Exit, NoStart, NoEntry, NoSignal, NoJobs, NoWait, NoneAwaited
  <2>2. ProcessHasEntry'  BY <1>3 DEF ShutdownEnds, Exit, NoStart, NoEntry, NoSignal, NoJobs, NoWait, NoneAwaited
  <2>3. DownIsEmpty'  BY <1>3 DEF ShutdownEnds, Exit, NoStart, NoEntry, NoSignal, NoJobs, NoWait, NoneAwaited
  <2>4. StartThenEntry'  BY <1>3 DEF ShutdownEnds, Exit, NoStart, NoEntry, NoSignal, NoJobs, NoWait, NoneAwaited
  <2>5. EndedEarly'  BY <1>3 DEF ShutdownEnds, Exit, NoStart, NoEntry, NoSignal, NoJobs, NoWait, NoneAwaited
  <2>6. NoLateStart'  BY <1>3 DEF ShutdownEnds, Exit, NoStart, NoEntry, NoSignal, NoJobs, NoWait, NoneAwaited
  <2>7. KillHasCommand'  BY <1>3 DEF ShutdownEnds, Exit, NoStart, NoEntry, NoSignal, NoJobs, NoWait, NoneAwaited
  <2>8. WaitHasCommand'  BY <1>3 DEF ShutdownEnds, Exit, NoStart, NoEntry, NoSignal, NoJobs, NoWait, NoneAwaited
  <2>9. NotHere'  BY <1>3 DEF ShutdownEnds, Exit, NoStart, NoEntry, NoSignal, NoJobs, NoWait, NoneAwaited
  <2>10. LiveRowHasOwner'  BY <1>3 DEF ShutdownEnds, Exit, NoStart, NoEntry, NoSignal, NoJobs, NoWait, NoneAwaited
  <2>11. OwnKill'  BY <1>3 DEF ShutdownEnds, Exit, NoStart, NoEntry, NoSignal, NoJobs, NoWait, NoneAwaited
  <2>12. KillOrFailure'  BY <1>3 DEF ShutdownEnds, Exit, NoStart, NoEntry, NoSignal, NoJobs, NoWait, NoneAwaited
  <2> QED  BY <2>1, <2>2, <2>3, <2>4, <2>5, <2>6, <2>7, <2>8, <2>9, <2>10, <2>11, <2>12
<1>4. CASE Crash
  <2>1. TypeOK'  BY <1>4 DEF Crash, Exit, NoStart, NoEntry, NoSignal, NoJobs, NoWait, NoneAwaited
  <2>2. ProcessHasEntry'  BY <1>4 DEF Crash, Exit, NoStart, NoEntry, NoSignal, NoJobs, NoWait, NoneAwaited
  <2>3. DownIsEmpty'  BY <1>4 DEF Crash, Exit, NoStart, NoEntry, NoSignal, NoJobs, NoWait, NoneAwaited
  <2>4. StartThenEntry'  BY <1>4 DEF Crash, Exit, NoStart, NoEntry, NoSignal, NoJobs, NoWait, NoneAwaited
  <2>5. EndedEarly'  BY <1>4 DEF Crash, Exit, NoStart, NoEntry, NoSignal, NoJobs, NoWait, NoneAwaited
  <2>6. NoLateStart'  BY <1>4 DEF Crash, Exit, NoStart, NoEntry, NoSignal, NoJobs, NoWait, NoneAwaited
  <2>7. KillHasCommand'  BY <1>4 DEF Crash, Exit, NoStart, NoEntry, NoSignal, NoJobs, NoWait, NoneAwaited
  <2>8. WaitHasCommand'  BY <1>4 DEF Crash, Exit, NoStart, NoEntry, NoSignal, NoJobs, NoWait, NoneAwaited
  <2>9. NotHere'  BY <1>4 DEF Crash, Exit, NoStart, NoEntry, NoSignal, NoJobs, NoWait, NoneAwaited
  <2>10. LiveRowHasOwner'  BY <1>4 DEF Crash, Exit, NoStart, NoEntry, NoSignal, NoJobs, NoWait, NoneAwaited
  <2>11. OwnKill'  BY <1>4 DEF Crash, Exit, NoStart, NoEntry, NoSignal, NoJobs, NoWait, NoneAwaited
  <2>12. KillOrFailure'  BY <1>4 DEF Crash, Exit, NoStart, NoEntry, NoSignal, NoJobs, NoWait, NoneAwaited
  <2> QED  BY <2>1, <2>2, <2>3, <2>4, <2>5, <2>6, <2>7, <2>8, <2>9, <2>10, <2>11, <2>12
<1>5. CASE Restart
  <2>1. TypeOK'  BY <1>5 DEF Restart
  <2>2. ProcessHasEntry'  BY <1>5 DEF Restart
  <2>3. DownIsEmpty'  BY <1>5 DEF Restart
  <2>4. StartThenEntry'  BY <1>5 DEF Restart
  <2>5. EndedEarly'  BY <1>5 DEF Restart
  <2>6. NoLateStart'  BY <1>5 DEF Restart
  <2>7. KillHasCommand'  BY <1>5 DEF Restart
  <2>8. WaitHasCommand'  BY <1>5 DEF Restart
  <2>9. NotHere'  BY <1>5 DEF Restart
  <2>10. LiveRowHasOwner'  BY <1>5 DEF Restart
  <2>11. OwnKill'  BY <1>5 DEF Restart
  <2>12. KillOrFailure'  BY <1>5 DEF Restart
  <2> QED  BY <2>1, <2>2, <2>3, <2>4, <2>5, <2>6, <2>7, <2>8, <2>9, <2>10, <2>11, <2>12
<1>6. CASE ListInterrupted
  <2>1. TypeOK'  BY <1>6 DEF ListInterrupted
  <2>2. ProcessHasEntry'  BY <1>6 DEF ListInterrupted
  <2>3. DownIsEmpty'  BY <1>6 DEF ListInterrupted
  <2>4. StartThenEntry'  BY <1>6 DEF ListInterrupted
  <2>5. EndedEarly'  BY <1>6 DEF ListInterrupted
  <2>6. NoLateStart'  BY <1>6 DEF ListInterrupted
  <2>7. KillHasCommand'  BY <1>6 DEF ListInterrupted
  <2>8. WaitHasCommand'  BY <1>6 DEF ListInterrupted
  <2>9. NotHere'  BY <1>6 DEF ListInterrupted
  <2>10. LiveRowHasOwner'  BY <1>6 DEF ListInterrupted
  <2>11. OwnKill'  BY <1>6 DEF ListInterrupted
  <2>12. KillOrFailure'  BY <1>6 DEF ListInterrupted
  <2> QED  BY <2>1, <2>2, <2>3, <2>4, <2>5, <2>6, <2>7, <2>8, <2>9, <2>10, <2>11, <2>12
<1>7. CASE MarkInterrupted
  <2>1. TypeOK'
    <3>1. CASE todo = {}
      BY <1>7, <3>1 DEF MarkInterrupted
    <3>2. ASSUME NEW c \in todo, EndRow(c), todo' = todo \ {c}, UNCHANGED marker
          PROVE  TypeOK'
      <4>1. row' \in [Command -> {"none", "live", "done"}] /\ early' \subseteq Command
        BY <3>2 DEF EndRow
      <4> QED  BY <1>7, <3>2, <4>1 DEF MarkInterrupted
    <3> QED  BY <1>7, <3>1, <3>2 DEF MarkInterrupted
  <2>2. ProcessHasEntry'  BY <1>7 DEF MarkInterrupted, EndRow
  <2>3. DownIsEmpty'  BY <1>7 DEF MarkInterrupted, EndRow
  <2>4. StartThenEntry'  BY <1>7 DEF MarkInterrupted, EndRow
  <2>5. EndedEarly'  BY <1>7 DEF MarkInterrupted, EndRow
  <2>6. NoLateStart'  BY <1>7 DEF MarkInterrupted, EndRow
  <2>7. KillHasCommand'  BY <1>7 DEF MarkInterrupted, EndRow
  <2>8. WaitHasCommand'  BY <1>7 DEF MarkInterrupted, EndRow
  <2>9. NotHere'  BY <1>7 DEF MarkInterrupted, EndRow
  <2>10. LiveRowHasOwner'  BY <1>7 DEF MarkInterrupted, EndRow
  <2>11. OwnKill'  BY <1>7 DEF MarkInterrupted, EndRow
  <2>12. KillOrFailure'  BY <1>7 DEF MarkInterrupted, EndRow
  <2> QED  BY <2>1, <2>2, <2>3, <2>4, <2>5, <2>6, <2>7, <2>8, <2>9, <2>10, <2>11, <2>12
<1>8. CASE MarkerFails
  <2>1. TypeOK'  BY <1>8 DEF MarkerFails
  <2>2. ProcessHasEntry'  BY <1>8 DEF MarkerFails
  <2>3. DownIsEmpty'  BY <1>8 DEF MarkerFails
  <2>4. StartThenEntry'  BY <1>8 DEF MarkerFails
  <2>5. EndedEarly'  BY <1>8 DEF MarkerFails
  <2>6. NoLateStart'  BY <1>8 DEF MarkerFails
  <2>7. KillHasCommand'  BY <1>8 DEF MarkerFails
  <2>8. WaitHasCommand'  BY <1>8 DEF MarkerFails
  <2>9. NotHere'  BY <1>8 DEF MarkerFails
  <2>10. LiveRowHasOwner'  BY <1>8 DEF MarkerFails
  <2>11. OwnKill'  BY <1>8 DEF MarkerFails
  <2>12. KillOrFailure'  BY <1>8 DEF MarkerFails
  <2> QED  BY <2>1, <2>2, <2>3, <2>4, <2>5, <2>6, <2>7, <2>8, <2>9, <2>10, <2>11, <2>12
<1> QED  BY <1>1, <1>2, <1>3, <1>4, <1>5, <1>6, <1>7, <1>8

\* The invariant is inductive.
LEMMA NextIInv == IInv /\ [Next]_vars => IInv'
<1> SUFFICES ASSUME IInv, [Next]_vars PROVE IInv'
  OBVIOUS
<1>1. ASSUME NEW k \in Killer, KillRunCommands(k) PROVE IInv'
  <2> DEFINE cs == {c \in Command : row[c] = "live"}
  <2>1. KillAll(cs) \in JobState /\ KillAll(cs).pc \in {"none", "next"} /\ KillAll(cs).left \subseteq cs
    BY DEF KillAll, NoJob, JobState
  <2>2. StartJob(k, KillAll(cs)) /\ Running
    BY <1>1 DEF KillRunCommands, Running
  <2>3. \A c \in cs : row[c] # "none"
    OBVIOUS
  <2> HIDE DEF cs
  <2> QED  BY <2>1, <2>2, <2>3, KillStarts
<1>2. ASSUME NEW k \in Killer, NEW c \in Command, KillRequest(k, c) \/ AbortForeground(k, c)
      PROVE  IInv'
  <2>1. PICK held \in BOOLEAN : StartJob(k, KillOne(c, held))
    BY <1>2 DEF KillRequest, AbortForeground
  <2>2. /\ KillOne(c, held) \in JobState
        /\ KillOne(c, held).left = {} /\ KillOne(c, held).command = c
    BY DEF KillOne, JobState
  <2>3. row[c] # "none" /\ Running
    BY <1>2 DEF KillRequest, AbortForeground, IInv, StartThenEntry, Running
  <2> QED  BY <2>1, <2>2, <2>3, KillStarts
<1>3. CASE Next
  BY <1>1, <1>2, <1>3, StartSteps, CommandSteps, KillSteps, WaitSteps, ServerSteps DEF Next
<1>4. CASE UNCHANGED vars
  <2>1. TypeOK'  BY <1>4 DEF vars, rowVars, childVars, waitVars, faultVars, serverVars, IInv, TypeOK, ProcessHasEntry, DownIsEmpty,
          StartThenEntry, EndedEarly, NoLateStart, KillHasCommand, WaitHasCommand, NotHere,
          LiveRowHasOwner, OwnKill, KillOrFailure, Running, Interrupted
  <2>2. ProcessHasEntry'  BY <1>4 DEF vars, rowVars, childVars, waitVars, faultVars, serverVars, IInv, TypeOK, ProcessHasEntry, DownIsEmpty,
          StartThenEntry, EndedEarly, NoLateStart, KillHasCommand, WaitHasCommand, NotHere,
          LiveRowHasOwner, OwnKill, KillOrFailure, Running, Interrupted
  <2>3. DownIsEmpty'  BY <1>4 DEF vars, rowVars, childVars, waitVars, faultVars, serverVars, IInv, TypeOK, ProcessHasEntry, DownIsEmpty,
          StartThenEntry, EndedEarly, NoLateStart, KillHasCommand, WaitHasCommand, NotHere,
          LiveRowHasOwner, OwnKill, KillOrFailure, Running, Interrupted
  <2>4. StartThenEntry'  BY <1>4 DEF vars, rowVars, childVars, waitVars, faultVars, serverVars, IInv, TypeOK, ProcessHasEntry, DownIsEmpty,
          StartThenEntry, EndedEarly, NoLateStart, KillHasCommand, WaitHasCommand, NotHere,
          LiveRowHasOwner, OwnKill, KillOrFailure, Running, Interrupted
  <2>5. EndedEarly'  BY <1>4 DEF vars, rowVars, childVars, waitVars, faultVars, serverVars, IInv, TypeOK, ProcessHasEntry, DownIsEmpty,
          StartThenEntry, EndedEarly, NoLateStart, KillHasCommand, WaitHasCommand, NotHere,
          LiveRowHasOwner, OwnKill, KillOrFailure, Running, Interrupted
  <2>6. NoLateStart'  BY <1>4 DEF vars, rowVars, childVars, waitVars, faultVars, serverVars, IInv, TypeOK, ProcessHasEntry, DownIsEmpty,
          StartThenEntry, EndedEarly, NoLateStart, KillHasCommand, WaitHasCommand, NotHere,
          LiveRowHasOwner, OwnKill, KillOrFailure, Running, Interrupted
  <2>7. KillHasCommand'  BY <1>4 DEF vars, rowVars, childVars, waitVars, faultVars, serverVars, IInv, TypeOK, ProcessHasEntry, DownIsEmpty,
          StartThenEntry, EndedEarly, NoLateStart, KillHasCommand, WaitHasCommand, NotHere,
          LiveRowHasOwner, OwnKill, KillOrFailure, Running, Interrupted
  <2>8. WaitHasCommand'  BY <1>4 DEF vars, rowVars, childVars, waitVars, faultVars, serverVars, IInv, TypeOK, ProcessHasEntry, DownIsEmpty,
          StartThenEntry, EndedEarly, NoLateStart, KillHasCommand, WaitHasCommand, NotHere,
          LiveRowHasOwner, OwnKill, KillOrFailure, Running, Interrupted
  <2>9. NotHere'  BY <1>4 DEF vars, rowVars, childVars, waitVars, faultVars, serverVars, IInv, TypeOK, ProcessHasEntry, DownIsEmpty,
          StartThenEntry, EndedEarly, NoLateStart, KillHasCommand, WaitHasCommand, NotHere,
          LiveRowHasOwner, OwnKill, KillOrFailure, Running, Interrupted
  <2>10. LiveRowHasOwner'  BY <1>4 DEF vars, rowVars, childVars, waitVars, faultVars, serverVars, IInv, TypeOK, ProcessHasEntry, DownIsEmpty,
          StartThenEntry, EndedEarly, NoLateStart, KillHasCommand, WaitHasCommand, NotHere,
          LiveRowHasOwner, OwnKill, KillOrFailure, Running, Interrupted
  <2>11. OwnKill'  BY <1>4 DEF vars, rowVars, childVars, waitVars, faultVars, serverVars, IInv, TypeOK, ProcessHasEntry, DownIsEmpty,
          StartThenEntry, EndedEarly, NoLateStart, KillHasCommand, WaitHasCommand, NotHere,
          LiveRowHasOwner, OwnKill, KillOrFailure, Running, Interrupted
  <2>12. KillOrFailure'  BY <1>4 DEF vars, rowVars, childVars, waitVars, faultVars, serverVars, IInv, TypeOK, ProcessHasEntry, DownIsEmpty,
          StartThenEntry, EndedEarly, NoLateStart, KillHasCommand, WaitHasCommand, NotHere,
          LiveRowHasOwner, OwnKill, KillOrFailure, Running, Interrupted
  <2> QED  BY <2>1, <2>2, <2>3, <2>4, <2>5, <2>6, <2>7, <2>8, <2>9, <2>10, <2>11, <2>12 DEF IInv
<1> QED  BY <1>3, <1>4

------------------------------------------------------------------------------
(* Theorems. *)

THEOREM Invariance == Spec => []IInv
<1> QED  BY InitIInv, NextIInv, PTL DEF Spec

\* Every reachable state is well typed: only an open process has a signal.
THEOREM ShellTypes == Spec => []TypeOK
<1>1. IInv => TypeOK  BY DEF IInv
<1> QED  BY <1>1, Invariance, PTL

\* A wait gives up only a command that no process here runs or will run.
THEOREM OrphansAreDead == Spec => []OrphanHasNoProcess
<1>1. IInv => OrphanHasNoProcess
  BY DEF IInv, NotHere, WaitHasCommand, ProcessHasEntry, OrphanHasNoProcess
<1> QED  BY <1>1, Invariance, PTL

\* While the server runs every row that is not ended has someone who will end
\* it, except where a failing query kept that from being saved.
THEOREM RowsAreOwned == Spec => []LiveRowHasOwner
<1>1. IInv => LiveRowHasOwner  BY DEF IInv
<1> QED  BY <1>1, Invariance, PTL

\* A shutdown that may exit leaves no process and no unknown row of a command
\* it does not report as a failure.
THEOREM ShutdownIsClean == Spec => []ShutdownLeavesNothing
<1>1. IInv => ShutdownLeavesNothing
  BY DEF IInv, ProcessHasEntry, NoLateStart, LiveRowHasOwner, KillOrFailure, Running, Drained,
         NoJobs, NoJob, Job,
         ShutdownLeavesNothing
<1> QED  BY <1>1, Invariance, PTL
==============================================================================
