---------------------------- MODULE ShellManager ----------------------------
(* The commands of one shell session: exec starts a process and owns it in  *)
(* the map active until its close event is handled; requests kill commands, *)
(* waits follow one to its end or declare it an orphan; a timer ends it; a  *)
(* shutdown drains; a restart marks what the last process left behind.  Any *)
(* query may fail.                                                          *)
EXTENDS FiniteSets, Naturals

CONSTANTS
  Command,   \* ids of shell_commands
  NoCommand, \* no command
  Killer,    \* requests that kill commands
  Waiter,    \* calls of waitForCommand
  MaxStops   \* bound: crashes and SIGTERMs

ASSUME ShellAssumption == /\ NoCommand \notin Command
                          /\ Command \cap Killer = {}
ASSUME StopAssumption == MaxStops \in Nat

VARIABLES
  \* ---- PostgreSQL and the operating system
  row,      \* shell_commands.status: "none", "live" (queued or running), "done"
  proc,     \* the child process: "none", "live" or "exited" (close is due)
  \* ---- memory of the server process
  start,    \* where exec stands, until the command is spawned
  entry,    \* the map active
  signal,   \* the signal sent to the child
  job,      \* where a kill stands; a command's own job is the shutdown's
  wait,     \* where a wait stands
  awaited,  \* the command it is about
  marker,   \* where markInterruptedCommandsOrphaned stands
  todo,     \* the commands it has to mark
  failures, \* commandFinishFailures and the failed kills of a shutdown
  server,   \* "up", "draining", "killing" or "down"
  \* ---- history
  early,    \* commands whose row was ended while they were starting
  unsaved,  \* commands whose end this process could not save
  stops     \* crashes and SIGTERMs so far

rowVars == <<row, early>>
childVars == <<proc, entry, signal>>
waitVars == <<wait, awaited>>
faultVars == <<failures, unsaved>>
serverVars == <<marker, todo, server, stops>>
vars == <<rowVars, childVars, start, job, waitVars, faultVars, serverVars>>

Job == Killer \cup Command

(***************************************************************************)
(* "checked" admitted, and no other command of the session was live;        *)
(* "created" the row is there, "written" it says running, "failing" in the  *)
(* catch block.                                                             *)
(***************************************************************************)
StartState == {"none", "checked", "created", "written", "failing"}

(***************************************************************************)
(* A kill works through the commands in left: "next" takes one, "act" is    *)
(* about to read its row and look for its process, "mark" found none,       *)
(* "settle" waits for the end of a process it held before it read the row,  *)
(* which only killRunCommands, the abort of a foreground command and a      *)
(* shutdown do.                                                             *)
(***************************************************************************)
JobState == [pc : {"none", "next", "act", "mark", "settle"},
             left : SUBSET Command, command : Command \cup {NoCommand}, held : BOOLEAN]
NoJob == [pc |-> "none", left |-> {}, command |-> NoCommand, held |-> FALSE]
KillAll(cs) ==
  IF cs = {} THEN NoJob
  ELSE [pc |-> "next", left |-> cs, command |-> NoCommand, held |-> FALSE]
KillOne(c, held) == [pc |-> "act", left |-> {}, command |-> c, held |-> held]

(***************************************************************************)
(* "starts" until no command is starting, "done" on the promise of the      *)
(* entry, "reread" before the second query, "orphan" the row was live.      *)
(***************************************************************************)
WaitState == {"none", "starts", "done", "reread", "orphan"}

TypeOK ==
  /\ row \in [Command -> {"none", "live", "done"}]
  /\ proc \in [Command -> {"none", "live", "exited"}]
  /\ start \in [Command -> StartState]
  /\ entry \in [Command -> {"none", "open", "closed", "written"}]
  /\ signal \in [Command -> {"none", "term", "kill"}]
  /\ \A c \in Command : signal[c] # "none" => entry[c] = "open"
  /\ job \in [Job -> JobState]
  /\ wait \in [Waiter -> WaitState]
  /\ awaited \in [Waiter -> Command \cup {NoCommand}]
  /\ marker \in {"off", "list", "mark"} /\ todo \subseteq Command
  /\ server \in {"up", "draining", "killing", "down"}
  /\ failures \subseteq Command /\ early \subseteq Command /\ unsaved \subseteq Command
  /\ stops \in 0..MaxStops

NoStart == [c \in Command |-> "none"]
NoEntry == [c \in Command |-> "none"]
NoSignal == [c \in Command |-> "none"]
NoJobs == [j \in Job |-> NoJob]
NoWait == [w \in Waiter |-> "none"]
NoneAwaited == [w \in Waiter |-> NoCommand]

Init ==
  /\ row = [c \in Command |-> "none"] /\ proc = [c \in Command |-> "none"]
  /\ start = NoStart /\ entry = NoEntry /\ signal = NoSignal /\ job = NoJobs
  /\ wait = NoWait /\ awaited = NoneAwaited
  /\ marker = "off" /\ todo = {} /\ server = "up"
  /\ failures = {} /\ early = {} /\ unsaved = {} /\ stops = 0

\* The entries of the map: "open" until the close event of the process,
\* "closed" in finishCommand, "written" when the outcome is saved.
active == {c \in Command : entry[c] # "none"}

\* startingCommands
Starting == {c \in Command : start[c] # "none"}

Running == server \in {"up", "draining", "killing"}

\* A row is ended by one who has no process to end.
EndRow(c) ==
  /\ row' = [row EXCEPT ![c] = "done"]
  /\ early' = IF start[c] # "none" THEN early \cup {c} ELSE early

-----------------------------------------------------------------------------
(* exec.                                                                    *)

\* Past beginCommandStart; the recent commands of the session have ended.
\* The deletion gate is ThreadDeletion's.
Exec(c) ==
  /\ server = "up" /\ row[c] = "none" /\ start[c] = "none"
  /\ \A d \in Command : row[d] # "live"
  /\ start' = [start EXCEPT ![c] = "checked"]
  /\ UNCHANGED <<rowVars, childVars, job, waitVars, faultVars, serverVars>>

CreateCommand(c) ==
  /\ start[c] = "checked"
  /\ row' = [row EXCEPT ![c] = "live"]
  /\ start' = [start EXCEPT ![c] = "created"]
  /\ UNCHANGED <<early, childVars, job, waitVars, faultVars, serverVars>>

\* spawnCommand writes running without a condition.
WriteRunning(c) ==
  /\ start[c] = "created"
  /\ row' = [row EXCEPT ![c] = "live"]
  /\ start' = [start EXCEPT ![c] = "written"]
  /\ UNCHANGED <<early, childVars, job, waitVars, faultVars, serverVars>>

\* Where a wait goes on once it looks at the map.
Looks(c, map) == IF map[c] # "none" THEN "done" ELSE "reread"

\* finishCommandStart: the last start resolves the waits for the starts.
EndStart(c) ==
  /\ start' = [start EXCEPT ![c] = "none"]
  /\ wait' = [w \in Waiter |->
                IF wait[w] = "starts" /\ Starting = {c}
                  THEN Looks(awaited[w], entry') ELSE wait[w]]
  /\ UNCHANGED awaited

\* A query before the row is there fails, or the command is refused.
StartRefused(c) ==
  /\ start[c] = "checked"
  /\ UNCHANGED childVars
  /\ EndStart(c)
  /\ UNCHANGED <<rowVars, job, faultVars, serverVars>>

\* The rest of spawnCommand and exec's finally block await only microtasks.
Spawn(c) ==
  /\ start[c] = "written"
  /\ proc' = [proc EXCEPT ![c] = "live"]
  /\ entry' = [entry EXCEPT ![c] = "open"]
  /\ EndStart(c)
  /\ UNCHANGED <<rowVars, signal, job, faultVars, serverVars>>

\* The environment, the event of the session or the spawn throws.
StartFails(c) ==
  /\ start[c] \in {"created", "written"}
  /\ start' = [start EXCEPT ![c] = "failing"]
  /\ UNCHANGED <<rowVars, childVars, job, waitVars, faultVars, serverVars>>

\* Mutant: the catch block saves nothing.
SaveFailureNot(c) ==
  /\ start[c] = "failing"
  /\ UNCHANGED childVars
  /\ EndStart(c)
  /\ UNCHANGED <<rowVars, job, faultVars, serverVars>>

\* The catch block saves failed: no process is in charge of the row.
SaveFailure(c) ==
  /\ start[c] = "failing"
  /\ row' = [row EXCEPT ![c] = "done"]
  /\ UNCHANGED childVars
  /\ EndStart(c)
  /\ UNCHANGED <<early, job, faultVars, serverVars>>

\* That query fails as well.
SaveFailureFails(c) ==
  /\ start[c] = "failing"
  /\ unsaved' = unsaved \cup {c}
  /\ UNCHANGED childVars
  /\ EndStart(c)
  /\ UNCHANGED <<rowVars, failures, job, serverVars>>

-----------------------------------------------------------------------------
(* The process and its end.                                                 *)

\* By itself, at a signal it does not ignore, or at SIGKILL.
ProcessExits(c) ==
  /\ proc[c] = "live"
  /\ proc' = [proc EXCEPT ![c] = "exited"]
  /\ UNCHANGED <<rowVars, entry, signal, start, job, waitVars, faultVars, serverVars>>

\* killProcess with SIGTERM.  Whether it has reached the sandbox yet is left
\* out, since a process may ignore it anyway.
Terminate(c) == signal' = [signal EXCEPT ![c] = IF @ = "none" THEN "term" ELSE @]

\* KILL_GRACE_MS have passed.
KillTimer(c) ==
  /\ entry[c] = "open" /\ signal[c] = "term"
  /\ signal' = [signal EXCEPT ![c] = "kill"]
  /\ UNCHANGED <<rowVars, proc, entry, start, job, waitVars, faultVars, serverVars>>

HardTimeout(c) ==
  /\ entry[c] = "open" /\ signal[c] = "none"
  /\ Terminate(c)
  /\ UNCHANGED <<rowVars, proc, entry, start, job, waitVars, faultVars, serverVars>>

\* Mutant: the timers are not cleared.
ClosesOnly(c) ==
  /\ entry[c] = "open" /\ proc[c] = "exited"
  /\ proc' = [proc EXCEPT ![c] = "none"]
  /\ entry' = [entry EXCEPT ![c] = "closed"]
  /\ UNCHANGED <<rowVars, signal, start, job, waitVars, faultVars, serverVars>>

\* The close event: finishCommand starts and clears the timers.
Closes(c) ==
  /\ entry[c] = "open" /\ proc[c] = "exited"
  /\ proc' = [proc EXCEPT ![c] = "none"]
  /\ entry' = [entry EXCEPT ![c] = "closed"]
  /\ signal' = [signal EXCEPT ![c] = "none"]
  /\ UNCHANGED <<rowVars, start, job, waitVars, faultVars, serverVars>>

\* The outcome of the process replaces whatever the row says.
WriteOutcome(c) ==
  /\ entry[c] = "closed"
  /\ row' = [row EXCEPT ![c] = "done"]
  /\ entry' = [entry EXCEPT ![c] = "written"]
  /\ UNCHANGED <<early, proc, signal, start, job, waitVars, faultVars, serverVars>>

\* The session is free again, done resolved and the entry deleted.
EndCommand(c) ==
  /\ entry[c] = "written"
  /\ entry' = [entry EXCEPT ![c] = "none"]
  /\ UNCHANGED <<rowVars, proc, signal, start, job, waitVars, faultVars, serverVars>>

\* A query of finishCommand fails, before the outcome is written or after:
\* done is rejected and the entry deleted, whatever the row says.
FinishFails(c) ==
  /\ entry[c] \in {"closed", "written"}
  /\ entry' = [entry EXCEPT ![c] = "none"]
  /\ failures' = failures \cup {c}
  /\ unsaved' = IF entry[c] = "closed" THEN unsaved \cup {c} ELSE unsaved
  /\ UNCHANGED <<rowVars, proc, signal, start, job, waitVars, serverVars>>

-----------------------------------------------------------------------------
(* kill and those who call it.                                              *)

StartJob(j, new) ==
  /\ job[j].pc = "none"
  /\ job' = [job EXCEPT ![j] = new]
  /\ UNCHANGED <<rowVars, childVars, start, waitVars, faultVars, serverVars>>

\* shell_kill and POST /shell-commands/:id/kill.
KillRequest(k, c) ==
  /\ server = "up" /\ row[c] # "none"
  /\ StartJob(k, KillOne(c, FALSE))

\* A foreground command whose run is cancelled is killed by its exec.
AbortForeground(k, c) ==
  /\ server = "up" /\ entry[c] # "none"
  /\ StartJob(k, KillOne(c, TRUE))

\* The live commands of a cancelled run; a handler may get here after SIGTERM.
KillRunCommands(k) ==
  /\ server \in {"up", "draining"}
  /\ StartJob(k, KillAll({c \in Command : row[c] = "live"}))

KillTakes(j) ==
  /\ job[j].pc = "next"
  /\ \E c \in job[j].left :
       job' = [job EXCEPT ![j].pc = "act", ![j].left = @ \ {c}, ![j].command = c,
                          ![j].held = entry[c] # "none"]
  /\ UNCHANGED <<rowVars, childVars, start, waitVars, faultVars, serverVars>>

\* Goes on with the next command, at once or when a held process has ended.
Proceed(j, held) ==
  job' = [job EXCEPT ![j] = IF held THEN [job[j] EXCEPT !.pc = "settle"]
                            ELSE KillAll(job[j].left)]

\* An open process is signalled, one whose end has begun is left alone, and
\* without a process a live row is ended.
KillActs(j) ==
  LET c == job[j].command IN
  /\ job[j].pc = "act"
  /\ IF entry[c] = "open" THEN Terminate(c) ELSE UNCHANGED signal
  /\ IF entry[c] = "none" /\ row[c] = "live"
       THEN job' = [job EXCEPT ![j].pc = "mark"]
       ELSE Proceed(j, job[j].held)
  /\ UNCHANGED <<rowVars, proc, entry, start, waitVars, faultVars, serverVars>>

KillMarks(j) ==
  /\ job[j].pc = "mark"
  /\ EndRow(job[j].command)
  /\ Proceed(j, FALSE)
  /\ UNCHANGED <<childVars, start, waitVars, faultVars, serverVars>>

KillSettles(j) ==
  /\ job[j].pc = "settle"
  /\ entry[job[j].command] = "none" /\ job[j].command \notin failures
  /\ Proceed(j, FALSE)
  /\ UNCHANGED <<rowVars, childVars, start, waitVars, faultVars, serverVars>>

\* A query fails, or the finish of the process awaited did: the rest of the
\* commands is left alone, and a shutdown reports its command.
KillFails(j) ==
  /\ job[j].pc # "none"
  /\ job' = [job EXCEPT ![j] = NoJob]
  /\ failures' = failures \cup ({j} \cap Command)
  /\ UNCHANGED <<rowVars, childVars, start, waitVars, unsaved, serverVars>>

-----------------------------------------------------------------------------
(* waitForCommand: shell_poll and foreground commands.                      *)

SetWait(w, pc) ==
  /\ wait' = [wait EXCEPT ![w] = pc]
  /\ awaited' = [awaited EXCEPT ![w] = IF pc = "none" THEN NoCommand ELSE @]
  /\ UNCHANGED <<childVars, start, job, faultVars, serverVars>>

\* Mutant: the starts are not awaited.
WaitReadsAtOnce(w, c) ==
  /\ server = "up" /\ wait[w] = "none" /\ row[c] # "none"
  /\ wait' = [wait EXCEPT ![w] = Looks(c, entry)]
  /\ awaited' = [awaited EXCEPT ![w] = c]
  /\ UNCHANGED <<rowVars, childVars, start, job, faultVars, serverVars>>

\* A live row without a process here may be that of a command in its start:
\* the starts are awaited before the map is asked.
WaitReads(w, c) ==
  /\ server = "up" /\ wait[w] = "none" /\ row[c] # "none"
  /\ wait' = [wait EXCEPT ![w] = IF entry[c] = "none" /\ row[c] = "live" /\ Starting # {}
                                   THEN "starts" ELSE Looks(c, entry)]
  /\ awaited' = [awaited EXCEPT ![w] = c]
  /\ UNCHANGED <<rowVars, childVars, start, job, faultVars, serverVars>>

WaitEnds(w) ==
  /\ wait[w] = "done" /\ entry[awaited[w]] = "none"
  /\ SetWait(w, "none")
  /\ UNCHANGED rowVars

\* A shutdown rejects the wait whatever the row says.
WaitRereads(w) ==
  /\ wait[w] = "reread"
  /\ SetWait(w, IF row[awaited[w]] = "live" /\ server = "up" THEN "orphan" ELSE "none")
  /\ UNCHANGED rowVars

WaitOrphans(w) ==
  /\ wait[w] = "orphan"
  /\ EndRow(awaited[w])
  /\ SetWait(w, "none")

\* The run of the caller is cancelled, or a query fails.
WaitAborted(w) ==
  /\ wait[w] # "none"
  /\ SetWait(w, "none")
  /\ UNCHANGED rowVars

-----------------------------------------------------------------------------
(* The process of the server.                                               *)

\* stopAcceptingCommands interrupts the waits.
Shutdown ==
  /\ server = "up" /\ stops < MaxStops
  /\ server' = "draining" /\ stops' = stops + 1
  /\ wait' = [w \in Waiter |-> IF wait[w] \in {"starts", "done"} THEN "none" ELSE wait[w]]
  /\ awaited' = [w \in Waiter |-> IF wait'[w] = "none" THEN NoCommand ELSE awaited[w]]
  /\ UNCHANGED <<rowVars, childVars, start, job, faultVars, marker, todo>>

\* The jobs of a shutdown: a process that has not ended is killed, and the end
\* of every command awaited.
KillAndAwait(c) ==
  IF entry[c] = "open" /\ proc[c] = "live" THEN KillOne(c, TRUE)
  ELSE [KillOne(c, TRUE) EXCEPT !.pc = "settle"]

\* Mutant: the starts are not awaited.
StopAtOnce ==
  /\ server = "draining"
  /\ server' = "killing"
  /\ job' = [j \in Job |-> IF j \in active THEN KillAndAwait(j) ELSE job[j]]
  /\ UNCHANGED <<rowVars, childVars, start, waitVars, faultVars, marker, todo, stops>>

\* The starts are over.
StopAndWait ==
  /\ server = "draining" /\ Starting = {}
  /\ server' = "killing"
  /\ job' = [j \in Job |-> IF j \in active THEN KillAndAwait(j) ELSE job[j]]
  /\ UNCHANGED <<rowVars, childVars, start, waitVars, faultVars, marker, todo, stops>>

\* The memory of the process is lost, and the sandbox dies with its parent.
Exit ==
  /\ proc' = [c \in Command |-> "none"]
  /\ start' = NoStart /\ entry' = NoEntry /\ signal' = NoSignal /\ job' = NoJobs
  /\ wait' = NoWait /\ awaited' = NoneAwaited
  /\ marker' = "off" /\ todo' = {} /\ failures' = {} /\ unsaved' = {}
  /\ UNCHANGED rowVars

\* The kills, requests and executors that were waited for are done.
Drained == job = NoJobs /\ wait = NoWait

\* With or without failures to report.
ShutdownEnds ==
  /\ server = "killing" /\ Drained
  /\ server' = "down"
  /\ Exit
  /\ UNCHANGED stops

\* The query of a timer that fails is a crash as well: nothing catches it.
Crash ==
  /\ Running /\ stops < MaxStops
  /\ server' = "down" /\ stops' = stops + 1
  /\ Exit

\* The server listens and, unawaited, looks for interrupted commands.
Restart ==
  /\ ~Running
  /\ server' = "up"
  /\ marker' = "list"
  /\ UNCHANGED <<rowVars, childVars, start, job, waitVars, faultVars, todo, stops>>

\* The commands the search still has to see to.
Interrupted == IF marker = "list" THEN {c \in Command : row[c] = "live"} ELSE todo

ListInterrupted ==
  /\ marker = "list"
  /\ marker' = "mark" /\ todo' = Interrupted
  /\ UNCHANGED <<rowVars, childVars, start, job, waitVars, faultVars, server, stops>>

\* Each is written as orphaned, whatever has become of it.
MarkInterrupted ==
  /\ marker = "mark"
  /\ IF todo = {}
       THEN marker' = "off" /\ UNCHANGED <<rowVars, todo>>
       ELSE \E c \in todo : EndRow(c) /\ todo' = todo \ {c} /\ UNCHANGED marker
  /\ UNCHANGED <<childVars, start, job, waitVars, faultVars, server, stops>>

\* A query of it fails, and the rest is left alone.
MarkerFails ==
  /\ marker # "off"
  /\ marker' = "off" /\ todo' = {}
  /\ unsaved' = unsaved \cup Interrupted
  /\ UNCHANGED <<rowVars, childVars, start, job, waitVars, failures, server, stops>>

-----------------------------------------------------------------------------
StartStep(c) ==
  \/ CreateCommand(c) \/ WriteRunning(c) \/ Spawn(c)
  \/ StartRefused(c) \/ StartFails(c) \/ SaveFailure(c) \/ SaveFailureFails(c)
CommandStep(c) ==
  \/ HardTimeout(c) \/ KillTimer(c) \/ Closes(c)
  \/ WriteOutcome(c) \/ EndCommand(c) \/ FinishFails(c)
KillStep(j) == KillTakes(j) \/ KillActs(j) \/ KillMarks(j) \/ KillSettles(j) \/ KillFails(j)
WaitStep(w) == WaitEnds(w) \/ WaitRereads(w) \/ WaitOrphans(w)

Next ==
  \/ \E c \in Command : Exec(c) \/ StartStep(c)
  \/ \E c \in Command : ProcessExits(c) \/ CommandStep(c)
  \/ \E k \in Killer : KillRunCommands(k)
  \/ \E k \in Killer, c \in Command : KillRequest(k, c) \/ AbortForeground(k, c)
  \/ \E j \in Job : KillStep(j)
  \/ \E w \in Waiter : WaitStep(w) \/ WaitAborted(w)
  \/ \E w \in Waiter, c \in Command : WaitReads(w, c)
  \/ Shutdown \/ StopAndWait \/ ShutdownEnds \/ Crash \/ Restart
  \/ ListInterrupted \/ MarkInterrupted \/ MarkerFails

Spec == Init /\ [][Next]_vars

-----------------------------------------------------------------------------
(* Properties.                                                              *)

\* A wait that gives a command up as an orphan is right: no process of this
\* server runs it and none is about to, although the row exists long before
\* the entry in active does.  (A row that was ended during the start hides the
\* start from the wait.)
OrphanHasNoProcess ==
  \A w \in Waiter : wait[w] = "orphan" =>
    LET c == awaited[w] IN
    c \in early \/ (proc[c] # "live" /\ start[c] = "none")

\* A shutdown that has nothing left to wait for leaves nothing of a command it
\* does not report as a failure, whatever was starting or being killed when it
\* began: no process, and no row for the next server to mark but those this one
\* had yet to mark itself or failed to save.
ShutdownLeavesNothing ==
  server = "killing" /\ Drained =>
    \A c \in Command \ failures :
      /\ proc[c] # "live"
      /\ row[c] = "live" => c \in Interrupted \cup unsaved

\* A row that is not ended has somebody in this server who will end it: its
\* start, its process, or the search for interrupted commands.  No kill,
\* failed start or crash leaves a command that is running for ever; only a
\* failing query that should have saved its end does.
LiveRowHasOwner ==
  Running => \A c \in Command : row[c] = "live" =>
    \/ start[c] \in {"created", "written", "failing"}
    \/ entry[c] \in {"open", "closed"}
    \/ c \in Interrupted \cup unsaved
=============================================================================
