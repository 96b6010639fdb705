---------------------------- MODULE EventStream ----------------------------
(* How a browser tab follows one run: the executor, its background tasks    *)
(* and those who start it publish the events of steps, and the executor     *)
(* each step once it is complete, on the bus of the process; a socket       *)
(* subscribes, reads the completed steps while events go on, and sends a    *)
(* snapshot; the tab merges all of it, and the history it loads again after *)
(* every close, into what it shows.                                         *)
EXTENDS Naturals, Sequences

CONSTANTS
  MaxStep,   \* bound: steps of the run
  MaxEvents, \* bound: events of a step after which it publishes no more
  MaxLate,   \* bound: events of a step after which none is published behind its end
  MaxFrames, \* bound: frames under way behind which no step publishes an event
  MaxFaults  \* bound: lost connections, failed loads, crashes and resumptions of the run

ASSUME StreamAssumption == /\ MaxStep \in Nat \ {0} /\ MaxEvents \in Nat \ {0}
                           /\ MaxLate \in Nat /\ MaxFrames \in Nat \ {0}
                           /\ MaxFaults \in Nat

VARIABLES
  \* ---- PostgreSQL
  status,    \* runs.status: "live", "canceling", "canceled", "over" for the other ends
  saved,     \* steps: 0 no result, 1 some call has no result yet, 2 complete
  \* ---- memory of the server process
  pc,        \* where the executor stands
  step,      \* the last step begun
  active,    \* activeSteps of the bus, 0 for none
  cursor,    \* cursors of the bus
  buffer,    \* buffers of the bus, by step
  conn,      \* the socket: "none", "reading", "read" or "open"
  after,     \* completedThrough of its subscription
  rows,      \* what it has read of the steps
  announced, \* announcedSteps
  checks,    \* onSettled calls that have not read the status yet
  \* ---- the network and the tab
  channel,   \* frames under way
  mode,      \* "closed", "offline", "online" or "done"
  snapped,   \* snapshotReceived
  pending,   \* pendingEvents
  view,      \* what is shown of each step
  through,   \* reattachedCompletedThroughRef
  \* ---- history
  published, \* events published of each step
  since,     \* the step at which the process started
  missed,    \* events of each step that are older than the connection
  quiet,     \* recovery has canceled the run behind an open connection
  faults

dbVars == <<status, saved>>
execVars == <<pc, step, published, since>>
busVars == <<active, cursor, buffer>>
connVars == <<conn, after, rows, announced, checks>>
tabVars == <<mode, snapped, pending, view, through>>
connHistory == <<missed, quiet>>
vars == <<dbVars, execVars, busVars, connVars, channel, tabVars, connHistory, faults>>

Step == 1..MaxStep
Event == [step : Step, n : Nat, cursor : Nat]
Shown == [level : 0..2, live : Seq(Nat)]
Blank == [level |-> 0, live |-> <<>>]

(***************************************************************************)
(* "starting" before the missing results of earlier steps are written,      *)
(* "between" two steps, "open" in one, "over" with the status written,      *)
(* "clear" before the bus forgets the run, "off" after it; "resumed" with   *)
(* the new status committed, "down" before recovery has listed the run and  *)
(* "listed" once it has, as one to start again.                             *)
(***************************************************************************)
ExecutorState == {"starting", "between", "open", "over", "clear", "off", "resumed", "down",
                  "listed"}

Ended == {"over", "canceled"}

EventFrame(e) == [kind |-> "event", event |-> e]
CompletedFrame(s, level) == [kind |-> "completed", step |-> s, level |-> level]
SnapshotFrame(s, es, c) == [kind |-> "snapshot", step |-> s, events |-> es, cursor |-> c]
CloseFrame == [kind |-> "close"]

TypeOK ==
  /\ status \in {"live", "canceling"} \cup Ended
  /\ saved \in [Step -> 0..2]
  /\ pc \in ExecutorState
  /\ step \in 0..MaxStep
  /\ active \in {0, step}
  /\ cursor \in Nat
  /\ buffer \in [Step -> Seq(Nat)]
  /\ conn \in {"none", "reading", "read", "open"}
  /\ after \in 0..MaxStep
  /\ rows \in [Step -> 0..2]
  /\ announced \subseteq Step
  /\ checks \in Nat
  /\ mode \in {"closed", "offline", "online", "done"}
  /\ snapped \in BOOLEAN
  /\ pending \in Seq(Event)
  /\ view \in [Step -> Shown]
  /\ through \in 0..MaxStep
  /\ published \in [Step -> Nat] /\ missed \in [Step -> Nat]
  /\ since \in 0..step
  /\ quiet \in BOOLEAN
  /\ snapped => pending = <<>>

NoRows == [s \in Step |-> <<>>]
NoneOf == [s \in Step |-> 0]

Init ==
  /\ status = "live" /\ saved = [s \in Step |-> 0]
  /\ pc = "starting" /\ step = 0
  /\ active = 0 /\ cursor = 0 /\ buffer = NoRows
  /\ conn = "none" /\ after = 0 /\ rows = [s \in Step |-> 0] /\ announced = {} /\ checks = 0
  /\ channel = <<>>
  /\ mode = "closed" /\ snapped = FALSE /\ pending = <<>>
  /\ view = [s \in Step |-> Blank] /\ through = 0
  /\ published = NoneOf /\ since = 0 /\ missed = NoneOf /\ quiet = FALSE
  /\ faults = 0

----------------------------------------------------------------------------
(* The executor and the bus *)

\* The listeners are set from Connect until the socket closes.
OnceOpen == conn = "open"
Subscribed == conn # "none"

Send(f) == channel' = Append(channel, f)

\* publish of an event of step s.
Emit(s) ==
  /\ published' = [published EXCEPT ![s] = @ + 1]
  /\ cursor' = cursor + 1
  /\ buffer' = [buffer EXCEPT ![s] = Append(@, published[s] + 1)]
  /\ IF Subscribed
       THEN Send(EventFrame([step |-> s, n |-> published[s] + 1, cursor |-> cursor + 1]))
       ELSE UNCHANGED channel

\* An event of the step that has not begun.  One that goes before a step
\* beyond the bound is left out.
EmitAhead ==
  IF step < MaxStep THEN Emit(step + 1) ELSE UNCHANGED <<published, cursor, buffer, channel>>

\* createStep, then clearBeforeStep.  A cancel between the check of the status
\* and this is one just after it.
Begin ==
  /\ pc = "between" /\ status = "live" /\ step < MaxStep
  /\ step' = step + 1
  /\ pc' = "open"
  /\ active' = step + 1
  /\ buffer' = [s \in Step |-> IF s > step THEN buffer[s] ELSE <<>>]
  /\ UNCHANGED <<dbVars, cursor, published, since, connVars, channel, tabVars, connHistory, faults>>

\* The executor in its step, and commands and subagents of this process that
\* were started in a step and go on, even behind the end of the run.
Publish(s) ==
  /\ s > since /\ s <= step /\ Len(channel) < MaxFrames
  /\ published[s] < IF pc = "open" /\ s = step THEN MaxEvents ELSE MaxLate
  /\ Emit(s)
  /\ UNCHANGED <<dbVars, pc, step, since, active, connVars, tabVars, connHistory, faults>>

\* The answer of the model is stored, then the results of its calls.
Save ==
  /\ pc = "open" /\ saved[step] < 2
  /\ \E level \in (saved[step] + 1)..2 : saved' = [saved EXCEPT ![step] = level]
  /\ UNCHANGED <<status, execVars, busVars, connVars, channel, tabVars, connHistory, faults>>

PublishStepCompleted ==
  IF step = 0 \/ saved[step] = 0
  THEN UNCHANGED <<active, announced, channel>>
  ELSE /\ active' = 0
       /\ IF Subscribed
          THEN announced' = announced \cup {step} /\ Send(CompletedFrame(step, saved[step]))
          ELSE UNCHANGED <<announced, channel>>

\* The rows of the finished step stay in the buffer until the next one begins.
CompleteStep ==
  /\ pc = "open" /\ saved[step] = 2
  /\ PublishStepCompleted
  /\ pc' = "between"
  /\ UNCHANGED <<dbVars, step, published, since, cursor, buffer, conn, after, rows, checks,
                 tabVars, connHistory, faults>>

\* POST /runs/:id/cancel of a run that works.
Cancel ==
  /\ status = "live"
  /\ status' = "canceling"
  /\ UNCHANGED <<saved, execVars, busVars, connVars, channel, tabVars, connHistory, faults>>

\* The outcome of a step is written over a cancel request, too.
EndInStep ==
  /\ pc = "open"
  /\ status' \in IF status = "canceling" THEN Ended ELSE {"over"}
  /\ pc' = "over"
  /\ UNCHANGED <<saved, step, published, since, busVars, connVars, channel, tabVars,
                 connHistory, faults>>

\* An error, or a cancel request that the executor finds before a step: then
\* currentStepIdx is not a step that could be published again.
EndBetween ==
  /\ pc \in {"starting", "between"}
  /\ status' = IF status = "canceling" THEN "canceled" ELSE "over"
  /\ IF pc = "between" /\ status = "canceling" THEN EmitAhead
       ELSE UNCHANGED <<published, cursor, buffer, channel>>
  /\ pc' = "clear"
  /\ UNCHANGED <<saved, step, since, active, connVars, tabVars, connHistory, faults>>

CompleteLast ==
  /\ pc = "over"
  /\ PublishStepCompleted
  /\ pc' = "clear"
  /\ UNCHANGED <<dbVars, step, published, since, cursor, buffer, conn, after, rows, checks,
                 tabVars, connHistory, faults>>

Clear ==
  /\ pc = "clear"
  /\ pc' = "off"
  /\ active' = 0 /\ cursor' = 0 /\ buffer' = NoRows
  /\ checks' = IF Subscribed THEN checks + 1 ELSE checks
  /\ UNCHANGED <<dbVars, step, published, since, conn, after, rows, announced, channel,
                 tabVars, connHistory, faults>>

\* continue or answer commits.  Only while the tab still follows the run; one
\* that showed its end does so in another way.
Resume ==
  /\ pc = "off" /\ status = "over" /\ mode # "done" /\ faults < MaxFaults
  /\ status' = "live"
  /\ pc' = "resumed"
  /\ faults' = faults + 1
  /\ UNCHANGED <<saved, step, published, since, busVars, connVars, channel, tabVars, connHistory>>

\* It publishes the recovery or the answer and starts the executor.
Launch ==
  /\ pc = "resumed"
  /\ pc' = "starting"
  /\ EmitAhead
  /\ UNCHANGED <<dbVars, step, since, active, connVars, tabVars, connHistory, faults>>

\* Recovery lists the runs that work, while requests are served again ...
List ==
  /\ pc = "down" /\ status = "live"
  /\ pc' = "listed"
  /\ UNCHANGED <<dbVars, step, published, since, busVars, connVars, channel, tabVars,
                 connHistory, faults>>

\* ... starts the executor of one ...
RecoverLive ==
  /\ pc = "listed"
  /\ pc' = "starting"
  /\ EmitAhead
  /\ UNCHANGED <<dbVars, step, since, active, connVars, tabVars, connHistory, faults>>

\* ... and cancels one that it listed as canceling itself, without an executor
\* and without a word on the bus.
RecoverCanceling ==
  /\ pc = "down" /\ status = "canceling"
  /\ pc' = "off"
  /\ status' = "canceled"
  /\ quiet' = (conn = "open" /\ checks = 0)
  /\ UNCHANGED <<saved, step, published, since, busVars, connVars, channel, tabVars, missed, faults>>

\* Each call without a result gets one and an event of the step to come; before
\* the first step they are calls of the runs before this one.
Start ==
  /\ pc = "starting"
  /\ pc' = "between"
  /\ saved' = [s \in Step |-> IF saved[s] = 1 THEN 2 ELSE saved[s]]
  /\ LET interrupted == \E s \in Step : saved[s] = 1
     IN \/ (interrupted \/ step = 0) /\ EmitAhead
        \/ ~interrupted /\ UNCHANGED <<published, cursor, buffer, channel>>
  /\ UNCHANGED <<status, step, since, active, connVars, tabVars, connHistory, faults>>

----------------------------------------------------------------------------
(* The socket *)

\* The tab connects and the listeners are set; nothing is sent before that.
Connect ==
  /\ mode = "offline"
  /\ mode' = "online" /\ snapped' = FALSE /\ pending' = <<>>
  /\ conn' = "reading" /\ after' = through /\ announced' = {} /\ checks' = 0
  /\ UNCHANGED <<dbVars, execVars, busVars, rows, channel, view, through, connHistory, faults>>

SavedAfter == [s \in Step |-> IF s > after THEN saved[s] ELSE 0]

ReadSteps ==
  /\ conn = "reading"
  /\ conn' = "read"
  /\ rows' = SavedAfter
  /\ UNCHANGED <<dbVars, execVars, busVars, after, announced, checks, channel, tabVars,
                 connHistory, faults>>

\* Completed frames in the order of the steps.
CompletedFrames(steps, levels) ==
  LET f[s \in 0..MaxStep] ==
        IF s = 0 THEN <<>>
        ELSE IF s \in steps THEN Append(f[s - 1], CompletedFrame(s, levels[s])) ELSE f[s - 1]
  IN f[MaxStep]

RowsOf(s) == IF s = 0 THEN <<>> ELSE buffer[s]
Snapshot == SnapshotFrame(active, RowsOf(active), cursor)

ReplayWith(later) ==
  /\ conn = "read"
  /\ conn' = "open"
  /\ LET steps == {s \in Step : rows[s] > 0 /\ s # active} \ announced
     IN /\ channel' = (channel \o CompletedFrames(steps, rows)) \o <<Snapshot>>
        /\ announced' = announced \cup steps
  /\ rows' = [s \in Step |-> 0]
  /\ checks' = checks + later
  /\ missed' = [s \in Step |-> published[s] - (IF s = active THEN Len(buffer[s]) ELSE 0)]
  /\ UNCHANGED <<dbVars, execVars, busVars, after, tabVars, quiet, faults>>

ReplayOnly == ReplayWith(0)

\* The snapshot is of the same instant as the frames after it; then onSettled.
Replay == ReplayWith(1)

\* onSettled, once its queries have returned.
Check ==
  /\ conn \in {"reading", "read", "open"} /\ checks > 0
  /\ IF status \in Ended
     THEN LET steps == {s \in Step : SavedAfter[s] > 0} \ announced
          IN /\ channel' = (channel \o CompletedFrames(steps, saved)) \o <<CloseFrame>>
             /\ conn' = "none" /\ checks' = 0 /\ announced' = {} /\ rows' = [s \in Step |-> 0]
             /\ after' = 0 /\ missed' = NoneOf
     ELSE /\ checks' = checks - 1
          /\ UNCHANGED <<channel, conn, announced, rows, after, missed>>
  /\ UNCHANGED <<dbVars, execVars, busVars, tabVars, quiet, faults>>

Disconnected ==
  /\ conn' = "none" /\ checks' = 0 /\ announced' = {} /\ rows' = [s \in Step |-> 0] /\ after' = 0
  /\ channel' = <<>>
  /\ mode' = IF mode = "online" THEN "closed" ELSE mode
  /\ snapped' = FALSE /\ pending' = <<>> /\ missed' = NoneOf /\ quiet' = FALSE

\* The frames under way are lost.
Drop ==
  /\ mode = "online" /\ faults < MaxFaults
  /\ faults' = faults + 1
  /\ Disconnected
  /\ UNCHANGED <<dbVars, execVars, busVars, view, through>>

\* The process and its tasks are gone, and a new one listens.
Crash ==
  /\ faults < MaxFaults
  /\ faults' = faults + 1
  /\ Disconnected
  /\ active' = 0 /\ cursor' = 0 /\ buffer' = NoRows
  /\ pc' = IF status \in Ended THEN "off" ELSE "down"
  /\ since' = step
  /\ UNCHANGED <<dbVars, step, published, view, through>>

----------------------------------------------------------------------------
(* The tab *)

Receives(kind) == mode = "online" /\ channel # <<>> /\ Head(channel).kind = kind

AddEvent(v, e) == [v EXCEPT ![e.step].live = Append(@, e.n)]

ReceiveEvent ==
  /\ Receives("event")
  /\ LET e == Head(channel).event
     IN IF snapped
        THEN view' = AddEvent(view, e) /\ UNCHANGED pending
        ELSE pending' = Append(pending, e) /\ UNCHANGED view
  /\ channel' = Tail(channel)
  /\ UNCHANGED <<dbVars, execVars, busVars, connVars, mode, snapped, through, connHistory, faults>>

\* The aggregate takes the place of the events of its step.
ReceiveCompleted ==
  /\ Receives("completed")
  /\ LET f == Head(channel)
     IN /\ view' = [view EXCEPT ![f.step] = [level |-> f.level, live |-> <<>>]]
        /\ through' = IF f.step > through THEN f.step ELSE through
  /\ channel' = Tail(channel)
  /\ UNCHANGED <<dbVars, execVars, busVars, connVars, mode, snapped, pending, connHistory, faults>>

AddAll(v, es, c) ==
  LET f[i \in 0..Len(es)] ==
        IF i = 0 THEN v ELSE IF es[i].cursor > c THEN AddEvent(f[i - 1], es[i]) ELSE f[i - 1]
  IN f[Len(es)]
\* The sort of pending by cursor is left out: what is newer than a snapshot in
\* it is left from before the bus forgot the run.
AddPending(v, es, c) == AddAll(v, es, 0)

AddNewer(v, es, c) == AddAll(v, es, c)

PendingStays == UNCHANGED pending
PendingGone == pending' = <<>>

ReceiveSnapshot ==
  /\ Receives("snapshot")
  /\ LET f == Head(channel)
         v == IF f.step = 0 THEN view
              ELSE [view EXCEPT ![f.step] = [level |-> 0, live |-> f.events]]
     IN view' = AddNewer(v, pending, f.cursor)
  /\ snapped' = TRUE /\ PendingGone
  /\ channel' = Tail(channel)
  /\ UNCHANGED <<dbVars, execVars, busVars, connVars, mode, through, connHistory, faults>>

ReceiveClose ==
  /\ Receives("close")
  /\ mode' = "closed" /\ snapped' = FALSE /\ pending' = <<>>
  /\ channel' = Tail(channel)
  /\ UNCHANGED <<dbVars, execVars, busVars, connVars, view, through, connHistory, faults>>

History == [s \in Step |-> [level |-> saved[s], live |-> <<>>]]
InView == {s \in Step : view[s] # Blank}

\* The latest step of the tab stands in for the one of the history.
Merged ==
  [s \in Step |-> IF s \in InView /\ \A t \in InView : t <= s THEN view[s] ELSE History[s]]

\* The last step of the run up to which all are complete.
SafeThrough ==
  LET safe == {s \in Step : /\ saved[s] = 2
                            /\ \A t \in 1..s : saved[t] # 1}
  IN IF safe = {} THEN 0 ELSE CHOOSE s \in safe : \A t \in safe : t <= s

Refresh ==
  /\ mode = "closed"
  /\ IF status \notin Ended
     THEN mode' = "offline" /\ view' = Merged /\ through' = SafeThrough
     ELSE mode' = "done" /\ view' = History /\ through' = 0
  /\ UNCHANGED <<dbVars, execVars, busVars, connVars, channel, snapped, pending, connHistory, faults>>

\* The tab connects again with what it has.
RefreshFails ==
  /\ mode = "closed" /\ faults < MaxFaults
  /\ faults' = faults + 1
  /\ mode' = "offline"
  /\ UNCHANGED <<dbVars, execVars, busVars, connVars, channel, snapped, pending, view, through,
                 connHistory>>

----------------------------------------------------------------------------
Execute ==
  \/ Start \/ Begin \/ Save \/ CompleteStep \/ EndInStep \/ EndBetween \/ CompleteLast \/ Clear
  \/ \E s \in Step : Publish(s)
Control == Cancel \/ Resume \/ Launch \/ List \/ RecoverLive \/ RecoverCanceling
Serve == ReadSteps \/ Replay \/ Check
Follow == Connect \/ ReceiveEvent \/ ReceiveCompleted \/ ReceiveSnapshot \/ ReceiveClose \/ Refresh

Next == Execute \/ Control \/ Serve \/ Follow \/ Drop \/ Crash \/ RefreshFails

Spec == Init /\ [][Next]_vars

(***************************************************************************)
(* An executor that has ended its run runs its finally blocks, queries      *)
(* return, and the tab reads its socket, connects and loads again.          *)
(***************************************************************************)
Fairness == /\ WF_vars(CompleteLast \/ Clear)
            /\ WF_vars(Serve) /\ WF_vars(Follow)
FairSpec == Spec /\ Fairness

----------------------------------------------------------------------------
\* The numbers of the events of a step among the frames under way.
EventsOf(s) ==
  LET f[k \in 0..Len(channel)] ==
        IF k = 0 THEN <<>>
        ELSE IF channel[k].kind = "event" /\ channel[k].event.step = s
             THEN Append(f[k - 1], channel[k].event.n)
             ELSE f[k - 1]
  IN f[Len(channel)]

(***************************************************************************)
(* Behind its snapshot a tab has, with the frames under way, every event of *)
(* the step in progress once and in order, those the process published      *)
(* before the step began and before the connection included.  It may lack   *)
(* (missed) the events of an earlier process, and those that went ahead of  *)
(* a step before its socket made a snapshot in which the step had not begun.*)
(***************************************************************************)
LiveStepExact ==
  mode = "online" /\ snapped /\ Subscribed /\ active # 0 =>
    LET known == view[active].live \o EventsOf(active)
        new == {i \in DOMAIN known : known[i] > missed[active]}
    IN /\ \A n \in (missed[active] + 1)..published[active] : \E i \in new : known[i] = n
       /\ \A i, j \in new : i < j => known[i] < known[j]

(***************************************************************************)
(* A connection brings every step after its cursor that has a result and is *)
(* not in progress: those stored before it, while it was set up, and after. *)
(***************************************************************************)
StepsDelivered ==
  mode = "online" /\ snapped /\ Subscribed =>
    \A s \in Step :
      saved[s] > 0 /\ s > after /\ s # active =>
        \/ view[s].level > 0
        \/ \E i \in DOMAIN channel : channel[i].kind = "completed" /\ channel[i].step = s

(***************************************************************************)
(* When a run is over for good, a tab that follows it ends up with every    *)
(* stored step as stored, through lost connections and failed loads; but a  *)
(* connection that had looked at the status before recovery canceled the    *)
(* run is told nothing.                                                     *)
(***************************************************************************)
EndIsShown ==
  status \in Ended ~>
    \/ status \notin Ended
    \/ mode = "done" /\ view = History
    \/ mode = "online" /\ quiet
============================================================================
