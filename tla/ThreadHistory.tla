--------------------------- MODULE ThreadHistory ---------------------------
(* The history of a thread: the index of messages in PostgreSQL, the view   *)
(* of it that a run loads, and the context of the model that its executor   *)
(* builds from the view, extends, compacts and sends.                       *)
(*                                                                          *)
(* Runs of a thread execute one after the other (RunLifecycle); they form a *)
(* tree, and a run sees the messages of itself and of its ancestors.        *)
EXTENDS Naturals, Sequences, FiniteSets, SequencesExt

CONSTANTS
  KeepRecent,   \* config.agent.keepRecentMessages
  MaxRuns,      \* bound: runs of the thread
  MaxBranches,  \* bound: runs whose parent is not the latest run
  MaxCalls,     \* bound: tool calls of a step
  MaxMessages,  \* bound: rows of messages
  MaxSummaries, \* bound: summaries among them
  MaxStops      \* bound: crashes and SIGTERMs

ASSUME BoundAssumption ==
  /\ KeepRecent \in Nat /\ MaxRuns \in Nat \ {0} /\ MaxBranches \in Nat
  /\ MaxCalls \in Nat /\ MaxMessages \in Nat /\ MaxSummaries \in Nat
  /\ MaxStops \in Nat

VARIABLES
  \* ---- rows in PostgreSQL
  messages,   \* messages with the step results they index, in order of id
  summarized, \* ids marked in runs.metadata.context.collapsed
  parent,     \* runs.parent_run_id, 0 for none
  status,     \* runs.status of the latest run, the only one that can execute
  \* ---- memory of the server process
  exec,       \* where the executor of the latest run stands
  resume,     \* whether it was started with resume
  missing,    \* calls it still has to answer with an interrupted result
  context,    \* ids of the messages in its ContextManager
  unsaved,    \* the input it appended itself, whose id the context lacks; or 0
  fresh,      \* summaries it has made itself
  folding,    \* ids it is about to mark as summarized
  stopping,   \* the server shuts down
  \* ---- history
  dropped,    \* ids it has removed from its context without marking them
  branches,   \* branches so far
  stops       \* crashes and SIGTERMs so far

rowVars == <<messages, summarized, parent, status>>
execVars == <<exec, resume, missing, context, unsaved, fresh, folding, dropped>>
vars == <<rowVars, execVars, stopping, branches, stops>>

(***************************************************************************)
(* A message's id is its place in messages.  "input" is the run's own user  *)
(* message, "user" an answer or a next_step input.  An assistant message    *)
(* stands for its step: calls is the number of its tool calls, and tool     *)
(* results name the assistant message and the call.                         *)
(***************************************************************************)
Role == {"input", "user", "assistant", "tool", "summary"}
Message ==
  [run : 1..MaxRuns, role : Role, calls : 0..MaxCalls, step : 0..MaxMessages,
   call : 0..MaxCalls, covers : Seq(1..MaxMessages)]

(***************************************************************************)
(* "start" before runLoop, "repair" answering missing calls, "top" at the   *)
(* top of the loop, "fold" between a summary and its marks, "compact" after *)
(* it, "asked" during a model request, "replied" after its result is saved, *)
(* "tools" among its tool calls, "pause" after the result of ask_user,      *)
(* "mend" in the catch block of an abort, "none" without executor.          *)
(***************************************************************************)
ExecState == {"none", "start", "repair", "top", "fold", "compact", "asked",
              "replied", "tools", "pause", "mend"}

Latest == Len(parent)
Ids == 1..Len(messages)

TypeOK ==
  /\ messages \in Seq(Message) /\ Len(messages) <= MaxMessages
  /\ summarized \subseteq Ids
  /\ parent \in Seq(0..MaxRuns) /\ Len(parent) <= MaxRuns
  /\ status \in {"none", "active", "canceling", "waiting", "error", "ended"}
  /\ exec \in ExecState
  /\ resume \in BOOLEAN /\ stopping \in BOOLEAN
  /\ missing \in Seq(Ids \X (1..MaxCalls))
  /\ context \in Seq(0..Len(messages)) /\ unsaved \in 0..Len(messages)
  /\ fresh \subseteq Ids /\ folding \subseteq Ids /\ dropped \subseteq Ids
  /\ branches \in 0..MaxBranches /\ stops \in 0..MaxStops

Init ==
  /\ messages = <<>> /\ summarized = {} /\ parent = <<>> /\ status = "none"
  /\ exec = "none" /\ resume = FALSE /\ missing = <<>> /\ context = <<>>
  /\ unsaved = 0 /\ fresh = {} /\ folding = {} /\ dropped = {}
  /\ stopping = FALSE /\ branches = 0 /\ stops = 0

-----------------------------------------------------------------------------
(* What a run sees.                                                         *)

IsTool(i) == i # 0 /\ messages[i].role = "tool"
IsUser(i) == i # 0 /\ messages[i].role \in {"input", "user"}
IsSummary(i) == i # 0 /\ messages[i].role = "summary"
Calls(i) == IF i = 0 THEN 0 ELSE messages[i].calls

Tools == {i \in Ids : IsTool(i)}
Summaries == {i \in Ids : IsSummary(i)}

\* The elements of s that are in S.  (SelectSeq, with a set for the test.)
Only(s, S) ==
  LET only[n \in 0..Len(s)] ==
        IF n = 0 THEN <<>>
        ELSE IF s[n] \in S THEN Append(only[n-1], s[n]) ELSE only[n-1]
  IN  only[Len(s)]

\* visibleRunIds: the run and its ancestors.
Chain(r) ==
  LET up[n \in 0..Len(parent)] == IF n = 0 THEN {} ELSE {n} \cup up[parent[n]]
  IN  up[r]

\* countRunMessages
HasMessages(r) == \E i \in Ids : messages[i].run = r

\* A summary of folded messages stands for the first of them, a tool result
\* next to the call it answers, whenever it was written.
SortKey(i, chain) ==
  LET m == messages[i]
      folded == {k \in summarized : messages[k].run \in chain}
  IN  CASE m.covers # <<>> /\ ToSet(m.covers) \subseteq folded -> m.covers[1]
        [] m.role = "tool" -> m.step
        [] OTHER -> i

\* Behind the last of the sorted ids whose key is not greater.
Place(sorted, i, chain) ==
  Max({0} \cup {k \in DOMAIN sorted : SortKey(sorted[k], chain) <= SortKey(i, chain)}) + 1

\* The ids by key, equal keys by id.
ByKey(ids, chain) ==
  LET first[n \in 0..Len(messages)] ==
        IF n = 0 THEN <<>>
        ELSE LET sorted == first[n-1]
             IN  IF n \in ids THEN InsertAt(sorted, Place(sorted, n, chain), n) ELSE sorted
  IN  first[Len(messages)]

\* sanitizeThreadMessagesForModel: summaries first, no result without its call.
Sanitize(ids) ==
  LET arranged == Only(ids, Summaries) \o Only(ids, Ids \ Summaries)
      called == ToSet(arranged) \ Tools
  IN  Only(arranged, {i \in Ids : IsTool(i) => messages[i].step \in called})

\* loadThreadMessages
View(r) ==
  LET chain == Chain(r)
      visible == {i \in Ids : messages[i].run \in chain /\ i \notin summarized}
  IN  Sanitize(ByKey(visible, chain))

\* Mutant: calls are numbered from zero.
FindMissingFromZero(ids) ==
  FlattenSeq([k \in DOMAIN ids |-> [c \in 1..Calls(ids[k]) |-> <<ids[k], c - 1>>]])

\* findMissingToolResults: the calls without a result, in order.
FindMissing(ids) ==
  LET answered == {<<messages[ids[k]].step, messages[ids[k]].call>> :
                     k \in {j \in DOMAIN ids : IsTool(ids[j])}}
      calls(i) == [c \in 1..Calls(i) |-> <<i, c>>]
      unanswered(i) == Only(calls(i), ToSet(calls(i)) \ answered)
  IN  FlattenSeq([k \in DOMAIN ids |-> unanswered(ids[k])])

-----------------------------------------------------------------------------
(* Compaction of a context.                                                 *)

\* The system messages at the front that are no summary of this execution.
LeadingSystem(ids) ==
  LET system(i) == i = 0 \/ (IsSummary(i) /\ i \notin fresh)
  IN  Max({n \in 0..Len(ids) : \A k \in 1..n : system(ids[k])})

\* Everything up to the first user message is never summarized.
ProtectedEnd(ids) ==
  IF \E k \in DOMAIN ids : IsUser(ids[k]) THEN SelectInSeq(ids, IsUser)
  ELSE LeadingSystem(ids)

\* The end of a range moves down until no result after it has its call before.
BeforeSplitRound(ids, first, last) ==
  Max({n \in first..last :
         \A k \in n+1..Len(ids), j \in first+1..n :
           IsTool(ids[k]) => messages[ids[k]].step # ids[j]})

\* summaryCandidate: the end of the range to summarize, which leaves the
\* recent messages and the last tool round before them alone.
SummaryEnd(ids) ==
  LET first == ProtectedEnd(ids)
      recent == Max({first} \cup (first..Len(ids) - KeepRecent))
      whole == BeforeSplitRound(ids, first, recent)
      results == Min({n \in first..whole : \A k \in n+1..whole : IsTool(ids[k])})
  IN  Min({n \in first..results : \A k \in n+1..results : Calls(ids[k]) > 0})

Candidate(ids) ==
  SubSeq(ids, ProtectedEnd(ids) + 1, SummaryEnd(ids))

\* dbIds: nudges have no row, and the context never learns the id of the
\* input that its execution has appended.
Saved(ids) == Only(ids, Ids \ {unsaved})

CanSummarize(ids) ==
  /\ \E i \in ToSet(Candidate(ids)) : i # 0 /\ ~IsSummary(i)
  /\ Saved(Candidate(ids)) # <<>>

\* Mutant: everything up to the end of the candidate is marked.
SummarizedIdsFromFront(ids) == ToSet(Saved(SubSeq(ids, 1, SummaryEnd(ids))))

SummarizedIds(ids) == ToSet(Saved(Candidate(ids)))

\* slidingWindow: system messages, the first user message, the last summary
\* and the recent messages, from a user or assistant message on.
Window(ids) ==
  LET front == LeadingSystem(ids)
      user == SelectInSeq(ids, IsUser)
      summary == SelectLastInSeq(ids, LAMBDA i : i \in fresh)
      desired == Max({front} \cup (front..Len(ids) - KeepRecent)) + 1
      begin == Min({k \in desired..Len(ids)+1 : k > Len(ids) \/ ~IsTool(ids[k])})
      kept == 1..front \cup {user, summary} \cup begin..Len(ids)
      positions == Only([k \in DOMAIN ids |-> k], kept)
  IN  IF (summary = 0 /\ begin <= user + 1) \/ begin > Len(ids) THEN ids
      ELSE [k \in DOMAIN positions |-> ids[positions[k]]]

\* latestCompleteToolRound: where the round at the end begins, 0 if there is
\* none or it has calls without result.
LatestRound(ids) ==
  LET begin == SelectLastInSeq(ids, LAMBDA i : ~IsTool(i))
  IN  IF begin # 0 /\ Calls(ids[begin]) > 0 /\ Len(ids) - begin = Calls(ids[begin])
      THEN begin ELSE 0

-----------------------------------------------------------------------------
(* Runs, requests, crashes.                                                 *)

Aborted == stopping \/ status = "canceling"

\* The executor returns; its memory is gone.
Idle ==
  /\ exec' = "none" /\ resume' = FALSE /\ missing' = <<>> /\ context' = <<>>
  /\ unsaved' = 0 /\ fresh' = {} /\ folding' = {} /\ dropped' = {}

Start(again) ==
  /\ exec' = "start" /\ resume' = again
  /\ UNCHANGED <<missing, context, unsaved, fresh, folding, dropped>>

\* createRun
CreateRun(p) ==
  /\ ~stopping /\ status \in {"none", "error", "ended"} /\ Latest < MaxRuns
  /\ parent' = Append(parent, p) /\ status' = "active"
  /\ Start(FALSE)
  /\ UNCHANGED <<messages, summarized, stopping, stops>>

NewRun == CreateRun(Latest) /\ UNCHANGED branches

\* The branch handler takes the parent of the latest run; a request for a new
\* run may name any run of the thread.
Branch ==
  /\ Latest > 0 /\ branches < MaxBranches
  /\ \E p \in 1..Latest - 1 \cup {parent[Latest]} : CreateRun(p)
  /\ branches' = branches + 1

HasRoom == Len(messages) < MaxMessages

Row(r, role, calls, step, call, covers) ==
  [run |-> r, role |-> role, calls |-> calls, step |-> step, call |-> call,
   covers |-> covers]
UserRow(role) == Row(Latest, role, 0, 0, 0, <<>>)
ToolRow(step, call) == Row(messages[step].run, "tool", 0, step, call, <<>>)

\* resumeRun of an answer: the status and the message commit together.
Answer ==
  /\ ~stopping /\ status = "waiting" /\ HasRoom
  /\ status' = "active" /\ messages' = Append(messages, UserRow("user"))
  /\ Start(TRUE)
  /\ UNCHANGED <<summarized, parent, stopping, branches, stops>>

Continue ==
  /\ ~stopping /\ status = "error"
  /\ status' = "active" /\ Start(TRUE)
  /\ UNCHANGED <<messages, summarized, parent, stopping, branches, stops>>

\* A cancel aborts the executor; a waiting run has none.
Cancel ==
  /\ \/ exec # "none" /\ status = "active" /\ status' = "canceling"
     \/ status = "waiting" /\ status' = "ended"
  /\ UNCHANGED <<messages, summarized, parent, execVars, stopping, branches, stops>>

Shutdown ==
  /\ ~stopping /\ stops < MaxStops
  /\ stopping' = TRUE /\ stops' = stops + 1
  /\ UNCHANGED <<rowVars, execVars, branches>>

\* The process ends, by a crash unless it shuts down, and starts again.
Restart ==
  /\ stopping \/ stops < MaxStops
  /\ stops' = IF stopping THEN stops ELSE stops + 1
  /\ stopping' = FALSE
  /\ status' = IF status = "canceling" THEN "ended" ELSE status
  /\ Idle
  /\ UNCHANGED <<messages, summarized, parent, branches>>

Recover ==
  /\ ~stopping /\ exec = "none" /\ status = "active" /\ Start(TRUE)
  /\ UNCHANGED <<rowVars, stopping, branches, stops>>

-----------------------------------------------------------------------------
(* The executor.                                                            *)

\* Rows, status and context of the latest run; the rest stays.
Elsewhere == UNCHANGED <<parent, resume, stopping, branches, stops>>

End(s) ==
  /\ status' = s /\ Idle
  /\ UNCHANGED <<messages, summarized, parent, stopping, branches, stops>>

\* beginRunExecution refuses a run that has been cancelled.
NotStarted ==
  /\ exec = "start" /\ status = "canceling"
  /\ End(IF stopping THEN status ELSE "ended")

\* Mutant: a new run repairs its own calls only.
ShouldRecoverOwn == resume \/ HasMessages(Latest)

ShouldRecover == resume \/ HasMessages(Latest) \/ parent[Latest] # 0

Load ==
  /\ exec = "start" /\ status = "active"
  /\ exec' = "repair"
  /\ missing' = IF ShouldRecover THEN FindMissing(View(Latest)) ELSE <<>>
  /\ UNCHANGED <<rowVars, context, unsaved, fresh, folding, dropped>> /\ Elsewhere

\* recordInterruptedToolResult, also for calls of an ancestor; addMessage
\* refuses a second result of a call.
RecordInterrupted ==
  /\ exec \in {"repair", "mend"} /\ missing # <<>> /\ HasRoom
  /\ LET call == Head(missing)
     IN  /\ \A i \in Ids : IsTool(i) => <<messages[i].step, messages[i].call>> # call
         /\ messages' = Append(messages, ToolRow(call[1], call[2]))
  /\ missing' = Tail(missing)
  /\ UNCHANGED <<summarized, status, exec, context, unsaved, fresh, folding, dropped>>
  /\ Elsewhere

\* Mutant: a resumed run takes its input for written.
AppendsInputUnlessResumed == ~resume

AppendsInput == ~HasMessages(Latest)

BuildContext ==
  /\ exec = "repair" /\ missing = <<>>
  /\ exec' = "top"
  /\ IF AppendsInput
       THEN /\ HasRoom
            /\ messages' = Append(messages, UserRow("input"))
            /\ unsaved' = Len(messages) + 1
            /\ context' = Append(View(Latest), unsaved')
       ELSE context' = View(Latest) /\ UNCHANGED <<messages, unsaved>>
  /\ UNCHANGED <<summarized, status, missing, fresh, folding, dropped>> /\ Elsewhere

\* The check at the top of the loop.
LoopStops ==
  /\ exec = "top" /\ Aborted
  /\ End(IF stopping THEN status ELSE "ended")

\* A row of this run that the context receives as well.
AddRow(row, next) ==
  /\ HasRoom /\ messages' = Append(messages, row)
  /\ context' = Append(context, Len(messages) + 1) /\ exec' = next
  /\ UNCHANGED <<summarized, status, missing, unsaved, fresh, folding, dropped>>
  /\ Elsewhere

Go(next) ==
  /\ exec' = next
  /\ UNCHANGED <<rowVars, missing, context, unsaved, fresh, folding, dropped>>
  /\ Elsewhere

\* Mutant: an applied input reaches the database only.
ApplyInputUnseen ==
  /\ exec = "top" /\ ~Aborted /\ HasRoom
  /\ messages' = Append(messages, UserRow("user"))
  /\ UNCHANGED <<summarized, status, execVars>> /\ Elsewhere

\* addAppliedExternalInputs: a next_step input before the request.
ApplyInput ==
  /\ exec = "top" /\ ~Aborted
  /\ AddRow(UserRow("user"), "top")

\* The step has passed the check of the loop; it may compact several times.
InStep == exec = "compact" \/ (exec = "top" /\ ~Aborted)

SummaryRow(covers) == Row(Latest, "summary", 0, 0, 0, covers)
MaySummarize ==
  /\ HasRoom
  /\ Cardinality({i \in Ids : IsSummary(i)}) < MaxSummaries

\* addSummaryMessage for older messages, which the summary replaces.
SummarizeOld ==
  /\ InStep /\ CanSummarize(context) /\ MaySummarize
  /\ LET summary == Len(messages) + 1
         old == Candidate(context)
     IN  /\ messages' = Append(messages, SummaryRow(Saved(old)))
         /\ context' = SubSeq(context, 1, ProtectedEnd(context)) \o <<summary>>
                       \o SubSeq(context, SummaryEnd(context) + 1, Len(context))
         /\ fresh' = fresh \cup {summary}
         /\ dropped' = dropped \cup (ToSet(old) \cap ({unsaved} \ {0}))
  /\ folding' = SummarizedIds(context)
  /\ exec' = "fold"
  /\ UNCHANGED <<summarized, status, missing, unsaved>> /\ Elsewhere

\* markMessagesCollapsed, a statement after that of the summary.
MarkSummarized ==
  /\ exec = "fold"
  /\ summarized' = summarized \cup folding /\ folding' = {}
  /\ exec' = "compact"
  /\ UNCHANGED <<messages, status, missing, context, unsaved, fresh, dropped>>
  /\ Elsewhere

\* The sliding window forgets messages in memory only.
TrimWindow ==
  /\ InStep /\ ~CanSummarize(context) /\ Window(context) # context
  /\ context' = Window(context)
  /\ dropped' = dropped \cup ((ToSet(context) \ ToSet(Window(context))) \ {0})
  /\ exec' = "compact"
  /\ UNCHANGED <<rowVars, missing, unsaved, fresh, folding>> /\ Elsewhere

\* A summary of the latest round, whose messages stay as placeholders.
SummarizeRound ==
  /\ InStep /\ ~CanSummarize(context) /\ Window(context) = context
  /\ LatestRound(context) # 0 /\ MaySummarize
  /\ LET summary == Len(messages) + 1
         round == SubSeq(context, LatestRound(context), Len(context))
     IN  /\ messages' = Append(messages, SummaryRow(round))
         /\ context' = Append(context, summary)
         /\ fresh' = fresh \cup {summary}
  /\ exec' = "compact"
  /\ UNCHANGED <<summarized, status, missing, unsaved, folding, dropped>> /\ Elsewhere

Ask == InStep /\ Go("asked")

\* saveStepResult: the result of the request and its message.
Reply ==
  /\ exec = "asked"
  /\ \E n \in 0..MaxCalls : AddRow(Row(Latest, "assistant", n, 0, 0, <<>>), "replied")

\* The step under way, and the first of its calls that has no result.
Step == SelectLastInSeq(messages, LAMBDA m : m.role = "assistant")
NextCall ==
  1 + Cardinality({i \in Ids : IsTool(i) /\ messages[i].step = Step})

\* A finish reason other than stop and tool calls: the calls stay unanswered.
AbnormalFinish == exec = "replied" /\ End("error")

Finish == exec = "replied" /\ Calls(Step) = 0 /\ End("ended")

UseTools == exec = "replied" /\ Calls(Step) > 0 /\ Go("tools")

\* The model is nudged after a reply without action.
NoAction ==
  /\ exec = "replied" /\ Calls(Step) = 0
  /\ context' = Append(context, 0) /\ exec' = "top"
  /\ UNCHANGED <<rowVars, missing, unsaved, fresh, folding, dropped>> /\ Elsewhere

ToolResult ==
  /\ exec = "tools" /\ NextCall <= Calls(Step)
  /\ AddRow(ToolRow(Step, NextCall), "tools")

\* The result of ask_user, and then the status; later calls of the step are
\* never executed.
AskUser ==
  /\ exec = "tools" /\ NextCall <= Calls(Step)
  /\ AddRow(ToolRow(Step, NextCall), "pause")

Pause == exec = "pause" /\ End("waiting")

ToolsDone == exec = "tools" /\ NextCall > Calls(Step) /\ Go("top")

\* The loop guard, or the third reply without action.
AtStop ==
  \/ exec = "replied" /\ Calls(Step) = 0
  \/ exec = "tools" /\ NextCall > Calls(Step)

Stalled == AtStop /\ \E s \in {"waiting", "error"} : End(s)

\* prepareExternalStop finds an input, so the run goes on.
StopFindsInput ==
  /\ AtStop /\ status = "active"
  /\ AddRow(UserRow("user"), "top")

\* An exception: of a request, a tool, a compaction, the configuration, the
\* cap of steps.
Fails ==
  /\ exec \in {"start", "repair", "top", "compact", "asked", "tools"} /\ ~Aborted
  /\ End("error")

\* An abort throws; the catch block answers the calls that have no result.
AbortThrows ==
  /\ exec \in {"repair", "compact", "asked", "tools"} /\ Aborted
  /\ exec' = "mend" /\ missing' = FindMissing(View(Latest))
  /\ UNCHANGED <<rowVars, context, unsaved, fresh, folding, dropped>> /\ Elsewhere

Mended ==
  /\ exec = "mend" /\ missing = <<>>
  /\ End(IF stopping THEN status ELSE "ended")

Next ==
  \/ NewRun \/ Branch \/ Answer \/ Continue \/ Cancel
  \/ Shutdown \/ Restart \/ Recover
  \/ NotStarted \/ Load \/ RecordInterrupted \/ BuildContext
  \/ LoopStops \/ ApplyInput
  \/ SummarizeOld \/ MarkSummarized \/ TrimWindow \/ SummarizeRound
  \/ Ask \/ Reply \/ AbnormalFinish \/ Finish \/ UseTools \/ NoAction
  \/ ToolResult \/ AskUser \/ Pause \/ ToolsDone \/ Stalled \/ StopFindsInput
  \/ Fails \/ AbortThrows \/ Mended

Spec == Init /\ [][Next]_vars

-----------------------------------------------------------------------------
(* Properties.                                                              *)

\* What the model is sent in the request under way.
Sent == Only(context, Ids)

\* Providers refuse a request in which a tool call is not followed by exactly
\* its results (compaction.ts: never break tool_call and tool_result pairs).
\* No crash, abort, question, ancestor, window or summary may break a pair.
RequestPaired ==
  exec = "asked" =>
    LET request == Sent
        Round(k) == k+1..k+Calls(request[k])
    IN  /\ \A k \in DOMAIN request :
             /\ Round(k) \subseteq DOMAIN request
             /\ \A j \in Round(k) : /\ IsTool(request[j])
                                    /\ messages[request[j]].step = request[k]
             /\ Cardinality({messages[request[j]].call : j \in Round(k)})
                  = Calls(request[k])
        /\ \A j \in DOMAIN request :
             IsTool(request[j]) => \E k \in 1..j-1 : j \in Round(k)

\* A run that asks has written its own input once, before its other messages,
\* however often it was started: the executor decides by the rows, not by
\* resume, whether the input is still to be written.
InputFirst ==
  exec = "asked" =>
    LET own == {i \in Ids : messages[i].run = Latest}
    IN  \E i \in own : /\ messages[i].role = "input"
                       /\ \A j \in own \ {i} : j > i /\ messages[j].role # "input"

Regular(ids) == Only(ids, Ids \ Summaries)

\* The context in memory is what a restarted executor would load, but for what
\* the sliding window has dropped: nothing that the model has seen is missing
\* after a crash, and nothing stands in another place.
ReloadAgrees ==
  exec = "asked" =>
    Regular(context) = Only(Regular(View(Latest)), Ids \ dropped)

\* What ids and the summaries among them stand for.
Told(ids) ==
  LET told[n \in 0..Len(messages)] ==
        IF n = 0 THEN ids
        ELSE LET i == Len(messages) + 1 - n
             IN  told[n-1] \cup
                   IF i \in told[n-1] THEN ToSet(messages[i].covers) ELSE {}
  IN  told[Len(messages)]

Lost ==
  {i \in Ids : messages[i].run \in Chain(Latest)} \ Told(ToSet(View(Latest)))

\* A message of the branch is in the view of its run, or a summary in the view
\* stands for it, at every moment and so after a crash between any two writes:
\* it is lost only when a run outside of the branch has summarized it.
HistoryKept ==
  Latest > 0 =>
    \A i \in Lost : \E s \in Ids : /\ messages[s].run \notin Chain(Latest)
                                   /\ i \in ToSet(messages[s].covers)
=============================================================================
