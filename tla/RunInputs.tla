----------------------------- MODULE RunInputs -----------------------------
(* How an external caller adds input to a run that is already executing     *)
(* (run.append with delivery next_step): the acceptance of an input, the    *)
(* executor that applies pending inputs between steps, the compare-and-set  *)
(* that closes the input before the run ends, cancel, crash and restart.    *)
(*                                                                          *)
(* One run of an external thread whose space allows next_step.  Launch and  *)
(* registration of its executor are RunLifecycle's.                         *)
EXTENDS Naturals, Sequences, FiniteSets, SequencesExt

CONSTANTS
  Input,    \* the next_step requests callers may send
  MaxStops  \* bound: crashes of the process

ASSUME InputAssumption == IsFiniteSet(Input) /\ MaxStops \in Nat

VARIABLES
  \* ---- rows in PostgreSQL
  status,       \* runs.status
  open,         \* runs.external_input_open
  version,      \* runs.input_version
  input,        \* run_inputs.status, "none" before the row exists
  inputVersion, \* run_inputs.version
  messages,     \* the user messages made of inputs, in the order of their ids
  saved,        \* runtime_state.lastAppliedExternalInputVersion
  \* ---- memory of the server process
  exec,         \* where the executor stands
  returned,     \* inputs an apply or a close has returned
  context,      \* the inputs in the executor's model context
  lastApplied,  \* lastAppliedExternalInputVersion of the executor
  cancel,       \* run.cancel: "idle", or "read" the status before its update
  stops         \* crashes so far

rows == <<status, open, version, input, inputVersion, messages, saved>>
memory == <<exec, returned, context, lastApplied, cancel>>
vars == <<rows, memory, stops>>

Active == {"pending", "running"}
Terminal == {"done", "error", "canceled"}

(***************************************************************************)
(* "down" no process, "start" before beginRunExecution, "top" the status    *)
(* check of a step, "apply" and "claim" applyPendingRunInputs, "request"    *)
(* the model request and its tools, "close" prepareExternalStop of a final  *)
(* text and "closeStalled" of a stalled or repeating run, "add" and         *)
(* "addClosed" the bookkeeping of returned inputs, "...Write" a decided     *)
(* outcome, "none" after it.                                                *)
(***************************************************************************)
ExecState == {"down", "start", "top", "apply", "claim", "add", "request",
              "close", "closeStalled", "addClosed", "doneWrite", "errorWrite",
              "cancelWrite", "none"}

\* A request is accepted at most once: the version counts the accepted ones.
TypeOK ==
  /\ status \in Active \cup {"canceling"} \cup Terminal
  /\ open \in BOOLEAN
  /\ version \in 0..Cardinality(Input)
  /\ input \in [Input -> {"none", "pending", "applied", "canceled"}]
  /\ inputVersion \in [Input -> Nat]
  /\ messages \in Seq(Input)
  /\ saved \in Nat
  /\ exec \in ExecState
  /\ returned \in Seq(Input)
  /\ context \in Seq(Input)
  /\ lastApplied \in Nat
  /\ cancel \in {"idle", "read"}
  /\ stops \in 0..MaxStops

Init ==
  /\ status = "pending" /\ open = TRUE /\ version = 0
  /\ input = [i \in Input |-> "none"]
  /\ inputVersion = [i \in Input |-> 0]
  /\ messages = <<>> /\ saved = 0
  /\ exec = "start"
  /\ returned = <<>> /\ context = <<>> /\ lastApplied = 0
  /\ cancel = "idle"
  /\ stops = 0

Pending == {i \in Input : input[i] = "pending"}
ByVersion ==
  CHOOSE s \in [1..Cardinality(Pending) -> Pending] :
    \A k, n \in DOMAIN s : k < n => inputVersion[s[k]] < inputVersion[s[n]]

-----------------------------------------------------------------------------
(* Requests of the callers.                                                 *)

\* Mutant: a retry of an accepted request is accepted again.
AcceptAgain(i) ==
  /\ exec # "down" /\ status \in Active /\ open
  /\ version' = version + 1
  /\ input' = [input EXCEPT ![i] = "pending"]
  /\ inputVersion' = [inputVersion EXCEPT ![i] = version + 1]
  /\ UNCHANGED <<status, open, messages, saved, memory, stops>>

\* appendNextStep: a request already accepted gets its receipt again; else the
\* conditional update of the run gives the version and locks the row until the
\* input is written.
Accept(i) ==
  /\ exec # "down"
  /\ input[i] = "none"
  /\ status \in Active /\ open
  /\ version' = version + 1
  /\ input' = [input EXCEPT ![i] = "pending"]
  /\ inputVersion' = [inputVersion EXCEPT ![i] = version + 1]
  /\ UNCHANGED <<status, open, messages, saved, memory, stops>>

\* run.cancel reads the status ...
CancelRead ==
  /\ exec # "down"
  /\ cancel = "idle"
  /\ status \in Active \cup {"canceling"}
  /\ cancel' = "read"
  /\ UNCHANGED <<rows, exec, returned, context, lastApplied, stops>>

DiscardPending == input' = [i \in Input |-> IF input[i] = "pending" THEN "canceled"
                                            ELSE input[i]]

\* ... and updates the run by its id, whatever its status is by now.
CancelWrite ==
  /\ cancel = "read"
  /\ cancel' = "idle"
  /\ status' = "canceling" /\ open' = FALSE
  /\ DiscardPending
  /\ UNCHANGED <<version, inputVersion, messages, saved, exec, returned,
                 context, lastApplied, stops>>

-----------------------------------------------------------------------------
(* The executor.                                                            *)

inputRows == <<version, input, inputVersion, messages, saved>>
executorMemory == <<returned, context, lastApplied, cancel>>

\* What the history a new executor loads contains; the mutant starts empty.
NoHistory == <<>>
LoadedHistory == messages

\* beginRunExecution opens the input again; a resumed executor reads the
\* history from the messages and lastApplied from the saved runtime state.
Begin ==
  /\ exec = "start"
  /\ \/ /\ status \in Active
        /\ status' = "running" /\ open' = TRUE
        /\ exec' = "top"
     \/ /\ status \notin Active
        /\ exec' = IF status = "canceling" THEN "cancelWrite" ELSE "none"
        /\ UNCHANGED <<status, open>>
  /\ context' = LoadedHistory /\ lastApplied' = saved /\ returned' = <<>>
  /\ UNCHANGED <<inputRows, cancel, stops>>

Goto(state) == exec' = state /\ UNCHANGED <<rows, executorMemory, stops>>

\* The top of a step; also the throw of a request that a cancel aborted.
Top ==
  /\ exec = "top"
  /\ Goto(IF status \in {"canceling", "canceled"} THEN "cancelWrite" ELSE "apply")
RequestAborted ==
  /\ exec = "request" /\ status = "canceling"
  /\ Goto("cancelWrite")

\* Mutant: the executor does not ask for pending inputs.
ApplySkipped == exec = "apply" /\ Goto("request")

\* applyPendingRunInputs reads the status of the run ...
ApplyRead ==
  /\ exec = "apply"
  /\ Goto(IF status \in Active THEN "claim" ELSE "request")

\* Mutant: the newest input becomes a message first.
ApplyNewestFirst ==
  /\ input' = [i \in Input |-> IF input[i] = "pending" THEN "applied" ELSE input[i]]
  /\ messages' = messages \o Reverse(ByVersion)
  /\ returned' = ByVersion
\* Every input that is still pending becomes a user message.
ApplyPending ==
  /\ input' = [i \in Input |-> IF input[i] = "pending" THEN "applied" ELSE input[i]]
  /\ messages' = messages \o ByVersion
  /\ returned' = ByVersion

\* ... and applies what is pending later: the inputs, not the run, decide.
ApplyClaim ==
  /\ exec = "claim"
  /\ ApplyPending
  /\ exec' = "add"
  /\ UNCHANGED <<status, open, version, inputVersion, saved, context,
                 lastApplied, cancel, stops>>

\* addAppliedExternalInputs; the runtime state is saved after the context has
\* the inputs.
AddApplied ==
  /\ exec \in {"add", "addClosed"}
  /\ context' = context \o returned
  /\ lastApplied' = IF returned = <<>> THEN lastApplied
                    ELSE inputVersion[Last(returned)]
  /\ saved' = lastApplied'
  /\ returned' = <<>>
  /\ exec' = IF exec = "add" THEN "request" ELSE "top"
  /\ UNCHANGED <<status, open, version, input, inputVersion, messages, cancel, stops>>

\* The attachments of the inputs cannot be materialized: the run fails before
\* the inputs reach the context.
AddFails ==
  /\ exec \in {"add", "addClosed"} /\ returned # <<>>
  /\ Goto("errorWrite")

\* The request ends with tool calls or an empty answer, with a final text,
\* stalled or repeating, or with an error (the hard cap of steps included).
RequestEnds ==
  /\ exec = "request"
  /\ \E state \in {"top", "close", "closeStalled", "errorWrite"} : Goto(state)

\* closeExternalInputAndApplyPending: close by compare-and-set, apply what is
\* pending, and open again if there was any.
CloseInput ==
  /\ status \in Active /\ open
  /\ ApplyPending
  /\ open' = (Pending # {})
  /\ exec' = IF Pending # {} THEN "addClosed"
             ELSE IF exec = "close" THEN "doneWrite" ELSE "errorWrite"

PrepareStop ==
  /\ exec \in {"close", "closeStalled"}
  /\ \/ CloseInput /\ UNCHANGED <<status, version, inputVersion, saved, context,
                                  lastApplied, cancel, stops>>
     \/ ~(status \in Active /\ open) /\ Goto("top")

\* Mutant: the pending inputs of an ended run stay pending.
SetRunStatusOnly(s) ==
  /\ status' = s /\ open' = FALSE
  /\ UNCHANGED <<input, version, inputVersion, messages, saved>>

\* setRunStatus of an outcome closes the input and discards what is pending.
SetRunStatus(s) ==
  /\ status' = s /\ open' = FALSE
  /\ DiscardPending
  /\ UNCHANGED <<version, inputVersion, messages, saved>>

WriteOutcome(state, s) ==
  /\ exec = state
  /\ SetRunStatus(s)
  /\ exec' = "none"
  /\ UNCHANGED <<executorMemory, stops>>

Executor ==
  \/ Begin \/ Top \/ ApplyRead \/ ApplyClaim \/ AddApplied \/ AddFails
  \/ RequestEnds \/ RequestAborted \/ PrepareStop
  \/ WriteOutcome("doneWrite", "done") \/ WriteOutcome("errorWrite", "error")
  \/ WriteOutcome("cancelWrite", "canceled")

-----------------------------------------------------------------------------
(* The process.                                                             *)

Crash ==
  /\ exec # "down"
  /\ stops < MaxStops
  /\ stops' = stops + 1
  /\ exec' = "down"
  /\ returned' = <<>> /\ context' = <<>> /\ lastApplied' = 0 /\ cancel' = "idle"
  /\ UNCHANGED rows

\* recoverInterruptedRuns.
Restart ==
  /\ exec = "down"
  /\ \/ /\ status \in Active
        /\ exec' = "start"
        /\ UNCHANGED rows
     \/ /\ status = "canceling"
        /\ exec' = "none"
        /\ SetRunStatus("canceled")
     \/ /\ status \in Terminal
        /\ exec' = "none"
        /\ UNCHANGED rows
  /\ UNCHANGED <<executorMemory, stops>>

Next ==
  \/ \E i \in Input : Accept(i)
  \/ CancelRead \/ CancelWrite \/ Executor \/ Crash \/ Restart

Spec == Init /\ [][Next]_vars

\* Model requests end, continuations run, the container restarts the process.
FairSpec == Spec /\ WF_vars(Executor) /\ WF_vars(CancelWrite) /\ WF_vars(Restart)

-----------------------------------------------------------------------------
(* Properties.                                                              *)

\* A model request is made with every input that was ever applied to the run,
\* in the order of the messages, whichever process applied it.
RequestSeesInputs ==
  exec \in {"request", "close", "closeStalled", "doneWrite"} => context = messages

\* When a run has ended or is being cancelled no input waits for it.
NoPendingAfterEnd == status \notin Active => Pending = {} /\ ~open

\* An accepted input is applied or discarded, never left waiting.
InputSettles == \A i \in Input : input[i] = "pending" ~> input[i] # "pending"

\* The caller's view.
Delivery == INSTANCE InputDelivery WITH
  accepted <- [k \in 1..version |-> CHOOSE i \in Input : inputVersion[i] = k],
  delivered <- messages,
  fate <- CASE status \in Active -> "open" [] status = "done" -> "done" [] OTHER -> "ended"

\* Accepted inputs are delivered once, in order, and before the run is done.
DeliversInputs == Delivery!Spec
=============================================================================
