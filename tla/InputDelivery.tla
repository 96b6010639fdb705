--------------------------- MODULE InputDelivery ---------------------------
(* What RunForge promises the caller of run.append with delivery next_step: *)
(* an input that was accepted reaches the conversation of the run exactly   *)
(* once and in the order of acceptance, unless the run is cancelled or      *)
(* fails; a run is never done with an accepted input it has not seen.       *)
EXTENDS Naturals, Sequences

CONSTANT Input

VARIABLES
  accepted,   \* the inputs with a successful receipt, in order
  delivered,  \* the inputs that became user messages of the run, in order
  fate        \* "open", "done", or "ended" without success

vars == <<accepted, delivered, fate>>

Init == accepted = <<>> /\ delivered = <<>> /\ fate = "open"

Accept(i) ==
  /\ fate = "open"
  /\ \A k \in 1..Len(accepted) : accepted[k] # i
  /\ accepted' = Append(accepted, i)
  /\ UNCHANGED <<delivered, fate>>

\* All that is still to be delivered becomes messages at once.
Deliver ==
  /\ fate = "open"
  /\ delivered' = accepted
  /\ UNCHANGED <<accepted, fate>>

\* A run can be done only when everything was delivered, even one whose cancel
\* came too late.
Succeed ==
  /\ delivered = accepted
  /\ fate' = "done"
  /\ UNCHANGED <<accepted, delivered>>

\* Cancel or failure: nothing more is accepted or delivered.
End == fate' = "ended" /\ UNCHANGED <<accepted, delivered>>

Next == (\E i \in Input : Accept(i)) \/ Deliver \/ Succeed \/ End

Spec == Init /\ [][Next]_vars
=============================================================================
