-------------------------- MODULE RunInputs_proofs --------------------------
(* The safety theorems of RunInputs, for every set of inputs and any number *)
(* of crashes, and its refinement of InputDelivery.                         *)
EXTENDS RunInputs, FiniteSetTheorems, TLAPS

-----------------------------------------------------------------------------
(* The inductive invariant. *)

\* Every version up to the run's is the version of exactly one input.
Numbered ==
  /\ \A i \in Input : input[i] = "none" <=> inputVersion[i] = 0
  /\ \A i \in Input : inputVersion[i] <= version
  /\ \A i, j \in Input : inputVersion[i] = inputVersion[j] /\ inputVersion[i] # 0 => i = j
  /\ \A k \in 1..version : \E i \in Input : inputVersion[i] = k

\* The messages are the inputs of the first versions, in their order.
MessagesFirst ==
  /\ Len(messages) <= version
  /\ \A k \in 1..Len(messages) : inputVersion[messages[k]] = k
  /\ \A i \in Input : input[i] = "applied" <=> inputVersion[i] \in 1..Len(messages)

\* An input is only discarded when the run ends or is being cancelled.
DiscardedLast == status \in Active => \A i \in Input : input[i] # "canceled"

\* The context of an executor that is past its start lacks what it is about to
\* add.
ContextFollows ==
  /\ exec \in {"top", "apply", "claim", "request", "close", "closeStalled", "doneWrite"} =>
       context = messages
  /\ exec \in {"add", "addClosed"} => messages = context \o returned

\* A run that is about to be done has every input.
DoneHasAll == exec = "doneWrite" => ~open /\ Len(messages) = version

IInv == /\ TypeOK /\ Numbered /\ MessagesFirst /\ DiscardedLast /\ ContextFollows
        /\ DoneHasAll /\ NoPendingAfterEnd

-----------------------------------------------------------------------------
(* The pending inputs. *)

\* What the invariant says of the rows.
Ordered ==
  /\ version \in Nat /\ messages \in Seq(Input)
  /\ inputVersion \in [Input -> Nat]
  /\ input \in [Input -> {"none", "pending", "applied", "canceled"}]
  /\ Numbered /\ MessagesFirst /\ DiscardedLast
  /\ status \notin Active => Pending = {}

LEMMA OrderedRows == IInv => Ordered
<1> QED  BY DEF IInv, TypeOK, Ordered, NoPendingAfterEnd

\* No more versions are given than there are inputs.
LEMMA VersionBound ==
  ASSUME NEW v \in Nat, NEW of \in [Input -> Nat], \A k \in 1..v : \E i \in Input : of[i] = k
  PROVE  v <= Cardinality(Input)
<1> DEFINE f == [k \in 1..v |-> CHOOSE i \in Input : of[i] = k]
<1>1. \A k \in 1..v : f[k] \in Input /\ of[f[k]] = k
  OBVIOUS
<1>2. f \in [1..v -> Input]
  BY <1>1
<1> HIDE DEF f
<1>3. f \in Injection(1..v, Input)
  BY <1>1, <1>2 DEF Injection, IsInjective
<1>4. Cardinality(1..v) <= Cardinality(Input)
  BY <1>3, InputAssumption, FS_Injection
<1>5. Cardinality(1..v) = v
  BY FS_Interval
<1> QED  BY <1>4, <1>5

\* The inputs that are still pending are those after the messages.
PendingCount == IF status \in Active THEN version - Len(messages) ELSE 0

LEMMA PendingVersions ==
  ASSUME Ordered
  PROVE  /\ PendingCount \in Nat
         /\ \A i \in Pending : inputVersion[i] \in Len(messages) + 1 .. Len(messages) + PendingCount
         /\ \A k \in 1..PendingCount : \E i \in Pending : inputVersion[i] = Len(messages) + k
<1>1. Len(messages) \in Nat
  BY DEF Ordered
<1>2. CASE status \notin Active
  BY <1>1, <1>2 DEF Ordered, PendingCount
<1>3. CASE status \in Active
  <2>1. PendingCount = version - Len(messages) /\ PendingCount \in Nat
    BY <1>1, <1>3 DEF PendingCount, Ordered, MessagesFirst
  <2>2. ASSUME NEW i \in Pending
        PROVE  inputVersion[i] \in Len(messages) + 1 .. version
    <3>1. i \in Input /\ input[i] = "pending" /\ inputVersion[i] \in Nat
      BY DEF Pending, Ordered
    <3>2. inputVersion[i] # 0 /\ inputVersion[i] <= version /\ inputVersion[i] \notin 1..Len(messages)
      BY <3>1 DEF Ordered, Numbered, MessagesFirst
    <3> QED  BY <1>1, <3>1, <3>2 DEF Ordered
  <2>3. ASSUME NEW k \in 1..PendingCount
        PROVE  \E i \in Pending : inputVersion[i] = Len(messages) + k
    <3>1. Len(messages) + k \in 1..version
      BY <1>1, <2>1 DEF Ordered
    <3>2. PICK i \in Input : inputVersion[i] = Len(messages) + k
      BY <3>1 DEF Ordered, Numbered
    <3>3. inputVersion[i] # 0 /\ inputVersion[i] \notin 1..Len(messages)
      BY <1>1, <3>2
    <3>4. input[i] \notin {"none", "applied", "canceled"}
      BY <1>3, <3>3 DEF Ordered, Numbered, MessagesFirst, DiscardedLast
    <3> QED  BY <3>2, <3>4 DEF Pending, Ordered
  <2>4. Len(messages) + PendingCount = version
    BY <1>1, <2>1 DEF Ordered
  <2> QED  BY <2>1, <2>2, <2>3, <2>4
<1> QED  BY <1>2, <1>3

\* The query returns the pending inputs by version: each exactly once, and the
\* k-th has the k-th version after the messages.
LEMMA ByVersionOrder ==
  ASSUME Ordered
  PROVE  /\ ByVersion \in Seq(Input)
         /\ Len(ByVersion) = PendingCount
         /\ \A k \in 1..PendingCount :
              ByVersion[k] \in Pending /\ inputVersion[ByVersion[k]] = Len(messages) + k
         /\ Pending = {} => ByVersion = <<>>
<1> DEFINE n == PendingCount
           low == Len(messages)
           Increasing(s) == \A k, m \in DOMAIN s : k < m => inputVersion[s[k]] < inputVersion[s[m]]
           w == [k \in 1..n |-> CHOOSE i \in Pending : inputVersion[i] = low + k]
<1>1. /\ n \in Nat /\ low \in Nat
      /\ \A i \in Pending : i \in Input /\ inputVersion[i] \in Nat
      /\ \A i \in Pending : inputVersion[i] \in low + 1 .. low + n
      /\ \A k \in 1..n : \E i \in Pending : inputVersion[i] = low + k
      /\ \A i, j \in Pending : inputVersion[i] = inputVersion[j] => i = j
  <2>1. n \in Nat /\ low \in Nat
    BY PendingVersions DEF Ordered
  <2>2. /\ \A i \in Pending : i \in Input /\ inputVersion[i] \in Nat
        /\ \A i \in Pending : inputVersion[i] \in low + 1 .. low + n
        /\ \A k \in 1..n : \E i \in Pending : inputVersion[i] = low + k
    BY PendingVersions DEF Ordered, Pending
  <2>3. \A i \in Pending : inputVersion[i] # 0
    BY <2>1, <2>2
  <2> QED  BY <2>1, <2>2, <2>3 DEF Ordered, Numbered
<1> HIDE DEF n, low
<1>2. /\ w \in [1..n -> Pending]
      /\ \A k \in 1..n : inputVersion[w[k]] = low + k
  <2>1. \A k \in 1..n : w[k] \in Pending /\ inputVersion[w[k]] = low + k
    BY <1>1
  <2> QED  BY <2>1
<1> HIDE DEF w
<1>3. Cardinality(Pending) = n
  <2>1. w \in Injection(1..n, Pending)
    BY <1>1, <1>2 DEF Injection, IsInjective
  <2>2. \A i \in Pending : \E k \in 1..n : w[k] = i
    <3> SUFFICES ASSUME NEW i \in Pending PROVE \E k \in 1..n : w[k] = i
      OBVIOUS
    <3>1. inputVersion[i] - low \in 1..n
      BY <1>1
    <3>2. inputVersion[w[inputVersion[i] - low]] = inputVersion[i]
      BY <1>1, <1>2, <3>1
    <3> QED  BY <1>1, <1>2, <3>1, <3>2
  <2>3. w \in Bijection(1..n, Pending)
    BY <1>2, <2>1, <2>2 DEF Bijection, Injection, Surjection
  <2> QED  BY <1>1, <2>3, FS_CountingElements DEF ExistsBijection
<1>4. Increasing(w)
  BY <1>1, <1>2
<1>5. ByVersion \in [1..n -> Pending] /\ Increasing(ByVersion)
  BY <1>2, <1>3, <1>4 DEF ByVersion
<1> DEFINE s == ByVersion
<1>6. s \in [1..n -> Pending] /\ \A k, m \in 1..n : k < m => inputVersion[s[k]] < inputVersion[s[m]]
  BY <1>5
<1> HIDE DEF s
<1>7. \A k \in 1..n : s[k] \in Pending /\ inputVersion[s[k]] \in low + 1 .. low + n
  BY <1>1, <1>6
<1>8. ASSUME NEW k \in 1..n PROVE inputVersion[s[k]] = low + k
  <2> DEFINE v == inputVersion[s[k]]
             f == [m \in 1..k |-> inputVersion[s[m]]]
             g == [m \in k..n |-> inputVersion[s[m]]]
  <2>0. v \in Nat /\ v \in low + 1 .. low + n /\ k \in Nat
    BY <1>1, <1>7
  <2>1. f \in Injection(1..k, low + 1 .. v)
    <3>1. \A m \in 1..k : f[m] \in low + 1 .. v
      BY <1>1, <1>6, <1>7, <2>0
    <3>2. \A m, p \in 1..k : f[m] = f[p] => m = p
      BY <1>1, <1>6, <1>7
    <3> QED  BY <3>1, <3>2 DEF Injection, IsInjective
  <2>2. g \in Injection(k..n, v .. low + n)
    <3>1. \A m \in k..n : g[m] \in v .. low + n
      BY <1>1, <1>6, <1>7, <2>0
    <3>2. \A m, p \in k..n : g[m] = g[p] => m = p
      BY <1>1, <1>6, <1>7
    <3> QED  BY <3>1, <3>2 DEF Injection, IsInjective
  <2> HIDE DEF v, f, g
  <2>3. Cardinality(1..k) <= Cardinality(low + 1 .. v) /\ Cardinality(k..n) <= Cardinality(v .. low + n)
    <3>1. IsFiniteSet(low + 1 .. v) /\ IsFiniteSet(v .. low + n)
      BY <1>1, <2>0, FS_Interval
    <3>2. Cardinality(1..k) <= Cardinality(low + 1 .. v)
      BY <2>1, <3>1, FS_Injection
    <3>3. Cardinality(k..n) <= Cardinality(v .. low + n)
      BY <2>2, <3>1, FS_Injection
    <3> QED  BY <3>2, <3>3
  <2>4. k <= v - low /\ n - k + 1 <= low + n - v + 1
    <3>1. Cardinality(1..k) = k /\ Cardinality(low + 1 .. v) = v - low
      BY <1>1, <2>0, FS_Interval
    <3>2. Cardinality(k..n) = n - k + 1 /\ Cardinality(v .. low + n) = low + n - v + 1
      BY <1>1, <2>0, FS_Interval
    <3> QED  BY <2>3, <3>1, <3>2
  <2> QED  BY <1>1, <2>0, <2>4 DEF v
<1>9. s \in Seq(Input) /\ Len(s) = n
  BY <1>1, <1>6
<1>10. Pending = {} => s = <<>>
  <2> SUFFICES ASSUME Pending = {} PROVE s = <<>>
    OBVIOUS
  <2>1. n = 0
    BY <1>3, FS_EmptySet
  <2> QED  BY <1>9, <2>1
<1> QED  BY <1>7, <1>8, <1>9, <1>10 DEF s, n, low

-----------------------------------------------------------------------------
(* Steps. *)

\* Initially the invariant holds.
LEMMA InitIInv == Init => IInv
<1>1. 0 \in 0..Cardinality(Input) /\ 0 \in 0..MaxStops
  BY InputAssumption, FS_CardinalityType
<1> QED  BY <1>1 DEF Init, IInv, TypeOK, Numbered, MessagesFirst, DiscardedLast, ContextFollows,
                     DoneHasAll, NoPendingAfterEnd, Active, Terminal, ExecState, Pending

\* A request gives an input the next version.
LEMMA AcceptStep ==
  ASSUME IInv, NEW i \in Input, Accept(i)
  PROVE  IInv'
<1> USE InputAssumption
    DEF IInv, TypeOK, Numbered, MessagesFirst, DiscardedLast, ContextFollows, DoneHasAll,
        NoPendingAfterEnd, Active, Terminal, ExecState, Pending
<1> USE DEF Accept, memory
<1>1. version' \in Nat /\ inputVersion' \in [Input -> Nat]
  OBVIOUS
<1>2. Numbered'
  <2>1. /\ version' = version + 1 /\ inputVersion'[i] = version + 1 /\ inputVersion[i] = 0
        /\ \A j \in Input : j # i => inputVersion'[j] = inputVersion[j] /\ input'[j] = input[j]
        /\ input'[i] = "pending"
    OBVIOUS
  <2>2. \A j \in Input : inputVersion[j] # version + 1
    OBVIOUS
  <2>3. ASSUME NEW k \in 1..version PROVE \E j \in Input : j # i /\ inputVersion[j] = k
    <3>1. PICK j \in Input : inputVersion[j] = k
      OBVIOUS
    <3> QED  BY <2>1, <3>1
  <2>4. \A k \in 1..version' : \E j \in Input : inputVersion'[j] = k
    BY <2>1, <2>3
  <2>5. \A j, k \in Input : inputVersion'[j] = inputVersion'[k] /\ inputVersion'[j] # 0 => j = k
    BY <2>1, <2>2
  <2>6. /\ \A j \in Input : input'[j] = "none" <=> inputVersion'[j] = 0
        /\ \A j \in Input : inputVersion'[j] <= version'
    BY <2>1
  <2> QED  BY <2>4, <2>5, <2>6
<1>3. TypeOK'
  <2>1. version' <= Cardinality(Input)
    BY ONLY <1>1, <1>2, VersionBound DEF Numbered
  <2> QED  BY <1>1, <2>1, FS_CardinalityType
<1>4. MessagesFirst'
  OBVIOUS
<1>5. DiscardedLast' /\ ContextFollows' /\ DoneHasAll' /\ NoPendingAfterEnd'
  OBVIOUS
<1> QED  BY <1>2, <1>3, <1>4, <1>5

\* A cancel or an outcome discards the pending inputs.
LEMMA DiscardStep ==
  ASSUME IInv, CancelRead \/ CancelWrite
  PROVE  IInv'
<1> USE InputAssumption
    DEF IInv, TypeOK, Numbered, MessagesFirst, DiscardedLast, ContextFollows, DoneHasAll,
        NoPendingAfterEnd, Active, Terminal, ExecState, Pending
<1>1. CASE CancelRead
  <2>1. TypeOK'  BY <1>1 DEF CancelRead, rows
  <2>2. Numbered'  BY <1>1 DEF CancelRead, rows
  <2>3. MessagesFirst'  BY <1>1 DEF CancelRead, rows
  <2>4. DiscardedLast'  BY <1>1 DEF CancelRead, rows
  <2>5. ContextFollows'  BY <1>1 DEF CancelRead, rows
  <2>6. DoneHasAll'  BY <1>1 DEF CancelRead, rows
  <2>7. NoPendingAfterEnd'  BY <1>1 DEF CancelRead, rows
  <2> QED  BY <2>1, <2>2, <2>3, <2>4, <2>5, <2>6, <2>7
<1>2. CASE CancelWrite
  <2>1. TypeOK'  BY <1>2 DEF CancelWrite, DiscardPending
  <2>2. Numbered'  BY <1>2 DEF CancelWrite, DiscardPending
  <2>3. MessagesFirst'  BY <1>2 DEF CancelWrite, DiscardPending
  <2>4. DiscardedLast'  BY <1>2 DEF CancelWrite, DiscardPending
  <2>5. ContextFollows'  BY <1>2 DEF CancelWrite, DiscardPending
  <2>6. DoneHasAll'  BY <1>2 DEF CancelWrite, DiscardPending
  <2>7. NoPendingAfterEnd'  BY <1>2 DEF CancelWrite, DiscardPending
  <2> QED  BY <2>1, <2>2, <2>3, <2>4, <2>5, <2>6, <2>7
<1> QED  BY <1>1, <1>2

\* The executor writes an outcome.
LEMMA OutcomeStep ==
  ASSUME IInv, NEW state \in {"doneWrite", "errorWrite", "cancelWrite"}, NEW outcome \in Terminal,
         WriteOutcome(state, outcome)
  PROVE  IInv'
<1> USE InputAssumption
    DEF IInv, TypeOK, Numbered, MessagesFirst, DiscardedLast, ContextFollows, DoneHasAll,
        NoPendingAfterEnd, Active, Terminal, ExecState, Pending
<1>1. TypeOK'  BY DEF WriteOutcome, SetRunStatus, DiscardPending, executorMemory
<1>2. Numbered'  BY DEF WriteOutcome, SetRunStatus, DiscardPending, executorMemory
<1>3. MessagesFirst'  BY DEF WriteOutcome, SetRunStatus, DiscardPending, executorMemory
<1>4. DiscardedLast'  BY DEF WriteOutcome, SetRunStatus, DiscardPending, executorMemory
<1>5. ContextFollows'  BY DEF WriteOutcome, SetRunStatus, DiscardPending, executorMemory
<1>6. DoneHasAll'  BY DEF WriteOutcome, SetRunStatus, DiscardPending, executorMemory
<1>7. NoPendingAfterEnd'  BY DEF WriteOutcome, SetRunStatus, DiscardPending, executorMemory
<1> QED  BY <1>1, <1>2, <1>3, <1>4, <1>5, <1>6, <1>7

\* The pending inputs become messages.
LEMMA ApplyPendingStep ==
  ASSUME IInv, ApplyPending, UNCHANGED <<status, version, inputVersion>>
  PROVE  /\ Numbered' /\ MessagesFirst' /\ DiscardedLast' /\ Pending' = {}
         /\ input' \in [Input -> {"none", "pending", "applied", "canceled"}]
         /\ messages' \in Seq(Input) /\ returned' \in Seq(Input)
         /\ messages' = messages \o returned'
         /\ status \in Active => Len(messages') = version
         /\ Pending = {} => messages' = messages /\ returned' = <<>>
<1>0. Ordered
  BY OrderedRows
<1>1. /\ returned' \in Seq(Input) /\ Len(returned') = PendingCount
      /\ \A k \in 1..PendingCount : inputVersion[returned'[k]] = Len(messages) + k
      /\ Pending = {} => returned' = <<>>
      /\ messages' = messages \o returned'
  BY <1>0, ByVersionOrder DEF ApplyPending
<1>2. /\ PendingCount \in Nat
      /\ \A i \in Pending : inputVersion[i] \in Len(messages) + 1 .. Len(messages) + PendingCount
      /\ \A k \in 1..PendingCount : \E i \in Pending : inputVersion[i] = Len(messages) + k
  BY <1>0, PendingVersions
<1>3. messages \in Seq(Input) /\ Len(messages) \in Nat
  BY <1>0 DEF Ordered
<1>4. messages' \in Seq(Input) /\ Len(messages') = Len(messages) + PendingCount
  <2>1. messages' \in Seq(Input)
    BY <1>1, <1>3
  <2>2. Len(messages \o returned') = Len(messages) + Len(returned')
    BY <1>1, <1>3
  <2> QED  BY <1>1, <2>1, <2>2
<1>5. status \in Active => Len(messages') = version
  BY <1>0, <1>3, <1>4 DEF PendingCount, Ordered
<1>6. Pending = {} => messages' = messages
  BY <1>1, <1>3
<1>7. /\ input' \in [Input -> {"none", "pending", "applied", "canceled"}]
      /\ \A i \in Input : input'[i] = IF i \in Pending THEN "applied" ELSE input[i]
  BY <1>0 DEF ApplyPending, Ordered, Pending
<1>8. Pending' = {} /\ DiscardedLast'
  BY <1>0, <1>7 DEF Pending, DiscardedLast, Ordered
<1>9. Numbered'
  <2>1. \A i \in Pending : input[i] # "none"
    BY DEF Pending
  <2> QED  BY <1>0, <1>7, <2>1 DEF Ordered, Numbered
<1>10. MessagesFirst'
  <2>1. Len(messages') <= version
    BY <1>0, <1>3, <1>4 DEF PendingCount, Ordered, MessagesFirst
  <2>2. ASSUME NEW k \in 1..Len(messages') PROVE inputVersion[messages'[k]] = k
    <3>1. CASE k <= Len(messages)
      BY <1>0, <1>1, <1>2, <1>3, <1>4, <3>1 DEF Ordered, MessagesFirst
    <3>2. CASE k > Len(messages)
      <4>1. k - Len(messages) \in 1..PendingCount /\ messages'[k] = returned'[k - Len(messages)]
        BY <1>1, <1>2, <1>3, <1>4, <3>2
      <4> QED  BY <1>1, <1>3, <4>1
    <3> QED  BY <1>3, <3>1, <3>2
  <2>3. ASSUME NEW i \in Input
        PROVE  input'[i] = "applied" <=> inputVersion[i] \in 1..Len(messages')
    <3>1. CASE i \in Pending
      BY <1>2, <1>3, <1>4, <1>7, <3>1
    <3>2. CASE i \notin Pending
      <4>1. input'[i] = "applied" <=> inputVersion[i] \in 1..Len(messages)
        BY <1>0, <1>7, <3>2 DEF Ordered, MessagesFirst
      <4>2. inputVersion[i] \in Nat
        BY <1>0 DEF Ordered
      <4>3. inputVersion[i] \notin Len(messages) + 1 .. Len(messages) + PendingCount
        <5> SUFFICES ASSUME inputVersion[i] \in Len(messages) + 1 .. Len(messages) + PendingCount
                     PROVE  FALSE
          OBVIOUS
        <5>1. inputVersion[i] - Len(messages) \in 1..PendingCount
          BY <1>2, <1>3, <4>2
        <5>2. PICK p \in Pending : inputVersion[p] = Len(messages) + (inputVersion[i] - Len(messages))
          BY <1>2, <5>1
        <5>3. inputVersion[p] = inputVersion[i] /\ inputVersion[i] # 0 /\ p \in Input
          BY <1>3, <4>2, <5>2 DEF Pending
        <5> QED  BY <1>0, <3>2, <5>3 DEF Ordered, Numbered
      <4> QED  BY <1>2, <1>3, <1>4, <4>1, <4>2, <4>3
    <3> QED  BY <3>1, <3>2
  <2> QED  BY <2>1, <2>2, <2>3 DEF MessagesFirst
<1> QED  BY <1>1, <1>4, <1>5, <1>6, <1>7, <1>8, <1>9, <1>10

\* The read of the status before the claim, and the claim.
LEMMA ApplyStep ==
  ASSUME IInv, ApplyRead \/ ApplyClaim
  PROVE  IInv'
<1>1. CASE ApplyClaim
  <2>1. /\ ApplyPending /\ UNCHANGED <<status, open, version, inputVersion, saved, context, lastApplied, cancel, stops>>
        /\ exec = "claim" /\ exec' = "add"
    BY <1>1 DEF ApplyClaim
  <2>2. /\ Numbered' /\ MessagesFirst' /\ DiscardedLast' /\ Pending' = {}
        /\ input' \in [Input -> {"none", "pending", "applied", "canceled"}]
        /\ messages' \in Seq(Input) /\ returned' \in Seq(Input)
        /\ messages' = messages \o returned'
    BY <2>1, ApplyPendingStep
  <2>3. context = messages
    BY <2>1 DEF IInv, ContextFollows
  <2>4. TypeOK'
    BY <2>1, <2>2 DEF IInv, TypeOK, ExecState
  <2>5. ContextFollows' /\ DoneHasAll' /\ NoPendingAfterEnd'
    BY <2>1, <2>2, <2>3 DEF IInv, ContextFollows, DoneHasAll, NoPendingAfterEnd
  <2> QED  BY <2>2, <2>4, <2>5 DEF IInv
<1>2. CASE ApplyRead
  BY <1>2 DEF ApplyRead, Goto, rows, executorMemory, IInv, TypeOK, ExecState, Numbered, MessagesFirst,
              DiscardedLast, ContextFollows, DoneHasAll, NoPendingAfterEnd, Pending
<1> QED  BY <1>1, <1>2

\* The input is closed, and what is pending applied.
LEMMA CloseStep ==
  ASSUME IInv, PrepareStop
  PROVE  IInv'
<1>1. CASE CloseInput /\ UNCHANGED <<status, version, inputVersion, saved, context, lastApplied, cancel, stops>>
  <2>1. /\ ApplyPending /\ status \in Active
        /\ UNCHANGED <<status, version, inputVersion, saved, context, lastApplied, cancel, stops>>
        /\ exec \in {"close", "closeStalled"} /\ open' = (Pending # {})
        /\ exec' \in ExecState /\ exec' \in {"addClosed", "doneWrite", "errorWrite"}
        /\ exec' = "addClosed" <=> Pending # {}
    BY <1>1 DEF CloseInput, PrepareStop, ExecState
  <2>2. /\ Numbered' /\ MessagesFirst' /\ DiscardedLast' /\ Pending' = {}
        /\ input' \in [Input -> {"none", "pending", "applied", "canceled"}]
        /\ messages' \in Seq(Input) /\ returned' \in Seq(Input)
        /\ messages' = messages \o returned'
        /\ Len(messages') = version
        /\ Pending = {} => messages' = messages /\ returned' = <<>>
    BY <2>1, ApplyPendingStep
  <2>3. context = messages
    BY <2>1 DEF IInv, ContextFollows
  <2>4. TypeOK'
    BY <2>1, <2>2 DEF IInv, TypeOK
  <2>5. ContextFollows' /\ DoneHasAll' /\ NoPendingAfterEnd'
    BY <2>1, <2>2, <2>3 DEF IInv, ContextFollows, DoneHasAll, NoPendingAfterEnd
  <2> QED  BY <2>2, <2>4, <2>5 DEF IInv
<1>2. CASE Goto("top")
  BY <1>2 DEF PrepareStop, Goto, rows, executorMemory, IInv, TypeOK, ExecState, Numbered, MessagesFirst,
              DiscardedLast, ContextFollows, DoneHasAll, NoPendingAfterEnd, Pending
<1> QED  BY <1>1, <1>2 DEF PrepareStop

\* What has been applied reaches the context.
LEMMA AddStep ==
  ASSUME IInv, AddApplied \/ AddFails
  PROVE  IInv'
<1> USE InputAssumption
    DEF IInv, TypeOK, Numbered, MessagesFirst, DiscardedLast, ContextFollows, DoneHasAll,
        NoPendingAfterEnd, Active, Terminal, ExecState, Pending
<1>1. CASE AddApplied
  <2>0. lastApplied' \in Nat /\ context' \in Seq(Input)
    <3>1. returned # <<>> => Last(returned) \in Input
      BY DEF Last
    <3> QED  BY <1>1, <3>1 DEF AddApplied
  <2>1. TypeOK'
    BY <1>1, <2>0 DEF AddApplied
  <2>2. Numbered'  BY <1>1 DEF AddApplied
  <2>3. MessagesFirst'  BY <1>1 DEF AddApplied
  <2>4. DiscardedLast'  BY <1>1 DEF AddApplied
  <2>5. ContextFollows'  BY <1>1 DEF AddApplied
  <2>6. DoneHasAll'  BY <1>1 DEF AddApplied
  <2>7. NoPendingAfterEnd'  BY <1>1 DEF AddApplied
  <2> QED  BY <2>1, <2>2, <2>3, <2>4, <2>5, <2>6, <2>7
<1>2. CASE AddFails
  <2>1. TypeOK'  BY <1>2 DEF AddFails, Goto, rows, executorMemory
  <2>2. Numbered'  BY <1>2 DEF AddFails, Goto, rows, executorMemory
  <2>3. MessagesFirst'  BY <1>2 DEF AddFails, Goto, rows, executorMemory
  <2>4. DiscardedLast'  BY <1>2 DEF AddFails, Goto, rows, executorMemory
  <2>5. ContextFollows'  BY <1>2 DEF AddFails, Goto, rows, executorMemory
  <2>6. DoneHasAll'  BY <1>2 DEF AddFails, Goto, rows, executorMemory
  <2>7. NoPendingAfterEnd'  BY <1>2 DEF AddFails, Goto, rows, executorMemory
  <2> QED  BY <2>1, <2>2, <2>3, <2>4, <2>5, <2>6, <2>7
<1> QED  BY <1>1, <1>2

\* The other steps of the executor.
LEMMA ExecutorSteps ==
  ASSUME IInv, Begin \/ Top \/ RequestEnds \/ RequestAborted
  PROVE  IInv'
<1> USE InputAssumption
    DEF IInv, TypeOK, Numbered, MessagesFirst, DiscardedLast, ContextFollows, DoneHasAll,
        NoPendingAfterEnd, Active, Terminal, ExecState, Pending
<1>1. CASE Begin
  <2>1. TypeOK'
    <3>1. status' \in Active \cup {"canceling"} \cup Terminal /\ open' \in BOOLEAN /\ exec' \in ExecState
      BY <1>1 DEF Begin
    <3> QED  BY <1>1, <3>1 DEF Begin, inputRows, LoadedHistory
  <2>2. Numbered'  BY <1>1 DEF Begin, inputRows, LoadedHistory
  <2>3. MessagesFirst'  BY <1>1 DEF Begin, inputRows, LoadedHistory
  <2>4. DiscardedLast'  BY <1>1 DEF Begin, inputRows, LoadedHistory
  <2>5. ContextFollows'  BY <1>1 DEF Begin, inputRows, LoadedHistory
  <2>6. DoneHasAll'  BY <1>1 DEF Begin, inputRows, LoadedHistory
  <2>7. NoPendingAfterEnd'  BY <1>1 DEF Begin, inputRows, LoadedHistory
  <2> QED  BY <2>1, <2>2, <2>3, <2>4, <2>5, <2>6, <2>7
<1>2. CASE Top
  <2>1. TypeOK'  BY <1>2 DEF Top, Goto, rows, executorMemory
  <2>2. Numbered'  BY <1>2 DEF Top, Goto, rows, executorMemory
  <2>3. MessagesFirst'  BY <1>2 DEF Top, Goto, rows, executorMemory
  <2>4. DiscardedLast'  BY <1>2 DEF Top, Goto, rows, executorMemory
  <2>5. ContextFollows'  BY <1>2 DEF Top, Goto, rows, executorMemory
  <2>6. DoneHasAll'  BY <1>2 DEF Top, Goto, rows, executorMemory
  <2>7. NoPendingAfterEnd'  BY <1>2 DEF Top, Goto, rows, executorMemory
  <2> QED  BY <2>1, <2>2, <2>3, <2>4, <2>5, <2>6, <2>7
<1>3. CASE RequestEnds
  <2>1. TypeOK'  BY <1>3 DEF RequestEnds, Goto, rows, executorMemory
  <2>2. Numbered'  BY <1>3 DEF RequestEnds, Goto, rows, executorMemory
  <2>3. MessagesFirst'  BY <1>3 DEF RequestEnds, Goto, rows, executorMemory
  <2>4. DiscardedLast'  BY <1>3 DEF RequestEnds, Goto, rows, executorMemory
  <2>5. ContextFollows'  BY <1>3 DEF RequestEnds, Goto, rows, executorMemory
  <2>6. DoneHasAll'  BY <1>3 DEF RequestEnds, Goto, rows, executorMemory
  <2>7. NoPendingAfterEnd'  BY <1>3 DEF RequestEnds, Goto, rows, executorMemory
  <2> QED  BY <2>1, <2>2, <2>3, <2>4, <2>5, <2>6, <2>7
<1>4. CASE RequestAborted
  <2>1. TypeOK'  BY <1>4 DEF RequestAborted, Goto, rows, executorMemory
  <2>2. Numbered'  BY <1>4 DEF RequestAborted, Goto, rows, executorMemory
  <2>3. MessagesFirst'  BY <1>4 DEF RequestAborted, Goto, rows, executorMemory
  <2>4. DiscardedLast'  BY <1>4 DEF RequestAborted, Goto, rows, executorMemory
  <2>5. ContextFollows'  BY <1>4 DEF RequestAborted, Goto, rows, executorMemory
  <2>6. DoneHasAll'  BY <1>4 DEF RequestAborted, Goto, rows, executorMemory
  <2>7. NoPendingAfterEnd'  BY <1>4 DEF RequestAborted, Goto, rows, executorMemory
  <2> QED  BY <2>1, <2>2, <2>3, <2>4, <2>5, <2>6, <2>7
<1> QED  BY <1>1, <1>2, <1>3, <1>4

\* The process dies and comes back.
LEMMA ProcessSteps ==
  ASSUME IInv, Crash \/ Restart
  PROVE  IInv'
<1> USE InputAssumption
    DEF IInv, TypeOK, Numbered, MessagesFirst, DiscardedLast, ContextFollows, DoneHasAll,
        NoPendingAfterEnd, Active, Terminal, ExecState, Pending
<1>1. CASE Crash
  <2>1. TypeOK'  BY <1>1 DEF Crash, rows
  <2>2. Numbered'  BY <1>1 DEF Crash, rows
  <2>3. MessagesFirst'  BY <1>1 DEF Crash, rows
  <2>4. DiscardedLast'  BY <1>1 DEF Crash, rows
  <2>5. ContextFollows'  BY <1>1 DEF Crash, rows
  <2>6. DoneHasAll'  BY <1>1 DEF Crash, rows
  <2>7. NoPendingAfterEnd'  BY <1>1 DEF Crash, rows
  <2> QED  BY <2>1, <2>2, <2>3, <2>4, <2>5, <2>6, <2>7
<1>2. CASE Restart
  <2>1. TypeOK'
    <3>1. status' \in Active \cup {"canceling"} \cup Terminal /\ open' \in BOOLEAN /\ exec' \in ExecState
      BY <1>2 DEF Restart, SetRunStatus, rows
    <3>2. input' \in [Input -> {"none", "pending", "applied", "canceled"}]
      BY <1>2 DEF Restart, SetRunStatus, DiscardPending, rows
    <3> QED  BY <1>2, <3>1, <3>2 DEF Restart, rows, executorMemory, SetRunStatus
  <2>2. Numbered'  BY <1>2 DEF Restart, rows, executorMemory, SetRunStatus, DiscardPending
  <2>3. MessagesFirst'  BY <1>2 DEF Restart, rows, executorMemory, SetRunStatus, DiscardPending
  <2>4. DiscardedLast'  BY <1>2 DEF Restart, rows, executorMemory, SetRunStatus, DiscardPending
  <2>5. ContextFollows'  BY <1>2 DEF Restart, rows, executorMemory, SetRunStatus, DiscardPending
  <2>6. DoneHasAll'  BY <1>2 DEF Restart, rows, executorMemory, SetRunStatus, DiscardPending
  <2>7. NoPendingAfterEnd'  BY <1>2 DEF Restart, rows, executorMemory, SetRunStatus, DiscardPending
  <2> QED  BY <2>1, <2>2, <2>3, <2>4, <2>5, <2>6, <2>7
<1> QED  BY <1>1, <1>2

\* The invariant is inductive.
LEMMA NextIInv == IInv /\ [Next]_vars => IInv'
<1> SUFFICES ASSUME IInv, [Next]_vars PROVE IInv'
  OBVIOUS
<1>1. CASE Next
  BY <1>1, AcceptStep, DiscardStep, OutcomeStep, ApplyStep, CloseStep, AddStep, ExecutorSteps,
     ProcessSteps DEF Next, Executor, Terminal
<1>2. CASE UNCHANGED vars
  BY <1>2 DEF vars, rows, memory, IInv, TypeOK, Numbered, MessagesFirst, DiscardedLast, ContextFollows,
              DoneHasAll, NoPendingAfterEnd, Pending
<1> QED  BY <1>1, <1>2

-----------------------------------------------------------------------------
(* Theorems. *)

THEOREM Invariance == Spec => []IInv
<1> QED  BY InitIInv, NextIInv, PTL DEF Spec

\* Every reachable state is well typed: a run gives no more versions than there
\* are requests.
THEOREM InputTypes == Spec => []TypeOK
<1>1. IInv => TypeOK  BY DEF IInv
<1> QED  BY <1>1, Invariance, PTL

\* Every model request has the inputs that have become messages, in order.
THEOREM RequestsSeeInputs == Spec => []RequestSeesInputs
<1>1. IInv => RequestSeesInputs  BY DEF IInv, ContextFollows, RequestSeesInputs
<1> QED  BY <1>1, Invariance, PTL

\* No input waits for a run that has ended or is being cancelled.
THEOREM NoneLeftPending == Spec => []NoPendingAfterEnd
<1>1. IInv => NoPendingAfterEnd  BY DEF IInv
<1> QED  BY <1>1, Invariance, PTL

-----------------------------------------------------------------------------
(* The refinement of InputDelivery. *)

accepted == [k \in 1..version |-> CHOOSE i \in Input : inputVersion[i] = k]
fate == CASE status \in Active -> "open" [] status = "done" -> "done" [] OTHER -> "ended"

\* The accepted inputs are those of the versions, in order.
LEMMA AcceptedInputs ==
  ASSUME Ordered
  PROVE  /\ accepted \in Seq(Input) /\ Len(accepted) = version
         /\ \A k \in 1..version : accepted[k] \in Input /\ inputVersion[accepted[k]] = k
<1>1. \A k \in 1..version : accepted[k] \in Input /\ inputVersion[accepted[k]] = k
  BY DEF accepted, Ordered, Numbered
<1>2. accepted \in [1..version -> Input]
  BY <1>1 DEF accepted
<1> QED  BY <1>1, <1>2 DEF Ordered

LEMMA SameFunction ==
  ASSUME NEW S, NEW T, NEW f \in [S -> T], NEW g \in [S -> T], \A x \in S : f[x] = g[x]
  PROVE  f = g
<1> QED  OBVIOUS

\* When every version has its message the messages are the accepted inputs.
LEMMA AllDelivered ==
  ASSUME Ordered, Len(messages) = version
  PROVE  messages = accepted
<1>1. \A k \in 1..version : messages[k] \in Input /\ inputVersion[messages[k]] = k
  BY DEF Ordered, MessagesFirst
<1>2. \A k \in 1..version : messages[k] = accepted[k]
  BY <1>1, AcceptedInputs DEF Ordered, Numbered
<1>3. messages \in [1..version -> Input] /\ accepted \in [1..version -> Input]
  BY AcceptedInputs DEF Ordered
<1> QED  BY <1>2, <1>3

\* A step that leaves the versions, the messages and the fate is a stutter.
LEMMA Unseen ==
  ASSUME UNCHANGED <<version, inputVersion, messages>>, fate' = fate
  PROVE  UNCHANGED Delivery!vars
<1>1. accepted' = accepted
  BY DEF accepted
<1> QED  BY <1>1 DEF Delivery!vars, accepted, fate

\* Every step is one the caller may see, or none.
LEMMA StepRefines ==
  ASSUME IInv, IInv', [Next]_vars
  PROVE  [Delivery!Next]_Delivery!vars
<1> USE DEF Active, Terminal
<1>0. Ordered /\ status \in {"pending", "running", "canceling", "done", "error", "canceled"}
  BY OrderedRows DEF IInv, TypeOK
<1>1. ASSUME NEW i \in Input, Accept(i) PROVE Delivery!Accept(i)
  <2>1. /\ version' = version + 1 /\ version \in Nat /\ inputVersion[i] = 0
        /\ inputVersion' = [inputVersion EXCEPT ![i] = version + 1]
        /\ inputVersion \in [Input -> Nat]
        /\ \A j \in Input : inputVersion[j] <= version
        /\ UNCHANGED <<messages, status>> /\ status \in Active
    BY <1>0, <1>1 DEF Accept, Ordered, Numbered
  <2>2. \A k \in 1..version : \A j \in Input : inputVersion'[j] = k <=> inputVersion[j] = k
    BY <2>1
  <2>3. \A j \in Input : inputVersion'[j] = version + 1 <=> j = i
    BY <2>1
  <2>4. accepted' = Append(accepted, i)
    <3>1. \A k \in 1..version : accepted'[k] = accepted[k]
      BY <2>1, <2>2 DEF accepted
    <3>2. accepted'[version + 1] = i
      BY <2>1, <2>3 DEF accepted
    <3>3. accepted' \in Seq(Input) /\ Len(accepted') = version + 1 /\ accepted \in Seq(Input) /\ Len(accepted) = version
      <4>1. accepted' = [k \in 1..version + 1 |-> CHOOSE j \in Input : inputVersion'[j] = k]
        BY <2>1 DEF accepted
      <4>2. \A k \in 1..version + 1 : accepted'[k] \in Input
        BY <1>0, <2>1, <3>1, <3>2, AcceptedInputs
      <4> QED  BY <1>0, <2>1, <4>1, <4>2, AcceptedInputs
    <3> QED  BY <2>1, <3>1, <3>2, <3>3
  <2>5. \A k \in 1..Len(accepted) : accepted[k] # i
    BY <1>0, <2>1, AcceptedInputs
  <2>6. fate = "open" /\ fate' = fate
    BY <2>1 DEF fate
  <2> QED  BY <2>1, <2>4, <2>5, <2>6 DEF Delivery!Accept, accepted, fate
<1>2. ASSUME ApplyPending, UNCHANGED <<status, version, inputVersion>>
      PROVE  [Delivery!Next]_Delivery!vars
  <2>1. CASE Pending = {}
    BY <1>2, <2>1, ApplyPendingStep, Unseen DEF fate
  <2>2. CASE Pending # {}
    <3>1. status \in Active
      BY <1>0, <2>2 DEF Ordered
    <3>2. Len(messages') = version /\ messages' \in Seq(Input) /\ MessagesFirst'
      BY <1>2, <3>1, ApplyPendingStep
    <3>3. accepted' = accepted
      BY <1>2 DEF accepted
    <3>4. messages' = accepted
      <4>1. \A k \in 1..version : messages'[k] \in Input /\ inputVersion[messages'[k]] = k
        BY <1>2, <3>2 DEF MessagesFirst
      <4>2. \A k \in 1..version : messages'[k] = accepted[k]
        BY <1>0, <4>1, AcceptedInputs DEF Ordered, Numbered
      <4>3. messages' \in [1..version -> Input] /\ accepted \in [1..version -> Input]
        BY <1>0, <3>2, AcceptedInputs DEF Ordered
      <4>4. \A f, g \in [1..version -> Input] : (\A k \in 1..version : f[k] = g[k]) => f = g
        BY SameFunction, Zenon
      <4> QED  BY ONLY <4>2, <4>3, <4>4, Zenon
    <3>5. fate = "open" /\ fate' = fate
      BY <1>2, <3>1 DEF fate
    <3> QED  BY <3>3, <3>4, <3>5 DEF Delivery!Deliver, Delivery!Next, accepted, fate
  <2> QED  BY <2>1, <2>2
<1>3. ASSUME UNCHANGED <<version, inputVersion, messages>>, fate' = "ended"
      PROVE  Delivery!End
  <2>1. accepted' = accepted
    BY <1>3 DEF accepted
  <2> QED  BY <1>3, <2>1 DEF Delivery!End, accepted, fate
<1>4. CASE CancelWrite
  BY <1>3, <1>4 DEF CancelWrite, fate, Delivery!Next
<1>5. CASE WriteOutcome("errorWrite", "error") \/ WriteOutcome("cancelWrite", "canceled")
  BY <1>3, <1>5 DEF WriteOutcome, SetRunStatus, fate, Delivery!Next
<1>6. CASE WriteOutcome("doneWrite", "done")
  <2>1. UNCHANGED <<version, inputVersion, messages>> /\ exec = "doneWrite" /\ status' = "done"
    BY <1>6 DEF WriteOutcome, SetRunStatus
  <2>2. messages = accepted
    BY <1>0, <2>1, AllDelivered DEF IInv, DoneHasAll
  <2>3. fate' = "done" /\ accepted' = accepted
    BY <2>1 DEF fate, accepted
  <2> QED  BY <2>1, <2>2, <2>3 DEF Delivery!Succeed, Delivery!Next, accepted, fate
<1>7. CASE ApplyClaim
  BY <1>2, <1>7 DEF ApplyClaim
<1>8. CASE PrepareStop
  <2>1. CASE CloseInput /\ UNCHANGED <<status, version, inputVersion, saved, context, lastApplied, cancel, stops>>
    BY <1>2, <2>1 DEF CloseInput
  <2>2. CASE Goto("top")
    BY <2>2, Unseen DEF Goto, rows, fate
  <2> QED  BY <1>8, <2>1, <2>2 DEF PrepareStop
<1>9. CASE CancelRead \/ Top \/ ApplyRead \/ AddApplied \/ AddFails \/ RequestEnds \/ RequestAborted \/ Crash
  <2>1. UNCHANGED <<status, version, inputVersion, messages>>
    BY <1>9 DEF CancelRead, Top, ApplyRead, AddApplied, AddFails, RequestEnds, RequestAborted, Crash, Goto, rows
  <2> QED  BY <2>1, Unseen DEF fate
<1>10. CASE Begin
  <2>1. UNCHANGED <<version, inputVersion, messages>> /\ fate' = fate
    BY <1>10 DEF Begin, inputRows, fate
  <2> QED  BY <2>1, Unseen
<1>11. CASE Restart
  <2>1. UNCHANGED <<version, inputVersion, messages>> /\ fate' = fate
    BY <1>11 DEF Restart, rows, SetRunStatus, fate
  <2> QED  BY <2>1, Unseen
<1>12. CASE UNCHANGED vars
  BY <1>12, Unseen DEF vars, rows, fate
<1> QED
  BY <1>1, <1>4, <1>5, <1>6, <1>7, <1>8, <1>9, <1>10, <1>11, <1>12 DEF Next, Executor, Delivery!Next

\* The caller's view: accepted inputs become messages of the run once, in the
\* order of their acceptance, and all of them before the run is done.
THEOREM InputsAreDelivered == Spec => DeliversInputs
<1>1. Init => Delivery!Init
  <2> SUFFICES ASSUME Init PROVE Delivery!Init
    OBVIOUS
  <2>1. accepted = <<>>
    BY DEF Init, accepted
  <2>2. fate = "open"
    BY DEF Init, fate, Active
  <2> QED  BY <2>1, <2>2 DEF Init, Delivery!Init, accepted, fate
<1>2. IInv /\ IInv' /\ [Next]_vars => [Delivery!Next]_Delivery!vars
  BY StepRefines
<1> QED  BY <1>1, <1>2, Invariance, PTL DEF Spec, DeliversInputs, Delivery!Spec
=============================================================================
