----------------------- MODULE ThreadDeletion_proofs -----------------------
(* The safety theorems of ThreadDeletion, for every set of threads, any     *)
(* number of deletions and operations side by side and of crashes.          *)
EXTENDS ThreadDeletion, TLAPS

----------------------------------------------------------------------------
(* The inductive invariant. *)

\* The types, in parts.
Typed ==
  /\ {tenant, space} \subseteq {"live", "deleted"}
  /\ thread \in [Thread -> {"none", "live", "deleted"}]
  /\ run \in [Thread -> {"none", "active", "waiting", "ended"}]
  /\ command \in [Thread -> {"none", "live", "ended"}]
  /\ exec \in [Thread -> ExecState] /\ aborted \subseteq Thread
  /\ proc \in [Thread -> {"none", "live", "killed"}]
  /\ op \in [OpKind \X Thread -> {"none", "entered", "committed"}]
  /\ deletion \in [Deletion -> DeletionState]
  /\ recovery \in {"idle", "list"} /\ recover \subseteq Thread
AbortedThere == \A t \in aborted : exec[t] # "none"
Awaited ==
  \A d \in Deletion : deletion[d].stage = "operations" =>
    \A k \in OpKind, t \in Thread : <<k, t>> \in deletion[d].left => op[<<k, t>>] # "none"

\* The sets a deletion holds at each stage.
Shape ==
  \A d \in Deletion :
    LET del == deletion[d] IN
    /\ del.targets \subseteq Thread /\ \A t \in del.targets : thread[t] # "none"
    /\ del.threadIds = del.targets /\ del.runs \subseteq del.targets
    /\ del.stage = "begin" => del.targets = {}
    /\ del.stage = "operations" => del.left \subseteq OpKind \X Thread
    /\ del.stage \in {"processes", "executors"} => del.left \subseteq del.targets

\* Kinds of operations: those that name their thread, a run, a command.
Names(k) == k # "create"
StartsRun(k) == k = "run"
StartsCommand(k) == k = "shell"

\* Nothing is there of a thread before its row, which one create writes.
BlankBefore ==
  \A t \in Thread :
    /\ thread[t] = "none" =>
         /\ run[t] = "none" /\ command[t] = "none" /\ exec[t] = "none" /\ proc[t] = "none"
         /\ (\A k \in OpKind : Names(k) => op[<<k, t>>] = "none")
         /\ t \notin recover
    /\ \A k \in OpKind : ~Names(k) /\ op[<<k, t>>] = "entered" => thread[t] = "none"

\* Rows of a thread go with it.
DeletedHasNoRows ==
  \A t \in Thread : thread[t] = "deleted" => run[t] = "none" /\ command[t] = "none"

\* Operations on the threads a deletion stops are awaited, then gone.
OperationsAwaited ==
  \A d \in Deletion : deletion[d].stage = "operations" =>
    \A k \in OpKind, t \in deletion[d].targets :
      Names(k) /\ op[<<k, t>>] # "none" => <<k, t>> \in deletion[d].left
TargetsFree ==
  \A d \in Deletion : Stopping(d) =>
    \A k \in OpKind, t \in deletion[d].targets : Names(k) => op[<<k, t>>] = "none"

\* Cancelled runs are not taken up again.
TargetsNotActive ==
  \A d \in Deletion : Stopping(d) => \A t \in deletion[d].targets : run[t] # "active"

\* A command that has been written or spawned has a live row, which keeps its
\* thread from being deleted.
CommandWritten ==
  \A k \in OpKind, t \in Thread : StartsCommand(k) /\ op[<<k, t>>] = "committed" =>
    command[t] = "live" /\ proc[t] = "none"
ProcessHasRow == \A t \in Thread : proc[t] # "none" => command[t] = "live"

\* The processes of the targets are killed and awaited, then gone.
ProcessesStop ==
  \A d \in Deletion : \A t \in deletion[d].targets :
    /\ deletion[d].stage = "processes" /\ proc[t] # "none" => t \in deletion[d].left
    /\ deletion[d].stage \in {"executors", "rows"} => proc[t] = "none"
ProcessesKilled ==
  \A d \in Deletion : \A t \in deletion[d].left :
    deletion[d].stage = "processes" => proc[t] = "killed"

Works(t) == exec[t] \in {"working", "done", "asks"}

\* So are the executors that work for them.
ExecutorsStop ==
  \A d \in Deletion : \A t \in deletion[d].targets :
    /\ deletion[d].stage = "processes" /\ Works(t) => t \in deletion[d].runs \cap aborted
    /\ deletion[d].stage = "executors" /\ Works(t) => t \in deletion[d].left \cap aborted
    /\ deletion[d].stage = "rows" => ~Works(t)
ExecutorsThere ==
  \A d \in Deletion : \A t \in deletion[d].left :
    deletion[d].stage = "executors" => exec[t] # "none"

\* A thread created after the deletion of its space has listed the threads has
\* no run and will not get one.
SpaceListed ==
  \A d \in Deletion : deletion[d].kind = "space" /\ deletion[d].stage \notin {"none", "begin"} =>
    \A t \in Thread \ deletion[d].targets : thread[t] = "live" =>
      /\ run[t] = "none" /\ exec[t] = "none" /\ t \notin recover
      /\ \A k \in OpKind : StartsRun(k) => op[<<k, t>>] = "none"

\* No executor works for a thread that is deleted, but with its tenant.
DeletedNotWorked ==
  \A t \in Thread : thread[t] = "deleted" /\ tenant = "live" => ~Works(t)

IInv == /\ Typed /\ AbortedThere /\ Awaited /\ Shape /\ BlankBefore /\ DeletedHasNoRows
        /\ OperationsAwaited /\ TargetsFree /\ TargetsNotActive /\ CommandWritten /\ ProcessHasRow
        /\ ProcessesStop /\ ProcessesKilled /\ ExecutorsStop /\ ExecutorsThere /\ SpaceListed /\ DeletedNotWorked

----------------------------------------------------------------------------
(* Facts about operations and deletions. *)

\* The types hold.
LEMMA Types == IInv => TypeOK
<1> SUFFICES ASSUME IInv PROVE TypeOK
  OBVIOUS
<1>1. ASSUME NEW d \in Deletion, deletion[d].stage = "operations" PROVE deletion[d].left \subseteq InFlight
  <2>1. ASSUME NEW o \in deletion[d].left PROVE o \in InFlight
    <3>1. PICK k \in OpKind, t \in Thread : o = <<k, t>>  BY <1>1 DEF IInv, Shape
    <3>2. op[o] # "none"  BY <1>1, <3>1 DEF IInv, Awaited
    <3> QED  BY <3>1, <3>2 DEF InFlight
  <2> QED  BY <2>1
<1> QED  BY <1>1 DEF IInv, Typed, AbortedThere, TypeOK

\* All operations but a create name their thread, all but shell their space.
LEMMA ScopeOf ==
  ASSUME NEW k \in OpKind, NEW t \in Thread
  PROVE  /\ OpScope(<<k, t>>).thread = IF Names(k) THEN t ELSE NoThread
         /\ OpScope(<<k, t>>).space = ~StartsCommand(k)
<1> QED  BY DEF OpKind, OpScope, Scope, Names, StartsCommand

\* One operation changes.
LEMMA OpChanged ==
  ASSUME Typed, NEW k \in OpKind, NEW t \in Thread, NEW to \in {"none", "entered", "committed"},
         op' = [op EXCEPT ![<<k, t>>] = to]
  PROVE  /\ op' \in [OpKind \X Thread -> {"none", "entered", "committed"}]
         /\ \A j \in OpKind, u \in Thread :
              op'[<<j, u>>] = IF j = k /\ u = t THEN to ELSE op[<<j, u>>]
<1> QED  BY DEF Typed

\* Whatever waits for x at a stage waits no longer; nothing else of a deletion
\* changes.
SameButLeft(d) ==
  /\ deletion'[d].stage = deletion[d].stage /\ deletion'[d].kind = deletion[d].kind
  /\ deletion'[d].threadIds = deletion[d].threadIds
  /\ deletion'[d].targets = deletion[d].targets
  /\ deletion'[d].runs = deletion[d].runs
LEMMA Resolved ==
  ASSUME Typed, NEW stage, NEW x, Resolve(stage, x)
  PROVE  /\ deletion' \in [Deletion -> DeletionState]
         /\ \A d \in Deletion :
              /\ SameButLeft(d)
              /\ deletion'[d].left \subseteq deletion[d].left
              /\ deletion[d].stage = stage => x \notin deletion'[d].left
              /\ \A y \in deletion[d].left \ deletion'[d].left : deletion[d].stage = stage /\ y = x
<1>1. \A d \in Deletion : deletion[d] \in DeletionState  BY DEF Typed
<1> QED  BY <1>1 DEF Resolve, DeletionState, SameButLeft

----------------------------------------------------------------------------
(* Steps. *)

\* Initially the invariant holds.
LEMMA InitIInv == Init => IInv
<1> SUFFICES ASSUME Init PROVE IInv
  OBVIOUS
<1> USE ThreadAssumption DEF Init, NoExec, NoProc, NoOps, NoDeletions, NoDeletion
<1>1. Typed
  BY DEF Typed, ExecState, DeletionState, Stage, Kind
<1>2. /\ AbortedThere /\ Awaited /\ Shape /\ OperationsAwaited /\ TargetsFree /\ TargetsNotActive
      /\ ProcessesStop /\ ProcessesKilled /\ ExecutorsStop /\ ExecutorsThere /\ SpaceListed
  BY DEF AbortedThere, Awaited, Shape, OperationsAwaited, TargetsFree, TargetsNotActive,
     ProcessesStop, ProcessesKilled, ExecutorsStop, ExecutorsThere, SpaceListed, Stopping
<1>3. \A k \in OpKind, t \in Thread : op[<<k, t>>] = "none"
  OBVIOUS
<1>4. /\ \A t \in Thread : thread[t] = "none" /\ run[t] = "none" /\ command[t] = "none"
      /\ \A t \in Thread : exec[t] = "none" /\ proc[t] = "none" /\ t \notin recover
  OBVIOUS
<1> HIDE DEF Init
<1>5. /\ BlankBefore /\ DeletedHasNoRows /\ CommandWritten /\ ProcessHasRow
      /\ DeletedNotWorked
  BY <1>3, <1>4 DEF BlankBefore, DeletedHasNoRows, CommandWritten, ProcessHasRow, DeletedNotWorked, Works
<1> QED  BY <1>1, <1>2, <1>5 DEF IInv

\* Operations under the gate, up to their rows.
LEMMA OperationSteps ==
  ASSUME IInv, NEW k \in OpKind, NEW t \in Thread, Enter(<<k, t>>) \/ Commit(<<k, t>>)
  PROVE  IInv'
<1> USE ThreadAssumption DEF IInv, ExecState, SameButLeft
<1>T. Typed  OBVIOUS
<1>N. \A j \in OpKind :
        /\ StartsRun(j) \/ StartsCommand(j) <=> Names(j)
        /\ ~(StartsRun(j) /\ StartsCommand(j))
  BY DEF OpKind, StartsRun, StartsCommand, Names
<1>K. <<k, t>>[1] = k /\ <<k, t>>[2] = t  OBVIOUS
<1>1. CASE Enter(<<k, t>>)
  <2>1. UNCHANGED <<tenant, space, thread, run, command, exec, aborted, proc, deletion, recovery, recover>>
    BY <1>1, <1>T DEF Enter, rows, execution, restartVars
  <2>2. /\ op' \in [OpKind \X Thread -> {"none", "entered", "committed"}]
        /\ \A j \in OpKind, u \in Thread :
           op'[<<j, u>>] = IF j = k /\ u = t THEN "entered" ELSE op[<<j, u>>]
    BY <1>1, <1>T, OpChanged DEF Enter
  <2>3. op[<<k, t>>] = "none"  BY <1>1, <1>T DEF Enter
  <2>4. IF Names(k) THEN thread[t] = "live" ELSE thread[t] = "none"
    BY <1>1, <1>T, <1>K DEF Enter, Names
  <2>5. \A d \in Deletion : deletion[d].stage # "none" =>
           /\ Names(k) => t \notin deletion[d].threadIds
           /\ deletion[d].kind = "space" => StartsCommand(k)
    BY <1>1, <1>T, ScopeOf DEF Enter, Blocked, Blocks
  <2>6. Typed'  BY <2>1, <2>2, <2>3, <2>4, <2>5 DEF Typed
  <2>7. Awaited'  BY <2>1, <2>2, <2>3, <2>4, <2>5 DEF Awaited
  <2>8. BlankBefore'  BY <2>1, <2>2, <2>3, <2>4, <2>5, <1>N DEF BlankBefore
  <2>9. OperationsAwaited'  BY <2>1, <2>2, <2>3, <2>4, <2>5 DEF OperationsAwaited, Shape
  <2>10. TargetsFree'  BY <2>1, <2>2, <2>3, <2>4, <2>5 DEF TargetsFree, OperationsAwaited,
       Shape, Stopping
  <2>11. CommandWritten'  BY <2>1, <2>2, <2>3, <2>4, <2>5 DEF CommandWritten
  <2>12. SpaceListed'  BY <2>1, <2>2, <2>3, <2>4, <2>5, <1>N DEF SpaceListed, BlankBefore, Shape
  <2>13. /\ AbortedThere' /\ Shape' /\ DeletedHasNoRows' /\ TargetsNotActive'
         /\ ProcessHasRow' /\ ProcessesStop' /\ ProcessesKilled' /\ ExecutorsStop'
         /\ ExecutorsThere' /\ DeletedNotWorked'
    BY <2>1 DEF AbortedThere, Shape, DeletedHasNoRows, TargetsNotActive, ProcessHasRow,
       ProcessesStop, ProcessesKilled, ExecutorsStop, ExecutorsThere, DeletedNotWorked,
       Stopping, Works
  <2> QED  BY <2>6, <2>7, <2>8, <2>9, <2>10, <2>11, <2>12, <2>13
<1>2. CASE Commit(<<k, t>>) /\ k = "create"
  <2>1. UNCHANGED <<tenant, space, run, command, exec, aborted, proc, deletion, recovery, recover>>
    BY <1>2, <1>T DEF Commit, rows, execution, restartVars
  <2>2. \A j \in OpKind : ~Names(j) <=> j = k
    BY <1>2, <1>T DEF OpKind, Names, StartsRun, StartsCommand
  <2>3. op[<<k, t>>] = "entered"  BY <1>2, <1>T DEF Commit
  <2>4. /\ op' \in [OpKind \X Thread -> {"none", "entered", "committed"}]
        /\ \A j \in OpKind, u \in Thread :
           op'[<<j, u>>] = IF j = k /\ u = t THEN "committed" ELSE op[<<j, u>>]
    BY <1>2, <1>T, OpChanged DEF Commit
  <2>5. /\ thread' \in [Thread -> {"none", "live", "deleted"}]
        /\ \A u \in Thread : u # t => thread'[u] = thread[u]
        /\ thread'[t] = "live"
    BY <1>2, <1>T, <1>K DEF Commit, Typed
  <2>6. Typed'  BY <2>1, <2>2, <2>3, <2>4, <2>5 DEF Typed
  <2>7. Awaited'  BY <2>1, <2>2, <2>3, <2>4, <2>5 DEF Awaited
  <2>8. Shape'  BY <2>1, <2>2, <2>3, <2>4, <2>5 DEF Shape
  <2>9. BlankBefore'  BY <2>1, <2>2, <2>3, <2>4, <2>5, <1>N DEF BlankBefore
  <2>10. DeletedHasNoRows'  BY <2>1, <2>2, <2>3, <2>4, <2>5 DEF DeletedHasNoRows
  <2>11. OperationsAwaited'  BY <2>1, <2>2, <2>3, <2>4, <2>5 DEF OperationsAwaited, Shape
  <2>12. TargetsFree'  BY <2>1, <2>2, <2>3, <2>4, <2>5 DEF TargetsFree, OperationsAwaited,
       Shape, Stopping
  <2>13. CommandWritten'  BY <2>1, <2>2, <2>3, <2>4, <2>5, <1>N DEF CommandWritten
  <2>14. SpaceListed'  BY <2>1, <2>2, <2>3, <2>4, <2>5, <1>N DEF SpaceListed, BlankBefore, Shape
  <2>15. DeletedNotWorked'  BY <2>1, <2>2, <2>3, <2>4, <2>5 DEF DeletedNotWorked, ExecutorsStop,
       SpaceListed, DeletedHasNoRows, BlankBefore, Shape, Works
  <2>16. /\ AbortedThere' /\ TargetsNotActive' /\ ProcessHasRow' /\ ProcessesStop'
         /\ ProcessesKilled' /\ ExecutorsStop' /\ ExecutorsThere'
    BY <2>1 DEF AbortedThere, TargetsNotActive, ProcessHasRow, ProcessesStop, ProcessesKilled,
       ExecutorsStop, ExecutorsThere, Stopping, Works
  <2> QED  BY <2>6, <2>7, <2>8, <2>9, <2>10, <2>11, <2>12, <2>13, <2>14, <2>15, <2>16
<1>3. CASE Commit(<<k, t>>) /\ k = "run"
  <2>1. UNCHANGED <<tenant, space, thread, command, exec, aborted, proc, deletion, recovery, recover>>
    BY <1>3, <1>T DEF Commit, rows, execution, restartVars
  <2>2. Names(k) /\ ~StartsCommand(k) /\ \A j \in OpKind : StartsRun(j) <=> j = k
    BY <1>3, <1>T DEF OpKind, Names, StartsRun, StartsCommand
  <2>3. op[<<k, t>>] = "entered"  BY <1>3, <1>T DEF Commit
  <2>4. /\ op' \in [OpKind \X Thread -> {"none", "entered", "committed"}]
        /\ \A j \in OpKind, u \in Thread :
           op'[<<j, u>>] = IF j = k /\ u = t THEN "committed" ELSE op[<<j, u>>]
    BY <1>3, <1>T, OpChanged DEF Commit
  <2>5. /\ run' \in [Thread -> {"none", "active", "waiting", "ended"}]
        /\ \A u \in Thread : u # t => run'[u] = run[u]
        /\ thread[t] = "live" /\ run[t] # "active"
        /\ run'[t] = "active"
    BY <1>3, <1>T, <1>K DEF Commit, Typed
  <2>6. Typed'  BY <2>1, <2>2, <2>3, <2>4, <2>5 DEF Typed
  <2>7. Awaited'  BY <2>1, <2>2, <2>3, <2>4, <2>5 DEF Awaited
  <2>8. BlankBefore'  BY <2>1, <2>2, <2>3, <2>4, <2>5, <1>N DEF BlankBefore
  <2>9. DeletedHasNoRows'  BY <2>1, <2>2, <2>3, <2>4, <2>5 DEF DeletedHasNoRows
  <2>10. OperationsAwaited'  BY <2>1, <2>2, <2>3, <2>4, <2>5, SMTT(40) DEF OperationsAwaited,
       Shape
  <2>11. TargetsFree'  BY <2>1, <2>2, <2>3, <2>4, <2>5 DEF TargetsFree, OperationsAwaited,
       Shape, Stopping
  <2>12. TargetsNotActive'  BY <2>1, <2>2, <2>3, <2>4, <2>5 DEF TargetsNotActive, TargetsFree,
       Shape, Stopping
  <2>13. CommandWritten'  BY <2>1, <2>2, <2>3, <2>4, <2>5, <1>N DEF CommandWritten
  <2>14. SpaceListed'  BY <2>1, <2>2, <2>3, <2>4, <2>5, <1>N DEF SpaceListed, BlankBefore, Shape
  <2>15. /\ AbortedThere' /\ Shape' /\ ProcessHasRow' /\ ProcessesStop' /\ ProcessesKilled'
         /\ ExecutorsStop' /\ ExecutorsThere' /\ DeletedNotWorked'
    BY <2>1 DEF AbortedThere, Shape, ProcessHasRow, ProcessesStop, ProcessesKilled,
       ExecutorsStop, ExecutorsThere, DeletedNotWorked, Works
  <2> QED  BY <2>6, <2>7, <2>8, <2>9, <2>10, <2>11, <2>12, <2>13, <2>14, <2>15
<1>4. CASE Commit(<<k, t>>) /\ k = "shell"
  <2>1. UNCHANGED <<tenant, space, thread, run, exec, aborted, proc, deletion, recovery, recover>>
    BY <1>4, <1>T DEF Commit, rows, execution, restartVars
  <2>2. Names(k) /\ ~StartsRun(k) /\ \A j \in OpKind : StartsCommand(j) <=> j = k
    BY <1>4, <1>T DEF OpKind, Names, StartsRun, StartsCommand
  <2>3. op[<<k, t>>] = "entered"  BY <1>4, <1>T DEF Commit
  <2>4. /\ op' \in [OpKind \X Thread -> {"none", "entered", "committed"}]
        /\ \A j \in OpKind, u \in Thread :
           op'[<<j, u>>] = IF j = k /\ u = t THEN "committed" ELSE op[<<j, u>>]
    BY <1>4, <1>T, OpChanged DEF Commit
  <2>5. /\ command' \in [Thread -> {"none", "live", "ended"}]
        /\ \A u \in Thread : u # t => command'[u] = command[u]
        /\ thread[t] = "live" /\ proc[t] = "none"
        /\ command'[t] = "live"
    BY <1>4, <1>T, <1>K DEF Commit, Typed
  <2>6. Typed'  BY <2>1, <2>2, <2>3, <2>4, <2>5 DEF Typed
  <2>7. Awaited'  BY <2>1, <2>2, <2>3, <2>4, <2>5 DEF Awaited
  <2>8. BlankBefore'  BY <2>1, <2>2, <2>3, <2>4, <2>5, <1>N DEF BlankBefore
  <2>9. DeletedHasNoRows'  BY <2>1, <2>2, <2>3, <2>4, <2>5 DEF DeletedHasNoRows
  <2>10. OperationsAwaited'  BY <2>1, <2>2, <2>3, <2>4, <2>5, SMTT(40) DEF OperationsAwaited,
       Shape
  <2>11. TargetsFree'  BY <2>1, <2>2, <2>3, <2>4, <2>5 DEF TargetsFree, OperationsAwaited,
       Shape, Stopping
  <2>12. CommandWritten'  BY <2>1, <2>2, <2>3, <2>4, <2>5, <1>N DEF CommandWritten
  <2>13. ProcessHasRow'  BY <2>1, <2>2, <2>3, <2>4, <2>5 DEF ProcessHasRow, CommandWritten
  <2>14. SpaceListed'  BY <2>1, <2>2, <2>3, <2>4, <2>5, <1>N DEF SpaceListed, BlankBefore, Shape
  <2>15. /\ AbortedThere' /\ Shape' /\ TargetsNotActive' /\ ProcessesStop'
         /\ ProcessesKilled' /\ ExecutorsStop' /\ ExecutorsThere' /\ DeletedNotWorked'
    BY <2>1 DEF AbortedThere, Shape, TargetsNotActive, ProcessesStop, ProcessesKilled,
       ExecutorsStop, ExecutorsThere, DeletedNotWorked, Stopping, Works
  <2> QED  BY <2>6, <2>7, <2>8, <2>9, <2>10, <2>11, <2>12, <2>13, <2>14, <2>15
<1> QED  BY <1>1, <1>2, <1>3, <1>4 DEF OpKind

\* Operations that end.
LEMMA OperationEnds ==
  ASSUME IInv, NEW k \in OpKind, NEW t \in Thread,
         Refused(<<k, t>>) \/ Leave(<<k, t>>) \/ (k = "shell" /\ StartFails(t))
  PROVE  IInv'
<1> USE ThreadAssumption DEF IInv, ExecState, SameButLeft
<1>T. Typed  OBVIOUS
<1>N. \A j \in OpKind :
        /\ StartsRun(j) \/ StartsCommand(j) <=> Names(j)
        /\ ~(StartsRun(j) /\ StartsCommand(j))
  BY DEF OpKind, StartsRun, StartsCommand, Names
<1>K. <<k, t>>[1] = k /\ <<k, t>>[2] = t  OBVIOUS
<1>1. CASE Refused(<<k, t>>)
  <2>1. UNCHANGED <<tenant, space, thread, run, command, exec, aborted, proc, recovery, recover>>
    BY <1>1, <1>T DEF Refused, Finish, rows, execution, restartVars
  <2>2. /\ deletion' \in [Deletion -> DeletionState]
        /\ \A d \in Deletion :
           /\ SameButLeft(d)
           /\ deletion'[d].left \subseteq deletion[d].left
           /\ deletion[d].stage = "operations" => <<k, t>> \notin deletion'[d].left
           /\ \A y \in deletion[d].left \ deletion'[d].left :
                deletion[d].stage = "operations" /\ y = <<k, t>>
    BY <1>1, <1>T, Resolved DEF Refused, Finish
  <2>3. /\ op' \in [OpKind \X Thread -> {"none", "entered", "committed"}]
        /\ \A j \in OpKind, u \in Thread :
           op'[<<j, u>>] = IF j = k /\ u = t THEN "none" ELSE op[<<j, u>>]
    BY <1>1, <1>T, OpChanged DEF Refused, Finish
  <2>4. Typed'  BY <2>1, <2>2, <2>3 DEF Typed
  <2>5. Awaited'  BY <2>1, <2>2, <2>3 DEF Awaited
  <2>6. Shape'  BY <2>1, <2>2, <2>3 DEF Shape
  <2>7. BlankBefore'  BY <2>1, <2>3 DEF BlankBefore
  <2>8. OperationsAwaited'  BY <2>1, <2>2, <2>3 DEF OperationsAwaited, Shape
  <2>9. TargetsFree'  BY <2>1, <2>2, <2>3 DEF TargetsFree, OperationsAwaited, Shape, Stopping
  <2>10. TargetsNotActive'  BY <2>1, <2>2, <2>3 DEF TargetsNotActive, TargetsFree, Shape,
       Stopping
  <2>11. CommandWritten'  BY <2>1, <2>3 DEF CommandWritten
  <2>12. ProcessesStop'  BY <2>1, <2>2, <2>3 DEF ProcessesStop, TargetsFree, Stopping, Shape
  <2>13. ProcessesKilled'  BY <2>1, <2>2, <2>3 DEF ProcessesKilled, TargetsFree, Stopping, Shape
  <2>14. ExecutorsStop'  BY <2>1, <2>2, <2>3 DEF ExecutorsStop, TargetsNotActive, Stopping,
       Shape, Works
  <2>15. ExecutorsThere'  BY <2>1, <2>2, <2>3 DEF ExecutorsThere, Shape
  <2>16. SpaceListed'  BY <2>1, <2>2, <2>3, <1>N DEF SpaceListed, BlankBefore, Shape
  <2>17. /\ AbortedThere' /\ DeletedHasNoRows' /\ ProcessHasRow' /\ DeletedNotWorked'
    BY <2>1 DEF AbortedThere, DeletedHasNoRows, ProcessHasRow, DeletedNotWorked, Works
  <2> QED  BY <2>4, <2>5, <2>6, <2>7, <2>8, <2>9, <2>10, <2>11, <2>12, <2>13, <2>14, <2>15,
       <2>16, <2>17
<1>2. CASE Leave(<<k, t>>) /\ k = "create"
  <2>1. UNCHANGED <<tenant, space, thread, run, command, exec, aborted, proc, recovery, recover>>
    BY <1>2, <1>T DEF Leave, Finish, rows, execution, restartVars
  <2>2. /\ deletion' \in [Deletion -> DeletionState]
        /\ \A d \in Deletion :
           /\ SameButLeft(d)
           /\ deletion'[d].left \subseteq deletion[d].left
           /\ deletion[d].stage = "operations" => <<k, t>> \notin deletion'[d].left
           /\ \A y \in deletion[d].left \ deletion'[d].left :
                deletion[d].stage = "operations" /\ y = <<k, t>>
    BY <1>2, <1>T, Resolved DEF Leave, Finish
  <2>3. /\ op' \in [OpKind \X Thread -> {"none", "entered", "committed"}]
        /\ \A j \in OpKind, u \in Thread :
           op'[<<j, u>>] = IF j = k /\ u = t THEN "none" ELSE op[<<j, u>>]
    BY <1>2, <1>T, OpChanged DEF Leave, Finish
  <2>4. \A j \in OpKind : ~Names(j) <=> j = k  BY <1>2, <1>T DEF OpKind, Names
  <2>5. Typed'  BY <2>1, <2>2, <2>3, <2>4 DEF Typed
  <2>6. Awaited'  BY <2>1, <2>2, <2>3, <2>4 DEF Awaited
  <2>7. Shape'  BY <2>1, <2>2, <2>3, <2>4 DEF Shape
  <2>8. BlankBefore'  BY <2>1, <2>3, <2>4 DEF BlankBefore
  <2>9. OperationsAwaited'  BY <2>1, <2>2, <2>3, <2>4 DEF OperationsAwaited, Shape
  <2>10. TargetsFree'  BY <2>1, <2>2, <2>3, <2>4 DEF TargetsFree, OperationsAwaited, Shape,
       Stopping
  <2>11. TargetsNotActive'  BY <2>1, <2>2, <2>3, <2>4 DEF TargetsNotActive, TargetsFree, Shape,
       Stopping
  <2>12. CommandWritten'  BY <2>1, <2>3, <2>4 DEF CommandWritten
  <2>13. ProcessesStop'  BY <2>1, <2>2, <2>3, <2>4 DEF ProcessesStop, TargetsFree, Stopping,
       Shape
  <2>14. ProcessesKilled'  BY <2>1, <2>2, <2>3, <2>4 DEF ProcessesKilled, TargetsFree, Stopping,
       Shape
  <2>15. ExecutorsStop'  BY <2>1, <2>2, <2>3, <2>4 DEF ExecutorsStop, TargetsNotActive,
       Stopping, Shape, Works
  <2>16. ExecutorsThere'  BY <2>1, <2>2, <2>3, <2>4 DEF ExecutorsThere, Shape
  <2>17. SpaceListed'  BY <2>1, <2>2, <2>3, <2>4, <1>N DEF SpaceListed, BlankBefore, Shape
  <2>18. /\ AbortedThere' /\ DeletedHasNoRows' /\ ProcessHasRow' /\ DeletedNotWorked'
    BY <2>1 DEF AbortedThere, DeletedHasNoRows, ProcessHasRow, DeletedNotWorked, Works
  <2> QED  BY <2>5, <2>6, <2>7, <2>8, <2>9, <2>10, <2>11, <2>12, <2>13, <2>14, <2>15, <2>16,
       <2>17, <2>18
<1>3. CASE Leave(<<k, t>>) /\ k = "run"
  <2>1. UNCHANGED <<tenant, space, thread, run, command, aborted, proc, recovery, recover>>
    BY <1>3, <1>T DEF Leave, Finish, Register, rows, execution, restartVars
  <2>2. /\ deletion' \in [Deletion -> DeletionState]
        /\ \A d \in Deletion :
           /\ SameButLeft(d)
           /\ deletion'[d].left \subseteq deletion[d].left
           /\ deletion[d].stage = "operations" => <<k, t>> \notin deletion'[d].left
           /\ \A y \in deletion[d].left \ deletion'[d].left :
                deletion[d].stage = "operations" /\ y = <<k, t>>
    BY <1>3, <1>T, Resolved DEF Leave, Finish, Register
  <2>3. /\ op' \in [OpKind \X Thread -> {"none", "entered", "committed"}]
        /\ \A j \in OpKind, u \in Thread :
           op'[<<j, u>>] = IF j = k /\ u = t THEN "none" ELSE op[<<j, u>>]
    BY <1>3, <1>T, OpChanged DEF Leave, Finish, Register
  <2>4. /\ Names(k) /\ ~StartsCommand(k) /\ \A j \in OpKind : StartsRun(j) <=> j = k
        /\ op[<<k, t>>] = "committed" /\ thread[t] # "none"
    BY <1>3, <1>T DEF BlankBefore, OpKind, Names, StartsRun, StartsCommand, Leave
  <2>5. /\ exec' \in [Thread -> ExecState]
        /\ \A u \in Thread : u # t => exec'[u] = exec[u]
        /\ exec'[t] = IF exec[t] = "none" THEN "registered" ELSE exec[t]
    BY <1>3, <1>T, <1>K DEF Typed, Leave, Finish, Register
  <2>6. Typed'  BY <2>1, <2>2, <2>3, <2>4, <2>5 DEF Typed
  <2>7. AbortedThere'  BY <2>1, <2>2, <2>3, <2>4, <2>5 DEF AbortedThere, Typed
  <2>8. Awaited'  BY <2>1, <2>2, <2>3, <2>4, <2>5 DEF Awaited
  <2>9. Shape'  BY <2>1, <2>2, <2>3, <2>4, <2>5 DEF Shape
  <2>10. BlankBefore'  BY <2>1, <2>3, <2>4, <2>5, SMTT(40) DEF BlankBefore
  <2>11. OperationsAwaited'  BY <2>1, <2>2, <2>3, <2>4, <2>5, SMTT(40) DEF OperationsAwaited,
       Shape
  <2>12. TargetsFree'  BY <2>1, <2>2, <2>3, <2>4, <2>5 DEF TargetsFree, OperationsAwaited,
       Shape, Stopping
  <2>13. TargetsNotActive'  BY <2>1, <2>2, <2>3, <2>4, <2>5 DEF TargetsNotActive, TargetsFree,
       Shape, Stopping
  <2>14. CommandWritten'  BY <2>1, <2>3, <2>4, <2>5 DEF CommandWritten
  <2>15. ProcessesStop'  BY <2>1, <2>2, <2>3, <2>4, <2>5 DEF ProcessesStop, TargetsFree,
       Stopping, Shape
  <2>16. ProcessesKilled'  BY <2>1, <2>2, <2>3, <2>4, <2>5 DEF ProcessesKilled, TargetsFree,
       Stopping, Shape
  <2>17. ExecutorsStop'  BY <2>1, <2>2, <2>3, <2>4, <2>5, SMTT(40) DEF ExecutorsStop,
       TargetsNotActive, Stopping, Shape, Works
  <2>18. ExecutorsThere'  BY <2>1, <2>2, <2>3, <2>4, <2>5 DEF ExecutorsThere, Shape
  <2>19. SpaceListed'  BY <2>1, <2>2, <2>3, <2>4, <2>5, <1>N DEF SpaceListed, BlankBefore, Shape
  <2>20. DeletedNotWorked'  BY <2>1, <2>2, <2>3, <2>4, <2>5 DEF DeletedNotWorked, ExecutorsStop,
       SpaceListed, DeletedHasNoRows, BlankBefore, Shape, Works
  <2>21. /\ DeletedHasNoRows' /\ ProcessHasRow'
    BY <2>1 DEF DeletedHasNoRows, ProcessHasRow
  <2> QED  BY <2>6, <2>7, <2>8, <2>9, <2>10, <2>11, <2>12, <2>13, <2>14, <2>15, <2>16, <2>17,
       <2>18, <2>19, <2>20, <2>21
<1>4. CASE Leave(<<k, t>>) /\ k = "shell"
  <2>1. UNCHANGED <<tenant, space, thread, run, command, exec, aborted, recovery, recover>>
    BY <1>4, <1>T DEF Leave, Finish, rows, execution, restartVars
  <2>2. /\ deletion' \in [Deletion -> DeletionState]
        /\ \A d \in Deletion :
           /\ SameButLeft(d)
           /\ deletion'[d].left \subseteq deletion[d].left
           /\ deletion[d].stage = "operations" => <<k, t>> \notin deletion'[d].left
           /\ \A y \in deletion[d].left \ deletion'[d].left :
                deletion[d].stage = "operations" /\ y = <<k, t>>
    BY <1>4, <1>T, Resolved DEF Leave, Finish
  <2>3. /\ op' \in [OpKind \X Thread -> {"none", "entered", "committed"}]
        /\ \A j \in OpKind, u \in Thread :
           op'[<<j, u>>] = IF j = k /\ u = t THEN "none" ELSE op[<<j, u>>]
    BY <1>4, <1>T, OpChanged DEF Leave, Finish
  <2>4. /\ Names(k) /\ ~StartsRun(k) /\ \A j \in OpKind : StartsCommand(j) <=> j = k
        /\ op[<<k, t>>] = "committed" /\ thread[t] # "none"
    BY <1>4, <1>T DEF BlankBefore, OpKind, Names, StartsRun, StartsCommand, Leave
  <2>5. /\ proc' \in [Thread -> {"none", "live", "killed"}]
        /\ \A u \in Thread : u # t => proc'[u] = proc[u]
        /\ proc'[t] = "live"
    BY <1>4, <1>T, <1>K DEF Typed, Leave, Finish
  <2>6. Typed'  BY <2>1, <2>2, <2>3, <2>4, <2>5 DEF Typed
  <2>7. Awaited'  BY <2>1, <2>2, <2>3, <2>4, <2>5 DEF Awaited
  <2>8. Shape'  BY <2>1, <2>2, <2>3, <2>4, <2>5 DEF Shape
  <2>9. BlankBefore'  BY <2>1, <2>3, <2>4, <2>5 DEF BlankBefore
  <2>10. OperationsAwaited'  BY <2>1, <2>2, <2>3, <2>4, <2>5 DEF OperationsAwaited, Shape
  <2>11. TargetsFree'  BY <2>1, <2>2, <2>3, <2>4, <2>5 DEF TargetsFree, OperationsAwaited,
       Shape, Stopping
  <2>12. TargetsNotActive'  BY <2>1, <2>2, <2>3, <2>4, <2>5 DEF TargetsNotActive, TargetsFree,
       Shape, Stopping
  <2>13. CommandWritten'  BY <2>1, <2>3, <2>4, <2>5 DEF CommandWritten
  <2>14. ProcessHasRow'  BY <2>1, <2>3, <2>4, <2>5 DEF ProcessHasRow, CommandWritten
  <2>15. ProcessesStop'  BY <2>1, <2>2, <2>3, <2>4, <2>5 DEF ProcessesStop, TargetsFree,
       Stopping, Shape
  <2>16. ProcessesKilled'  BY <2>1, <2>2, <2>3, <2>4, <2>5 DEF ProcessesKilled, TargetsFree,
       Stopping, Shape
  <2>17. ExecutorsStop'  BY <2>1, <2>2, <2>3, <2>4, <2>5 DEF ExecutorsStop, TargetsNotActive,
       Stopping, Shape, Works
  <2>18. ExecutorsThere'  BY <2>1, <2>2, <2>3, <2>4, <2>5 DEF ExecutorsThere, Shape
  <2>19. SpaceListed'  BY <2>1, <2>2, <2>3, <2>4, <2>5, <1>N, SMTT(40) DEF SpaceListed,
       BlankBefore, Shape
  <2>20. /\ AbortedThere' /\ DeletedHasNoRows' /\ DeletedNotWorked'
    BY <2>1 DEF AbortedThere, DeletedHasNoRows, DeletedNotWorked, Works
  <2> QED  BY <2>6, <2>7, <2>8, <2>9, <2>10, <2>11, <2>12, <2>13, <2>14, <2>15, <2>16, <2>17,
       <2>18, <2>19, <2>20
<1>5. CASE k = "shell" /\ StartFails(t)
  <2>1. UNCHANGED <<tenant, space, thread, run, exec, aborted, proc, recovery, recover>>
    BY <1>5, <1>T DEF StartFails, Finish, rows, execution, restartVars
  <2>2. /\ deletion' \in [Deletion -> DeletionState]
        /\ \A d \in Deletion :
           /\ SameButLeft(d)
           /\ deletion'[d].left \subseteq deletion[d].left
           /\ deletion[d].stage = "operations" => <<k, t>> \notin deletion'[d].left
           /\ \A y \in deletion[d].left \ deletion'[d].left :
                deletion[d].stage = "operations" /\ y = <<k, t>>
    BY <1>5, <1>T, Resolved DEF StartFails, Finish
  <2>3. /\ op' \in [OpKind \X Thread -> {"none", "entered", "committed"}]
        /\ \A j \in OpKind, u \in Thread :
           op'[<<j, u>>] = IF j = k /\ u = t THEN "none" ELSE op[<<j, u>>]
    BY <1>5, <1>T, OpChanged DEF StartFails, Finish
  <2>4. /\ Names(k) /\ ~StartsRun(k) /\ \A j \in OpKind : StartsCommand(j) <=> j = k
        /\ op[<<k, t>>] = "committed" /\ thread[t] # "none"
    BY <1>5, <1>T DEF BlankBefore, OpKind, Names, StartsRun, StartsCommand, StartFails
  <2>5. /\ command' \in [Thread -> {"none", "live", "ended"}]
        /\ \A u \in Thread : u # t => command'[u] = command[u]
        /\ command'[t] = IF command[t] = "live" THEN "ended" ELSE command[t]
    BY <1>5, <1>T, <1>K DEF Typed, StartFails, Finish
  <2>6. Typed'  BY <2>1, <2>2, <2>3, <2>4, <2>5 DEF Typed
  <2>7. Awaited'  BY <2>1, <2>2, <2>3, <2>4, <2>5 DEF Awaited
  <2>8. Shape'  BY <2>1, <2>2, <2>3, <2>4, <2>5 DEF Shape
  <2>9. BlankBefore'  BY <2>1, <2>3, <2>4, <2>5, SMTT(40) DEF BlankBefore
  <2>10. DeletedHasNoRows'  BY <2>1, <2>3, <2>4, <2>5 DEF DeletedHasNoRows
  <2>11. OperationsAwaited'  BY <2>1, <2>2, <2>3, <2>4, <2>5 DEF OperationsAwaited, Shape
  <2>12. TargetsFree'  BY <2>1, <2>2, <2>3, <2>4, <2>5, SMTT(40) DEF TargetsFree,
       OperationsAwaited, Shape, Stopping
  <2>13. TargetsNotActive'  BY <2>1, <2>2, <2>3, <2>4, <2>5 DEF TargetsNotActive, TargetsFree,
       Shape, Stopping
  <2>14. CommandWritten'  BY <2>1, <2>3, <2>4, <2>5 DEF CommandWritten
  <2>15. ProcessHasRow'  BY <2>1, <2>3, <2>4, <2>5 DEF ProcessHasRow, CommandWritten
  <2>16. ProcessesStop'  BY <2>1, <2>2, <2>3, <2>4, <2>5 DEF ProcessesStop, TargetsFree,
       Stopping, Shape
  <2>17. ProcessesKilled'  BY <2>1, <2>2, <2>3, <2>4, <2>5 DEF ProcessesKilled, TargetsFree,
       Stopping, Shape
  <2>18. ExecutorsStop'  BY <2>1, <2>2, <2>3, <2>4, <2>5 DEF ExecutorsStop, TargetsNotActive,
       Stopping, Shape, Works
  <2>19. ExecutorsThere'  BY <2>1, <2>2, <2>3, <2>4, <2>5 DEF ExecutorsThere, Shape
  <2>20. SpaceListed'  BY <2>1, <2>2, <2>3, <2>4, <2>5, <1>N, SMTT(40) DEF SpaceListed,
       BlankBefore, Shape
  <2>21. /\ AbortedThere' /\ DeletedNotWorked'
    BY <2>1 DEF AbortedThere, DeletedNotWorked, Works
  <2> QED  BY <2>6, <2>7, <2>8, <2>9, <2>10, <2>11, <2>12, <2>13, <2>14, <2>15, <2>16, <2>17,
       <2>18, <2>19, <2>20, <2>21
<1> QED  BY <1>1, <1>2, <1>3, <1>4, <1>5 DEF OpKind

\* An executor, up to its outcome.
LEMMA ExecutorSteps ==
  ASSUME IInv, NEW t \in Thread,
         Bind(t) \/ BeginRunExecution(t) \/ Decide(t) \/ NoticeAbort(t) \/ WriteOutcome(t)
  PROVE  IInv'
<1> USE ThreadAssumption DEF IInv, ExecState, SameButLeft
<1>T. Typed  OBVIOUS
<1>N. \A j \in OpKind :
        /\ StartsRun(j) \/ StartsCommand(j) <=> Names(j)
        /\ ~(StartsRun(j) /\ StartsCommand(j))
  BY DEF OpKind, StartsRun, StartsCommand, Names
<1>1. CASE Bind(t)
  <2>1. UNCHANGED <<tenant, space, thread, run, command, aborted, proc, op, deletion, recovery, recover>>
    BY <1>1, <1>T DEF Bind, Goto, rows, execution, restartVars
  <2>2. /\ exec[t] = "registered" /\ exec'[t] \in {"bound", "cleanup"}
        /\ exec' \in [Thread -> ExecState]
        /\ \A u \in Thread : u # t => exec'[u] = exec[u]
    BY <1>1, <1>T DEF Typed, Goto, Bind
  <2>3. Typed'  BY <2>1, <2>2 DEF Typed
  <2>4. AbortedThere'  BY <2>1, <2>2 DEF AbortedThere, Typed
  <2>5. BlankBefore'  BY <2>1, <2>2 DEF BlankBefore
  <2>6. ExecutorsStop'  BY <2>1, <2>2 DEF ExecutorsStop, TargetsNotActive, Stopping, Shape,
       Works
  <2>7. ExecutorsThere'  BY <2>1, <2>2 DEF ExecutorsThere, Shape
  <2>8. SpaceListed'  BY <2>1, <2>2, <1>N DEF SpaceListed, BlankBefore, Shape
  <2>9. DeletedNotWorked'  BY <2>1, <2>2 DEF DeletedNotWorked, ExecutorsStop, SpaceListed,
       DeletedHasNoRows, BlankBefore, Shape, Works
  <2>10. /\ Awaited' /\ Shape' /\ DeletedHasNoRows' /\ OperationsAwaited' /\ TargetsFree'
         /\ TargetsNotActive' /\ CommandWritten' /\ ProcessHasRow' /\ ProcessesStop'
         /\ ProcessesKilled'
    BY <2>1 DEF Awaited, Shape, DeletedHasNoRows, OperationsAwaited, TargetsFree,
       TargetsNotActive, CommandWritten, ProcessHasRow, ProcessesStop, ProcessesKilled, Stopping
  <2> QED  BY <2>3, <2>4, <2>5, <2>6, <2>7, <2>8, <2>9, <2>10
<1>2. CASE BeginRunExecution(t)
  <2>1. UNCHANGED <<tenant, space, thread, run, command, aborted, proc, op, deletion, recovery, recover>>
    BY <1>2, <1>T DEF BeginRunExecution, Goto, rows, execution, restartVars
  <2>2. /\ exec[t] = "bound" /\ exec'[t] \in {"working", "cleanup"}
        /\ exec' \in [Thread -> ExecState]
        /\ \A u \in Thread : u # t => exec'[u] = exec[u]
    BY <1>2, <1>T DEF Typed, Goto, BeginRunExecution
  <2>3. exec'[t] = "working" => run[t] = "active"
    BY <1>2, <1>T DEF Typed, Goto, BeginRunExecution
  <2>4. Typed'  BY <2>1, <2>2, <2>3 DEF Typed
  <2>5. AbortedThere'  BY <2>1, <2>2, <2>3 DEF AbortedThere, Typed
  <2>6. BlankBefore'  BY <2>1, <2>2, <2>3 DEF BlankBefore
  <2>7. ExecutorsStop'  BY <2>1, <2>2, <2>3 DEF ExecutorsStop, TargetsNotActive, Stopping,
       Shape, Works
  <2>8. ExecutorsThere'  BY <2>1, <2>2, <2>3 DEF ExecutorsThere, Shape
  <2>9. SpaceListed'  BY <2>1, <2>2, <2>3, <1>N DEF SpaceListed, BlankBefore, Shape
  <2>10. DeletedNotWorked'  BY <2>1, <2>2, <2>3 DEF DeletedNotWorked, ExecutorsStop,
       SpaceListed, DeletedHasNoRows, BlankBefore, Shape, Works
  <2>11. /\ Awaited' /\ Shape' /\ DeletedHasNoRows' /\ OperationsAwaited' /\ TargetsFree'
         /\ TargetsNotActive' /\ CommandWritten' /\ ProcessHasRow' /\ ProcessesStop'
         /\ ProcessesKilled'
    BY <2>1 DEF Awaited, Shape, DeletedHasNoRows, OperationsAwaited, TargetsFree,
       TargetsNotActive, CommandWritten, ProcessHasRow, ProcessesStop, ProcessesKilled, Stopping
  <2> QED  BY <2>4, <2>5, <2>6, <2>7, <2>8, <2>9, <2>10, <2>11
<1>3. CASE Decide(t) \/ NoticeAbort(t)
  <2>1. UNCHANGED <<tenant, space, thread, run, command, aborted, proc, op, deletion, recovery, recover>>
    BY <1>3, <1>T DEF Decide, NoticeAbort, Goto, rows, execution, restartVars
  <2>2. /\ exec[t] = "working" /\ exec'[t] \in {"done", "asks"}
        /\ exec' \in [Thread -> ExecState]
        /\ \A u \in Thread : u # t => exec'[u] = exec[u]
    BY <1>3, <1>T DEF Typed, Goto, Decide, NoticeAbort
  <2>3. Typed'  BY <2>1, <2>2 DEF Typed
  <2>4. AbortedThere'  BY <2>1, <2>2 DEF AbortedThere, Typed
  <2>5. BlankBefore'  BY <2>1, <2>2 DEF BlankBefore
  <2>6. ExecutorsStop'  BY <2>1, <2>2 DEF ExecutorsStop, TargetsNotActive, Stopping, Shape,
       Works
  <2>7. ExecutorsThere'  BY <2>1, <2>2 DEF ExecutorsThere, Shape
  <2>8. SpaceListed'  BY <2>1, <2>2, <1>N DEF SpaceListed, BlankBefore, Shape
  <2>9. DeletedNotWorked'  BY <2>1, <2>2 DEF DeletedNotWorked, ExecutorsStop, SpaceListed,
       DeletedHasNoRows, BlankBefore, Shape, Works
  <2>10. /\ Awaited' /\ Shape' /\ DeletedHasNoRows' /\ OperationsAwaited' /\ TargetsFree'
         /\ TargetsNotActive' /\ CommandWritten' /\ ProcessHasRow' /\ ProcessesStop'
         /\ ProcessesKilled'
    BY <2>1 DEF Awaited, Shape, DeletedHasNoRows, OperationsAwaited, TargetsFree,
       TargetsNotActive, CommandWritten, ProcessHasRow, ProcessesStop, ProcessesKilled, Stopping
  <2> QED  BY <2>3, <2>4, <2>5, <2>6, <2>7, <2>8, <2>9, <2>10
<1>4. CASE WriteOutcome(t)
  <2>1. UNCHANGED <<tenant, space, thread, command, aborted, proc, op, deletion, recovery, recover>>
    BY <1>4, <1>T DEF WriteOutcome, Goto, rows, execution, restartVars
  <2>2. /\ exec[t] \in {"done", "asks"} /\ exec'[t] = "cleanup"
        /\ exec' \in [Thread -> ExecState]
        /\ \A u \in Thread : u # t => exec'[u] = exec[u]
    BY <1>4, <1>T DEF Typed, Goto, WriteOutcome
  <2>3. /\ run' \in [Thread -> {"none", "active", "waiting", "ended"}]
        /\ \A u \in Thread : u # t => run'[u] = run[u]
        /\ run'[t] = run[t] \/ (thread[t] = "live" /\ run'[t] \in {"waiting", "ended"})
    BY <1>4, <1>T DEF Typed, WriteOutcome
  <2>4. Typed'  BY <2>1, <2>2, <2>3 DEF Typed
  <2>5. AbortedThere'  BY <2>1, <2>2, <2>3 DEF AbortedThere, Typed
  <2>6. BlankBefore'  BY <2>1, <2>2, <2>3 DEF BlankBefore
  <2>7. DeletedHasNoRows'  BY <2>1, <2>2, <2>3 DEF DeletedHasNoRows
  <2>8. TargetsNotActive'  BY <2>1, <2>2, <2>3 DEF TargetsNotActive, TargetsFree, Shape,
       Stopping
  <2>9. ExecutorsStop'  BY <2>1, <2>2, <2>3 DEF ExecutorsStop, TargetsNotActive, Stopping,
       Shape, Works
  <2>10. ExecutorsThere'  BY <2>1, <2>2, <2>3 DEF ExecutorsThere, Shape
  <2>11. SpaceListed'  BY <2>1, <2>2, <2>3, <1>N DEF SpaceListed, BlankBefore, Shape
  <2>12. DeletedNotWorked'  BY <2>1, <2>2, <2>3 DEF DeletedNotWorked, ExecutorsStop,
       SpaceListed, DeletedHasNoRows, BlankBefore, Shape, Works
  <2>13. /\ Awaited' /\ Shape' /\ OperationsAwaited' /\ TargetsFree' /\ CommandWritten'
         /\ ProcessHasRow' /\ ProcessesStop' /\ ProcessesKilled'
    BY <2>1 DEF Awaited, Shape, OperationsAwaited, TargetsFree, CommandWritten, ProcessHasRow,
       ProcessesStop, ProcessesKilled, Stopping
  <2> QED  BY <2>4, <2>5, <2>6, <2>7, <2>8, <2>9, <2>10, <2>11, <2>12, <2>13
<1> QED  BY <1>1, <1>2, <1>3, <1>4

\* The ends of executors and processes.
LEMMA EndSteps ==
  ASSUME IInv, NEW t \in Thread, FinishExecution(t) \/ ProcessEnds(t)
  PROVE  IInv'
<1> USE ThreadAssumption DEF IInv, ExecState, SameButLeft
<1>T. Typed  OBVIOUS
<1>N. \A j \in OpKind :
        /\ StartsRun(j) \/ StartsCommand(j) <=> Names(j)
        /\ ~(StartsRun(j) /\ StartsCommand(j))
  BY DEF OpKind, StartsRun, StartsCommand, Names
<1>1. CASE FinishExecution(t)
  <2>1. UNCHANGED <<tenant, space, thread, run, command, proc, op, recovery, recover>>
    BY <1>1, <1>T DEF FinishExecution, rows, execution, restartVars
  <2>2. /\ deletion' \in [Deletion -> DeletionState]
        /\ \A d \in Deletion :
           /\ SameButLeft(d)
           /\ deletion'[d].left \subseteq deletion[d].left
           /\ deletion[d].stage = "executors" => t \notin deletion'[d].left
           /\ \A y \in deletion[d].left \ deletion'[d].left :
                deletion[d].stage = "executors" /\ y = t
    BY <1>1, <1>T, Resolved DEF FinishExecution
  <2>3. /\ exec' \in [Thread -> ExecState]
        /\ \A u \in Thread : u # t => exec'[u] = exec[u]
        /\ exec'[t] = "none" /\ aborted' = aborted \ {t}
    BY <1>1, <1>T DEF Typed, FinishExecution
  <2>4. Typed'  BY <2>1, <2>2, <2>3 DEF Typed
  <2>5. AbortedThere'  BY <2>1, <2>2, <2>3 DEF AbortedThere, Typed
  <2>6. Awaited'  BY <2>1, <2>2, <2>3 DEF Awaited
  <2>7. Shape'  BY <2>1, <2>2, <2>3 DEF Shape
  <2>8. BlankBefore'  BY <2>1, <2>3 DEF BlankBefore
  <2>9. OperationsAwaited'  BY <2>1, <2>2, <2>3 DEF OperationsAwaited, Shape
  <2>10. TargetsFree'  BY <2>1, <2>2, <2>3 DEF TargetsFree, OperationsAwaited, Shape, Stopping
  <2>11. TargetsNotActive'  BY <2>1, <2>2, <2>3 DEF TargetsNotActive, TargetsFree, Shape,
       Stopping
  <2>12. ProcessesStop'  BY <2>1, <2>2, <2>3 DEF ProcessesStop, TargetsFree, Stopping, Shape
  <2>13. ProcessesKilled'  BY <2>1, <2>2, <2>3 DEF ProcessesKilled, TargetsFree, Stopping, Shape
  <2>14. ExecutorsStop'  BY <2>1, <2>2, <2>3 DEF ExecutorsStop, TargetsNotActive, Stopping,
       Shape, Works
  <2>15. ExecutorsThere'  BY <2>1, <2>2, <2>3 DEF ExecutorsThere, Shape
  <2>16. SpaceListed'  BY <2>1, <2>2, <2>3, <1>N DEF SpaceListed, BlankBefore, Shape
  <2>17. DeletedNotWorked'  BY <2>1, <2>2, <2>3 DEF DeletedNotWorked, ExecutorsStop,
       SpaceListed, DeletedHasNoRows, BlankBefore, Shape, Works
  <2>18. /\ DeletedHasNoRows' /\ CommandWritten' /\ ProcessHasRow'
    BY <2>1 DEF DeletedHasNoRows, CommandWritten, ProcessHasRow
  <2> QED  BY <2>4, <2>5, <2>6, <2>7, <2>8, <2>9, <2>10, <2>11, <2>12, <2>13, <2>14, <2>15,
       <2>16, <2>17, <2>18
<1>2. CASE ProcessEnds(t)
  <2>1. UNCHANGED <<tenant, space, thread, run, exec, aborted, op, recovery, recover>>
    BY <1>2, <1>T DEF ProcessEnds, rows, execution, restartVars
  <2>2. /\ deletion' \in [Deletion -> DeletionState]
        /\ \A d \in Deletion :
           /\ SameButLeft(d)
           /\ deletion'[d].left \subseteq deletion[d].left
           /\ deletion[d].stage = "processes" => t \notin deletion'[d].left
           /\ \A y \in deletion[d].left \ deletion'[d].left :
                deletion[d].stage = "processes" /\ y = t
    BY <1>2, <1>T, Resolved DEF ProcessEnds
  <2>3. /\ proc[t] # "none"
        /\ proc' \in [Thread -> {"none", "live", "killed"}]
        /\ \A u \in Thread : u # t => proc'[u] = proc[u]
        /\ proc'[t] = "none"
        /\ command' \in [Thread -> {"none", "live", "ended"}]
        /\ \A u \in Thread : u # t => command'[u] = command[u]
        /\ command'[t] = IF command[t] = "live" THEN "ended" ELSE command[t]
    BY <1>2, <1>T DEF Typed, ProcessEnds
  <2>4. Typed'  BY <2>1, <2>2, <2>3 DEF Typed
  <2>5. Awaited'  BY <2>1, <2>2, <2>3 DEF Awaited
  <2>6. Shape'  BY <2>1, <2>2, <2>3 DEF Shape
  <2>7. BlankBefore'  BY <2>1, <2>3 DEF BlankBefore
  <2>8. DeletedHasNoRows'  BY <2>1, <2>3 DEF DeletedHasNoRows
  <2>9. OperationsAwaited'  BY <2>1, <2>2, <2>3 DEF OperationsAwaited, Shape
  <2>10. TargetsFree'  BY <2>1, <2>2, <2>3 DEF TargetsFree, OperationsAwaited, Shape, Stopping
  <2>11. TargetsNotActive'  BY <2>1, <2>2, <2>3 DEF TargetsNotActive, TargetsFree, Shape,
       Stopping
  <2>12. CommandWritten'  BY <2>1, <2>3 DEF CommandWritten
  <2>13. ProcessHasRow'  BY <2>1, <2>3 DEF ProcessHasRow, CommandWritten
  <2>14. ProcessesStop'  BY <2>1, <2>2, <2>3 DEF ProcessesStop, TargetsFree, Stopping, Shape
  <2>15. ProcessesKilled'  BY <2>1, <2>2, <2>3 DEF ProcessesKilled, TargetsFree, Stopping, Shape
  <2>16. ExecutorsStop'  BY <2>1, <2>2, <2>3 DEF ExecutorsStop, TargetsNotActive, Stopping,
       Shape, Works
  <2>17. ExecutorsThere'  BY <2>1, <2>2, <2>3 DEF ExecutorsThere, Shape
  <2>18. SpaceListed'  BY <2>1, <2>2, <2>3, <1>N DEF SpaceListed, BlankBefore, Shape
  <2>19. /\ AbortedThere' /\ DeletedNotWorked'
    BY <2>1 DEF AbortedThere, DeletedNotWorked, Works
  <2> QED  BY <2>4, <2>5, <2>6, <2>7, <2>8, <2>9, <2>10, <2>11, <2>12, <2>13, <2>14, <2>15,
       <2>16, <2>17, <2>18, <2>19
<1> QED  BY <1>1, <1>2

\* One deletion changes.
LEMMA DeletionSet ==
  ASSUME Typed, NEW d \in Deletion, NEW del \in DeletionState, deletion' = [deletion EXCEPT ![d] = del]
  PROVE  /\ deletion' \in [Deletion -> DeletionState] /\ deletion'[d] = del
         /\ \A e \in Deletion : e # d => deletion'[e] = deletion[e]
<1> QED  BY DEF Typed

\* What a deletion awaits when it has its threads.
LEMMA AwaitState ==
  ASSUME Typed, NEW del \in DeletionState, del.threadIds = del.targets, del.targets \subseteq Thread
  PROVE  /\ Await(del) \in DeletionState
         /\ Await(del).stage = "operations" /\ Await(del).kind = del.kind
         /\ Await(del).targets = del.targets /\ Await(del).threadIds = del.targets
         /\ Await(del).runs = del.runs /\ Await(del).left \subseteq OpKind \X Thread
         /\ \A k \in OpKind, t \in Thread : <<k, t>> \in Await(del).left => op[<<k, t>>] # "none"
         /\ \A k \in OpKind, t \in del.targets :
              Names(k) /\ op[<<k, t>>] # "none" => <<k, t>> \in Await(del).left
<1> DEFINE left == {o \in InFlight : Blocks(del, OpScope(o))}
<1>1. left \subseteq OpKind \X Thread  BY DEF InFlight
<1>2. left \in SUBSET (Thread \cup OpKind \X Thread)  BY <1>1
<1>3. \A k \in OpKind, t \in Thread : <<k, t>> \in left => op[<<k, t>>] # "none"  BY DEF InFlight
<1>4. ASSUME NEW k \in OpKind, NEW t \in del.targets, Names(k), op[<<k, t>>] # "none"
      PROVE  <<k, t>> \in left
  <2>1. <<k, t>> \in InFlight  BY <1>4 DEF InFlight
  <2>2. OpScope(<<k, t>>).thread = t  BY <1>4, ScopeOf
  <2> QED  BY <2>1, <2>2 DEF Blocks
<1> HIDE DEF left
<1>5. Await(del) = [del EXCEPT !.stage = "operations", !.left = left]  BY DEF Await, left
<1> QED  BY <1>1, <1>2, <1>3, <1>4, <1>5 DEF DeletionState, Stage

\* What a deletion finds when it begins and lists the threads.
LEMMA BeginSteps ==
  ASSUME IInv, NEW d \in Deletion,
         ListThreads(d) \/ \E kind \in Kind, t \in Thread : Begin(d, kind, t)
  PROVE  IInv'
<1> USE ThreadAssumption DEF IInv, ExecState, SameButLeft
<1>T. Typed  OBVIOUS
<1>N. \A j \in OpKind :
        /\ StartsRun(j) \/ StartsCommand(j) <=> Names(j)
        /\ ~(StartsRun(j) /\ StartsCommand(j))
  BY DEF OpKind, StartsRun, StartsCommand, Names
<1>D. deletion[d] \in DeletionState  BY <1>T DEF Typed
<1>1. CASE ListThreads(d)
  <2> DEFINE ts == {t \in Thread : thread[t] = "live"}
  <2> DEFINE del == [deletion[d] EXCEPT !.threadIds = ts, !.targets = ts]
  <2>D. del \in DeletionState  BY <1>1, <1>D, <1>T DEF DeletionState
  <2>E. deletion' = [deletion EXCEPT ![d] = Await(del)]  BY <1>1 DEF ListThreads, SetDeletion
  <2>A. /\ del.threadIds = del.targets /\ del.targets = ts
        /\ del.kind = deletion[d].kind /\ del.runs = deletion[d].runs
    BY <1>D DEF DeletionState
  <2>R. deletion[d].runs = {}  BY <1>1 DEF ListThreads, Shape
  <2>B. ts \subseteq Thread /\ \A t \in Thread : t \in ts <=> thread[t] = "live"  OBVIOUS
  <2> HIDE DEF del, ts
  <2>G. /\ deletion' \in [Deletion -> DeletionState] /\ deletion'[d] = Await(del)
        /\ \A e \in Deletion : e # d => deletion'[e] = deletion[e]
    BY <1>T, <2>D, <2>E, <2>A, <2>B, DeletionSet, AwaitState
  <2>1. UNCHANGED <<tenant, space, thread, run, command, exec, aborted, proc, op, recovery, recover>>
    BY <1>1, <1>T DEF ListThreads, SetDeletion, rows, execution, restartVars
  <2>2. /\ deletion' \in [Deletion -> DeletionState]
        /\ \A e \in Deletion : e # d => deletion'[e] = deletion[e]
        /\ deletion'[d].stage = "operations" /\ deletion'[d].kind = deletion[d].kind
        /\ deletion'[d].targets = ts
        /\ deletion'[d].threadIds = deletion'[d].targets
        /\ deletion'[d].runs = {}
        /\ deletion'[d].left \subseteq OpKind \X Thread
        /\ \A k \in OpKind, u \in Thread : <<k, u>> \in deletion'[d].left => op[<<k, u>>] # "none"
        /\ \A k \in OpKind, u \in deletion'[d].targets :
           Names(k) /\ op[<<k, u>>] # "none" => <<k, u>> \in deletion'[d].left
    BY <1>1, <1>T, <2>D, <2>G, <2>A, <2>B, <2>R, AwaitState
  <2>3. ts \subseteq Thread /\ \A t \in Thread : t \in ts <=> thread[t] = "live"
    BY <1>1, <1>T, <2>B
  <2>4. deletion[d].stage = "begin"  BY <1>1, <1>T DEF ListThreads
  <2>5. Typed'  BY <2>1, <2>2, <2>3, <2>4 DEF Typed
  <2>6. Awaited'  BY <2>1, <2>2, <2>3, <2>4 DEF Awaited
  <2>7. Shape'  BY <2>1, <2>2, <2>3, <2>4 DEF Shape
  <2>8. OperationsAwaited'  BY <2>1, <2>2, <2>3, <2>4 DEF OperationsAwaited, Shape
  <2>9. TargetsFree'  BY <2>1, <2>2, <2>3, <2>4 DEF TargetsFree, OperationsAwaited, Shape,
       Stopping
  <2>10. TargetsNotActive'  BY <2>1, <2>2, <2>3, <2>4 DEF TargetsNotActive, TargetsFree, Shape,
       Stopping
  <2>11. ProcessesStop'  BY <2>1, <2>2, <2>3, <2>4 DEF ProcessesStop, TargetsFree, Stopping,
       Shape
  <2>12. ProcessesKilled'  BY <2>1, <2>2, <2>3, <2>4 DEF ProcessesKilled, TargetsFree, Stopping,
       Shape
  <2>13. ExecutorsStop'  BY <2>1, <2>2, <2>3, <2>4 DEF ExecutorsStop, TargetsNotActive,
       Stopping, Shape, Works
  <2>14. ExecutorsThere'  BY <2>1, <2>2, <2>3, <2>4 DEF ExecutorsThere, Shape
  <2>15. SpaceListed'  BY <2>1, <2>2, <2>3, <2>4, <1>N DEF SpaceListed, BlankBefore, Shape
  <2>16. /\ AbortedThere' /\ BlankBefore' /\ DeletedHasNoRows' /\ CommandWritten'
         /\ ProcessHasRow' /\ DeletedNotWorked'
    BY <2>1 DEF AbortedThere, BlankBefore, DeletedHasNoRows, CommandWritten, ProcessHasRow,
       DeletedNotWorked, Works
  <2> QED  BY <2>5, <2>6, <2>7, <2>8, <2>9, <2>10, <2>11, <2>12, <2>13, <2>14, <2>15, <2>16
<1>2. ASSUME NEW kind \in Kind, NEW t \in Thread, Begin(d, kind, t), kind = "thread"
      PROVE  IInv'
  <2> DEFINE del == [NoDeletion EXCEPT !.kind = kind, !.threadIds = {t}, !.targets = {t}]
  <2>D. del \in DeletionState  BY <1>2, <1>D, <1>T DEF NoDeletion, DeletionState, Stage
  <2>E. deletion' = [deletion EXCEPT ![d] = Await(del)]  BY <1>2 DEF Begin, SetDeletion
  <2>A. /\ del.threadIds = del.targets /\ del.targets = {t} /\ del.kind = kind /\ del.runs = {}
    BY DEF NoDeletion
  <2> HIDE DEF del
  <2>G. /\ deletion' \in [Deletion -> DeletionState] /\ deletion'[d] = Await(del)
        /\ \A e \in Deletion : e # d => deletion'[e] = deletion[e]
    BY <1>T, <2>D, <2>E, <2>A, DeletionSet, AwaitState
  <2>1. UNCHANGED <<tenant, space, thread, run, command, exec, aborted, proc, op, recovery, recover>>
    BY <1>2, <1>T DEF Begin, SetDeletion, rows, execution, restartVars
  <2>2. /\ deletion' \in [Deletion -> DeletionState]
        /\ \A e \in Deletion : e # d => deletion'[e] = deletion[e]
        /\ deletion'[d].stage = "operations" /\ deletion'[d].kind = "thread"
        /\ deletion'[d].targets = {t}
        /\ deletion'[d].threadIds = deletion'[d].targets
        /\ deletion'[d].runs = {}
        /\ deletion'[d].left \subseteq OpKind \X Thread
        /\ \A k \in OpKind, u \in Thread : <<k, u>> \in deletion'[d].left => op[<<k, u>>] # "none"
        /\ \A k \in OpKind, u \in deletion'[d].targets :
           Names(k) /\ op[<<k, u>>] # "none" => <<k, u>> \in deletion'[d].left
    BY <1>2, <1>T, <2>D, <2>G, <2>A, AwaitState
  <2>3. thread[t] = "live"  BY <1>2, <1>T DEF Begin
  <2>4. Typed'  BY <2>1, <2>2, <2>3 DEF Typed
  <2>5. Awaited'  BY <2>1, <2>2, <2>3 DEF Awaited
  <2>6. Shape'  BY <2>1, <2>2, <2>3 DEF Shape
  <2>7. OperationsAwaited'  BY <2>1, <2>2, <2>3 DEF OperationsAwaited, Shape
  <2>8. TargetsFree'  BY <2>1, <2>2, <2>3 DEF TargetsFree, OperationsAwaited, Shape, Stopping
  <2>9. TargetsNotActive'  BY <2>1, <2>2, <2>3 DEF TargetsNotActive, TargetsFree, Shape,
       Stopping
  <2>10. ProcessesStop'  BY <2>1, <2>2, <2>3 DEF ProcessesStop, TargetsFree, Stopping, Shape
  <2>11. ProcessesKilled'  BY <2>1, <2>2, <2>3 DEF ProcessesKilled, TargetsFree, Stopping, Shape
  <2>12. ExecutorsStop'  BY <2>1, <2>2, <2>3 DEF ExecutorsStop, TargetsNotActive, Stopping,
       Shape, Works
  <2>13. ExecutorsThere'  BY <2>1, <2>2, <2>3 DEF ExecutorsThere, Shape
  <2>14. SpaceListed'  BY <2>1, <2>2, <2>3, <1>N DEF SpaceListed, BlankBefore, Shape
  <2>15. /\ AbortedThere' /\ BlankBefore' /\ DeletedHasNoRows' /\ CommandWritten'
         /\ ProcessHasRow' /\ DeletedNotWorked'
    BY <2>1 DEF AbortedThere, BlankBefore, DeletedHasNoRows, CommandWritten, ProcessHasRow,
       DeletedNotWorked, Works
  <2> QED  BY <2>4, <2>5, <2>6, <2>7, <2>8, <2>9, <2>10, <2>11, <2>12, <2>13, <2>14, <2>15
<1>3. ASSUME NEW kind \in Kind, NEW t \in Thread, Begin(d, kind, t), kind # "thread"
      PROVE  IInv'
  <2> DEFINE del == [NoDeletion EXCEPT !.stage = "begin", !.kind = kind]
  <2>D. del \in DeletionState  BY <1>3, <1>D, <1>T DEF NoDeletion, DeletionState, Stage
  <2>E. deletion' = [deletion EXCEPT ![d] = del]  BY <1>3 DEF Begin, SetDeletion
  <2>A. /\ del.stage = "begin" /\ del.targets = {} /\ del.threadIds = {} /\ del.runs = {}
        /\ del.left = {}
    BY DEF NoDeletion
  <2> HIDE DEF del
  <2>1. UNCHANGED <<tenant, space, thread, run, command, exec, aborted, proc, op, recovery, recover>>
    BY <1>3, <1>T DEF Begin, SetDeletion, rows, execution, restartVars
  <2>2. /\ deletion' \in [Deletion -> DeletionState]
        /\ \A e \in Deletion : e # d => deletion'[e] = deletion[e]
        /\ deletion'[d].stage = "begin"
        /\ deletion'[d].targets = {}
        /\ deletion'[d].threadIds = {} /\ deletion'[d].runs = {} /\ deletion'[d].left = {}
    BY <1>3, <1>T, <2>D, <2>E, <2>A, DeletionSet
  <2>3. Typed'  BY <2>1, <2>2 DEF Typed
  <2>4. Awaited'  BY <2>1, <2>2 DEF Awaited
  <2>5. Shape'  BY <2>1, <2>2 DEF Shape
  <2>6. OperationsAwaited'  BY <2>1, <2>2 DEF OperationsAwaited, Shape
  <2>7. TargetsFree'  BY <2>1, <2>2 DEF TargetsFree, OperationsAwaited, Shape, Stopping
  <2>8. TargetsNotActive'  BY <2>1, <2>2 DEF TargetsNotActive, TargetsFree, Shape, Stopping
  <2>9. ProcessesStop'  BY <2>1, <2>2 DEF ProcessesStop, TargetsFree, Stopping, Shape
  <2>10. ProcessesKilled'  BY <2>1, <2>2 DEF ProcessesKilled, TargetsFree, Stopping, Shape
  <2>11. ExecutorsStop'  BY <2>1, <2>2 DEF ExecutorsStop, TargetsNotActive, Stopping, Shape,
       Works
  <2>12. ExecutorsThere'  BY <2>1, <2>2 DEF ExecutorsThere, Shape
  <2>13. SpaceListed'  BY <2>1, <2>2, <1>N DEF SpaceListed, BlankBefore, Shape
  <2>14. /\ AbortedThere' /\ BlankBefore' /\ DeletedHasNoRows' /\ CommandWritten'
         /\ ProcessHasRow' /\ DeletedNotWorked'
    BY <2>1 DEF AbortedThere, BlankBefore, DeletedHasNoRows, CommandWritten, ProcessHasRow,
       DeletedNotWorked, Works
  <2> QED  BY <2>3, <2>4, <2>5, <2>6, <2>7, <2>8, <2>9, <2>10, <2>11, <2>12, <2>13, <2>14
<1> QED  BY <1>1, <1>2, <1>3

\* A deletion cancels, stops, waits and deletes.
LEMMA DeletionSteps ==
  ASSUME IInv, NEW d \in Deletion,
         CancelRuns(d) \/ Stop(d) \/ CancelCommands(d) \/ ExecutorsEnd(d) \/ DeleteRows(d)
  PROVE  IInv'
<1> USE ThreadAssumption DEF IInv, ExecState, SameButLeft
<1>T. Typed  OBVIOUS
<1>N. \A j \in OpKind :
        /\ StartsRun(j) \/ StartsCommand(j) <=> Names(j)
        /\ ~(StartsRun(j) /\ StartsCommand(j))
  BY DEF OpKind, StartsRun, StartsCommand, Names
<1>D. deletion[d] \in DeletionState  BY <1>T DEF Typed
<1>S. deletion[d].targets \subseteq Thread /\ deletion[d].runs \subseteq deletion[d].targets
  BY DEF Shape
<1>1. CASE CancelRuns(d)
  <2> DEFINE del == [deletion[d] EXCEPT !.stage = "canceled",
                                    !.runs = {t \in deletion[d].targets : run[t] \in {"active", "waiting"}}]
  <2>D. del \in DeletionState  BY <1>D, <1>S DEF DeletionState, Stage
  <2>E. deletion' = [deletion EXCEPT ![d] = del]  BY <1>1 DEF CancelRuns, SetDeletion
  <2>1. UNCHANGED <<tenant, space, thread, command, exec, aborted, proc, op, recovery, recover>>
    BY <1>1, <1>T DEF CancelRuns, SetDeletion, rows, execution, restartVars
  <2>2. /\ deletion' \in [Deletion -> DeletionState]
        /\ \A e \in Deletion : e # d => deletion'[e] = deletion[e]
        /\ deletion'[d].stage = "canceled"
        /\ deletion'[d].kind = deletion[d].kind
        /\ deletion'[d].targets = deletion[d].targets
        /\ deletion'[d].threadIds = deletion[d].threadIds
        /\ deletion'[d].runs \subseteq deletion[d].targets
    BY <1>1, <1>T, <1>D, <2>D, <2>E, DeletionSet DEF DeletionState
  <2>3. deletion[d].stage = "operations" /\ deletion[d].left = {}  BY <1>1, <1>T DEF CancelRuns
  <2>4. /\ run' \in [Thread -> {"none", "active", "waiting", "ended"}]
        /\ \A t \in Thread : run'[t] = run[t] \/ (run'[t] = "ended" /\ run[t] \in {"active", "waiting"})
        /\ \A t \in deletion[d].targets : run'[t] # "active"
    BY <1>1, <1>T, <1>S DEF CancelRuns, Typed
  <2>5. Typed'  BY <2>1, <2>2, <2>3, <2>4 DEF Typed
  <2>6. Awaited'  BY <2>1, <2>2, <2>3, <2>4 DEF Awaited
  <2>7. Shape'  BY <2>1, <2>2, <2>3, <2>4 DEF Shape
  <2>8. BlankBefore'  BY <2>1, <2>3, <2>4 DEF BlankBefore
  <2>9. DeletedHasNoRows'  BY <2>1, <2>3, <2>4 DEF DeletedHasNoRows
  <2>10. OperationsAwaited'  BY <2>1, <2>2, <2>3, <2>4 DEF OperationsAwaited, Shape
  <2>11. TargetsFree'  BY <2>1, <2>2, <2>3, <2>4 DEF TargetsFree, OperationsAwaited, Shape,
       Stopping
  <2>12. TargetsNotActive'  BY <2>1, <2>2, <2>3, <2>4 DEF TargetsNotActive, TargetsFree, Shape,
       Stopping
  <2>13. ProcessesStop'  BY <2>1, <2>2, <2>3, <2>4 DEF ProcessesStop, TargetsFree, Stopping,
       Shape
  <2>14. ProcessesKilled'  BY <2>1, <2>2, <2>3, <2>4 DEF ProcessesKilled, TargetsFree, Stopping,
       Shape
  <2>15. ExecutorsStop'  BY <2>1, <2>2, <2>3, <2>4 DEF ExecutorsStop, TargetsNotActive,
       Stopping, Shape, Works
  <2>16. ExecutorsThere'  BY <2>1, <2>2, <2>3, <2>4 DEF ExecutorsThere, Shape
  <2>17. SpaceListed'  BY <2>1, <2>2, <2>3, <2>4, <1>N DEF SpaceListed, BlankBefore, Shape
  <2>18. /\ AbortedThere' /\ CommandWritten' /\ ProcessHasRow' /\ DeletedNotWorked'
    BY <2>1 DEF AbortedThere, CommandWritten, ProcessHasRow, DeletedNotWorked, Works
  <2> QED  BY <2>5, <2>6, <2>7, <2>8, <2>9, <2>10, <2>11, <2>12, <2>13, <2>14, <2>15, <2>16,
       <2>17, <2>18
<1>2. CASE Stop(d)
  <2> DEFINE del == [deletion[d] EXCEPT !.stage = "processes",
                                    !.left = {t \in deletion[d].targets : proc[t] # "none"},
                                    !.runs = @ \cup {t \in deletion[d].targets :
                                                       exec[t] \notin {"none", "registered"}}]
  <2>D. del \in DeletionState  BY <1>D, <1>S DEF DeletionState, Stage
  <2>E. deletion' = [deletion EXCEPT ![d] = del]  BY <1>2 DEF Stop, SetDeletion
  <2>1. UNCHANGED <<tenant, space, thread, run, command, exec, op, recovery, recover>>
    BY <1>2, <1>T DEF Stop, SetDeletion, rows, execution, restartVars
  <2>2. /\ deletion' \in [Deletion -> DeletionState]
        /\ \A e \in Deletion : e # d => deletion'[e] = deletion[e]
        /\ deletion'[d].stage = "processes"
        /\ deletion'[d].kind = deletion[d].kind
        /\ deletion'[d].targets = deletion[d].targets
        /\ deletion'[d].threadIds = deletion[d].threadIds
        /\ deletion'[d].left = {t \in deletion[d].targets : proc[t] # "none"}
        /\ deletion'[d].runs = deletion[d].runs
             \cup {t \in deletion[d].targets : exec[t] \notin {"none", "registered"}}
    BY <1>2, <1>T, <1>D, <2>D, <2>E, DeletionSet DEF DeletionState
  <2>3. deletion[d].stage = "canceled"  BY <1>2, <1>T DEF Stop
  <2>4. /\ aborted \subseteq aborted' /\ aborted' \subseteq Thread
        /\ \A t \in aborted' \ aborted : exec[t] # "none"
        /\ \A t \in deletion[d].targets : exec[t] \notin {"none", "registered"} => t \in aborted'
    BY <1>2, <1>T, <1>S DEF Stop, Typed
  <2>5. /\ proc' \in [Thread -> {"none", "live", "killed"}]
        /\ \A t \in Thread : proc'[t] = proc[t] \/ (proc'[t] = "killed" /\ proc[t] # "none")
        /\ \A t \in deletion[d].targets : proc[t] # "none" => proc'[t] = "killed"
    BY <1>2, <1>T, <1>S DEF Stop, Typed
  <2>6. Typed'  BY <2>1, <2>2, <2>3, <2>4, <2>5 DEF Typed
  <2>7. AbortedThere'  BY <2>1, <2>2, <2>3, <2>4, <2>5 DEF AbortedThere, Typed
  <2>8. Awaited'  BY <2>1, <2>2, <2>3, <2>4, <2>5 DEF Awaited
  <2>9. Shape'  BY <2>1, <2>2, <2>3, <2>4, <2>5 DEF Shape
  <2>10. BlankBefore'  BY <2>1, <2>3, <2>4, <2>5 DEF BlankBefore
  <2>11. OperationsAwaited'  BY <2>1, <2>2, <2>3, <2>4, <2>5 DEF OperationsAwaited, Shape
  <2>12. TargetsFree'  BY <2>1, <2>2, <2>3, <2>4, <2>5 DEF TargetsFree, OperationsAwaited,
       Shape, Stopping
  <2>13. TargetsNotActive'  BY <2>1, <2>2, <2>3, <2>4, <2>5 DEF TargetsNotActive, TargetsFree,
       Shape, Stopping
  <2>14. CommandWritten'  BY <2>1, <2>3, <2>4, <2>5 DEF CommandWritten
  <2>15. ProcessHasRow'  BY <2>1, <2>3, <2>4, <2>5 DEF ProcessHasRow, CommandWritten
  <2>16. ProcessesStop'  BY <2>1, <2>2, <2>3, <2>4, <2>5 DEF ProcessesStop, TargetsFree,
       Stopping, Shape
  <2>17. ProcessesKilled'  BY <2>1, <2>2, <2>3, <2>4, <2>5 DEF ProcessesKilled, TargetsFree,
       Stopping, Shape
  <2>18. ExecutorsStop'  BY <2>1, <2>2, <2>3, <2>4, <2>5 DEF ExecutorsStop, TargetsNotActive,
       Stopping, Shape, Works
  <2>19. ExecutorsThere'  BY <2>1, <2>2, <2>3, <2>4, <2>5 DEF ExecutorsThere, Shape
  <2>20. SpaceListed'  BY <2>1, <2>2, <2>3, <2>4, <2>5, <1>N DEF SpaceListed, BlankBefore, Shape
  <2>21. /\ DeletedHasNoRows' /\ DeletedNotWorked'
    BY <2>1 DEF DeletedHasNoRows, DeletedNotWorked, Works
  <2> QED  BY <2>6, <2>7, <2>8, <2>9, <2>10, <2>11, <2>12, <2>13, <2>14, <2>15, <2>16, <2>17,
       <2>18, <2>19, <2>20, <2>21
<1>3. CASE CancelCommands(d)
  <2> DEFINE del == [deletion[d] EXCEPT !.stage = "executors",
                                    !.left = {t \in deletion[d].runs : exec[t] # "none"}]
  <2>D. del \in DeletionState  BY <1>D, <1>S DEF DeletionState, Stage
  <2>E. deletion' = [deletion EXCEPT ![d] = del]  BY <1>3 DEF CancelCommands, SetDeletion
  <2>1. UNCHANGED <<tenant, space, thread, run, exec, aborted, proc, op, recovery, recover>>
    BY <1>3, <1>T DEF CancelCommands, SetDeletion, rows, execution, restartVars
  <2>2. /\ deletion' \in [Deletion -> DeletionState]
        /\ \A e \in Deletion : e # d => deletion'[e] = deletion[e]
        /\ deletion'[d].stage = "executors"
        /\ deletion'[d].kind = deletion[d].kind
        /\ deletion'[d].targets = deletion[d].targets
        /\ deletion'[d].threadIds = deletion[d].threadIds
        /\ deletion'[d].runs = deletion[d].runs
        /\ deletion'[d].left = {t \in deletion[d].runs : exec[t] # "none"}
    BY <1>3, <1>T, <1>D, <2>D, <2>E, DeletionSet DEF DeletionState
  <2>3. deletion[d].stage = "processes" /\ deletion[d].left = {}
    BY <1>3, <1>T DEF CancelCommands
  <2>4. /\ command' \in [Thread -> {"none", "live", "ended"}]
        /\ \A t \in Thread \ deletion[d].targets : command'[t] = command[t]
        /\ \A t \in Thread : command'[t] = command[t] \/ (command[t] = "live" /\ command'[t] = "ended")
    BY <1>3, <1>T, <1>S DEF CancelCommands, Typed
  <2>5. Typed'  BY <2>1, <2>2, <2>3, <2>4 DEF Typed
  <2>6. Awaited'  BY <2>1, <2>2, <2>3, <2>4 DEF Awaited
  <2>7. Shape'  BY <2>1, <2>2, <2>3, <2>4 DEF Shape
  <2>8. BlankBefore'  BY <2>1, <2>3, <2>4 DEF BlankBefore
  <2>9. DeletedHasNoRows'  BY <2>1, <2>3, <2>4 DEF DeletedHasNoRows
  <2>10. OperationsAwaited'  BY <2>1, <2>2, <2>3, <2>4 DEF OperationsAwaited, Shape
  <2>11. TargetsFree'  BY <2>1, <2>2, <2>3, <2>4 DEF TargetsFree, OperationsAwaited, Shape,
       Stopping
  <2>12. TargetsNotActive'  BY <2>1, <2>2, <2>3, <2>4 DEF TargetsNotActive, TargetsFree, Shape,
       Stopping
  <2>13. CommandWritten'  BY <2>1, <2>3, <2>4, <1>N DEF CommandWritten, TargetsFree, Stopping
  <2>14. ProcessHasRow'  BY <2>1, <2>3, <2>4 DEF ProcessHasRow, CommandWritten, ProcessesStop
  <2>15. ProcessesStop'  BY <2>1, <2>2, <2>3, <2>4 DEF ProcessesStop, TargetsFree, Stopping,
       Shape
  <2>16. ProcessesKilled'  BY <2>1, <2>2, <2>3, <2>4 DEF ProcessesKilled, TargetsFree, Stopping,
       Shape
  <2>17. ExecutorsStop'  BY <2>1, <2>2, <2>3, <2>4 DEF ExecutorsStop, TargetsNotActive,
       Stopping, Shape, Works
  <2>18. ExecutorsThere'  BY <2>1, <2>2, <2>3, <2>4 DEF ExecutorsThere, Shape
  <2>19. SpaceListed'  BY <2>1, <2>2, <2>3, <2>4, <1>N DEF SpaceListed, BlankBefore, Shape
  <2>20. /\ AbortedThere' /\ DeletedNotWorked'
    BY <2>1 DEF AbortedThere, DeletedNotWorked, Works
  <2> QED  BY <2>5, <2>6, <2>7, <2>8, <2>9, <2>10, <2>11, <2>12, <2>13, <2>14, <2>15, <2>16,
       <2>17, <2>18, <2>19, <2>20
<1>4. CASE ExecutorsEnd(d)
  <2> DEFINE del == [deletion[d] EXCEPT !.stage = "rows"]
  <2>D. del \in DeletionState  BY <1>D, <1>S DEF DeletionState, Stage
  <2>E. deletion' = [deletion EXCEPT ![d] = del]  BY <1>4 DEF ExecutorsEnd, SetDeletion
  <2>1. UNCHANGED <<tenant, space, thread, run, command, exec, aborted, proc, op, recovery, recover>>
    BY <1>4, <1>T DEF ExecutorsEnd, SetDeletion, rows, execution, restartVars
  <2>2. /\ deletion' \in [Deletion -> DeletionState]
        /\ \A e \in Deletion : e # d => deletion'[e] = deletion[e]
        /\ deletion'[d].stage = "rows"
        /\ deletion'[d].kind = deletion[d].kind
        /\ deletion'[d].targets = deletion[d].targets
        /\ deletion'[d].threadIds = deletion[d].threadIds
        /\ deletion'[d].runs = deletion[d].runs
        /\ deletion'[d].left = {}
    BY <1>4, <1>T, <1>D, <2>D, <2>E, DeletionSet DEF DeletionState, ExecutorsEnd
  <2>3. deletion[d].stage = "executors" /\ deletion[d].left = {}  BY <1>4, <1>T DEF ExecutorsEnd
  <2>4. Typed'  BY <2>1, <2>2, <2>3 DEF Typed
  <2>5. Awaited'  BY <2>1, <2>2, <2>3 DEF Awaited
  <2>6. Shape'  BY <2>1, <2>2, <2>3 DEF Shape
  <2>7. OperationsAwaited'  BY <2>1, <2>2, <2>3 DEF OperationsAwaited, Shape
  <2>8. TargetsFree'  BY <2>1, <2>2, <2>3 DEF TargetsFree, OperationsAwaited, Shape, Stopping
  <2>9. TargetsNotActive'  BY <2>1, <2>2, <2>3 DEF TargetsNotActive, TargetsFree, Shape,
       Stopping
  <2>10. ProcessesStop'  BY <2>1, <2>2, <2>3 DEF ProcessesStop, TargetsFree, Stopping, Shape
  <2>11. ProcessesKilled'  BY <2>1, <2>2, <2>3 DEF ProcessesKilled, TargetsFree, Stopping, Shape
  <2>12. ExecutorsStop'  BY <2>1, <2>2, <2>3 DEF ExecutorsStop, TargetsNotActive, Stopping,
       Shape, Works
  <2>13. ExecutorsThere'  BY <2>1, <2>2, <2>3 DEF ExecutorsThere, Shape
  <2>14. SpaceListed'  BY <2>1, <2>2, <2>3, <1>N DEF SpaceListed, BlankBefore, Shape
  <2>15. /\ AbortedThere' /\ BlankBefore' /\ DeletedHasNoRows' /\ CommandWritten'
         /\ ProcessHasRow' /\ DeletedNotWorked'
    BY <2>1 DEF AbortedThere, BlankBefore, DeletedHasNoRows, CommandWritten, ProcessHasRow,
       DeletedNotWorked, Works
  <2> QED  BY <2>4, <2>5, <2>6, <2>7, <2>8, <2>9, <2>10, <2>11, <2>12, <2>13, <2>14, <2>15
<1>5. CASE DeleteRows(d) /\ UNCHANGED rows
  <2>D. NoDeletion \in DeletionState  BY DEF NoDeletion, DeletionState, Stage, Kind
  <2>E. deletion' = [deletion EXCEPT ![d] = NoDeletion]  BY <1>5 DEF DeleteRows, SetDeletion
  <2>1. UNCHANGED <<tenant, space, thread, run, command, exec, aborted, proc, op, recovery, recover>>
    BY <1>5, <1>T DEF DeleteRows, SetDeletion, rows, execution, restartVars
  <2>2. /\ deletion' \in [Deletion -> DeletionState]
        /\ \A e \in Deletion : e # d => deletion'[e] = deletion[e]
        /\ deletion'[d].stage = "none"
        /\ deletion'[d].targets = {}
        /\ deletion'[d].threadIds = {} /\ deletion'[d].runs = {} /\ deletion'[d].left = {}
    BY <1>5, <1>T, <2>D, <2>E, DeletionSet DEF NoDeletion
  <2>3. Typed'  BY <2>1, <2>2 DEF Typed
  <2>4. Awaited'  BY <2>1, <2>2 DEF Awaited
  <2>5. Shape'  BY <2>1, <2>2 DEF Shape
  <2>6. OperationsAwaited'  BY <2>1, <2>2 DEF OperationsAwaited, Shape
  <2>7. TargetsFree'  BY <2>1, <2>2 DEF TargetsFree, OperationsAwaited, Shape, Stopping
  <2>8. TargetsNotActive'  BY <2>1, <2>2 DEF TargetsNotActive, TargetsFree, Shape, Stopping
  <2>9. ProcessesStop'  BY <2>1, <2>2 DEF ProcessesStop, TargetsFree, Stopping, Shape
  <2>10. ProcessesKilled'  BY <2>1, <2>2 DEF ProcessesKilled, TargetsFree, Stopping, Shape
  <2>11. ExecutorsStop'  BY <2>1, <2>2 DEF ExecutorsStop, TargetsNotActive, Stopping, Shape,
       Works
  <2>12. ExecutorsThere'  BY <2>1, <2>2 DEF ExecutorsThere, Shape
  <2>13. SpaceListed'  BY <2>1, <2>2, <1>N DEF SpaceListed, BlankBefore, Shape
  <2>14. /\ AbortedThere' /\ BlankBefore' /\ DeletedHasNoRows' /\ CommandWritten'
         /\ ProcessHasRow' /\ DeletedNotWorked'
    BY <2>1 DEF AbortedThere, BlankBefore, DeletedHasNoRows, CommandWritten, ProcessHasRow,
       DeletedNotWorked, Works
  <2> QED  BY <2>3, <2>4, <2>5, <2>6, <2>7, <2>8, <2>9, <2>10, <2>11, <2>12, <2>13, <2>14
<1>6. CASE DeleteRows(d) /\ ~UNCHANGED rows
  <2>D. NoDeletion \in DeletionState  BY DEF NoDeletion, DeletionState, Stage, Kind
  <2>E. deletion' = [deletion EXCEPT ![d] = NoDeletion]  BY <1>6 DEF DeleteRows, SetDeletion
  <2>1. UNCHANGED <<exec, aborted, proc, op, recovery, recover>>
    BY <1>6, <1>T DEF DeleteRows, SetDeletion, rows, execution, restartVars
  <2>2. /\ deletion' \in [Deletion -> DeletionState]
        /\ \A e \in Deletion : e # d => deletion'[e] = deletion[e]
        /\ deletion'[d].stage = "none"
        /\ deletion'[d].targets = {}
        /\ deletion'[d].threadIds = {} /\ deletion'[d].runs = {} /\ deletion'[d].left = {}
    BY <1>6, <1>T, <2>D, <2>E, DeletionSet DEF NoDeletion
  <2>3. deletion[d].stage = "rows"  BY <1>6, <1>T DEF DeleteRows
  <2>4. /\ {tenant', space'} \subseteq {"live", "deleted"}
        /\ tenant' = "live" => tenant = "live" /\ deletion[d].kind # "tenant"
    BY <1>6, <1>T DEF DeleteRows, Typed
  <2>5. /\ thread' \in [Thread -> {"none", "live", "deleted"}]
        /\ run' \in [Thread -> {"none", "active", "waiting", "ended"}]
        /\ command' \in [Thread -> {"none", "live", "ended"}]
    BY <1>6, <1>T DEF DeleteRows, Typed
  <2>6. \A t \in Thread :
           \/ thread'[t] = thread[t] /\ run'[t] = run[t] /\ command'[t] = command[t]
           \/ /\ thread[t] = "live" /\ thread'[t] = "deleted" /\ command[t] # "live"
              /\ run'[t] = "none" /\ command'[t] = "none"
              /\ deletion[d].kind = "thread" => t \in deletion[d].targets
    BY <1>6, <1>T DEF DeleteRows, Doomed, Typed
  <2>7. \A t \in Thread : thread[t] # "none" => thread'[t] # "none"
    BY <1>6, <1>T DEF DeleteRows, Doomed, Typed
  <2>8. deletion[d].kind \in {"thread", "space", "tenant"}
    BY <1>6, <1>T, <1>D DEF DeletionState, Kind
  <2>9. Typed'  BY <2>1, <2>2, <2>3, <2>4, <2>5, <2>6, <2>7, <2>8 DEF Typed
  <2>10. Awaited'  BY <2>1, <2>2, <2>3, <2>4, <2>5, <2>6, <2>7, <2>8 DEF Awaited
  <2>11. Shape'  BY <2>1, <2>2, <2>7 DEF Shape
  <2>12. BlankBefore'  BY <2>1, <2>3, <2>4, <2>5, <2>6, <2>7, <2>8 DEF BlankBefore
  <2>13. DeletedHasNoRows'  BY <2>1, <2>3, <2>4, <2>5, <2>6, <2>7, <2>8 DEF DeletedHasNoRows
  <2>14. OperationsAwaited'  BY <2>1, <2>2, <2>3, <2>4, <2>5, <2>6, <2>7, <2>8 DEF
       OperationsAwaited, Shape
  <2>15. TargetsFree'  BY <2>1, <2>2, <2>3, <2>4, <2>5, <2>6, <2>7, <2>8 DEF TargetsFree,
       OperationsAwaited, Shape, Stopping
  <2>16. TargetsNotActive'  BY <2>1, <2>2, <2>3, <2>4, <2>5, <2>6, <2>7, <2>8 DEF
       TargetsNotActive, TargetsFree, Shape, Stopping
  <2>17. CommandWritten'  BY <2>1, <2>3, <2>4, <2>5, <2>6, <2>7, <2>8 DEF CommandWritten
  <2>18. ProcessHasRow'  BY <2>1, <2>3, <2>4, <2>5, <2>6, <2>7, <2>8 DEF ProcessHasRow,
       CommandWritten
  <2>19. ProcessesStop'  BY <2>1, <2>2, <2>3, <2>4, <2>5, <2>6, <2>7, <2>8 DEF ProcessesStop,
       TargetsFree, Stopping, Shape
  <2>20. ProcessesKilled'  BY <2>1, <2>2, <2>3, <2>4, <2>5, <2>6, <2>7, <2>8 DEF
       ProcessesKilled, TargetsFree, Stopping, Shape
  <2>21. ExecutorsStop'  BY <2>1, <2>2, <2>3, <2>4, <2>5, <2>6, <2>7, <2>8 DEF ExecutorsStop,
       TargetsNotActive, Stopping, Shape, Works
  <2>22. ExecutorsThere'  BY <2>1, <2>2, <2>3, <2>4, <2>5, <2>6, <2>7, <2>8 DEF ExecutorsThere,
       Shape
  <2>23. SpaceListed'  BY <2>1, <2>2, <2>3, <2>4, <2>5, <2>6, <2>7, <2>8, <1>N DEF SpaceListed,
       BlankBefore, Shape
  <2>24. DeletedNotWorked'  BY <2>1, <2>2, <2>3, <2>4, <2>5, <2>6, <2>7, <2>8 DEF
       DeletedNotWorked, ExecutorsStop, SpaceListed, DeletedHasNoRows, BlankBefore, Shape, Works
  <2>25. AbortedThere'
    BY <2>1 DEF AbortedThere
  <2> QED  BY <2>9, <2>10, <2>11, <2>12, <2>13, <2>14, <2>15, <2>16, <2>17, <2>18, <2>19, <2>20,
       <2>21, <2>22, <2>23, <2>24, <2>25
<1> QED  BY <1>1, <1>2, <1>3, <1>4, <1>5, <1>6

\* The process of the server.
LEMMA ServerSteps ==
  ASSUME IInv, Crash \/ ListInterrupted \/ \E t \in Thread : Recover(t)
  PROVE  IInv'
<1> USE ThreadAssumption DEF IInv, ExecState, SameButLeft
<1>T. Typed  OBVIOUS
<1>N. \A j \in OpKind :
        /\ StartsRun(j) \/ StartsCommand(j) <=> Names(j)
        /\ ~(StartsRun(j) /\ StartsCommand(j))
  BY DEF OpKind, StartsRun, StartsCommand, Names
<1>1. CASE Crash
  <2>1. UNCHANGED <<tenant, space, thread, run, command>> /\ recover' = {} /\ aborted' = {}
    BY <1>1 DEF Crash, rows
  <2>2. /\ \A t \in Thread : exec'[t] = "none" /\ proc'[t] = "none"
        /\ \A k \in OpKind, t \in Thread : op'[<<k, t>>] = "none"
    BY <1>1 DEF Crash, NoExec, NoProc, NoOps
  <2>3. Typed'
    BY <1>1, <1>T, <2>1 DEF Crash, NoExec, NoProc, NoOps, NoDeletions, NoDeletion, Typed,
       DeletionState, Stage, Kind
  <2>4. /\ AbortedThere' /\ BlankBefore' /\ DeletedHasNoRows' /\ CommandWritten' /\ ProcessHasRow'
        /\ DeletedNotWorked'
    BY <2>1, <2>2 DEF AbortedThere, BlankBefore, DeletedHasNoRows, CommandWritten, ProcessHasRow,
       DeletedNotWorked, Works
  <2>5. /\ Awaited' /\ Shape' /\ OperationsAwaited' /\ TargetsFree' /\ TargetsNotActive'
        /\ ProcessesStop' /\ ProcessesKilled' /\ ExecutorsStop' /\ ExecutorsThere' /\ SpaceListed'
    BY <1>1 DEF Crash, NoDeletions, NoDeletion, Awaited, Shape, OperationsAwaited, TargetsFree,
       TargetsNotActive, ProcessesStop, ProcessesKilled, ExecutorsStop, ExecutorsThere, SpaceListed,
       Stopping
  <2> QED  BY <2>3, <2>4, <2>5
<1>2. CASE ListInterrupted
  <2>1. UNCHANGED <<tenant, space, thread, run, command, exec, aborted, proc, op, deletion>>
    BY <1>2, <1>T DEF ListInterrupted, rows, execution, restartVars
  <2>2. recovery' = "idle" /\ recover' = {t \in Thread : run[t] = "active"}
    BY <1>2, <1>T DEF ListInterrupted
  <2>3. Typed'  BY <2>1, <2>2 DEF Typed
  <2>4. BlankBefore'  BY <2>1, <2>2 DEF BlankBefore
  <2>5. SpaceListed'  BY <2>1, <2>2, <1>N DEF SpaceListed, BlankBefore, Shape
  <2>6. /\ AbortedThere' /\ Awaited' /\ Shape' /\ DeletedHasNoRows' /\ OperationsAwaited'
        /\ TargetsFree' /\ TargetsNotActive' /\ CommandWritten' /\ ProcessHasRow'
        /\ ProcessesStop' /\ ProcessesKilled' /\ ExecutorsStop' /\ ExecutorsThere'
        /\ DeletedNotWorked'
    BY <2>1 DEF AbortedThere, Awaited, Shape, DeletedHasNoRows, OperationsAwaited, TargetsFree,
       TargetsNotActive, CommandWritten, ProcessHasRow, ProcessesStop, ProcessesKilled,
       ExecutorsStop, ExecutorsThere, DeletedNotWorked, Stopping, Works
  <2> QED  BY <2>3, <2>4, <2>5, <2>6
<1>3. ASSUME NEW t \in Thread, Recover(t)
      PROVE  IInv'
  <2>1. UNCHANGED <<tenant, space, thread, run, command, aborted, proc, op, deletion, recovery>>
    BY <1>3, <1>T DEF Recover, rows, execution, restartVars
  <2>2. t \in recover /\ recover' = recover \ {t}  BY <1>3, <1>T DEF Recover
  <2>3. /\ exec' \in [Thread -> ExecState]
        /\ \A u \in Thread : u # t => exec'[u] = exec[u]
        /\ exec'[t] = exec[t]
           \/ (thread[t] = "live" /\ exec'[t] = "registered" /\ exec[t] = "none")
    BY <1>3, <1>T DEF Recover, Register, Typed
  <2>4. Typed'  BY <2>1, <2>2, <2>3 DEF Typed
  <2>5. AbortedThere'  BY <2>1, <2>2, <2>3 DEF AbortedThere, Typed
  <2>6. BlankBefore'  BY <2>1, <2>2, <2>3 DEF BlankBefore
  <2>7. ExecutorsStop'  BY <2>1, <2>2, <2>3 DEF ExecutorsStop, TargetsNotActive, Stopping,
       Shape, Works
  <2>8. ExecutorsThere'  BY <2>1, <2>2, <2>3 DEF ExecutorsThere, Shape
  <2>9. SpaceListed'  BY <2>1, <2>2, <2>3, <1>N DEF SpaceListed, BlankBefore, Shape
  <2>10. DeletedNotWorked'  BY <2>1, <2>2, <2>3 DEF DeletedNotWorked, ExecutorsStop,
       SpaceListed, DeletedHasNoRows, BlankBefore, Shape, Works
  <2>11. /\ Awaited' /\ Shape' /\ DeletedHasNoRows' /\ OperationsAwaited' /\ TargetsFree'
         /\ TargetsNotActive' /\ CommandWritten' /\ ProcessHasRow' /\ ProcessesStop'
         /\ ProcessesKilled'
    BY <2>1 DEF Awaited, Shape, DeletedHasNoRows, OperationsAwaited, TargetsFree,
       TargetsNotActive, CommandWritten, ProcessHasRow, ProcessesStop, ProcessesKilled, Stopping
  <2> QED  BY <2>4, <2>5, <2>6, <2>7, <2>8, <2>9, <2>10, <2>11
<1> QED  BY <1>1, <1>2, <1>3

\* Every step preserves the invariant.
LEMMA NextIInv == IInv /\ [Next]_vars => IInv'
<1> SUFFICES ASSUME IInv, [Next]_vars PROVE IInv'
  OBVIOUS
<1>1. ASSUME NEW o \in OpKind \X Thread, Enter(o) \/ OperationStep(o) PROVE IInv'
  <2>1. PICK k \in OpKind, t \in Thread : o = <<k, t>>  OBVIOUS
  <2> QED  BY <1>1, <2>1, OperationSteps, OperationEnds DEF OperationStep
<1>2. ASSUME NEW t \in Thread, StartFails(t) PROVE IInv'
  <2>1. "shell" \in OpKind  BY DEF OpKind
  <2> QED  BY <1>2, <2>1, OperationEnds
<1>3. CASE \E t \in Thread : ExecutorStep(t) \/ Decide(t) \/ ProcessEnds(t)
  BY <1>3, ExecutorSteps, EndSteps DEF ExecutorStep
<1>4. CASE \E d \in Deletion, kind \in Kind, t \in Thread : Begin(d, kind, t)
  BY <1>4, BeginSteps
<1>5. CASE \E d \in Deletion : DeletionStep(d)
  BY <1>5, BeginSteps, DeletionSteps DEF DeletionStep
<1>6. CASE Crash \/ ListInterrupted \/ \E t \in Thread : Recover(t)
  BY <1>6, ServerSteps
<1>7. CASE UNCHANGED vars
  BY <1>7 DEF IInv, Typed, AbortedThere, Awaited, Shape, BlankBefore, DeletedHasNoRows,
     OperationsAwaited, TargetsFree, TargetsNotActive, CommandWritten, ProcessHasRow, ProcessesStop,
     ProcessesKilled, ExecutorsStop, ExecutorsThere, SpaceListed, DeletedNotWorked, Works, Stopping, vars, rows,
     execution, restartVars
<1> QED  BY <1>1, <1>2, <1>3, <1>4, <1>5, <1>6, <1>7 DEF Next

\* IInv is an invariant.
THEOREM Invariance == Spec => []IInv
<1> QED  BY InitIInv, NextIInv, PTL DEF Spec

\* The variables keep their types, a deletion awaits only operations under way
\* and the signal of no executor outlives it.
THEOREM DeletionTypes == Spec => []TypeOK
<1> QED  BY Types, Invariance, PTL

\* When the rows of a thread go, nobody works for it any more, whatever other
\* deletions, operations and recovery do meanwhile.
THEOREM DeletedThreadsAreQuiet == Spec => []DeletedIsQuiet
<1>1. ASSUME IInv PROVE DeletedIsQuiet
  <2>1. ASSUME NEW t \in Thread, thread[t] = "deleted", tenant = "live" PROVE Quiet(t)
    BY <1>1, <2>1 DEF IInv, Quiet, Works, DeletedNotWorked, DeletedHasNoRows, ProcessHasRow
  <2>2. ASSUME NEW d \in Deletion, deletion[d].stage = "rows", NEW t \in deletion[d].targets
        PROVE  Quiet(t)
    BY <1>1, <2>2 DEF IInv, Quiet, Works, ProcessesStop, ExecutorsStop
  <2> QED  BY <2>1, <2>2 DEF DeletedIsQuiet
<1> QED  BY <1>1, Invariance, PTL

\* No operation is under way on the threads a deletion has begun to stop.
THEOREM TargetsAreClosed == Spec => []TargetsClosed
<1>1. ASSUME IInv PROVE TargetsClosed
  <2> SUFFICES ASSUME NEW d \in Deletion, Stopping(d), NEW o \in InFlight,
                      OpScope(o).thread \in deletion[d].targets
               PROVE  FALSE
    BY DEF TargetsClosed
  <2>1. PICK k \in OpKind, t \in Thread : o = <<k, t>>  BY DEF InFlight
  <2>2. deletion[d].targets \subseteq Thread  BY <1>1 DEF IInv, Shape
  <2>3. Names(k) /\ t \in deletion[d].targets
    BY <2>1, <2>2, ScopeOf, ThreadAssumption
  <2> QED  BY <1>1, <2>1, <2>3 DEF IInv, TargetsFree, InFlight
<1> QED  BY <1>1, Invariance, PTL

\* What a deletion waits for has been told to end.
THEOREM AwaitedWorkEnds == Spec => []AwaitedWillEnd
<1>1. ASSUME IInv PROVE AwaitedWillEnd
  BY <1>1 DEF IInv, AwaitedWillEnd, Works, ProcessesKilled, ExecutorsStop, ExecutorsThere, Shape
<1> QED  BY <1>1, Invariance, PTL
=============================================================================
