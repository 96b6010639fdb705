------------------------- MODULE AccountPool_proofs -------------------------
(* The safety theorems of AccountPool, for every set of runs, leases,       *)
(* accounts and releases, every size of the pool and any number of crashes. *)
EXTENDS AccountPool, TLAPS

----------------------------------------------------------------------------
(* The inductive invariant. *)

\* A row of a lease exists before anything is done about it, and its account
\* and run exist.
RowFirst ==
  \A l \in Lease :
    /\ acquire[l] # "none" => runOf[l] \in Run
    /\ acquire[l] \in {"none", "validated", "grows"} => lease[l] = "none"
    /\ Acquiring(l) => lease[l] # "none"
    /\ lease[l] # "none" => acquire[l] # "none" /\ account[of[l]] # "none"
    /\ lease[l] = "none" => l \notin raced /\ of[l] = NoAccount

\* A release has a lease exactly while it writes, and it has a row.
JobHasLease ==
  \A j \in Job :
    /\ job[j].lease = NoLease <=> job[j].pc \in {"none", "next"}
    /\ job[j].lease \in Lease => lease[job[j].lease] # "none"

Clean(a) == \A l \in raced : of[l] # a
WorksOn(j, a) == job[j].lease \in Lease /\ of[job[j].lease] = a
AcquiredOn(l, a) == Acquiring(l) /\ of[l] = a

\* One acquire or release works on an account that no race has touched, and
\* the account is not idle meanwhile.
OneWorker ==
  \A a \in Account : Clean(a) =>
    /\ \A j, k \in Job : WorksOn(j, a) /\ WorksOn(k, a) => j = k
    /\ \A k, l \in Lease : AcquiredOn(k, a) /\ AcquiredOn(l, a) => k = l
    /\ \A j \in Job, l \in Lease : ~(WorksOn(j, a) /\ AcquiredOn(l, a))
    /\ \A j \in Job : WorksOn(j, a) => account[a] # "idle"
    /\ \A l \in Lease : AcquiredOn(l, a) => account[a] # "idle"

\* Before it writes the lease, the lease is leased; afterwards none is.
WorkerKnows ==
  \A a \in Account : Clean(a) =>
    /\ \A j \in Job : WorksOn(j, a) =>
         IF job[j].pc \in {"cool", "disable", "release", "fail"}
         THEN lease[job[j].lease] = "leased"
         ELSE LeasedOn(a) = {}
    /\ \A l \in Lease : AcquiredOn(l, a) =>
         IF acquire[l] = "drops" THEN LeasedOn(a) = {} ELSE lease[l] = "leased"

\* A lease that a release has taken is not being acquired, and its password is
\* dead from the remote disable on.
ReleaseKnows ==
  \A l \in Lease \ raced :
    /\ lease[l] = "released" => ~Acquiring(l)
    /\ \A j \in Job : job[j].lease = l =>
         /\ ~Acquiring(l)
         /\ job[j].pc \in {"release", "idle"} => login[of[l]] # l

IInv == /\ TypeOK /\ RowFirst /\ JobHasLease /\ OneWorker /\ WorkerKnows
        /\ AccountExclusive /\ ReleaseKnows /\ ReleasedIsDead
----------------------------------------------------------------------------
(* Steps. *)

\* Initially the invariant holds.
LEMMA InitIInv == Init => IInv
<1> USE PoolAssumption, SizeAssumption
    DEF IInv, TypeOK, RunState, LeaseState, AccountState, AcquireState, JobState, NoJob, Job,
        RowFirst, JobHasLease, OneWorker, WorkerKnows, ReleaseKnows, AccountExclusive,
        ReleasedIsDead, Clean, WorksOn, AcquiredOn, Acquiring, LeasedOn, rows
<1> QED  BY DEF Init

\* Runs change no row of the pool.
LEMMA RunSteps ==
  ASSUME IInv, NEW r \in Run, RunStep(r)
  PROVE  IInv'
<1> USE PoolAssumption, SizeAssumption
    DEF IInv, TypeOK, RunState, LeaseState, AccountState, AcquireState, JobState, NoJob, Job,
        RowFirst, JobHasLease, OneWorker, WorkerKnows, ReleaseKnows, AccountExclusive,
        ReleasedIsDead, Clean, WorksOn, AcquiredOn, Acquiring, LeasedOn, rows
<1>1. CASE Validate(r)
  <2> DEFINE l == CHOOSE l \in Lease : acquire[l] = "none"
  <2>0. l \in Lease /\ acquire[l] = "none"
    BY <1>1 DEF Validate
  <2> HIDE DEF l
  <2>a. /\ acquire' = [acquire EXCEPT ![l] = "validated"]
        /\ runOf' = [runOf EXCEPT ![l] = r]
        /\ UNCHANGED <<run, lease, of, account, login, job, raced, stops>>
    BY <1>1 DEF Validate, l
  <2>1. TypeOK'  BY <2>0, <2>a DEF TypeOK
  <2>2. RowFirst'  BY <2>0, <2>a DEF TypeOK
  <2>3. JobHasLease'  BY <2>0, <2>a DEF TypeOK
  <2>4. OneWorker'  BY <2>0, <2>a DEF TypeOK
  <2>5. WorkerKnows'  BY <2>0, <2>a DEF TypeOK
  <2>6. AccountExclusive'  BY <2>0, <2>a DEF TypeOK
  <2>7. ReleaseKnows'  BY <2>0, <2>a DEF TypeOK
  <2>8. ReleasedIsDead'  BY <2>0, <2>a DEF TypeOK
  <2> QED  BY <2>1, <2>2, <2>3, <2>4, <2>5, <2>6, <2>7, <2>8 DEF IInv
<1>2. CASE Pause(r) \/ Stop(r) \/ End(r) \/ Resume(r)
  BY <1>2 DEF Pause, Stop, End, Resume, RunGoes
<1> QED  BY <1>1, <1>2 DEF RunStep

\* An account that is idle, or new, becomes the account of a lease.
LEMMA HoldStep ==
  ASSUME IInv, NEW l \in Lease, NEW a \in Account,
         acquire[l] \in {"validated", "grows"}, account[a] \in {"none", "idle"}, Hold(l, a)
  PROVE  IInv'
<1> USE PoolAssumption, SizeAssumption
    DEF IInv, TypeOK, RunState, LeaseState, AccountState, AcquireState, JobState, NoJob, Job,
        RowFirst, JobHasLease, OneWorker, WorkerKnows, ReleaseKnows, AccountExclusive,
        ReleasedIsDead, Clean, WorksOn, AcquiredOn, Acquiring, LeasedOn, rows
<1>1. TypeOK'  BY DEF Hold
<1>2. RowFirst'  BY DEF Hold
<1>3. JobHasLease'  BY DEF Hold
<1>4. OneWorker'  BY DEF Hold
<1>5. WorkerKnows'  BY DEF Hold
<1>6. AccountExclusive'  BY DEF Hold
<1>7. ReleaseKnows'  BY DEF Hold
<1>8. ReleasedIsDead'  BY DEF Hold
<1> QED  BY <1>1, <1>2, <1>3, <1>4, <1>5, <1>6, <1>7, <1>8

\* The steps of an acquire.
LEMMA AcquireSteps ==
  ASSUME IInv, NEW l \in Lease, AcquireStep(l)
  PROVE  IInv'
<1> USE PoolAssumption, SizeAssumption
    DEF IInv, TypeOK, RunState, LeaseState, AccountState, AcquireState, JobState, NoJob, Job,
        RowFirst, JobHasLease, OneWorker, WorkerKnows, ReleaseKnows, AccountExclusive,
        ReleasedIsDead, Clean, WorksOn, AcquiredOn, Acquiring, LeasedOn, rows
<1>1. ASSUME NEW a \in Account, Reserve(l, a) PROVE IInv'
  BY <1>1, HoldStep DEF Reserve, Free
<1>2. CASE Grow(l)
  <2> DEFINE a == CHOOSE a \in Account : account[a] = "none"
  <2>1. acquire[l] = "grows" /\ a \in Account /\ account[a] = "none" /\ Hold(l, a)
    BY <1>2 DEF Grow
  <2> QED  BY <2>1, HoldStep
<1>3. CASE FindsNone(l)
  <2>1. TypeOK'  BY <1>3 DEF FindsNone, AcquireGoes, Free
  <2>2. RowFirst'  BY <1>3 DEF FindsNone, AcquireGoes, Free
  <2>3. JobHasLease'  BY <1>3 DEF FindsNone, AcquireGoes, Free
  <2>4. OneWorker'  BY <1>3 DEF FindsNone, AcquireGoes, Free
  <2>5. WorkerKnows'  BY <1>3 DEF FindsNone, AcquireGoes, Free
  <2>6. AccountExclusive'  BY <1>3 DEF FindsNone, AcquireGoes, Free
  <2>7. ReleaseKnows'  BY <1>3 DEF FindsNone, AcquireGoes, Free
  <2>8. ReleasedIsDead'  BY <1>3 DEF FindsNone, AcquireGoes, Free
  <2> QED  BY <2>1, <2>2, <2>3, <2>4, <2>5, <2>6, <2>7, <2>8
<1>4. CASE EnableRemote(l)
  <2>1. TypeOK'  BY <1>4 DEF EnableRemote
  <2>2. RowFirst'  BY <1>4 DEF EnableRemote
  <2>3. JobHasLease'  BY <1>4 DEF EnableRemote
  <2>4. OneWorker'  BY <1>4 DEF EnableRemote
  <2>5. WorkerKnows'  BY <1>4 DEF EnableRemote
  <2>6. AccountExclusive'  BY <1>4 DEF EnableRemote
  <2>7. ReleaseKnows'  BY <1>4 DEF EnableRemote
  <2>8. ReleasedIsDead'  BY <1>4 DEF EnableRemote
  <2> QED  BY <2>1, <2>2, <2>3, <2>4, <2>5, <2>6, <2>7, <2>8
<1>5. CASE EnableFails(l)
  <2>1. TypeOK'  BY <1>5 DEF EnableFails
  <2>2. RowFirst'  BY <1>5 DEF EnableFails
  <2>3. JobHasLease'  BY <1>5 DEF EnableFails
  <2>4. OneWorker'  BY <1>5 DEF EnableFails
  <2>5. WorkerKnows'  BY <1>5 DEF EnableFails
  <2>6. AccountExclusive'  BY <1>5 DEF EnableFails
  <2>7. ReleaseKnows'  BY <1>5 DEF EnableFails
  <2>8. ReleasedIsDead'  BY <1>5 DEF EnableFails
  <2> QED  BY <2>1, <2>2, <2>3, <2>4, <2>5, <2>6, <2>7, <2>8
<1>6. CASE FailLease(l)
  <2>1. TypeOK'  BY <1>6 DEF FailLease
  <2>2. RowFirst'  BY <1>6 DEF FailLease
  <2>3. JobHasLease'  BY <1>6 DEF FailLease
  <2>4. OneWorker'  BY <1>6 DEF FailLease
  <2>5. WorkerKnows'  BY <1>6 DEF FailLease
  <2>6. AccountExclusive'  BY <1>6 DEF FailLease
  <2>7. ReleaseKnows'  BY <1>6 DEF FailLease
  <2>8. ReleasedIsDead'  BY <1>6 DEF FailLease
  <2> QED  BY <2>1, <2>2, <2>3, <2>4, <2>5, <2>6, <2>7, <2>8
<1>7. CASE FailAccount(l)
  <2>1. TypeOK'  BY <1>7 DEF FailAccount
  <2>2. RowFirst'  BY <1>7 DEF FailAccount
  <2>3. JobHasLease'  BY <1>7 DEF FailAccount
  <2>4. OneWorker'  BY <1>7 DEF FailAccount
  <2>5. WorkerKnows'  BY <1>7 DEF FailAccount
  <2>6. AccountExclusive'  BY <1>7 DEF FailAccount
  <2>7. ReleaseKnows'  BY <1>7 DEF FailAccount
  <2>8. ReleasedIsDead'  BY <1>7 DEF FailAccount
  <2> QED  BY <2>1, <2>2, <2>3, <2>4, <2>5, <2>6, <2>7, <2>8
<1> QED  BY <1>1, <1>2, <1>3, <1>4, <1>5, <1>6, <1>7 DEF AcquireStep

\* Between two leases a release knows nothing.
LEMMA BetweenLeases ==
  ASSUME IInv, NEW j \in Job, NEW state \in JobState,
         state.pc \in {"none", "next"}, state.lease = NoLease,
         SetJob(j, state), OnlyJob
  PROVE  IInv'
<1> USE PoolAssumption, SizeAssumption
    DEF IInv, TypeOK, RunState, LeaseState, AccountState, AcquireState, JobState, NoJob, Job,
        RowFirst, JobHasLease, OneWorker, WorkerKnows, ReleaseKnows, AccountExclusive,
        ReleasedIsDead, Clean, WorksOn, AcquiredOn, Acquiring, LeasedOn, rows
<1>0. /\ job' \in [Job -> JobState]
      /\ job'[j] = state
      /\ \A k \in Job : k # j => job'[k] = job[k]
      /\ UNCHANGED <<run, lease, runOf, of, account, login, acquire, raced, stops>>
  BY DEF SetJob, OnlyJob
<1> HIDE DEF Job, JobState
<1>00. \A k \in Job, a \in Account :
         WorksOn(k, a)' => k # j /\ WorksOn(k, a) /\ job'[k] = job[k]
  BY <1>0
<1>1. TypeOK'  BY <1>0
<1>2. RowFirst'  BY <1>0
<1>3. JobHasLease'  BY <1>0
<1>4. OneWorker'
  <2> HIDE DEF WorksOn
  <2> QED  BY <1>0, <1>00
<1>5. WorkerKnows'
  <2> HIDE DEF WorksOn
  <2> QED  BY <1>0, <1>00
<1>6. AccountExclusive'  BY <1>0
<1>7. ReleaseKnows'  BY <1>0
<1>8. ReleasedIsDead'  BY <1>0
<1> QED  BY <1>1, <1>2, <1>3, <1>4, <1>5, <1>6, <1>7, <1>8

\* A release that begins has no lease yet.
LEMMA ReleaseStartSteps ==
  ASSUME IInv, Reconcile \/ \E j \in Releaser : ReleaseStarts(j)
  PROVE  IInv'
<1>1. ASSUME NEW r \in Run, NEW todo \in SUBSET Lease
      PROVE  /\ [NoJob EXCEPT !.pc = "next", !.run = r, !.todo = todo] \in JobState
             /\ [NoJob EXCEPT !.pc = "next", !.todo = todo] \in JobState
  BY DEF NoJob, JobState
<1>2. ASSUME NEW j \in Releaser, NEW r \in Run, ReleaseRun(j, r) PROVE IInv'
  <2>1. LeasedBy(r) \in SUBSET Lease  BY DEF LeasedBy
  <2> QED  BY <1>1, <1>2, <2>1, BetweenLeases DEF ReleaseRun, NoJob, Job
<1>3. ASSUME NEW j \in Releaser, NEW l \in Lease, ReleaseOne(j, l) PROVE IInv'
  <2> DEFINE state == [NoJob EXCEPT !.pc = "next", !.todo = {l}]
  <2>1. state \in JobState /\ state.pc = "next" /\ state.lease = NoLease
    BY DEF NoJob, JobState
  <2>2. SetJob(j, state) /\ OnlyJob /\ j \in Job  BY <1>3 DEF ReleaseOne, Job
  <2> QED  BY <2>1, <2>2, BetweenLeases
<1>4. CASE Reconcile
  <2>1. PICK late \in SUBSET Lease : SetJob(Reconciler, [NoJob EXCEPT !.pc = "next", !.todo = Due(late)])
    BY <1>4 DEF Reconcile
  <2> DEFINE state == [NoJob EXCEPT !.pc = "next", !.todo = Due(late)]
  <2>2. state \in JobState /\ state.pc = "next" /\ state.lease = NoLease
    BY DEF NoJob, JobState, Due
  <2> HIDE DEF state
  <2>3. SetJob(Reconciler, state) /\ OnlyJob /\ Reconciler \in Job
    BY <1>4, <2>1 DEF Reconcile, Job, state
  <2> QED  BY <2>2, <2>3, BetweenLeases
<1> QED  BY <1>2, <1>3, <1>4 DEF ReleaseStarts

\* A release takes a lease that is leased, or passes over it.
LEMMA LoadStep ==
  ASSUME IInv, NEW j \in Job, NEW l \in Lease, Load(j, l)
  PROVE  IInv'
<1> DEFINE rest == [job[j] EXCEPT !.todo = @ \ {l}]
           taken == [rest EXCEPT !.pc = "cool", !.lease = l]
<1>0. job[j] \in JobState /\ job[j].pc = "next" /\ job[j].lease = NoLease
  BY DEF Load, IInv, TypeOK, JobHasLease
<1>1. /\ rest \in JobState /\ rest.pc = "next" /\ rest.lease = NoLease
      /\ taken \in JobState /\ taken.pc = "cool" /\ taken.lease = l
  BY <1>0 DEF JobState
<1>2. /\ UNCHANGED <<run, lease, runOf, of, account, login, acquire, stops>>
      /\ IF lease[l] = "leased"
         THEN /\ job' = [job EXCEPT ![j] = taken]
              /\ raced' = IF Acquiring(l) \/ \E k \in Job : Releasing(k, l)
                          THEN raced \cup {l}
                          ELSE raced
         ELSE job' = [job EXCEPT ![j] = rest] /\ UNCHANGED raced
  BY DEF Load, SetJob, rows
<1> HIDE DEF rest, taken
<1>3. CASE lease[l] # "leased"
  BY <1>1, <1>2, <1>3, BetweenLeases DEF SetJob, OnlyJob, rows
<1> USE PoolAssumption, SizeAssumption
    DEF IInv, TypeOK, RunState, LeaseState, AccountState, AcquireState, JobState, NoJob, Job,
        RowFirst, JobHasLease, OneWorker, WorkerKnows, ReleaseKnows, AccountExclusive,
        ReleasedIsDead, Clean, WorksOn, AcquiredOn, Acquiring, LeasedOn, rows
<1>4. CASE lease[l] = "leased"
  <2>0. /\ job' \in [Job -> JobState]
        /\ job'[j].pc = "cool" /\ job'[j].lease = l
        /\ \A k \in Job : k # j => job'[k] = job[k]
        /\ raced \subseteq raced' /\ raced' \subseteq raced \cup {l}
        /\ l \notin raced' => ~Acquiring(l) /\ \A k \in Job : ~Releasing(k, l)
    BY <1>0, <1>1, <1>2, <1>4
  <2> HIDE DEF Job, JobState
  <2>1. TypeOK'  BY <1>0, <1>1, <1>2, <1>4, <2>0 DEF Releasing
  <2>2. RowFirst'  BY <1>0, <1>1, <1>2, <1>4, <2>0 DEF Releasing
  <2>3. JobHasLease'  BY <1>0, <1>1, <1>2, <1>4, <2>0 DEF Releasing
  <2>4. OneWorker'  BY <1>0, <1>1, <1>2, <1>4, <2>0 DEF Releasing
  <2>5. WorkerKnows'
    <3> SUFFICES ASSUME NEW a \in Account, Clean(a)'
                 PROVE  /\ \A k \in Job : WorksOn(k, a)' =>
                             IF job'[k].pc \in {"cool", "disable", "release", "fail"}
                             THEN lease[job'[k].lease] = "leased"
                             ELSE LeasedOn(a) = {}
                        /\ \A k \in Lease : AcquiredOn(k, a) =>
                             IF acquire[k] = "drops" THEN LeasedOn(a) = {} ELSE lease[k] = "leased"
      BY <1>2
    <3>1. Clean(a)
      BY <1>2, <2>0
    <3>2. ASSUME NEW k \in Job, WorksOn(k, a)', k # j
          PROVE  IF job'[k].pc \in {"cool", "disable", "release", "fail"}
                 THEN lease[job'[k].lease] = "leased"
                 ELSE LeasedOn(a) = {}
      <4>1. job'[k] = job[k] /\ WorksOn(k, a)  BY <1>2, <2>0, <3>2
      <4> QED  BY <3>1, <4>1
    <3> QED  BY <1>4, <2>0, <3>1, <3>2
  <2>6. AccountExclusive'  BY <1>0, <1>1, <1>2, <1>4, <2>0 DEF Releasing
  <2>7. ReleaseKnows'  BY <1>0, <1>1, <1>2, <1>4, <2>0 DEF Releasing
  <2>8. ReleasedIsDead'  BY <1>0, <1>1, <1>2, <1>4, <2>0 DEF Releasing
  <2> QED  BY <2>1, <2>2, <2>3, <2>4, <2>5, <2>6, <2>7, <2>8
<1> QED  BY <1>3, <1>4

\* The steps of a release.
LEMMA JobSteps ==
  ASSUME IInv, NEW j \in Job, JobStep(j)
  PROVE  IInv'
<1>0. /\ NoJob \in JobState /\ Done(j) \in JobState
      /\ \A pc \in {"disable", "release", "idle", "fail", "drop"} : At(j, pc) \in JobState
  BY DEF IInv, TypeOK, NoJob, JobState, At, Done
<1> USE PoolAssumption, SizeAssumption
    DEF IInv, TypeOK, RunState, LeaseState, AccountState, AcquireState, JobState, NoJob, Job,
        RowFirst, JobHasLease, OneWorker, WorkerKnows, ReleaseKnows, AccountExclusive,
        ReleasedIsDead, Clean, WorksOn, AcquiredOn, Acquiring, LeasedOn, rows
<1> USE DEF SetJob, At, Done, Goes, OnlyJob, SetAccount, SetLease
<1>1. ASSUME NEW l \in Lease, Load(j, l) PROVE IInv'
  BY <1>1, LoadStep
<1>2. CASE Finish(j)
  <2>1. TypeOK'  BY <1>2, <1>0 DEF Finish
  <2>2. RowFirst'  BY <1>2 DEF Finish
  <2>3. JobHasLease'  BY <1>2 DEF Finish
  <2>4. OneWorker'  BY <1>2 DEF Finish
  <2>5. WorkerKnows'  BY <1>2 DEF Finish
  <2>6. AccountExclusive'  BY <1>2 DEF Finish
  <2>7. ReleaseKnows'  BY <1>2 DEF Finish
  <2>8. ReleasedIsDead'  BY <1>2 DEF Finish
  <2> QED  BY <2>1, <2>2, <2>3, <2>4, <2>5, <2>6, <2>7, <2>8
<1>3. CASE Cool(j)
  <2>1. TypeOK'  BY <1>3, <1>0 DEF Cool
  <2>2. RowFirst'  BY <1>3 DEF Cool
  <2>3. JobHasLease'  BY <1>3 DEF Cool
  <2>4. OneWorker'  BY <1>3 DEF Cool
  <2>5. WorkerKnows'  BY <1>3 DEF Cool
  <2>6. AccountExclusive'  BY <1>3 DEF Cool
  <2>7. ReleaseKnows'  BY <1>3 DEF Cool
  <2>8. ReleasedIsDead'  BY <1>3 DEF Cool
  <2> QED  BY <2>1, <2>2, <2>3, <2>4, <2>5, <2>6, <2>7, <2>8
<1>4. CASE DisableRemote(j)
  <2>1. TypeOK'  BY <1>4, <1>0 DEF DisableRemote
  <2>2. RowFirst'  BY <1>4 DEF DisableRemote
  <2>3. JobHasLease'  BY <1>4 DEF DisableRemote
  <2>4. OneWorker'  BY <1>4 DEF DisableRemote
  <2>5. WorkerKnows'  BY <1>4 DEF DisableRemote
  <2>6. AccountExclusive'  BY <1>4 DEF DisableRemote
  <2>7. ReleaseKnows'  BY <1>4 DEF DisableRemote
  <2>8. ReleasedIsDead'  BY <1>4 DEF DisableRemote
  <2> QED  BY <2>1, <2>2, <2>3, <2>4, <2>5, <2>6, <2>7, <2>8
<1>5. CASE DisableFails(j)
  <2>1. TypeOK'  BY <1>5, <1>0 DEF DisableFails
  <2>2. RowFirst'  BY <1>5 DEF DisableFails
  <2>3. JobHasLease'  BY <1>5 DEF DisableFails
  <2>4. OneWorker'  BY <1>5 DEF DisableFails
  <2>5. WorkerKnows'  BY <1>5 DEF DisableFails
  <2>6. AccountExclusive'  BY <1>5 DEF DisableFails
  <2>7. ReleaseKnows'  BY <1>5 DEF DisableFails
  <2>8. ReleasedIsDead'  BY <1>5 DEF DisableFails
  <2> QED  BY <2>1, <2>2, <2>3, <2>4, <2>5, <2>6, <2>7, <2>8
<1>6. CASE WriteReleased(j)
  <2>1. TypeOK'  BY <1>6, <1>0 DEF WriteReleased
  <2>2. RowFirst'  BY <1>6 DEF WriteReleased
  <2>3. JobHasLease'  BY <1>6 DEF WriteReleased
  <2>4. OneWorker'  BY <1>6 DEF WriteReleased
  <2>5. WorkerKnows'  BY <1>6 DEF WriteReleased
  <2>6. AccountExclusive'  BY <1>6 DEF WriteReleased
  <2>7. ReleaseKnows'  BY <1>6 DEF WriteReleased
  <2>8. ReleasedIsDead'  BY <1>6 DEF WriteReleased
  <2> QED  BY <2>1, <2>2, <2>3, <2>4, <2>5, <2>6, <2>7, <2>8
<1>7. CASE WriteIdle(j)
  <2>1. TypeOK'  BY <1>7, <1>0 DEF WriteIdle
  <2>2. RowFirst'  BY <1>7 DEF WriteIdle
  <2>3. JobHasLease'  BY <1>7 DEF WriteIdle
  <2>4. OneWorker'  BY <1>7 DEF WriteIdle
  <2>5. WorkerKnows'  BY <1>7 DEF WriteIdle
  <2>6. AccountExclusive'  BY <1>7 DEF WriteIdle
  <2>7. ReleaseKnows'  BY <1>7 DEF WriteIdle
  <2>8. ReleasedIsDead'  BY <1>7 DEF WriteIdle
  <2> QED  BY <2>1, <2>2, <2>3, <2>4, <2>5, <2>6, <2>7, <2>8
<1>8. CASE WriteFailed(j)
  <2>1. TypeOK'  BY <1>8, <1>0 DEF WriteFailed
  <2>2. RowFirst'  BY <1>8 DEF WriteFailed
  <2>3. JobHasLease'  BY <1>8 DEF WriteFailed
  <2>4. OneWorker'  BY <1>8 DEF WriteFailed
  <2>5. WorkerKnows'  BY <1>8 DEF WriteFailed
  <2>6. AccountExclusive'  BY <1>8 DEF WriteFailed
  <2>7. ReleaseKnows'  BY <1>8 DEF WriteFailed
  <2>8. ReleasedIsDead'  BY <1>8 DEF WriteFailed
  <2> QED  BY <2>1, <2>2, <2>3, <2>4, <2>5, <2>6, <2>7, <2>8
<1>9. CASE WriteDisabled(j)
  <2>1. TypeOK'
    <3>1. job' \in [Job -> JobState]  BY ONLY <1>9, <1>0, IInv DEF WriteDisabled, SetAccount, SetJob, IInv, TypeOK
    <3> QED  BY <1>9, <3>1 DEF WriteDisabled
  <2>2. RowFirst'  BY <1>9 DEF WriteDisabled
  <2>3. JobHasLease'  BY <1>9 DEF WriteDisabled
  <2>4. OneWorker'  BY <1>9 DEF WriteDisabled
  <2>5. WorkerKnows'  BY <1>9 DEF WriteDisabled
  <2>6. AccountExclusive'  BY <1>9 DEF WriteDisabled
  <2>7. ReleaseKnows'  BY <1>9 DEF WriteDisabled
  <2>8. ReleasedIsDead'  BY <1>9 DEF WriteDisabled
  <2> QED  BY <2>1, <2>2, <2>3, <2>4, <2>5, <2>6, <2>7, <2>8
<1> QED  BY <1>1, <1>2, <1>3, <1>4, <1>5, <1>6, <1>7, <1>8, <1>9 DEF JobStep

\* A crash forgets every acquire and every release.
LEMMA CrashStep ==
  ASSUME IInv, Crash
  PROVE  IInv'
<1> USE PoolAssumption, SizeAssumption
    DEF IInv, TypeOK, RunState, LeaseState, AccountState, AcquireState, JobState, NoJob, Job,
        RowFirst, JobHasLease, OneWorker, WorkerKnows, ReleaseKnows, AccountExclusive,
        ReleasedIsDead, Clean, WorksOn, AcquiredOn, Acquiring, LeasedOn, rows
<1>1. TypeOK'  BY DEF Crash
<1>2. RowFirst'  BY DEF Crash
<1>3. JobHasLease'  BY DEF Crash
<1>4. OneWorker'  BY DEF Crash
<1>5. WorkerKnows'  BY DEF Crash
<1>6. AccountExclusive'  BY DEF Crash
<1>7. ReleaseKnows'  BY DEF Crash
<1>8. ReleasedIsDead'  BY DEF Crash
<1> QED  BY <1>1, <1>2, <1>3, <1>4, <1>5, <1>6, <1>7, <1>8

\* The invariant is inductive.
LEMMA NextIInv == IInv /\ [Next]_vars => IInv'
<1> SUFFICES ASSUME IInv, [Next]_vars PROVE IInv'
  OBVIOUS
<1>1. CASE Next
  BY <1>1, AcquireSteps, ReleaseStartSteps, JobSteps, RunSteps, CrashStep DEF Next
<1>2. CASE UNCHANGED vars
  <2>1. TypeOK'  BY <1>2 DEF vars, rows, IInv, TypeOK, RowFirst, JobHasLease, OneWorker, WorkerKnows, ReleaseKnows,
          AccountExclusive, ReleasedIsDead, Clean, WorksOn, AcquiredOn, Acquiring, LeasedOn
  <2>2. RowFirst'  BY <1>2 DEF vars, rows, IInv, TypeOK, RowFirst, JobHasLease, OneWorker, WorkerKnows, ReleaseKnows,
          AccountExclusive, ReleasedIsDead, Clean, WorksOn, AcquiredOn, Acquiring, LeasedOn
  <2>3. JobHasLease'  BY <1>2 DEF vars, rows, IInv, TypeOK, RowFirst, JobHasLease, OneWorker, WorkerKnows, ReleaseKnows,
          AccountExclusive, ReleasedIsDead, Clean, WorksOn, AcquiredOn, Acquiring, LeasedOn
  <2>4. OneWorker'  BY <1>2 DEF vars, rows, IInv, TypeOK, RowFirst, JobHasLease, OneWorker, WorkerKnows, ReleaseKnows,
          AccountExclusive, ReleasedIsDead, Clean, WorksOn, AcquiredOn, Acquiring, LeasedOn
  <2>5. WorkerKnows'  BY <1>2 DEF vars, rows, IInv, TypeOK, RowFirst, JobHasLease, OneWorker, WorkerKnows, ReleaseKnows,
          AccountExclusive, ReleasedIsDead, Clean, WorksOn, AcquiredOn, Acquiring, LeasedOn
  <2>6. AccountExclusive'  BY <1>2 DEF vars, rows, IInv, TypeOK, RowFirst, JobHasLease, OneWorker, WorkerKnows, ReleaseKnows,
          AccountExclusive, ReleasedIsDead, Clean, WorksOn, AcquiredOn, Acquiring, LeasedOn
  <2>7. ReleaseKnows'  BY <1>2 DEF vars, rows, IInv, TypeOK, RowFirst, JobHasLease, OneWorker, WorkerKnows, ReleaseKnows,
          AccountExclusive, ReleasedIsDead, Clean, WorksOn, AcquiredOn, Acquiring, LeasedOn
  <2>8. ReleasedIsDead'  BY <1>2 DEF vars, rows, IInv, TypeOK, RowFirst, JobHasLease, OneWorker, WorkerKnows, ReleaseKnows,
          AccountExclusive, ReleasedIsDead, Clean, WorksOn, AcquiredOn, Acquiring, LeasedOn
  <2> QED  BY <2>1, <2>2, <2>3, <2>4, <2>5, <2>6, <2>7, <2>8 DEF IInv
<1> QED  BY <1>1, <1>2

----------------------------------------------------------------------------
(* Theorems. *)

THEOREM Invariance == Spec => []IInv
<1> QED  BY InitIInv, NextIInv, PTL DEF Spec

\* Every reachable state is well typed: a lease that exists has an account and
\* a run, and only an account that exists can be logged in to.
THEOREM PoolTypes == Spec => []TypeOK
<1>1. IInv => TypeOK  BY DEF IInv
<1> QED  BY <1>1, Invariance, PTL

\* Without a race of releases no account has two leases, nor one while it is
\* idle, for any pool, expiry, failure and crash.
THEOREM NoAccountShared == Spec => []AccountExclusive
<1>1. IInv => AccountExclusive  BY DEF IInv
<1> QED  BY <1>1, Invariance, PTL

\* Without a race the password of a released lease opens no account.
THEOREM ReleasedPasswordsDie == Spec => []ReleasedIsDead
<1>1. IInv => ReleasedIsDead  BY DEF IInv
<1> QED  BY <1>1, Invariance, PTL
============================================================================
