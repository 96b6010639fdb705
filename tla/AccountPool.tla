---------------------------- MODULE AccountPool ----------------------------
(* The pool of database accounts behind one data source and profile. A run  *)
(* acquires a lease on an account, whose password is set in the remote      *)
(* database afterwards; leases are given back by the executor that ends, by *)
(* requests and by a periodic reconciler, one query after the other and     *)
(* without a lock, so that two of them can work on the same lease.          *)
EXTENDS FiniteSets, Naturals

CONSTANTS
  Run,         \* runs
  NoRun,       \* no run
  Lease,       \* leases; each stands for one call of acquireCredential
  NoLease,     \* no lease
  Account,     \* ids of datasource_accounts
  NoAccount,   \* no account
  Releaser,    \* executors that end and requests that release
  Reconciler,  \* the timer of the reconciler
  MaxPoolSize, \* maxPoolSize of the pool
  MaxStops     \* bound: crashes of the server

ASSUME PoolAssumption == /\ NoRun \notin Run
                         /\ NoLease \notin Lease
                         /\ NoAccount \notin Account
                         /\ Reconciler \notin Releaser
ASSUME SizeAssumption == MaxPoolSize \in Nat /\ MaxStops \in Nat

VARIABLES
  \* ---- PostgreSQL and the remote database
  run,      \* what the run's row and its token say
  lease,    \* datasource_account_leases.status
  runOf,    \* datasource_account_leases.run_id
  of,       \* datasource_account_leases.account_id
  account,  \* datasource_accounts.status
  login,    \* the lease whose password opens the remote account
  \* ---- memory of the server process
  acquire,  \* where acquireCredential stands
  job,      \* where a release stands
  \* ---- history
  raced,    \* leases a release took from an acquire or another release
  stops     \* crashes so far

rows == <<lease, runOf, of>>
vars == <<run, lease, runOf, of, account, login, acquire, job, raced, stops>>

(***************************************************************************)
(* "stopped" is a run whose executor a shutdown ended: its token is revoked *)
(* but its row still says running. A paused or ended run has no token.      *)
(***************************************************************************)
RunState == {"active", "paused", "stopped", "ended"}
LeaseState == {"none", "leased", "released", "failed"}
AccountState == {"none", "idle", "leased", "cooling_down", "disabled"}

(***************************************************************************)
(* "grows" may add an account, "reserved" holds the rows, "fails" and       *)
(* "drops" are before the two writes of markLeaseFailed.                    *)
(***************************************************************************)
AcquireState == {"none", "validated", "grows", "reserved", "fails", "drops", "done"}
Acquiring(l) == acquire[l] \in {"reserved", "fails", "drops"}

(***************************************************************************)
(* A release works through the leases in todo: "next" reads the row of one, *)
(* the others are before the write they name: of the account (cool), in the *)
(* remote database (disable), of the lease (release), of the account (idle) *)
(* and the two of the catch block (fail, drop).                             *)
(***************************************************************************)
JobState == [pc : {"none", "next", "cool", "disable", "release", "idle", "fail", "drop"},
             run : Run \cup {NoRun}, todo : SUBSET Lease, lease : Lease \cup {NoLease}]
NoJob == [pc |-> "none", run |-> NoRun, todo |-> {}, lease |-> NoLease]
Job == Releaser \cup {Reconciler}

TypeOK ==
  /\ run \in [Run -> RunState]
  /\ lease \in [Lease -> LeaseState]
  /\ runOf \in [Lease -> Run \cup {NoRun}]
  /\ of \in [Lease -> Account \cup {NoAccount}]
  /\ account \in [Account -> AccountState]
  /\ login \in [Account -> Lease \cup {NoLease}]
  /\ acquire \in [Lease -> AcquireState]
  /\ job \in [Job -> JobState]
  /\ raced \subseteq Lease
  /\ stops \in 0..MaxStops
  /\ \A l \in Lease : lease[l] # "none" => of[l] \in Account /\ runOf[l] \in Run
  /\ \A a \in Account : login[a] # NoLease => account[a] # "none"

Init ==
  /\ run = [r \in Run |-> "active"]
  /\ lease = [l \in Lease |-> "none"]
  /\ runOf = [l \in Lease |-> NoRun]
  /\ of = [l \in Lease |-> NoAccount]
  /\ account = [a \in Account |-> "none"]
  /\ login = [a \in Account |-> NoLease]
  /\ acquire = [l \in Lease |-> "none"]
  /\ job = [j \in Job |-> NoJob]
  /\ raced = {}
  /\ stops = 0

----------------------------------------------------------------------------
(* Acquisition *)

\* The token of an active run names it; it is not looked at again.
Validate(r) ==
  /\ \E l \in Lease : acquire[l] = "none"
  /\ run[r] = "active"
  /\ LET l == CHOOSE l \in Lease : acquire[l] = "none"
     IN /\ acquire' = [acquire EXCEPT ![l] = "validated"]
        /\ runOf' = [runOf EXCEPT ![l] = r]
  /\ UNCHANGED <<run, lease, of, account, login, job, raced, stops>>

HoldsNoAccount(l, a) ==
  /\ account' = [account EXCEPT ![a] = "leased"]
  /\ lease' = [lease EXCEPT ![l] = "leased"]
  /\ acquire' = [acquire EXCEPT ![l] = "reserved"]
  /\ UNCHANGED <<run, runOf, of, login, job, raced, stops>>

Hold(l, a) ==
  /\ account' = [account EXCEPT ![a] = "leased"]
  /\ lease' = [lease EXCEPT ![l] = "leased"]
  /\ of' = [of EXCEPT ![l] = a]
  /\ acquire' = [acquire EXCEPT ![l] = "reserved"]
  /\ UNCHANGED <<run, runOf, login, job, raced, stops>>

TakesCooling(a) == account[a] \in {"idle", "cooling_down"}
Free(a) == account[a] = "idle"

\* A row another transaction has locked is skipped, as if it were taken.
Reserve(l, a) == acquire[l] = "validated" /\ Free(a) /\ Hold(l, a)

AcquireGoes(l, from, to) ==
  /\ acquire[l] = from
  /\ acquire' = [acquire EXCEPT ![l] = to]
  /\ UNCHANGED <<run, rows, account, login, job, raced, stops>>

PoolSize == Cardinality({a \in Account : account[a] \notin {"none", "disabled"}})

FindsNone(l) ==
  /\ \A a \in Account : ~Free(a)
  /\ AcquireGoes(l, "validated", IF PoolSize >= MaxPoolSize THEN "done" ELSE "grows")

\* The count is from before: two transactions may both grow the pool.
Grow(l) ==
  /\ acquire[l] = "grows"
  /\ \E a \in Account : account[a] = "none"
  /\ Hold(l, CHOOSE a \in Account : account[a] = "none")

EnableRemote(l) ==
  /\ acquire[l] = "reserved"
  /\ login' = [login EXCEPT ![of[l]] = l]
  /\ acquire' = [acquire EXCEPT ![l] = "done"]
  /\ UNCHANGED <<run, rows, account, job, raced, stops>>

\* The role may have its password already when GRANT fails.
EnableFails(l) ==
  /\ acquire[l] = "reserved"
  /\ \/ login' = [login EXCEPT ![of[l]] = l]
     \/ UNCHANGED login
  /\ acquire' = [acquire EXCEPT ![l] = "fails"]
  /\ UNCHANGED <<run, rows, account, job, raced, stops>>

FailLease(l) ==
  /\ acquire[l] = "fails"
  /\ lease' = [lease EXCEPT ![l] = "failed"]
  /\ acquire' = [acquire EXCEPT ![l] = "drops"]
  /\ UNCHANGED <<run, runOf, of, account, login, job, raced, stops>>

FailAccount(l) ==
  /\ acquire[l] = "drops"
  /\ account' = [account EXCEPT ![of[l]] = "disabled"]
  /\ acquire' = [acquire EXCEPT ![l] = "done"]
  /\ UNCHANGED <<run, lease, runOf, of, login, job, raced, stops>>

----------------------------------------------------------------------------
(* Release *)

SetJob(j, s) == job' = [job EXCEPT ![j] = s]
At(j, pc) == [job[j] EXCEPT !.pc = pc]
Done(j) == [job[j] EXCEPT !.pc = "next", !.lease = NoLease]
Goes(j, pc) == SetJob(j, At(j, pc))
OnlyJob == UNCHANGED <<run, rows, account, login, acquire, raced, stops>>

LeasedBy(r) == {l \in Lease : lease[l] = "leased" /\ runOf[l] = r}

\* An executor that ends, or a request: all leases of a run that has no token.
ReleaseRun(j, r) ==
  /\ job[j].pc = "none"
  /\ run[r] # "active"
  /\ LeasedBy(r) # {}
  /\ SetJob(j, [NoJob EXCEPT !.pc = "next", !.run = r, !.todo = LeasedBy(r)])
  /\ OnlyJob

\* POST /leases/:id/release, with the token of the run.
ReleaseOne(j, l) ==
  /\ job[j].pc = "none"
  /\ lease[l] = "leased"
  /\ run[runOf[l]] = "active"
  /\ SetJob(j, [NoJob EXCEPT !.pc = "next", !.todo = {l}])
  /\ OnlyJob

\* Leases of runs that are over, and those of late, whose time has passed.
OnlyLate(late) == late
Due(late) ==
  {l \in Lease : lease[l] = "leased" /\ (l \in late \/ run[runOf[l]] \in {"paused", "ended"})}

Reconcile ==
  /\ job[Reconciler].pc = "none"
  /\ \E late \in SUBSET Lease :
       /\ Due(late) # {}
       /\ SetJob(Reconciler, [NoJob EXCEPT !.pc = "next", !.todo = Due(late)])
  /\ OnlyJob

\* Another release has passed its check of lease l and has not written it yet.
Releasing(j, l) == job[j].lease = l /\ job[j].pc \in {"cool", "disable", "release", "fail"}

Load(j, l) ==
  /\ job[j].pc = "next"
  /\ l \in job[j].todo
  /\ LET rest == [job[j] EXCEPT !.todo = @ \ {l}]
     IN IF lease[l] = "leased"
        THEN /\ SetJob(j, [rest EXCEPT !.pc = "cool", !.lease = l])
             /\ raced' = IF Acquiring(l) \/ \E k \in Job : Releasing(k, l)
                         THEN raced \cup {l}
                         ELSE raced
        ELSE SetJob(j, rest) /\ UNCHANGED raced
  /\ UNCHANGED <<run, rows, account, login, acquire, stops>>

Finish(j) ==
  /\ job[j].pc = "next"
  /\ job[j].todo = {}
  /\ SetJob(j, NoJob)
  /\ OnlyJob

SetAccount(j, from, status, to) ==
  /\ job[j].pc = from
  /\ account' = [account EXCEPT ![of[job[j].lease]] = status]
  /\ SetJob(j, to)
  /\ UNCHANGED <<run, rows, login, acquire, raced, stops>>

SetLease(j, from, status, to) ==
  /\ job[j].pc = from
  /\ lease' = [lease EXCEPT ![job[j].lease] = status]
  /\ Goes(j, to)
  /\ UNCHANGED <<run, runOf, of, account, login, acquire, raced, stops>>

Cool(j) == SetAccount(j, "cool", "cooling_down", At(j, "disable"))

SkipDisable(j) ==
  /\ job[j].pc = "disable"
  /\ Goes(j, "release")
  /\ UNCHANGED <<run, rows, account, login, acquire, raced, stops>>

\* NOLOGIN, a new password, and the end of the sessions that are open.
DisableRemote(j) ==
  /\ job[j].pc = "disable"
  /\ login' = [login EXCEPT ![of[job[j].lease]] = NoLease]
  /\ Goes(j, "release")
  /\ UNCHANGED <<run, rows, account, acquire, raced, stops>>

DisableFails(j) ==
  /\ job[j].pc = "disable"
  /\ \/ login' = [login EXCEPT ![of[job[j].lease]] = NoLease]
     \/ UNCHANGED login
  /\ Goes(j, "fail")
  /\ UNCHANGED <<run, rows, account, acquire, raced, stops>>

WriteReleased(j) == SetLease(j, "release", "released", "idle")
WriteIdle(j) == SetAccount(j, "idle", "idle", Done(j))
WriteFailed(j) == SetLease(j, "fail", "failed", "drop")

\* The error ends the loop of a run's leases; the reconciler goes on.
WriteDisabled(j) ==
  SetAccount(j, "drop", "disabled", IF j = Reconciler THEN Done(j) ELSE NoJob)

JobStep(j) ==
  \/ (\E l \in Lease : Load(j, l)) \/ Finish(j) \/ Cool(j) \/ DisableRemote(j) \/ DisableFails(j)
  \/ WriteReleased(j) \/ WriteIdle(j) \/ WriteFailed(j) \/ WriteDisabled(j)

----------------------------------------------------------------------------
(* Runs, time and crashes *)

RunGoes(r, from, to) ==
  /\ run[r] \in from
  /\ run' = [run EXCEPT ![r] = to]
  /\ UNCHANGED <<rows, account, login, acquire, job, raced, stops>>

Pause(r) == RunGoes(r, {"active"}, "paused")
Stop(r) == RunGoes(r, {"active"}, "stopped")
End(r) == RunGoes(r, {"active", "paused", "stopped"}, "ended")

\* The next executor rotates the token; the last one has to be gone by then.
Resume(r) ==
  /\ \A j \in Job : job[j].run # r
  /\ RunGoes(r, {"paused", "stopped"}, "active")

Crash ==
  /\ stops < MaxStops
  /\ stops' = stops + 1
  /\ acquire' = [l \in Lease |-> IF acquire[l] = "none" THEN "none" ELSE "done"]
  /\ job' = [j \in Job |-> NoJob]
  /\ UNCHANGED <<run, rows, account, login, raced>>

----------------------------------------------------------------------------
AcquireStep(l) ==
  \/ \E a \in Account : Reserve(l, a)
  \/ FindsNone(l) \/ Grow(l) \/ EnableRemote(l) \/ EnableFails(l)
  \/ FailLease(l) \/ FailAccount(l)

ReleaseStarts(j) == (\E r \in Run : ReleaseRun(j, r)) \/ (\E l \in Lease : ReleaseOne(j, l))

RunStep(r) == Validate(r) \/ Pause(r) \/ Stop(r) \/ End(r) \/ Resume(r)

Next ==
  \/ \E l \in Lease : AcquireStep(l)
  \/ \E j \in Releaser : ReleaseStarts(j)
  \/ Reconcile
  \/ \E j \in Job : JobStep(j)
  \/ \E r \in Run : RunStep(r)
  \/ Crash

Spec == Init /\ [][Next]_vars

(***************************************************************************)
(* The timer keeps firing and the reconciler's queries return or fail; the  *)
(* other releases may hang.                                                 *)
(***************************************************************************)
Fairness == WF_vars(Reconcile) /\ WF_vars(JobStep(Reconciler))
FairSpec == Spec /\ Fairness

----------------------------------------------------------------------------
LeasedOn(a) == {l \in Lease : lease[l] = "leased" /\ of[l] = a}

(***************************************************************************)
(* One account is leased to one run at a time, as the design of the pool    *)
(* promises (docs/datasource-account-pool.md:14).                           *)
(***************************************************************************)
OneRunEach == \A a \in Account : Cardinality({runOf[l] : l \in LeasedOn(a)}) <= 1

(***************************************************************************)
(* What the code guarantees of it: two leases can only share an account, or *)
(* an account with a lease be idle, after a release that took a lease of it *)
(* from an acquire or from another release that was still working on it. No *)
(* crash, failure, expiry or overfull pool does it.                         *)
(***************************************************************************)
AccountExclusive ==
  \A a \in Account :
    \/ \E l \in raced : of[l] = a
    \/ /\ \A k, l \in LeasedOn(a) : k = l
       /\ account[a] = "idle" => LeasedOn(a) = {}

(***************************************************************************)
(* The password of a lease no longer opens the account once the lease is    *)
(* written as released, with the same exception.                            *)
(***************************************************************************)
ReleasedIsDead ==
  \A l \in Lease \ raced : lease[l] = "released" => login[of[l]] # l

(***************************************************************************)
(* The leases of a run that has ended are given back or marked as failed,   *)
(* through crashes and failed releases: also the one of an acquire that had *)
(* been admitted before the run ended.                                      *)
(***************************************************************************)
LeaseReturned ==
  \A l \in Lease :
    (lease[l] = "leased" /\ run[runOf[l]] = "ended") ~> (lease[l] # "leased")
============================================================================
