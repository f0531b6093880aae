----------------------------- MODULE TaskLeases -----------------------------
(***************************************************************************)
(* The task board of src/geond/storage/orchestration.py: tasks, worker      *)
(* sessions, task leases, handoffs and idempotency records, with every      *)
(* public operation as ONE atomic step (each ends in one commit).  This is  *)
(* what a single client sees; LeaseTransactions splits the lease operations *)
(* at their SQL statements and interleaves several connections.             *)
(*                                                                         *)
(* Time is an integer clock; `expires` is a clock value, or Nil for a lease *)
(* without expiry.  An idempotency hit (idempotency_result) answers from    *)
(* the stored record and changes nothing, so it is a stuttering step: the   *)
(* actions below are the calls that miss.                                   *)
(***************************************************************************)
EXTENDS Integers

CONSTANTS
    Runs,        \* orchestration runs, created beforehand
    Tasks,       \* task ids that may be created
    Workers,     \* worker session ids that may be created
    Leases,      \* lease ids that may be created
    Keys,        \* idempotency keys callers may send
    KeyedOps,    \* the operations callers send keys to (a bound)
    TTLs,        \* lifetimes callers ask for; Nil asks for no expiry
    MaxClock,    \* last instant of the clock (a bound)
    Nil          \* SQL NULL, an absent row, a missing argument

ASSUME BoundsAssumption == MaxClock \in Nat /\ TTLs \subseteq Nat \cup {Nil}

Ops           == {"create_task", "update_task_state", "claim_task",
                  "renew_task_lease", "release_task_lease", "finish_task_with_handoff"}
TaskStatuses  == {"ready", "claimed", "executing", "done", "blocked"}
FinalStatuses == {"done", "blocked"}
LeaseStatuses == {"active", "renewed", "expired", "released"} \cup FinalStatuses

VARIABLES
    clock,      \* now()
    task,       \* orchestration_tasks: run, status, and who wrote the status
    workerRun,  \* worker_sessions: the run a session belongs to
    lease,      \* task_leases
    record,     \* idempotency_records: the outcome stored under (operation, key)
    handoffs,   \* handoff_summaries written for each lease
    effects     \* history: the keyed calls that claimed or finished a lease

vars == << clock, task, workerRun, lease, record, handoffs, effects >>

(***************************************************************************)
(* Rows.  `by` is history: "lease" when the lease protocol wrote the task   *)
(* status, "caller" when create_task or update_task_state did.              *)
(***************************************************************************)
TaskRows  == [run : Runs, status : TaskStatuses, by : {"lease", "caller"}]
LeaseRows == [task : Tasks, worker : Workers, status : LeaseStatuses,
              expires : Nat \cup {Nil}, released : BOOLEAN]
Outcomes  == {"ok", "LEASE_CONFLICT", "TASK_NOT_CLAIMABLE", "WORKER_NOT_FOUND", "LEASE_EXPIRED"}
Effects   == [op : {"claim_task", "finish_task_with_handoff"}, key : Keys, lease : Leases]

ASSUME NilAssumption ==
    Nil \notin Nat \cup Runs \cup Workers \cup Keys \cup TaskRows \cup LeaseRows \cup Outcomes

TypeOK ==
    /\ clock \in 0..MaxClock
    /\ task \in [Tasks -> TaskRows \cup {Nil}]
    /\ workerRun \in [Workers -> Runs \cup {Nil}]
    /\ lease \in [Leases -> LeaseRows \cup {Nil}]
    /\ record \in [Ops \X Keys -> Outcomes \cup {Nil}]
    /\ handoffs \in [Leases -> Nat]
    /\ effects \subseteq Effects

Init ==
    /\ clock = 0
    /\ task = [t \in Tasks |-> Nil]
    /\ workerRun = [w \in Workers |-> Nil]
    /\ lease = [l \in Leases |-> Nil]
    /\ record = [ok \in Ops \X Keys |-> Nil]
    /\ handoffs = [l \in Leases |-> 0]
    /\ effects = {}

-----------------------------------------------------------------------------
(* Idempotency records. *)

KeyArgs(op) == IF op \in KeyedOps THEN Keys \cup {Nil} ELSE {Nil}

\* idempotency_result misses: no key, or nothing stored under (op, k).
Fresh(op, k) == k # Nil => record[<<op, k>>] = Nil

\* remember_idempotency; callers have checked Fresh in the same transaction.
Remember(op, k, outcome) ==
    record' = IF k = Nil THEN record ELSE [record EXCEPT ![<<op, k>>] = outcome]

Log(op, k, l) ==
    effects' = IF k = Nil THEN effects
               ELSE effects \cup {[op |-> op, key |-> k, lease |-> l]}

-----------------------------------------------------------------------------
(* Leases. *)

\* released_at IS NULL AND status IN ('active', 'renewed'), and lease_is_active.
IsActive(row) == row # Nil /\ ~row.released /\ row.status \in {"active", "renewed"}

ActiveOn(t, rows) == {l \in Leases : IsActive(rows[l]) /\ rows[l].task = t}

ExpiryOf(ttl) == IF ttl = Nil THEN Nil ELSE clock + ttl

\* The task row once its lease has ended without a result.
BackToReady(row) ==
    IF row.status \in {"claimed", "executing"}
    THEN [row EXCEPT !.status = "ready", !.by = "lease"] ELSE row

(***************************************************************************)
(* cleanup_expired_task_leases_cursor over the leases of the runs R.        *)
(***************************************************************************)
Overdue(R) ==
    {l \in Leases : /\ IsActive(lease[l])
                    /\ lease[l].expires # Nil
                    /\ lease[l].expires <= clock
                    /\ task[lease[l].task].run \in R}

LeasesAfterCleanup(R) ==
    [l \in Leases |-> IF l \in Overdue(R)
                      THEN [lease[l] EXCEPT !.status = "expired", !.released = TRUE]
                      ELSE lease[l]]

TasksAfterCleanup(R) ==
    [t \in Tasks |-> IF \E l \in Overdue(R) : lease[l].task = t
                     THEN BackToReady(task[t]) ELSE task[t]]

-----------------------------------------------------------------------------
(* Operations. *)

\* create_task: any status text is accepted.
CreateTask(t, r, status, k) ==
    /\ task[t] = Nil
    /\ Fresh("create_task", k)
    /\ task' = [task EXCEPT ![t] = [run |-> r, status |-> status, by |-> "caller"]]
    /\ Remember("create_task", k, "ok")
    /\ UNCHANGED << clock, workerRun, lease, handoffs, effects >>

\* update_task_state: the status is overwritten whatever it was.
UpdateTaskState(t, status, k) ==
    /\ task[t] # Nil
    /\ Fresh("update_task_state", k)
    /\ task' = [task EXCEPT ![t].status = status, ![t].by = "caller"]
    /\ Remember("update_task_state", k, "ok")
    /\ UNCHANGED << clock, workerRun, lease, handoffs, effects >>

\* register_worker_session.
RegisterWorkerSession(w, r) ==
    /\ workerRun[w] = Nil
    /\ workerRun' = [workerRun EXCEPT ![w] = r]
    /\ UNCHANGED << clock, task, lease, record, handoffs, effects >>

(***************************************************************************)
(* claim_task.  Every outcome commits the cleanup that precedes it.         *)
(***************************************************************************)
ClaimStart(t, k) ==
    /\ task[t] # Nil
    /\ Fresh("claim_task", k)
    /\ UNCHANGED << clock, handoffs >>

\* An error outcome: only the cleanup and the idempotency record persist.
ClaimRefused(t, k, code) ==
    /\ task' = TasksAfterCleanup({task[t].run})
    /\ lease' = LeasesAfterCleanup({task[t].run})
    /\ Remember("claim_task", k, code)
    /\ UNCHANGED << workerRun, effects >>

\* Fault: a renewed lease is overlooked.
TakenUnlessRenewed(t) ==
    \E l \in ActiveOn(t, LeasesAfterCleanup({task[t].run})) : lease[l].status = "active"

Claimable(t) == TasksAfterCleanup({task[t].run})[t].status = "ready"
Taken(t)     == ActiveOn(t, LeasesAfterCleanup({task[t].run})) # {}

ClaimConflict(t, k) ==
    /\ ClaimStart(t, k)
    /\ Taken(t)
    /\ ClaimRefused(t, k, "LEASE_CONFLICT")

ClaimNotClaimable(t, k) ==
    /\ ClaimStart(t, k)
    /\ ~Taken(t)
    /\ ~Claimable(t)
    /\ ClaimRefused(t, k, "TASK_NOT_CLAIMABLE")

\* The caller names a worker session that does not exist or is of another run.
ClaimWorkerNotFound(t, w, k) ==
    /\ ClaimStart(t, k)
    /\ ~Taken(t) /\ Claimable(t)
    /\ workerRun[w] # task[t].run
    /\ ClaimRefused(t, k, "WORKER_NOT_FOUND")

\* The worker session is the caller's, or (newWorker) inserted by the claim.
WorkerFor(t, w, newWorker) ==
    IF newWorker THEN workerRun[w] = Nil ELSE workerRun[w] = task[t].run

ClaimTask(t, w, newWorker, ttl, k, l) ==
    /\ ClaimStart(t, k)
    /\ ~Taken(t) /\ Claimable(t)
    /\ WorkerFor(t, w, newWorker)
    /\ lease[l] = Nil
    /\ lease' = [LeasesAfterCleanup({task[t].run}) EXCEPT
                    ![l] = [task |-> t, worker |-> w, status |-> "active",
                            expires |-> ExpiryOf(ttl), released |-> FALSE]]
    /\ task' = [TasksAfterCleanup({task[t].run}) EXCEPT
                    ![t].status = "claimed", ![t].by = "lease"]
    /\ workerRun' = IF newWorker THEN [workerRun EXCEPT ![w] = task[t].run] ELSE workerRun
    /\ Remember("claim_task", k, "ok")
    /\ Log("claim_task", k, l)

(***************************************************************************)
(* renew_task_lease, release_task_lease and finish_task_with_handoff share  *)
(* their guards: a lease that is not active is LEASE_EXPIRED; a caller that *)
(* names a worker session other than the lease's is LEASE_CONFLICT (a       *)
(* caller that names none, w = Nil, is never refused).                      *)
(***************************************************************************)
\* Fault: the lease may have ended.
LeaseCallUnchecked(op, l, w, k) ==
    Fresh(op, k) /\ lease[l] # Nil /\ w \in {Nil, lease[l].worker}

LeaseCall(op, l, w, k) ==
    /\ Fresh(op, k)
    /\ IsActive(lease[l])
    /\ w \in {Nil, lease[l].worker}

LeaseCallRefused(op, l, w, k) ==
    /\ Fresh(op, k)
    /\ ~LeaseCall(op, l, w, k)
    /\ Remember(op, k, IF IsActive(lease[l]) THEN "LEASE_CONFLICT" ELSE "LEASE_EXPIRED")
    /\ UNCHANGED << clock, task, workerRun, lease, handoffs, effects >>

\* Fault: a late heartbeat brings an ended lease back.
RenewRevives(l, w, ttl, k) ==
    /\ lease[l] # Nil
    /\ lease' = [lease EXCEPT ![l].status = "renewed", ![l].released = FALSE]
    /\ UNCHANGED << clock, task, workerRun, record, handoffs, effects >>

RenewTaskLease(l, w, ttl, k) ==
    /\ LeaseCall("renew_task_lease", l, w, k)
    /\ lease' = [lease EXCEPT ![l].status = "renewed", ![l].expires = ExpiryOf(ttl)]
    /\ Remember("renew_task_lease", k, "ok")
    /\ UNCHANGED << clock, task, workerRun, handoffs, effects >>

\* `reason` becomes the lease status, whatever its text.
ReleaseTaskLease(l, reason, w, k) ==
    /\ LeaseCall("release_task_lease", l, w, k)
    /\ lease' = [lease EXCEPT ![l].status = reason, ![l].released = TRUE]
    /\ task' = [task EXCEPT ![lease[l].task] = BackToReady(@)]
    /\ Remember("release_task_lease", k, "ok")
    /\ UNCHANGED << clock, workerRun, handoffs, effects >>

FinishTaskWithHandoff(l, final, w, k) ==
    /\ LeaseCall("finish_task_with_handoff", l, w, k)
    /\ task' = [task EXCEPT ![lease[l].task].status = final, ![lease[l].task].by = "lease"]
    /\ lease' = [lease EXCEPT ![l].status = final, ![l].released = TRUE]
    /\ handoffs' = [handoffs EXCEPT ![l] = @ + 1]
    /\ Remember("finish_task_with_handoff", k, "ok")
    /\ Log("finish_task_with_handoff", k, l)
    /\ UNCHANGED << clock, workerRun >>

(***************************************************************************)
(* The reads that clean up on the way: get_run, get_readiness_report and    *)
(* get_claimable_tasks of one run, get_claimable_tasks of the workspace.    *)
(***************************************************************************)
Cleanup(R) ==
    /\ Overdue(R) # {}
    /\ task' = TasksAfterCleanup(R)
    /\ lease' = LeasesAfterCleanup(R)
    /\ UNCHANGED << clock, workerRun, record, handoffs, effects >>

Tick ==
    /\ clock < MaxClock
    /\ clock' = clock + 1
    /\ UNCHANGED << task, workerRun, lease, record, handoffs, effects >>

-----------------------------------------------------------------------------
Reasons == {"released", "active"}

TaskCalls ==
    \E t \in Tasks :
        \/ \E r \in Runs, s \in TaskStatuses, k \in KeyArgs("create_task") :
               CreateTask(t, r, s, k)
        \/ \E s \in TaskStatuses, k \in KeyArgs("update_task_state") :
               UpdateTaskState(t, s, k)

ClaimCalls ==
    \E t \in Tasks, k \in KeyArgs("claim_task") :
        \/ ClaimConflict(t, k)
        \/ ClaimNotClaimable(t, k)
        \/ \E w \in Workers :
              \/ ClaimWorkerNotFound(t, w, k)
              \/ \E new \in BOOLEAN, ttl \in TTLs, l \in Leases :
                     ClaimTask(t, w, new, ttl, k, l)

LeaseCalls ==
    \E l \in Leases, w \in Workers \cup {Nil} :
        \/ \E op \in {"renew_task_lease", "release_task_lease", "finish_task_with_handoff"} :
               \E k \in KeyArgs(op) : LeaseCallRefused(op, l, w, k)
        \/ \E ttl \in TTLs, k \in KeyArgs("renew_task_lease") : RenewTaskLease(l, w, ttl, k)
        \/ \E reason \in Reasons, k \in KeyArgs("release_task_lease") :
               ReleaseTaskLease(l, reason, w, k)
        \/ \E final \in FinalStatuses, k \in KeyArgs("finish_task_with_handoff") :
               FinishTaskWithHandoff(l, final, w, k)

Next ==
    \/ TaskCalls
    \/ \E w \in Workers, r \in Runs : RegisterWorkerSession(w, r)
    \/ ClaimCalls
    \/ LeaseCalls
    \/ \E R \in {{r} : r \in Runs} \cup {Runs} : Cleanup(R)
    \/ Tick

Spec == Init /\ [][Next]_vars

-----------------------------------------------------------------------------
(* Properties. *)

\* A task is held through at most one lease, and a claim's own lease test and
\* the unique index agree on what "held" means (claim_task,
\* idx_task_leases_one_active_per_task).
OneActiveLease == \A t \in Tasks : \A l, m \in ActiveOn(t, lease) : l = m

\* A task the lease protocol left in 'claimed' has an active lease, so a
\* release, a finish or an expiry will free it: no protocol step strands a task
\* in a status that claim_task refuses.
NoStrandedTask ==
    \A t \in Tasks :
        task[t] # Nil /\ task[t].status = "claimed" /\ task[t].by = "lease"
            => ActiveOn(t, lease) # {}

\* A worker hands a task over once per lease, and exactly when the lease ended
\* in a result; released and expired leases leave no handoff.
OneHandoffPerResult ==
    \A l \in Leases :
        handoffs[l] = IF lease[l] # Nil /\ lease[l].status \in FinalStatuses THEN 1 ELSE 0

\* A retried keyed call takes effect at most once: one key never claims two
\* leases, and never finishes two.
KeyedOnce ==
    \A e, f \in effects : e.op = f.op /\ e.key = f.key => e = f

\* The lease table implements the ownership contract.
Ownership == INSTANCE LeaseOwnership WITH
    held    <- [t \in Tasks |-> ActiveOn(t, lease)],
    granted <- {l \in Leases : lease[l] # Nil}
OwnershipSpec == Ownership!Spec
=============================================================================
