-------------------------- MODULE LeaseTransactions --------------------------
(***************************************************************************)
(* The lease operations of src/geond/storage/orchestration.py at the grain  *)
(* of their SQL statements: several connections (MCP server threads, CLI    *)
(* processes, orchestrator workers) run claim_task, renew_task_lease,       *)
(* release_task_lease, finish_task_with_handoff, update_task_state and the  *)
(* reads that clean up expired leases, and PostgreSQL interleaves their     *)
(* statements at READ COMMITTED, the isolation level psycopg leaves in      *)
(* place:                                                                  *)
(*   - a SELECT sees what is committed when it runs, and the transaction's  *)
(*     own writes, and never waits;                                        *)
(*   - an UPDATE waits for the transaction that holds its row, then tests   *)
(*     its WHERE clause on the newest version of the row;                   *)
(*   - an INSERT into task_leases waits for every open transaction that     *)
(*     writes an active lease of the task, then raises UniqueViolation if   *)
(*     one is committed (idx_task_leases_one_active_per_task);              *)
(*   - now() is the instant the transaction started;                        *)
(*   - of transactions that wait for one another in a circle one is aborted.*)
(*   - a foreign key locks the row it refers to in share mode: that waits for *)
(*     who has locked it to write its key (upsert_agent), and for nobody     *)
(*     who writes other columns.                                            *)
(***************************************************************************)
EXTENDS Integers

CONSTANTS
    Sessions,        \* database connections, one transaction at a time each
    Agents,          \* agent names, the row of each in place
    Tasks,           \* task ids of the run, all created
    Leases,          \* lease ids the INSERT may draw
    Keys,            \* idempotency keys callers may send, besides none
    KeyedOps,        \* the operations they send them with (a bound)
    KeyUsers,        \* the sessions that send them
    TTLs,            \* lifetimes callers ask for; Nil asks for no expiry
    Finals,          \* the task_status values finish is called with
    ManualStatuses,  \* the statuses update_task_state is called with (a bound)
    MaxClock,        \* last instant of the clock (a bound)
    Nil              \* SQL NULL, an absent row, a missing argument

ASSUME TxBoundsAssumption == MaxClock \in Nat /\ TTLs \subseteq Nat \cup {Nil}
ASSUME TxFinalAssumption  == Finals \subseteq {"done", "blocked"}

TaskStatuses  == {"ready", "claimed", "executing", "done", "blocked"}
ASSUME TxManualAssumption == ManualStatuses \subseteq TaskStatuses
LeaseStatuses == {"active", "renewed", "expired", "released", "done", "blocked"}
LeaseOps      == {"claim", "renew", "release", "finish"}
Ops           == LeaseOps \cup {"update", "read"}
Outcomes      == {"ok", "LEASE_CONFLICT", "TASK_NOT_CLAIMABLE", "LEASE_EXPIRED"}
LeaseRows     == [task : Tasks, agent : Agents, status : LeaseStatuses,
                  expires : Nat \cup {Nil}, released : BOOLEAN]
ASSUME TxNilAssumption ==
    Nil \notin Nat \cup Sessions \cup Tasks \cup Leases \cup Keys \cup Outcomes \cup LeaseRows

VARIABLES
    clock,       \* wall clock of the database server
    task,        \* orchestration_tasks.status, as committed
    taskNew,     \* newest version of each task row, committed or not
    taskLock,    \* the transaction that wrote the newest version, or Nil
    lease,       \* task_leases, as committed
    leaseNew,    \* newest version of each lease row
    leaseLock,   \* the transaction that wrote it, or Nil
    agentLock,   \* the transaction that holds the agents row (upsert_agent), or Nil
    record,      \* idempotency_records: committed outcomes
    pc,          \* the statement each session runs next
    call,        \* its call's arguments
    now,         \* now() of its transaction, if a statement of it uses it
    seenTask,    \* the task status it read, Nil before
    seenLease,   \* the lease row it read, Nil before or when there is none
    sweep,       \* the leases its cleanup UPDATE still has to visit
    lapsed,      \* the tasks of the leases its cleanup expired, still to reset
    claims       \* history: the leases claimed under each key

rows    == << task, taskNew, taskLock, lease, leaseNew, leaseLock, agentLock >>
locals  == << call, now, seenTask, seenLease, sweep, lapsed >>
results == << record, claims >>
vars    == << clock, rows, pc, locals, results >>

-----------------------------------------------------------------------------
(* Calls. *)

NoCall   == [op |-> Nil, agent |-> Nil, task |-> Nil, lease |-> Nil, arg |-> Nil, key |-> Nil]
ReadCall == [NoCall EXCEPT !.op = "read"]

KeysOf(op) == {Nil} \cup IF op \in KeyedOps THEN Keys ELSE {}

\* arg: the lifetime of a claim or a renewal, the final status of a finish,
\* the status of an update.
Calls ==
    [op : {"claim"}, agent : Agents, task : Tasks, lease : {Nil}, arg : TTLs, key : KeysOf("claim")]
    \cup [op : {"renew"}, agent : {Nil}, task : {Nil}, lease : Leases, arg : TTLs, key : KeysOf("renew")]
    \cup [op : {"release"}, agent : {Nil}, task : {Nil}, lease : Leases, arg : {Nil}, key : KeysOf("release")]
    \cup [op : {"finish"}, agent : {Nil}, task : {Nil}, lease : Leases, arg : Finals, key : KeysOf("finish")]
    \cup [op : {"update"}, agent : {Nil}, task : Tasks, lease : {Nil}, arg : ManualStatuses, key : {Nil}]

Statements == {"idle", "lookup", "scan", "sweep", "reset", "readTask", "readLease", "agent",
               "insertLease", "setLease", "setTask", "handoff"} \cup Outcomes

TypeOK ==
    /\ clock \in 0..MaxClock
    /\ task \in [Tasks -> TaskStatuses] /\ taskNew \in [Tasks -> TaskStatuses]
    /\ taskLock \in [Tasks -> Sessions \cup {Nil}]
    /\ lease \in [Leases -> LeaseRows \cup {Nil}] /\ leaseNew \in [Leases -> LeaseRows \cup {Nil}]
    /\ leaseLock \in [Leases -> Sessions \cup {Nil}]
    /\ agentLock \in [Agents -> Sessions \cup {Nil}]
    /\ record \in [LeaseOps \X Keys -> Outcomes \cup {Nil}]
    /\ pc \in [Sessions -> Statements]
    /\ call \in [Sessions -> Calls \cup {NoCall, ReadCall}]
    /\ now \in [Sessions -> 0..MaxClock]
    /\ seenTask \in [Sessions -> TaskStatuses \cup {Nil}]
    /\ seenLease \in [Sessions -> LeaseRows \cup {Nil}]
    /\ sweep \in [Sessions -> SUBSET Leases]
    /\ lapsed \in [Sessions -> SUBSET Tasks]
    /\ claims \in [Keys -> SUBSET Leases]

Init ==
    /\ clock = 0
    /\ task = [t \in Tasks |-> "ready"] /\ taskNew = task
    /\ taskLock = [t \in Tasks |-> Nil]
    /\ lease = [l \in Leases |-> Nil] /\ leaseNew = lease
    /\ leaseLock = [l \in Leases |-> Nil]
    /\ agentLock = [a \in Agents |-> Nil]
    /\ record = [ok \in LeaseOps \X Keys |-> Nil]
    /\ pc = [s \in Sessions |-> "idle"]
    /\ call = [s \in Sessions |-> NoCall]
    /\ now = [s \in Sessions |-> 0]
    /\ seenTask = [s \in Sessions |-> Nil] /\ seenLease = [s \in Sessions |-> Nil]
    /\ sweep = [s \in Sessions |-> {}]
    /\ lapsed = [s \in Sessions |-> {}]
    /\ claims = [k \in Keys |-> {}]

-----------------------------------------------------------------------------
(* Rows as a transaction sees and writes them. *)

TaskSeenBy(s, t)  == IF taskLock[t] = s THEN taskNew[t] ELSE task[t]
LeaseSeenBy(s, l) == IF leaseLock[l] = s THEN leaseNew[l] ELSE lease[l]

TaskFree(s, t)  == taskLock[t] \in {Nil, s}
LeaseFree(s, l) == leaseLock[l] \in {Nil, s}

WriteTask(s, t, status) ==
    /\ taskNew' = [taskNew EXCEPT ![t] = status]
    /\ taskLock' = [taskLock EXCEPT ![t] = s]

WriteLease(s, l, row) ==
    /\ leaseNew' = [leaseNew EXCEPT ![l] = row]
    /\ leaseLock' = [leaseLock EXCEPT ![l] = s]

\* released_at IS NULL AND status IN ('active', 'renewed'), and lease_is_active.
IsActive(row) == row # Nil /\ ~row.released /\ row.status \in {"active", "renewed"}

ActiveOn(t, table) == {l \in Leases : IsActive(table[l]) /\ table[l].task = t}

IsOverdue(row, instant) ==
    IsActive(row) /\ row.expires # Nil /\ row.expires <= instant

ExpiryOf(s) == IF call[s].arg = Nil THEN Nil ELSE now[s] + call[s].arg

-----------------------------------------------------------------------------
(* The end of a transaction. *)

Forget(s) ==
    /\ pc' = [pc EXCEPT ![s] = "idle"]
    /\ call' = [call EXCEPT ![s] = NoCall]
    /\ now' = [now EXCEPT ![s] = 0]
    /\ seenTask' = [seenTask EXCEPT ![s] = Nil]
    /\ seenLease' = [seenLease EXCEPT ![s] = Nil]
    /\ sweep' = [sweep EXCEPT ![s] = {}]
    /\ lapsed' = [lapsed EXCEPT ![s] = {}]

Unlock(s) ==
    /\ taskLock' = [t \in Tasks |-> IF taskLock[t] = s THEN Nil ELSE taskLock[t]]
    /\ leaseLock' = [l \in Leases |-> IF leaseLock[l] = s THEN Nil ELSE leaseLock[l]]
    /\ agentLock' = [a \in Agents |-> IF agentLock[a] = s THEN Nil ELSE agentLock[a]]

Rollback(s) ==
    /\ Forget(s)
    /\ Unlock(s)
    /\ taskNew' = [t \in Tasks |-> IF taskLock[t] = s THEN task[t] ELSE taskNew[t]]
    /\ leaseNew' = [l \in Leases |-> IF leaseLock[l] = s THEN lease[l] ELSE leaseNew[l]]
    /\ UNCHANGED << clock, task, lease, results >>

\* Fault: outcomes are not stored.
RememberNothing(s, outcome) == UNCHANGED record

\* remember_idempotency: ON CONFLICT (operation, idempotency_key) DO NOTHING.
Remember(s, outcome) ==
    LET op == call[s].op  k == call[s].key IN
    record' = IF k = Nil \/ record[<<op, k>>] # Nil THEN record
              ELSE [record EXCEPT ![<<op, k>>] = outcome]

(***************************************************************************)
(* The last statements and the COMMIT.  The UPDATE of the worker session by *)
(* a renewal waits for another renewal, the INSERT of the outcome for a call *)
(* under the same key, and both for nobody who is not at this very step:     *)
(* they are one step.                                                       *)
(***************************************************************************)
Commit(s) ==
    LET granted == {l \in Leases : leaseLock[l] = s /\ lease[l] = Nil} IN
    /\ pc[s] \in Outcomes
    /\ task' = [t \in Tasks |-> IF taskLock[t] = s THEN taskNew[t] ELSE task[t]]
    /\ lease' = [l \in Leases |-> IF leaseLock[l] = s THEN leaseNew[l] ELSE lease[l]]
    /\ Remember(s, pc[s])
    /\ claims' = IF call[s].key = Nil THEN claims
                 ELSE [claims EXCEPT ![call[s].key] = @ \cup granted]
    /\ Unlock(s)
    /\ Forget(s)
    /\ UNCHANGED << clock, taskNew, leaseNew >>

-----------------------------------------------------------------------------
(* Statements. *)

Goto(s, statement) == pc' = [pc EXCEPT ![s] = statement]

(***************************************************************************)
(* cleanup_expired_task_leases_cursor, in claim_task and in the reads.  The *)
(* UPDATE of task_leases visits the rows its snapshot found overdue and     *)
(* tests each again once it is free; then one UPDATE per expired lease      *)
(* resets the task.                                                         *)
(***************************************************************************)
OverdueAt(instant) == {l \in Leases : IsOverdue(lease[l], instant)}

AfterCleanup(op) == IF op = "claim" THEN "readTask" ELSE "ok"

NextOfCleanup(op, toVisit, toReset) ==
    IF toVisit # {} THEN "sweep" ELSE IF toReset # {} THEN "reset" ELSE AfterCleanup(op)

ScanLeases(s) ==
    /\ pc[s] = "scan"
    /\ sweep' = [sweep EXCEPT ![s] = OverdueAt(now[s])]
    /\ Goto(s, NextOfCleanup(call[s].op, OverdueAt(now[s]), {}))
    /\ UNCHANGED << clock, rows, call, now, seenTask, seenLease, lapsed, results >>

ExpireLease(s, l) ==
    LET expires == IsOverdue(lease[l], now[s])
        toReset == lapsed[s] \cup (IF expires THEN {lease[l].task} ELSE {})
    IN  /\ pc[s] = "sweep"
        /\ l \in sweep[s]
        /\ LeaseFree(s, l)
        /\ IF expires
           THEN WriteLease(s, l, [lease[l] EXCEPT !.status = "expired", !.released = TRUE])
           ELSE UNCHANGED << leaseNew, leaseLock >>
        /\ sweep' = [sweep EXCEPT ![s] = @ \ {l}]
        /\ lapsed' = [lapsed EXCEPT ![s] = toReset]
        /\ Goto(s, NextOfCleanup(call[s].op, sweep[s] \ {l}, toReset))
        /\ UNCHANGED << clock, task, taskNew, taskLock, lease, agentLock, call, now, seenTask,
                        seenLease, results >>

\* Fault: a claimed task is not taken back.
InProgressExecutingOnly(status) == status = "executing"

InProgress(status) == status \in {"claimed", "executing"}

\* Fault: the UPDATE has no status condition.
ResetTaskAlways(s, t) == TaskFree(s, t) /\ WriteTask(s, t, "ready")

\* UPDATE ... SET status = 'ready' WHERE id = t AND status IN ('claimed', 'executing'):
\* a row that does not match is not waited for.
ResetTask(s, t) ==
    IF InProgress(TaskSeenBy(s, t))
    THEN TaskFree(s, t) /\ WriteTask(s, t, "ready")
    ELSE UNCHANGED << taskNew, taskLock >>

ResetLapsed(s, t) ==
    /\ pc[s] = "reset"
    /\ t \in lapsed[s]
    /\ ResetTask(s, t)
    /\ lapsed' = [lapsed EXCEPT ![s] = @ \ {t}]
    /\ Goto(s, NextOfCleanup(call[s].op, {}, lapsed[s] \ {t}))
    /\ UNCHANGED << clock, task, lease, leaseNew, leaseLock, agentLock, call, now, seenTask,
                    seenLease, sweep, results >>

(***************************************************************************)
(* idempotency_result, then the guards of the lease operations on the row   *)
(* read before it.  A hit ends the call without a change.                   *)
(***************************************************************************)
AfterLookup(c, row) ==
    CASE c.op = "claim"  -> "scan"
      [] c.op = "update" -> "setTask"
      [] OTHER -> IF ~IsActive(row) THEN "LEASE_EXPIRED"
                  ELSE IF c.op = "finish" THEN "setTask" ELSE "setLease"

Hit(s) == record[<<call[s].op, call[s].key>>] # Nil

Replay(s) ==
    /\ pc[s] = "lookup"
    /\ Hit(s)
    /\ Rollback(s)

Lookup(s) ==
    /\ pc[s] = "lookup"
    /\ ~Hit(s)
    /\ Goto(s, AfterLookup(call[s], seenLease[s]))
    /\ UNCHANGED << clock, rows, locals, results >>

(***************************************************************************)
(* The first statement of a call.  claim_task and update_task_state read    *)
(* the task for its run; the lease operations read the lease row their      *)
(* guards test.  Without a key there is no idempotency SELECT to run.       *)
(***************************************************************************)
Begin(s, c) ==
    LET row == IF c.lease = Nil THEN Nil ELSE lease[c.lease] IN
    /\ pc[s] = "idle"
    /\ c.key = Nil \/ s \in KeyUsers
    /\ call' = [call EXCEPT ![s] = c]
    /\ now' = [now EXCEPT ![s] = IF c.op \in {"claim", "renew"} THEN clock ELSE 0]
    /\ seenLease' = [seenLease EXCEPT ![s] = row]
    /\ Goto(s, IF c.key = Nil THEN AfterLookup(c, row) ELSE "lookup")
    /\ UNCHANGED << clock, rows, seenTask, sweep, lapsed, results >>

\* get_run, get_claimable_tasks, get_readiness_report: the cleanup UPDATE first;
\* without an overdue lease they only read.
BeginRead(s) ==
    /\ pc[s] = "idle"
    /\ OverdueAt(clock) # {}
    /\ call' = [call EXCEPT ![s] = ReadCall]
    /\ now' = [now EXCEPT ![s] = clock]
    /\ sweep' = [sweep EXCEPT ![s] = OverdueAt(clock)]
    /\ Goto(s, "sweep")
    /\ UNCHANGED << clock, rows, seenTask, seenLease, lapsed, results >>

-----------------------------------------------------------------------------
(* claim_task. *)

ReadTask(s) ==
    /\ pc[s] = "readTask"
    /\ seenTask' = [seenTask EXCEPT ![s] = TaskSeenBy(s, call[s].task)]
    /\ Goto(s, "readLease")
    /\ UNCHANGED << clock, rows, call, now, seenLease, sweep, lapsed, results >>

\* get_active_task_lease_cursor, and the test of the status read before.
ReadActiveLease(s) ==
    LET visible == [l \in Leases |-> LeaseSeenBy(s, l)] IN
    /\ pc[s] = "readLease"
    /\ Goto(s, IF ActiveOn(call[s].task, visible) # {} THEN "LEASE_CONFLICT"
               ELSE IF seenTask[s] # "ready" THEN "TASK_NOT_CLAIMABLE" ELSE "agent")
    /\ UNCHANGED << clock, rows, locals, results >>

\* Who has locked the row of an agent to write its name, part of a key; and the
\* finishes that refer to it.
WritersOf(a)   == {agentLock[a]} \ {Nil}
ReferrersTo(a) == {u \in Sessions : call[u].op = "finish" /\ pc[u] = "ok" /\ seenLease[u].agent = a}

\* upsert_agent: INSERT ... ON CONFLICT DO UPDATE SET name keeps the row locked.
UpsertAgent(s) ==
    /\ pc[s] = "agent"
    /\ WritersOf(call[s].agent) = {} /\ ReferrersTo(call[s].agent) = {}
    /\ agentLock' = [agentLock EXCEPT ![call[s].agent] = s]
    /\ Goto(s, "insertLease")
    /\ UNCHANGED << clock, task, taskNew, taskLock, lease, leaseNew, leaseLock, locals, results >>

\* Fault: an index that does not see open transactions.
NoIndexBlockers(s, t) == {}

\* The open transactions the unique index makes an INSERT for task t wait for.
IndexBlockers(s, t) ==
    {u \in Sessions \ {s} :
        \E l \in ActiveOn(t, lease) \cup ActiveOn(t, leaseNew) : leaseLock[l] = u}

IndexClash(s, t) == ActiveOn(t, [l \in Leases |-> LeaseSeenBy(s, l)]) # {}

InsertLease(s, l) ==
    /\ pc[s] = "insertLease"
    /\ leaseNew[l] = Nil
    /\ IndexBlockers(s, call[s].task) = {}
    /\ ~IndexClash(s, call[s].task)
    /\ WriteLease(s, l, [task |-> call[s].task, agent |-> call[s].agent, status |-> "active",
                         expires |-> ExpiryOf(s), released |-> FALSE])
    /\ Goto(s, "setTask")
    /\ UNCHANGED << clock, task, taskNew, taskLock, lease, agentLock, locals, results >>

\* psycopg.errors.UniqueViolation: rollback, answer LEASE_CONFLICT, remember nothing.
UniqueViolation(s) ==
    /\ pc[s] = "insertLease"
    /\ IndexBlockers(s, call[s].task) = {}
    /\ IndexClash(s, call[s].task)
    /\ Rollback(s)

\* The bound on lease ids: a claim that would need one more is cut off.
OutOfLeaseIds(s) ==
    /\ pc[s] = "insertLease"
    /\ \A l \in Leases : leaseNew[l] # Nil
    /\ Rollback(s)

-----------------------------------------------------------------------------
(* The UPDATEs by id. *)

TaskOf(s) == IF call[s].task = Nil THEN seenLease[s].task ELSE call[s].task

\* claim: 'claimed'; finish: the final status; update: the caller's; all
\* unconditional.  release: back to 'ready' if still in progress.
SetTask(s) ==
    /\ pc[s] = "setTask"
    /\ IF call[s].op = "release" THEN ResetTask(s, TaskOf(s))
       ELSE /\ TaskFree(s, TaskOf(s))
            /\ WriteTask(s, TaskOf(s), IF call[s].op = "claim" THEN "claimed" ELSE call[s].arg)
    /\ Goto(s, IF call[s].op = "finish" THEN "setLease" ELSE "ok")
    /\ UNCHANGED << clock, task, lease, leaseNew, leaseLock, agentLock, locals, results >>

\* What renew, release and finish write over the newest version of the row,
\* whatever became of it since it was read.
LeaseUpdate(s, row) ==
    CASE call[s].op = "renew"   -> [row EXCEPT !.status = "renewed", !.expires = ExpiryOf(s)]
      [] call[s].op = "release" -> [row EXCEPT !.status = "released", !.released = TRUE]
      [] call[s].op = "finish"  -> [row EXCEPT !.status = call[s].arg, !.released = TRUE]

\* Fault: a renewal goes on to the task of its lease.
SetLeaseAndTask(s) ==
    /\ pc[s] = "setLease"
    /\ LeaseFree(s, call[s].lease)
    /\ WriteLease(s, call[s].lease, LeaseUpdate(s, leaseNew[call[s].lease]))
    /\ lapsed' = [lapsed EXCEPT ![s] = IF call[s].op = "renew" THEN {TaskOf(s)} ELSE @]
    /\ Goto(s, CASE call[s].op = "release" -> "setTask"
                 [] call[s].op = "renew" -> "reset"
                 [] OTHER -> "handoff")
    /\ UNCHANGED << clock, task, taskNew, taskLock, lease, agentLock, call, now, seenTask,
                    seenLease, sweep, results >>

SetLease(s) ==
    /\ pc[s] = "setLease"
    /\ LeaseFree(s, call[s].lease)
    /\ WriteLease(s, call[s].lease, LeaseUpdate(s, leaseNew[call[s].lease]))
    /\ Goto(s, CASE call[s].op = "release" -> "setTask"
                 [] call[s].op = "finish" -> "handoff"
                 [] OTHER -> "ok")
    /\ UNCHANGED << clock, task, taskNew, taskLock, lease, agentLock, locals, results >>

\* finish: the handoff and the action refer to the agent of the lease.
InsertHandoff(s) ==
    /\ pc[s] = "handoff"
    /\ WritersOf(seenLease[s].agent) = {}
    /\ Goto(s, "ok")
    /\ UNCHANGED << clock, rows, locals, results >>

-----------------------------------------------------------------------------
(* What ends a transaction early. *)

\* The client dies or its connection is lost between two statements.
Crash(s) == pc[s] # "idle" /\ Rollback(s)

\* A conditional reset finds t in progress and its row written by another.
WaitsForTask(s, t) == InProgress(TaskSeenBy(s, t)) /\ ~TaskFree(s, t)

\* The open transactions whose locks the next statement of s waits for.
WaitsFor(s) ==
    CASE pc[s] = "sweep" ->
             IF \E l \in sweep[s] : LeaseFree(s, l) THEN {}
             ELSE {leaseLock[l] : l \in sweep[s]}
      [] pc[s] = "reset" ->
             IF \E t \in lapsed[s] : ~WaitsForTask(s, t) THEN {}
             ELSE {taskLock[t] : t \in lapsed[s]}
      [] pc[s] = "agent" -> WritersOf(call[s].agent) \cup ReferrersTo(call[s].agent)
      [] pc[s] = "insertLease" -> IndexBlockers(s, call[s].task)
      [] pc[s] = "setTask" ->
             IF TaskFree(s, TaskOf(s)) \/ (call[s].op = "release" /\ ~WaitsForTask(s, TaskOf(s)))
             THEN {} ELSE {taskLock[TaskOf(s)]}
      [] pc[s] = "setLease" ->
             IF LeaseFree(s, call[s].lease) THEN {} ELSE {leaseLock[call[s].lease]}
      [] pc[s] = "handoff" -> WritersOf(seenLease[s].agent)
      [] OTHER -> {}

\* s waits in a set of transactions each of which waits for another of the set.
Deadlocked(s) ==
    \E C \in SUBSET Sessions : s \in C /\ \A u \in C : WaitsFor(u) \cap C # {}

\* PostgreSQL aborts it; DeadlockDetected leaves the operation unhandled.
DeadlockAbort(s) == Deadlocked(s) /\ Rollback(s)

Tick ==
    /\ clock < MaxClock
    /\ clock' = clock + 1
    /\ UNCHANGED << rows, pc, locals, results >>

-----------------------------------------------------------------------------
Statement(s) ==
    \/ Replay(s) \/ Lookup(s)
    \/ ScanLeases(s)
    \/ \E l \in Leases : ExpireLease(s, l)
    \/ \E t \in Tasks : ResetLapsed(s, t)
    \/ ReadTask(s) \/ ReadActiveLease(s) \/ UpsertAgent(s)
    \/ \E l \in Leases : InsertLease(s, l)
    \/ UniqueViolation(s) \/ OutOfLeaseIds(s)
    \/ SetTask(s) \/ SetLease(s) \/ InsertHandoff(s)
    \/ Commit(s)
    \/ DeadlockAbort(s)

Next ==
    \/ \E s \in Sessions :
          \/ \E c \in Calls : Begin(s, c)
          \/ BeginRead(s)
          \/ Statement(s)
          \/ Crash(s)
    \/ Tick

Spec == Init /\ [][Next]_vars

-----------------------------------------------------------------------------
(* Properties. *)

\* A task left in 'claimed' always has an active lease: no interleaving of
\* claims, releases, finishes and expiries strands a task in a status that
\* claim_task refuses and no lease will ever leave.
NoStrandedTask == \A t \in Tasks : task[t] = "claimed" => ActiveOn(t, lease) # {}

\* Only update_task_state makes a finished task ready again; a late release or
\* an expiry sweep never does (the WHERE status IN of both).
NoResurrection ==
    [][\A t \in Tasks :
          task[t] \in {"done", "blocked"} /\ task'[t] = "ready" =>
              \E s \in Sessions : call[s].op = "update" /\ pc[s] = "ok" /\ pc'[s] = "idle"]_vars

\* A key claims once: a retry that comes after its predecessor has ended, however
\* that ended, is answered with what the predecessor did (idempotency_result,
\* remember_idempotency), while other sessions race for the same task.
KeyedOnce == \A k \in Keys : \A l, m \in claims[k] : l = m

\* Transactions that wait for one another in a circle always include a release
\* or a cleanup that expired a lease, which write the lease before its task,
\* against a finish and the claims; or a finish whose handoff waits for the row
\* of its agent, which a claim of that agent writes first and holds to its end.
\* Whatever else runs locks in one order.
LocksInOrder ==
    \A C \in (SUBSET Sessions) \ {{}} :
        (\A u \in C : WaitsFor(u) \cap C # {}) =>
            \E u \in C :
               \/ call[u].op = "release"
               \/ \E l \in Leases : leaseLock[l] = u /\ leaseNew[l].status = "expired"
               \/ /\ call[u].op = "finish" /\ pc[u] = "handoff"
                  /\ \E w \in C : call[w].op = "claim" /\ call[w].agent = seenLease[u].agent

\* The lease table implements the ownership contract.
Ownership == INSTANCE LeaseOwnership WITH
    held    <- [t \in Tasks |-> ActiveOn(t, lease)],
    granted <- {l \in Leases : lease[l] # Nil}
OwnershipSpec == Ownership!Spec
=============================================================================
