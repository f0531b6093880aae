---------------------- MODULE LeaseTransactions_proofs ----------------------
(***************************************************************************)
(* Proofs about LeaseTransactions, for every value of its constants.        *)
(*                                                                         *)
(* The argument has three layers.  Discipline says of each transaction, by  *)
(* the statement it has come to, which rows it may hold and what it has     *)
(* written there; it is inductive by itself, and a step of one session      *)
(* leaves it true of the others (OthersObey).  Exclusive relates the rows   *)
(* of different transactions: what the unique index does.  On these two     *)
(* rest the properties, each with the one fact that it needs besides:       *)
(* TakesBack, FromProgress, KeysKept.                                       *)
(***************************************************************************)
EXTENDS LeaseTransactions, TLAPS

-----------------------------------------------------------------------------
(* What holds in every state. *)

\* Statements of a call that come after its cleanup.
Cleaned == {"readTask", "readLease", "agent", "insertLease", "setTask", "ok",
            "LEASE_CONFLICT", "TASK_NOT_CLAIMABLE"}

\* The operations on a lease by its id.
OnLease(s) == call[s].op \in {"renew", "release", "finish"}

\* Where a call is tells which operation it is, and what it has read.
Staged(s) ==
    /\ pc[s] # "idle" => call[s] \in Calls \cup {ReadCall}
    /\ pc[s] = "lookup" => call[s].op \in LeaseOps
    /\ pc[s] \in {"scan", "readTask", "readLease", "agent", "insertLease",
                  "LEASE_CONFLICT", "TASK_NOT_CLAIMABLE"} => call[s].op = "claim"
    /\ pc[s] \in {"sweep", "reset"} => call[s].op \in {"claim", "read"}
    /\ pc[s] \in {"setLease", "LEASE_EXPIRED"} => OnLease(s)
    /\ pc[s] = "setTask" => call[s].op \in {"claim", "update", "finish", "release"}
    /\ pc[s] = "handoff" => call[s].op = "finish"
    /\ lapsed[s] # {} => pc[s] \in {"sweep", "reset"}

\* The row a lease operation read is that of its lease, and was active if the
\* operation got past its guard.
ReadRow(s) ==
    pc[s] # "idle" /\ OnLease(s) =>
        /\ seenLease[s] # Nil =>
              /\ lease[call[s].lease] # Nil
              /\ lease[call[s].lease].task = seenLease[s].task
        /\ pc[s] \in {"setTask", "setLease", "handoff"} => IsActive(seenLease[s])

\* The transaction has expired a lease.
Expired(s) == \E l \in Leases : leaseLock[l] = s /\ leaseNew[l].status = "expired"

\* Who may hold a task row, and what it has written there.
HoldsTask(s, t) ==
    \/ call[s].op = "update" /\ pc[s] = "ok" /\ taskNew[t] = call[s].arg
    \/ /\ call[s].op = "finish" /\ pc[s] \in {"setLease", "handoff", "ok"}
       /\ t = TaskOf(s) /\ taskNew[t] \in Finals
    \/ call[s].op = "release" /\ pc[s] = "ok" /\ taskNew[t] = "ready"
    \/ /\ call[s].op \in {"claim", "read"} /\ pc[s] \in Cleaned \cup {"reset"}
       /\ taskNew[t] = "ready" /\ Expired(s)
    \/ call[s].op = "claim" /\ pc[s] = "ok" /\ taskNew[t] = "claimed" /\ t = call[s].task

\* Who may hold a lease row, and what it has written there.
HoldsLease(s, l) ==
    \/ /\ call[s].op = "claim" /\ pc[s] \in {"setTask", "ok"}
       /\ lease[l] = Nil /\ IsActive(leaseNew[l]) /\ leaseNew[l].task = call[s].task
    \/ /\ call[s].op \in {"claim", "read"} /\ pc[s] \in Cleaned \cup {"sweep", "reset"}
       /\ lease[l] # Nil /\ leaseNew[l].released /\ leaseNew[l].status = "expired"
    \/ /\ call[s].op = "renew" /\ pc[s] = "ok"
       /\ lease[l] # Nil /\ (IsActive(lease[l]) => IsActive(leaseNew[l]))
    \/ /\ call[s].op = "finish" /\ pc[s] \in {"handoff", "ok"}
       /\ lease[l] # Nil /\ l = call[s].lease /\ leaseNew[l].released
    \/ /\ call[s].op = "release" /\ pc[s] \in {"setTask", "ok"}
       /\ lease[l] # Nil /\ l = call[s].lease /\ leaseNew[l].released

\* A row nobody holds is as committed; a lease row keeps its task, and once
\* released stays released; what is not released is active.
Rows ==
    /\ \A t \in Tasks : taskLock[t] = Nil => taskNew[t] = task[t]
    /\ \A l \in Leases :
          /\ leaseLock[l] = Nil => leaseNew[l] = lease[l]
          /\ lease[l] # Nil =>
                /\ leaseNew[l] # Nil /\ leaseNew[l].task = lease[l].task
                /\ lease[l].released => leaseNew[l].released
          /\ lease[l] # Nil => IsActive(lease[l]) \/ lease[l].released
          /\ leaseNew[l] # Nil => IsActive(leaseNew[l]) \/ leaseNew[l].released

\* What a session has done by the time it is where it is.
Done(s) ==
    /\ call[s].op = "claim" /\ pc[s] \in {"setTask", "ok"} =>
          \E l \in Leases : leaseLock[l] = s /\ lease[l] = Nil
    /\ call[s].op = "finish" /\ pc[s] = "setLease" => taskLock[TaskOf(s)] = s
    /\ lapsed[s] # {} => Expired(s)

\* What a session holds it may hold.
HoldersOf(s) ==
    /\ \A t \in Tasks : taskLock[t] = s => HoldsTask(s, t)
    /\ \A l \in Leases : leaseLock[l] = s => leaseNew[l] # Nil /\ HoldsLease(s, l)
    /\ \A a \in Agents : agentLock[a] = s =>
          /\ call[s].op = "claim" /\ call[s].agent = a
          /\ pc[s] \in {"insertLease", "setTask", "ok"}

\* One session's part of the discipline.
Obeys(s) == HoldersOf(s) /\ Staged(s) /\ ReadRow(s) /\ Done(s)

\* The inductive invariant on transactions and their rows.
Discipline ==
    /\ TypeOK
    /\ Rows
    /\ \A s \in Sessions : Obeys(s)

\* No two leases of a task are active, among the committed rows and among the
\* newest; when one is in each of them, a transaction is replacing the other.
Exclusive ==
    \A l, m \in Leases :
        l # m /\ leaseNew[l] # Nil /\ leaseNew[m] # Nil /\ leaseNew[l].task = leaseNew[m].task =>
            /\ ~(IsActive(lease[l]) /\ IsActive(lease[m]))
            /\ ~(IsActive(leaseNew[l]) /\ IsActive(leaseNew[m]))
            /\ IsActive(lease[l]) /\ IsActive(leaseNew[m]) => leaseLock[l] = leaseLock[m]

\* The transaction ends the lease.
Ends(s, l) == leaseLock[l] = s /\ IsActive(lease[l]) /\ ~IsActive(leaseNew[l])

\* Who ends a lease takes its task back, has still to do so, or found it free.
TakesBack ==
    \A s \in Sessions, l \in Leases :
        Ends(s, l) =>
            \/ lease[l].task \in lapsed[s]
            \/ pc[s] = "setTask" /\ call[s].op = "release"
            \/ taskLock[lease[l].task] = s
            \/ task[lease[l].task] # "claimed"

\* A task is made ready by a caller, or was not finished when its row was taken.
FromProgress ==
    \A s \in Sessions, t \in Tasks :
        taskLock[t] = s /\ taskNew[t] = "ready" /\ call[s].op # "update" =>
            task[t] \notin {"done", "blocked"}

\* A claim past the lookup of its key found no record; what was claimed under a
\* key is on record; keys come from the sessions that send them.
KeysKept ==
    /\ \A s \in Sessions : pc[s] # "idle" /\ call[s].key # Nil =>
          /\ s \in KeyUsers
          /\ pc[s] # "lookup" /\ call[s].op = "claim" => record[<<"claim", call[s].key>>] = Nil
    /\ \A k \in Keys : claims[k] # {} => record[<<"claim", k>>] # Nil

USE DEF rows, locals, results, LeaseOps, Ops

-----------------------------------------------------------------------------

\* What is in the fields of a call, by its operation.
LEMMA CallFields ==
    ASSUME NEW c \in Calls \cup {ReadCall}
    PROVE  /\ c.op \in Ops
           /\ c \in Calls => c.op # "read"
           /\ c.key \in Keys \cup {Nil}
           /\ c.key # Nil => c.op \in LeaseOps
           /\ c.op \in {"claim", "update"} => c.task \in Tasks /\ c.lease = Nil
           /\ c.op = "claim" => c.agent \in Agents
           /\ c.op \in {"renew", "release", "finish"} => c.task = Nil /\ c.lease \in Leases
           /\ c.op \in {"claim", "renew"} => c.arg \in TTLs
           /\ c.op = "finish" => c.arg \in Finals
           /\ c.op = "update" => c.arg \in ManualStatuses
<1>0. c \in Calls => c.op # "read"
  BY DEF Calls
<1>1. CASE c = ReadCall
  BY <1>0, <1>1 DEF ReadCall, NoCall
<1>2. CASE c \in Calls
  BY <1>2 DEF Calls, KeysOf
<1> QED BY <1>1, <1>2

\* What is in the fields of a lease row.
LEMMA RowFields ==
    ASSUME NEW row \in LeaseRows
    PROVE  /\ row # Nil
           /\ row.task \in Tasks /\ row.agent \in Agents /\ row.status \in LeaseStatuses /\ row.released \in BOOLEAN
           /\ row.expires \in Nat \cup {Nil}
  BY TxNilAssumption DEF LeaseRows

\* A step of s leaves alone what another session has done and holds.
Apart(s) ==
    /\ \A u \in Sessions \ {s} :
          /\ call'[u] = call[u] /\ pc'[u] = pc[u] /\ seenLease'[u] = seenLease[u]
          /\ lapsed'[u] = lapsed[u]
          /\ \A t \in Tasks : taskLock'[t] = u <=> taskLock[t] = u
          /\ \A l \in Leases : leaseLock'[l] = u <=> leaseLock[l] = u
          /\ \A t \in Tasks : taskLock[t] = u => taskNew'[t] = taskNew[t]
          /\ \A l \in Leases : leaseLock[l] = u => leaseNew'[l] = leaseNew[l] /\ lease'[l] = lease[l]
          /\ \A a \in Agents : agentLock'[a] = u => agentLock[a] = u
    /\ \A l \in Leases : lease[l] # Nil => lease'[l] # Nil /\ lease'[l].task = lease[l].task

\* A step that leaves another session apart leaves it as orderly as it was.
LEMMA OthersObey ==
    ASSUME Discipline, NEW s \in Sessions, Apart(s), NEW u \in Sessions, u # s
    PROVE  Obeys(u)'
<1> USE DEF Discipline, Obeys
<1>1. /\ call'[u] = call[u] /\ pc'[u] = pc[u] /\ seenLease'[u] = seenLease[u]
      /\ lapsed'[u] = lapsed[u]
      /\ \A t \in Tasks : taskLock'[t] = u <=> taskLock[t] = u
      /\ \A l \in Leases : leaseLock'[l] = u <=> leaseLock[l] = u
      /\ \A t \in Tasks : taskLock[t] = u => taskNew'[t] = taskNew[t]
      /\ \A l \in Leases : leaseLock[l] = u => leaseNew'[l] = leaseNew[l] /\ lease'[l] = lease[l]
      /\ \A a \in Agents : agentLock'[a] = u => agentLock[a] = u
      /\ \A l \in Leases : lease[l] # Nil => lease'[l] # Nil /\ lease'[l].task = lease[l].task
  BY DEF Apart
<1>2. Staged(u)'
  BY <1>1 DEF Staged, OnLease
<1>3. pc[u] # "idle" /\ OnLease(u) => call[u].lease \in Leases
  BY CallFields DEF Staged, OnLease
<1>4. ReadRow(u)'
  BY <1>1, <1>3 DEF ReadRow, OnLease, IsActive
<1>5. Expired(u)' <=> Expired(u)
  BY <1>1 DEF Expired
<1>6. TaskOf(u)' = TaskOf(u)
  BY <1>1 DEF TaskOf
<1>7. pc[u] = "setLease" /\ call[u].op = "finish" => TaskOf(u) \in Tasks
  <2> SUFFICES ASSUME pc[u] = "setLease", call[u].op = "finish" PROVE TaskOf(u) \in Tasks
    OBVIOUS
  <2>1. IsActive(seenLease[u]) /\ seenLease[u] \in LeaseRows \cup {Nil}
    BY DEF ReadRow, OnLease, TypeOK
  <2>2. seenLease[u].task \in Tasks
    BY <2>1, RowFields DEF IsActive
  <2>3. call[u].task = Nil
    BY CallFields DEF Staged
  <2> QED BY <2>2, <2>3 DEF TaskOf
<1>8. Done(u)'
  BY <1>1, <1>5, <1>6, <1>7 DEF Done
<1>9. HoldersOf(u)'
  <2>1. ASSUME NEW t \in Tasks, taskLock'[t] = u PROVE HoldsTask(u, t)'
    BY <1>1, <1>5, <1>6, <2>1 DEF HoldersOf, HoldsTask
  <2>2. ASSUME NEW l \in Leases, leaseLock'[l] = u PROVE leaseNew'[l] # Nil /\ HoldsLease(u, l)'
    BY <1>1, <2>2 DEF HoldersOf, HoldsLease, IsActive
  <2>3. ASSUME NEW a \in Agents, agentLock'[a] = u
        PROVE  /\ call'[u].op = "claim" /\ call'[u].agent = a
               /\ pc'[u] \in {"insertLease", "setTask", "ok"}
    BY <1>1, <2>3 DEF HoldersOf
  <2> QED BY <2>1, <2>2, <2>3 DEF HoldersOf
<1> QED BY <1>2, <1>4, <1>8, <1>9

\* Nobody has a call yet.
LEMMA DisciplineInit == Init => Discipline
<1> SUFFICES ASSUME Init PROVE Discipline
  OBVIOUS
<1> USE TxNilAssumption, TxBoundsAssumption DEF Init
<1>1. TypeOK
  BY DEF TypeOK, TaskStatuses, Statements
<1>2. Rows
  BY DEF Rows
<1>3. ASSUME NEW s \in Sessions PROVE Obeys(s)
  BY DEF Obeys, HoldersOf, Staged, ReadRow, Done
<1> QED
  BY <1>1, <1>2, <1>3 DEF Discipline

\* Who is idle, or has not begun to clean up, holds nothing.
LEMMA HoldsNothing ==
    ASSUME Discipline, NEW s \in Sessions, pc[s] \in {"idle", "lookup", "scan"}
    PROVE  /\ \A t \in Tasks : taskLock[t] # s
           /\ \A l \in Leases : leaseLock[l] # s
           /\ \A a \in Agents : agentLock[a] # s
  BY DEF Discipline, Obeys, HoldersOf, HoldsTask, HoldsLease, Cleaned

\* Beginning a call, and looking up its key.
LEMMA BeginKeeps ==
    ASSUME Discipline, NEW s \in Sessions, NEW c \in Calls, Begin(s, c)
    PROVE  Discipline' /\ Apart(s)
<1> DEFINE row == IF c.lease = Nil THEN Nil ELSE lease[c.lease]
           first == IF c.key = Nil THEN AfterLookup(c, row) ELSE "lookup"
<1>1. /\ pc[s] = "idle"
      /\ call' = [call EXCEPT ![s] = c]
      /\ now' = [now EXCEPT ![s] = IF c.op \in {"claim", "renew"} THEN clock ELSE 0]
      /\ seenLease' = [seenLease EXCEPT ![s] = row]
      /\ pc' = [pc EXCEPT ![s] = first]
      /\ UNCHANGED << clock, rows, seenTask, sweep, lapsed, results >>
  BY DEF Begin, Goto
<1>0. /\ c.key # Nil => c.op \in LeaseOps
      /\ c.op \in LeaseOps \cup {"update"}
      /\ c.lease # Nil => c.lease \in Leases
  BY CallFields
<1>2. row \in LeaseRows \cup {Nil}
  <2>1. lease \in [Leases -> LeaseRows \cup {Nil}]
    BY DEF Discipline, TypeOK
  <2> QED BY <1>0, <2>1
<1>3. /\ first \in Statements
      /\ first = "lookup" => c.op \in LeaseOps
      /\ first = "scan" => c.op = "claim"
      /\ first \in {"setLease", "LEASE_EXPIRED"} => c.op \in {"renew", "release", "finish"}
      /\ first = "setTask" => c.op \in {"update", "finish"}
      /\ first \in {"lookup", "scan", "setLease", "LEASE_EXPIRED", "setTask"}
      /\ first = "setLease" => c.op # "finish"
      /\ first \in {"setTask", "setLease"} /\ c.op # "update" => IsActive(row)
  BY <1>0 DEF AfterLookup, Statements, Outcomes
<1> HIDE DEF row, first
<1>4. call \in [Sessions -> Calls \cup {NoCall, ReadCall}] /\ pc \in [Sessions -> Statements]
      /\ seenLease \in [Sessions -> LeaseRows \cup {Nil}]
  BY DEF Discipline, TypeOK
<1>5. TypeOK'
  <2>1. clock \in 0..MaxClock /\ 0 \in 0..MaxClock
    BY TxBoundsAssumption DEF Discipline, TypeOK
  <2> QED BY <1>1, <1>2, <1>3, <2>1 DEF Discipline, TypeOK
<1>6. Rows'
  BY <1>1 DEF Discipline, Rows, IsActive
<1>7. Obeys(s)'
  <2>1. call'[s] = c /\ pc'[s] = first /\ seenLease'[s] = row
    BY <1>1, <1>4
  <2>2. Staged(s)'
    BY <2>1, <1>1, <1>3 DEF Staged, OnLease, Discipline, Obeys
  <2>3. ReadRow(s)'
    BY <2>1, <1>1, <1>3, CallFields DEF ReadRow, OnLease, row, IsActive
  <2>4. Done(s)'
    BY <2>1, <1>1, <1>3 DEF Discipline, Obeys, Staged, Done
  <2>5. HoldersOf(s)'
    BY <1>1, HoldsNothing DEF HoldersOf
  <2> QED BY <2>2, <2>3, <2>4, <2>5 DEF Obeys
<1>8. Apart(s)
  BY <1>1, <1>4 DEF Apart
<1> QED
  BY <1>5, <1>6, <1>7, <1>8, OthersObey DEF Discipline

\* Statements that only read.
LEMMA ReadKeeps ==
    ASSUME Discipline, NEW s \in Sessions,
           \/ BeginRead(s) \/ Lookup(s) \/ ScanLeases(s) \/ ReadTask(s) \/ ReadActiveLease(s)
    PROVE  Discipline' /\ Apart(s)
<1>0. UNCHANGED << clock, rows, lapsed, results >>
  BY DEF BeginRead, Lookup, ScanLeases, ReadTask, ReadActiveLease
<1>1. TypeOK'
  <2> USE <1>0 DEF Discipline, TypeOK, Goto
  <2>1. CASE BeginRead(s)
    BY <2>1 DEF BeginRead, OverdueAt, Statements
  <2>2. CASE Lookup(s)
    <3>1. AfterLookup(call[s], seenLease[s]) \in Statements
      BY DEF AfterLookup, Statements, Outcomes
    <3> QED BY <2>2, <3>1 DEF Lookup
  <2>3. CASE ScanLeases(s)
    BY <2>3 DEF ScanLeases, NextOfCleanup, AfterCleanup, OverdueAt, Statements, Outcomes
  <2>4. CASE ReadTask(s)
    <3>1. TaskSeenBy(s, call[s].task) \in TaskStatuses
      <4>1. call[s].op = "claim" /\ call[s] \in Calls \cup {ReadCall}
        BY <2>4 DEF ReadTask, Obeys, Staged
      <4> QED BY <4>1, CallFields DEF TaskSeenBy
    <3> QED BY <2>4, <3>1 DEF ReadTask, Statements
  <2>5. CASE ReadActiveLease(s)
    BY <2>5 DEF ReadActiveLease, Statements, Outcomes
  <2> QED BY <2>1, <2>2, <2>3, <2>4, <2>5
<1>2. Rows'
  BY <1>0 DEF Discipline, Rows, IsActive
<1>3. Apart(s)
  BY <1>0 DEF Apart, BeginRead, Lookup, ScanLeases, ReadTask, ReadActiveLease, Goto, Discipline, TypeOK
<1>4. Obeys(s)'
  <2>0. Obeys(s) /\ pc \in [Sessions -> Statements] /\ call \in [Sessions -> Calls \cup {NoCall, ReadCall}]
    BY DEF Discipline, TypeOK
  <2> USE <1>0, <2>0 DEF Goto
  <2>1. CASE BeginRead(s)
    <3>1. call'[s] = ReadCall /\ pc[s] = "idle" /\ pc'[s] = "sweep" /\ ReadCall.op = "read"
      BY <2>1 DEF BeginRead, ReadCall, NoCall
    <3>2. HoldersOf(s)'
      BY <3>1, HoldsNothing DEF HoldersOf
    <3>3. Staged(s)' /\ ReadRow(s)' /\ Done(s)'
      BY <3>1 DEF Obeys, Staged, ReadRow, OnLease, Done
    <3> QED BY <3>2, <3>3 DEF Obeys
  <2>2. CASE Lookup(s)
    <3>1. /\ pc[s] = "lookup" /\ pc'[s] = AfterLookup(call[s], seenLease[s]) /\ UNCHANGED locals
          /\ call[s].op \in LeaseOps
      BY <2>2 DEF Lookup, Obeys, Staged
    <3>2. /\ pc'[s] \in {"scan", "setLease", "LEASE_EXPIRED", "setTask"}
          /\ pc'[s] = "scan" <=> call[s].op = "claim"
          /\ pc'[s] = "setTask" => call[s].op = "finish" /\ IsActive(seenLease[s])
          /\ pc'[s] = "setLease" => call[s].op \in {"renew", "release"} /\ IsActive(seenLease[s])
      BY <3>1 DEF AfterLookup
    <3>3. HoldersOf(s)'
      BY <3>1, HoldsNothing DEF HoldersOf
    <3>4. Staged(s)' /\ ReadRow(s)' /\ Done(s)'
      BY <3>1, <3>2 DEF Obeys, Staged, ReadRow, OnLease, Done, IsActive
    <3> QED BY <3>3, <3>4 DEF Obeys
  <2>3. CASE ScanLeases(s)
    <3>1. /\ pc[s] = "scan" /\ pc'[s] \in {"sweep", "readTask"} /\ call[s].op = "claim"
          /\ UNCHANGED << call, seenLease >>
      BY <2>3 DEF ScanLeases, Obeys, Staged, NextOfCleanup, AfterCleanup
    <3>2. HoldersOf(s)'
      BY <3>1, HoldsNothing DEF HoldersOf
    <3>3. Staged(s)' /\ ReadRow(s)' /\ Done(s)'
      BY <3>1 DEF Obeys, Staged, ReadRow, OnLease, Done
    <3> QED BY <3>2, <3>3 DEF Obeys
  <2>4. CASE ReadTask(s) \/ ReadActiveLease(s)
    <3>1. /\ pc[s] \in {"readTask", "readLease"} /\ call[s].op = "claim"
          /\ pc'[s] \in {"readLease", "LEASE_CONFLICT", "TASK_NOT_CLAIMABLE", "agent"}
          /\ UNCHANGED << call, seenLease >>
      BY <2>4 DEF ReadTask, ReadActiveLease, Obeys, Staged
    <3>2. HoldersOf(s)'
      BY <3>1 DEF Obeys, HoldersOf, HoldsTask, HoldsLease, Expired, Cleaned, IsActive
    <3>3. Staged(s)' /\ ReadRow(s)' /\ Done(s)'
      BY <3>1 DEF Obeys, Staged, ReadRow, OnLease, Done
    <3> QED BY <3>2, <3>3 DEF Obeys
  <2> QED BY <2>1, <2>2, <2>3, <2>4
<1> QED
  BY <1>1, <1>2, <1>3, <1>4, OthersObey DEF Discipline

\* The clock reads and writes no row.
LEMMA TickKeeps == ASSUME Discipline, Tick PROVE Discipline'
<1>1. clock' \in 0..MaxClock /\ UNCHANGED << rows, pc, locals, results >>
  BY TxBoundsAssumption DEF Tick, Discipline, TypeOK
<1>2. TypeOK'
  BY <1>1 DEF Discipline, TypeOK
<1>3. Rows'
  BY <1>1 DEF Discipline, Rows, IsActive
<1>4. ASSUME NEW s \in Sessions PROVE Obeys(s)'
  BY <1>1 DEF Discipline, Obeys, HoldersOf, HoldsTask, HoldsLease, Expired, TaskOf, IsActive,
              Staged, ReadRow, OnLease, Done
<1> QED BY <1>2, <1>3, <1>4 DEF Discipline

\* The expiry a claim or a renewal writes: its lifetime after now(), or none.
LEMMA ExpiryType ==
    ASSUME Discipline, NEW s \in Sessions, call[s].op \in {"claim", "renew"}, pc[s] # "idle"
    PROVE  ExpiryOf(s) \in Nat \cup {Nil}
<1>1. call[s].arg \in TTLs
  BY CallFields DEF Discipline, Obeys, Staged
<1>2. now[s] \in Nat
  BY TxBoundsAssumption DEF Discipline, TypeOK
<1>3. call[s].arg \in Nat \cup {Nil}
  BY <1>1, TxBoundsAssumption
<1> QED
  BY <1>2, <1>3 DEF ExpiryOf

\* The task of a call that updates a task.
LEMMA TaskOfType ==
    ASSUME Discipline, NEW s \in Sessions, pc[s] \in {"setTask", "setLease"}
    PROVE  /\ TaskOf(s) \in Tasks
           /\ call[s].op \in {"claim", "update"} => TaskOf(s) = call[s].task
           /\ OnLease(s) =>
                 /\ call[s].lease \in Leases
                 /\ lease[call[s].lease] # Nil
                 /\ TaskOf(s) = lease[call[s].lease].task
<1>0. Staged(s) /\ ReadRow(s)
  BY DEF Discipline, Obeys
<1>1. CASE call[s].op \in {"claim", "update"}
  <2>1. call[s].task \in Tasks /\ call[s].task # Nil
    BY <1>0, <1>1, CallFields, TxNilAssumption DEF Staged
  <2> QED BY <2>1, <1>1 DEF TaskOf, OnLease
<1>2. CASE OnLease(s)
  <2>1. call[s].task = Nil /\ call[s].lease \in Leases
    BY <1>0, <1>2, CallFields DEF Staged, OnLease
  <2>2. seenLease[s] \in LeaseRows /\ lease[call[s].lease] # Nil
        /\ lease[call[s].lease].task = seenLease[s].task
    BY <1>0, <1>2 DEF ReadRow, IsActive, Discipline, TypeOK
  <2> QED BY <2>1, <2>2, <1>2, RowFields DEF TaskOf, OnLease
<1> QED
  BY <1>0, <1>1, <1>2 DEF Staged, OnLease

\* A session's write of a task row.
LEMMA TaskWrite ==
    ASSUME Discipline, NEW s \in Sessions, NEW t \in Tasks, TaskFree(s, t),
           NEW status \in TaskStatuses, WriteTask(s, t, status)
    PROVE  /\ taskNew' \in [Tasks -> TaskStatuses]
           /\ taskLock' \in [Tasks -> Sessions \cup {Nil}]
           /\ taskNew'[t] = status /\ taskLock'[t] = s
           /\ \A v \in Tasks \ {t} : taskNew'[v] = taskNew[v] /\ taskLock'[v] = taskLock[v]
           /\ \A u \in Sessions \ {s}, v \in Tasks :
                 /\ taskLock'[v] = u <=> taskLock[v] = u
                 /\ taskLock[v] = u => taskNew'[v] = taskNew[v]
  BY TxNilAssumption DEF Discipline, TypeOK, TaskFree, WriteTask

\* A session's write of a lease row.
LEMMA LeaseWrite ==
    ASSUME Discipline, NEW s \in Sessions, NEW l \in Leases, LeaseFree(s, l),
           NEW row \in LeaseRows, WriteLease(s, l, row)
    PROVE  /\ leaseNew' \in [Leases -> LeaseRows \cup {Nil}]
           /\ leaseLock' \in [Leases -> Sessions \cup {Nil}]
           /\ leaseNew'[l] = row /\ leaseLock'[l] = s
           /\ \A m \in Leases \ {l} : leaseNew'[m] = leaseNew[m] /\ leaseLock'[m] = leaseLock[m]
           /\ \A u \in Sessions \ {s}, m \in Leases :
                 /\ leaseLock'[m] = u <=> leaseLock[m] = u
                 /\ leaseLock[m] = u => leaseNew'[m] = leaseNew[m]
  BY TxNilAssumption DEF Discipline, TypeOK, LeaseFree, WriteLease

\* One step of the cleanup's first UPDATE.
LEMMA ExpireKeeps ==
    ASSUME Discipline, NEW s \in Sessions, NEW l \in Leases, ExpireLease(s, l)
    PROVE  Discipline' /\ Apart(s)
<1> DEFINE expires == IsOverdue(lease[l], now[s])
           toReset == lapsed[s] \cup (IF expires THEN {lease[l].task} ELSE {})
           ended == [lease[l] EXCEPT !.status = "expired", !.released = TRUE]
           next == NextOfCleanup(call[s].op, sweep[s] \ {l}, toReset)
<1>1. /\ pc[s] = "sweep" /\ LeaseFree(s, l)
      /\ expires => WriteLease(s, l, ended)
      /\ ~expires => UNCHANGED << leaseNew, leaseLock >>
      /\ sweep' = [sweep EXCEPT ![s] = @ \ {l}]
      /\ lapsed' = [lapsed EXCEPT ![s] = toReset]
      /\ pc' = [pc EXCEPT ![s] = next]
      /\ UNCHANGED << clock, task, taskNew, taskLock, lease, agentLock, call, now, seenTask,
                      seenLease, results >>
  BY DEF ExpireLease, Goto
<1>2. Staged(s) /\ call[s].op \in {"claim", "read"} /\ pc \in [Sessions -> Statements]
  BY <1>1 DEF Discipline, Obeys, Staged, TypeOK
<1>3. /\ next \in {"sweep", "reset", "readTask", "ok"}
      /\ toReset # {} => next \in {"sweep", "reset"}
      /\ next = "readTask" => call[s].op = "claim"
      /\ next = "ok" => call[s].op # "claim"
  BY DEF NextOfCleanup, AfterCleanup
<1>4. expires => /\ lease[l] \in LeaseRows /\ lease[l] # Nil
                 /\ ended \in LeaseRows /\ ended # Nil /\ ended.task = lease[l].task
                 /\ ended.status = "expired" /\ ended.released
                 /\ lease[l].task \in Tasks
  <2> SUFFICES ASSUME expires PROVE /\ lease[l] \in LeaseRows /\ lease[l] # Nil
                 /\ ended \in LeaseRows /\ ended # Nil /\ ended.task = lease[l].task
                 /\ ended.status = "expired" /\ ended.released
                 /\ lease[l].task \in Tasks
    OBVIOUS
  <2>1. lease[l] \in LeaseRows /\ lease[l] # Nil
    BY DEF IsOverdue, IsActive, Discipline, TypeOK
  <2> QED
    <3>1. ended \in LeaseRows
      BY <2>1 DEF LeaseRows, LeaseStatuses
    <3> QED BY <2>1, <3>1, RowFields DEF LeaseRows
<1>5. /\ leaseNew' \in [Leases -> LeaseRows \cup {Nil}]
      /\ leaseLock' \in [Leases -> Sessions \cup {Nil}]
      /\ \A m \in Leases \ {l} : leaseNew'[m] = leaseNew[m] /\ leaseLock'[m] = leaseLock[m]
      /\ expires => leaseNew'[l] = ended /\ leaseLock'[l] = s
      /\ ~expires => leaseNew'[l] = leaseNew[l] /\ leaseLock'[l] = leaseLock[l]
      /\ \A u \in Sessions \ {s}, m \in Leases :
            /\ leaseLock'[m] = u <=> leaseLock[m] = u
            /\ leaseLock[m] = u => leaseNew'[m] = leaseNew[m]
  <2> HIDE DEF ended, expires
  <2>1. CASE expires
    BY <2>1, <1>1, <1>4, LeaseWrite
  <2>2. CASE ~expires
    BY <2>2, <1>1 DEF Discipline, TypeOK
  <2> QED BY <2>1, <2>2
<1> HIDE DEF next, ended, expires
<1>6. TypeOK'
  <2>1. toReset \in SUBSET Tasks
    BY <1>4 DEF Discipline, TypeOK
  <2>2. next \in Statements
    BY <1>3 DEF Statements, Outcomes
  <2> HIDE DEF toReset
  <2> QED
    BY <1>1, <1>5, <2>1, <2>2 DEF Discipline, TypeOK
<1>7. Rows'
  <2>1. ASSUME NEW m \in Leases
        PROVE  /\ leaseLock'[m] = Nil => leaseNew'[m] = lease'[m]
               /\ lease'[m] # Nil =>
                     /\ leaseNew'[m] # Nil /\ leaseNew'[m].task = lease'[m].task
                     /\ lease'[m].released => leaseNew'[m].released
               /\ lease'[m] # Nil => IsActive(lease'[m]) \/ lease'[m].released
               /\ leaseNew'[m] # Nil => IsActive(leaseNew'[m]) \/ leaseNew'[m].released
    BY <1>1, <1>4, <1>5, TxNilAssumption DEF Discipline, Rows
  <2>2. \A t \in Tasks : taskLock'[t] = Nil => taskNew'[t] = task'[t]
    BY <1>1 DEF Discipline, Rows
  <2> QED BY <2>1, <2>2 DEF Rows, IsActive
<1>8. Apart(s)
  BY <1>1, <1>5 DEF Apart, Discipline, TypeOK
<1>9. Obeys(s)'
  <2>1. pc'[s] = next /\ lapsed'[s] = toReset /\ UNCHANGED << call, seenLease, lease >>
    BY <1>1, <1>2 DEF Discipline, TypeOK
  <2>2. Staged(s)'
    BY <1>1, <1>2, <1>3, <2>1 DEF Staged, OnLease
  <2>3. ReadRow(s)'
    BY <1>2, <2>1 DEF ReadRow, OnLease
  <2>4. Expired(s) => Expired(s)'
    BY <1>4, <1>5 DEF Expired
  <2>5. toReset # {} => Expired(s)'
    BY <1>4, <1>5, <2>4 DEF Expired, Discipline, Obeys, Done
  <2>6. Done(s)'
    BY <1>2, <1>3, <2>1, <2>5 DEF Done
  <2>7. HoldersOf(s)'
    <3>1. ASSUME NEW t \in Tasks, taskLock'[t] = s PROVE FALSE
      BY <1>1, <3>1 DEF Discipline, Obeys, HoldersOf, HoldsTask, Cleaned
    <3>2. ASSUME NEW m \in Leases, leaseLock'[m] = s PROVE leaseNew'[m] # Nil /\ HoldsLease(s, m)'
      <4>1. /\ call'[s].op \in {"claim", "read"} /\ pc'[s] \in Cleaned \cup {"sweep", "reset"}
            /\ lease' = lease
        BY <1>2, <1>3, <2>1, <1>1 DEF Cleaned
      <4>2. CASE m = l /\ expires
        BY <4>1, <4>2, <1>4, <1>5 DEF HoldsLease
      <4>3. CASE m # l \/ ~expires
        <5>1. leaseLock[m] = s /\ leaseNew'[m] = leaseNew[m]
          BY <3>2, <4>3, <1>5
        <5>2. leaseNew[m] # Nil /\ HoldsLease(s, m)
          BY <5>1 DEF Discipline, Obeys, HoldersOf
        <5> QED BY <5>1, <5>2, <4>1, <1>1, <1>2 DEF HoldsLease
      <4> QED BY <4>2, <4>3
    <3>3. ASSUME NEW a \in Agents, agentLock'[a] = s PROVE FALSE
      BY <1>1, <3>3 DEF Discipline, Obeys, HoldersOf
    <3> QED BY <3>1, <3>2, <3>3 DEF HoldersOf
  <2> QED BY <2>2, <2>3, <2>6, <2>7 DEF Obeys
<1> QED
  BY <1>6, <1>7, <1>8, <1>9, OthersObey DEF Discipline

\* The other UPDATEs of the cleanup.
LEMMA ResetTaskWrites ==
    ASSUME Discipline, NEW s \in Sessions, NEW t \in Tasks, ResetTask(s, t)
    PROVE  /\ taskNew' \in [Tasks -> TaskStatuses]
           /\ taskLock' \in [Tasks -> Sessions \cup {Nil}]
           /\ \A v \in Tasks \ {t} : taskNew'[v] = taskNew[v] /\ taskLock'[v] = taskLock[v]
           /\ \A u \in Sessions \ {s}, v \in Tasks :
                 /\ taskLock'[v] = u <=> taskLock[v] = u
                 /\ taskLock[v] = u => taskNew'[v] = taskNew[v]
           /\ \/ taskNew'[t] = "ready" /\ taskLock'[t] = s /\ InProgress(TaskSeenBy(s, t))
              \/ /\ taskNew'[t] = taskNew[t] /\ taskLock'[t] = taskLock[t]
                 /\ ~InProgress(TaskSeenBy(s, t))
<1>1. CASE InProgress(TaskSeenBy(s, t))
  <2>1. TaskFree(s, t) /\ WriteTask(s, t, "ready") /\ "ready" \in TaskStatuses
    BY <1>1 DEF ResetTask, TaskStatuses
  <2> QED BY <1>1, <2>1, TaskWrite
<1>2. CASE ~InProgress(TaskSeenBy(s, t))
  BY <1>2 DEF ResetTask, Discipline, TypeOK
<1> QED BY <1>1, <1>2

\* A reset of a lapsed lease's task.
LEMMA ResetKeeps ==
    ASSUME Discipline, NEW s \in Sessions, NEW t \in Tasks, ResetLapsed(s, t)
    PROVE  Discipline' /\ Apart(s)
<1> DEFINE next == NextOfCleanup(call[s].op, {}, lapsed[s] \ {t})
<1>1. /\ pc[s] = "reset" /\ t \in lapsed[s]
      /\ ResetTask(s, t)
      /\ lapsed' = [lapsed EXCEPT ![s] = @ \ {t}]
      /\ pc' = [pc EXCEPT ![s] = next]
      /\ UNCHANGED << clock, task, lease, leaseNew, leaseLock, agentLock, call, now, seenTask,
                      seenLease, sweep, results >>
  BY DEF ResetLapsed, Goto
<1>2. Obeys(s) /\ call[s].op \in {"claim", "read"} /\ pc \in [Sessions -> Statements] /\ Expired(s)
  BY <1>1 DEF Discipline, Obeys, Staged, Done, TypeOK
<1>3. /\ next \in {"reset", "readTask", "ok"}
      /\ lapsed[s] \ {t} # {} => next = "reset"
      /\ next = "readTask" => call[s].op = "claim"
      /\ next = "ok" => call[s].op # "claim"
  BY DEF NextOfCleanup, AfterCleanup
<1> HIDE DEF next
<1>4. TypeOK'
  BY <1>1, <1>3, ResetTaskWrites DEF Discipline, TypeOK, Statements, Outcomes
<1>5. Rows'
  <2>1. ASSUME NEW v \in Tasks, taskLock'[v] = Nil PROVE taskNew'[v] = task'[v]
    BY <1>1, <2>1, ResetTaskWrites, TxNilAssumption DEF Discipline, Rows
  <2> QED BY <1>1, <2>1 DEF Discipline, Rows, IsActive
<1>6. Apart(s)
  BY <1>1, ResetTaskWrites DEF Apart, Discipline, TypeOK
<1>7. Obeys(s)'
  <2>1. pc'[s] = next /\ lapsed'[s] = lapsed[s] \ {t} /\ UNCHANGED << call, seenLease, lease >>
    BY <1>1, <1>2 DEF Discipline, TypeOK
  <2>2. Staged(s)'
    BY <1>1, <1>2, <1>3, <2>1 DEF Obeys, Staged, OnLease
  <2>3. ReadRow(s)'
    BY <1>2, <2>1 DEF ReadRow, OnLease
  <2>4. Expired(s)'
    BY <1>1, <1>2 DEF Expired
  <2>5. Done(s)'
    BY <1>2, <1>3, <2>1, <2>4 DEF Done
  <2>6. HoldersOf(s)'
    <3>1. ASSUME NEW v \in Tasks, taskLock'[v] = s PROVE HoldsTask(s, v)'
      <4>1. taskNew'[v] = "ready"
        BY <1>1, <1>2, <3>1, ResetTaskWrites DEF Obeys, HoldersOf, HoldsTask, Cleaned
      <4> QED BY <4>1, <1>1, <1>2, <1>3, <2>1, <2>4 DEF HoldsTask, Cleaned
    <3>2. ASSUME NEW l \in Leases, leaseLock'[l] = s PROVE leaseNew'[l] # Nil /\ HoldsLease(s, l)'
      BY <1>1, <1>2, <1>3, <2>1, <3>2 DEF Obeys, HoldersOf, HoldsLease, Cleaned
    <3>3. ASSUME NEW a \in Agents, agentLock'[a] = s PROVE FALSE
      BY <1>1, <1>2, <3>3 DEF Obeys, HoldersOf
    <3> QED BY <3>1, <3>2, <3>3 DEF HoldersOf
  <2> QED BY <2>2, <2>3, <2>5, <2>6 DEF Obeys
<1> QED
  BY <1>4, <1>5, <1>6, <1>7, OthersObey DEF Discipline

\* upsert_agent.
LEMMA UpsertKeeps ==
    ASSUME Discipline, NEW s \in Sessions, UpsertAgent(s)
    PROVE  Discipline' /\ Apart(s)
<1> DEFINE agent == call[s].agent
<1>1. /\ pc[s] = "agent" /\ agent \in Agents /\ agentLock[agent] = Nil
      /\ agentLock' = [agentLock EXCEPT ![agent] = s]
      /\ pc' = [pc EXCEPT ![s] = "insertLease"]
      /\ UNCHANGED << clock, task, taskNew, taskLock, lease, leaseNew, leaseLock, locals, results >>
  BY CallFields DEF UpsertAgent, Goto, WritersOf, Discipline, Obeys, Staged
<1>2. Obeys(s) /\ call[s].op = "claim" /\ pc'[s] = "insertLease"
  BY <1>1 DEF Discipline, Obeys, Staged, TypeOK
<1>3. TypeOK'
  BY <1>1 DEF Discipline, TypeOK, Statements
<1>4. Rows'
  BY <1>1 DEF Discipline, Rows, IsActive
<1>5. Apart(s)
  BY <1>1, TxNilAssumption DEF Apart, Discipline, TypeOK
<1>6. Obeys(s)'
  <2>1. Staged(s)' /\ ReadRow(s)' /\ Done(s)'
    BY <1>1, <1>2 DEF Obeys, Staged, ReadRow, OnLease, Done
  <2>2. HoldersOf(s)'
    BY <1>1, <1>2 DEF Obeys, HoldersOf, HoldsTask, HoldsLease, Expired, Cleaned, IsActive
  <2> QED BY <2>1, <2>2 DEF Obeys
<1> QED
  BY <1>3, <1>4, <1>5, <1>6, OthersObey DEF Discipline

\* What the INSERT of a claim writes.
LEMMA InsertWrites ==
    ASSUME Discipline, NEW s \in Sessions, NEW l \in Leases, InsertLease(s, l)
    PROVE  /\ leaseNew[l] = Nil /\ lease[l] = Nil /\ leaseLock[l] = Nil
           /\ call[s].op = "claim" /\ call[s].task \in Tasks
           /\ leaseNew' \in [Leases -> LeaseRows \cup {Nil}]
           /\ leaseLock' \in [Leases -> Sessions \cup {Nil}]
           /\ leaseLock'[l] = s /\ leaseNew'[l] \in LeaseRows
           /\ IsActive(leaseNew'[l]) /\ leaseNew'[l].task = call[s].task
           /\ ~leaseNew'[l].released
           /\ \A m \in Leases \ {l} : leaseNew'[m] = leaseNew[m] /\ leaseLock'[m] = leaseLock[m]
           /\ \A u \in Sessions \ {s}, m \in Leases :
                 /\ leaseLock'[m] = u <=> leaseLock[m] = u
                 /\ leaseLock[m] = u => leaseNew'[m] = leaseNew[m]
<1> DEFINE row == [task |-> call[s].task, agent |-> call[s].agent, status |-> "active",
                   expires |-> ExpiryOf(s), released |-> FALSE]
<1>1. leaseNew[l] = Nil /\ pc[s] = "insertLease" /\ WriteLease(s, l, row)
  BY DEF InsertLease
<1>2. leaseLock[l] = Nil
  <2>1. ASSUME NEW u \in Sessions, leaseLock[l] = u PROVE FALSE
    BY <1>1, <2>1 DEF Discipline, Obeys, HoldersOf
  <2> QED BY <2>1 DEF Discipline, TypeOK
<1>3. lease[l] = Nil
  BY <1>1, <1>2 DEF Discipline, Rows
<1>4. call[s].op = "claim" /\ call[s].task \in Tasks /\ call[s].agent \in Agents
  BY <1>1, CallFields DEF Discipline, Obeys, Staged
<1>5. ExpiryOf(s) \in Nat \cup {Nil}
  BY <1>1, <1>4, ExpiryType
<1>6. row \in LeaseRows
  BY <1>4, <1>5 DEF LeaseRows, LeaseStatuses
<1>7. IsActive(row) /\ row.task = call[s].task /\ ~row.released
  BY <1>6, RowFields DEF IsActive
<1> HIDE DEF row
<1>8. LeaseFree(s, l)
  BY <1>2 DEF LeaseFree
<1> QED
  BY <1>1, <1>2, <1>3, <1>4, <1>6, <1>7, <1>8, LeaseWrite

\* The INSERT of a claim.
LEMMA InsertKeeps ==
    ASSUME Discipline, NEW s \in Sessions, NEW l \in Leases, InsertLease(s, l)
    PROVE  Discipline' /\ Apart(s)
<1>1. /\ pc[s] = "insertLease"
      /\ pc' = [pc EXCEPT ![s] = "setTask"]
      /\ UNCHANGED << clock, task, taskNew, taskLock, lease, agentLock, locals, results >>
  BY DEF InsertLease, Goto
<1>2. Obeys(s) /\ call[s].op = "claim" /\ pc'[s] = "setTask"
  BY <1>1 DEF Discipline, Obeys, Staged, TypeOK
<1>3. TypeOK'
  BY <1>1, InsertWrites DEF Discipline, TypeOK, Statements
<1>4. Rows'
  <2>1. ASSUME NEW m \in Leases
        PROVE  /\ leaseLock'[m] = Nil => leaseNew'[m] = lease'[m]
               /\ lease'[m] # Nil =>
                     /\ leaseNew'[m] # Nil /\ leaseNew'[m].task = lease'[m].task
                     /\ lease'[m].released => leaseNew'[m].released
               /\ lease'[m] # Nil => IsActive(lease'[m]) \/ lease'[m].released
               /\ leaseNew'[m] # Nil => IsActive(leaseNew'[m]) \/ leaseNew'[m].released
    BY <1>1, InsertWrites, TxNilAssumption DEF Discipline, Rows
  <2>2. \A t \in Tasks : taskLock'[t] = Nil => taskNew'[t] = task'[t]
    BY <1>1 DEF Discipline, Rows
  <2> QED BY <2>1, <2>2 DEF Rows, IsActive
<1>5. Apart(s)
  BY <1>1, InsertWrites DEF Apart, Discipline, TypeOK
<1>6. Obeys(s)'
  <2>1. Staged(s)' /\ ReadRow(s)'
    BY <1>1, <1>2 DEF Obeys, Staged, ReadRow, OnLease
  <2>2. Done(s)'
    BY <1>1, <1>2, InsertWrites DEF Obeys, Staged, Done
  <2>3. Expired(s) => Expired(s)'
    BY InsertWrites, TxNilAssumption DEF Expired
  <2>4. HoldersOf(s)'
    <3>1. ASSUME NEW t \in Tasks, taskLock'[t] = s PROVE HoldsTask(s, t)'
      BY <1>1, <1>2, <2>3, <3>1 DEF Obeys, HoldersOf, HoldsTask, Cleaned
    <3>2. ASSUME NEW m \in Leases, leaseLock'[m] = s PROVE leaseNew'[m] # Nil /\ HoldsLease(s, m)'
      <4>1. CASE m = l
        BY <4>1, <1>1, <1>2, InsertWrites, TxNilAssumption DEF HoldsLease, IsActive
      <4>2. CASE m # l
        <5>1. leaseLock[m] = s /\ leaseNew'[m] = leaseNew[m] /\ leaseNew[m] # Nil /\ HoldsLease(s, m)
          BY <4>2, <3>2, <1>2, InsertWrites DEF Obeys, HoldersOf
        <5> QED BY <5>1, <1>1, <1>2 DEF HoldsLease, Cleaned, IsActive
      <4> QED BY <4>1, <4>2
    <3>3. ASSUME NEW a \in Agents, agentLock'[a] = s
          PROVE  /\ call'[s].op = "claim" /\ call'[s].agent = a
                 /\ pc'[s] \in {"insertLease", "setTask", "ok"}
      BY <1>1, <1>2, <3>3 DEF Obeys, HoldersOf
    <3> QED BY <3>1, <3>2, <3>3 DEF HoldersOf
  <2> QED BY <2>1, <2>2, <2>4 DEF Obeys
<1> QED
  BY <1>3, <1>4, <1>5, <1>6, OthersObey DEF Discipline

\* What SetTask writes, whichever the operation.
LEMMA SetTaskWrites ==
    ASSUME Discipline, NEW s \in Sessions, SetTask(s)
    PROVE  /\ TaskOf(s) \in Tasks
           /\ taskNew' \in [Tasks -> TaskStatuses]
           /\ taskLock' \in [Tasks -> Sessions \cup {Nil}]
           /\ \A v \in Tasks \ {TaskOf(s)} : taskNew'[v] = taskNew[v] /\ taskLock'[v] = taskLock[v]
           /\ \A u \in Sessions \ {s}, v \in Tasks :
                 /\ taskLock'[v] = u <=> taskLock[v] = u
                 /\ taskLock[v] = u => taskNew'[v] = taskNew[v]
           /\ call[s].op # "release" =>
                 /\ taskLock'[TaskOf(s)] = s
                 /\ taskNew'[TaskOf(s)] = IF call[s].op = "claim" THEN "claimed" ELSE call[s].arg
           /\ call[s].op = "release" =>
                 \/ /\ taskNew'[TaskOf(s)] = "ready" /\ taskLock'[TaskOf(s)] = s
                    /\ InProgress(TaskSeenBy(s, TaskOf(s)))
                 \/ /\ taskNew'[TaskOf(s)] = taskNew[TaskOf(s)]
                    /\ taskLock'[TaskOf(s)] = taskLock[TaskOf(s)]
                    /\ ~InProgress(TaskSeenBy(s, TaskOf(s)))
<1>1. pc[s] = "setTask"
  BY DEF SetTask
<1>2. TaskOf(s) \in Tasks
  BY <1>1, TaskOfType
<1>3. CASE call[s].op = "release"
  <2>1. ResetTask(s, TaskOf(s))
    BY <1>3 DEF SetTask
  <2> QED BY <1>2, <1>3, <2>1, ResetTaskWrites
<1>4. CASE call[s].op # "release"
  <2> DEFINE status == IF call[s].op = "claim" THEN "claimed" ELSE call[s].arg
  <2>1. TaskFree(s, TaskOf(s)) /\ WriteTask(s, TaskOf(s), status)
    BY <1>4 DEF SetTask
  <2>2. call[s].op \in {"claim", "update", "finish"} /\ call[s] \in Calls \cup {ReadCall}
    BY <1>1, <1>4 DEF Discipline, Obeys, Staged
  <2>3. status \in TaskStatuses
    BY <2>2, CallFields, TxFinalAssumption, TxManualAssumption DEF TaskStatuses
  <2> HIDE DEF status
  <2>4. taskNew'[TaskOf(s)] = status /\ taskLock'[TaskOf(s)] = s
    BY <1>2, <2>1, <2>3, TaskWrite
  <2> QED BY <1>2, <1>4, <2>1, <2>3, <2>4, TaskWrite DEF status
<1> QED BY <1>3, <1>4

\* The UPDATE of a task by its id.
LEMMA SetTaskKeeps ==
    ASSUME Discipline, NEW s \in Sessions, SetTask(s)
    PROVE  Discipline' /\ Apart(s)
<1> DEFINE next == IF call[s].op = "finish" THEN "setLease" ELSE "ok"
<1>1. /\ pc[s] = "setTask"
      /\ pc' = [pc EXCEPT ![s] = next]
      /\ UNCHANGED << clock, task, lease, leaseNew, leaseLock, agentLock, locals, results >>
  BY DEF SetTask, Goto
<1>2. /\ Obeys(s) /\ call[s].op \in {"claim", "update", "finish", "release"} /\ pc'[s] = next
      /\ call[s] \in Calls \cup {ReadCall} /\ lapsed[s] = {} /\ next \in {"setLease", "ok"}
      /\ next = "setLease" <=> call[s].op = "finish"
  BY <1>1 DEF Discipline, Obeys, Staged, TypeOK
<1> HIDE DEF next
<1>3. TypeOK'
  BY <1>1, <1>2, SetTaskWrites DEF Discipline, TypeOK, Statements, Outcomes
<1>4. Rows'
  <2>1. ASSUME NEW v \in Tasks, taskLock'[v] = Nil PROVE taskNew'[v] = task'[v]
    BY <1>1, <2>1, SetTaskWrites, TxNilAssumption DEF Discipline, Rows
  <2> QED BY <1>1, <2>1 DEF Discipline, Rows, IsActive
<1>5. Apart(s)
  BY <1>1, SetTaskWrites DEF Apart, Discipline, TypeOK
<1>6. Obeys(s)'
  <2>1. Staged(s)' /\ ReadRow(s)'
    BY <1>1, <1>2 DEF Obeys, Staged, ReadRow, OnLease, IsActive
  <2>2. TaskOf(s)' = TaskOf(s) /\ (Expired(s)' <=> Expired(s))
    BY <1>1 DEF TaskOf, Expired
  <2>3. Done(s)'
    BY <1>1, <1>2, <2>2, SetTaskWrites DEF Obeys, Done
  <2>4. HoldersOf(s)'
    <3>1. ASSUME NEW v \in Tasks, taskLock'[v] = s, v # TaskOf(s) PROVE HoldsTask(s, v)'
      <4>1. taskLock[v] = s /\ taskNew'[v] = taskNew[v] /\ HoldsTask(s, v)
        BY <1>2, <3>1, SetTaskWrites DEF Obeys, HoldersOf
      <4> QED BY <4>1, <1>1, <1>2, <2>2 DEF HoldsTask, Cleaned
    <3>2. ASSUME NEW v \in Tasks, taskLock'[v] = s, v = TaskOf(s) PROVE HoldsTask(s, v)'
      <4>0. call' = call /\ taskLock'[TaskOf(s)] = s /\ TaskOf(s)' = v
        BY <1>1, <2>2, <3>2
      <4>1. CASE call[s].op = "claim"
        <5>1. v = call[s].task /\ taskNew'[v] = "claimed" /\ pc'[s] = "ok"
          BY <1>1, <1>2, <3>2, <4>1, TaskOfType, SetTaskWrites
        <5> QED BY <4>0, <4>1, <5>1 DEF HoldsTask
      <4>2. CASE call[s].op = "update"
        <5>1. taskNew'[v] = call[s].arg /\ pc'[s] = "ok"
          BY <1>2, <3>2, <4>2, SetTaskWrites
        <5> QED BY <4>0, <4>2, <5>1 DEF HoldsTask
      <4>3. CASE call[s].op = "finish"
        <5>1. taskNew'[v] \in Finals /\ pc'[s] = "setLease"
          BY <1>2, <3>2, <4>3, CallFields, SetTaskWrites
        <5> QED BY <4>0, <4>3, <5>1 DEF HoldsTask
      <4>4. CASE call[s].op = "release"
        <5>1. taskLock[TaskOf(s)] # s
          BY <1>1, <1>2, <4>4, SetTaskWrites DEF Obeys, HoldersOf, HoldsTask
        <5>2. taskNew'[v] = "ready" /\ pc'[s] = "ok"
          BY <1>2, <3>2, <4>0, <4>4, <5>1, SetTaskWrites
        <5> QED BY <4>0, <4>4, <5>2 DEF HoldsTask
      <4> QED BY <4>1, <4>2, <4>3, <4>4, <1>2
    <3>3. ASSUME NEW l \in Leases, leaseLock'[l] = s PROVE leaseNew'[l] # Nil /\ HoldsLease(s, l)'
      BY <1>1, <1>2, <3>3 DEF Obeys, HoldersOf, HoldsLease, Cleaned, IsActive
    <3>4. ASSUME NEW a \in Agents, agentLock'[a] = s
          PROVE  /\ call'[s].op = "claim" /\ call'[s].agent = a
                 /\ pc'[s] \in {"insertLease", "setTask", "ok"}
      <4>1. call[s].op = "claim" /\ call[s].agent = a
        BY <1>1, <1>2, <3>4 DEF Obeys, HoldersOf
      <4>2. pc'[s] = "ok" /\ call' = call
        BY <1>1, <1>2, <4>1
      <4> QED BY <4>1, <4>2
    <3> QED BY <3>1, <3>2, <3>3, <3>4 DEF HoldersOf
  <2> QED BY <2>1, <2>3, <2>4 DEF Obeys
<1> QED
  BY <1>3, <1>4, <1>5, <1>6, OthersObey DEF Discipline

\* What SetLease writes: the row stays active under a renewal if it was, and
\* ends under a release or a finish.
LEMMA SetLeaseWrites ==
    ASSUME Discipline, NEW s \in Sessions, SetLease(s), NEW l, l = call[s].lease
    PROVE  /\ OnLease(s) /\ l \in Leases /\ LeaseFree(s, l)
           /\ lease[l] # Nil /\ leaseNew[l] \in LeaseRows /\ leaseLock[l] = Nil
           /\ leaseNew' \in [Leases -> LeaseRows \cup {Nil}]
           /\ leaseLock' \in [Leases -> Sessions \cup {Nil}]
           /\ leaseLock'[l] = s /\ leaseNew'[l] \in LeaseRows
           /\ leaseNew'[l].task = leaseNew[l].task
           /\ call[s].op = "renew" =>
                 /\ leaseNew'[l].released = leaseNew[l].released
                 /\ IsActive(leaseNew'[l]) <=> ~leaseNew[l].released
           /\ call[s].op # "renew" => leaseNew'[l].released
           /\ \A m \in Leases \ {l} : leaseNew'[m] = leaseNew[m] /\ leaseLock'[m] = leaseLock[m]
           /\ \A u \in Sessions \ {s}, m \in Leases :
                 /\ leaseLock'[m] = u <=> leaseLock[m] = u
                 /\ leaseLock[m] = u => leaseNew'[m] = leaseNew[m]
<1>1. pc[s] = "setLease" /\ LeaseFree(s, l) /\ WriteLease(s, l, LeaseUpdate(s, leaseNew[l]))
  BY DEF SetLease
<1>2. OnLease(s) /\ l \in Leases /\ lease[l] # Nil
  BY <1>1, TaskOfType DEF Discipline, Obeys, Staged
<1>3. leaseLock[l] = Nil
  <2>1. leaseLock[l] # s
    BY <1>1, <1>2 DEF Discipline, Obeys, HoldersOf, HoldsLease, Cleaned, OnLease
  <2> QED BY <1>1, <2>1 DEF LeaseFree
<1>4. leaseNew[l] \in LeaseRows
  BY <1>2, <1>3 DEF Discipline, Rows, TypeOK
<1>5. call[s] \in Calls \cup {ReadCall}
  BY <1>1 DEF Discipline, Obeys, Staged
<1> DEFINE row == LeaseUpdate(s, leaseNew[l])
<1>6. /\ row \in LeaseRows
      /\ row.task = leaseNew[l].task
      /\ call[s].op = "renew" => row.released = leaseNew[l].released /\ row.status = "renewed"
      /\ call[s].op # "renew" => row.released
  <2>1. CASE call[s].op = "renew"
    <3>1. ExpiryOf(s) \in Nat \cup {Nil}
      BY <1>1, <2>1, ExpiryType
    <3>2. row = [leaseNew[l] EXCEPT !.status = "renewed", !.expires = ExpiryOf(s)]
      BY <2>1 DEF LeaseUpdate
    <3> HIDE DEF row
    <3> QED BY <1>4, <2>1, <3>1, <3>2 DEF LeaseRows, LeaseStatuses
  <2>2. CASE call[s].op = "release"
    <3>1. row = [leaseNew[l] EXCEPT !.status = "released", !.released = TRUE]
      BY <2>2 DEF LeaseUpdate
    <3> HIDE DEF row
    <3> QED BY <1>4, <2>2, <3>1 DEF LeaseRows, LeaseStatuses
  <2>3. CASE call[s].op = "finish"
    <3>1. row = [leaseNew[l] EXCEPT !.status = call[s].arg, !.released = TRUE]
      BY <2>3 DEF LeaseUpdate
    <3>2. call[s].arg \in LeaseStatuses
      BY <1>5, <2>3, CallFields, TxFinalAssumption DEF LeaseStatuses
    <3> HIDE DEF row
    <3> QED BY <1>4, <2>3, <3>1, <3>2 DEF LeaseRows
  <2> QED BY <1>2, <2>1, <2>2, <2>3 DEF OnLease
<1>7. call[s].op = "renew" => (IsActive(row) <=> ~leaseNew[l].released)
  BY <1>6, RowFields DEF IsActive
<1> HIDE DEF row
<1>8. WriteLease(s, l, row)
  BY <1>1 DEF row
<1>9. leaseNew'[l] = row /\ leaseLock'[l] = s
  BY <1>1, <1>2, <1>6, <1>8, LeaseWrite
<1>10. /\ leaseNew' \in [Leases -> LeaseRows \cup {Nil}]
       /\ leaseLock' \in [Leases -> Sessions \cup {Nil}]
       /\ \A m \in Leases \ {l} : leaseNew'[m] = leaseNew[m] /\ leaseLock'[m] = leaseLock[m]
       /\ \A u \in Sessions \ {s}, m \in Leases :
             /\ leaseLock'[m] = u <=> leaseLock[m] = u
             /\ leaseLock[m] = u => leaseNew'[m] = leaseNew[m]
  BY <1>1, <1>2, <1>6, <1>8, LeaseWrite
<1> QED
  BY <1>1, <1>2, <1>3, <1>4, <1>6, <1>7, <1>9, <1>10

\* The UPDATE of a lease by its id.
LEMMA SetLeaseKeeps ==
    ASSUME Discipline, NEW s \in Sessions, SetLease(s)
    PROVE  Discipline' /\ Apart(s)
<1> DEFINE l == call[s].lease
           next == CASE call[s].op = "release" -> "setTask"
                     [] call[s].op = "finish" -> "handoff"
                     [] OTHER -> "ok"
<1>1. /\ pc[s] = "setLease"
      /\ pc' = [pc EXCEPT ![s] = next]
      /\ UNCHANGED << clock, task, taskNew, taskLock, lease, agentLock, locals, results >>
  BY DEF SetLease, Goto
<1>2. /\ Obeys(s) /\ OnLease(s) /\ pc'[s] = next
      /\ lapsed[s] = {} /\ next \in {"setTask", "handoff", "ok"}
      /\ next = "setTask" <=> call[s].op = "release"
      /\ next = "handoff" <=> call[s].op = "finish"
  BY <1>1 DEF Discipline, Obeys, Staged, TypeOK
<1>3. /\ l \in Leases /\ lease[l] # Nil /\ leaseNew[l] \in LeaseRows /\ leaseLock[l] = Nil
      /\ leaseNew' \in [Leases -> LeaseRows \cup {Nil}]
      /\ leaseLock' \in [Leases -> Sessions \cup {Nil}]
      /\ leaseLock'[l] = s /\ leaseNew'[l] \in LeaseRows
      /\ leaseNew'[l].task = leaseNew[l].task
      /\ call[s].op = "renew" =>
            /\ leaseNew'[l].released = leaseNew[l].released
            /\ IsActive(leaseNew'[l]) <=> ~leaseNew[l].released
      /\ call[s].op # "renew" => leaseNew'[l].released
      /\ \A m \in Leases \ {l} : leaseNew'[m] = leaseNew[m] /\ leaseLock'[m] = leaseLock[m]
      /\ \A u \in Sessions \ {s}, m \in Leases :
            /\ leaseLock'[m] = u <=> leaseLock[m] = u
            /\ leaseLock[m] = u => leaseNew'[m] = leaseNew[m]
  BY SetLeaseWrites
<1>4. leaseNew'[l] # Nil
  BY <1>3, RowFields
<1> HIDE DEF next, l
<1>5. TypeOK'
  BY <1>1, <1>2, <1>3 DEF Discipline, TypeOK, Statements, Outcomes
<1>6. Rows'
  <2>1. ASSUME NEW m \in Leases
        PROVE  /\ leaseLock'[m] = Nil => leaseNew'[m] = lease'[m]
               /\ lease'[m] # Nil =>
                     /\ leaseNew'[m] # Nil /\ leaseNew'[m].task = lease'[m].task
                     /\ lease'[m].released => leaseNew'[m].released
               /\ lease'[m] # Nil => IsActive(lease'[m]) \/ lease'[m].released
               /\ leaseNew'[m] # Nil => IsActive(leaseNew'[m]) \/ leaseNew'[m].released
    <3>1. CASE m # l
      BY <3>1, <1>1, <1>3 DEF Discipline, Rows
    <3>2. CASE m = l
      <4>1. leaseNew[l] = lease[l] /\ lease'[l] = lease[l]
        BY <1>1, <1>3 DEF Discipline, Rows
      <4>2. IsActive(lease[l]) \/ lease[l].released
        BY <1>3 DEF Discipline, Rows
      <4>3. leaseNew'[l].released \/ IsActive(leaseNew'[l])
        BY <1>3, RowFields
      <4>4. leaseLock'[l] # Nil
        BY <1>3, TxNilAssumption
      <4> QED BY <3>2, <4>1, <4>2, <4>3, <4>4, <1>3, <1>4
    <3> QED BY <3>1, <3>2
  <2>2. \A t \in Tasks : taskLock'[t] = Nil => taskNew'[t] = task'[t]
    BY <1>1 DEF Discipline, Rows
  <2> QED BY <2>1, <2>2 DEF Rows, IsActive
<1>7. Apart(s)
  BY <1>1, <1>3 DEF Apart, Discipline, TypeOK
<1>8. Obeys(s)'
  <2>1. Staged(s)' /\ ReadRow(s)'
    BY <1>1, <1>2 DEF Obeys, Staged, ReadRow, OnLease, IsActive
  <2>2. TaskOf(s)' = TaskOf(s)
    BY <1>1 DEF TaskOf
  <2>3. Done(s)'
    BY <1>1, <1>2 DEF Done, OnLease
  <2>4. HoldersOf(s)'
    <3>1. ASSUME NEW v \in Tasks, taskLock'[v] = s PROVE HoldsTask(s, v)'
      BY <1>1, <1>2, <2>2, <3>1 DEF Obeys, HoldersOf, HoldsTask, OnLease, Cleaned
    <3>2. ASSUME NEW m \in Leases, leaseLock'[m] = s PROVE leaseNew'[m] # Nil /\ HoldsLease(s, m)'
      <4>1. m = l
        BY <1>1, <1>2, <1>3, <3>2 DEF Obeys, HoldersOf, HoldsLease, OnLease, Cleaned
      <4>2. call[s].op = "renew" /\ IsActive(lease[l]) => IsActive(leaseNew'[l])
        BY <1>3, RowFields DEF Discipline, Rows, IsActive
      <4> QED BY <4>1, <4>2, <1>1, <1>2, <1>3, <1>4 DEF HoldsLease, OnLease, IsActive, l
    <3>3. ASSUME NEW a \in Agents, agentLock'[a] = s PROVE FALSE
      BY <1>1, <1>2, <3>3 DEF Obeys, HoldersOf, OnLease
    <3> QED BY <3>1, <3>2, <3>3 DEF HoldersOf
  <2> QED BY <2>1, <2>3, <2>4 DEF Obeys
<1> QED
  BY <1>5, <1>6, <1>7, <1>8, OthersObey DEF Discipline

\* The INSERT of a handoff.
LEMMA HandoffKeeps ==
    ASSUME Discipline, NEW s \in Sessions, InsertHandoff(s)
    PROVE  Discipline' /\ Apart(s)
<1>1. /\ pc[s] = "handoff" /\ pc' = [pc EXCEPT ![s] = "ok"]
      /\ UNCHANGED << clock, rows, locals, results >>
  BY DEF InsertHandoff, Goto
<1>2. Obeys(s) /\ call[s].op = "finish" /\ pc'[s] = "ok"
  BY <1>1 DEF Discipline, Obeys, Staged, TypeOK
<1>3. TypeOK'
  BY <1>1 DEF Discipline, TypeOK, Statements, Outcomes
<1>4. Rows'
  BY <1>1 DEF Discipline, Rows, IsActive
<1>5. Apart(s)
  BY <1>1 DEF Apart, Discipline, TypeOK
<1>6. Obeys(s)'
  <2>1. Staged(s)' /\ ReadRow(s)' /\ Done(s)'
    BY <1>1, <1>2 DEF Obeys, Staged, ReadRow, OnLease, Done
  <2>2. HoldersOf(s)'
    BY <1>1, <1>2 DEF Obeys, HoldersOf, HoldsTask, HoldsLease, Expired, Cleaned, IsActive, TaskOf
  <2> QED BY <2>1, <2>2 DEF Obeys
<1> QED
  BY <1>3, <1>4, <1>5, <1>6, OthersObey DEF Discipline

\* The locks of s are gone, and only they.
LEMMA Unlocked ==
    ASSUME Discipline, NEW s \in Sessions, Unlock(s)
    PROVE  /\ taskLock' \in [Tasks -> Sessions \cup {Nil}]
           /\ leaseLock' \in [Leases -> Sessions \cup {Nil}]
           /\ agentLock' \in [Agents -> Sessions \cup {Nil}]
           /\ \A t \in Tasks : /\ taskLock[t] = s => taskLock'[t] = Nil
                               /\ taskLock[t] # s => taskLock'[t] = taskLock[t]
           /\ \A l \in Leases : /\ leaseLock[l] = s => leaseLock'[l] = Nil
                                /\ leaseLock[l] # s => leaseLock'[l] = leaseLock[l]
           /\ \A a \in Agents : /\ agentLock[a] = s => agentLock'[a] = Nil
                                /\ agentLock[a] # s => agentLock'[a] = agentLock[a]
           /\ \A t \in Tasks : taskLock'[t] # s
           /\ \A l \in Leases : leaseLock'[l] # s
           /\ \A a \in Agents : agentLock'[a] # s
  BY TxNilAssumption DEF Discipline, TypeOK, Unlock

\* A session without a call obeys the rules.
LEMMA IdleObeys ==
    ASSUME Discipline, NEW s \in Sessions, Forget(s), Unlock(s)
    PROVE  Obeys(s)'
<1>1. pc'[s] = "idle" /\ call'[s] = NoCall /\ lapsed'[s] = {}
  BY DEF Forget, Discipline, TypeOK
<1>2. HoldersOf(s)'
  BY Unlocked DEF HoldersOf
<1>3. Staged(s)' /\ ReadRow(s)' /\ Done(s)'
  BY <1>1 DEF Staged, ReadRow, Done
<1> QED BY <1>2, <1>3 DEF Obeys

\* A session that forgets its call forgets nobody else's.
LEMMA ForgetTypes ==
    ASSUME Discipline, NEW s \in Sessions, Forget(s)
    PROVE  /\ pc' \in [Sessions -> Statements]
           /\ call' \in [Sessions -> Calls \cup {NoCall, ReadCall}]
           /\ now' \in [Sessions -> 0..MaxClock]
           /\ seenTask' \in [Sessions -> TaskStatuses \cup {Nil}]
           /\ seenLease' \in [Sessions -> LeaseRows \cup {Nil}]
           /\ sweep' \in [Sessions -> SUBSET Leases]
           /\ lapsed' \in [Sessions -> SUBSET Tasks]
           /\ \A u \in Sessions \ {s} :
                 /\ call'[u] = call[u] /\ pc'[u] = pc[u] /\ seenLease'[u] = seenLease[u]
                 /\ lapsed'[u] = lapsed[u]
  BY TxBoundsAssumption DEF Forget, Discipline, TypeOK, Statements

\* A rollback puts the newest versions back to the committed ones.
LEMMA RollbackKeeps ==
    ASSUME Discipline, NEW s \in Sessions, Rollback(s)
    PROVE  Discipline' /\ Apart(s)
<1>1. /\ Forget(s) /\ Unlock(s)
      /\ taskNew' = [t \in Tasks |-> IF taskLock[t] = s THEN task[t] ELSE taskNew[t]]
      /\ leaseNew' = [l \in Leases |-> IF leaseLock[l] = s THEN lease[l] ELSE leaseNew[l]]
      /\ UNCHANGED << clock, task, lease, results >>
  BY DEF Rollback
<1>2. TypeOK'
  <2>1. /\ taskNew' \in [Tasks -> TaskStatuses]
        /\ leaseNew' \in [Leases -> LeaseRows \cup {Nil}]
    BY <1>1 DEF Discipline, TypeOK
  <2> QED BY <1>1, <2>1, Unlocked, ForgetTypes DEF Discipline, TypeOK
<1>3. Rows'
  <2>1. ASSUME NEW m \in Leases
        PROVE  /\ leaseLock'[m] = Nil => leaseNew'[m] = lease'[m]
               /\ lease'[m] # Nil =>
                     /\ leaseNew'[m] # Nil /\ leaseNew'[m].task = lease'[m].task
                     /\ lease'[m].released => leaseNew'[m].released
               /\ lease'[m] # Nil => IsActive(lease'[m]) \/ lease'[m].released
               /\ leaseNew'[m] # Nil => IsActive(leaseNew'[m]) \/ leaseNew'[m].released
    BY <1>1, Unlocked DEF Discipline, Rows
  <2>2. \A t \in Tasks : taskLock'[t] = Nil => taskNew'[t] = task'[t]
    BY <1>1, Unlocked DEF Discipline, Rows
  <2> QED BY <2>1, <2>2 DEF Rows, IsActive
<1>4. Apart(s)
  BY <1>1, Unlocked, ForgetTypes, TxNilAssumption DEF Apart
<1>5. Obeys(s)'
  BY <1>1, IdleObeys
<1> QED
  BY <1>2, <1>3, <1>4, <1>5, OthersObey DEF Discipline

\* What is committed is what the newest versions were.
LEMMA Committed ==
    ASSUME Discipline, NEW s \in Sessions, Commit(s)
    PROVE  /\ pc[s] \in Outcomes /\ Forget(s) /\ Unlock(s)
           /\ task' \in [Tasks -> TaskStatuses]
           /\ lease' \in [Leases -> LeaseRows \cup {Nil}]
           /\ \A t \in Tasks : /\ taskLock[t] = s => task'[t] = taskNew[t]
                               /\ taskLock[t] # s => task'[t] = task[t]
           /\ \A l \in Leases : /\ leaseLock[l] = s => lease'[l] = leaseNew[l]
                                /\ leaseLock[l] # s => lease'[l] = lease[l]
           /\ UNCHANGED << clock, taskNew, leaseNew >>
  BY DEF Commit, Discipline, TypeOK

\* A call with a key is one that records its outcome.
LEMMA KeyedCall ==
    ASSUME Discipline, NEW s \in Sessions, pc[s] # "idle", call[s].key # Nil
    PROVE  call[s].op \in LeaseOps /\ call[s].key \in Keys
  BY CallFields DEF Discipline, Obeys, Staged

\* A commit makes the newest versions the committed ones.
LEMMA CommitKeeps ==
    ASSUME Discipline, NEW s \in Sessions, Commit(s)
    PROVE  Discipline' /\ Apart(s)
<1>1. TypeOK'
  <2>1. record' \in [LeaseOps \X Keys -> Outcomes \cup {Nil}]
    <3>1. Remember(s, pc[s]) /\ pc[s] \in Outcomes /\ pc[s] # "idle"
      BY DEF Commit, Outcomes
    <3> QED BY <3>1, KeyedCall DEF Remember, Discipline, TypeOK
  <2>2. claims' \in [Keys -> SUBSET Leases]
    <3> DEFINE granted == {l \in Leases : leaseLock[l] = s /\ lease[l] = Nil}
    <3>1. claims' = IF call[s].key = Nil THEN claims
                    ELSE [claims EXCEPT ![call[s].key] = @ \cup granted]
      BY DEF Commit
    <3>2. granted \subseteq Leases
      OBVIOUS
    <3> HIDE DEF granted
    <3> QED BY <3>1, <3>2 DEF Discipline, TypeOK
  <2> QED
    BY <2>1, <2>2, Committed, Unlocked, ForgetTypes DEF Discipline, TypeOK
<1>2. Rows'
  <2>1. ASSUME NEW m \in Leases
        PROVE  /\ leaseLock'[m] = Nil => leaseNew'[m] = lease'[m]
               /\ lease'[m] # Nil =>
                     /\ leaseNew'[m] # Nil /\ leaseNew'[m].task = lease'[m].task
                     /\ lease'[m].released => leaseNew'[m].released
               /\ lease'[m] # Nil => IsActive(lease'[m]) \/ lease'[m].released
               /\ leaseNew'[m] # Nil => IsActive(leaseNew'[m]) \/ leaseNew'[m].released
    BY Committed, Unlocked DEF Discipline, Rows
  <2>2. \A t \in Tasks : taskLock'[t] = Nil => taskNew'[t] = task'[t]
    BY Committed, Unlocked DEF Discipline, Rows
  <2> QED BY <2>1, <2>2 DEF Rows, IsActive
<1>3. Apart(s)
  <2>1. \A l \in Leases : lease[l] # Nil => lease'[l] # Nil /\ lease'[l].task = lease[l].task
    BY Committed DEF Discipline, Rows
  <2>2. \A u \in Sessions \ {s} :
          /\ \A t \in Tasks : taskLock'[t] = u <=> taskLock[t] = u
          /\ \A l \in Leases : leaseLock'[l] = u <=> leaseLock[l] = u
          /\ \A l \in Leases : leaseLock[l] = u => lease'[l] = lease[l]
          /\ \A a \in Agents : agentLock'[a] = u => agentLock[a] = u
    BY Committed, Unlocked, TxNilAssumption
  <2> QED BY <2>1, <2>2, Committed, ForgetTypes DEF Apart
<1>4. Obeys(s)'
  BY Committed, IdleObeys
<1> QED
  BY <1>1, <1>2, <1>3, <1>4, OthersObey DEF Discipline

\* The discipline is inductive.
LEMMA DisciplineNext == ASSUME Discipline, [Next]_vars PROVE Discipline'
<1>1. CASE UNCHANGED vars
  BY <1>1 DEF vars, Discipline, TypeOK, Rows, Obeys, HoldersOf, HoldsTask, HoldsLease, Expired,
              TaskOf, IsActive, Staged, ReadRow, OnLease, Done
<1>2. CASE Tick
  BY <1>2, TickKeeps
<1>3. ASSUME NEW s \in Sessions, NEW c \in Calls, Begin(s, c) PROVE Discipline'
  BY <1>3, BeginKeeps
<1>4. ASSUME NEW s \in Sessions, BeginRead(s) \/ Crash(s) PROVE Discipline'
  BY <1>4, ReadKeeps, RollbackKeeps DEF Crash
<1>5. ASSUME NEW s \in Sessions, Statement(s) PROVE Discipline'
  <2>1. CASE Lookup(s) \/ ScanLeases(s) \/ ReadTask(s) \/ ReadActiveLease(s)
    BY <2>1, ReadKeeps
  <2>2. CASE Replay(s) \/ UniqueViolation(s) \/ OutOfLeaseIds(s) \/ DeadlockAbort(s)
    BY <2>2, RollbackKeeps DEF Replay, UniqueViolation, OutOfLeaseIds, DeadlockAbort
  <2>3. ASSUME NEW l \in Leases, ExpireLease(s, l) \/ InsertLease(s, l) PROVE Discipline'
    BY <2>3, ExpireKeeps, InsertKeeps
  <2>4. ASSUME NEW t \in Tasks, ResetLapsed(s, t) PROVE Discipline'
    BY <2>4, ResetKeeps
  <2>5. CASE UpsertAgent(s) \/ SetTask(s) \/ SetLease(s) \/ InsertHandoff(s)
    BY <2>5, UpsertKeeps, SetTaskKeeps, SetLeaseKeeps, HandoffKeeps
  <2>6. CASE Commit(s)
    BY <2>6, CommitKeeps
  <2> QED BY <1>5, <2>1, <2>2, <2>3, <2>4, <2>5, <2>6 DEF Statement
<1> QED BY <1>1, <1>2, <1>3, <1>4, <1>5 DEF Next

\* Every transaction holds only rows its statements so far have taken, and has
\* written there what they write (claim_task, renew_task_lease,
\* release_task_lease, finish_task_with_handoff, update_task_state and the
\* cleanup, at any interleaving).
THEOREM SpecDiscipline == Spec => []Discipline
  BY DisciplineInit, DisciplineNext, PTL DEF Spec

\* Whatever the statements interleave to, rows, locks and calls keep their types.
THEOREM TypeCorrect == Spec => []TypeOK
<1>1. Discipline => TypeOK
  BY DEF Discipline
<1> QED BY <1>1, SpecDiscipline, PTL

-----------------------------------------------------------------------------
(* One active lease per task. *)

\* The conditions on two lease rows of one task.
Exclude(l, m, table, new, lock) ==
    l # m /\ new[l] # Nil /\ new[m] # Nil /\ new[l].task = new[m].task =>
        /\ ~(IsActive(table[l]) /\ IsActive(table[m]))
        /\ ~(IsActive(new[l]) /\ IsActive(new[m]))
        /\ IsActive(table[l]) /\ IsActive(new[m]) => lock[l] = lock[m]

\* Exclusive, pair by pair.
LEMMA ExclusivePairs ==
    /\ Exclusive <=> \A l, m \in Leases : Exclude(l, m, lease, leaseNew, leaseLock)
    /\ Exclusive' <=> \A l, m \in Leases : Exclude(l, m, lease', leaseNew', leaseLock')
  BY DEF Exclusive, Exclude, IsActive

\* Writing a row that keeps its task and is active only if it was.
LEMMA WriteStaysExclusive ==
    ASSUME Discipline, Exclusive, NEW s \in Sessions, NEW k \in Leases,
           LeaseFree(s, k), UNCHANGED lease, leaseNew[k] # Nil,
           leaseLock'[k] = s, leaseNew'[k].task = leaseNew[k].task,
           IsActive(leaseNew'[k]) => IsActive(leaseNew[k]),
           \A m \in Leases \ {k} : leaseNew'[m] = leaseNew[m] /\ leaseLock'[m] = leaseLock[m]
    PROVE  Exclusive'
<1>1. ASSUME NEW l \in Leases, NEW m \in Leases PROVE Exclude(l, m, lease', leaseNew', leaseLock')
  <2>1. /\ Exclude(l, m, lease, leaseNew, leaseLock) /\ Exclude(m, l, lease, leaseNew, leaseLock)
    BY ExclusivePairs
  <2>2. leaseLock[k] = Nil => leaseNew[k] = lease[k]
    BY DEF Discipline, Rows
  <2>3. CASE l # k /\ m # k
    BY <2>1, <2>3 DEF Exclude
  <2>4. CASE l = k /\ m # k
    <3>1. leaseLock[m] = Nil => leaseNew[m] = lease[m]
      BY DEF Discipline, Rows
    <3> QED BY <2>1, <2>2, <2>4, <3>1 DEF Exclude, LeaseFree
  <2>5. CASE l # k /\ m = k
    <3>1. leaseLock[l] = Nil => leaseNew[l] = lease[l]
      BY DEF Discipline, Rows
    <3> QED BY <2>1, <2>2, <2>5, <3>1 DEF Exclude, LeaseFree
  <2> QED BY <2>3, <2>4, <2>5 DEF Exclude
<1> QED BY <1>1, ExclusivePairs

\* The unique index: an INSERT that neither waits nor raises finds no active row
\* of the task, but for those its own transaction has ended.
LEMMA InsertStaysExclusive ==
    ASSUME Discipline, Exclusive, NEW s \in Sessions, NEW k \in Leases, InsertLease(s, k)
    PROVE  Exclusive'
<1>1. /\ lease' = lease /\ lease[k] = Nil /\ leaseLock'[k] = s
      /\ leaseNew'[k].task = call[s].task
      /\ \A m \in Leases \ {k} : leaseNew'[m] = leaseNew[m] /\ leaseLock'[m] = leaseLock[m]
  BY InsertWrites DEF InsertLease
<1>2. ~IsActive(lease[k])
  BY <1>1 DEF IsActive
\* A row that is active on the task, committed or not, is one s has ended.
<1>3. ASSUME NEW m \in Leases \ {k}, leaseNew[m] # Nil, leaseNew[m].task = call[s].task,
             IsActive(lease[m]) \/ IsActive(leaseNew[m])
      PROVE  leaseLock[m] = s /\ ~IsActive(leaseNew[m])
  <2>1. lease[m] # Nil => lease[m].task = call[s].task
    BY <1>3 DEF Discipline, Rows
  <2>2. m \in ActiveOn(call[s].task, lease) \cup ActiveOn(call[s].task, leaseNew)
    BY <1>3, <2>1 DEF ActiveOn, IsActive
  <2>3. leaseLock[m] \in {Nil, s}
    <3>1. leaseLock[m] \in Sessions \cup {Nil}
      BY DEF Discipline, TypeOK
    <3>2. IndexBlockers(s, call[s].task) = {}
      BY DEF InsertLease
    <3> QED BY <3>1, <3>2, <2>2 DEF IndexBlockers
  <2>4. ~(IsActive(LeaseSeenBy(s, m)) /\ LeaseSeenBy(s, m).task = call[s].task)
    <3>1. ~IndexClash(s, call[s].task)
      BY DEF InsertLease
    <3> QED BY <3>1 DEF IndexClash, ActiveOn
  <2>5. CASE leaseLock[m] = Nil
    <3>1. leaseNew[m] = lease[m] /\ LeaseSeenBy(s, m) = lease[m]
      BY <2>5, TxNilAssumption DEF Discipline, Rows, LeaseSeenBy
    <3> QED BY <1>3, <2>4, <3>1
  <2>6. CASE leaseLock[m] = s
    BY <1>3, <2>4, <2>6 DEF LeaseSeenBy
  <2> QED BY <2>3, <2>5, <2>6
<1>4. ASSUME NEW l \in Leases, NEW m \in Leases PROVE Exclude(l, m, lease', leaseNew', leaseLock')
  <2>1. Exclude(l, m, lease, leaseNew, leaseLock)
    BY ExclusivePairs
  <2>2. CASE l # k /\ m # k
    BY <1>1, <2>1, <2>2 DEF Exclude
  <2>3. CASE l = k /\ m # k
    BY <1>1, <1>2, <1>3, <2>3 DEF Exclude
  <2>4. CASE l # k /\ m = k
    BY <1>1, <1>2, <1>3, <2>4 DEF Exclude
  <2> QED BY <2>2, <2>3, <2>4 DEF Exclude
<1> QED BY <1>4, ExclusivePairs

\* A rollback brings back only rows that were exclusive as committed.
LEMMA RollbackStaysExclusive ==
    ASSUME Discipline, Exclusive, NEW s \in Sessions, Rollback(s)
    PROVE  Exclusive'
<1>1. /\ lease' = lease
      /\ \A l \in Leases : leaseNew'[l] = IF leaseLock[l] = s THEN lease[l] ELSE leaseNew[l]
      /\ \A l \in Leases : leaseLock[l] # s => leaseLock'[l] = leaseLock[l]
      /\ \A l \in Leases : lease[l] # Nil => leaseNew[l] # Nil /\ leaseNew[l].task = lease[l].task
  BY Unlocked DEF Rollback, Discipline, Rows
<1>2. ASSUME NEW l \in Leases, NEW m \in Leases PROVE Exclude(l, m, lease', leaseNew', leaseLock')
  <2>1. Exclude(l, m, lease, leaseNew, leaseLock) /\ Exclude(m, l, lease, leaseNew, leaseLock)
    BY ExclusivePairs
  <2> QED BY <1>1, <2>1 DEF Exclude
<1> QED BY <1>2, ExclusivePairs

\* A commit publishes only rows that were exclusive as newest versions.
LEMMA CommitStaysExclusive ==
    ASSUME Discipline, Exclusive, NEW s \in Sessions, Commit(s)
    PROVE  Exclusive'
<1>1. /\ leaseNew' = leaseNew
      /\ \A l \in Leases : lease'[l] = IF leaseLock[l] = s THEN leaseNew[l] ELSE lease[l]
      /\ \A l \in Leases : leaseLock[l] # s => leaseLock'[l] = leaseLock[l]
  BY Committed, Unlocked
<1>2. ASSUME NEW l \in Leases, NEW m \in Leases PROVE Exclude(l, m, lease', leaseNew', leaseLock')
  <2>1. Exclude(l, m, lease, leaseNew, leaseLock) /\ Exclude(m, l, lease, leaseNew, leaseLock)
    BY ExclusivePairs
  <2> QED BY <1>1, <2>1 DEF Exclude
<1> QED BY <1>2, ExclusivePairs

\* An expiry activates nothing.
LEMMA ExpireStaysExclusive ==
    ASSUME Discipline, Exclusive, NEW s \in Sessions, NEW k \in Leases, ExpireLease(s, k)
    PROVE  Exclusive'
<1>1. CASE ~IsOverdue(lease[k], now[s])
  <2>1. UNCHANGED << lease, leaseNew, leaseLock >>
    BY <1>1 DEF ExpireLease
  <2> QED BY <2>1 DEF Exclusive, IsActive
<1>2. CASE IsOverdue(lease[k], now[s])
  <2> DEFINE ended == [lease[k] EXCEPT !.status = "expired", !.released = TRUE]
  <2>1. LeaseFree(s, k) /\ lease' = lease /\ WriteLease(s, k, ended)
    BY <1>2 DEF ExpireLease
  <2>2. lease[k] \in LeaseRows /\ lease[k] # Nil
    BY <1>2 DEF IsOverdue, IsActive, Discipline, TypeOK
  <2>3. ended \in LeaseRows /\ ended.task = lease[k].task /\ ~IsActive(ended)
    <3>1. ended \in LeaseRows
      BY <2>2 DEF LeaseRows, LeaseStatuses
    <3> QED BY <2>2, <3>1 DEF LeaseRows, IsActive
  <2> HIDE DEF ended
  <2>4. /\ leaseNew'[k] = ended /\ leaseLock'[k] = s
        /\ \A m \in Leases \ {k} : leaseNew'[m] = leaseNew[m] /\ leaseLock'[m] = leaseLock[m]
    BY <2>1, <2>3, LeaseWrite
  <2>5. leaseNew[k] # Nil /\ leaseNew[k].task = lease[k].task
    BY <2>2 DEF Discipline, Rows
  <2> QED BY <2>1, <2>3, <2>4, <2>5, WriteStaysExclusive
<1> QED BY <1>1, <1>2

\* Nor does a renewal, a release or a finish: a row that was ended stays ended,
\* even if it is renewed afterwards.
LEMMA SetLeaseStaysExclusive ==
    ASSUME Discipline, Exclusive, NEW s \in Sessions, SetLease(s)
    PROVE  Exclusive'
<1>1. PICK k : k = call[s].lease
  OBVIOUS
<1>2. /\ k \in Leases /\ LeaseFree(s, k) /\ leaseNew[k] \in LeaseRows
      /\ leaseLock'[k] = s /\ leaseNew'[k] \in LeaseRows
      /\ leaseNew'[k].task = leaseNew[k].task
      /\ call[s].op = "renew" => (IsActive(leaseNew'[k]) <=> ~leaseNew[k].released)
      /\ call[s].op # "renew" => leaseNew'[k].released
      /\ \A m \in Leases \ {k} : leaseNew'[m] = leaseNew[m] /\ leaseLock'[m] = leaseLock[m]
  BY <1>1, SetLeaseWrites
<1>3. leaseNew[k] # Nil /\ (IsActive(leaseNew[k]) \/ leaseNew[k].released)
  BY <1>2, RowFields DEF Discipline, Rows
<1>4. IsActive(leaseNew'[k]) => IsActive(leaseNew[k])
  <2>1. leaseNew'[k].released => ~IsActive(leaseNew'[k])
    BY DEF IsActive
  <2> QED BY <1>2, <1>3, <2>1
<1>5. lease' = lease
  BY DEF SetLease
<1> QED BY <1>2, <1>3, <1>4, <1>5, WriteStaysExclusive

\* The statements that leave the lease table alone.
LEMMA QuietStatements ==
    ASSUME NEW s \in Sessions,
           \/ BeginRead(s) \/ Lookup(s) \/ ScanLeases(s) \/ ReadTask(s) \/ ReadActiveLease(s)
           \/ UpsertAgent(s) \/ SetTask(s) \/ InsertHandoff(s)
           \/ \E t \in Tasks : ResetLapsed(s, t)
           \/ \E c \in Calls : Begin(s, c)
    PROVE  UNCHANGED << lease, leaseNew, leaseLock >>
  BY DEF BeginRead, Lookup, ScanLeases, ReadTask, ReadActiveLease, UpsertAgent, SetTask,
         InsertHandoff, ResetLapsed, Begin

\* There is no lease yet.
LEMMA ExclusiveInit == Init => Exclusive
  BY DEF Init, Exclusive, IsActive

\* No statement breaks exclusivity.
LEMMA ExclusiveNext == ASSUME Discipline, Exclusive, [Next]_vars PROVE Exclusive'
<1>1. CASE UNCHANGED << lease, leaseNew, leaseLock >>
  BY <1>1 DEF Exclusive, IsActive
<1>2. CASE Tick \/ UNCHANGED vars
  BY <1>1, <1>2 DEF Tick, vars
<1>3. ASSUME NEW s \in Sessions, NEW c \in Calls, Begin(s, c) PROVE Exclusive'
  BY <1>1, <1>3, QuietStatements
<1>4. ASSUME NEW s \in Sessions, BeginRead(s) \/ Crash(s) PROVE Exclusive'
  BY <1>1, <1>4, QuietStatements, RollbackStaysExclusive DEF Crash
<1>5. ASSUME NEW s \in Sessions, Statement(s) PROVE Exclusive'
  <2>1. CASE \/ Lookup(s) \/ ScanLeases(s) \/ ReadTask(s) \/ ReadActiveLease(s)
             \/ UpsertAgent(s) \/ SetTask(s) \/ InsertHandoff(s)
             \/ \E t \in Tasks : ResetLapsed(s, t)
    BY <1>1, <2>1, QuietStatements
  <2>2. CASE Replay(s) \/ UniqueViolation(s) \/ OutOfLeaseIds(s) \/ DeadlockAbort(s)
    BY <2>2, RollbackStaysExclusive DEF Replay, UniqueViolation, OutOfLeaseIds, DeadlockAbort
  <2>3. ASSUME NEW l \in Leases, ExpireLease(s, l) \/ InsertLease(s, l) PROVE Exclusive'
    BY <2>3, ExpireStaysExclusive, InsertStaysExclusive
  <2>4. CASE SetLease(s) \/ Commit(s)
    BY <2>4, SetLeaseStaysExclusive, CommitStaysExclusive
  <2> QED BY <1>5, <2>1, <2>2, <2>3, <2>4 DEF Statement
<1> QED BY <1>2, <1>3, <1>4, <1>5 DEF Next

-----------------------------------------------------------------------------
(* No task is stranded. *)

\* Who has written 'claimed' has inserted a lease for the task.
LEMMA ClaimsGrant ==
    ASSUME "claimed" \notin ManualStatuses, Discipline, NEW u \in Sessions, NEW t \in Tasks,
           taskLock[t] = u, taskNew[t] = "claimed"
    PROVE  \E m \in Leases : /\ leaseLock[m] = u /\ lease[m] = Nil
                             /\ IsActive(leaseNew[m]) /\ leaseNew[m].task = t
<1>1. Obeys(u) /\ HoldsTask(u, t)
  BY DEF Discipline, Obeys, HoldersOf
<1>2. call[u].op = "update" /\ pc[u] = "ok" => call[u].arg # "claimed"
  BY <1>1, CallFields DEF Obeys, Staged
<1>3. call[u].op = "claim" /\ pc[u] = "ok" /\ t = call[u].task
  BY <1>1, <1>2, TxFinalAssumption DEF HoldsTask
<1>4. PICK m \in Leases : leaseLock[m] = u /\ lease[m] = Nil
  BY <1>1, <1>3 DEF Obeys, Done
<1>5. HoldsLease(u, m)
  BY <1>1, <1>4 DEF Obeys, HoldersOf
<1> QED BY <1>3, <1>4, <1>5 DEF HoldsLease

TakenBack(s, l) ==
    Ends(s, l) =>
        \/ lease[l].task \in lapsed[s]
        \/ pc[s] = "setTask" /\ call[s].op = "release"
        \/ taskLock[lease[l].task] = s
        \/ task[lease[l].task] # "claimed"

\* An active lease as its newest version shows it.
LEMMA ActiveLease ==
    ASSUME Discipline, NEW l \in Leases, IsActive(lease[l])
    PROVE  /\ lease[l] \in LeaseRows /\ lease[l].task \in Tasks /\ ~lease[l].released
           /\ leaseNew[l] # Nil /\ leaseNew[l].task = lease[l].task
<1>1. lease[l] \in LeaseRows /\ lease[l] # Nil
  BY DEF IsActive, Discipline, TypeOK
<1> QED BY <1>1, RowFields DEF IsActive, Discipline, Rows

\* The steps of s that leave its leases and its reckoning alone.
LEMMA StillTakenBack ==
    ASSUME NEW s \in Sessions, NEW l \in Leases, TakenBack(s, l),
           UNCHANGED << task, lease, leaseNew, leaseLock, taskLock, call, lapsed >>,
           pc[s] # "setTask" \/ pc'[s] = pc[s]
    PROVE  TakenBack(s, l)'
  BY DEF TakenBack, Ends, IsActive

\* A step of another session.
LEMMA OthersTakenBack ==
    ASSUME Discipline, NEW s \in Sessions, NEW l \in Leases, TakenBack(s, l),
           NEW u \in Sessions, u # s, Apart(u),
           IsActive(lease[l]) /\ leaseLock[l] = s /\ task[lease[l].task] # "claimed" =>
               task'[lease[l].task] # "claimed"
    PROVE  TakenBack(s, l)'
<1>1. /\ call'[s] = call[s] /\ pc'[s] = pc[s] /\ lapsed'[s] = lapsed[s]
      /\ \A t \in Tasks : taskLock'[t] = s <=> taskLock[t] = s
      /\ leaseLock'[l] = s <=> leaseLock[l] = s
      /\ leaseLock[l] = s => leaseNew'[l] = leaseNew[l] /\ lease'[l] = lease[l]
  BY DEF Apart
<1>2. Ends(s, l)' => Ends(s, l) /\ lease'[l] = lease[l] /\ IsActive(lease[l])
  BY <1>1 DEF Ends, IsActive
<1> QED BY <1>1, <1>2, ActiveLease DEF TakenBack, Ends

\* Who expires a lease has its task to reset.
LEMMA ExpireTakesBack ==
    ASSUME Discipline, NEW s \in Sessions, NEW l \in Leases, TakenBack(s, l),
           NEW k \in Leases, ExpireLease(s, k)
    PROVE  TakenBack(s, l)'
<1>1. /\ pc[s] = "sweep" /\ UNCHANGED << task, taskLock, lease, call >>
      /\ lapsed'[s] = lapsed[s] \cup (IF IsOverdue(lease[k], now[s]) THEN {lease[k].task} ELSE {})
  BY DEF ExpireLease, Discipline, TypeOK
<1>2. l # k \/ ~IsOverdue(lease[k], now[s]) =>
          leaseNew'[l] = leaseNew[l] /\ leaseLock'[l] = leaseLock[l]
  BY DEF ExpireLease, WriteLease, Discipline, TypeOK
<1> QED BY <1>1, <1>2 DEF TakenBack, Ends, IsActive

\* The conditional reset takes the task back, or finds it not in progress.
LEMMA ResetTakesBack ==
    ASSUME Discipline, NEW s \in Sessions, NEW l \in Leases, TakenBack(s, l),
           NEW t \in Tasks, ResetLapsed(s, t)
    PROVE  TakenBack(s, l)'
<1>1. /\ pc[s] = "reset" /\ ResetTask(s, t) /\ lapsed'[s] = lapsed[s] \ {t}
      /\ UNCHANGED << task, lease, leaseNew, leaseLock, call >>
  BY DEF ResetLapsed, Discipline, TypeOK
<1>2. SUFFICES ASSUME Ends(s, l) PROVE TakenBack(s, l)'
  BY <1>1 DEF TakenBack, Ends, IsActive
<1>3. lease[l].task \in Tasks
  BY <1>2, ActiveLease DEF Ends
<1>4. taskLock[lease[l].task] = s => taskLock'[lease[l].task] = s
  BY <1>1, <1>3, ResetTaskWrites
<1>5. lease[l].task = t => taskLock'[t] = s \/ task[t] # "claimed"
  BY <1>1, <1>3, ResetTaskWrites DEF TaskSeenBy, InProgress
<1> QED BY <1>1, <1>2, <1>4, <1>5 DEF TakenBack, Ends, IsActive

\* A release takes the task of its lease back in the same way; whoever held a
\* task row still holds it.
LEMMA SetTaskTakesBack ==
    ASSUME Discipline, NEW s \in Sessions, NEW l \in Leases, TakenBack(s, l), SetTask(s)
    PROVE  TakenBack(s, l)'
<1>1. pc[s] = "setTask" /\ UNCHANGED << task, lease, leaseNew, leaseLock, call, lapsed >>
  BY DEF SetTask
<1>2. SUFFICES ASSUME Ends(s, l) PROVE TakenBack(s, l)'
  BY <1>1 DEF TakenBack, Ends, IsActive
<1>3. lease[l].task \in Tasks /\ lapsed[s] = {}
  BY <1>1, <1>2, ActiveLease DEF Ends, Discipline, Obeys, Staged
<1>4. taskLock[lease[l].task] = s => taskLock'[lease[l].task] = s
  BY <1>3, SetTaskWrites
<1>5. CASE call[s].op = "release"
  <2>1. l = call[s].lease
    BY <1>2, <1>5 DEF Ends, Discipline, Obeys, HoldersOf, HoldsLease
  <2>2. TaskOf(s) = lease[l].task
    BY <1>1, <1>5, <2>1, TaskOfType DEF OnLease
  <2>3. taskLock'[lease[l].task] = s \/ task[lease[l].task] # "claimed"
    BY <1>4, <1>5, <2>2, SetTaskWrites DEF TaskSeenBy, InProgress
  <2> QED BY <1>1, <2>3 DEF TakenBack
<1>6. CASE call[s].op # "release"
  BY <1>1, <1>2, <1>3, <1>4, <1>6 DEF TakenBack
<1> QED BY <1>5, <1>6

\* A release has its task still to take back, a finish has taken it already, a
\* renewal ends nothing.
LEMMA SetLeaseTakesBack ==
    ASSUME Discipline, NEW s \in Sessions, NEW l \in Leases, SetLease(s)
    PROVE  TakenBack(s, l)'
<1>1. PICK k : k = call[s].lease
  OBVIOUS
<1>2. /\ pc[s] = "setLease" /\ Obeys(s)
      /\ UNCHANGED << task, taskLock, lease, call, lapsed >>
      /\ pc'[s] = "setTask" <=> call[s].op = "release"
  BY DEF SetLease, Goto, Discipline, TypeOK
<1>3. /\ OnLease(s) /\ k \in Leases /\ leaseLock[k] = Nil
      /\ call[s].op = "renew" => (IsActive(leaseNew'[k]) <=> ~leaseNew[k].released)
      /\ \A m \in Leases \ {k} : leaseLock'[m] = leaseLock[m]
  BY <1>1, SetLeaseWrites
<1>4. SUFFICES ASSUME leaseLock'[l] = s, IsActive(lease[l]), ~IsActive(leaseNew'[l])
               PROVE  TakenBack(s, l)'
  BY <1>2 DEF TakenBack, Ends, IsActive
<1>5. l = k
  <2>1. ASSUME leaseLock[l] = s PROVE FALSE
    BY <1>2, <1>3, <2>1 DEF Obeys, HoldersOf, HoldsLease, OnLease, Cleaned
  <2> QED BY <1>3, <1>4, <2>1
<1>6. call[s].op # "renew"
  BY <1>3, <1>4, <1>5, ActiveLease DEF Discipline, Rows
<1>7. CASE call[s].op = "release"
  BY <1>2, <1>7 DEF TakenBack
<1>8. CASE call[s].op = "finish"
  <2>1. TaskOf(s) = lease[l].task
    BY <1>1, <1>2, <1>3, <1>5, TaskOfType
  <2> QED BY <1>2, <1>8, <2>1 DEF TakenBack, Obeys, Done
<1> QED BY <1>3, <1>6, <1>7, <1>8 DEF OnLease

\* While a transaction is ending the lease of a task nobody else commits a claim
\* of that task.
LEMMA CommitKeepsStatus ==
    ASSUME "claimed" \notin ManualStatuses, Discipline, Exclusive,
           NEW u \in Sessions, Commit(u), NEW l \in Leases, IsActive(lease[l]), leaseLock[l] # u,
           task[lease[l].task] # "claimed"
    PROVE  task'[lease[l].task] # "claimed"
<1>1. SUFFICES ASSUME taskLock[lease[l].task] = u, taskNew[lease[l].task] = "claimed" PROVE FALSE
  BY Committed, ActiveLease
<1>2. PICK m \in Leases : /\ leaseLock[m] = u /\ lease[m] = Nil
                          /\ IsActive(leaseNew[m]) /\ leaseNew[m].task = lease[l].task
  BY <1>1, ClaimsGrant, ActiveLease
<1>3. l # m /\ leaseNew[l] # Nil /\ leaseNew[m] # Nil /\ leaseNew[l].task = leaseNew[m].task
  BY <1>2, ActiveLease DEF IsActive
<1> QED BY <1>2, <1>3 DEF Exclusive

\* The lease of a claimed task is not ended by a commit that leaves the task
\* claimed.
LEMMA CommitStrandsNone ==
    ASSUME "claimed" \notin ManualStatuses, Discipline, TakesBack, NoStrandedTask,
           NEW u \in Sessions, Commit(u)
    PROVE  NoStrandedTask'
<1>1. SUFFICES ASSUME NEW t \in Tasks, task'[t] = "claimed"
               PROVE  \E l \in Leases : IsActive(lease'[l]) /\ lease'[l].task = t
  BY DEF NoStrandedTask, ActiveOn, IsActive
<1>2. CASE taskLock[t] = u
  <2>1. PICK m \in Leases : /\ leaseLock[m] = u /\ lease[m] = Nil
                            /\ IsActive(leaseNew[m]) /\ leaseNew[m].task = t
    BY <1>1, <1>2, Committed, ClaimsGrant
  <2> QED BY <2>1, Committed
<1>3. CASE taskLock[t] # u
  <2>1. task[t] = "claimed"
    BY <1>1, <1>3, Committed
  <2>2. PICK l \in Leases : IsActive(lease[l]) /\ lease[l].task = t
    BY <2>1 DEF NoStrandedTask, ActiveOn
  <2>3. lapsed[u] = {} /\ pc[u] # "setTask"
    BY Committed DEF Discipline, Obeys, Staged, Outcomes
  <2>4. ~Ends(u, l)
    BY <1>3, <2>1, <2>2, <2>3 DEF TakesBack
  <2>5. IsActive(lease'[l]) /\ lease'[l].task = t
    BY <2>2, <2>4, Committed, ActiveLease DEF Ends
  <2> QED BY <2>5
<1> QED BY <1>2, <1>3


\* No statement forgets a task that was to be taken back.
LEMMA TakesBackNext ==
    ASSUME "claimed" \notin ManualStatuses, Discipline, Exclusive, TakesBack, [Next]_vars
    PROVE  TakesBack'
<1>1. SUFFICES ASSUME NEW s \in Sessions, NEW l \in Leases, TakenBack(s, l)
               PROVE  TakenBack(s, l)'
  BY DEF TakesBack, TakenBack
<1>2. CASE Tick \/ UNCHANGED vars
  BY <1>1, <1>2 DEF Tick, vars, TakenBack, Ends, IsActive
<1>3. ASSUME NEW u \in Sessions, u # s, Apart(u), task' = task \/ Commit(u)
      PROVE  TakenBack(s, l)'
  <2>1. ASSUME IsActive(lease[l]), leaseLock[l] = s, task[lease[l].task] # "claimed"
        PROVE  task'[lease[l].task] # "claimed"
    BY <1>3, <2>1, CommitKeepsStatus
  <2> QED BY <1>1, <1>3, <2>1, OthersTakenBack
<1>4. ASSUME leaseLock'[l] # s PROVE TakenBack(s, l)'
  BY <1>4 DEF TakenBack, Ends
<1>5. ASSUME pc[s] \in {"idle", "lookup", "scan"}, UNCHANGED << lease, leaseNew, leaseLock >>
      PROVE  TakenBack(s, l)'
  BY <1>4, <1>5, HoldsNothing
<1>6. ASSUME NEW u \in Sessions, NEW c \in Calls, Begin(u, c) PROVE TakenBack(s, l)'
  <2>1. CASE u # s
    BY <1>3, <1>6, <2>1, BeginKeeps DEF Begin
  <2>2. CASE u = s
    BY <1>5, <1>6, <2>2, QuietStatements DEF Begin
  <2> QED BY <2>1, <2>2
<1>7. ASSUME NEW u \in Sessions, Rollback(u) PROVE TakenBack(s, l)'
  <2>1. CASE u # s
    BY <1>3, <1>7, <2>1, RollbackKeeps DEF Rollback
  <2>2. CASE u = s
    BY <1>4, <1>7, <2>2, Unlocked DEF Rollback
  <2> QED BY <2>1, <2>2
<1>8. ASSUME NEW u \in Sessions,
             BeginRead(u) \/ Lookup(u) \/ ScanLeases(u) \/ ReadTask(u) \/ ReadActiveLease(u)
      PROVE  TakenBack(s, l)'
  <2>1. task' = task
    BY <1>8 DEF BeginRead, Lookup, ScanLeases, ReadTask, ReadActiveLease
  <2>2. CASE u # s
    BY <1>3, <1>8, <2>1, <2>2, ReadKeeps
  <2>3. CASE u = s /\ (BeginRead(s) \/ Lookup(s) \/ ScanLeases(s))
    BY <1>5, <2>3, QuietStatements DEF BeginRead, Lookup, ScanLeases
  <2>4. CASE u = s /\ (ReadTask(s) \/ ReadActiveLease(s))
    BY <1>1, <2>4, StillTakenBack DEF ReadTask, ReadActiveLease
  <2> QED BY <1>8, <2>2, <2>3, <2>4
<1>9. ASSUME NEW u \in Sessions, NEW k \in Leases, ExpireLease(u, k) PROVE TakenBack(s, l)'
  BY <1>1, <1>3, <1>9, ExpireKeeps, ExpireTakesBack DEF ExpireLease
<1>10. ASSUME NEW u \in Sessions, NEW t \in Tasks, ResetLapsed(u, t) PROVE TakenBack(s, l)'
  BY <1>1, <1>3, <1>10, ResetKeeps, ResetTakesBack DEF ResetLapsed
<1>11. ASSUME NEW u \in Sessions, UpsertAgent(u) \/ InsertHandoff(u) PROVE TakenBack(s, l)'
  BY <1>1, <1>3, <1>11, UpsertKeeps, HandoffKeeps, StillTakenBack DEF UpsertAgent, InsertHandoff
<1>12. ASSUME NEW u \in Sessions, NEW k \in Leases, InsertLease(u, k) PROVE TakenBack(s, l)'
  <2>1. CASE u # s
    BY <1>3, <1>12, <2>1, InsertKeeps DEF InsertLease
  <2>2. CASE u = s
    <3>1. /\ pc[s] = "insertLease" /\ UNCHANGED << task, taskLock, lease, call, lapsed >>
      BY <1>12, <2>2 DEF InsertLease
    <3>2. lease[k] = Nil /\ \A m \in Leases \ {k} : /\ leaseNew'[m] = leaseNew[m]
                                                    /\ leaseLock'[m] = leaseLock[m]
      BY <1>12, InsertWrites
    <3> QED BY <1>1, <3>1, <3>2 DEF TakenBack, Ends, IsActive
  <2> QED BY <2>1, <2>2
<1>13. ASSUME NEW u \in Sessions, SetTask(u) PROVE TakenBack(s, l)'
  BY <1>1, <1>3, <1>13, SetTaskKeeps, SetTaskTakesBack DEF SetTask
<1>14. ASSUME NEW u \in Sessions, SetLease(u) PROVE TakenBack(s, l)'
  BY <1>1, <1>3, <1>14, SetLeaseKeeps, SetLeaseTakesBack DEF SetLease
<1>15. ASSUME NEW u \in Sessions, Commit(u) PROVE TakenBack(s, l)'
  BY <1>3, <1>4, <1>15, CommitKeeps, Committed, Unlocked
<1> QED
  BY <1>2, <1>6, <1>7, <1>8, <1>9, <1>10, <1>11, <1>12, <1>13, <1>14, <1>15
  DEF Next, Statement, Crash, Replay, UniqueViolation, OutOfLeaseIds, DeadlockAbort

\* Only a commit changes the committed rows, the records and the claims.
LEMMA OnlyCommits ==
    ASSUME [Next]_vars
    PROVE  \/ \E s \in Sessions : Commit(s)
           \/ UNCHANGED << task, lease, record, claims >>
<1> USE DEF vars
<1>1. ASSUME NEW s \in Sessions, Statement(s), ~Commit(s)
      PROVE  UNCHANGED << task, lease, record, claims >>
  <2>1. CASE Replay(s) \/ UniqueViolation(s) \/ OutOfLeaseIds(s) \/ DeadlockAbort(s)
    BY <2>1 DEF Replay, UniqueViolation, OutOfLeaseIds, DeadlockAbort, Rollback
  <2>2. CASE Lookup(s) \/ ScanLeases(s) \/ ReadTask(s) \/ ReadActiveLease(s) \/ UpsertAgent(s)
    BY <2>2 DEF Lookup, ScanLeases, ReadTask, ReadActiveLease, UpsertAgent
  <2>3. ASSUME NEW l \in Leases, ExpireLease(s, l) \/ InsertLease(s, l)
        PROVE  UNCHANGED << task, lease, record, claims >>
    BY <2>3 DEF ExpireLease, InsertLease
  <2>4. ASSUME NEW t \in Tasks, ResetLapsed(s, t)
        PROVE  UNCHANGED << task, lease, record, claims >>
    BY <2>4 DEF ResetLapsed
  <2>5. CASE SetTask(s) \/ SetLease(s) \/ InsertHandoff(s)
    BY <2>5 DEF SetTask, SetLease, InsertHandoff
  <2> QED BY <1>1, <2>1, <2>2, <2>3, <2>4, <2>5 DEF Statement
<1>2. ASSUME NEW s \in Sessions, BeginRead(s) \/ Crash(s) \/ \E c \in Calls : Begin(s, c)
      PROVE  UNCHANGED << task, lease, record, claims >>
  BY <1>2 DEF BeginRead, Crash, Begin, Rollback
<1>3. CASE Tick \/ UNCHANGED vars
  BY <1>3 DEF Tick
<1> QED BY <1>1, <1>2, <1>3 DEF Next

\* No step strands a task.
LEMMA NoStrandedNext ==
    ASSUME "claimed" \notin ManualStatuses, Discipline, TakesBack, NoStrandedTask, [Next]_vars
    PROVE  NoStrandedTask'
<1>1. CASE UNCHANGED << task, lease, record, claims >>
  BY <1>1 DEF NoStrandedTask, ActiveOn, IsActive
<1>2. CASE \E s \in Sessions : Commit(s)
  BY <1>2, CommitStrandsNone
<1> QED BY <1>1, <1>2, OnlyCommits

\* A task never has two active leases (idx_task_leases_one_active_per_task seen
\* from the transactions, renewals that come late included).
THEOREM OneActiveLease ==
    Spec => [](\A t \in Tasks : \A l, m \in ActiveOn(t, lease) : l = m)
<1>1. Init => Discipline /\ Exclusive
  BY DisciplineInit, ExclusiveInit
<1>2. Discipline /\ Exclusive /\ [Next]_vars => Discipline' /\ Exclusive'
  BY DisciplineNext, ExclusiveNext
<1>3. Discipline /\ Exclusive => \A t \in Tasks : \A l, m \in ActiveOn(t, lease) : l = m
  <2> SUFFICES ASSUME Discipline, Exclusive, NEW t \in Tasks,
                      NEW l \in ActiveOn(t, lease), NEW m \in ActiveOn(t, lease), l # m
               PROVE  FALSE
    OBVIOUS
  <2>1. l \in Leases /\ m \in Leases /\ IsActive(lease[l]) /\ IsActive(lease[m])
        /\ lease[l].task = t /\ lease[m].task = t
    BY DEF ActiveOn
  <2> QED BY <2>1, ActiveLease DEF Exclusive
<1> QED BY <1>1, <1>2, <1>3, PTL DEF Spec

\* A task left in 'claimed' has an active lease, whatever claims, releases,
\* finishes and cleanups ran at once and wherever they were cut off, provided
\* nobody writes 'claimed' by hand: update_task_state takes any status, and one
\* without a lease would never be left.
THEOREM TasksKeepTheirLease ==
    ASSUME "claimed" \notin ManualStatuses
    PROVE  Spec => []NoStrandedTask
<1> DEFINE Inv == Discipline /\ Exclusive /\ TakesBack /\ NoStrandedTask
<1>1. Init => Inv
  <2> SUFFICES ASSUME Init PROVE TakesBack /\ NoStrandedTask
    BY DisciplineInit, ExclusiveInit
  <2> QED BY DEF Init, TakesBack, NoStrandedTask, Ends, IsActive
<1>2. Inv /\ [Next]_vars => Inv'
  BY DisciplineNext, ExclusiveNext, TakesBackNext, NoStrandedNext
<1>3. Inv => NoStrandedTask
  OBVIOUS
<1> HIDE DEF Inv
<1> QED BY <1>1, <1>2, <1>3, PTL DEF Spec

-----------------------------------------------------------------------------
(* A finished task is not brought back. *)

KeepsFinished(s, t) ==
    taskLock[t] = s /\ taskNew[t] = "ready" /\ call[s].op # "update" =>
        task[t] \notin {"done", "blocked"}

\* A step of another session.
LEMMA OthersKeepFinished ==
    ASSUME Discipline, NEW s \in Sessions, NEW t \in Tasks, KeepsFinished(s, t),
           NEW u \in Sessions, u # s, Apart(u), task' = task \/ Commit(u)
    PROVE  KeepsFinished(s, t)'
<1>1. /\ call'[s] = call[s] /\ (taskLock'[t] = s <=> taskLock[t] = s)
      /\ taskLock[t] = s => taskNew'[t] = taskNew[t]
  BY DEF Apart
<1>2. taskLock[t] = s => task'[t] = task[t]
  BY Committed
<1> QED BY <1>1, <1>2 DEF KeepsFinished

\* A conditional reset takes only what is committed as in progress.
LEMMA ResetKeepsFinished ==
    ASSUME Discipline, NEW s \in Sessions, NEW t \in Tasks, KeepsFinished(s, t),
           UNCHANGED << task, call >>, NEW v \in Tasks, ResetTask(s, v),
           taskLock[v] = s => ~InProgress(taskNew[v])
    PROVE  KeepsFinished(s, t)'
<1>1. CASE t # v
  BY <1>1, ResetTaskWrites DEF KeepsFinished
<1>2. CASE t = v
  BY <1>2, ResetTaskWrites DEF KeepsFinished, TaskSeenBy, InProgress
<1> QED BY <1>1, <1>2

\* A release resets only a task in progress, a claim and a finish write other
\* statuses.
LEMMA SetTaskKeepsFinished ==
    ASSUME Discipline, NEW s \in Sessions, NEW t \in Tasks, KeepsFinished(s, t), SetTask(s)
    PROVE  KeepsFinished(s, t)'
<1>1. pc[s] = "setTask" /\ UNCHANGED << task, call >> /\ Obeys(s) /\ TaskOf(s) \in Tasks
  BY TaskOfType DEF SetTask, Discipline
<1>2. CASE call[s].op = "release"
  <2>1. ResetTask(s, TaskOf(s)) /\ taskLock[TaskOf(s)] # s
    BY <1>1, <1>2 DEF SetTask, Obeys, HoldersOf, HoldsTask
  <2> QED BY <1>1, <2>1, ResetKeepsFinished
<1>3. CASE call[s].op = "update"
  BY <1>1, <1>3 DEF KeepsFinished
<1>4. CASE call[s].op \in {"claim", "finish"}
  <2>1. taskNew'[TaskOf(s)] # "ready"
    BY <1>1, <1>4, SetTaskWrites, CallFields, TxFinalAssumption DEF Obeys, Staged
  <2>2. t # TaskOf(s) => taskNew'[t] = taskNew[t] /\ taskLock'[t] = taskLock[t]
    BY SetTaskWrites
  <2> QED BY <1>1, <2>1, <2>2 DEF KeepsFinished
<1> QED BY <1>1, <1>2, <1>3, <1>4 DEF Obeys, Staged

\* No statement forgets that its task was in progress.
LEMMA FromProgressNext ==
    ASSUME Discipline, FromProgress, [Next]_vars
    PROVE  FromProgress'
<1>1. SUFFICES ASSUME NEW s \in Sessions, NEW t \in Tasks, KeepsFinished(s, t)
               PROVE  KeepsFinished(s, t)'
  BY DEF FromProgress, KeepsFinished
<1>2. ASSUME UNCHANGED << task, taskNew, taskLock, call >> PROVE KeepsFinished(s, t)'
  BY <1>1, <1>2 DEF KeepsFinished
<1>3. ASSUME NEW u \in Sessions, u # s, Apart(u), task' = task \/ Commit(u)
      PROVE  KeepsFinished(s, t)'
  BY <1>1, <1>3, OthersKeepFinished
<1>4. ASSUME taskLock'[t] # s PROVE KeepsFinished(s, t)'
  BY <1>4 DEF KeepsFinished
<1>5. ASSUME NEW u \in Sessions, BeginRead(u) \/ \E c \in Calls : Begin(u, c)
      PROVE  KeepsFinished(s, t)'
  BY <1>3, <1>4, <1>5, HoldsNothing, BeginKeeps, ReadKeeps DEF Begin, BeginRead
<1>6. ASSUME NEW u \in Sessions, Rollback(u) \/ Commit(u) PROVE KeepsFinished(s, t)'
  BY <1>3, <1>4, <1>6, RollbackKeeps, CommitKeeps, Unlocked, Committed DEF Rollback
<1>7. ASSUME NEW u \in Sessions, NEW v \in Tasks, ResetLapsed(u, v) PROVE KeepsFinished(s, t)'
  <2>1. CASE u # s
    BY <1>3, <1>7, <2>1, ResetKeeps DEF ResetLapsed
  <2>2. CASE u = s
    <3>1. taskLock[v] = s => ~InProgress(taskNew[v])
      BY <1>7, <2>2 DEF ResetLapsed, Discipline, Obeys, HoldersOf, HoldsTask, InProgress
    <3> QED BY <1>1, <1>7, <2>2, <3>1, ResetKeepsFinished DEF ResetLapsed
  <2> QED BY <2>1, <2>2
<1>8. ASSUME NEW u \in Sessions, SetTask(u) PROVE KeepsFinished(s, t)'
  BY <1>1, <1>3, <1>8, SetTaskKeeps, SetTaskKeepsFinished DEF SetTask
<1>9. ASSUME NEW u \in Sessions,
             \/ Lookup(u) \/ ScanLeases(u) \/ ReadTask(u) \/ ReadActiveLease(u) \/ UpsertAgent(u)
             \/ SetLease(u) \/ InsertHandoff(u)
             \/ \E l \in Leases : ExpireLease(u, l) \/ InsertLease(u, l)
      PROVE  KeepsFinished(s, t)'
  BY <1>2, <1>9 DEF Lookup, ScanLeases, ReadTask, ReadActiveLease, UpsertAgent, SetLease,
                    InsertHandoff, ExpireLease, InsertLease
<1>10. CASE Tick \/ UNCHANGED vars
  BY <1>2, <1>10 DEF Tick, vars
<1> QED
  BY <1>5, <1>6, <1>7, <1>8, <1>9, <1>10
  DEF Next, Statement, Crash, Replay, UniqueViolation, OutOfLeaseIds, DeadlockAbort

\* A late release or an expiry sweep never makes a finished task ready again:
\* only the commit of an update_task_state does.
THEOREM FinishedStaysFinished == Spec => NoResurrection
<1>1. Init => FromProgress
  BY TxNilAssumption DEF Init, FromProgress
<1>2. ASSUME Discipline, FromProgress, [Next]_vars
      PROVE  [\A t \in Tasks :
                task[t] \in {"done", "blocked"} /\ task'[t] = "ready" =>
                    \E s \in Sessions : call[s].op = "update" /\ pc[s] = "ok" /\ pc'[s] = "idle"]_vars
  <2>1. SUFFICES ASSUME NEW t \in Tasks, task[t] \in {"done", "blocked"}, task'[t] = "ready"
        PROVE  \E s \in Sessions : call[s].op = "update" /\ pc[s] = "ok" /\ pc'[s] = "idle"
    OBVIOUS
  <2>2. PICK s \in Sessions : Commit(s)
    BY <1>2, <2>1, OnlyCommits
  <2>3. taskLock[t] = s /\ taskNew[t] = "ready"
    BY <1>2, <2>1, <2>2, Committed
  <2>4. call[s].op = "update"
    BY <1>2, <2>1, <2>3 DEF FromProgress
  <2>5. pc[s] = "ok"
    BY <1>2, <2>3, <2>4 DEF Discipline, Obeys, HoldersOf, HoldsTask
  <2>6. pc'[s] = "idle"
    BY <1>2, <2>2, Committed DEF Forget, Discipline, TypeOK
  <2> QED BY <2>4, <2>5, <2>6
<1>3. Discipline /\ FromProgress /\ [Next]_vars => FromProgress'
  BY FromProgressNext
<1> QED
  BY <1>1, <1>2, <1>3, SpecDiscipline, PTL DEF Spec, NoResurrection

-----------------------------------------------------------------------------
(* A key claims once. *)

KeyInHand(s) ==
    pc[s] # "idle" /\ call[s].key # Nil =>
        /\ s \in KeyUsers
        /\ pc[s] # "lookup" /\ call[s].op = "claim" => record[<<"claim", call[s].key>>] = Nil

\* What one commit adds under a key.
LEMMA OneGrant ==
    ASSUME Discipline, Exclusive, NEW s \in Sessions, pc[s] \in Outcomes,
           NEW l \in Leases, NEW m \in Leases,
           leaseLock[l] = s, lease[l] = Nil, leaseLock[m] = s, lease[m] = Nil
    PROVE  /\ l = m
           /\ call[s].op = "claim" /\ pc[s] = "ok" /\ call[s].task \in Tasks
           /\ IsActive(leaseNew[l]) /\ leaseNew[l].task = call[s].task
<1>1. /\ HoldsLease(s, l) /\ HoldsLease(s, m) /\ leaseNew[l] # Nil /\ leaseNew[m] # Nil
  BY DEF Discipline, Obeys, HoldersOf
<1>2. /\ call[s].op = "claim" /\ pc[s] = "ok"
      /\ IsActive(leaseNew[l]) /\ leaseNew[l].task = call[s].task
      /\ IsActive(leaseNew[m]) /\ leaseNew[m].task = call[s].task
  BY <1>1 DEF HoldsLease, Outcomes
<1>3. call[s].task \in Tasks
  BY <1>2, CallFields DEF Discipline, Obeys, Staged
<1>4. l = m
  BY <1>1, <1>2 DEF Exclusive
<1> QED BY <1>2, <1>3, <1>4

\* What a commit leaves under the key of its call (remember_idempotency).
LEMMA CommitRecords ==
    ASSUME Discipline, Exclusive, NEW s \in Sessions, Commit(s)
    PROVE  /\ \A op \in LeaseOps, k \in Keys : record[<<op, k>>] # Nil => record'[<<op, k>>] # Nil
           /\ call[s].key = Nil => UNCHANGED << record, claims >>
           /\ call[s].key # Nil =>
                 /\ call[s].key \in Keys
                 /\ record'[<<call[s].op, call[s].key>>] # Nil
           /\ \A k \in Keys : claims'[k] # claims[k] =>
                 /\ k = call[s].key /\ call[s].op = "claim"
                 /\ \E n \in Leases : claims'[k] = claims[k] \cup {n}
<1>1. pc[s] \in Outcomes /\ pc[s] # "idle" /\ pc[s] # Nil /\ Remember(s, pc[s])
  BY TxNilAssumption DEF Commit, Outcomes
<1>2. call[s].key # Nil => call[s].op \in LeaseOps /\ call[s].key \in Keys
  BY <1>1, KeyedCall
<1>3. record \in [LeaseOps \X Keys -> Outcomes \cup {Nil}] /\ claims \in [Keys -> SUBSET Leases]
  BY DEF Discipline, TypeOK
<1>4. \A op \in LeaseOps, k \in Keys : record[<<op, k>>] # Nil => record'[<<op, k>>] # Nil
  BY <1>1, <1>2, <1>3 DEF Remember
<1>5. call[s].key # Nil => record'[<<call[s].op, call[s].key>>] # Nil
  BY <1>1, <1>2, <1>3 DEF Remember
<1>6. ASSUME NEW k \in Keys, claims'[k] # claims[k]
      PROVE  /\ k = call[s].key /\ call[s].op = "claim"
             /\ \E n \in Leases : claims'[k] = claims[k] \cup {n}
  <2> DEFINE granted == {l \in Leases : leaseLock[l] = s /\ lease[l] = Nil}
  <2>1. claims' = IF call[s].key = Nil THEN claims
                  ELSE [claims EXCEPT ![call[s].key] = @ \cup granted]
    BY DEF Commit
  <2>2. k = call[s].key /\ claims'[k] = claims[k] \cup granted
    <3> HIDE DEF granted
    <3> QED BY <1>3, <1>6, <2>1
  <2>3. PICK n \in granted : TRUE
    BY <1>6, <2>2
  <2>4. call[s].op = "claim" /\ \A m \in granted : m = n
    BY <1>1, <2>3, OneGrant
  <2>5. claims[k] \cup granted = claims[k] \cup {n}
    BY <2>3, <2>4
  <2> QED BY <2>2, <2>3, <2>4, <2>5
<1>7. call[s].key = Nil => UNCHANGED << record, claims >>
  BY <1>1 DEF Remember, Commit
<1> QED BY <1>2, <1>4, <1>5, <1>6, <1>7

\* A claim under a key, once past its lookup, stays the first of its key.
LEMMA KeyInHandNext ==
    ASSUME \A s, u \in KeyUsers : s = u,
           Discipline, Exclusive, \A s \in Sessions : KeyInHand(s), [Next]_vars,
           NEW s \in Sessions
    PROVE  KeyInHand(s)'
<1>1. KeyInHand(s)
  OBVIOUS
<1>2. ASSUME UNCHANGED record, call'[s] = call[s],
             pc[s] # "idle", pc[s] # "lookup"
      PROVE  KeyInHand(s)'
  BY <1>1, <1>2 DEF KeyInHand
<1>3. ASSUME UNCHANGED record, call'[s] = call[s], pc'[s] = pc[s] PROVE KeyInHand(s)'
  BY <1>1, <1>3 DEF KeyInHand
<1>4. ASSUME NEW u \in Sessions, u # s, Apart(u), UNCHANGED record PROVE KeyInHand(s)'
  BY <1>3, <1>4 DEF Apart
<1>5. ASSUME pc'[s] = "idle" PROVE KeyInHand(s)'
  BY <1>5 DEF KeyInHand
<1>6. ASSUME NEW u \in Sessions, NEW c \in Calls, Begin(u, c) PROVE KeyInHand(s)'
  <2>1. CASE u # s
    BY <1>4, <1>6, <2>1, BeginKeeps DEF Begin
  <2>2. CASE u = s
    <3>1. call'[s] = c /\ (c.key # Nil => s \in KeyUsers /\ pc'[s] = "lookup")
      BY <1>6, <2>2 DEF Begin, Goto, Discipline, TypeOK
    <3> QED BY <3>1 DEF KeyInHand
  <2> QED BY <2>1, <2>2
<1>7. ASSUME NEW u \in Sessions, BeginRead(u) PROVE KeyInHand(s)'
  <2>1. CASE u # s
    BY <1>4, <1>7, <2>1, ReadKeeps DEF BeginRead
  <2>2. CASE u = s
    <3>1. call'[s].key = Nil
      BY <1>7, <2>2 DEF BeginRead, Discipline, TypeOK, ReadCall, NoCall
    <3> QED BY <3>1 DEF KeyInHand
  <2> QED BY <2>1, <2>2
<1>8. ASSUME NEW u \in Sessions, Rollback(u) PROVE KeyInHand(s)'
  <2>1. CASE u # s
    BY <1>4, <1>8, <2>1, RollbackKeeps DEF Rollback
  <2>2. CASE u = s
    BY <1>5, <1>8, <2>2 DEF Rollback, Forget, Discipline, TypeOK
  <2> QED BY <2>1, <2>2
<1>9. ASSUME NEW u \in Sessions, Lookup(u) PROVE KeyInHand(s)'
  <2>1. CASE u # s
    BY <1>4, <1>9, <2>1, ReadKeeps DEF Lookup
  <2>2. CASE u = s
    BY <1>1, <1>9, <2>2 DEF Lookup, Hit, KeyInHand
  <2> QED BY <2>1, <2>2
<1>10. ASSUME NEW u \in Sessions, Commit(u) PROVE KeyInHand(s)'
  <2>1. CASE u = s
    BY <1>5, <1>10, <2>1, Committed DEF Forget, Discipline, TypeOK
  <2>2. CASE u # s
    <3>1. call'[s] = call[s] /\ pc'[s] = pc[s]
      BY <1>10, <2>2, CommitKeeps DEF Apart
    <3>2. CASE call[u].key = Nil
      BY <1>3, <1>10, <3>1, <3>2, CommitRecords
    <3>3. CASE call[u].key # Nil
      <4>1. u \in KeyUsers
        BY <1>10, <3>3 DEF KeyInHand, Commit, Outcomes
      <4>2. s \notin KeyUsers
        BY <2>2, <4>1
      <4> QED BY <1>1, <3>1, <4>2 DEF KeyInHand
    <3> QED BY <3>2, <3>3
  <2> QED BY <2>1, <2>2
<1>11. ASSUME NEW u \in Sessions,
              \/ ScanLeases(u) \/ ReadTask(u) \/ ReadActiveLease(u) \/ UpsertAgent(u) \/ SetTask(u)
              \/ SetLease(u) \/ InsertHandoff(u)
              \/ \E l \in Leases : ExpireLease(u, l) \/ InsertLease(u, l)
              \/ \E t \in Tasks : ResetLapsed(u, t)
       PROVE  KeyInHand(s)'
  <2>1. UNCHANGED << record, call >> /\ pc[u] # "idle" /\ pc[u] # "lookup"
    BY <1>11 DEF ScanLeases, ReadTask, ReadActiveLease, UpsertAgent, SetTask, SetLease,
                 InsertHandoff, ExpireLease, InsertLease, ResetLapsed
  <2>2. u # s => pc'[s] = pc[s]
    BY <1>11 DEF ScanLeases, ReadTask, ReadActiveLease, UpsertAgent, SetTask, SetLease,
                 InsertHandoff, ExpireLease, InsertLease, ResetLapsed, Goto, Discipline, TypeOK
  <2> QED BY <1>2, <1>3, <2>1, <2>2
<1>12. CASE Tick \/ UNCHANGED vars
  BY <1>3, <1>12 DEF Tick, vars
<1> QED
  BY <1>6, <1>7, <1>8, <1>9, <1>10, <1>11, <1>12
  DEF Next, Statement, Crash, Replay, UniqueViolation, OutOfLeaseIds, DeadlockAbort

\* The second call of a key finds the record of the first.
LEMMA KeysNext ==
    ASSUME \A s, u \in KeyUsers : s = u, Discipline, Exclusive, KeysKept, KeyedOnce, [Next]_vars
    PROVE  KeysKept' /\ KeyedOnce'
<1>1. \A s \in Sessions : KeyInHand(s)
  BY DEF KeysKept, KeyInHand
<1>2. \A s \in Sessions : KeyInHand(s)'
  BY <1>1, KeyInHandNext
<1>3. CASE UNCHANGED << task, lease, record, claims >>
  BY <1>2, <1>3 DEF KeysKept, KeyInHand, KeyedOnce
<1>4. ASSUME NEW s \in Sessions, Commit(s) PROVE KeysKept' /\ KeyedOnce'
  <2>1. ASSUME NEW k \in Keys, claims'[k] # {} PROVE record'[<<"claim", k>>] # Nil
    <3>1. CASE claims'[k] = claims[k]
      BY <1>4, <2>1, <3>1, CommitRecords DEF KeysKept
    <3>2. CASE claims'[k] # claims[k]
      BY <1>4, <3>2, CommitRecords, TxNilAssumption
    <3> QED BY <3>1, <3>2
  <2>2. ASSUME NEW k \in Keys, NEW l \in claims'[k], NEW m \in claims'[k] PROVE l = m
    <3>1. CASE claims'[k] = claims[k]
      BY <2>2, <3>1 DEF KeyedOnce
    <3>2. CASE claims'[k] # claims[k]
      <4>1. k = call[s].key /\ call[s].op = "claim" /\ k # Nil /\ pc[s] # "idle" /\ pc[s] # "lookup"
        BY <1>4, <3>2, CommitRecords, TxNilAssumption DEF Commit, Outcomes
      <4>2. record[<<"claim", k>>] = Nil
        BY <1>1, <4>1 DEF KeyInHand
      <4>3. claims[k] = {}
        BY <4>2 DEF KeysKept
      <4>4. PICK n \in Leases : claims'[k] = {n}
        BY <1>4, <3>2, <4>3, CommitRecords
      <4> QED BY <2>2, <4>4
    <3> QED BY <3>1, <3>2
  <2> QED BY <1>2, <2>1, <2>2 DEF KeysKept, KeyInHand, KeyedOnce
<1> QED BY <1>3, <1>4, OnlyCommits

\* A key claims at most one lease, whatever other sessions do meanwhile, provided
\* the calls of keys come from one session, one after the other: two calls of one
\* key at once may both miss the record and both claim.
THEOREM KeysClaimOnce ==
    ASSUME \A s, u \in KeyUsers : s = u
    PROVE  Spec => []KeyedOnce
<1> DEFINE Inv == Discipline /\ Exclusive /\ KeysKept /\ KeyedOnce
<1>1. Init => Inv
  <2> SUFFICES ASSUME Init PROVE KeysKept /\ KeyedOnce
    BY DisciplineInit, ExclusiveInit
  <2> QED BY DEF Init, KeysKept, KeyedOnce
<1>2. Inv /\ [Next]_vars => Inv'
  BY DisciplineNext, ExclusiveNext, KeysNext
<1>3. Inv => KeyedOnce
  OBVIOUS
<1> HIDE DEF Inv
<1> QED BY <1>1, <1>2, <1>3, PTL DEF Spec

-----------------------------------------------------------------------------
(* Who waits for whom. *)

\* The transactions of a circle without releases and expiries.
Circle(C) ==
    /\ C \subseteq Sessions
    /\ \A u \in C : WaitsFor(u) \cap C # {}
    /\ \A u \in C : call[u].op # "release" /\ ~Expired(u) /\ pc[u] # "handoff"

\* A call that has run its last statement waits for nobody.
LEMMA WaitingPlaces ==
    ASSUME Discipline, NEW C, Circle(C), NEW u \in C
    PROVE  pc[u] \in {"sweep", "reset", "agent", "insertLease", "setTask", "setLease"}
  BY DEF Circle, WaitsFor

\* Who holds a task row in such a circle is a finish that has its lease to update.
LEMMA HolderOfTask ==
    ASSUME Discipline, NEW C, Circle(C), NEW u \in C, NEW t \in Tasks, taskLock[t] = u
    PROVE  pc[u] = "setLease"
<1>1. HoldsTask(u, t) /\ ~Expired(u) /\ call[u].op # "release"
  BY DEF Circle, Discipline, Obeys, HoldersOf
<1> QED BY <1>1, WaitingPlaces DEF HoldsTask

\* Who holds a lease row in it is a claim that has its task to update.
LEMMA HolderOfLease ==
    ASSUME Discipline, NEW C, Circle(C), NEW u \in C, NEW l \in Leases, leaseLock[l] = u
    PROVE  pc[u] = "setTask" /\ lease[l] = Nil
<1>1. HoldsLease(u, l) /\ ~Expired(u) /\ call[u].op # "release"
  BY DEF Circle, Discipline, Obeys, HoldersOf
<1>2. leaseNew[l].status # "expired"
  BY <1>1 DEF Expired
<1> QED BY <1>1, <1>2, WaitingPlaces DEF HoldsLease

\* Who holds an agents row in it is a claim.
LEMMA HolderOfAgent ==
    ASSUME Discipline, NEW C, Circle(C), NEW u \in C, NEW a \in Agents, agentLock[a] = u
    PROVE  pc[u] \in {"insertLease", "setTask"}
  BY WaitingPlaces DEF Circle, Discipline, Obeys, HoldersOf

\* Nobody of the circle waits to update a lease by its id: what the others
\* hold there are rows nobody else knows yet.
LEMMA NoneAtSetLease ==
    ASSUME Discipline, NEW C, Circle(C), NEW u \in C
    PROVE  pc[u] # "setLease"
<1> SUFFICES ASSUME pc[u] = "setLease" PROVE FALSE
  OBVIOUS
<1>1. u \in Sessions /\ call[u].lease \in Leases /\ lease[call[u].lease] # Nil
  BY TaskOfType DEF Circle, Discipline, Obeys, Staged
<1>2. PICK v \in C : v \in WaitsFor(u)
  BY DEF Circle
<1>3. v = leaseLock[call[u].lease]
  BY <1>2 DEF WaitsFor
<1> QED BY <1>1, <1>2, <1>3, HolderOfLease

\* Nobody of the circle waits for a task row: only a finish could hold it, and it
\* would wait for a lease.
LEMMA NoneAtSetTask ==
    ASSUME Discipline, NEW C, Circle(C), NEW u \in C
    PROVE  pc[u] \notin {"setTask", "reset"}
<1> SUFFICES ASSUME pc[u] \in {"setTask", "reset"} PROVE FALSE
  OBVIOUS
<1>1. u \in Sessions /\ lapsed[u] \in SUBSET Tasks
  BY DEF Circle, Discipline, TypeOK
<1>2. PICK v \in C : v \in WaitsFor(u)
  BY DEF Circle
<1>3. \E t \in Tasks : v = taskLock[t]
  BY <1>1, <1>2, TaskOfType DEF WaitsFor
<1> QED BY <1>2, <1>3, HolderOfTask, NoneAtSetLease

\* So nobody holds a lease there, and with that nobody a claim could wait for.
LEMMA NoCircle == ASSUME Discipline, NEW C, Circle(C) PROVE C = {}
<1> SUFFICES ASSUME NEW u \in C PROVE FALSE
  OBVIOUS
<1>1. u \in Sessions /\ sweep[u] \in SUBSET Leases
  BY DEF Circle, Discipline, TypeOK
<1>2. PICK v \in C : v \in WaitsFor(u)
  BY DEF Circle
<1>3. \A w \in C, l \in Leases : leaseLock[l] # w
  BY HolderOfLease, NoneAtSetTask
<1>4. pc[u] \in {"sweep", "agent", "insertLease"}
  BY WaitingPlaces, NoneAtSetLease, NoneAtSetTask
<1>5. CASE pc[u] = "sweep"
  BY <1>1, <1>2, <1>3, <1>5 DEF WaitsFor
<1>6. ASSUME NEW w \in C, pc[w] = "insertLease" PROVE FALSE
  <2>1. PICK x \in C : x \in WaitsFor(w)
    BY DEF Circle
  <2>2. \E l \in Leases : leaseLock[l] = x
    BY <1>6, <2>1 DEF WaitsFor, IndexBlockers, ActiveOn
  <2> QED BY <1>3, <2>1, <2>2
<1>7. CASE pc[u] = "agent"
  <2>1. call[u].agent \in Agents
    BY <1>1, <1>7, CallFields DEF Discipline, Obeys, Staged
  <2>2. pc[v] # "ok"
    BY <1>2, WaitingPlaces
  <2>3. agentLock[call[u].agent] = v
    BY <1>2, <1>7, <2>2 DEF WaitsFor, WritersOf, ReferrersTo
  <2> QED BY <1>2, <1>6, <2>1, <2>3, HolderOfAgent, NoneAtSetTask
<1> QED BY <1>4, <1>5, <1>6, <1>7

\* Every circle of waiting transactions includes a release, a cleanup that has expired
\* a lease, or a finish next to a claim of the agent whose lease it finishes: the first
\* two alone write a lease before its task, and the last waits for the agent's row after
\* both (upsert_agent, and the foreign keys of handoff_summaries and agent_actions).
THEOREM CirclesNeedLateTasks == Spec => []LocksInOrder
<1>1. Discipline => LocksInOrder
  <2> SUFFICES ASSUME Discipline, NEW C \in (SUBSET Sessions) \ {{}},
                      \A u \in C : WaitsFor(u) \cap C # {},
                      \A u \in C :
                        ~ \/ call[u].op = "release"
                          \/ \E l \in Leases : leaseLock[l] = u /\ leaseNew[l].status = "expired"
                          \/ /\ call[u].op = "finish" /\ pc[u] = "handoff"
                             /\ \E w \in C : call[w].op = "claim" /\ call[w].agent = seenLease[u].agent
               PROVE  FALSE
    BY DEF LocksInOrder
  <2>1. ASSUME NEW u \in C PROVE call[u].op # "release" /\ ~Expired(u)
    BY DEF Expired
  <2>2. ASSUME NEW u \in C, pc[u] = "handoff" PROVE FALSE
    <3>1. u \in Sessions /\ call[u].op = "finish" /\ seenLease[u].agent \in Agents
      BY <2>2, RowFields DEF Discipline, TypeOK, Obeys, Staged, ReadRow, OnLease, IsActive
    <3>2. PICK w \in C : w \in WritersOf(seenLease[u].agent)
      BY <2>2 DEF WaitsFor
    <3>3. w \in Sessions /\ agentLock[seenLease[u].agent] = w
      BY <3>2 DEF WritersOf
    <3>4. call[w].op = "claim" /\ call[w].agent = seenLease[u].agent
      BY <3>1, <3>3 DEF Discipline, Obeys, HoldersOf
    <3> QED BY <2>2, <3>1, <3>2, <3>4
  <2>3. Circle(C)
    BY <2>1, <2>2 DEF Circle
  <2> QED BY <2>3, NoCircle
<1> QED BY <1>1, SpecDiscipline, PTL

-----------------------------------------------------------------------------
(* The statements implement the ownership contract. *)

Held == [t \in Tasks |-> ActiveOn(t, lease)]
Given == {l \in Leases : lease[l] # Nil}

\* A commit ends the leases it ended, and grants the one it inserted.
LEMMA CommitTransfers ==
    ASSUME Discipline, Exclusive, NEW s \in Sessions, Commit(s)
    PROVE  Ownership!Next
<1> DEFINE D == {t \in Tasks : \E l \in Leases : Ends(s, l) /\ lease[l].task = t}
           G == {l \in Leases : leaseLock[l] = s /\ lease[l] = Nil}
<1>1. ASSUME NEW l \in Leases, lease[l] # Nil
      PROVE  /\ lease'[l] # Nil
             /\ IsActive(lease'[l]) <=> IsActive(lease[l]) /\ ~Ends(s, l)
             /\ lease'[l].task = lease[l].task
  <2>1. /\ leaseNew[l] # Nil /\ leaseNew[l].task = lease[l].task
        /\ lease[l].released => leaseNew[l].released
        /\ IsActive(lease[l]) \/ lease[l].released
    BY <1>1 DEF Discipline, Rows
  <2>2. IsActive(leaseNew[l]) => ~leaseNew[l].released
    BY DEF IsActive
  <2> QED BY <1>1, <2>1, <2>2, Committed DEF Ends
<1>2. ASSUME NEW l \in Leases, lease[l] = Nil, l \notin G PROVE lease'[l] = Nil
  BY <1>2, Committed
<1>3. ASSUME NEW t \in Tasks, NEW l \in ActiveOn(t, lease), NEW m \in ActiveOn(t, lease)
      PROVE  l = m
  <2>1. l \in Leases /\ m \in Leases /\ IsActive(lease[l]) /\ IsActive(lease[m])
        /\ lease[l].task = t /\ lease[m].task = t
    BY <1>3 DEF ActiveOn
  <2> QED BY <2>1, ActiveLease DEF Exclusive
\* What is left of the leases a task was held through.
<1>4. ASSUME NEW t \in Tasks
      PROVE  {l \in ActiveOn(t, lease') : l \notin G} = IF t \in D THEN {} ELSE ActiveOn(t, lease)
  <2>1. ASSUME NEW l \in Leases, l \notin G
        PROVE  l \in ActiveOn(t, lease') <=> l \in ActiveOn(t, lease) /\ ~Ends(s, l)
    <3>1. CASE lease[l] = Nil
      BY <1>2, <2>1, <3>1 DEF ActiveOn, IsActive
    <3>2. CASE lease[l] # Nil
      BY <1>1, <3>2 DEF ActiveOn
    <3> QED BY <3>1, <3>2
  <2>2. \A l \in ActiveOn(t, lease) : l \in Leases /\ l \notin G
    BY DEF ActiveOn, IsActive
  <2>3. ASSUME NEW l \in ActiveOn(t, lease) PROVE Ends(s, l) <=> t \in D
    <3>1. Ends(s, l) => t \in D
      BY <2>2, <2>3 DEF ActiveOn
    <3>2. ASSUME NEW m \in Leases, Ends(s, m), lease[m].task = t PROVE Ends(s, l)
      BY <1>3, <2>3, <3>2 DEF ActiveOn, Ends
    <3> QED BY <3>1, <3>2
  <2>4. \A l \in ActiveOn(t, lease') : l \in Leases
    BY DEF ActiveOn
  <2> HIDE DEF D, G
  <2> QED BY <2>1, <2>2, <2>3, <2>4
<1>5. D \in SUBSET Tasks
  OBVIOUS
<1>6. CASE G = {}
  <2>1. \A t \in Tasks : ActiveOn(t, lease') = IF t \in D THEN {} ELSE ActiveOn(t, lease)
    BY <1>4, <1>6
  <2>2. Given' = Given
    BY <1>1, <1>2, <1>6 DEF Given
  <2>3. Ownership!End(D)
    <3> HIDE DEF D
    <3>1. Held' = [t \in Tasks |-> IF t \in D THEN {} ELSE Held[t]]
      BY <2>1 DEF Held, ActiveOn, IsActive
    <3> QED BY <2>2, <3>1 DEF Ownership!End, Held, Given
  <2> QED BY <1>5, <2>3 DEF Ownership!Next
<1>7. ASSUME NEW n \in Leases, n \in G PROVE Ownership!Next
  <2>1. /\ n \in Leases /\ leaseLock[n] = s /\ lease[n] = Nil /\ pc[s] \in Outcomes
    BY <1>7, Committed
  <2>2. /\ G = {n} /\ call[s].task \in Tasks
        /\ IsActive(leaseNew[n]) /\ leaseNew[n].task = call[s].task
    BY <2>1, OneGrant
  <2>3. lease'[n] = leaseNew[n] /\ leaseNew[n] # Nil
    BY <2>1, <2>2, Committed DEF IsActive
  <2>4. PICK u \in Tasks : u = call[s].task
    BY <2>2
  \* The other lease of the task, if it had one, ends in the same commit.
  <2>5. ASSUME NEW l \in ActiveOn(u, lease) PROVE u \in D
    <3>1. l \in Leases /\ IsActive(lease[l]) /\ lease[l].task = u
      BY <2>5 DEF ActiveOn
    <3>2. l # n /\ leaseNew[l] # Nil /\ leaseNew[l].task = leaseNew[n].task
      BY <2>1, <2>2, <2>4, <3>1, ActiveLease DEF IsActive
    <3>3. leaseLock[l] = s /\ ~IsActive(leaseNew[l])
      BY <2>1, <2>2, <2>3, <3>1, <3>2 DEF Exclusive
    <3> QED BY <3>1, <3>3 DEF Ends
  <2>6. ActiveOn(u, lease') = {n}
    <3>1. {l \in ActiveOn(u, lease') : l \notin G} = {}
      BY <1>4, <2>5
    <3>2. n \in ActiveOn(u, lease')
      BY <2>2, <2>3, <2>4 DEF ActiveOn
    <3> HIDE DEF G
    <3> QED BY <2>2, <3>1, <3>2
  <2>7. ASSUME NEW t \in Tasks, t # u
        PROVE  ActiveOn(t, lease') = IF t \in D THEN {} ELSE ActiveOn(t, lease)
    <3>1. n \notin ActiveOn(t, lease')
      BY <2>2, <2>3, <2>4, <2>7 DEF ActiveOn
    <3>2. {l \in ActiveOn(t, lease') : l \notin G} = IF t \in D THEN {} ELSE ActiveOn(t, lease)
      BY <1>4
    <3> HIDE DEF G, D
    <3> QED BY <2>2, <3>1, <3>2
  <2>8. Given' = Given \cup {n} /\ n \notin Given
    BY <1>1, <1>2, <2>1, <2>2, <2>3 DEF Given
  <2>9. Ownership!Grant(D, u, n)
    <3>1. u \in D \/ ActiveOn(u, lease) = {}
      BY <2>5
    <3> HIDE DEF D, G
    <3>2. Held' = [t \in Tasks |-> IF t = u THEN {n} ELSE IF t \in D THEN {} ELSE Held[t]]
      BY <2>6, <2>7 DEF Held, ActiveOn, IsActive
    <3> QED BY <2>8, <3>1, <3>2 DEF Ownership!Grant, Held, Given
  <2> QED BY <1>5, <2>4, <2>9 DEF Ownership!Next
<1> QED BY <1>6, <1>7

\* The interleaved statements implement the ownership contract of LeaseOwnership:
\* the leases of a task change hands at the commits, one at a time.
THEOREM StatementsImplementOwnership == Spec => OwnershipSpec
<1>1. Init => Ownership!Init /\ Discipline /\ Exclusive
  <2>1. Init => Ownership!Init
    BY DEF Init, Ownership!Init, ActiveOn, IsActive
  <2> QED BY <2>1, DisciplineInit, ExclusiveInit
<1>2. Discipline /\ Exclusive /\ [Next]_vars => [Ownership!Next]_(Ownership!vars)
  <2> SUFFICES ASSUME Discipline, Exclusive, [Next]_vars PROVE [Ownership!Next]_(Ownership!vars)
    OBVIOUS
  <2>1. CASE UNCHANGED << task, lease, record, claims >>
    BY <2>1 DEF Ownership!vars, ActiveOn, IsActive
  <2>2. CASE \E s \in Sessions : Commit(s)
    BY <2>2, CommitTransfers
  <2> QED BY <2>1, <2>2, OnlyCommits
<1>3. Discipline /\ Exclusive /\ [Next]_vars => Discipline' /\ Exclusive'
  BY DisciplineNext, ExclusiveNext
<1> QED BY <1>1, <1>2, <1>3, PTL DEF Spec, OwnershipSpec, Ownership!Spec

=============================================================================
