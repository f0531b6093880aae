------------------------- MODULE TaskLeases_proofs -------------------------
(* Proofs about TaskLeases, for every value of its constants. *)
EXTENDS TaskLeases, TLAPS

-----------------------------------------------------------------------------
(* Rows keep their types through the cleanup. *)

\* A lease row belongs to a task that exists, so the cleanup resets real rows.
LeaseHasTask == \A l \in Leases : lease[l] # Nil => task[lease[l].task] # Nil

\* The conditional reset of a task row keeps its type and its run.
LEMMA BackToReadyTypes ==
    ASSUME TypeOK, NEW t \in Tasks, task[t] # Nil
    PROVE  /\ BackToReady(task[t]) \in TaskRows
           /\ BackToReady(task[t]).run = task[t].run
<1>1. task[t] \in TaskRows
  BY DEF TypeOK
<1>2. CASE task[t].status \in {"claimed", "executing"}
  <2>1. BackToReady(task[t]) = [[task[t] EXCEPT !.status = "ready"] EXCEPT !.by = "lease"]
    BY <1>2 DEF BackToReady
  <2> QED BY <1>1, <2>1 DEF TaskRows, TaskStatuses
<1>3. CASE task[t].status \notin {"claimed", "executing"}
  BY <1>1, <1>3 DEF BackToReady, TaskRows
<1> QED BY <1>2, <1>3

\* What the cleanup of cleanup_expired_task_leases_cursor leaves behind is well typed.
LEMMA CleanupTypes ==
    ASSUME TypeOK, LeaseHasTask, NEW R
    PROVE  /\ LeasesAfterCleanup(R) \in [Leases -> LeaseRows \cup {Nil}]
           /\ TasksAfterCleanup(R) \in [Tasks -> TaskRows \cup {Nil}]
           /\ \A t \in Tasks : TasksAfterCleanup(R)[t] = Nil <=> task[t] = Nil
           /\ \A t \in Tasks : task[t] # Nil => TasksAfterCleanup(R)[t].run = task[t].run
           /\ \A l \in Leases : LeasesAfterCleanup(R)[l] = Nil <=> lease[l] = Nil
           /\ \A l \in Leases : lease[l] # Nil =>
                 /\ LeasesAfterCleanup(R)[l].task = lease[l].task
                 /\ LeasesAfterCleanup(R)[l].worker = lease[l].worker
<1>1. LeasesAfterCleanup(R) \in [Leases -> LeaseRows \cup {Nil}]
  BY NilAssumption DEF TypeOK, LeasesAfterCleanup, Overdue, IsActive, LeaseRows, LeaseStatuses
<1>2. ASSUME NEW t \in Tasks, task[t] # Nil
      PROVE  BackToReady(task[t]) \in TaskRows /\ BackToReady(task[t]).run = task[t].run
  BY <1>2, BackToReadyTypes
<1>3. \A l \in Overdue(R) : lease[l] # Nil /\ l \in Leases
  BY DEF Overdue, IsActive
<1>4. TasksAfterCleanup(R) \in [Tasks -> TaskRows \cup {Nil}]
  BY <1>2, <1>3 DEF TypeOK, TasksAfterCleanup, LeaseHasTask
<1>5. \A t \in Tasks : TasksAfterCleanup(R)[t] = Nil <=> task[t] = Nil
  BY <1>2, <1>3, NilAssumption DEF TasksAfterCleanup, LeaseHasTask
<1>6. \A t \in Tasks : task[t] # Nil => TasksAfterCleanup(R)[t].run = task[t].run
  BY <1>2, <1>3 DEF TasksAfterCleanup, LeaseHasTask
<1>7. \A l \in Leases : LeasesAfterCleanup(R)[l] = Nil <=> lease[l] = Nil
  BY NilAssumption DEF TypeOK, LeasesAfterCleanup, Overdue, IsActive, LeaseRows, LeaseStatuses
<1>8. \A l \in Leases : lease[l] # Nil =>
          /\ LeasesAfterCleanup(R)[l].task = lease[l].task
          /\ LeasesAfterCleanup(R)[l].worker = lease[l].worker
  BY DEF TypeOK, LeasesAfterCleanup, LeaseRows
<1> QED BY <1>1, <1>4, <1>5, <1>6, <1>7, <1>8

\* Storing an outcome keeps the records well typed and every record that was there.
LEMMA RememberTypes ==
    ASSUME TypeOK, NEW op \in Ops, NEW k \in Keys \cup {Nil}, NEW o \in Outcomes,
           Remember(op, k, o), Fresh(op, k)
    PROVE  /\ record' \in [Ops \X Keys -> Outcomes \cup {Nil}]
           /\ \A x \in Ops \X Keys : record[x] # Nil => record'[x] = record[x]
           /\ k # Nil => record'[<<op, k>>] # Nil
<1> USE DEF TypeOK, Remember, Fresh
<1>1. CASE k = Nil
  BY <1>1
<1>2. CASE k # Nil
  <2>1. <<op, k>> \in Ops \X Keys /\ record' = [record EXCEPT ![<<op, k>>] = o]
    BY <1>2
  <2> QED BY <2>1, <1>2, NilAssumption
<1> QED BY <1>1, <1>2

LEMMA KeyArgsTypes == \A op : KeyArgs(op) \subseteq Keys \cup {Nil}
  BY DEF KeyArgs

-----------------------------------------------------------------------------
(* Type correctness. *)

Typed == TypeOK /\ LeaseHasTask

LEMMA TypedInit == Init => Typed
  BY BoundsAssumption DEF Init, Typed, TypeOK, LeaseHasTask

\* The expiry of a new or renewed lease is a clock value or NULL.
LEMMA ExpiryTypes == ASSUME TypeOK, NEW ttl \in TTLs PROVE ExpiryOf(ttl) \in Nat \cup {Nil}
  BY BoundsAssumption DEF TypeOK, ExpiryOf

LEMMA TypedNext == Typed /\ [Next]_vars => Typed'
<1> SUFFICES ASSUME Typed, [Next]_vars PROVE Typed'
  OBVIOUS
<1> USE DEF Typed
<1>1. ASSUME NEW t \in Tasks, NEW r \in Runs, NEW s \in TaskStatuses,
             NEW k \in Keys \cup {Nil}, CreateTask(t, r, s, k)
      PROVE  Typed'
  <2>1. record' \in [Ops \X Keys -> Outcomes \cup {Nil}]
    BY <1>1, RememberTypes DEF CreateTask, Ops, Outcomes
  <2>2. task' \in [Tasks -> TaskRows \cup {Nil}]
    BY <1>1 DEF CreateTask, TypeOK, TaskRows
  <2>3. LeaseHasTask'
    BY <1>1, NilAssumption DEF CreateTask, TypeOK, TaskRows, LeaseHasTask, LeaseRows
  <2> QED BY <1>1, <2>1, <2>2, <2>3 DEF CreateTask, TypeOK
<1>2. ASSUME NEW t \in Tasks, NEW s \in TaskStatuses, NEW k \in Keys \cup {Nil},
             UpdateTaskState(t, s, k)
      PROVE  Typed'
  <2>1. record' \in [Ops \X Keys -> Outcomes \cup {Nil}]
    BY <1>2, RememberTypes DEF UpdateTaskState, Ops, Outcomes
  <2>2. task[t] \in TaskRows
    BY <1>2 DEF UpdateTaskState, TypeOK
  <2>3. [[task[t] EXCEPT !.status = s] EXCEPT !.by = "caller"] \in TaskRows
    BY <2>2 DEF TaskRows
  <2>4. task' = [task EXCEPT ![t] = [[task[t] EXCEPT !.status = s] EXCEPT !.by = "caller"]]
    BY <1>2, <2>2 DEF UpdateTaskState, TypeOK, TaskRows
  <2>5. task' \in [Tasks -> TaskRows \cup {Nil}]
    BY <2>3, <2>4 DEF TypeOK
  <2>6. LeaseHasTask'
    BY <1>2, <2>3, <2>4, NilAssumption DEF UpdateTaskState, TypeOK, LeaseHasTask, LeaseRows
  <2> QED BY <1>2, <2>1, <2>5, <2>6 DEF UpdateTaskState, TypeOK
<1>3. ASSUME NEW w \in Workers, NEW r \in Runs, RegisterWorkerSession(w, r)
      PROVE  Typed'
  BY <1>3 DEF RegisterWorkerSession, TypeOK, LeaseHasTask
<1>4. ASSUME NEW t \in Tasks, NEW k \in Keys \cup {Nil},
             NEW code \in Outcomes, ClaimStart(t, k), ClaimRefused(t, k, code)
      PROVE  Typed'
  <2>1. record' \in [Ops \X Keys -> Outcomes \cup {Nil}]
    BY <1>4, RememberTypes DEF ClaimStart, ClaimRefused, Ops
  <2>2. LeaseHasTask'
    BY <1>4, CleanupTypes DEF ClaimRefused, LeaseHasTask, TypeOK, LeaseRows
  <2> QED BY <1>4, <2>1, <2>2, CleanupTypes DEF ClaimStart, ClaimRefused, TypeOK
<1>5. ASSUME NEW t \in Tasks, NEW k \in Keys \cup {Nil}, NEW w \in Workers,
             NEW new \in BOOLEAN, NEW ttl \in TTLs, NEW l \in Leases,
             ClaimTask(t, w, new, ttl, k, l)
      PROVE  Typed'
  <2> DEFINE R == {task[t].run}
             row == [task |-> t, worker |-> w, status |-> "active",
                     expires |-> ExpiryOf(ttl), released |-> FALSE]
  <2>1. record' \in [Ops \X Keys -> Outcomes \cup {Nil}]
    BY <1>5, RememberTypes DEF ClaimTask, ClaimStart, Ops, Outcomes
  <2>2. row \in LeaseRows
    BY ExpiryTypes DEF LeaseRows, LeaseStatuses
  <2>3. lease' = [LeasesAfterCleanup(R) EXCEPT ![l] = row]
    BY <1>5 DEF ClaimTask
  <2>4. lease' \in [Leases -> LeaseRows \cup {Nil}]
    BY <2>2, <2>3, CleanupTypes
  <2>5. task[t] # Nil /\ task[t] \in TaskRows
    BY <1>5 DEF ClaimTask, ClaimStart, TypeOK
  <2>6. TasksAfterCleanup(R)[t] \in TaskRows
    BY <2>5, CleanupTypes
  <2>7. [[TasksAfterCleanup(R)[t] EXCEPT !.status = "claimed"] EXCEPT !.by = "lease"] \in TaskRows
    BY <2>6 DEF TaskRows, TaskStatuses
  <2>8. task' = [TasksAfterCleanup(R) EXCEPT
                    ![t] = [[TasksAfterCleanup(R)[t] EXCEPT !.status = "claimed"] EXCEPT !.by = "lease"]]
    BY <1>5, <2>6, CleanupTypes DEF ClaimTask, TaskRows
  <2>9. task' \in [Tasks -> TaskRows \cup {Nil}]
    BY <2>7, <2>8, CleanupTypes
  <2>10. workerRun' \in [Workers -> Runs \cup {Nil}]
    BY <1>5, <2>5 DEF ClaimTask, TypeOK, TaskRows
  <2>11. effects' \subseteq Effects
    BY <1>5 DEF ClaimTask, Log, TypeOK, Effects
  <2>12. LeaseHasTask'
    <3> SUFFICES ASSUME NEW m \in Leases, lease'[m] # Nil PROVE task'[lease'[m].task] # Nil
      BY DEF LeaseHasTask
    <3>1. CASE m = l
      <4>1. lease'[m].task = t
        BY <3>1, <2>3, CleanupTypes
      <4> QED BY <4>1, <2>7, <2>8, CleanupTypes, NilAssumption
    <3>2. CASE m # l
      <4>1. lease[m] # Nil /\ lease'[m].task = lease[m].task
        BY <3>2, <2>3, CleanupTypes
      <4>2. lease[m].task \in Tasks /\ task[lease[m].task] # Nil
        BY <4>1 DEF TypeOK, LeaseHasTask, LeaseRows
      <4> QED BY <4>1, <4>2, <2>7, <2>8, CleanupTypes, NilAssumption
    <3> QED BY <3>1, <3>2
  <2> QED BY <1>5, <2>1, <2>4, <2>9, <2>10, <2>11, <2>12 DEF ClaimTask, ClaimStart, TypeOK
<1>6. ASSUME NEW l \in Leases, NEW w \in Workers \cup {Nil}, NEW k \in Keys \cup {Nil},
             NEW op \in Ops, LeaseCallRefused(op, l, w, k)
      PROVE  Typed'
  <2>1. record' \in [Ops \X Keys -> Outcomes \cup {Nil}]
    BY <1>6, RememberTypes DEF LeaseCallRefused, Outcomes
  <2> QED BY <1>6, <2>1 DEF LeaseCallRefused, TypeOK, LeaseHasTask
<1>7. ASSUME NEW l \in Leases, NEW w \in Workers \cup {Nil}, NEW ttl \in TTLs,
             NEW k \in Keys \cup {Nil}, RenewTaskLease(l, w, ttl, k)
      PROVE  Typed'
  <2>1. record' \in [Ops \X Keys -> Outcomes \cup {Nil}]
    BY <1>7, RememberTypes DEF RenewTaskLease, LeaseCall, Ops, Outcomes
  <2>2. lease[l] \in LeaseRows
    BY <1>7 DEF RenewTaskLease, LeaseCall, IsActive, TypeOK
  <2>3. lease' = [lease EXCEPT ![l] = [[lease[l] EXCEPT !.status = "renewed"]
                                            EXCEPT !.expires = ExpiryOf(ttl)]]
    BY <1>7, <2>2 DEF RenewTaskLease, TypeOK, LeaseRows
  <2>4. [[lease[l] EXCEPT !.status = "renewed"] EXCEPT !.expires = ExpiryOf(ttl)] \in LeaseRows
    BY <2>2, ExpiryTypes DEF LeaseRows, LeaseStatuses
  <2>5. lease' \in [Leases -> LeaseRows \cup {Nil}]
    BY <2>3, <2>4 DEF TypeOK
  <2>6. LeaseHasTask'
    BY <1>7, <2>2, <2>3, NilAssumption DEF RenewTaskLease, TypeOK, LeaseHasTask, LeaseRows
  <2> QED BY <1>7, <2>1, <2>5, <2>6 DEF RenewTaskLease, TypeOK
<1>8. ASSUME NEW l \in Leases, NEW w \in Workers \cup {Nil}, NEW reason \in Reasons,
             NEW k \in Keys \cup {Nil}, ReleaseTaskLease(l, reason, w, k)
      PROVE  Typed'
  <2>1. record' \in [Ops \X Keys -> Outcomes \cup {Nil}]
    BY <1>8, RememberTypes DEF ReleaseTaskLease, LeaseCall, Ops, Outcomes
  <2>2. lease[l] \in LeaseRows /\ lease[l] # Nil
    BY <1>8 DEF ReleaseTaskLease, LeaseCall, IsActive, TypeOK
  <2>3. lease' = [lease EXCEPT ![l] = [[lease[l] EXCEPT !.status = reason] EXCEPT !.released = TRUE]]
    BY <1>8, <2>2 DEF ReleaseTaskLease, TypeOK, LeaseRows
  <2>4. [[lease[l] EXCEPT !.status = reason] EXCEPT !.released = TRUE] \in LeaseRows
    BY <2>2 DEF LeaseRows, LeaseStatuses, Reasons
  <2>5. lease' \in [Leases -> LeaseRows \cup {Nil}]
    BY <2>3, <2>4 DEF TypeOK
  <2>6. lease[l].task \in Tasks /\ task[lease[l].task] # Nil
    BY <2>2 DEF LeaseRows, LeaseHasTask
  <2>7. BackToReady(task[lease[l].task]) \in TaskRows
    BY <2>6, BackToReadyTypes
  <2>8. task' \in [Tasks -> TaskRows \cup {Nil}]
    BY <1>8, <2>6, <2>7 DEF ReleaseTaskLease, TypeOK
  <2>9. LeaseHasTask'
    BY <1>8, <2>2, <2>3, <2>7, NilAssumption DEF ReleaseTaskLease, TypeOK, LeaseHasTask, LeaseRows
  <2> QED BY <1>8, <2>1, <2>5, <2>8, <2>9 DEF ReleaseTaskLease, TypeOK
<1>9. ASSUME NEW l \in Leases, NEW w \in Workers \cup {Nil}, NEW final \in FinalStatuses,
             NEW k \in Keys \cup {Nil}, FinishTaskWithHandoff(l, final, w, k)
      PROVE  Typed'
  <2>1. record' \in [Ops \X Keys -> Outcomes \cup {Nil}]
    BY <1>9, RememberTypes DEF FinishTaskWithHandoff, LeaseCall, Ops, Outcomes
  <2>2. lease[l] \in LeaseRows /\ lease[l] # Nil
    BY <1>9 DEF FinishTaskWithHandoff, LeaseCall, IsActive, TypeOK
  <2>3. lease' = [lease EXCEPT ![l] = [[lease[l] EXCEPT !.status = final] EXCEPT !.released = TRUE]]
    BY <1>9, <2>2 DEF FinishTaskWithHandoff, TypeOK, LeaseRows
  <2>4. [[lease[l] EXCEPT !.status = final] EXCEPT !.released = TRUE] \in LeaseRows
    BY <2>2 DEF LeaseRows, LeaseStatuses, FinalStatuses
  <2>5. lease' \in [Leases -> LeaseRows \cup {Nil}]
    BY <2>3, <2>4 DEF TypeOK
  <2> DEFINE t == lease[l].task
             row == [[task[t] EXCEPT !.status = final] EXCEPT !.by = "lease"]
  <2>6. t \in Tasks /\ task[t] # Nil /\ task[t] \in TaskRows
    BY <2>2 DEF LeaseRows, LeaseHasTask, TypeOK
  <2>7. task' = [task EXCEPT ![t] = row]
    BY <1>9, <2>6 DEF FinishTaskWithHandoff, TypeOK, TaskRows
  <2>8. row \in TaskRows
    BY <2>6 DEF TaskRows, TaskStatuses, FinalStatuses
  <2>9. task' \in [Tasks -> TaskRows \cup {Nil}]
    BY <2>7, <2>8 DEF TypeOK
  <2>10. LeaseHasTask'
    BY <2>2, <2>3, <2>6, <2>7, <2>8, NilAssumption DEF TypeOK, LeaseHasTask, LeaseRows
  <2>11. handoffs' \in [Leases -> Nat]
    BY <1>9 DEF FinishTaskWithHandoff, TypeOK
  <2>12. effects' \subseteq Effects
    BY <1>9 DEF FinishTaskWithHandoff, Log, TypeOK, Effects
  <2> QED BY <1>9, <2>1, <2>5, <2>9, <2>10, <2>11, <2>12 DEF FinishTaskWithHandoff, TypeOK
<1>10. ASSUME NEW R, Cleanup(R)
       PROVE  Typed'
  <2>1. LeaseHasTask'
    BY <1>10, CleanupTypes DEF Cleanup, LeaseHasTask, TypeOK, LeaseRows
  <2> QED BY <1>10, <2>1, CleanupTypes DEF Cleanup, TypeOK
<1>11. CASE Tick
  BY <1>11, BoundsAssumption DEF Tick, TypeOK, LeaseHasTask
<1>12. CASE UNCHANGED vars
  BY <1>12 DEF vars, TypeOK, LeaseHasTask
<1>13. CASE ClaimCalls
  <2> USE <1>4, <1>5, KeyArgsTypes DEF Outcomes
  <2> QED BY <1>13 DEF ClaimCalls, ClaimConflict, ClaimNotClaimable, ClaimWorkerNotFound
<1>14. CASE LeaseCalls
  BY <1>14, <1>6, <1>7, <1>8, <1>9, KeyArgsTypes DEF LeaseCalls, Ops
<1>15. CASE TaskCalls
  BY <1>15, <1>1, <1>2, KeyArgsTypes DEF TaskCalls
<1> QED BY <1>3, <1>10, <1>11, <1>12, <1>13, <1>14, <1>15 DEF Next

\* Every reachable state is well typed, and no lease row refers to a missing task.
THEOREM TypeCorrect == Spec => []TypeOK
<1>1. Spec => []Typed
  BY TypedInit, TypedNext, PTL DEF Spec
<1>2. Typed => TypeOK
  BY DEF Typed
<1> QED BY <1>1, <1>2, PTL

-----------------------------------------------------------------------------
(* Exclusive leases and the ownership contract. *)

\* The step neither creates lease l nor makes it active again.
Keeps(l) ==
    /\ lease'[l] = Nil <=> lease[l] = Nil
    /\ lease[l] # Nil => lease'[l].task = lease[l].task
    /\ IsActive(lease'[l]) => IsActive(lease[l])

\* The step grants task t through the new lease l, the only active one of t.
Grants(t, l) ==
    /\ lease[l] = Nil
    /\ lease'[l] # Nil /\ lease'[l].task = t
    /\ IsActive(lease'[l])
    /\ \A m \in Leases \ {l} : Keeps(m) /\ ~(IsActive(lease'[m]) /\ lease'[m].task = t)

\* The cleanup only ends leases.
LEMMA CleanupKeeps ==
    ASSUME Typed, NEW R, NEW l \in Leases
    PROVE  IsActive(LeasesAfterCleanup(R)[l]) => IsActive(lease[l])
BY NilAssumption DEF Typed, TypeOK, LeasesAfterCleanup, Overdue, IsActive, LeaseRows

\* Every step keeps all leases but at most one that it grants (claim_task is the
\* only operation that makes a lease active).
LEMMA LeaseChange ==
    ASSUME Typed, [Next]_vars
    PROVE  \/ \A l \in Leases : Keeps(l)
           \/ \E t \in Tasks, l \in Leases : Grants(t, l)
<1> USE DEF Typed
<1>1. ASSUME UNCHANGED lease
      PROVE  \A l \in Leases : Keeps(l)
  BY <1>1 DEF Keeps
<1>2. ASSUME NEW R, lease' = LeasesAfterCleanup(R)
      PROVE  \A l \in Leases : Keeps(l)
  BY <1>2, CleanupTypes, CleanupKeeps DEF Keeps
<1>3. ASSUME NEW t \in Tasks, NEW k \in Keys \cup {Nil}, NEW w \in Workers,
             NEW new \in BOOLEAN, NEW ttl \in TTLs, NEW l \in Leases,
             ClaimTask(t, w, new, ttl, k, l)
      PROVE  Grants(t, l)
  <2> DEFINE after == LeasesAfterCleanup({task[t].run})
             row == [task |-> t, worker |-> w, status |-> "active",
                     expires |-> ExpiryOf(ttl), released |-> FALSE]
  <2>1. /\ lease[l] = Nil
        /\ lease' = [after EXCEPT ![l] = row]
        /\ ActiveOn(t, after) = {}
    BY <1>3 DEF ClaimTask, Taken
  <2> HIDE DEF after
  <2>2. lease'[l] = row /\ \A m \in Leases \ {l} : lease'[m] = after[m]
    BY <2>1, CleanupTypes DEF after
  <2>3. row # Nil
    <3>1. ExpiryOf(ttl) \in Nat \cup {Nil}
      BY ExpiryTypes
    <3>2. row \in LeaseRows
      BY <3>1 DEF LeaseRows, LeaseStatuses
    <3> QED BY <3>2, NilAssumption
  <2>4. IsActive(row) /\ row.task = t
    BY <2>3 DEF IsActive
  <2> HIDE DEF row
  <2>5. ASSUME NEW m \in Leases \ {l}
        PROVE  Keeps(m) /\ ~(IsActive(lease'[m]) /\ lease'[m].task = t)
    <3>1. lease'[m] = after[m]
      BY <2>2
    <3>2. /\ after[m] = Nil <=> lease[m] = Nil
          /\ lease[m] # Nil => after[m].task = lease[m].task
      BY CleanupTypes DEF after
    <3>3. IsActive(after[m]) => IsActive(lease[m])
      BY CleanupKeeps DEF after
    <3>4. ~(IsActive(after[m]) /\ after[m].task = t)
      BY <2>1 DEF ActiveOn
    <3> QED BY <3>1, <3>2, <3>3, <3>4 DEF Keeps
  <2> QED BY <2>1, <2>2, <2>3, <2>4, <2>5 DEF Grants
<1>4. ASSUME NEW l \in Leases, NEW row \in LeaseRows, IsActive(lease[l]),
             row.task = lease[l].task, lease' = [lease EXCEPT ![l] = row]
      PROVE  \A m \in Leases : Keeps(m)
  <2>1. row # Nil /\ lease[l] # Nil
    BY <1>4, NilAssumption DEF IsActive
  <2>2. lease'[l] = row /\ \A m \in Leases \ {l} : lease'[m] = lease[m]
    BY <1>4 DEF TypeOK
  <2> QED BY <1>4, <2>1, <2>2 DEF Keeps
<1>5. ASSUME NEW l \in Leases, NEW w, NEW k, NEW ttl \in TTLs, RenewTaskLease(l, w, ttl, k)
      PROVE  \A m \in Leases : Keeps(m)
  <2>1. IsActive(lease[l]) /\ lease[l] \in LeaseRows
    BY <1>5 DEF RenewTaskLease, LeaseCall, IsActive, TypeOK
  <2>2. lease' = [lease EXCEPT ![l] = [[lease[l] EXCEPT !.status = "renewed"]
                                            EXCEPT !.expires = ExpiryOf(ttl)]]
    BY <1>5, <2>1 DEF RenewTaskLease, TypeOK, LeaseRows
  <2>3. [[lease[l] EXCEPT !.status = "renewed"] EXCEPT !.expires = ExpiryOf(ttl)] \in LeaseRows
    BY <2>1, ExpiryTypes DEF LeaseRows, LeaseStatuses
  <2>4. [[lease[l] EXCEPT !.status = "renewed"] EXCEPT !.expires = ExpiryOf(ttl)].task = lease[l].task
    BY <2>1 DEF LeaseRows
  <2> QED BY <1>4, <2>1, <2>2, <2>3, <2>4
<1>6. ASSUME NEW l \in Leases, NEW status \in LeaseStatuses, IsActive(lease[l]),
             lease' = [lease EXCEPT ![l].status = status, ![l].released = TRUE]
      PROVE  \A m \in Leases : Keeps(m)
  <2>1. lease[l] \in LeaseRows
    BY <1>6 DEF IsActive, TypeOK
  <2>2. lease' = [lease EXCEPT ![l] = [[lease[l] EXCEPT !.status = status] EXCEPT !.released = TRUE]]
    BY <1>6, <2>1 DEF TypeOK, LeaseRows
  <2>3. [[lease[l] EXCEPT !.status = status] EXCEPT !.released = TRUE] \in LeaseRows
    BY <2>1 DEF LeaseRows
  <2>4. [[lease[l] EXCEPT !.status = status] EXCEPT !.released = TRUE].task = lease[l].task
    BY <2>1 DEF LeaseRows
  <2> QED BY <1>4, <1>6, <2>2, <2>3, <2>4
<1>7. CASE TaskCalls
  BY <1>7, <1>1 DEF TaskCalls, CreateTask, UpdateTaskState
<1>8. ASSUME NEW w, NEW r, RegisterWorkerSession(w, r)
      PROVE  \A l \in Leases : Keeps(l)
  BY <1>8, <1>1 DEF RegisterWorkerSession
<1>9. CASE ClaimCalls
  BY <1>9, <1>2, <1>3, KeyArgsTypes
     DEF ClaimCalls, ClaimConflict, ClaimNotClaimable, ClaimWorkerNotFound, ClaimRefused
<1>10. CASE LeaseCalls
  BY <1>10, <1>1, <1>5, <1>6
     DEF LeaseCalls, LeaseCallRefused, ReleaseTaskLease, FinishTaskWithHandoff, LeaseCall,
         Reasons, FinalStatuses, LeaseStatuses
<1>11. ASSUME NEW R, Cleanup(R)
       PROVE  \A l \in Leases : Keeps(l)
  BY <1>11, <1>2 DEF Cleanup
<1>12. CASE Tick \/ UNCHANGED vars
  BY <1>12, <1>1 DEF Tick, vars
<1> QED BY <1>7, <1>8, <1>9, <1>10, <1>11, <1>12 DEF Next

LEMMA ExclusiveNext == Typed /\ OneActiveLease /\ [Next]_vars => OneActiveLease'
<1> SUFFICES ASSUME Typed, OneActiveLease, [Next]_vars,
                    NEW t \in Tasks, NEW l \in ActiveOn(t, lease'), NEW m \in ActiveOn(t, lease')
             PROVE  l = m
  BY DEF OneActiveLease, ActiveOn, IsActive
<1>1. /\ l \in Leases /\ IsActive(lease'[l]) /\ lease'[l].task = t
      /\ m \in Leases /\ IsActive(lease'[m]) /\ lease'[m].task = t
  BY DEF ActiveOn
<1>2. ASSUME NEW n \in Leases, Keeps(n), IsActive(lease'[n]), lease'[n].task = t
      PROVE  n \in ActiveOn(t, lease)
  BY <1>2 DEF Keeps, ActiveOn, IsActive
<1>3. CASE \A n \in Leases : Keeps(n)
  BY <1>1, <1>2, <1>3 DEF OneActiveLease
<1>4. ASSUME NEW u \in Tasks, NEW n \in Leases, Grants(u, n)
      PROVE  l = m
  <2>1. CASE l # n /\ m # n
    BY <1>1, <1>2, <1>4, <2>1 DEF OneActiveLease, Grants
  <2>2. CASE l = n \/ m = n
    BY <1>1, <1>4, <2>2 DEF Grants
  <2> QED BY <2>1, <2>2
<1> QED BY <1>3, <1>4, LeaseChange

LEMMA ExclusiveInit == Init => OneActiveLease
  BY DEF Init, OneActiveLease, ActiveOn, IsActive

\* No sequence of operations gives a task two active leases.
THEOREM LeasesExclusive == Spec => []OneActiveLease
<1>1. Init => Typed /\ OneActiveLease
  BY TypedInit, ExclusiveInit
<1>2. Typed /\ OneActiveLease /\ [Next]_vars => (Typed /\ OneActiveLease)'
  BY TypedNext, ExclusiveNext
<1> QED BY <1>1, <1>2, PTL DEF Spec

\* The leases through which the tasks are held.
Held == [t \in Tasks |-> ActiveOn(t, lease)]

LEMMA OwnershipStep ==
    ASSUME Typed, OneActiveLease, [Next]_vars
    PROVE  [Ownership!Next]_(Ownership!vars)
<1> DEFINE D == {t \in Tasks : Held'[t] # Held[t]}
<1>1. ASSUME NEW l \in Leases, NEW t \in Tasks, Keeps(l), l \in Held'[t]
      PROVE  l \in Held[t]
  BY <1>1 DEF Keeps, Held, ActiveOn, IsActive
<1>2. ASSUME NEW t \in D, \A l \in Held'[t] : l \in Held[t]
      PROVE  Held'[t] = {}
  <2> SUFFICES ASSUME NEW l \in Held'[t] PROVE FALSE
    OBVIOUS
  <2>1. Held[t] = {l}
    BY <1>2 DEF OneActiveLease, Held
  <2> QED BY <1>2, <2>1
<1>3. CASE \A l \in Leases : Keeps(l)
  <2>1. ASSUME NEW t \in Tasks
        PROVE  Held'[t] = IF t \in D THEN {} ELSE Held[t]
    <3>1. \A l \in Held'[t] : l \in Held[t]
      BY <1>1, <1>3 DEF Held, ActiveOn
    <3> QED BY <1>2, <3>1
  <2>2. Held' = [t \in Tasks |-> IF t \in D THEN {} ELSE Held[t]]
    BY <2>1 DEF Held
  <2>3. {l \in Leases : lease'[l] # Nil} = {l \in Leases : lease[l] # Nil}
    BY <1>3 DEF Keeps
  <2>4. Ownership!End(D)
    BY <2>2, <2>3 DEF Ownership!End, Held
  <2> QED BY <2>4 DEF Ownership!Next
<1>4. ASSUME NEW u \in Tasks, NEW n \in Leases, Grants(u, n)
      PROVE  Ownership!Next
  <2>1. Held'[u] = {n}
    BY <1>4 DEF Grants, Held, ActiveOn
  <2>2. ASSUME NEW t \in Tasks, t # u
        PROVE  Held'[t] = IF t \in D THEN {} ELSE Held[t]
    <3>1. \A l \in Held'[t] : l \in Held[t]
      BY <1>1, <1>4, <2>2 DEF Held, ActiveOn, Grants
    <3> QED BY <1>2, <3>1
  <2>3. Held' = [t \in Tasks |-> IF t = u THEN {n} ELSE IF t \in D THEN {} ELSE Held[t]]
    BY <2>1, <2>2 DEF Held
  <2>4. n \notin {l \in Leases : lease[l] # Nil}
        /\ {l \in Leases : lease'[l] # Nil} = {l \in Leases : lease[l] # Nil} \cup {n}
    BY <1>4 DEF Grants, Keeps
  <2>5. u \in D \/ Held[u] = {}
    <3>1. n \notin Held[u]
      BY <1>4 DEF Grants, Held, ActiveOn, IsActive
    <3> QED BY <2>1, <3>1
  <2>6. Ownership!Grant(D, u, n)
    BY <2>3, <2>4, <2>5 DEF Ownership!Grant, Held
  <2> QED BY <2>6 DEF Ownership!Next
<1> QED BY <1>3, <1>4, LeaseChange DEF Ownership!Next

\* The tables, driven by the operations of orchestration.py one at a time,
\* implement the ownership contract.
THEOREM ImplementsOwnership == Spec => OwnershipSpec
<1>1. Init => Ownership!Init
  BY DEF Init, Ownership!Init, ActiveOn, IsActive
<1>2. Typed /\ OneActiveLease /\ [Next]_vars => [Ownership!Next]_(Ownership!vars)
  BY OwnershipStep
<1>3. Spec => [](Typed /\ OneActiveLease)
  <2>1. Init => Typed /\ OneActiveLease
    BY TypedInit, ExclusiveInit
  <2>2. Typed /\ OneActiveLease /\ [Next]_vars => (Typed /\ OneActiveLease)'
    BY TypedNext, ExclusiveNext
  <2> QED BY <2>1, <2>2, PTL DEF Spec
<1> QED BY <1>1, <1>2, <1>3, PTL DEF Spec, OwnershipSpec, Ownership!Spec
-----------------------------------------------------------------------------
(* What one step does to one lease. *)

\* A release or a finish writes its status over an active lease and ends it.
LEMMA EndsOne ==
    ASSUME Typed, NEW l \in Leases, NEW status \in LeaseStatuses, IsActive(lease[l]),
           lease' = [lease EXCEPT ![l].status = status, ![l].released = TRUE]
    PROVE  /\ lease[l] # Nil /\ lease[l].task \in Tasks
           /\ lease'[l] # Nil /\ lease'[l].status = status /\ ~IsActive(lease'[l])
           /\ \A m \in Leases \ {l} : lease'[m] = lease[m]
<1> DEFINE row == [[lease[l] EXCEPT !.status = status] EXCEPT !.released = TRUE]
<1>1. lease[l] \in LeaseRows /\ lease[l] # Nil
  BY DEF IsActive, Typed, TypeOK
<1>2. lease' = [lease EXCEPT ![l] = row]
  BY <1>1 DEF Typed, TypeOK, LeaseRows
<1>3. row \in LeaseRows /\ row.status = status /\ row.released
  BY <1>1 DEF LeaseRows
<1>4. lease'[l] = row /\ \A m \in Leases \ {l} : lease'[m] = lease[m]
  BY <1>2 DEF Typed, TypeOK
<1>5. row # Nil /\ lease[l].task \in Tasks
  BY <1>1, <1>3, NilAssumption DEF LeaseRows
<1> QED BY <1>1, <1>3, <1>4, <1>5 DEF IsActive

\* A renewal leaves an active lease active, on the task it was on.
LEMMA RenewsOne ==
    ASSUME Typed, NEW l \in Leases, NEW ttl \in TTLs, IsActive(lease[l]),
           lease' = [lease EXCEPT ![l].status = "renewed", ![l].expires = ExpiryOf(ttl)]
    PROVE  /\ lease'[l] # Nil /\ lease'[l].status = "renewed"
           /\ IsActive(lease'[l]) /\ lease'[l].task = lease[l].task
           /\ \A m \in Leases \ {l} : lease'[m] = lease[m]
<1> DEFINE row == [[lease[l] EXCEPT !.status = "renewed"] EXCEPT !.expires = ExpiryOf(ttl)]
<1>1. lease[l] \in LeaseRows
  BY DEF IsActive, Typed, TypeOK
<1>2. lease' = [lease EXCEPT ![l] = row]
  BY <1>1 DEF Typed, TypeOK, LeaseRows
<1>3. /\ row \in LeaseRows /\ row.status = "renewed"
      /\ row.released = lease[l].released /\ row.task = lease[l].task
  BY <1>1, ExpiryTypes DEF LeaseRows, LeaseStatuses, Typed
<1>4. lease'[l] = row /\ \A m \in Leases \ {l} : lease'[m] = lease[m]
  BY <1>2 DEF Typed, TypeOK
<1>5. row # Nil
  BY <1>3, NilAssumption
<1> QED BY <1>3, <1>4, <1>5 DEF IsActive

\* A claim inserts an active lease on the task beside what its sweep has left.
LEMMA ClaimsOne ==
    ASSUME Typed, NEW t \in Tasks, NEW k, NEW w \in Workers, NEW new, NEW ttl \in TTLs,
           NEW l \in Leases, ClaimTask(t, w, new, ttl, k, l)
    PROVE  /\ lease[l] = Nil
           /\ IsActive(lease'[l]) /\ lease'[l].task = t
           /\ \A m \in Leases \ {l} : lease'[m] = LeasesAfterCleanup({task[t].run})[m]
<1> DEFINE R == {task[t].run}
           row == [task |-> t, worker |-> w, status |-> "active",
                   expires |-> ExpiryOf(ttl), released |-> FALSE]
<1>1. row \in LeaseRows
  BY ExpiryTypes DEF LeaseRows, LeaseStatuses, Typed
<1>2. row # Nil
  BY <1>1, NilAssumption
<1>3. lease' = [LeasesAfterCleanup(R) EXCEPT ![l] = row]
  BY DEF ClaimTask
<1>4. lease'[l] = row /\ \A m \in Leases \ {l} : lease'[m] = LeasesAfterCleanup(R)[m]
  BY <1>3, CleanupTypes DEF Typed
<1>5. IsActive(row) /\ row.task = t
  BY <1>2 DEF IsActive
<1> QED BY <1>4, <1>5 DEF ClaimTask

\* The sweep ends what is overdue as "expired" and leaves the rest alone.
LEMMA CleanupRow ==
    ASSUME Typed, NEW R, NEW l \in Leases
    PROVE  \/ LeasesAfterCleanup(R)[l] = lease[l] /\ l \notin Overdue(R)
           \/ /\ l \in Overdue(R) /\ IsActive(lease[l])
              /\ LeasesAfterCleanup(R)[l] # Nil /\ LeasesAfterCleanup(R)[l].status = "expired"
<1>1. CASE l \notin Overdue(R)
  BY <1>1 DEF LeasesAfterCleanup
<1>2. CASE l \in Overdue(R)
  <2>1. IsActive(lease[l]) /\ lease[l] # Nil /\ lease[l] \in LeaseRows
    BY <1>2 DEF Overdue, IsActive, Typed, TypeOK
  <2>2. LeasesAfterCleanup(R)[l] = [[lease[l] EXCEPT !.status = "expired"] EXCEPT !.released = TRUE]
    BY <1>2, <2>1 DEF LeasesAfterCleanup, LeaseRows
  <2>3. LeasesAfterCleanup(R)[l].status = "expired"
    BY <2>1, <2>2 DEF LeaseRows
  <2>4. LeasesAfterCleanup(R)[l] # Nil
    BY <2>1, CleanupTypes DEF Typed
  <2> QED BY <1>2, <2>1, <2>3, <2>4
<1> QED BY <1>1, <1>2

-----------------------------------------------------------------------------
(* Handoffs. *)

\* The number of handoffs a lease must have, from its row.
Results(row) == IF row # Nil /\ row.status \in FinalStatuses THEN 1 ELSE 0

LEMMA ActiveHasNoResult == \A row : IsActive(row) => Results(row) = 0
  BY DEF IsActive, Results, FinalStatuses

LEMMA HandoffsNext ==
    Typed /\ OneHandoffPerResult /\ [Next]_vars => OneHandoffPerResult'
<1> SUFFICES ASSUME Typed, OneHandoffPerResult, [Next]_vars
             PROVE  \A l \in Leases : handoffs'[l] = Results(lease'[l])
  BY DEF OneHandoffPerResult, Results
<1>0. \A l \in Leases : handoffs[l] = Results(lease[l])
  BY DEF OneHandoffPerResult, Results
<1> DEFINE Goal == \A l \in Leases : handoffs'[l] = Results(lease'[l])
<1>1. ASSUME UNCHANGED << lease, handoffs >>
      PROVE  Goal
  BY <1>0, <1>1
<1>2. ASSUME NEW R, NEW l \in Leases
      PROVE  Results(LeasesAfterCleanup(R)[l]) = Results(lease[l])
  BY CleanupRow, ActiveHasNoResult DEF Results, FinalStatuses
<1>3. ASSUME NEW R, lease' = LeasesAfterCleanup(R), UNCHANGED handoffs
      PROVE  Goal
  BY <1>0, <1>2, <1>3
<1>4. ASSUME NEW t \in Tasks, NEW k, NEW w \in Workers, NEW new, NEW ttl \in TTLs, NEW l \in Leases,
             ClaimTask(t, w, new, ttl, k, l)
      PROVE  Goal
  <2>1. lease[l] = Nil /\ UNCHANGED handoffs
    BY <1>4 DEF ClaimTask, ClaimStart
  <2>2. /\ IsActive(lease'[l])
        /\ \A m \in Leases \ {l} : lease'[m] = LeasesAfterCleanup({task[t].run})[m]
    BY <1>4, ClaimsOne
  <2>3. handoffs'[l] = Results(lease'[l])
    BY <1>0, <2>1, <2>2, ActiveHasNoResult DEF Results
  <2> QED BY <1>0, <1>2, <2>1, <2>2, <2>3
<1>5. ASSUME NEW l \in Leases, NEW w, NEW k, NEW ttl \in TTLs, RenewTaskLease(l, w, ttl, k)
      PROVE  Goal
  <2>1. IsActive(lease[l]) /\ UNCHANGED handoffs
    BY <1>5 DEF RenewTaskLease, LeaseCall
  <2>2. IsActive(lease'[l]) /\ \A m \in Leases \ {l} : lease'[m] = lease[m]
    BY <1>5, <2>1, RenewsOne DEF RenewTaskLease
  <2> QED BY <1>0, <2>1, <2>2, ActiveHasNoResult
<1>6. ASSUME NEW l \in Leases, NEW w, NEW k, NEW reason \in Reasons, ReleaseTaskLease(l, reason, w, k)
      PROVE  Goal
  <2>1. IsActive(lease[l]) /\ UNCHANGED handoffs
    BY <1>6 DEF ReleaseTaskLease, LeaseCall
  <2>2. reason \in LeaseStatuses \ FinalStatuses
    BY DEF Reasons, LeaseStatuses, FinalStatuses
  <2>3. lease'[l].status = reason /\ \A m \in Leases \ {l} : lease'[m] = lease[m]
    BY <1>6, <2>1, <2>2, EndsOne DEF ReleaseTaskLease
  <2>4. Results(lease'[l]) = 0
    BY <2>2, <2>3 DEF Results
  <2> QED BY <1>0, <2>1, <2>3, <2>4, ActiveHasNoResult
<1>7. ASSUME NEW l \in Leases, NEW w, NEW k, NEW final \in FinalStatuses,
             FinishTaskWithHandoff(l, final, w, k)
      PROVE  Goal
  <2>1. IsActive(lease[l]) /\ handoffs' = [handoffs EXCEPT ![l] = @ + 1]
    BY <1>7 DEF FinishTaskWithHandoff, LeaseCall
  <2>2. /\ lease'[l] # Nil /\ lease'[l].status = final
        /\ \A m \in Leases \ {l} : lease'[m] = lease[m]
    BY <1>7, <2>1, EndsOne DEF FinishTaskWithHandoff, LeaseStatuses, FinalStatuses
  <2>3. Results(lease'[l]) = 1 /\ handoffs[l] = 0
    BY <1>0, <2>1, <2>2, ActiveHasNoResult DEF Results
  <2>4. handoffs'[l] = 1 /\ \A m \in Leases \ {l} : handoffs'[m] = handoffs[m]
    BY <2>1, <2>3 DEF Typed, TypeOK
  <2> QED BY <1>0, <2>2, <2>3, <2>4
<1>8. CASE TaskCalls
  BY <1>8, <1>1 DEF TaskCalls, CreateTask, UpdateTaskState
<1>9. ASSUME NEW w, NEW r, RegisterWorkerSession(w, r)
      PROVE  Goal
  BY <1>9, <1>1 DEF RegisterWorkerSession
<1>10. CASE ClaimCalls
  BY <1>10, <1>3, <1>4
     DEF ClaimCalls, ClaimConflict, ClaimNotClaimable, ClaimWorkerNotFound, ClaimRefused, ClaimStart
<1>11. CASE LeaseCalls
  BY <1>11, <1>1, <1>5, <1>6, <1>7 DEF LeaseCalls, LeaseCallRefused
<1>12. ASSUME NEW R, Cleanup(R)
       PROVE  Goal
  BY <1>12, <1>3 DEF Cleanup
<1>13. CASE Tick \/ UNCHANGED vars
  BY <1>13, <1>1 DEF Tick, vars
<1> QED BY <1>8, <1>9, <1>10, <1>11, <1>12, <1>13 DEF Next

\* However claims, expiries, releases, finishes and retries follow each other, a
\* lease has one handoff if it ended in a result, and otherwise none.
THEOREM HandsOverOnce == Spec => []OneHandoffPerResult
<1>1. Init => Typed /\ OneHandoffPerResult
  BY TypedInit DEF Init, OneHandoffPerResult
<1>2. Typed /\ OneHandoffPerResult /\ [Next]_vars => (Typed /\ OneHandoffPerResult)'
  BY TypedNext, HandoffsNext
<1> QED BY <1>1, <1>2, PTL DEF Spec
-----------------------------------------------------------------------------
(* Idempotency. *)

\* What took effect under a key is remembered under it.
EffectsRemembered == \A e \in effects : record[<<e.op, e.key>>] # Nil

\* A keyed call that misses logs one effect, and nothing was logged under its
\* key before (remember_idempotency in the transaction of the effect).
LEMMA LogsOnce ==
    ASSUME Typed, EffectsRemembered, KeyedOnce, NEW op \in {"claim_task", "finish_task_with_handoff"},
           NEW k \in Keys \cup {Nil}, NEW l \in Leases, NEW o \in Outcomes,
           Fresh(op, k), Remember(op, k, o), Log(op, k, l)
    PROVE  (EffectsRemembered /\ KeyedOnce)'
<1>1. op \in Ops
  BY DEF Ops
<1>2. /\ \A x \in Ops \X Keys : record[x] # Nil => record'[x] = record[x]
      /\ k # Nil => record'[<<op, k>>] # Nil
  BY <1>1, RememberTypes DEF Typed
<1>3. \A e \in effects : /\ e \in Effects /\ <<e.op, e.key>> \in Ops \X Keys
                          /\ record'[<<e.op, e.key>>] # Nil
  BY <1>2 DEF Typed, TypeOK, Effects, Ops, EffectsRemembered
<1>4. CASE k = Nil
  BY <1>3, <1>4 DEF Log, EffectsRemembered, KeyedOnce
<1>5. CASE k # Nil
  <2> DEFINE new == [op |-> op, key |-> k, lease |-> l]
  <2>1. effects' = effects \cup {new} /\ new.op = op /\ new.key = k
    BY <1>5 DEF Log
  <2>2. \A e \in effects : ~(e.op = op /\ e.key = k)
    BY <1>5 DEF Fresh, EffectsRemembered
  <2> HIDE DEF new
  <2>3. EffectsRemembered'
    BY <1>2, <1>3, <1>5, <2>1 DEF EffectsRemembered
  <2>4. KeyedOnce'
    BY <2>1, <2>2 DEF KeyedOnce
  <2> QED BY <2>3, <2>4
<1> QED BY <1>4, <1>5

LEMMA KeyedNext ==
    Typed /\ EffectsRemembered /\ KeyedOnce /\ [Next]_vars => (EffectsRemembered /\ KeyedOnce)'
<1> SUFFICES ASSUME Typed, EffectsRemembered, KeyedOnce, [Next]_vars
             PROVE  (EffectsRemembered /\ KeyedOnce)'
  OBVIOUS
<1> DEFINE Goal == (EffectsRemembered /\ KeyedOnce)'
<1>1. ASSUME UNCHANGED << record, effects >>
      PROVE  Goal
  BY <1>1 DEF EffectsRemembered, KeyedOnce
<1>2. ASSUME NEW op \in Ops, NEW k \in Keys \cup {Nil}, NEW o \in Outcomes,
             Fresh(op, k), Remember(op, k, o), UNCHANGED effects
      PROVE  Goal
  <2>1. \A x \in Ops \X Keys : record[x] # Nil => record'[x] = record[x]
    BY <1>2, RememberTypes DEF Typed
  <2>2. \A e \in effects : <<e.op, e.key>> \in Ops \X Keys
    BY DEF Typed, TypeOK, Effects, Ops
  <2> QED BY <1>2, <2>1, <2>2 DEF EffectsRemembered, KeyedOnce
<1>3. ASSUME NEW t, NEW w, NEW new, NEW ttl, NEW k \in Keys \cup {Nil}, NEW l \in Leases,
             ClaimTask(t, w, new, ttl, k, l)
      PROVE  Goal
  BY <1>3, LogsOnce DEF ClaimTask, ClaimStart, Outcomes
<1>4. ASSUME NEW l \in Leases, NEW w, NEW final, NEW k \in Keys \cup {Nil},
             FinishTaskWithHandoff(l, final, w, k)
      PROVE  Goal
  BY <1>4, LogsOnce DEF FinishTaskWithHandoff, LeaseCall, Outcomes
<1>5. CASE TaskCalls
  BY <1>5, <1>2, KeyArgsTypes DEF TaskCalls, CreateTask, UpdateTaskState, Ops, Outcomes
<1>6. ASSUME NEW w, NEW r, RegisterWorkerSession(w, r)
      PROVE  Goal
  BY <1>6, <1>1 DEF RegisterWorkerSession
<1>7. ASSUME NEW t, NEW k \in Keys \cup {Nil}, NEW code \in Outcomes,
             ClaimStart(t, k), ClaimRefused(t, k, code)
      PROVE  Goal
  BY <1>7, <1>2 DEF ClaimStart, ClaimRefused, Ops
<1>8. CASE ClaimCalls
  BY <1>8, <1>3, <1>7, KeyArgsTypes
     DEF ClaimCalls, ClaimConflict, ClaimNotClaimable, ClaimWorkerNotFound, Outcomes
<1>9. ASSUME NEW l \in Leases, NEW w, NEW k \in Keys \cup {Nil}, NEW op \in Ops,
             LeaseCallRefused(op, l, w, k)
      PROVE  Goal
  BY <1>9, <1>2 DEF LeaseCallRefused, Outcomes
<1>10. ASSUME NEW l \in Leases, NEW w, NEW k \in Keys \cup {Nil},
              \/ \E ttl \in TTLs : RenewTaskLease(l, w, ttl, k)
              \/ \E reason \in Reasons : ReleaseTaskLease(l, reason, w, k)
       PROVE  Goal
  BY <1>10, <1>2 DEF RenewTaskLease, ReleaseTaskLease, LeaseCall, Ops, Outcomes
<1>11. CASE LeaseCalls
  BY <1>11, <1>4, <1>9, <1>10, KeyArgsTypes DEF LeaseCalls, Ops
<1>12. ASSUME NEW R, Cleanup(R)
       PROVE  Goal
  BY <1>12, <1>1 DEF Cleanup
<1>13. CASE Tick \/ UNCHANGED vars
  BY <1>13, <1>1 DEF Tick, vars
<1> QED BY <1>5, <1>6, <1>8, <1>11, <1>12, <1>13 DEF Next

\* A call retried under its key, one after another, claims or finishes once.
THEOREM RetriesOnce == Spec => []KeyedOnce
<1>1. Init => Typed /\ EffectsRemembered /\ KeyedOnce
  BY TypedInit DEF Init, EffectsRemembered, KeyedOnce
<1>2. Typed /\ EffectsRemembered /\ KeyedOnce /\ [Next]_vars
        => (Typed /\ EffectsRemembered /\ KeyedOnce)'
  BY TypedNext, KeyedNext
<1> QED BY <1>1, <1>2, PTL DEF Spec

-----------------------------------------------------------------------------
(* No stranded task. *)

\* The task is in 'claimed' by an operation on leases, so that only one of them,
\* or a caller by hand, can take it out.
Claimed(row) == row # Nil /\ row.status = "claimed" /\ row.by = "lease"

\* A sweep that leaves a task claimed has left it its active lease.
LEMMA CleanupStrands ==
    ASSUME Typed, NEW R, NEW t \in Tasks, Claimed(task[t]) => ActiveOn(t, lease) # {}
    PROVE  Claimed(TasksAfterCleanup(R)[t]) => ActiveOn(t, LeasesAfterCleanup(R)) # {}
<1> SUFFICES ASSUME Claimed(TasksAfterCleanup(R)[t])
             PROVE  ActiveOn(t, LeasesAfterCleanup(R)) # {}
  OBVIOUS
<1>1. ASSUME NEW l \in Overdue(R), lease[l].task = t
      PROVE  FALSE
  <2>1. task[t] \in TaskRows
    <3>1. l \in Leases /\ lease[l] # Nil
      BY DEF Overdue, IsActive
    <3> QED BY <1>1, <3>1 DEF Typed, TypeOK, LeaseHasTask
  <2>2. TasksAfterCleanup(R)[t] = BackToReady(task[t])
    BY <1>1 DEF TasksAfterCleanup
  <2>3. BackToReady(task[t]).status # "claimed"
    BY <2>1 DEF BackToReady, TaskRows
  <2> QED BY <2>2, <2>3 DEF Claimed
<1>2. TasksAfterCleanup(R)[t] = task[t]
  BY <1>1 DEF TasksAfterCleanup
<1>3. PICK l \in Leases : IsActive(lease[l]) /\ lease[l].task = t
  BY <1>2 DEF ActiveOn
<1>4. LeasesAfterCleanup(R)[l] = lease[l]
  BY <1>1, <1>3, CleanupRow
<1> QED BY <1>3, <1>4 DEF ActiveOn

LEMMA StrandsNext == Typed /\ NoStrandedTask /\ [Next]_vars => NoStrandedTask'
<1> SUFFICES ASSUME Typed, NoStrandedTask, [Next]_vars, NEW t \in Tasks, Claimed(task'[t])
             PROVE  ActiveOn(t, lease') # {}
  BY DEF NoStrandedTask, Claimed
<1>0. \A u \in Tasks : Claimed(task[u]) => ActiveOn(u, lease) # {}
  BY DEF NoStrandedTask, Claimed
<1> DEFINE Goal == ActiveOn(t, lease') # {}
<1>1. ASSUME UNCHANGED lease, Claimed(task[t])
      PROVE  Goal
  BY <1>0, <1>1
<1>2. ASSUME NEW R, lease' = LeasesAfterCleanup(R), task' = TasksAfterCleanup(R)
      PROVE  Goal
  BY <1>0, <1>2, CleanupStrands
\* A step on the lease l of another task leaves the leases of t alone.
<1>3. ASSUME NEW l \in Leases, lease[l].task # t, task'[t] = task[t],
             \A m \in Leases \ {l} : lease'[m] = lease[m]
      PROVE  Goal
  <2>1. PICK m \in Leases : IsActive(lease[m]) /\ lease[m].task = t
    BY <1>0, <1>3 DEF ActiveOn
  <2>2. lease'[m] = lease[m]
    BY <1>3, <2>1
  <2> QED BY <2>1, <2>2 DEF ActiveOn
<1>4. ASSUME NEW u \in Tasks, NEW k, NEW w \in Workers, NEW new, NEW ttl \in TTLs, NEW l \in Leases,
             ClaimTask(u, w, new, ttl, k, l)
      PROVE  Goal
  <2> DEFINE R == {task[u].run}
  <2>1. /\ lease[l] = Nil /\ IsActive(lease'[l]) /\ lease'[l].task = u
        /\ \A m \in Leases \ {l} : lease'[m] = LeasesAfterCleanup(R)[m]
    BY <1>4, ClaimsOne
  <2>2. CASE t = u
    BY <2>1, <2>2 DEF ActiveOn
  <2>3. CASE t # u
    <3>1. task'[t] = TasksAfterCleanup(R)[t]
      BY <1>4, <2>3, CleanupTypes DEF ClaimTask, Typed
    <3>2. PICK m \in Leases : IsActive(LeasesAfterCleanup(R)[m]) /\ LeasesAfterCleanup(R)[m].task = t
      BY <1>0, <3>1, CleanupStrands DEF ActiveOn
    <3>3. m # l
      BY <2>1, <3>2, CleanupTypes DEF IsActive, Typed
    <3> QED BY <2>1, <3>2, <3>3 DEF ActiveOn
  <2> QED BY <2>2, <2>3
<1>5. ASSUME NEW l \in Leases, NEW w, NEW k, NEW ttl \in TTLs, RenewTaskLease(l, w, ttl, k)
      PROVE  Goal
  <2>1. /\ IsActive(lease'[l]) /\ lease'[l].task = lease[l].task
        /\ \A m \in Leases \ {l} : lease'[m] = lease[m]
    BY <1>5, RenewsOne DEF RenewTaskLease, LeaseCall
  <2>2. CASE lease[l].task = t
    BY <2>1, <2>2 DEF ActiveOn
  <2>3. CASE lease[l].task # t
    BY <1>3, <1>5, <2>1, <2>3 DEF RenewTaskLease
  <2> QED BY <2>2, <2>3
<1>6. ASSUME NEW l \in Leases, NEW w, NEW k, NEW reason \in Reasons, ReleaseTaskLease(l, reason, w, k)
      PROVE  Goal
  <2>1. /\ lease[l] # Nil /\ lease[l].task \in Tasks
        /\ \A m \in Leases \ {l} : lease'[m] = lease[m]
    BY <1>6, EndsOne DEF ReleaseTaskLease, LeaseCall, Reasons, LeaseStatuses
  <2>2. task' = [task EXCEPT ![lease[l].task] = BackToReady(@)]
    BY <1>6 DEF ReleaseTaskLease
  <2>3. lease[l].task # t
    <3> SUFFICES ASSUME lease[l].task = t PROVE FALSE
      OBVIOUS
    <3>1. task[t] \in TaskRows
      BY <2>1 DEF Typed, TypeOK, LeaseHasTask
    <3>2. task'[t] = BackToReady(task[t])
      BY <2>2 DEF Typed, TypeOK
    <3> QED BY <3>1, <3>2 DEF Claimed, BackToReady, TaskRows
  <2>4. task'[t] = task[t]
    BY <2>2, <2>3 DEF Typed, TypeOK
  <2> QED BY <1>3, <2>1, <2>3, <2>4
<1>7. ASSUME NEW l \in Leases, NEW w, NEW k, NEW final \in FinalStatuses,
             FinishTaskWithHandoff(l, final, w, k)
      PROVE  Goal
  <2>1. /\ lease[l] # Nil /\ lease[l].task \in Tasks
        /\ \A m \in Leases \ {l} : lease'[m] = lease[m]
    BY <1>7, EndsOne DEF FinishTaskWithHandoff, LeaseCall, FinalStatuses, LeaseStatuses
  <2> DEFINE u == lease[l].task
  <2>2. task[u] \in TaskRows
    BY <2>1 DEF Typed, TypeOK, LeaseHasTask
  <2>3. task' = [task EXCEPT ![u] = [[task[u] EXCEPT !.status = final] EXCEPT !.by = "lease"]]
    BY <1>7, <2>1, <2>2 DEF FinishTaskWithHandoff, Typed, TypeOK, TaskRows
  <2>4. u # t
    <3> SUFFICES ASSUME u = t PROVE FALSE
      OBVIOUS
    <3>1. task'[t].status = final
      BY <2>1, <2>2, <2>3 DEF Typed, TypeOK, TaskRows
    <3> QED BY <3>1 DEF Claimed, FinalStatuses
  <2>5. task'[t] = task[t]
    BY <2>3, <2>4 DEF Typed, TypeOK
  <2> QED BY <1>3, <2>1, <2>4, <2>5
<1>8. ASSUME NEW u \in Tasks, NEW r, NEW s, NEW k, CreateTask(u, r, s, k) \/ UpdateTaskState(u, s, k)
      PROVE  Goal
  <2>1. UNCHANGED lease /\ \A v \in Tasks \ {u} : task'[v] = task[v]
    BY <1>8 DEF CreateTask, UpdateTaskState, Typed, TypeOK
  <2>2. CASE u = t
    <3>1. task'[t].by = "caller"
      <4>1. CASE CreateTask(u, r, s, k)
        BY <2>2, <4>1 DEF CreateTask, Typed, TypeOK
      <4>2. CASE UpdateTaskState(u, s, k)
        <5>1. task[t] \in TaskRows
          BY <2>2, <4>2 DEF UpdateTaskState, Typed, TypeOK
        <5>2. task' = [task EXCEPT ![t] = [[task[t] EXCEPT !.status = s] EXCEPT !.by = "caller"]]
          BY <2>2, <4>2, <5>1 DEF UpdateTaskState, Typed, TypeOK, TaskRows
        <5> QED BY <5>1, <5>2 DEF Typed, TypeOK, TaskRows
      <4> QED BY <1>8, <4>1, <4>2
    <3> QED BY <3>1 DEF Claimed
  <2>3. CASE u # t
    BY <1>1, <2>1, <2>3
  <2> QED BY <2>2, <2>3
<1>9. CASE TaskCalls
  BY <1>8, <1>9 DEF TaskCalls
<1>10. ASSUME NEW w, NEW r, RegisterWorkerSession(w, r)
       PROVE  Goal
  BY <1>1, <1>10 DEF RegisterWorkerSession
<1>11. CASE ClaimCalls
  BY <1>2, <1>4, <1>11
     DEF ClaimCalls, ClaimConflict, ClaimNotClaimable, ClaimWorkerNotFound, ClaimRefused
<1>12. CASE LeaseCalls
  BY <1>1, <1>5, <1>6, <1>7, <1>12 DEF LeaseCalls, LeaseCallRefused
<1>13. ASSUME NEW R, Cleanup(R)
       PROVE  Goal
  BY <1>2, <1>13 DEF Cleanup
<1>14. CASE Tick \/ UNCHANGED vars
  BY <1>1, <1>14 DEF Tick, vars
<1> QED BY <1>9, <1>10, <1>11, <1>12, <1>13, <1>14 DEF Next

\* No operation leaves a task in 'claimed' without a lease whose end frees it.
THEOREM StrandsNoTask == Spec => []NoStrandedTask
<1>1. Init => Typed /\ NoStrandedTask
  BY TypedInit DEF Init, NoStrandedTask
<1>2. Typed /\ NoStrandedTask /\ [Next]_vars => (Typed /\ NoStrandedTask)'
  BY TypedNext, StrandsNext
<1> QED BY <1>1, <1>2, PTL DEF Spec
=============================================================================
