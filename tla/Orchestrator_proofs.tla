------------------------ MODULE Orchestrator_proofs ------------------------
(***************************************************************************)
(* Proofs about the three modules of the orchestrator process: its action  *)
(* queue (ActionQueue), its agent mode (ControlLoop) and the lock of its   *)
(* daemon (DaemonLock).  Each is proved by itself; they share no variable.  *)
(***************************************************************************)
EXTENDS ActionQueue, ControlLoop, DaemonLock,
        FiniteSetTheorems, TLAPS

-----------------------------------------------------------------------------
(* The action queue, for any number of actions, queuers, runners and        *)
(* actions of one drain.                                                   *)
(*                                                                         *)
(* An approval that is still in the log is standing (Standing), and it is   *)
(* unspent as long as nobody runs the action (Paid): a runner spends it by  *)
(* starting, and takes it from the log by recording the result.  Only an    *)
(* action two runners had at once, or one that died with it, can be run     *)
(* twice on one approval, and those are doubtful.                          *)

\* A runner that is at work has actions to execute, and they are in the log.
Drains ==
    /\ todo \in [Runners -> Seq(ActionIds)]
    /\ \A r \in Runners : /\ pc[r] # "idle" => todo[r] # << >>
                          /\ \A n \in DOMAIN todo[r] : items[todo[r][n]] # Nil

\* A queuer appends what the bundle it read proposes.
Queuing ==
    \A q \in Queuers :
        /\ qpc[q] # Nil => \A i \in qpc[q].left : qpc[q].read[i] # Nil
        /\ adding[q] # Nil => qpc[q] # Nil /\ adding[q] \in qpc[q].left

\* The approval that the replay of the log shows is of that very signature.
Standing ==
    \A i \in ActionIds : items[i] # Nil /\ items[i].status = "approved"
                            => << i, items[i].sig >> \in standing

\* An approval is spent by one runner, and no other has the action in hand.
Paid ==
    \A i \in ActionIds \ doubtful :
        /\ ran[i] <= 1
        /\ \A r, q \in Running(i) : r = q
        /\ items[i] # Nil /\ items[i].status = "approved" /\ Running(i) = {} => ran[i] = 0

\* The inductive invariant of the action queue.
QueueInv == TypeOK /\ Drains /\ Queuing /\ Standing /\ Paid

-----------------------------------------------------------------------------

\* What a runner at work has in hand.
LEMMA HeadInLog ==
    ASSUME QueueInv, NEW r \in Runners, pc[r] # "idle"
    PROVE  /\ todo[r] \in Seq(ActionIds) /\ todo[r] # << >> /\ Len(todo[r]) <= MaxActions
           /\ Head(todo[r]) \in ActionIds /\ items[Head(todo[r])] \in Items
           /\ items[Head(todo[r])] # Nil
<1>1. todo[r] \in Seq(ActionIds) /\ todo[r] # << >> /\ Len(todo[r]) <= MaxActions
  BY DEF QueueInv, Drains, TypeOK
<1>2. Head(todo[r]) = todo[r][1] /\ 1 \in DOMAIN todo[r]
  BY <1>1
<1>3. items[Head(todo[r])] # Nil /\ Head(todo[r]) \in ActionIds
  BY <1>1, <1>2 DEF QueueInv, Drains
<1> QED BY <1>1, <1>3 DEF QueueInv, TypeOK

\* An event changes the status of one item, and nothing else of the log.
LEMMA Marks ==
    ASSUME TypeOK, NEW i \in ActionIds, items[i] # Nil, NEW status \in Statuses
    PROVE  /\ Marked(i, status) \in [ActionIds -> Items \cup {Nil}]
           /\ Marked(i, status)[i] # Nil /\ Marked(i, status)[i].status = status
           /\ Marked(i, status)[i].sig = items[i].sig
           /\ \A j \in ActionIds \ {i} : Marked(i, status)[j] = items[j]
<1>1. items[i] \in Items
  BY DEF TypeOK
<1>2. [items[i] EXCEPT !.status = status] \in Items
  BY <1>1 DEF Items
<1> QED BY <1>1, <1>2, NilIsNothing DEF TypeOK, Marked, Items

\* No item leaves the log.
Logged == \A i \in ActionIds : items[i] # Nil => items'[i] # Nil

\* Drains survives a step that leaves the runners alone.
LEMMA DrainsStay ==
    ASSUME Drains, Logged, UNCHANGED << pc, todo >>
    PROVE  Drains'
BY DEF Drains, Logged

\* So does who is running what.
LEMMA RunningStays == ASSUME UNCHANGED << pc, todo >> PROVE \A i : Running(i)' = Running(i)
BY DEF Running

-----------------------------------------------------------------------------
(* Queuers and people. *)

LEMMA QueueInvInit == Init => QueueInv
<1> SUFFICES ASSUME Init PROVE QueueInv
  OBVIOUS
<1>1. << >> \in Seq(ActionIds) /\ Len(<< >>) <= MaxActions /\ DOMAIN << >> = {}
  BY DrainLimits
<1>2. TypeOK /\ Drains
  BY <1>1, ActionKinds DEF Init, TypeOK, Drains, Proposed
<1>3. Queuing /\ Standing /\ Paid
  BY DEF Init, Queuing, Standing, Paid, Running
<1> QED BY <1>2, <1>3 DEF QueueInv

\* A queuer is done with one id: the bundle it read stays, the id goes.
LEMMA DoneTypes ==
    ASSUME QueueInv, NEW q \in Queuers, NEW i, qpc[q] # Nil, DoneWith(q, i)
    PROVE  /\ qpc' \in [Queuers -> Queuings \cup {Nil}]
           /\ qpc'[q] # Nil => /\ qpc'[q].read = qpc[q].read
                               /\ qpc'[q].left = qpc[q].left \ {i}
           /\ \A p \in Queuers \ {q} : qpc'[p] = qpc[p]
<1> DEFINE rest == [read |-> qpc[q].read, left |-> qpc[q].left \ {i}]
           next == IF qpc[q].left = {i} THEN Nil ELSE rest
<1>1. qpc \in [Queuers -> Queuings \cup {Nil}] /\ qpc[q] \in Queuings
  BY DEF QueueInv, TypeOK
<1>2. rest \in Queuings /\ rest.read = qpc[q].read /\ rest.left = qpc[q].left \ {i}
  BY <1>1 DEF Queuings
<1>3. qpc' = [qpc EXCEPT ![q] = next]
  BY DEF DoneWith
<1>4. next \in Queuings \cup {Nil} /\ (next # Nil => next = rest)
  BY <1>2
<1> HIDE DEF next, rest
<1>5. qpc'[q] = next /\ \A p \in Queuers \ {q} : qpc'[p] = qpc[p]
  BY <1>1, <1>3
<1>6. qpc' \in [Queuers -> Queuings \cup {Nil}]
  BY <1>1, <1>3, <1>4
<1> QED BY <1>2, <1>4, <1>5, <1>6

\* Steps that leave the log and the runners alone.
LEMMA ReadingKeeps ==
    ASSUME QueueInv,
           \/ ChangeBundle
           \/ \E q \in Queuers : ReadBundle(q) \/ CrashQueuer(q) \/ \E i \in ActionIds : ConsiderAction(q, i)
    PROVE  QueueInv'
<1>1. UNCHANGED << items, rvars, history >>
  BY DEF ChangeBundle, ReadBundle, CrashQueuer, ConsiderAction, queue
<1>2. Drains' /\ Standing' /\ Paid'
  BY <1>1 DEF QueueInv, Drains, Standing, Paid, Running, rvars, history
<1>3. bundle' \in Proposed
  BY ActionKinds DEF QueueInv, TypeOK, Proposed, ChangeBundle, ReadBundle, CrashQueuer, ConsiderAction, queue
<1>4. ASSUME ChangeBundle
      PROVE  qpc' = qpc /\ adding' = adding
  BY <1>4 DEF ChangeBundle, qvars
<1>5. ASSUME NEW q \in Queuers, ReadBundle(q)
      PROVE  qpc' \in [Queuers -> Queuings \cup {Nil}] /\ adding' = adding /\ Queuing'
  <2>1. [read |-> bundle, left |-> {i \in ActionIds : bundle[i] # Nil}] \in Queuings
    BY DEF QueueInv, TypeOK, Queuings
  <2> QED BY <1>5, <2>1, NilIsNothing DEF QueueInv, TypeOK, ReadBundle, Queuing
<1>6. ASSUME NEW q \in Queuers, CrashQueuer(q)
      PROVE  qpc' \in [Queuers -> Queuings \cup {Nil}] /\ adding' \in [Queuers -> ActionIds \cup {Nil}]
             /\ Queuing'
  BY <1>6 DEF QueueInv, TypeOK, CrashQueuer, Queuing
<1>7. ASSUME NEW q \in Queuers, NEW i \in ActionIds, ConsiderAction(q, i)
      PROVE  qpc' \in [Queuers -> Queuings \cup {Nil}] /\ adding' \in [Queuers -> ActionIds \cup {Nil}]
             /\ Queuing'
  <2>1. qpc[q] \in Queuings /\ qpc[q] # Nil /\ adding[q] = Nil /\ i \in qpc[q].left
    BY <1>7 DEF QueueInv, TypeOK, ConsiderAction
  <2>2. CASE DoneWith(q, i) /\ UNCHANGED adding
    <3>1. /\ qpc' \in [Queuers -> Queuings \cup {Nil}]
          /\ qpc'[q] # Nil => qpc'[q].read = qpc[q].read /\ qpc'[q].left = qpc[q].left \ {i}
          /\ \A p \in Queuers \ {q} : qpc'[p] = qpc[p]
      BY <2>1, <2>2, DoneTypes
    <3> QED BY <2>1, <2>2, <3>1 DEF QueueInv, TypeOK, Queuing
  <2>3. CASE adding' = [adding EXCEPT ![q] = i] /\ UNCHANGED qpc
    BY <2>1, <2>3 DEF QueueInv, TypeOK, Queuing
  <2> QED BY <1>7, <2>2, <2>3 DEF ConsiderAction
<1>8. qpc' \in [Queuers -> Queuings \cup {Nil}] /\ adding' \in [Queuers -> ActionIds \cup {Nil}] /\ Queuing'
  <2>1. TypeOK /\ Queuing
    BY DEF QueueInv
  <2>2. CASE qpc' = qpc /\ adding' = adding
    BY <2>1, <2>2 DEF TypeOK, Queuing
  <2> QED BY <1>4, <1>5, <1>6, <1>7, <2>1, <2>2 DEF TypeOK
<1>9. TypeOK'
  BY <1>1, <1>3, <1>8 DEF QueueInv, TypeOK, rvars, history
<1> QED BY <1>2, <1>8, <1>9 DEF QueueInv

\* Appending a queued event keeps the invariant.
LEMMA AppendKeeps == ASSUME QueueInv, NEW q \in Queuers, AppendQueued(q) PROVE QueueInv'
<1> DEFINE i == adding[q]
           new == [sig |-> qpc[q].read[i], status |-> "queued"]
<1>1. /\ i # Nil /\ items' = [items EXCEPT ![i] = new] /\ adding' = [adding EXCEPT ![q] = Nil]
      /\ DoneWith(q, i) /\ standing' = NotStanding(i) /\ UNCHANGED << bundle, rvars, ran, doubtful >>
  BY DEF AppendQueued, Queued
<1>2. qpc[q] # Nil /\ qpc[q] \in Queuings /\ i \in qpc[q].left /\ i \in ActionIds
  BY <1>1 DEF QueueInv, TypeOK, Queuing
<1>3. qpc[q].read[i] \in Signatures
  BY <1>2 DEF QueueInv, Queuing, Queuings, Proposed
<1>4. new \in Items /\ new # Nil
  BY <1>3, NilIsNothing DEF Items, Statuses, Outcomes
<1>5. items' \in [ActionIds -> Items \cup {Nil}] /\ items'[i] = new
      /\ \A j \in ActionIds \ {i} : items'[j] = items[j]
  BY <1>1, <1>2, <1>4 DEF QueueInv, TypeOK
<1>6. Queuing' /\ qpc' \in [Queuers -> Queuings \cup {Nil}] /\ adding' \in [Queuers -> ActionIds \cup {Nil}]
  <2>1. /\ qpc' \in [Queuers -> Queuings \cup {Nil}]
        /\ qpc'[q] # Nil => qpc'[q].read = qpc[q].read /\ qpc'[q].left = qpc[q].left \ {i}
        /\ \A p \in Queuers \ {q} : qpc'[p] = qpc[p]
    BY <1>1, <1>2, DoneTypes
  <2>2. adding' \in [Queuers -> ActionIds \cup {Nil}] /\ adding'[q] = Nil
        /\ \A p \in Queuers \ {q} : adding'[p] = adding[p]
    BY <1>1 DEF QueueInv, TypeOK
  <2> SUFFICES ASSUME NEW p \in Queuers
               PROVE  /\ qpc'[p] # Nil => \A j \in qpc'[p].left : qpc'[p].read[j] # Nil
                      /\ adding'[p] # Nil => qpc'[p] # Nil /\ adding'[p] \in qpc'[p].left
    BY <2>1, <2>2 DEF Queuing
  <2>3. CASE p = q
    BY <1>2, <2>1, <2>2, <2>3 DEF QueueInv, Queuing
  <2>4. CASE p # q
    <3>1. qpc'[p] = qpc[p] /\ adding'[p] = adding[p]
      BY <2>1, <2>2, <2>4
    <3> QED BY <3>1 DEF QueueInv, Queuing
  <2> QED BY <2>3, <2>4
<1>7. standing' \subseteq standing /\ \A a \in standing : a[1] # i => a \in standing'
  BY <1>1 DEF NotStanding
<1>8. TypeOK'
  BY <1>1, <1>5, <1>6, <1>7 DEF QueueInv, TypeOK, rvars
<1>9. Drains'
  BY <1>1, <1>4, <1>5, DrainsStay DEF QueueInv, Logged, rvars
<1>10. Standing'
  BY <1>4, <1>5, <1>7 DEF QueueInv, Standing
<1>11. \A j : Running(j)' = Running(j)
  BY <1>1, RunningStays DEF rvars
<1>12. Paid'
  BY <1>1, <1>5, <1>11 DEF QueueInv, Paid
<1> QED BY <1>6, <1>8, <1>9, <1>10, <1>12 DEF QueueInv

\* An approval makes the signature it saw standing.
LEMMA ApproveKeeps == ASSUME QueueInv, NEW i \in ActionIds, ApproveAction(i) PROVE QueueInv'
<1>1. /\ items[i] # Nil /\ items' = Marked(i, "approved") /\ ran' = [ran EXCEPT ![i] = 0]
      /\ doubtful' = IF Running(i) # {} THEN doubtful \cup {i} ELSE doubtful \ {i}
      /\ standing' = NotStanding(i) \cup {<< i, items[i].sig >>} /\ UNCHANGED << bundle, qvars, rvars >>
  BY DEF ApproveAction, Current
<1>2. /\ items' \in [ActionIds -> Items \cup {Nil}] /\ items'[i] # Nil /\ items'[i].sig = items[i].sig
      /\ \A j \in ActionIds \ {i} : items'[j] = items[j]
  BY <1>1, Marks DEF QueueInv, Statuses
<1>3. items[i].sig \in Signatures
  BY <1>1 DEF QueueInv, TypeOK, Items
<1>4. standing' \subseteq ActionIds \X Signatures /\ << i, items[i].sig >> \in standing'
      /\ \A a \in standing : a[1] # i => a \in standing'
  BY <1>1, <1>3 DEF QueueInv, TypeOK, NotStanding
<1>5. TypeOK'
  BY <1>1, <1>2, <1>4 DEF QueueInv, TypeOK, qvars, rvars
<1>6. Drains' /\ Queuing'
  BY <1>1, <1>2, DrainsStay DEF QueueInv, Logged, rvars, qvars, Queuing
<1>7. Standing'
  BY <1>2, <1>4 DEF QueueInv, Standing
<1>8. \A j : Running(j)' = Running(j)
  BY <1>1, RunningStays DEF rvars
<1>9. Paid'
  <2> SUFFICES ASSUME NEW j \in ActionIds, j \notin doubtful'
               PROVE  /\ ran'[j] <= 1 /\ \A r, q \in Running(j) : r = q
                      /\ items'[j] # Nil /\ items'[j].status = "approved" /\ Running(j) = {}
                            => ran'[j] = 0
    BY <1>8 DEF Paid
  <2>1. CASE j = i
    <3>1. Running(i) = {} /\ ran'[i] = 0
      BY <1>1, <2>1 DEF QueueInv, TypeOK
    <3> QED BY <2>1, <3>1
  <2>2. CASE j # i
    <3>1. j \notin doubtful /\ ran'[j] = ran[j] /\ items'[j] = items[j]
      BY <1>1, <1>2, <2>2 DEF QueueInv, TypeOK
    <3> QED BY <3>1 DEF QueueInv, Paid
  <2> QED BY <2>1, <2>2
<1> QED BY <1>5, <1>6, <1>7, <1>9 DEF QueueInv

\* A rejection takes the approval away.
LEMMA RejectKeeps == ASSUME QueueInv, NEW i \in ActionIds, RejectAction(i) PROVE QueueInv'
<1>1. /\ items[i] # Nil /\ items' = Marked(i, "rejected") /\ standing' = NotStanding(i)
      /\ UNCHANGED << bundle, qvars, rvars, ran, doubtful >>
  BY DEF RejectAction
<1>2. /\ items' \in [ActionIds -> Items \cup {Nil}] /\ items'[i] # Nil /\ items'[i].status = "rejected"
      /\ \A j \in ActionIds \ {i} : items'[j] = items[j]
  BY <1>1, Marks DEF QueueInv, Statuses
<1>3. standing' \subseteq standing /\ \A a \in standing : a[1] # i => a \in standing'
  BY <1>1 DEF NotStanding
<1>4. TypeOK'
  BY <1>1, <1>2, <1>3 DEF QueueInv, TypeOK, qvars, rvars
<1>5. Drains' /\ Queuing'
  BY <1>1, <1>2, DrainsStay DEF QueueInv, Logged, rvars, qvars, Queuing
<1>6. Standing'
  BY <1>2, <1>3 DEF QueueInv, Standing
<1>7. \A j : Running(j)' = Running(j)
  BY <1>1, RunningStays DEF rvars
<1>8. Paid'
  BY <1>1, <1>2, <1>7 DEF QueueInv, Paid
<1> QED BY <1>4, <1>5, <1>6, <1>8 DEF QueueInv

-----------------------------------------------------------------------------
(* Runners. *)

Labels == {"idle", "read", "refuse", "run", "refresh"}

\* A runner takes another label and other actions, all of them in the log.
LEMMA BecomeTypes ==
    ASSUME QueueInv, NEW r \in Runners, NEW label \in Labels, NEW ids \in Seq(ActionIds),
           NEW signature \in Signatures \cup {Nil}, Len(ids) <= MaxActions,
           label # "idle" => ids # << >>, \A n \in DOMAIN ids : items[ids[n]] # Nil,
           Logged, Become(r, label, ids, signature)
    PROVE  /\ pc' \in [Runners -> Labels] /\ act' \in [Runners -> Signatures \cup {Nil}]
           /\ \A s \in Runners : todo'[s] \in Seq(ActionIds) /\ Len(todo'[s]) <= MaxActions
           /\ pc'[r] = label /\ todo'[r] = ids
           /\ \A s \in Runners \ {r} : pc'[s] = pc[s] /\ todo'[s] = todo[s]
           /\ Drains'
<1>1. /\ pc' = [pc EXCEPT ![r] = label] /\ todo' = [todo EXCEPT ![r] = ids]
      /\ act' = [act EXCEPT ![r] = signature]
  BY DEF Become
<1>2. /\ pc \in [Runners -> Labels] /\ act \in [Runners -> Signatures \cup {Nil}]
      /\ todo \in [Runners -> Seq(ActionIds)]
      /\ \A s \in Runners : Len(todo[s]) <= MaxActions
  BY DEF QueueInv, TypeOK, Drains, Labels
<1>3. pc'[r] = label /\ todo'[r] = ids /\ \A s \in Runners \ {r} : pc'[s] = pc[s] /\ todo'[s] = todo[s]
  BY <1>1, <1>2
<1>4. todo' \in [Runners -> Seq(ActionIds)]
  BY <1>1, <1>2
<1>5. Drains'
  <2> SUFFICES ASSUME NEW s \in Runners
               PROVE  /\ pc'[s] # "idle" => todo'[s] # << >>
                      /\ \A n \in DOMAIN todo'[s] : items'[todo'[s][n]] # Nil
    BY <1>4 DEF Drains
  <2>1. CASE s = r
    <3>1. pc'[s] = label /\ todo'[s] = ids
      BY <1>3, <2>1
    <3>2. \A n \in DOMAIN ids : ids[n] \in ActionIds
      OBVIOUS
    <3> QED BY <3>1, <3>2 DEF Logged
  <2>2. CASE s # r
    <3>1. pc'[s] = pc[s] /\ todo'[s] = todo[s]
      BY <1>3, <2>2
    <3>2. \A n \in DOMAIN todo[s] : todo[s][n] \in ActionIds
      BY <1>2
    <3> QED BY <3>1, <3>2 DEF QueueInv, Drains, Logged
  <2> QED BY <2>1, <2>2
<1> QED BY <1>1, <1>2, <1>3, <1>5

\* A runner stops.
LEMMA StopTypes ==
    ASSUME QueueInv, NEW r \in Runners, Logged, Stop(r)
    PROVE  /\ pc' \in [Runners -> Labels] /\ act' \in [Runners -> Signatures \cup {Nil}]
           /\ drain' \in [Runners -> BOOLEAN]
           /\ \A s \in Runners : todo'[s] \in Seq(ActionIds) /\ Len(todo'[s]) <= MaxActions
           /\ pc'[r] = "idle"
           /\ \A s \in Runners \ {r} : pc'[s] = pc[s] /\ todo'[s] = todo[s]
           /\ Drains'
<1>1. Become(r, "idle", << >>, Nil) /\ drain' = [drain EXCEPT ![r] = FALSE]
  BY DEF Stop
<1>2. << >> \in Seq(ActionIds) /\ Len(<< >>) <= MaxActions /\ DOMAIN << >> = {}
  BY DrainLimits
<1> QED BY <1>1, <1>2, BecomeTypes DEF Labels, QueueInv, TypeOK

\* Where nobody starts or ends a run, and no log entry changes, nothing is spent.
LEMMA PaidStays ==
    ASSUME QueueInv, UNCHANGED << items, history >>, \A i \in ActionIds : Running(i)' = Running(i)
    PROVE  Standing' /\ Paid'
BY DEF QueueInv, Standing, Paid, history

\* A runner starts with what the log shows approved.
LEMMA StartKeeps ==
    ASSUME QueueInv, NEW r \in Runners,
           \/ \E b \in Budgets : StartDrain(r, b)
           \/ \E i \in ActionIds : StartExecute(r, i)
    PROVE  QueueInv'
<1>1. pc[r] = "idle" /\ UNCHANGED << queue, qvars, history >>
  BY DEF StartDrain, StartExecute
<1>2. PICK ids \in Seq(ActionIds) :
          /\ ids # << >> /\ Len(ids) <= MaxActions
          /\ \A n \in DOMAIN ids : items[ids[n]] # Nil
          /\ Become(r, "read", ids, Nil)
  <2>1. CASE \E b \in Budgets : StartDrain(r, b)
    <3>1. Cardinality(Selectable) \in Nat \ {0}
      <4>1. Selectable \subseteq ActionIds
        BY DEF Selectable
      <4>2. Selectable # {}
        BY <2>1 DEF StartDrain
      <4>3. IsFiniteSet(Selectable)
        BY <4>1, ActionKinds, FS_Subset
      <4> QED BY <4>2, <4>3, FS_CardinalityType, FS_EmptySet
    <3>2. PICK order \in SetToSeqs(Selectable) : Become(r, "read", Drawn(order), Nil)
      BY <2>1, Zenon DEF StartDrain
    <3>3. order \in Seq(Selectable) /\ Len(order) = Cardinality(Selectable)
      <4>1. order \in [1..Cardinality(Selectable) -> Selectable]
        BY <3>2 DEF SetToSeqs
      <4> QED BY <3>1, <4>1
    <3> DEFINE limit == IF Len(order) < MaxActions THEN Len(order) ELSE MaxActions
               ids == SubSeq(order, 1, limit)
    <3>4. limit \in Nat \ {0} /\ limit <= Len(order) /\ limit <= MaxActions
      BY <3>1, <3>3, DrainLimits
    <3>5. ids \in Seq(Selectable) /\ Len(ids) = limit /\ ids = Drawn(order)
      BY <3>3, <3>4 DEF Drawn
    <3>6. Selectable \subseteq ActionIds /\ \A i \in Selectable : items[i] # Nil
      BY DEF Selectable
    <3>7. ids \in Seq(ActionIds) /\ \A n \in DOMAIN ids : items[ids[n]] # Nil
      BY <3>5, <3>6
    <3>8. ids # << >>
      BY <3>4, <3>5
    <3> HIDE DEF limit, ids
    <3> QED BY <3>2, <3>4, <3>5, <3>7, <3>8, DrainLimits
  <2>2. ASSUME NEW i \in ActionIds, StartExecute(r, i)
        PROVE  \E ids \in Seq(ActionIds) :
                  /\ ids # << >> /\ Len(ids) <= MaxActions
                  /\ \A n \in DOMAIN ids : items[ids[n]] # Nil
                  /\ Become(r, "read", ids, Nil)
    <3>1. items[i] # Nil /\ Become(r, "read", << i >>, Nil)
      BY <2>2 DEF StartExecute
    <3>2. << i >> \in Seq(ActionIds) /\ << i >> # << >> /\ Len(<< i >>) <= MaxActions
          /\ \A n \in DOMAIN << i >> : << i >>[n] = i
      BY DrainLimits
    <3> QED BY <3>1, <3>2
  <2> QED BY <2>1, <2>2
<1>3. Logged
  BY <1>1 DEF Logged, queue
<1>4. drain' \in [Runners -> BOOLEAN]
  BY DEF QueueInv, TypeOK, StartDrain, StartExecute
<1>5. /\ pc' \in [Runners -> Labels] /\ act' \in [Runners -> Signatures \cup {Nil}]
      /\ \A s \in Runners : todo'[s] \in Seq(ActionIds) /\ Len(todo'[s]) <= MaxActions
      /\ pc'[r] = "read" /\ \A s \in Runners \ {r} : pc'[s] = pc[s] /\ todo'[s] = todo[s]
      /\ Drains'
  BY <1>2, <1>3, BecomeTypes DEF Labels
<1>6. TypeOK'
  BY <1>1, <1>4, <1>5 DEF QueueInv, TypeOK, Labels, queue, qvars, history
<1>7. \A i \in ActionIds : Running(i)' = Running(i)
  BY <1>1, <1>5 DEF Running
<1>8. Standing' /\ Paid'
  BY <1>1, <1>7, PaidStays DEF queue
<1>9. Queuing'
  BY <1>1 DEF QueueInv, Queuing, qvars
<1> QED BY <1>5, <1>6, <1>8, <1>9 DEF QueueInv

\* A runner that reads its next item starts it, refuses it or goes on.
LEMMA ReadKeeps == ASSUME QueueInv, NEW r \in Runners, ReadItem(r) PROVE QueueInv'
<1>0. PICK i : i = Head(todo[r])
  OBVIOUS
<1>1. /\ pc[r] = "read" /\ UNCHANGED << queue, qvars, standing, drain >>
      /\ i \in ActionIds /\ items[i] \in Items /\ items[i] # Nil
      /\ todo[r] \in Seq(ActionIds) /\ todo[r] # << >> /\ Len(todo[r]) <= MaxActions
  BY <1>0, HeadInLog DEF ReadItem, Continue
<1>2. Logged /\ items' = items
  BY <1>1 DEF Logged, queue
<1>3. \A n \in DOMAIN todo[r] : items[todo[r][n]] # Nil
  BY DEF QueueInv, Drains
<1>4. Queuing' /\ Standing'
  BY <1>1, <1>2 DEF QueueInv, Queuing, Standing, qvars
<1>5. CASE /\ MayRun(i) /\ Become(r, "run", todo[r], items[i].sig)
           /\ ran' = [ran EXCEPT ![i] = IF @ = 2 THEN 2 ELSE @ + 1]
           /\ doubtful' = IF Running(i) # {} THEN doubtful \cup {i} ELSE doubtful
  <2>1. items[i].sig \in Signatures /\ items[i].status = "approved"
    BY <1>1, <1>5 DEF Items, MayRun
  <2>2. /\ pc' \in [Runners -> Labels] /\ act' \in [Runners -> Signatures \cup {Nil}]
        /\ \A s \in Runners : todo'[s] \in Seq(ActionIds) /\ Len(todo'[s]) <= MaxActions
        /\ pc'[r] = "run" /\ todo'[r] = todo[r]
        /\ \A s \in Runners \ {r} : pc'[s] = pc[s] /\ todo'[s] = todo[s]
        /\ Drains'
    BY <1>1, <1>2, <1>3, <1>5, <2>1, BecomeTypes DEF Labels
  <2>3. ran' \in [ActionIds -> 0..2] /\ doubtful' \subseteq ActionIds /\ doubtful \subseteq doubtful'
        /\ \A j \in ActionIds \ {i} : ran'[j] = ran[j]
    BY <1>1, <1>5 DEF QueueInv, TypeOK
  <2>4. TypeOK'
    BY <1>1, <2>2, <2>3 DEF QueueInv, TypeOK, Labels, queue, qvars
  <2>5. Running(i)' = Running(i) \cup {r} /\ \A j \in ActionIds \ {i} : Running(j)' = Running(j)
    BY <1>0, <1>1, <2>2 DEF Running
  <2>6. Paid'
    <3> SUFFICES ASSUME NEW j \in ActionIds, j \notin doubtful'
                 PROVE  /\ ran'[j] <= 1 /\ \A s, q \in Running(j)' : s = q
                        /\ items[j] # Nil /\ items[j].status = "approved" /\ Running(j)' = {}
                              => ran'[j] = 0
      BY <1>2 DEF Paid
    <3>1. CASE j = i
      <4>1. Running(i) = {} /\ i \notin doubtful
        BY <1>5, <3>1
      <4>2. ran[i] = 0
        BY <1>1, <2>1, <4>1 DEF QueueInv, Paid
      <4>3. ran'[i] = 1
        BY <1>1, <1>5, <4>2 DEF QueueInv, TypeOK
      <4>4. Running(j)' = {r}
        BY <2>5, <3>1, <4>1
      <4>5. \A s, q \in Running(j)' : s = q
        BY <4>4
      <4>6. Running(j)' # {}
        BY <4>4
      <4> QED BY <3>1, <4>3, <4>5, <4>6
    <3>2. CASE j # i
      BY <2>3, <2>5, <3>2 DEF QueueInv, Paid
    <3> QED BY <3>1, <3>2
  <2> QED BY <1>4, <2>2, <2>4, <2>6 DEF QueueInv
<1>6. CASE Become(r, "refuse", todo[r], Nil) /\ UNCHANGED << ran, doubtful >>
  <2>1. /\ pc' \in [Runners -> Labels] /\ act' \in [Runners -> Signatures \cup {Nil}]
        /\ \A s \in Runners : todo'[s] \in Seq(ActionIds) /\ Len(todo'[s]) <= MaxActions
        /\ pc'[r] = "refuse" /\ todo'[r] = todo[r]
        /\ \A s \in Runners \ {r} : pc'[s] = pc[s] /\ todo'[s] = todo[s]
        /\ Drains'
    BY <1>1, <1>2, <1>3, <1>6, BecomeTypes DEF Labels
  <2>2. TypeOK'
    BY <1>1, <1>6, <2>1 DEF QueueInv, TypeOK, Labels, queue, qvars
  <2>3. \A j \in ActionIds : Running(j)' = Running(j)
    BY <1>1, <2>1 DEF Running
  <2>4. Paid'
    BY <1>1, <1>2, <1>6, <2>3, PaidStays DEF history
  <2> QED BY <1>4, <2>1, <2>2, <2>4 DEF QueueInv
<1> QED BY <1>0, <1>5, <1>6 DEF ReadItem, Continue

\* The result, or the refusal, of what the runner has in hand.
LEMMA RecordKeeps ==
    ASSUME QueueInv, NEW r \in Runners, RecordRefusal(r) \/ \E o \in Outcomes : RecordResult(r, o)
    PROVE  QueueInv'
<1>0. PICK i : i = Head(todo[r])
  OBVIOUS
<1>1. /\ pc[r] \in {"run", "refuse"} /\ UNCHANGED << bundle, qvars, history >>
      /\ i \in ActionIds /\ items[i] # Nil
      /\ todo[r] \in Seq(ActionIds) /\ todo[r] # << >> /\ Len(todo[r]) <= MaxActions
  BY <1>0, HeadInLog DEF RecordRefusal, RecordResult
<1>2. PICK o \in Outcomes : items' = Marked(i, o)
  BY <1>0 DEF RecordRefusal, RecordResult, Outcomes
<1>3. /\ items' \in [ActionIds -> Items \cup {Nil}] /\ items'[i] # Nil /\ items'[i].status = o
      /\ \A j \in ActionIds \ {i} : items'[j] = items[j]
  BY <1>1, <1>2, Marks DEF QueueInv, Statuses
<1>4. Logged /\ \A n \in DOMAIN todo[r] : items[todo[r][n]] # Nil
  BY <1>3 DEF Logged, QueueInv, Drains
<1>5. /\ pc' \in [Runners -> Labels] /\ act' \in [Runners -> Signatures \cup {Nil}]
      /\ drain' \in [Runners -> BOOLEAN]
      /\ \A s \in Runners : todo'[s] \in Seq(ActionIds) /\ Len(todo'[s]) <= MaxActions
      /\ pc'[r] \in {"idle", "refresh"}
      /\ \A s \in Runners \ {r} : pc'[s] = pc[s] /\ todo'[s] = todo[s]
      /\ Drains'
  <2>1. CASE Stop(r)
    BY <1>4, <2>1, StopTypes
  <2>2. CASE Continue(r, "refresh", todo[r], Nil)
    BY <1>1, <1>4, <2>2, BecomeTypes DEF Continue, Labels, QueueInv, TypeOK
  <2> QED BY <2>1, <2>2 DEF RecordRefusal, RecordResult
<1>6. TypeOK'
  BY <1>1, <1>3, <1>5 DEF QueueInv, TypeOK, Labels, qvars, history
<1>7. Queuing' /\ Standing'
  BY <1>1, <1>3 DEF QueueInv, Queuing, Standing, Outcomes, qvars, history
<1>8. Running(i)' \subseteq Running(i) /\ \A j \in ActionIds \ {i} : Running(j)' = Running(j)
  <2>1. pc'[r] # "run" /\ \A j \in ActionIds \ {i} : r \notin Running(j)
    BY <1>0, <1>5 DEF Running
  <2> QED BY <1>5, <2>1 DEF Running
<1>9. Paid'
  <2> SUFFICES ASSUME NEW j \in ActionIds, j \notin doubtful
               PROVE  /\ ran[j] <= 1 /\ \A s, q \in Running(j)' : s = q
                      /\ items'[j] # Nil /\ items'[j].status = "approved" /\ Running(j)' = {}
                            => ran[j] = 0
    BY <1>1 DEF Paid, history
  <2>1. ran[j] <= 1 /\ \A s, q \in Running(j) : s = q
    BY DEF QueueInv, Paid
  <2>2. CASE j = i
    BY <1>3, <1>8, <2>1, <2>2 DEF Outcomes
  <2>3. CASE j # i
    <3>1. items'[j] = items[j] /\ Running(j)' = Running(j)
      BY <1>3, <1>8, <2>3
    <3> QED BY <2>1, <3>1 DEF QueueInv, Paid
  <2> QED BY <2>2, <2>3
<1> QED BY <1>5, <1>6, <1>7, <1>9 DEF QueueInv

\* Reading the bundle again changes no approval.
LEMMA RefreshKeeps == ASSUME QueueInv, NEW r \in Runners, Refresh(r) PROVE QueueInv'
<1>1. /\ pc[r] = "refresh" /\ UNCHANGED << queue, qvars, history >>
      /\ todo[r] \in Seq(ActionIds) /\ todo[r] # << >> /\ Len(todo[r]) <= MaxActions
  BY HeadInLog DEF Refresh
<1>2. Logged /\ items' = items
  BY <1>1 DEF Logged, queue
<1>3. /\ pc' \in [Runners -> Labels] /\ act' \in [Runners -> Signatures \cup {Nil}]
      /\ drain' \in [Runners -> BOOLEAN]
      /\ \A s \in Runners : todo'[s] \in Seq(ActionIds) /\ Len(todo'[s]) <= MaxActions
      /\ pc'[r] \in {"idle", "read"}
      /\ \A s \in Runners \ {r} : pc'[s] = pc[s] /\ todo'[s] = todo[s]
      /\ Drains'
  <2>1. CASE Stop(r)
    BY <1>2, <2>1, StopTypes
  <2>2. CASE Len(todo[r]) # 1 /\ Continue(r, "read", Tail(todo[r]), Nil)
    <3>1. /\ Tail(todo[r]) \in Seq(ActionIds) /\ Len(Tail(todo[r])) = Len(todo[r]) - 1
          /\ \A n \in DOMAIN Tail(todo[r]) : n + 1 \in DOMAIN todo[r] /\ Tail(todo[r])[n] = todo[r][n + 1]
      BY <1>1
    <3>2. Tail(todo[r]) # << >> /\ Len(Tail(todo[r])) <= MaxActions
      <4>1. Len(todo[r]) \in Nat /\ Len(todo[r]) # 0 /\ MaxActions \in Nat
        BY <1>1, DrainLimits
      <4>2. Len(Tail(todo[r])) # 0 /\ Len(Tail(todo[r])) <= MaxActions
        BY <1>1, <2>2, <3>1, <4>1
      <4>3. Len(<< >>) = 0
        OBVIOUS
      <4>4. Tail(todo[r]) # << >>
        BY <4>2, <4>3, Zenon
      <4> QED BY <4>2, <4>4
    <3>3. \A n \in DOMAIN Tail(todo[r]) : items[Tail(todo[r])[n]] # Nil
      BY <3>1 DEF QueueInv, Drains
    <3> QED BY <1>2, <2>2, <3>1, <3>2, <3>3, BecomeTypes DEF Continue, Labels, QueueInv, TypeOK
  <2> QED BY <2>1, <2>2 DEF Refresh
<1>4. TypeOK'
  BY <1>1, <1>3 DEF QueueInv, TypeOK, Labels, queue, qvars, history
<1>5. \A i \in ActionIds : Running(i)' = Running(i)
  BY <1>1, <1>3 DEF Running
<1>6. Standing' /\ Paid' /\ Queuing'
  BY <1>1, <1>2, <1>5, PaidStays DEF QueueInv, Queuing, qvars
<1> QED BY <1>3, <1>4, <1>6 DEF QueueInv

\* What a runner had in hand when it died becomes doubtful.
LEMMA CrashKeeps == ASSUME QueueInv, NEW r \in Runners, CrashRunner(r) PROVE QueueInv'
<1> DEFINE i == Head(todo[r])
<1>1. /\ pc[r] # "idle" /\ Stop(r) /\ UNCHANGED << queue, qvars, ran, standing >>
      /\ doubtful' = IF pc[r] = "run" THEN doubtful \cup {i} ELSE doubtful
      /\ i \in ActionIds
  BY HeadInLog DEF CrashRunner
<1>2. Logged /\ items' = items
  BY <1>1 DEF Logged, queue
<1>3. /\ pc' \in [Runners -> Labels] /\ act' \in [Runners -> Signatures \cup {Nil}]
      /\ drain' \in [Runners -> BOOLEAN]
      /\ \A s \in Runners : todo'[s] \in Seq(ActionIds) /\ Len(todo'[s]) <= MaxActions
      /\ pc'[r] = "idle" /\ \A s \in Runners \ {r} : pc'[s] = pc[s] /\ todo'[s] = todo[s]
      /\ Drains'
  BY <1>1, <1>2, StopTypes
<1>4. TypeOK'
  BY <1>1, <1>3 DEF QueueInv, TypeOK, Labels, queue, qvars
<1>5. \A j \in ActionIds \ doubtful' : j \notin doubtful /\ Running(j)' = Running(j)
  BY <1>1, <1>3 DEF Running
<1>6. Standing' /\ Paid' /\ Queuing'
  BY <1>1, <1>2, <1>5 DEF QueueInv, Standing, Paid, Queuing, qvars
<1> QED BY <1>3, <1>4, <1>6 DEF QueueInv

-----------------------------------------------------------------------------

\* Every step of the queue keeps the invariant.
LEMMA QueueInvNext == QueueInv /\ [Next]_vars => QueueInv'
<1> SUFFICES ASSUME QueueInv, [Next]_vars PROVE QueueInv'
  OBVIOUS
<1>1. CASE UNCHANGED vars
  <2>1. TypeOK' /\ Drains' /\ Queuing'
    BY <1>1 DEF QueueInv, TypeOK, Drains, Queuing, vars, queue, qvars, rvars, history
  <2>2. Standing' /\ Paid'
    BY <1>1 DEF QueueInv, Standing, Paid, Running, vars, queue, qvars, rvars, history
  <2> QED BY <2>1, <2>2 DEF QueueInv
<1> QED BY <1>1, ReadingKeeps, AppendKeeps, ApproveKeeps, RejectKeeps, StartKeeps, ReadKeeps, RecordKeeps,
           RefreshKeeps, CrashKeeps DEF Next, Approving, RunnerStep

\* The log and what queuers and runners remember of it are well typed.
THEOREM QueueTypeCorrect == Spec => []TypeOK
<1>1. QueueInv => TypeOK
  BY DEF QueueInv
<1> QED BY <1>1, QueueInvInit, QueueInvNext, PTL DEF Spec

\* One approval pays for one execution, however many drains and commands run,
\* unless two had the action in hand at once or one died with it.
THEOREM RunsOncePerApproval == Spec => []OneRunPerApproval
<1>1. QueueInv => OneRunPerApproval
  BY DEF QueueInv, Paid, OneRunPerApproval
<1> QED BY <1>1, QueueInvInit, QueueInvNext, PTL DEF Spec

\* Every execution starts on a standing approval of what it executes.
THEOREM StartsWhenApproved == Spec => StartsOnStandingApproval
<1> DEFINE A == \A r \in Runners : pc[r] # "run" /\ pc'[r] = "run" =>
                   << Head(todo[r]), act'[r] >> \in standing
<1>1. QueueInv /\ [Next]_vars => [A]_vars
  <2> SUFFICES ASSUME QueueInv, Next, NEW r \in Runners, pc[r] # "run", pc'[r] = "run"
               PROVE  << Head(todo[r]), act'[r] >> \in standing
    OBVIOUS
  <2>1. pc \in [Runners -> Labels] /\ act \in [Runners -> Signatures \cup {Nil}]
    BY DEF QueueInv, TypeOK, Labels
  <2>2. PICK s \in Runners : ReadItem(s)
    <3>1. ASSUME NEW s \in Runners, \/ \E b \in Budgets : StartDrain(s, b)
                                    \/ \E i \in ActionIds : StartExecute(s, i)
                                    \/ RecordRefusal(s) \/ \E o \in Outcomes : RecordResult(s, o)
                                    \/ Refresh(s) \/ CrashRunner(s)
          PROVE  pc'[r] # "run"
      BY <2>1, <3>1 DEF StartDrain, StartExecute, RecordRefusal, RecordResult, Refresh, CrashRunner,
                        Stop, Continue, Become
    <3>2. ASSUME UNCHANGED pc PROVE FALSE
      BY <3>2
    <3> QED BY <3>1, <3>2 DEF Next, RunnerStep, Approving, ApproveAction, RejectAction, ChangeBundle,
                              ReadBundle, ConsiderAction, AppendQueued, CrashQueuer, rvars
  <2>3. s = r /\ MayRun(Head(todo[r])) /\ act'[r] = items[Head(todo[r])].sig
    BY <2>1, <2>2 DEF ReadItem, Continue, Become
  <2>4. Head(todo[r]) \in ActionIds /\ items[Head(todo[r])] # Nil
    BY <2>2, <2>3, HeadInLog DEF ReadItem
  <2> QED BY <2>3, <2>4 DEF QueueInv, Standing, MayRun
<1>2. Spec => [][A]_vars
  BY <1>1, QueueInvInit, QueueInvNext, PTL DEF Spec
<1> QED BY <1>2 DEF StartsOnStandingApproval

-----------------------------------------------------------------------------
(* Agent mode, for any number of controllers, tasks, proposals and steps.   *)
(*                                                                         *)
(* A controller that dispatches or finalizes chose it from a plan without   *)
(* blockers, because those are preferred; so when it read the plan there    *)
(* were none, and what stands now came up since (Heeded).  A controller     *)
(* that writes a graph proposed it to itself with a review that let it      *)
(* through, and dies or goes on with that very graph (Reviewed).            *)

\* What stops a run until somebody looks at it.
BlockerNames == {"ledger_reconcile", "resolve_approval", "resolve_finding"}

\* A controller that read no blocker has all that stand noted as new.
Heeded ==
    \A c \in Controllers :
        stage[c] \in {"propose", "act"} /\ plan[c] \cap BlockerNames = {}
            => Blockers \subseteq appeared[c]

\* Each controller has a stage, a plan and a proposal of its own.
PerController ==
    DOMAIN stage = Controllers /\ DOMAIN plan = Controllers /\ DOMAIN proposal = Controllers

\* What stops a run is preferred to starting workers and to finalizing it.
LEMMA BlockersFirst ==
    ASSUME NEW actions, SelectAction(actions) \in {"dispatch_spawn", "finalize_ready_run"}
    PROVE  actions \cap BlockerNames = {}
<1> SUFFICES ASSUME NEW name \in actions \cap BlockerNames PROVE FALSE
  OBVIOUS
<1> DEFINE First(i) == /\ Preference[i] \in actions
                       /\ \A j \in 1 .. i - 1 : Preference[j] \notin actions
           choice == CHOOSE i \in DOMAIN Preference : First(i)
<1>1. DOMAIN Preference = 1 .. 8
  BY DEF Preference
<1>2. Preference[1] = "ledger_reconcile" /\ Preference[2] = "resolve_approval" /\ Preference[3] = "resolve_finding"
  BY DEF Preference
<1>3. Preference[1] \in actions \/ Preference[2] \in actions \/ Preference[3] \in actions
  BY <1>2 DEF BlockerNames
<1>4. \E i \in DOMAIN Preference : First(i)
  <2>1. CASE Preference[1] \in actions
    BY <2>1, <1>1
  <2>2. CASE Preference[1] \notin actions /\ Preference[2] \in actions
    <3>1. First(2)
      BY <2>2
    <3> QED BY <3>1, <1>1
  <2>3. CASE Preference[1] \notin actions /\ Preference[2] \notin actions
    <3>1. \A j \in 1 .. 3 - 1 : j = 1 \/ j = 2
      OBVIOUS
    <3>2. First(3)
      BY <2>3, <3>1, <1>3
    <3> QED BY <3>2, <1>1
  <2> QED BY <2>1, <2>2, <2>3
<1>5. choice \in 1 .. 8 /\ First(choice)
  BY <1>4, <1>1
<1>6. choice \in 1 .. 3
  <2> HIDE DEF choice
  <2>1. \A j \in 1 .. 3 : j < choice => j \in 1 .. choice - 1
    BY <1>5
  <2> QED BY <2>1, <1>5, <1>3
<1>7. Preference[choice] \in BlockerNames
  <2> HIDE DEF choice
  <2> QED BY <1>6, <1>2 DEF BlockerNames
<1>8. SelectAction(actions) = Preference[choice]
  BY DEF SelectAction
<1> QED BY <1>7, <1>8 DEF BlockerNames

\* How a step moves one controller on, as far as its plan is concerned: not at
\* all, out of the stages in which the plan counts, or into one of them.
Moves(c) ==
    \/ stage'[c] = stage[c] /\ plan'[c] = plan[c]
    \/ stage'[c] \notin {"propose", "act"}
    \/ /\ stage[c] = "plan" /\ stage'[c] = "propose"
       /\ plan'[c] = BuildRunPlan /\ UNCHANGED facts
    \/ /\ stage[c] = "propose" /\ stage'[c] = "act"
       /\ plan'[c] \in {plan[c], plan[c] \cup {"materialize_task_graph"}}

\* A call that ends leaves the other controllers where they are.
LEMMA EndMoves ==
    ASSUME PerController, NEW d \in Controllers, EndCall(d)
    PROVE  /\ PerController' /\ \A c \in Controllers : Moves(c)
           /\ \A c \in Controllers \ {d} : stage'[c] = stage[c] /\ proposal'[c] = proposal[c]
           /\ stage'[d] = "idle" /\ proposal'[d] = NoProposal
BY DEF PerController, EndCall, Goto, Moves

\* So does a step that succeeded.
LEMMA DoneMoves ==
    ASSUME PerController, NEW d \in Controllers, StepDone(d)
    PROVE  /\ PerController' /\ \A c \in Controllers : Moves(c)
           /\ \A c \in Controllers \ {d} : stage'[c] = stage[c] /\ proposal'[c] = proposal[c]
           /\ stage'[d] \in {"idle", "plan"} /\ proposal'[d] = NoProposal
<1>1. CASE EndCall(d)
  BY <1>1, EndMoves
<1>2. CASE ~EndCall(d)
  BY <1>2 DEF PerController, StepDone, Goto, Moves
<1> QED BY <1>1, <1>2

\* A step of one controller moves it on, and no other.
LEMMA StepMoves ==
    ASSUME PerController, NEW d \in Controllers, RunAgentMode(d) \/ Step(d)
    PROVE  PerController' /\ \A c \in Controllers : Moves(c)
<1>1. CASE EndCall(d) \/ StepDone(d)
  BY <1>1, EndMoves, DoneMoves
<1>2. CASE ~EndCall(d) /\ ~StepDone(d)
  <2>1. CASE RunAgentMode(d)
    BY <2>1 DEF RunAgentMode, Goto, PerController, Moves
  <2>2. CASE DoctorRun(d)
    BY <2>2 DEF DoctorRun, Goto, PerController, Moves
  <2>3. CASE ProposeTaskGraph(d)
    BY <2>3 DEF ProposeTaskGraph, Goto, PerController, Moves
  <2>4. CASE CheckTaskGraph(d)
    BY <2>4, <1>2 DEF CheckTaskGraph, Goto, PerController, Moves
  <2>5. CASE CreateTaskGraph(d)
    BY <2>5 DEF CreateTaskGraph, Goto, PerController, Moves
  <2>6. CASE Dispatch(d)
    BY <2>6, <1>2 DEF Dispatch, Goto, PerController, Moves
  <2> QED
    BY <2>1, <2>2, <2>3, <2>4, <2>5, <2>6, <1>2
       DEF Step, PlannerNotAllowed, PlannerFails, HumanActionRequired, Reconcile,
           ReconcilePartially, Finalize, ClosePlaceholder, DiesCreating, WorkDone, WorkBlocked
<1> QED BY <1>1, <1>2

\* Nor does anybody else move a controller.
LEMMA NextMoves ==
    ASSUME PerController, LoopNext
    PROVE  PerController' /\ \A c \in Controllers : Moves(c)
<1>1. CASE \E c \in Controllers : RunAgentMode(c) \/ Step(c)
  BY <1>1, StepMoves
<1>2. CASE (\E k \in Keys : Reopen(k) \/ ClaimMode(k)) \/ Incident \/ Resolve \/ ReopenPlaceholder
  <2>1. UNCHANGED << stage, plan, proposal >>
    BY <1>2 DEF Reopen, ClaimMode, Incident, Resolve, ReopenPlaceholder, Around
  <2> QED BY <2>1 DEF PerController, Moves
<1> QED BY <1>1, <1>2 DEF LoopNext

\* What comes up while a plan counts is noted beside it.
LEMMA HeededStep == PerController /\ Heeded /\ [LoopNext]_loopVars => (PerController /\ Heeded)'
<1> SUFFICES ASSUME PerController, Heeded, [LoopNext]_loopVars PROVE (PerController /\ Heeded)'
  OBVIOUS
<1>1. CASE UNCHANGED loopVars
  BY <1>1 DEF loopVars, facts, graph, PerController, Heeded, Blockers
<1>2. CASE LoopNext
  <2>1. PerController' /\ \A c \in Controllers : Moves(c)
    BY <1>2, NextMoves
  <2>2. ASSUME NEW c \in Controllers, stage'[c] \in {"propose", "act"}, plan'[c] \cap BlockerNames = {}
        PROVE  Blockers' \subseteq appeared'[c]
    <3>1. appeared'[c] = IF stage[c] = "plan" THEN {} ELSE appeared[c] \cup (Blockers' \ Blockers)
      BY <1>2, <2>2 DEF LoopNext, Watch
    <3>2. CASE stage'[c] = stage[c] /\ plan'[c] = plan[c]
      BY <3>1, <3>2, <2>2 DEF Heeded
    <3>3. CASE stage[c] = "plan" /\ plan'[c] = BuildRunPlan /\ UNCHANGED facts
      <4>1. Blockers \subseteq BlockerNames
        BY DEF Blockers, BlockerNames
      <4>2. Blockers = {}
        BY <3>3, <2>2, <4>1 DEF BuildRunPlan
      <4>3. Blockers' = Blockers
        BY <3>3 DEF facts, Blockers
      <4> QED BY <4>2, <4>3
    <3>4. CASE stage[c] = "propose" /\ plan'[c] \in {plan[c], plan[c] \cup {"materialize_task_graph"}}
      <4>1. plan[c] \cap BlockerNames = {}
        BY <3>4, <2>2
      <4> QED BY <3>1, <3>4, <4>1 DEF Heeded
    <3> QED BY <2>1, <2>2, <3>2, <3>3, <3>4 DEF Moves
  <2> QED BY <2>1, <2>2 DEF Heeded
<1> QED BY <1>1, <1>2

\* Neither a dispatch nor a finalization goes over a blocker that the plan of
\* its controller could have shown.
THEOREM HeedsBlockers == LoopSpec => NoDispatchOverBlocker
<1>1. LoopInit => PerController /\ Heeded
  BY DEF LoopInit, PerController, Heeded
<1>2. PerController /\ Heeded =>
        \A c \in Controllers :
          stage[c] = "act" /\ stage'[c] # "act"
            /\ Selected(c) \in {"dispatch_spawn", "finalize_ready_run"}
             => Blockers \subseteq appeared[c]
  BY BlockersFirst DEF Heeded, Selected
<1> QED BY <1>1, <1>2, HeededStep, PTL DEF LoopSpec, NoDispatchOverBlocker

\* A proposal whose review does not hold it back says what evidence it takes,
\* when it is the LLM's, and has no circle.
Sound(p) == ~ReviewBlocks(p) => (p.planner = "llm" => p.evidence) /\ ~Circular(p.needs)

\* A controller that is writing a graph writes one that was let through.
Reviewed ==
    /\ PerController
    /\ \A c \in Controllers :
          /\ Sound(proposal[c])
          /\ stage[c] \in {"create", "close"} => ~ReviewBlocks(proposal[c])

\* Every edge comes from one of these graphs.
From(graphs, edges) ==
    \A k \in DOMAIN edges : \A n \in edges[k] : \E w \in graphs : k \in DOMAIN w /\ n \in w[k]

\* Without a proposal there is nothing to be held against it.
LEMMA NothingIsSound == Sound(NoProposal)
BY DEF Sound, Circular, NoProposal

\* What a controller proposes to itself can be held against its review.
LEMMA ProposesSound ==
    ASSUME NEW planner, NEW p \in IF planner = "llm" THEN Proposals ELSE TemplateTasks
    PROVE  Sound([needs |-> p.needs, evidence |-> p.evidence,
                  planner |-> planner, review |-> ReviewDecision(p)])
<1>1. CASE planner = "llm"
  BY <1>1 DEF Sound, ReviewBlocks, ReviewDecision, HasCycle
<1>2. CASE planner # "llm"
  BY <1>2, TemplateIsAProposal DEF Sound, TemplateTasks
<1> QED BY <1>1, <1>2

\* Graphs from among some, written into edges from among them.
LEMMA MaterializeFrom ==
    ASSUME NEW graphs, NEW keys, NEW edges, Materialize(keys, edges),
           DOMAIN needs = Keys, From(graphs, needs), From(graphs, edges)
    PROVE  DOMAIN needs' = Keys /\ From(graphs, needs')
BY DEF Materialize, From

\* A controller whose call ends, or whose step is done, drops its proposal.
LEMMA DroppedKeeps ==
    ASSUME Reviewed, NEW d \in Controllers, EndCall(d) \/ StepDone(d)
    PROVE  Reviewed'
<1>1. /\ PerController'
      /\ \A c \in Controllers \ {d} : stage'[c] = stage[c] /\ proposal'[c] = proposal[c]
      /\ stage'[d] \in {"idle", "plan"} /\ proposal'[d] = NoProposal
  BY EndMoves, DoneMoves DEF Reviewed
<1> QED BY <1>1, NothingIsSound DEF Reviewed

\* Only what was reviewed gets to be written.
LEMMA ReviewedStep == ASSUME Reviewed, [LoopNext]_loopVars PROVE Reviewed'
<1>1. CASE UNCHANGED << stage, plan, proposal >>
  BY <1>1 DEF Reviewed, PerController
<1>2. ASSUME NEW d \in Controllers, RunAgentMode(d) \/ Step(d) PROVE Reviewed'
  <2> USE DEF Reviewed
  <2>1. PerController'
    BY <1>2, StepMoves
  <2>2. CASE EndCall(d) \/ StepDone(d)
    BY <2>2, DroppedKeeps
  <2>3. CASE ProposeTaskGraph(d)
    <3>1. stage' = [stage EXCEPT ![d] = "act"]
      BY <2>3 DEF ProposeTaskGraph, Goto
    <3>2. Sound(proposal'[d]) /\ \A c \in Controllers \ {d} : proposal'[c] = proposal[c]
      <4>1. CASE UNCHANGED proposal
        BY <4>1
      <4>2. CASE ~UNCHANGED proposal
        <5>1. PICK p \in IF call[d].planner = "llm" THEN Proposals ELSE TemplateTasks :
                proposal' = [proposal EXCEPT ![d] =
                  [needs |-> p.needs, evidence |-> p.evidence,
                   planner |-> call[d].planner, review |-> ReviewDecision(p)]]
          BY <2>3, <4>2 DEF ProposeTaskGraph
        <5> DEFINE new == [needs |-> p.needs, evidence |-> p.evidence,
                           planner |-> call[d].planner, review |-> ReviewDecision(p)]
        <5>2. Sound(new)
          BY ProposesSound
        <5> HIDE DEF new
        <5>3. proposal' = [proposal EXCEPT ![d] = new]
          BY <5>1 DEF new
        <5> QED BY <5>2, <5>3 DEF PerController
      <4> QED BY <4>1, <4>2
    <3> QED BY <2>1, <3>1, <3>2 DEF PerController
  <2>4. CASE ~EndCall(d) /\ ~StepDone(d) /\ ~ProposeTaskGraph(d)
    <3>1. UNCHANGED proposal
      BY <1>2, <2>4
         DEF Step, RunAgentMode, DoctorRun, PlannerNotAllowed, PlannerFails,
             HumanActionRequired, Reconcile, ReconcilePartially, Finalize, CheckTaskGraph,
             CreateTaskGraph, ClosePlaceholder, DiesCreating, Dispatch, WorkDone, WorkBlocked
    <3>2. \/ \E label \in {"plan", "propose", "working"} : Goto(d, label)
          \/ stage[d] = "act" /\ Goto(d, "create") /\ ~ReviewBlocks(proposal[d])
          \/ stage[d] = "create" /\ Goto(d, "close")
      BY <1>2, <2>4
         DEF Step, RunAgentMode, DoctorRun, PlannerNotAllowed, PlannerFails,
             HumanActionRequired, Reconcile, ReconcilePartially, Finalize, CheckTaskGraph,
             CreateTaskGraph, ClosePlaceholder, DiesCreating, Dispatch, WorkDone, WorkBlocked
    <3> QED BY <2>1, <3>1, <3>2 DEF Goto, PerController
  <2> QED BY <2>2, <2>3, <2>4
<1>3. CASE \E k \in Keys : Reopen(k) \/ ClaimMode(k)
  BY <1>1, <1>3 DEF Reopen, ClaimMode
<1>4. CASE Incident \/ Resolve \/ ReopenPlaceholder
  BY <1>1, <1>4 DEF Incident, Resolve, ReopenPlaceholder, Around, graph
<1>5. CASE UNCHANGED loopVars
  BY <1>1, <1>5 DEF loopVars
<1> QED BY <1>2, <1>3, <1>4, <1>5 DEF LoopNext

\* No graph with a circle of its own is written, and no edge without its graph.
WrittenGraphs ==
    /\ \A w \in written : ~Circular(w)
    /\ DOMAIN needs = Keys /\ From(written, needs)

\* Whoever writes adds to the run what is in its graph, in whole or in part,
\* and its graph to those written.
LEMMA WritingStep ==
    ASSUME Reviewed, WrittenGraphs, [LoopNext]_loopVars
    PROVE  WrittenGraphs'
<1>1. CASE UNCHANGED loopVars
  BY <1>1 DEF loopVars, graph, WrittenGraphs, From
<1>2. CASE LoopNext
  <2> DEFINE writers == {c \in Controllers : stage[c] = "create" /\ stage'[c] # "create"}
  <2>1. written' = written \cup {proposal[c].needs : c \in writers}
    BY <1>2 DEF LoopNext, Watch
  <2>2. \A w \in written' : ~Circular(w)
    BY <2>1 DEF WrittenGraphs, Reviewed, Sound
  <2>3. From(written', needs) /\ DOMAIN needs = Keys
    BY <2>1 DEF WrittenGraphs, From
  <2>4. ASSUME NEW d \in writers, NEW part, DOMAIN part \subseteq DOMAIN proposal[d].needs,
               \A k \in DOMAIN part : part[k] = proposal[d].needs[k]
        PROVE  From(written', part)
    <3>1. proposal[d].needs \in written'
      BY <2>1
    <3> QED BY <2>4, <3>1 DEF From
  <2>5. DOMAIN needs' = Keys /\ From(written', needs')
    <3>1. ASSUME NEW d \in Controllers, CreateTaskGraph(d)
          PROVE  DOMAIN needs' = Keys /\ From(written', needs')
      <4>1. d \in writers
        BY <3>1 DEF CreateTaskGraph, Goto, Reviewed, PerController
      <4>2. From(written', proposal[d].needs)
        BY <4>1, <2>4
      <4> QED BY <3>1, <4>2, <2>3, MaterializeFrom DEF CreateTaskGraph
    <3>2. ASSUME NEW d \in Controllers, DiesCreating(d)
          PROVE  DOMAIN needs' = Keys /\ From(written', needs')
      <4>1. CASE UNCHANGED graph
        BY <4>1, <2>3 DEF graph
      <4>2. CASE stage[d] = "create"
        <5>1. d \in writers
          BY <3>2, <4>2, EndMoves DEF DiesCreating, Reviewed
        <5> DEFINE all == DOMAIN proposal[d].needs
        <5>2. ASSUME NEW some \in SUBSET all, Materialize(some, NoProposal.needs)
              PROVE  DOMAIN needs' = Keys /\ From(written', needs')
          <6>1. From(written', NoProposal.needs)
            BY DEF NoProposal, From
          <6> QED BY <5>2, <6>1, <2>3, MaterializeFrom
        <5>3. ASSUME NEW some \in SUBSET all, Materialize(all, [k \in some |-> proposal[d].needs[k]])
              PROVE  DOMAIN needs' = Keys /\ From(written', needs')
          <6> DEFINE part == [k \in some |-> proposal[d].needs[k]]
          <6>1. DOMAIN part \subseteq all /\ \A k \in DOMAIN part : part[k] = proposal[d].needs[k]
            OBVIOUS
          <6> HIDE DEF part
          <6>2. From(written', part)
            BY <5>1, <6>1, <2>4
          <6>3. Materialize(all, part)
            BY <5>3 DEF part
          <6> QED BY <6>2, <6>3, <2>3, MaterializeFrom
        <5> QED BY <3>2, <4>2, <5>2, <5>3, <4>1 DEF DiesCreating
      <4> QED BY <3>2, <4>1, <4>2 DEF DiesCreating
    <3>3. CASE ~\E d \in Controllers : CreateTaskGraph(d) \/ DiesCreating(d)
      <4>1. UNCHANGED needs
        BY <1>2, <3>3
           DEF LoopNext, Step, RunAgentMode, DoctorRun, PlannerNotAllowed, PlannerFails, ProposeTaskGraph,
               HumanActionRequired, Reconcile, ReconcilePartially, Finalize, CheckTaskGraph,
               ClosePlaceholder, Dispatch, WorkDone, WorkBlocked, Work, graph, Reopen, ClaimMode,
               Incident, Resolve, ReopenPlaceholder, Around
      <4> QED BY <4>1, <2>3
    <3> QED BY <3>1, <3>2, <3>3
  <2> HIDE DEF writers
  <2> QED BY <2>2, <2>5 DEF WrittenGraphs, From
<1> QED BY <1>1, <1>2

\* A graph of the LLM is written only after a review without a word against
\* it; no graph with a circle of its own is written, in whole or in part, and
\* the run has no edge but theirs.
THEOREM CreatesReviewedGraphs == LoopSpec => []ReviewedGraph
<1>1. LoopInit => Reviewed /\ WrittenGraphs
  BY NothingIsSound DEF LoopInit, Reviewed, PerController, WrittenGraphs, From
<1>2. Reviewed /\ WrittenGraphs /\ [LoopNext]_loopVars => (Reviewed /\ WrittenGraphs)'
  BY ReviewedStep, WritingStep
<1>3. Reviewed /\ WrittenGraphs => ReviewedGraph
  BY DEF Reviewed, WrittenGraphs, From, Sound, ReviewBlocks, ReviewedGraph
<1> QED BY <1>1, <1>2, <1>3, PTL DEF LoopSpec

\* So a run into which one graph was written, however often and in however
\* many parts, has no circle: that takes two graphs that contradict each other.
COROLLARY CircleTakesTwo ==
    LoopSpec => [](\A w \in written : written = {w} => ~Circular(needs))
<1>1. ReviewedGraph /\ DOMAIN needs = Keys => \A w \in written : written = {w} => ~Circular(needs)
  <2> SUFFICES ASSUME ReviewedGraph, DOMAIN needs = Keys, NEW w \in written, written = {w}, Circular(needs)
               PROVE  FALSE
    OBVIOUS
  <2>1. PICK S \in SUBSET Keys : S # {} /\ \A k \in S : needs[k] \cap S # {}
    BY DEF Circular
  <2>2. \A k \in S : k \in DOMAIN w /\ w[k] \cap S # {}
    <3> SUFFICES ASSUME NEW k \in S PROVE k \in DOMAIN w /\ w[k] \cap S # {}
      OBVIOUS
    <3>1. PICK n \in needs[k] : n \in S
      BY <2>1
    <3> QED BY <3>1 DEF ReviewedGraph
  <2>3. Circular(w)
    BY <2>1, <2>2 DEF Circular
  <2> QED BY <2>3 DEF ReviewedGraph
<1>2. LoopInit => Reviewed /\ WrittenGraphs
  BY NothingIsSound DEF LoopInit, Reviewed, PerController, WrittenGraphs, From
<1>3. Reviewed /\ WrittenGraphs /\ [LoopNext]_loopVars => (Reviewed /\ WrittenGraphs)'
  BY ReviewedStep, WritingStep
<1>4. WrittenGraphs => DOMAIN needs = Keys
  BY DEF WrittenGraphs
<1> QED BY <1>1, <1>2, <1>3, <1>4, CreatesReviewedGraphs, PTL DEF LoopSpec

-----------------------------------------------------------------------------
(* The daemon lock keeps daemons apart for any number of daemons and any    *)
(* expiry, under the conditions of ExclusiveDrain and UnlinksOwn.           *)
(*                                                                         *)
(* Neither is inductive.  That no second daemon gets past the lock depends  *)
(* on what the file says while the first one works, and on its expiry lying *)
(* ahead of the clock: Sole.  That a daemon about to unlink still finds its *)
(* own lock depends on nobody acquiring while a lock is held, which goes    *)
(* on holding when a daemon outlives its lock at work: Unlinking, with      *)
(* Written to relate the lock to its owner.                                 *)

\* While nobody raced or outlived its lock, at most one daemon has passed the
\* check, its lock is ahead of the clock, and once written it is in the file.
Sole ==
    ~raced /\ late = {} =>
        /\ detached = {}
        /\ \A d, e \in Daemons : doing[d] \in Active /\ doing[e] \in Active => d = e
        /\ \A d \in Daemons : doing[d] \in Active => clock < now[d] + TTL
        /\ \A d \in Daemons : doing[d] \in Working \cup Leaving =>
               IsLock /\ file.owner = d /\ file.expires = now[d] + TTL

\* A lock in the file was written by its owner, with the expiry of its owner.
Written ==
    IsLock =>
        /\ doing[file.owner] \notin {"start"} \cup Acquiring
        /\ file.expires = now[file.owner] + TTL

\* While nobody raced, and no lock expired under a daemon about to remove it,
\* nobody acquires while a lock is held, and who is about to unlink holds it.
Unlinking ==
    ~raced /\ "unlink" \notin late =>
        /\ \A d, e \in Daemons : doing[d] \in Acquiring /\ doing[e] \in Acquiring => d = e
        /\ Held => \A d \in Daemons : doing[d] \notin Acquiring
        /\ \A d \in Daemons : doing[d] = "unlink" => Held /\ file.owner = d

USE LockTimes, NoLocks DEF LockTimes, NoLocks, Locks, Acquiring, Working, Leaving, Active

\* Whatever the daemons do, the lock file is a lock of one of them, torn, or
\* absent, and expiries are instants.
THEOREM DaemonTypeCorrect == DaemonSpec => []DaemonTypeOK
<1>1. DaemonInit => DaemonTypeOK
  <2> SUFFICES ASSUME DaemonInit PROVE DaemonTypeOK
    OBVIOUS
  <2>1. clock \in 0..MaxClock /\ now \in [Daemons -> 0..MaxClock]
    BY DEF DaemonInit
  <2>2. doing \in [Daemons -> {"start", "done"} \cup Active]
    BY DEF DaemonInit
  <2>3. file \in Locks \cup {Torn, NoFile} /\ detached \subseteq Daemons
    BY Zenon DEF DaemonInit
  <2>4. raced \in BOOLEAN /\ late \subseteq Active
    BY DEF DaemonInit
  <2> QED
    BY <2>1, <2>2, <2>3, <2>4 DEF DaemonTypeOK
<1>2. DaemonTypeOK /\ [DaemonNext]_daemonVars => DaemonTypeOK'
  <2> SUFFICES ASSUME DaemonTypeOK, [DaemonNext]_daemonVars PROVE DaemonTypeOK'
    OBVIOUS
  <2> USE DEF DaemonTypeOK
  <2>1. CASE Tick
    <3>1. late' \subseteq Active
      <4>1. {doing[d] : d \in {e \in Daemons : doing[e] \in Active /\ now[e] + TTL <= clock + 1}} \subseteq Active
        OBVIOUS
      <4> QED
        BY <2>1, <4>1 DEF Tick
    <3>2. clock' \in 0..MaxClock
      BY <2>1 DEF Tick
    <3> QED
      BY <2>1, <3>1, <3>2 DEF Tick
  <2>2. ASSUME NEW d \in Daemons, ReadLock(d) PROVE DaemonTypeOK'
    BY <2>2 DEF ReadLock, Do
  <2>3. ASSUME NEW d \in Daemons, Truncate(d) PROVE DaemonTypeOK'
    BY <2>3 DEF Truncate, Do
  <2>4. ASSUME NEW d \in Daemons, WriteLock(d) PROVE DaemonTypeOK'
    BY <2>4 DEF WriteLock, Do
  <2>5. ASSUME NEW d \in Daemons, EndCycle(d) PROVE DaemonTypeOK'
    BY <2>5 DEF EndCycle, Do
  <2>6. ASSUME NEW d \in Daemons, StartCycle(d) PROVE DaemonTypeOK'
    BY <2>6 DEF StartCycle, Do
  <2>7. ASSUME NEW d \in Daemons, ReadOwn(d) PROVE DaemonTypeOK'
    BY <2>7 DEF ReadOwn, Do
  <2>8. ASSUME NEW d \in Daemons, Unlink(d) PROVE DaemonTypeOK'
    BY <2>8 DEF Unlink, Do
  <2>9. ASSUME NEW d \in Daemons, Crash(d) PROVE DaemonTypeOK'
    BY <2>9 DEF Crash, Do
  <2>10. CASE UNCHANGED daemonVars
    BY <2>10 DEF daemonVars
  <2> QED
    BY <2>1, <2>2, <2>3, <2>4, <2>5, <2>6, <2>7, <2>8, <2>9, <2>10 DEF DaemonNext
<1> QED
  BY <1>1, <1>2, PTL DEF DaemonSpec

\* A label at which a lock expires is remembered.
LEMMA LateWhenExpired ==
    ASSUME Tick, NEW d \in Daemons, doing[d] \in Active, now[d] + TTL <= clock + 1
    PROVE  doing[d] \in late'
<1>1. d \in {e \in Daemons : doing[e] \in Active /\ now[e] + TTL <= clock + 1}
  OBVIOUS
<1>2. late' = late \cup {doing[x] : x \in {e \in Daemons : doing[e] \in Active /\ now[e] + TTL <= clock + 1}}
  BY Zenon DEF Tick
<1> QED
  BY <1>1, <1>2, Zenon

\* Before any daemon starts, none has passed acquire_lock's check.
LEMMA SoleInit == DaemonInit => Sole
  BY DEF DaemonInit, Sole

\* No step of a daemon, and no passing of time, breaks Sole.
LEMMA SoleStep == DaemonTypeOK /\ DaemonTypeOK' /\ Sole /\ [DaemonNext]_daemonVars => Sole'
<1> SUFFICES ASSUME DaemonTypeOK, DaemonTypeOK', Sole, [DaemonNext]_daemonVars, ~raced', late' = {} PROVE Sole'
  BY DEF Sole
<1> USE DEF DaemonTypeOK, Sole, IsLock
<1>1. CASE Tick
  <2>1. ~raced /\ late = {} /\ UNCHANGED << file, doing, now, detached >>
    BY <1>1 DEF Tick
  <2>2. ASSUME NEW d \in Daemons, doing[d] \in Active PROVE clock' < now[d] + TTL
    <3>1. ~(now[d] + TTL <= clock + 1)
      BY <1>1, <2>2, LateWhenExpired
    <3>2. now[d] + TTL \in Int /\ clock + 1 \in Int /\ clock' = clock + 1
      BY <1>1 DEF Tick
    <3> QED
      BY <3>1, <3>2
  <2> QED
    BY <2>1, <2>2
<1>2. ASSUME NEW d \in Daemons, ReadLock(d) PROVE Sole'
  BY <1>2 DEF ReadLock, Do, Held
<1>3. ASSUME NEW d \in Daemons, Truncate(d) PROVE Sole'
  BY <1>3 DEF Truncate, Do
<1>4. ASSUME NEW d \in Daemons, WriteLock(d) PROVE Sole'
  BY <1>4 DEF WriteLock, Do
<1>5. ASSUME NEW d \in Daemons, EndCycle(d) PROVE Sole'
  BY <1>5 DEF EndCycle, Do
<1>6. ASSUME NEW d \in Daemons, StartCycle(d) PROVE Sole'
  BY <1>6 DEF StartCycle, Do
<1>7. ASSUME NEW d \in Daemons, ReadOwn(d) PROVE Sole'
  BY <1>7 DEF ReadOwn, Do
<1>8. ASSUME NEW d \in Daemons, Unlink(d) PROVE Sole'
  BY <1>8 DEF Unlink, Do
<1>9. ASSUME NEW d \in Daemons, Crash(d) PROVE Sole'
  BY <1>9 DEF Crash, Do
<1>10. CASE UNCHANGED daemonVars
  BY <1>10 DEF daemonVars
<1> QED
  BY <1>1, <1>2, <1>3, <1>4, <1>5, <1>6, <1>7, <1>8, <1>9, <1>10 DEF DaemonNext

\* So at most one daemon is ever past the check, with its lock in the file.
LEMMA SoleAlways == DaemonSpec => []Sole
<1>1. DaemonInit => Sole
  BY SoleInit
<1>2. DaemonTypeOK /\ DaemonTypeOK' /\ Sole /\ [DaemonNext]_daemonVars => Sole'
  BY SoleStep
<1> QED
  BY <1>1, <1>2, DaemonTypeCorrect, PTL DEF DaemonSpec

\* One daemon at a time drains the queue, unless two acquired at once or one
\* outlived its lock: what acquire_lock and release_lock achieve together.
THEOREM DrainsExclusively == DaemonSpec => []ExclusiveDrain
<1>1. Sole => ExclusiveDrain
  BY DEF Sole, ExclusiveDrain, AtWork
<1> QED
  BY <1>1, SoleAlways, PTL

\* The lock in the file stays related to its owner whatever the daemons do.
LEMMA WrittenStep == DaemonTypeOK /\ Written /\ [DaemonNext]_daemonVars => Written'
<1> SUFFICES ASSUME DaemonTypeOK, Written, [DaemonNext]_daemonVars PROVE Written'
  OBVIOUS
<1> USE DEF DaemonTypeOK, Written, IsLock
<1>1. CASE Tick
  BY <1>1 DEF Tick
<1>2. ASSUME NEW d \in Daemons, ReadLock(d) PROVE Written'
  BY <1>2 DEF ReadLock, Do, Held
<1>3. ASSUME NEW d \in Daemons, Truncate(d) PROVE Written'
  BY <1>3 DEF Truncate, Do
<1>4. ASSUME NEW d \in Daemons, WriteLock(d) PROVE Written'
  BY <1>4 DEF WriteLock, Do
<1>5. ASSUME NEW d \in Daemons, EndCycle(d) PROVE Written'
  BY <1>5 DEF EndCycle, Do
<1>6. ASSUME NEW d \in Daemons, StartCycle(d) PROVE Written'
  BY <1>6 DEF StartCycle, Do
<1>7. ASSUME NEW d \in Daemons, ReadOwn(d) PROVE Written'
  BY <1>7 DEF ReadOwn, Do
<1>8. ASSUME NEW d \in Daemons, Unlink(d) PROVE Written'
  BY <1>8 DEF Unlink, Do
<1>9. ASSUME NEW d \in Daemons, Crash(d) PROVE Written'
  BY <1>9 DEF Crash, Do
<1>10. CASE UNCHANGED daemonVars
  BY <1>10 DEF daemonVars
<1> QED
  BY <1>1, <1>2, <1>3, <1>4, <1>5, <1>6, <1>7, <1>8, <1>9, <1>10 DEF DaemonNext

\* No step lets a daemon acquire under another's lock or lose its own between
\* the two steps of release_lock, under the conditions of Unlinking.
LEMMA UnlinkingStep == DaemonTypeOK /\ DaemonTypeOK' /\ Written /\ Unlinking /\ [DaemonNext]_daemonVars => Unlinking'
<1> SUFFICES ASSUME DaemonTypeOK, DaemonTypeOK', Written, Unlinking, [DaemonNext]_daemonVars, ~raced', "unlink" \notin late'
             PROVE Unlinking'
  BY DEF Unlinking
<1> USE DEF DaemonTypeOK, Written, Unlinking, IsLock, Held
<1>1. CASE Tick
  <2>1. ~raced /\ "unlink" \notin late /\ UNCHANGED << file, doing, now >> /\ clock' = clock + 1
    BY <1>1 DEF Tick
  <2>2. ASSUME NEW d \in Daemons, doing[d] = "unlink" PROVE now[d] + TTL > clock + 1
    <3>1. ~(now[d] + TTL <= clock + 1)
      BY <1>1, <2>2, LateWhenExpired
    <3>2. now[d] + TTL \in Int /\ clock + 1 \in Int
      OBVIOUS
    <3> QED
      BY <3>1, <3>2
  <2> QED
    BY <2>1, <2>2
<1>2. ASSUME NEW d \in Daemons, ReadLock(d) PROVE Unlinking'
  BY <1>2 DEF ReadLock, Do
<1>3. ASSUME NEW d \in Daemons, Truncate(d) PROVE Unlinking'
  BY <1>3 DEF Truncate, Do
<1>4. ASSUME NEW d \in Daemons, WriteLock(d) PROVE Unlinking'
  BY <1>4 DEF WriteLock, Do
<1>5. ASSUME NEW d \in Daemons, EndCycle(d) PROVE Unlinking'
  BY <1>5 DEF EndCycle, Do
<1>6. ASSUME NEW d \in Daemons, StartCycle(d) PROVE Unlinking'
  BY <1>6 DEF StartCycle, Do
<1>7. ASSUME NEW d \in Daemons, ReadOwn(d) PROVE Unlinking'
  BY <1>7 DEF ReadOwn, Do
<1>8. ASSUME NEW d \in Daemons, Unlink(d) PROVE Unlinking'
  BY <1>8 DEF Unlink, Do
<1>9. ASSUME NEW d \in Daemons, Crash(d) PROVE Unlinking'
  BY <1>9 DEF Crash, Do
<1>10. CASE UNCHANGED daemonVars
  BY <1>10 DEF daemonVars
<1> QED
  BY <1>1, <1>2, <1>3, <1>4, <1>5, <1>6, <1>7, <1>8, <1>9, <1>10 DEF DaemonNext

\* A daemon that leaves removes no lock but its own: release_lock's read and
\* unlink are two steps, and it is enough that no two daemons acquired at
\* once and no lock expired between a daemon's two steps.
THEOREM LeavesOthersLocks == DaemonSpec => UnlinksOwn
<1>1. DaemonInit => Written /\ Unlinking
  BY DEF DaemonInit, Written, Unlinking, IsLock, Held
<1>2. Unlinking /\ [DaemonNext]_daemonVars =>
        [~raced /\ "unlink" \notin late =>
            \A d \in Daemons : doing[d] = "unlink" /\ doing'[d] = "done" /\ IsLock /\ file' = NoFile =>
                file.owner = d]_daemonVars
  BY DEF Unlinking
<1>3. DaemonSpec => [](Written /\ Unlinking)
  <2>1. DaemonTypeOK /\ DaemonTypeOK' /\ Written /\ Unlinking /\ [DaemonNext]_daemonVars => (Written /\ Unlinking)'
    BY WrittenStep, UnlinkingStep
  <2> QED
    BY <1>1, <2>1, DaemonTypeCorrect, PTL DEF DaemonSpec
<1> QED
  BY <1>2, <1>3, PTL DEF DaemonSpec, UnlinksOwn
=============================================================================
