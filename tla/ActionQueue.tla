---------------------------- MODULE ActionQueue ----------------------------
(***************************************************************************)
(* The orchestrator's action queue (src/geond_orchestrator/                 *)
(* orchestrator_action_queue.py) and the scheduler that drains it           *)
(* (orchestrator_scheduler.py).  Proposed actions are appended to a JSONL   *)
(* log as "queued" events; people append "approved" and "rejected" events;  *)
(* whoever executes an action appends "executed" with its result.  Nothing  *)
(* is locked: each command replays the log, decides, and appends.           *)
(*                                                                         *)
(* items is the replay of the log: replay_run_queue folds the events in     *)
(* their order, so appending an event is applying it to items.  An action   *)
(* is its id, which fixes its type, and its signature: the same proposal    *)
(* made again for other reasons has the same id and another signature.      *)
(* One run.                                                                *)
(***************************************************************************)
EXTENDS Integers, FiniteSets, Sequences, SequencesExt

CONSTANTS
    Queuers,    \* processes in queue_actions_from_bundle
    Runners,    \* processes that execute: `action execute` or a scheduler drain
    ActionIds,
    Manual,     \* ids of the types only a person carries out
    Signatures,
    Unreviewed, \* signatures of task graphs whose review is not "approved"
    Bundles,    \* bundles the run may come to propose: a signature or Nil per id
    MaxActions, \* max_actions of a drain
    Budgets,    \* budget_actions of the drains, Nil for no budget
    Scheduler,  \* the runner that starts drains again and again
    Budget,     \* and their budget
    Nil

ASSUME DrainLimits ==
    /\ MaxActions \in Nat \ {0}
    /\ Scheduler \in Runners
    /\ Budgets \subseteq Nat \cup {Nil} /\ Budget \in Budgets
ASSUME ActionKinds ==
    /\ IsFiniteSet(ActionIds) /\ Manual \subseteq ActionIds /\ Unreviewed \subseteq Signatures
    /\ Bundles \subseteq [ActionIds -> Signatures \cup {Nil}]

VARIABLES
    bundle,   \* what build_action_bundle proposes now: a signature or Nil per id
    items,    \* replay of the log, Nil for an id never queued
    qpc,      \* a queuer's bundle and the ids it has left, or Nil
    adding,   \* the id a queuer has decided to append
    pc,       \* what each runner does next
    todo,     \* the ids it has still to execute
    drain,    \* it is a scheduler drain
    act,      \* the signature it read for the head of todo
    ran,      \* history: executions since the item's last approval (0, 1, many)
    doubtful, \* history: an execution overlapped another or died unrecorded
    standing  \* history: <<id, signature>> approved since last queued or rejected

queue   == << bundle, items >>
qvars   == << qpc, adding >>
rvars   == << pc, todo, drain, act >>
history == << ran, doubtful, standing >>
vars    == << queue, qvars, rvars, history >>

Outcomes == {"executed", "failed", "blocked"}
Statuses == Outcomes \cup {"queued", "approved", "rejected"}
Items    == [sig : Signatures, status : Statuses]
Proposed == [ActionIds -> Signatures \cup {Nil}]
Queuings == [read : Proposed, left : SUBSET ActionIds]

ASSUME NilIsNothing == Nil \notin ActionIds \cup Signatures \cup Items \cup Queuings

TypeOK ==
    /\ bundle \in Proposed
    /\ items \in [ActionIds -> Items \cup {Nil}]
    /\ qpc \in [Queuers -> Queuings \cup {Nil}]
    /\ adding \in [Queuers -> ActionIds \cup {Nil}]
    /\ pc \in [Runners -> {"idle", "read", "refuse", "run", "refresh"}]
    /\ \A r \in Runners : todo[r] \in Seq(ActionIds) /\ Len(todo[r]) <= MaxActions
    /\ drain \in [Runners -> BOOLEAN]
    /\ act \in [Runners -> Signatures \cup {Nil}]
    /\ ran \in [ActionIds -> 0..2]
    /\ doubtful \subseteq ActionIds
    /\ standing \subseteq ActionIds \X Signatures

Init ==
    /\ bundle \in Bundles
    /\ items = [i \in ActionIds |-> Nil]
    /\ qpc = [q \in Queuers |-> Nil]
    /\ adding = [q \in Queuers |-> Nil]
    /\ pc = [r \in Runners |-> "idle"]
    /\ todo = [r \in Runners |-> << >>]
    /\ drain = [r \in Runners |-> FALSE]
    /\ act = [r \in Runners |-> Nil]
    /\ ran = [i \in ActionIds |-> 0]
    /\ doubtful = {}
    /\ standing = {}

-----------------------------------------------------------------------------
(* The log. *)

Current(i) == IF items[i] = Nil THEN Nil ELSE items[i].sig

Running(i) == {r \in Runners : pc[r] = "run" /\ Head(todo[r]) = i}

\* Forget the standing approval of an item.
NotStanding(i) == {a \in standing : a[1] # i}

\* Fault: a changed action inherits the approval of the one it replaces.
QueuedInPlace(i, sig) ==
    [items EXCEPT ![i] = [sig |-> sig, status |-> IF @ = Nil THEN "queued" ELSE @.status]]

\* "queued" starts the item afresh.
Queued(i, sig) == [items EXCEPT ![i] = [sig |-> sig, status |-> "queued"]]

\* The other events change the status alone.
Marked(i, status) == [items EXCEPT ![i].status = status]

\* mark_stale_items: an open item the bundle no longer proposes as it stands.
IsStale(i) ==
    /\ items[i] # Nil
    /\ items[i].status \in {"queued", "approved"}
    /\ bundle[i] # items[i].sig

-----------------------------------------------------------------------------
(* The run moves on: other actions are proposed, or for other reasons. *)

ChangeBundle ==
    /\ bundle' \in Bundles \ {bundle}
    /\ UNCHANGED << items, qvars, rvars, history >>

(* queue_actions_from_bundle. *)

ReadBundle(q) ==
    LET proposed == {i \in ActionIds : bundle[i] # Nil} IN
    /\ qpc[q] = Nil
    /\ proposed # {}
    /\ qpc' = [qpc EXCEPT ![q] = [read |-> bundle, left |-> proposed]]
    /\ UNCHANGED << queue, adding, rvars, history >>

\* Done with one id; after the last one the command is over.
DoneWith(q, i) ==
    qpc' = [qpc EXCEPT ![q] =
                IF @.left = {i} THEN Nil ELSE [read |-> @.read, left |-> @.left \ {i}]]

\* Already queued with this signature, or about to be appended.
ConsiderAction(q, i) ==
    /\ qpc[q] # Nil /\ adding[q] = Nil
    /\ i \in qpc[q].left
    /\ IF Current(i) = qpc[q].read[i]
       THEN DoneWith(q, i) /\ UNCHANGED adding
       ELSE adding' = [adding EXCEPT ![q] = i] /\ UNCHANGED qpc
    /\ UNCHANGED << queue, rvars, history >>

AppendQueued(q) ==
    LET i == adding[q] IN
    /\ i # Nil
    /\ items' = Queued(i, qpc[q].read[i])
    /\ adding' = [adding EXCEPT ![q] = Nil]
    /\ DoneWith(q, i)
    /\ standing' = NotStanding(i)
    /\ UNCHANGED << bundle, rvars, ran, doubtful >>

CrashQueuer(q) ==
    /\ qpc[q] # Nil
    /\ qpc' = [qpc EXCEPT ![q] = Nil]
    /\ adding' = [adding EXCEPT ![q] = Nil]
    /\ UNCHANGED << queue, rvars, history >>

-----------------------------------------------------------------------------
(* People. *)

\* approve_action asks only that the item exists.
ApproveAction(i) ==
    /\ items[i] # Nil
    /\ items' = Marked(i, "approved")
    /\ ran' = [ran EXCEPT ![i] = 0]
    /\ doubtful' = IF Running(i) # {} THEN doubtful \cup {i} ELSE doubtful \ {i}
    /\ standing' = NotStanding(i) \cup {<<i, Current(i)>>}
    /\ UNCHANGED << bundle, qvars, rvars >>

RejectAction(i) ==
    /\ items[i] # Nil
    /\ items' = Marked(i, "rejected")
    /\ standing' = NotStanding(i)
    /\ UNCHANGED << bundle, qvars, rvars, ran, doubtful >>

-----------------------------------------------------------------------------
(* Runners. *)

Become(r, label, ids, signature) ==
    /\ pc' = [pc EXCEPT ![r] = label]
    /\ todo' = [todo EXCEPT ![r] = ids]
    /\ act' = [act EXCEPT ![r] = signature]

Continue(r, label, ids, signature) == Become(r, label, ids, signature) /\ UNCHANGED drain

Stop(r) == Become(r, "idle", << >>, Nil) /\ drain' = [drain EXCEPT ![r] = FALSE]

\* `action execute <id> --execute`: stale or not.
StartExecute(r, i) ==
    /\ pc[r] = "idle"
    /\ items[i] # Nil
    /\ Become(r, "read", << i >>, Nil)
    /\ UNCHANGED << queue, qvars, drain, history >>

\* skip_reason: approved, not stale, and of an automatic type.
Selectable ==
    {i \in ActionIds \ Manual : items[i] # Nil /\ items[i].status = "approved" /\ ~IsStale(i)}

Drawn(order) == SubSeq(order, 1, IF Len(order) < MaxActions THEN Len(order) ELSE MaxActions)

\* budget_exceeded: more actions would be drawn than budget_actions allows.
OverBudget(budget) == budget # Nil /\ MaxActions > budget /\ Cardinality(Selectable) > budget

\* drain_scheduler: max_actions of them, and none at all when they are over the
\* budget.  Their order (run id, then queue time) is left open.
StartDrain(r, budget) ==
    /\ pc[r] = "idle"
    /\ Selectable # {} /\ ~OverBudget(budget)
    /\ \E order \in SetToSeqs(Selectable) : Become(r, "read", Drawn(order), Nil)
    /\ drain' = [drain EXCEPT ![r] = TRUE]
    /\ UNCHANGED << queue, qvars, history >>

MayRun(i) ==
    /\ items[i].status = "approved"
    /\ i \notin Manual
    /\ items[i].sig \notin Unreviewed

\* execute_queued_action up to its effect.
ReadItem(r) ==
    LET i == Head(todo[r]) IN
    /\ pc[r] = "read"
    /\ \/ /\ MayRun(i)
          /\ Continue(r, "run", todo[r], items[i].sig)
          /\ ran' = [ran EXCEPT ![i] = IF @ = 2 THEN 2 ELSE @ + 1]
          /\ doubtful' = IF Running(i) # {} THEN doubtful \cup {i} ELSE doubtful
       \/ /\ ~MayRun(i)
          /\ Continue(r, "refuse", todo[r], Nil)
          /\ UNCHANGED << ran, doubtful >>
    /\ UNCHANGED << queue, qvars, standing >>

\* Fault: a failed execution is not recorded.
RecordSuccessOnly(r, outcome) ==
    LET i == Head(todo[r]) IN
    /\ pc[r] = "run"
    /\ items' = IF outcome = "executed" THEN Marked(i, outcome) ELSE items
    /\ Stop(r)
    /\ UNCHANGED << bundle, qvars, history >>

\* The effect is over; record_execution_result.
RecordResult(r, outcome) ==
    LET i == Head(todo[r]) IN
    /\ pc[r] = "run"
    /\ items' = Marked(i, outcome)
    /\ IF drain[r] /\ outcome = "executed" THEN Continue(r, "refresh", todo[r], Nil) ELSE Stop(r)
    /\ UNCHANGED << bundle, qvars, history >>

\* Not approved, or for a person: the refusal is an "executed" event too.
RecordRefusal(r) ==
    /\ pc[r] = "refuse"
    /\ items' = Marked(Head(todo[r]), "blocked")
    /\ Stop(r)
    /\ UNCHANGED << bundle, qvars, history >>

\* queue_has_blocking_status.
Troubled ==
    \E i \in ActionIds : IsStale(i) \/ (items[i] # Nil /\ items[i].status \in {"blocked", "failed"})

\* The drain goes on to its next action only if nothing is stale or blocked.
Refresh(r) ==
    /\ pc[r] = "refresh"
    /\ IF Troubled \/ Len(todo[r]) = 1 THEN Stop(r) ELSE Continue(r, "read", Tail(todo[r]), Nil)
    /\ UNCHANGED << queue, qvars, history >>

\* The runner dies, or its action raises: nothing is recorded.
CrashRunner(r) ==
    /\ pc[r] # "idle"
    /\ doubtful' = IF pc[r] = "run" THEN doubtful \cup {Head(todo[r])} ELSE doubtful
    /\ Stop(r)
    /\ UNCHANGED << queue, qvars, ran, standing >>

RunnerStep(r) ==
    \/ ReadItem(r)
    \/ \E o \in Outcomes : RecordResult(r, o)
    \/ RecordRefusal(r)
    \/ Refresh(r)

Approving == \E i \in ActionIds : ApproveAction(i)

Next ==
    \/ ChangeBundle
    \/ \E q \in Queuers :
          \/ ReadBundle(q)
          \/ \E i \in ActionIds : ConsiderAction(q, i)
          \/ AppendQueued(q)
          \/ CrashQueuer(q)
    \/ Approving
    \/ \E i \in ActionIds : RejectAction(i)
    \/ \E r \in Runners :
          \/ \E i \in ActionIds : StartExecute(r, i)
          \/ \E b \in Budgets : StartDrain(r, b)
          \/ RunnerStep(r)
          \/ CrashRunner(r)

Spec == Init /\ [][Next]_vars

-----------------------------------------------------------------------------
(* Properties. *)

\* An action starts only on an approval given for that very signature and
\* neither withdrawn nor superseded when the runner looked: an approval is not
\* inherited by the action that replaces the approved one (replay_run_queue).
StartsOnStandingApproval ==
    [][\A r \in Runners : pc[r] # "run" /\ pc'[r] = "run" =>
          <<Head(todo[r]), act'[r]>> \in standing]_vars

\* One approval pays for one execution, unless two runners had the action in
\* hand at once or one of them died before it could say so.
OneRunPerApproval ==
    \A i \in ActionIds \ doubtful : ran[i] <= 1

\* One runner is the scheduler's: it is started again and again, and its drains
\* do not all die.  What the other runners and the people do is left to them.
Draining ==
    /\ WF_vars(RunnerStep(Scheduler))
    /\ SF_vars(drain[Scheduler] /\ ReadItem(Scheduler))
    /\ SF_vars(drain[Scheduler] /\ \E o \in Outcomes : RecordResult(Scheduler, o))
    /\ SF_vars(drain[Scheduler] /\ RecordRefusal(Scheduler))
    /\ SF_vars(StartDrain(Scheduler, Budget))

FairSpec == Spec /\ Draining

\* Once people stop approving, no selectable action stays approved for ever:
\* whatever fails is recorded and makes way for the next, in its own drain or in
\* a later one.  The exception is a queue that stays over the scheduler's budget:
\* each of its drains is then refused whole (budget_exceeded), and the actions
\* wait for a person to reject or execute some of them.
ApprovedIsHandled ==
    \/ []<><<Approving>>_vars
    \/ <>[]OverBudget(Budget)
    \/ \A i \in ActionIds : []<>(i \notin Selectable)
=============================================================================
