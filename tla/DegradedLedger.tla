--------------------------- MODULE DegradedLedger ---------------------------
(***************************************************************************)
(* What becomes of a spawned worker's result when the database fails        *)
(* (complete_spawn_execution and its helpers in src/geond_orchestrator/     *)
(* orchestrator.py, and src/geond/degraded_ledger.py).                      *)
(*                                                                         *)
(* The dispatcher writes the result item by item: the finding of a blocked  *)
(* senior review, one evidence record per tested command, the handoff.      *)
(* Each write carries an idempotency key.  When one raises, the item is     *)
(* appended to a ledger file as pending, and `geond ledger reconcile` or    *)
(* the control loop applies it later, under the same key.                   *)
(*                                                                         *)
(* A write is a transaction that reads the key (and the lease) and then     *)
(* inserts the rows; two of them can both have read before either commits.  *)
(* An exception does not tell whether the transaction took effect.          *)
(***************************************************************************)
EXTENDS Integers, FiniteSets

CONSTANTS
    Commands,    \* how many commands the worker tested
    Dispatcher,
    Reconcilers, \* processes that may reconcile the run's ledger
    MaxFailures, \* a bound: transactions that raise
    MaxCrashes,  \* a bound: reconcilers that die
    Nil

ASSUME LedgerConstants ==
    /\ Commands \in Nat
    /\ Dispatcher \notin Reconcilers
    /\ MaxFailures \in Nat /\ MaxCrashes \in Nat
    /\ Nil \notin {"ok", "refused"}

Callers == Reconcilers \cup {Dispatcher}

\* The items in the order they are written, and so in the order of the file.
Finding  == 0
Evidence == 1..Commands
Handoff  == Commands + 1
Items    == 0..Handoff

VARIABLES
    pc,       \* what each caller does next
    item,     \* the item it is writing
    plan,     \* what its transaction decided from what it read
    batch,    \* the pending items a reconciler still has to apply
    rows,     \* how many rows the database holds for each item
    memo,     \* the response remembered under each item's key
    lease,    \* is the worker's lease active?
    ledger,   \* items appended to the file as pending
    applied,  \* items with a reconcile_applied event in the file
    passed,   \* history: the items the dispatcher has dealt with
    raced,    \* history: items two transactions were about to write at once
    failures, crashes

vars == << pc, item, plan, batch, rows, memo, lease, ledger, applied, passed, raced, failures, crashes >>
database == << rows, memo, lease >>
file     == << ledger, applied >>

TypeOK ==
    /\ pc \in [Callers -> {"idle", "call", "commit", "append", "note"}]
    /\ item \in [Callers -> Items]
    /\ plan \in [Callers -> {"write", "refuse", "replay"}]
    /\ batch \in [Reconcilers -> SUBSET Items]
    /\ rows \in [Items -> Nat]
    /\ memo \in [Items -> {Nil, "ok", "refused"}]
    /\ lease \in BOOLEAN
    /\ ledger \subseteq Items /\ applied \subseteq Items
    /\ passed \subseteq Items /\ raced \subseteq Items
    /\ failures \in 0..MaxFailures /\ crashes \in 0..MaxCrashes

\* An approved or unreviewed result has no finding; a failed or invalid run
\* has a handoff only (finish_blocked_spawn).
Init ==
    /\ pc = [c \in Callers |-> IF c = Dispatcher THEN "call" ELSE "idle"]
    /\ \E first \in {Finding, 1, Handoff} : item = [c \in Callers |-> first]
    /\ plan = [c \in Callers |-> "write"]
    /\ batch = [r \in Reconcilers |-> {}]
    /\ rows = [i \in Items |-> 0]
    /\ memo = [i \in Items |-> Nil]
    /\ lease = TRUE
    /\ ledger = {} /\ applied = {}
    /\ passed = {} /\ raced = {}
    /\ failures = 0 /\ crashes = 0

Goto(c, label) == pc' = [pc EXCEPT ![c] = label]

-----------------------------------------------------------------------------
(* One write, as a transaction: record_review_finding,                     *)
(* record_command_evidence, finish_task_with_handoff.                       *)

\* What the transaction does, from the remembered response and the lease.
Decision(i) ==
    CASE memo[i] # Nil            -> "replay"
      [] i = Handoff /\ ~lease    -> "refuse"
      [] OTHER                    -> "write"

Read(c) ==
    /\ pc[c] = "call"
    /\ plan' = [plan EXCEPT ![c] = Decision(item[c])]
    /\ raced' = raced \cup
           {i \in {item[c]} : \E o \in Callers \ {c} : pc[o] = "commit" /\ item[o] = i}
    /\ Goto(c, "commit")
    /\ UNCHANGED << item, batch, database, file, passed, failures, crashes >>

\* remember_idempotency: ON CONFLICT DO NOTHING.
Remember(i, response) == memo' = [memo EXCEPT ![i] = IF @ = Nil THEN response ELSE @]

\* Fault: the response of a write is not remembered.
TakeEffectForgetting(c) ==
    \/ /\ plan[c] = "write"
       /\ rows' = [rows EXCEPT ![item[c]] = @ + 1]
       /\ lease' = (lease /\ item[c] # Handoff)
       /\ UNCHANGED memo
    \/ plan[c] = "refuse" /\ Remember(item[c], "refused") /\ UNCHANGED << rows, lease >>
    \/ plan[c] = "replay" /\ UNCHANGED database

TakeEffect(c) ==
    LET i == item[c] IN
    \/ /\ plan[c] = "write"
       /\ rows' = [rows EXCEPT ![i] = @ + 1]
       /\ lease' = (lease /\ i # Handoff)
       /\ Remember(i, "ok")
    \/ /\ plan[c] = "refuse"                     \* LEASE_EXPIRED
       /\ Remember(i, "refused")
       /\ UNCHANGED << rows, lease >>
    \/ plan[c] = "replay" /\ UNCHANGED database

Succeeds(c) == plan[c] = "write" \/ (plan[c] = "replay" /\ memo[item[c]] = "ok")

-----------------------------------------------------------------------------
(* complete_spawn_execution. *)

\* On to the next item; after the handoff the dispatch is over.
Advance ==
    /\ passed' = passed \cup {item[Dispatcher]}
    /\ IF item[Dispatcher] = Handoff
       THEN Goto(Dispatcher, "idle") /\ UNCHANGED item
       ELSE Goto(Dispatcher, "call") /\ item' = [item EXCEPT ![Dispatcher] = @ + 1]

\* An answer, good or bad, is reported and not ledgered.
DispatcherCommits ==
    /\ pc[Dispatcher] = "commit"
    /\ TakeEffect(Dispatcher)
    /\ Advance
    /\ UNCHANGED << plan, batch, file, raced, failures, crashes >>

\* Fault: the exception is reported like an answer.
DispatcherIgnores ==
    /\ pc[Dispatcher] \in {"call", "commit"}
    /\ failures < MaxFailures
    /\ failures' = failures + 1
    /\ Advance
    /\ UNCHANGED << plan, batch, database, file, raced, crashes >>

\* The transaction raises, before or after it took effect.
DispatcherFails ==
    /\ pc[Dispatcher] \in {"call", "commit"}
    /\ failures < MaxFailures
    /\ failures' = failures + 1
    /\ UNCHANGED database \/ (pc[Dispatcher] = "commit" /\ TakeEffect(Dispatcher))
    /\ Goto(Dispatcher, "append")
    /\ UNCHANGED << item, plan, batch, file, passed, raced, crashes >>

AppendPending ==
    /\ pc[Dispatcher] = "append"
    /\ ledger' = ledger \cup {item[Dispatcher]}
    /\ Advance
    /\ UNCHANGED << plan, batch, database, applied, raced, failures, crashes >>

DispatcherDies ==
    /\ pc[Dispatcher] # "idle"
    /\ Goto(Dispatcher, "idle")
    /\ UNCHANGED << item, plan, batch, database, file, passed, raced, failures, crashes >>

-----------------------------------------------------------------------------
(* reconcile. *)

\* PENDING_EVENT_TYPES leaves out review findings.
PendingEvents == {i \in ledger : i # Finding /\ i \notin applied}

\* Apply the first of the items left, or be done.
ApplyFirst(r, left) ==
    /\ batch' = [batch EXCEPT ![r] = left]
    /\ \/ left = {} /\ Goto(r, "idle") /\ UNCHANGED item
       \/ \E first \in left :
             /\ \A i \in left : first <= i
             /\ item' = [item EXCEPT ![r] = first]
             /\ Goto(r, "call")

StartReconcile(r) ==
    /\ pc[r] = "idle"
    /\ PendingEvents # {}
    /\ ApplyFirst(r, PendingEvents)
    /\ UNCHANGED << plan, database, file, passed, raced, failures, crashes >>

ReconcilerCommits(r) ==
    /\ pc[r] = "commit"
    /\ TakeEffect(r)
    /\ \/ Succeeds(r) /\ Goto(r, "note") /\ UNCHANGED << item, batch >>
       \/ ~Succeeds(r) /\ ApplyFirst(r, batch[r] \ {item[r]})
    /\ UNCHANGED << plan, file, passed, raced, failures, crashes >>

NoteApplied(r) ==
    /\ pc[r] = "note"
    /\ applied' = applied \cup {item[r]}
    /\ ApplyFirst(r, batch[r] \ {item[r]})
    /\ UNCHANGED << plan, database, ledger, passed, raced, failures, crashes >>

\* Fault: an exception ends the reconciliation for this item only, and the
\* item is taken for applied.
ReconcilerFailsNoting(r) ==
    /\ pc[r] \in {"call", "commit"}
    /\ failures < MaxFailures
    /\ failures' = failures + 1
    /\ Goto(r, "note")
    /\ UNCHANGED << item, plan, batch, database, file, passed, raced, crashes >>

\* The transaction raises: the whole reconciliation ends.
ReconcilerFails(r) ==
    /\ pc[r] \in {"call", "commit"}
    /\ failures < MaxFailures
    /\ failures' = failures + 1
    /\ UNCHANGED database \/ (pc[r] = "commit" /\ TakeEffect(r))
    /\ Goto(r, "idle")
    /\ batch' = [batch EXCEPT ![r] = {}]
    /\ UNCHANGED << item, plan, file, passed, raced, crashes >>

ReconcilerDies(r) ==
    /\ pc[r] # "idle"
    /\ crashes < MaxCrashes
    /\ crashes' = crashes + 1
    /\ Goto(r, "idle")
    /\ batch' = [batch EXCEPT ![r] = {}]
    /\ UNCHANGED << item, plan, database, file, passed, raced, failures >>

-----------------------------------------------------------------------------

\* The lease expires, or somebody else ends it.
EndLease ==
    /\ lease
    /\ lease' = FALSE
    /\ UNCHANGED << pc, item, plan, batch, rows, memo, file, passed, raced, failures, crashes >>

Dispatch == DispatcherCommits \/ AppendPending

Reconcile(r) == StartReconcile(r) \/ ReconcilerCommits(r) \/ NoteApplied(r)

Next ==
    \/ EndLease
    \/ \E c \in Callers : Read(c)
    \/ Dispatch \/ DispatcherFails \/ DispatcherDies
    \/ \E r \in Reconcilers : Reconcile(r) \/ ReconcilerFails(r) \/ ReconcilerDies(r)

Spec == Init /\ [][Next]_vars

\* Somebody who drives the run reconciles a ledger with pending events (the
\* planner ranks it first), and the database comes back.
FairSpec == Spec /\ \A r \in Reconcilers : WF_vars(Read(r) \/ Reconcile(r))

-----------------------------------------------------------------------------
(* Properties. *)

\* Evidence and a handoff the dispatcher has dealt with are in the database
\* or pending in the ledger, whatever failed when; the one exception is a
\* handoff refused because its lease had ended.
NothingLost ==
    \A i \in passed \ {Finding} :
        \/ rows[i] > 0
        \/ i \in PendingEvents
        \/ i = Handoff /\ memo[i] = "refused"

\* No event is taken for applied that did not reach the database: the run is
\* not called clean on the strength of a failed or refused reconciliation.
AppliedIsRecorded == \A i \in applied : rows[i] > 0

\* However often an item is written -- by the dispatcher, by a reconciler that
\* died before it noted the event, after an exception that hid a commit -- it
\* is in the database once, unless two transactions wrote it at the same time.
RecordedOnce == \A i \in Items \ raced : rows[i] <= 1

\* Evidence that went to the ledger reaches the database.
EvidenceArrives == \A i \in Evidence : i \in ledger ~> rows[i] > 0

=============================================================================
