-------------------------- MODULE RunFinalization --------------------------
(***************************************************************************)
(* When a run is ready, and what is done on the strength of it:             *)
(* get_readiness_report (src/geond/storage/orchestration.py) and the Git    *)
(* finalization that acts on it (finalize_run in src/geond_orchestrator/    *)
(* orchestrator.py, orchestrator_finalize.py).                              *)
(*                                                                         *)
(* The report is put together from one SELECT after another, each with a    *)
(* snapshot of its own, while workers, reviewers and approvers go on.  The  *)
(* ledger file is read after it, and Git runs after that, command by        *)
(* command, with no second look at the run.                                 *)
(*                                                                         *)
(* One run.  Of a task only whether it is done matters, of a finding that   *)
(* it is P0 or P1 and open, of command evidence that there is some.         *)
(***************************************************************************)
EXTENDS Integers, FiniteSets

CONSTANTS
    Tasks, Findings, Approvals,
    HighRisk,  \* is the run's risk level high or critical?
    Finalizers \* processes that finalize the run

ASSUME RiskIsKnown == HighRisk \in BOOLEAN

VARIABLES
    task,      \* "absent", "open" or "done"
    finding,   \* "absent", "open" or "resolved"
    approval,  \* "absent", "requested" or "resolved", whichever way
    evidence,  \* is there a record of command evidence?
    ledger,    \* does the degraded ledger have pending events?
    dirty,     \* does the workspace have changes that are not committed?
    ahead,     \* finalizers whose commit is not pushed yet
    pc,        \* what each finalizer does next
    wants,     \* what it was asked for
    seen,      \* is all it has read so far as readiness demands?
    disturbed  \* history: finalizers since whose start the run fell back

world == << task, finding, approval, evidence, ledger >>
git   == << dirty, ahead >>
vars  == << world, git, pc, wants, seen, disturbed >>

Reading == {"tasks", "evidence", "findings", "approvals", "ledger"}
Running == {"status", "commit", "push", "decide"}
Orders  == {"checkpoint", "commit", "push"}

TypeOK ==
    /\ task \in [Tasks -> {"absent", "open", "done"}]
    /\ finding \in [Findings -> {"absent", "open", "resolved"}]
    /\ approval \in [Approvals -> {"absent", "requested", "resolved"}]
    /\ evidence \in BOOLEAN /\ ledger \in BOOLEAN
    /\ dirty \in BOOLEAN /\ ahead \subseteq Finalizers
    /\ pc \in [Finalizers -> {"idle"} \cup Reading \cup Running]
    /\ wants \in [Finalizers -> Orders]
    /\ seen \in [Finalizers -> BOOLEAN]
    /\ disturbed \subseteq Finalizers

Init ==
    /\ task = [t \in Tasks |-> "absent"]
    /\ finding = [x \in Findings |-> "absent"]
    /\ approval = [a \in Approvals |-> "absent"]
    /\ evidence = FALSE /\ ledger = FALSE
    /\ dirty = FALSE /\ ahead = {}
    /\ pc = [f \in Finalizers |-> "idle"]
    /\ wants = [f \in Finalizers |-> "checkpoint"]
    /\ seen = [f \in Finalizers |-> FALSE]
    /\ disturbed = {}

Goto(f, label) == pc' = [pc EXCEPT ![f] = label]

-----------------------------------------------------------------------------
(* The four things the report looks at. *)

\* Fault: a finished task is enough.
SomeTaskDone == \E t \in Tasks : task[t] = "done"

AllTasksDone ==
    /\ \E t \in Tasks : task[t] = "done"
    /\ \A t \in Tasks : task[t] # "open"

NoBlockingFinding == \A x \in Findings : finding[x] # "open"

NoPendingApproval == ~HighRisk \/ \A a \in Approvals : approval[a] # "requested"

RunReady == AllTasksDone /\ evidence /\ NoBlockingFinding /\ NoPendingApproval

-----------------------------------------------------------------------------
(* The run goes on. *)

Forward == UNCHANGED << pc, wants, seen, disturbed, ahead >>

\* A step back: what a finalizer has read may not hold any more.
Back ==
    /\ disturbed' = disturbed \cup {f \in Finalizers : pc[f] # "idle"}
    /\ UNCHANGED << pc, wants, seen, git >>

CreateTask(t) ==
    /\ task[t] = "absent"
    /\ task' = [task EXCEPT ![t] = "open"]
    /\ Back
    /\ UNCHANGED << finding, approval, evidence, ledger >>

\* The worker has changed files.
FinishTask(t) ==
    /\ task[t] = "open"
    /\ task' = [task EXCEPT ![t] = "done"]
    /\ dirty' = TRUE
    /\ Forward
    /\ UNCHANGED << finding, approval, evidence, ledger >>

\* update_task_state takes any status to any other.
ReopenTask(t) ==
    /\ task[t] = "done"
    /\ task' = [task EXCEPT ![t] = "open"]
    /\ Back
    /\ UNCHANGED << finding, approval, evidence, ledger >>

RecordEvidence ==
    /\ evidence' = TRUE
    /\ Forward
    /\ UNCHANGED << task, finding, approval, ledger, dirty >>

RecordFinding(x) ==
    /\ finding[x] = "absent"
    /\ finding' = [finding EXCEPT ![x] = "open"]
    /\ Back
    /\ UNCHANGED << task, approval, evidence, ledger >>

ResolveFinding(x) ==
    /\ finding[x] = "open"
    /\ finding' = [finding EXCEPT ![x] = "resolved"]
    /\ Forward
    /\ UNCHANGED << task, approval, evidence, ledger, dirty >>

RequestApproval(a) ==
    /\ approval[a] = "absent"
    /\ approval' = [approval EXCEPT ![a] = "requested"]
    /\ Back
    /\ UNCHANGED << task, finding, evidence, ledger >>

\* Approved or denied, once or again: the report asks only whether it is open.
ResolveApproval(a) ==
    /\ approval[a] # "absent"
    /\ approval' = [approval EXCEPT ![a] = "resolved"]
    /\ Forward
    /\ UNCHANGED << task, finding, evidence, ledger, dirty >>

LedgerFills ==
    /\ ledger' = TRUE
    /\ Back
    /\ UNCHANGED << task, finding, approval, evidence >>

LedgerClears ==
    /\ ledger' = FALSE
    /\ Forward
    /\ UNCHANGED << task, finding, approval, evidence, dirty >>

-----------------------------------------------------------------------------
(* finalize_run. *)

Start(f) ==
    /\ pc[f] = "idle"
    /\ \E order \in Orders : wants' = [wants EXCEPT ![f] = order]
    /\ Goto(f, "tasks")
    /\ seen' = [seen EXCEPT ![f] = TRUE]
    /\ disturbed' = disturbed \ {f}
    /\ UNCHANGED << world, git >>

\* One SELECT of the report.
Select(f, part, good, next) ==
    /\ pc[f] = part
    /\ seen' = [seen EXCEPT ![f] = @ /\ good]
    /\ Goto(f, next)
    /\ UNCHANGED << world, git, wants, disturbed >>

\* Fault: any task done will do.
ReadTasksAnyDone(f) == Select(f, "tasks", SomeTaskDone, "evidence")

ReadTasks(f)     == Select(f, "tasks", AllTasksDone, "evidence")
ReadEvidence(f)  == Select(f, "evidence", evidence, "findings")
ReadFindings(f)  == Select(f, "findings", NoBlockingFinding, "approvals")
ReadApprovals(f) == Select(f, "approvals", NoPendingApproval, "ledger")

\* validate_git_finalize_request: only what changes something must wait.
Validate(f) ==
    /\ pc[f] = "ledger"
    /\ \/ /\ wants[f] = "checkpoint" \/ (seen[f] /\ ~ledger)
          /\ Goto(f, "status")
       \/ /\ wants[f] # "checkpoint" /\ ~(seen[f] /\ ~ledger)
          /\ Goto(f, "idle")
    /\ UNCHANGED << world, git, wants, seen, disturbed >>

\* A command has run, and every command is recorded as evidence.
Ran(f, next) ==
    /\ Goto(f, next)
    /\ evidence' = TRUE
    /\ UNCHANGED << task, finding, approval, ledger, wants, seen, disturbed >>

\* git status, rev-parse and branch.
GitStatus(f) ==
    /\ pc[f] = "status"
    /\ Ran(f, IF wants[f] = "checkpoint" THEN "decide" ELSE "commit")
    /\ UNCHANGED git

\* git add and git commit, which fails when nothing is staged.
GitCommit(f) ==
    /\ pc[f] = "commit"
    /\ dirty
    /\ dirty' = FALSE
    /\ ahead' = ahead \cup {f}
    /\ Ran(f, IF wants[f] = "push" THEN "push" ELSE "decide")

GitPush(f) ==
    /\ pc[f] = "push"
    /\ ahead' = {}
    /\ Ran(f, "decide")
    /\ UNCHANGED dirty

\* Fault: a failing push does not stop the plan.
GitFailsOn(f) ==
    /\ \/ pc[f] \in {"status", "commit"} /\ Ran(f, "idle")
       \/ pc[f] = "push" /\ Ran(f, "decide")
    /\ UNCHANGED git

\* A command fails: the plan stops there, and what it did stays.
GitFails(f) ==
    /\ pc[f] \in {"status", "commit", "push"}
    /\ Ran(f, "idle")
    /\ UNCHANGED git

\* record_decision.
Decide(f) ==
    /\ pc[f] = "decide"
    /\ Goto(f, "idle")
    /\ UNCHANGED << world, git, wants, seen, disturbed >>

Finalize(f) ==
    \/ Start(f)
    \/ ReadTasks(f) \/ ReadEvidence(f) \/ ReadFindings(f) \/ ReadApprovals(f) \/ Validate(f)
    \/ GitStatus(f) \/ GitCommit(f) \/ GitPush(f) \/ Decide(f)

Next ==
    \/ \E t \in Tasks : CreateTask(t) \/ FinishTask(t) \/ ReopenTask(t)
    \/ \E x \in Findings : RecordFinding(x) \/ ResolveFinding(x)
    \/ \E a \in Approvals : RequestApproval(a) \/ ResolveApproval(a)
    \/ RecordEvidence \/ LedgerFills \/ LedgerClears
    \/ \E f \in Finalizers : Finalize(f) \/ GitFails(f)

Spec == Init /\ [][Next]_vars
-----------------------------------------------------------------------------
(* Properties. *)

\* What is committed is the work of a ready run with nothing left in its
\* ledger, unless the run fell back (a task created or reopened, a finding, a
\* request for approval, a failed write) after the finalization began: that
\* the report is not one snapshot does no harm as long as work goes forward.
CommitsReadyRun ==
    [][\A f \in Finalizers \ disturbed :
          pc[f] = "commit" /\ pc'[f] \in {"push", "decide"} => RunReady /\ ~ledger]_vars

\* A finalization that was to push and reaches its decision has pushed what it
\* committed.
DecidesWhenPushed ==
    \A f \in Finalizers : pc[f] = "decide" /\ wants[f] = "push" => f \notin ahead
=============================================================================
