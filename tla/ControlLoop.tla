---------------------------- MODULE ControlLoop ----------------------------
(***************************************************************************)
(* Agent mode, run_agent_mode in src/geond_orchestrator/                    *)
(* orchestrator_control.py: step by step it reads a plan of the run         *)
(* (orchestrator_planner.py), has a task graph proposed                     *)
(* (orchestrator_task_planner.py, orchestrator_llm_planner.py) and reviewed *)
(* (orchestrator_graph_review.py), picks one action and carries it out, and *)
(* stops at the first that is not its own to take or does not succeed.      *)
(*                                                                         *)
(* One run, several controllers, and the people and workers around them.    *)
(* What readiness is made of is in RunFinalization, what a dispatch does to *)
(* a task in SpawnDispatch, how a graph is written in TaskGraph; here a     *)
(* plan is one look at the run, and a dispatch claims and ends.             *)
(***************************************************************************)
EXTENDS Integers, FiniteSets, Sequences, TLC

CONSTANTS
    Controllers,
    Keys,      \* task keys
    Proposals, \* what the LLM planner may come back with
    HighRisk,  \* is the run's risk level high or critical?
    MaxSteps,  \* --max-steps of a controller's calls
    MaxIncidents \* bound: approvals, findings and ledger entries out of the blue

\* A proposal: its tasks with what each waits for, and whether each of them
\* says what evidence it takes.
ValidTaskGraph(p) ==
    /\ DOMAIN p.needs \subseteq Keys
    /\ \A k \in DOMAIN p.needs : p.needs[k] \subseteq DOMAIN p.needs
    /\ p.evidence \in BOOLEAN

\* Tasks that wait for each other in a circle.
Circular(edges) ==
    \E S \in SUBSET DOMAIN edges : S # {} /\ \A k \in S : edges[k] \cap S # {}

\* What an answer that is refused would contain is of no interest.
ASSUME ProposalsAreValid == \A p \in Proposals : ValidTaskGraph(p)

\* The tasks of the deterministic template: a chain of three or four, without
\* any word about evidence.
CONSTANT Template
TemplateTasks == {Template}
ASSUME TemplateIsAProposal ==
    ValidTaskGraph(Template) /\ ~Template.evidence /\ ~Circular(Template.needs)

ASSUME Bounds == HighRisk \in BOOLEAN /\ MaxSteps \in [Controllers -> Nat \ {0}] /\ MaxIncidents \in Nat

VARIABLES
    approval,    \* is an approval requested and not resolved?
    finding,     \* is a P0 or P1 finding open?
    ledger,      \* "empty", or what is pending in the degraded ledger
    evidence,    \* is there a record of command evidence?
    placeholder, \* the planning task: "ready", "claimed", "blocked" or "done"
    task,        \* tasks of the graph, "absent" before it is there
    needs,       \* edges of the graph
    incidents,   \* bound
    stage, call, \* where each controller is, and in which call
    plan,        \* the actions it has read
    proposal,    \* the task graph proposed to it
    appeared,    \* history: blockers raised since it read its plan
    written      \* history: the edges of the graphs written, whole or in part

facts == << approval, finding, ledger, evidence >>
graph == << placeholder, task, needs >>
loopVars  == << facts, graph, incidents, stage, call, plan, proposal, appeared, written >>

NoProposal == [needs |-> [k \in {} |-> {}], evidence |-> FALSE,
               planner |-> "none", review |-> "none"]
NoCall == [planner |-> "template", allowCreate |-> FALSE, allowLlm |-> FALSE,
           step |-> 0, claimed |-> {}]

LoopInit ==
    /\ approval = FALSE /\ finding = FALSE /\ ledger = "empty" /\ evidence = FALSE
    /\ placeholder = "ready"
    /\ task = [k \in Keys |-> "absent"]
    /\ needs = [k \in Keys |-> {}]
    /\ incidents = 0
    /\ stage = [c \in Controllers |-> "idle"]
    /\ call = [c \in Controllers |-> NoCall]
    /\ plan = [c \in Controllers |-> {}]
    /\ proposal = [c \in Controllers |-> NoProposal]
    /\ appeared = [c \in Controllers |-> {}]
    /\ written = {}

-----------------------------------------------------------------------------
(* What a plan says. *)

Graph == {k \in Keys : task[k] # "absent"}

\* get_claimable_tasks: the placeholder is one of them until it is closed.
Claimable == {k \in Keys : task[k] = "ready" /\ \A n \in needs[k] : task[n] = "done"}

Ready == /\ placeholder = "done"
         /\ \A k \in Graph : task[k] = "done"
         /\ evidence /\ ~finding /\ ~(HighRisk /\ approval)

Blockers == (IF ledger # "empty" THEN {"ledger_reconcile"} ELSE {})
            \cup (IF HighRisk /\ approval THEN {"resolve_approval"} ELSE {})
            \cup (IF finding THEN {"resolve_finding"} ELSE {})

DispatchActions == {"dispatch_claim", "dispatch_spawn"}

\* Fault: the blockers are looked at last.
BuildRunPlanOfTasks ==
    IF Ready THEN {"finalize_ready_run"}
    ELSE IF Claimable # {} \/ placeholder = "ready" THEN DispatchActions
    ELSE IF Blockers # {} THEN Blockers
    ELSE {"create_task_needed"}

\* Only a run without blockers is dispatched or finalized.
BuildRunPlan ==
    IF Blockers # {} THEN Blockers
    ELSE IF Ready THEN {"finalize_ready_run"}
    ELSE IF Claimable # {} \/ placeholder = "ready" THEN DispatchActions
    ELSE {"create_task_needed"}

Preference == << "ledger_reconcile", "resolve_approval", "resolve_finding",
                 "materialize_task_graph", "dispatch_spawn", "finalize_ready_run",
                 "create_task_needed", "dispatch_claim" >>

SelectAction(actions) ==
    Preference[CHOOSE i \in DOMAIN Preference :
                 /\ Preference[i] \in actions
                 /\ \A j \in 1 .. i - 1 : Preference[j] \notin actions]

AutoExecutable == {"ledger_reconcile", "materialize_task_graph", "dispatch_spawn",
                   "finalize_ready_run"}

-----------------------------------------------------------------------------
(* Proposals and their review. *)

\* Nothing but the planning placeholder, and that still to be done.
Eligible == Graph = {} /\ placeholder = "ready"

\* Fault: only a task that waits for itself is seen.
WaitsForItself(p) == \E k \in DOMAIN p.needs : k \in p.needs[k]

\* find_dependency_cycle looks for one depth first.
HasCycle(p) == Circular(p.needs)

\* Fault: warnings do not count.
ReviewDecisionOfErrors(p) == IF ~Eligible THEN "blocked" ELSE "approved"

ReviewDecision(p) ==
    IF HasCycle(p) \/ ~Eligible THEN "blocked"
    ELSE IF ~p.evidence THEN "needs_revision"
    ELSE "approved"

ReviewBlocks(p) == p.planner = "llm" /\ p.review # "approved"

-----------------------------------------------------------------------------
(* A call, step by step. *)

Goto(c, label) == stage' = [stage EXCEPT ![c] = label]

\* The call is over, whatever its status; the next one starts from nothing.
EndCall(c) ==
    /\ Goto(c, "idle")
    /\ call' = [call EXCEPT ![c] = NoCall]
    /\ plan' = [plan EXCEPT ![c] = {}]
    /\ proposal' = [proposal EXCEPT ![c] = NoProposal]

\* A step that succeeded is followed by another while there are any left.
StepDone(c) ==
    IF call[c].step + 1 = MaxSteps[c] THEN EndCall(c)
    ELSE /\ Goto(c, "plan")
         /\ call' = [call EXCEPT ![c].step = @ + 1, ![c].claimed = {}]
         /\ proposal' = [proposal EXCEPT ![c] = NoProposal]
         /\ UNCHANGED plan

\* geond-orchestrator agent RUN --execute with the switches of the command line
\* that matter; "preview" is the LLM planner without --execute-planner.
RunAgentMode(c) ==
    /\ stage[c] = "idle"
    /\ \E planner \in {"template", "llm", "preview"}, allowCreate, allowLlm \in BOOLEAN :
         /\ (allowLlm => planner = "llm") /\ (allowCreate => planner # "preview")
         /\ call' = [call EXCEPT ![c] = [planner |-> planner, allowCreate |-> allowCreate,
                                      allowLlm |-> allowLlm, step |-> 0, claimed |-> {}]]
    /\ Goto(c, "plan")
    /\ UNCHANGED << facts, graph, incidents, plan, proposal >>

DoctorRun(c) ==
    /\ stage[c] = "plan"
    /\ plan' = [plan EXCEPT ![c] = BuildRunPlan]
    /\ Goto(c, "propose")
    /\ UNCHANGED << facts, graph, incidents, call, proposal >>

\* Without --allow-llm-planner the LLM is not asked, and the call ends.
PlannerNotAllowed(c) ==
    /\ stage[c] = "propose" /\ call[c].planner = "llm" /\ ~call[c].allowLlm
    /\ EndCall(c)
    /\ UNCHANGED << facts, graph, incidents >>

\* It times out, fails, or answers what does not validate.
PlannerFails(c) ==
    /\ stage[c] = "propose" /\ call[c].planner = "llm" /\ call[c].allowLlm
    /\ EndCall(c)
    /\ UNCHANGED << facts, graph, incidents >>

\* The proposal with its review, and the action added to the plan if the run
\* is still eligible; a planner that only previews proposes nothing.
ProposeTaskGraph(c) ==
    /\ stage[c] = "propose"
    /\ call[c].planner = "llm" => call[c].allowLlm
    /\ \E p \in IF call[c].planner = "llm" THEN Proposals ELSE TemplateTasks :
         IF call[c].planner # "preview" /\ Eligible
         THEN /\ plan' = [plan EXCEPT ![c] = @ \cup {"materialize_task_graph"}]
              /\ proposal' = [proposal EXCEPT ![c] =
                   [needs |-> p.needs, evidence |-> p.evidence,
                    planner |-> call[c].planner, review |-> ReviewDecision(p)]]
         ELSE UNCHANGED << plan, proposal >>
    /\ Goto(c, "act")
    /\ UNCHANGED << facts, graph, incidents, call >>

Selected(c) == SelectAction(plan[c])

\* Approvals, findings and missing tasks are for people; so is a graph without
\* --allow-task-graph-create or with a review that does not approve it.
HumanActionRequired(c) ==
    /\ stage[c] = "act"
    /\ \/ Selected(c) \notin AutoExecutable
       \/ /\ Selected(c) = "materialize_task_graph"
          /\ ~call[c].allowCreate \/ ReviewBlocks(proposal[c])
    /\ EndCall(c)
    /\ UNCHANGED << facts, graph, incidents >>

\* All events applied, or some of them: the step is partial and ends the call.
Reconcile(c) ==
    /\ stage[c] = "act" /\ Selected(c) = "ledger_reconcile"
    /\ ledger' = "empty" /\ evidence' = (evidence \/ ledger = "evidence")
    /\ StepDone(c)
    /\ UNCHANGED << approval, finding, graph, incidents >>

ReconcilePartially(c) ==
    /\ stage[c] = "act" /\ Selected(c) = "ledger_reconcile" /\ ledger # "empty"
    /\ EndCall(c)
    /\ UNCHANGED << facts, graph, incidents >>

\* A dry run with a manifest: ready, or "not_ready" and the call ends.
Finalize(c) ==
    /\ stage[c] = "act" /\ Selected(c) = "finalize_ready_run"
    /\ IF Ready THEN StepDone(c) ELSE EndCall(c)
    /\ UNCHANGED << facts, graph, incidents >>

\* apply_task_graph_payload looks at the run once more; a graph that is not
\* needed any more is skipped, which does not end the call.
CheckTaskGraph(c) ==
    /\ stage[c] = "act" /\ Selected(c) = "materialize_task_graph"
    /\ call[c].allowCreate /\ ~ReviewBlocks(proposal[c])
    /\ IF Eligible THEN Goto(c, "create") /\ UNCHANGED << call, plan, proposal >>
       ELSE StepDone(c)
    /\ UNCHANGED << facts, graph, incidents >>

\* create_task_graph: tasks with keys of this graph that are there already are
\* taken over.
Materialize(keys, edges) ==
    /\ task' = [k \in Keys |->
                  IF k \in keys /\ task[k] = "absent" THEN "ready" ELSE task[k]]
    /\ needs' = [k \in Keys |-> IF k \in DOMAIN edges THEN needs[k] \cup edges[k] ELSE needs[k]]
    /\ UNCHANGED placeholder

CreateTaskGraph(c) ==
    /\ stage[c] = "create"
    /\ Materialize(DOMAIN proposal[c].needs, proposal[c].needs)
    /\ Goto(c, "close")
    /\ UNCHANGED << facts, incidents, call, plan, proposal >>

\* The placeholder is closed by a call of its own, whoever has claimed it.
ClosePlaceholder(c) ==
    /\ stage[c] = "close"
    /\ placeholder' = "done"
    /\ StepDone(c)
    /\ UNCHANGED << facts, task, needs, incidents >>

\* The controller dies: tasks are committed one by one, and then the edges.
DiesCreating(c) ==
    /\ stage[c] \in {"create", "close"}
    /\ incidents < MaxIncidents /\ incidents' = incidents + 1
    /\ LET all == DOMAIN proposal[c].needs
       IN \/ \E some \in SUBSET all : stage[c] = "create" /\ Materialize(some, NoProposal.needs)
          \/ \E some \in SUBSET all : /\ stage[c] = "create"
                                     /\ Materialize(all, [k \in some |-> proposal[c].needs[k]])
          \/ stage[c] = "close" /\ UNCHANGED graph
    /\ EndCall(c)
    /\ UNCHANGED facts

\* dispatch_spawn chooses from a status of its own; nothing claimable, or a
\* placeholder that nobody planned, or one task or several.
Dispatch(c) ==
    /\ stage[c] = "act" /\ Selected(c) = "dispatch_spawn"
    /\ \/ /\ Claimable = {} /\ placeholder # "ready"
          /\ EndCall(c)
          /\ UNCHANGED graph
       \/ \E S \in (SUBSET Claimable) \ {{}} :
             /\ task' = [k \in Keys |-> IF k \in S THEN "claimed" ELSE task[k]]
             /\ call' = [call EXCEPT ![c].claimed = S]
             /\ Goto(c, "working")
             /\ UNCHANGED << placeholder, needs, plan, proposal >>
       \/ /\ placeholder = "ready"
          /\ placeholder' = "claimed"
          /\ Goto(c, "working")
          /\ UNCHANGED << task, needs, call, plan, proposal >>
    /\ UNCHANGED << facts, incidents >>

Work(c, status) ==
    /\ stage[c] = "working"
    /\ task' = [k \in Keys |-> IF k \in call[c].claimed THEN status ELSE task[k]]
    /\ placeholder' = IF call[c].claimed = {} THEN status ELSE placeholder
    /\ UNCHANGED needs

\* Every worker done, and the commands it ran recorded, as its prompt asks.
WorkDone(c) ==
    /\ Work(c, "done")
    /\ evidence' = TRUE
    /\ StepDone(c)
    /\ UNCHANGED << approval, finding, ledger, incidents >>

\* A worker blocked or rejected by its reviewer, or its evidence in the ledger:
\* the step is blocked, partial or degraded and ends the call.
WorkBlocked(c) ==
    /\ incidents < MaxIncidents /\ incidents' = incidents + 1
    /\ \/ Work(c, "blocked") /\ finding' \in {finding, TRUE} /\ UNCHANGED << ledger, evidence >>
       \/ Work(c, "done") /\ ledger' = "evidence" /\ UNCHANGED << finding, evidence >>
    /\ EndCall(c)
    /\ UNCHANGED approval

-----------------------------------------------------------------------------
(* The people around it. *)

Around == UNCHANGED << graph, stage, call, plan, proposal >>

\* A reviewer, a worker that asks, a worker that could not write.
Incident ==
    /\ incidents < MaxIncidents /\ incidents' = incidents + 1
    /\ \/ ~approval /\ approval' = TRUE /\ UNCHANGED << finding, ledger >>
       \/ ~finding /\ finding' = TRUE /\ UNCHANGED << approval, ledger >>
       \/ ledger = "empty" /\ ledger' = "other" /\ UNCHANGED << approval, finding >>
    /\ Around /\ UNCHANGED evidence

Resolve ==
    /\ approval \/ finding
    /\ approval' = FALSE /\ finding' = FALSE
    /\ Around /\ UNCHANGED << ledger, evidence, incidents >>

\* A task that a worker gave up is taken up again.
Reopen(k) ==
    /\ task[k] = "blocked"
    /\ task' = [task EXCEPT ![k] = "ready"]
    /\ UNCHANGED << facts, placeholder, needs, incidents, stage, call, plan, proposal >>

ReopenPlaceholder ==
    /\ placeholder = "blocked"
    /\ placeholder' = "ready"
    /\ UNCHANGED << facts, task, needs, incidents, stage, call, plan, proposal >>

\* A worker in claim mode takes a task and finishes it.
ClaimMode(k) ==
    /\ k \in Claimable
    /\ task' = [task EXCEPT ![k] = "done"]
    /\ evidence' = TRUE
    /\ UNCHANGED << approval, finding, ledger, placeholder, needs, incidents,
                    stage, call, plan, proposal >>

Step(c) ==
    \/ DoctorRun(c) \/ PlannerNotAllowed(c) \/ PlannerFails(c) \/ ProposeTaskGraph(c)
    \/ HumanActionRequired(c) \/ Reconcile(c) \/ ReconcilePartially(c) \/ Finalize(c)
    \/ CheckTaskGraph(c) \/ CreateTaskGraph(c)
    \/ ClosePlaceholder(c) \/ DiesCreating(c) \/ Dispatch(c) \/ WorkDone(c) \/ WorkBlocked(c)

\* What has come up since a controller read its plan is noted beside it, and
\* the graph of a controller that went about writing it.
Watch ==
    /\ appeared' = [c \in Controllers |->
                      IF stage[c] = "plan" \/ stage'[c] \in {"idle", "plan"} THEN {}
                      ELSE appeared[c] \cup (Blockers' \ Blockers)]
    /\ written' = written \cup
                     {proposal[c].needs : c \in {d \in Controllers : stage[d] = "create" /\ stage'[d] # "create"}}

LoopNext ==
  /\ \/ \E c \in Controllers : RunAgentMode(c) \/ Step(c)
     \/ \E k \in Keys : Reopen(k) \/ ClaimMode(k)
     \/ Incident \/ Resolve \/ ReopenPlaceholder
  /\ Watch

LoopSpec == LoopInit /\ [][LoopNext]_loopVars

\* The steps of a call are taken; somebody calls again, with a template and
\* --allow-task-graph-create; people resolve what is theirs and reopen what
\* was given up; a reconcile that is tried again and again succeeds.
FairLoopSpec ==
    /\ LoopSpec
    /\ \A c \in Controllers : WF_stage(Step(c))
    /\ SF_stage(\E c \in Controllers :
                   RunAgentMode(c) /\ call'[c].planner = "template" /\ call'[c].allowCreate)
    /\ SF_stage(\E c \in Controllers : Reconcile(c))
    /\ WF_facts(Resolve)
    /\ WF_graph(ReopenPlaceholder \/ \E k \in Keys : Reopen(k))

-----------------------------------------------------------------------------

\* Workers are started, and a run is finalized, only over a plan that saw none
\* of the blockers that stand: what stands all the same came up after the
\* controller read it, in this very step of its call.
NoDispatchOverBlocker ==
    [][\A c \in Controllers :
          stage[c] = "act" /\ stage'[c] # "act"
            /\ Selected(c) \in {"dispatch_spawn", "finalize_ready_run"}
             => Blockers \subseteq appeared[c]]_loopVars

\* A graph of the LLM goes in only if it has been reviewed without a word
\* against it; no graph with a circle of its own is written by any controller,
\* whole or in part; and the edges of the run are those of the graphs written.
\* Each is reviewed by itself: a circle takes the edges of two graphs that
\* contradict each other, written by controllers that did not see each other.
ReviewedGraph ==
    /\ \A c \in Controllers :
          stage[c] = "create" /\ proposal[c].planner = "llm"
             => proposal[c].review = "approved" /\ proposal[c].evidence
    /\ \A w \in written : ~Circular(w)
    /\ \A k \in Keys : \A n \in needs[k] : \E w \in written : k \in DOMAIN w /\ n \in w[k]

\* A run whose agent mode is called again and again gets ready to finalize,
\* and stays so, unless two graphs without a circle closed one between them.
RunGetsReady == <>[]Ready \/ <>[](Circular(needs) /\ \A w \in written : ~Circular(w))
=============================================================================
