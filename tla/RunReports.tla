----------------------------- MODULE RunReports -----------------------------
(***************************************************************************)
(* What a run, and a workspace, are reported to be: the listings of          *)
(* storage/orchestration.py that a summary, a brief and a task graph are put *)
(* together from, and the handoffs of storage/repository.py.                *)
(*                                                                         *)
(* A run is [status, highRisk, tasks, edges, findings, approvals, commands,  *)
(* handoffs].  Its tasks are a sequence of [status, leased], those with an   *)
(* active lease leased, edges the pairs << n, m >> where n blocks m.         *)
(* Findings are [severity, open], approvals BOOLEAN, whether they are        *)
(* requested, commands a number; all sequences have the newest first.       *)
(* A handoff is [next, steps, status, closed]: the action its metadata names *)
(* at the top, as a set, and its next steps.                                *)
(* Runs do not change while they are reported; RunFinalization has the races *)
(* of the readiness report.                                                *)
(***************************************************************************)
EXTENDS Listings

CONSTANT PackageLimit \* rows of a kind in a handoff package; 100 in the code

\* The empty text.
Blank == ""

Passing(s, Test(_)) == Those(s, Where(s, Test))

-----------------------------------------------------------------------------
(* Tasks. *)

Ready(run) == Where(run.tasks, LAMBDA t : t.status = "ready")
Done(run) == Where(run.tasks, LAMBDA t : t.status = "done")

\* The ready tasks that wait for another one, with those they wait for.
BlockedTaskReasons(run) ==
    LET blockers == [m \in Ready(run) |-> { n \in DOMAIN run.tasks \ Done(run) : << n, m >> \in run.edges }]
    IN  [m \in { m \in Ready(run) : blockers[m] # {} } |-> blockers[m]]

\* After the sweep of expired leases.
ClaimableTasks(run) ==
    { m \in Ready(run) : ~run.tasks[m].leased
                         /\ \A n \in DOMAIN run.tasks : << n, m >> \in run.edges => n \in Done(run) }

ListTaskGraph(run) == [tasks |-> run.tasks, edges |-> run.edges, blocked |-> BlockedTaskReasons(run)]

-----------------------------------------------------------------------------
(* Readiness. *)

Blocking(finding) == finding.open /\ finding.severity \in {"P0", "P1"}

\* Fault: those a package lists.
ListedBlockers(run) == Where(Take(run.findings, PackageLimit), Blocking)

BlockingFindings(run) == Where(run.findings, Blocking)

PendingApprovals(run) == Where(run.approvals, LAMBDA requested : requested)

ReadinessReport(run) ==
    LET status == CASE BlockingFindings(run) # {} -> "open_findings"
                    [] BlockingFindings(run) = {} /\ run.highRisk /\ PendingApprovals(run) # {}
                         -> "needs_human_approval"
                    [] OTHER -> IF Done(run) = {} \/ run.commands = 0 THEN "nothing_done_or_run"
                                ELSE IF Done(run) # DOMAIN run.tasks THEN "unfinished_tasks"
                                ELSE "ready"
    IN  [status |-> status, tasks |-> Len(run.tasks), done |-> Cardinality(Done(run)),
         commands |-> run.commands, blocking |-> Cardinality(BlockingFindings(run)),
         pending |-> Cardinality(PendingApprovals(run))]

-----------------------------------------------------------------------------
(* Handoffs. *)

\* structured_handoff_next_steps.
NextSteps(steps, action) ==
    LET given == Passing(steps, LAMBDA s : s # Blank)
    IN  IF action = Blank \/ action \in Range(given) THEN given ELSE Append(given, action)

\* The action goes below the metadata's "handoff_template", out of the report's sight.
RecordHandoff(handoffs, steps, action) ==
    << [next |-> {}, steps |-> NextSteps(steps, action), status |-> "open", closed |-> FALSE] >> \o handoffs

\* What finishing a task as "done", "blocked" or "failed" leaves.
FinishHandoff(handoffs, action, final) ==
    << [next |-> {action} \ {Blank}, steps |-> Passing(<< action >>, LAMBDA s : s # Blank),
        status |-> IF final = "blocked" THEN "blocked" ELSE "open", closed |-> FALSE] >> \o handoffs

CloseHandoff(handoffs, n, status) ==
    IF n \in DOMAIN handoffs /\ ~handoffs[n].closed
    THEN [handoffs EXCEPT ![n].status = status, ![n].closed = TRUE] ELSE handoffs

ListHandoffs(handoffs, status, limit) ==
    Take(Passing(handoffs, LAMBDA h : status \in {"any", h.status}), limit)

ExtractNextActions(handoffs) ==
    FlattenSeq([n \in DOMAIN handoffs |-> SetToSeq(handoffs[n].next) \o handoffs[n].steps])

-----------------------------------------------------------------------------
(* Reports. *)

HandoffPackage(run) ==
    [tasks |-> run.tasks, findings |-> Take(run.findings, PackageLimit),
     approvals |-> Take(run.approvals, PackageLimit), commands |-> Min({run.commands, PackageLimit}),
     handoffs |-> ListHandoffs(run.handoffs, "any", PackageLimit), readiness |-> ReadinessReport(run)]

RunSummary(package) ==
    [readiness |-> package.readiness.status, tasks |-> Len(package.tasks),
     completed |-> Where(package.tasks, LAMBDA t : t.status = "done"), commands |-> package.commands,
     findings |-> Where(package.findings, LAMBDA f : f.open),
     pending |-> Where(package.approvals, LAMBDA requested : requested),
     next |-> ExtractNextActions(package.handoffs)]

ListRuns(runs, status, limit) ==
    Take(Passing(runs, LAMBDA r : status \in {"any", r.status}), limit)

\* Tasks, approvals and findings are those of all runs, active or not.
OrchestratorBrief(runs, limit) ==
    LET active == Passing(runs, LAMBDA r : r.status \in {"active", "planned", "verifying", "review", "blocked"})
        Total(Of(_)) == Cardinality(UNION { {n} \X Of(runs[n]) : n \in DOMAIN runs })
    IN  [runs |-> Take(active, limit),
         claimable |-> Min({limit, Total(ClaimableTasks)}),
         pending |-> Total(PendingApprovals),
         findings |-> Total(LAMBDA r : Where(r.findings, LAMBDA f : f.open))]

-----------------------------------------------------------------------------
\* The reports of a run agree with one another: a ready task is claimable,
\* leased or reported to wait; a run that is reported ready has nothing left to
\* claim, to wait for, to resolve or, with a high risk, to approve, in the same
\* summary; what its summary cannot list for its length still counts in its
\* readiness; and the steps of a handoff are told in the next summary, once each,
\* until newer handoffs crowd them out.
SaidAlike(run, steps, action) ==
    LET graph == ListTaskGraph(run)
        summary == RunSummary(HandoffPackage(run))
        brief == OrchestratorBrief(<< run >>, 100)
        told == RunSummary(HandoffPackage([run EXCEPT !.handoffs = RecordHandoff(@, steps, action)])).next
        finished == RunSummary(HandoffPackage([run EXCEPT !.handoffs = FinishHandoff(@, action, "done")])).next
        wanted == { s \in Range(steps) \cup {action} : s # Blank }
    IN  /\ Ready(run) = ClaimableTasks(run) \cup DOMAIN graph.blocked
                        \cup { m \in Ready(run) : run.tasks[m].leased }
        /\ ClaimableTasks(run) \cap DOMAIN graph.blocked = {}
        /\ summary.readiness = "ready" =>
             /\ ClaimableTasks(run) = {} /\ DOMAIN graph.blocked = {}
             /\ Cardinality(summary.completed) = summary.tasks
             /\ \A n \in summary.findings : run.findings[n].severity \notin {"P0", "P1"}
             /\ run.highRisk => summary.pending = {} /\ brief.pending = 0
        /\ (\E n \in DOMAIN run.findings : Blocking(run.findings[n])) =>
             summary.readiness = "open_findings" /\ brief.findings > 0
        /\ brief.claimable = Min({100, Cardinality(ClaimableTasks(run))})
        /\ wanted \subseteq Range(told) /\ ({action} \ {Blank}) \subseteq Range(finished)
        /\ (run.handoffs = << >> /\ IsInjective(Passing(steps, LAMBDA s : s # Blank))) =>
             Len(told) = Cardinality(wanted)
        /\ \A n \in DOMAIN run.handoffs :
             LET once == CloseHandoff(run.handoffs, n, "closed")
             IN  CloseHandoff(once, n, "done") = once
                 /\ Len(ListHandoffs(once, "open", 100)) =
                      Min({100, Cardinality(Where(once, LAMBDA h : ~h.closed /\ h.status # "blocked"))})
=============================================================================
