--------------------------- MODULE SpawnDispatch ---------------------------
(***************************************************************************)
(* Spawned workers: dispatch_spawn and dispatch_spawn_many                  *)
(* (src/geond_orchestrator/orchestrator.py), the worker processes they      *)
(* start (orchestrator_spawn.py) and the senior review of a Copilot worker  *)
(* (orchestrator_worker_review.py).                                         *)
(*                                                                         *)
(* A dispatch picks claimable tasks from a status it has read, prepares     *)
(* and claims one after another, runs the claimed ones in a pool, and turns *)
(* each result into evidence, a finding and a handoff as it comes in.  A    *)
(* claim is good for two hours from the claim, whatever the worker is       *)
(* doing; every call of the database may raise, with or without effect; the *)
(* dispatcher itself may die.  Tasks, leases and handoffs are those of      *)
(* TaskLeases, cut down to who holds the active lease.                      *)
(***************************************************************************)
EXTENDS Integers, FiniteSets

CONSTANTS
    Dispatchers, Tasks,
    MaxWorkers,  \* --max-workers of every dispatch
    MaxFaults,   \* bound: lost claims and ledger entries at any one time
    Nobody, Other \* no lease; an agent that claims by hand

ASSUME HoldersDiffer == {Nobody, Other} \cap Dispatchers = {} /\ Nobody # Other
ASSUME MaxWorkersIsPositive == MaxWorkers \in Nat \ {0}

VARIABLES
    mode,      \* "none" before the call, "one" or "many", "returned", "died"
    inv,       \* the invocation of a dispatcher for a task
    holder,    \* whose lease on a task is active
    task,      \* "open" (ready or claimed), "done" or "blocked"
    handoff,   \* what the lease of an invocation was finished with
    ledger,    \* pending events <<d, t, type, content>>
    findings,  \* invocations with an open finding in the database
    report     \* the execution status a dispatcher returned

vars == << mode, inv, holder, task, handoff, ledger, findings, report >>

Completing == {"finding", "evidence", "handing"}
Stages == {"out", "selected", "prepared", "claimed", "planning", "plan_review",
           "implementing", "implementation_review", "exited", "over"} \cup Completing
Items == [status : {"ok", "degraded", "error"},
          execution : {"none", "completed", "blocked", "failed"}]

\* An invocation.  result is what there is to be read of its worker's work,
\* "none" for a run that failed or a file the schema does not accept; review
\* is the decision in the metadata of the run; approved, a history of what the
\* senior reviewer let pass; lost, that its claim raised.
Invocations == [stage : Stages, agent : {"codex", "copilot"},
                result : {"none", "done", "blocked"},
                review : {"none", "approved", "rejected"},
                approved : SUBSET {"plan", "implementation"},
                evidence : {"none", "ok", "pending", "refused"},
                lost : BOOLEAN, item : Items]

NoItem == [status |-> "error", execution |-> "none"]
NewInvocation == [stage |-> "out", agent |-> "codex", result |-> "none",
                  review |-> "none", approved |-> {},
                  evidence |-> "none", lost |-> FALSE, item |-> NoItem]

TypeOK ==
    /\ mode \in [Dispatchers -> {"none", "one", "many", "returned", "died"}]
    /\ inv \in [Dispatchers -> [Tasks -> Invocations]]
    /\ holder \in [Tasks -> Dispatchers \cup {Nobody, Other}]
    /\ task \in [Tasks -> {"open", "done", "blocked"}]
    /\ handoff \in [Dispatchers -> [Tasks -> {"none", "done", "blocked"}]]
    /\ ledger \subseteq Dispatchers \X Tasks
                        \X {"handoff", "review_finding", "command_evidence"}
                        \X {"done", "blocked", "any"}
    /\ findings \subseteq Dispatchers \X Tasks
    /\ report \in [Dispatchers -> {"none", "completed", "partial", "blocked", "failed"}]

Init ==
    /\ mode = [d \in Dispatchers |-> "none"]
    /\ inv = [d \in Dispatchers |-> [t \in Tasks |-> NewInvocation]]
    /\ holder = [t \in Tasks |-> Nobody]
    /\ task = [t \in Tasks |-> "open"]
    /\ handoff = [d \in Dispatchers |-> [t \in Tasks |-> "none"]]
    /\ ledger = {} /\ findings = {}
    /\ report = [d \in Dispatchers |-> "none"]

\* A call of the database may raise.
Raises == Cardinality(ledger)
          + Cardinality({p \in Dispatchers \X Tasks : inv[p[1]][p[2]].lost}) < MaxFaults

store == << holder, task, handoff, ledger, findings >>

Alive(d) == mode[d] \in {"one", "many"}
Stage(d, t) == inv[d][t].stage
Selected(d) == {t \in Tasks : Stage(d, t) # "out"}

\* The invocation becomes another one.
Step(d, t, new) == inv' = [inv EXCEPT ![d][t] = new]

Moved(d, t, stage) == [inv[d][t] EXCEPT !.stage = stage]

Item(status, execution) == [status |-> status, execution |-> execution]

\* The invocation is over with an item of the report: what the dispatcher
\* knew of it besides is gone.
Over(i, item) == [i EXCEPT !.stage = "over", !.item = item, !.result = "none", !.evidence = "none"]

Failed == Item("error", "failed")

-----------------------------------------------------------------------------
(* Selection. *)

Claimable(t) == task[t] = "open" /\ holder[t] = Nobody

Select(d, chosen) ==
    inv' = [inv EXCEPT ![d] = [t \in Tasks |->
               IF t \in chosen THEN Moved(d, t, "selected") ELSE @[t]]]

\* Nothing to claim, or an agent or a workspace that cannot be used.
Refuse(d) ==
    /\ \/ (\E t \in Tasks : ~Claimable(t)) /\ report' = [report EXCEPT ![d] = "blocked"]
       \/ report' = [report EXCEPT ![d] = "failed"]
    /\ mode' = [mode EXCEPT ![d] = "returned"]
    /\ UNCHANGED inv

\* One task: the one asked for, or the first that is claimable.
DispatchSpawn(d) ==
    /\ mode[d] = "none"
    /\ \/ \E t \in Tasks : /\ Claimable(t)
                           /\ Select(d, {t})
                           /\ mode' = [mode EXCEPT ![d] = "one"]
                           /\ UNCHANGED report
       \/ Refuse(d)
    /\ UNCHANGED store

\* Several: the ones asked for, all of them or the call is refused, however
\* many workers there are to run them; or as many as there are workers.
DispatchSpawnMany(d) ==
    /\ mode[d] = "none"
    /\ \/ \E chosen \in (SUBSET Tasks) \ {{}} :
             /\ \A t \in chosen : Claimable(t)
             /\ Select(d, chosen)
             /\ mode' = [mode EXCEPT ![d] = "many"]
             /\ UNCHANGED report
       \/ Refuse(d)
    /\ UNCHANGED store

-----------------------------------------------------------------------------
(* Preparation and claims, task by task, before any worker starts. *)

\* An agent that reviews itself (Codex, Claude), a Copilot with a worktree of
\* its own, or neither: no binary, no Git repository, no worktree.
Preparations == {"codex", "copilot", "absent"}

\* A prompt bundle for each, unless there is no binary or no worktree for it.
Prepare(d) ==
    /\ Alive(d)
    /\ \E t \in Tasks : Stage(d, t) = "selected"
    /\ \E a \in [Selected(d) -> Preparations] :
         inv' = [inv EXCEPT ![d] = [t \in Tasks |->
                   CASE t \notin Selected(d) -> @[t]
                     [] t \in Selected(d) /\ a[t] = "absent" ->
                            Over(@[t], Failed)
                     [] OTHER -> [@[t] EXCEPT !.stage = "prepared", !.agent = a[t]]]]
    /\ UNCHANGED << mode, store, report >>

\* An exception in register_worker_session or claim_task: the claim may have
\* been committed all the same.  dispatch_spawn lets it through.
ClaimRaises(d, t) ==
    /\ Alive(d) /\ Stage(d, t) = "prepared" /\ Raises
    /\ \/ UNCHANGED holder
       \/ Claimable(t) /\ holder' = [holder EXCEPT ![t] = d]
    /\ Step(d, t, [Over(inv[d][t], Failed) EXCEPT !.lost = TRUE])
    /\ mode' = [mode EXCEPT ![d] = IF mode[d] = "one" THEN "died" ELSE "many"]
    /\ UNCHANGED << task, handoff, ledger, findings, report >>

RegisterAndClaim(d, t) ==
    /\ Alive(d) /\ Stage(d, t) = "prepared"
    /\ IF Claimable(t)
       THEN holder' = [holder EXCEPT ![t] = d] /\ Step(d, t, Moved(d, t, "claimed"))
       ELSE UNCHANGED holder /\ Step(d, t, Over(inv[d][t], Failed))
    /\ UNCHANGED << mode, task, handoff, ledger, findings, report >>

-----------------------------------------------------------------------------
(* The workers, in a pool of at most MaxWorkers. *)

Worked == {"planning", "plan_review", "implementing", "implementation_review"}

Launch(d, t) ==
    /\ Alive(d) /\ Stage(d, t) = "claimed"
    /\ \A u \in Tasks : Stage(d, u) \notin {"selected", "prepared"}
    /\ Cardinality({u \in Tasks : Stage(d, u) \in Worked}) < MaxWorkers
    /\ Step(d, t, Moved(d, t, IF inv[d][t].agent = "copilot" THEN "planning" ELSE "implementing"))
    /\ UNCHANGED << mode, store, report >>

\* The result the review writes over the worker's, in a run that reads as one
\* that went well.
BlockedResult(d, t) ==
    [inv[d][t] EXCEPT !.stage = "exited", !.result = "blocked", !.review = "rejected"]

\* A plan the schema accepts, or a run that failed or left none.
Plans == BOOLEAN

\* The planner's own run; it knows the path of RESULT.json and may have
\* written there already.
Plan(d, t) ==
    /\ Stage(d, t) = "planning" /\ Alive(d)
    /\ \E valid \in Plans, early \in {"none", "done"} :
          IF valid THEN Step(d, t, [inv[d][t] EXCEPT !.stage = "plan_review", !.result = early])
          ELSE Step(d, t, BlockedResult(d, t))
    /\ UNCHANGED << mode, store, report >>

\* The decision of the reviewer: it rejects too when it cannot be found or
\* read, fails or takes too long.
Approval == {"approved", "rejected"}

\* Fault: the implementation goes ahead whatever the review of the plan says.
ReviewPlanAfterwards(d, t) ==
    /\ Stage(d, t) = "plan_review" /\ Alive(d)
    /\ \E ok \in SUBSET {"plan"} :
          Step(d, t, [inv[d][t] EXCEPT !.stage = "implementing", !.approved = ok])
    /\ UNCHANGED << mode, store, report >>

ReviewPlan(d, t) ==
    /\ Stage(d, t) = "plan_review" /\ Alive(d)
    /\ \E decision \in Approval :
          IF decision = "approved"
          THEN Step(d, t, [inv[d][t] EXCEPT !.stage = "implementing", !.approved = {"plan"}])
          ELSE Step(d, t, BlockedResult(d, t))
    /\ UNCHANGED << mode, store, report >>

\* What is there to read: RESULT.json first, else the last message or the
\* standard output; a worker that writes none of them leaves what was there.
Outcomes(before) == {"none", "done", "blocked", before}

\* The process of the worker ends well, or it fails or takes too long.
Fails == BOOLEAN

\* A run that fails is not looked into, and not reviewed either.
Implement(d, t) ==
    /\ Stage(d, t) = "implementing" /\ Alive(d)
    /\ \E r \in Outcomes(inv[d][t].result), fails \in Fails :
          \/ /\ fails \/ inv[d][t].agent # "copilot"
             /\ Step(d, t, [inv[d][t] EXCEPT !.stage = "exited",
                                             !.result = IF fails THEN "none" ELSE r])
          \/ /\ ~fails /\ inv[d][t].agent = "copilot"
             /\ Step(d, t, IF r = "none" THEN BlockedResult(d, t)
                           ELSE [inv[d][t] EXCEPT !.stage = "implementation_review", !.result = r])
    /\ UNCHANGED << mode, store, report >>

ReviewImplementation(d, t) ==
    /\ Stage(d, t) = "implementation_review" /\ Alive(d)
    /\ \E decision \in Approval :
          IF decision = "approved"
          THEN Step(d, t, [inv[d][t] EXCEPT !.stage = "exited", !.review = "approved",
                                            !.approved = @ \cup {"implementation"}])
          ELSE Step(d, t, BlockedResult(d, t))
    /\ UNCHANGED << mode, store, report >>

-----------------------------------------------------------------------------
(* Completion, one invocation at a time, in the order the workers end. *)

Free(d) == Alive(d) /\ \A t \in Tasks : Stage(d, t) \notin Completing

\* What finish_task_with_handoff does to the lease, if it is still active.
Finish(d, t, status) ==
    /\ holder' = [holder EXCEPT ![t] = Nobody]
    /\ task' = [task EXCEPT ![t] = status]
    /\ handoff' = [handoff EXCEPT ![d][t] = status]

NotFinished == UNCHANGED << holder, task, handoff >>

\* apply_handoff_with_ledger: accepted, refused, or raised and kept in the
\* ledger, the handoff made or not.
Hand(d, t, status, accepted, refused, degraded) ==
    \/ /\ holder[t] = d
       /\ Finish(d, t, status)
       /\ Step(d, t, Over(inv[d][t], accepted))
       /\ UNCHANGED ledger
    \/ /\ holder[t] # d
       /\ NotFinished
       /\ Step(d, t, Over(inv[d][t], refused))
       /\ UNCHANGED ledger
    \/ /\ Raises
       /\ \/ NotFinished
          \/ holder[t] = d /\ Finish(d, t, status)
       /\ ledger' = ledger \cup {<< d, t, "handoff", status >>}
       /\ Step(d, t, Over(inv[d][t], degraded))

\* Fault: a failed run is only reported.
FinishBlockedReports(d, t) ==
    /\ Free(d) /\ Stage(d, t) = "exited"
    /\ inv[d][t].result = "none"
    /\ Step(d, t, Over(inv[d][t], Item("ok", "blocked")))
    /\ UNCHANGED << mode, store, report >>

\* A run that failed, or left nothing the schema accepts, is handed over as
\* blocked.  A refusal is reported like an entry of the ledger.
FinishBlocked(d, t) ==
    /\ Free(d) /\ Stage(d, t) = "exited"
    /\ inv[d][t].result = "none"
    /\ Hand(d, t, "blocked", Item("ok", "blocked"),
            Item("degraded", "failed"), Item("degraded", "failed"))
    /\ UNCHANGED << mode, findings, report >>

Complete(d, t) ==
    /\ Free(d) /\ Stage(d, t) = "exited"
    /\ inv[d][t].result # "none"
    /\ Step(d, t, Moved(d, t, IF inv[d][t].review = "rejected" THEN "finding" ELSE "evidence"))
    /\ UNCHANGED << mode, store, report >>

\* record_worker_review_finding: an open P1 in the database or in the ledger.
RecordFinding(d, t) ==
    /\ Alive(d) /\ Stage(d, t) = "finding"
    /\ Step(d, t, Moved(d, t, "evidence"))
    /\ \/ findings' = findings \cup {<< d, t >>} /\ UNCHANGED ledger
       \/ /\ Raises
          /\ findings' \in {findings, findings \cup {<< d, t >>}}
          /\ ledger' = ledger \cup {<< d, t, "review_finding", "any" >>}
    /\ UNCHANGED << mode, holder, task, handoff, report >>

Handing(d, t, evidence) ==
    Step(d, t, [inv[d][t] EXCEPT !.stage = "handing", !.evidence = evidence])

\* record_spawn_evidence: one record for each command the worker says it ran.
RecordEvidence(d, t) ==
    /\ Alive(d) /\ Stage(d, t) = "evidence"
    /\ \/ /\ \E e \in {"none", "ok", "refused"} : Handing(d, t, e)
          /\ UNCHANGED ledger
       \/ /\ Raises
          /\ Handing(d, t, "pending")
          /\ ledger' = ledger \cup {<< d, t, "command_evidence", "any" >>}
    /\ UNCHANGED << mode, holder, task, handoff, findings, report >>

\* Evidence that could not be written outweighs whatever became of the handoff.
Outcome(d, t, status, execution) ==
    CASE inv[d][t].evidence = "pending" -> Item("degraded", "blocked")
      [] inv[d][t].evidence = "refused" -> Item("error", "failed")
      [] OTHER -> Item(status, execution)

HandOver(d, t) ==
    /\ Alive(d) /\ Stage(d, t) = "handing"
    /\ LET r == inv[d][t].result
       IN Hand(d, t, r, Outcome(d, t, "ok", IF r = "done" THEN "completed" ELSE "blocked"),
               Outcome(d, t, "error", "failed"), Outcome(d, t, "degraded", "blocked"))
    /\ UNCHANGED << mode, findings, report >>

-----------------------------------------------------------------------------
(* The report of the whole call. *)

Statuses(d)   == {inv[d][t].item.status : t \in Selected(d)}
Executions(d) == {inv[d][t].item.execution : t \in Selected(d)}

\* Fault: the report is about the handoffs that were tried.
OverallOfHandoffs(d) ==
    IF {inv[d][t].item.execution : t \in {u \in Selected(d) : handoff[d][u] # "none"}}
          = {"completed"}
    THEN "completed" ELSE "failed"

OverallExecution(d) ==
    CASE "degraded" \in Statuses(d) ->
             IF "completed" \in Executions(d) THEN "partial" ELSE "blocked"
      [] Executions(d) = {"completed"} -> "completed"
      [] "completed" \in Executions(d) -> "partial"
      [] Executions(d) = {"blocked"} -> "blocked"
      [] OTHER -> "failed"

Return(d) ==
    /\ Alive(d)
    /\ \A t \in Selected(d) : Stage(d, t) = "over"
    /\ report' = [report EXCEPT ![d] =
          IF mode[d] = "many" THEN OverallExecution(d)
          ELSE CHOOSE e \in Executions(d) : TRUE]
    /\ mode' = [mode EXCEPT ![d] = "returned"]
    /\ UNCHANGED << inv, store >>

-----------------------------------------------------------------------------
(* What happens besides. *)

\* Two hours after the claim; nothing renews it.
LeaseExpires(t) ==
    /\ holder[t] # Nobody
    /\ holder' = [holder EXCEPT ![t] = Nobody]
    /\ UNCHANGED << mode, inv, task, handoff, ledger, findings, report >>

\* Somebody else claims a task, and finishes it.
OtherClaims(t) ==
    /\ Claimable(t)
    /\ holder' = [holder EXCEPT ![t] = Other]
    /\ UNCHANGED << mode, inv, task, handoff, ledger, findings, report >>

OtherFinishes(t) ==
    /\ holder[t] = Other
    /\ holder' = [holder EXCEPT ![t] = Nobody]
    /\ task' = [task EXCEPT ![t] = "done"]
    /\ UNCHANGED << mode, inv, handoff, ledger, findings, report >>

Dies(d) ==
    /\ Alive(d)
    /\ mode' = [mode EXCEPT ![d] = "died"]
    /\ inv' = [inv EXCEPT ![d] = [t \in Tasks |->
                  IF t \in Selected(d)
                  THEN Over(@[t], NoItem)
                  ELSE @[t]]]
    /\ UNCHANGED << store, report >>

\* reconcile applies a pending handoff under the key of the invocation; one
\* that was made already is only answered from memory.
Reconcile(d, t, status) ==
    /\ << d, t, "handoff", status >> \in ledger
    /\ IF handoff[d][t] = "none" THEN holder[t] = d /\ Finish(d, t, status) ELSE NotFinished
    /\ ledger' = ledger \ {<< d, t, "handoff", status >>}
    /\ UNCHANGED << mode, inv, findings, report >>

Invoke(d, t) ==
    \/ ClaimRaises(d, t) \/ RegisterAndClaim(d, t)
    \/ Launch(d, t) \/ Plan(d, t) \/ ReviewPlan(d, t)
    \/ Implement(d, t) \/ ReviewImplementation(d, t)
    \/ FinishBlocked(d, t) \/ Complete(d, t)
    \/ RecordFinding(d, t) \/ RecordEvidence(d, t) \/ HandOver(d, t)

Next ==
    \/ \E d \in Dispatchers : DispatchSpawn(d) \/ DispatchSpawnMany(d) \/ Prepare(d)
                              \/ Return(d) \/ Dies(d)
    \/ \E d \in Dispatchers, t \in Tasks : Invoke(d, t)
    \/ \E t \in Tasks : LeaseExpires(t) \/ OtherClaims(t) \/ OtherFinishes(t)
    \/ \E d \in Dispatchers, t \in Tasks, s \in {"done", "blocked"} : Reconcile(d, t, s)

Spec == Init /\ [][Next]_vars

-----------------------------------------------------------------------------

\* What a Copilot worker hands over as done has been through both reviews, the
\* implementation after its plan; and a rejection is on record, in the
\* database or waiting in the ledger, before the task leaves the worker.
ReviewedBeforeDone ==
    \A d \in Dispatchers, t \in Tasks :
        /\ handoff[d][t] = "done" /\ inv[d][t].agent = "copilot"
              => inv[d][t].approved = {"plan", "implementation"}
        /\ handoff[d][t] # "none" /\ inv[d][t].review = "rejected"
              => \/ << d, t >> \in findings
                 \/ << d, t, "review_finding", "any" >> \in ledger

\* A call that has returned leaves no task leased to a worker that is gone:
\* each was handed over, its handoff waits in the ledger, or the answer to
\* the claim itself was lost.
NothingHeldOnReturn ==
    \A d \in Dispatchers, t \in Tasks :
        mode[d] = "returned" /\ holder[t] = d =>
            \/ \E s \in {"done", "blocked"} : << d, t, "handoff", s >> \in ledger
            \/ inv[d][t].lost

\* A call that reports "completed" has handed over every task it selected as
\* done, in the database, with none of its handoffs or evidence left in the
\* ledger - whichever of them could not be claimed, launched or recorded.
CompletedIsTrue ==
    \A d \in Dispatchers :
        report[d] = "completed" =>
            \A t \in Selected(d) :
                /\ handoff[d][t] = "done"
                /\ ~\E e \in ledger : e[1] = d /\ e[2] = t
=============================================================================
