----------------------------- MODULE TaskGraph -----------------------------
(***************************************************************************)
(* How a plan becomes tasks with dependencies, and how workers follow them. *)
(* create_task_graph (src/geond/storage/orchestration.py) commits the tasks *)
(* of a proposal one transaction at a time, each under an idempotency key   *)
(* made of the run and the task's key, and all the edges in one last        *)
(* transaction.  Two ways lead there: `geond task graph` calls it at once,  *)
(* and apply_task_graph_payload (src/geond_orchestrator/                    *)
(* orchestrator_task_planner.py) calls it when the run holds only its       *)
(* planning placeholder, which it then closes.  Workers list what is        *)
(* claimable, the only place where edges are looked at, and later claim.    *)
(*                                                                         *)
(* One run.  A planner's step is one of its transactions; create_task,      *)
(* whose lookup and commit can straddle another planner's, is two.  What a  *)
(* claim, a finish and an expiry do to leases is in LeaseTransactions: here *)
(* a lease is what a worker holds.                                          *)
(***************************************************************************)
EXTENDS Integers, FiniteSets, Sequences, SequencesExt

CONSTANTS
    Planners,    \* processes that materialise a plan
    Workers,     \* worker sessions
    Ids,         \* task ids the INSERTs may draw
    Keys,        \* task keys of the plans
    Proposals,   \* the plans each planner may come with, each a record
                 \* [order : task keys in order, text : content, needs : dependencies]
    Placeholder, \* the key of the planning placeholder task
    Nil

Plans == UNION Range(Proposals)
Texts == UNION {Range(g.text) : g \in Plans}

\* What create_task_graph lets pass: unique keys, known dependencies (and cycles).
IsAccepted(g) ==
    /\ IsInjective(g.order)
    /\ g.needs \subseteq Range(g.order) \X Range(g.order)

\* Other plans are refused before the first statement and change nothing.
ASSUME ProposalsAreAccepted ==
    /\ DOMAIN Proposals = Planners
    /\ Placeholder \notin Keys
    /\ \A g \in Plans : /\ IsAccepted(g)
                        /\ g.order \in Seq(Keys) /\ DOMAIN g.text = Range(g.order)

VARIABLES
    task,      \* orchestration_tasks
    edges,     \* orchestration_task_edges: <<from, to>>, `to` waits for `from`
    memo,      \* idempotency_records, per task key and for the placeholder
    pc,        \* what each planner does next
    job,       \* its plan: proposal, place in it, ids so far, placeholder to close
    seen,      \* get_claimable_tasks as each worker last read it
    holds,     \* the task each worker has leased
    published, \* history: the plans reported created, with their placeholder
    raced      \* history: keys two planners looked up before either committed

tables  == << task, edges, memo >>
work    == << seen, holds >>
history == << published, raced >>
vars    == << tables, pc, job, work, history >>

Statuses == {"ready", "claimed", "done", "blocked"}
TaskRows == [key : Keys \cup {Placeholder}, status : Statuses]
Jobs     == [plan : Plans, at : Nat, ids : [Keys -> Ids \cup {Nil}], holder : Ids \cup {Nil}]
Outcomes == [text : Texts \cup {Nil}, id : Ids]

ASSUME NilIsNothing == Nil \notin Ids \cup TaskRows \cup Jobs \cup Outcomes

TypeOK ==
    /\ task \in [Ids -> TaskRows \cup {Nil}]
    /\ edges \subseteq Ids \X Ids
    /\ memo \in [Keys \cup {Placeholder} -> Outcomes \cup {Nil}]
    /\ pc \in [Planners -> {"idle", "lookup", "insert", "link", "close"}]
    /\ job \in [Planners -> Jobs \cup {Nil}]
    /\ seen \in [Workers -> SUBSET Ids]
    /\ holds \in [Workers -> Ids \cup {Nil}]
    /\ published \subseteq Jobs
    /\ raced \subseteq Keys

\* start_run has committed the placeholder.
Init ==
    /\ \E p \in Ids : task = [i \in Ids |-> IF i = p THEN [key |-> Placeholder, status |-> "ready"]
                                            ELSE Nil]
    /\ edges = {}
    /\ memo = [k \in Keys \cup {Placeholder} |-> Nil]
    /\ pc = [p \in Planners |-> "idle"]
    /\ job = [p \in Planners |-> Nil]
    /\ seen = [w \in Workers |-> {}]
    /\ holds = [w \in Workers |-> Nil]
    /\ published = {}
    /\ raced = {}

-----------------------------------------------------------------------------
(* Planners. *)

Rows == {i \in Ids : task[i] # Nil}

TasksOf(k) == {i \in Rows : task[i].key = k}

\* The task it is at.
Key(p)  == job[p].plan.order[job[p].at]
Text(p) == job[p].plan.text[Key(p)]

Become(p, label, record) ==
    /\ pc' = [pc EXCEPT ![p] = label]
    /\ job' = [job EXCEPT ![p] = record]

\* After a task has its id: the next task, or the edges.
NextTask(p, id) ==
    LET ids == [job[p].ids EXCEPT ![Key(p)] = id]
    IN  Become(p, IF job[p].at = Len(job[p].plan.order) THEN "link" ELSE "lookup",
               [job[p] EXCEPT !.at = @ + 1, !.ids = ids])

Begin(p, g, holder) ==
    /\ pc[p] = "idle"
    /\ Become(p, IF g.order = << >> THEN "link" ELSE "lookup",
              [plan |-> g, at |-> 1, ids |-> [k \in Keys |-> Nil], holder |-> holder])
    /\ UNCHANGED << tables, work, history >>

\* create_task_graph called directly: nothing is asked of the run.
CreateTaskGraph(p, g) == Begin(p, g, Nil)

GraphTasks   == {i \in Rows : task[i].key # Placeholder}
Placeholders == {i \in TasksOf(Placeholder) : task[i].status = "ready"}

HasGraph == GraphTasks # {} \/ edges # {}

\* materialization_eligibility says yes.
ApplyTaskGraph(p, g) ==
    /\ ~HasGraph
    /\ \E holder \in Placeholders : Rows = {holder} /\ Begin(p, g, holder)

\* create_task, up to its idempotency lookup.
LookupTask(p) ==
    /\ pc[p] = "lookup"
    /\ \/ /\ memo[Key(p)] # Nil
          /\ memo[Key(p)].text = Text(p)
          /\ NextTask(p, memo[Key(p)].id)
          /\ UNCHANGED raced
       \/ /\ memo[Key(p)] # Nil          \* IDEMPOTENCY_CONFLICT: the call returns
          /\ memo[Key(p)].text # Text(p)
          /\ Become(p, "idle", Nil)
          /\ UNCHANGED raced
       \/ /\ memo[Key(p)] = Nil
          /\ pc' = [pc EXCEPT ![p] = "insert"]
          /\ raced' = IF \E q \in Planners \ {p} : pc[q] = "insert" /\ Key(q) = Key(p)
                      THEN raced \cup {Key(p)} ELSE raced
          /\ UNCHANGED job
    /\ UNCHANGED << tables, work, published >>

\* Fault: the outcome is not stored.
InsertForgetful(p, id) ==
    /\ pc[p] = "insert" /\ task[id] = Nil
    /\ task' = [task EXCEPT ![id] = [key |-> Key(p), status |-> "ready"]]
    /\ NextTask(p, id)
    /\ UNCHANGED << edges, memo, work, history >>

\* ... and its INSERT, its record (ON CONFLICT DO NOTHING) and its COMMIT.
InsertTask(p, id) ==
    /\ pc[p] = "insert"
    /\ task[id] = Nil
    /\ task' = [task EXCEPT ![id] = [key |-> Key(p), status |-> "ready"]]
    /\ memo' = IF memo[Key(p)] # Nil THEN memo
               ELSE [memo EXCEPT ![Key(p)] = [text |-> Text(p), id |-> id]]
    /\ NextTask(p, id)
    /\ UNCHANGED << edges, work, history >>

\* Fault: only the dependencies of the first task in the list are stored.
LinksOfFirst(j) ==
    {<<j.ids[n[1]], j.ids[n[2]]>> : n \in {d \in j.plan.needs : d[2] = j.plan.order[1]}}

Links(j) == {<<j.ids[n[1]], j.ids[n[2]]>> : n \in j.plan.needs}

\* The edges, in one transaction.
LinkTasks(p) ==
    /\ pc[p] = "link"
    /\ edges' = edges \cup Links(job[p])
    /\ published' = published \cup {job[p]}
    /\ IF job[p].holder = Nil THEN Become(p, "idle", Nil) ELSE Become(p, "close", job[p])
    /\ UNCHANGED << task, memo, work, raced >>

\* update_task_state(placeholder, "done"), once per run.
ClosePlaceholder(p) ==
    LET holder == job[p].holder IN
    /\ pc[p] = "close"
    /\ IF memo[Placeholder] # Nil THEN UNCHANGED << task, memo >>
       ELSE /\ task' = [task EXCEPT ![holder].status = "done"]
            /\ memo' = [memo EXCEPT ![Placeholder] = [text |-> Nil, id |-> holder]]
    /\ Become(p, "idle", Nil)
    /\ UNCHANGED << edges, work, history >>

\* The process dies between two transactions (or runs out of ids).
Crash(p) ==
    /\ pc[p] # "idle"
    /\ Become(p, "idle", Nil)
    /\ UNCHANGED << tables, work, history >>

-----------------------------------------------------------------------------
(* Workers. *)

Leased == {holds[w] : w \in Workers} \ {Nil}

Blockers(i) == {e[1] : e \in {e \in edges : e[2] = i}}

\* Fault: a task with dependencies is never listed.
ClaimableWithout == {i \in Rows \ Leased : task[i].status = "ready" /\ Blockers(i) = {}}

Claimable ==
    {i \in Rows \ Leased : /\ task[i].status = "ready"
                           /\ \A b \in Blockers(i) : task[b].status = "done"}

GetClaimableTasks(w) ==
    /\ holds[w] = Nil
    /\ seen' = [seen EXCEPT ![w] = Claimable]
    /\ UNCHANGED << tables, pc, job, holds, history >>

\* claim_task: the edges are not looked at again.
ClaimTask(w, i) ==
    /\ holds[w] = Nil
    /\ i \in seen[w] \ Leased
    /\ task[i].status = "ready"
    /\ task' = [task EXCEPT ![i].status = "claimed"]
    /\ holds' = [holds EXCEPT ![w] = i]
    /\ UNCHANGED << edges, memo, pc, job, seen, history >>

LeaveTask(w, status) ==
    /\ task' = [task EXCEPT ![holds[w]].status = status]
    /\ holds' = [holds EXCEPT ![w] = Nil]
    /\ seen' = [seen EXCEPT ![w] = {}]
    /\ UNCHANGED << edges, memo, pc, job, history >>

\* Done, or blocked on something; nobody but a person moves it on from there.
FinishTask(w) == holds[w] # Nil /\ \E status \in {"done", "blocked"} : LeaveTask(w, status)

\* The lease lapses or is released: only a task still in progress is ready again.
LoseTask(w) ==
    /\ holds[w] # Nil
    /\ LeaveTask(w, IF task[holds[w]].status = "claimed" THEN "ready" ELSE task[holds[w]].status)

PlannerStep(p) ==
    \/ LookupTask(p)
    \/ \E id \in Ids : InsertTask(p, id)
    \/ LinkTasks(p)
    \/ ClosePlaceholder(p)

Next ==
    \/ \E p \in Planners :
          \/ \E g \in Proposals[p] : CreateTaskGraph(p, g) \/ ApplyTaskGraph(p, g)
          \/ PlannerStep(p)
          \/ Crash(p)
    \/ \E w \in Workers :
          \/ GetClaimableTasks(w)
          \/ \E i \in Ids : ClaimTask(w, i)
          \/ FinishTask(w)
          \/ LoseTask(w)

Spec == Init /\ [][Next]_vars

-----------------------------------------------------------------------------
(* Properties. *)

\* A key of the plan has one task, however many planners, retries, crashes and
\* changed plans there were, unless two planners looked the key up before
\* either had committed (create_task under "task_graph:<run>:task:<key>").
OneTaskPerKey ==
    \A k \in Keys \ raced : Cardinality(TasksOf(k)) <= 1

\* A plan reported created binds the run's tasks themselves: every task of a
\* key waits for every task of the keys it needs (create_task_graph retried
\* after a crash finds the earlier attempt's tasks instead of shadowing them),
\* unless two planners looked up one of the two keys before either had committed.
PublishedPlanGates ==
    \A j \in published : \A n \in j.plan.needs :
        {n[1], n[2]} \cap raced = {} => TasksOf(n[1]) \X TasksOf(n[2]) \subseteq edges

\* Workers keep listing, claim from what they list, and do not lose every lease.
Progress ==
    \A w \in Workers :
        /\ WF_vars(Claimable \ seen[w] # {} /\ GetClaimableTasks(w))
        /\ SF_vars(\E i \in Ids : ClaimTask(w, i))
        /\ SF_vars(FinishTask(w))

FairSpec == Spec /\ Progress

\* A plan that was reported created, and whose dependencies have no cycle, is
\* worked off: no task of it is left unlisted once those before it are done,
\* unless a worker has finished one as blocked.
PlanWorkedOff ==
    \A k \in Keys : (\E j \in published : k \in Range(j.plan.order))
                        ~> \/ \A i \in TasksOf(k) : task[i].status = "done"
                           \/ \E i \in Rows : task[i].status = "blocked"
=============================================================================
