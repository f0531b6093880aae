# Verification of the geond agent protocol

Geond gives several agents that work on one repository a shared PostgreSQL database: a board of
tasks with leases, reservations of files and symbols, evidence, findings, approvals and
handoffs, and a memory of the agents' sessions, of the code and of its changes. An orchestrator
on top of it turns goals into task graphs, proposes actions, has them approved, launches workers
and finalizes runs. This directory holds TLA+ models of these parts, TLC runs that check them on
small instances, and TLAPS proofs of what holds for every instance.

Paths below are relative to the repository, with its Python packages under `src/`.

## 1. The system

Nothing in geond runs alone. The MCP server answers each tool call on a connection of its own;
the `geond` and `geond-orchestrator` command lines are processes of their own; the orchestrator
starts workers in threads and may run as a daemon. They meet in two places:

- **PostgreSQL**, through psycopg at READ COMMITTED. A function of `storage/` opens a
  transaction with its first statement and ends it with `conn.commit()`. Rows are not locked
  before they are read: decisions are taken on a SELECT and carried out by a later statement.
- **Files** of a run's or a workspace's directory: the degraded ledger and the action queue
  (JSONL, appended to and replayed), the daemon's lock, and the transcripts that the agents go on
  writing while geond reads them. None of them is locked.

| component | its state | its operations | what makes it correct |
|---|---|---|---|
| task leases (`storage/orchestration.py`) | `orchestration_tasks`, `worker_sessions`, `task_leases`, `idempotency_records` | create, claim, renew, release, finish, set a status by hand; expiry when somebody looks | one holder per task; no task left in 'claimed' without a lease; an ended lease stays ended; a retried call is one call |
| task graph (`storage/orchestration.py`, `orchestrator_task_planner.py`) | tasks with keys, `task_dependency_edges`, the placeholder | materialize a plan, list what is claimable | one task per key; no task before those it needs; a plan is worked off |
| readiness, finalization (`get_readiness_report`, `orchestrator_finalize.py`) | tasks, findings, approvals, evidence; the Git workspace | report; status, commit, push, decide | only the work of a ready run is committed; a decision says what was read |
| run reports (`storage/orchestration.py`, `storage/repository.py`) | none of their own; `handoff_summaries` | task graph, summary, package, brief; record and close handoffs | the reports of one run agree with each other and with its readiness |
| reservations (`storage/repository.py`) | `file_reservations`, `symbol_reservations`, their events, the workspace's policy | reserve, renew, release, sweep | under the strict policy no two agents hold one name; one ending event each |
| degraded ledger (`degraded_ledger.py`, `orchestrator.py`) | a JSONL file per run | append what the database refused, reconcile | nothing lost, nothing recorded twice, everything recorded in the end |
| action queue, scheduler (`orchestrator_action_queue.py`, `orchestrator_scheduler.py`) | a JSONL file per run | queue, approve, reject, execute, drain | an action runs on an approval that stands, once; what was approved gets its turn |
| daemon (`orchestrator_daemon.py`) | a lock file per workspace | acquire, work, release | one daemon works at a time; none removes another's lock |
| spawned workers, worker review (`dispatch_spawn*`, `orchestrator_spawn.py`, `orchestrator_worker_review.py`) | invocations of a call, worktrees, processes | select, prepare, claim, launch, review, complete, report | nothing unreviewed is handed over as done; no lease is left behind; "completed" is true |
| control loop, planners (`orchestrator_control.py`, `orchestrator_planner.py`, `orchestrator_graph_review.py`, `orchestrator_llm_planner.py`) | none of its own | plan the next actions, execute steps, propose and review graphs | it stops at what needs a person; no graph it lets in can be stuck; it makes progress |
| usage, pricing, budget (`storage/usage.py`, `storage/pricing.py`, `orchestrator_budget.py`) | `llm_usage_events`, prices | extract, record, sum, forecast | every usage counts once; a drain stays within its budget |
| session memory (`adapters/`, `storage/repository.py`, `storage/embeddings.py`, `storage/maintenance.py`, `redaction.py`) | `workspaces`, `sessions`, `events`, `messages`, `embeddings` | parse, redact, import, re-import, embed, purge | a workspace holds one moment of a transcript; secrets stay out; what is purged stays forgotten |
| workspace identity (`storage/repository.py`, `workspace_identity.py`) | `workspaces`, aliases, fingerprints | upsert, alias, fingerprint, suggest, follow a move | a known path never changes its workspace |
| code graph, changesets (`code_graph/`, `storage/code_graph.py`, `storage/changesets.py`) | entities, edges, changes, links | index, re-index, record a patch, import references | re-indexing a file gives what indexing everything would; nothing points at what is gone |
| retrieval (`retrieval/`) | none of its own | search, rerank, explain a change | results in scope, none twice; the roads to the evidence agree |
| benchmark (`storage/benchmark.py`) | `benchmark_runs` | judge a search, save and compare runs, cite a session | measures measure what was searched |
| migrations, dashboard, MCP server, command lines, install, doctor, hooks, manifests | | | not modelled, see section 5 |

Where they interact: a spawned worker's dispatcher *claims* (leases), *writes its result* (ledger
or database) and *finishes* (leases again, refused once the lease has ended). The planner reads
*readiness* and the ledger's pending events and *queues* actions; the scheduler, often under the
*daemon* and within a *budget* summed from imported sessions, executes them, and those actions
materialize *task graphs*, dispatch workers and *finalize* runs. Importers feed the memory that
embeddings, searches, usage and benchmarks read. Each model cuts one of these circles and treats
its neighbours as an environment that may do all that the neighbour's code may do.

What is hard here is nearly always the same: a decision is taken on something read earlier. The
hazards in `PROJECT.json` name each place, at its line, with the properties that watch it.

## 2. Modules

| module | what it models | grain of a step |
|---|---|---|
| `LeaseOwnership` | what leases promise: a task is held through at most one lease, a lease is granted once and never held again | a promise kept |
| `TaskLeases` | the lease operations with sessions, handoffs, idempotency and the clock, as one client sees them | one public operation |
| `LeaseTransactions` | the same operations under READ COMMITTED, on several connections | one SQL statement |
| `TaskGraph` | planners that materialize plans, workers that list and claim | one transaction |
| `RunFinalization` | the readiness report and `finalize_run` | one SELECT, one Git command |
| `Reservations` | file and symbol reservations (one module for both tables) | check, decide, insert |
| `DegradedLedger` | a worker's result on its way to the database | one read of the file, one transaction's read or commit |
| `ActionQueue` | queue, approvals, executions and drains of one run | one replay of the log, one append |
| `DaemonLock` | the daemon's lock file | one file operation |
| `SpawnDispatch` | dispatches of one or several workers, with the reviews of a Copilot worker | one call of the database, one stage of a worker |
| `ControlLoop` | agent mode on one run, its planners and the review of graphs | one look at the run, one action |
| `SessionMemory` | importers, embedding and purge over one transcript that changes | one locking statement, one commit |
| `Transcripts`, `Redaction` | parsing what the agents write, taking secrets out | a function of its input |
| `CodeIndex`, `Retrieval` | the stored code graph and its links; searches and explanations | a function of a history of calls |
| `Usage`, `Identity` | usage, prices and budgets; workspaces and moved checkouts | a function of a history of calls |
| `RunReports`, `Benchmark` | the reports of a run; the measures of a search | a function of its input |
| `Listings` | sorted and cut listings, which `RunReports`, `Retrieval`, `Benchmark` and `Usage` are built from | an operator |
| `Inputs` | what the modules without a state promise, each of an input of its kind | a property |

`TaskLeases` and `LeaseTransactions` both implement `LeaseOwnership` (the property
`OwnershipSpec` of each: `held` is the set of active leases of a task, `granted` the leases ever
inserted). `MC<module>` instantiates a module for TLC; `MCAlgorithms` does so for all modules
without a state of their own: each of its actions gives one of them an input, and the property of
`Inputs` for that kind is an invariant. `<module>_proofs` holds a module's theorems; those of
`ActionQueue`, `ControlLoop` and `DaemonLock` are together in `Orchestrator_proofs`, those of
`SessionMemory`, `DegradedLedger`, `Identity`, `Redaction` and `Transcripts` in `Memory_proofs`, and
those of `RunFinalization`, `RunReports`, `Retrieval`, `Benchmark`, `CodeIndex` and `Usage` in
`Reports_proofs`.

### State and actions, module by module

**TaskLeases.** `task`, `workerRun`, `lease`, `record` are the rows of the four tables; ids are
drawn from finite sets. Each operation is one action with the code's tests in the code's order:
the idempotency lookup, the sweep, the active lease, the status, the worker, the insert. A
lookup that hits changes nothing and is a stuttering step. `Cleanup` is every listing that sweeps
expired leases. A refusal after the lookup is remembered like a result, as in the code.

**LeaseTransactions.** A session's transaction walks through the statements of its function
(`pc`). A SELECT sees what is committed; an UPDATE waits for the holder of its row and tests its
WHERE clause on the newest version; the INSERT of a lease waits for open transactions on the
partial unique index and fails if one commits; of transactions that wait in a circle one is
aborted; `now()` is the start of the transaction. A claim names an agent and holds that agent's row from
`upsert_agent` to its end. The handoff that a finish inserts is a statement too: its foreign key waits
for a claim that holds the row of the lease's agent (`InsertHandoff`). The last
statements (a renewal's UPDATE of `worker_sessions`, the outcome of a key) wait at most for somebody at
the very same step, and are one with the commit.

**TaskGraph.** A planner commits each task by `create_task` under a key made of run and task key
(lookup and commit are two steps), then all edges at once. One way in is direct, the other first
asks whether the run is eligible (only its placeholder) and closes the placeholder at the end.
Each planner has plans of its own, so that a key can meet a changed text and be refused.
Planners may die anywhere. Workers list (the only place that reads edges), claim later, finish a task
as 'done' or 'blocked', or lose their lease (`LoseTask`: it expires, or is released while the task is
still in progress).

**RunFinalization.** Tasks are open or done, findings open or resolved, approvals requested or
resolved (the report does not ask which way). A finalizer reads the four parts in order, then the
ledger, then runs Git. The commands record evidence as they go, failing ones too. `disturbed` is
a history variable: the finalizers since whose start the run fell back.

**Reservations.** `Qualified` maps a symbol to the name it resolves to, or a path to `Nil`, so one
module serves both tables. A call first sweeps and selects the conflicts, then reads the policy
and decides, then inserts. Rows that its sweep has ended stay locked until it commits.

**DegradedLedger.** The items of one result, in the order the dispatcher writes them: a finding,
one evidence record per command, the handoff. `rows` counts what the database holds of each item,
`memo` is the idempotency record, `file` the ledger. A transaction reads (key, lease) and commits
in two steps; either can raise, and a commit may raise although it took effect.

**ActionQueue.** `items` is the replay of the log: appending an event is applying it. An action is
an id and a signature; the same proposal made again for other reasons keeps its id and changes its
signature. People approve and reject by id, whatever stands under it by then; runners start from
what they read, run, and append the result, or die in between. A drain takes up to `MaxActions`
actions, one after another, and is refused whole when more are selectable than its budget
(`budget_exceeded`).

**DaemonLock.** `write_text` truncates before it writes, so a reader may meet an empty file and
takes it for none (`Torn`). Time may pass at any step. Two histories name the two ways in which
exclusion can fail: `raced` (two daemons between reading and writing) and `late` (a daemon at some
step with its lock expired).

**SpawnDispatch.** `inv[d][t]` is a dispatcher's invocation for a task, from selection over its
claim, its worker's stages and its completion to the item of the report. `holder`, `task` and
`handoff` are the lease protocol cut down to who holds a task and what it was finished with, and
`ledger` and `findings` are where results go. A claim is good for two hours whatever the worker
does (`LeaseExpires`), any call may raise with or without effect, and the dispatcher may die
(`Dies`). A worker's result is "done", "blocked" or nothing the schema accepts; a reviewer
approves or rejects, and rejects too when it fails.

**ControlLoop.** A step of `run_agent_mode` is a look at the run (`plan`), where the planner needs
it a proposal and its review, and one action. The LLM planner may come back with any valid graph,
one with a circle or without a word about evidence among them. Two are histories: `appeared`, the
blockers raised since a controller read its plan, and `written`, the graphs written so far, whole or in
part. Workers in claim mode, people and reconciles are
the environment.

**SessionMemory.** One transcript whose file goes through `Shapes`; importers walk through the
locking statements of `store_*_session` (workspace, session, events), keep what they write to
themselves until the commit, and delete the rows they have not seen. Event rows are unique over
all workspaces. An embedder fetches, asks the provider and inserts; a purge deletes a workspace
in between.

**Transcripts.** The parsers of Codex, Claude Code, Antigravity and VS Code as functions of a
sequence of lines (blank, torn, torn within a character, no object, an object, one that `splitlines`
cuts in two), and the
fetching of Manus' tasks from answers that may be 429 or an error, page by page. What an importer
lists is `Collected`: what each piece of the file gives, one after another.

**Redaction.** The `Rules` in their order over the pieces of a text, and the recursion through nested
values. A piece may be an assignment, its body has a form that some of the rules look for, and it may
hold a secret; one rule leaves text to the next, so that what it hides can keep another from matching: of
`AUTH_TOKEN=Bearer <token>` the first hides the word Bearer, and the token stays. A sensitive key hides
whatever is under it. `Values[n]` are the values that nest so deep at most, and `RedactValue[n]` and
`Spots[n]` (where the secrets are, and whether in the open) are functions of them, each defined by the
one for a level less.

**CodeIndex.** A file is the list of its items as they begin, each with the number of the definition
it is `within`. `IndexFile` makes entities and edges of them, for Python and TypeScript, by their own
indexers or by tree-sitter, which adds its imports; a Python module ends where it begins, having no
last line; `StoreIndex` replaces the files of a batch and resolves names against what
is stored; `RecordChangeset` and `StoreReferences` add links and references. A database is what a
history of such calls leaves (`After`).

**Retrieval.** Keyword, vector and hybrid candidates of a sequence of messages, cut, fused,
reranked (locally or by a service that answers for some of them) and cut again; what explains a
change, a symbol and a path, each within the LIMITs of its queries.

**Usage.** A raw record is a list of the values in it, each with the keys that lead to it; usage is
found in them as deep as the code looks and no deeper than where it was found (`Find`), or estimated
from messages. The usages of a session are a function of their places, and events are upserted by a
session's source, id and place (`RecordKey`); prices; sums and risk signals over the last `Hours`; the budget's
verdict and the items a daemon cycle spawns under it, each of which starts up to `max_workers` workers
(`StartedWorkers`) but is forecast as one. `Follow` is what a history of imports, prices and waits leaves.

**Identity.** A store is what a history of upserts, aliases, recorded fingerprints and followed
moves leaves. Fingerprints are those of a Git remote, a first commit and manifests, with weights.

**RunReports.** The listings of a run and what a summary, a package and a brief make of them,
each with its own limit and its own idea of what counts; handoffs recorded, finished and closed.

**Benchmark.** Extends `Retrieval`: recall, reciprocal rank and gain of a search, what a reranking
moved, saved runs and their comparison, and which stored session a run cites. `Met` are the ranks at
which each target of a judgment was found; `Gains` is the discount of each rank.

**Listings.** `InOrder` lists a set in an order, given as a set of pairs, `Take` is what a LIMIT leaves,
`Places` the rows at the places of such a list, `Where` the places of the rows that pass a test and
`Those` the rows at some places, as they follow each other; `SumOf` sums a function's values.

## 3. Runs

The bounds are the smallest at which the racing parties, one more of the thing they race for, and
a restart or retry all fit; the mutants (a plausible slip in the code for each property) show that
the bad case is within them.

| run | instance | properties | what it shows |
|---|---|---|---|
| `task_leases` | 2 runs, 2 workers, 1 task, 2 leases, one key (on claims and finishes), clock 0..2 | `OneActiveLease`, `OneHandoffPerResult`, `OwnershipSpec` | one client at a time, every operation: leases are exclusive, a result is handed over once, and the tables implement the contract |
| `lease_races` | 2 sessions of two agents, 1 task, 2 leases that live one tick; one session retries claims under a key, the status may be set by hand to 'ready' | `NoStrandedTask`, `KeyedOnce`, `LocksInOrder`, `NoResurrection`, `OwnershipSpec` | no interleaving of statements breaks the contract, strands a task, lets a retried claim take effect twice or makes a finished task ready again |
| `task_graph_races` | 2 planners with two versions of a chain of 2, 1 worker, 3 task ids | `OneTaskPerKey`, `PublishedPlanGates`, `PlanWorkedOff` | retries and crashes do not duplicate tasks; a published plan gates its tasks and is worked off |
| `finalization_races` | 2 tasks, a finding, an approval, 2 finalizers, a high-risk run | `DecidesWhenPushed`, `CommitsReadyRun` | the fuzzy report does no harm while the run does not fall back |
| `reservation_races` | 2 sessions of 1 agent, a symbol and its qualified name, 2 ids, the two policies that can refuse, TTL 1, clock 0..2 | `OneEndingEvent`, `NoKnownConflict` | no conflict that was committed before the check is let pass; nothing ends twice |
| `action_queue` | 2 actions, one of them with 2 signatures (one of an unreviewed task graph), 2 runners, a queuer, drains of 2 with a budget of 1 or none | `OneRunPerApproval`, `StartsOnStandingApproval`, `ApprovedIsHandled` | an action runs on an approval that stands, once; no approved action waits for ever |
| `daemon_exclusion` | 3 daemons, clock 0..4, TTL 2 | `ExclusiveDrain` | one works at a time unless they raced or outlived the lock |
| `ledger_recovery` | 2 commands, 2 reconcilers, 2 failures, 1 crash | `NothingLost`, `RecordedOnce`, `EvidenceArrives` | nothing lost, nothing recorded twice by reconciliations that do not overlap, evidence arrives |
| `spawn_dispatch` | 1 dispatcher, 2 tasks, a pool of 1, up to 4 lost claims and ledger entries at a time | `ReviewedBeforeDone`, `NothingHeldOnReturn`, `CompletedIsTrue` | whatever is refused, fails, raises or dies, nothing unreviewed is handed over as done, no lease is left behind, and "completed" means all of it |
| `control_loop` | 2 controllers (1 and 2 steps a call), a template of 2 tasks, 3 LLM proposals (a circle, one without evidence, the template's two tasks the other way round), a high-risk run, 1 incident | `ReviewedGraph`, `NoDispatchOverBlocker`, `RunGetsReady` | blockers hold dispatches back, no graph with a circle is written, the run gets ready unless two graphs close one |
| `session_memory` | 2 importers, an embedder, 2 workspaces, each of 5 sources, a file with 2 shapes, 2 imports, a purge | `SnapshotIsWhole`, `PurgeForgets` | a workspace holds one moment of the file; what was purged stays away |
| `algorithms` | transcripts of 2 lines that grow, values nested 3 deep, histories of 2 calls, and small sets of everything else | `TranscriptsStand`, `SecretsStayOut`, `GraphIsExact`, `ChangesLinked`, `SearchesAreSound`, `EvidenceAgrees`, `UsageIsAccounted`, `MovesAreFollowed`, `BenchmarksTell`, `ReportsAgree` | the modules without a state of their own, on every input of these sets (788,208 states) |

What the less obvious ones say:

- `KeyedOnce`, `OneTaskPerKey` and `RecordedOnce` except what two overlapping calls with one key
  do: the key is looked up before the work and stored after it. `raced` names the overlaps in
  `TaskGraph` and `DegradedLedger`; in `lease_races` the key belongs to one session (`KeyUsers`),
  which retries after a call has ended.
- `LocksInOrder` (`LeaseTransactions`): a circle of waiting transactions always includes a release
  or a cleanup that has expired a lease, which lock a lease before its task, or a finish whose handoff
  waits for its agent's row next to a claim of that agent. The run reaches each of these circles;
  everything else locks in one order.
- `ApprovedIsHandled`: either people go on approving for ever, or the queue stays over the scheduler's
  budget for ever (then each of its drains is refused whole, `orchestrator_scheduler.py:127`), or every
  action again and again is not one that a drain could select. A drain that started takes both actions
  of the run, so that one that fails has another behind it.
- `NoDispatchOverBlocker`: a dispatch or finalization happens over no blocker that the controller's
  plan could have shown; what came up after the plan was read is in `appeared`.
- `RunGetsReady` excepts a run whose edges make a circle although no graph written does: two
  controllers that did not see each other have written graphs that contradict each other.
- `GraphIsExact`: after any history of indexing, a file indexed over the stored graph of the others
  has the outgoing edges it would have if everything were indexed at once, as far as the names at their
  ends have no rival (a second definition of that name, or a second module's default, which an edge may
  then lead to as well); no edge or link points at what is gone; a reference comes from the innermost
  definition around it. Of edges into the file it says nothing: those from files that are not indexed
  with it are dropped.
- `ChangesLinked`: a change is linked to what it adds a line to, but for added lines that begin with
  `++` and for those after a deleted line that begins with `--`, which the parser takes for the headers
  of a file (`storage/changesets.py:296`) and does not count.
- `SecretsStayOut` says which secrets are in a form the rules know; a token after a Bearer that is
  itself assigned, and what it has behind an underscore, are not.
- `EvidenceAgrees` compares an explanation with the contexts of its symbols as far as the limits of
  both show it.
- `MovesAreFollowed`: no history of imports, aliases and guesses by fingerprint changes which
  workspace a known path is, and a moved checkout is recognised exactly if the evidence is
  unambiguous.
- `UsageIsAccounted`: usage of a transcript that is imported again as it grows is counted once, and
  what a daemon spawns within its token budget stays within it, once imported, unless the workers of
  one action together use more than the action was estimated to. The estimate is for one worker
  (`orchestrator_budget.py:58`), an action may start `max_workers`: workers that each keep to it may
  exceed the budget.
- `PlanWorkedOff` excepts a run of which a worker has finished a task as 'blocked': what waits for that
  task is never listed.

Type invariants (`TypeOK`, `DaemonTypeOK`, `MemoryTypeOK`) are proved and not checked again by a run. The
runs of `lease_races` (4.8 million states) and `control_loop` (1 million) take two to three minutes, the
others a minute or two at most.

**Deadlock** is checked except where a program really stops: the daemons end, a worker's result is
written once, a dispatch returns, importers have a number of imports, and `TaskLeases` reaches the
end of its bounded clock and ids.

### Divergences met while modelling that no run checks

The properties above except these cases, by a history variable, by what they say or by what
callers send.

Leases and tasks:

- `storage/orchestration.py:625` `claim_task` sets 'claimed' on the status it read two statements
  earlier: a task finished meanwhile goes from 'done' back to 'claimed'.
- `storage/orchestration.py:707` `renew_task_lease` updates by id: a lease that ended meanwhile
  becomes 'renewed' with `released_at` set, and the caller is told ok. The unique index and the
  WHERE clauses protect who holds a task, not what the functions return or write besides.
- `storage/orchestration.py:856` a finish acts on the lease row it read: a lease that ended
  meanwhile still gives the task its status and a second handoff, though the tool says that it
  finishes a leased task (`mcp_server/server.py:1503`).
- `storage/orchestration.py:526` two overlapping calls with one idempotency key both take effect.
- `storage/orchestration.py:307` tasks of a plan are claimable before their edges are committed.
- `orchestrator_task_planner.py:288` a plan whose planner died half-way is reported as not needed.
- `storage/repository.py:1456` two overlapping strict reservations of one file both succeed;
  `:2015` a reservation under a qualified name is not reported to a call by the plain name.

Orchestrator:

- `orchestrator.py:1286` a run that fell back while it was read, or after, is committed.
- `orchestrator_finalize.py:141` a checkpoint of a run that is not ready is recorded as a decision
  that says the run was ready; `:205` a commit whose push failed cannot be pushed by a retry.
- `orchestrator_action_queue.py:167` an approval names an id, not the version that was shown;
  `:244` executing an executed action turns it into a blocked one; `:327` a torn line is skipped.
- `orchestrator_daemon.py:308` two daemons that start together both take the lock.
- `degraded_ledger.py:121` two overlapping reconciliations record one item twice; `:17` a review
  finding that was appended is never reconciled nor counted as pending.
- A handoff in the ledger whose lease has ended is refused at every reconciliation, stays pending
  and keeps the planner at "reconcile" (`storage/orchestration.py:830`, `orchestrator_planner.py:179`).
- `orchestrator.py:874` a worker's claim is taken before the pool starts and never renewed: that of
  a queued worker may run out before it is launched.
- `finish_blocked_spawn` reports a handoff that was merely refused like one kept in the ledger; an
  item whose evidence failed is reported failed although its task is done.
- Two controllers that materialize graphs at once can join them to a circle that neither review
  saw (`create_task_graph` looks for none): the instance's template and one of its proposals do. A circle
  within one proposal never gets in.
- A scheduler refuses a drain whole when more actions are selectable than its budget
  (`orchestrator_scheduler.py:127`): a queue that stays over it is never worked off.
- A claim and a finish of one agent can wait for each other: the claim holds the agent's row and waits at
  the index for the finish, whose handoff refers to that row (`storage/repository.py:1434`). PostgreSQL
  aborts one of them.

Memory and code graph:

- A message deleted while its embedding is computed leaves an embedding without one
  (`storage/embeddings.py:27`); a message whose text changes on re-import is not embedded again.
- An older parse that is stored last overwrites a newer one; a VS Code re-import leaves role and
  event type as they were; purging the workspace that imported a session first takes the evidence of
  the messages another workspace has of it.
- Codex and Antigravity split with `str.splitlines`, so that a line with U+2028 in a string is lost;
  Claude Code and VS Code raise on a line that is JSON but no object, VS Code on a torn one, all but
  Claude Code on one torn within a character, until it is complete; a Claude
  message whose content is a plain string is dropped (`adapters/claude_code.py:139`).
- An alias registered while `upsert_workspace` inserts the same path makes it both root and alias,
  and the two resolve differently; when one of two candidates for a moved checkout is exact and the
  other good enough, `--register-best` registers neither.
- A rule of the redaction can keep the next from matching: of `AUTH_TOKEN=Bearer <token>` the token is
  stored (`redaction.py:29`).
- The patch parser takes content lines that begin with `--- ` or `+++` for context; re-indexing
  links old patches by new line numbers and drops links made under a path that only ends in the
  file's; indexing one file drops the edges into it from files that are not indexed with it, and
  entities of deleted files stay; language-server references with `replace` wipe those of every
  other symbol.
- `explain_change` is not limited to a workspace and takes a path as a LIKE pattern; a narrative
  calls the newest chat the earliest; a hybrid search cuts each list before it fuses them.

Usage, reports, benchmark:

- A re-import prices usage anew at the price of now, although `docs/ai_usage_observability.md:150`
  says that later price changes do not rewrite history; an estimate stays counted next to usage that
  is reported later; `created_at` stays that of the first import, so that a session that goes on
  leaves the budget's window. Extraction that fails fails the import, against `:144` of the same page.
- A spawn action is forecast as one worker and starts up to `max_workers`.
  Without any usage in the window a token budget blocks every drain; two drains before their usage
  is imported both pass; actions beyond the drain's `limit` are never looked at.
- nDCG exceeds 1 when two targets match one result; a run and its importer look at different records
  for a session's name when a transcript was resumed.
- A finish lists its next action twice in the run's summary; next actions of closed handoffs stay
  there; a summary counts the newest hundred rows, readiness all; a brief counts tasks and findings
  of inactive runs.

### Bounds

`MaxClock` ends time, `TTLs` are the lifetimes asked for (one tick is enough to outlive a step,
`Nil` never expires), ids (`Leases`, `Ids`) end the inserts, `KeyedOps`, `KeyUsers`,
`ManualStatuses`, `Proposals`, `Bundles`, `Budgets` and `Manual` restrict what callers send; `Bounded` (of `MCActionQueue`)
keeps the second runner idle once both actions are queued, so that two runners race for one action and one
drain takes two; `MaxFailures`, `MaxCrashes`,
`MaxFaults` and `MaxIncidents` end the faults, `MaxImports` and `MaxPurges` the imports and purges.
`MaxWorkers`, `MaxActions`, `Budget`, `MaxSteps` (of `ControlLoop`), `BatchSize`, `Limit`,
`PackageLimit`, `MaxPeek` and `Depth` are parameters of the code, small; `Gains` are the logarithms of
the first ranks, in hundredths, and `Nesting` is how deep values nest. `Shapes` is how a file changes; `MaxLines` and `MaxSteps` (of `MCAlgorithms`) are the length of transcripts and histories.
Two calls before the one that is looked at are enough for every pair of calls to meet in both orders.

### Fairness

- `TaskGraph!FairSpec`: a worker goes on listing, claiming and finishing, and workers that lose their
  lease do not do so for ever. Planners need not go on: a plan counts once it was published.
- `ActionQueue!FairSpec`: one runner (`Scheduler`) is the daemon: its drains, with the budget it is
  configured with, are started again and again, an action that they start ends, and they do not all
  die. Nothing is asked of other runners and of people.
- `DegradedLedger!FairSpec`: somebody goes on reconciling (the planner ranks it first); failures and
  crashes are bounded.
- `ControlLoop!FairLoopSpec`: the steps of a call are taken; somebody calls agent mode again with the
  template planner and `--allow-task-graph-create`; people resolve blockers and reopen tasks that were
  given up; a reconcile that is tried again and again succeeds. That workers record the commands they
  ran is assumed by the actions themselves: without evidence no run is ever ready.

The other specifications state none: their properties are about safety only.

## 4. Proofs

All theorems are for any constants that satisfy the modules' assumptions: any number of sessions,
tasks, keys, daemons, faults and so on. Two of those about specifications state one more, each of
which the runs' instances meet:

- `TasksKeepTheirLease`: nobody sets 'claimed' by hand. `update_task_state` would let them, and such a
  task has no lease.
- `KeysClaimOnce`: keys belong to one session, whose calls come one after another. Two overlapping
  calls with one key both take effect (section 3).

The theorems about modules without a state say of which inputs they hold (`Is...Input`): sequences of any
length of the entries that the code reads, and sets of any values. Every input that `MCAlgorithms`
enumerates is one of them. Where they ask for more than its form:

- `BenchmarksSayWhatHappened`: the code measures ranks up to a limit that `Gains` covers, and looks for a
  session in one record at least.
- `GraphFollowsTheFiles`: the files differ in path. They may define one name several times.
- `ChangesFindWhatTheyTouch`: the change is new.
- `MovesFollow`: no path is the word for "none", and finitely many places are known.
- `UsageAddsUp`: no source is called "any", the word for all of them. For the budget, workers' sessions have
  names of their own, and one that reports no usage is not estimated to have used any either: what a
  worker is estimated at is compared with what its session reports.

- **TaskLeases_proofs**: `TypeCorrect`; `LeasesExclusive` (`OneActiveLease`), inductive only together
  with types: a claim inserts only where its own sweep has left no active lease; `ImplementsOwnership`,
  where each operation is mapped to `Grant`, `End` or a stutter: a sweep ends whole tasks' leases, and
  an inserted id was never granted; `HandsOverOnce` (`OneHandoffPerResult`): a lease's handoffs are
  what its status says (`Results`); `RetriesOnce` (the `KeyedOnce` of this module): an effect is on
  record under its key (`EffectsRemembered`); `StrandsNoTask` (its `NoStrandedTask`): a task in
  'claimed' by a claim has exactly the lease of that claim.
- **TaskGraph_proofs**: `CreatesOnce` (`OneTaskPerKey`), `GatesAsPublished` (`PublishedPlanGates`). A
  planner has an id for every task behind it (`InPlan`, `Kept`); the record of a key and its tasks come
  together (`Recorded`); between lookup and commit of a key that is not raced a planner is `Alone`, so
  tasks are `Unique`; what is published is `Stored` task by task and edge by edge.
- **Reports_proofs**, `RunFinalization`: `CommitsWhatIsReady`. The report is no snapshot, so the invariant
  says of each part already read as good that it still is good (`Fresh`), and of who is past the
  validation that it read everything good with an empty ledger (`Validated`); both only until the run
  falls back. `DecidesAfterPush` (`DecidesWhenPushed`).
- **Reports_proofs**, `RunReports`: `ReportsSayTheSame` (`ReportsAgree`), with `ReadyTasksAreTold`,
  `BlockersCountUnlisted` and `ReadyMeansReady` for its parts. A listing by ranks has each element once
  and the lower rank first, so what a limit leaves is what ranks lowest, and a row that is left out of a
  summary has all that are in it before it.
- **Reports_proofs**, `Retrieval`: `SearchesFindWhatMatches` (`SearchesAreSound`). Every way of searching
  lists hits, none twice, and at least as many as the limit asks for if there are as many
  (`CandidatesLists`); fusion, reranking and cuts keep that. `ExplanationsAgree` (`EvidenceAgrees`).
- **Reports_proofs**, `Benchmark`: `BenchmarksSayWhatHappened` (`BenchmarksTell`). Sums over ranks are
  cardinalities of piles, so that a measure is bounded by comparing sets; the places that a reranking gives
  its results are an injection of as many into as many, so if none moved up, nobody moved
  (`NobodyMoves`). `RunsCiteTheirSession` is its part about sessions.
- **Reports_proofs**, `CodeIndex`: `GraphFollowsTheFiles` (`GraphIsExact`). What an indexer finds is of its
  file and stands in the module or in something else that it found (`FoundWell`, by induction over the
  items); so an edge starts in the file it is of (`EdgesTell`), a store of one file remakes exactly the
  edges that start in it (`OutOfOne`), and an edge that is kept does not start there (`IndexedLast`). After
  any history the graph holds entities of files that were indexed, and links of changes that were recorded
  (`GraphAfter`). `ChangesFindWhatTheyTouch` (`ChangesLinked`): the lines of a hunk are within what it has of the
  new file, and span every line that it adds (`HunkTells`); the links of a change by path are a function of
  its links by lines (`ByPathIs`), so that indexing again makes the same (`AgainTells`).
- **Reports_proofs**, `Usage`: `UsageAddsUp` (`UsageIsAccounted`). What a session uses is a function of
  places (`Uses`, `UsesAre`), and an import writes exactly its keys (`ImportTells`), so a session's keys
  are what all its imports recorded (`KeysAre`), by induction over the history (`StoreAfter`), and
  importing again changes nothing (`RecordedForGood`). Sums are cardinalities of piles, so groupings add
  up (`SumOfGroups`). Of a budget: each spawned session adds what it uses to the window and nothing leaves
  it meanwhile (`WindowGrows`, `SpawnsCount`), which is no more than what was forecast (`BudgetStays`).
- **Reservations_proofs**: `EndsWithOneEvent` (`OneEndingEvent`): what is locked is still open
  (`LockedIsOpen`), so that nothing ends what another transaction is ending; `PassesNoKnownConflict`
  (`NoKnownConflict`): what was committed at the check and still matches was `Found`.
- **Orchestrator_proofs**, `ActionQueue`: `StartsWhenApproved`: an approval that the replay shows is of
  that very signature (`Standing`); `RunsOncePerApproval`: an approval is unspent as long as nobody runs
  the action, and only one runner has it in hand (`Paid`), unless the action is doubtful.
- **Orchestrator_proofs**, `ControlLoop`: `HeedsBlockers` (`NoDispatchOverBlocker`). A controller prefers
  the blockers of its plan to dispatching and finalizing (`BlockersFirst`), and whatever comes up while
  the plan counts is noted beside it (`Heeded`). `CreatesReviewedGraphs` (`ReviewedGraph`): a controller
  that writes a graph, or dies in the middle, writes edges of a proposal that its review let through
  (`Reviewed`); no graph with a circle is written, and every edge of the run is one of a graph written
  (`WrittenGraphs`), so a run with one graph, written however often, has no circle (`CircleTakesTwo`).
- **Orchestrator_proofs**, `DaemonLock`: `DrainsExclusively` (`ExclusiveDrain`), `LeavesOthersLocks`
  (`UnlinksOwn`). The invariant relates where a daemon is to whose lock the file holds: a daemon at work
  owns the file unless it raced or was late, and one that is releasing and in time does too.
- **Memory_proofs**, `SessionMemory`: `PurgedStaysAway` (`PurgeForgets`): who has got past the session's
  lock writes into a workspace that is there, since a purge waits for it (`NothingLeft`).
  `SnapshotsAreWhole` (`SnapshotIsWhole`): importers of one workspace are kept apart by the session's row,
  and past it by the rows of events (`Apart`); a message keeps its id, which no other ever gets (`Rowed`);
  so what an import was about to delete is, at its commit, still all that its file does not say
  (`Prepared`), and it leaves one file's messages behind (`Snapshots`).
- **Memory_proofs**, `DegradedLedger`: `LosesNothing`, `RecordsOnce`, `MarksWhatItWrote`
  (`AppliedIsRecorded`). A remembered key means a row; an item behind the dispatcher is in the database,
  in the file or refused; only overlapping transactions have read a key as absent which is remembered by
  now.
- **Memory_proofs**, `Identity`: `MovesFollow` (`MovesAreFollowed`), by induction over the history.
  `KnownPlacesStay` is its step, with an invariant of any call (`Consistent`: a workspace is named by its
  root, and no root is another's alias). Weights are sums over sets of fingerprints, so a candidate
  with three quarters of them is one that the guess takes (`GuessesAreBacked`).
- **Memory_proofs**, `Redaction`: `NoSecretIsStored` (`SecretsStayOut`), by induction over the depth of nesting
  (`DeeperValuesStand`): each rule leaves the pieces it does not meet and hides those it does, and after
  the last of them none is met by any, so what is left of a secret was in the open.
- **Memory_proofs**, `Transcripts`: `TranscriptsGrow` (`TranscriptsStand`). Lists that are collected from the
  same first pieces begin alike (`CollectedAlike`), so what a transcript says is a beginning of what it
  says when it has grown; the pages of a task are all read, each once, or the import fails
  (`PagesAreRead`).
- **LeaseTransactions_proofs**, in layers. `Discipline` (`SpecDiscipline`, a lemma to the others): which rows a session has locked where in its
  transaction, what it has read of them, and that nobody else writes them (`Discipline`); types are part
  of it. `OneActiveLease`: an insert that got past the unique index finds no committed active lease, and
  no two of them wait to commit on one task (`Exclusive`). `TasksKeepTheirLease` (`NoStrandedTask`): a
  session that ends a lease has its task locked or still takes it back before it commits, or the task is
  not 'claimed' (`TakesBack`).
  `FinishedStaysFinished` (`NoResurrection`): the statement that makes a task ready again tests its
  status on the newest version (`FromProgress`). `KeysClaimOnce` (`KeyedOnce`): what was claimed
  under a key has its record, and a claim past its lookup found none (`KeysKept`). `CirclesNeedLateTasks`
  (`LocksInOrder`): without a release, an expiry, or a handoff that waits for a claim of its agent in the
  circle, everybody waits at a statement whose lock comes after all that the one it waits for still
  needs. `StatementsImplementOwnership`: a statement
  that shows is a `Grant` or an `End` of `LeaseOwnership`, all others stutter.
- **SpawnDispatch_proofs**: `ReviewsBeforeDone`, `HoldsNothing`, `CompletesTruly`. All that matters of
  an invocation is its own (`Sound`): who holds its task (`Holding`), that nothing is handed over before
  it is over (`Unhanded`), what the reviews let pass and rejected (`Approved`, `Rejected`), and that what
  the ledger keeps of it shows in its item (`Accounted`). A step leaves other invocations as they are
  (`Frame`). `Called` ties a dispatcher's mode and report to its invocations.

Each component's type invariant is proved as well. `UnlinksOwn`, `AppliedIsRecorded`, the single active
lease of `LeaseTransactions`, and the `KeyedOnce` and `NoStrandedTask` of `TaskLeases` are proved and need
no run.

The provers needed some changes of form: a set of subsets without the empty one is written
`(SUBSET S) \ {{}}`, which TLAPS reads otherwise without the parentheses; names of modules that are
proved in one module are distinct; a map gets an entry by `Bound` and not by `:>` and `@@`, of which the
provers know nothing. The modules without a state that are proved about sort by `InOrder`, filter by
`Those` and sum by cardinalities, have functions in the place of RECURSIVE operators, and flat items in the
place of trees. Induction, which the library states for operators that the provers cannot instantiate,
is over sets of numbers: a set that has 0, and with each number the next, has all (`Counting`).

Only model-checked is liveness (`PlanWorkedOff`, `ApprovedIsHandled`, `EvidenceArrives`, `RunGetsReady`):
fairness and ENABLED are outside the provers' reach.

## 5. What the models leave out

Details:

- Text of every kind: wording, formatting, markdown, metadata, JSON shapes.
- `Reservations`: calls that name one name twice; an empty list of names (it means all). Renewal,
  release and sweep take `now()` at their step, since nothing they decide spans two statements.
- `TaskGraph`: one run; plans that `create_task_graph` refuses before its first statement; a task's
  status at creation is 'ready'.
- `RunFinalization`: one run; `gh pr create` behaves like a push; `git add` and `git commit` are one
  step.
- `ActionQueue`: one run; an append is atomic; what an executed action does is in its own module.
- `DegradedLedger`: one worker's result. `DaemonLock`: a daemon that is started again is another
  daemon; service units are text.
- `SpawnDispatch`: prompts, command lines and schemas are data; a lease is renewed by nobody, as in
  the code.
- `ControlLoop`: one run; a plan is one look at it (its SELECTs are in `RunFinalization`), a dispatch
  claims and ends at once (its steps are in `SpawnDispatch`). Prompts and the validation of an LLM's
  JSON are not modelled, only that a refused answer comes to nothing.
- `SessionMemory`: one transcript; what it says is which shape of the file it is from.
- `CodeIndex`: tokenizing, grammars and the language server's protocol; `Retrieval`: vectors are
  distances, providers answer or fail; `Usage`, `Benchmark`, `RunReports`: markdown and timing.
- `Identity`: calls one after another; its races are described above.

Not modelled at all:

- Schema migrations (`db.py`): every file in one transaction with one commit at its end, run by hand.
- The dashboard and its server: read models and HTML, which change no state.
- The MCP server: tools that open a connection, call the functions above and shape their results. That
  each call has a connection of its own is in the modules of those functions.
- Command lines, install, doctor, hooks: arguments, configuration files, diagnostics.
- Manifests: a JSON file from rows already stored.
- Maintenance besides `purge_workspace`: reports and single statements.

## 6. Plan

Done: the lease protocol and the contract it implements, the task graph, reservations, the queue, the
daemon, the ledger and finalization; then spawned workers, the control loop, session memory and the
pure algorithms; the proofs of every safety property that the runs of the modules with a state
check, both refinements of `LeaseOwnership` among them; and those of the properties of the modules
without one.

What could come next:

1. An abstract specification of finalization (decided once, after the push, on evidence that was
   there), which `RunFinalization` implements outside the runs that fall back.
2. The races of workspace identity: an upsert against an alias of the same path, two aliases at once.
3. Agent mode over a statement-level run: `ControlLoop` with the fuzzy reads of `RunFinalization`.
