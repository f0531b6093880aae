------------------------------- MODULE Usage -------------------------------
(***************************************************************************)
(* What the imported sessions used, what it cost, and the budget a drain    *)
(* of the action queue is held to (storage/usage.py, storage/pricing.py,    *)
(* orchestrator_budget.py, the selection of orchestrator_scheduler.py).     *)
(*                                                                         *)
(* A raw record lists the values in it as they begin: each is [at, counts,  *)
(* usage], with the keys that lead to it, the token counts that it has      *)
(* under any spelling of their names, None for one that is no number, and   *)
(* those of the object under its key "usage", if there is one.              *)
(* A session is [source, id, model, raw, messages, heard]: its raw records, *)
(* its messages [by, tokens], and for VS Code those of the transcript,      *)
(* which count when there are no chat lines.                                *)
(* The store is [events, prices, now]; amounts are tokens and cost units.   *)
(* An event's key is the record's source, session and place in it.          *)
(***************************************************************************)
EXTENDS Listings

CONSTANT Depth \* how deep a record is searched; 8 in the code

None == -1
Parts == {"input", "output", "cached", "reasoning"}
Counts == Parts \cup {"total"}
Empty == [events |-> [k \in {} |-> k], prices |-> {}, now |-> 0]

\* The sum of the known ones, None without any.
SumKnown(amount) ==
    LET known == { x \in DOMAIN amount : amount[x] # None }
    IN  IF known = {} THEN None ELSE SumOf([x \in known |-> amount[x]])

-----------------------------------------------------------------------------
(* What a record says was used. *)

HasUsageShape(value) == DOMAIN value.counts \cap {"input", "output", "total"} # {}

\* Where a search stops: what is in there is not looked at.
Tells(value) == value.usage # {} \/ HasUsageShape(value)

Find(record) ==
    Those(record, { n \in DOMAIN record :
                      /\ Tells(record[n])
                      /\ Len(record[n].at) < Depth
                      /\ ~\E m \in DOMAIN record :
                            Tells(record[m]) /\ IsStrictPrefix(record[m].at, record[n].at) })

Normalize(value) ==
    LET told == IF value.usage = {} THEN value.counts ELSE CHOOSE u \in value.usage : TRUE
    IN  [c \in Counts |-> IF c \in DOMAIN told THEN told[c] ELSE None]

HasUsage(usage) == \E c \in Counts : usage[c] # None

\* The usages in a session's records, each at its place.
Reported(session) ==
    LET found == [n \in DOMAIN session.raw |-> Find(session.raw[n])]
    IN  [p \in UNION { {n} \X DOMAIN found[n] : n \in DOMAIN session.raw } |->
            Normalize(found[p[1]][p[2]])]

Known(count) == IF count = 0 THEN None ELSE count

\* The estimate: what the agent said is output, the rest input.
Estimate(session) ==
    LET onlyHeard == session.source = "vscode-copilot" /\ session.messages = << >>
        said == IF onlyHeard THEN session.heard ELSE session.messages
        Of(places) == SumOf([n \in places |-> said[n].tokens])
        output == Of(Where(said, LAMBDA m : m.by = "assistant"))
        input == Of(Where(said, LAMBDA m : m.by # "assistant" /\ (onlyHeard => m.by = "user")))
    IN  [c \in Counts |-> CASE c = "input" -> Known(input) [] c = "output" -> Known(output)
                            [] c = "total" -> Known(input + output) [] OTHER -> None]

-----------------------------------------------------------------------------
(* Prices and events. *)

\* A price is [model, from, to, rates]; one for each model and start.
UpsertPricing(prices, price) ==
    { p \in prices : p.model # price.model \/ p.from # price.from } \cup {price}

LookupPricing(prices, model, at) ==
    LET valid == { p \in prices : p.model = model /\ p.from <= at /\ (p.to = None \/ p.to > at) }
    IN  { p \in valid : \A q \in valid : q.from <= p.from }

Cost(prices, usage) ==
    SumKnown([x \in prices \X Parts |->
                IF usage[x[2]] = None \/ x[1].rates[x[2]] = None THEN None
                ELSE usage[x[2]] * x[1].rates[x[2]]])

TotalTokens(usage) ==
    IF usage["total"] # None THEN usage["total"] ELSE SumKnown([c \in Parts |-> usage[c]])

RecordKey(session, place) == << session.source, session.id, place >>

\* Usages are kept by their source and record, whatever the workspace, and an
\* event keeps the instant it was first stored.
InsertUsageEvents(store, workspace, session, usages, estimated) ==
    LET keys == { RecordKey(session, p) : p \in DOMAIN usages }
        Event(key) ==
          [workspace |-> workspace, source |-> session.source, model |-> session.model,
           tokens |-> TotalTokens(usages[key[3]]), estimated |-> estimated,
           created |-> IF key \in DOMAIN store.events THEN store.events[key].created ELSE store.now,
           cost |-> Cost(LookupPricing(store.prices, session.model, store.now), usages[key[3]])]
    IN  [store EXCEPT !.events = [key \in DOMAIN store.events \cup keys |->
                                    IF key \in keys THEN Event(key) ELSE store.events[key]]]

Estimated == << >> \* the place of an estimate

Reports(session) == { p \in DOMAIN Reported(session) : HasUsage(Reported(session)[p]) }

\* record_codex_usage_events and its two siblings.
RecordUsage(store, workspace, session) ==
    LET estimate == Estimate(session)
    IN  IF Reports(session) # {}
        THEN InsertUsageEvents(store, workspace, session,
                               [p \in Reports(session) |-> Reported(session)[p]], FALSE)
        ELSE IF HasUsage(estimate)
        THEN InsertUsageEvents(store, workspace, session, [p \in {Estimated} |-> estimate], TRUE)
        ELSE store

-----------------------------------------------------------------------------
(* Reports. *)

\* The events of a workspace, or of one source or model of it.
Rows(store, workspace, source, model) ==
    { k \in DOMAIN store.events :
        /\ store.events[k].workspace = workspace
        /\ source \in {"any", store.events[k].source}
        /\ model \in {"any", store.events[k].model} }

Tokens(store, rows) == SumOf([k \in rows |-> store.events[k].tokens])

\* The tokens of the rows with each label.
GroupedBy(label, store, rows) ==
    [l \in { label[k] : k \in rows } |-> Tokens(store, { k \in rows : label[k] = l })]

SummarizeUsage(store, workspace, source, model) ==
    LET rows == Rows(store, workspace, source, model)
        guessed == { k \in rows : store.events[k].estimated }
    IN  [events |-> Cardinality(rows), tokens |-> Tokens(store, rows),
         guessed |-> Cardinality(guessed), guessedTokens |-> Tokens(store, guessed),
         cost |-> SumKnown([k \in rows |-> store.events[k].cost]),
         bySource |-> GroupedBy([k \in rows |-> store.events[k].source], store, rows),
         byModel |-> GroupedBy([k \in rows |-> store.events[k].model], store, rows)]

\* Evidence is [prompts, outputs].
RiskSignals(usage, evidence) ==
    LET signals ==
          { s \in {"no_usage_events", "usage_without_output_evidence", "estimated_heavy_usage",
                   "no_exact_usage_events", "prompt_evidence_without_usage"} :
              CASE s = "no_usage_events" -> usage.events = 0
                [] s = "usage_without_output_evidence" -> usage.tokens > 0 /\ ~evidence.outputs
                [] s = "estimated_heavy_usage" ->
                     usage.tokens > 0 /\ 10 * usage.guessedTokens >= 8 * usage.tokens
                [] s = "no_exact_usage_events" -> usage.events > 0 /\ usage.guessed = usage.events
                [] s = "prompt_evidence_without_usage" -> evidence.prompts > 0 /\ usage.tokens = 0 }
    IN  IF signals = {} THEN {"usage_evidence_linked"} ELSE signals

-----------------------------------------------------------------------------
(* The budget.  An item of the queue is [run, type, status, queued], listed   *)
(* by run and id.                                                            *)

AutoActions == {"ledger_reconcile", "materialize_task_graph", "dispatch_spawn", "finalize_ready_run"}

\* By the run, the time of queueing and the place in the list.
Classify(items) ==
    LET fit == Where(items, LAMBDA i : i.status = "approved" /\ i.type \in AutoActions)
        Before(m, n) ==
          \/ items[m].run < items[n].run
          \/ items[m].run = items[n].run /\ items[m].queued < items[n].queued
          \/ items[m].run = items[n].run /\ items[m].queued = items[n].queued /\ m < n
    IN  Places(items, InOrder(fit, { p \in fit \X fit : Before(p[1], p[2]) }))

Selected(items, limit) == Take(Classify(items), Max({1, limit}))

Spawns(selected) == Cardinality(Where(selected, LAMBDA i : i.type = "dispatch_spawn"))

\* budget_window_hours: 0 stands for a day, as no window at all does.
Hours(window) == IF window = 0 THEN 24 ELSE Max({1, window})

UsageTotals(store, workspace, window) ==
    LET rows == { k \in Rows(store, workspace, "any", "any") :
                    store.events[k].created >= store.now - Hours(window) }
    IN  [known |-> rows # {}, tokens |-> Tokens(store, rows),
         cost |-> Max({0, SumKnown([k \in rows |-> store.events[k].cost])})]

\* Fault: what the selected actions will use is not forecast.
ProjectedSoFar(used, perSpawn, selected) == used

Projected(used, perSpawn, selected) == used + Max({0, perSpawn}) * Spawns(selected)

Over(limit, amount) == limit # None /\ amount > limit

\* A budget is [actions, spawns, tokens, cost, window, perSpawn, costPerSpawn].
BudgetReasons(store, workspace, selected, b) ==
    LET used == UsageTotals(store, workspace, b.window)
    IN  { r \in {"unknown", "actions", "spawns", "tokens", "cost"} :
            CASE r = "unknown" -> (b.tokens # None \/ b.cost # None) /\ ~used.known
              [] r = "actions" -> Over(b.actions, Len(selected))
              [] r = "spawns" -> Over(b.spawns, Spawns(selected))
              [] r = "tokens" ->
                   used.known /\ Over(b.tokens, Projected(used.tokens, b.perSpawn, selected))
              [] r = "cost" ->
                   used.known /\ Over(b.cost, Projected(used.cost, b.costPerSpawn, selected)) }

\* A daemon's report and its drain make the same selection and hold it to the
\* same budget.
DaemonCycle(store, workspace, items, limit, b) ==
    IF BudgetReasons(store, workspace, Selected(items, limit), b) = {}
    THEN Selected(items, limit) ELSE << >>

-----------------------------------------------------------------------------
(* Properties, over a history of << "import", workspace, session >>,          *)
(* << "price", price >> and << "wait" >>.                                    *)

Do(store, step) ==
    CASE step[1] = "import" -> RecordUsage(store, step[2], step[3])
      [] step[1] = "price" -> [store EXCEPT !.prices = UpsertPricing(@, step[2])]
      [] step[1] = "wait" -> [store EXCEPT !.now = @ + 1]

Follow(store, steps) ==
    LET at[n \in 0..Len(steps)] == IF n = 0 THEN store ELSE Do(at[n - 1], steps[n])
    IN  at[Len(steps)]

After(history) == Follow(Empty, history)

Imports(history) == { n \in DOMAIN history : history[n][1] = "import" }

\* The imports of a session's transcript.
Told(history, session) ==
    { history[n][3] : n \in { n \in Imports(history) : /\ history[n][3].source = session.source
                                                     /\ history[n][3].id = session.id } }

\* What a store says of a session that was just imported, as the last of those told.
CountedOnce(store, told, workspace, session, evidence) ==
    LET usage == SummarizeUsage(store, workspace, "any", "any")
        mine == { k \in DOMAIN store.events : k[1] = session.source /\ k[2] = session.id }
        guessed == \E s \in told : Reports(s) = {} /\ HasUsage(Estimate(s))
    IN  /\ mine = { RecordKey(session, p) : p \in UNION { Reports(s) : s \in told } }
                  \cup { RecordKey(session, p) : p \in IF guessed THEN {Estimated} ELSE {} }
        /\ \A p \in Reports(session) :
             LET event == store.events[RecordKey(session, p)]
             IN  event.tokens = TotalTokens(Reported(session)[p]) /\ event.workspace = workspace
        /\ RecordUsage(store, workspace, session) = store
        /\ SumOf(usage.bySource) = usage.tokens /\ SumOf(usage.byModel) = usage.tokens
        /\ \A source \in DOMAIN usage.bySource :
             SummarizeUsage(store, workspace, source, "any").tokens = usage.bySource[source]
        /\ /\ Reports(session) = {}
           /\ \E n \in DOMAIN session.messages :
                session.messages[n].by = "user" /\ session.messages[n].tokens > 0
           => "prompt_evidence_without_usage" \notin RiskSignals(usage, evidence)

\* A transcript that is imported again and again as it grows, into one workspace
\* or another, is counted once and where it was last imported: every usage it
\* reports, and its estimate exactly if it was once imported without any; all
\* groupings of a workspace add up to its total; and no workspace is said to
\* have prompts without usage whose last import said so.
UsageCountedOnce(history, workspace, session, evidence) ==
    CountedOnce(RecordUsage(After(history), workspace, session), Told(history, session) \cup {session},
                workspace, session, evidence)

\* A dispatch_spawn starts up to max_workers workers, and is forecast as one.
StartedWorkers(selected, workers) == 0..(Max({1, workers}) * Spawns(selected))

\* What a daemon starts within its token budget stays within it, however many
\* workers each action starts, if those of an action together use no more than
\* the action was estimated to and their sessions, with usage reported, were not
\* imported before: whatever was imported, waited for and counted in the window,
\* and whatever the queue holds.  The estimate is of an action: where each worker
\* keeps to it by itself, max_workers of them may exceed the budget.
BudgetHolds(history, workspace, items, limit, workers, b, session) ==
    LET store == After(history)
        cycle == DaemonCycle(store, workspace, items, limit, b)
        Later(started) == Follow(store, [n \in 1..started |->
                                           << "import", workspace, [session EXCEPT !.id = n] >>])
        used == SumKnown([p \in Reports(session) |-> TotalTokens(Reported(session)[p])])
    IN  b.tokens # None /\ Spawns(cycle) > 0 /\ Max({1, workers}) * used <= b.perSpawn =>
            \A started \in StartedWorkers(cycle, workers) :
                /\ UsageTotals(Later(started), workspace, b.window).tokens <= b.tokens
                /\ UsageTotals(Later(started), workspace, b.window).known
=============================================================================
