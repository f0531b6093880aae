----------------------------- MODULE Benchmark -----------------------------
(***************************************************************************)
(* How well a search does and what an agent's run left (storage/benchmark).  *)
(*                                                                         *)
(* A judgment is [explicit, expected, fields]: the targets it states, if it  *)
(* does so explicitly, else one for each << field, value >>.  A target is a  *)
(* function of some of the fields "at", "source" and "workspace".           *)
(* A transcript is [stem, jsonl, folder, records]: the directory before      *)
(* ".system_generated", as a set, and of each line the identifier its record *)
(* has, as a set, and whether an importer takes it for the session's; a line *)
(* that is blank or torn has none.                                           *)
(* Quality is in sixtieths.  Saved runs are a sequence, the newest first.    *)
(***************************************************************************)
EXTENDS Retrieval

CONSTANTS MaxPeek, \* lines looked at for an identifier; 200 in the code
          Gains    \* what each rank gains; 60 / log2(rank + 1) in the code

ASSUME GainsFall ==
    /\ \A k \in DOMAIN Gains : Gains[k] \in Nat
    /\ \A j, k \in DOMAIN Gains : j <= k => Gains[k] <= Gains[j]

-----------------------------------------------------------------------------
ExpectedTargets(judgment) ==
    IF judgment.explicit THEN judgment.expected
    ELSE [n \in DOMAIN judgment.fields |-> [f \in {judgment.fields[n][1]} |-> judgment.fields[n][2]]]

Matches(messages, at, target) ==
    \A f \in DOMAIN target :
        target[f] = CASE f = "at" -> at
                      [] f = "source" -> messages[at].source
                      [] f = "workspace" -> messages[at].workspace

\* The ranks of the results that a target matches.
Ranks(messages, results, target) ==
    { k \in DOMAIN results : Matches(messages, results[k].at, target) }

\* The quality of hits << target, rank >>, so many targets being expected.
Quality(count, hits, limit) ==
    IF count = 0 THEN [expected |-> 0, hits |-> 0, recall |-> None, mrr |-> None, gained |-> None,
                       ideal |-> None, first |-> None]
    ELSE [expected |-> count, hits |-> Cardinality(hits),
          recall |-> (Unit * Cardinality(hits)) \div count,
          mrr |-> SumOf([h \in hits |-> Unit \div h[2]]) \div count,
          gained |-> SumOf([h \in hits |-> Gains[h[2]]]),
          ideal |-> SumOf([k \in 1..Min({count, limit}) |-> Gains[k]]),
          first |-> IF hits = {} THEN None ELSE Min({ h[2] : h \in hits })]

\* The ranks that each target has.
Met(messages, results, judgment) ==
    LET targets == ExpectedTargets(judgment)
    IN  [n \in DOMAIN targets |-> Ranks(messages, results, targets[n])]

\* Fault: a target scores each result it matches.
EvaluateAllMatches(messages, results, judgment, limit) ==
    LET met == Met(messages, results, judgment)
    IN  Quality(Len(met), UNION { {n} \X met[n] : n \in DOMAIN met }, limit)

\* A target scores the first result it matches; several may score the same one.
EvaluateResults(messages, results, judgment, limit) ==
    LET met == Met(messages, results, judgment)
    IN  Quality(Len(met), { << n, Min(met[n]) >> : n \in { n \in DOMAIN met : met[n] # {} } }, limit)

\* Of the results, against the candidates they were reranked from.
Diagnostics(s, results, candidates) ==
    LET base == [k \in DOMAIN results |-> PlaceOf(results[k].at, candidates)]
        on == s.mode # "none" /\ results # << >>
    IN  [enabled |-> on, topChanged |-> on /\ base[1] # 1,
         promoted |-> Cardinality({ k \in DOMAIN base : on /\ base[k] > k }),
         demoted |-> Cardinality({ k \in DOMAIN base : on /\ base[k] < k }),
         missing |-> Cardinality({ k \in DOMAIN results :
                                     s.mode = "api" /\ results[k].at \notin DOMAIN s.api })]

Measured(messages, s, results, judgments) ==
    [results |-> Len(results),
     quality |-> { EvaluateResults(messages, results, j, s.limit) : j \in judgments },
     diagnostics |-> Diagnostics(s, results, Candidates(messages, s))]

\* One query of a benchmark, its judgment in a set of at most one.
BenchmarkQuery(messages, s, judgments) == Measured(messages, s, Results(messages, s), judgments)

\* << sum, count >>.
Mean(values) == << SumOf(values), Len(values) >>

SummarizeDiagnostics(queries) ==
    [changed |-> Cardinality(Where(queries, LAMBDA q : q.diagnostics.topChanged)),
     missing |-> SumOf([n \in DOMAIN queries |-> queries[n].diagnostics.missing])]

-----------------------------------------------------------------------------
(* Saved runs: [workspace, kind, mode, result]. *)

ListBenchmarkRuns(runs, workspace, mode, kind, limit) ==
    Take(Those(runs, Where(runs, LAMBDA r : workspace \in {"any", r.workspace} /\ mode \in {"any", r.mode}
                                            /\ kind \in {"all", r.kind})), limit)

\* Of the queries of a run that were judged, the qualities.
Judged(run) ==
    LET rows == Those(run.result, Where(run.result, LAMBDA q : \E x \in q.quality : x.expected > 0))
    IN  [n \in DOMAIN rows |-> CHOOSE x \in rows[n].quality : TRUE]

\* Of the listed runs.
CompareRuns(runs) ==
    LET Row(run, qualities) ==
          [recall |-> Mean([n \in DOMAIN qualities |-> qualities[n].recall]),
           mrr |-> Mean([n \in DOMAIN qualities |-> qualities[n].mrr]),
           queries |-> Len(run.result), summary |-> SummarizeDiagnostics(run.result),
           results |-> SumOf([n \in DOMAIN run.result |-> run.result[n].results])]
    IN  [n \in DOMAIN runs |-> Row(runs[n], Judged(runs[n]))]

-----------------------------------------------------------------------------
(* The session an agent's run is said to have left. *)

NamedIn(t, from) == { n \in 1..Min({from, Len(t.records)}) : t.records[n].id # {} }
IdAt(t, n) == t.records[n].id

\* The session an importer stores a transcript as, the agent's if it has one.
ImportedId(source, t) ==
    LET taken == { n \in DOMAIN t.records : t.records[n].takes }
        named == taken \cap NamedIn(t, Len(t.records))
    IN  CASE source = "codex" /\ named # {} -> IdAt(t, Max(named))
          [] source = "claude-code" /\ taken # {} /\ Min(taken) \in named -> IdAt(t, Min(taken))
          [] source = "antigravity" /\ t.folder # {} -> t.folder
          [] source = "manus" -> {}
          [] OTHER -> {t.stem}

\* The one a saved run takes it for; other agents leave no transcript it knows.
InferredId(source, t) ==
    LET named == NamedIn(t, MaxPeek)
        stem == IF t.jsonl THEN {t.stem} ELSE {}
    IN  CASE source = "antigravity" -> t.folder
          [] source \in {"codex", "claude-code"} /\ t.jsonl /\ named # {} -> IdAt(t, Min(named))
          [] source = "manus" -> {}
          [] OTHER -> stem

\* A session is << workspace, source, identifier >>.
ResolveSession(sessions, workspace, source, id) ==
    sessions \cap ({workspace} \X {source} \X id)

\* What a run cites: a session that is stored already, and the transcript by its
\* identifier or its path.
AgentRun(sessions, workspace, source, t) ==
    LET id == InferredId(source, t)
    IN  [session |-> ResolveSession(sessions, workspace, source, id),
         transcript |-> IF id = {} THEN "path" ELSE "identifier"]

-----------------------------------------------------------------------------
\* What is measured is what was searched: a query is answered in full exactly if
\* each target matches a result, first places count most, no measure exceeds its
\* ideal unless targets share a result, a reranking that drops no candidate
\* changes no recall and moves one up for one down, one that moves nothing
\* changes no measure, and the report of a saved run counts judged queries only.
MeasuresTell(messages, s, judgment) ==
    LET saved == [workspace |-> "w1", kind |-> "search", mode |-> s.way,
                  result |-> << BenchmarkQuery(messages, s, {judgment}), BenchmarkQuery(messages, s, {}) >>]
    IN  \A candidates \in {Candidates(messages, s)}, results \in {Results(messages, s)} :
        \A met \in {Met(messages, results, judgment)},
           report \in {CompareRuns(ListBenchmarkRuns(<< saved >>, "w1", "any", "search", 1))} :
        LET apart == \A m, n \in DOMAIN met : m # n => met[m] \cap met[n] = {}
            quality == EvaluateResults(messages, results, judgment, s.limit)
            plain == EvaluateResults(messages, Take(candidates, s.limit), judgment, s.limit)
            moved == Diagnostics(s, results, candidates)
        IN  met # << >> =>
            /\ (quality.recall = Unit) = (\A n \in DOMAIN met : met[n] # {})
            /\ quality.hits <= quality.expected /\ quality.mrr <= quality.recall
            /\ (quality.first = 1) = (\E n \in DOMAIN met : 1 \in met[n])
            /\ apart => quality.gained <= quality.ideal
            /\ moved.demoted > 0 => moved.promoted > 0
            /\ Len(candidates) <= s.limit =>
                 quality.recall = plain.recall /\ (moved.promoted > 0 => moved.demoted > 0)
            /\ moved.promoted = 0 => quality = plain /\ ~moved.topChanged
            /\ report[1].recall = << quality.recall, 1 >> /\ report[1].mrr = << quality.mrr, 1 >>
            /\ report[1].results = 2 * Len(results) /\ report[1].queries = 2

\* A run cites a session of its workspace and agent only, and cites the one its
\* transcript was imported as, if the transcript is of one session and the
\* agent's importer and the run look at the same place for its name.
EvidenceIsCited(sessions, workspace, source, t) ==
    LET stored == sessions \cup ({workspace} \X {source} \X ImportedId(source, t))
        run == AgentRun(stored, workspace, source, t)
        ids == UNION { IdAt(t, n) : n \in DOMAIN t.records }
        same == \/ source = "antigravity" /\ t.folder # {}
                \/ source = "vscode-copilot" /\ t.jsonl
                \/ /\ source \in {"codex", "claude-code"} /\ t.jsonl
                   /\ Cardinality(ids) <= 1
                   /\ ids # {} => t.records[1].takes /\ t.records[1].id = ids
    IN  /\ \A x \in run.session : x[1] = workspace /\ x[2] = source
        /\ same => run.session = {workspace} \X {source} \X ImportedId(source, t)
=============================================================================
