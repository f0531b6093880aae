------------------------------- MODULE Inputs -------------------------------
(***************************************************************************)
(* What the modules without a state promise of the input they are given: a  *)
(* record that says in "about" which of them it is for.                     *)
(***************************************************************************)
EXTENDS RunReports, Benchmark

CONSTANTS Nesting, \* of the values that are redacted
          Depth    \* of the values searched for usage

ASSUME NestingIsNat == Nesting \in Nat

VARIABLE input

Identity == INSTANCE Identity
Redaction == INSTANCE Redaction
Transcripts == INSTANCE Transcripts
CodeIndex == INSTANCE CodeIndex
Usage == INSTANCE Usage

\* Reading a transcript again as it grows, next to any other one, neither loses nor
\* moves what was read of it, and a task fetched page by page from a service that
\* fails for a while has every message once, in order, with stable names (the
\* parsers of src/geond/adapters).
TranscriptsStand ==
    /\ input.about = "transcripts" =>
         Transcripts!ImportStands(input.source, input.file, input.grown, input.other)
    /\ input.about = "tasks" => Transcripts!TaskIsWhole(input.task, input.later)

\* Nothing that is redacted still holds a secret in a form the rules know or under
\* a sensitive key, at any depth; redacting it again changes nothing. A token after
\* Bearer is not known where the Bearer is the value of an assignment, as in
\* AUTH_TOKEN=Bearer <token>: the first rule hides the word Bearer, and the second
\* finds the token no more; nor is what it has behind an underscore (redaction.py).
SecretsStayOut ==
    input.about = "redaction" => Redaction!RedactsForGood(input.value)

\* A file that is indexed with the others in place has the edges it would have if all
\* were indexed at once, whatever was indexed before and in whatever order, as far as
\* the names at their ends are nothing else's; no edge and no link points at what is
\* gone, and an imported reference comes from the innermost definition around it.
\* Edges from the others into the file are lost until they are indexed again, and
\* nothing is claimed of them (storage/code_graph.py).
GraphIsExact ==
    input.about = "index" =>
        CodeIndex!IndexIsExact(input.history, input.files, input.last, input.reference)

\* A recorded change is linked to the entities with a line it adds, and to none that
\* lie outside its hunks, except for added lines that begin with ++ and those after a
\* deleted line that began with -- (storage/changesets.py).
ChangesLinked ==
    input.about = "changes" => CodeIndex!ChangesAreLinked(input.history, input.file, input.change)

\* Keyword, vector and hybrid search, reranked or not, find messages of their scope,
\* none twice, as many as they may (retrieval/simple.py).
SearchesAreSound ==
    input.about = "search" => SearchIsSound(input.messages, input.search)

\* The explanation of a change, the context of a symbol and the detail of a commit
\* do not contradict one another, as far as their limits show both (retrieval/simple.py,
\* narrative.py).
EvidenceAgrees ==
    input.about = "explain" =>
        SameEvidence(input.entities, input.changes, input.calls, input.path, input.symbol,
                     input.limit, input.ref, << "chat" >>)

\* A moved checkout becomes the workspace it was, and no known place changes
\* its workspace (workspace_identity.py, suggest-workspace-aliases).
MovesAreFollowed ==
    input.about = "identity" =>
        Identity!FollowsMoves(input.history, input.uris, input.place, input.checkout)

\* What a benchmark says of a search is what the search did, and what it cites
\* of an agent's run is that run's session (storage/benchmark.py).
BenchmarksTell ==
    /\ input.about = "benchmark" => MeasuresTell(input.messages, input.search, input.judgment)
    /\ input.about = "evidence" =>
         EvidenceIsCited(input.sessions, input.workspace, input.source, input.transcript)

\* The task graph, the readiness report, the summary and the brief of a run say
\* the same of it (storage/orchestration.py).
ReportsAgree ==
    input.about = "run" => SaidAlike(input.run, input.steps, input.action)

\* A transcript imported again as it grows, whichever way its usage is found, is
\* counted once (storage/usage.py), and what a daemon starts within its token
\* budget stays within it if the workers of an action together use no more than
\* it was estimated to (orchestrator_budget.py).
UsageIsAccounted ==
    /\ input.about = "usage" =>
         Usage!UsageCountedOnce(input.history, input.workspace, input.session, input.evidence)
    /\ input.about = "budget" =>
         Usage!BudgetHolds(input.history, input.workspace, input.items, input.limit,
                           input.workers, input.budget, input.session)
=============================================================================
