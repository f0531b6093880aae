---------------------------- MODULE MCAlgorithms ----------------------------
(* Bounded inputs for the modules without a state of their own: each action  *)
(* gives one of them an input, and the invariant of its theme says what must *)
(* hold of it.                                                               *)
EXTENDS Inputs, TLC

CONSTANTS MaxLines,  \* lines of a transcript
          MaxSteps   \* calls before the one that is looked at

LogGains == << 60, 38, 30, 26, 23, 21 >>

Nothing == [about |-> "nothing"]
Init == input = Nothing
Fresh == input = Nothing

-----------------------------------------------------------------------------
Kinds(source) ==
    CASE source = "codex" -> {"response_item.developer", "event_msg.user_message", "session_meta"}
      [] source = "claude" -> {"user", "assistant", "summary"}
      [] source = "antigravity" -> {"agent.user_request", "model", "tool"}
      [] source = "vscode" -> {"0", "2"}

Lines(source) ==
    { [form |-> f, kind |-> "", says |-> ""] : f \in {"blank", "torn", "cut", "array"} } \cup
    { [form |-> "object", kind |-> k, says |-> s] : k \in Kinds(source), s \in {"", "hello"} } \cup
    { [form |-> "wide", kind |-> k, says |-> "hello"] : k \in Kinds(source) } \cup
    (IF source = "antigravity"
     THEN {[form |-> "object", kind |-> "model", says |-> "<ADDITIONAL_METADATA>"]} ELSE {}) \cup
    (IF source = "vscode" THEN {[form |-> "object", kind |-> "1.long", says |-> "hello"]} ELSE {})

\* A file grows by a line, and a last line that was torn may be complete then.
Growths(source, file) ==
    { Append(file, line) : line \in Lines(source) } \cup
    IF file # << >> /\ Last(file).form \in {"torn", "cut"}
    THEN { Append(Front(file), line) : line \in Lines(source) } ELSE {}

ReadTranscripts ==
    /\ Fresh
    /\ \E source \in {"codex", "claude", "antigravity", "vscode"} :
       \E file \in SeqOf(Lines(source), MaxLines), other \in Lines(source) :
       \E grown \in Growths(source, file) :
          input' = [about |-> "transcripts", source |-> source, file |-> file,
                    grown |-> grown, other |-> << other >>]

Message(id, type, files) == [id |-> id, type |-> type, says |-> "hello", files |-> files]
MessageLists == { << >>, << Message("m1", "user_message", << "a" >>) >>,
                  << Message("", "assistant_message", << "", "a" >>), Message("", "no_object", << >>) >>,
                  << Message("m2", "tool", << "" >>), Message("", "tool", << "" >>) >> }
Answers == { << 200 >>, << 429, 200 >>, << 429, 500, 200 >>, << 429, 429, 429, 200 >> }
Pages == { [codes |-> codes, messages |-> messages, more |-> FALSE] :
           codes \in Answers, messages \in MessageLists }

FetchTasks ==
    /\ Fresh
    /\ \E pages \in SeqOf(Pages, 2), later \in Pages,
          detail \in { << 200 >>, << 404 >> }, files \in { << 429, 200 >>, << 404 >>, << 403 >> } :
          input' = [about |-> "tasks",
                    task |-> [detail |-> detail, files |-> files,
                              pages |-> [n \in DOMAIN pages |->
                                           [pages[n] EXCEPT !.more = n < Len(pages)]]],
                    later |-> << later >>]

-----------------------------------------------------------------------------
\* The secret of a piece is numbered by where the piece stands.
Piece(assigns, body, n) == [assigns |-> assigns, body |-> body, secret |-> n]
Forms == {"word", "long", "long_", "github", "openai", "openai_", "url"}
Pieces(n) == { Piece(FALSE, b, n) : b \in Forms } \cup { Piece(TRUE, b, n) : b \in {"word", "odd"} }
             \cup { Piece(a, "bearer", 0) : a \in BOOLEAN } \cup { Piece(FALSE, b, 0) : b \in {"word", "odd"} }
Texts == {<< >>} \cup { << a >> : a \in Pieces(1) } \cup { << a, b >> : a \in Pieces(1), b \in Pieces(2) }
Long == { << a, b, c >> : a \in Pieces(1), b \in Pieces(2), c \in Pieces(3) }
Single == { << a >> : a \in Pieces(1) }
Word == Piece(FALSE, "word", 0)
Hiding == {<< >>} \cup { << Piece(FALSE, b, 1) >> : b \in Forms } \cup { << Piece(TRUE, "word", 1) >> }
Text(of) == [is |-> "text", of |-> of]
Leaves(texts) == { Text(t) : t \in texts } \cup
                 {[is |-> "null", of |-> << >>], [is |-> "number", of |-> << >>],
                  [is |-> "list", of |-> << >>]}
Entries(key, items, sensitive) ==
    { [key |-> key, sensitive |-> sensitive, item |-> i] : i \in items }
Objects(items, hidden) ==
    { [is |-> "object", of |-> << e >>] :
      e \in Entries(<< Word >>, items, FALSE) \cup
            Entries(<< Piece(FALSE, "github", 2) >>, items, FALSE) \cup
            Entries(<< Word >>, hidden, TRUE) }
Lists(items) == { [is |-> "list", of |-> << i, j >>] : i \in items, j \in items }

Redact ==
    /\ Fresh
    /\ LET small == Leaves({<< >>} \cup Single)
           hidden == Leaves(Hiding) \cup Lists(Leaves(Hiding)) \cup Objects(Leaves(Hiding), {})
           deep == Objects(small, Leaves(Hiding))
       IN  \E value \in Leaves(Texts \cup Long) \cup Lists(small \cup deep) \cup Objects(Leaves(Texts) \cup deep, hidden) :
             input' = [about |-> "redaction", value |-> value]

-----------------------------------------------------------------------------
Item(sort, name, lines, calls, target, within) ==
    [sort |-> sort, name |-> name, lines |-> lines, calls |-> calls, target |-> target,
     default |-> FALSE, within |-> within]
File(path, language, by, items) ==
    [path |-> << path >>, language |-> language, module |-> << path >>, items |-> items, by |-> by]

Helper == << "b", "helper" >>

\* A module that uses another, as it was and as it became.
UserOf(target, language, by) ==
    { File("a", language, by,
           << Item("import", "helper", << 1, 1 >>, {}, target, 0),
              Item("class", "K", << 2, 6 >>, {}, << >>, 0),
              Item("def", "m", << 2, 2 >>, {<< "helper" >>, << "self", "n" >>}, << >>, 2),
              Item("class", "I", << 3, 4 >>, {}, << >>, 2),
              Item("def", "n", << 4, 4 >>, {}, << >>, 4) >>),
      File("a", language, by,
           << Item("import", "helper", << 1, 1 >>, {}, target, 0),
              Item("def", "n", << 3, 5 >>, {<< "helper" >>}, << >>, 0),
              Item("def", "n", << 6, 6 >>, {<< "n" >>}, << >>, 0) >>) }
Used(language, by) ==
    { File("b", language, by, << [Item("def", "helper", << 1, 3 >>, {}, << >>, 0) EXCEPT !.default = d] >>)
      : d \in BOOLEAN }
\* The module in between hands the name on, by its name, with all the names, or
\* as the default of the other.
Between ==
    { File("i", "ts", "own", << Item("reexport", "helper", << 1, 1 >>, {}, << "b", n >>, 0) >>)
      : n \in {"helper", "default"} } \cup
    { File("i", "ts", "own", << Item("all", "star", << 1, 1 >>, {}, << "b" >>, 0) >>) }

\* Another file of the module that is used.
Twin == [File("twin", "python", "own", << Item("def", "helper", << 2, 2 >>, {}, << >>, 0) >>)
         EXCEPT !.module = << "b" >>]

Index(files) == << "index", files >>
Reference == [target |-> Helper, path |-> << "root", "a" >>, line |-> 3]

IndexFiles ==
    /\ Fresh
    /\ \E by \in {"own", "tree-sitter"}, language \in {"python", "ts"} :
       \E a \in UserOf(IF language = "ts" THEN << "i", "helper" >> ELSE Helper, language, by),
          b \in Used(language, "own"), i \in Between :
       \E was \in UserOf(Helper, language, by) :
       \E files \in IF language = "ts" THEN {{a, b, i}} ELSE {{a, b}, {a, b, Twin}} :
       LET steps == { Index({f}) : f \in files \cup {was} } \cup
                    { Index(files), << "refer", {Reference}, TRUE >>,
                      << "record", [path |-> << "a" >>, hunks |-> << >>] >> }
       IN \E history \in SeqOf(steps, MaxSteps), last \in files, line \in 0..4 :
             input' = [about |-> "index", history |-> history, files |-> files, last |-> last,
                       reference |-> [Reference EXCEPT !.line = line]]

Hunk(n, body) == [old |-> 1, new |-> n, body |-> body]
Ordinary == { Hunk(n, body) : n \in 1..4, body \in SeqOf({"+", "-", " "}, MaxLines + 1) \ {<< >>} }
\* With a line whose own text begins like a sign, or without a line feed.
Odd == { Hunk(n, << sign >> \o rest) :
         n \in 1..4, sign \in {"++", "--", "end"}, rest \in SeqOf({"+", "-"}, MaxLines) }

LinkChanges ==
    /\ Fresh
    /\ \E file \in UserOf(Helper, "python", "own"), was \in UserOf(Helper, "python", "own") :
       \E before \in { << >>, << Index({was}) >> }, hunk \in Ordinary \cup Odd,
          more \in {<< >>} \cup { << h >> : h \in { h \in Ordinary : Len(h.body) = 1 } } :
          input' = [about |-> "changes", history |-> before, file |-> file,
                    change |-> [path |-> << "a" >>, hunks |-> << hunk >> \o more]]

-----------------------------------------------------------------------------
Heard(workspace, rank, trigram, distance, words) ==
    [workspace |-> workspace, source |-> "codex", rank |-> rank, trigram |-> trigram,
     distance |-> distance, words |-> words]
Heards == { Heard("w1", r, t, d, w) :
              << r, t, d, w >> \in { << 6, 0, 10, 0 >>, << 6, 50, None, 0 >>, << 2, 54, 90, 40 >>,
                                     << 6, 50, 10, 40 >>, << None, 0, 70, 0 >>,
                                     << None, 0, None, 0 >> } }
          \cup { Heard("w2", 10, 50, 0, 40) }
Scores == { [n \in {} |-> 0], [n \in {2} |-> 0], [n \in {1, 3} |-> n] }
Ranking == { << "none", [n \in {} |-> 0] >>, << "local", [n \in {} |-> 0] >> }
           \cup { << "api", api >> : api \in Scores }

SearchMemory ==
    /\ Fresh
    /\ \E messages \in SeqOf(Heards, 3), way \in {"keyword", "vector", "hybrid"},
          workspace \in {"any", "w1"}, limit \in 1..2, candidates \in {None, 1, 3},
          ranking \in Ranking :
          input' = [about |-> "search", messages |-> messages,
                    search |-> [way |-> way, scope |-> [workspace |-> workspace, source |-> "codex"],
                                limit |-> limit, candidates |-> candidates,
                                mode |-> ranking[1], api |-> ranking[2]]]

Committed(id, commit, files) == [id |-> id, commit |-> commit, files |-> files]
Changed(path, entities) == [path |-> << path >>, entities |-> entities]
Commits == { Committed(c[1], c[2], f) : c \in { << 2, << 1 >> >>, << 1, << 1, 2 >> >>, << 3, << 1, 3 >> >> },
               f \in { << Changed("a", {1}) >>, << Changed("a", {1, 2}), Changed("b", {2, 4}) >>,
                       << Changed("b", {1, 3}) >> } }
Histories == { s \in SeqOf(Commits, 2) : Len(s) = 2 => s[1].id # s[2].id }
Named(name, line) == [name |-> << name >>, qualified |-> << "m", name >>, line |-> line]
Entities == << Named("x", 3), Named("y", 1), Named("x", 2), Named("z", 2) >>
\* More calls than an explanation has room for.
Crowd == [n \in 1..12 |-> << 1 + ((n - 1) \div 3), 1 + ((n - 1) % 3) >>]

ExplainChanges ==
    /\ Fresh
    /\ \E changes \in Histories, calls \in SeqOf({1, 2} \X {1, 2, 4}, 2) \cup {Crowd},
          << path, ref >> \in { << << >>, << 1 >> >>, << << >>, << 1, 2 >> >>, << << "a" >>, << 2 >> >> },
          << symbol, limit >> \in { << << >>, 1 >>, << << "x" >>, 2 >>, << << "m" >>, 4 >> } :
          input' = [about |-> "explain", entities |-> Entities, changes |-> changes, calls |-> calls,
                    path |-> path, symbol |-> symbol, limit |-> limit, ref |-> ref]

-----------------------------------------------------------------------------
Value(at, counts) == [at |-> at, counts |-> counts, usage |-> {}]
Counted(asked, total) == ("input" :> asked) @@ ("total" :> total)
Plain(at) == Value(at, << >>)
Used3(at) == Value(at, Counted(3, Usage!None))
Used5(at) == Value(at, ("output" :> 5) @@ ("cached" :> 2))
Unread == << Value(<< >>, Counted(Usage!None, Usage!None)) >>
InList == << Plain(<< >>), Plain(<< "a" >>), Used3(<< "a", "1" >>), Used5(<< "a", "2" >>) >>
Raws == { << Plain(<< >>) >>, Unread, InList,
          << [Value(<< >>, Counted(9, 9)) EXCEPT !.usage = {Counted(3, Usage!None)}],
             Used3(<< "usage" >>) >>,
          << Plain(<< >>), Plain(<< "a" >>), Plain(<< "a", "b" >>), Used5(<< "a", "b", "1" >>) >> }
Says(by, tokens) == [by |-> by, tokens |-> tokens]
Talks == { << >>, << Says("user", 2) >>, << Says("user", 2), Says("assistant", 1), Says("tool", 1) >> }
Sessions(source) ==
    { [source |-> source, id |-> 0, model |-> "m", raw |-> raw, messages |-> said,
       heard |-> IF source = "codex" THEN << >> ELSE << Says("user", 4), Says("tool", 1) >>]
      : raw \in SeqOf(Raws, 2), said \in Talks }
Price(from, to, rates) == [model |-> "m", from |-> from, to |-> to, rates |-> rates]
Rates == [c \in Usage!Parts |-> IF c = "cached" THEN Usage!None ELSE 2]
Known(source) == { s \in Sessions(source) :
                     s.raw \in { << r >> : r \in {Unread, InList} } }
Steps(source) ==
    { << "import", w, s >> : w \in {"w1", "w2"}, s \in Known(source) } \cup
    { << "price", Price(0, to, Rates) >> : to \in {1, Usage!None} } \cup { << "wait" >> }

CountUsage ==
    /\ Fresh
    /\ \E source \in {"codex", "vscode-copilot"} :
       \E history \in SeqOf(Steps(source), MaxSteps), session \in Sessions(source) :
          input' = [about |-> "usage", workspace |-> "w1", history |-> history, session |-> session,
                    evidence |-> [prompts |-> 1, outputs |-> FALSE]]

QueueItem(run, type, status, queued) == [run |-> run, type |-> type, status |-> status, queued |-> queued]
Queues == SeqOf({ QueueItem(1, "dispatch_spawn", "approved", 2), QueueItem(1, "dispatch_spawn", "approved", 1),
                  QueueItem(1, "finalize_ready_run", "approved", 0),
                  QueueItem(2, "dispatch_spawn", "blocked", 0), QueueItem(0, "review", "approved", 0) }, 2)
Budgets == { [actions |-> a, spawns |-> Usage!None, tokens |-> t, cost |-> c, window |-> 1, perSpawn |-> e,
              costPerSpawn |-> 10] : << a, c >> \in { << Usage!None, Usage!None >>, << 1, 20 >> },
                                     t \in {9, 20, 40}, e \in {10, 20} }
           \cup { [actions |-> Usage!None, spawns |-> 1, tokens |-> 20, cost |-> Usage!None, window |-> 0,
                   perSpawn |-> 10, costPerSpawn |-> 0] }

SpendBudget ==
    /\ Fresh
    /\ \E history \in SeqOf({<< "wait" >>} \cup { << "import", "w1", s >> :
                                s \in { s \in Known("codex") : Len(s.messages) < 3 } }, MaxSteps),
          items \in Queues, << limit, workers >> \in { << 1, 1 >>, << 2, 1 >>, << 2, 2 >> }, b \in Budgets,
          session \in { s \in Known("codex") : s.messages = << >> } :
          input' = [about |-> "budget", workspace |-> "w1", history |-> history, items |-> items,
                    limit |-> limit, workers |-> workers, budget |-> b, session |-> session]

-----------------------------------------------------------------------------
Remote(login, slash) == [url |-> TRUE, host |-> "host", path |-> "p", login |-> login, slash |-> slash]
Manifests == {[file |-> "package.json", digest |-> "d", package |-> {"n"}],
              [file |-> "uv.lock", digest |-> "d", package |-> {}]}
Checkout(git, remote, manifests) ==
    [git |-> git, remote |-> remote, first |-> {"c"}, manifests |-> manifests]
Checkouts == { Checkout(TRUE, r, m) : r \in { {}, {Remote("me", TRUE)} }, m \in {{}, Manifests} }
             \cup { Checkout(FALSE, {}, m) : m \in {{}, Manifests} }
Moved == Checkouts \cup { Checkout(TRUE, {Remote("you", FALSE)}, m) : m \in {{}, Manifests} }
Homes == {"a", "b", "c"}
IdentitySteps ==
    { << "import", u >> : u \in Homes } \cup { << "alias", u, v >> : u \in Homes, v \in Homes }
    \cup ({"prints", "best"} \X Homes \X Checkouts)

FollowMoves ==
    /\ Fresh
    /\ \E was \in Checkouts, checkout \in Moved, steps \in SeqOf(IdentitySteps, MaxSteps) :
          input' = [about |-> "identity", checkout |-> checkout, uris |-> Homes, place |-> "c",
                    history |-> << << "import", "a" >>, << "prints", "a", was >> >> \o steps]

-----------------------------------------------------------------------------
Targets == { [f \in {"at"} |-> n] : n \in 1..2 } \cup { [f \in {"source"} |-> "codex"] }
           \cup { [f \in {"workspace"} |-> "w2"] }
           \cup { ("at" :> 1) @@ ("workspace" :> "w1") }
Judgments == { [explicit |-> TRUE, expected |-> e, fields |-> << >>] : e \in SeqOf(Targets, 1) \cup ({ [f \in {"at"} |-> 1], [f \in {"source"} |-> "codex"] } \X Targets) }
             \cup { [explicit |-> FALSE, expected |-> << >>,
                     fields |-> << << "at", 3 >>, << "workspace", "w1" >> >>] }
Spoken == { h \in Heards : h.rank # None }

Measure ==
    /\ Fresh
    /\ \E messages \in { m \in SeqOf({ h \in Spoken : h.distance # None }, 3) : IsInjective(m) /\ Len(m) # 2 },
          way \in {"keyword", "hybrid"}, candidates \in {None, 1}, limit \in {1, 3},
          ranking \in Ranking, judgment \in Judgments :
          input' = [about |-> "benchmark", messages |-> messages, judgment |-> judgment,
                    search |-> [way |-> way, scope |-> [workspace |-> "any", source |-> "codex"],
                                limit |-> limit, candidates |-> candidates,
                                mode |-> ranking[1], api |-> ranking[2]]]

Records == [id : {{}, {"i"}, {"j"}}, takes : BOOLEAN]
CiteEvidence ==
    /\ Fresh
    /\ \E source \in {"codex", "claude-code", "antigravity", "vscode-copilot", "manus"}, jsonl \in BOOLEAN,
          folder \in {{}, {"i"}}, records \in SeqOf(Records, MaxPeek + 1),
          sessions \in {{}} \cup { {x} : x \in {"w1", "w2"} \X {"codex"} \X {"i", "stem"} } :
          input' = [about |-> "evidence", sessions |-> sessions, workspace |-> "w1", source |-> source,
                    transcript |-> [stem |-> "stem", jsonl |-> jsonl, folder |-> folder, records |-> records]]

-----------------------------------------------------------------------------
Task(status, leased) == [status |-> status, leased |-> leased]
Tasks == { Task("done", FALSE), Task("ready", FALSE), Task("claimed", TRUE) }
Found == [severity : {"P1", "P3"}, open : BOOLEAN]
Handoffs == { << >>, FinishHandoff(<< >>, "a", "blocked"),
              RecordHandoff(CloseHandoff(FinishHandoff(<< >>, "a", "done"), 1, "closed"),
                              << "b", "" >>, "c") }

ReportRun ==
    /\ Fresh
    /\ \E tasks \in SeqOf(Tasks, 3), edges \in SUBSET { << 1, 2 >>, << 2, 3 >> },
          findings \in { << f, f >> : f \in Found } \cup ({[severity |-> "P3", open |-> FALSE]} \X Found \X Found),
          approvals \in SeqOf(BOOLEAN, 1), commands \in {0, 3}, risk \in BOOLEAN,
          handoffs \in Handoffs, action \in {"", "b"} :
          input' = [about |-> "run", steps |-> << "b", "", "d" >>, action |-> action,
                    run |-> [status |-> "active", highRisk |-> risk, tasks |-> tasks, findings |-> findings,
                             edges |-> { e \in edges : e[2] \in DOMAIN tasks },
                             approvals |-> approvals, commands |-> commands, handoffs |-> handoffs]]

-----------------------------------------------------------------------------
Forget == input # Nothing /\ input' = Nothing

Next == ReadTranscripts \/ FetchTasks \/ Redact \/ IndexFiles \/ LinkChanges
        \/ SearchMemory \/ ExplainChanges \/ CountUsage \/ SpendBudget
        \/ FollowMoves \/ Measure \/ CiteEvidence \/ ReportRun \/ Forget
Spec == Init /\ [][Next]_input
=============================================================================
