----------------------------- MODULE Retrieval -----------------------------
(***************************************************************************)
(* Searching the memory and explaining a change (src/geond/retrieval).      *)
(*                                                                         *)
(* Messages are a sequence, the newest first, of                            *)
(*   [workspace, source, rank, trigram, distance, words]                    *)
(* rank and trigram the scores of the keyword query, rank None where it     *)
(* does not match; distance to the vector of the query, None without an     *)
(* embedding; words the score of the words in common.  Scores are in        *)
(* sixtieths.                                                               *)
(***************************************************************************)
EXTENDS Listings

None == -1000
Unit == 60

InScope(messages, scope) ==
    { n \in DOMAIN messages :
        /\ scope.workspace \in {"any", messages[n].workspace}
        /\ scope.source \in {"any", messages[n].source} }

\* Fault: the candidates asked for, however few.
CandidatesAskedFor(limit, candidates, mode) ==
    IF mode = "none" THEN limit ELSE IF candidates = None THEN 3 * limit ELSE candidates

CandidateLimit(limit, candidates, mode) ==
    IF mode = "none" THEN limit
    ELSE Max({limit, IF candidates = None THEN 3 * limit ELSE candidates})

\* Results are [at, score], at the place of the message.
Base(result, place) == Max({result.score, 0}) + Unit \div (place + 1)

LocalRerank(messages, results, limit) ==
    LET total == [k \in DOMAIN results |-> Base(results[k], k) + messages[results[k].at].words]
        before == { p \in (DOMAIN results) \X (DOMAIN results) :
                      \/ total[p[1]] > total[p[2]]
                      \/ total[p[1]] = total[p[2]] /\ p[1] < p[2] }
    IN  Take(Places(results, InOrder(DOMAIN results, before)), limit)

\* The service scores some of the candidates: scored ones first, by that
\* score; the others after them.
ApiRerank(results, limit, api) ==
    LET scored == { k \in DOMAIN results : results[k].at \in DOMAIN api }
        total == [k \in DOMAIN results |->
                    IF k \in scored THEN api[results[k].at] ELSE Base(results[k], k)]
        before == { p \in (DOMAIN results) \X (DOMAIN results) :
                      \/ p[1] \in scored /\ p[2] \notin scored
                      \/ /\ (p[1] \in scored) = (p[2] \in scored)
                         /\ \/ total[p[1]] > total[p[2]]
                            \/ total[p[1]] = total[p[2]] /\ p[1] < p[2] }
    IN  Take(Places(results, InOrder(DOMAIN results, before)), limit)

Rerank(messages, results, limit, mode, api) ==
    CASE mode = "local" -> LocalRerank(messages, results, limit)
      [] mode = "api" -> ApiRerank(results, limit, api)
      [] OTHER -> Take(results, limit)

Scored(order, score) == [k \in DOMAIN order |-> [at |-> order[k], score |-> score[order[k]]]]

\* search_dev_memory before reranking.
Keyword(messages, scope, limit) ==
    LET hits == { n \in InScope(messages, scope) : messages[n].rank # None }
        Before(m, n) ==
            LET a == messages[m]  b == messages[n]
            IN  \/ a.rank > b.rank
                \/ a.rank = b.rank /\ a.trigram > b.trigram
                \/ a.rank = b.rank /\ a.trigram = b.trigram /\ m < n
        score == [n \in hits |-> messages[n].rank + messages[n].trigram]
    IN  Take(Scored(InOrder(hits, { p \in hits \X hits : Before(p[1], p[2]) }), score), limit)

\* vector_search_dev_memory before reranking.
Vector(messages, scope, limit) ==
    LET hits == { n \in InScope(messages, scope) : messages[n].distance # None }
        Before(m, n) == \/ messages[m].distance < messages[n].distance
                        \/ messages[m].distance = messages[n].distance /\ m < n
        score == [n \in hits |-> Unit - messages[n].distance]
    IN  Take(Scored(InOrder(hits, { p \in hits \X hits : Before(p[1], p[2]) }), score), limit)

\* The place of a message in a list of results, 0 where it is not in it.
PlaceOf(n, results) ==
    LET at == { k \in DOMAIN results : results[k].at = n }
    IN  IF at = {} THEN 0 ELSE CHOOSE k \in at : TRUE

Reciprocal(place) == IF place = 0 THEN 0 ELSE Unit \div place

\* The score is the sum of the reciprocals, and equals keep the order they were
\* met in: those of the first list, then the others of the second.
Fused(keyword, vector) ==
    LET found == { r.at : r \in Range(keyword) \cup Range(vector) }
        first == [n \in found |-> PlaceOf(n, keyword)]
        second == [n \in found |-> PlaceOf(n, vector)]
        score == [n \in found |-> Reciprocal(first[n]) + Reciprocal(second[n])]
        met == [n \in found |-> IF first[n] # 0 THEN first[n] ELSE Len(keyword) + second[n]]
        before == { p \in found \X found :
                      \/ score[p[1]] > score[p[2]]
                      \/ score[p[1]] = score[p[2]] /\ met[p[1]] < met[p[2]] }
    IN  Scored(InOrder(found, before), score)

\* hybrid_search_dev_memory before reranking, each list cut at the limit.
Hybrid(messages, scope, limit) ==
    Fused(Keyword(messages, scope, limit), Vector(messages, scope, limit))

Search(way, messages, scope, limit) ==
    CASE way = "keyword" -> Keyword(messages, scope, limit)
      [] way = "vector" -> Vector(messages, scope, limit)
      [] way = "hybrid" -> Hybrid(messages, scope, limit)

\* A search, [way, scope, limit, candidates, mode, api].
Candidates(messages, s) ==
    Search(s.way, messages, s.scope, CandidateLimit(s.limit, s.candidates, s.mode))

Results(messages, s) == Rerank(messages, Candidates(messages, s), s.limit, s.mode, s.api)

-----------------------------------------------------------------------------
(* Entities are a sequence, the newest first, of [name, qualified, line],     *)
(* names sequences of letters; changes one of [id, commit, files], ids in the *)
(* order of their text, commit a sequence of digits; a file is [path,         *)
(* entities], with the places of the entities that are linked to it.  Calls   *)
(* are a sequence of << caller, callee >>, by their places.                   *)

\* LIKE '%...%', of letters of one case and no wildcards.
Within(part, path) == \E n \in 0 .. (Len(path) - Len(part)) : IsPrefix(part, SubSeq(path, n + 1, Len(path)))

\* ORDER BY created_at DESC LIMIT: as many of the places as it allows.
Newest(places, limit) == { n \in places : Cardinality({ m \in places : m < n }) < limit }

CallImpact(calls, entities, limit) ==
    LET met == { n \in DOMAIN calls : calls[n][1] \in entities \/ calls[n][2] \in entities }
        rows == { calls[n] : n \in Newest(met, limit) }
    IN  [callers |-> { row \in rows : row[2] \in entities },
         callees |-> { row \in rows : row[1] \in entities }]

\* The links an explanation has room for, and the calls.
TouchLimit(limit) == Max({limit * 5, limit})
CallLimit(limit) == Max({limit * 3, 10})

\* The links of entities to the files of changes, << entity, << change, file >> >>.
Links(changes, files) == UNION { changes[f[1]].files[f[2]].entities \X {f} : f \in files }

FilesOf(changes) == UNION { {c} \X DOMAIN changes[c].files : c \in DOMAIN changes }

\* By the id of the change, and the line and the name of the entity.
LinkOrder(entities, changes, links) ==
    LET Key(k) == << changes[k[2][1]].id, entities[k[1]].line, k[1], k[2][2] >>
    IN  { p \in links \X links :
            \E n \in 1..4 : /\ Key(p[1])[n] < Key(p[2])[n]
                            /\ \A m \in 1..(n - 1) : Key(p[1])[m] = Key(p[2])[m] }

FilesMet(changes, path) ==
    { f \in FilesOf(changes) : Within(path, changes[f[1]].files[f[2]].path) }

\* As many of the links to the files on a path as there is room for.
Shown(entities, changes, path, limit) ==
    LET links == Links(changes, FilesMet(changes, path))
    IN  { k \in links : Cardinality({ j \in links : << j, k >> \in LinkOrder(entities, changes, links) })
                          < TouchLimit(limit) }

\* The snapshots and messages that name the path are left out.
ExplainChange(entities, changes, calls, path, limit) ==
    LET met == FilesMet(changes, path)
        shown == Shown(entities, changes, path, limit)
        before == { p \in met \X met : \/ p[1][1] < p[2][1]
                                       \/ p[1][1] = p[2][1] /\ p[1][2] < p[2][2] }
    IN  [changes |-> Take(InOrder(met, before), limit),
         touched |-> { << k[1], k[2][1] >> : k \in shown },
         impact |-> CallImpact(calls, { k[1] : k \in shown }, CallLimit(limit))]

\* The newest entities whose name has the symbol in it, each with its changes,
\* callers and callees; the references to them are left out.
SymbolContext(entities, changes, calls, symbol, limit) ==
    LET named == { e \in DOMAIN entities : \/ Within(symbol, entities[e].name)
                                           \/ Within(symbol, entities[e].qualified) }
    IN  [e \in Newest(named, limit) |->
          [changes |-> { c \in DOMAIN changes : \E f \in DOMAIN changes[c].files :
                           e \in changes[c].files[f].entities },
           callers |-> { c[1] : c \in { c \in Range(calls) : c[2] = e } },
           callees |-> { c[2] : c \in { c \in Range(calls) : c[1] = e } }]]

\* Fault: the newest change whose commit begins so.
NewestDetail(changes, ref) ==
    LET begun == { c \in DOMAIN changes : IsPrefix(ref, changes[c].commit) }
    IN  [found |-> IF begun = {} THEN {} ELSE {Min(begun)}, ambiguous |-> FALSE]

\* By the whole commit, the newest change of it; else by a prefix, if there is
\* only one change with it.
ChangesetDetail(changes, ref) ==
    LET whole == { c \in DOMAIN changes : changes[c].commit = ref }
        begun == { c \in DOMAIN changes : IsPrefix(ref, changes[c].commit) }
    IN  IF whole # {} THEN [found |-> {Min(whole)}, ambiguous |-> FALSE]
        ELSE [found |-> IF Cardinality(begun) = 1 THEN begun ELSE {},
              ambiguous |-> Cardinality(begun) > 1]

\* What is cited of an explanation: three changes, some five entities, callers
\* and callees, and the first chat message unless the mode is strict.
Narrative(explained, messages, strict) ==
    LET some(set, k) == CHOOSE s \in SUBSET set : Cardinality(s) = Min({k, Cardinality(set)})
    IN  [changes |-> { r[1] : r \in Range(Take(explained.changes, 3)) },
         entities |-> some({ t[1] : t \in explained.touched }, 5),
         calls |-> some(explained.impact.callers, 5) \cup some(explained.impact.callees, 5),
         chat |-> IF strict THEN << >> ELSE Take(messages, 1)]

-----------------------------------------------------------------------------
(* A search finds messages of its scope only, none twice, and as many as it  *)
(* may of those that match; reranking that has nothing to say of any message *)
(* leaves the order of the candidates, and a message a reranking service     *)
(* scored comes before all it did not.                                       *)
SearchIsSound(messages, s) ==
    LET matching == { n \in InScope(messages, s.scope) :
                        \/ s.way # "vector" /\ messages[n].rank # None
                        \/ s.way # "keyword" /\ messages[n].distance # None }
        silent == \/ s.mode = "local" /\ \A n \in matching : messages[n].words = 0
                  \/ s.mode = "api" /\ DOMAIN s.api = {}
    IN  \A rows \in {Results(messages, s)}, candidates \in {Candidates(messages, s)} :
        LET found == [k \in DOMAIN rows |-> rows[k].at]
        IN  /\ IsInjective(found)
            /\ Range(found) \subseteq matching
            /\ Len(found) = Min({s.limit, Cardinality(matching)})
            /\ s.way # "keyword" /\ silent =>
                 \A k \in DOMAIN found : found[k] = candidates[k].at
            /\ s.mode = "api" => \A j, k \in DOMAIN found :
                 found[j] \in DOMAIN s.api /\ found[k] \notin DOMAIN s.api => j < k

\* The two ways to the evidence agree, wherever both show an entity: a change
\* explained as touching it is in its context, and each change of its context is
\* explained so if there are no more links than an explanation has room for; a
\* caller that is explained is one in its context, and each of them is if there
\* are no more calls than there is room for.  A reference to a change never picks
\* one of several, and a strict narrative has no chat in it.
SameEvidence(entities, changes, calls, path, symbol, limit, ref, messages) ==
    LET explained == ExplainChange(entities, changes, calls, path, limit)
        context == SymbolContext(entities, changes, calls, symbol, limit)
        detail == ChangesetDetail(changes, ref)
        told == Narrative(explained, messages, TRUE)
    IN  /\ \A t \in explained.touched : t[1] \in DOMAIN context => t[2] \in context[t[1]].changes
        /\ path = << >> /\ Cardinality(Links(changes, FilesOf(changes))) <= TouchLimit(limit) =>
             \A e \in DOMAIN context : \A c \in context[e].changes : << e, c >> \in explained.touched
        /\ \A x \in explained.impact.callers :
             /\ x[2] \in DOMAIN context => x[1] \in context[x[2]].callers
             /\ x[1] \in DOMAIN context => x[2] \in context[x[1]].callees
        /\ Len(calls) <= CallLimit(limit) =>
             \A t \in explained.touched : t[1] \in DOMAIN context =>
               context[t[1]].callers = { x[1] : x \in { x \in explained.impact.callers : x[2] = t[1] } }
        /\ \A c \in detail.found : IsPrefix(ref, changes[c].commit)
             /\ \A d \in DOMAIN changes : IsPrefix(ref, changes[d].commit)
                   => d = c \/ changes[c].commit = ref
        /\ detail.ambiguous => detail.found = {}
        /\ told.chat = << >>
=============================================================================
