------------------------------ MODULE Identity ------------------------------
(***************************************************************************)
(* Which workspace a checkout is: the workspaces, their aliases and their   *)
(* fingerprints (storage/repository.py), what a directory shows of itself   *)
(* (workspace_identity.py), and the command that follows a moved checkout.  *)
(*                                                                         *)
(* A checkout is [git, remote, first, manifests]: what git answers, as sets  *)
(* of at most one answer, empty when it fails or runs out of time, and a    *)
(* set of [file, digest, package], the package a set of at most one name.   *)
(* A remote is [url, host, path, login, slash], its host Nothing if none.   *)
(* A fingerprint is << type, detail, value >>.  The store is [root, alias,  *)
(* prints]: a workspace by its root URI (and named by it: a root never      *)
(* changes), a workspace by alias URI, and workspaces with fingerprints.    *)
(***************************************************************************)
EXTENDS Integers, Sequences, SequencesExt, FiniteSets, FiniteSetsExt, Functions

Nothing == "nothing"
Empty == [root |-> << >>, alias |-> << >>, prints |-> {}]

-----------------------------------------------------------------------------
(* What a directory shows. *)

\* The login of a URL goes; that of the scp form, and of a URL without a host,
\* is part of the name.
NormalizeRemote(remote) ==
    IF remote.url /\ remote.host # Nothing
    THEN [remote EXCEPT !.login = Nothing, !.slash = FALSE] ELSE [remote EXCEPT !.slash = FALSE]

ManifestFingerprints(manifests) ==
    { << "file:sha256", m.file, m.digest >> : m \in manifests } \cup
    UNION { { << "package:name-sha256", m.file, name >> : name \in m.package } : m \in manifests }

Discover(checkout) ==
    LET remote == { NormalizeRemote(r) : r \in checkout.remote }
        first == checkout.first
        git == { << "git:remote", "", r >> : r \in remote } \cup
               { << "git:first-commit", "", f >> : f \in first } \cup
               { << "git:remote:first-commit", "", x >> : x \in remote \X first }
    IN  (IF checkout.git THEN git ELSE {}) \cup ManifestFingerprints(checkout.manifests)

\* In quarters.
FingerprintWeight(print) ==
    CASE print[1] = "git:remote:first-commit" -> 8
      [] print[1] = "file:sha256" -> 3
      [] print[1] = "package:name-sha256" -> 2
      [] OTHER -> 4

Weight(prints) ==
    LET Weighing(quarters) == Cardinality({ p \in prints : FingerprintWeight(p) = quarters })
    IN  8 * Weighing(8) + 4 * Weighing(4) + 3 * Weighing(3) + 2 * Weighing(2)

-----------------------------------------------------------------------------
(* The store. *)

Bound(map, uri, workspace) ==
    [u \in DOMAIN map \cup {uri} |-> IF u = uri THEN workspace ELSE map[u]]

Resolve(store, uri) ==
    IF uri \in DOMAIN store.root THEN store.root[uri]
    ELSE IF uri \in DOMAIN store.alias THEN store.alias[uri] ELSE Nothing

\* Fault: an importer that looks only at the roots.
UpsertByRoot(store, uri) ==
    IF uri \in DOMAIN store.root THEN store ELSE [store EXCEPT !.root = Bound(@, uri, uri)]

\* An importer's first call: the alias's workspace, else the root's, else a new one.
UpsertWorkspace(store, uri) ==
    IF uri \in DOMAIN store.alias \/ uri \in DOMAIN store.root THEN store
    ELSE [store EXCEPT !.root = Bound(@, uri, uri)]

\* The workspace an importer at this URI stores into.
Imports(store, uri) ==
    IF uri \in DOMAIN store.alias THEN store.alias[uri] ELSE UpsertWorkspace(store, uri).root[uri]

\* An alias is never taken from another workspace, nor its root.
RegisterAlias(store, uri, alias) ==
    LET workspace == Resolve(store, uri)
        refused == \/ workspace = Nothing
                   \/ alias \in DOMAIN store.root /\ store.root[alias] # workspace
                   \/ alias \in DOMAIN store.alias /\ store.alias[alias] # workspace
    IN  IF refused THEN store ELSE [store EXCEPT !.alias = Bound(@, alias, workspace)]

ListAliases(store, uri) ==
    { a \in DOMAIN store.alias : uri = Nothing \/ store.alias[a] = Resolve(store, uri) }

RecordFingerprints(store, uri, prints) ==
    IF Resolve(store, uri) = Nothing THEN store
    ELSE [store EXCEPT !.prints = @ \cup ({Resolve(store, uri)} \X prints)]

Recommendation(resolves, weight, total, rivals) ==
    CASE resolves -> "already_resolves"
      [] ~resolves /\ 4 * weight >= 3 * total /\ rivals = 1 -> "register_best_candidate"
      [] ~resolves /\ 4 * weight >= 3 * total /\ rivals > 1 -> "ambiguous_top_candidates"
      [] OTHER -> "review_partial_match"

\* The workspaces that have any of the fingerprints, with those they have.
Matched(store, prints) ==
    [w \in { x[1] : x \in { x \in store.prints : x[2] \in prints } } |->
        { p \in prints : << w, p >> \in store.prints }]

\* The matched workspaces with the recommendation of each.  The workspace the
\* URI resolves to is listed first, and it is the first one's rivals that are
\* counted.
Annotated(matched, weight, resolved, prints) ==
    LET top == IF resolved \in DOMAIN weight THEN weight[resolved] ELSE Max(Range(weight))
        rivals == Cardinality({ w \in DOMAIN weight \ {resolved} : weight[w] = top })
    IN  [w \in DOMAIN weight |->
            [weight |-> weight[w], unmatched |-> Cardinality(prints \ matched[w]),
             recommendation |-> Recommendation(w = resolved, weight[w], Weight(prints), rivals)]]

Weights(matched) == [w \in DOMAIN matched |-> Weight(matched[w])]

Suggest(store, uri, prints) ==
    LET matched == Matched(store, prints)
    IN  Annotated(matched, Weights(matched), Resolve(store, uri), prints)

\* suggest-workspace-aliases --register-best, with a least confidence of 3/4.
Eligible(resolved, suggestions, prints) ==
    { w \in DOMAIN suggestions :
        w # resolved /\ 4 * suggestions[w].weight >= 3 * Weight(prints) }

RegisterOnly(store, eligible, uri) ==
    IF \E w \in eligible : eligible = {w} THEN RegisterAlias(store, CHOOSE w \in eligible : TRUE, uri) ELSE store

RegisterBest(store, uri, prints) ==
    RegisterOnly(store, Eligible(Resolve(store, uri), Suggest(store, uri, prints), prints), uri)

-----------------------------------------------------------------------------
(* Properties, over a history of << "import", uri >>, << "alias", uri, uri >>, *)
(* << "prints", uri, checkout >> and << "best", uri, checkout >>.             *)

Step(store, step) ==
    CASE step[1] = "import" -> UpsertWorkspace(store, step[2])
      [] step[1] = "alias" -> RegisterAlias(store, step[2], step[3])
      [] step[1] = "prints" -> RecordFingerprints(store, step[2], Discover(step[3]))
      [] step[1] = "best" -> RegisterBest(store, step[2], Discover(step[3]))

\* The stores a history goes through, from an empty one.
Stores(history) ==
    LET store[n \in 0..Len(history)] == IF n = 0 THEN Empty ELSE Step(store[n - 1], history[n])
    IN  store

\* The URIs known in one store are the same workspaces in another.
Kept(s, t, uris) == \A u \in uris : Resolve(s, u) # Nothing => Resolve(t, u) = Resolve(s, u)

\* Importers agree with every other command about what a URI is.
Agree(store, uris) == \A u \in uris : Resolve(UpsertWorkspace(store, u), u) = Imports(store, u)

\* The workspaces most of a checkout's fingerprints were recorded for.
Most(store, uris, prints) ==
    { w \in uris : 4 * Weight({ p \in prints : << w, p >> \in store.prints }) >= 3 * Weight(prints) }

\* A checkout at a place not known yet becomes the one workspace that has most of
\* its fingerprints, and nobody is told of it if there is none or another.
Follows(before, after, uris, place, prints) ==
    LET most == Most(before, uris, prints)
    IN  Resolve(before, place) = Nothing /\ prints # {} =>
          IF Cardinality(most) = 1
          THEN /\ Resolve(after, place) \in most
               /\ \A w \in most : place \in ListAliases(after, w)
               /\ Suggest(after, place, prints)[Resolve(after, place)].recommendation
                    = "already_resolves"
          ELSE after = before

\* No step ever changes which workspace a known URI is, and importers agree with
\* every other command about it; a checkout that shows the same fingerprints at
\* a place not known yet, whatever login its remote has there, becomes the
\* workspace they were recorded for exactly if no other one has most of them,
\* and no alias is guessed for one that shows less than most.
FollowsMoves(history, uris, place, checkout) ==
    LET stores == Stores(history)
        before == stores[Len(history)]
        prints == Discover(checkout)
        after == RegisterBest(before, place, prints)
    IN  /\ \A n \in 0..Len(history) : Kept(stores[n], before, uris)
        /\ Kept(before, after, uris) /\ Agree(before, uris) /\ Agree(after, uris)
        /\ Follows(before, after, uris, place, prints)
=============================================================================
