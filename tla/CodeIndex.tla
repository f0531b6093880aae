----------------------------- MODULE CodeIndex -----------------------------
(***************************************************************************)
(* The code graph: what the indexers of src/geond/code_graph read from a    *)
(* file, how storage/code_graph.py stores it and finds the names it refers  *)
(* to, and how storage/changesets.py links recorded changes to it.          *)
(*                                                                         *)
(* A file is [path, language, module, items, by], by the indexer, "own" or  *)
(* "tree-sitter"; an item of it                                             *)
(*   [sort |-> "class" | "def" | "import" | "reexport" | "all",             *)
(*    name, lines: << first, last >>, calls: the names it calls, target:    *)
(*    the qualified name an import or re-export stands for, default: that   *)
(*    it is the default export, within: the number of the definition it is  *)
(*    in, 0 for none], listed as they begin.                                *)
(* Qualified names are sequences of names, a call one of one name or two.   *)
(***************************************************************************)
EXTENDS Integers, Sequences, SequencesExt, FiniteSets, FiniteSetsExt

Empty == [entities |-> {}, edges |-> {}, changes |-> {}, links |-> {}]

Entity(file, kind, name, item) ==
    [path |-> file.path, kind |-> kind, name |-> name, lines |-> item.lines,
     default |-> item.default, alias |-> item.name, target |-> item.target]

\* A Python module has no last line, and so counts as its first.
ModuleItem(file) ==
    [name |-> Last(file.module), target |-> << >>, default |-> FALSE,
     lines |-> IF file.language = "python" THEN << 1, 1 >> ELSE << 1, 99 >>]

ImportName(file, item) == file.module \o << item.sort, item.name >>

\* What is found of an item in the definition, or the module, of a name.
Find(file, item, in, calls) ==
    LET defines == item.sort \in {"class", "def"}
        kind == IF item.sort # "def" THEN item.sort
                ELSE IF in = file.module THEN "function" ELSE "method"
        name == IF defines THEN Append(in, item.name) ELSE ImportName(file, item)
    IN  [entity |-> Entity(file, kind, name, item),
         in |-> IF defines THEN in ELSE file.module,
         calls |-> IF item.sort = "def" THEN calls ELSE {}]

\* find_calls walks into nested functions.
CallsWithin(items, n) ==
    LET around[m \in 0..Len(items)] == IF m = 0 THEN {} ELSE {m} \cup around[items[m].within]
    IN  UNION { items[m].calls : m \in { m \in DOMAIN items : n \in around[m] } }

\* Python: every definition is named within the one it is in.
PythonItems(file) ==
    LET items == file.items
        scope[n \in 0..Len(items)] ==
            IF n = 0 THEN file.module ELSE Append(scope[items[n].within], items[n].name)
    IN  { Find(file, items[n], scope[items[n].within], CallsWithin(items, n)) : n \in DOMAIN items }

\* TypeScript and JavaScript, line by line: a class is the module's wherever
\* it stands, a function that of the innermost class or else the module's,
\* and a call belongs to the innermost function.
TsItems(file) ==
    LET items == file.items
        class[n \in 0..Len(items)] ==
            IF n = 0 THEN file.module
            ELSE IF items[n].sort = "class" THEN Append(file.module, items[n].name)
            ELSE class[items[n].within]
    IN  { Find(file, items[n], IF items[n].sort = "class" THEN file.module ELSE class[items[n].within],
               items[n].calls) : n \in DOMAIN items }

EdgeType(kind) ==
    CASE kind = "import" -> "imports" [] kind \in {"reexport", "all"} -> "reexports"
      [] OTHER -> "contains"

\* A call means the first definition of that name in the file, whatever it is
\* called on; else what was last imported under its name, or a member of it.
CallTarget(found, call) ==
    LET same == { f.entity : f \in { f \in found :
                    f.entity.kind \in {"class", "function", "method"}
                    /\ f.entity.alias = Last(call) } }
        Under(alias) == { f.entity : f \in { f \in found :
                            f.entity.kind = "import" /\ f.entity.alias = alias } }
        Imported(alias) == { e.target : e \in { e \in Under(alias) :
                               \A o \in Under(alias) : o.lines[1] <= e.lines[1] } }
    IN  IF same # {} THEN { (CHOOSE e \in same : \A o \in same : e.lines[1] <= o.lines[1]).name }
        ELSE IF Len(call) = 1 THEN Imported(call[1])
        ELSE { Append(t, call[2]) : t \in Imported(call[1]) }

\* What the indexer of its language makes of a file: entities, and edges
\* between names.
IndexOwn(file) ==
    LET found == IF file.language = "python" THEN PythonItems(file) ELSE TsItems(file)
    IN  [entities |-> { f.entity : f \in found } \cup
             {Entity(file, "module", file.module, ModuleItem(file))},
         edges |-> { << f.in, f.entity.name, EdgeType(f.entity.kind) >> : f \in found } \cup
             UNION { UNION { { << f.entity.name, t, "calls" >> : t \in CallTarget(found, c) }
                             : c \in f.calls } : f \in found }]

\* tree-sitter names every definition within the one it is in, lists imports (a
\* statement of several names is left out: it has no name of the file's), and has
\* the whole file for the module.
IndexSource(file) ==
    LET found == { f \in PythonItems(file) :
                     f.entity.kind \in {"class", "function", "method", "import"} }
        whole == Entity(file, "module", file.module, [ModuleItem(file) EXCEPT !.lines = << 1, 99 >>])
    IN  [entities |-> { [e EXCEPT !.default = FALSE] : e \in {whole} \cup { f.entity : f \in found } },
         edges |-> { << f.in, f.entity.name, EdgeType(f.entity.kind) >> : f \in found }]

\* What it finds is merged with what the indexer of the language finds, and
\* only edges between names of the file are kept.
MergeIndexed(primary, fallback) ==
    LET Same(e) == { o \in fallback.entities : o.name = e.name }
        merged == { [e EXCEPT !.default = \E o \in Same(e) : o.default] : e \in primary.entities }
        entities == merged \cup
            { o \in fallback.entities : ~ \E e \in merged : e.name = o.name }
        names == { e.name : e \in entities }
    IN  [entities |-> entities,
         edges |-> { x \in fallback.edges \cup primary.edges : {x[1], x[2]} \subseteq names }]

IndexFile(file) == IF file.by = "own" THEN IndexOwn(file)
                   ELSE MergeIndexed(IndexSource(file), IndexOwn(file))

-----------------------------------------------------------------------------
(* Names.                                                                   *)

\* A star re-export answers for every name of its module, if it is the only
\* one that does.
WildcardTarget(entities, name) ==
    LET stars == { e \in entities : e.kind = "all" /\ IsPrefix(SubSeq(e.name, 1, Len(e.name) - 2), name)
                                    /\ Len(name) > Len(e.name) - 2 }
        met == { e.target \o SubSeq(name, Len(e.name) - 1, Len(name)) : e \in stars }
    IN  IF Cardinality(met) = 1 THEN met ELSE {}

\* The name a re-export gives to what it hands on.
Exported(e) == SubSeq(e.name, 1, Len(e.name) - 2) \o << e.alias >>

\* Of several re-exports of one name the code takes one, here each is taken.
NextName(entities, name) ==
    LET bound == { e.target : e \in { e \in entities : e.kind = "reexport" /\ Exported(e) = name } }
    IN  IF bound # {} THEN bound ELSE WildcardTarget(entities, name)

\* What the default export of a module can be imported as.
DefaultName(e) == Append(SubSeq(e.name, 1, Len(e.name) - 1), "default")

Named(entities, name) ==
    LET direct == { e \in entities : e.name = name }
    IN  IF direct # {} THEN direct
        ELSE { e \in entities : e.default /\ DefaultName(e) = name }

\* The one of several that a name means: of those just indexed the last (by its
\* line; which of two files comes last is left open), of those stored some one.
Meant(new, these) ==
    LET indexed == these \cap new
    IN  IF indexed # {} THEN { e \in indexed : \A o \in indexed : o.lines[1] <= e.lines[1] }
        ELSE { e \in these : e = CHOOSE o \in these : TRUE }

\* Six names are tried, from the one that was written on.
LastName(entities, name) ==
    LET hops[k \in 0..5] ==
          IF k = 0 THEN {name}
          ELSE IF \E n \in hops[k - 1] : Named(entities, n) # {} THEN hops[k - 1]
          ELSE UNION { NextName(entities, n) : n \in hops[k - 1] }
    IN  hops[5]

Resolve(entities, new, name) ==
    UNION { Meant(new, Named(entities, n)) : n \in LastName(entities, name) }

-----------------------------------------------------------------------------
(* Changes: [path, hunks]; a hunk is [old, new, body], body a sequence of   *)
(* "+", "-" and " ", of "++" and "--" (a line is added, or goes, whose own    *)
(* text begins with ++, or --: in the patch with +++, or ---, as the names of *)
(* its files do), and of "end" (the remark that a file ends without a line    *)
(* feed).                                                                   *)

\* Fault: lines that go take up a line of the new file.
HunkLinesOfBoth(hunk) ==
    LET At(n) == hunk.new + n - 1
        added == { At(n) : n \in { n \in DOMAIN hunk.body : hunk.body[n] = "+" } }
        gone == { At(n) : n \in { n \in DOMAIN hunk.body : hunk.body[n] = "-" } }
    IN  IF added # {} THEN << Min(added), Max(added) >>
        ELSE IF gone # {} THEN << Min(gone), Max(gone) >> ELSE << hunk.new, hunk.new >>

\* The lines of the new file a hunk changes, from the first to the last; where
\* it only deletes, those the deletion stands before. A "++" or "--" is taken
\* for a line that stays.
HunkLines(hunk) ==
    LET At(n) == hunk.new + Cardinality({ k \in 1..(n - 1) : hunk.body[k] \notin {"-", "end"} })
        added == { At(n) : n \in { n \in DOMAIN hunk.body : hunk.body[n] = "+" } }
        gone == { At(n) : n \in { n \in DOMAIN hunk.body : hunk.body[n] = "-" } }
    IN  IF added # {} THEN << Min(added), Max(added) >>
        ELSE IF gone # {} THEN << Min(gone), Max(gone) >> ELSE << hunk.new, hunk.new >>

\* One path is the end of the other.
SamePlace(p, q) == IsSuffix(p, q) \/ IsSuffix(q, p)

Link(change, entity, by) == [change |-> change, entity |-> entity, by |-> by]

LinkByLines(db, change) ==
    { Link(change, e, "line_range") : e \in { e \in db.entities :
        /\ SamePlace(change.path, e.path)
        /\ \E n \in DOMAIN change.hunks :
             /\ e.lines[1] <= HunkLines(change.hunks[n])[2]
             /\ e.lines[2] >= HunkLines(change.hunks[n])[1] } }

\* For a change without a patch, or whose lines meet no entity: every entity
\* of the file that has no link yet.
LinkByPath(db, change) ==
    IF \E l \in db.links : l.change = change /\ l.by = "line_range" THEN {}
    ELSE { Link(change, e, "file_path") : e \in { e \in db.entities :
             /\ SamePlace(change.path, e.path)
             /\ ~ \E l \in db.links : l.change = change /\ l.entity = e } }

LinkChanges(db, changes) ==
    LET lined == UNION { LinkByLines(db, c) : c \in changes }
        kept == { l \in db.links : ~ \E m \in lined : m.change = l.change /\ m.entity = l.entity }
        once == [db EXCEPT !.links = kept \cup lined]
    IN  [once EXCEPT !.links = @ \cup UNION { LinkByPath(once, c) : c \in changes }]

RecordChangeset(db, change) ==
    LinkChanges([db EXCEPT !.changes = @ \cup {change}], {change})

-----------------------------------------------------------------------------
(* store_code_index: what was stored of the files goes, with the edges from  *)
(* and to its entities and the links to them; then the new entities, the     *)
(* edges from them, and the links of the changes recorded under the very     *)
(* paths. Edges into these files from others are not made again before those *)
(* are indexed again.                                                       *)

\* Fault: names are looked up among what was indexed in this call only.
EdgesAmongIndexed(entities, indexed) ==
    LET new == UNION { y.entities : y \in indexed }
    IN  UNION { { << s, t, x[3] >> : s \in Meant(new, { e \in new : e.name = x[1] }),
                                     t \in Resolve(new, new, x[2]) }
                : x \in UNION { y.edges : y \in indexed } }

\* The edges of the files, between what their names stand for.
EdgesAmong(entities, indexed) ==
    LET new == UNION { y.entities : y \in indexed }
    IN  UNION { { << s, t, x[3] >> : s \in Meant(new, { e \in entities : e.name = x[1] }),
                                     t \in Resolve(entities, new, x[2]) }
                : x \in UNION { y.edges : y \in indexed } }

StoreIndex(db, files) ==
    LET paths == { f.path : f \in files }
        indexed == { IndexFile(f) : f \in files }
        kept == { e \in db.entities : e.path \notin paths }
        all == kept \cup UNION { x.entities : x \in indexed }
        stored == [entities |-> all,
                   edges |-> { x \in db.edges : {x[1], x[2]} \subseteq kept }
                             \cup EdgesAmong(all, indexed),
                   changes |-> db.changes,
                   links |-> { l \in db.links : l.entity \in kept }]
    IN  LinkChanges(stored, { c \in db.changes : c.path \in paths })

-----------------------------------------------------------------------------
(* References found by a language server: [target, path, line], a name and   *)
(* the place that refers to it, as the server counts lines and names files.  *)

Root == << "root" >>

\* Lines are counted from one, and paths from the root of the workspace.
Normalize(location) ==
    [location EXCEPT !.line = @ + 1,
                     !.path = IF IsPrefix(Root, @) THEN SubSeq(@, 2, Len(@)) ELSE @]

\* The lines an entity spans; a Python module that the indexer of its language
\* finds ends nowhere, so it is around no line.
Spans(e, line) ==
    e.lines[1] <= line /\ line <= e.lines[2] /\ ~(e.kind = "module" /\ e.lines = << 1, 1 >>)

\* The smallest entity around a line.
Enclosing(db, path, line) ==
    LET around == { e \in db.entities : e.path = path /\ Spans(e, line) }
        Size(e) == e.lines[2] - e.lines[1]
    IN  IF around = {} THEN {} ELSE { CHOOSE e \in around : \A o \in around : Size(e) <= Size(o) }

\* What is referred to must be known under its very name.
ReferenceEdges(db, r) ==
    { << e, t, "references" >> : e \in Enclosing(db, r.path, r.line),
                                 t \in Meant({}, { o \in db.entities : o.name = r.target }) }

StoreReferences(db, references, replace) ==
    LET kept == { x \in db.edges : ~(replace /\ x[3] = "references") }
    IN  [db EXCEPT !.edges = kept \cup UNION { ReferenceEdges(db, Normalize(r)) : r \in references }]

-----------------------------------------------------------------------------
(* A history is a sequence of steps << "index", files >>, << "record",      *)
(* change >> and << "refer", references, replace >>; files as they were     *)
(* when they were indexed.                                                  *)

Do(db, step) ==
    CASE step[1] = "index" -> StoreIndex(db, step[2])
      [] step[1] = "record" -> RecordChangeset(db, step[2])
      [] step[1] = "refer" -> StoreReferences(db, step[2], step[3])

After(history) ==
    LET db[n \in 0..Len(history)] == IF n = 0 THEN Empty ELSE Do(db[n - 1], history[n])
    IN  db[Len(history)]

\* Entities that what is written of one may be taken for another: they share
\* their name, or are both the default of a module.
Rivals(e, o) ==
    e # o /\ (e.name = o.name \/ (e.default /\ o.default /\ DefaultName(e) = DefaultName(o)))

\* A file that is indexed with the others already in place gets the edges it
\* would get if everything were indexed at once, in whatever order and with
\* whatever else the files were indexed before, unless they are edges of
\* entities with rivals; no edge and no link points at an entity that is no
\* longer there; and a reference that is imported then comes from the innermost
\* of the definitions around its line. (Edges from other files into this one are
\* gone until those are indexed again: nothing is said of them.)
IndexIsExact(history, files, last, reference) ==
    \A db \in { After(Append(history, << "index", {last} >>)) },
       fresh \in { StoreIndex(Empty, files) }, own \in { IndexFile(last).entities } :
      LET others == UNION { IndexFile(f).entities : f \in files \ {last} }
          Known(e) == e \in db.entities
          Alone(e) == ~ \E o \in db.entities : Rivals(e, o)
          Out(d) == { x \in d.edges : x[1] \in own /\ x[3] # "references" /\ Alone(x[1]) /\ Alone(x[2]) }
          Agreed == \A e, o \in db.entities :
                      e.kind = "reexport" /\ o.kind = "reexport" /\ Exported(e) = Exported(o)
                        => e.target = o.target
          Holds(e, o) == e.lines[1] <= o.lines[1] /\ o.lines[2] <= e.lines[2]
          Around(e) == Root \o e.path = reference.path /\ Spans(e, reference.line + 1)
          referred == StoreReferences(db, {reference}, TRUE)
      IN  /\ others \subseteq db.entities
             /\ (\A e \in db.entities : \E f \in files : e \in IndexFile(f).entities) /\ Agreed
               => Out(db) = Out(fresh)
          /\ \A x \in db.edges : Known(x[1]) /\ Known(x[2])
          /\ \A l \in db.links : Known(l.entity)
          /\ \A x \in { x \in referred.edges : x[3] = "references" } :
               /\ Known(x[1]) /\ Around(x[1])
               /\ \A o \in db.entities : Around(o) /\ Holds(x[1], o) => o.lines = x[1].lines

\* A change recorded under the path of an indexed file is linked to every
\* definition with a line it adds, and to none that ends before or begins
\* after the lines of its hunks; indexing the file again as it is changes
\* none of its links. The lines it adds are those a "+" stands at, without
\* those that begin with ++ themselves, and those after a line that went and
\* began with --: the former are taken for lines that stay, by the latter the
\* numbers go wrong.
ChangesAreLinked(history, file, change) ==
    \A db \in { After(history \o << << "index", {file} >>, << "record", change >> >>) },
       own \in { IndexFile(file).entities } :
      LET again == StoreIndex(db, {file})
          Of(d) == { l \in d.links : l.change = change /\ l.entity \in own }
          Line(h, n) == h.new + Cardinality({ k \in 1..(n - 1) : h.body[k] \in {"+", "++", " "} })
          Right(h, n) == h.body[n] = "+" /\ \A k \in 1..(n - 1) : h.body[k] # "--"
          Added == UNION { { Line(h, n) : n \in { n \in DOMAIN h.body : Right(h, n) } }
                           : h \in { change.hunks[k] : k \in DOMAIN change.hunks } }
          Span(h) == h.new .. (h.new + Cardinality({ n \in DOMAIN h.body : h.body[n] \notin {"-", "end"} }))
      IN  /\ \A e \in own : (\E n \in Added : e.lines[1] <= n /\ n <= e.lines[2])
               => Link(change, e, "line_range") \in db.links
          /\ \A e \in own : Link(change, e, "line_range") \in db.links
               => \E k \in DOMAIN change.hunks :
                    (e.lines[1] .. e.lines[2]) \cap Span(change.hunks[k]) # {}
          /\ Of(again) = Of(db)
=============================================================================
