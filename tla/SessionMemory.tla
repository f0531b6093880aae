--------------------------- MODULE SessionMemory ---------------------------
(***************************************************************************)
(* Session memory: the importers (store_codex_session and its siblings in   *)
(* src/geond/storage/repository.py), the embedding of their messages        *)
(* (storage/embeddings.py) and purge_workspace (storage/maintenance.py).    *)
(*                                                                         *)
(* One transcript of one source is imported, by several importers, into     *)
(* several workspaces, while its file changes on disk.  An import is one    *)
(* transaction: what it writes is held in its record and shows at the       *)
(* commit; the upserts lock the rows they touch until then.  Event rows are *)
(* unique over all workspaces, so they are locked, and owned, across them.  *)
(***************************************************************************)
EXTENDS Integers, Sequences, FiniteSets, TLC

CONSTANTS
    Importers, Embedders, Workspaces,
    Sources,     \* the sources among which the transcript's is chosen
    Shapes,      \* the file over time, each [lines, said]: its lines, those that are messages
    BatchSize, Limit, \* of embed_pending_messages
    MaxImports, MaxPurges \* bounds: committed imports, purges

ASSUME ShapesAreFiles ==
    /\ Len(Shapes) \in Nat \ {0} /\ DOMAIN Shapes = 1 .. Len(Shapes)
    /\ \A n \in DOMAIN Shapes :
          IsFiniteSet(Shapes[n].lines) /\ Shapes[n].said \subseteq Shapes[n].lines

VARIABLES
    source,     \* the source of the transcript
    disk,       \* which shape its file has
    age,        \* a workspace has been purged so many times
    there,      \* the workspaces that exist
    events,     \* [ord, owner, ver]
    messages,   \* [ws, ord, id, ver, raw]: raw, that raw_event_id is set
    observed,   \* session_observed and task_observed actions: [ws, n]
    embeddings, \* [ws, of], "of" the id of a message
    imported,   \* number of imports committed
    imp,        \* what each importer is doing
    emb         \* what each embedder is doing

db == << events, messages, observed, embeddings >>
memoryVars == << source, disk, age, there, db, imported, imp, emb >>

\* A workspace that is created again is another row: its key is new.
Key(w) == << w, age[w] >>
Exists(ws) == ws[1] \in there /\ age[ws[1]] = ws[2]

Idle == [stage |-> "idle", ws |-> << >>, ver |-> 0, lines |-> {}, puts |-> {},
         linked |-> FALSE, gone |-> {}, stale |-> {}, act |-> FALSE]
AtRest == [stage |-> "idle", rows |-> {}, total |-> 0]

Writing == {"stored", "trimmed", "watched"}
Open == {"locked"} \cup Writing

MemoryInit ==
    /\ source \in Sources
    /\ disk = 1
    /\ age = [w \in Workspaces |-> 0]
    /\ there = {}
    /\ events = {} /\ messages = {} /\ observed = {} /\ embeddings = {}
    /\ imported = 0
    /\ imp = [i \in Importers |-> Idle]
    /\ emb = [e \in Embedders |-> AtRest]

-----------------------------------------------------------------------------
(* The importers. *)

\* The agent goes on writing its transcript.
FileChanges ==
    /\ disk < Len(Shapes)
    /\ disk' = disk + 1
    /\ UNCHANGED << source, age, there, db, imported, imp, emb >>

Parse(i) ==
    /\ imp[i].stage = "idle" /\ imported < MaxImports
    /\ imp' = [imp EXCEPT ![i] = [Idle EXCEPT !.stage = "parsed", !.ver = disk]]
    /\ UNCHANGED << source, disk, age, there, db, imported, emb >>

\* A transaction of its own, before that of the import.
UpsertWorkspace(i) == \E w \in Workspaces :
    /\ imp[i].stage = "parsed"
    /\ there' = there \cup {w}
    /\ imp' = [imp EXCEPT ![i] = [@ EXCEPT !.stage = "open", !.ws = Key(w)]]
    /\ UNCHANGED << source, disk, age, db, imported, emb >>

\* The upsert of the session row waits for every open import of the session
\* into the workspace, and fails when the workspace has gone.
LockSession(i) ==
    /\ imp[i].stage = "open"
    /\ \A j \in Importers : imp[j].stage \in Open => imp[j].ws # imp[i].ws
    /\ imp' = [imp EXCEPT ![i] =
                 IF Exists(imp[i].ws) THEN [@ EXCEPT !.stage = "locked"] ELSE Idle]
    /\ UNCHANGED << source, disk, age, there, db, imported, emb >>

\* The loops over the events and the messages of the parsed file.
Store(i, lines, said, linked) ==
    /\ imp[i].stage = "locked"
    /\ \A j \in Importers : imp[j].stage \notin Writing
    /\ imp' = [imp EXCEPT ![i] = [@ EXCEPT !.stage = "stored", !.lines = lines,
                                          !.puts = said, !.linked = linked]]
    /\ UNCHANGED << source, disk, age, there, db, imported, emb >>

Parsed(i) == Shapes[imp[i].ver]

StoreCodex(i) ==
    source = "codex" /\ Store(i, Parsed(i).lines, Parsed(i).said, TRUE)
StoreClaude(i) ==
    source = "claude" /\ Store(i, Parsed(i).lines, Parsed(i).said, TRUE)
StoreAntigravity(i) ==
    source = "antigravity" /\ Store(i, Parsed(i).lines, Parsed(i).said, TRUE)
\* Every line of the chat is a message.
StoreVscode(i) ==
    source = "vscode" /\ Store(i, Parsed(i).lines, Parsed(i).lines, TRUE)
\* The messages of a task, numbered, are the events; no link between them.
StoreManus(i) ==
    source = "manus" /\ Store(i, Parsed(i).said, Parsed(i).said, FALSE)

\* Fault: whatever is a line of the file is kept.
DeleteStaleByLine(i) ==
    LET old == { m \in messages : m.ws = imp[i].ws /\ m.ord \notin imp[i].lines }
        ids == { m.id : m \in old }
    IN  /\ imp[i].stage = "stored" /\ source # "manus"
        /\ imp' = [imp EXCEPT ![i] = [@ EXCEPT !.stage = "trimmed", !.gone = ids,
                                     !.stale = { v \in embeddings : v.of \in ids }]]
        /\ UNCHANGED << source, disk, age, there, db, imported, emb >>

\* Not for Manus: its messages are only ever added to.
DeleteStale(i) ==
    LET old == { m \in messages : m.ws = imp[i].ws /\ m.ord \notin imp[i].puts }
        ids == { m.id : m \in old }
    IN  /\ imp[i].stage = "stored" /\ source # "manus"
        /\ imp' = [imp EXCEPT ![i] = [@ EXCEPT !.stage = "trimmed", !.gone = ids,
                                     !.stale = { v \in embeddings : v.of \in ids }]]
        /\ UNCHANGED << source, disk, age, there, db, imported, emb >>

\* SELECT, then INSERT.
Observe(i, from) ==
    /\ imp[i].stage = from
    /\ imp' = [imp EXCEPT ![i] = [@ EXCEPT !.stage = "watched",
                                 !.act = \A a \in observed : a.ws # imp[i].ws]]
    /\ UNCHANGED << source, disk, age, there, db, imported, emb >>

ObserveSession(i) == source # "manus" /\ Observe(i, "trimmed")
ObserveTask(i) == source = "manus" /\ Observe(i, "stored")

EventsAfter(t) ==
    { e \in events : e.ord \notin t.lines } \cup
    { LET was == { e \in events : e.ord = o }
      IN  [ord |-> o, ver |-> t.ver,
           owner |-> IF was = {} THEN t.ws ELSE (CHOOSE e \in was : TRUE).owner]
      : o \in t.lines }

MessagesAfter(t) ==
    { m \in messages : m.id \notin t.gone /\ ~(m.ws = t.ws /\ m.ord \in t.puts) } \cup
    { LET was == { m \in messages : m.ws = t.ws /\ m.ord = o }
      IN  [ws |-> t.ws, ord |-> o, ver |-> t.ver, raw |-> t.linked,
           id |-> IF was = {} THEN << imported, o >> ELSE (CHOOSE m \in was : TRUE).id]
      : o \in t.puts }

Commit(i) ==
    /\ imp[i].stage = "watched"
    /\ events' = EventsAfter(imp[i])
    /\ messages' = MessagesAfter(imp[i])
    /\ embeddings' = embeddings \ imp[i].stale
    /\ observed' = observed \cup
         (IF imp[i].act THEN {[ws |-> imp[i].ws, n |-> imported]} ELSE {})
    /\ imported' = imported + 1
    /\ imp' = [imp EXCEPT ![i] = Idle]
    /\ UNCHANGED << source, disk, age, there, emb >>

\* The process ends, or a statement raises: the transaction is rolled back.
Abort(i) ==
    /\ imp[i].stage # "idle"
    /\ imp' = [imp EXCEPT ![i] = Idle]
    /\ UNCHANGED << source, disk, age, there, db, imported, emb >>

-----------------------------------------------------------------------------
(* embed_pending_messages. *)

Unembedded == { m \in messages : ~ \E v \in embeddings : v.of = m.id }

\* A batch of the pending messages, or the end of the call: none is left, or
\* the limit is reached.
Rows(e) ==
    LET most == IF BatchSize < Limit - emb[e].total
                THEN BatchSize ELSE Limit - emb[e].total
        size == IF Cardinality(Unembedded) < most THEN Cardinality(Unembedded) ELSE most
    IN  { R \in SUBSET Unembedded : Cardinality(R) = size }

Fetch(e) == \E R \in Rows(e) :
    /\ emb[e].stage \in {"idle", "fetching"}
    /\ emb' = [emb EXCEPT ![e] =
          [ stage |-> IF R = {} THEN "idle" ELSE "sending",
            rows |-> R,
            total |-> IF R = {} THEN 0 ELSE @.total ]]
    /\ UNCHANGED << source, disk, age, there, db, imported, imp >>

\* The provider has answered; the rows are inserted and committed.  A message
\* that has gone meanwhile gets its embedding all the same, a workspace that
\* has gone fails the batch.
Insert(e) ==
    /\ emb[e].stage = "sending"
    /\ \A m \in emb[e].rows : Exists(m.ws)
    /\ embeddings' = embeddings \cup { [ws |-> m.ws, of |-> m.id] : m \in emb[e].rows }
    /\ emb' = [emb EXCEPT ![e] = [stage |-> "fetching", rows |-> {},
                                 total |-> @.total + Cardinality(emb[e].rows)]]
    /\ UNCHANGED << source, disk, age, there, events, messages, observed, imported, imp >>

\* The provider, the insert or the process fails.
EmbedFails(e) ==
    /\ emb[e].stage # "idle"
    /\ emb' = [emb EXCEPT ![e] = AtRest]
    /\ UNCHANGED << source, disk, age, there, db, imported, imp >>

-----------------------------------------------------------------------------
(* purge_workspace: the delete waits for the imports that hold the row of   *)
(* the workspace or of an event it owns, and cascades.                      *)

\* Fault: a reset that goes table by table and leaves one out.
ForgottenBut(ws) ==
    /\ events' = { v \in events : v.owner # ws }
    /\ messages' = { m \in messages : m.ws # ws }
    /\ observed' = { a \in observed : a.ws # ws }
    /\ UNCHANGED embeddings

Forgotten(ws) ==
    /\ events' = { v \in events : v.owner # ws }
    /\ messages' = { [m EXCEPT !.raw =
                         @ /\ \E v \in events : v.ord = m.ord /\ v.owner # ws]
                     : m \in { m \in messages : m.ws # ws } }
    /\ observed' = { a \in observed : a.ws # ws }
    /\ embeddings' = { v \in embeddings : v.ws # ws }

Purge(w) ==
    /\ w \in there /\ age[w] < MaxPurges
    /\ \A i \in Importers :
          /\ imp[i].stage \in Open => imp[i].ws # Key(w)
          /\ imp[i].stage \in Writing =>
               \A v \in events : v.ord \in imp[i].lines => v.owner # Key(w)
    /\ there' = there \ {w}
    /\ age' = [age EXCEPT ![w] = @ + 1]
    /\ Forgotten(Key(w))
    /\ UNCHANGED << source, disk, imported, imp, emb >>

-----------------------------------------------------------------------------
Import(i) ==
    \/ Parse(i) \/ UpsertWorkspace(i) \/ LockSession(i)
    \/ StoreCodex(i) \/ StoreClaude(i) \/ StoreAntigravity(i)
    \/ StoreVscode(i) \/ StoreManus(i)
    \/ DeleteStale(i) \/ ObserveSession(i) \/ ObserveTask(i)
    \/ Commit(i) \/ Abort(i)
Embed(e) == Fetch(e) \/ Insert(e) \/ EmbedFails(e)

MemoryNext == \/ FileChanges
        \/ \E i \in Importers : Import(i)
        \/ \E e \in Embedders : Embed(e)
        \/ \E w \in Workspaces : Purge(w)

MemorySpec == MemoryInit /\ [][MemoryNext]_memoryVars

-----------------------------------------------------------------------------
Lines == UNION { Shapes[n].lines : n \in DOMAIN Shapes }
WorkspaceKeys == Workspaces \X Nat
Ids == Nat \X Lines
Messages == [ws : WorkspaceKeys, ord : Lines, id : Ids, ver : DOMAIN Shapes, raw : BOOLEAN]
Embeddings == [ws : WorkspaceKeys, of : Ids]

MemoryTypeOK ==
    /\ source \in Sources /\ disk \in DOMAIN Shapes
    /\ there \subseteq Workspaces /\ imported \in Nat
    /\ age \in [Workspaces -> Nat]
    /\ events \subseteq [ord : Lines, owner : WorkspaceKeys, ver : DOMAIN Shapes]
    /\ messages \subseteq Messages /\ IsFiniteSet(messages)
    /\ observed \subseteq [ws : WorkspaceKeys, n : Nat]
    /\ embeddings \subseteq Embeddings
    /\ imp \in [Importers ->
          [ stage : {"idle", "parsed", "open"} \cup Open, ws : WorkspaceKeys \cup {<< >>},
            ver : DOMAIN Shapes \cup {0}, lines : SUBSET Lines, puts : SUBSET Lines,
            linked : BOOLEAN, gone : SUBSET Ids, stale : SUBSET Embeddings, act : BOOLEAN ]]
    /\ emb \in [Embedders ->
          [stage : {"idle", "sending", "fetching"}, rows : SUBSET Messages, total : Nat]]

\* The messages a workspace holds of a transcript are those of the file at
\* one moment, whatever imports of other moments ran, raced or were given up
\* (delete_stale_message_rows).  Manus only adds: there, those of one moment
\* are all there.
SnapshotIsWhole ==
    \A ws \in { m.ws : m \in messages } :
      LET here == { m \in messages : m.ws = ws }
          Of(n) == IF source = "vscode" THEN Shapes[n].lines ELSE Shapes[n].said
      IN  \E n \in DOMAIN Shapes :
            IF source = "manus"
            THEN { m.ord : m \in { m \in here : m.ver = n } } = Of(n)
            ELSE { << m.ord, m.ver >> : m \in here } = Of(n) \X {n}

\* A workspace that was purged stays forgotten: an import or an embedding
\* that was under way when it went brings nothing of it back.
PurgeForgets ==
    /\ \A m \in messages : Exists(m.ws)
    /\ \A v \in embeddings : Exists(v.ws)
    /\ \A v \in events : Exists(v.owner)
    /\ \A a \in observed : Exists(a.ws)

=============================================================================
