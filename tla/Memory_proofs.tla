--------------------------- MODULE Memory_proofs ---------------------------
(***************************************************************************)
(* Proofs about what is remembered beside the tasks: the messages of the   *)
(* imported sessions (SessionMemory), the evidence that could not be        *)
(* written when it was due (DegradedLedger), the workspaces that all of it   *)
(* belongs to (Identity), what is kept out of it (Redaction), and what the  *)
(* importers read again and again (Transcripts).  The                       *)
(* first two share no variable.                                            *)
(***************************************************************************)
EXTENDS SessionMemory, DegradedLedger, Inputs, FunctionTheorems, FiniteSetTheorems, WellFoundedInduction,
        NaturalsInduction, TLAPS

-----------------------------------------------------------------------------
(* Session memory, for any files, importers, embedders, workspaces and     *)
(* purges, whatever the limits.                                            *)
(*                                                                         *)
(* An import decides what to delete before it commits, and commits what it  *)
(* decided.  That this is still right at the commit rests on nobody else    *)
(* writing into its workspace since (Apart), on a message keeping its id    *)
(* and no other getting it (Rowed), and on a purge waiting for the imports  *)
(* that hold the row of its workspace (NothingLeft).                       *)

\* What a file of a source holds in messages.
Said(n) == IF source = "vscode" THEN Shapes[n].lines ELSE Shapes[n].said

\* Nothing is kept of a workspace that has gone, and nobody who writes into
\* one has it taken away.
NothingLeft ==
    /\ PurgeForgets
    /\ \A i \in Importers : imp[i].stage \in Open => Exists(imp[i].ws)

\* The upsert of the session row keeps the importers of a workspace apart, and
\* those of the event rows all of them.
Apart ==
    \A i, j \in Importers : i # j =>
        /\ ~(imp[i].stage \in Open /\ imp[j].stage \in Open /\ imp[i].ws = imp[j].ws)
        /\ ~(imp[i].stage \in Writing /\ imp[j].stage \in Writing)

\* A message row is known by its workspace and number as well as by its id,
\* which is never given again, and holds what the file it came from holds.
Rowed ==
    /\ \A m, n \in messages : (m.ws = n.ws /\ m.ord = n.ord) \/ m.id = n.id => m = n
    /\ \A m \in messages : m.id[1] < imported /\ m.ord \in Said(m.ver)

\* An importer puts all the messages of its file, and takes away the others of
\* its workspace, but for Manus.
Prepared ==
    \A i \in Importers :
        /\ imp[i].stage \in Writing => imp[i].puts = Said(imp[i].ver)
        /\ imp[i].gone =
              IF imp[i].stage \in {"trimmed", "watched"} /\ source # "manus"
              THEN { m.id : m \in { m \in messages : m.ws = imp[i].ws /\ m.ord \notin imp[i].puts } }
              ELSE {}

\* All messages of shape n are in workspace ws and, but for Manus, no others.
Holds(ws, n) ==
    /\ \A o \in Said(n) : \E m \in messages : m.ws = ws /\ m.ord = o /\ m.ver = n
    /\ source # "manus" => \A m \in messages : m.ws = ws => m.ver = n

\* Every workspace that has messages holds a shape of the file.
Snapshots == \A m \in messages : \E n \in DOMAIN Shapes : Holds(m.ws, n)

-----------------------------------------------------------------------------
(* What a commit makes of the rows. *)

\* The row an import t writes for the message numbered o, and the id it has.
IdOf(t, o) ==
    LET was == { m \in messages : m.ws = t.ws /\ m.ord = o }
    IN  IF was = {} THEN << imported, o >> ELSE (CHOOSE m \in was : TRUE).id
\* The row itself.
NewRow(t, o) == [ws |-> t.ws, ord |-> o, ver |-> t.ver, raw |-> t.linked, id |-> IdOf(t, o)]

\* The rows that it leaves as they are.
LeftAlone(t, m) == m.id \notin t.gone /\ ~(m.ws = t.ws /\ m.ord \in t.puts)

\* The id is that of the row it replaces, or one never given.
LEMMA IdIsOldOrNew ==
    ASSUME NEW t, NEW o
    PROVE  \/ /\ \A m \in messages : ~(m.ws = t.ws /\ m.ord = o)
              /\ IdOf(t, o) = << imported, o >>
           \/ \E m \in messages : m.ws = t.ws /\ m.ord = o /\ IdOf(t, o) = m.id
<1> DEFINE was == { m \in messages : m.ws = t.ws /\ m.ord = o }
<1>1. CASE was = {}
  BY <1>1 DEF IdOf
<1>2. CASE was # {}
  <2>1. (CHOOSE m \in was : TRUE) \in was
    BY <1>2
  <2>2. IdOf(t, o) = (CHOOSE m \in was : TRUE).id
    BY <1>2 DEF IdOf
  <2> QED BY <2>1, <2>2
<1> QED BY <1>1, <1>2

\* After a commit there are the rows it left alone and those it wrote.
LEMMA MessagesCommitted ==
    ASSUME NEW t
    PROVE  /\ \A m \in messages : LeftAlone(t, m) => m \in MessagesAfter(t)
           /\ \A o \in t.puts : NewRow(t, o) \in MessagesAfter(t)
           /\ \A m \in MessagesAfter(t) : \/ m \in messages /\ LeftAlone(t, m)
                                          \/ \E o \in t.puts : m = NewRow(t, o)
BY DEF MessagesAfter, NewRow, IdOf, LeftAlone

\* The fields of a row that is written.
LEMMA NewRowFields ==
    ASSUME NEW t, NEW o
    PROVE  /\ NewRow(t, o).ws = t.ws /\ NewRow(t, o).ord = o /\ NewRow(t, o).ver = t.ver
           /\ NewRow(t, o).id = IdOf(t, o)
BY DEF NewRow

\* Rows of events that are written again keep their owner.
LEMMA EventsCommitted ==
    ASSUME NEW t, NEW v \in EventsAfter(t)
    PROVE  \/ v \in events
           \/ /\ v.ord \in t.lines /\ v.ver = t.ver /\ v = [ord |-> v.ord, owner |-> v.owner, ver |-> v.ver]
              /\ v.owner = t.ws \/ \E e \in events : v.owner = e.owner
<1> SUFFICES ASSUME v \notin events
             PROVE  /\ v.ord \in t.lines /\ v.ver = t.ver /\ v = [ord |-> v.ord, owner |-> v.owner, ver |-> v.ver]
                    /\ v.owner = t.ws \/ \E e \in events : v.owner = e.owner
  OBVIOUS
<1> DEFINE was(o) == { e \in events : e.ord = o }
           owner(o) == IF was(o) = {} THEN t.ws ELSE (CHOOSE e \in was(o) : TRUE).owner
<1>1. PICK o \in t.lines : v = [ord |-> o, ver |-> t.ver, owner |-> owner(o)]
  BY DEF EventsAfter
<1>2. owner(o) = t.ws \/ \E e \in events : owner(o) = e.owner
  <2>1. CASE was(o) = {}
    BY <2>1
  <2>2. CASE was(o) # {}
    <3>1. (CHOOSE e \in was(o) : TRUE) \in was(o)
      BY <2>2
    <3> QED BY <2>2, <3>1
  <2> QED BY <2>1, <2>2
<1> HIDE DEF owner
<1> QED BY <1>1, <1>2

-----------------------------------------------------------------------------
(* The types. *)

\* The types of the two records of control.
Imports == [ stage : {"idle", "parsed", "open"} \cup Open, ws : WorkspaceKeys \cup {<< >>},
             ver : DOMAIN Shapes \cup {0}, lines : SUBSET Lines, puts : SUBSET Lines,
             linked : BOOLEAN, gone : SUBSET Ids, stale : SUBSET Embeddings, act : BOOLEAN ]
\* The same for an embedder.
Embeds == [stage : {"idle", "sending", "fetching"}, rows : SUBSET Messages, total : Nat]

\* An import that has begun is of a shape, and then goes to a workspace.
Placed ==
    \A i \in Importers :
        /\ imp[i].stage # "idle" => imp[i].ver \in DOMAIN Shapes
        /\ imp[i].stage \notin {"idle", "parsed"} => imp[i].ws \in WorkspaceKeys

\* An embedder has a finite number of messages at a time.
Batched == \A e \in Embedders : IsFiniteSet(emb[e].rows)

\* The types, with what makes them inductive.
Typed == MemoryTypeOK /\ Placed /\ Batched

\* The key of a workspace is a key, of that workspace.
LEMMA KeyTypes ==
    ASSUME MemoryTypeOK, NEW w \in Workspaces
    PROVE  Key(w) \in WorkspaceKeys /\ Key(w)[1] = w /\ Key(w)[2] = age[w]
BY DEF MemoryTypeOK, Key, WorkspaceKeys

\* A step of an importer sets its record.
LEMMA SetImporter ==
    ASSUME Typed, NEW i \in Importers, NEW t \in Imports, imp' = [imp EXCEPT ![i] = t],
           t.stage # "idle" => t.ver \in DOMAIN Shapes,
           t.stage \notin {"idle", "parsed"} => t.ws \in WorkspaceKeys
    PROVE  imp' \in [Importers -> Imports] /\ Placed'
BY DEF Typed, MemoryTypeOK, Imports, Placed

\* What an importer does before its commit stays in its record.
LEMMA ImporterTypes ==
    ASSUME Typed, NEW i \in Importers, Import(i) /\ ~Commit(i)
    PROVE  imp' \in [Importers -> Imports] /\ there' \subseteq Workspaces /\ Placed'
<1> DEFINE t == imp[i]
<1>1. imp[i] \in Imports /\ there \subseteq Workspaces
  BY DEF Typed, MemoryTypeOK, Imports
<1>2. Idle \in Imports /\ Idle.stage = "idle"
  BY DEF Idle, Imports
<1>3. CASE Parse(i)
  <2> DEFINE new == [Idle EXCEPT !.stage = "parsed", !.ver = disk]
  <2>1. new \in Imports /\ new.stage = "parsed" /\ new.ver \in DOMAIN Shapes
    BY DEF Idle, Imports, Typed, MemoryTypeOK
  <2>2. imp' = [imp EXCEPT ![i] = new] /\ there' = there
    BY <1>3 DEF Parse
  <2> HIDE DEF new
  <2> QED BY <1>1, <2>1, <2>2, SetImporter
<1>4. CASE UpsertWorkspace(i)
  <2>1. PICK w \in Workspaces :
          /\ there' = there \cup {w} /\ t.stage = "parsed"
          /\ imp' = [imp EXCEPT ![i] = [t EXCEPT !.stage = "open", !.ws = Key(w)]]
    BY <1>4 DEF UpsertWorkspace
  <2> DEFINE new == [t EXCEPT !.stage = "open", !.ws = Key(w)]
  <2>2. new \in Imports /\ new.ver = t.ver /\ new.ws \in WorkspaceKeys
    BY <1>1, KeyTypes DEF Imports, Typed
  <2>3. new.ver \in DOMAIN Shapes
    BY <2>1, <2>2 DEF Typed, Placed
  <2> HIDE DEF new
  <2>4. imp' = [imp EXCEPT ![i] = new]
    BY <2>1 DEF new
  <2> QED BY <1>1, <2>1, <2>2, <2>3, <2>4, SetImporter
<1>5. CASE LockSession(i)
  <2> DEFINE new == IF Exists(t.ws) THEN [t EXCEPT !.stage = "locked"] ELSE Idle
  <2>1. new \in Imports /\ (new.stage = "idle" \/ (new.ver = t.ver /\ new.ws = t.ws))
    BY <1>1, <1>2 DEF Imports, Open
  <2>2. imp' = [imp EXCEPT ![i] = new] /\ there' = there /\ t.stage = "open"
    BY <1>5 DEF LockSession
  <2> HIDE DEF new
  <2> QED BY <1>1, <2>1, <2>2, SetImporter DEF Typed, Placed
<1>6. CASE StoreCodex(i) \/ StoreClaude(i) \/ StoreAntigravity(i) \/ StoreVscode(i) \/ StoreManus(i)
  <2>1. t.stage = "locked"
    BY <1>6 DEF StoreCodex, StoreClaude, StoreAntigravity, StoreVscode, StoreManus, Store
  <2>2. t.ver \in DOMAIN Shapes /\ t.ws \in WorkspaceKeys
    BY <2>1 DEF Typed, Placed
  <2>3. Parsed(i).lines \subseteq Lines /\ Parsed(i).said \subseteq Lines
    BY <2>2, ShapesAreFiles DEF Parsed, Lines
  <2>4. PICK lines \in SUBSET Lines, said \in SUBSET Lines, linked \in BOOLEAN : Store(i, lines, said, linked)
    BY <1>6, <2>3 DEF StoreCodex, StoreClaude, StoreAntigravity, StoreVscode, StoreManus
  <2> DEFINE new == [t EXCEPT !.stage = "stored", !.lines = lines, !.puts = said, !.linked = linked]
  <2>5. new \in Imports /\ new.ver = t.ver /\ new.ws = t.ws
    BY <1>1 DEF Imports, Open, Writing
  <2>6. imp' = [imp EXCEPT ![i] = new] /\ there' = there
    BY <2>4 DEF Store
  <2> HIDE DEF new
  <2> QED BY <1>1, <2>2, <2>5, <2>6, SetImporter
<1>7. CASE DeleteStale(i)
  <2> DEFINE ids == { m.id : m \in { m \in messages : m.ws = imp[i].ws /\ m.ord \notin imp[i].puts } }
             stale == { v \in embeddings : v.of \in ids }
             new == [t EXCEPT !.stage = "trimmed", !.gone = ids, !.stale = stale]
  <2>1. ids \subseteq Ids /\ stale \subseteq Embeddings
    BY DEF Messages, Typed, MemoryTypeOK
  <2>2. imp' = [imp EXCEPT ![i] = new] /\ t.stage = "stored" /\ there' = there
    BY <1>7 DEF DeleteStale
  <2> HIDE DEF ids, stale
  <2>3. new \in Imports /\ new.ver = t.ver /\ new.ws = t.ws
    BY <1>1, <2>1 DEF Imports, Open, Writing
  <2> HIDE DEF new
  <2> QED BY <1>1, <2>2, <2>3, SetImporter DEF Typed, Placed
<1>8. CASE ObserveSession(i) \/ ObserveTask(i)
  <2> DEFINE new == [t EXCEPT !.stage = "watched", !.act = \A a \in observed : a.ws # imp[i].ws]
  <2>1. new \in Imports /\ new.ver = t.ver /\ new.ws = t.ws
    BY <1>1 DEF Imports, Open, Writing
  <2>2. imp' = [imp EXCEPT ![i] = new] /\ t.stage \in {"stored", "trimmed"} /\ there' = there
    BY <1>8 DEF ObserveSession, ObserveTask, Observe
  <2> HIDE DEF new
  <2> QED BY <1>1, <2>1, <2>2, SetImporter DEF Typed, Placed
<1>9. CASE Abort(i)
  <2>1. imp' = [imp EXCEPT ![i] = Idle] /\ there' = there
    BY <1>9 DEF Abort
  <2> QED BY <1>1, <1>2, <2>1, SetImporter
<1> QED
  BY <1>3, <1>4, <1>5, <1>6, <1>7, <1>8, <1>9 DEF Import

\* Nor does it do anything else.
LEMMA ImporterWrites ==
    ASSUME NEW i, Import(i) /\ ~Commit(i)
    PROVE  UNCHANGED << source, disk, age, db, imported, emb >>
BY DEF Import, Parse, UpsertWorkspace, LockSession, StoreCodex, StoreClaude, StoreAntigravity,
       StoreVscode, StoreManus, Store, DeleteStale, ObserveSession, ObserveTask, Observe, Abort

\* A file has a finite number of lines, and so have all its shapes.
LEMMA FiniteLines == IsFiniteSet(Lines)
<1> DEFINE f == [n \in DOMAIN Shapes |-> Shapes[n].lines]
           T == { Shapes[n].lines : n \in DOMAIN Shapes }
<1>1. IsFiniteSet(DOMAIN Shapes)
  BY FS_Interval, ShapesAreFiles
<1>2. f \in Surjection(DOMAIN Shapes, T)
  BY Fun_IsSurj
<1>3. IsFiniteSet(T)
  BY <1>1, <1>2, FS_Surjection
<1> QED BY <1>3, FS_UNION, ShapesAreFiles DEF Lines

\* A commit writes rows of the import's workspace, and keeps the others.
LEMMA CommitTypes == ASSUME Typed, NEW i \in Importers, Commit(i) PROVE Typed'
<1> USE DEF MemoryTypeOK, Typed
<1> DEFINE t == imp[i]
<1>1. imp[i] \in Imports /\ t.ws \in WorkspaceKeys /\ t.ver \in DOMAIN Shapes
  BY DEF Commit, Placed, Imports
<1>2. events' \subseteq [ord : Lines, owner : WorkspaceKeys, ver : DOMAIN Shapes]
  <2> SUFFICES ASSUME NEW v \in EventsAfter(t)
               PROVE  v \in [ord : Lines, owner : WorkspaceKeys, ver : DOMAIN Shapes]
    BY DEF Commit
  <2> QED BY <1>1, EventsCommitted DEF Imports
<1>3. messages' \subseteq Messages
  <2>1. ASSUME NEW o \in t.puts PROVE NewRow(t, o) \in Messages
    <3>1. o \in Lines /\ t.linked \in BOOLEAN
      BY <1>1 DEF Imports
    <3>2. IdOf(t, o) \in Ids
      BY <3>1, IdIsOldOrNew DEF Messages, Ids
    <3> QED BY <1>1, <3>1, <3>2 DEF NewRow, Messages
  <2> QED BY <2>1, MessagesCommitted DEF Commit
<1>4. IsFiniteSet(messages')
  <2>1. IsFiniteSet({ m \in messages : LeftAlone(t, m) })
    BY FS_Subset
  <2>2. IsFiniteSet(t.puts)
    BY <1>1, FiniteLines, FS_Subset DEF Imports
  <2>3. IsFiniteSet({ NewRow(t, o) : o \in t.puts })
    <3> DEFINE written == { NewRow(t, o) : o \in t.puts }
    <3>1. [o \in t.puts |-> NewRow(t, o)] \in Surjection(t.puts, written)
      BY Fun_IsSurj
    <3> QED BY <2>2, <3>1, FS_Surjection
  <2>4. messages' \subseteq { m \in messages : LeftAlone(t, m) } \cup { NewRow(t, o) : o \in t.puts }
    BY MessagesCommitted DEF Commit
  <2> DEFINE all == { m \in messages : LeftAlone(t, m) } \cup { NewRow(t, o) : o \in t.puts }
  <2>5. IsFiniteSet(all) /\ messages' \in SUBSET all
    BY <2>1, <2>3, <2>4, FS_Union
  <2> HIDE DEF all
  <2> QED BY <2>5, FS_Subset
<1>5. observed' \subseteq [ws : WorkspaceKeys, n : Nat] /\ embeddings' \subseteq Embeddings /\ imported' \in Nat
  BY <1>1 DEF Commit
<1>6. imp' \in [Importers -> Imports] /\ Placed'
  <2>1. Idle \in Imports
    BY DEF Idle, Imports
  <2> QED BY <1>1, <2>1 DEF Commit, Imports, Placed, Idle
<1>7. UNCHANGED << source, disk, age, there, emb >>
  BY DEF Commit
<1> QED BY <1>2, <1>3, <1>4, <1>5, <1>6, <1>7 DEF Imports, Batched

\* An embedder writes embeddings, and its own record.
LEMMA EmbedderTypes ==
    ASSUME Typed, NEW e \in Embedders, Embed(e)
    PROVE  /\ emb' \in [Embedders -> Embeds] /\ Batched' /\ embeddings' \subseteq Embeddings
           /\ UNCHANGED << source, disk, age, there, events, messages, observed, imported, imp >>
<1>1. emb \in [Embedders -> Embeds] /\ emb[e] \in Embeds /\ AtRest \in Embeds
  BY DEF Embeds, AtRest, Typed, MemoryTypeOK
<1>2. embeddings \subseteq Embeddings
  BY DEF Typed, MemoryTypeOK
<1>3. IsFiniteSet({})
  BY FS_EmptySet
<1>4. CASE Fetch(e)
  <2>1. PICK R \in Rows(e) :
          emb' = [emb EXCEPT ![e] =
              [ stage |-> IF R = {} THEN "idle" ELSE "sending",
                rows |-> R,
                total |-> IF R = {} THEN 0 ELSE emb[e].total ]]
    BY <1>4 DEF Fetch
  <2>2. R \subseteq messages
    BY DEF Rows, Unembedded
  <2>3. R \subseteq Messages /\ IsFiniteSet(R)
    BY <2>2, FS_Subset DEF Typed, MemoryTypeOK
  <2>4. emb' \in [Embedders -> Embeds] /\ Batched'
    BY <1>1, <2>1, <2>3 DEF Embeds, Typed, Batched
  <2> QED BY <1>2, <1>4, <2>4 DEF Fetch, db
<1>5. CASE Insert(e)
  <2>1. Cardinality(emb[e].rows) \in Nat
    BY FS_CardinalityType DEF Typed, Batched
  <2>2. emb' \in [Embedders -> Embeds] /\ Batched'
    BY <1>1, <1>3, <1>5, <2>1 DEF Insert, Embeds, Typed, Batched
  <2>3. embeddings' \subseteq Embeddings
    BY <1>1, <1>2, <1>5 DEF Insert, Embeds, Messages, Embeddings
  <2> QED BY <1>5, <2>2, <2>3 DEF Insert
<1>6. CASE EmbedFails(e)
  <2>1. emb' \in [Embedders -> Embeds] /\ Batched'
    BY <1>1, <1>3, <1>6 DEF EmbedFails, Typed, Batched, AtRest
  <2> QED BY <1>2, <1>6, <2>1 DEF EmbedFails, db
<1> QED BY <1>4, <1>5, <1>6 DEF Embed

\* A message whose event may have gone with workspace ws.
Unlinked(m, ws) == [m EXCEPT !.raw = @ /\ \E v \in events : v.ord = m.ord /\ v.owner # ws]

\* Only the link changes.
LEMMA UnlinkedFields ==
    ASSUME NEW m \in Messages, NEW ws
    PROVE  /\ Unlinked(m, ws) \in Messages
           /\ Unlinked(m, ws).ws = m.ws /\ Unlinked(m, ws).ord = m.ord
           /\ Unlinked(m, ws).id = m.id /\ Unlinked(m, ws).ver = m.ver
BY DEF Messages, Unlinked

\* A purge takes the messages of its workspace and leaves the others, but for
\* their link to an event.
LEMMA MessagesForgotten ==
    ASSUME NEW ws, Forgotten(ws)
    PROVE  /\ \A m \in messages' : \E n \in messages : n.ws # ws /\ m = Unlinked(n, ws)
           /\ \A n \in messages : n.ws # ws => Unlinked(n, ws) \in messages'
           /\ IsFiniteSet(messages) => IsFiniteSet(messages')
<1> DEFINE left == { m \in messages : m.ws # ws }
<1>1. messages' = { Unlinked(m, ws) : m \in left }
  BY DEF Forgotten, Unlinked
<1>2. IsFiniteSet(messages) => IsFiniteSet(messages')
  <2>1. [m \in left |-> Unlinked(m, ws)] \in Surjection(left, messages')
    BY <1>1, Fun_IsSurj
  <2>2. left \in SUBSET messages
    OBVIOUS
  <2> HIDE DEF left
  <2> QED BY <2>1, <2>2, FS_Surjection, FS_Subset
<1> QED BY <1>1, <1>2

\* A purge takes rows away.
LEMMA PurgeTypes == ASSUME Typed, NEW w \in Workspaces, Purge(w) PROVE Typed'
<1> USE DEF Typed, MemoryTypeOK
<1>1. Forgotten(Key(w)) /\ UNCHANGED << source, disk, imported, imp, emb >>
      /\ there' = there \ {w} /\ age' = [age EXCEPT ![w] = @ + 1]
  BY DEF Purge
<1>2. messages' \subseteq Messages /\ IsFiniteSet(messages')
  BY <1>1, MessagesForgotten, UnlinkedFields
<1>3. /\ events' \subseteq [ord : Lines, owner : WorkspaceKeys, ver : DOMAIN Shapes]
      /\ observed' \subseteq [ws : WorkspaceKeys, n : Nat]
      /\ embeddings' \subseteq Embeddings
  BY <1>1 DEF Forgotten
<1>4. there' \subseteq Workspaces /\ age' \in [Workspaces -> Nat]
  BY <1>1
<1>5. UNCHANGED << source, disk, imported, imp, emb >>
  BY <1>1
<1> QED BY <1>2, <1>3, <1>4, <1>5 DEF Placed, Batched

\* Nothing is there at first.
LEMMA TypedInit == MemoryInit => Typed
<1> SUFFICES ASSUME MemoryInit PROVE Typed
  OBVIOUS
<1>1. Idle \in Imports /\ AtRest \in Embeds /\ IsFiniteSet({})
  BY FS_EmptySet DEF Idle, Imports, AtRest, Embeds
<1>2. 1 \in DOMAIN Shapes
  BY ShapesAreFiles
<1>3. MemoryTypeOK
  BY <1>1, <1>2 DEF MemoryInit, MemoryTypeOK, Imports, Embeds
<1>4. Placed /\ Batched
  BY <1>1 DEF MemoryInit, Placed, Batched, Idle, AtRest
<1> QED BY <1>3, <1>4 DEF Typed

\* Every step keeps to the types.
LEMMA TypedNext == Typed /\ [MemoryNext]_memoryVars => Typed'
<1> SUFFICES ASSUME Typed, [MemoryNext]_memoryVars PROVE Typed'
  OBVIOUS
<1> USE DEF Typed
<1>1. CASE FileChanges
  <2>1. disk' \in DOMAIN Shapes
    BY <1>1, ShapesAreFiles DEF FileChanges, MemoryTypeOK
  <2> QED BY <1>1, <2>1 DEF FileChanges, MemoryTypeOK, Placed, Batched, db
<1>2. ASSUME NEW i \in Importers, Import(i), ~Commit(i) PROVE Typed'
  <2>1. imp' \in [Importers -> Imports] /\ there' \subseteq Workspaces /\ Placed'
    BY <1>2, ImporterTypes
  <2>2. UNCHANGED << source, disk, age, db, imported, emb >>
    BY <1>2, ImporterWrites
  <2> QED BY <2>1, <2>2 DEF MemoryTypeOK, Batched, db, Imports
<1>3. ASSUME NEW i \in Importers, Commit(i) PROVE Typed'
  BY <1>3, CommitTypes
<1>4. ASSUME NEW e \in Embedders, Embed(e) PROVE Typed'
  BY <1>4, EmbedderTypes DEF MemoryTypeOK, Embeds, Placed
<1>5. ASSUME NEW w \in Workspaces, Purge(w) PROVE Typed'
  BY <1>5, PurgeTypes
<1>6. CASE UNCHANGED memoryVars
  BY <1>6 DEF memoryVars, MemoryTypeOK, Placed, Batched, db
<1> QED BY <1>1, <1>2, <1>3, <1>4, <1>5, <1>6 DEF MemoryNext

\* Whatever importers, embedders and purges do, the rows are rows.
THEOREM MemoryTypeCorrect == MemorySpec => []MemoryTypeOK
<1>1. Typed => MemoryTypeOK
  BY DEF Typed
<1> QED BY <1>1, TypedInit, TypedNext, PTL DEF MemorySpec

-----------------------------------------------------------------------------
(* What is purged stays away. *)

\* Each source stores as messages what its files say.
LEMMA StoresWhatIsSaid ==
    ASSUME NEW i,
           StoreCodex(i) \/ StoreClaude(i) \/ StoreAntigravity(i) \/ StoreVscode(i) \/ StoreManus(i)
    PROVE  \E lines, linked : Store(i, lines, Said(imp[i].ver), linked)
<1>1. CASE StoreVscode(i)
  <2>1. Said(imp[i].ver) = Parsed(i).lines
    BY <1>1 DEF StoreVscode, Said, Parsed
  <2> QED BY <1>1, <2>1 DEF StoreVscode
<1>2. CASE StoreCodex(i) \/ StoreClaude(i) \/ StoreAntigravity(i) \/ StoreManus(i)
  <2>1. Said(imp[i].ver) = Parsed(i).said
    BY <1>2 DEF StoreCodex, StoreClaude, StoreAntigravity, StoreManus, Said, Parsed
  <2> QED BY <1>2, <2>1 DEF StoreCodex, StoreClaude, StoreAntigravity, StoreManus
<1> QED BY <1>1, <1>2

\* How the record of importer i moves on to t: away from writing, to the lock
\* of its session, through its loops, to its delete, and to its action.
Moved(i, t) ==
    \/ /\ t.stage \notin Open
       /\ t.gone = {} \/ (imp[i].stage = "parsed" /\ t.gone = imp[i].gone)
    \/ /\ imp[i].stage = "open" /\ t.stage = "locked"
       /\ t.ws = imp[i].ws /\ t.gone = imp[i].gone /\ Exists(t.ws)
       /\ \A j \in Importers : imp[j].stage \in Open => imp[j].ws # t.ws
    \/ /\ imp[i].stage = "locked" /\ t.stage = "stored"
       /\ t.ws = imp[i].ws /\ t.gone = imp[i].gone /\ t.ver = imp[i].ver
       /\ t.puts = Said(imp[i].ver)
       /\ \A j \in Importers : imp[j].stage \notin Writing
    \/ /\ imp[i].stage = "stored" /\ t.stage = "trimmed" /\ source # "manus"
       /\ t.ws = imp[i].ws /\ t.ver = imp[i].ver /\ t.puts = imp[i].puts
       /\ t.gone = { m.id : m \in { m \in messages : m.ws = t.ws /\ m.ord \notin t.puts } }
    \/ /\ imp[i].stage = IF source = "manus" THEN "stored" ELSE "trimmed"
       /\ t.stage = "watched"
       /\ t.ws = imp[i].ws /\ t.ver = imp[i].ver /\ t.puts = imp[i].puts /\ t.gone = imp[i].gone

\* Whatever an importer does before its commit is one of these moves.
LEMMA ImporterMoves ==
    ASSUME Typed, NEW i \in Importers, Import(i), ~Commit(i)
    PROVE  \E t : imp' = [imp EXCEPT ![i] = t] /\ Moved(i, t)
<1> DEFINE r == imp[i]
<1> USE DEF Open, Writing
<1>1. r \in Imports
  BY DEF Typed, MemoryTypeOK, Imports
<1>2. Idle.stage = "idle" /\ Idle.gone = {}
  BY DEF Idle
<1>3. CASE Parse(i)
  <2> DEFINE t == [Idle EXCEPT !.stage = "parsed", !.ver = disk]
  <2>1. t.stage = "parsed" /\ t.gone = {}
    BY DEF Idle
  <2>2. imp' = [imp EXCEPT ![i] = t]
    BY <1>3 DEF Parse
  <2> QED BY <2>1, <2>2 DEF Moved
<1>4. CASE UpsertWorkspace(i)
  <2>1. PICK w \in Workspaces :
          /\ r.stage = "parsed"
          /\ imp' = [imp EXCEPT ![i] = [r EXCEPT !.stage = "open", !.ws = Key(w)]]
    BY <1>4 DEF UpsertWorkspace
  <2> DEFINE t == [r EXCEPT !.stage = "open", !.ws = Key(w)]
  <2>2. t.stage = "open" /\ t.gone = r.gone
    BY <1>1 DEF Imports
  <2> QED BY <2>1, <2>2 DEF Moved
<1>5. CASE LockSession(i)
  <2>1. CASE Exists(r.ws)
    <3> DEFINE t == [r EXCEPT !.stage = "locked"]
    <3>1. t.stage = "locked" /\ t.ws = r.ws /\ t.gone = r.gone
      BY <1>1 DEF Imports
    <3>2. imp' = [imp EXCEPT ![i] = t]
      BY <1>5, <2>1 DEF LockSession
    <3>3. r.stage = "open" /\ \A j \in Importers : imp[j].stage \in Open => imp[j].ws # r.ws
      BY <1>5 DEF LockSession
    <3> HIDE DEF t
    <3> QED BY <2>1, <3>1, <3>2, <3>3 DEF Moved
  <2>2. CASE ~Exists(r.ws)
    BY <1>2, <1>5, <2>2 DEF LockSession, Moved
  <2> QED BY <2>1, <2>2
<1>6. CASE StoreCodex(i) \/ StoreClaude(i) \/ StoreAntigravity(i) \/ StoreVscode(i) \/ StoreManus(i)
  <2>1. PICK lines, linked : Store(i, lines, Said(r.ver), linked)
    BY <1>6, StoresWhatIsSaid
  <2> DEFINE t == [r EXCEPT !.stage = "stored", !.lines = lines, !.puts = Said(r.ver), !.linked = linked]
  <2>2. t.stage = "stored" /\ t.ws = r.ws /\ t.gone = r.gone /\ t.ver = r.ver /\ t.puts = Said(r.ver)
    BY <1>1 DEF Imports
  <2>3. imp' = [imp EXCEPT ![i] = t]
    BY <2>1 DEF Store
  <2>4. r.stage = "locked" /\ \A j \in Importers : imp[j].stage \notin Writing
    BY <2>1 DEF Store
  <2> HIDE DEF t
  <2> QED BY <2>2, <2>3, <2>4 DEF Moved
<1>7. CASE DeleteStale(i)
  <2> DEFINE ids == { m.id : m \in { m \in messages : m.ws = imp[i].ws /\ m.ord \notin imp[i].puts } }
             stale == { v \in embeddings : v.of \in ids }
             t == [r EXCEPT !.stage = "trimmed", !.gone = ids, !.stale = stale]
  <2>1. imp' = [imp EXCEPT ![i] = t] /\ r.stage = "stored" /\ source # "manus"
    BY <1>7 DEF DeleteStale
  <2>2. t.stage = "trimmed" /\ t.ws = r.ws /\ t.ver = r.ver /\ t.puts = r.puts /\ t.gone = ids
    <3> HIDE DEF ids, stale
    <3> QED BY <1>1 DEF Imports
  <2>3. ids = { m.id : m \in { m \in messages : m.ws = t.ws /\ m.ord \notin t.puts } }
    <3>1. r.ws = t.ws /\ r.puts = t.puts
      BY <2>2
    <3> HIDE DEF t
    <3> QED BY <3>1
  <2> HIDE DEF t, ids, stale
  <2> QED BY <2>1, <2>2, <2>3 DEF Moved
<1>8. CASE ObserveSession(i) \/ ObserveTask(i)
  <2> DEFINE t == [r EXCEPT !.stage = "watched", !.act = \A a \in observed : a.ws # imp[i].ws]
  <2>1. imp' = [imp EXCEPT ![i] = t] /\ r.stage = IF source = "manus" THEN "stored" ELSE "trimmed"
    BY <1>8 DEF ObserveSession, ObserveTask, Observe
  <2>2. t.stage = "watched" /\ t.ws = r.ws /\ t.ver = r.ver /\ t.puts = r.puts /\ t.gone = r.gone
    BY <1>1 DEF Imports
  <2> HIDE DEF t
  <2> QED BY <2>1, <2>2 DEF Moved
<1>9. CASE Abort(i)
  BY <1>2, <1>9 DEF Abort, Moved
<1> QED
  BY <1>3, <1>4, <1>5, <1>6, <1>7, <1>8, <1>9 DEF Import

\* A key of a workspace that is still there, or is purged by nobody, stays.
LEMMA ExistsStays ==
    ASSUME there \subseteq there', age' = age, NEW ws, Exists(ws)
    PROVE  Exists(ws)'
BY DEF Exists

\* A purge takes one key away.
LEMMA OthersExist ==
    ASSUME Typed, NEW w \in Workspaces, Purge(w), NEW ws \in WorkspaceKeys, Exists(ws), ws # Key(w)
    PROVE  Exists(ws)'
BY DEF Typed, MemoryTypeOK, Purge, Exists, Key, WorkspaceKeys

\* Who writes into a workspace holds its row, so no step leaves rows behind.
LEMMA NothingLeftNext == Typed /\ NothingLeft /\ [MemoryNext]_memoryVars => NothingLeft'
<1> SUFFICES ASSUME Typed, NothingLeft, [MemoryNext]_memoryVars PROVE NothingLeft'
  OBVIOUS
<1>1. CASE FileChanges \/ UNCHANGED memoryVars
  BY <1>1 DEF FileChanges, memoryVars, db, NothingLeft, PurgeForgets, Exists
<1>2. ASSUME NEW i \in Importers, Import(i), ~Commit(i) PROVE NothingLeft'
  <2>1. UNCHANGED << age, messages, embeddings, events, observed >>
    BY <1>2, ImporterWrites DEF db
  <2>2. there \subseteq there'
    BY <1>2 DEF Import, Parse, UpsertWorkspace, LockSession, StoreCodex, StoreClaude, StoreAntigravity,
                StoreVscode, StoreManus, Store, DeleteStale, ObserveSession, ObserveTask, Observe, Abort
  <2>3. \A j \in Importers : imp'[j].stage \in Open => Exists(imp'[j].ws)
    <3>1. PICK t : imp' = [imp EXCEPT ![i] = t] /\ Moved(i, t)
      BY <1>2, ImporterMoves
    <3> QED BY <3>1 DEF Moved, NothingLeft, Typed, MemoryTypeOK, Open, Writing
  <2> QED BY <2>1, <2>2, <2>3, ExistsStays DEF NothingLeft, PurgeForgets
<1>3. ASSUME NEW i \in Importers, Commit(i) PROVE NothingLeft'
  <2> DEFINE t == imp[i]
  <2>1. Exists(t.ws) /\ t.ws \in WorkspaceKeys
    BY <1>3 DEF Commit, NothingLeft, Open, Writing, Typed, Placed
  <2>2. \A m \in messages' : Exists(m.ws)
    BY <1>3, <2>1, MessagesCommitted, NewRowFields DEF Commit, NothingLeft, PurgeForgets
  <2>3. \A v \in events' : Exists(v.owner)
    BY <1>3, <2>1, EventsCommitted DEF Commit, NothingLeft, PurgeForgets
  <2>4. (\A v \in embeddings' : Exists(v.ws)) /\ \A a \in observed' : Exists(a.ws)
    BY <1>3, <2>1 DEF Commit, NothingLeft, PurgeForgets
  <2>5. \A j \in Importers : imp'[j].stage \in Open => Exists(imp'[j].ws)
    BY <1>3 DEF Commit, NothingLeft, Idle, Open, Writing, Typed, MemoryTypeOK
  <2>6. there' = there /\ age' = age
    BY <1>3 DEF Commit
  <2> QED BY <2>2, <2>3, <2>4, <2>5, <2>6 DEF NothingLeft, PurgeForgets, Exists
<1>4. ASSUME NEW e \in Embedders, Embed(e) PROVE NothingLeft'
  <2>1. UNCHANGED << age, there, events, messages, observed, imp >>
    BY <1>4, EmbedderTypes
  <2>2. \A v \in embeddings' : Exists(v.ws)
    BY <1>4 DEF Embed, Fetch, Insert, EmbedFails, db, NothingLeft, PurgeForgets
  <2> QED BY <2>1, <2>2 DEF NothingLeft, PurgeForgets, Exists
<1>5. ASSUME NEW w \in Workspaces, Purge(w) PROVE NothingLeft'
  <2>1. Forgotten(Key(w)) /\ imp' = imp
        /\ \A i \in Importers : imp[i].stage \in Open => imp[i].ws # Key(w)
    BY <1>5 DEF Purge
  <2>2. messages \subseteq Messages
    BY DEF Typed, MemoryTypeOK
  <2>3. \A m \in messages' : Exists(m.ws)'
    BY <1>5, <2>1, <2>2, MessagesForgotten, UnlinkedFields, OthersExist DEF NothingLeft, PurgeForgets, Messages
  <2>4. /\ \A v \in embeddings' : Exists(v.ws)'
        /\ \A v \in events' : Exists(v.owner)'
        /\ \A a \in observed' : Exists(a.ws)'
    BY <1>5, <2>1, OthersExist DEF Forgotten, NothingLeft, PurgeForgets, Typed, MemoryTypeOK, Embeddings
  <2>5. \A i \in Importers : imp[i].stage \in Open => Exists(imp[i].ws)'
    BY <1>5, <2>1, OthersExist DEF NothingLeft, Typed, Placed, Open, Writing
  <2> QED BY <2>1, <2>3, <2>4, <2>5 DEF NothingLeft, PurgeForgets
<1> QED BY <1>1, <1>2, <1>3, <1>4, <1>5 DEF MemoryNext

\* Nothing of a workspace that was purged comes back, whatever was under way
\* when it went.
THEOREM PurgedStaysAway == MemorySpec => []PurgeForgets
<1>1. MemoryInit => NothingLeft
  BY DEF MemoryInit, NothingLeft, PurgeForgets, Idle, Open, Writing
<1>2. NothingLeft => PurgeForgets
  BY DEF NothingLeft
<1> QED BY <1>1, <1>2, TypedInit, TypedNext, NothingLeftNext, PTL DEF MemorySpec

-----------------------------------------------------------------------------
(* What a workspace holds is one file. *)

\* No step brings two importers of one session into a workspace.
LEMMA ApartNext == Typed /\ Apart /\ [MemoryNext]_memoryVars => Apart'
<1> SUFFICES ASSUME Typed, Apart, [MemoryNext]_memoryVars PROVE Apart'
  OBVIOUS
<1>1. DOMAIN imp = Importers
  BY DEF Typed, MemoryTypeOK
<1>2. ASSUME NEW i \in Importers, Import(i), ~Commit(i) PROVE Apart'
  <2>1. PICK t : imp' = [imp EXCEPT ![i] = t] /\ Moved(i, t)
    BY <1>2, ImporterMoves
  <2> QED BY <1>1, <2>1 DEF Moved, Apart, Open, Writing
<1>3. ASSUME NEW i \in Importers, Commit(i) PROVE Apart'
  BY <1>1, <1>3 DEF Commit, Apart, Idle, Open, Writing
<1>4. CASE UNCHANGED imp
  BY <1>4 DEF Apart
<1>5. CASE \/ FileChanges \/ UNCHANGED memoryVars
           \/ \E e \in Embedders : Embed(e) \/ \E w \in Workspaces : Purge(w)
  <2>1. UNCHANGED imp
    BY <1>5, EmbedderTypes DEF FileChanges, memoryVars, Purge
  <2> QED BY <2>1, <1>4
<1> QED BY <1>2, <1>3, <1>5 DEF MemoryNext

\* The rows a committing import t meets, and what it is about to write.
LEMMA CommitMeets ==
    ASSUME Typed, Rowed, Prepared, NEW i \in Importers, Commit(i)
    PROVE  /\ messages' = MessagesAfter(imp[i]) /\ imported' = imported + 1
           /\ source' = source /\ imported \in Nat
           /\ imp[i].puts = Said(imp[i].ver) /\ imp[i].ver \in DOMAIN Shapes
           /\ imp[i].gone = IF source = "manus" THEN {}
                ELSE { m.id : m \in { m \in messages : m.ws = imp[i].ws /\ m.ord \notin imp[i].puts } }
BY DEF Commit, Prepared, Typed, Placed, MemoryTypeOK, Open, Writing

\* A commit gives new ids to new rows only.
LEMMA RowedCommit ==
    ASSUME Typed, Rowed, Prepared, NEW i \in Importers, Commit(i)
    PROVE  Rowed'
<1> DEFINE t == imp[i]
<1>1. /\ messages' = MessagesAfter(t) /\ imported' = imported + 1
      /\ source' = source /\ imported \in Nat
      /\ t.puts = Said(t.ver)
  BY CommitMeets
<1>2. messages \subseteq Messages
  BY DEF Typed, MemoryTypeOK
<1> HIDE DEF t
<1>3. ASSUME NEW m \in messages' PROVE (m \in messages /\ LeftAlone(t, m)) \/ \E o \in t.puts : m = NewRow(t, o)
  BY <1>1, MessagesCommitted
<1>4. ASSUME NEW o \in t.puts, NEW k \in messages, LeftAlone(t, k)
      PROVE  k.id # IdOf(t, o) /\ ~(k.ws = t.ws /\ k.ord = o)
  <2>1. CASE IdOf(t, o) = << imported, o >>
    <3>1. k.id[1] < imported /\ << imported, o >>[1] = imported
      BY DEF Rowed
    <3> QED BY <1>1, <2>1, <3>1, <1>4 DEF LeftAlone
  <2>2. CASE \E m \in messages : m.ws = t.ws /\ m.ord = o /\ IdOf(t, o) = m.id
    BY <1>4, <2>2 DEF Rowed, LeftAlone
  <2> QED BY <2>1, <2>2, IdIsOldOrNew
<1>5. ASSUME NEW o \in t.puts, NEW q \in t.puts, IdOf(t, o) = IdOf(t, q) PROVE o = q
  <2>1. ASSUME NEW x \in t.puts, NEW y \in t.puts, IdOf(t, x) = << imported, x >>, IdOf(t, x) = IdOf(t, y) PROVE x = y
    <3>1. ASSUME NEW m \in messages, IdOf(t, y) = m.id PROVE FALSE
      <4>1. m.id[1] < imported /\ m.id = << imported, x >>
        BY <2>1, <3>1 DEF Rowed
      <4> QED BY <1>1, <4>1
    <3>2. IdOf(t, y) = << imported, y >>
      BY <3>1, IdIsOldOrNew
    <3> QED BY <2>1, <3>2
  <2>2. CASE IdOf(t, o) = << imported, o >> \/ IdOf(t, q) = << imported, q >>
    BY <1>5, <2>1, <2>2
  <2>3. CASE /\ \E m \in messages : m.ws = t.ws /\ m.ord = o /\ IdOf(t, o) = m.id
             /\ \E m \in messages : m.ws = t.ws /\ m.ord = q /\ IdOf(t, q) = m.id
    BY <1>5, <2>3 DEF Rowed
  <2> QED BY <2>2, <2>3, IdIsOldOrNew
<1>6. ASSUME NEW m \in messages', NEW n \in messages', (m.ws = n.ws /\ m.ord = n.ord) \/ m.id = n.id
      PROVE  m = n
  <2>1. CASE m \in messages /\ LeftAlone(t, m) /\ n \in messages /\ LeftAlone(t, n)
    BY <1>6, <2>1 DEF Rowed
  <2>2. ASSUME NEW o \in t.puts, NEW q \in t.puts, m = NewRow(t, o), n = NewRow(t, q) PROVE m = n
    BY <1>5, <1>6, <2>2, NewRowFields
  <2>3. ASSUME NEW k \in messages, LeftAlone(t, k), NEW o \in t.puts
        PROVE  k.id # NewRow(t, o).id /\ ~(k.ws = NewRow(t, o).ws /\ k.ord = NewRow(t, o).ord)
    BY <1>4, <2>3, NewRowFields
  <2> QED BY <1>3, <1>6, <2>1, <2>2, <2>3
<1>7. ASSUME NEW m \in messages' PROVE m.id[1] < imported' /\ m.ord \in Said(m.ver)'
  <2>1. Said(m.ver)' = Said(m.ver)
    BY <1>1 DEF Said
  <2>2. CASE m \in messages
    <3>1. m.id[1] < imported /\ m.ord \in Said(m.ver) /\ m.id[1] \in Nat
      BY <1>2, <2>2 DEF Rowed, Messages, Ids
    <3> QED BY <1>1, <2>1, <3>1
  <2>3. ASSUME NEW o \in t.puts, m = NewRow(t, o) PROVE m.id[1] < imported' /\ m.ord \in Said(m.ver)'
    <3>1. m.id = IdOf(t, o) /\ m.ord \in Said(m.ver)
      BY <1>1, <2>3, NewRowFields
    <3>2. CASE IdOf(t, o) = << imported, o >>
      BY <1>1, <2>1, <3>1, <3>2
    <3>3. ASSUME NEW k \in messages, IdOf(t, o) = k.id PROVE m.id[1] < imported' /\ m.ord \in Said(m.ver)'
      <4>1. k.id[1] < imported /\ k.id[1] \in Nat
        BY <1>2 DEF Rowed, Messages, Ids
      <4> QED BY <1>1, <2>1, <3>1, <3>3, <4>1
    <3> QED BY <3>2, <3>3, IdIsOldOrNew
  <2> QED BY <1>3, <2>2, <2>3
<1> QED BY <1>6, <1>7 DEF Rowed

\* A purge leaves the messages of other workspaces as they are, number, id and
\* shape.
LEMMA PurgeLeaves ==
    ASSUME Typed, NEW w \in Workspaces, Purge(w)
    PROVE  /\ \A m \in messages' : \E n \in messages :
                 /\ n.ws # Key(w) /\ m = Unlinked(n, Key(w))
                 /\ m.ws = n.ws /\ m.ord = n.ord /\ m.id = n.id /\ m.ver = n.ver
           /\ \A n \in messages : n.ws # Key(w) => \E m \in messages' :
                 m.ws = n.ws /\ m.ord = n.ord /\ m.id = n.id /\ m.ver = n.ver
           /\ UNCHANGED << source, imp, imported >>
<1>1. messages \subseteq Messages
  BY DEF Typed, MemoryTypeOK
<1>2. \A n \in messages :
         LET m == Unlinked(n, Key(w))
         IN  m.ws = n.ws /\ m.ord = n.ord /\ m.id = n.id /\ m.ver = n.ver
  BY <1>1, UnlinkedFields
<1>3. Forgotten(Key(w)) /\ UNCHANGED << source, imp, imported >>
  BY DEF Purge
<1> QED BY <1>2, <1>3, MessagesForgotten

\* A purge gives none.
LEMMA RowedPurge ==
    ASSUME Typed, Rowed, NEW w \in Workspaces, Purge(w)
    PROVE  Rowed'
<1>1. \A n : Said(n)' = Said(n)
  BY PurgeLeaves DEF Said
<1>2. \A m \in messages' : m.id[1] < imported' /\ m.ord \in Said(m.ver)
  BY PurgeLeaves DEF Rowed
<1>3. ASSUME NEW m \in messages', NEW n \in messages', (m.ws = n.ws /\ m.ord = n.ord) \/ m.id = n.id
      PROVE  m = n
  <2>1. PICK k \in messages : m = Unlinked(k, Key(w)) /\ m.ws = k.ws /\ m.ord = k.ord /\ m.id = k.id
    BY PurgeLeaves
  <2>2. PICK l \in messages : n = Unlinked(l, Key(w)) /\ n.ws = l.ws /\ n.ord = l.ord /\ n.id = l.id
    BY PurgeLeaves
  <2>3. k = l
    BY <1>3, <2>1, <2>2 DEF Rowed
  <2> QED BY <2>1, <2>2, <2>3
<1> QED BY <1>1, <1>2, <1>3 DEF Rowed

\* A purge waits for the imports of its workspace, so what they are about to
\* delete is still what they found.
LEMMA PreparedPurge ==
    ASSUME Typed, Prepared, NEW w \in Workspaces, Purge(w)
    PROVE  Prepared'
<1>1. UNCHANGED << source, imp >>
  BY PurgeLeaves
<1>2. \A n : Said(n)' = Said(n)
  BY <1>1 DEF Said
<1>3. ASSUME NEW i \in Importers, imp[i].stage \in {"trimmed", "watched"}
      PROVE  { m.id : m \in { m \in messages' : m.ws = imp[i].ws /\ m.ord \notin imp[i].puts } }
             = { m.id : m \in { m \in messages : m.ws = imp[i].ws /\ m.ord \notin imp[i].puts } }
  <2>1. imp[i].ws # Key(w)
    BY <1>3 DEF Purge, Open, Writing
  <2> QED BY <2>1, PurgeLeaves
<1> QED BY <1>1, <1>2, <1>3 DEF Prepared

\* An importer finds what it is about to delete, and puts what was said.
LEMMA PreparedImport ==
    ASSUME Typed, Prepared, NEW i \in Importers, Import(i), ~Commit(i)
    PROVE  Prepared'
<1>1. PICK t : imp' = [imp EXCEPT ![i] = t] /\ Moved(i, t)
  BY ImporterMoves
<1>2. UNCHANGED << source, messages >>
  BY ImporterWrites DEF db
<1>3. \A n : Said(n)' = Said(n)
  BY <1>2 DEF Said
<1>4. imp'[i] = t /\ \A j \in Importers \ {i} : imp'[j] = imp[j]
  BY <1>1 DEF Typed, MemoryTypeOK
<1>5. t.stage \in Writing => t.puts = Said(t.ver)
  BY <1>1 DEF Moved, Prepared, Open, Writing
<1>6. t.gone = IF t.stage \in {"trimmed", "watched"} /\ source # "manus"
               THEN { m.id : m \in { m \in messages : m.ws = t.ws /\ m.ord \notin t.puts } }
               ELSE {}
  BY <1>1 DEF Moved, Prepared, Open, Writing
<1> SUFFICES ASSUME NEW j \in Importers
             PROVE  /\ imp'[j].stage \in Writing => imp'[j].puts = Said(imp[j].ver)'
                    /\ imp'[j].gone =
                         IF imp'[j].stage \in {"trimmed", "watched"} /\ source' # "manus"
                         THEN { m.id : m \in { m \in messages' : m.ws = imp'[j].ws /\ m.ord \notin imp'[j].puts } }
                         ELSE {}
  BY DEF Prepared
<1>7. PICK s : s = imp'[j]
  OBVIOUS
<1>8. /\ s.stage \in Writing => s.puts = Said(s.ver)
      /\ s.gone = IF s.stage \in {"trimmed", "watched"} /\ source # "manus"
                  THEN { m.id : m \in { m \in messages : m.ws = s.ws /\ m.ord \notin s.puts } }
                  ELSE {}
  <2>1. CASE j = i
    BY <1>4, <1>5, <1>6, <1>7, <2>1
  <2>2. CASE j # i
    <3>1. s = imp[j]
      BY <1>4, <1>7, <2>2
    <3> QED BY <3>1 DEF Prepared
  <2> QED BY <2>1, <2>2
<1> QED BY <1>2, <1>3, <1>7, <1>8

\* No other importer has got past its lock while one commits.
LEMMA PreparedCommit ==
    ASSUME Typed, Apart, Prepared, NEW i \in Importers, Commit(i)
    PROVE  Prepared'
<1>1. imp' = [imp EXCEPT ![i] = Idle] /\ source' = source /\ imp[i].stage \in Writing
  BY DEF Commit, Writing
<1>2. \A n : Said(n)' = Said(n)
  BY <1>1 DEF Said
<1>3. imp'[i] = Idle /\ \A j \in Importers \ {i} : imp'[j] = imp[j] /\ imp[j].stage \notin Writing
  BY <1>1 DEF Apart, Typed, MemoryTypeOK
<1>4. Idle.stage = "idle" /\ Idle.gone = {}
  BY DEF Idle
<1>5. \A j \in Importers \ {i} : imp[j].gone = {}
  BY <1>3 DEF Prepared, Writing
<1>6. \A j \in Importers : imp'[j].gone = {} /\ imp'[j].stage \notin Writing
  BY <1>3, <1>4, <1>5 DEF Writing
<1> QED BY <1>6 DEF Prepared, Writing

\* A commit leaves its own file in its workspace, and the others alone.
LEMMA SnapshotsCommit ==
    ASSUME Typed, Rowed, Prepared, Snapshots, NEW i \in Importers, Commit(i)
    PROVE  Snapshots'
<1>0. PICK t : t = imp[i]
  OBVIOUS
<1>1. /\ messages' = MessagesAfter(t) /\ source' = source
      /\ t.puts = Said(t.ver) /\ t.ver \in DOMAIN Shapes
      /\ t.gone = IF source = "manus" THEN {}
           ELSE { m.id : m \in { m \in messages : m.ws = t.ws /\ m.ord \notin t.puts } }
  BY <1>0, CommitMeets
<1>2. \A n : Said(n)' = Said(n)
  BY <1>1 DEF Said
<1>3. \A m \in messages' : (m \in messages /\ LeftAlone(t, m)) \/ \E o \in t.puts : m = NewRow(t, o)
  BY <1>1, MessagesCommitted
<1>4. \A m \in messages : m.ws # t.ws => LeftAlone(t, m) /\ m \in messages'
  BY <1>1, MessagesCommitted DEF LeftAlone, Rowed
<1>5. Holds(t.ws, t.ver)'
  <2>1. \A o \in Said(t.ver) : \E m \in messages' : m.ws = t.ws /\ m.ord = o /\ m.ver = t.ver
    BY <1>1, MessagesCommitted, NewRowFields
  <2>2. ASSUME source # "manus", NEW m \in messages', m.ws = t.ws PROVE m.ver = t.ver
    BY <1>1, <1>3, <2>2, NewRowFields DEF LeftAlone
  <2> QED BY <1>1, <1>2, <2>1, <2>2 DEF Holds
<1>6. ASSUME NEW ws, ws # t.ws, NEW n, Holds(ws, n) PROVE Holds(ws, n)'
  BY <1>1, <1>2, <1>3, <1>4, <1>6, NewRowFields DEF Holds
<1>7. ASSUME NEW m \in messages' PROVE \E n \in DOMAIN Shapes : Holds(m.ws, n)'
  <2>1. CASE m.ws = t.ws
    BY <1>1, <1>5, <2>1
  <2>2. CASE m.ws # t.ws
    BY <1>3, <1>6, <2>2, NewRowFields DEF Snapshots
  <2> QED BY <2>1, <2>2
<1> QED BY <1>7 DEF Snapshots

\* A purge leaves other workspaces whole.
LEMMA SnapshotsPurge ==
    ASSUME Typed, Snapshots, NEW w \in Workspaces, Purge(w)
    PROVE  Snapshots'
<1>1. source' = source
  BY PurgeLeaves
<1>2. \A n : Said(n)' = Said(n)
  BY <1>1 DEF Said
<1>3. ASSUME NEW ws, ws # Key(w), NEW n, Holds(ws, n) PROVE Holds(ws, n)'
  BY <1>1, <1>2, <1>3, PurgeLeaves DEF Holds
<1>4. ASSUME NEW m \in messages' PROVE \E n \in DOMAIN Shapes : Holds(m.ws, n)'
  <2>1. PICK k \in messages : k.ws # Key(w) /\ m.ws = k.ws
    BY PurgeLeaves
  <2> QED BY <1>3, <2>1 DEF Snapshots
<1> QED BY <1>4 DEF Snapshots

\* So does every other step.
LEMMA SnapshotsNext ==
    Typed /\ Apart /\ Rowed /\ Prepared /\ Snapshots /\ [MemoryNext]_memoryVars
        => Rowed' /\ Prepared' /\ Snapshots'
<1> SUFFICES ASSUME Typed, Apart, Rowed, Prepared, Snapshots, [MemoryNext]_memoryVars
             PROVE  Rowed' /\ Prepared' /\ Snapshots'
  OBVIOUS
<1>1. ASSUME UNCHANGED << source, messages, imported >> PROVE Rowed' /\ Snapshots'
  BY <1>1 DEF Rowed, Snapshots, Holds, Said
<1>2. ASSUME UNCHANGED << source, messages, imp >> PROVE Prepared'
  BY <1>2 DEF Prepared, Said
<1>3. ASSUME NEW i \in Importers, Import(i), ~Commit(i) PROVE Rowed' /\ Prepared' /\ Snapshots'
  BY <1>1, <1>3, ImporterWrites, PreparedImport DEF db
<1>4. ASSUME NEW i \in Importers, Commit(i) PROVE Rowed' /\ Prepared' /\ Snapshots'
  BY <1>4, RowedCommit, PreparedCommit, SnapshotsCommit
<1>5. ASSUME NEW w \in Workspaces, Purge(w) PROVE Rowed' /\ Prepared' /\ Snapshots'
  BY <1>5, RowedPurge, PreparedPurge, SnapshotsPurge
<1>6. CASE FileChanges \/ UNCHANGED memoryVars \/ \E e \in Embedders : Embed(e)
  <2>1. UNCHANGED << source, messages, imported, imp >>
    BY <1>6, EmbedderTypes DEF FileChanges, memoryVars, db
  <2> QED BY <1>1, <1>2, <2>1
<1> QED BY <1>3, <1>4, <1>5, <1>6 DEF MemoryNext

\* Rows that are each from the file they say, and all of one file, are what
\* SnapshotIsWhole asks for.
LEMMA HoldsIsSnapshot ==
    ASSUME Rowed, Snapshots
    PROVE  SnapshotIsWhole
<1> SUFFICES ASSUME NEW ws \in { m.ws : m \in messages }
             PROVE  LET here == { m \in messages : m.ws = ws }
                    IN  \E n \in DOMAIN Shapes :
                          IF source = "manus"
                          THEN { m.ord : m \in { m \in here : m.ver = n } } = Said(n)
                          ELSE { << m.ord, m.ver >> : m \in here } = Said(n) \X {n}
  BY DEF SnapshotIsWhole, Said
<1>1. PICK n \in DOMAIN Shapes : Holds(ws, n)
  BY DEF Snapshots
<1> DEFINE here == { m \in messages : m.ws = ws }
<1>2. { m.ord : m \in { m \in here : m.ver = n } } = Said(n)
  BY <1>1 DEF Holds, Rowed
<1>3. ASSUME source # "manus" PROVE { << m.ord, m.ver >> : m \in here } = Said(n) \X {n}
  <2>1. \A m \in here : m.ord \in Said(n) /\ m.ver = n
    BY <1>1, <1>3 DEF Holds, Rowed
  <2>2. \A o \in Said(n) : \E m \in here : m.ord = o /\ m.ver = n
    BY <1>1 DEF Holds
  <2> HIDE DEF here
  <2> QED BY <2>1, <2>2
<1> QED BY <1>2, <1>3

\* What a workspace holds of a transcript is what its file said at one moment,
\* for any files, importers, workspaces and purges.
THEOREM SnapshotsAreWhole == MemorySpec => []SnapshotIsWhole
<1>1. MemoryInit => Apart /\ Rowed /\ Prepared /\ Snapshots
  BY DEF MemoryInit, Apart, Rowed, Prepared, Snapshots, Idle, Open, Writing
<1>2. Rowed /\ Snapshots => SnapshotIsWhole
  BY HoldsIsSnapshot
<1> QED BY <1>1, <1>2, TypedInit, TypedNext, ApartNext, SnapshotsNext, PTL DEF MemorySpec

-----------------------------------------------------------------------------
(* The degraded ledger.  For any number of tested commands, reconcilers,    *)
(* failures and crashes, it loses nothing, marks nothing as applied that is *)
(* not in the database, and records nothing twice that two transactions     *)
(* did not write at the same time.                                         *)
(*                                                                         *)
(* None of the three is inductive.  They rest on what a remembered response *)
(* says of the rows (Memory), on what a transaction about to commit still   *)
(* knows (Pending), and on a reconciler noting only what was written        *)
(* (Noting).                                                               *)

\* A remembered response tells the truth about the rows.
Memory ==
    /\ \A i \in Items : memo[i] = "ok" => rows[i] > 0
    /\ \A i \in Items : memo[i] = "refused" => i = Handoff
    /\ \A i \in Items \ raced : memo[i] = Nil => rows[i] = 0

\* A transaction about to commit is alone with its item unless it raced, and
\* what it decided still fits what is remembered.
Pending ==
    \A c \in Callers : pc[c] = "commit" =>
        /\ plan[c] = "refuse" => item[c] = Handoff
        /\ plan[c] = "replay" => memo[item[c]] # Nil
        /\ item[c] \notin raced =>
               /\ plan[c] = "write" => memo[item[c]] = Nil
               /\ \A o \in Callers \ {c} : ~(pc[o] = "commit" /\ item[o] = item[c])

\* A reconciler notes an event only when its rows are in the database.
Noting == \A r \in Reconcilers : pc[r] = "note" => rows[item[r]] > 0

\* What the dispatcher dealt with is in the database, in the file, or refused.
Kept ==
    \A i \in passed \ {Finding} :
        \/ rows[i] > 0
        \/ i \in ledger
        \/ i = Handoff /\ memo[i] = "refused"

IInv == TypeOK /\ Memory /\ Pending /\ Noting /\ Kept /\ AppliedIsRecorded /\ RecordedOnce

USE LedgerConstants DEF LedgerConstants, Callers, Items, Handoff, Evidence, Finding

-----------------------------------------------------------------------------
(* What a transaction that commits does to one item. *)

\* A committed transaction touches its own item only, takes nothing back, and
\* leaves the item recorded or, a handoff, refused.
LEMMA Effect ==
    ASSUME TypeOK, Memory, Pending, NEW c \in Callers, pc[c] = "commit", TakeEffect(c)
    PROVE  /\ rows' \in [Items -> Nat] /\ memo' \in [Items -> {Nil, "ok", "refused"}] /\ lease' \in BOOLEAN
           /\ \A i \in Items \ {item[c]} : rows'[i] = rows[i] /\ memo'[i] = memo[i]
           /\ rows'[item[c]] >= rows[item[c]]
           /\ memo[item[c]] # Nil => memo'[item[c]] = memo[item[c]]
           /\ memo'[item[c]] # Nil
           /\ memo'[item[c]] = "ok" => rows'[item[c]] > 0
           /\ memo'[item[c]] = "refused" => item[c] = Handoff
           /\ Succeeds(c) => rows'[item[c]] > 0
           /\ item[c] \notin raced /\ rows[item[c]] <= 1 => rows'[item[c]] <= 1
<1> USE DEF TypeOK
<1>1. CASE plan[c] = "write"
  <2>1. /\ rows' = [rows EXCEPT ![item[c]] = @ + 1]
        /\ memo' = [memo EXCEPT ![item[c]] = IF @ = Nil THEN "ok" ELSE @]
        /\ lease' = (lease /\ item[c] # Handoff)
    BY <1>1, Zenon DEF TakeEffect, Remember
  <2>2. lease' \in BOOLEAN
    BY <2>1, Zenon
  <2>3. item[c] \in Items /\ rows[item[c]] \in Nat
    OBVIOUS
  <2> QED
    BY <1>1, <2>1, <2>2, <2>3 DEF Memory, Pending, Succeeds
<1>2. CASE plan[c] = "refuse"
  <2>1. /\ rows' = rows /\ lease' = lease
        /\ memo' = [memo EXCEPT ![item[c]] = IF @ = Nil THEN "refused" ELSE @]
    BY <1>2, Zenon DEF TakeEffect, Remember
  <2>2. item[c] \in Items /\ rows[item[c]] \in Nat
    OBVIOUS
  <2> QED
    BY <1>2, <2>1, <2>2 DEF Memory, Pending, Succeeds
<1>3. CASE plan[c] = "replay"
  <2>1. rows' = rows /\ memo' = memo /\ lease' = lease
    BY <1>3, Zenon DEF TakeEffect, database
  <2>2. item[c] \in Items /\ rows[item[c]] \in Nat
    OBVIOUS
  <2> QED
    BY <1>3, <2>1, <2>2 DEF Memory, Pending, Succeeds
<1> QED
  BY <1>1, <1>2, <1>3

\* A step in which one transaction commits or loses its answer keeps what the
\* others know, and takes nothing out of the database.
LEMMA CommitKeeps ==
    ASSUME IInv, NEW c \in Callers, pc[c] = "commit", TakeEffect(c),
           raced' = raced, plan' = plan, applied' = applied, pc'[c] # "commit",
           \A o \in Callers \ {c} : pc'[o] = pc[o] /\ item'[o] = item[o]
    PROVE  /\ Memory' /\ Pending' /\ RecordedOnce' /\ AppliedIsRecorded'
           /\ \A i \in Items : rows'[i] \in Nat /\ rows'[i] >= rows[i]
           /\ \A i \in Items : memo[i] = "refused" => memo'[i] = "refused"
<1> DEFINE j == item[c]
<1>1. j \in Items /\ rows \in [Items -> Nat]
  BY DEF IInv, TypeOK
<1>2. /\ rows' \in [Items -> Nat] /\ memo' \in [Items -> {Nil, "ok", "refused"}]
      /\ \A i \in Items \ {j} : rows'[i] = rows[i] /\ memo'[i] = memo[i]
      /\ rows'[j] >= rows[j]
      /\ memo[j] # Nil => memo'[j] = memo[j]
      /\ memo'[j] # Nil
      /\ memo'[j] = "ok" => rows'[j] > 0
      /\ memo'[j] = "refused" => j = Handoff
      /\ j \notin raced /\ rows[j] <= 1 => rows'[j] <= 1
  BY Effect, Zenon DEF IInv
<1> HIDE DEF j
<1>3. \A i \in Items : rows'[i] \in Nat /\ rows'[i] >= rows[i]
  BY <1>1, <1>2
<1>4. \A i \in Items : memo[i] = "refused" => memo'[i] = "refused"
  BY <1>2
<1>5. Memory'
  BY <1>1, <1>2 DEF IInv, Memory
<1>6. RecordedOnce'
  BY <1>1, <1>2 DEF IInv, RecordedOnce
<1>7. AppliedIsRecorded'
  BY <1>1, <1>3 DEF IInv, TypeOK, AppliedIsRecorded
<1>8. Pending'
  <2> SUFFICES ASSUME NEW o \in Callers \ {c}, pc[o] = "commit"
               PROVE  /\ plan[o] = "refuse" => item[o] = Handoff
                      /\ plan[o] = "replay" => memo'[item[o]] # Nil
                      /\ item[o] \notin raced =>
                           /\ plan[o] = "write" => memo'[item[o]] = Nil
                           /\ \A q \in Callers \ {o} : ~(pc'[q] = "commit" /\ item'[q] = item[o])
    BY DEF Pending
  <2>1. item[o] \in Items
    BY DEF IInv, TypeOK
  <2>2. item[o] \notin raced => item[o] # j
    BY DEF IInv, Pending, j
  <2> QED
    BY <1>2, <2>1, <2>2 DEF IInv, Pending
<1> QED
  BY <1>3, <1>4, <1>5, <1>6, <1>7, <1>8

\* A step of one caller that neither commits nor reads leaves all this alone.
LEMMA OtherKeeps ==
    ASSUME IInv, NEW c \in Callers, UNCHANGED << rows, memo >>,
           raced' = raced, plan' = plan, pc'[c] # "commit",
           \A o \in Callers \ {c} : pc'[o] = pc[o] /\ item'[o] = item[o]
    PROVE  Memory' /\ Pending' /\ RecordedOnce'
<1>1. Memory' /\ RecordedOnce'
  BY DEF IInv, Memory, RecordedOnce
<1>2. Pending'
  BY DEF IInv, Pending
<1> QED
  BY <1>1, <1>2

\* While rows only grow, what a reconciler is about to note stays recorded.
LEMMA NotingKeeps ==
    ASSUME TypeOK, Noting, NEW c \in Callers,
           \A i \in Items : rows'[i] \in Nat /\ rows'[i] >= rows[i],
           \A o \in Callers \ {c} : pc'[o] = pc[o] /\ item'[o] = item[o],
           c \in Reconcilers /\ pc'[c] = "note" => rows'[item'[c]] > 0
    PROVE  Noting'
<1> SUFFICES ASSUME NEW r \in Reconcilers, r # c, pc'[r] = "note" PROVE rows'[item'[r]] > 0
  BY DEF Noting
<1>1. item'[r] = item[r] /\ item[r] \in Items /\ rows[item[r]] > 0
  BY DEF Noting, TypeOK
<1>2. rows[item[r]] \in Nat /\ rows'[item[r]] \in Nat /\ rows'[item[r]] >= rows[item[r]]
  BY <1>1 DEF TypeOK
<1> QED
  BY <1>1, <1>2

-----------------------------------------------------------------------------
(* The step of each operation. *)

\* A reconciler that moves on picks one of the events it has left.
LEMMA Picks ==
    ASSUME TypeOK, NEW r \in Reconcilers, NEW left \in SUBSET Items, ApplyFirst(r, left)
    PROVE  /\ pc' \in [Callers -> {"idle", "call", "commit", "append", "note"}]
           /\ item' \in [Callers -> Items]
           /\ batch' \in [Reconcilers -> SUBSET Items]
           /\ pc'[r] \in {"idle", "call"}
           /\ \A o \in Callers \ {r} : pc'[o] = pc[o] /\ item'[o] = item[o]
  BY DEF TypeOK, ApplyFirst, Goto

\* The dispatcher that moves on goes to the next item, if there is one.
LEMMA Advances ==
    ASSUME TypeOK, Advance
    PROVE  /\ pc' \in [Callers -> {"idle", "call", "commit", "append", "note"}]
           /\ item' \in [Callers -> Items]
           /\ passed' = passed \cup {item[Dispatcher]}
           /\ passed' \subseteq Items
           /\ pc'[Dispatcher] \in {"idle", "call"}
           /\ \A o \in Callers \ {Dispatcher} : pc'[o] = pc[o] /\ item'[o] = item[o]
<1>1. CASE item[Dispatcher] = Handoff
  BY <1>1 DEF TypeOK, Advance, Goto
<1>2. CASE item[Dispatcher] # Handoff
  <2>1. item[Dispatcher] + 1 \in Items
    BY <1>2 DEF TypeOK
  <2> QED
    BY <1>2, <2>1 DEF TypeOK, Advance, Goto
<1> QED
  BY <1>1, <1>2

\* Initially nothing was written, remembered or passed.
LEMMA InitIInv == Init => IInv
<1> SUFFICES ASSUME Init PROVE IInv
  OBVIOUS
<1>1. pc \in [Callers -> {"idle", "call", "commit", "append", "note"}]
  BY DEF Init
<1>2. item \in [Callers -> Items]
  BY DEF Init
<1>3. /\ plan \in [Callers -> {"write", "refuse", "replay"}]
      /\ batch \in [Reconcilers -> SUBSET Items]
      /\ rows \in [Items -> Nat]
      /\ memo \in [Items -> {Nil, "ok", "refused"}]
  BY DEF Init
<1>4. /\ lease \in BOOLEAN
      /\ ledger \subseteq Items /\ applied \subseteq Items
      /\ passed \subseteq Items /\ raced \subseteq Items
      /\ failures \in 0..MaxFailures /\ crashes \in 0..MaxCrashes
  BY DEF Init
<1>5. Memory /\ Pending /\ Noting /\ Kept /\ AppliedIsRecorded /\ RecordedOnce
  BY DEF Init, Memory, Pending, Noting, Kept, AppliedIsRecorded, RecordedOnce
<1> QED
  BY <1>1, <1>2, <1>3, <1>4, <1>5 DEF IInv, TypeOK

\* Reading the key and the lease: the transaction is alone with its item, or
\* the item is raced from here on.
LEMMA ReadStep == ASSUME IInv, NEW c \in Callers, Read(c) PROVE IInv'
<1> USE DEF IInv
<1>1. TypeOK'
  BY DEF TypeOK, Read, Goto, Decision, database, file
<1>2. Memory' /\ Noting' /\ Kept' /\ AppliedIsRecorded' /\ RecordedOnce'
  BY DEF TypeOK, Read, Goto, Memory, Noting, Kept, AppliedIsRecorded, RecordedOnce, database, file
<1>3. Pending'
  BY DEF TypeOK, Read, Goto, Decision, Memory, Pending, database, file
<1> QED
  BY <1>1, <1>2, <1>3

\* The dispatcher's transaction is answered: the item is recorded or refused.
LEMMA DispatcherCommitsStep == ASSUME IInv, DispatcherCommits PROVE IInv'
<1>1. /\ pc[Dispatcher] = "commit" /\ TakeEffect(Dispatcher) /\ Advance
      /\ UNCHANGED << plan, batch, ledger, applied, raced, failures, crashes >>
  BY DEF DispatcherCommits, file
<1>2. TypeOK /\ Memory /\ Pending /\ Dispatcher \in Callers
  BY DEF IInv
<1>3. Memory' /\ Pending' /\ RecordedOnce' /\ AppliedIsRecorded'
      /\ (\A i \in Items : rows'[i] \in Nat /\ rows'[i] >= rows[i])
      /\ (\A i \in Items : memo[i] = "refused" => memo'[i] = "refused")
  BY <1>1, <1>2, CommitKeeps, Advances
<1>4. TypeOK'
  BY <1>1, <1>2, Effect, Advances DEF TypeOK
<1>5. Noting'
  BY <1>1, <1>2, <1>3, Advances, NotingKeeps DEF IInv
<1>6. Kept'
  <2>1. item[Dispatcher] \in Items /\ memo'[item[Dispatcher]] \in {Nil, "ok", "refused"}
    BY <1>2, <1>4 DEF TypeOK
  <2>2. rows'[item[Dispatcher]] > 0 \/ (item[Dispatcher] = Handoff /\ memo'[item[Dispatcher]] = "refused")
    BY <1>1, <1>2, <2>1, Effect
  <2> QED
    BY <1>1, <1>2, <1>3, <2>2, Advances DEF IInv, Kept, TypeOK
<1> QED
  BY <1>3, <1>4, <1>5, <1>6 DEF IInv

\* The dispatcher's transaction raises, having taken effect or not: the item
\* is not dealt with until it is appended.
LEMMA DispatcherFailsStep == ASSUME IInv, DispatcherFails PROVE IInv'
<1>1. /\ pc[Dispatcher] \in {"call", "commit"} /\ failures < MaxFailures /\ failures' = failures + 1
      /\ pc' = [pc EXCEPT ![Dispatcher] = "append"]
      /\ UNCHANGED << item, plan, batch, ledger, applied, passed, raced, crashes >>
  BY DEF DispatcherFails, Goto, file
<1>2. TypeOK /\ Memory /\ Pending /\ Dispatcher \in Callers
  BY DEF IInv
<1>3. /\ pc' \in [Callers -> {"idle", "call", "commit", "append", "note"}]
      /\ pc'[Dispatcher] # "commit"
      /\ \A o \in Callers \ {Dispatcher} : pc'[o] = pc[o] /\ item'[o] = item[o]
  BY <1>1, <1>2 DEF TypeOK
<1>4. CASE UNCHANGED << rows, memo, lease >>
  <2>1. Memory' /\ Pending' /\ RecordedOnce'
    BY <1>1, <1>2, <1>3, <1>4, OtherKeeps
  <2> QED
    BY <1>1, <1>2, <1>3, <1>4, <2>1 DEF IInv, TypeOK, Noting, Kept, AppliedIsRecorded
<1>5. CASE pc[Dispatcher] = "commit" /\ TakeEffect(Dispatcher)
  <2>1. Memory' /\ Pending' /\ RecordedOnce' /\ AppliedIsRecorded'
        /\ (\A i \in Items : rows'[i] \in Nat /\ rows'[i] >= rows[i])
        /\ (\A i \in Items : memo[i] = "refused" => memo'[i] = "refused")
    BY <1>1, <1>2, <1>3, <1>5, CommitKeeps
  <2>2. TypeOK'
    <3>1. rows' \in [Items -> Nat] /\ memo' \in [Items -> {Nil, "ok", "refused"}] /\ lease' \in BOOLEAN
      BY <1>2, <1>5, Effect, Zenon
    <3>2. failures' \in 0..MaxFailures
      BY <1>1, <1>2 DEF TypeOK
    <3> QED
      BY <1>1, <1>2, <1>3, <3>1, <3>2 DEF TypeOK
  <2>3. Noting' /\ Kept'
    BY <1>1, <1>2, <1>3, <2>1 DEF IInv, Noting, Kept, TypeOK
  <2> QED
    BY <2>1, <2>2, <2>3 DEF IInv
<1> QED
  BY <1>4, <1>5 DEF DispatcherFails, database

\* The item the dispatcher appends is in the file from then on.
LEMMA AppendStep == ASSUME IInv, AppendPending PROVE IInv'
<1>1. /\ pc[Dispatcher] = "append" /\ ledger' = ledger \cup {item[Dispatcher]} /\ Advance
      /\ UNCHANGED << plan, batch, rows, memo, lease, applied, raced, failures, crashes >>
  BY DEF AppendPending, database
<1>2. TypeOK /\ Dispatcher \in Callers
  BY DEF IInv
<1>3. Memory' /\ Pending' /\ RecordedOnce'
  BY <1>1, <1>2, OtherKeeps, Advances
<1>4. TypeOK'
  BY <1>1, <1>2, Advances DEF TypeOK
<1>5. Noting' /\ AppliedIsRecorded'
  BY <1>1, <1>2, Advances DEF IInv, Noting, AppliedIsRecorded, TypeOK
<1>6. Kept'
  BY <1>1, <1>2, Advances DEF IInv, Kept, TypeOK
<1> QED
  BY <1>3, <1>4, <1>5, <1>6 DEF IInv

\* A dispatcher that dies leaves its item undealt with.
LEMMA DispatcherDiesStep == ASSUME IInv, DispatcherDies PROVE IInv'
<1>1. /\ pc' = [pc EXCEPT ![Dispatcher] = "idle"]
      /\ UNCHANGED << item, plan, batch, rows, memo, lease, ledger, applied, passed, raced, failures, crashes >>
  BY DEF DispatcherDies, Goto, database, file
<1>2. TypeOK /\ Dispatcher \in Callers
  BY DEF IInv
<1>3. Memory' /\ Pending' /\ RecordedOnce'
  BY <1>1, <1>2, OtherKeeps DEF TypeOK
<1> QED
  BY <1>1, <1>2, <1>3 DEF IInv, TypeOK, Noting, Kept, AppliedIsRecorded

\* A reconciler's transaction is answered: it notes the event if it was written.
LEMMA ReconcilerCommitsStep ==
    ASSUME IInv, NEW r \in Reconcilers, ReconcilerCommits(r) PROVE IInv'
<1>1. /\ pc[r] = "commit" /\ TakeEffect(r)
      /\ \/ Succeeds(r) /\ pc' = [pc EXCEPT ![r] = "note"] /\ UNCHANGED << item, batch >>
         \/ ApplyFirst(r, batch[r] \ {item[r]})
      /\ UNCHANGED << plan, ledger, applied, passed, raced, failures, crashes >>
  BY DEF ReconcilerCommits, Goto, file
<1>2. TypeOK /\ Memory /\ Pending /\ r \in Callers /\ batch[r] \ {item[r]} \in SUBSET Items
  BY DEF IInv, TypeOK
<1>3. /\ pc' \in [Callers -> {"idle", "call", "commit", "append", "note"}]
      /\ item' \in [Callers -> Items] /\ batch' \in [Reconcilers -> SUBSET Items]
      /\ pc'[r] # "commit"
      /\ pc'[r] = "note" => Succeeds(r) /\ item'[r] = item[r]
      /\ \A o \in Callers \ {r} : pc'[o] = pc[o] /\ item'[o] = item[o]
  BY <1>1, <1>2, Picks DEF TypeOK
<1>4. /\ rows' \in [Items -> Nat] /\ memo' \in [Items -> {Nil, "ok", "refused"}] /\ lease' \in BOOLEAN
      /\ Succeeds(r) => rows'[item[r]] > 0
  BY <1>1, <1>2, Effect
<1>5. Memory' /\ Pending' /\ RecordedOnce' /\ AppliedIsRecorded'
      /\ (\A i \in Items : rows'[i] \in Nat /\ rows'[i] >= rows[i])
      /\ (\A i \in Items : memo[i] = "refused" => memo'[i] = "refused")
  BY <1>1, <1>2, <1>3, CommitKeeps
<1>6. TypeOK'
  BY <1>1, <1>2, <1>3, <1>4 DEF TypeOK
<1>7. Noting'
  BY <1>2, <1>3, <1>4, <1>5, NotingKeeps DEF IInv
<1>8. Kept'
  BY <1>1, <1>2, <1>5 DEF IInv, Kept, TypeOK
<1> QED
  BY <1>5, <1>6, <1>7, <1>8 DEF IInv

\* A reconciler's transaction raises, having taken effect or not.
LEMMA ReconcilerFailsStep ==
    ASSUME IInv, NEW r \in Reconcilers, ReconcilerFails(r) PROVE IInv'
<1>1. /\ pc[r] \in {"call", "commit"} /\ failures < MaxFailures /\ failures' = failures + 1
      /\ pc' = [pc EXCEPT ![r] = "idle"] /\ batch' = [batch EXCEPT ![r] = {}]
      /\ UNCHANGED << item, plan, ledger, applied, passed, raced, crashes >>
  BY DEF ReconcilerFails, Goto, file
<1>2. TypeOK /\ Memory /\ Pending /\ r \in Callers
  BY DEF IInv
<1>3. /\ pc' \in [Callers -> {"idle", "call", "commit", "append", "note"}]
      /\ pc'[r] # "commit" /\ pc'[r] # "note"
      /\ \A o \in Callers \ {r} : pc'[o] = pc[o] /\ item'[o] = item[o]
  BY <1>1, <1>2 DEF TypeOK
<1>4. CASE UNCHANGED << rows, memo, lease >>
  <2>1. Memory' /\ Pending' /\ RecordedOnce'
    BY <1>1, <1>2, <1>3, <1>4, OtherKeeps
  <2> QED
    BY <1>1, <1>2, <1>3, <1>4, <2>1 DEF IInv, TypeOK, Noting, Kept, AppliedIsRecorded
<1>5. CASE pc[r] = "commit" /\ TakeEffect(r)
  <2>1. Memory' /\ Pending' /\ RecordedOnce' /\ AppliedIsRecorded'
        /\ (\A i \in Items : rows'[i] \in Nat /\ rows'[i] >= rows[i])
        /\ (\A i \in Items : memo[i] = "refused" => memo'[i] = "refused")
    BY <1>1, <1>2, <1>3, <1>5, CommitKeeps
  <2>2. TypeOK'
    <3>1. rows' \in [Items -> Nat] /\ memo' \in [Items -> {Nil, "ok", "refused"}] /\ lease' \in BOOLEAN
      BY <1>2, <1>5, Effect, Zenon
    <3>2. failures' \in 0..MaxFailures
      BY <1>1, <1>2 DEF TypeOK
    <3> QED
      BY <1>1, <1>2, <1>3, <3>1, <3>2 DEF TypeOK
  <2>3. Noting' /\ Kept'
    BY <1>1, <1>2, <1>3, <2>1 DEF IInv, Noting, Kept, TypeOK
  <2> QED
    BY <2>1, <2>2, <2>3 DEF IInv
<1> QED
  BY <1>4, <1>5 DEF ReconcilerFails, database

\* Starting, noting and dying write nothing to the database, and what is
\* noted is there.
LEMMA ReconcilerStep ==
    ASSUME IInv, NEW r \in Reconcilers, StartReconcile(r) \/ NoteApplied(r) \/ ReconcilerDies(r)
    PROVE  IInv'
<1>1. TypeOK /\ r \in Callers /\ PendingEvents \in SUBSET Items /\ batch[r] \ {item[r]} \in SUBSET Items
  BY DEF IInv, TypeOK, PendingEvents
<1>2. UNCHANGED << plan, rows, memo, lease, ledger, passed, raced, failures >>
  BY DEF StartReconcile, NoteApplied, ReconcilerDies, database, file
<1>3. /\ pc' \in [Callers -> {"idle", "call", "commit", "append", "note"}]
      /\ item' \in [Callers -> Items] /\ batch' \in [Reconcilers -> SUBSET Items]
      /\ pc'[r] # "commit" /\ pc'[r] # "note"
      /\ \A o \in Callers \ {r} : pc'[o] = pc[o] /\ item'[o] = item[o]
  <2>1. CASE StartReconcile(r)
    BY <1>1, <2>1, Picks DEF StartReconcile
  <2>2. CASE NoteApplied(r)
    BY <1>1, <2>2, Picks DEF NoteApplied
  <2>3. CASE ReconcilerDies(r)
    BY <1>1, <2>3 DEF ReconcilerDies, Goto, TypeOK
  <2> QED
    BY <2>1, <2>2, <2>3
<1>4. crashes' \in 0..MaxCrashes
  BY <1>1 DEF StartReconcile, NoteApplied, ReconcilerDies, TypeOK
<1>5. applied' \subseteq applied \cup {i \in Items : rows[i] > 0}
  <2>1. CASE NoteApplied(r)
    BY <1>1, <2>1 DEF NoteApplied, IInv, Noting, TypeOK
  <2> QED
    BY <2>1 DEF StartReconcile, ReconcilerDies, file
<1>6. Memory' /\ Pending' /\ RecordedOnce'
  BY <1>1, <1>2, <1>3, OtherKeeps
<1>7. TypeOK' /\ AppliedIsRecorded'
  BY <1>1, <1>2, <1>3, <1>4, <1>5 DEF IInv, TypeOK, AppliedIsRecorded
<1>8. Noting' /\ Kept'
  BY <1>1, <1>2, <1>3 DEF IInv, Noting, Kept, TypeOK
<1> QED
  BY <1>6, <1>7, <1>8 DEF IInv

\* The lease may end at any moment.
LEMMA EndLeaseStep == ASSUME IInv, EndLease PROVE IInv'
  BY DEF IInv, EndLease, TypeOK, Memory, Pending, Noting, Kept, AppliedIsRecorded, RecordedOnce, file

\* The inductive invariant holds throughout.
LEMMA Invariant == Spec => []IInv
<1>1. Init => IInv
  BY InitIInv
<1>2. IInv /\ [Next]_vars => IInv'
  <2>1. CASE UNCHANGED vars
    BY <2>1 DEF IInv, vars, database, file, TypeOK, Memory, Pending, Noting, Kept, AppliedIsRecorded, RecordedOnce
  <2> QED
    BY <2>1, EndLeaseStep, ReadStep, DispatcherCommitsStep, DispatcherFailsStep, AppendStep,
       DispatcherDiesStep, ReconcilerCommitsStep, ReconcilerFailsStep, ReconcilerStep
       DEF Next, Dispatch, Reconcile
<1> QED
  BY <1>1, <1>2, PTL DEF Spec

-----------------------------------------------------------------------------

\* The database holds a response and a number of rows for every item, and the
\* file only items, whatever fails or dies.
THEOREM LedgerTypeCorrect == Spec => []TypeOK
<1>1. IInv => TypeOK
  BY DEF IInv
<1> QED
  BY <1>1, Invariant, PTL

\* What the dispatcher has dealt with is in the database, pending, or a
\* handoff refused for its lease: no failure or crash loses it.
THEOREM LosesNothing == Spec => []NothingLost
<1>1. IInv => NothingLost
  BY DEF IInv, TypeOK, Kept, AppliedIsRecorded, NothingLost, PendingEvents
<1> QED
  BY <1>1, Invariant, PTL

\* reconcile marks nothing as applied that is not in the database.
THEOREM MarksWhatItWrote == Spec => []AppliedIsRecorded
<1>1. IInv => AppliedIsRecorded
  BY DEF IInv
<1> QED
  BY <1>1, Invariant, PTL

\* The idempotency keys keep every item single, through retries after hidden
\* commits, unless two transactions wrote it at the same time.
THEOREM RecordsOnce == Spec => []RecordedOnce
<1>1. IInv => RecordedOnce
  BY DEF IInv
<1> QED
  BY <1>1, Invariant, PTL

-----------------------------------------------------------------------------
(* Identity, for any calls one after another.  What holds of the store     *)
(* between them is Consistent.                                             *)

\* A store has workspaces by root URI, and aliases of them; a URI is no word for "none".
IsStore(store) ==
    /\ store = [root |-> store.root, alias |-> store.alias, prints |-> store.prints]
    /\ store.root = [u \in DOMAIN store.root |-> store.root[u]]
    /\ store.alias = [u \in DOMAIN store.alias |-> store.alias[u]]
    /\ Identity!Nothing \notin DOMAIN store.root

\* A workspace is named by its root, an alias is one of a workspace there is, and
\* a root is nobody else's alias.
Consistent(store) ==
    /\ IsStore(store)
    /\ \A u \in DOMAIN store.root : store.root[u] = u
    /\ \A a \in DOMAIN store.alias :
          /\ store.alias[a] \in DOMAIN store.root
          /\ a \in DOMAIN store.root => store.alias[a] = a

\* A place that is known stays the workspace it is.
Keeps(before, after) ==
    \A u : Identity!Resolve(before, u) # Identity!Nothing => Identity!Resolve(after, u) = Identity!Resolve(before, u)

\* An importer's first call, an alias, recorded fingerprints and a guessed alias all
\* leave the store consistent and every known place the workspace it is.
LEMMA UpsertKeeps ==
    ASSUME NEW s, Consistent(s), NEW u, u # Identity!Nothing
    PROVE  /\ Consistent(Identity!UpsertWorkspace(s, u))
           /\ Keeps(s, Identity!UpsertWorkspace(s, u))
           /\ Identity!Resolve(Identity!UpsertWorkspace(s, u), u) = Identity!Imports(s, u)
<1>1. CASE u \in DOMAIN s.alias \/ u \in DOMAIN s.root
  BY <1>1 DEF Consistent, IsStore, Keeps, Identity!UpsertWorkspace, Identity!Resolve, Identity!Imports
<1>2. CASE ~(u \in DOMAIN s.alias \/ u \in DOMAIN s.root)
  <2> DEFINE t == Identity!UpsertWorkspace(s, u)
  <2>1. t = [root |-> Identity!Bound(s.root, u, u), alias |-> s.alias, prints |-> s.prints]
    BY <1>2 DEF Consistent, IsStore, Identity!UpsertWorkspace
  <2>2. t.root = Identity!Bound(s.root, u, u) /\ t.alias = s.alias /\ t.prints = s.prints
    BY <2>1
  <2> HIDE DEF t
  <2>7. /\ DOMAIN t.root = DOMAIN s.root \cup {u}
        /\ t.root = [v \in DOMAIN t.root |-> t.root[v]]
        /\ t.root[u] = u
        /\ \A v \in DOMAIN s.root : v # u => t.root[v] = s.root[v]
    BY <2>2 DEF Identity!Bound
  <2>3. Consistent(t)
    BY <1>2, <2>1, <2>2, <2>7 DEF Consistent, IsStore
  <2>4. Keeps(s, t)
    BY <1>2, <2>2, <2>7 DEF Consistent, IsStore, Keeps, Identity!Resolve
  <2>5. Identity!Resolve(t, u) = Identity!Imports(s, u)
    BY <1>2, <2>2, <2>7 DEF Identity!Resolve, Identity!Imports, t
  <2> QED BY <2>3, <2>4, <2>5 DEF t
<1> QED BY <1>1, <1>2

\* An alias never changes what a known place is.
LEMMA AliasKeeps ==
    ASSUME NEW s, Consistent(s), NEW u, NEW a, a # Identity!Nothing
    PROVE  /\ Consistent(Identity!RegisterAlias(s, u, a))
           /\ Keeps(s, Identity!RegisterAlias(s, u, a))
           /\ Identity!RegisterAlias(s, u, a) # s => Identity!Resolve(Identity!RegisterAlias(s, u, a), a) = Identity!Resolve(s, u)
<1> DEFINE w == Identity!Resolve(s, u)
           t == Identity!RegisterAlias(s, u, a)
           refused == \/ w = Identity!Nothing
                      \/ a \in DOMAIN s.root /\ s.root[a] # w
                      \/ a \in DOMAIN s.alias /\ s.alias[a] # w
<1>1. CASE refused
  <2>1. t = s
    BY <1>1 DEF Identity!RegisterAlias
  <2> QED BY <2>1 DEF Keeps
<1>2. CASE ~refused
  <2>1. t = [root |-> s.root, alias |-> Identity!Bound(s.alias, a, w), prints |-> s.prints]
    BY <1>2 DEF Consistent, IsStore, Identity!RegisterAlias
  <2>2. t.root = s.root /\ t.alias = Identity!Bound(s.alias, a, w) /\ t.prints = s.prints
    BY <2>1
  <2>3. w \in DOMAIN s.root
    BY <1>2 DEF Consistent, Identity!Resolve
  <2> HIDE DEF t
  <2>7. /\ DOMAIN t.alias = DOMAIN s.alias \cup {a}
        /\ t.alias = [v \in DOMAIN t.alias |-> t.alias[v]]
        /\ t.alias[a] = w
        /\ \A v \in DOMAIN s.alias : v # a => t.alias[v] = s.alias[v]
    BY <2>2 DEF Identity!Bound
  <2> HIDE DEF w
  <2>8. ~(a \in DOMAIN s.root /\ s.root[a] # w) /\ ~(a \in DOMAIN s.alias /\ s.alias[a] # w)
    BY <1>2
  <2>4. Consistent(t)
    BY <2>8, <2>1, <2>2, <2>3, <2>7 DEF Consistent, IsStore
  <2>5. Keeps(s, t)
    BY <2>8, <2>2, <2>7 DEF Consistent, IsStore, Keeps, Identity!Resolve
  <2>6. Identity!Resolve(t, a) = w
    BY <2>8, <2>2, <2>3, <2>7 DEF Consistent, Identity!Resolve
  <2> QED BY <2>4, <2>5, <2>6 DEF t, w
<1> QED BY <1>1, <1>2

\* Fingerprints never change what a place is.
LEMMA RecordKeeps ==
    ASSUME NEW s, Consistent(s), NEW u, NEW prints
    PROVE  /\ Consistent(Identity!RecordFingerprints(s, u, prints))
           /\ Keeps(s, Identity!RecordFingerprints(s, u, prints))
<1> DEFINE t == Identity!RecordFingerprints(s, u, prints)
<1>1. t = [root |-> s.root, alias |-> s.alias, prints |-> t.prints]
  BY DEF Consistent, IsStore, Identity!RecordFingerprints
<1>2. t.root = s.root /\ t.alias = s.alias
  BY <1>1
<1> HIDE DEF t
<1> QED BY <1>1, <1>2 DEF Consistent, IsStore, Keeps, Identity!Resolve, t

\* A guessed alias never changes what a known place is.
LEMMA BestKeeps ==
    ASSUME NEW s, Consistent(s), NEW u, u # Identity!Nothing, NEW prints
    PROVE  /\ Consistent(Identity!RegisterBest(s, u, prints))
           /\ Keeps(s, Identity!RegisterBest(s, u, prints))
           /\ Identity!RegisterBest(s, u, prints) # s =>
                \E w : /\ Identity!Resolve(Identity!RegisterBest(s, u, prints), u) = Identity!Resolve(s, w)
                       /\ Identity!Eligible(Identity!Resolve(s, u), Identity!Suggest(s, u, prints), prints) = {w}
<1> DEFINE eligible == Identity!Eligible(Identity!Resolve(s, u), Identity!Suggest(s, u, prints), prints)
           w == CHOOSE x \in eligible : TRUE
<1>1. CASE \E x \in eligible : eligible = {x}
  <2>1. eligible = {w}
    BY <1>1
  <2>2. Identity!RegisterBest(s, u, prints) = Identity!RegisterAlias(s, w, u)
    BY <1>1 DEF Identity!RegisterBest, Identity!RegisterOnly
  <2> HIDE DEF eligible, w
  <2>3. /\ Consistent(Identity!RegisterAlias(s, w, u))
        /\ Keeps(s, Identity!RegisterAlias(s, w, u))
        /\ Identity!RegisterAlias(s, w, u) # s => Identity!Resolve(Identity!RegisterAlias(s, w, u), u) = Identity!Resolve(s, w)
    BY AliasKeeps
  <2> QED BY <2>1, <2>2, <2>3 DEF eligible
<1>2. CASE ~\E x \in eligible : eligible = {x}
  <2>1. Identity!RegisterBest(s, u, prints) = s
    BY <1>2 DEF Identity!RegisterBest, Identity!RegisterOnly
  <2> HIDE DEF eligible, w
  <2>2. Keeps(s, s)
    BY DEF Keeps
  <2> QED BY <2>1, <2>2
<1> QED BY <1>1, <1>2
-----------------------------------------------------------------------------

\* What the calls of Identity!Step may be; a step names no URI "none".
Steps(uris, checkouts) ==
    ({"import"} \X uris) \cup ({"alias"} \X uris \X uris) \cup ({"prints", "best"} \X uris \X checkouts)

\* However imports, aliases, fingerprints and moves follow each other: a place that
\* is known stays the workspace it is, no root is another's alias, and an importer
\* finds there what every other command does (upsert_workspace, resolve_workspace_id,
\* register_workspace_alias).
THEOREM KnownPlacesStay ==
    /\ Consistent(Identity!Empty)
    /\ \A s, uris, checkouts : Consistent(s) /\ Identity!Nothing \notin uris =>
         /\ \A step \in Steps(uris, checkouts) :
               Consistent(Identity!Step(s, step)) /\ Keeps(s, Identity!Step(s, step))
         /\ \A u \in uris :
               Identity!Resolve(Identity!UpsertWorkspace(s, u), u) = Identity!Imports(s, u)
<1>1. Consistent(Identity!Empty)
  BY DEF Consistent, IsStore, Identity!Empty
<1>2. ASSUME NEW s, NEW uris, NEW checkouts, Consistent(s), Identity!Nothing \notin uris,
             NEW step \in Steps(uris, checkouts)
      PROVE  Consistent(Identity!Step(s, step)) /\ Keeps(s, Identity!Step(s, step))
  <2>1. CASE step \in {"import"} \X uris
    <3>1. step[2] \in uris /\ Identity!Step(s, step) = Identity!UpsertWorkspace(s, step[2])
      BY <2>1 DEF Identity!Step
    <3> QED BY <1>2, <3>1, UpsertKeeps
  <2>2. CASE step \in {"alias"} \X uris \X uris
    <3>1. step[3] \in uris /\ Identity!Step(s, step) = Identity!RegisterAlias(s, step[2], step[3])
      BY <2>2 DEF Identity!Step
    <3> QED BY <1>2, <3>1, AliasKeeps
  <2>3. CASE step \in {"prints", "best"} \X uris \X checkouts
    <3> DEFINE prints == Identity!Discover(step[3])
    <3>1. CASE step[1] = "prints"
      <4>1. Identity!Step(s, step) = Identity!RecordFingerprints(s, step[2], prints)
        BY <3>1 DEF Identity!Step
      <4> QED BY <1>2, <4>1, RecordKeeps
    <3>2. CASE step[1] = "best"
      <4>1. step[2] \in uris /\ Identity!Step(s, step) = Identity!RegisterBest(s, step[2], prints)
        BY <2>3, <3>2 DEF Identity!Step
      <4> HIDE DEF prints
      <4> QED BY <1>2, <4>1, BestKeeps
    <3> QED BY <2>3, <3>1, <3>2
  <2> QED BY <1>2, <2>1, <2>2, <2>3 DEF Steps
<1> QED BY <1>1, <1>2, UpsertKeeps

\* An alias that --register-best guesses is one of the only workspace besides the
\* present one that has fingerprints in common and has three quarters of them by
\* weight; otherwise it registers nothing.
THEOREM GuessesAreBacked ==
    ASSUME NEW s, Consistent(s), NEW u, u # Identity!Nothing, NEW prints,
           Identity!RegisterBest(s, u, prints) # s
    PROVE  \E w :
             /\ w # Identity!Resolve(s, u)
             /\ Identity!Resolve(Identity!RegisterBest(s, u, prints), u) = Identity!Resolve(s, w)
             /\ \A v \in DOMAIN Identity!Matched(s, prints) \ {Identity!Resolve(s, u)} :
                  4 * Identity!Weight(Identity!Matched(s, prints)[v]) >= 3 * Identity!Weight(prints)
                    <=> v = w
<1> DEFINE resolved == Identity!Resolve(s, u)
           matched == Identity!Matched(s, prints)
           suggested == Identity!Suggest(s, u, prints)
           Share(v) == Identity!Weight(matched[v])
           whole == Identity!Weight(prints)
<1>1. PICK w : /\ Identity!Resolve(Identity!RegisterBest(s, u, prints), u) = Identity!Resolve(s, w)
               /\ Identity!Eligible(resolved, suggested, prints) = {w}
  BY BestKeeps
<1>2. DOMAIN suggested = DOMAIN matched /\ \A v \in DOMAIN matched : suggested[v].weight = Share(v)
  BY DEF Identity!Suggest, Identity!Annotated, Identity!Weights
<1>3. {w} = { v \in DOMAIN matched : v # resolved /\ 4 * Share(v) >= 3 * whole }
  <2> HIDE DEF suggested, resolved
  <2> QED BY <1>1, <1>2 DEF Identity!Eligible
<1>4. w # resolved /\ \A v \in DOMAIN matched \ {resolved} : 4 * Share(v) >= 3 * whole <=> v = w
  <2> HIDE DEF suggested, resolved, matched, Share, whole
  <2> QED BY <1>3
<1> QED BY <1>1, <1>4
-----------------------------------------------------------------------------
\* Counting from nought: what holds of 0, and of n + 1 if it holds of n, holds of
\* every number.
LEMMA Counting ==
    ASSUME NEW S \in SUBSET Nat, 0 \in S, \A n \in S : n + 1 \in S
    PROVE  S = Nat
<1> SUFFICES ASSUME Nat \ S # {} PROVE FALSE
  OBVIOUS
<1> DEFINE T == Nat \ S
<1>1. \E n \in T : \A m \in T : ~(<< m, n >> \in OpToRel(<, Nat))
  <2>1. IsWellFoundedOn(OpToRel(<, Nat), Nat)
    BY NatLessThanWellFounded
  <2>2. T \in SUBSET Nat /\ T # {}
    OBVIOUS
  <2> HIDE DEF T
  <2> QED BY <2>1, <2>2, WFMin
<1>2. PICK n \in T : \A m \in T : ~(<< m, n >> \in OpToRel(<, Nat))
  BY <1>1
<1>3. n - 1 \in Nat /\ n - 1 < n /\ (n - 1) + 1 = n
  OBVIOUS
<1>4. << n - 1, n >> \in OpToRel(<, Nat)
  BY <1>2, <1>3 DEF OpToRel
<1>5. n \in T /\ n - 1 \notin T
  BY <1>2, <1>4, Zenon
<1> QED BY <1>3, <1>5

\* A cardinality in Identity is the cardinality.
LEMMA SameCount == \A S : Identity!Cardinality(S) = Cardinality(S)
  BY DEF Identity!Cardinality, Cardinality

\* Any fingerprints weigh something.
LEMMA WeightOf ==
    ASSUME NEW prints, IsFiniteSet(prints)
    PROVE  /\ Identity!Weight(prints) \in Nat
           /\ prints = {} <=> Identity!Weight(prints) = 0
<1> DEFINE Weighing(quarters) == { p \in prints : Identity!FingerprintWeight(p) = quarters }
<1>1. \A q : IsFiniteSet(Weighing(q)) /\ Cardinality(Weighing(q)) \in Nat
             /\ (Weighing(q) = {} <=> Cardinality(Weighing(q)) = 0)
  <2> TAKE q
  <2>1. IsFiniteSet(Weighing(q))
    BY FS_Subset
  <2> QED BY <2>1, FS_CardinalityType, FS_EmptySet
<1>2. Identity!Weight(prints) = 8 * Cardinality(Weighing(8)) + 4 * Cardinality(Weighing(4))
                                + 3 * Cardinality(Weighing(3)) + 2 * Cardinality(Weighing(2))
  BY SameCount DEF Identity!Weight
<1>3. prints = Weighing(8) \cup Weighing(4) \cup Weighing(3) \cup Weighing(2)
  <2>1. \A p : Identity!FingerprintWeight(p) \in {8, 4, 3, 2}
    <3> TAKE p
    <3>1. Identity!FingerprintWeight(p) = 8 \/ Identity!FingerprintWeight(p) = 4
          \/ Identity!FingerprintWeight(p) = 3 \/ Identity!FingerprintWeight(p) = 2
      BY DEF Identity!FingerprintWeight
    <3> QED BY <3>1
  <2>2. \A p \in prints : p \in Weighing(8) \/ p \in Weighing(4) \/ p \in Weighing(3) \/ p \in Weighing(2)
    BY <2>1
  <2> QED BY <2>2
<1> DEFINE a == Cardinality(Weighing(8))  b == Cardinality(Weighing(4))
           c == Cardinality(Weighing(3))  d == Cardinality(Weighing(2))
<1>4. a \in Nat /\ b \in Nat /\ c \in Nat /\ d \in Nat
  BY <1>1
<1>5. prints = {} <=> a = 0 /\ b = 0 /\ c = 0 /\ d = 0
  <2> HIDE DEF Weighing
  <2> QED BY <1>1, <1>3
<1> HIDE DEF a, b, c, d
<1>6. /\ 8 * a + 4 * b + 3 * c + 2 * d \in Nat
      /\ (a = 0 /\ b = 0 /\ c = 0 /\ d = 0) <=> 8 * a + 4 * b + 3 * c + 2 * d = 0
  BY <1>4
<1> QED BY <1>2, <1>5, <1>6 DEF a, b, c, d

\* Every workspace is one of the places, and fingerprints are those of workspaces.
Covered(store, uris) ==
    /\ DOMAIN store.root \in SUBSET uris
    /\ \A x \in store.prints : x[1] \in DOMAIN store.root

\* So it stays, whatever is called.
LEMMA CoveredStays ==
    ASSUME NEW s, NEW uris, NEW checkouts, Consistent(s), Covered(s, uris), Identity!Nothing \notin uris,
           NEW step \in Steps(uris, checkouts)
    PROVE  Covered(Identity!Step(s, step), uris)
<1>1. \A u, a : Covered(Identity!RegisterAlias(s, u, a), uris)
  BY DEF Covered, Consistent, IsStore, Identity!RegisterAlias
<1>2. CASE step \in {"import"} \X uris
  <2>1. step[2] \in uris /\ Identity!Step(s, step) = Identity!UpsertWorkspace(s, step[2])
    BY <1>2 DEF Identity!Step
  <2> DEFINE u == step[2]
  <2> HIDE DEF u
  <2>2. CASE u \in DOMAIN s.alias \/ u \in DOMAIN s.root
    BY <2>1, <2>2 DEF Identity!UpsertWorkspace, u
  <2>3. CASE ~(u \in DOMAIN s.alias \/ u \in DOMAIN s.root)
    <3> DEFINE t == Identity!UpsertWorkspace(s, u)
    <3>1. t = [root |-> Identity!Bound(s.root, u, u), alias |-> s.alias, prints |-> s.prints]
      BY <2>3 DEF Consistent, IsStore, Identity!UpsertWorkspace
    <3>2. t.root = Identity!Bound(s.root, u, u) /\ t.prints = s.prints
      BY <3>1
    <3>3. DOMAIN t.root = DOMAIN s.root \cup {u}
      BY <3>2 DEF Identity!Bound
    <3> HIDE DEF t
    <3>4. Covered(t, uris)
      BY <2>1, <3>2, <3>3 DEF Covered, u
    <3> QED BY <2>1, <3>4 DEF t, u
  <2> QED BY <2>2, <2>3
<1>3. CASE step \in {"alias"} \X uris \X uris
  <2>1. Identity!Step(s, step) = Identity!RegisterAlias(s, step[2], step[3])
    BY <1>3 DEF Identity!Step
  <2> QED BY <1>1, <2>1
<1>4. CASE step \in {"prints", "best"} \X uris \X checkouts
  <2> DEFINE prints == Identity!Discover(step[3])
  <2>1. CASE step[1] = "prints"
    <3>1. Identity!Step(s, step) = Identity!RecordFingerprints(s, step[2], prints)
      BY <2>1 DEF Identity!Step
    <3> DEFINE w == Identity!Resolve(s, step[2])
               t == Identity!RecordFingerprints(s, step[2], prints)
    <3> HIDE DEF prints
    <3>2. CASE w = Identity!Nothing
      BY <3>1, <3>2 DEF Identity!RecordFingerprints
    <3>3. CASE w # Identity!Nothing
      <4>1. w \in DOMAIN s.root
        BY <3>3 DEF Consistent, Identity!Resolve
      <4>2. t = [root |-> s.root, alias |-> s.alias, prints |-> s.prints \cup ({w} \X prints)]
        BY <3>3 DEF Consistent, IsStore, Identity!RecordFingerprints
      <4>3. t.root = s.root /\ t.prints = s.prints \cup ({w} \X prints)
        BY <4>2
      <4> HIDE DEF t, w
      <4>4. Covered(t, uris)
        BY <4>1, <4>3 DEF Covered
      <4> QED BY <3>1, <4>4 DEF t
    <3> QED BY <3>2, <3>3
  <2>2. CASE step[1] = "best"
    <3>1. Identity!Step(s, step) = Identity!RegisterBest(s, step[2], prints)
      BY <2>2 DEF Identity!Step
    <3> HIDE DEF prints
    <3> QED BY <1>1, <3>1 DEF Identity!RegisterBest, Identity!RegisterOnly
  <2> QED BY <1>4, <2>1, <2>2
<1> QED BY <1>2, <1>3, <1>4 DEF Steps

\* Who has most of the fingerprints are those that --register-best may choose of.
LEMMA EligibleAre ==
    ASSUME NEW s, NEW uris, Consistent(s), Covered(s, uris), Identity!Nothing \notin uris,
           NEW prints, IsFiniteSet(prints), prints # {},
           NEW place, Identity!Resolve(s, place) = Identity!Nothing
    PROVE  Identity!Eligible(Identity!Resolve(s, place), Identity!Suggest(s, place, prints), prints) =
             { w \in uris : 4 * Identity!Weight({ p \in prints : << w, p >> \in s.prints })
                              >= 3 * Identity!Weight(prints) }
<1> DEFINE matched == Identity!Matched(s, prints)
           suggested == Identity!Suggest(s, place, prints)
           PrintsOf(w) == { p \in prints : << w, p >> \in s.prints }
           whole == Identity!Weight(prints)
<1>1. /\ DOMAIN suggested = DOMAIN matched
      /\ \A w \in DOMAIN matched : suggested[w].weight = Identity!Weight(matched[w])
  BY DEF Identity!Suggest, Identity!Annotated, Identity!Weights
<1>2. /\ DOMAIN matched = { x[1] : x \in { x \in s.prints : x[2] \in prints } }
      /\ \A w \in DOMAIN matched : matched[w] = PrintsOf(w)
  BY DEF Identity!Matched
<1>3. \A w \in DOMAIN matched : w \in uris /\ w # Identity!Nothing
  BY <1>2 DEF Covered
<1>4. ASSUME NEW w, 4 * Identity!Weight(PrintsOf(w)) >= 3 * whole PROVE w \in DOMAIN matched
  <2>1. IsFiniteSet(PrintsOf(w))
    BY FS_Subset
  <2>2. /\ Identity!Weight(PrintsOf(w)) \in Nat
        /\ PrintsOf(w) = {} <=> Identity!Weight(PrintsOf(w)) = 0
    <3> DEFINE shown == PrintsOf(w)
    <3> HIDE DEF shown
    <3>1. IsFiniteSet(shown)
      BY <2>1 DEF shown
    <3>2. Identity!Weight(shown) \in Nat /\ (shown = {} <=> Identity!Weight(shown) = 0)
      BY <3>1, WeightOf
    <3> QED BY <3>2 DEF shown
  <2>3. whole \in Nat /\ whole # 0
    BY WeightOf
  <2>4. PrintsOf(w) # {}
    <3> HIDE DEF PrintsOf, whole
    <3> QED BY <1>4, <2>2, <2>3
  <2>5. PICK p \in prints : << w, p >> \in s.prints
    BY <2>4
  <2>6. << w, p >>[1] = w /\ << w, p >>[2] = p
    OBVIOUS
  <2> QED BY <1>2, <2>5, <2>6
<1>5. Identity!Eligible(Identity!Resolve(s, place), suggested, prints) =
        { w \in DOMAIN suggested : w # Identity!Nothing /\ 4 * suggested[w].weight >= 3 * whole }
  BY DEF Identity!Eligible
<1> HIDE DEF matched, suggested, whole
<1>6. \A w : w \in Identity!Eligible(Identity!Resolve(s, place), suggested, prints)
             <=> w \in uris /\ 4 * Identity!Weight(PrintsOf(w)) >= 3 * whole
  BY <1>1, <1>2, <1>3, <1>4, <1>5
<1> QED BY <1>6 DEF suggested, whole

\* A place that has become the alias of a workspace is told to resolve to it.
LEMMA AliasTells ==
    ASSUME NEW s, Consistent(s), NEW place, place # Identity!Nothing,
           Identity!Resolve(s, place) = Identity!Nothing,
           NEW w \in DOMAIN s.root
    PROVE  LET t == Identity!RegisterAlias(s, w, place)
           IN  /\ Identity!Resolve(t, place) = w /\ Identity!Resolve(t, w) = w
               /\ place \in Identity!ListAliases(t, w)
               /\ t.prints = s.prints
<1> DEFINE t == Identity!RegisterAlias(s, w, place)
<1>1. w # Identity!Nothing /\ Identity!Resolve(s, w) = w
  BY DEF Consistent, IsStore, Identity!Resolve
<1>2. place \notin DOMAIN s.root /\ place \notin DOMAIN s.alias
  BY DEF Consistent, IsStore, Identity!Resolve
<1>3. t = [root |-> s.root, alias |-> Identity!Bound(s.alias, place, w), prints |-> s.prints]
  BY <1>1, <1>2 DEF Consistent, IsStore, Identity!RegisterAlias
<1>4. t.root = s.root /\ t.alias = Identity!Bound(s.alias, place, w) /\ t.prints = s.prints
  BY <1>3
<1> HIDE DEF t
<1>5. place \in DOMAIN t.alias /\ t.alias[place] = w
  BY <1>4 DEF Identity!Bound
<1>6. Identity!Resolve(t, place) = w /\ Identity!Resolve(t, w) = w
  BY <1>2, <1>4, <1>5 DEF Consistent, Identity!Resolve
<1>7. place \in Identity!ListAliases(t, w)
  BY <1>5, <1>6 DEF Identity!ListAliases
<1> QED BY <1>4, <1>6, <1>7 DEF t

\* The first store is empty, and each step makes the next one of the last.
IsHistory(stores, history) ==
    /\ DOMAIN stores = 0..Len(history) /\ stores[0] = Identity!Empty
    /\ \A n \in 1..Len(history) : stores[n] = Identity!Step(stores[n - 1], history[n])

\* A history goes through the stores that its steps make of one another.
LEMMA StoresAre ==
    ASSUME NEW S, NEW history \in Seq(S)
    PROVE  IsHistory(Identity!Stores(history), history)
<1> DEFINE N == Len(history)
           Next1(f, i) == IF i = 0 THEN Identity!Empty ELSE Identity!Step(f[i - 1], history[i])
           Goes(f, n) == f = [i \in 0..n |-> Next1(f, i)]
<1>1. N \in Nat
  OBVIOUS
<1>2. \A n \in Nat : \E f : Goes(f, n)
  <2> DEFINE P == { n \in Nat : \E f : Goes(f, n) }
  <2>1. 0 \in P
    <3> DEFINE f == [i \in 0..0 |-> Identity!Empty]
    <3>1. \A i \in 0..0 : i = 0
      OBVIOUS
    <3>2. f = [i \in 0..0 |-> Next1(f, i)]
      BY <3>1
    <3> HIDE DEF f
    <3> QED BY <3>2
  <2>2. ASSUME NEW n \in P PROVE n + 1 \in P
    <3>1. PICK f : Goes(f, n)
      OBVIOUS
    <3> DEFINE g == [i \in 0..(n + 1) |-> IF i = n + 1 THEN Next1(f, i) ELSE f[i]]
    <3>2. ASSUME NEW i \in 0..(n + 1) PROVE g[i] = Next1(g, i)
      <4>1. n \in Nat /\ i \in Nat
        OBVIOUS
      <4>2. i # 0 => i - 1 \in 0..(n + 1) /\ i - 1 # n + 1
        BY <4>1
      <4>3. Next1(g, i) = Next1(f, i)
        BY <4>2
      <4>4. i # n + 1 => i \in 0..n
        BY <4>1
      <4>5. i # n + 1 => f[i] = Next1(f, i)
        BY <3>1, <4>4
      <4> QED BY <4>3, <4>5
    <3>3. Goes(g, n + 1)
      BY <3>2
    <3> HIDE DEF g
    <3>4. \E h : Goes(h, n + 1)
      BY <3>3
    <3> HIDE DEF Goes
    <3> QED BY <3>4
  <2> HIDE DEF P
  <2>3. P = Nat
    <3>1. P \in SUBSET Nat
      BY DEF P
    <3> QED BY <2>1, <2>2, <3>1, Counting
  <2> QED BY <2>3 DEF P
<1> DEFINE stores == CHOOSE f : Goes(f, N)
<1>3. Identity!Stores(history) = stores
  BY DEF Identity!Stores
<1>4. Goes(stores, N)
  BY <1>1, <1>2
<1> HIDE DEF stores
<1>5. DOMAIN stores = 0..N /\ \A i \in 0..N : stores[i] = Next1(stores, i)
  BY <1>4
<1>6. 0 \in 0..N /\ \A i \in 1..N : i \in 0..N /\ i # 0
  BY <1>1
<1> QED BY <1>3, <1>5, <1>6 DEF IsHistory

\* Any history is followed, and any move.
LEMMA AnyMoveIsFollowed ==
    ASSUME NEW uris, IsFiniteSet(uris), Identity!Nothing \notin uris,
           NEW checkouts, NEW history \in Seq(Steps(uris, checkouts)),
           NEW place, place # Identity!Nothing,
           NEW checkout, IsFiniteSet(Identity!Discover(checkout))
    PROVE  Identity!FollowsMoves(history, uris, place, checkout)
<1> DEFINE last == Len(history)
           stores == Identity!Stores(history)
           before == stores[last]
           prints == Identity!Discover(checkout)
           after == Identity!RegisterBest(before, place, prints)
           Good(s) == Consistent(s) /\ Covered(s, uris)
<1>0. last \in Nat /\ \A n \in 1..last : history[n] \in Steps(uris, checkouts)
  OBVIOUS
<1>10. IsHistory(stores, history)
  BY StoresAre
<1> HIDE DEF stores
<1>1. \A n \in Nat : n <= last => Good(stores[n]) /\ \A m \in 0..n : Keeps(stores[m], stores[n])
  <2> DEFINE P(n) == n <= last => Good(stores[n]) /\ \A m \in 0..n : Keeps(stores[m], stores[n])
             S == { n \in Nat : P(n) }
  <2>1. 0 \in S
    <3>1. stores[0] = Identity!Empty
      BY <1>10 DEF IsHistory
    <3>2. Consistent(Identity!Empty)
      BY KnownPlacesStay
    <3>3. Covered(Identity!Empty, uris)
      BY DEF Covered, Identity!Empty
    <3>4. \A m \in 0..0 : Keeps(stores[m], stores[0])
      BY DEF Keeps
    <3> QED BY <3>1, <3>2, <3>3, <3>4
  <2>2. ASSUME NEW n \in S PROVE n + 1 \in S
    <3> SUFFICES ASSUME n + 1 <= last
                 PROVE  Good(stores[n + 1]) /\ \A m \in 0..(n + 1) : Keeps(stores[m], stores[n + 1])
      BY <2>2
    <3> DEFINE s == stores[n]  t == stores[n + 1]  step == history[n + 1]
    <3>1. n \in Nat /\ n <= last /\ n + 1 \in 1..last /\ (n + 1) - 1 = n
      BY <1>0, <2>2
    <3>2. Good(s) /\ \A m \in 0..n : Keeps(stores[m], s)
      BY <2>2, <3>1
    <3>3. t = Identity!Step(s, step) /\ step \in Steps(uris, checkouts)
      BY <1>0, <1>10, <3>1 DEF IsHistory
    <3> HIDE DEF s, t, step, S
    <3>4. Consistent(t) /\ Keeps(s, t)
      BY <3>2, <3>3, KnownPlacesStay
    <3>5. Covered(t, uris)
      BY <3>2, <3>3, CoveredStays
    <3>6. \A m \in 0..n : Keeps(stores[m], t)
      BY <3>2, <3>4 DEF Keeps
    <3>7. Keeps(t, t)
      BY DEF Keeps
    <3>8. \A m \in 0..(n + 1) : m \in 0..n \/ m = n + 1
      BY <3>1
    <3>9. \A m \in 0..(n + 1) : Keeps(stores[m], t)
      BY <3>6, <3>7, <3>8 DEF t
    <3> QED BY <3>4, <3>5, <3>9 DEF t
  <2>3. S = Nat
    <3>1. S \in SUBSET Nat
      OBVIOUS
    <3> HIDE DEF S
    <3> QED BY <2>1, <2>2, <3>1, Counting
  <2> QED BY <2>3
<1>2. Good(before) /\ \A n \in 0..last : Keeps(stores[n], before)
  BY <1>0, <1>1
<1> HIDE DEF before, prints, last
<1>3. IsFiniteSet(prints)
  BY DEF prints
<1>4. Consistent(after) /\ Keeps(before, after)
  BY <1>2, BestKeeps
<1>5. \A s, u : Consistent(s) /\ u \in uris =>
        Identity!Resolve(Identity!UpsertWorkspace(s, u), u) = Identity!Imports(s, u)
  BY UpsertKeeps
<1> DEFINE most == Identity!Most(before, uris, prints)
<1>6. ASSUME Identity!Resolve(before, place) = Identity!Nothing, prints # {}
      PROVE  IF Cardinality(most) = 1
             THEN /\ Identity!Resolve(after, place) \in most
                  /\ \A w \in most : place \in Identity!ListAliases(after, w)
                  /\ Identity!Suggest(after, place, prints)[Identity!Resolve(after, place)].recommendation
                       = "already_resolves"
             ELSE after = before
  <2>1. Identity!Eligible(Identity!Resolve(before, place), Identity!Suggest(before, place, prints), prints) = most
    BY <1>2, <1>3, <1>6, EligibleAre DEF Identity!Most
  <2>2. after = Identity!RegisterOnly(before, most, place)
    BY <2>1 DEF Identity!RegisterBest
  <2> DEFINE matched == Identity!Matched(before, prints)
  <2>3. \A w \in most : w \in DOMAIN matched /\ w \in DOMAIN before.root
    <3>1. \A w \in most : w \in DOMAIN Identity!Suggest(before, place, prints)
      BY <2>1 DEF Identity!Eligible
    <3>2. DOMAIN Identity!Suggest(before, place, prints) = DOMAIN matched
      BY DEF Identity!Suggest, Identity!Annotated, Identity!Weights
    <3>3. \A w \in DOMAIN matched : w \in DOMAIN before.root
      BY <1>2 DEF Identity!Matched, Covered
    <3> QED BY <3>1, <3>2, <3>3
  <2>4. IsFiniteSet(most)
    BY FS_Subset DEF Identity!Most
  <2> HIDE DEF most, after, matched
  <2>5. CASE Cardinality(most) = 1
    <3>1. PICK w : most = {w}
      BY <2>4, <2>5, FS_Singleton
    <3>2. after = Identity!RegisterAlias(before, w, place)
      <4>1. (CHOOSE x \in most : TRUE) = w
        BY <3>1
      <4> QED BY <2>2, <3>1, <4>1 DEF Identity!RegisterOnly
    <3>3. w \in DOMAIN before.root /\ w \in DOMAIN matched
      BY <2>3, <3>1
    <3>4. /\ Identity!Resolve(after, place) = w
          /\ place \in Identity!ListAliases(after, w)
          /\ after.prints = before.prints
      BY <1>2, <1>6, <3>2, <3>3, AliasTells
    <3>5. Identity!Matched(after, prints) = matched
      BY <3>4 DEF Identity!Matched, matched
    <3>6. Identity!Suggest(after, place, prints)[w].recommendation = "already_resolves"
      <4> DEFINE weight == Identity!Weights(matched)
      <4>1. Identity!Suggest(after, place, prints) = Identity!Annotated(matched, weight, w, prints)
        BY <3>4, <3>5 DEF Identity!Suggest
      <4>2. DOMAIN weight = DOMAIN matched
        BY DEF Identity!Weights
      <4> HIDE DEF weight
      <4>3. Identity!Annotated(matched, weight, w, prints)[w].recommendation = "already_resolves"
        BY <3>3, <4>2 DEF Identity!Annotated, Identity!Recommendation
      <4> QED BY <4>1, <4>3, <3>4
    <3> QED BY <2>5, <3>1, <3>4, <3>6
  <2>6. CASE Cardinality(most) # 1
    <3>1. ~\E w \in most : most = {w}
      BY <2>6, FS_Singleton
    <3> QED BY <2>2, <2>6, <3>1 DEF Identity!RegisterOnly
  <2> QED BY <2>5, <2>6
<1> HIDE DEF most
<1>7. \A n \in 0..last : \A u \in uris :
        Identity!Resolve(stores[n], u) # Identity!Nothing => Identity!Resolve(before, u) = Identity!Resolve(stores[n], u)
  BY <1>2 DEF Keeps
<1>8. \A u \in uris :
        Identity!Resolve(before, u) # Identity!Nothing => Identity!Resolve(after, u) = Identity!Resolve(before, u)
  BY <1>4 DEF Keeps
<1> HIDE DEF after
<1>9. /\ \A u \in uris : Identity!Resolve(Identity!UpsertWorkspace(before, u), u) = Identity!Imports(before, u)
      /\ \A u \in uris : Identity!Resolve(Identity!UpsertWorkspace(after, u), u) = Identity!Imports(after, u)
  BY <1>2, <1>4, <1>5
<1>11. ASSUME Identity!Resolve(before, place) = Identity!Nothing, prints # {}
       PROVE  IF Identity!Cardinality(most) = 1
              THEN /\ Identity!Resolve(after, place) \in most
                   /\ \A w \in most : place \in Identity!ListAliases(after, w)
                   /\ Identity!Suggest(after, place, prints)[Identity!Resolve(after, place)].recommendation
                        = "already_resolves"
              ELSE after = before
  BY <1>6, <1>11, SameCount
<1>12. /\ \A n \in 0..last : Identity!Kept(stores[n], before, uris)
       /\ Identity!Kept(before, after, uris)
  BY <1>7, <1>8 DEF Identity!Kept
<1>13. Identity!Agree(before, uris) /\ Identity!Agree(after, uris)
  BY <1>9 DEF Identity!Agree
<1>14. Identity!Follows(before, after, uris, place, prints)
  BY <1>11, Zenon DEF Identity!Follows, most
<1> QED BY <1>12, <1>13, <1>14, Zenon DEF Identity!FollowsMoves, stores, before, after, prints, last

\* Calls at places that are known or not, and a checkout at another one.
IsMoveInput(checkouts) ==
    input.about = "identity" =>
        /\ IsFiniteSet(input.uris) /\ Identity!Nothing \notin input.uris
        /\ input.history \in Seq(Steps(input.uris, checkouts))
        /\ input.place # Identity!Nothing /\ IsFiniteSet(Identity!Discover(input.checkout))

\* However imports, aliases, fingerprints and guesses follow each other, no known
\* place changes its workspace and importers agree with every other command; and a
\* checkout at a new place becomes the workspace that its fingerprints were recorded
\* for exactly if that is the only one with most of them
\* (suggest-workspace-aliases --register-best).
THEOREM MovesFollow ==
    ASSUME NEW checkouts, IsMoveInput(checkouts)
    PROVE  MovesAreFollowed
  BY AnyMoveIsFollowed DEF IsMoveInput, MovesAreFollowed

-----------------------------------------------------------------------------
(* Redaction, for texts of any length and values of any nesting.            *)

\* What becomes of a piece where it stands, whichever rules find it.
Wiped(piece, body) == [assigns |-> piece.assigns, body |-> body, secret |-> 0]
Plainly(piece) == [assigns |-> piece.assigns, body |-> "word", secret |-> piece.secret]

Cleaned(text, n) ==
    LET piece == text[n]
    IN  IF piece.assigns THEN Wiped(piece, "word")
        ELSE IF piece.body = "odd" THEN Plainly(piece)
        ELSE IF piece.body \in {"long", "openai"} /\ Redaction!Follows(text, n) THEN Wiped(piece, "word")
        ELSE IF piece.body \in {"long_", "openai_"} /\ Redaction!Follows(text, n) THEN Plainly(piece)
        ELSE IF piece.body \in {"github", "openai", "openai_"} THEN Wiped(piece, "word")
        ELSE IF piece.body = "url" THEN Wiped(piece, "url")
        ELSE piece

AllRules == {"odd", "env", "bearer", "github", "openai", "url"}

\* A cardinality in Redaction is the cardinality.
LEMMA CountsAlike == \A S : Redaction!Cardinality(S) = Cardinality(S)
  BY DEF Redaction!Cardinality, Cardinality

LEMMA HiddenIs ==
    ASSUME NEW rule, NEW piece \in Redaction!Piece
    PROVE  /\ Redaction!Hidden(rule, piece) \in Redaction!Piece
           /\ rule = "odd" => Redaction!Hidden(rule, piece) = Plainly(piece)
           /\ rule \in {"env", "github", "openai"} => Redaction!Hidden(rule, piece) = Wiped(piece, "word")
           /\ rule = "url" => Redaction!Hidden(rule, piece) = Wiped(piece, "url")
           /\ rule = "bearer" => Redaction!Hidden(rule, piece)
                 = IF piece.body \in {"long_", "openai_"} THEN Plainly(piece) ELSE Wiped(piece, "word")
<1>1. piece.assigns \in BOOLEAN /\ piece.body \in Redaction!Bodies /\ piece.secret \in Nat
  BY DEF Redaction!Piece
<1> DEFINE body == IF rule = "url" THEN "url" ELSE "word"
           secret == IF rule = "odd" \/ (rule = "bearer" /\ piece.body \in {"long_", "openai_"})
                     THEN piece.secret ELSE 0
<1>2. Redaction!Hidden(rule, piece) = [assigns |-> piece.assigns, body |-> body, secret |-> secret]
  BY Zenon DEF Redaction!Hidden, Redaction!None
<1>3. body \in Redaction!Bodies /\ secret \in Nat
  BY <1>1 DEF Redaction!Bodies
<1>4. Redaction!Hidden(rule, piece) \in Redaction!Piece
  <2> HIDE DEF body, secret
  <2> QED BY <1>1, <1>2, <1>3 DEF Redaction!Piece
<1>5. rule # "url" => body = "word"
  OBVIOUS
<1>6. rule = "url" => body = "url"
  OBVIOUS
<1>7. rule = "odd" => secret = piece.secret
  OBVIOUS
<1>8. rule \in {"env", "github", "openai", "url"} => secret = 0
  OBVIOUS
<1>9. rule = "bearer" => secret = IF piece.body \in {"long_", "openai_"} THEN piece.secret ELSE 0
  OBVIOUS
<1> HIDE DEF body, secret
<1>10. "odd" # "url" /\ "env" # "url" /\ "github" # "url" /\ "openai" # "url" /\ "bearer" # "url"
  OBVIOUS
<1> QED BY <1>2, <1>4, <1>5, <1>6, <1>7, <1>8, <1>9, <1>10 DEF Wiped, Plainly

\* What a rule makes of a text: what it finds becomes what it hides it with.
Takes(text, rule, step) ==
    /\ step.text \in Seq(Redaction!Piece) /\ DOMAIN step.text = DOMAIN text
    /\ \A n \in DOMAIN text :
         step.text[n] = IF n \in Redaction!Met(rule, text) THEN Redaction!Hidden(rule, text[n]) ELSE text[n]
    /\ Redaction!Found(rule, step) = {} => Redaction!Met(rule, text) = {}

LEMMA RuleTakes ==
    ASSUME NEW text \in Seq(Redaction!Piece), NEW rule
    PROVE  Takes(text, rule, Redaction!ApplyPattern(rule, text))
<1> DEFINE step == Redaction!ApplyPattern(rule, text)
           found == Redaction!Met(rule, text)
<1>1. DOMAIN text = 1..Len(text) /\ Len(text) \in Nat /\ \A n \in DOMAIN text : text[n] \in Redaction!Piece
  OBVIOUS
<1>2. /\ step.text = [n \in DOMAIN text |-> IF n \in found THEN Redaction!Hidden(rule, text[n]) ELSE text[n]]
      /\ step.count = Cardinality(found)
  BY CountsAlike DEF Redaction!ApplyPattern
<1>3. found \subseteq DOMAIN text
  BY DEF Redaction!Met
<1> HIDE DEF step, found
<1>4. \A n \in DOMAIN text : step.text[n] \in Redaction!Piece
  BY <1>1, <1>2, HiddenIs
<1>5. step.text \in Seq(Redaction!Piece)
  <2>1. step.text \in [1..Len(text) -> Redaction!Piece]
    BY <1>1, <1>2, <1>4
  <2> QED BY <1>1, <2>1
<1>6. Redaction!Found(rule, step) = {} => found = {}
  <2>1. IsFiniteSet(found)
    <3>1. IsFiniteSet(1..Len(text)) /\ found \subseteq 1..Len(text)
      BY <1>1, <1>3, FS_Interval
    <3> QED BY <3>1, FS_Subset
  <2>2. Cardinality(found) \in Nat /\ (Cardinality(found) = 0 => found = {})
    BY <2>1, FS_CardinalityType, FS_EmptySet
  <2> DEFINE count == step.count
  <2> HIDE DEF count
  <2>4. count \in Nat /\ (count = 0 => found = {})
    BY <1>2, <2>2 DEF count
  <2>5. count > 0 \/ count = 0
    BY <2>4
  <2> QED BY <2>4, <2>5 DEF Redaction!Found, count
<1>7. DOMAIN step.text = DOMAIN text
  BY <1>2
<1>8. \A n \in DOMAIN text : step.text[n] = IF n \in found THEN Redaction!Hidden(rule, text[n]) ELSE text[n]
  BY <1>2
<1> QED BY Zenon, <1>5, <1>6, <1>7, <1>8 DEF Takes, step, found

\* What each of the rules finds.
LEMMA MetIs ==
    ASSUME NEW text, NEW n \in DOMAIN text
    PROVE  /\ n \in Redaction!Met("odd", text) <=> text[n].body = "odd"
           /\ n \in Redaction!Met("env", text) <=> text[n].assigns
           /\ n \in Redaction!Met("bearer", text)
              <=> /\ n > 1 /\ text[n - 1].body = "bearer" /\ ~text[n].assigns
                  /\ text[n].body \in {"long", "long_", "openai", "openai_"}
           /\ n \in Redaction!Met("github", text) <=> text[n].body = "github"
           /\ n \in Redaction!Met("openai", text) <=> text[n].body \in {"openai", "openai_"}
           /\ n \in Redaction!Met("url", text) <=> text[n].body = "url"
  BY DEF Redaction!Met

\* All rules, one after another, clean each piece where it stands.
LEMMA TextIsCleaned ==
    ASSUME NEW text \in Seq(Redaction!Piece)
    PROVE  LET redacted == Redaction!RedactText(text)
           IN  /\ redacted.value \in Seq(Redaction!Piece) /\ DOMAIN redacted.value = DOMAIN text
               /\ \A n \in DOMAIN text : redacted.value[n] = Cleaned(text, n)
               /\ redacted.findings = {} => redacted.value = text
<1> DEFINE P == Redaction!Rules
           Start == [value |-> text, findings |-> {}]
           Then(was, rule) ==
               [value |-> Redaction!ApplyPattern(rule, was.value).text,
                findings |-> was.findings \cup Redaction!Found(rule, Redaction!ApplyPattern(rule, was.value))]
           Goes(f) == f = [k \in 0..Len(P) |-> IF k = 0 THEN Start ELSE Then(f[k - 1], P[k])]
           done == CHOOSE f : Goes(f)
<1>1. Redaction!RedactText(text) = done[Len(P)]
  BY Zenon DEF Redaction!RedactText
<1>2. Len(P) = 6 /\ P[1] = "odd" /\ P[2] = "env" /\ P[3] = "bearer" /\ P[4] = "github" /\ P[5] = "openai" /\ P[6] = "url"
  BY DEF Redaction!Rules
<1> HIDE DEF P, Then, Start
<1>3. \E f : Goes(f)
  <2> DEFINE a == Then(Start, "odd")
             b == Then(a, "env")
             c == Then(b, "bearer")
             d == Then(c, "github")
             e == Then(d, "openai")
             g == Then(e, "url")
             f == [k \in 0..6 |-> CASE k = 0 -> Start [] k = 1 -> a [] k = 2 -> b [] k = 3 -> c
                                    [] k = 4 -> d [] k = 5 -> e [] k = 6 -> g]
  <2>1. f[0] = Start /\ f[1] = a /\ f[2] = b /\ f[3] = c /\ f[4] = d /\ f[5] = e /\ f[6] = g
    OBVIOUS
  <2>2. ASSUME NEW k \in 0..6 PROVE f[k] = IF k = 0 THEN Start ELSE Then(f[k - 1], P[k])
    <3>1. k \in {0, 1, 2, 3, 4, 5, 6}
      OBVIOUS
    <3> HIDE DEF f
    <3>2. k = 1 => f[k] = Then(f[k - 1], P[k])
      BY <1>2, <2>1
    <3>3. k = 2 => f[k] = Then(f[k - 1], P[k])
      BY <1>2, <2>1
    <3>4. k = 3 => f[k] = Then(f[k - 1], P[k])
      BY <1>2, <2>1
    <3>5. k = 4 => f[k] = Then(f[k - 1], P[k])
      BY <1>2, <2>1
    <3>6. k = 5 => f[k] = Then(f[k - 1], P[k])
      BY <1>2, <2>1
    <3>7. k = 6 => f[k] = Then(f[k - 1], P[k])
      BY <1>2, <2>1
    <3> QED BY <2>1, <3>1, <3>2, <3>3, <3>4, <3>5, <3>6, <3>7
  <2>3. f = [k \in 0..6 |-> f[k]]
    OBVIOUS
  <2> HIDE DEF f
  <2>4. Goes(f)
    BY <1>2, <2>2, <2>3
  <2> QED BY <2>4
<1>4. Goes(done)
  BY <1>3
<1> HIDE DEF done
<1>5. /\ done[0] = Start /\ done[1] = Then(done[0], "odd") /\ done[2] = Then(done[1], "env")
      /\ done[3] = Then(done[2], "bearer") /\ done[4] = Then(done[3], "github")
      /\ done[5] = Then(done[4], "openai") /\ done[6] = Then(done[5], "url")
  BY <1>2, <1>4
<1> DEFINE Is(v) == v \in Seq(Redaction!Piece) /\ DOMAIN v = DOMAIN text
           Hides(new, old, rule) == \A n \in DOMAIN text :
             new[n] = IF n \in Redaction!Met(rule, old) THEN Redaction!Hidden(rule, old[n]) ELSE old[n]
           Step(was, now, rule) == /\ Is(was.value) /\ Is(now.value)
                                   /\ Hides(now.value, was.value, rule)
                                   /\ now.findings = {} => was.findings = {} /\ now.value = was.value
<1>6. ASSUME NEW was, NEW now, NEW rule, Is(was.value), now = Then(was, rule)
      PROVE  Step(was, now, rule)
  <2> DEFINE old == was.value
             step == Redaction!ApplyPattern(rule, old)
  <2>1. Takes(old, rule, step)
    BY <1>6, RuleTakes
  <2>2. now.value = step.text /\ now.findings = was.findings \cup Redaction!Found(rule, step)
    BY <1>6 DEF Then
  <2> HIDE DEF step
  <2>3. Is(now.value) /\ Hides(now.value, old, rule)
    BY <1>6, <2>1, <2>2, Zenon DEF Takes
  <2>4. ASSUME now.findings = {} PROVE was.findings = {} /\ now.value = old
    <3>1. was.findings = {} /\ Redaction!Met(rule, old) = {}
      BY <2>1, <2>2, <2>4 DEF Takes
    <3>2. \A n \in DOMAIN text : now.value[n] = old[n]
      BY <2>3, <3>1
    <3> QED BY <1>6, <2>3, <3>1, <3>2
  <2> QED BY <1>6, <2>3, <2>4
<1>7. Is(Start.value) /\ Start.value = text /\ Start.findings = {}
  BY DEF Start
<1> HIDE DEF Is, Step
<1>8. /\ Step(done[0], done[1], "odd") /\ Step(done[1], done[2], "env") /\ Step(done[2], done[3], "bearer")
      /\ Step(done[3], done[4], "github") /\ Step(done[4], done[5], "openai") /\ Step(done[5], done[6], "url")
  <2>0. Is(done[0].value)
    BY <1>5, <1>7
  <2>1. Step(done[0], done[1], "odd")
    BY <1>5, <1>6, <2>0
  <2>2. Step(done[1], done[2], "env")
    BY <1>5, <1>6, <2>1 DEF Step
  <2>3. Step(done[2], done[3], "bearer")
    BY <1>5, <1>6, <2>2 DEF Step
  <2>4. Step(done[3], done[4], "github")
    BY <1>5, <1>6, <2>3 DEF Step
  <2>5. Step(done[4], done[5], "openai")
    BY <1>5, <1>6, <2>4 DEF Step
  <2>6. Step(done[5], done[6], "url")
    BY <1>5, <1>6, <2>5 DEF Step
  <2> QED BY <2>1, <2>2, <2>3, <2>4, <2>5, <2>6
<1>9. done[0].value = text
  BY <1>5, <1>7
<1>10. ASSUME done[6].findings = {} PROVE done[6].value = text
  BY <1>8, <1>9, <1>10 DEF Step
<1>11. Is(done[6].value)
  BY <1>8 DEF Step
<1> DEFINE At(k, n) == done[k].value[n]
<1>12. ASSUME NEW n \in DOMAIN text
       PROVE  /\ At(0, n) = text[n]
              /\ At(1, n) = IF At(0, n).body = "odd" THEN Plainly(At(0, n)) ELSE At(0, n)
              /\ At(2, n) = IF At(1, n).assigns THEN Wiped(At(1, n), "word") ELSE At(1, n)
              /\ At(3, n) = IF /\ n > 1 /\ At(2, n - 1).body = "bearer" /\ ~At(2, n).assigns
                               /\ At(2, n).body \in {"long", "long_", "openai", "openai_"}
                            THEN IF At(2, n).body \in {"long_", "openai_"} THEN Plainly(At(2, n)) ELSE Wiped(At(2, n), "word")
                            ELSE At(2, n)
              /\ At(4, n) = IF At(3, n).body = "github" THEN Wiped(At(3, n), "word") ELSE At(3, n)
              /\ At(5, n) = IF At(4, n).body \in {"openai", "openai_"} THEN Wiped(At(4, n), "word") ELSE At(4, n)
              /\ At(6, n) = IF At(5, n).body = "url" THEN Wiped(At(5, n), "url") ELSE At(5, n)
  <2>1. /\ Is(done[0].value) /\ Is(done[1].value) /\ Is(done[2].value)
        /\ Is(done[3].value) /\ Is(done[4].value) /\ Is(done[5].value)
    BY <1>8 DEF Step
  <2>2. ASSUME NEW v, Is(v) PROVE n \in DOMAIN v /\ v[n] \in Redaction!Piece
    BY <2>2 DEF Is
  <2> HIDE DEF Hides
  <2>3. /\ Hides(done[1].value, done[0].value, "odd") /\ Hides(done[2].value, done[1].value, "env")
        /\ Hides(done[3].value, done[2].value, "bearer") /\ Hides(done[4].value, done[3].value, "github")
        /\ Hides(done[5].value, done[4].value, "openai") /\ Hides(done[6].value, done[5].value, "url")
    BY <1>8 DEF Step
  <2>4. At(1, n) = IF At(0, n).body = "odd" THEN Plainly(At(0, n)) ELSE At(0, n)
    BY <2>1, <2>2, <2>3, MetIs, HiddenIs DEF Hides
  <2>5. At(2, n) = IF At(1, n).assigns THEN Wiped(At(1, n), "word") ELSE At(1, n)
    BY <2>1, <2>2, <2>3, MetIs, HiddenIs DEF Hides
  <2>6. At(3, n) = IF /\ n > 1 /\ At(2, n - 1).body = "bearer" /\ ~At(2, n).assigns
                      /\ At(2, n).body \in {"long", "long_", "openai", "openai_"}
                   THEN IF At(2, n).body \in {"long_", "openai_"} THEN Plainly(At(2, n)) ELSE Wiped(At(2, n), "word")
                   ELSE At(2, n)
    BY <2>1, <2>2, <2>3, MetIs, HiddenIs DEF Hides
  <2>7. At(4, n) = IF At(3, n).body = "github" THEN Wiped(At(3, n), "word") ELSE At(3, n)
    BY <2>1, <2>2, <2>3, MetIs, HiddenIs DEF Hides
  <2>8. At(5, n) = IF At(4, n).body \in {"openai", "openai_"} THEN Wiped(At(4, n), "word") ELSE At(4, n)
    BY <2>1, <2>2, <2>3, MetIs, HiddenIs DEF Hides
  <2>9. At(6, n) = IF At(5, n).body = "url" THEN Wiped(At(5, n), "url") ELSE At(5, n)
    BY <2>1, <2>2, <2>3, MetIs, HiddenIs DEF Hides
  <2>10. At(0, n) = text[n]
    BY <1>9
  <2> QED BY <2>4, <2>5, <2>6, <2>7, <2>8, <2>9, <2>10
<1>13. \A n \in DOMAIN text : text[n] \in Redaction!Piece
  OBVIOUS
<1> HIDE DEF At
<1>14. /\ \A piece : /\ Plainly(piece).body = "word" /\ Plainly(piece).assigns = piece.assigns
                     /\ \A body : Wiped(piece, body).body = body /\ Wiped(piece, body).assigns = piece.assigns
  BY DEF Plainly, Wiped
<1>15. ASSUME NEW n \in DOMAIN text
       PROVE  /\ text[n].assigns => At(2, n) = Wiped(text[n], "word")
              /\ ~text[n].assigns /\ text[n].body = "odd" => At(2, n) = Plainly(text[n])
              /\ ~text[n].assigns /\ text[n].body # "odd" => At(2, n) = text[n]
  <2>1. \A piece : Wiped(Plainly(piece), "word") = Wiped(piece, "word")
    BY DEF Plainly, Wiped
  <2> QED BY <1>12, <1>14, <2>1
<1>16. ASSUME NEW n \in DOMAIN text
       PROVE  n > 1 /\ At(2, n - 1).body = "bearer" <=> Redaction!Follows(text, n)
  <2>1. n > 1 => n - 1 \in DOMAIN text
    BY DOMAIN text = 1..Len(text), Len(text) \in Nat
  <2>2. n > 1 => (At(2, n - 1).body = "bearer" <=> text[n - 1].body = "bearer" /\ ~text[n - 1].assigns)
    <3> SUFFICES ASSUME n > 1 PROVE At(2, n - 1).body = "bearer" <=> text[n - 1].body = "bearer" /\ ~text[n - 1].assigns
      OBVIOUS
    <3>1. n - 1 \in DOMAIN text
      BY <2>1
    <3> QED BY <1>14, <1>15, <3>1
  <2> QED BY <2>2 DEF Redaction!Follows
<1>17. ASSUME NEW n \in DOMAIN text PROVE At(6, n) = Cleaned(text, n)
  <2> DEFINE t == text[n]
             follows == Redaction!Follows(text, n)
  <2>1. t.body \in {"word", "odd", "bearer", "long", "long_", "github", "openai", "openai_", "url"} /\ t.assigns \in BOOLEAN
    BY <1>13 DEF Redaction!Piece, Redaction!Bodies
  <2>2. /\ t.assigns => At(2, n) = Wiped(t, "word")
        /\ ~t.assigns /\ t.body = "odd" => At(2, n) = Plainly(t)
        /\ ~t.assigns /\ t.body # "odd" => At(2, n) = t
    BY <1>15
  <2>3. At(3, n) = IF /\ follows /\ ~At(2, n).assigns
                      /\ At(2, n).body \in {"long", "long_", "openai", "openai_"}
                   THEN IF At(2, n).body \in {"long_", "openai_"} THEN Plainly(At(2, n)) ELSE Wiped(At(2, n), "word")
                   ELSE At(2, n)
    BY <1>12, <1>16
  <2>4. /\ At(4, n) = IF At(3, n).body = "github" THEN Wiped(At(3, n), "word") ELSE At(3, n)
        /\ At(5, n) = IF At(4, n).body \in {"openai", "openai_"} THEN Wiped(At(4, n), "word") ELSE At(4, n)
        /\ At(6, n) = IF At(5, n).body = "url" THEN Wiped(At(5, n), "url") ELSE At(5, n)
    BY <1>12
  <2>5. ASSUME At(3, n).body = "word" PROVE At(6, n) = At(3, n)
    BY <2>4, <2>5
  <2>6. Cleaned(text, n) =
          IF t.assigns THEN Wiped(t, "word")
          ELSE IF t.body = "odd" THEN Plainly(t)
          ELSE IF t.body \in {"long", "openai"} /\ follows THEN Wiped(t, "word")
          ELSE IF t.body \in {"long_", "openai_"} /\ follows THEN Plainly(t)
          ELSE IF t.body \in {"github", "openai", "openai_"} THEN Wiped(t, "word")
          ELSE IF t.body = "url" THEN Wiped(t, "url")
          ELSE t
    BY DEF Cleaned
  <2> HIDE DEF t, follows
  <2>7. CASE t.assigns
    BY <1>14, <2>2, <2>3, <2>5, <2>6, <2>7
  <2>8. CASE ~t.assigns /\ t.body = "odd"
    BY <1>14, <2>2, <2>3, <2>5, <2>6, <2>8
  <2>9. CASE ~t.assigns /\ t.body \in {"long", "long_", "openai", "openai_"} /\ follows
    <3>1. At(3, n) = IF t.body \in {"long_", "openai_"} THEN Plainly(t) ELSE Wiped(t, "word")
      BY <2>2, <2>3, <2>9
    <3> QED BY <1>14, <2>5, <2>6, <2>9, <3>1
  <2>10. CASE ~t.assigns /\ t.body # "odd" /\ ~(t.body \in {"long", "long_", "openai", "openai_"} /\ follows)
    <3>1. At(3, n) = t
      BY <2>2, <2>3, <2>10
    <3>2. CASE t.body \in {"github", "openai", "openai_"}
      BY <1>14, <2>4, <2>6, <2>10, <3>1, <3>2
    <3>3. CASE t.body \in {"word", "bearer", "long", "long_", "url"}
      BY <1>14, <2>4, <2>6, <2>10, <3>1, <3>3
    <3> QED BY <2>1, <2>10, <3>2, <3>3
  <2> QED BY <2>1, <2>7, <2>8, <2>9, <2>10
<1> QED BY <1>1, <1>2, <1>10, <1>11, <1>17 DEF Is, At

\* All secrets of some places are in the open at others.
Uncovered(some, others) == \A t \in some : \E u \in others : u.open /\ u.secret = t.secret

TextStands(text) ==
    LET once == Redaction!RedactText(text)
    IN  /\ once.value \in Seq(Redaction!Piece)
        /\ Redaction!RedactText(once.value).value = once.value
        /\ Uncovered(Redaction!Plain(once.value), Redaction!Plain(text))
        /\ once.findings = {} => once.value = text
        /\ text = << >> => once.value = << >>

\* What a piece has become stays what it is, and its secret was in the open.
LEMMA CleanedStays ==
    ASSUME NEW text \in Seq(Redaction!Piece), NEW new, DOMAIN new = DOMAIN text,
           \A n \in DOMAIN text : new[n] = Cleaned(text, n)
    PROVE  \A n \in DOMAIN text :
             /\ Cleaned(new, n) = new[n]
             /\ new[n].secret # 0 => new[n].secret = text[n].secret /\ ~Redaction!Known(text, n)
<1>1. DOMAIN text = 1..Len(text) /\ Len(text) \in Nat /\ \A n \in DOMAIN text : text[n] \in Redaction!Piece
  OBVIOUS
<1>2. /\ \A piece : /\ Plainly(piece).body = "word" /\ Plainly(piece).assigns = piece.assigns
                    /\ Plainly(piece).secret = piece.secret
                    /\ \A body : /\ Wiped(piece, body).body = body /\ Wiped(piece, body).assigns = piece.assigns
                                 /\ Wiped(piece, body).secret = 0
  BY DEF Plainly, Wiped
<1>3. ASSUME NEW n \in DOMAIN text
      PROVE  new[n].body = "bearer" /\ ~new[n].assigns <=> text[n].body = "bearer" /\ ~text[n].assigns
  BY <1>2 DEF Cleaned
<1>4. ASSUME NEW n \in DOMAIN text
      PROVE  Redaction!Follows(new, n) <=> Redaction!Follows(text, n)
  <2>1. n > 1 => n - 1 \in DOMAIN text
    BY <1>1
  <2> QED BY <1>3, <2>1 DEF Redaction!Follows
<1> SUFFICES ASSUME NEW n \in DOMAIN text
             PROVE  /\ Cleaned(new, n) = new[n]
                    /\ new[n].secret # 0 => new[n].secret = text[n].secret /\ ~Redaction!Known(text, n)
  OBVIOUS
<1> DEFINE t == text[n]
           s == new[n]
           follows == Redaction!Follows(text, n)
           Become(p) == IF p.assigns THEN Wiped(p, "word")
                        ELSE IF p.body = "odd" THEN Plainly(p)
                        ELSE IF p.body \in {"long", "openai"} /\ follows THEN Wiped(p, "word")
                        ELSE IF p.body \in {"long_", "openai_"} /\ follows THEN Plainly(p)
                        ELSE IF p.body \in {"github", "openai", "openai_"} THEN Wiped(p, "word")
                        ELSE IF p.body = "url" THEN Wiped(p, "url")
                        ELSE p
<1>5. s = Become(t) /\ Cleaned(new, n) = Become(s)
  BY <1>4 DEF Cleaned
<1>6. t.body \in {"word", "odd", "bearer", "long", "long_", "github", "openai", "openai_", "url"} /\ t.assigns \in BOOLEAN
  BY <1>1 DEF Redaction!Piece, Redaction!Bodies
<1>7. Redaction!Known(text, n) <=> \/ t.assigns
                                   \/ t.body \in {"github", "openai", "url"}
                                   \/ t.body = "long" /\ follows
                                   \/ t.body = "openai_" /\ ~follows
  BY DEF Redaction!Known
<1>8. \A p, body : Wiped(Wiped(p, "word"), "word") = Wiped(p, "word") /\ Wiped(Wiped(p, "url"), "url") = Wiped(p, "url")
  BY DEF Wiped
<1> HIDE DEF t, s, follows
<1>9. CASE t.assigns
  <2>1. s = Wiped(t, "word")
    BY <1>5, <1>9
  <2>2. s.assigns /\ s.secret = 0
    BY <1>2, <1>9, <2>1
  <2>3. Become(s) = Wiped(s, "word")
    BY <2>2
  <2> QED BY <1>5, <1>8, <2>1, <2>2, <2>3 DEF s
<1>10. CASE ~t.assigns /\ (t.body = "odd" \/ (t.body \in {"long_", "openai_"} /\ follows))
  <2>1. s = Plainly(t)
    BY <1>5, <1>10
  <2>2. ~s.assigns /\ s.body = "word" /\ s.secret = t.secret
    BY <1>2, <1>10, <2>1
  <2>3. Become(s) = s
    BY <2>2
  <2> QED BY <1>5, <1>7, <1>10, <2>2, <2>3 DEF s, t
<1>11. CASE ~t.assigns /\ ((t.body \in {"long", "openai"} /\ follows)
                           \/ t.body \in {"github", "openai"} \/ (t.body = "openai_" /\ ~follows))
  <2>1. s = Wiped(t, "word")
    BY <1>5, <1>11
  <2>2. ~s.assigns /\ s.body = "word" /\ s.secret = 0
    BY <1>2, <1>11, <2>1
  <2>3. Become(s) = s
    BY <2>2
  <2> QED BY <1>5, <2>2, <2>3 DEF s
<1>12. CASE ~t.assigns /\ t.body = "url"
  <2>1. s = Wiped(t, "url")
    BY <1>5, <1>12
  <2>2. ~s.assigns /\ s.body = "url" /\ s.secret = 0
    BY <1>2, <1>12, <2>1
  <2>3. Become(s) = Wiped(s, "url")
    BY <2>2
  <2> QED BY <1>5, <1>8, <2>1, <2>2, <2>3 DEF s
<1>13. CASE ~t.assigns /\ (t.body \in {"word", "bearer"} \/ (t.body \in {"long", "long_"} /\ ~follows))
  <2>1. s = t
    BY <1>5, <1>13
  <2> QED BY <1>5, <1>7, <1>13, <2>1 DEF s, t
<1> QED BY <1>6, <1>9, <1>10, <1>11, <1>12, <1>13

\* A text that was redacted is not redacted any further, and its secrets were in
\* the open.
LEMMA TextsStand ==
    ASSUME NEW text \in Seq(Redaction!Piece)
    PROVE  TextStands(text)
<1> DEFINE once == Redaction!RedactText(text)
           again == Redaction!RedactText(once.value)
<1>1. /\ once.value \in Seq(Redaction!Piece) /\ DOMAIN once.value = DOMAIN text
      /\ \A n \in DOMAIN text : once.value[n] = Cleaned(text, n)
      /\ once.findings = {} => once.value = text
  BY TextIsCleaned
<1>2. /\ again.value \in Seq(Redaction!Piece) /\ DOMAIN again.value = DOMAIN once.value
      /\ \A n \in DOMAIN once.value : again.value[n] = Cleaned(once.value, n)
  <2>1. PICK v \in Seq(Redaction!Piece) : v = once.value
    BY <1>1
  <2>2. LET redacted == Redaction!RedactText(v)
        IN  /\ redacted.value \in Seq(Redaction!Piece) /\ DOMAIN redacted.value = DOMAIN v
            /\ \A n \in DOMAIN v : redacted.value[n] = Cleaned(v, n)
            /\ redacted.findings = {} => redacted.value = v
    BY TextIsCleaned
  <2> QED BY <2>1, <2>2
<1> HIDE DEF once, again
<1>3. \A n \in DOMAIN text :
        /\ Cleaned(once.value, n) = once.value[n]
        /\ once.value[n].secret # 0 => once.value[n].secret = text[n].secret /\ ~Redaction!Known(text, n)
  BY <1>1, CleanedStays
<1>4. \A n \in DOMAIN text : again.value[n] = once.value[n]
  BY <1>1, <1>2, <1>3
<1>5. again.value = once.value
  BY <1>1, <1>2, <1>4
<1>6. ASSUME NEW t \in Redaction!Plain(once.value)
      PROVE  \E u \in Redaction!Plain(text) : u.open /\ u.secret = t.secret
  <2>1. PICK n \in DOMAIN text : once.value[n].secret # 0 /\ t.secret = once.value[n].secret
    BY <1>1 DEF Redaction!Plain, Redaction!None
  <2>2. text[n].secret # 0 /\ t.secret = text[n].secret /\ ~Redaction!Known(text, n)
    BY <1>3, <2>1
  <2> DEFINE u == [secret |-> text[n].secret, open |-> ~Redaction!Known(text, n)]
  <2>3. u \in Redaction!Plain(text)
    BY <2>2 DEF Redaction!Plain, Redaction!None
  <2>4. u.open /\ u.secret = t.secret
    BY <2>2
  <2> QED BY <2>3, <2>4
<1>7. ASSUME text = << >> PROVE once.value = << >>
  <2>1. DOMAIN once.value = {}
    BY <1>1, <1>7
  <2>2. PICK v \in Seq(Redaction!Piece) : v = once.value
    BY <1>1
  <2>3. DOMAIN v = 1..Len(v) /\ Len(v) \in Nat
    OBVIOUS
  <2>4. Len(v) = 0
    <3>1. 1 \notin DOMAIN v
      BY <2>1, <2>2
    <3>2. Len(v) # 0 => 1 \in 1..Len(v)
      BY <2>3
    <3> QED BY <2>3, <3>1, <3>2
  <2> QED BY <2>2, <2>4
<1> QED BY <1>1, <1>5, <1>6, <1>7 DEF TextStands, Uncovered, once, again

\* The same of a sequence of parts, of which p says what each is redacted to
\* and q where its secrets are.
PartsStand(S, p, q) ==
    \A x \in S : /\ p[x].value \in S
                 /\ p[p[x].value].value = p[x].value
                 /\ Uncovered(q[p[x].value], q[x])
                 /\ p[x].findings = {} => p[x].value = x

Each(seq, p) == [n \in DOMAIN seq |-> p[seq[n]].value]
FoundIn(seq, p) == UNION { Redaction!At(n, p[seq[n]].findings) : n \in DOMAIN seq }
TokensIn(seq, q) == UNION { q[seq[n]] : n \in DOMAIN seq }

LEMMA SequencesStand ==
    ASSUME NEW S, NEW p, NEW q, PartsStand(S, p, q), NEW seq \in Seq(S)
    PROVE  /\ Each(seq, p) \in Seq(S)
           /\ Each(Each(seq, p), p) = Each(seq, p)
           /\ Uncovered(TokensIn(Each(seq, p), q), TokensIn(seq, q))
           /\ FoundIn(seq, p) = {} => Each(seq, p) = seq
<1>1. DOMAIN seq = 1..Len(seq) /\ Len(seq) \in Nat /\ \A n \in DOMAIN seq : seq[n] \in S
  OBVIOUS
<1>2. DOMAIN Each(seq, p) = DOMAIN seq /\ \A n \in DOMAIN seq : Each(seq, p)[n] = p[seq[n]].value
  BY DEF Each
<1>3. \A n \in DOMAIN seq : Each(seq, p)[n] \in S
  BY <1>1, <1>2 DEF PartsStand
<1>4. Each(seq, p) \in Seq(S)
  <2>1. Each(seq, p) \in [1..Len(seq) -> S]
    BY <1>1, <1>3 DEF Each
  <2> QED BY <1>1, <2>1
<1>5. Each(Each(seq, p), p) = Each(seq, p)
  <2>1. \A n \in DOMAIN seq : p[Each(seq, p)[n]].value = Each(seq, p)[n]
    BY <1>1, <1>2 DEF PartsStand
  <2>2. Each(Each(seq, p), p) = [n \in DOMAIN seq |-> p[Each(seq, p)[n]].value]
    BY <1>2 DEF Each
  <2>3. Each(seq, p) = [n \in DOMAIN seq |-> Each(seq, p)[n]]
    BY DEF Each
  <2> QED BY <2>1, <2>2, <2>3
<1>6. \A n \in DOMAIN seq : Uncovered(q[Each(seq, p)[n]], q[seq[n]])
  BY <1>1, <1>2 DEF PartsStand
<1>7. ASSUME FoundIn(seq, p) = {}
      PROVE  Each(seq, p) = seq
  <2>1. ASSUME NEW n \in DOMAIN seq PROVE p[seq[n]].findings = {}
    <3>1. Redaction!At(n, p[seq[n]].findings) = {}
      BY <1>7 DEF FoundIn
    <3> QED BY <3>1 DEF Redaction!At
  <2>2. \A n \in DOMAIN seq : Each(seq, p)[n] = seq[n]
    BY <1>1, <1>2, <2>1 DEF PartsStand
  <2>3. seq = [n \in DOMAIN seq |-> seq[n]]
    OBVIOUS
  <2>4. Each(seq, p) = [n \in DOMAIN seq |-> Each(seq, p)[n]]
    BY DEF Each
  <2> QED BY <2>2, <2>3, <2>4
<1>8. Uncovered(TokensIn(Each(seq, p), q), TokensIn(seq, q))
  <2> SUFFICES ASSUME NEW x \in TokensIn(Each(seq, p), q)
               PROVE  \E y \in TokensIn(seq, q) : y.open /\ y.secret = x.secret
    BY DEF Uncovered
  <2>1. PICK n \in DOMAIN seq : x \in q[Each(seq, p)[n]]
    BY <1>2 DEF TokensIn
  <2>2. PICK y \in q[seq[n]] : y.open /\ y.secret = x.secret
    BY <1>6, <2>1 DEF Uncovered
  <2>3. y \in TokensIn(seq, q)
    BY <2>2 DEF TokensIn
  <2> QED BY <2>2, <2>3
<1> QED BY <1>4, <1>5, <1>7, <1>8

\* Values of some depth stand: what they are redacted to is one of them, has
\* only secrets that were in the open, and is redacted to itself; without a finding
\* nothing changed, and where nothing is nothing becomes.
ValueStands(v, V, redacted, tokens) ==
    /\ redacted[v].value \in V
    /\ redacted[redacted[v].value].value = redacted[v].value
    /\ Uncovered(tokens[redacted[v].value], tokens[v])
    /\ redacted[v].findings = {} => redacted[v].value = v
    /\ Redaction!IsEmpty(v) => redacted[v].value = v /\ tokens[v] = {}

ValuesStand(V, redacted, tokens) ==
    /\ \A v \in V : ValueStands(v, V, redacted, tokens)
    /\ V # {} => Redaction!Marker \in V
    /\ V # {} => tokens[Redaction!Marker] = {}

Entries(V) == [key : Seq(Redaction!Piece), sensitive : BOOLEAN, item : V]

TokensOfEntry(entry, tokens) ==
    Redaction!Plain(entry.key)
    \cup { [secret |-> t.secret, open |-> t.open /\ ~entry.sensitive] : t \in tokens[entry.item] }

EntriesRedacted(V, redacted) == [e \in Entries(V) |-> Redaction!RedactEntry(e, redacted)]
EntriesTokens(V, tokens) == [e \in Entries(V) |-> TokensOfEntry(e, tokens)]

\* So do the entries of objects that hold them.
LEMMA EntriesStand ==
    ASSUME NEW V, NEW redacted, NEW tokens, ValuesStand(V, redacted, tokens)
    PROVE  PartsStand(Entries(V), EntriesRedacted(V, redacted), EntriesTokens(V, tokens))
<1> DEFINE p == [e \in Entries(V) |-> Redaction!RedactEntry(e, redacted)]
           q == [e \in Entries(V) |-> TokensOfEntry(e, tokens)]
           KeyOf(e) == Redaction!RedactText(e.key)
           ItemOf(e) == IF e.sensitive /\ ~Redaction!IsEmpty(e.item)
                      THEN [value |-> Redaction!Marker, findings |-> {<< "sensitive_key", << >> >>}]
                      ELSE redacted[e.item]
<1>1. ASSUME NEW e \in Entries(V)
      PROVE  /\ Redaction!RedactEntry(e, redacted).value
                 = [key |-> KeyOf(e).value, sensitive |-> e.sensitive, item |-> ItemOf(e).value]
             /\ Redaction!RedactEntry(e, redacted).findings = KeyOf(e).findings \cup ItemOf(e).findings
  <2> DEFINE k == KeyOf(e).value
             i == ItemOf(e).value
             found == KeyOf(e).findings \cup ItemOf(e).findings
  <2>2. Redaction!RedactEntry(e, redacted)
        = [value |-> [e EXCEPT !.key = k, !.item = i], findings |-> found]
    BY Zenon DEF Redaction!RedactEntry
  <2> HIDE DEF KeyOf, ItemOf
  <2> HIDE DEF k, i, found
  <2>3. e = [key |-> e.key, sensitive |-> e.sensitive, item |-> e.item]
    BY DEF Entries
  <2>4. [e EXCEPT !.key = k] = [key |-> k, sensitive |-> e.sensitive, item |-> e.item]
    BY <2>3
  <2>5. [[key |-> k, sensitive |-> e.sensitive, item |-> e.item] EXCEPT !.item = i]
        = [key |-> k, sensitive |-> e.sensitive, item |-> i]
    OBVIOUS
  <2>6. Redaction!RedactEntry(e, redacted)
        = [value |-> [key |-> k, sensitive |-> e.sensitive, item |-> i], findings |-> found]
    BY Zenon, <2>2, <2>4, <2>5
  <2> QED BY <2>6 DEF k, i, found
<1> HIDE DEF KeyOf, ItemOf
<1> SUFFICES ASSUME NEW e \in Entries(V)
             PROVE  /\ p[e].value \in Entries(V)
                    /\ p[p[e].value].value = p[e].value
                    /\ Uncovered(q[p[e].value], q[e])
                    /\ p[e].findings = {} => p[e].value = e
  BY DEF PartsStand, EntriesRedacted, EntriesTokens
<1>2. e.key \in Seq(Redaction!Piece) /\ e.sensitive \in BOOLEAN /\ e.item \in V
      /\ e = [key |-> e.key, sensitive |-> e.sensitive, item |-> e.item]
  BY DEF Entries
<1> DEFINE key == KeyOf(e).value
           kept == ItemOf(e).value
           now == [key |-> key, sensitive |-> e.sensitive, item |-> kept]
<1>3. TextStands(e.key)
  BY <1>2, TextsStand
<1>4. /\ key \in Seq(Redaction!Piece) /\ Redaction!RedactText(key).value = key
      /\ Uncovered(Redaction!Plain(key), Redaction!Plain(e.key))
      /\ KeyOf(e).findings = {} => key = e.key
  BY <1>3 DEF TextStands, KeyOf
<1>5. \A v \in V : ValueStands(v, V, redacted, tokens)
  BY DEF ValuesStand
<1>6. V # {} /\ Redaction!Marker \in V /\ tokens[Redaction!Marker] = {}
  BY <1>2 DEF ValuesStand
<1>7. ~Redaction!IsEmpty(Redaction!Marker)
  BY DEF Redaction!IsEmpty, Redaction!Marker
<1>8. /\ kept \in V
      /\ ItemOf(e).findings = {} => kept = e.item
      /\ IF e.sensitive /\ ~Redaction!IsEmpty(kept) THEN kept = Redaction!Marker
         ELSE redacted[kept].value = kept
      /\ \A t \in tokens[kept] : ~e.sensitive /\ \E y \in tokens[e.item] : y.open /\ y.secret = t.secret
  <2>1. CASE e.sensitive /\ ~Redaction!IsEmpty(e.item)
    <3>1. kept = Redaction!Marker /\ ItemOf(e).findings # {}
      BY <2>1 DEF ItemOf
    <3> HIDE DEF kept
    <3> QED BY <1>6, <1>7, <2>1, <3>1
  <2>2. CASE e.sensitive /\ Redaction!IsEmpty(e.item)
    <3>1. ItemOf(e) = redacted[e.item]
      BY <2>2 DEF ItemOf
    <3>2. kept = e.item /\ tokens[kept] = {} /\ redacted[kept].value = kept
      BY <1>2, <1>5, <2>2, <3>1 DEF ValueStands
    <3> HIDE DEF kept
    <3> QED BY <1>2, <2>2, <3>2
  <2>3. CASE ~e.sensitive
    <3>1. ItemOf(e) = redacted[e.item]
      BY <2>3 DEF ItemOf
    <3>2. /\ kept \in V /\ redacted[kept].value = kept /\ Uncovered(tokens[kept], tokens[e.item])
          /\ ItemOf(e).findings = {} => kept = e.item
      BY <1>2, <1>5, <3>1 DEF ValueStands
    <3> HIDE DEF kept
    <3> QED BY <2>3, <3>2 DEF Uncovered
  <2> QED BY <1>2, <2>1, <2>2, <2>3
<1>9. now \in Entries(V) /\ now.key = key /\ now.sensitive = e.sensitive /\ now.item = kept
  BY <1>2, <1>4, <1>8 DEF Entries
<1>10. p[e].value = now /\ p[e].findings = KeyOf(e).findings \cup ItemOf(e).findings
  BY <1>1
<1> HIDE DEF key, kept, now
<1>11. p[now].value = now
  <2>1. Redaction!RedactEntry(now, redacted).value
        = [key |-> KeyOf(now).value, sensitive |-> now.sensitive, item |-> ItemOf(now).value]
    BY <1>1, <1>9
  <2>2. KeyOf(now).value = key
    BY <1>4, <1>9 DEF KeyOf
  <2>3. ItemOf(now).value = kept
    BY <1>8, <1>9 DEF ItemOf
  <2> QED BY <1>9, <2>1, <2>2, <2>3 DEF now
<1>12. ASSUME NEW t \in q[now] PROVE \E y \in q[e] : y.open /\ y.secret = t.secret
  <2>1. /\ q[now] = TokensOfEntry(now, tokens) /\ q[e] = TokensOfEntry(e, tokens)
    BY <1>9
  <2>2. CASE t \in Redaction!Plain(key)
    <3>1. PICK y \in Redaction!Plain(e.key) : y.open /\ y.secret = t.secret
      BY <1>4, <2>2 DEF Uncovered
    <3> QED BY <2>1, <3>1 DEF TokensOfEntry
  <2>3. CASE t \notin Redaction!Plain(key)
    <3>1. PICK x \in tokens[kept] : t = [secret |-> x.secret, open |-> x.open /\ ~e.sensitive]
      BY <1>9, <1>12, <2>1, <2>3 DEF TokensOfEntry
    <3>2. PICK y \in tokens[e.item] : y.open /\ y.secret = x.secret /\ ~e.sensitive
      BY <1>8
    <3> DEFINE z == [secret |-> y.secret, open |-> y.open /\ ~e.sensitive]
    <3>3. z \in q[e]
      BY <2>1 DEF TokensOfEntry
    <3>4. z.open /\ z.secret = t.secret
      BY <3>1, <3>2
    <3> QED BY <3>3, <3>4
  <2> QED BY <2>2, <2>3
<1>13. p[e].findings = {} => now = e
  BY <1>2, <1>4, <1>8, <1>10 DEF now, kept, key
<1> QED BY <1>9, <1>10, <1>11, <1>12, <1>13 DEF Uncovered

\* What becomes of a value of each kind.
LEMMA KindsOfValues ==
    ASSUME NEW redacted, NEW tokens, NEW seq
    PROVE  /\ Redaction!RedactWhole([is |-> "text", of |-> seq], redacted)
                = [value |-> [is |-> "text", of |-> Redaction!RedactText(seq).value],
                   findings |-> Redaction!RedactText(seq).findings]
           /\ Redaction!SpotsOf([is |-> "text", of |-> seq], tokens) = Redaction!Plain(seq)
           /\ Redaction!RedactWhole([is |-> "list", of |-> seq], redacted)
                = [value |-> [is |-> "list", of |-> Each(seq, redacted)],
                   findings |-> FoundIn(seq, redacted)]
           /\ Redaction!SpotsOf([is |-> "list", of |-> seq], tokens) = TokensIn(seq, tokens)
<1>1. ASSUME NEW is, NEW of PROVE [[is |-> is, of |-> seq] EXCEPT !.of = of] = [is |-> is, of |-> of]
  OBVIOUS
<1>2. Redaction!RedactWhole([is |-> "text", of |-> seq], redacted)
        = [value |-> [is |-> "text", of |-> Redaction!RedactText(seq).value],
           findings |-> Redaction!RedactText(seq).findings]
  <2> DEFINE value == [is |-> "text", of |-> seq]
  <2>1. value.is = "text" /\ value.of = seq
    OBVIOUS
  <2> HIDE DEF value
  <2>2. Redaction!RedactWhole(value, redacted)
        = [value |-> [value EXCEPT !.of = Redaction!RedactText(value.of).value],
           findings |-> Redaction!RedactText(value.of).findings]
    BY <2>1 DEF Redaction!RedactWhole
  <2>3. [value EXCEPT !.of = Redaction!RedactText(seq).value] = [is |-> "text", of |-> Redaction!RedactText(seq).value]
    BY <1>1 DEF value
  <2> QED BY Zenon, <2>1, <2>2, <2>3 DEF value
<1>3. Redaction!SpotsOf([is |-> "text", of |-> seq], tokens) = Redaction!Plain(seq)
  BY DEF Redaction!SpotsOf
<1>4. Redaction!RedactWhole([is |-> "list", of |-> seq], redacted)
        = [value |-> [is |-> "list", of |-> Each(seq, redacted)],
           findings |-> FoundIn(seq, redacted)]
  <2> DEFINE value == [is |-> "list", of |-> seq]
             parts == [n \in DOMAIN value.of |-> redacted[value.of[n]]]
             each == [n \in DOMAIN parts |-> parts[n].value]
             found == UNION { Redaction!At(n, parts[n].findings) : n \in DOMAIN parts }
  <2>1. value.is = "list" /\ value.of = seq
    OBVIOUS
  <2>2. each = Each(seq, redacted)
    BY <2>1 DEF Each
  <2>3. found = FoundIn(seq, redacted)
    BY <2>1 DEF FoundIn
  <2> HIDE DEF value, each, found
  <2>4. Redaction!RedactWhole(value, redacted) = [value |-> [value EXCEPT !.of = each], findings |-> found]
    BY Zenon, <2>1, "list" # "text" DEF Redaction!RedactWhole, each, found
  <2>5. [value EXCEPT !.of = each] = [is |-> "list", of |-> each]
    BY <1>1 DEF value
  <2> QED BY Zenon, <2>2, <2>3, <2>4, <2>5 DEF value
<1>5. Redaction!SpotsOf([is |-> "list", of |-> seq], tokens) = TokensIn(seq, tokens)
  BY DEF Redaction!SpotsOf, TokensIn
<1> QED BY <1>2, <1>3, <1>4, <1>5

LEMMA NothingBecomes ==
    ASSUME NEW redacted, NEW tokens, NEW is \in {"null", "number"}
    PROVE  /\ Redaction!RedactWhole([is |-> is, of |-> << >>], redacted)
                = [value |-> [is |-> is, of |-> << >>], findings |-> {}]
           /\ Redaction!SpotsOf([is |-> is, of |-> << >>], tokens) = {}
  BY DEF Redaction!RedactWhole, Redaction!SpotsOf

LEMMA ObjectsAreEntries ==
    ASSUME NEW V, NEW redacted, NEW tokens, NEW seq \in Seq(Entries(V))
    PROVE  /\ Redaction!RedactWhole([is |-> "object", of |-> seq], redacted)
                = [value |-> [is |-> "object", of |-> Each(seq, EntriesRedacted(V, redacted))],
                   findings |-> FoundIn(seq, EntriesRedacted(V, redacted))]
           /\ Redaction!SpotsOf([is |-> "object", of |-> seq], tokens) = TokensIn(seq, EntriesTokens(V, tokens))
<1> DEFINE p == EntriesRedacted(V, redacted)
           q == EntriesTokens(V, tokens)
           value == [is |-> "object", of |-> seq]
           parts == [n \in DOMAIN value.of |-> Redaction!RedactEntry(value.of[n], redacted)]
           each == [n \in DOMAIN parts |-> parts[n].value]
           found == UNION { Redaction!At(n, parts[n].findings) : n \in DOMAIN parts }
<1>1. value.is = "object" /\ value.of = seq
  OBVIOUS
<1>2. \A n \in DOMAIN seq : seq[n] \in Entries(V)
  OBVIOUS
<1>3. \A n \in DOMAIN seq : p[seq[n]] = Redaction!RedactEntry(seq[n], redacted)
  BY <1>2 DEF EntriesRedacted
<1>4. DOMAIN parts = DOMAIN seq /\ \A n \in DOMAIN seq : parts[n] = p[seq[n]]
  BY <1>1, <1>3
<1>5. each = Each(seq, p) /\ found = FoundIn(seq, p)
  <2> HIDE DEF parts
  <2> QED BY <1>4 DEF Each, FoundIn
<1> HIDE DEF value, each, found
<1>6. Redaction!RedactWhole(value, redacted) = [value |-> [value EXCEPT !.of = each], findings |-> found]
  BY Zenon, <1>1, "object" # "text", "object" # "list" DEF Redaction!RedactWhole, each, found
<1>7. [value EXCEPT !.of = each] = [is |-> "object", of |-> each]
  BY DEF value
<1>8. \A n \in DOMAIN seq : q[seq[n]] = TokensOfEntry(seq[n], tokens)
  BY <1>2 DEF EntriesTokens
<1> DEFINE toks(n) == Redaction!Plain(value.of[n].key) \cup
                      { [secret |-> t.secret, open |-> t.open /\ ~value.of[n].sensitive] : t \in tokens[value.of[n].item] }
<1>9. Redaction!SpotsOf(value, tokens) = UNION { toks(n) : n \in DOMAIN value.of }
  BY Zenon, <1>1, "object" # "text", "object" # "list" DEF Redaction!SpotsOf
<1>10. \A n \in DOMAIN seq : toks(n) = q[seq[n]]
  BY Zenon, <1>1, <1>8 DEF TokensOfEntry
<1> HIDE DEF toks
<1>11. UNION { toks(n) : n \in DOMAIN value.of } = TokensIn(seq, q)
  <2>1. \A x : x \in UNION { toks(n) : n \in DOMAIN value.of } <=> \E n \in DOMAIN seq : x \in toks(n)
    BY <1>1
  <2>2. \A x : x \in TokensIn(seq, q) <=> \E n \in DOMAIN seq : x \in q[seq[n]]
    BY DEF TokensIn
  <2>3. ASSUME NEW x PROVE x \in UNION { toks(n) : n \in DOMAIN value.of } <=> x \in TokensIn(seq, q)
    BY <1>10, <2>1, <2>2
  <2> QED BY Zenon, <2>3
<1> QED BY Zenon, <1>5, <1>6, <1>7, <1>9, <1>11 DEF value

Whole(W, redacted) == [v \in W |-> Redaction!RedactWhole(v, redacted)]
AllTokens(W, tokens) == [v \in W |-> Redaction!SpotsOf(v, tokens)]
Holding(V) == Redaction!Leaves \cup Redaction!Over(V)

\* Where values stand, the values of them stand.
LEMMA DeeperValuesStand ==
    ASSUME NEW V, NEW redacted, NEW tokens, ValuesStand(V, redacted, tokens)
    PROVE  ValuesStand(Holding(V), Whole(Holding(V), redacted), AllTokens(Holding(V), tokens))
<1> DEFINE W == Holding(V)
           ro == Whole(W, redacted)
           ta == AllTokens(W, tokens)
           p == EntriesRedacted(V, redacted)
           q == EntriesTokens(V, tokens)
           Of(is, seq) == [is |-> is, of |-> seq]
<1>1. \A v \in W : ro[v] = Redaction!RedactWhole(v, redacted) /\ ta[v] = Redaction!SpotsOf(v, tokens)
  BY DEF Whole, AllTokens
<1>2. ASSUME NEW v \in W
      PROVE  \/ \E seq \in Seq(Redaction!Piece) : v = Of("text", seq)
             \/ \E is \in {"null", "number"} : v = Of(is, << >>)
             \/ \E seq \in Seq(V) : v = Of("list", seq)
             \/ \E seq \in Seq(Entries(V)) : v = Of("object", seq)
  BY DEF Holding, Redaction!Leaves, Redaction!Over, Entries
<1>3. /\ \A seq \in Seq(Redaction!Piece) : Of("text", seq) \in W
      /\ \A is \in {"null", "number"} : Of(is, << >>) \in W
      /\ \A seq \in Seq(V) : Of("list", seq) \in W
      /\ \A seq \in Seq(Entries(V)) : Of("object", seq) \in W
  BY DEF Holding, Redaction!Leaves, Redaction!Over, Entries
<1> HIDE DEF W, ro, ta
<1>14. ASSUME NEW seq
       PROVE  /\ Redaction!RedactWhole(Of("text", seq), redacted)
                   = [value |-> Of("text", Redaction!RedactText(seq).value), findings |-> Redaction!RedactText(seq).findings]
              /\ Redaction!SpotsOf(Of("text", seq), tokens) = Redaction!Plain(seq)
              /\ Redaction!RedactWhole(Of("list", seq), redacted)
                   = [value |-> Of("list", Each(seq, redacted)), findings |-> FoundIn(seq, redacted)]
              /\ Redaction!SpotsOf(Of("list", seq), tokens) = TokensIn(seq, tokens)
  BY KindsOfValues
<1>15. ASSUME NEW is \in {"null", "number"}
       PROVE  /\ Redaction!RedactWhole(Of(is, << >>), redacted) = [value |-> Of(is, << >>), findings |-> {}]
              /\ Redaction!SpotsOf(Of(is, << >>), tokens) = {}
  BY NothingBecomes
<1>17. ASSUME NEW seq \in Seq(Entries(V))
       PROVE  /\ Redaction!RedactWhole(Of("object", seq), redacted)
                   = [value |-> Of("object", Each(seq, p)), findings |-> FoundIn(seq, p)]
              /\ Redaction!SpotsOf(Of("object", seq), tokens) = TokensIn(seq, q)
  BY ObjectsAreEntries
<1> HIDE DEF p, q
<1> HIDE DEF Of
<1>4. PartsStand(V, redacted, tokens)
  BY DEF ValuesStand, ValueStands, PartsStand
<1>5. PartsStand(Entries(V), p, q)
  BY EntriesStand DEF p, q
<1>6. ASSUME NEW seq \in Seq(Redaction!Piece) PROVE ValueStands(Of("text", seq), W, ro, ta)
  <2> DEFINE new == Redaction!RedactText(seq).value
  <2>1. TextStands(seq)
    BY TextsStand
  <2>2. /\ new \in Seq(Redaction!Piece) /\ Redaction!RedactText(new).value = new
        /\ Uncovered(Redaction!Plain(new), Redaction!Plain(seq))
        /\ Redaction!RedactText(seq).findings = {} => new = seq
        /\ seq = << >> => new = << >>
    BY <2>1 DEF TextStands
  <2>3. Of("text", seq) \in W /\ Of("text", new) \in W
    BY <1>3, <2>2
  <2>4. ro[Of("text", seq)] = [value |-> Of("text", new), findings |-> Redaction!RedactText(seq).findings]
    BY <1>1, <2>3, <1>14
  <2> HIDE DEF new
  <2>5. ro[Of("text", new)].value = Of("text", new) /\ ta[Of("text", new)] = Redaction!Plain(new)
    <3>1. /\ Redaction!RedactWhole(Of("text", new), redacted)
               = [value |-> Of("text", Redaction!RedactText(new).value), findings |-> Redaction!RedactText(new).findings]
          /\ Redaction!SpotsOf(Of("text", new), tokens) = Redaction!Plain(new)
      BY <1>14
    <3> QED BY <1>1, <2>2, <2>3, <3>1
  <2>6. Redaction!IsEmpty(Of("text", seq)) => seq = << >>
    BY DEF Redaction!IsEmpty, Of
  <2>7. seq = << >> => ta[Of("text", seq)] = {}
    <3>1. ta[Of("text", seq)] = Redaction!Plain(seq)
      BY <1>1, <2>3, <1>14
    <3> QED BY <3>1 DEF Redaction!Plain
  <2>8. ta[Of("text", seq)] = Redaction!Plain(seq)
    BY <1>1, <2>3, <1>14
  <2> QED BY <2>2, <2>3, <2>4, <2>5, <2>6, <2>7, <2>8 DEF ValueStands
<1>7. ASSUME NEW is \in {"null", "number"} PROVE ValueStands(Of(is, << >>), W, ro, ta)
  <2>1. Of(is, << >>) \in W
    BY <1>3
  <2>2. ro[Of(is, << >>)] = [value |-> Of(is, << >>), findings |-> {}] /\ ta[Of(is, << >>)] = {}
    BY <1>1, <1>15, <2>1
  <2> QED BY <2>1, <2>2 DEF ValueStands, Uncovered
<1>8. ASSUME NEW seq \in Seq(V) PROVE ValueStands(Of("list", seq), W, ro, ta)
  <2> DEFINE new == Each(seq, redacted)
             found == FoundIn(seq, redacted)
             stored == TokensIn(new, tokens)
  <2>1. /\ new \in Seq(V) /\ Each(new, redacted) = new /\ Uncovered(stored, TokensIn(seq, tokens))
        /\ found = {} => new = seq
    BY <1>4, SequencesStand
  <2>2. Of("list", seq) \in W /\ Of("list", new) \in W
    BY <1>3, <2>1
  <2>3. ro[Of("list", seq)] = [value |-> Of("list", new), findings |-> found]
    BY <1>1, <2>2, <1>14
  <2> HIDE DEF new
  <2>4. ro[Of("list", new)].value = Of("list", Each(new, redacted)) /\ ta[Of("list", new)] = stored
    <3>1. /\ Redaction!RedactWhole(Of("list", new), redacted)
               = [value |-> Of("list", Each(new, redacted)), findings |-> FoundIn(new, redacted)]
          /\ Redaction!SpotsOf(Of("list", new), tokens) = stored
      BY <1>14
    <3> QED BY <1>1, <2>2, <3>1
  <2>5. Redaction!IsEmpty(Of("list", seq)) => seq = << >>
    BY DEF Redaction!IsEmpty, Of
  <2>6. seq = << >> => new = << >> /\ ta[Of("list", seq)] = {}
    <3>1. ta[Of("list", seq)] = TokensIn(seq, tokens)
      BY <1>1, <2>2, <1>14
    <3> QED BY <3>1 DEF TokensIn, Each, new
  <2>7. ta[Of("list", seq)] = TokensIn(seq, tokens)
    BY <1>1, <2>2, <1>14
  <2> HIDE DEF found, stored
  <2> QED BY <2>1, <2>2, <2>3, <2>4, <2>5, <2>6, <2>7 DEF ValueStands
<1>9. ASSUME NEW seq \in Seq(Entries(V)) PROVE ValueStands(Of("object", seq), W, ro, ta)
  <2> DEFINE new == Each(seq, p)
             found == FoundIn(seq, p)
             stored == TokensIn(new, q)
  <2>1. /\ new \in Seq(Entries(V)) /\ Each(new, p) = new /\ Uncovered(stored, TokensIn(seq, q))
        /\ found = {} => new = seq
    BY <1>5, SequencesStand
  <2>2. Of("object", seq) \in W /\ Of("object", new) \in W
    BY <1>3, <2>1
  <2>3. ro[Of("object", seq)] = [value |-> Of("object", new), findings |-> found]
    BY <1>1, <2>2, <1>17
  <2> HIDE DEF new
  <2>4. ro[Of("object", new)].value = Of("object", Each(new, p)) /\ ta[Of("object", new)] = stored
    BY <1>1, <2>1, <2>2, <1>17
  <2>5. Redaction!IsEmpty(Of("object", seq)) => seq = << >>
    BY DEF Redaction!IsEmpty, Of
  <2>6. seq = << >> => new = << >> /\ ta[Of("object", seq)] = {}
    <3>1. ta[Of("object", seq)] = TokensIn(seq, q)
      BY <1>1, <2>2, <1>17
    <3> QED BY <3>1 DEF TokensIn, Each, new
  <2>7. ta[Of("object", seq)] = TokensIn(seq, q)
    BY <1>1, <2>2, <1>17
  <2> HIDE DEF found, stored
  <2> QED BY <2>1, <2>2, <2>3, <2>4, <2>5, <2>6, <2>7 DEF ValueStands
<1>10. Redaction!Marker \in W
  <2>1. << [assigns |-> FALSE, body |-> "word", secret |-> 0] >> \in Seq(Redaction!Piece)
    BY DEF Redaction!Piece, Redaction!Bodies
  <2> QED BY <1>3, <2>1 DEF Redaction!Marker, Redaction!None, Of
<1>11. ta[Redaction!Marker] = {}
  <2> DEFINE one == << [assigns |-> FALSE, body |-> "word", secret |-> 0] >>
  <2>1. ta[Redaction!Marker] = Redaction!Plain(one)
    BY <1>1, <1>10, <1>14 DEF Redaction!Marker, Redaction!None, Of
  <2>2. \A n \in DOMAIN one : one[n].secret = 0
    OBVIOUS
  <2> HIDE DEF one
  <2> QED BY <2>1, <2>2 DEF Redaction!Plain, Redaction!None
<1>12. \A v \in W : ValueStands(v, W, ro, ta)
  BY <1>2, <1>6, <1>7, <1>8, <1>9
<1>13. ValuesStand(W, ro, ta)
  BY <1>10, <1>11, <1>12 DEF ValuesStand
<1> QED BY <1>13 DEF W, ro, ta

\* Values of each depth hold values of the depth below.
LEMMA DepthsOfValues ==
    /\ Redaction!Values[0] = Holding({})
    /\ \A n \in 1..Nesting : Redaction!Values[n] = Holding(Redaction!Values[n - 1])
<1> DEFINE First == Holding({})
           After(n, was) == Holding(was)
           Goes(f, n) == f = [depth \in 0..n |-> IF depth = 0 THEN First ELSE After(depth, f[depth - 1])]
<1>1. Redaction!Values = CHOOSE f : f = [depth \in 0..Nesting |-> Redaction!Leaves \cup Redaction!Over(IF depth = 0 THEN {} ELSE f[depth - 1])]
  BY Zenon DEF Redaction!Values
<1>2. ASSUME NEW f PROVE [depth \in 0..Nesting |-> Redaction!Leaves \cup Redaction!Over(IF depth = 0 THEN {} ELSE f[depth - 1])]
                         = [depth \in 0..Nesting |-> IF depth = 0 THEN First ELSE After(depth, f[depth - 1])]
  BY DEF First, After, Holding
<1> HIDE DEF First, After
<1>3. Redaction!Values = CHOOSE f : Goes(f, Nesting)
  BY Zenon, <1>1, <1>2
<1>4. \A n \in Nat : \E f : Goes(f, n)
  <2> DEFINE P == { n \in Nat : \E f : Goes(f, n) }
  <2>1. 0 \in P
    <3> DEFINE f == [depth \in 0..0 |-> First]
    <3>1. \A depth \in 0..0 : depth = 0
      OBVIOUS
    <3>2. Goes(f, 0)
      BY <3>1
    <3> HIDE DEF f
    <3> QED BY <3>2
  <2>2. ASSUME NEW n \in P PROVE n + 1 \in P
    <3>1. PICK f : Goes(f, n)
      OBVIOUS
    <3> DEFINE g == [depth \in 0..(n + 1) |-> IF depth = n + 1 THEN After(depth, f[n]) ELSE f[depth]]
    <3>2. ASSUME NEW depth \in 0..(n + 1)
          PROVE  g[depth] = IF depth = 0 THEN First ELSE After(depth, g[depth - 1])
      <4>1. n \in Nat /\ depth \in Nat
        OBVIOUS
      <4>2. depth # 0 => depth - 1 \in 0..(n + 1) /\ depth - 1 # n + 1
        BY <4>1
      <4>3. depth # 0 => g[depth - 1] = f[depth - 1]
        BY <4>2
      <4>4. depth = n + 1 => g[depth] = After(depth, f[n]) /\ depth # 0 /\ depth - 1 = n
        BY <4>1
      <4>5. depth # n + 1 => depth \in 0..n
        BY <4>1
      <4>6. depth # n + 1 => f[depth] = IF depth = 0 THEN First ELSE After(depth, f[depth - 1])
        BY <3>1, <4>5
      <4>7. depth # n + 1 => g[depth] = f[depth]
        BY <4>1
      <4> HIDE DEF g
      <4> QED BY <4>3, <4>4, <4>6, <4>7
    <3>3. g = [depth \in 0..(n + 1) |-> g[depth]]
      OBVIOUS
    <3> HIDE DEF g
    <3>4. Goes(g, n + 1)
      BY <3>2, <3>3
    <3> HIDE DEF Goes
    <3> QED BY <3>4
  <2> HIDE DEF P
  <2>3. P = Nat
    <3>1. P \in SUBSET Nat
      BY DEF P
    <3> QED BY <2>1, <2>2, <3>1, Counting
  <2> QED BY <2>3 DEF P
<1> DEFINE fun == CHOOSE f : Goes(f, Nesting)
<1>5. Goes(fun, Nesting)
  BY <1>4, NestingIsNat
<1> HIDE DEF fun
<1>6. \A depth \in 0..Nesting : fun[depth] = IF depth = 0 THEN First ELSE After(depth, fun[depth - 1])
  BY <1>5
<1>7. 0 \in 0..Nesting /\ \A n \in 1..Nesting : n \in 0..Nesting /\ n # 0
  BY NestingIsNat
<1>8. fun[0] = First /\ \A n \in 1..Nesting : fun[n] = After(n, fun[n - 1])
  BY <1>6, <1>7
<1>9. fun = Redaction!Values
  BY Zenon, <1>3 DEF fun
<1> QED BY Zenon, <1>8, <1>9 DEF First, After

\* They are redacted as what they hold is.
LEMMA DepthsOfRedaction ==
    /\ Redaction!RedactValue[0] = Whole(Redaction!Values[0], << >>)
    /\ \A n \in 1..Nesting : Redaction!RedactValue[n] = Whole(Redaction!Values[n], Redaction!RedactValue[n - 1])
<1> DEFINE First == Whole(Redaction!Values[0], << >>)
           After(n, was) == Whole(Redaction!Values[n], was)
           Goes(f, n) == f = [depth \in 0..n |-> IF depth = 0 THEN First ELSE After(depth, f[depth - 1])]
<1>1. Redaction!RedactValue = CHOOSE f : f = [depth \in 0..Nesting |-> [value \in Redaction!Values[depth] |-> Redaction!RedactWhole(value, IF depth = 0 THEN << >> ELSE f[depth - 1])]]
  BY Zenon DEF Redaction!RedactValue
<1>2. ASSUME NEW f PROVE [depth \in 0..Nesting |-> [value \in Redaction!Values[depth] |-> Redaction!RedactWhole(value, IF depth = 0 THEN << >> ELSE f[depth - 1])]]
                         = [depth \in 0..Nesting |-> IF depth = 0 THEN First ELSE After(depth, f[depth - 1])]
  BY DEF First, After, Whole
<1> HIDE DEF First, After
<1>3. Redaction!RedactValue = CHOOSE f : Goes(f, Nesting)
  BY Zenon, <1>1, <1>2
<1>4. \A n \in Nat : \E f : Goes(f, n)
  <2> DEFINE P == { n \in Nat : \E f : Goes(f, n) }
  <2>1. 0 \in P
    <3> DEFINE f == [depth \in 0..0 |-> First]
    <3>1. \A depth \in 0..0 : depth = 0
      OBVIOUS
    <3>2. Goes(f, 0)
      BY <3>1
    <3> HIDE DEF f
    <3> QED BY <3>2
  <2>2. ASSUME NEW n \in P PROVE n + 1 \in P
    <3>1. PICK f : Goes(f, n)
      OBVIOUS
    <3> DEFINE g == [depth \in 0..(n + 1) |-> IF depth = n + 1 THEN After(depth, f[n]) ELSE f[depth]]
    <3>2. ASSUME NEW depth \in 0..(n + 1)
          PROVE  g[depth] = IF depth = 0 THEN First ELSE After(depth, g[depth - 1])
      <4>1. n \in Nat /\ depth \in Nat
        OBVIOUS
      <4>2. depth # 0 => depth - 1 \in 0..(n + 1) /\ depth - 1 # n + 1
        BY <4>1
      <4>3. depth # 0 => g[depth - 1] = f[depth - 1]
        BY <4>2
      <4>4. depth = n + 1 => g[depth] = After(depth, f[n]) /\ depth # 0 /\ depth - 1 = n
        BY <4>1
      <4>5. depth # n + 1 => depth \in 0..n
        BY <4>1
      <4>6. depth # n + 1 => f[depth] = IF depth = 0 THEN First ELSE After(depth, f[depth - 1])
        BY <3>1, <4>5
      <4>7. depth # n + 1 => g[depth] = f[depth]
        BY <4>1
      <4> HIDE DEF g
      <4> QED BY <4>3, <4>4, <4>6, <4>7
    <3>3. g = [depth \in 0..(n + 1) |-> g[depth]]
      OBVIOUS
    <3> HIDE DEF g
    <3>4. Goes(g, n + 1)
      BY <3>2, <3>3
    <3> HIDE DEF Goes
    <3> QED BY <3>4
  <2> HIDE DEF P
  <2>3. P = Nat
    <3>1. P \in SUBSET Nat
      BY DEF P
    <3> QED BY <2>1, <2>2, <3>1, Counting
  <2> QED BY <2>3 DEF P
<1> DEFINE fun == CHOOSE f : Goes(f, Nesting)
<1>5. Goes(fun, Nesting)
  BY <1>4, NestingIsNat
<1> HIDE DEF fun
<1>6. \A depth \in 0..Nesting : fun[depth] = IF depth = 0 THEN First ELSE After(depth, fun[depth - 1])
  BY <1>5
<1>7. 0 \in 0..Nesting /\ \A n \in 1..Nesting : n \in 0..Nesting /\ n # 0
  BY NestingIsNat
<1>8. fun[0] = First /\ \A n \in 1..Nesting : fun[n] = After(n, fun[n - 1])
  BY <1>6, <1>7
<1>9. fun = Redaction!RedactValue
  BY Zenon, <1>3 DEF fun
<1> QED BY Zenon, <1>8, <1>9 DEF First, After

\* And so are their secrets found.
LEMMA DepthsOfSpots ==
    /\ Redaction!Spots[0] = AllTokens(Redaction!Values[0], << >>)
    /\ \A n \in 1..Nesting : Redaction!Spots[n] = AllTokens(Redaction!Values[n], Redaction!Spots[n - 1])
<1> DEFINE First == AllTokens(Redaction!Values[0], << >>)
           After(n, was) == AllTokens(Redaction!Values[n], was)
           Goes(f, n) == f = [depth \in 0..n |-> IF depth = 0 THEN First ELSE After(depth, f[depth - 1])]
<1>1. Redaction!Spots = CHOOSE f : f = [depth \in 0..Nesting |-> [value \in Redaction!Values[depth] |-> Redaction!SpotsOf(value, IF depth = 0 THEN << >> ELSE f[depth - 1])]]
  BY Zenon DEF Redaction!Spots
<1>2. ASSUME NEW f PROVE [depth \in 0..Nesting |-> [value \in Redaction!Values[depth] |-> Redaction!SpotsOf(value, IF depth = 0 THEN << >> ELSE f[depth - 1])]]
                         = [depth \in 0..Nesting |-> IF depth = 0 THEN First ELSE After(depth, f[depth - 1])]
  BY DEF First, After, AllTokens
<1> HIDE DEF First, After
<1>3. Redaction!Spots = CHOOSE f : Goes(f, Nesting)
  BY Zenon, <1>1, <1>2
<1>4. \A n \in Nat : \E f : Goes(f, n)
  <2> DEFINE P == { n \in Nat : \E f : Goes(f, n) }
  <2>1. 0 \in P
    <3> DEFINE f == [depth \in 0..0 |-> First]
    <3>1. \A depth \in 0..0 : depth = 0
      OBVIOUS
    <3>2. Goes(f, 0)
      BY <3>1
    <3> HIDE DEF f
    <3> QED BY <3>2
  <2>2. ASSUME NEW n \in P PROVE n + 1 \in P
    <3>1. PICK f : Goes(f, n)
      OBVIOUS
    <3> DEFINE g == [depth \in 0..(n + 1) |-> IF depth = n + 1 THEN After(depth, f[n]) ELSE f[depth]]
    <3>2. ASSUME NEW depth \in 0..(n + 1)
          PROVE  g[depth] = IF depth = 0 THEN First ELSE After(depth, g[depth - 1])
      <4>1. n \in Nat /\ depth \in Nat
        OBVIOUS
      <4>2. depth # 0 => depth - 1 \in 0..(n + 1) /\ depth - 1 # n + 1
        BY <4>1
      <4>3. depth # 0 => g[depth - 1] = f[depth - 1]
        BY <4>2
      <4>4. depth = n + 1 => g[depth] = After(depth, f[n]) /\ depth # 0 /\ depth - 1 = n
        BY <4>1
      <4>5. depth # n + 1 => depth \in 0..n
        BY <4>1
      <4>6. depth # n + 1 => f[depth] = IF depth = 0 THEN First ELSE After(depth, f[depth - 1])
        BY <3>1, <4>5
      <4>7. depth # n + 1 => g[depth] = f[depth]
        BY <4>1
      <4> HIDE DEF g
      <4> QED BY <4>3, <4>4, <4>6, <4>7
    <3>3. g = [depth \in 0..(n + 1) |-> g[depth]]
      OBVIOUS
    <3> HIDE DEF g
    <3>4. Goes(g, n + 1)
      BY <3>2, <3>3
    <3> HIDE DEF Goes
    <3> QED BY <3>4
  <2> HIDE DEF P
  <2>3. P = Nat
    <3>1. P \in SUBSET Nat
      BY DEF P
    <3> QED BY <2>1, <2>2, <3>1, Counting
  <2> QED BY <2>3 DEF P
<1> DEFINE fun == CHOOSE f : Goes(f, Nesting)
<1>5. Goes(fun, Nesting)
  BY <1>4, NestingIsNat
<1> HIDE DEF fun
<1>6. \A depth \in 0..Nesting : fun[depth] = IF depth = 0 THEN First ELSE After(depth, fun[depth - 1])
  BY <1>5
<1>7. 0 \in 0..Nesting /\ \A n \in 1..Nesting : n \in 0..Nesting /\ n # 0
  BY NestingIsNat
<1>8. fun[0] = First /\ \A n \in 1..Nesting : fun[n] = After(n, fun[n - 1])
  BY <1>6, <1>7
<1>9. fun = Redaction!Spots
  BY Zenon, <1>3 DEF fun
<1> QED BY Zenon, <1>8, <1>9 DEF First, After

\* Values stand, at whatever depth.
LEMMA EveryDepthStands ==
    \A depth \in 0..Nesting :
        ValuesStand(Redaction!Values[depth], Redaction!RedactValue[depth], Redaction!Spots[depth])
<1> DEFINE P(n) == n <= Nesting =>
                     ValuesStand(Redaction!Values[n], Redaction!RedactValue[n], Redaction!Spots[n])
           S == { n \in Nat : P(n) }
<1>1. 0 \in S
  <2>1. ValuesStand({}, << >>, << >>)
    BY DEF ValuesStand
  <2> DEFINE V == Redaction!Values[0]
  <2>2. /\ V = Holding({})
        /\ Redaction!RedactValue[0] = Whole(V, << >>) /\ Redaction!Spots[0] = AllTokens(V, << >>)
    BY DepthsOfValues, DepthsOfRedaction, DepthsOfSpots
  <2>3. ValuesStand(Holding({}), Whole(Holding({}), << >>), AllTokens(Holding({}), << >>))
    BY <2>1, DeeperValuesStand
  <2>4. ValuesStand(Redaction!Values[0], Redaction!RedactValue[0], Redaction!Spots[0])
    BY <2>2, <2>3
  <2> QED BY <2>4
<1>2. ASSUME NEW n \in S PROVE n + 1 \in S
  <2> SUFFICES ASSUME n + 1 <= Nesting PROVE P(n + 1)
    BY <1>2
  <2>1. n \in Nat /\ n <= Nesting /\ n + 1 \in 1..Nesting /\ (n + 1) - 1 = n
    BY NestingIsNat
  <2> DEFINE V == Redaction!Values[n]
             W == Redaction!Values[n + 1]
             ro == Redaction!RedactValue[n]
             ta == Redaction!Spots[n]
  <2>2. ValuesStand(V, ro, ta)
    BY <2>1
  <2>3. /\ W = Holding(V)
        /\ Redaction!RedactValue[n + 1] = Whole(W, ro) /\ Redaction!Spots[n + 1] = AllTokens(W, ta)
    BY <2>1, DepthsOfValues, DepthsOfRedaction, DepthsOfSpots
  <2> HIDE DEF V, ro, ta
  <2>4. ValuesStand(Holding(V), Whole(Holding(V), ro), AllTokens(Holding(V), ta))
    BY <2>2, DeeperValuesStand
  <2> QED BY <2>3, <2>4
<1> HIDE DEF P, S
<1>3. S = Nat
  <2>1. S \in SUBSET Nat
    BY DEF S
  <2> QED BY <1>1, <1>2, <2>1, Counting
<1>4. ASSUME NEW depth \in 0..Nesting PROVE P(depth)
  BY <1>3, NestingIsNat DEF S
<1> QED BY <1>4, NestingIsNat DEF P

\* A value that nests as deep as there are depths.
IsRedactionInput ==
    input.about = "redaction" => input.value \in Redaction!Values[Nesting]

\* Whatever values nest in one another, what is stored of one holds no secrets but
\* those that were in the open in it (in no form the rules know, after a Bearer that
\* was itself assigned, or behind an underscore of a token after Bearer), none under
\* a sensitive key, and is redacted no further (redact_value, redact_text).
THEOREM NoSecretIsStored ==
    ASSUME IsRedactionInput
    PROVE  SecretsStayOut
<1> SUFFICES ASSUME input.about = "redaction" PROVE Redaction!RedactsForGood(input.value)
  BY DEF SecretsStayOut
<1> DEFINE V == Redaction!Values[Nesting]
           ro == Redaction!RedactValue[Nesting]
           ta == Redaction!Spots[Nesting]
           value == input.value
           once == ro[value]
<1>1. value \in V
  BY DEF IsRedactionInput
<1>2. ValuesStand(V, ro, ta)
  <2>1. Nesting \in 0..Nesting
    BY NestingIsNat
  <2> QED BY <2>1, EveryDepthStands
<1> HIDE DEF V, value
<1>3. ValueStands(value, V, ro, ta)
  BY <1>1, <1>2 DEF ValuesStand
<1>4. /\ ro[once.value].value = once.value
      /\ Uncovered(ta[once.value], ta[value])
      /\ once.findings = {} => once.value = value
  BY <1>3 DEF ValueStands
<1> HIDE DEF ro, ta, once
<1>5. \A t \in ta[once.value] : \E u \in ta[value] : u.open /\ u.secret = t.secret
  BY <1>4 DEF Uncovered
<1> QED BY <1>4, <1>5, Zenon DEF Redaction!RedactsForGood, ro, ta, once, value

-----------------------------------------------------------------------------
(* Transcripts of any length, and any tasks.                                *)

\* What has been collected after each of the pieces.
Collects(upto, pieces) ==
    /\ upto[0] = << >>
    /\ \A n \in 1..Len(pieces) : upto[n] = upto[n - 1] \o pieces[n]

LEMMA CollectedSoFar ==
    ASSUME NEW S, NEW pieces \in Seq(S)
    PROVE  \E upto : Collects(upto, pieces) /\ Transcripts!Collected(pieces) = upto[Len(pieces)]
<1> DEFINE N == Len(pieces)
           And(was, k) == was \o pieces[k]
           Goes(f, n) == f = [k \in 0..n |-> IF k = 0 THEN << >> ELSE And(f[k - 1], k)]
<1>1. N \in Nat
  OBVIOUS
<1> HIDE DEF And
<1>2. \A n \in Nat : \E f : Goes(f, n)
  <2> DEFINE P == { n \in Nat : \E f : Goes(f, n) }
  <2>1. 0 \in P
    <3> DEFINE f == [k \in 0..0 |-> << >>]
    <3>1. \A k \in 0..0 : k = 0
      OBVIOUS
    <3>2. Goes(f, 0)
      BY <3>1
    <3> HIDE DEF f
    <3> QED BY <3>2
  <2>2. ASSUME NEW n \in P PROVE n + 1 \in P
    <3>1. PICK f : Goes(f, n)
      OBVIOUS
    <3> DEFINE g == [k \in 0..(n + 1) |-> IF k = n + 1 THEN And(f[n], k) ELSE f[k]]
    <3>2. ASSUME NEW k \in 0..(n + 1) PROVE g[k] = IF k = 0 THEN << >> ELSE And(g[k - 1], k)
      <4>1. n \in Nat /\ k \in Nat
        OBVIOUS
      <4>2. k # 0 => k - 1 \in 0..(n + 1) /\ k - 1 # n + 1
        BY <4>1
      <4>3. k # 0 => g[k - 1] = f[k - 1]
        BY <4>2
      <4>4. k = n + 1 => g[k] = And(f[n], k) /\ k # 0 /\ k - 1 = n
        BY <4>1
      <4>5. k # n + 1 => k \in 0..n
        BY <4>1
      <4>6. k # n + 1 => f[k] = IF k = 0 THEN << >> ELSE And(f[k - 1], k)
        BY <3>1, <4>5
      <4>7. k # n + 1 => g[k] = f[k]
        BY <4>1
      <4> HIDE DEF g
      <4> QED BY <4>3, <4>4, <4>6, <4>7
    <3>3. g = [k \in 0..(n + 1) |-> g[k]]
      OBVIOUS
    <3> HIDE DEF g
    <3>4. Goes(g, n + 1)
      BY <3>2, <3>3
    <3> HIDE DEF Goes
    <3> QED BY <3>4
  <2> HIDE DEF P
  <2>3. P = Nat
    <3>1. P \in SUBSET Nat
      BY DEF P
    <3> QED BY <2>1, <2>2, <3>1, Counting
  <2> QED BY <2>3 DEF P
<1> DEFINE upto == CHOOSE f : Goes(f, N)
<1>3. Transcripts!Collected(pieces) = upto[N]
  BY DEF Transcripts!Collected, And
<1>4. Goes(upto, N)
  BY <1>1, <1>2
<1> HIDE DEF upto
<1>5. \A k \in 0..N : upto[k] = IF k = 0 THEN << >> ELSE And(upto[k - 1], k)
  BY <1>4
<1>6. 0 \in 0..N /\ \A n \in 1..N : n \in 0..N /\ n # 0
  BY <1>1
<1>7. Collects(upto, pieces)
  BY <1>5, <1>6 DEF Collects, And
<1> QED BY <1>3, <1>7

\* One list starts with all of another.
Starts(a, b) == Len(a) <= Len(b) /\ \A n \in 1..Len(a) : b[n] = a[n]

LEMMA StartsSeq ==
    ASSUME NEW S, NEW a \in Seq(S), NEW b \in Seq(S), NEW c \in Seq(S)
    PROVE  /\ Starts(a, a) /\ Starts(a, a \o b) /\ a \o b \in Seq(S)
           /\ Starts(a, b) => Starts(a, b \o c)
<1>1. Len(a \o b) = Len(a) + Len(b) /\ \A n \in 1..Len(a) : (a \o b)[n] = a[n]
  OBVIOUS
<1>2. Len(b \o c) = Len(b) + Len(c) /\ \A n \in 1..Len(b) : (b \o c)[n] = b[n]
  OBVIOUS
<1>3. Len(a) \in Nat /\ Len(b) \in Nat /\ Len(c) \in Nat
  OBVIOUS
<1> QED BY <1>1, <1>2, <1>3 DEF Starts

\* Two lists collected from the same first pieces start alike, whatever follows.
LEMMA CollectedAlike ==
    ASSUME NEW S, NEW pieces \in Seq(Seq(S)), NEW more \in Seq(Seq(S)),
           NEW k \in Nat, k <= Len(pieces), k <= Len(more),
           \A n \in 1..k : more[n] = pieces[n]
    PROVE  \E start \in Seq(S) :
             /\ Starts(start, Transcripts!Collected(pieces)) /\ Starts(start, Transcripts!Collected(more))
             /\ k = Len(pieces) => Transcripts!Collected(pieces) = start
             /\ k + 1 = Len(pieces) => Transcripts!Collected(pieces) = start \o pieces[k + 1]
             /\ Transcripts!Collected(pieces) \in Seq(S) /\ Transcripts!Collected(more) \in Seq(S)
<1>1. PICK f : Collects(f, pieces) /\ Transcripts!Collected(pieces) = f[Len(pieces)]
  BY CollectedSoFar
<1>2. PICK g : Collects(g, more) /\ Transcripts!Collected(more) = g[Len(more)]
  BY CollectedSoFar
<1>3. ASSUME NEW run, NEW all \in Seq(Seq(S)), Collects(run, all), NEW n \in 0..Len(all)
      PROVE  run[n] \in Seq(S) /\ \A m \in 0..n : Starts(run[m], run[n])
  <2> DEFINE P(i) == i <= Len(all) => \A m \in 0..i : run[m] \in Seq(S) /\ Starts(run[m], run[i])
             T == { i \in Nat : P(i) }
  <2>1. 0 \in T
    <3>1. run[0] = << >>
      BY <1>3 DEF Collects
    <3>2. << >> \in Seq(S)
      OBVIOUS
    <3>3. Starts(run[0], run[0])
      BY <3>1 DEF Starts
    <3>4. \A m \in 0..0 : m = 0
      OBVIOUS
    <3> QED BY <3>1, <3>2, <3>3, <3>4
  <2>2. ASSUME NEW i \in T PROVE i + 1 \in T
    <3> SUFFICES ASSUME i + 1 <= Len(all), NEW m \in 0..(i + 1)
                 PROVE  run[m] \in Seq(S) /\ Starts(run[m], run[i + 1])
      BY <2>2
    <3>1. i \in Nat /\ i <= Len(all) /\ i + 1 \in 1..Len(all) /\ (i + 1) - 1 = i /\ i \in 0..i
      BY <2>2
    <3>2. \A j \in 0..i : run[j] \in Seq(S) /\ Starts(run[j], run[i])
      BY <2>2, <3>1
    <3>3. run[i + 1] = run[i] \o all[i + 1] /\ all[i + 1] \in Seq(S)
      <4>1. run[i + 1] = run[(i + 1) - 1] \o all[i + 1]
        BY <1>3, <3>1, Zenon DEF Collects
      <4>2. all[i + 1] \in Seq(S)
        BY <3>1
      <4> QED BY <3>1, <4>1, <4>2
    <3>4. run[i] \in Seq(S) /\ run[i + 1] \in Seq(S)
      BY <3>1, <3>2, <3>3, StartsSeq
    <3>5. CASE m = i + 1
      BY <3>4, <3>5, StartsSeq
    <3>6. CASE m # i + 1
      <4>1. m \in 0..i
        BY <3>1, <3>6
      <4>2. run[m] \in Seq(S) /\ Starts(run[m], run[i])
        BY <3>2, <4>1
      <4> QED BY <3>3, <3>4, <4>2, StartsSeq
    <3> QED BY <3>5, <3>6
  <2> HIDE DEF P, T
  <2>3. T = Nat
    <3>1. T \in SUBSET Nat
      BY DEF T
    <3> QED BY <2>1, <2>2, <3>1, Counting
  <2>4. \A i \in Nat : P(i)
    BY <2>3 DEF T
  <2>5. n \in Nat /\ n <= Len(all) /\ n \in 0..n
    BY <1>3
  <2> QED BY <2>4, <2>5 DEF P
<1>4. Len(pieces) \in Nat /\ Len(more) \in Nat
  OBVIOUS
<1>5. \A n \in Nat : n <= k => f[n] = g[n]
  <2> DEFINE T == { n \in Nat : n <= k => f[n] = g[n] }
  <2>1. 0 \in T
    BY <1>1, <1>2 DEF Collects
  <2>2. ASSUME NEW n \in T PROVE n + 1 \in T
    <3> SUFFICES ASSUME n + 1 <= k PROVE f[n + 1] = g[n + 1]
      BY <2>2
    <3>1. n \in Nat /\ n + 1 \in 1..k /\ n + 1 \in 1..Len(pieces) /\ n + 1 \in 1..Len(more)
          /\ (n + 1) - 1 = n /\ f[n] = g[n]
      BY <1>4, <2>2
    <3>2. f[n + 1] = f[n] \o pieces[n + 1] /\ g[n + 1] = g[n] \o more[n + 1]
      BY <1>1, <1>2, <3>1 DEF Collects
    <3> QED BY <3>1, <3>2
  <2> HIDE DEF T
  <2>3. T \in SUBSET Nat
    BY DEF T
  <2>4. T = Nat
    BY <2>1, <2>2, <2>3, Counting
  <2> QED BY <2>4 DEF T
<1>6. /\ k \in 0..Len(pieces) /\ k \in 0..Len(more) /\ Len(pieces) \in 0..Len(pieces)
      /\ Len(more) \in 0..Len(more)
  BY <1>4
<1>7. f[k] \in Seq(S) /\ Starts(f[k], f[Len(pieces)]) /\ f[Len(pieces)] \in Seq(S)
  BY <1>1, <1>3, <1>4, <1>6
<1>8. Starts(g[k], g[Len(more)]) /\ g[Len(more)] \in Seq(S)
  BY <1>2, <1>3, <1>4, <1>6
<1>9. f[k] = g[k]
  BY <1>5
<1>10. k + 1 = Len(pieces) => f[Len(pieces)] = f[k] \o pieces[k + 1]
  <2>1. k + 1 = Len(pieces) => k + 1 \in 1..Len(pieces) /\ (k + 1) - 1 = k
    BY <1>4
  <2> QED BY <1>1, <2>1 DEF Collects
<1> QED BY <1>1, <1>2, <1>7, <1>8, <1>9, <1>10

\* The first lines of a file stay when it grows; only its last one may have been
\* written by halves, and be another one then.
Grows(script, grown) ==
    \E k \in Nat :
        /\ k <= Len(script) /\ k <= Len(grown) /\ \A n \in 1..k : grown[n] = script[n]
        /\ k = Len(script) \/ (k + 1 = Len(script) /\ script[k + 1].form \in {"torn", "cut"})

\* What is read of lines is read of others, at the same place.
SameRead(lines, others) ==
    \A n \in Transcripts!Objects(lines) : n \in Transcripts!Objects(others) /\ others[n] = lines[n]

\* The pieces that the lines of a file are cut into.
Cut(lines) == [n \in DOMAIN lines |->
                 IF lines[n].form = "wide" THEN << Transcripts!Torn, Transcripts!Torn >> ELSE << lines[n] >>]

LEMMA SplitLinesSeq ==
    ASSUME NEW Line, Transcripts!Torn \in Line, NEW lines \in Seq(Line)
    PROVE  /\ Cut(lines) \in Seq(Seq(Line)) /\ Len(Cut(lines)) = Len(lines)
           /\ Transcripts!SplitLines(lines) = Transcripts!Collected(Cut(lines))
           /\ Transcripts!SplitLines(lines) \in Seq(Line)
<1> DEFINE cut == Cut(lines)
<1>1. /\ << Transcripts!Torn, Transcripts!Torn >> \in Seq(Line)
      /\ \A line \in Line : << line >> \in Seq(Line)
  <2> HIDE DEF Transcripts!Torn
  <2> QED OBVIOUS
<1>2. \A n \in DOMAIN lines : lines[n] \in Line
  OBVIOUS
<1>3. \A n \in DOMAIN lines : cut[n] \in Seq(Line)
  BY <1>1, <1>2 DEF Cut
<1>4. DOMAIN lines = 1..Len(lines) /\ Len(lines) \in Nat
  OBVIOUS
<1>5. DOMAIN cut = 1..Len(lines) /\ cut = [n \in 1..Len(lines) |-> cut[n]]
  BY <1>4 DEF Cut
<1>6. Transcripts!SplitLines(lines) = Transcripts!Collected(cut)
  BY Zenon DEF Transcripts!SplitLines, Cut
<1> HIDE DEF cut
<1>7. cut \in [1..Len(lines) -> Seq(Line)]
  BY <1>3, <1>4, <1>5
<1>8. cut \in Seq(Seq(Line)) /\ Len(cut) = Len(lines)
  BY <1>4, <1>7
<1>9. Transcripts!Collected(cut) \in Seq(Line)
  <2>1. 0 \in Nat /\ 0 <= Len(cut) /\ \A n \in 1..0 : cut[n] = cut[n]
    BY <1>4, <1>8
  <2>2. \E start \in Seq(Line) :
             /\ Starts(start, Transcripts!Collected(cut)) /\ Starts(start, Transcripts!Collected(cut))
             /\ 0 = Len(cut) => Transcripts!Collected(cut) = start
             /\ 0 + 1 = Len(cut) => Transcripts!Collected(cut) = start \o cut[0 + 1]
             /\ Transcripts!Collected(cut) \in Seq(Line) /\ Transcripts!Collected(cut) \in Seq(Line)
    BY <1>8, <2>1, CollectedAlike
  <2> QED BY <2>2
<1> QED BY Zenon, <1>6, <1>8, <1>9 DEF cut

LEMMA SplitAlike ==
    ASSUME NEW Line, Transcripts!Torn \in Line,
           NEW script \in Seq(Line), NEW grown \in Seq(Line), Grows(script, grown)
    PROVE  /\ SameRead(script, grown)
           /\ SameRead(Transcripts!SplitLines(script), Transcripts!SplitLines(grown))
<1>1. PICK k \in Nat :
        /\ k <= Len(script) /\ k <= Len(grown) /\ \A n \in 1..k : grown[n] = script[n]
        /\ k = Len(script) \/ (k + 1 = Len(script) /\ script[k + 1].form \in {"torn", "cut"})
  BY DEF Grows
<1>2. /\ Len(script) \in Nat /\ \A n : n \in DOMAIN script <=> n \in 1..Len(script)
      /\ Len(grown) \in Nat /\ \A n : n \in DOMAIN grown <=> n \in 1..Len(grown)
  OBVIOUS
<1>0. k < Len(script) => k + 1 = Len(script) /\ script[Len(script)].form \in {"torn", "cut"}
  BY <1>1, <1>2
<1>3. SameRead(script, grown)
  <2> SUFFICES ASSUME NEW n \in Transcripts!Objects(script)
               PROVE  n \in Transcripts!Objects(grown) /\ grown[n] = script[n]
    BY DEF SameRead
  <2>1. n \in 1..Len(script) /\ script[n].form \in {"object", "wide"}
    BY <1>2 DEF Transcripts!Objects
  <2>2. n \in 1..k
    <3>1. n # Len(script) \/ k = Len(script)
      BY <1>0, <1>1, <1>2, <2>1
    <3> QED BY <1>0, <1>1, <1>2, <2>1, <3>1
  <2>3. n \in DOMAIN grown /\ grown[n] = script[n]
    BY <1>1, <1>2, <2>2
  <2> QED BY <2>1, <2>3 DEF Transcripts!Objects
<1>4. ASSUME NEW lines \in Seq(Line)
      PROVE  /\ Cut(lines) \in Seq(Seq(Line)) /\ Len(Cut(lines)) = Len(lines)
             /\ Transcripts!SplitLines(lines) = Transcripts!Collected(Cut(lines))
  BY SplitLinesSeq
<1>5. ASSUME NEW n \in 1..k PROVE Cut(grown)[n] = Cut(script)[n]
  <2>1. n \in DOMAIN grown /\ n \in DOMAIN script /\ grown[n] = script[n]
    BY <1>1, <1>2
  <2> QED BY <2>1 DEF Cut
<1>6. k + 1 = Len(script) => Cut(script)[k + 1] = << script[k + 1] >>
  <2>1. k + 1 = Len(script) => k + 1 \in DOMAIN script /\ script[k + 1].form # "wide"
    BY <1>0, <1>2
  <2> QED BY <2>1 DEF Cut
<1> DEFINE some == Transcripts!SplitLines(script)
           rest == Transcripts!SplitLines(grown)
           pieces == Cut(script)
           more == Cut(grown)
<1>7. /\ pieces \in Seq(Seq(Line)) /\ Len(pieces) = Len(script) /\ some = Transcripts!Collected(pieces)
      /\ more \in Seq(Seq(Line)) /\ Len(more) = Len(grown) /\ rest = Transcripts!Collected(more)
  BY <1>4
<1> HIDE DEF pieces, more, some, rest
<1>8. PICK start \in Seq(Line) :
             /\ Starts(start, some) /\ Starts(start, rest)
             /\ k = Len(pieces) => some = start
             /\ k + 1 = Len(pieces) => some = start \o pieces[k + 1]
             /\ some \in Seq(Line) /\ rest \in Seq(Line)
  <2>1. \A n \in 1..k : more[n] = pieces[n]
    BY <1>5 DEF pieces, more
  <2>2. k <= Len(pieces) /\ k <= Len(more)
    BY <1>1, <1>7
  <2>3. \E start \in Seq(Line) :
             /\ Starts(start, Transcripts!Collected(pieces)) /\ Starts(start, Transcripts!Collected(more))
             /\ k = Len(pieces) => Transcripts!Collected(pieces) = start
             /\ k + 1 = Len(pieces) => Transcripts!Collected(pieces) = start \o pieces[k + 1]
             /\ Transcripts!Collected(pieces) \in Seq(Line) /\ Transcripts!Collected(more) \in Seq(Line)
    BY <1>7, <2>1, <2>2, CollectedAlike
  <2> QED BY <1>7, <2>3
<1>9. ASSUME NEW n \in Transcripts!Objects(some) PROVE n \in 1..Len(start)
  <2>1. n \in 1..Len(some) /\ some[n].form \in {"object", "wide"}
    BY <1>8 DEF Transcripts!Objects
  <2>2. CASE k = Len(script)
    BY <1>7, <1>8, <2>1, <2>2
  <2>3. CASE k + 1 = Len(script)
    <3>1. some = start \o << script[k + 1] >> /\ script[k + 1].form \in {"torn", "cut"}
      <4>1. pieces[k + 1] = << script[k + 1] >>
        BY <1>6, <2>3 DEF pieces
      <4>2. some = start \o pieces[k + 1]
        BY <1>7, <1>8, <2>3
      <4>3. script[k + 1].form \in {"torn", "cut"}
        BY <1>0, <1>2, <2>3
      <4> QED BY <4>1, <4>2, <4>3
    <3>2. Len(some) = Len(start) + 1 /\ some[Len(start) + 1] = script[k + 1]
      BY <3>1
    <3>3. n # Len(start) + 1
      BY <2>1, <3>1, <3>2
    <3>4. Len(start) \in Nat
      OBVIOUS
    <3> QED BY <2>1, <3>2, <3>3, <3>4
  <2> QED BY <1>1, <2>2, <2>3
<1>10. SameRead(some, rest)
  <2> SUFFICES ASSUME NEW n \in Transcripts!Objects(some)
               PROVE  n \in Transcripts!Objects(rest) /\ rest[n] = some[n]
    BY DEF SameRead
  <2>1. n \in 1..Len(start)
    BY <1>9
  <2>2. some[n] = start[n] /\ rest[n] = start[n] /\ n \in 1..Len(rest)
    <3>1. Len(rest) \in Nat /\ Len(start) \in Nat
      BY <1>8
    <3> QED BY <1>8, <2>1, <3>1 DEF Starts
  <2>3. n \in DOMAIN rest
    BY <1>8, <2>2
  <2>4. some[n].form \in {"object", "wide"}
    BY DEF Transcripts!Objects
  <2> QED BY <2>2, <2>3, <2>4 DEF Transcripts!Objects
<1> QED BY <1>3, <1>10 DEF some, rest

Adapters == {"codex", "claude", "antigravity", "vscode"}

\* The lines a source reads of a file.
LinesOf(src, script) == IF src \in {"codex", "antigravity"} THEN Transcripts!SplitLines(script) ELSE script

\* What is read of a file, if it can be.
LEMMA ParsedAs ==
    ASSUME NEW src \in Adapters, NEW script
    PROVE  LET parsed == Transcripts!Parse(src, script)
               lines == LinesOf(src, script)
           IN  \/ ~parsed.ok
               \/ /\ parsed.events = Transcripts!Numbers(Transcripts!Objects(lines))
                  /\ parsed.messages = Transcripts!Spoken(src, lines, Transcripts!Objects(lines))
<1>1. CASE src = "codex"
  BY <1>1 DEF Transcripts!Parse, Transcripts!ParseCodex, Transcripts!Raised, LinesOf
<1>2. CASE src = "antigravity"
  BY <1>2 DEF Transcripts!Parse, Transcripts!ParseAntigravity, Transcripts!Raised, LinesOf
<1>3. CASE src = "claude"
  BY <1>3 DEF Transcripts!Parse, Transcripts!ParseClaude, Transcripts!Raised, LinesOf
<1>4. CASE src = "vscode"
  BY <1>4 DEF Transcripts!Parse, Transcripts!ParseVscode, Transcripts!Raised, LinesOf
<1> QED BY <1>1, <1>2, <1>3, <1>4 DEF Adapters

LEMMA WholeSubSeq ==
    ASSUME NEW S, NEW seq \in Seq(S)
    PROVE  SubSeq(seq, 1, Len(seq)) = seq
<1>1. Len(seq) \in Nat /\ seq \in [1..Len(seq) -> S]
  OBVIOUS
<1>2. SubSeq(seq, 1, Len(seq)) \in Seq(S)
  OBVIOUS
<1>3. Len(SubSeq(seq, 1, Len(seq))) = Len(seq)
  BY <1>1
<1>4. \A n \in 1..Len(seq) : SubSeq(seq, 1, Len(seq))[n] = seq[n]
  BY <1>1
<1> DEFINE sub == SubSeq(seq, 1, Len(seq))
<1> HIDE DEF sub
<1>5. sub \in Seq(S) /\ Len(sub) = Len(seq) /\ \A n \in 1..Len(seq) : sub[n] = seq[n]
  BY <1>2, <1>3, <1>4 DEF sub
<1>6. sub = seq
  BY <1>5
<1> QED BY <1>6 DEF sub

LEMMA SpokenStays ==
    ASSUME NEW src, NEW lines, NEW others, SameRead(lines, others), DOMAIN lines \subseteq Nat
    PROVE  LET at == Transcripts!Objects(lines)
               all == Transcripts!Objects(others)
               said == Transcripts!Spoken(src, lines, at)
           IN  /\ Transcripts!Numbers(at) \subseteq Transcripts!Numbers(all)
               /\ said \subseteq Transcripts!Spoken(src, others, all)
               /\ \A m \in said : m.ord \in Transcripts!Numbers(at)
               /\ \A m, k \in said : m.ord = k.ord => m = k
<1> DEFINE at == Transcripts!Objects(lines)
           all == Transcripts!Objects(others)
           said == Transcripts!Spoken(src, lines, at)
           Message(line, n) == [ord |-> n - 1, role |-> Transcripts!Role(src, line.kind),
                                says |-> Transcripts!Text(src, line.says)]
<1>1. \A n \in at : n \in all /\ others[n] = lines[n]
  BY DEF SameRead
<1>2. \A m : m \in said <=> \E n \in at : Transcripts!Speaks(src, lines[n]) /\ m = Message(lines[n], n)
  BY DEF Transcripts!Spoken
<1>3. \A m : m \in Transcripts!Spoken(src, others, all)
              <=> \E n \in all : Transcripts!Speaks(src, others[n]) /\ m = Message(others[n], n)
  BY DEF Transcripts!Spoken
<1>4. at \subseteq Nat
  BY DEF Transcripts!Objects
<1>5. ASSUME NEW m \in said, NEW k \in said, m.ord = k.ord PROVE m = k
  <2>1. PICK i \in at : m = Message(lines[i], i)
    BY <1>2
  <2>2. PICK j \in at : k = Message(lines[j], j)
    BY <1>2
  <2>3. i - 1 = j - 1
    BY <1>5, <2>1, <2>2
  <2>4. i = j
    BY <1>4, <2>3
  <2> QED BY <2>1, <2>2, <2>4
<1>6. ASSUME NEW m \in said PROVE m.ord \in Transcripts!Numbers(at)
  <2>1. PICK i \in at : m = Message(lines[i], i)
    BY <1>2
  <2>2. m.ord = i - 1
    BY <2>1
  <2> QED BY <2>2 DEF Transcripts!Numbers
<1> HIDE DEF said, at, all, Message
<1>7. said \subseteq Transcripts!Spoken(src, others, all)
  BY <1>1, <1>2, <1>3
<1>8. Transcripts!Numbers(at) \subseteq Transcripts!Numbers(all)
  BY <1>1 DEF Transcripts!Numbers
<1> QED BY <1>5, <1>6, <1>7, <1>8 DEF said, at, all

\* A session that has grown is imported again, next to another one.
LEMMA GrownImportStands ==
    ASSUME NEW src \in Adapters, NEW Line, Transcripts!Torn \in Line,
           NEW script \in Seq(Line), NEW grown \in Seq(Line), Grows(script, grown),
           NEW other \in Seq(Line)
    PROVE  Transcripts!ImportStands(src, script, grown, other)
<1> DEFINE first == Transcripts!ParseStorage(src, << script, other >>, 2)
           second == Transcripts!ParseStorage(src, << grown, other >>, 2)
           Of(f) == Transcripts!Parse(src, f)
<1>1. ASSUME NEW f \in Seq(Line)
      PROVE  LET now == Transcripts!ParseStorage(src, << f, other >>, 2)
             IN  now = << >> \/ (now = << Of(f), Of(other) >> /\ Of(f).ok /\ Of(other).ok)
  <2> DEFINE taken == SubSeq(<< f, other >>, 1, IF 2 < Len(<< f, other >>) THEN 2 ELSE Len(<< f, other >>))
             parsed == [n \in DOMAIN taken |-> Of(taken[n])]
  <2>1. taken = << f, other >>
    <3> DEFINE pair == << f, other >>
    <3>1. pair \in Seq({f, other}) /\ Len(pair) = 2
      OBVIOUS
    <3>2. ~(2 < Len(pair))
      BY <3>1
    <3> HIDE DEF pair
    <3>3. SubSeq(pair, 1, Len(pair)) = pair
      BY <3>1, WholeSubSeq
    <3>4. SubSeq(pair, 1, IF 2 < Len(pair) THEN 2 ELSE Len(pair)) = pair
      BY Zenon, <3>2, <3>3
    <3> QED BY <3>4 DEF pair
  <2>2. Transcripts!ParseStorage(src, << f, other >>, 2)
        = IF \E n \in DOMAIN parsed : ~parsed[n].ok THEN << >> ELSE parsed
    BY DEF Transcripts!ParseStorage
  <2> HIDE DEF Of, taken
  <2>3. parsed = << Of(f), Of(other) >>
    BY <2>1
  <2> HIDE DEF parsed
  <2>4. DOMAIN parsed = {1, 2} /\ parsed[1] = Of(f) /\ parsed[2] = Of(other)
    BY <2>3
  <2> QED BY <2>2, <2>3, <2>4
<1>2. ASSUME NEW f \in Seq(Line), NEW g \in Seq(Line), Grows(f, g), Of(f).ok, Of(g).ok
      PROVE  /\ Transcripts!Earlier(Of(f), Of(g))
             /\ \A m \in Of(f).messages : m.ord \in Of(f).events
             /\ \A m, k \in Of(f).messages : m.ord = k.ord => m = k
  <2> DEFINE lines == LinesOf(src, f)
             others == LinesOf(src, g)
  <2>1. SameRead(lines, others)
    BY <1>2, SplitAlike DEF LinesOf
  <2>2. DOMAIN lines \subseteq Nat
    <3>1. PICK l \in Seq(Line) : l = lines
      BY SplitLinesSeq DEF LinesOf
    <3> QED BY <3>1
  <2>3. /\ Of(f).events = Transcripts!Numbers(Transcripts!Objects(lines))
        /\ Of(f).messages = Transcripts!Spoken(src, lines, Transcripts!Objects(lines))
    BY <1>2, ParsedAs
  <2>4. /\ Of(g).events = Transcripts!Numbers(Transcripts!Objects(others))
        /\ Of(g).messages = Transcripts!Spoken(src, others, Transcripts!Objects(others))
    BY <1>2, ParsedAs
  <2> HIDE DEF lines, others, Of
  <2>5. LET at == Transcripts!Objects(lines)
            all == Transcripts!Objects(others)
            said == Transcripts!Spoken(src, lines, at)
        IN  /\ Transcripts!Numbers(at) \subseteq Transcripts!Numbers(all)
            /\ said \subseteq Transcripts!Spoken(src, others, all)
            /\ \A m \in said : m.ord \in Transcripts!Numbers(at)
            /\ \A m, k \in said : m.ord = k.ord => m = k
    BY <2>1, <2>2, SpokenStays
  <2> QED BY <2>3, <2>4, <2>5 DEF Transcripts!Earlier
<1>3. \A f \in Seq(Line) : Grows(f, f)
  <2> SUFFICES ASSUME NEW f \in Seq(Line) PROVE Grows(f, f)
    OBVIOUS
  <2>1. Len(f) \in Nat
    OBVIOUS
  <2> QED BY <2>1 DEF Grows
<1>4. first = << >> \/ (first = << Of(script), Of(other) >> /\ Of(script).ok /\ Of(other).ok)
  BY <1>1
<1>5. second = << >> \/ (second = << Of(grown), Of(other) >> /\ Of(grown).ok /\ Of(other).ok)
  BY <1>1
<1> HIDE DEF first, second, Of
<1>6. ASSUME NEW n \in DOMAIN first
      PROVE  /\ n \in DOMAIN second => Transcripts!Earlier(first[n], second[n])
             /\ \A m \in first[n].messages : m.ord \in first[n].events
             /\ \A m, k \in first[n].messages : m.ord = k.ord => m = k
  <2>1. first = << Of(script), Of(other) >> /\ Of(script).ok /\ Of(other).ok
    BY <1>4, <1>6
  <2>2. n \in {1, 2} /\ first[1] = Of(script) /\ first[2] = Of(other)
    BY <1>6, <2>1
  <2>3. n \in DOMAIN second => second[1] = Of(grown) /\ second[2] = Of(other) /\ Of(grown).ok
    BY <1>5
  <2>4. Of(grown).ok => Transcripts!Earlier(Of(script), Of(grown))
    BY <1>2, <2>1
  <2>5. /\ \A m \in Of(script).messages : m.ord \in Of(script).events
        /\ \A m, k \in Of(script).messages : m.ord = k.ord => m = k
    BY <1>2, <1>3, <2>1
  <2>6. /\ Transcripts!Earlier(Of(other), Of(other))
        /\ \A m \in Of(other).messages : m.ord \in Of(other).events
        /\ \A m, k \in Of(other).messages : m.ord = k.ord => m = k
    BY <1>2, <1>3, <2>1
  <2>7. CASE n = 1
    BY <2>2, <2>3, <2>4, <2>5, <2>7
  <2>8. CASE n = 2
    BY <2>2, <2>3, <2>6, <2>8
  <2> QED BY <2>2, <2>7, <2>8
<1> QED BY Zenon, <1>6 DEF Transcripts!ImportStands, first, second

\* What is added after the messages of a task leaves the first of them where they are.
LEMMA NormalizedStays ==
    ASSUME NEW Message, NEW raw \in Seq(Message), NEW added \in Seq(Message)
    PROVE  LET before == Transcripts!NormalizeMessages(raw)
               after == Transcripts!NormalizeMessages(raw \o added)
           IN  before.messages \subseteq after.messages /\ before.files \subseteq after.files
<1> DEFINE KeptOf(list) == [n \in DOMAIN list |-> IF list[n].type = "no_object" THEN << >> ELSE << list[n] >>]
           all == raw \o added
           Normal(items) ==
             [messages |-> { [ord |-> n, role |-> Transcripts!ManusRole(items[n].type), says |-> items[n].says]
                             : n \in DOMAIN items },
              files |-> UNION { Transcripts!Attachments(items[n], n) : n \in DOMAIN items }]
<1>1. /\ all \in Seq(Message) /\ Len(raw) \in Nat /\ Len(all) \in Nat /\ Len(raw) <= Len(all)
      /\ \A n \in 1..Len(raw) : all[n] = raw[n]
  OBVIOUS
<1>2. ASSUME NEW list \in Seq(Message)
      PROVE  /\ KeptOf(list) \in Seq(Seq(Message)) /\ Len(KeptOf(list)) = Len(list)
             /\ \A n \in 1..Len(list) :
                  KeptOf(list)[n] = IF list[n].type = "no_object" THEN << >> ELSE << list[n] >>
             /\ Transcripts!NormalizeMessages(list) = Normal(Transcripts!Collected(KeptOf(list)))
  <2>1. DOMAIN list = 1..Len(list) /\ Len(list) \in Nat /\ \A n \in DOMAIN list : list[n] \in Message
    OBVIOUS
  <2>2. \A n \in DOMAIN list : KeptOf(list)[n] \in Seq(Message)
    BY <2>1
  <2>3. /\ DOMAIN KeptOf(list) = 1..Len(list) /\ KeptOf(list) = [n \in 1..Len(list) |-> KeptOf(list)[n]]
        /\ \A n \in 1..Len(list) :
             KeptOf(list)[n] = IF list[n].type = "no_object" THEN << >> ELSE << list[n] >>
    BY <2>1
  <2>4. Transcripts!NormalizeMessages(list) = Normal(Transcripts!Collected(KeptOf(list)))
    BY Zenon DEF Transcripts!NormalizeMessages
  <2> HIDE DEF KeptOf, Normal
  <2>5. KeptOf(list) \in [1..Len(list) -> Seq(Message)]
    BY <2>1, <2>2, <2>3
  <2> QED BY <2>1, <2>3, <2>4, <2>5
<1> DEFINE pieces == KeptOf(raw)
           more == KeptOf(all)
           few == Transcripts!Collected(pieces)
           lot == Transcripts!Collected(more)
<1>3. /\ pieces \in Seq(Seq(Message)) /\ Len(pieces) = Len(raw)
      /\ more \in Seq(Seq(Message)) /\ Len(more) = Len(all)
      /\ Transcripts!NormalizeMessages(raw) = Normal(few)
      /\ Transcripts!NormalizeMessages(all) = Normal(lot)
  BY <1>1, <1>2
<1>4. \A n \in 1..Len(raw) : more[n] = pieces[n]
  <2>1. \A n \in 1..Len(raw) : n \in 1..Len(all)
    BY <1>1
  <2> HIDE DEF KeptOf
  <2> QED BY <1>1, <1>2, <2>1
<1> HIDE DEF KeptOf, Normal, pieces, more, all
<1>5. Starts(few, lot) /\ few \in Seq(Message) /\ lot \in Seq(Message)
  <2> DEFINE k == Len(raw)
  <2>1. /\ k \in Nat /\ k = Len(pieces) /\ k <= Len(more) /\ k <= Len(pieces)
        /\ \A n \in 1..k : more[n] = pieces[n]
    BY <1>1, <1>3, <1>4
  <2>2. pieces \in Seq(Seq(Message)) /\ more \in Seq(Seq(Message))
    BY <1>3
  <2> HIDE DEF k
  <2>3. \E start \in Seq(Message) :
             /\ Starts(start, Transcripts!Collected(pieces)) /\ Starts(start, Transcripts!Collected(more))
             /\ k = Len(pieces) => Transcripts!Collected(pieces) = start
             /\ k + 1 = Len(pieces) => Transcripts!Collected(pieces) = start \o pieces[k + 1]
             /\ Transcripts!Collected(pieces) \in Seq(Message) /\ Transcripts!Collected(more) \in Seq(Message)
    BY <2>1, <2>2, CollectedAlike
  <2> QED BY <2>1, <2>3
<1> HIDE DEF few, lot
<1>6. \A n \in DOMAIN few : n \in DOMAIN lot /\ lot[n] = few[n]
  <2>1. Len(few) \in Nat /\ Len(lot) \in Nat
    BY <1>5
  <2> QED BY <1>5, <2>1 DEF Starts
<1>7. Normal(few).messages \subseteq Normal(lot).messages
  BY <1>6 DEF Normal
<1>8. Normal(few).files \subseteq Normal(lot).files
  <2>1. /\ Normal(few).files = UNION { Transcripts!Attachments(few[n], n) : n \in DOMAIN few }
        /\ Normal(lot).files = UNION { Transcripts!Attachments(lot[n], n) : n \in DOMAIN lot }
    BY DEF Normal
  <2> QED BY <1>6, <2>1
<1> QED BY <1>3, <1>7, <1>8 DEF all

\* Pages of messages, of which a service says of all but the last that there are more.
PagesOf(Message) ==
    { pages \in Seq([codes : Seq(Int), messages : Seq(Message), more : BOOLEAN]) :
        \A n \in 1..(Len(pages) - 1) : pages[n].more }

LEMMA ListedSeq ==
    ASSUME NEW Message, NEW pages, NEW Page, pages \in Seq(Page), \A page \in Page : page.messages \in Seq(Message)
    PROVE  Transcripts!Listed(pages) \in Seq(Message)
<1> DEFINE pieces == [n \in DOMAIN pages |-> pages[n].messages]
<1>1. Transcripts!Listed(pages) = Transcripts!Collected(pieces)
  BY DEF Transcripts!Listed
<1>2. DOMAIN pages = 1..Len(pages) /\ Len(pages) \in Nat /\ \A n \in DOMAIN pages : pages[n] \in Page
  OBVIOUS
<1>3. pieces \in [1..Len(pages) -> Seq(Message)]
  BY <1>2
<1> HIDE DEF pieces
<1>4. pieces \in Seq(Seq(Message)) /\ Len(pieces) \in Nat
  BY <1>2, <1>3
<1>5. 0 <= Len(pieces) /\ \A n \in 1..0 : pieces[n] = pieces[n]
  BY <1>4
<1>6. \E start \in Seq(Message) :
             /\ Starts(start, Transcripts!Collected(pieces)) /\ Starts(start, Transcripts!Collected(pieces))
             /\ 0 = Len(pieces) => Transcripts!Collected(pieces) = start
             /\ 0 + 1 = Len(pieces) => Transcripts!Collected(pieces) = start \o pieces[0 + 1]
             /\ Transcripts!Collected(pieces) \in Seq(Message) /\ Transcripts!Collected(pieces) \in Seq(Message)
  BY <1>4, <1>5, CollectedAlike
<1> QED BY <1>1, <1>6

LEMMA TranscriptsCount == \A S : Transcripts!Cardinality(S) = Cardinality(S)
  BY DEF Transcripts!Cardinality, Cardinality

\* All pages are read, unless one of them is not answered.
LEMMA PagesAreRead ==
    ASSUME NEW Message, NEW pages \in PagesOf(Message)
    PROVE  LET fetched == Transcripts!FetchMessages(pages)
           IN  IF \E n \in DOMAIN pages : Transcripts!Request(pages[n].codes) # 200
               THEN ~fetched.ok
               ELSE fetched.ok /\ fetched.raw = Transcripts!Listed(pages)
<1> DEFINE upto == { n \in DOMAIN pages : \A k \in 1..(n - 1) : pages[k].more }
           read == SubSeq(pages, 1, Transcripts!Cardinality(upto))
           Page == [codes : Seq(Int), messages : Seq(Message), more : BOOLEAN]
<1>1. pages \in Seq(Page) /\ \A n \in 1..(Len(pages) - 1) : pages[n].more
  BY DEF PagesOf
<1>2. DOMAIN pages = 1..Len(pages) /\ Len(pages) \in Nat
  BY <1>1
<1>3. upto = 1..Len(pages)
  <2>1. ASSUME NEW n \in 1..Len(pages), NEW k \in 1..(n - 1) PROVE k \in 1..(Len(pages) - 1)
    BY <1>2
  <2> QED BY <1>1, <1>2, <2>1
<1>4. Transcripts!Cardinality(upto) = Len(pages)
  <2> HIDE DEF upto
  <2>1. ASSUME NEW size \in Nat PROVE Cardinality(1..size) = size
    <3>1. Cardinality(1..size) = (IF 1 > size THEN 0 ELSE size - 1 + 1)
      BY 1 \in Int, size \in Int, FS_Interval
    <3> QED BY <3>1
  <2> QED BY <1>2, <1>3, <2>1, TranscriptsCount
<1>5. read = pages
  BY <1>1, <1>4, WholeSubSeq
<1>6. Transcripts!FetchMessages(pages)
      = IF \E n \in DOMAIN read : Transcripts!Request(read[n].codes) # 200
        THEN [ok |-> FALSE, raw |-> << >>]
        ELSE [ok |-> TRUE, raw |-> Transcripts!Listed(read)]
  BY Zenon DEF Transcripts!FetchMessages
<1> HIDE DEF read
<1> QED BY <1>5, <1>6

LEMMA AnsweredAtOnce == Transcripts!Request(<< 200 >>) = 200 /\ Transcripts!Request(<< 404 >>) = 404
<1> SUFFICES ASSUME NEW code \in Nat, code # 429 PROVE Transcripts!Request(<< code >>) = code
  OBVIOUS
<1> DEFINE codes == << code >>
           tried == SubSeq(codes, 1, IF Len(codes) < Transcripts!MaxRetries THEN Len(codes) ELSE Transcripts!MaxRetries)
           last == { n \in DOMAIN tried : tried[n] # 429 }
<1>1. codes \in Seq(Nat) /\ Len(codes) = 1 /\ codes[1] = code
  OBVIOUS
<1>2. tried = codes
  <2>1. Len(codes) < Transcripts!MaxRetries
    BY <1>1 DEF Transcripts!MaxRetries
  <2> HIDE DEF codes
  <2>2. SubSeq(codes, 1, Len(codes)) = codes
    BY <1>1, WholeSubSeq
  <2> QED BY Zenon, <2>1, <2>2
<1>3. Transcripts!Request(codes)
      = IF last = {} THEN 429 ELSE tried[CHOOSE n \in last : \A k \in last : n <= k]
  BY Zenon DEF Transcripts!Request
<1> HIDE DEF codes, tried
<1>4. last = {1}
  BY <1>1, <1>2
<1> HIDE DEF last
<1>5. (CHOOSE n \in last : \A k \in last : n <= k) = 1
  BY <1>4
<1> QED BY <1>1, <1>2, <1>3, <1>4, <1>5 DEF codes

\* A task of a service.
TaskOf(Message) == [detail : Seq(Int), pages : PagesOf(Message), files : Seq(Int)]

LEMMA AnyTaskIsWhole ==
    ASSUME NEW Message, NEW task \in TaskOf(Message), NEW later \in PagesOf(Message)
    PROVE  Transcripts!TaskIsWhole(task, later)
<1> DEFINE all == Transcripts!Listed(task.pages)
           added == Transcripts!Listed(later)
           Answered(codes) == Transcripts!Request(codes) = 200
           sound == [detail |-> << 200 >>, pages |-> << >>, files |-> << 404 >>]
           tasks == << task, sound >>
           outcome == Transcripts!ImportTasks(tasks)
           fetched == Transcripts!FetchMessages(task.pages)
           Page == [codes : Seq(Int), messages : Seq(Message), more : BOOLEAN]
<1>1. task.pages \in PagesOf(Message) /\ task = [detail |-> task.detail, pages |-> task.pages, files |-> task.files]
  BY DEF TaskOf
<1>2. all \in Seq(Message) /\ added \in Seq(Message)
  <2>1. task.pages \in Seq(Page) /\ later \in Seq(Page) /\ \A page \in Page : page.messages \in Seq(Message)
    BY <1>1 DEF PagesOf
  <2> HIDE DEF Page
  <2> QED BY <2>1, ListedSeq
<1>3. IF \E n \in DOMAIN task.pages : Transcripts!Request(task.pages[n].codes) # 200
      THEN ~fetched.ok
      ELSE fetched.ok /\ fetched.raw = all
  BY <1>1, PagesAreRead
<1>4. sound.detail = << 200 >> /\ sound.pages = << >> /\ sound.files = << 404 >>
  OBVIOUS
<1> HIDE DEF sound
<1>5. Transcripts!FetchTask(sound)
  <2>1. << >> \in PagesOf(Message)
    BY DEF PagesOf
  <2>2. Transcripts!FetchMessages(<< >>).ok
    BY <2>1, PagesAreRead
  <2> QED BY <1>4, <2>2, AnsweredAtOnce DEF Transcripts!FetchTask
<1>6. DOMAIN tasks = {1, 2} /\ tasks[1] = task /\ tasks[2] = sound
  OBVIOUS
<1> HIDE DEF tasks
<1>7. /\ 1 \in outcome.imported <=> Transcripts!FetchTask(task)
      /\ 1 \in outcome.imported \cup outcome.errors
      /\ 2 \in outcome.imported
  BY <1>5, <1>6 DEF Transcripts!ImportTasks
<1>8. Transcripts!FetchTask(task)
      <=> Answered(task.detail) /\ fetched.ok /\ Transcripts!Request(task.files) \in {200, 404}
  BY DEF Transcripts!FetchTask
<1>9. /\ Transcripts!NormalizeMessages(all).messages \subseteq Transcripts!NormalizeMessages(all \o added).messages
      /\ Transcripts!NormalizeMessages(all).files \subseteq Transcripts!NormalizeMessages(all \o added).files
  <2> HIDE DEF all, added
  <2> QED BY <1>2, NormalizedStays
<1> HIDE DEF all, added, fetched, outcome
<1>10. Transcripts!FetchTask(task) => fetched.raw = all
  BY <1>3, <1>8
<1>11. (\A n \in DOMAIN task.pages : Answered(task.pages[n].codes)) /\ Answered(task.detail) /\ Answered(task.files)
       => Transcripts!FetchTask(task)
  BY <1>3, <1>8
<1>12. 1 \in outcome.imported => Transcripts!NormalizeMessages(fetched.raw) = Transcripts!NormalizeMessages(all)
  BY <1>7, <1>10
<1>13. (\A n \in DOMAIN task.pages : Answered(task.pages[n].codes)) /\ Answered(task.detail) /\ Answered(task.files)
       => 1 \in outcome.imported
  BY <1>7, <1>11
<1> QED BY Zenon, <1>7, <1>9, <1>12, <1>13
    DEF Transcripts!TaskIsWhole, all, added, fetched, outcome, tasks, sound

\* A transcript that grows, line by line or by the rest of its last line, and a
\* task whose service says which pages are followed by others.
IsTranscriptInput ==
    /\ input.about = "transcripts" => \E Line :
         /\ Transcripts!Torn \in Line /\ input.source \in Adapters
         /\ input.file \in Seq(Line) /\ input.grown \in Seq(Line) /\ input.other \in Seq(Line)
         /\ Grows(input.file, input.grown)
    /\ input.about = "tasks" => \E Message :
         input.task \in TaskOf(Message) /\ input.later \in PagesOf(Message)

\* However a transcript grows, what was imported of it is neither lost nor moved
\* by the next import; and however a service stutters, a task that is imported
\* has every message once, and keeps its messages and attachments when it goes on
\* (the parsers of src/geond/adapters).
THEOREM TranscriptsGrow ==
    ASSUME IsTranscriptInput
    PROVE  TranscriptsStand
<1>1. ASSUME input.about = "transcripts"
      PROVE  Transcripts!ImportStands(input.source, input.file, input.grown, input.other)
  BY <1>1, GrownImportStands DEF IsTranscriptInput
<1>2. ASSUME input.about = "tasks" PROVE Transcripts!TaskIsWhole(input.task, input.later)
  BY <1>2, AnyTaskIsWhole DEF IsTranscriptInput
<1> QED BY <1>1, <1>2 DEF TranscriptsStand
=============================================================================
