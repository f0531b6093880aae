---------------------------- MODULE Transcripts ----------------------------
(***************************************************************************)
(* Reading the sessions of the agents: the adapters of                      *)
(* src/geond/adapters, and the fetching of Manus tasks over its API.        *)
(*                                                                         *)
(* A transcript is a sequence of lines                                      *)
(*   [form |-> "blank" | "torn" | "cut" | "array" | "object" | "wide",      *)
(*    kind, says]                                                           *)
(* torn: no JSON (yet); cut: torn within a character, no UTF-8 either;      *)
(* array: JSON, not an object; wide: an object with a character in a string *)
(* that str.splitlines takes for an end of line; says: the text found in    *)
(* it, "" for none.  Parsing returns                                        *)
(*   [ok, events: line numbers, messages: [ord, role, says]];               *)
(* ~ok: an exception leaves parse_storage, and nothing is imported.         *)
(***************************************************************************)
EXTENDS Integers, Sequences, FiniteSets

Blank == ""

Raised == [ok |-> FALSE, events |-> {}, messages |-> {}]

\* What a loop collects that adds these pieces to a list, one after another.
Collected(pieces) ==
    LET upto[n \in 0..Len(pieces)] == IF n = 0 THEN << >> ELSE upto[n - 1] \o pieces[n]
    IN  upto[Len(pieces)]

Torn == [form |-> "torn", kind |-> Blank, says |-> Blank]

\* splitlines cuts a wide line in two, none of which is JSON.
SplitLines(file) ==
    Collected([n \in DOMAIN file |->
                 IF file[n].form = "wide" THEN << Torn, Torn >> ELSE << file[n] >>])

\* Where the file is split at newlines only, a wide line is an object.
Objects(lines) == { n \in DOMAIN lines : lines[n].form \in {"object", "wide"} }

CodexRole(kind) ==
    CASE kind = "response_item.user" -> "user"
      [] kind = "response_item.assistant" -> "assistant"
      [] kind = "response_item.developer" -> "developer"
      [] kind = "event_msg.user_message" -> "user"
      [] kind = "event_msg.agent_message" -> "assistant"
      [] OTHER -> "none"

ClaudeRole(kind) ==
    CASE kind = "user" -> "user" [] kind = "assistant" -> "assistant" [] OTHER -> "none"

\* role_from_source looks for the words in the source and the type together.
AntigravityRole(kind) ==
    CASE kind \in {"user", "human", "agent.user_request"} -> "user"
      [] kind \in {"model", "assistant", "agent"} -> "assistant"
      [] OTHER -> "none"

\* A prompt wrapped in nothing but noise sections has no message in it.
Unwrapped(says) == IF says = "<ADDITIONAL_METADATA>" THEN Blank ELSE says

\* Every line of VS Code is a message, with or without text: kind 2 is the
\* assistant's, kind 1 is text where it is a long one.
VscodeRole(kind) ==
    CASE kind = "2" -> "assistant_or_tool"
      [] kind = "1.long" -> "metadata_or_text"
      [] OTHER -> "metadata"

Role(source, kind) ==
    CASE source = "codex" -> CodexRole(kind)
      [] source = "claude" -> ClaudeRole(kind)
      [] source = "antigravity" -> AntigravityRole(kind)
      [] source = "vscode" -> VscodeRole(kind)

Text(source, says) == IF source = "antigravity" THEN Unwrapped(says) ELSE says

Speaks(source, line) ==
    source = "vscode" \/ (Role(source, line.kind) # "none" /\ Text(source, line.says) # Blank)

\* at: the lines that were read.
Spoken(source, lines, at) ==
    { [ord |-> n - 1, role |-> Role(source, lines[n].kind), says |-> Text(source, lines[n].says)]
      : n \in { n \in at : Speaks(source, lines[n]) } }

\* Fault: events are numbered among themselves.
NumbersInTurn(at) == 0 .. (Cardinality(at) - 1)

\* Every line has a number, blank or not, read or not.
Numbers(at) == { n - 1 : n \in at }

\* The file is decoded as a whole, or not at all.
Decodes(file) == \A n \in DOMAIN file : file[n].form # "cut"

ParseCodex(file) ==
    LET lines == SplitLines(file)
    IN  IF ~Decodes(file) THEN Raised
        ELSE [ok |-> TRUE, events |-> Numbers(Objects(lines)),
              messages |-> Spoken("codex", lines, Objects(lines))]

ParseAntigravity(file) ==
    LET lines == SplitLines(file)
    IN  IF ~Decodes(file) THEN Raised
        ELSE [ok |-> TRUE, events |-> Numbers(Objects(lines)),
              messages |-> Spoken("antigravity", lines, Objects(lines))]

\* Claude's lines are decoded one by one, and one that is cut is passed over
\* like one that is torn; an array has no get.
ParseClaude(file) ==
    IF \E n \in DOMAIN file : file[n].form = "array" THEN Raised
    ELSE [ok |-> TRUE, events |-> Numbers(Objects(file)),
          messages |-> Spoken("claude", file, Objects(file))]

ParseVscode(file) ==
    IF ~Decodes(file) \/ \E n \in DOMAIN file : file[n].form \in {"torn", "array"} THEN Raised
    ELSE [ok |-> TRUE, events |-> Numbers(Objects(file)),
          messages |-> Spoken("vscode", file, Objects(file))]

Parse(source, file) ==
    CASE source = "codex" -> ParseCodex(file)
      [] source = "claude" -> ParseClaude(file)
      [] source = "antigravity" -> ParseAntigravity(file)
      [] source = "vscode" -> ParseVscode(file)

\* parse_storage: the sessions of a directory, the newest first, up to a
\* limit.  One file that raises ends the call.
ParseStorage(source, files, limit) ==
    LET taken == SubSeq(files, 1, IF limit < Len(files) THEN limit ELSE Len(files))
        parsed == [n \in DOMAIN taken |-> Parse(source, taken[n])]
    IN  IF \E n \in DOMAIN parsed : ~parsed[n].ok THEN << >> ELSE parsed

-----------------------------------------------------------------------------
(* Manus.  The messages of a task are [id, type, says, files], files the    *)
(* ids of its attachments, "" for one without; id is "" for a message       *)
(* without.                                                                 *)

ManusRole(type) ==
    CASE type \in {"user_message", "role.user"} -> "user"
      [] type \in {"assistant_message", "role.assistant"} -> "assistant"
      [] OTHER -> "assistant_or_tool"

Attachments(message, ord) ==
    { IF message.files[k] # Blank THEN << message.files[k] >>
      ELSE << (IF message.id # Blank THEN << message.id >> ELSE << "at", ord >>), k >>
      : k \in DOMAIN message.files }

NormalizeMessages(raw) ==
    LET items == Collected([n \in DOMAIN raw |-> IF raw[n].type = "no_object" THEN << >> ELSE << raw[n] >>])
    IN  [messages |-> { [ord |-> n, role |-> ManusRole(items[n].type), says |-> items[n].says]
                        : n \in DOMAIN items },
         files |-> UNION { Attachments(items[n], n) : n \in DOMAIN items }]

MaxRetries == 3

\* One request: the answers of the server are tried one after another, for as
\* long as they are 429; every other error is raised at once.
Request(codes) ==
    LET tried == SubSeq(codes, 1, IF Len(codes) < MaxRetries THEN Len(codes) ELSE MaxRetries)
        last == { n \in DOMAIN tried : tried[n] # 429 }
    IN  IF last = {} THEN 429
        ELSE tried[CHOOSE n \in last : \A k \in last : n <= k]

\* What pages of messages hold.
Listed(pages) == Collected([n \in DOMAIN pages |-> pages[n].messages])

\* get_task_messages: pages [codes, messages, more] until one has no more
\* after it (has_more, and a next_cursor with it).
FetchMessages(pages) ==
    LET upto == { n \in DOMAIN pages : \A k \in 1..(n - 1) : pages[k].more }
        read == SubSeq(pages, 1, Cardinality(upto))
    IN  IF \E n \in DOMAIN read : Request(read[n].codes) # 200
        THEN [ok |-> FALSE, raw |-> << >>]
        ELSE [ok |-> TRUE, raw |-> Listed(read)]

\* fetch_task: the task [detail, pages, files], its messages, and its files
\* where the service has any.
FetchTask(task) ==
    /\ Request(task.detail) = 200
    /\ FetchMessages(task.pages).ok
    /\ Request(task.files) \in {200, 404}

\* import-manus-tasks: a task that cannot be fetched is reported, and the
\* others are imported.
ImportTasks(tasks) ==
    [imported |-> { t \in DOMAIN tasks : FetchTask(tasks[t]) },
     errors |-> { t \in DOMAIN tasks : ~FetchTask(tasks[t]) }]

-----------------------------------------------------------------------------
(* Two imports of one session, the second after its file has grown.        *)

Earlier(first, second) ==
    first.messages \subseteq second.messages /\ first.events \subseteq second.events

\* What was imported from a directory stands when a session in it has grown:
\* a message keeps its number, under which a re-import updates it, and its
\* number is that of the event it is evidence of.
ImportStands(source, file, grown, other) ==
    LET first == ParseStorage(source, << file, other >>, 2)
        second == ParseStorage(source, << grown, other >>, 2)
    IN  \A n \in DOMAIN first :
          /\ n \in DOMAIN second => Earlier(first[n], second[n])
          /\ \A m \in first[n].messages : m.ord \in first[n].events
          /\ \A m, k \in first[n].messages : m.ord = k.ord => m = k

\* A task that is reported as imported has every message the service had,
\* however the service stuttered; one that is not is reported and keeps none
\* of the others from being imported; and what a task that goes on adds leaves
\* its earlier messages and attachments alone.
TaskIsWhole(task, later) ==
    LET all == Listed(task.pages)
        Answered(codes) == Request(codes) = 200
        sound == [detail |-> << 200 >>, pages |-> << >>, files |-> << 404 >>]
        outcome == ImportTasks(<< task, sound >>)
        before == NormalizeMessages(all)
        after == NormalizeMessages(all \o Listed(later))
    IN  /\ 1 \in outcome.imported
             => NormalizeMessages(FetchMessages(task.pages).raw) = before
        /\ (\A n \in DOMAIN task.pages : Answered(task.pages[n].codes))
             /\ Answered(task.detail) /\ Answered(task.files) => 1 \in outcome.imported
        /\ 1 \in outcome.imported \cup outcome.errors
        /\ 2 \in outcome.imported
        /\ before.messages \subseteq after.messages
        /\ before.files \subseteq after.files
=============================================================================
