----------------------------- MODULE Redaction -----------------------------
(***************************************************************************)
(* What is taken out of events and messages before they are stored          *)
(* (src/geond/redaction.py).                                                *)
(*                                                                         *)
(* A text is a sequence of pieces [assigns, body, secret], parted by white  *)
(* space: assigns, that it begins with NAME_TOKEN= or the like (its body is  *)
(* what follows the =, behind spaces too; a name with nothing behind it is   *)
(* a word); body, what form it has for the patterns: "bearer" the word        *)
(* Bearer, "long" sixteen characters or more that may follow it, "github",    *)
(* "openai", "url" ://user:...@, "odd" with characters a database does not    *)
(* take, or "word"; "long_" and "openai_" go on behind an underscore, which   *)
(* a token after Bearer may not; secret, the secret it holds, or None. Of a   *)
(* name what stands before an underscore has less than sixteen characters.   *)
(* A value [is, of] is a text, a number, null, a list of values or an        *)
(* object, a sequence of entries [key, sensitive, item]: sensitive says it    *)
(* of the key as it is stored. Entries whose keys become the same stay       *)
(* apart; the program keeps the last of them.                                *)
(***************************************************************************)
EXTENDS Integers, Sequences, FiniteSets

CONSTANT Nesting \* how deep values nest; without a limit in the code

None == 0

Bodies == {"word", "odd", "bearer", "long", "long_", "github", "openai", "openai_", "url"}

Piece == [assigns : BOOLEAN, body : Bodies, secret : Nat]

Leaves == [is : {"text"}, of : Seq(Piece)] \cup [is : {"null", "number"}, of : {<< >>}]

\* Lists and objects of some values.
Over(values) ==
    [is : {"list"}, of : Seq(values)]
    \cup [is : {"object"}, of : Seq([key : Seq(Piece), sensitive : BOOLEAN, item : values])]

Values[depth \in 0..Nesting] ==
    Leaves \cup Over(IF depth = 0 THEN {} ELSE Values[depth - 1])

-----------------------------------------------------------------------------
\* Odd characters go first; then the patterns, one after another.
Rules == << "odd", "env", "bearer", "github", "openai", "url" >>

\* The pieces that a rule finds: what follows Bearer if it has the characters.
Met(rule, text) ==
    { n \in DOMAIN text :
        CASE rule = "env" -> text[n].assigns
          [] rule = "bearer" -> /\ n > 1 /\ text[n - 1].body = "bearer" /\ ~text[n].assigns
                                /\ text[n].body \in {"long", "long_", "openai", "openai_"}
          [] rule = "openai" -> text[n].body \in {"openai", "openai_"}
          [] rule \in {"odd", "github", "url"} -> text[n].body = rule }

\* What becomes of one: the name of an assignment stays, and the form of a
\* URL, and what is behind an underscore after Bearer.
Hidden(rule, piece) ==
    [assigns |-> piece.assigns,
     body |-> IF rule = "url" THEN "url" ELSE "word",
     secret |-> IF rule = "odd" \/ (rule = "bearer" /\ piece.body \in {"long_", "openai_"})
                THEN piece.secret ELSE None]

ApplyPattern(rule, text) ==
    [ text |-> [n \in DOMAIN text |-> IF n \in Met(rule, text) THEN Hidden(rule, text[n]) ELSE text[n]],
      count |-> Cardinality(Met(rule, text)) ]

\* A finding << rule, path >>, on the way from the value to the text.
Found(rule, step) == IF step.count > 0 THEN {<< rule, << >> >>} ELSE {}

At(n, findings) == { << f[1], << n >> \o f[2] >> : f \in findings }

\* All rules one after another; a finding for each that found something.
RedactText(text) ==
    LET done[k \in 0..Len(Rules)] ==
          IF k = 0 THEN [value |-> text, findings |-> {}]
          ELSE LET step == ApplyPattern(Rules[k], done[k - 1].value)
               IN  [value |-> step.text,
                    findings |-> done[k - 1].findings \cup Found(Rules[k], step)]
    IN  done[Len(Rules)]

\* Fault: only texts are hidden.
IsEmptyOrNested(value) == value.is # "text" \/ value.of = << >>

IsEmpty(value) == value.is = "null" \/ (value.is # "number" /\ value.of = << >>)

Marker == [is |-> "text", of |-> << [assigns |-> FALSE, body |-> "word", secret |-> None] >>]

\* A sensitive key hides its value, unless there is nothing in it; the keys
\* are redacted too.
RedactEntry(entry, redacted) ==
    LET key == RedactText(entry.key)
        item == IF entry.sensitive /\ ~IsEmpty(entry.item)
                THEN [value |-> Marker, findings |-> {<< "sensitive_key", << >> >>}]
                ELSE redacted[entry.item]
    IN  [value |-> [entry EXCEPT !.key = key.value, !.item = item.value],
         findings |-> key.findings \cup item.findings]

\* A value, of whose parts it is known what they are redacted to.
RedactWhole(value, redacted) ==
    LET Of(parts) == [value |-> [value EXCEPT !.of = [n \in DOMAIN parts |-> parts[n].value]],
                      findings |-> UNION { At(n, parts[n].findings) : n \in DOMAIN parts }]
    IN  CASE value.is = "text" ->
               [value |-> [value EXCEPT !.of = RedactText(value.of).value],
                findings |-> RedactText(value.of).findings]
          [] value.is = "list" -> Of([n \in DOMAIN value.of |-> redacted[value.of[n]]])
          [] value.is = "object" -> Of([n \in DOMAIN value.of |-> RedactEntry(value.of[n], redacted)])
          [] OTHER -> [value |-> value, findings |-> {}]

RedactValue[depth \in 0..Nesting] ==
    [value \in Values[depth] |-> RedactWhole(value, IF depth = 0 THEN << >> ELSE RedactValue[depth - 1])]

-----------------------------------------------------------------------------
\* A secret is in a form that the rules know: it is assigned, it follows
\* Bearer, or is known by itself.
Follows(text, n) == n > 1 /\ text[n - 1].body = "bearer" /\ ~text[n - 1].assigns

Known(text, n) ==
    \/ text[n].assigns
    \/ text[n].body \in {"github", "openai", "url"}
    \/ text[n].body = "long" /\ Follows(text, n)
    \/ text[n].body = "openai_" /\ ~Follows(text, n)

\* Where secrets are, and whether it is in the open.
Plain(text) ==
    { [secret |-> text[n].secret, open |-> ~Known(text, n)]
      : n \in { n \in DOMAIN text : text[n].secret # None } }

\* Under a sensitive key nothing is.
SpotsOf(value, spots) ==
    CASE value.is = "text" -> Plain(value.of)
      [] value.is = "list" -> UNION { spots[value.of[n]] : n \in DOMAIN value.of }
      [] value.is = "object" -> UNION {
             Plain(value.of[n].key) \cup
             { [secret |-> t.secret, open |-> t.open /\ ~value.of[n].sensitive]
               : t \in spots[value.of[n].item] }
             : n \in DOMAIN value.of }
      [] OTHER -> {}

Spots[depth \in 0..Nesting] ==
    [value \in Values[depth] |-> SpotsOf(value, IF depth = 0 THEN << >> ELSE Spots[depth - 1])]

\* What is stored of a value has no secrets but those that were somewhere in
\* it in the open, at any depth; redacting it again, as every re-import and
\* every copy into the metadata of another row does, changes nothing any
\* more; and without a finding nothing was changed. In the open is, too, a
\* token after a Bearer that is itself the value of an assignment (the first
\* rule takes the Bearer for the secret, and the second no longer finds it),
\* and what a token after Bearer has behind an underscore.
RedactsForGood(value) ==
    \A once \in {RedactValue[Nesting][value]} : \A twice \in {RedactValue[Nesting][once.value]} :
        /\ \A t \in Spots[Nesting][once.value] :
              \E u \in Spots[Nesting][value] : u.open /\ u.secret = t.secret
        /\ twice.value = once.value
        /\ once.findings = {} => once.value = value
=============================================================================
