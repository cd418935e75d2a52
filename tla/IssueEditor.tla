----------------------------- MODULE IssueEditor -----------------------------
(***************************************************************************)
(* The markdown editor of the issue forms (static/js/issue-markdown-       *)
(* editor.js, issue-description-template.js).  It asks the server for      *)
(* previews and suggestions and puts each answer where the last one was,   *)
(* in the order the answers come.                                          *)
(*                                                                         *)
(* The text is a sequence of pieces.  A "trigger" is the start of a        *)
(* reference, {{user: for one; it reaches up to the cursor unless a        *)
(* "token", a whole reference, comes between.                              *)
(***************************************************************************)
EXTENDS Naturals, Sequences, FiniteSets, SequencesExt

CONSTANTS
  Empty,
  Unavailable,  \* what the preview says when its request has failed
  MaxEdits,     \* bound: edits of the text
  MaxAsked,     \* bound: requests for a preview
  MaxLookups,   \* bound: requests for suggestions not yet answered
  MaxFailed     \* bound: requests that fail

ASSUME EditorAssumption ==
  /\ {MaxEdits, MaxAsked, MaxLookups, MaxFailed} \subseteq Nat
  /\ MaxAsked # 0   \* initializeEditor asks for one

VARIABLES
  text,       \* the pieces of the text
  cursor,     \* how many of them are before the cursor
  edits,      \* edits so far
  timer,      \* whether the debounced preview is due
  preview,    \* [number, of]: the text it shows, and the number of its request
  asked,      \* preview requests sent
  previews,   \* those not yet answered
  assist,     \* the suggestions: [hidden, range, of]
  lookups,    \* requests for suggestions not yet answered
  uploading,  \* uploads not yet answered
  chosen,     \* suggestions taken
  failed      \* requests that failed

editorVars == <<text, cursor, edits, timer, preview, asked, previews, assist, lookups,
                uploading, chosen, failed>>

Piece == [id : 1..MaxEdits, kind : {"plain", "trigger", "token"}]
Span == [from : Nat, to : Nat]   \* pieces from + 1 .. to

EditorTypeOK ==
  /\ text \in Seq(Piece) /\ cursor \in 0..Len(text) /\ edits \in 0..MaxEdits
  /\ timer \in BOOLEAN
  /\ preview \in [number : 0..MaxAsked, of : {Unavailable} \cup Seq(Piece)]
  /\ asked \in 0..MaxAsked
  /\ previews \subseteq [number : 1..MaxAsked, of : Seq(Piece)]
  /\ assist \in [hidden : BOOLEAN, range : {Empty} \cup Span, of : {Empty} \cup Seq(Piece)]
  /\ lookups \subseteq [range : {Empty} \cup Span, of : Seq(Piece)]
  /\ uploading \in 0..MaxEdits /\ chosen \in 0..MaxEdits /\ failed \in 0..MaxFailed

EditorInit ==
  /\ text = <<>> /\ cursor = 0 /\ edits = 0 /\ timer = FALSE
  /\ asked = 1 /\ previews = {[number |-> 1, of |-> <<>>]}    \* initializeEditor
  /\ preview = [number |-> 0, of |-> <<>>]
  /\ assist = [hidden |-> TRUE, range |-> Empty, of |-> Empty]
  /\ lookups = {} /\ uploading = 0 /\ chosen = 0 /\ failed = 0

Splice(s, from, to, piece) == SubSeq(s, 1, from) \o <<piece>> \o SubSeq(s, to + 1, Len(s))
NewPiece(kind) == [id |-> edits + 1, kind |-> kind]

\* updatePreview
AskPreview(of) ==
  /\ asked < MaxAsked /\ asked' = asked + 1
  /\ previews' = previews \cup {[number |-> asked', of |-> of]}

LoadSuggestions(range, of) ==
  /\ Cardinality(lookups) < MaxLookups
  /\ lookups' = lookups \cup {[range |-> range, of |-> of]}

\* handleTokenTrigger: the first trigger with no token between it and the cursor.
TriggerStarts(s, c) ==
  {i \in 1..c : s[i].kind = "trigger" /\ \A j \in i..c : s[j].kind # "token"}
HandleTokenTrigger(s, c) ==
  LET starts == TriggerStarts(s, c)
      first == CHOOSE i \in starts : \A j \in starts : i <= j
  IN IF starts = {} THEN UNCHANGED lookups
     ELSE LoadSuggestions([from |-> first - 1, to |-> c], s)

\* The text changes through the keyboard or a template, with an input event.
Input(s, c) ==
  /\ edits + uploading < MaxEdits /\ edits' = edits + 1
  /\ text' = s /\ cursor' = c /\ timer' = TRUE
  /\ HandleTokenTrigger(s, c)
  /\ UNCHANGED <<preview, asked, previews, assist, uploading, chosen, failed>>

TypePiece == \E at \in 0..Len(text), kind \in {"plain", "trigger"} :
  Input(Splice(text, at, at, NewPiece(kind)), at + 1)

ErasePiece == \E at \in DOMAIN text : Input(RemoveAt(text, at), at - 1)

\* applyTemplate
ApplyTemplate == Input(<<NewPiece("plain")>>, 1)

MoveCursor ==
  /\ \E c \in 0..Len(text) : cursor' = c
  /\ UNCHANGED <<text, edits, timer, preview, asked, previews, assist, lookups, uploading, chosen, failed>>

PreviewDue ==
  /\ timer /\ timer' = FALSE
  /\ AskPreview(text)
  /\ UNCHANGED <<text, cursor, edits, preview, assist, lookups, uploading, chosen, failed>>

Fails(yes) == IF yes THEN failed < MaxFailed /\ failed' = failed + 1 ELSE UNCHANGED failed

ShowPreview(p) ==
  /\ previews' = previews \ {p}
  /\ \E fails \in BOOLEAN :
       /\ Fails(fails)
       /\ preview' = [number |-> p.number, of |-> IF fails THEN Unavailable ELSE p.of]
  /\ UNCHANGED <<text, cursor, edits, timer, asked, assist, lookups, uploading, chosen>>

StartUpload ==
  /\ edits + uploading < MaxEdits
  /\ uploading' = uploading + 1
  /\ UNCHANGED <<text, cursor, edits, timer, preview, asked, previews, assist, lookups, chosen, failed>>

\* Mutant: leaves the preview to an input event.
FinishUploadSilently ==
  /\ uploading > 0 /\ uploading' = uploading - 1
  /\ edits' = edits + 1
  /\ text' = Splice(text, cursor, cursor, NewPiece("token")) /\ cursor' = cursor + 1
  /\ UNCHANGED <<timer, preview, asked, previews, assist, lookups, chosen, failed>>

\* The reference goes to where the cursor is by now.  No input event: the
\* preview is asked for at once.
FinishUpload ==
  /\ uploading > 0 /\ uploading' = uploading - 1
  /\ edits' = edits + 1
  /\ text' = Splice(text, cursor, cursor, NewPiece("token")) /\ cursor' = cursor + 1
  /\ AskPreview(text')
  /\ UNCHANGED <<timer, preview, assist, lookups, chosen, failed>>

FailUpload ==
  /\ uploading > 0 /\ uploading' = uploading - 1
  /\ Fails(TRUE)
  /\ UNCHANGED <<text, cursor, edits, timer, preview, asked, previews, assist, lookups, chosen>>

\* A button above the text: what the last answer listed is shown until this one comes.
OpenHelper ==
  /\ assist' = [assist EXCEPT !.hidden = FALSE]
  /\ LoadSuggestions(Empty, text)
  /\ UNCHANGED <<text, cursor, edits, timer, preview, asked, previews, uploading, chosen, failed>>

\* renderSuggestions; nothing is listed if the request has failed.
ShowSuggestions(l) ==
  /\ lookups' = lookups \ {l}
  /\ \E fails \in BOOLEAN :
       /\ Fails(fails)
       /\ assist' = [hidden |-> FALSE, range |-> l.range, of |-> IF fails THEN Empty ELSE l.of]
  /\ UNCHANGED <<text, cursor, edits, timer, preview, asked, previews, uploading, chosen>>

HideAssist ==
  /\ ~assist.hidden /\ assist' = [assist EXCEPT !.hidden = TRUE]
  /\ UNCHANGED <<text, cursor, edits, timer, preview, asked, previews, lookups, uploading, chosen, failed>>

\* Mutant: the end of the range is one too far.
ChooseSuggestionBeyond ==
  /\ ~assist.hidden /\ assist.of # Empty
  /\ edits + uploading < MaxEdits /\ edits' = edits + 1
  /\ LET from == IF assist.range = Empty THEN cursor ELSE assist.range.from
         to == IF assist.range = Empty THEN cursor ELSE assist.range.to
     IN /\ text' = Splice(text, IF from < Len(text) THEN from ELSE Len(text), to + 1, NewPiece("token"))
        /\ cursor' = IF from < Len(text) THEN from + 1 ELSE Len(text')
  /\ chosen' = chosen + 1
  /\ assist' = [assist EXCEPT !.hidden = TRUE]
  /\ AskPreview(text')
  /\ UNCHANGED <<timer, preview, lookups, uploading, failed>>

\* The range is that of the text when the suggestions were asked for; slice
\* takes what is left of it.
ChooseSuggestion ==
  /\ ~assist.hidden /\ assist.of # Empty
  /\ edits + uploading < MaxEdits /\ edits' = edits + 1
  /\ LET from == IF assist.range = Empty THEN cursor ELSE assist.range.from
         to == IF assist.range = Empty THEN cursor ELSE assist.range.to
     IN /\ text' = Splice(text, IF from < Len(text) THEN from ELSE Len(text), to, NewPiece("token"))
        /\ cursor' = IF from < Len(text) THEN from + 1 ELSE Len(text')
  /\ chosen' = chosen + 1
  /\ assist' = [assist EXCEPT !.hidden = TRUE]
  /\ AskPreview(text')
  /\ UNCHANGED <<timer, preview, lookups, uploading, failed>>

EditorNext ==
  \/ TypePiece \/ ErasePiece \/ ApplyTemplate \/ MoveCursor \/ PreviewDue
  \/ \E p \in previews : ShowPreview(p)
  \/ StartUpload \/ FinishUpload \/ FailUpload
  \/ OpenHelper \/ HideAssist \/ ChooseSuggestion
  \/ \E l \in lookups : ShowSuggestions(l)

EditorSpec == EditorInit /\ [][EditorNext]_editorVars

----------------------------------------------------------------------------
\* Properties.

(* Once nothing is due or on its way, the preview is of the text in the
   editor, unless it is the answer to an older request that came after the
   newest one's, or a failure: whichever way the text was changed, a preview
   was asked for afterwards (issue-markdown-editor.js:202, 273, 421; the
   template's input event, issue-description-template.js:58). *)
PreviewShowsText ==
  ~timer /\ previews = {} /\ preview.number = asked => preview.of \in {text, Unavailable}

(* A suggestion replaces the reference being typed, and nothing else, if the
   text is still the one it was asked for (issue-markdown-editor.js:260). *)
ChoiceKeepsText ==
  [][chosen' # chosen /\ assist.of = text =>
       \A i \in DOMAIN text :
         \/ text[i] \in Range(text')
         \/ \E j \in 1..i : /\ text[j].kind = "trigger" /\ text[j] \notin Range(text')
                           /\ \A k \in j..i : text[k].kind # "token"]_editorVars
=============================================================================
