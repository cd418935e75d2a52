-------------------------- MODULE MarkdownRendering --------------------------
(***************************************************************************)
(* The rendering of descriptions and comments                              *)
(* (user_interface/templatetags/issue_markdown.py) in the threads of one   *)
(* server process.  A text is cut into blocks line by line, and each line  *)
(* is rendered with its references resolved.  The draft token and the user *)
(* a draft is looked up with are handed over as attributes of the function *)
(* _render_token, which all threads share.                                 *)
(*                                                                         *)
(* A line has at most one reference: to something found by its key alone   *)
(* (a user, an issue), to an attachment, or to a draft.                    *)
(***************************************************************************)
EXTENDS Naturals, Sequences, FiniteSets

CONSTANTS
  Threads,
  Owners,      \* users, each with the draft token of their session
  Absent,
  MaxLines,    \* bound: lines of a text rendered alone
  MaxShared    \* bound: lines of a text rendered while other threads render theirs

ASSUME RenderingAssumption ==
  MaxLines \in Nat /\ MaxShared \in 0..MaxLines /\ Owners \cap {Absent, "named", "attachment"} = {}

VARIABLES
  renders,     \* what each thread renders, or Absent
  givenToken,  \* _render_token.draft_token
  givenUser    \* _render_token.uploaded_by_user

renderVars == <<renders, givenToken, givenUser>>

Kinds == {"blank", "heading", "item", "text"}
References == {Absent, "named", "attachment"} \cup Owners   \* the owner of a draft
Line == {l \in [kind : Kinds, reference : References] : l.kind = "blank" => l.reference = Absent}

\* shown: for each line, how its reference came out, and whether another thread
\* had set an attribute meanwhile.
Outcomes == {"none", "link", "literal"}
Block == [kind : Kinds, lines : Seq(1..MaxLines)]

Render == [lines : Seq(Line),
           owner : Owners \cup {Absent},   \* Absent: the page of an issue, or no draft
           page : BOOLEAN,               \* with an issue at hand
           next : 1..(MaxLines + 1),
           step : {"block", "token", "user", "look", "resolve", "failed"},
           looked : Owners \cup {Absent},
           blocks : Seq(Block),
           shown : Seq([outcome : Outcomes, crossed : BOOLEAN]),
           crossed : BOOLEAN]            \* history: another thread set an attribute meanwhile

RenderingTypeOK ==
  /\ renders \in [Threads -> Render \cup {Absent}]
  /\ givenToken \in Owners \cup {Absent}
  /\ givenUser \in Owners \cup {Absent}

RenderingInit ==
  /\ renders = [t \in Threads |-> Absent]
  /\ givenToken = Absent
  /\ givenUser = Absent

Renders(t, step) == renders[t] # Absent /\ renders[t].step = step
Finished(t) == Renders(t, "block") /\ renders[t].next > Len(renders[t].lines)
Current(t) == renders[t].lines[renders[t].next]
GoesTo(t, step) == renders' = [renders EXCEPT ![t].step = step]

\* A preview for a session, the preview or the page of an issue, or a text
\* without either.
StartRender(t) ==
  /\ renders[t] = Absent
  /\ \A u \in Threads : renders[u] # Absent => Len(renders[u].lines) <= MaxShared
  /\ \E n \in 1..IF \E u \in Threads : renders[u] # Absent THEN MaxShared ELSE MaxLines :
     \E lines \in [1..n -> Line], owner \in Owners \cup {Absent}, page \in BOOLEAN :
       /\ page => owner = Absent
       /\ renders' = [renders EXCEPT ![t] =
            [lines |-> lines, owner |-> owner, page |-> page, next |-> 1, step |-> "block",
             looked |-> Absent, blocks |-> <<>>, shown |-> <<>>, crossed |-> FALSE]]
  /\ UNCHANGED <<givenToken, givenUser>>

\* Mutant: a blank line does not end a block.
InBlockAcrossBlanks(blocks, line, n) ==
  LET last == blocks[Len(blocks)]
      goesOn == /\ line.kind \in {"item", "text"}
                /\ blocks # <<>> /\ last.kind = line.kind
  IN IF goesOn THEN [blocks EXCEPT ![Len(blocks)].lines = Append(@, n)]
     ELSE Append(blocks, [kind |-> line.kind, lines |-> <<n>>])

\* _render_blocks and the consumers: a heading is a block, items next to each
\* other are one, and so are lines of text.
InBlock(blocks, line, n) ==
  LET last == blocks[Len(blocks)]
      goesOn == /\ line.kind \in {"item", "text"}
                /\ blocks # <<>> /\ last.kind = line.kind /\ last.lines[Len(last.lines)] = n - 1
  IN IF goesOn THEN [blocks EXCEPT ![Len(blocks)].lines = Append(@, n)]
     ELSE Append(blocks, [kind |-> line.kind, lines |-> <<n>>])

ConsumeLine(t) ==
  LET r == renders[t]
  IN /\ Renders(t, "block") /\ ~Finished(t)
     /\ renders' = [renders EXCEPT ![t] =
          IF Current(t).kind = "blank"
          THEN [r EXCEPT !.next = @ + 1, !.shown = Append(@, [outcome |-> "none", crossed |-> FALSE])]
          ELSE [r EXCEPT !.step = "token", !.blocks = InBlock(@, Current(t), r.next)]]
     /\ UNCHANGED <<givenToken, givenUser>>

\* Threads whose look-up this assignment disturbs.
Crossing(t, goes) ==
  [u \in Threads |->
     IF u = t THEN goes
     ELSE IF \E step \in {"user", "look", "resolve"} : Renders(u, step)
          THEN [renders[u] EXCEPT !.crossed = TRUE] ELSE renders[u]]

\* _render_inline: the two assignments, and then the references.
GiveDraftToken(t) ==
  /\ Renders(t, "token")
  /\ givenToken' = renders[t].owner
  /\ renders' = Crossing(t, [renders[t] EXCEPT !.step = "user", !.crossed = FALSE])
  /\ UNCHANGED givenUser

GiveUser(t) ==
  /\ Renders(t, "user")
  /\ givenUser' = renders[t].owner
  /\ renders' = Crossing(t, [renders[t] EXCEPT !.step = "look"])
  /\ UNCHANGED givenToken

\* _render_token reads one attribute after the other.
LookAtToken(t) ==
  /\ Renders(t, "look")
  /\ renders' = [renders EXCEPT ![t].looked = givenToken, ![t].step = "resolve"]
  /\ UNCHANGED <<givenToken, givenUser>>

\* _build_attachment_token and its sisters.  The key of a draft is no key of
\* an attachment: looking it up among those of an issue raises a ValueError.
Resolve(t) ==
  LET r == renders[t]
      reference == Current(t).reference
      comesOut(outcome) ==
        renders' = [renders EXCEPT ![t].shown = Append(@, [outcome |-> outcome, crossed |-> r.crossed]),
                                   ![t].step = "block", ![t].next = @ + 1]
  IN /\ Renders(t, "resolve")
     /\ \/ reference = Absent /\ comesOut("none")
        \/ reference = "named" /\ \E outcome \in {"link", "literal"} : comesOut(outcome)
        \/ /\ reference = "attachment"
           /\ \E outcome \in {"link", "literal"} : (outcome = "link" => r.page) /\ comesOut(outcome)
        \/ reference \in Owners /\ r.page /\ GoesTo(t, "failed")
        \/ /\ reference \in Owners /\ ~r.page
           /\ comesOut(IF r.looked = reference /\ givenUser = reference THEN "link" ELSE "literal")
     /\ UNCHANGED <<givenToken, givenUser>>

\* The attributes stay as they are.
EndRender(t) ==
  /\ Finished(t) \/ Renders(t, "failed")
  /\ renders' = [renders EXCEPT ![t] = Absent]
  /\ UNCHANGED <<givenToken, givenUser>>

RenderingNext == \E t \in Threads :
  StartRender(t) \/ EndRender(t) \/ ConsumeLine(t) \/ GiveDraftToken(t) \/ GiveUser(t) \/ LookAtToken(t) \/ Resolve(t)

RenderingSpec == RenderingInit /\ [][RenderingNext]_renderVars

----------------------------------------------------------------------------
\* Properties.

(* A draft is linked in the previews of the session that staged it and left as
   text everywhere else, unless another thread set the attributes while the
   line was rendered (issue_markdown.py:130). *)
DraftsAreOfTheirSession == \A t \in Threads : renders[t] # Absent =>
  LET r == renders[t]
  IN \A n \in DOMAIN r.shown :
       r.lines[n].reference \in Owners /\ ~r.page /\ ~r.shown[n].crossed =>
         (r.shown[n].outcome = "link" <=> r.lines[n].reference = r.owner)

Together(r, i, j) ==
  \A k \in i..j : r.lines[k].kind = r.lines[i].kind /\ r.lines[k].kind \in {"item", "text"}

(* The blocks are the longest runs of lines that belong together, in order,
   and no line is lost (issue_markdown.py _render_blocks). *)
BlocksAreRuns == \A t \in Threads : Finished(t) =>
  LET r == renders[t]
      holds(b) == {r.blocks[b].lines[i] : i \in DOMAIN r.blocks[b].lines}
  IN /\ UNION {holds(b) : b \in DOMAIN r.blocks} = {i \in DOMAIN r.lines : r.lines[i].kind # "blank"}
     /\ \A b, c \in DOMAIN r.blocks : \A i \in holds(b), j \in holds(c) :
          /\ i < j => b <= c
          /\ i < j => (b = c <=> Together(r, i, j))

\* What is shown is the text, in its blocks, with the references of its owner.
RenderingIsFaithful == BlocksAreRuns /\ DraftsAreOfTheirSession
=============================================================================
