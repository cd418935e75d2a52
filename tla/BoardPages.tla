----------------------------- MODULE BoardPages -----------------------------
(***************************************************************************)
(* Board pages in browsers and how they follow the board: requests change  *)
(* it and publish an event to the subscribers of their own process         *)
(* (user_interface/board_events.py, views.py); a page that receives one    *)
(* fetches the board and puts it in the place of the one it had when it    *)
(* asked (static/js/kanban-dnd.js; issue-detail-sync.js does the same with *)
(* the detail page, which has no cards to drag).                           *)
(*                                                                         *)
(* The board is the number of changes committed to it.  Events carry no    *)
(* data; here they are written with the change they are about.             *)
(***************************************************************************)
EXTENDS Naturals, Sequences, FiniteSets, SequencesExt

CONSTANTS
  Pages,         \* pages open in browsers
  Processes,     \* server processes, each with a broker
  Workers,       \* threads that handle requests
  Absent,
  MaxChanges,    \* bound: changes of the board
  MaxMoves,      \* bound: move requests the pages send
  MaxFailures    \* bound: processes that die, refreshes that fail, streams that break

VARIABLES
  board,      \* the number of committed changes
  requests,   \* the request of each worker, or Absent
  pages,      \* what each page holds
  streams,    \* the process each page is subscribed at, or Absent
  events,     \* events on the way to each page
  fetches,    \* refreshes each page has asked for
  moves,      \* moves sent by the pages
  failures,   \* what has failed so far
  missed      \* history: changes a page was not told of, or was told of in vain

pagesVars == <<board, requests, pages, streams, events, fetches, moves, failures, missed>>

Changes == 1..MaxChanges

\* astray: cards left where they were dropped, by the number of their move;
\* bound: how often the listeners have been added to the board on display.
PageState == [shown : 0..MaxChanges, held : BOOLEAN, astray : SUBSET (1..MaxMoves), bound : Nat]

\* attached: the board the refresh was asked for is still on display.
PageFetch == [about : 0..MaxChanges, read : {Absent} \cup (0..MaxChanges), attached : BOOLEAN]

PageMove == [page : Pages, drop : 1..MaxMoves, attached : BOOLEAN,
             at : {"sent", "taken", "done", "refused", "settled", "rejected"}]

PageRequest == [process : Processes, step : {"commit", "copy", "put"}, loud : BOOLEAN,
                change : 0..MaxChanges, to : SUBSET Pages, move : 0..MaxMoves]

ASSUME BoardPagesAssumption ==
  /\ {MaxChanges, MaxMoves, MaxFailures} \subseteq Nat
  /\ Absent \notin Processes \cup PageRequest

PagesTypeOK ==
  /\ board \in 0..MaxChanges
  /\ requests \in [Workers -> PageRequest \cup {Absent}]
  /\ pages \in [Pages -> PageState]
  /\ streams \in [Pages -> Processes \cup {Absent}]
  /\ events \in [Pages -> Seq(Changes)]
  /\ fetches \in [Pages -> Seq(PageFetch)]
  /\ moves \in Seq(PageMove)
  /\ failures \in 0..MaxFailures
  /\ missed \in [Pages -> SUBSET Changes]

PagesInit ==
  /\ board = 0
  /\ requests = [w \in Workers |-> Absent]
  /\ pages = [p \in Pages |-> [shown |-> 0, held |-> FALSE, astray |-> {}, bound |-> 1]]
  /\ streams = [p \in Pages |-> Absent]
  /\ events = [p \in Pages |-> <<>>]
  /\ fetches = [p \in Pages |-> <<>>]
  /\ moves = <<>>
  /\ failures = 0
  /\ missed = [p \in Pages |-> {}]

Stands(w, step) == requests[w] # Absent /\ requests[w].step = step
Leaves(w) == requests' = [requests EXCEPT ![w] = Absent]
Miss(ps, cs) == missed' = [p \in Pages |-> missed[p] \cup IF p \in ps THEN cs ELSE {}]
Answered(m, at) == IF m = 0 THEN moves ELSE [moves EXCEPT ![m].at = at]
Subscribers(process) == {p \in Pages : streams[p] = process}

----------------------------------------------------------------------------
\* The server.

\* A request that changes an issue; the forms and the issue update of the
\* REST API publish afterwards, its other operations do not (loud).
Ask(w, process, loud, m) ==
  /\ requests[w] = Absent
  /\ moves' = Answered(m, "taken")
  /\ requests' = [requests EXCEPT ![w] = [process |-> process, step |-> "commit", loud |-> loud,
                                          change |-> 0, to |-> {}, move |-> m]]
  /\ UNCHANGED <<board, pages, streams, events, fetches, failures, missed>>

ChangeIssue(w) == \E process \in Processes, loud \in BOOLEAN : board < MaxChanges /\ Ask(w, process, loud, 0)

MoveIssue(w) ==
  \E process \in Processes, m \in DOMAIN moves : moves[m].at = "sent" /\ Ask(w, process, TRUE, m)

CommitChange(w) ==
  /\ Stands(w, "commit") /\ board < MaxChanges
  /\ board' = board + 1
  /\ IF requests[w].loud
     THEN /\ requests' = [requests EXCEPT ![w].step = "copy", ![w].change = board']
          /\ UNCHANGED missed
     ELSE Leaves(w) /\ Miss(Pages, {board'})
  /\ UNCHANGED <<pages, streams, events, fetches, moves, failures>>

\* An error of any kind; nothing is published.
RejectChange(w) ==
  /\ Stands(w, "commit")
  /\ Leaves(w)
  /\ moves' = Answered(requests[w].move, "refused")
  /\ UNCHANGED <<board, pages, streams, events, fetches, failures, missed>>

\* publish copies the subscribers of its process, and then serves the copy.
CopySubscribers(w) ==
  /\ Stands(w, "copy")
  /\ LET heard == Subscribers(requests[w].process)
     IN /\ requests' = [requests EXCEPT ![w].step = "put", ![w].to = heard]
        /\ Miss(Pages \ heard, {requests[w].change})
  /\ UNCHANGED <<board, pages, streams, events, fetches, moves, failures>>

PutEvent(w, p) ==
  /\ Stands(w, "put") /\ p \in requests[w].to
  /\ requests' = [requests EXCEPT ![w].to = @ \ {p}]
  /\ events' = [events EXCEPT ![p] = Append(@, requests[w].change)]
  /\ UNCHANGED <<board, pages, streams, fetches, moves, failures, missed>>

AnswerChange(w) ==
  /\ Stands(w, "put") /\ requests[w].to = {}
  /\ Leaves(w)
  /\ moves' = Answered(requests[w].move, "done")
  /\ UNCHANGED <<board, pages, streams, events, fetches, failures, missed>>

\* Subscriptions end: what was queued for them, or about to be, is lost.
CutStreams(ps, running) ==
  /\ streams' = [p \in Pages |-> IF p \in ps THEN Absent ELSE streams[p]]
  /\ events' = [p \in Pages |-> IF p \in ps THEN <<>> ELSE events[p]]
  /\ requests' = [w \in Workers |->
       IF w \notin running THEN Absent
       ELSE IF requests[w] = Absent THEN Absent
       ELSE [requests[w] EXCEPT !.to = @ \ ps]]
  /\ missed' = [p \in Pages |-> missed[p] \cup
       (IF p \in ps THEN Range(events[p]) ELSE {}) \cup
       {requests[w].change : w \in {v \in Workers :
          \/ Stands(v, "put") /\ p \in requests[v].to /\ (p \in ps \/ v \notin running)
          \/ Stands(v, "copy") /\ v \notin running}}]

\* A process dies, with its requests and its streams.
KillProcess(process) ==
  LET dying == {w \in Workers : requests[w] # Absent /\ requests[w].process = process}
  IN /\ failures < MaxFailures /\ failures' = failures + 1
     /\ CutStreams(Subscribers(process), Workers \ dying)
     /\ moves' = [m \in DOMAIN moves |->
          IF \E w \in dying : requests[w].move = m THEN [moves[m] EXCEPT !.at = "refused"] ELSE moves[m]]
     /\ UNCHANGED <<board, pages, fetches>>

BreakStream(p) ==
  /\ failures < MaxFailures /\ failures' = failures + 1
  /\ streams[p] # Absent
  /\ CutStreams({p}, Workers)
  /\ UNCHANGED <<board, pages, fetches, moves>>

----------------------------------------------------------------------------
\* The page.

\* EventSource connects when the page is loaded, and again after a break; the
\* board is not fetched then.
Subscribe(p) ==
  /\ streams[p] = Absent
  /\ \E process \in Processes : streams' = [streams EXCEPT ![p] = process]
  /\ UNCHANGED <<board, requests, pages, events, fetches, moves, failures, missed>>

Refresh(p, about) == [fetches EXCEPT ![p] = Append(@, [about |-> about, read |-> Absent, attached |-> TRUE])]

\* Mutant: no refresh while another is under way.
HandleEventAlone(p) ==
  /\ events[p] # <<>>
  /\ fetches' = IF fetches[p] = <<>> THEN Refresh(p, Head(events[p])) ELSE fetches
  /\ events' = [events EXCEPT ![p] = Tail(@)]
  /\ UNCHANGED <<board, requests, pages, streams, moves, failures, missed>>

HandleEvent(p) ==
  /\ events[p] # <<>>
  /\ fetches' = Refresh(p, Head(events[p]))
  /\ events' = [events EXCEPT ![p] = Tail(@)]
  /\ UNCHANGED <<board, requests, pages, streams, moves, failures, missed>>

RenderBoard(p, i) ==
  /\ fetches[p][i].read = Absent
  /\ fetches' = [fetches EXCEPT ![p][i].read = board]
  /\ UNCHANGED <<board, requests, pages, streams, events, moves, failures, missed>>

\* Mutant: looks up the board once the answer is there.
OnDisplayNow(fetch) == TRUE

\* The board that a refresh has looked up before it asked is still on display.
OnDisplay(fetch) == fetch.attached

\* The fetched board replaces the one it was asked for, if that is on display.
\* If it is not, the assignment has no effect; the listeners are added to the
\* board on display in either case.
ReplaceBoard(p, i) ==
  LET f == fetches[p][i]
      others == RemoveAt(fetches[p], i)
  IN /\ f.read # Absent
     /\ IF OnDisplay(f)
        THEN /\ pages' = [pages EXCEPT ![p] = [shown |-> f.read, held |-> FALSE, astray |-> {}, bound |-> 1]]
             /\ fetches' = [fetches EXCEPT ![p] = [j \in DOMAIN others |-> [others[j] EXCEPT !.attached = FALSE]]]
             /\ moves' = [m \in DOMAIN moves |->
                  IF moves[m].page = p THEN [moves[m] EXCEPT !.attached = FALSE] ELSE moves[m]]
             /\ UNCHANGED missed
        ELSE /\ pages' = [pages EXCEPT ![p].bound = @ + 1]
             /\ fetches' = [fetches EXCEPT ![p] = others]
             /\ Miss({p}, {f.about} \ {0})
             /\ UNCHANGED moves
     /\ UNCHANGED <<board, requests, streams, events, failures>>

FailRefresh(p, i) ==
  /\ failures < MaxFailures /\ failures' = failures + 1
  /\ fetches' = [fetches EXCEPT ![p] = RemoveAt(@, i)]
  /\ Miss({p}, {fetches[p][i].about} \ {0})
  /\ UNCHANGED <<board, requests, pages, streams, events, moves>>

PickUpCard(p) ==
  /\ ~pages[p].held /\ Len(moves) < MaxMoves
  /\ pages' = [pages EXCEPT ![p].held = TRUE]
  /\ UNCHANGED <<board, requests, streams, events, fetches, moves, failures, missed>>

\* Every listener posts the move.  dragend follows the drop, and forgets the
\* card before any answer is there.
DropCard(p) ==
  LET drop == Len(moves) + 1
      posts == [i \in 1..pages[p].bound |-> [page |-> p, drop |-> drop, attached |-> TRUE, at |-> "sent"]]
  IN /\ pages[p].held /\ Len(moves) + pages[p].bound <= MaxMoves
     /\ pages' = [pages EXCEPT ![p].held = FALSE, ![p].astray = @ \cup {drop}]
     /\ moves' = moves \o posts
     /\ UNCHANGED <<board, requests, streams, events, fetches, failures, missed>>

\* A refused move: the handler works on the card that is held now.  With none
\* it ends in a TypeError, and does not get to the refresh.
HandleAnswer(p, m) ==
  /\ moves[m].page = p
  /\ \/ /\ moves[m].at = "done"
        /\ moves' = [moves EXCEPT ![m].at = "settled"]
        /\ pages' = [pages EXCEPT ![p].astray = IF moves[m].attached THEN @ \ {moves[m].drop} ELSE @]
        /\ UNCHANGED fetches
     \/ /\ moves[m].at = "refused"
        /\ moves' = [moves EXCEPT ![m].at = "rejected"]
        /\ fetches' = IF moves[m].attached /\ pages[p].held THEN Refresh(p, 0) ELSE fetches
        /\ UNCHANGED pages
  /\ UNCHANGED <<board, requests, streams, events, failures, missed>>

PagesNext ==
  \/ \E w \in Workers :
       \/ ChangeIssue(w) \/ MoveIssue(w) \/ CommitChange(w) \/ RejectChange(w)
       \/ CopySubscribers(w) \/ AnswerChange(w)
       \/ \E p \in Pages : PutEvent(w, p)
  \/ \E process \in Processes : KillProcess(process)
  \/ \E p \in Pages :
       \/ BreakStream(p) \/ Subscribe(p) \/ HandleEvent(p) \/ PickUpCard(p) \/ DropCard(p)
       \/ \E i \in DOMAIN fetches[p] : RenderBoard(p, i) \/ ReplaceBoard(p, i) \/ FailRefresh(p, i)
       \/ \E m \in DOMAIN moves : HandleAnswer(p, m)

PagesSpec == PagesInit /\ [][PagesNext]_pagesVars

----------------------------------------------------------------------------
\* Properties.

\* Nothing is on its way to the page, or from it.
UpToDate(p) ==
  /\ events[p] = <<>> /\ fetches[p] = <<>> /\ ~pages[p].held
  /\ \A w \in Workers : requests[w] = Absent
  /\ \A m \in DOMAIN moves : moves[m].page = p => moves[m].at \in {"settled", "rejected"}

(* A page at rest shows every change but those it missed: made by a request
   that does not publish or died before it did, published in another process or
   while the page had no stream, or answered by a refresh that failed or came
   after another had replaced the board.  kanban-dnd.js refreshBoard; publish
   after commit in views.py. *)
OnlyMissedChangesHidden == \A p \in Pages : UpToDate(p) => (pages[p].shown + 1)..board \subseteq missed[p]

(* However the answers of overlapping refreshes are reordered, a page never
   goes back to an older board (kanban-dnd.js:176, issue-detail-sync.js:25: the
   element that is replaced is the one the refresh was asked for). *)
PagesNeverGoBack == [][\A p \in Pages : pages'[p].shown >= pages[p].shown]_pagesVars

(* A card left where it was dropped, on a page at rest, is that of a move the
   server has not made: an accepted one leaves no card astray, unless another
   answer to the same drop was a refusal (kanban-dnd.js:309-330). *)
OnlyRejectedMovesStray ==
  \A p \in Pages : UpToDate(p) => \A d \in pages[p].astray :
    \E m \in DOMAIN moves : moves[m].page = p /\ moves[m].drop = d /\ moves[m].at = "rejected"

(* Pages come to show the board as the server has it, but for what they missed
   and for moves that were rejected. *)
PagesComeToAgree == OnlyMissedChangesHidden /\ OnlyRejectedMovesStray
=============================================================================
