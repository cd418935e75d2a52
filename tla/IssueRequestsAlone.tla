------------------------- MODULE IssueRequestsAlone -------------------------
(***************************************************************************)
(* The claim that workers whose requests follow one another implement      *)
(* IssueBoard, whose handlers are single actions.                          *)
(***************************************************************************)
EXTENDS IssueRequests

VARIABLE settled   \* the table as it was when the last request ended

\* settled is a history variable: it records, and restricts nothing.
Settle == settled' = IF \A w \in Workers : run'[w] = None THEN rows' ELSE settled

\* Each request is alone: no other is under way.
Alone == \A u, w \in Workers : run[u] # None /\ run[w] # None => u = w

AloneSpec == (Init /\ settled = rows) /\ [][Next /\ Settle /\ Alone']_<<vars, settled>>

Board == INSTANCE IssueBoard WITH
  issues <- [i \in DOMAIN settled |->
               [state    |-> settled[i].state,    priority |-> settled[i].priority,
                pos      |-> settled[i].pos,      archived |-> settled[i].archived,
                group    |-> None,                user     |-> None]],
  nextPk <- Cardinality(DOMAIN settled) + 1,
  members <- {},
  rules <- [s \in States |-> None],
  last <- answer,
  Groups <- {}, Users <- {}

\* The statements of a handler, with nobody else's in between, amount to the
\* handler's action in IssueBoard: the same table, the same answer, the same
\* webhook events (create_issue, update_issue, archive_issue, move_issue).
ImplementsIssueBoard == Board!Spec
================================================================================
