----------------------------- MODULE MCClients -----------------------------
(***************************************************************************)
(* The programs that talk to the server, checked in one run: the poll      *)
(* trigger and the action nodes of n8n, board pages and the editor in      *)
(* browsers.  They share no state: a behaviour is one of any of them,      *)
(* while the others stay as they were initially.                           *)
(***************************************************************************)
EXTENDS MCIssuePollTrigger, BoardPages, IssueEditor, ApiClients, TLC

VARIABLE part  \* the component that takes steps

clientsVars == <<part, vars, pagesVars, editorVars, clientVars>>

ClientsInit ==
  /\ part \in {"poll", "pages", "editor", "client"}
  /\ Init /\ PagesInit /\ EditorInit /\ ClientInit
  /\ part # "poll" => profile = CHOOSE p \in Profiles : TRUE
  /\ part # "client" => \A f \in Fields, i \in Ids : directory[f][i] = CHOOSE n \in Names : TRUE

ClientsNext ==
  /\ UNCHANGED part
  /\ \/ part = "poll" /\ Next /\ UNCHANGED <<pagesVars, editorVars, clientVars>>
     \/ part = "pages" /\ PagesNext /\ UNCHANGED <<vars, editorVars, clientVars>>
     \/ part = "editor" /\ EditorNext /\ UNCHANGED <<vars, pagesVars, clientVars>>
     \/ part = "client" /\ ClientNext /\ UNCHANGED <<vars, pagesVars, editorVars>>

ClientsSpec == ClientsInit /\ [][ClientsNext]_clientsVars

\* The shape of every component's state.
ClientsTypeOK == TypeOK /\ PagesTypeOK /\ EditorTypeOK /\ ClientTypeOK

\* Items an execution is given: references by name, by id, by both, by neither.
Neither == [id |-> Unset, name |-> Untold]
ById(i) == [id |-> i, name |-> Untold]
ByName(n) == [id |-> 0, name |-> n]
ItemOf(op, collection, group) ==
  [op |-> op, file |-> FALSE,
   refs |-> [f \in Fields |-> IF f = "collection" THEN collection ELSE group]]
Items ==
  {ItemOf("create", ByName("a"), ByName("a")), ItemOf("create", ById(1), Neither),
   ItemOf("create", Neither, Neither), ItemOf("create", [id |-> 1, name |-> "a"], Neither),
   ItemOf("update", ByName("a"), ByName("a")), ItemOf("update", Neither, ById(0)),
   ItemOf("plain", Neither, Neither), ItemOf("read", Neither, Neither),
   ItemOf("upload", Neither, Neither), [ItemOf("upload", Neither, Neither) EXCEPT !.file = TRUE]}

\* Identities nothing depends on.
Alike == {q @@ r : q \in Permutations(Workers), r \in Permutations(Processes)}
=============================================================================
