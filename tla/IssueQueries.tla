---------------------------- MODULE IssueQueries ----------------------------
(***************************************************************************)
(* What the board and the issue list answer: the filters of                *)
(* user_interface/controllers.py, the columns built from what is left, and *)
(* the list that the REST API reads off the columns (rest_api/api.py).     *)
(*                                                                         *)
(* A parameter arrives as a string; Unset is one that is empty or absent,  *)
(* Bad one that does not parse or names nothing. assignee stands for the   *)
(* filters on a foreign key.                                               *)
(***************************************************************************)
EXTENDS Integers, Sequences, FiniteSets, SequencesExt

CONSTANTS
  WorkflowStates,  \* all workflow states
  ColumnStates,    \* BOARD_STATES, in the order of the columns
  Ranks,           \* PRIORITY_RANKS: 0 .. n
  Assignees,
  Nothing, Unset, Bad, Error,
  MaxAge,          \* bound: seconds since an issue was updated
  IssueShapes,     \* bound: issues the table is filled with
  MaxTable,        \* bound: issues
  MaxGiven         \* bound: parameters given in one query

VARIABLES
  table,     \* issues, in the order they were created
  params,    \* the parameters of the last query
  answer     \* its columns, Error, or Nothing before the first

queryVars == <<table, params, answer>>

QueryIssue == [state : WorkflowStates, priority : Ranks, pos : Nat, user : Assignees \cup {Nothing},
               escalated : BOOLEAN, age : 0..MaxAge, archived : BOOLEAN]

ASSUME QueryAssumption ==
  /\ ColumnStates \in Seq(WorkflowStates) /\ IsInjective(ColumnStates)
  /\ Ranks \subseteq Int /\ IssueShapes \subseteq QueryIssue
  /\ MaxAge \in Nat /\ MaxTable \in Nat /\ MaxGiven \in Nat
  /\ Nothing \notin Assignees /\ Bad \notin WorkflowStates \cup {Unset}

Params ==
  LET all == [assignee : {Unset, Bad} \cup Assignees,
              priority : {Unset, Bad} \cup Ranks,
              state : {Unset, Bad} \cup WorkflowStates,
              label : {Unset, Bad} \cup WorkflowStates,   \* a label stands for its state
              escalated : {Unset, Bad} \cup BOOLEAN,
              within : {Unset, Bad} \cup (-1..MaxAge)]
  IN {p \in all : Cardinality({f \in DOMAIN p : p[f] # Unset}) <= MaxGiven}

Column == [state : WorkflowStates, issues : Seq(1..MaxTable)]

QueryTypeOK ==
  /\ table \in Seq(QueryIssue)
  /\ params \in Params \cup {Nothing}
  /\ answer \in Seq(Column) \cup {Error, Nothing}

QueryInit == table = <<>> /\ params = Nothing /\ answer = Nothing

----------------------------------------------------------------------------
\* The filters, one after the other; each leaves a set of rows.

OptionalFilter(found, field, value) ==
  IF value = Unset THEN found ELSE {i \in found : table[i][field] = value}

WorkflowStateFilters(found, p) ==
  LET given == {p.state, p.label} \ {Unset}
  IN IF Bad \in given \/ Cardinality(given) = 2 THEN {}
     ELSE {i \in found : table[i].state \in IF given = {} THEN Range(ColumnStates) ELSE given}

BooleanFilter(found, value) ==
  CASE value = Unset -> found
    [] value = Bad -> {}
    [] OTHER -> {i \in found : table[i].escalated = value}

UpdatedWithin(found, value) ==
  IF value = Unset THEN found
  ELSE IF value = Bad \/ value < 0 THEN {}
  ELSE {i \in found : table[i].age <= value}

\* _get_filtered_issues
Filtered(p) ==
  LET unarchived == {i \in DOMAIN table : ~table[i].archived}
      ofState == WorkflowStateFilters(unarchived, p)
      ofUser == OptionalFilter(ofState, "user", p.assignee)
      ofPriority == OptionalFilter(ofUser, "priority", p.priority)
  IN UpdatedWithin(BooleanFilter(ofPriority, p.escalated), p.within)

\* Mutant: positions first.
BeforeByPosition(i, j) ==
  \/ table[i].pos < table[j].pos
  \/ table[i].pos = table[j].pos /\ table[i].priority < table[j].priority
  \/ table[i].priority = table[j].priority /\ table[i].pos = table[j].pos /\ i < j

\* _sort_issues: the numbers of the rows stand for created_at and pk.
Before(i, j) ==
  \/ table[i].priority < table[j].priority
  \/ table[i].priority = table[j].priority /\ table[i].pos < table[j].pos
  \/ table[i].priority = table[j].priority /\ table[i].pos = table[j].pos /\ i < j

\* The rows of S in that order.
Sorted(S) == CHOOSE s \in [1..Cardinality(S) -> S] : \A m, n \in DOMAIN s : m < n => Before(s[m], s[n])

\* _build_board_columns
BoardColumns(found) ==
  [c \in DOMAIN ColumnStates |->
     [state |-> ColumnStates[c],
      issues |-> Sorted({i \in found : table[i].state = ColumnStates[c]})]]

\* An assignee that is no number fails when its filter is built, whatever the
\* filters before it have left.
BadAssignee(p) == p.assignee = Bad

\* issue_list
Listed == FlattenSeq([c \in DOMAIN answer |-> answer[c].issues])

----------------------------------------------------------------------------

\* Rows are added between queries: an answer is about the table it is read from.
AddRow ==
  /\ params = Nothing
  /\ Len(table) < MaxTable
  /\ \E shape \in IssueShapes : table' = Append(table, shape)
  /\ UNCHANGED <<params, answer>>

AskBoard ==
  /\ params = Nothing
  /\ \E p \in Params :
       /\ params' = p
       /\ answer' = IF BadAssignee(p) THEN Error ELSE BoardColumns(Filtered(p))
  /\ UNCHANGED table

\* The next query is independent of this one.
Forget ==
  /\ params # Nothing
  /\ params' = Nothing /\ answer' = Nothing
  /\ UNCHANGED table

QueryNext == AddRow \/ AskBoard \/ Forget

QuerySpec == QueryInit /\ [][QueryNext]_queryVars

----------------------------------------------------------------------------
\* Properties.

\* What the parameters ask for, read together.
Matches(r, p) ==
  /\ ~r.archived
  /\ p.assignee # Unset => r.user = p.assignee
  /\ p.priority # Unset => r.priority = p.priority
  /\ p.state # Unset => r.state = p.state
  /\ p.label # Unset => r.state = p.label
  /\ p.escalated # Unset => p.escalated # Bad /\ r.escalated = p.escalated
  /\ p.within # Unset => p.within # Bad /\ r.age <= p.within

Answered == params # Nothing /\ answer # Error

(* The list has each issue that matches and has a column, once, by column,
   priority and position, and no other (controllers.py:395, 523). *)
ListIsOfMatches == Answered =>
  LET rank(i) == CHOOSE c \in DOMAIN ColumnStates : ColumnStates[c] = table[i].state
  IN /\ Range(Listed) = {i \in DOMAIN table :
                          Matches(table[i], params) /\ table[i].state \in Range(ColumnStates)}
     /\ \A m, n \in DOMAIN Listed : m < n =>
          LET i == Listed[m] j == Listed[n]
          IN /\ i # j
             /\ \/ rank(i) < rank(j)
                \/ rank(i) = rank(j) /\ table[i].priority < table[j].priority
                \/ rank(i) = rank(j) /\ table[i].priority = table[j].priority /\ table[i].pos <= table[j].pos
=============================================================================
