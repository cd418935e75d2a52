----------------------------- MODULE IssueBoard -----------------------------
(***************************************************************************)
(* The issue table of the ticket system and the handlers that write it     *)
(* (core/models/issue.py, core/controllers/issue_controller.py, the        *)
(* controllers of the user interface, which the REST API shares, and the   *)
(* Django admin), one request at a time.  A handler is one action; its     *)
(* early returns, its ValidationErrors and what it had already committed   *)
(* when one was raised are part of the action.                             *)
(*                                                                         *)
(* Only the fields that the board and the assignment rules look at are     *)
(* kept.                                                                   *)
(***************************************************************************)
EXTENDS IssueTable

CONSTANTS
  States,        \* WorkflowState
  BoardStates,   \* the states that have a column on the board
  Closed,        \* WorkflowState.CLOSED
  Priorities,    \* IssuePriority
  Groups, Users,
  None,          \* a null foreign key; no rule
  MaxIssues      \* bound: how many issues are ever created

ASSUME ConstantsAssumption ==
  /\ BoardStates \subseteq States
  /\ Closed \in States
  /\ None \notin Groups \cup Users
  /\ MaxIssues \in Nat

Bands == States \X Priorities

Issue == [state    : States,
          priority : Priorities,
          pos      : Nat,
          archived : BOOLEAN,
          group    : Groups \cup {None},
          user     : Users \cup {None}]

Rule == [group : Groups, user : Users \cup {None}]

Operations == {"none", "configure", "create", "update", "comment", "archive", "move", "admin", "delete"}
EventTypes == {"created", "updated", "queue_assigned", "commented", "closed"}

VARIABLES
  issues,    \* the rows of core_issue, by primary key
  nextPk,    \* the primary key of the next row
  members,   \* pairs <<user, group>> of auth_user_groups
  rules,     \* the active auto-assignment rule of each state, or None
  last       \* the last request: its operation, issue, outcome and webhook events

vars == <<issues, nextPk, members, rules, last>>
-----------------------------------------------------------------------------
(* Assignment, and what a handler saves.                                   *)

\* Mutant: saves without full_clean.
SaveableUnchecked(t, i) == TRUE

\* Issue.clean: the check full_clean repeats on every save of a row.
Assignable(g, u) == u # None => g # None /\ <<u, g>> \in members

Saveable(t, i) == Assignable(t[i].group, t[i].user)

\* An index that is clamped to the end of any band.
AtEnd == MaxIssues

\* Every row that gets another position is saved, and so validated.
Renumberable(t, u) == \A i \in DOMAIN t : u[i].pos # t[i].pos => Saveable(t, i)

\* Mutant: group and user are swapped.
EditFieldsSwapped(i, p, g, u) == [issues EXCEPT ![i].priority = p, ![i].group = u, ![i].user = g]

\* The fields an update or an admin edit saves before the transition.
EditFields(i, p, g, u) == [issues EXCEPT ![i].priority = p, ![i].group = g, ![i].user = u]

\* The row update_workflow_state saves: the new state and the rule's assignment.
EnterState(t, i, s) ==
  IF s = t[i].state THEN t
  ELSE IF rules[s] = None THEN [t EXCEPT ![i].state = s]
  ELSE [t EXCEPT ![i].state = s, ![i].group = rules[s].group, ![i].user = rules[s].user]

\* Mutant: the band that issue i has left is not closed up.
RehomeWithoutSource(t, i, old, index) == InsertIntoBand(t, i, index)

\* Normalise the band that issue i has left, then number the one it is in.
Rehome(t, i, old, index) ==
  InsertIntoBand(IF Band(t, i) = old THEN t ELSE NormalizeBand(t, old, i), i, index)
-----------------------------------------------------------------------------
(* Webhook events of a request on issue i that leaves table t.             *)

Changed(t, i) ==
  \/ t[i].state # issues[i].state
  \/ t[i].priority # issues[i].priority
  \/ t[i].group # issues[i].group
  \/ t[i].user # issues[i].user

ClosedEvent(t, i) == IF t[i].state = Closed /\ issues[i].state # Closed THEN {"closed"} ELSE {}

\* Mutant: does not track the assignment.
UpdatedEventOfFields(t, i) ==
  IF t[i].state # issues[i].state \/ t[i].priority # issues[i].priority THEN {"updated"} ELSE {}

UpdatedEvent(t, i) == IF Changed(t, i) THEN {"updated"} ELSE {}
QueueEvent(t, i) == IF t[i].group # issues[i].group THEN {"queue_assigned"} ELSE {}

Respond(op, i, ok, events) == last' = [op |-> op, issue |-> i, ok |-> ok, events |-> events]
-----------------------------------------------------------------------------
Init ==
  /\ issues = << >>
  /\ nextPk = 1
  /\ members \in SUBSET (Users \X Groups)
  /\ rules \in [States -> {r \in Rule : Assignable(r.group, r.user)} \cup {None}]
  /\ last = [op |-> "none", issue |-> 0, ok |-> TRUE, events |-> {}]

\* IssueCreateForm and create_issue, or the add view of the admin.
CreateIssue(s, p, g, u) ==
  /\ nextPk <= MaxIssues
  /\ Assignable(g, u)
  /\ LET row == [state |-> s, priority |-> p, pos |-> NextPosition(issues, <<s, p>>),
                 archived |-> FALSE, group |-> g, user |-> u]
     IN issues' = [i \in DOMAIN issues \cup {nextPk} |-> IF i = nextPk THEN row ELSE issues[i]]
  /\ nextPk' = nextPk + 1
  /\ Respond("create", nextPk, TRUE, {"created"})
  /\ UNCHANGED <<members, rules>>

\* update_issue is three transactions: the fields, the transition, the position.
\* What precedes a ValidationError stays committed; history, issue.updated and
\* issue.queue_assigned come after the last of them.
UpdateIssue(i, s, p, g, u) ==
  LET edited == EditFields(i, p, g, u)
      entered == EnterState(edited, i, s)
      normal == NormalizeBand(entered, Band(issues, i), i)
      placed == Rehome(entered, i, Band(issues, i), AtEnd)
      moved == Band(entered, i) # Band(issues, i)
      transits == s = issues[i].state \/ Saveable(entered, i)
      syncs == moved => Renumberable(entered, normal) /\ Renumberable(normal, placed)
  IN /\ i \in Live(issues)
     /\ Assignable(g, u)
     /\ \/ /\ transits /\ syncs
           /\ issues' = IF moved THEN placed ELSE entered
           /\ Respond("update", i, TRUE,
                ClosedEvent(entered, i) \cup UpdatedEvent(entered, i) \cup QueueEvent(entered, i))
        \/ /\ ~transits
           /\ issues' = edited
           /\ Respond("update", i, FALSE, {})
        \/ /\ transits /\ ~syncs
           /\ issues' = entered
           /\ Respond("update", i, FALSE, ClosedEvent(entered, i))
     /\ UNCHANGED <<nextPk, members, rules>>

\* add_issue_comment: the comment and its event are committed before touch
\* saves (and validates) the issue.
AddIssueComment(i) ==
  /\ i \in Live(issues)
  /\ Respond("comment", i, Saveable(issues, i), {"commented"})
  /\ UNCHANGED <<issues, nextPk, members, rules>>

\* Mutant: a failure while renumbering leaves the issue archived.
ArchiveWithoutRollback(i) ==
  LET archived == [issues EXCEPT ![i].archived = TRUE]
      normal == NormalizeBand(archived, Band(issues, i), i)
      ok == Saveable(archived, i) /\ Renumberable(archived, normal)
  IN /\ i \in Live(issues)
     /\ issues' = IF ok THEN normal ELSE archived
     /\ Respond("archive", i, ok, {})
     /\ UNCHANGED <<nextPk, members, rules>>

\* archive is one transaction.  The archived row keeps its position.
ArchiveIssue(i) ==
  LET archived == [issues EXCEPT ![i].archived = TRUE]
      normal == NormalizeBand(archived, Band(issues, i), i)
      ok == Saveable(archived, i) /\ Renumberable(archived, normal)
  IN /\ i \in Live(issues)
     /\ issues' = IF ok THEN normal ELSE issues
     /\ Respond("archive", i, ok, {})
     /\ UNCHANGED <<nextPk, members, rules>>

\* move_on_board is one transaction.  move_issue creates no queue event.
MoveIssue(i, s, index) ==
  LET entered == EnterState(issues, i, s)
      normal == NormalizeBand(entered, Band(issues, i), i)
      placed == Rehome(entered, i, Band(issues, i), index)
      moved == s # issues[i].state
      ok == IF moved
            THEN Saveable(entered, i) /\ Renumberable(entered, normal) /\ Renumberable(normal, placed)
            ELSE Renumberable(issues, placed)
  IN /\ i \in Live(issues)
     /\ issues' = IF ok THEN placed ELSE issues
     /\ Respond("move", i, ok,
          IF ok THEN ClosedEvent(entered, i) \cup UpdatedEvent(entered, i) ELSE {})
     /\ UNCHANGED <<nextPk, members, rules>>

\* IssueAdmin.save_model, in the one transaction of the admin view.  It never
\* renumbers, and it also edits archived issues.
AdminEditIssue(i, s, p, g, u) ==
  LET edited == EditFields(i, p, g, u)
      entered == EnterState(edited, i, s)
      ok == Saveable(entered, i)
  IN /\ i \in DOMAIN issues
     /\ Assignable(g, u)
     /\ issues' = IF ok THEN entered ELSE issues
     /\ Respond("admin", i, ok,
          IF ok THEN ClosedEvent(entered, i) \cup UpdatedEvent(entered, i) \cup QueueEvent(entered, i)
          ELSE {})
     /\ UNCHANGED <<nextPk, members, rules>>

\* The delete view of the admin leaves the band as it is.
AdminDeleteIssue(i) ==
  /\ i \in DOMAIN issues
  /\ issues' = [j \in DOMAIN issues \ {i} |-> issues[j]]
  /\ Respond("delete", i, TRUE, {})
  /\ UNCHANGED <<nextPk, members, rules>>

\* Group and user administration replace memberships without a look at the issues.
SetMembership(u, g) ==
  /\ members' \in {members \cup {<<u, g>>}, members \ {<<u, g>>}}
  /\ Respond("configure", 0, TRUE, {})
  /\ UNCHANGED <<issues, nextPk, rules>>

\* A rule is validated when it is saved, and only then; r = None deletes or
\* deactivates it.
SetRule(s, r) ==
  /\ r # None => Assignable(r.group, r.user)
  /\ rules' = [rules EXCEPT ![s] = r]
  /\ Respond("configure", 0, TRUE, {})
  /\ UNCHANGED <<issues, nextPk, members>>

\* The handlers of the user interface and of the REST API.
BoardRequest ==
  \/ \E s \in States, p \in Priorities, g \in Groups \cup {None}, u \in Users \cup {None} :
       \/ CreateIssue(s, p, g, u)
       \/ \E i \in DOMAIN issues : UpdateIssue(i, s, p, g, u)
  \/ \E i \in DOMAIN issues :
       \/ AddIssueComment(i)
       \/ ArchiveIssue(i)
       \/ \E s \in BoardStates, index \in 0..MaxIssues : MoveIssue(i, s, index)

AdminRequest ==
  \/ \E i \in DOMAIN issues :
       \/ \E s \in States, p \in Priorities, g \in Groups \cup {None}, u \in Users \cup {None} :
            AdminEditIssue(i, s, p, g, u)
       \/ AdminDeleteIssue(i)
  \/ \E u \in Users, g \in Groups : SetMembership(u, g)
  \/ \E s \in States, r \in Rule \cup {None} : SetRule(s, r)

Next == BoardRequest \/ AdminRequest

Spec == Init /\ [][Next]_vars
-----------------------------------------------------------------------------
(* Correctness.                                                            *)

\* The shape of the rows and of the last answer.
TypeOK ==
  /\ nextPk \in 1..MaxIssues + 1
  /\ DOMAIN issues \subseteq 1..nextPk - 1
  /\ issues \in [DOMAIN issues -> Issue]
  /\ members \in SUBSET (Users \X Groups)
  /\ rules \in [States -> Rule \cup {None}]
  /\ last \in [op : Operations, issue : 0..MaxIssues, ok : BOOLEAN, events : SUBSET EventTypes]

\* However bands are renumbered, carried over or left with gaps, a position is
\* at least 1 and never exceeds the number of issues ever created, so that
\* _get_next_board_position cannot run away.
PositionsBounded == \A i \in DOMAIN issues : issues[i].pos \in 1..nextPk - 1

\* The user of issue i is not in its group.
Stranded(t, i) == t[i].user # None /\ <<t[i].user, t[i].group>> \notin members

\* docs/user/permissions.md:105: no request leaves an issue with a user outside
\* its group; only revoking the membership afterwards can (Issue.clean, and the
\* auto-assignment rules, which are validated long before they are applied).
OnlyRevocationStrandsUser ==
  [][\A i \in DOMAIN issues' :
       Stranded(issues, i)' =>
          \/ i \in DOMAIN issues /\ Stranded(issues, i)
          \/ members' # members]_vars

\* Two issues that share a band before and after a request keep their order on
\* the board unless one of them is the request's own issue (_normalize_band,
\* _insert_into_band, and the gaps and ties that other handlers leave behind).
BystandersKeepOrder ==
  [][\A i, j \in Live(issues) \cap Live(issues') :
       /\ last'.issue \notin {i, j}
       /\ Band(issues, i) = Band(issues, j)
       /\ Precedes(issues, i, j)
       => Band(issues', i) = Band(issues', j) /\ Precedes(issues', i, j)]_vars

\* Where the row of issue i is displayed in its band.
DisplayIndex(t, i) == Rank(t, InBand(t, Band(t, i)) \ {i}, i)

Siblings(t, i) == InBand(t, Band(t, i)) \ {i}

Dense(t, b) == {t[i].pos : i \in InBand(t, b)} = 1..Cardinality(InBand(t, b))

\* A successful move displays the issue at the requested place of the target
\* band, or last when the band is shorter, whatever state auto-assignment,
\* ties and gaps were in; and leaves that band and the one it came from
\* numbered 1..n (IssueController.move_on_board).
MoveLandsAtIndex ==
  LET i == last'.issue
      b == Band(issues', i)
  IN last'.op = "move" /\ last'.ok =>
       \A index \in 0..MaxIssues :
         MoveIssue(i, issues'[i].state, index) =>
           /\ DisplayIndex(issues', i) = IF index < Cardinality(Siblings(issues', i))
                                         THEN index ELSE Cardinality(Siblings(issues', i))
           /\ Dense(issues', b)
           /\ Band(issues, i) # b => Dense(issues', Band(issues, i))

\* A created issue, and one that a successful update takes to another band, is
\* displayed last in its band (core/tests/tests_models.py:431).
NewcomersGoLast ==
  /\ last'.ok /\ last'.op \in {"create", "update"}
  /\ last'.issue \in DOMAIN issues => Band(issues, last'.issue) # Band(issues', last'.issue)
  => \A j \in Siblings(issues', last'.issue) : Precedes(issues', j, last'.issue)

\* The issue of a request is displayed where the request puts it.
SubjectLandsInPlace == [][MoveLandsAtIndex /\ NewcomersGoLast]_vars

\* A request that fails half-way has written at most the issue it was about,
\* and has neither created, archived nor deleted an issue (the transactions of
\* move_on_board, archive, sync_board_position and of the admin views).
FailureTouchesOnlySubject ==
  [][~last'.ok => /\ DOMAIN issues' = DOMAIN issues
                  /\ Live(issues') = Live(issues)
                  /\ \A i \in DOMAIN issues \ {last'.issue} : issues'[i] = issues[i]]_vars

\* issue.closed is emitted by exactly the requests that take an existing issue
\* into CLOSED, also by those that fail after the transition was committed.
ClosedEventIffClosed ==
  LET i == last'.issue
  IN "closed" \in last'.events <=>
       /\ i \in DOMAIN issues \cap DOMAIN issues'
       /\ issues[i].state # Closed
       /\ issues'[i].state = Closed

\* A request that succeeds announces with issue.updated every change it made to
\* the state, the priority or the assignment of an issue.
SuccessIsAnnounced ==
  \A i \in DOMAIN issues \cap DOMAIN issues' :
    last'.ok /\ Changed(issues', i) => i = last'.issue /\ "updated" \in last'.events

\* The events of a request tell what it did.
EventsTellChanges == [][ClosedEventIffClosed /\ SuccessIsAnnounced]_vars

\* Two live issues of a band never share a position, so that pk and creation
\* time do not decide.
PositionsDistinct ==
  \A i, j \in Live(issues) :
    i # j /\ Band(issues, i) = Band(issues, j) => issues[i].pos # issues[j].pos

\* Ties come from the admin, and from requests that fail half-way, alone: a
\* request of the board that succeeds makes none, whatever gaps the bands had
\* (_get_next_board_position, _normalize_band, _insert_into_band).
RequestsKeepDistinct ==
  [][/\ last'.ok /\ last'.op \in {"create", "update", "comment", "archive", "move"}
     /\ PositionsDistinct
     => PositionsDistinct']_vars

\* The order on the board that the positions stand for.
Order == INSTANCE BoardOrder WITH
  Issues <- 1..MaxIssues,
  column <- [i \in Live(issues) |-> Band(issues, i)],
  above  <- {p \in Live(issues) \X Live(issues) :
               p[1] # p[2] /\ Band(issues, p[1]) = Band(issues, p[2]) /\ Precedes(issues, p[1], p[2])}

\* Every request of every handler moves at most one issue on the board.
ImplementsBoardOrder == Order!Spec
=============================================================================
