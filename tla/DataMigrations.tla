-------------------------- MODULE DataMigrations ---------------------------
(***************************************************************************)
(* What the data migrations of the app core do to the issues of a database *)
(* that was started at the first schema: numbers are given out (0002),     *)
(* positions are filled in (0003), rules get a table (0009), the state     *)
(* BACKLOG becomes NEW (0010), DUPLICATE becomes REJECTED (0012).  The     *)
(* migrations between these add tables and columns of other components;    *)
(* the schema keeps the number of the last one listed.  `manage.py         *)
(* migrate` runs each in a transaction, before the web server starts.      *)
(*                                                                         *)
(* Between two deployments the board is used by a version of the program   *)
(* the repository no longer holds: MoveTask, ArchiveTask and SetTeam leave *)
(* anything the columns of the time can hold.  What is done with schema 3  *)
(* can as well be done with 9, which adds the rules only.                  *)
(***************************************************************************)
EXTENDS Integers, Sequences, FiniteSets

CONSTANTS
  MaxTasks,       \* number of issues, whose ids are in the order they were made
  FirstStates,    \* states issues are in at the first schema
  LaterStates,    \* states issues are moved to, and rules given for, later on
  BandPriorities, \* priorities of issues
  Teams,          \* assignments a rule can make
  NoTeam,         \* no rule
  MaxUses         \* bound on uses of the board between migrations

VARIABLES
  schema,     \* the last of the modelled migrations that ran
  tasks,      \* the issues
  nextNumber, \* the next sequence of the collection TASK
  teams,      \* the rule of every state
  uses        \* uses of the board so far

migrationVars == <<schema, tasks, nextNumber, teams, uses>>

TaskIds == 1..MaxTasks

\* The states every schema offers, and those a schema offers besides.
Lasting ==
  {"NEW", "TRIAGE", "ASSIGNED", "IN_PROGRESS", "WAITING", "RESOLVED", "CLOSED", "REJECTED"}
Offered(version) ==
  Lasting \cup (IF version \in 3..9 THEN {"BACKLOG"} ELSE {})
          \cup (IF version < 12 THEN {"DUPLICATE"} ELSE {})

ASSUME MigrationAssumption ==
  /\ MaxTasks \in Nat /\ MaxUses \in Nat
  /\ FirstStates \subseteq Offered(1) /\ LaterStates \subseteq Offered(9)
  /\ NoTeam \notin Teams

Move == [from : Offered(9), to : Offered(9)]
Task == [state : Offered(9), priority : BandPriorities, created : 0..1,
         archived : BOOLEAN, number : 0..MaxTasks, pos : 0..MaxTasks, moves : Seq(Move)]

MigrationTypeOK ==
  /\ schema \in {1, 2, 3, 9, 10, 12}
  /\ tasks \in [TaskIds -> Task]
  /\ nextNumber \in 1..(MaxTasks + 1)
  /\ teams \in [Offered(9) -> Teams \cup {NoTeam}]
  /\ uses \in 0..MaxUses

\* A database of the first schema: no numbers, no positions, no rules.
MigrationInit ==
  /\ schema = 1 /\ nextNumber = 1 /\ uses = 0
  /\ teams = [s \in Offered(9) |-> NoTeam]
  /\ tasks \in [TaskIds -> [state : FirstStates, priority : BandPriorities, created : 0..1,
                            archived : {FALSE}, number : {0}, pos : {0}, moves : {<<>>}]]

\* The orders ("created_at", "pk") and ("board_position", "created_at", "pk").
Earlier(i, j) ==
  \/ tasks[i].created < tasks[j].created
  \/ tasks[i].created = tasks[j].created /\ i < j
Above(i, j) ==
  \/ tasks[i].pos < tasks[j].pos
  \/ tasks[i].pos = tasks[j].pos /\ Earlier(i, j)

\* The number enumerate(..., start=1) gives to i among the issues S.
PlaceIn(S, i, Before(_, _)) == 1 + Cardinality({j \in S : Before(j, i)})
SameBand(i) == {j \in TaskIds : tasks[j].state = tasks[i].state
                                  /\ tasks[j].priority = tasks[i].priority}
-----------------------------------------------------------------------------
(* The migrations. *)

\* backfill_issue_collections
NumberTasks ==
  /\ schema = 1 /\ schema' = 2
  /\ tasks' = [i \in TaskIds |-> [tasks[i] EXCEPT !.number = PlaceIn(TaskIds, i, Earlier)]]
  /\ nextNumber' = MaxTasks + 1
  /\ UNCHANGED <<teams, uses>>

\* backfill_board_positions: archived issues take positions too.
PlaceTasks ==
  /\ schema = 2 /\ schema' = 3
  /\ tasks' = [i \in TaskIds |-> [tasks[i] EXCEPT !.pos = PlaceIn(SameBand(i), i, Earlier)]]
  /\ UNCHANGED <<nextNumber, teams, uses>>

\* The table of the rules, one row for a state.
AddRules == schema = 3 /\ schema' = 9 /\ UNCHANGED <<tasks, nextNumber, teams, uses>>

\* What the updates of issues and of their transitions make of a row.
Renamed(t, old, new) ==
  LET name(s) == IF s = old THEN new ELSE s
  IN [t EXCEPT !.state = name(@),
               !.moves = [k \in DOMAIN @ |-> [from |-> name(@[k].from), to |-> name(@[k].to)]]]

\* Mutant: the rule of the old state replaces the one the new state has.
RulesOverwritten(old, new) == [teams EXCEPT ![old] = NoTeam, ![new] = teams[old]]

\* The rule of the state that goes is deleted when the other has one, or becomes its.
RulesRenamed(old, new) ==
  [teams EXCEPT ![old] = NoTeam,
                ![new] = IF teams[new] # NoTeam THEN @ ELSE teams[old]]

\* remap_backlog_to_new, with _normalize_new_board_positions: NEW issues that
\* are not archived are numbered afresh within their priority.
DropBacklog ==
  LET Fresh(i) == tasks[i].state \in {"BACKLOG", "NEW"} /\ ~tasks[i].archived
      Peers(i) == {j \in TaskIds : Fresh(j) /\ tasks[j].priority = tasks[i].priority}
  IN /\ schema = 9 /\ schema' = 10
     /\ tasks' = [i \in TaskIds |->
                    [Renamed(tasks[i], "BACKLOG", "NEW") EXCEPT
                       !.pos = IF Fresh(i) THEN PlaceIn(Peers(i), i, Above) ELSE @]]
     /\ teams' = RulesRenamed("BACKLOG", "NEW")
     /\ UNCHANGED <<nextNumber, uses>>

\* remap_duplicate_to_rejected: no position changes.
DropDuplicate ==
  /\ schema = 10 /\ schema' = 12
  /\ tasks' = [i \in TaskIds |-> Renamed(tasks[i], "DUPLICATE", "REJECTED")]
  /\ teams' = RulesRenamed("DUPLICATE", "REJECTED")
  /\ UNCHANGED <<nextNumber, uses>>
-----------------------------------------------------------------------------
(* The board in use between deployments. *)

Use == schema \in {9, 10} /\ uses < MaxUses /\ uses' = uses + 1
       /\ UNCHANGED <<schema, nextNumber>>

MoveTask(i, s, place) ==
  /\ Use /\ ~tasks[i].archived
  /\ s \in Offered(schema) /\ s # tasks[i].state
  /\ tasks' = [tasks EXCEPT ![i].state = s, ![i].pos = place,
                            ![i].moves = Append(@, [from |-> tasks[i].state, to |-> s])]
  /\ UNCHANGED teams

ArchiveTask(i) ==
  /\ Use /\ ~tasks[i].archived
  /\ tasks' = [tasks EXCEPT ![i].archived = TRUE]
  /\ UNCHANGED teams

SetTeam(s, t) ==
  /\ Use /\ s \in Offered(schema) /\ teams[s] # t
  /\ teams' = [teams EXCEPT ![s] = t]
  /\ UNCHANGED tasks

MigrationNext ==
  \/ NumberTasks \/ PlaceTasks \/ AddRules \/ DropBacklog \/ DropDuplicate
  \/ \E i \in TaskIds, s \in LaterStates, place \in 1..MaxTasks : MoveTask(i, s, place)
  \/ \E i \in TaskIds : ArchiveTask(i)
  \/ \E s \in LaterStates, t \in Teams \cup {NoTeam} : SetTeam(s, t)

MigrationSpec == MigrationInit /\ [][MigrationNext]_migrationVars
-----------------------------------------------------------------------------
(* Properties. *)

\* The transitions of an issue follow each other and end where it is.
TrailsLinked ==
  \A i \in TaskIds : LET moves == tasks[i].moves IN
    /\ \A k \in 1..(Len(moves) - 1) : moves[k].to = moves[k + 1].from
    /\ moves # <<>> => moves[Len(moves)].to = tasks[i].state

\* Nothing names a state that the schema does not offer.
NothingOutdated ==
  /\ \A i \in TaskIds : /\ tasks[i].state \in Offered(schema)
                        /\ \A k \in DOMAIN tasks[i].moves :
                             {tasks[i].moves[k].from, tasks[i].moves[k].to} \subseteq Offered(schema)
  /\ \A s \in Offered(9) \ Offered(schema) : teams[s] = NoTeam

\* Positions a migration gave out are 1..n without a gap: in every band at 0003,
\* among the NEW issues of a priority that are not archived at 0010.
PlacedWithoutGap ==
  /\ schema = 3 => \A i \in TaskIds :
       {tasks[j].pos : j \in SameBand(i)} = 1..Cardinality(SameBand(i))
  /\ schema = 10 => \A i \in TaskIds : LET fresh == {j \in SameBand(i) : ~tasks[j].archived} IN
       i \in fresh /\ tasks[i].state = "NEW" => {tasks[j].pos : j \in fresh} = 1..Cardinality(fresh)

\* A migration never reorders the board: of two issues of one column and one
\* priority, the upper one stays the upper one through every migration, even
\* when two columns become one; their transitions still follow each other and
\* end in the state they are in; no issue, transition or rule keeps a state that
\* is gone, and a rule that stays on offer is the rule it was; numbers are those
\* of the order of creation and the next one is free.
MigrationsKeepTheBoard ==
  [][schema' # schema =>
       /\ \A i, j \in TaskIds :
            /\ j \in SameBand(i) /\ ~tasks[i].archived /\ ~tasks[j].archived /\ Above(i, j)
            => Above(i, j)'
       /\ TrailsLinked' /\ NothingOutdated' /\ PlacedWithoutGap'
       /\ \A s \in Offered(schema') : teams[s] # NoTeam => teams'[s] = teams[s]
       /\ \A i, j \in TaskIds : tasks'[i].number < nextNumber'
                                /\ (Earlier(i, j) <=> tasks'[i].number < tasks'[j].number)]_migrationVars
=============================================================================
