---------------------------- MODULE IssueHistory ----------------------------
(***************************************************************************)
(* What the history of an issue tells (issue_history_controller.py, and    *)
(* the handlers in user_interface/controllers.py and core/admin.py that    *)
(* call it): each change of a tracked field with its old and new text, and *)
(* each change of the workflow state as a transition.  A handler compares  *)
(* a snapshot with the instance it has saved, and records the differences  *)
(* in a later transaction.                                                 *)
(*                                                                         *)
(* The tracked fields are represented by the description, which has a form *)
(* of its own, the group, which rules change too, and the archiving.       *)
(***************************************************************************)
EXTENDS Naturals, FiniteSets

CONSTANTS
  Handlers,      \* requests that may be under way at a time
  Free,
  States,        \* workflow states
  MaxWrites,     \* bound: requests
  MaxLosses      \* bound: requests that end halfway

VARIABLES
  record,       \* the row: a value of each field
  told,         \* the value the history ends with, for each field
  gaps,         \* history: fields whose history does not begin where it had ended
  acts,         \* [kind, step, saved, snapshot] of each handler, or Free
  moved,        \* the last transition's target
  begun, lost,
  silent,       \* history: the description form has been used
  mixed         \* history: two requests have been under way at a time

historyVars == <<record, told, gaps, acts, moved, begun, lost, silent, mixed>>

Tracked == {"description", "group", "archived"}

\* Values 0 and 2 differ in white space alone, which the history does not show.
Values == 0..2
Issue == [description : Values, group : Values, archived : Values, state : States]
Act == [kind : {"update", "describe", "move", "archive", "admin"},
        step : {"read", "save", "transit", "tell"},
        target : States,
        saved : Issue,        \* the instance
        snapshot : Issue]

ASSUME HistoryAssumption == {MaxWrites, MaxLosses} \subseteq Nat /\ Free \notin Act

\* _serialize_snapshot_value
Text(v) == v % 2

\* _build_changes, of the fields in SNAPSHOT_FIELD_MAP
Differences(a) == {f \in Tracked : a.snapshot[f] # a.saved[f]}

Doing(h, step) == acts[h] # Free /\ acts[h].step = step
-----------------------------------------------------------------------------
HistoryInit ==
  /\ record \in [description : {0}, group : {0}, archived : {0}, state : States]
  /\ told = [f \in Tracked |-> 0]
  /\ gaps = {}
  /\ acts = [h \in Handlers |-> Free]
  /\ moved = record.state
  /\ begun = 0 /\ lost = 0 /\ silent = FALSE /\ mixed = FALSE

Begin(h, a) ==
  /\ acts[h] = Free
  /\ begun < MaxWrites /\ begun' = begun + 1
  /\ acts' = [acts EXCEPT ![h] = a]
  /\ mixed' = (mixed \/ \E k \in Handlers : acts[k] # Free)
  /\ UNCHANGED <<record, told, gaps, moved, lost>>

\* update_issue: the form has changed the instance that was loaded.  get_issue
\* finds no archived issue.
BeginUpdate(h, description, group, target) ==
  /\ record.archived = 0
  /\ Begin(h, [kind |-> "update", step |-> "read", target |-> target, snapshot |-> record,
               saved |-> [record EXCEPT !.description = description, !.group = group]])
  /\ UNCHANGED silent

\* IssueDescriptionForm changes the instance, too, before the snapshot is taken
\* from it.
BeginDescribe(h, description) ==
  /\ record.archived = 0
  /\ LET changed == [record EXCEPT !.description = description]
     IN Begin(h, [kind |-> "describe", step |-> "save", target |-> record.state,
                  snapshot |-> changed, saved |-> changed])
  /\ silent' = TRUE

BeginMove(h, target) ==
  /\ record.archived = 0
  /\ Begin(h, [kind |-> "move", step |-> "transit", target |-> target, snapshot |-> record,
               saved |-> record])
  /\ UNCHANGED silent

BeginArchive(h) ==
  /\ record.archived = 0
  /\ Begin(h, [kind |-> "archive", step |-> "save", target |-> record.state, snapshot |-> record,
               saved |-> [record EXCEPT !.archived = 1]])
  /\ UNCHANGED silent

\* IssueAdmin.save_model: the archived ones, too; with another state it changes
\* the row it reads again, and copies all but the archiving.
BeginAdmin(h, description, group, archived, target) ==
  /\ Begin(h, [kind |-> "admin", step |-> "read", target |-> target, snapshot |-> record,
               saved |-> [record EXCEPT !.description = description, !.group = group,
                                        !.archived = archived]])
  /\ UNCHANGED silent

\* update_issue and save_model take the snapshot from the row as it is now.
ReadOriginal(h) ==
  LET a == acts[h]
      differing == a.target # record.state
  IN /\ Doing(h, "read")
     /\ acts' = [acts EXCEPT ![h] =
          [a EXCEPT !.snapshot = record,
                    !.saved = IF a.kind = "admin" /\ differing
                                THEN [@ EXCEPT !.state = record.state, !.archived = record.archived]
                                ELSE [@ EXCEPT !.state = record.state],
                    !.step = IF a.kind = "admin" /\ differing THEN "transit" ELSE "save"]]
     /\ UNCHANGED <<record, told, gaps, moved, begun, lost, silent, mixed>>

\* The save of all columns, or of those that the description form and archive
\* name in update_fields.
SaveRecord(h) ==
  LET a == acts[h]
  IN /\ Doing(h, "save")
     /\ record' = CASE a.kind = "describe" -> [record EXCEPT !.description = a.saved.description]
                    [] a.kind = "archive" -> [record EXCEPT !.archived = a.saved.archived]
                    [] OTHER -> a.saved
     /\ acts' = [acts EXCEPT ![h].step =
                   IF a.kind = "update" /\ a.target # a.saved.state THEN "transit" ELSE "tell"]
     /\ UNCHANGED <<told, gaps, moved, begun, lost, silent, mixed>>

\* update_workflow_state: all columns, with the group of a rule if there is one,
\* and the transition, in one transaction.  A move to the same state saves
\* nothing.
Transit(h) ==
  LET a == acts[h]
  IN /\ Doing(h, "transit")
     /\ IF a.target = a.saved.state
          THEN acts' = [acts EXCEPT ![h].step = "tell"] /\ UNCHANGED <<record, moved>>
          ELSE /\ \E group \in {a.saved.group, 1} :
                    LET saved == [a.saved EXCEPT !.state = a.target, !.group = group]
                    IN record' = saved /\ acts' = [acts EXCEPT ![h].saved = saved, ![h].step = "tell"]
               /\ moved' = a.target
     /\ UNCHANGED <<told, gaps, begun, lost, silent, mixed>>

\* Mutant: an archived issue has no need of history.
TellUnlessArchived(h) ==
  LET a == acts[h]
      changed == IF a.kind = "archive" THEN {} ELSE Differences(a)
  IN /\ Doing(h, "tell")
     /\ told' = [f \in Tracked |-> IF f \in changed THEN Text(a.saved[f]) ELSE told[f]]
     /\ gaps' = gaps \cup {f \in changed : Text(a.snapshot[f]) # told[f]}
     /\ acts' = [acts EXCEPT ![h] = Free]
     /\ UNCHANGED <<record, moved, begun, lost, silent, mixed>>

\* record_snapshot_changes
Tell(h) ==
  LET a == acts[h]
      changed == Differences(a)
  IN /\ Doing(h, "tell")
     /\ told' = [f \in Tracked |-> IF f \in changed THEN Text(a.saved[f]) ELSE told[f]]
     /\ gaps' = gaps \cup {f \in changed : Text(a.snapshot[f]) # told[f]}
     /\ acts' = [acts EXCEPT ![h] = Free]
     /\ UNCHANGED <<record, moved, begun, lost, silent, mixed>>

\* The worker dies, or a save is refused.
Lose(h) ==
  /\ acts[h] # Free
  /\ lost < MaxLosses /\ lost' = lost + 1
  /\ acts' = [acts EXCEPT ![h] = Free]
  /\ UNCHANGED <<record, told, gaps, moved, begun, silent, mixed>>

HistoryNext ==
  \E h \in Handlers :
    \/ \E description, group \in Values, target \in States :
         BeginUpdate(h, description, group, target)
    \/ \E description \in Values : BeginDescribe(h, description)
    \/ \E target \in States : BeginMove(h, target)
    \/ BeginArchive(h)
    \/ \E description, group \in Values, archived \in 0..1, target \in States :
         BeginAdmin(h, description, group, archived, target)
    \/ ReadOriginal(h) \/ SaveRecord(h) \/ Transit(h) \/ Tell(h) \/ Lose(h)

HistorySpec == HistoryInit /\ [][HistoryNext]_historyVars
-----------------------------------------------------------------------------
(* Correctness.                                                            *)

Quiet == \A h \in Handlers : acts[h] = Free

HistoryTypeOK ==
  /\ record \in Issue
  /\ told \in [Tracked -> {0, 1}]
  /\ gaps \subseteq Tracked
  /\ acts \in [Handlers -> Act \cup {Free}]
  /\ moved \in States
  /\ begun \in 0..MaxWrites /\ lost \in 0..MaxLosses
  /\ silent \in BOOLEAN /\ mixed \in BOOLEAN

\* Whatever the order of updates, moves, archivings and admin edits, the
\* history of a field ends with its value, and each entry begins where the one
\* before had ended, if requests come to their end one after the other; except
\* for the description, once the frontend's form for it has been used
\* (record_snapshot_changes; forms.py IssueDescriptionForm).
HistoryTellsValues ==
  Quiet /\ ~mixed /\ lost = 0 =>
    \A f \in Tracked : \/ told[f] = Text(record[f]) /\ f \notin gaps
                       \/ f = "description" /\ silent

\* Nothing but a whole-row save of another request separates the state from
\* the last transition: a crash does not (update_workflow_state).
TransitionsTellState == ~mixed => moved = record.state

\* The history and the transitions end with what the issue is.
HistoryIsTrue == HistoryTellsValues /\ TransitionsTellState
=============================================================================
