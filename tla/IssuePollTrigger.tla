-------------------------- MODULE IssuePollTrigger --------------------------
(***************************************************************************)
(* The polling trigger of the n8n node                                     *)
(* (n8n_node/nodes/IssuePollTrigger/IssuePollTrigger.node.ts): it lists    *)
(* the issues, emits those that changed after its watermark and moves the  *)
(* watermark.  The tracker stamps updated_at when a request saves an issue *)
(* and shows the row when the request commits.                             *)
(*                                                                         *)
(* Issues are numbered by their id.  A time counts the ticks of            *)
(* updated_at (microseconds); Date.parse keeps milliseconds, whereas the   *)
(* text of two times compares like the times themselves.                   *)
(***************************************************************************)
EXTENDS Integers, FiniteSets

CONSTANTS
  Issues,            \* their ids
  Profiles,          \* the configurations of the node that are looked at
  TicksPerMs,        \* ticks that Date.parse does not tell apart
  None,
  MaxClock           \* bound: ticks

\* emitExistingOnFirstPoll and loadFullIssueDetail, and whether a poll or a
\* later save may overtake a commit of the tracker.
Profile == [emitExisting : BOOLEAN, loadDetail : BOOLEAN, lateCommits : BOOLEAN]

ASSUME ConstantsAssumption ==
  /\ Issues \subseteq Nat /\ IsFiniteSet(Issues)
  /\ Profiles \subseteq Profile
  /\ TicksPerMs \in Nat \ {0}
  /\ MaxClock \in Nat \ {0}

Times == 1..MaxClock

\* An issue as the list shows it: its id and updated_at.
Version == Issues \X Times

VARIABLES
  profile,   \* never changes
  clock,
  listed,    \* the versions the filtered list of issues shows
  saved,     \* when each issue was last saved, 0 for never
  staged,    \* the saves that are not committed: the version, and whether it is listed
  mark,      \* staticData.lastUpdatedAt, 0 while unset
  markIds,   \* staticData.lastIssueIds
  answer,    \* the list a poll has been sent and not yet looked at, or None
  output,    \* the versions the last finished poll emitted
  seen,      \* every version emitted, or recorded by the first poll
  polled     \* has a poll finished?

vars == <<profile, clock, listed, saved, staged, mark, markIds, answer, output, seen, polled>>
poller == <<mark, markIds, answer, output, seen, polled>>
-----------------------------------------------------------------------------
Id(x) == x[1]
UpdatedAt(x) == x[2]

\* getIssueTimestamp
Millis(x) == UpdatedAt(x) \div TicksPerMs

\* The last of sortIssues: by millisecond, then by id.
LastOf(S) ==
  CHOOSE x \in S : \A y \in S : Millis(y) < Millis(x) \/ (Millis(y) = Millis(x) /\ Id(y) <= Id(x))

\* updateWatermark
Mark(S) == IF S = {} THEN mark ELSE UpdatedAt(LastOf(S))

\* Mutant: keeps the ids of the whole list.
AllIds(S) == IF S = {} THEN markIds ELSE {Id(x) : x \in S}

\* updateWatermark, the ids that share the watermark
MarkIds(S) == IF S = {} THEN markIds ELSE {Id(x) : x \in {y \in S : UpdatedAt(y) = UpdatedAt(LastOf(S))}}

\* Mutant: the ids at the watermark are forgotten.
IsNewOrAtMark(x) == UpdatedAt(x) >= mark

\* isNewIssue
IsNew(x) == UpdatedAt(x) > mark \/ (UpdatedAt(x) = mark /\ Id(x) \notin markIds)

Settled == profile.lateCommits \/ staged = {}
-----------------------------------------------------------------------------
Init ==
  /\ profile \in Profiles
  /\ clock = 1
  /\ listed = {}
  /\ saved = [i \in Issues |-> 0]
  /\ staged = {}
  /\ mark = 0
  /\ markIds = {}
  /\ answer = None
  /\ output = {}
  /\ seen = {}
  /\ polled = FALSE

Tick ==
  /\ clock < MaxClock
  /\ Settled
  /\ clock' = clock + 1
  /\ UNCHANGED <<profile, listed, saved, staged, poller>>

\* Issue.save: auto_now stamps the row, which after this save matches the
\* trigger's filters or does not.
Save(i, matches) ==
  /\ saved[i] < clock
  /\ \A w \in staged : Id(w.version) # i
  /\ saved' = [saved EXCEPT ![i] = clock]
  /\ staged' = staged \cup {[version |-> <<i, clock>>, matches |-> matches]}
  /\ UNCHANGED <<profile, clock, listed, poller>>

\* Mutant: the list repeats an issue.
CommitBeside(w) ==
  /\ listed' = listed \cup (IF w.matches THEN {w.version} ELSE {})
  /\ staged' = staged \ {w}
  /\ UNCHANGED <<profile, clock, saved, poller>>

\* The request commits: the issue's old version makes way for the new one.
Commit(w) ==
  /\ listed' = {x \in listed : Id(x) # Id(w.version)} \cup (IF w.matches THEN {w.version} ELSE {})
  /\ staged' = staged \ {w}
  /\ UNCHANGED <<profile, clock, saved, poller>>

\* GET /api/issues
Fetch ==
  /\ answer = None
  /\ Settled
  /\ answer' = listed
  /\ UNCHANGED <<profile, clock, listed, saved, staged, mark, markIds, output, seen, polled>>

\* The rest of the first poll, which only sets the watermark.
RecordOnly ==
  /\ answer # None
  /\ mark = 0 /\ ~profile.emitExisting
  /\ mark' = Mark(answer)
  /\ markIds' = MarkIds(answer)
  /\ output' = {}
  /\ seen' = IF polled THEN seen ELSE seen \cup answer
  /\ polled' = TRUE
  /\ answer' = None
  /\ UNCHANGED <<profile, clock, listed, saved, staged>>

\* The rest of a poll.  A request for the detail of an issue may fail, after
\* the watermark has moved.
Emit ==
  LET changed == IF mark = 0 THEN answer ELSE {x \in answer : IsNew(x)}
  IN /\ answer # None
     /\ mark # 0 \/ profile.emitExisting
     /\ mark' = Mark(answer)
     /\ markIds' = MarkIds(answer)
     /\ \/ output' = changed
        \/ profile.loadDetail /\ changed # {} /\ output' = {}
     /\ seen' = seen \cup output'
     /\ polled' = TRUE
     /\ answer' = None
     /\ UNCHANGED <<profile, clock, listed, saved, staged>>

Next ==
  \/ Tick
  \/ \E i \in Issues, matches \in BOOLEAN : Save(i, matches)
  \/ \E w \in staged : Commit(w)
  \/ Fetch \/ RecordOnly \/ Emit

Spec == Init /\ [][Next]_vars
-----------------------------------------------------------------------------
(* Correctness.                                                            *)

\* The shape of the state, and at most one listed version of each issue.
TypeOK ==
  /\ profile \in Profiles
  /\ clock \in Times
  /\ listed \subseteq Version
  /\ saved \in [Issues -> 0..MaxClock]
  /\ staged \subseteq [version : Version, matches : BOOLEAN]
  /\ mark \in 0..MaxClock
  /\ markIds \subseteq Issues
  /\ answer = None \/ answer \subseteq Version
  /\ output \subseteq Version
  /\ seen \subseteq Version
  /\ polled \in BOOLEAN
  /\ \A x, y \in listed : Id(x) = Id(y) => x = y

\* docs/user/n8n-node-reference.md:406: the trigger "does not emit unchanged
\* Issues again on every poll", although the watermark follows the list back
\* when its newest issues no longer match.
EmitsChangesOnly == [][answer # None /\ answer' = None => output' \cap seen = {}]_vars

\* What the code does instead: a version is emitted again only when it is later
\* than the watermark within the watermark's own millisecond, which sortIssues
\* cannot see and isNewIssue can.  Late commits, an empty first poll, details
\* that fail and a watermark that falls back with the list repeat nothing else.
RepeatsWithinMillisecond ==
  [][answer # None /\ answer' = None
       => \A x \in output' \cap seen :
            mark # 0 /\ UpdatedAt(x) > mark /\ Millis(x) = mark \div TicksPerMs]_vars

\* docs/user/n8n-node-reference.md:403: "the first poll only records the
\* watermark and later polls emit newly changed Issues": no version that a poll
\* was sent stays unreported by a node that emits existing issues, whose
\* requests for details succeed and whose tracker shows the saves in the order
\* of their times: issues that share a time with the watermark, and a watermark
\* that falls back with the list, lose nothing (updateWatermark, isNewIssue).
EmitsEveryOrderlyChange ==
  [][answer # None /\ answer' = None
       => ~profile.emitExisting \/ profile.loadDetail \/ profile.lateCommits
            \/ answer \subseteq seen']_vars
=============================================================================
