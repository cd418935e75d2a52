--------------------------- MODULE IssueRequests ---------------------------
(***************************************************************************)
(* The requests of several workers on the issue table, statement by        *)
(* statement.  PostgreSQL runs them at READ COMMITTED: a query sees what   *)
(* is committed and what its own transaction wrote, an UPDATE locks its    *)
(* row until the transaction ends, waits for the lock, sets its columns in *)
(* the row as it then is, and one of the workers that wait for each other  *)
(* in a circle is aborted.  Statements outside transaction.atomic commit   *)
(* at once.                                                                *)
(*                                                                         *)
(* IssueBoard has the same handlers as single actions, with assignments    *)
(* and the admin; here there are the requests of the board that write      *)
(* state, priority, position or the archive fields.                        *)
(***************************************************************************)
EXTENDS IssueTable

CONSTANTS
  Workers,       \* threads of the gunicorn workers
  States, BoardStates, Closed, Priorities,
  None,
  InitialSizes,  \* how many issues there may be at the start
  MaxIssues,     \* bound: issues ever created
  MaxRequests,   \* bound: requests
  MaxCrashes     \* bound: requests that end with their process

Row == [state : States, priority : Priorities, pos : Nat \ {0}, archived : BOOLEAN]

Ops == {"create", "update", "archive", "move"}

Steps == {"idle", "insert", "original", "fields", "transit", "archive", "vacate", "vacating",
          "occupy", "occupying"}

\* What a request remembers between its statements.
Request == [op     : Ops,
            pc     : Steps \ {"idle"},
            issue  : 0..MaxIssues,
            target : States,
            index  : Nat,
            orig   : Row,     \* the row as the request first, or update_issue again, read it
            mem    : Row,     \* the Issue instance
            todo   : SUBSET ((1..MaxIssues) \X Nat)]  \* positions it has still to save

ASSUME ConstantsAssumption ==
  /\ IsFiniteSet(Workers)
  /\ BoardStates \subseteq States
  /\ Closed \in States
  /\ MaxIssues \in Nat
  /\ InitialSizes \subseteq 0..MaxIssues
  /\ MaxRequests \in Nat /\ MaxCrashes \in Nat
  /\ None \notin Request

VARIABLES
  rows,      \* the committed table
  pending,   \* the rows each worker's transaction has written, and locks
  run,       \* each worker's request, or None
  requests,  \* how many there have been
  stored,    \* the IssueStateTransitions that the last step has stored
  entered,   \* pairs <<i, s>>: a stored transition took issue i to s, or it was created there
  overtaken, \* the workers on whose issue another one has committed since they loaded it
  answer,    \* the last request that ended: its operation, issue, outcome, events
  crashes

vars == <<rows, pending, run, requests, stored, entered, overtaken, answer, crashes>>
-----------------------------------------------------------------------------
(* Transactions.                                                           *)

NoRows == [i \in {} |-> None]

\* What a query of worker w sees.
View(w) == [i \in DOMAIN rows |-> IF i \in DOMAIN pending[w] THEN pending[w][i] ELSE rows[i]]

Owner(w, i) == {v \in Workers \ {w} : i \in DOMAIN pending[v]}

Free(w, i) == Owner(w, i) = {}

\* An UPDATE inside a transaction: r is what becomes of row i.
Write(w, i, r) ==
  /\ Free(w, i)
  /\ pending' = [pending EXCEPT ![w] = [j \in DOMAIN pending[w] \cup {i} |->
                                          IF j = i THEN r ELSE pending[w][j]]]
  /\ UNCHANGED <<rows, overtaken>>

\* The committed writes overtake the other requests on these rows.
Publish(w, writes) ==
  /\ rows' = [i \in DOMAIN rows \cup DOMAIN writes |->
                IF i \in DOMAIN writes THEN writes[i] ELSE rows[i]]
  /\ pending' = [pending EXCEPT ![w] = NoRows]
  /\ overtaken' = (overtaken \cup {v \in Workers : run[v] # None /\ run[v].issue \in DOMAIN writes}) \ {w}

\* An UPDATE that commits at once.
WriteThrough(w, i, r) == Free(w, i) /\ Publish(w, [j \in {i} |-> r])

\* Renumbering saves in the order of the new positions.
Due(r) == CHOOSE x \in r.todo : \A y \in r.todo : x[2] <= y[2]

Renumbering(r) == r.pc \in {"vacating", "occupying"} /\ r.todo # {}

\* The row worker w wants to write next.
Wanted(w) ==
  IF run[w] = None THEN {}
  ELSE IF Renumbering(run[w]) THEN {Due(run[w])[1]}
  ELSE IF run[w].pc \in {"fields", "transit", "archive"} THEN {run[w].issue}
  ELSE {}

WaitsFor(w) == UNION {Owner(w, i) : i \in Wanted(w)}

\* However a circle is cut in two, each side waits for the other.
Circle(C) == \A D \in SUBSET C : D \notin {{}, C} => \E v \in D : WaitsFor(v) \cap (C \ D) # {}

\* Who merely waits behind a circle is not aborted.
Deadlocked(w) == \E C \in SUBSET Workers : w \in C /\ C # {w} /\ Circle(C)
-----------------------------------------------------------------------------
(* Requests.                                                               *)

\* The positions to save, to get from table t to table u.
Changes(t, u) == {<<i, u[i].pos>> : i \in {j \in DOMAIN t : u[j].pos # t[j].pos}}

\* The events of a request: those of its transition, and issue.updated.
Events(w) ==
  LET old == run[w].orig
      new == run[w].mem
  IN IF run[w].op = "archive" THEN {}
     ELSE (IF new.state = Closed /\ old.state # Closed THEN {"closed"} ELSE {})
          \cup (IF new.state # old.state \/ new.priority # old.priority THEN {"updated"} ELSE {})

\* IssueStateTransition.objects.create
Store(i, from, to) ==
  /\ stored' = {<<i, from, to>>}
  /\ entered' = entered \cup {<<i, to>>}

StoreNothing == stored' = {} /\ UNCHANGED entered

Begin(w, r) ==
  /\ run[w] = None
  /\ requests < MaxRequests
  /\ requests' = requests + 1
  /\ run' = [run EXCEPT ![w] = r]
  /\ StoreNothing
  /\ UNCHANGED <<rows, pending, overtaken, answer, crashes>>

Become(w, r) == run' = [run EXCEPT ![w] = r] /\ UNCHANGED <<requests, answer, crashes>>

Answer(w, i, ok, events) ==
  /\ run' = [run EXCEPT ![w] = None]
  /\ answer' = [op |-> run[w].op, issue |-> i, ok |-> ok, events |-> events]
  /\ UNCHANGED <<requests, crashes>>

\* get_issue: an archived issue is not found.
Loaded(op, pc, i, s, index, mem) ==
  [op |-> op, pc |-> pc, issue |-> i, target |-> s, index |-> index,
   orig |-> IF i = 0 THEN mem ELSE rows[i], mem |-> mem, todo |-> {}]

\* Mutant: save does not number a new issue.
StartCreateUnnumbered(w, s, p) ==
  Begin(w, Loaded("create", "insert", 0, s, 0,
                  [state |-> s, priority |-> p, pos |-> 0, archived |-> FALSE]))

\* create_issue: save reads the next position, ...
StartCreate(w, s, p) ==
  Begin(w, Loaded("create", "insert", 0, s, 0,
                  [state |-> s, priority |-> p, pos |-> NextPosition(rows, <<s, p>>), archived |-> FALSE]))

\* ... and inserts the row.
Insert(w) ==
  LET i == Cardinality(DOMAIN rows) + 1
  IN /\ run[w].pc = "insert"
     /\ i <= MaxIssues
     /\ Publish(w, [j \in {i} |-> run[w].mem])
     /\ entered' = entered \cup {<<i, run[w].mem.state>>}
     /\ stored' = {}
     /\ Answer(w, i, TRUE, {"created"})

\* The update form writes its values into the instance, the state included.
StartUpdate(w, i, s, p) ==
  /\ i \in Live(rows)
  /\ Begin(w, Loaded("update", "original", i, s, MaxIssues, [rows[i] EXCEPT !.state = s, !.priority = p]))

StartArchive(w, i) ==
  /\ i \in Live(rows)
  /\ Begin(w, Loaded("archive", "archive", i, rows[i].state, 0, rows[i]))

StartMove(w, i, s, index) ==
  /\ i \in Live(rows)
  /\ Begin(w, Loaded("move", IF s = rows[i].state THEN "occupy" ELSE "transit", i, s, index, rows[i]))

\* Mutant: the instance keeps the state the form has given it.
ReadOriginalOnly(w) ==
  /\ run[w].pc = "original"
  /\ Become(w, [run[w] EXCEPT !.orig = rows[run[w].issue], !.pc = "fields"])
  /\ StoreNothing
  /\ UNCHANGED <<rows, pending, overtaken>>

\* update_issue reads the row again, and takes the instance back to its state.
ReadOriginal(w) ==
  LET now == rows[run[w].issue]
  IN /\ run[w].pc = "original"
     /\ Become(w, [run[w] EXCEPT !.orig = now, !.mem.state = now.state, !.pc = "fields"])
     /\ StoreNothing
     /\ UNCHANGED <<rows, pending, overtaken>>

\* issue.save() of all columns.  What follows depends on the row read before.
SaveFields(w) ==
  LET r == run[w]
  IN /\ r.pc = "fields"
     /\ WriteThrough(w, r.issue, r.mem)
     /\ IF r.target # r.orig.state THEN Become(w, [r EXCEPT !.pc = "transit"])
        ELSE IF r.mem.priority # r.orig.priority THEN Become(w, [r EXCEPT !.pc = "vacate"])
        ELSE Answer(w, r.issue, TRUE, Events(w))
     /\ StoreNothing

\* Mutant: update_issue is one transaction.
TransitInTransaction(w) ==
  LET r == run[w]
      saved == [r.mem EXCEPT !.state = r.target]
  IN /\ r.pc = "transit"
     /\ Write(w, r.issue, saved)
     /\ IF r.op = "update" THEN Store(r.issue, r.mem.state, r.target) ELSE StoreNothing
     /\ Become(w, [r EXCEPT !.mem = saved, !.pc = "vacate"])

\* update_workflow_state saves all columns too.  In update_issue it is a
\* transaction of its own, in move_on_board the beginning of one.
Transit(w) ==
  LET r == run[w]
      saved == [r.mem EXCEPT !.state = r.target]
  IN /\ r.pc = "transit"
     /\ \/ /\ r.op = "update"
           /\ WriteThrough(w, r.issue, saved)
           /\ Store(r.issue, r.mem.state, r.target)
        \/ /\ r.op = "move"
           /\ Write(w, r.issue, saved)
           /\ StoreNothing
     /\ Become(w, [r EXCEPT !.mem = saved, !.pc = "vacate"])

\* archive saves the archive fields only.
SaveArchived(w) ==
  LET r == run[w]
  IN /\ r.pc = "archive"
     /\ Write(w, r.issue, [rows[r.issue] EXCEPT !.archived = TRUE])
     /\ Become(w, [r EXCEPT !.pc = "vacate"])
     /\ StoreNothing

\* Mutant: normalises the band that the instance is in by now.
VacateCurrent(w) ==
  LET r == run[w]
      t == View(w)
  IN /\ r.pc = "vacate"
     /\ Become(w, [r EXCEPT !.pc = "vacating",
                            !.todo = Changes(t, NormalizeBand(t, Band([i \in {r.issue} |-> r.mem], r.issue),
                                                              r.issue))])
     /\ StoreNothing
     /\ UNCHANGED <<rows, pending, overtaken>>

\* _normalize_band reads the band the issue was in.
Vacate(w) ==
  LET r == run[w]
      t == View(w)
  IN /\ r.pc = "vacate"
     /\ Become(w, [r EXCEPT !.pc = "vacating",
                            !.todo = Changes(t, NormalizeBand(t, Band([i \in {r.issue} |-> r.orig], r.issue),
                                                              r.issue))])
     /\ StoreNothing
     /\ UNCHANGED <<rows, pending, overtaken>>

\* _insert_into_band reads the band the issue is in now.  sync_board_position
\* has set the position of the instance to 0.
Occupy(w) ==
  LET r == run[w]
      self == IF r.op = "update" THEN [r.mem EXCEPT !.pos = 0] ELSE r.mem
      t == [View(w) EXCEPT ![r.issue] = self]
  IN /\ r.pc = "occupy" \/ (r.pc = "vacating" /\ r.todo = {} /\ r.op # "archive")
     /\ Become(w, [r EXCEPT !.pc = "occupying",
                            !.todo = Changes(t, InsertIntoBand(t, r.issue, r.index))])
     /\ StoreNothing
     /\ UNCHANGED <<rows, pending, overtaken>>

\* Mutant: save without update_fields writes the row as it was read.
SavePositionOfStaleRow(w) ==
  LET r == run[w]
      x == Due(r)
      read == IF r.pc = "vacating" THEN r.orig ELSE r.mem
  IN /\ Renumbering(r)
     /\ Write(w, x[1], [read EXCEPT !.pos = x[2]])
     /\ Become(w, [r EXCEPT !.todo = @ \ {x}])
     /\ StoreNothing

\* save(update_fields=["board_position", "updated_at"]) of the next row.
SavePosition(w) ==
  LET r == run[w]
      x == Due(r)
  IN /\ Renumbering(r)
     /\ Write(w, x[1], [View(w)[x[1]] EXCEPT !.pos = x[2]])
     /\ Become(w, [r EXCEPT !.todo = @ \ {x}])
     /\ StoreNothing

\* The transaction commits, with the transition of a move.
Commit(w) ==
  LET r == run[w]
      last == IF r.op = "archive" THEN "vacating" ELSE "occupying"
  IN /\ r.pc = last /\ r.todo = {}
     /\ Publish(w, pending[w])
     /\ IF r.op = "move" /\ r.target # r.orig.state
        THEN Store(r.issue, r.orig.state, r.target) ELSE StoreNothing
     /\ Answer(w, r.issue, TRUE, Events(w))

\* The transaction is rolled back and the request fails.
RollBack(w) ==
  /\ pending' = [pending EXCEPT ![w] = NoRows]
  /\ run' = [run EXCEPT ![w] = None]
  /\ answer' = [op |-> run[w].op, issue |-> run[w].issue, ok |-> FALSE, events |-> {}]
  /\ overtaken' = overtaken \ {w}
  /\ StoreNothing
  /\ UNCHANGED <<rows, requests>>

BreakDeadlock(w) == Deadlocked(w) /\ RollBack(w) /\ UNCHANGED crashes

Crash(w) ==
  /\ run[w] # None
  /\ crashes < MaxCrashes
  /\ crashes' = crashes + 1
  /\ RollBack(w)
-----------------------------------------------------------------------------
\* Tables the handlers leave behind one at a time: dense bands.
Dense(t) == \A b \in States \X Priorities : {t[i].pos : i \in InBand(t, b)} = 1..Cardinality(InBand(t, b))

Init ==
  /\ \E n \in InitialSizes :
       rows \in {t \in [1..n -> [state : States, priority : Priorities, pos : 1..n, archived : {FALSE}]] :
                   Dense(t)}
  /\ pending = [w \in Workers |-> NoRows]
  /\ run = [w \in Workers |-> None]
  /\ requests = 0
  /\ stored = {}
  /\ entered = {<<i, rows[i].state>> : i \in DOMAIN rows}
  /\ overtaken = {}
  /\ answer = [op |-> "none", issue |-> 0, ok |-> TRUE, events |-> {}]
  /\ crashes = 0

Start(w) ==
  \/ \E s \in States, p \in Priorities :
       \/ StartCreate(w, s, p)
       \/ \E i \in DOMAIN rows : StartUpdate(w, i, s, p)
  \/ \E i \in DOMAIN rows :
       \/ StartArchive(w, i)
       \/ \E s \in BoardStates, index \in 0..MaxIssues : StartMove(w, i, s, index)

Step(w) ==
  /\ run[w] # None
  /\ \/ Insert(w) \/ ReadOriginal(w) \/ SaveFields(w) \/ Transit(w) \/ SaveArchived(w)
     \/ Vacate(w) \/ Occupy(w) \/ SavePosition(w) \/ Commit(w)

Next == \E w \in Workers : Start(w) \/ Step(w) \/ BreakDeadlock(w) \/ Crash(w)

Spec == Init /\ [][Next]_vars
-----------------------------------------------------------------------------
(* Correctness.                                                            *)

\* The shape of the table, of the transactions and of the requests.
TypeOK ==
  /\ DOMAIN rows \subseteq 1..MaxIssues /\ rows \in [DOMAIN rows -> Row]
  /\ \A w \in Workers :
       /\ DOMAIN pending[w] \subseteq DOMAIN rows
       /\ pending[w] \in [DOMAIN pending[w] -> Row]
       /\ run[w] = None \/ run[w] \in Request
       /\ run[w] = None => pending[w] = NoRows
  /\ \A v, w \in Workers : v # w => DOMAIN pending[v] \cap DOMAIN pending[w] = {}
  /\ requests \in 0..MaxRequests /\ crashes \in 0..MaxCrashes
  /\ stored \subseteq (1..MaxIssues) \X States \X States
  /\ entered \subseteq (1..MaxIssues) \X States
  /\ overtaken \subseteq Workers

\* Overlapping requests write positions they read from different tables; still
\* none exceeds the number of issues.
PositionsBounded == \A i \in DOMAIN rows : rows[i].pos \in 1..Cardinality(DOMAIN rows)

\* A request changes state, priority and archive fields of its own issue alone:
\* renumbering saves board_position only, and does not undo what another
\* request has committed meanwhile to a sibling (_normalize_band,
\* _insert_into_band).
OnlySubjectChanges ==
  [][\A i \in DOMAIN rows :
       [rows'[i] EXCEPT !.pos = 0] # [rows[i] EXCEPT !.pos = 0] =>
         \E w \in Workers : run[w] # None /\ run'[w] # run[w] /\ run[w].issue = i]_vars

\* A step that takes issue i from one state to another stores the transition.
StoredNow(i) == <<i, rows[i].state, rows'[i].state>> \in stored'

\* A state that changes without a transition to say so, and an issue that comes
\* back from the archive, are the work of a whole-row save by a request whose
\* issue another request has written since it was loaded: without such an
\* overlap nothing is undone.
UndoingNeedsOverlap ==
  [][\A i \in DOMAIN rows :
       \/ rows'[i].state # rows[i].state /\ ~StoredNow(i)
       \/ rows[i].archived /\ ~rows'[i].archived
       => \E w \in overtaken : run[w].issue = i /\ run'[w] # run[w]]_vars

\* Whatever is undone, an issue is only ever in the state it was created in or
\* in one that a stored transition took it to.
StatesAreReached == \A i \in DOMAIN rows : <<i, rows[i].state>> \in entered

\* Rows that overlapping requests write from stale reads are still such as one
\* request at a time could have left.
StaleWritesStayInBounds == PositionsBounded /\ StatesAreReached

\* Only requests that renumber are aborted.  An update that is has stored its
\* fields and its transition before, each on its own (update_issue): unless
\* another request has written the issue since, the table has what the form
\* asked for, although the request fails.
VictimsRenumber ==
  \A w \in Workers : Deadlocked(w) =>
    /\ Renumbering(run[w])
    /\ run[w].op = "update" /\ w \notin overtaken =>
         [rows[run[w].issue] EXCEPT !.pos = 0] = [run[w].mem EXCEPT !.pos = 0, !.state = run[w].target]

\* Of requests that wait for nobody but each other, one goes on or is aborted:
\* nobody waits for a lock whose request has ended.
SomebodyGoesOn ==
  \A C \in SUBSET Workers :
    (\A v \in C : WaitsFor(v) \subseteq C) /\ (\E v \in C : run[v] # None) =>
      \E v \in C : run[v] # None /\ (WaitsFor(v) = {} \/ Deadlocked(v))

\* Requests that lock the rows of a band in different orders wait for each
\* other (_normalize_band, _insert_into_band): what that may cost, and that it
\* ends.
DeadlocksCostPositionsOnly == VictimsRenumber /\ SomebodyGoesOn

\* docs/development/issue-lifecycle-and-attachments.md:138: "Every lifecycle
\* change should be stored as an Issue State Transition."
LifecycleChangesAreStored ==
  [][\A i \in DOMAIN rows : rows'[i].state # rows[i].state => StoredNow(i)]_vars
=============================================================================
