------------------------- MODULE IssueRequestsProofs -------------------------
(***************************************************************************)
(* Theorems about IssueRequests for any number of workers, requests and    *)
(* issues: however the statements of requests interleave, positions stay   *)
(* within bounds, a request changes its own issue alone, and only one that *)
(* another request has overtaken undoes what it does not know.  And of     *)
(* IssueRequestsAlone: when requests follow one another, a handler's       *)
(* statements amount to its action in IssueBoard.                          *)
(***************************************************************************)
EXTENDS IssueRequestsAlone, IssueTableProofs

\* How many issues there are; their keys count from 1.
Size == Cardinality(DOMAIN rows)

\* No position in the table exceeds that number.
TableFits ==
  /\ rows \in [DOMAIN rows -> Row]
  /\ DOMAIN rows = 1..Size /\ Size \in 0..MaxIssues
  /\ \A i \in DOMAIN rows : rows[i].pos \in 1..Size

\* A request is at a step of its operation.
StepFits(r) ==
  /\ r.op = "create" <=> r.pc = "insert"
  /\ r.pc \in {"original", "fields"} => r.op = "update"
  /\ r.pc = "transit" => r.op \in {"update", "move"}
  /\ r.op = "archive" => r.pc \in {"archive", "vacate", "vacating"}
  /\ r.pc = "archive" => r.op = "archive"

\* The positions that its instance has and that it is about to save are none
\* that exceed the number of issues, with the one it may insert.
PositionsFit(r) ==
  IF r.op = "create" THEN r.issue = 0 /\ r.mem.pos \in 1..(Size + 1) /\ r.todo = {}
  ELSE r.issue \in DOMAIN rows /\ r.mem.pos \in 1..Size /\ r.todo \subseteq (1..Size) \X (1..Size)

\* Two rows that differ in their positions at most.
Same(r, q) == r.state = q.state /\ r.priority = q.priority /\ r.archived = q.archived

\* The request moves its issue to another column.
Moves(r) == r.op = "move" /\ r.target # r.orig.state

\* The transaction of worker w has written rows that differ from those of the
\* table only where its own issue is concerned.
WritesFit(w) ==
  /\ pending[w] \in [DOMAIN pending[w] -> Row] /\ DOMAIN pending[w] \subseteq DOMAIN rows
  /\ \A i \in DOMAIN pending[w] :
       /\ pending[w][i].pos \in 1..Size
       /\ i # run[w].issue \/ run[w].op = "update" => Same(pending[w][i], rows[i])
       /\ run[w].op = "archive" => /\ pending[w][i].state = rows[i].state
                                   /\ rows[i].archived => pending[w][i].archived
       /\ \/ <<i, pending[w][i].state>> \in entered
          \/ i = run[w].issue /\ Moves(run[w]) /\ pending[w][i].state = run[w].target

\* Unless another request has committed a write of its issue, a request knows
\* what it overwrites.
Knows(w) ==
  w \notin overtaken =>
    /\ run[w].op \in {"update", "move"} => rows[run[w].issue].archived = run[w].mem.archived
    /\ run[w].op = "update" /\ run[w].pc \in {"fields", "transit"} =>
         rows[run[w].issue].state = run[w].mem.state
    /\ run[w].op = "move" => rows[run[w].issue].state = run[w].orig.state
    /\ run[w].op = "move" /\ run[w].issue \in DOMAIN pending[w] =>
         /\ pending[w][run[w].issue].archived = rows[run[w].issue].archived
         /\ pending[w][run[w].issue].state = run[w].target

\* All this of one worker.
WorkerFits(w) ==
  IF run[w] = None THEN pending[w] = NoRows
  ELSE /\ run[w] \in Request /\ StepFits(run[w]) /\ PositionsFit(run[w])
       /\ WritesFit(w) /\ Knows(w)
       /\ run[w].pc = "fields" => <<run[w].issue, run[w].mem.state>> \in entered
       /\ Moves(run[w]) => run[w].pc = "transit" \/ run[w].issue \in DOMAIN pending[w]
       /\ run[w].pc = "transit" /\ run[w].op = "move" => Moves(run[w])

\* The rest of the bookkeeping.
Counted ==
  /\ pending = [w \in Workers |-> pending[w]] /\ run = [w \in Workers |-> run[w]]
  /\ \A v, w \in Workers : v # w => DOMAIN pending[v] \cap DOMAIN pending[w] = {}
  /\ requests \in 0..MaxRequests /\ crashes \in 0..MaxCrashes
  /\ stored \subseteq (1..MaxIssues) \X States \X States
  /\ entered \subseteq (1..MaxIssues) \X States
  /\ overtaken \subseteq Workers

\* The invariant.
RequestsInv == Counted /\ TableFits /\ StatesAreReached /\ \A w \in Workers : WorkerFits(w)
-----------------------------------------------------------------------------
(* Rows and requests.                                                      *)

\* The fields of a row.
LEMMA RowFields ==
  ASSUME NEW r \in Row
  PROVE  /\ r.state \in States /\ r.priority \in Priorities /\ r.pos \in Nat \ {0}
         /\ r.archived \in BOOLEAN
  BY DEF Row

\* A row in another state.
LEMMA RowMoved ==
  ASSUME NEW r \in Row, NEW s \in States, NEW q, q = [r EXCEPT !.state = s]
  PROVE  q \in Row /\ q.state = s /\ q.pos = r.pos /\ q.archived = r.archived
  BY DEF Row

\* Rows that differ in their positions at most.
LEMMA SameRows ==
  ASSUME NEW r \in Row, NEW q \in Row
  PROVE  Same(r, q) => [r EXCEPT !.pos = 0] = [q EXCEPT !.pos = 0]
  BY DEF Row, Same

\* The fields of a request.
LEMMA RequestFields ==
  ASSUME NEW r \in Request
  PROVE  /\ r.op \in Ops /\ r.pc \in Steps \ {"idle"} /\ r.issue \in 0..MaxIssues
         /\ r.target \in States /\ r.index \in Nat /\ r.orig \in Row /\ r.mem \in Row
         /\ r.todo \in SUBSET ((1..MaxIssues) \X Nat)
  BY DEF Request

\* Of the positions to save the least is due.
LEMMA DueIsOne ==
  ASSUME NEW r \in Request, r.todo # {}
  PROVE  Due(r) \in r.todo
<1> DEFINE T == {x[2] : x \in r.todo}
<1>1. r.todo \subseteq (1..MaxIssues) \X Nat BY RequestFields
<1>2. \A x \in r.todo : x[2] \in Nat BY <1>1
<1>3. T \subseteq Nat /\ T # {} BY <1>2
<1>4. PICK m \in T : \A k \in T : ~ (<<k, m>> \in OpToRel(<, Nat))
  BY <1>3, NatLessThanWellFounded, WFMin
<1>5. m \in Nat /\ \A k \in T : ~ (k < m) BY <1>3, <1>4 DEF OpToRel
<1>6. PICK x \in r.todo : x[2] = m OBVIOUS
<1>7. \A y \in r.todo : x[2] <= y[2]
  <2>1. TAKE y \in r.todo
  <2>2. y[2] \in T /\ y[2] \in Nat BY <1>2
  <2> QED BY <1>5, <1>6, <2>2
<1>8. \E z \in r.todo : \A y \in r.todo : z[2] <= y[2] BY <1>7
<1> QED BY <1>8 DEF Due

-----------------------------------------------------------------------------
(* Steps of one worker.                                                    *)

\* What worker w has.
LEMMA WorkerShape ==
  ASSUME ConstantsAssumption, RequestsInv, NEW w \in Workers, run[w] # None
  PROVE  /\ run[w] \in Request /\ StepFits(run[w]) /\ PositionsFit(run[w]) /\ WritesFit(w) /\ Knows(w)
         /\ run[w].pc = "fields" => <<run[w].issue, run[w].mem.state>> \in entered
         /\ Moves(run[w]) => run[w].pc = "transit" \/ run[w].issue \in DOMAIN pending[w]
         /\ run[w].pc = "transit" /\ run[w].op = "move" => Moves(run[w])
  BY DEF RequestsInv, WorkerFits

\* The table has rows.
LEMMA TableShape ==
  ASSUME TableFits
  PROVE  /\ Size \in Nat /\ \A i \in DOMAIN rows : rows[i] \in Row /\ rows[i].pos \in 1..Size
         /\ DOMAIN rows = 1..Size
         /\ ConstantsAssumption => 1..Size \subseteq 1..MaxIssues
<1>1. Size \in Nat /\ DOMAIN rows = 1..Size BY DEF TableFits
<1>2. \A i \in DOMAIN rows : rows[i] \in Row /\ rows[i].pos \in 1..Size BY DEF TableFits
<1>3. ConstantsAssumption => 1..Size \subseteq 1..MaxIssues BY <1>1 DEF TableFits, ConstantsAssumption
<1> QED BY <1>1, <1>2, <1>3

\* What a transaction has written are rows; without a request there are none.
LEMMA PendingShape ==
  ASSUME RequestsInv, NEW w \in Workers
  PROVE  /\ DOMAIN pending[w] \subseteq DOMAIN rows
         /\ \A i \in DOMAIN pending[w] : pending[w][i] \in Row /\ pending[w][i].pos \in 1..Size
<1>1. CASE run[w] = None BY <1>1 DEF RequestsInv, WorkerFits, NoRows
<1>2. CASE run[w] # None BY <1>2 DEF RequestsInv, WorkerFits, WritesFit
<1> QED BY <1>1, <1>2

\* A step of w leaves what the other workers have.
OthersStay(w) ==
  /\ \A v \in Workers \ {w} : run'[v] = run[v] /\ pending'[v] = pending[v]
  /\ pending' = [v \in Workers |-> pending'[v]] /\ run' = [v \in Workers |-> run'[v]]

\* A step that sets what w has leaves the others.
LEMMA OneWorker ==
  ASSUME RequestsInv, NEW w \in Workers, NEW q, run' = [run EXCEPT ![w] = q],
         pending' = pending \/ \E p : pending' = [pending EXCEPT ![w] = p]
  PROVE  OthersStay(w) /\ run'[w] = q
  BY DEF RequestsInv, Counted, OthersStay

\* The others keep fitting the table when a step of w writes no row that they
\* have written, and overtakes those whose issue it writes.
LEMMA OthersFit ==
  ASSUME ConstantsAssumption, RequestsInv, NEW w \in Workers, OthersStay(w),
         entered \subseteq entered', Size' \in Nat, Size <= Size', DOMAIN rows \subseteq DOMAIN rows',
         \A v \in Workers \ {w} : \A i \in DOMAIN pending[v] : rows'[i] = rows[i],
         \A v \in Workers \ {w} : run[v] # None /\ v \notin overtaken' =>
           v \notin overtaken /\ (run[v].issue \in DOMAIN rows => rows'[run[v].issue] = rows[run[v].issue])
  PROVE  \A v \in Workers \ {w} : WorkerFits(v)'
<1> SUFFICES ASSUME NEW v \in Workers \ {w} PROVE WorkerFits(v)'
  OBVIOUS
<1>1. run'[v] = run[v] /\ pending'[v] = pending[v] BY DEF OthersStay
<1>2. CASE run[v] = None BY <1>1, <1>2 DEF RequestsInv, WorkerFits
<1>3. CASE run[v] # None
  <2>1. /\ run[v] \in Request /\ StepFits(run[v]) /\ PositionsFit(run[v]) /\ WritesFit(v) /\ Knows(v)
        /\ run[v].pc = "fields" => <<run[v].issue, run[v].mem.state>> \in entered
        /\ Moves(run[v]) => run[v].pc = "transit" \/ run[v].issue \in DOMAIN pending[v]
        /\ run[v].pc = "transit" /\ run[v].op = "move" => Moves(run[v])
    BY <1>3, WorkerShape
  <2>2. Size \in Nat /\ 1..Size \subseteq 1..Size' /\ 1..(Size + 1) \subseteq 1..(Size' + 1)
    BY TableShape DEF RequestsInv
  <2>3. PositionsFit(run[v])'
    <3>1. CASE run[v].op = "create" BY <1>1, <2>1, <2>2, <3>1 DEF PositionsFit
    <3>2. CASE run[v].op # "create"
      <4>1. run[v].todo \subseteq (1..Size) \X (1..Size) /\ run[v].issue \in DOMAIN rows
            /\ run[v].mem.pos \in 1..Size
        BY <2>1, <3>2 DEF PositionsFit
      <4>2. run[v].todo \subseteq (1..Size') \X (1..Size') BY <2>2, <4>1
      <4> QED BY <1>1, <2>2, <3>2, <4>1, <4>2 DEF PositionsFit
    <3> QED BY <3>1, <3>2
  <2>4. WritesFit(v)' BY <1>1, <2>1, <2>2 DEF WritesFit, Moves
  <2>5. StepFits(run[v])' BY <1>1, <2>1 DEF StepFits
  <2>6. Knows(v)'
    <3> SUFFICES ASSUME v \notin overtaken' PROVE Knows(v)' BY DEF Knows
    <3>1. CASE run[v].issue \in DOMAIN rows
      <4>1. v \notin overtaken /\ rows'[run[v].issue] = rows[run[v].issue] BY <1>3, <3>1
      <4> QED BY <1>1, <2>1, <4>1 DEF Knows
    <3>2. CASE run[v].issue \notin DOMAIN rows
      <4>1. run[v].op = "create" BY <2>1, <3>2 DEF PositionsFit
      <4> QED BY <1>1, <4>1 DEF Knows
    <3> QED BY <3>1, <3>2
  <2> QED BY <1>1, <1>3, <2>1, <2>3, <2>4, <2>5, <2>6 DEF WorkerFits, Moves
<1> QED BY <1>2, <1>3

\* No two transactions have written a row: w has none besides those it had and
\* free ones.
LEMMA StillApart ==
  ASSUME RequestsInv, NEW w \in Workers, OthersStay(w),
         \A i \in DOMAIN pending'[w] : i \in DOMAIN pending[w] \/ Free(w, i)
  PROVE  \A v, u \in Workers : v # u => DOMAIN pending'[v] \cap DOMAIN pending'[u] = {}
<1>1. \A v, u \in Workers : v # u => DOMAIN pending[v] \cap DOMAIN pending[u] = {}
  BY DEF RequestsInv, Counted
<1>2. \A v \in Workers \ {w} : DOMAIN pending'[w] \cap DOMAIN pending[v] = {}
  BY <1>1 DEF Free, Owner
<1> QED BY <1>1, <1>2 DEF OthersStay

\* A step that leaves the table alone needs to fit on w's side only.
LEMMA TableStays ==
  ASSUME ConstantsAssumption, RequestsInv, NEW w \in Workers, OthersStay(w), WorkerFits(w)',
         \A i \in DOMAIN pending'[w] : i \in DOMAIN pending[w] \/ Free(w, i),
         rows' = rows, overtaken' = overtaken \/ overtaken' = overtaken \ {w}, StoreNothing,
         requests' \in 0..MaxRequests, crashes' \in 0..MaxCrashes
  PROVE  RequestsInv'
<1>1. Size' = Size /\ TableFits' BY DEF Size, TableFits, RequestsInv
<1>2. StatesAreReached' BY DEF RequestsInv, StatesAreReached, StoreNothing
<1>3. entered' = entered /\ stored' = {} BY DEF StoreNothing
<1>4. \A v \in Workers \ {w} : WorkerFits(v)'
  BY <1>1, <1>3, OthersFit, TableShape DEF RequestsInv
<1>5. Counted'
  BY <1>3, StillApart DEF RequestsInv, Counted, OthersStay
<1> QED BY <1>1, <1>2, <1>4, <1>5 DEF RequestsInv

\* The same for a step that puts rows into the table.
LEMMA TableWritten ==
  ASSUME ConstantsAssumption, RequestsInv, NEW w \in Workers, NEW W, Publish(w, W),
         DOMAIN W \subseteq DOMAIN rows, \A i \in DOMAIN W : W[i] \in Row /\ W[i].pos \in 1..Size,
         \A i \in DOMAIN W : i \in DOMAIN pending[w] \/ Free(w, i),
         \A i \in DOMAIN W : <<i, W[i].state>> \in entered',
         NEW q, run' = [run EXCEPT ![w] = q], WorkerFits(w)',
         entered \subseteq entered', entered' \subseteq (1..MaxIssues) \X States,
         stored' \subseteq (1..MaxIssues) \X States \X States,
         requests' \in 0..MaxRequests, crashes' \in 0..MaxCrashes
  PROVE  RequestsInv'
<1>1. /\ DOMAIN rows' = DOMAIN rows
      /\ \A i \in DOMAIN rows : rows'[i] = IF i \in DOMAIN W THEN W[i] ELSE rows[i]
      /\ rows' = [i \in DOMAIN rows' |-> rows'[i]]
  BY DEF Publish
<1>2. Size' = Size BY <1>1 DEF Size
<1>3. /\ overtaken' = (overtaken \cup {v \in Workers : run[v] # None /\ run[v].issue \in DOMAIN W}) \ {w}
      /\ pending' = [pending EXCEPT ![w] = NoRows]
  BY DEF Publish
<1>4. OthersStay(w) /\ pending'[w] = NoRows
  BY <1>3, OneWorker DEF RequestsInv, Counted
<1>5. TableFits'
  <2>1. \A i \in DOMAIN rows : rows'[i] \in Row /\ rows'[i].pos \in 1..Size
    BY <1>1, TableShape DEF RequestsInv
  <2> QED BY <1>1, <1>2, <2>1 DEF RequestsInv, TableFits
<1>6. StatesAreReached' BY <1>1 DEF RequestsInv, StatesAreReached
<1>7. \A v \in Workers \ {w} : WorkerFits(v)'
  <2>1. \A v \in Workers \ {w} : \A i \in DOMAIN pending[v] : i \notin DOMAIN W
    BY DEF RequestsInv, Counted, Free, Owner
  <2>2. \A v \in Workers \ {w} : \A i \in DOMAIN pending[v] : rows'[i] = rows[i]
    BY <1>1, <2>1, PendingShape
  <2>3. Size' \in Nat /\ Size <= Size' BY <1>2, TableShape DEF RequestsInv
  <2> QED BY <1>1, <1>3, <1>4, <2>2, <2>3, OthersFit
<1>8. Counted'
  <2>1. DOMAIN pending'[w] = {} BY <1>4 DEF NoRows
  <2> QED BY <1>3, <1>4, <2>1, StillApart DEF RequestsInv, Counted, OthersStay
<1> QED BY <1>5, <1>6, <1>7, <1>8 DEF RequestsInv

-----------------------------------------------------------------------------
(* Requests begin.                                                         *)

\* A request that fits begins.
LEMMA Begins ==
  ASSUME ConstantsAssumption, RequestsInv, NEW w \in Workers, NEW r \in Request, Begin(w, r),
         StepFits(r), PositionsFit(r), r.pc # "fields",
         Moves(r) => r.pc = "transit", r.pc = "transit" /\ r.op = "move" => Moves(r),
         r.op \in {"update", "move"} => rows[r.issue].archived = r.mem.archived,
         r.op = "update" => r.pc # "transit",
         r.op = "move" => rows[r.issue].state = r.orig.state
  PROVE  RequestsInv' /\ run'[w] \in Request
<1>1. /\ run[w] = None /\ run' = [run EXCEPT ![w] = r]
      /\ requests' = requests + 1 /\ requests < MaxRequests
      /\ StoreNothing /\ UNCHANGED <<rows, pending, overtaken, answer, crashes>>
  BY DEF Begin
<1>2. OthersStay(w) /\ run'[w] = r BY <1>1, OneWorker
<1>3. pending'[w] = NoRows /\ DOMAIN NoRows = {} BY <1>1 DEF RequestsInv, WorkerFits, NoRows
<1>4. Size' = Size BY <1>1 DEF Size
<1>5. WritesFit(w)' /\ Knows(w)' BY <1>1, <1>2, <1>3 DEF WritesFit, Knows, NoRows
<1>6. StepFits(r)' /\ PositionsFit(r)' BY <1>1, <1>4 DEF StepFits, PositionsFit
<1>7. WorkerFits(w)'
  BY <1>2, <1>5, <1>6, ConstantsAssumption DEF WorkerFits, StepFits, PositionsFit, Moves
<1>8. requests' \in 0..MaxRequests /\ crashes' \in 0..MaxCrashes
  BY <1>1, ConstantsAssumption DEF RequestsInv, Counted
<1> QED BY <1>1, <1>2, <1>3, <1>7, <1>8, TableStays

\* An issue that is loaded.
LEMMA LiveShape ==
  ASSUME ConstantsAssumption, RequestsInv, NEW i \in Live(rows)
  PROVE  /\ i \in DOMAIN rows /\ i \in 0..MaxIssues /\ i # 0
         /\ rows[i] \in Row /\ rows[i].pos \in 1..Size /\ ~rows[i].archived
<1>1. i \in DOMAIN rows /\ ~rows[i].archived BY DEF Live
<1> QED BY <1>1, TableShape DEF RequestsInv

\* create_issue begins with a position after all.
LEMMA StartCreateStep ==
  ASSUME ConstantsAssumption, RequestsInv, NEW w \in Workers, NEW s \in States, NEW p \in Priorities,
         StartCreate(w, s, p)
  PROVE  RequestsInv' /\ run'[w] \in Request
<1>1. PICK k : k = NextPosition(rows, <<s, p>>) OBVIOUS
<1>2. PICK m : m = [state |-> s, priority |-> p, pos |-> k, archived |-> FALSE] OBVIOUS
<1>3. PICK r : r = Loaded("create", "insert", 0, s, 0, m) OBVIOUS
<1>4. k \in 1..(Size + 1)
  <2>1. Size \in Nat /\ \A j \in DOMAIN rows : rows[j].pos \in 0..Size
    BY TableShape DEF RequestsInv
  <2> QED BY <1>1, <2>1, NextWithin
<1>5. m \in Row /\ m.pos = k
  <2>1. k \in Nat \ {0} BY <1>4, TableShape DEF RequestsInv
  <2> QED BY <1>2, <2>1 DEF Row
<1>6. /\ r \in Request /\ r.op = "create" /\ r.pc = "insert" /\ r.issue = 0 /\ r.target = s
      /\ r.mem = m /\ r.todo = {}
  <2>1. "create" \in Ops /\ "insert" \in Steps \ {"idle"} BY DEF Ops, Steps
  <2>2. 0 \in 0..MaxIssues /\ 0 \in Nat BY ConstantsAssumption DEF ConstantsAssumption
  <2> QED BY <1>3, <1>5, <2>1, <2>2 DEF Loaded, Request
<1>7. Begin(w, r) BY <1>1, <1>2, <1>3 DEF StartCreate
<1>8. StepFits(r) /\ PositionsFit(r) /\ ~Moves(r)
  BY <1>4, <1>5, <1>6 DEF StepFits, PositionsFit, Moves
<1> QED BY <1>6, <1>7, <1>8, Begins, ConstantsAssumption

\* The update form has changed the instance.
LEMMA StartUpdateStep ==
  ASSUME ConstantsAssumption, RequestsInv, NEW w \in Workers, NEW i \in DOMAIN rows,
         NEW s \in States, NEW p \in Priorities, StartUpdate(w, i, s, p)
  PROVE  RequestsInv' /\ run'[w] \in Request
<1>1. PICK m : m = [rows[i] EXCEPT !.state = s, !.priority = p] OBVIOUS
<1>2. PICK r : r = Loaded("update", "original", i, s, MaxIssues, m) OBVIOUS
<1>3. i \in Live(rows) /\ Begin(w, r) BY <1>1, <1>2 DEF StartUpdate
<1>4. /\ i \in 0..MaxIssues /\ i # 0 /\ rows[i] \in Row /\ rows[i].pos \in 1..Size
  BY <1>3, LiveShape, ConstantsAssumption
<1>5. m \in Row /\ m.pos = rows[i].pos /\ m.archived = rows[i].archived
  BY <1>1, <1>4 DEF Row
<1>6. /\ r \in Request /\ r.op = "update" /\ r.pc = "original" /\ r.issue = i /\ r.mem = m /\ r.todo = {}
  <2>1. "update" \in Ops /\ "original" \in Steps \ {"idle"} BY DEF Ops, Steps
  <2>2. MaxIssues \in Nat BY ConstantsAssumption DEF ConstantsAssumption
  <2> QED BY <1>2, <1>4, <1>5, <2>1, <2>2 DEF Loaded, Request
<1>7. StepFits(r) /\ PositionsFit(r) /\ ~Moves(r)
  BY <1>4, <1>5, <1>6 DEF StepFits, PositionsFit, Moves
<1> QED BY <1>3, <1>5, <1>6, <1>7, Begins, ConstantsAssumption

\* An issue is about to be archived.
LEMMA StartArchiveStep ==
  ASSUME ConstantsAssumption, RequestsInv, NEW w \in Workers, NEW i \in DOMAIN rows, StartArchive(w, i)
  PROVE  RequestsInv' /\ run'[w] \in Request
<1>1. PICK r : r = Loaded("archive", "archive", i, rows[i].state, 0, rows[i]) OBVIOUS
<1>2. i \in Live(rows) /\ Begin(w, r) BY <1>1 DEF StartArchive
<1>3. /\ i \in 0..MaxIssues /\ i # 0 /\ rows[i] \in Row /\ rows[i].pos \in 1..Size /\ rows[i].state \in States
  BY <1>2, LiveShape, RowFields, ConstantsAssumption
<1>4. /\ r \in Request /\ r.op = "archive" /\ r.pc = "archive" /\ r.issue = i /\ r.mem = rows[i] /\ r.todo = {}
  <2>1. "archive" \in Ops /\ "archive" \in Steps \ {"idle"} BY DEF Ops, Steps
  <2> QED BY <1>1, <1>3, <2>1 DEF Loaded, Request
<1>5. StepFits(r) /\ PositionsFit(r) /\ ~Moves(r)
  BY <1>3, <1>4 DEF StepFits, PositionsFit, Moves
<1> QED BY <1>2, <1>4, <1>5, Begins, ConstantsAssumption

\* An issue is dragged.
LEMMA StartMoveStep ==
  ASSUME ConstantsAssumption, RequestsInv, NEW w \in Workers, NEW i \in DOMAIN rows,
         NEW s \in BoardStates, NEW index \in 0..MaxIssues, StartMove(w, i, s, index)
  PROVE  RequestsInv' /\ run'[w] \in Request
<1>1. PICK c : c = IF s = rows[i].state THEN "occupy" ELSE "transit" OBVIOUS
<1>2. PICK r : r = Loaded("move", c, i, s, index, rows[i]) OBVIOUS
<1>3. i \in Live(rows) /\ Begin(w, r) BY <1>1, <1>2 DEF StartMove
<1>4. /\ i \in 0..MaxIssues /\ i # 0 /\ rows[i] \in Row /\ rows[i].pos \in 1..Size
  BY <1>3, LiveShape, ConstantsAssumption
<1>5. /\ r \in Request /\ r.op = "move" /\ r.pc = c /\ r.issue = i /\ r.mem = rows[i] /\ r.todo = {}
      /\ r.target = s /\ r.orig = rows[i]
  <2>1. "move" \in Ops /\ c \in Steps \ {"idle"} BY <1>1 DEF Ops, Steps
  <2>2. s \in States /\ index \in Nat BY ConstantsAssumption DEF ConstantsAssumption
  <2> QED BY <1>2, <1>4, <2>1, <2>2 DEF Loaded, Request
<1>6. StepFits(r) /\ PositionsFit(r)
  BY <1>1, <1>4, <1>5 DEF StepFits, PositionsFit
<1>7. /\ Moves(r) => r.pc = "transit"
      /\ r.pc = "transit" /\ r.op = "move" => Moves(r)
  BY <1>1, <1>5 DEF Moves
<1> QED BY <1>1, <1>3, <1>5, <1>6, <1>7, Begins, ConstantsAssumption

-----------------------------------------------------------------------------
(* Requests go on.                                                         *)

\* A request goes on to a step without writing.
LEMMA ReadsOn ==
  ASSUME ConstantsAssumption, RequestsInv, NEW w \in Workers, NEW q \in Request, Become(w, q),
         run[w] # None, StoreNothing, UNCHANGED <<rows, pending, overtaken>>,
         StepFits(q), PositionsFit(q), q.op = run[w].op, q.issue = run[w].issue, q.target = run[w].target,
         q.mem.archived = run[w].mem.archived,
         q.op # "update" => q.orig = run[w].orig, q.pc # "transit",
         q.pc = "fields" => /\ <<q.issue, q.mem.state>> \in entered
                            /\ q.mem.state = rows[q.issue].state,
         Moves(run[w]) => run[w].issue \in DOMAIN pending[w]
  PROVE  RequestsInv'
<1>1. /\ run' = [run EXCEPT ![w] = q] /\ requests' = requests /\ crashes' = crashes
      /\ rows' = rows /\ pending' = pending /\ overtaken' = overtaken /\ entered' = entered
  BY DEF Become, StoreNothing
<1>2. OthersStay(w) /\ run'[w] = q BY <1>1, OneWorker
<1>3. Size' = Size BY <1>1 DEF Size
<1>4. WritesFit(w) /\ Knows(w) BY WorkerShape, ConstantsAssumption
<1>5. Moves(q) => Moves(run[w]) BY DEF Moves
<1>6. Moves(run[w]) => Moves(q) BY DEF Moves
<1>7. WritesFit(w)' BY <1>1, <1>2, <1>3, <1>4, <1>6 DEF WritesFit, Moves
<1>8. Knows(w)' BY <1>1, <1>2, <1>4 DEF Knows
<1>9. StepFits(q)' /\ PositionsFit(q)' BY <1>1, <1>3 DEF StepFits, PositionsFit
<1>10. WorkerFits(w)'
  BY <1>1, <1>2, <1>5, <1>7, <1>8, <1>9, ConstantsAssumption DEF WorkerFits, StepFits, PositionsFit, Moves, ConstantsAssumption
<1>11. requests' \in 0..MaxRequests /\ crashes' \in 0..MaxCrashes
  BY <1>1 DEF RequestsInv, Counted
<1> QED BY <1>1, <1>2, <1>10, <1>11, TableStays, ConstantsAssumption

\* update_issue reads the row again.
LEMMA ReadOriginalStep ==
  ASSUME ConstantsAssumption, RequestsInv, NEW w \in Workers, run[w] # None, ReadOriginal(w)
  PROVE  RequestsInv'
<1>1. PICK r : r = run[w] OBVIOUS
<1>2. PICK m : m = [r.mem EXCEPT !.state = rows[r.issue].state] OBVIOUS
<1>3. PICK q : q = [r EXCEPT !.pc = "fields", !.orig = rows[r.issue], !.mem = m] OBVIOUS
<1>4. r \in Request /\ StepFits(r) /\ PositionsFit(r) BY <1>1, WorkerShape, ConstantsAssumption
<1>5. r.pc = "original" /\ StoreNothing /\ UNCHANGED <<rows, pending, overtaken>>
  BY <1>1 DEF ReadOriginal
<1>6. Become(w, q)
  <2>1. q = [r EXCEPT !.orig = rows[r.issue], !.mem.state = rows[r.issue].state, !.pc = "fields"]
    BY <1>2, <1>3, <1>4 DEF Request
  <2> QED BY <1>1, <2>1 DEF ReadOriginal
<1>7. r.op = "update" /\ r.issue \in DOMAIN rows /\ r.mem.pos \in 1..Size
      /\ r.todo \subseteq (1..Size) \X (1..Size)
  BY <1>4, <1>5 DEF StepFits, PositionsFit
<1>8. rows[r.issue] \in Row /\ rows[r.issue].state \in States /\ r.mem \in Row
  BY <1>4, <1>7, TableShape, RequestFields, RowFields DEF RequestsInv
<1>9. m \in Row /\ m.pos = r.mem.pos /\ m.archived = r.mem.archived /\ m.state = rows[r.issue].state
  BY <1>2, <1>8, RowMoved
<1>10. /\ q \in Request /\ q.pc = "fields" /\ q.todo = r.todo /\ q.op = r.op /\ q.issue = r.issue
       /\ q.target = r.target /\ q.orig = rows[r.issue] /\ q.mem = m
  <2>1. "fields" \in Steps \ {"idle"} BY DEF Steps
  <2> QED BY <1>3, <1>4, <1>8, <1>9, <2>1 DEF Request
<1>11. StepFits(q) /\ PositionsFit(q)
  BY <1>7, <1>9, <1>10 DEF StepFits, PositionsFit
<1>12. <<q.issue, q.mem.state>> \in entered
  BY <1>7, <1>9, <1>10 DEF RequestsInv, StatesAreReached
<1>13. ~Moves(r) BY <1>7 DEF Moves
<1> QED BY <1>1, <1>5, <1>6, <1>7, <1>9, <1>10, <1>11, <1>12, <1>13, ReadsOn, ConstantsAssumption

\* What a query of worker w sees are rows within the bounds.
LEMMA ViewShape ==
  ASSUME RequestsInv, NEW w \in Workers, NEW t, t = View(w)
  PROVE  /\ DOMAIN t = DOMAIN rows
         /\ \A i \in DOMAIN rows : /\ t[i] \in Row /\ t[i].pos \in 1..Size
                                   /\ t[i] = IF i \in DOMAIN pending[w] THEN pending[w][i] ELSE rows[i]
<1>1. /\ \A i \in DOMAIN rows : rows[i] \in Row /\ rows[i].pos \in 1..Size
      /\ \A i \in DOMAIN pending[w] : pending[w][i] \in Row /\ pending[w][i].pos \in 1..Size
  BY TableShape, PendingShape DEF RequestsInv
<1>2. t = [i \in DOMAIN rows |-> IF i \in DOMAIN pending[w] THEN pending[w][i] ELSE rows[i]]
  BY DEF View
<1> QED BY <1>1, <1>2

\* Positions that change to some within the bounds are such.
LEMMA ChangesFit ==
  ASSUME NEW n \in Nat, NEW t, NEW u, DOMAIN t = 1..n,
         \A j \in DOMAIN t : u[j].pos # t[j].pos => u[j].pos \in 1..n
  PROVE  Changes(t, u) \subseteq (1..n) \X (1..n)
  BY DEF Changes

\* A request goes on to renumber a band.
LEMMA RenumbersOn ==
  ASSUME ConstantsAssumption, RequestsInv, NEW w \in Workers, run[w] # None,
         NEW T \in SUBSET ((1..Size) \X (1..Size)), NEW c \in {"vacating", "occupying"},
         Become(w, [run[w] EXCEPT !.pc = c, !.todo = T]),
         StoreNothing, UNCHANGED <<rows, pending, overtaken>>,
         run[w].pc \in {"vacate", "vacating", "occupy"}, c = "occupying" => run[w].op # "archive"
  PROVE  RequestsInv'
<1>1. PICK r : r = run[w] OBVIOUS
<1>2. PICK q : q = [r EXCEPT !.pc = c, !.todo = T] OBVIOUS
<1>3. /\ r \in Request /\ StepFits(r) /\ PositionsFit(r)
      /\ Moves(r) => r.pc = "transit" \/ r.issue \in DOMAIN pending[w]
  BY <1>1, WorkerShape, ConstantsAssumption
<1>4. T \subseteq (1..MaxIssues) \X Nat
  BY TableShape, ConstantsAssumption DEF RequestsInv
<1>5. /\ q \in Request /\ q.pc = c /\ q.todo = T /\ q.op = r.op /\ q.issue = r.issue
      /\ q.target = r.target /\ q.orig = r.orig /\ q.mem = r.mem
  <2>1. c \in Steps \ {"idle"} BY DEF Steps
  <2> QED BY <1>2, <1>3, <1>4, <2>1 DEF Request
<1>6. StepFits(q) /\ PositionsFit(q)
  BY <1>1, <1>3, <1>5 DEF StepFits, PositionsFit
<1>7. Become(w, q) BY <1>1, <1>2
<1> QED BY <1>1, <1>3, <1>5, <1>6, <1>7, ReadsOn, ConstantsAssumption

\* _normalize_band has read the band that the issue leaves.
LEMMA VacateStep ==
  ASSUME ConstantsAssumption, RequestsInv, NEW w \in Workers, run[w] # None, Vacate(w)
  PROVE  RequestsInv'
<1>1. PICK t : t = View(w) OBVIOUS
<1>2. PICK b : b = Band([i \in {run[w].issue} |-> run[w].orig], run[w].issue) OBVIOUS
<1>3. PICK u : u = NormalizeBand(t, b, run[w].issue) OBVIOUS
<1>4. PICK T : T = Changes(t, u) OBVIOUS
<1>5. /\ run[w].pc = "vacate" /\ Become(w, [run[w] EXCEPT !.pc = "vacating", !.todo = T])
      /\ StoreNothing /\ UNCHANGED <<rows, pending, overtaken>>
  BY <1>1, <1>2, <1>3, <1>4 DEF Vacate
<1>6. Size \in Nat /\ DOMAIN t = 1..Size
  BY <1>1, ViewShape, TableShape DEF RequestsInv
<1>7. \A j \in DOMAIN t : t[j] \in Positioned(States, Priorities)
  BY <1>1, ViewShape DEF Row, Positioned
<1>8. \A j \in DOMAIN t : u[j].pos # t[j].pos => u[j].pos \in 1..Size
  BY <1>3, <1>6, <1>7, NormalizeWithin
<1>9. T \in SUBSET ((1..Size) \X (1..Size)) BY <1>4, <1>6, <1>8, ChangesFit
<1> QED BY <1>5, <1>9, RenumbersOn, ConstantsAssumption

\* _insert_into_band has read the band that the issue is in now.
LEMMA OccupyStep ==
  ASSUME ConstantsAssumption, RequestsInv, NEW w \in Workers, run[w] # None, Occupy(w)
  PROVE  RequestsInv'
<1>1. PICK r : r = run[w] OBVIOUS
<1>2. PICK self : self = IF r.op = "update" THEN [r.mem EXCEPT !.pos = 0] ELSE r.mem OBVIOUS
<1>3. PICK v : v = View(w) OBVIOUS
<1>4. PICK t : t = [v EXCEPT ![r.issue] = self] OBVIOUS
<1>5. PICK u : u = InsertIntoBand(t, r.issue, r.index) OBVIOUS
<1>6. PICK T : T = Changes(t, u) OBVIOUS
<1>7. /\ r.pc = "occupy" \/ (r.pc = "vacating" /\ r.todo = {} /\ r.op # "archive")
      /\ Become(w, [run[w] EXCEPT !.pc = "occupying", !.todo = T])
      /\ StoreNothing /\ UNCHANGED <<rows, pending, overtaken>>
  BY <1>1, <1>2, <1>3, <1>4, <1>5, <1>6 DEF Occupy
<1>8. /\ r \in Request /\ StepFits(r) /\ PositionsFit(r)
  BY <1>1, WorkerShape, ConstantsAssumption
<1>9. r.op \notin {"archive", "create"} /\ r.issue \in DOMAIN rows /\ r.index \in Nat /\ r.mem \in Row
  BY <1>7, <1>8, RequestFields DEF StepFits, PositionsFit
<1>10. self \in Positioned(States, Priorities)
  <2>1. r.mem \in Positioned(States, Priorities) BY <1>9 DEF Row, Positioned
  <2>2. [r.mem EXCEPT !.pos = 0] \in Positioned(States, Priorities) BY <2>1 DEF Positioned
  <2> QED BY <1>2, <2>1, <2>2
<1>11. Size \in Nat /\ DOMAIN t = 1..Size /\ DOMAIN v = 1..Size /\ r.issue \in DOMAIN t
  BY <1>3, <1>4, <1>9, ViewShape, TableShape DEF RequestsInv
<1>12. \A j \in DOMAIN t : t[j] \in Positioned(States, Priorities)
  <2>1. \A j \in DOMAIN v : v[j] \in Positioned(States, Priorities)
    BY <1>3, ViewShape DEF Row, Positioned
  <2> QED BY <1>4, <1>10, <1>11, <2>1
<1>13. \A j \in DOMAIN t : u[j].pos # t[j].pos => u[j].pos \in 1..Size
  BY <1>5, <1>9, <1>11, <1>12, InsertWithin
<1>14. T \in SUBSET ((1..Size) \X (1..Size)) BY <1>6, <1>11, <1>13, ChangesFit
<1> QED BY <1>1, <1>7, <1>9, <1>14, RenumbersOn, ConstantsAssumption

-----------------------------------------------------------------------------
(* Requests write.                                                         *)

\* A row is written in a transaction.
LEMMA WritesOn ==
  ASSUME ConstantsAssumption, RequestsInv, NEW w \in Workers, run[w] # None,
         NEW i \in DOMAIN rows, NEW r \in Row, r.pos \in 1..Size, Write(w, i, r),
         NEW q \in Request, Become(w, q), StoreNothing,
         StepFits(q), PositionsFit(q), q.op = run[w].op, q.issue = run[w].issue,
         q.target = run[w].target, q.orig = run[w].orig, q.mem.archived = run[w].mem.archived,
         q.pc \notin {"fields", "transit"},
         i # q.issue \/ q.op = "update" => Same(r, rows[i]),
         q.op = "archive" => r.state = rows[i].state /\ (rows[i].archived => r.archived),
         <<i, r.state>> \in entered \/ (i = q.issue /\ Moves(q) /\ r.state = q.target),
         q.op = "move" /\ i = q.issue /\ w \notin overtaken =>
           r.archived = rows[i].archived /\ r.state = q.target,
         Moves(q) => q.issue \in DOMAIN pending[w] \cup {i}
  PROVE  RequestsInv'
<1>1. PICK p : p = [j \in DOMAIN pending[w] \cup {i} |-> IF j = i THEN r ELSE pending[w][j]] OBVIOUS
<1>2. /\ Free(w, i) /\ pending' = [pending EXCEPT ![w] = p] /\ rows' = rows /\ overtaken' = overtaken
      /\ run' = [run EXCEPT ![w] = q] /\ requests' = requests /\ crashes' = crashes /\ entered' = entered
  BY <1>1 DEF Write, Become, StoreNothing
<1>3. OthersStay(w) /\ run'[w] = q BY <1>2, OneWorker
<1>4. pending'[w] = p BY <1>2 DEF RequestsInv, Counted
<1>5. /\ DOMAIN p = DOMAIN pending[w] \cup {i} /\ p[i] = r
      /\ \A j \in DOMAIN pending[w] \ {i} : p[j] = pending[w][j]
  BY <1>1
<1>6. Size' = Size BY <1>2 DEF Size
<1>7. WritesFit(w) /\ Knows(w) BY WorkerShape, ConstantsAssumption
<1>8. p \in [DOMAIN p -> Row] /\ DOMAIN p \subseteq DOMAIN rows
  <2>1. \A j \in DOMAIN p : p[j] \in Row BY <1>5, PendingShape
  <2> QED BY <1>1, <1>5, <2>1, PendingShape
<1>9. Moves(q) <=> Moves(run[w]) BY DEF Moves
<1>10. WritesFit(w)'
  <2>1. ASSUME NEW j \in DOMAIN p
        PROVE  /\ p[j].pos \in 1..Size
               /\ j # q.issue \/ q.op = "update" => Same(p[j], rows[j])
               /\ q.op = "archive" => p[j].state = rows[j].state /\ (rows[j].archived => p[j].archived)
               /\ \/ <<j, p[j].state>> \in entered
                  \/ j = q.issue /\ Moves(q) /\ p[j].state = q.target
    <3>1. CASE j = i BY <1>5, <3>1
    <3>2. CASE j # i
      <4>1. j \in DOMAIN pending[w] /\ p[j] = pending[w][j] BY <1>5, <3>2
      <4> QED BY <1>7, <1>9, <4>1 DEF WritesFit
    <3> QED BY <3>1, <3>2
  <2> QED BY <1>2, <1>3, <1>4, <1>6, <1>8, <2>1 DEF WritesFit, Moves
<1>11. Knows(w)'
  <2> SUFFICES ASSUME w \notin overtaken
               PROVE  /\ q.op \in {"update", "move"} => rows[q.issue].archived = q.mem.archived
                      /\ q.op = "move" => rows[q.issue].state = q.orig.state
                      /\ q.op = "move" /\ q.issue \in DOMAIN p =>
                           p[q.issue].archived = rows[q.issue].archived /\ p[q.issue].state = q.target
    BY <1>2, <1>3, <1>4 DEF Knows
  <2>1. CASE q.issue = i BY <1>5, <1>7, <2>1 DEF Knows
  <2>2. CASE q.issue # i BY <1>5, <1>7, <2>2 DEF Knows
  <2> QED BY <2>1, <2>2
<1>12. StepFits(q)' /\ PositionsFit(q)' BY <1>2, <1>6 DEF StepFits, PositionsFit
<1>13. WorkerFits(w)'
  BY <1>3, <1>4, <1>5, <1>10, <1>11, <1>12, ConstantsAssumption
  DEF WorkerFits, StepFits, PositionsFit, Moves, ConstantsAssumption
<1>14. requests' \in 0..MaxRequests /\ crashes' \in 0..MaxCrashes
  BY <1>2 DEF RequestsInv, Counted
<1> QED BY <1>2, <1>3, <1>4, <1>5, <1>13, <1>14, TableStays, ConstantsAssumption

\* Renumbering saves positions only.
LEMMA SavePositionStep ==
  ASSUME ConstantsAssumption, RequestsInv, NEW w \in Workers, run[w] # None, SavePosition(w)
  PROVE  RequestsInv'
<1>1. PICK p : p = run[w] OBVIOUS
<1>2. PICK x : x = Due(p) OBVIOUS
<1>3. PICK i : i = x[1] OBVIOUS
<1>4. PICK v : v = View(w) OBVIOUS
<1>5. PICK r : r = [v[i] EXCEPT !.pos = x[2]] OBVIOUS
<1>6. PICK T : T = p.todo \ {x} OBVIOUS
<1>7. PICK q : q = [p EXCEPT !.todo = T] OBVIOUS
<1>8. /\ Renumbering(p) /\ Write(w, i, r) /\ StoreNothing /\ Become(w, q)
  BY <1>1, <1>2, <1>3, <1>4, <1>5, <1>6, <1>7 DEF SavePosition
<1>9. /\ p \in Request /\ StepFits(p) /\ PositionsFit(p) /\ WritesFit(w) /\ Knows(w)
      /\ Moves(p) => p.pc = "transit" \/ p.issue \in DOMAIN pending[w]
  BY <1>1, WorkerShape, ConstantsAssumption
<1>10. p.pc \in {"vacating", "occupying"} /\ p.todo # {} BY <1>8 DEF Renumbering
<1>11. x \in p.todo BY <1>2, <1>9, <1>10, DueIsOne
<1>12. /\ p.op # "create" /\ p.issue \in DOMAIN rows /\ p.mem.pos \in 1..Size
       /\ p.todo \subseteq (1..Size) \X (1..Size)
  BY <1>9, <1>10 DEF StepFits, PositionsFit
<1>13. i \in 1..Size /\ x[2] \in 1..Size /\ i \in DOMAIN rows
  BY <1>3, <1>11, <1>12, TableShape DEF RequestsInv
<1>14. v[i] \in Row /\ v[i] = IF i \in DOMAIN pending[w] THEN pending[w][i] ELSE rows[i]
  BY <1>4, <1>13, ViewShape
<1>15. r \in Row /\ r.pos \in 1..Size /\ Same(r, v[i])
  <2>1. x[2] \in Nat \ {0} BY <1>13
  <2>2. r \in Row /\ r.pos = x[2] BY <1>5, <1>14, <2>1 DEF Row
  <2>3. Same(r, v[i]) BY <1>5, <1>14, <2>1 DEF Row, Same
  <2> QED BY <1>13, <2>2, <2>3
<1>16. /\ q \in Request /\ q.pc = p.pc /\ q.todo = T /\ q.op = p.op /\ q.issue = p.issue
       /\ q.target = p.target /\ q.orig = p.orig /\ q.mem = p.mem
  <2>1. T \in SUBSET ((1..MaxIssues) \X Nat) BY <1>6, <1>9 DEF Request
  <2> QED BY <1>7, <1>9, <2>1 DEF Request
<1>17. StepFits(q) BY <1>9, <1>16 DEF StepFits
<1>18. PositionsFit(q) BY <1>6, <1>12, <1>16 DEF PositionsFit
<1>19. r.state = v[i].state /\ r.archived = v[i].archived /\ r.priority = v[i].priority
  BY <1>15 DEF Same
<1>20. <<i, rows[i].state>> \in entered BY <1>13 DEF RequestsInv, StatesAreReached
<1>21. Moves(q) <=> Moves(p) BY <1>16 DEF Moves
<1>22. i # q.issue \/ q.op = "update" => Same(r, rows[i])
  <2> SUFFICES ASSUME i # q.issue \/ q.op = "update" PROVE Same(r, rows[i])
    OBVIOUS
  <2>1. CASE i \in DOMAIN pending[w]
    <3>1. Same(v[i], rows[i]) BY <1>1, <1>9, <1>14, <1>16, <2>1 DEF WritesFit
    <3> QED BY <1>19, <3>1 DEF Same
  <2>2. CASE i \notin DOMAIN pending[w] BY <1>14, <1>15, <2>2
  <2> QED BY <2>1, <2>2
<1>23. q.op = "archive" => r.state = rows[i].state /\ (rows[i].archived => r.archived)
  BY <1>1, <1>9, <1>14, <1>16, <1>19 DEF WritesFit
<1>24. <<i, r.state>> \in entered \/ (i = q.issue /\ Moves(q) /\ r.state = q.target)
  BY <1>1, <1>9, <1>14, <1>16, <1>19, <1>20, <1>21 DEF WritesFit
<1>25. q.op = "move" /\ i = q.issue /\ w \notin overtaken =>
         r.archived = rows[i].archived /\ r.state = q.target
  <2>1. CASE i \in DOMAIN pending[w] BY <1>1, <1>9, <1>14, <1>16, <1>19, <2>1 DEF Knows
  <2>2. CASE i \notin DOMAIN pending[w]
    BY <1>1, <1>9, <1>10, <1>14, <1>16, <1>19, <2>2 DEF Knows, Moves
  <2> QED BY <2>1, <2>2
<1>26. Moves(q) => q.issue \in DOMAIN pending[w] \cup {i}
  BY <1>9, <1>10, <1>16, <1>21
<1> QED
  BY <1>1, <1>8, <1>10, <1>13, <1>15, <1>16, <1>17, <1>18, <1>22, <1>23, <1>24, <1>25, <1>26,
     WritesOn, ConstantsAssumption

\* archive has saved its fields.
LEMMA SaveArchivedStep ==
  ASSUME ConstantsAssumption, RequestsInv, NEW w \in Workers, run[w] # None, SaveArchived(w)
  PROVE  RequestsInv'
<1>1. PICK p : p = run[w] OBVIOUS
<1>2. PICK i : i = p.issue OBVIOUS
<1>3. PICK r : r = [rows[i] EXCEPT !.archived = TRUE] OBVIOUS
<1>4. PICK q : q = [p EXCEPT !.pc = "vacate"] OBVIOUS
<1>5. p.pc = "archive" /\ Write(w, i, r) /\ StoreNothing /\ Become(w, q)
  BY <1>1, <1>2, <1>3, <1>4 DEF SaveArchived
<1>6. /\ p \in Request /\ StepFits(p) /\ PositionsFit(p)
  BY <1>1, WorkerShape, ConstantsAssumption
<1>7. /\ p.op = "archive" /\ i \in DOMAIN rows /\ p.mem.pos \in 1..Size
      /\ p.todo \subseteq (1..Size) \X (1..Size)
  BY <1>2, <1>5, <1>6 DEF StepFits, PositionsFit
<1>8. rows[i] \in Row /\ rows[i].pos \in 1..Size BY <1>7, TableShape DEF RequestsInv
<1>9. r \in Row /\ r.archived /\ r.state = rows[i].state /\ r.pos = rows[i].pos
  BY <1>3, <1>8 DEF Row
<1>10. /\ q \in Request /\ q.pc = "vacate" /\ q.todo = p.todo /\ q.op = p.op /\ q.issue = p.issue
       /\ q.target = p.target /\ q.orig = p.orig /\ q.mem = p.mem
  <2>1. "vacate" \in Steps \ {"idle"} BY DEF Steps
  <2> QED BY <1>4, <1>6, <2>1 DEF Request
<1>11. StepFits(q) BY <1>6, <1>7, <1>10 DEF StepFits
<1>12. PositionsFit(q) BY <1>2, <1>7, <1>10 DEF PositionsFit
<1>13. <<i, r.state>> \in entered BY <1>7, <1>9 DEF RequestsInv, StatesAreReached
<1>14. ~Moves(q) BY <1>7, <1>10 DEF Moves
<1> QED
  BY <1>1, <1>2, <1>5, <1>7, <1>8, <1>9, <1>10, <1>11, <1>12, <1>13, <1>14, WritesOn, ConstantsAssumption

\* The instance is saved as it is, and is the row from then on.
LEMMA SaveFieldsStep ==
  ASSUME ConstantsAssumption, RequestsInv, NEW w \in Workers, run[w] # None, SaveFields(w)
  PROVE  RequestsInv'
<1>1. PICK p : p = run[w] OBVIOUS
<1>2. PICK i : i = p.issue OBVIOUS
<1>3. PICK W : W = [j \in {i} |-> p.mem] OBVIOUS
<1>4. PICK q : q = IF p.target # p.orig.state THEN [p EXCEPT !.pc = "transit"]
                   ELSE IF p.mem.priority # p.orig.priority THEN [p EXCEPT !.pc = "vacate"]
                   ELSE None
  OBVIOUS
<1>5. /\ p.pc = "fields" /\ Free(w, i) /\ Publish(w, W) /\ StoreNothing
      /\ run' = [run EXCEPT ![w] = q] /\ requests' = requests /\ crashes' = crashes
  BY <1>1, <1>2, <1>3, <1>4 DEF SaveFields, WriteThrough, Become, Answer
<1>6. /\ p \in Request /\ StepFits(p) /\ PositionsFit(p)
      /\ <<p.issue, p.mem.state>> \in entered
  BY <1>1, <1>5, WorkerShape, ConstantsAssumption
<1>7. /\ p.op = "update" /\ i \in DOMAIN rows /\ p.mem.pos \in 1..Size /\ p.mem \in Row
      /\ p.todo \subseteq (1..Size) \X (1..Size)
  BY <1>2, <1>5, <1>6, RequestFields DEF StepFits, PositionsFit
<1>8. DOMAIN W = {i} /\ W[i] = p.mem BY <1>3
<1>9. /\ rows'[i] = p.mem /\ DOMAIN rows' = DOMAIN rows /\ pending' = [pending EXCEPT ![w] = NoRows]
  BY <1>5, <1>7, <1>8 DEF Publish
<1>10. Size' = Size /\ entered' = entered /\ stored' = {} BY <1>5, <1>9 DEF Size, StoreNothing
<1>11. run'[w] = q /\ pending'[w] = NoRows BY <1>5, <1>9 DEF RequestsInv, Counted
<1>12. q # None =>
         /\ q \in Request /\ q.pc \in {"transit", "vacate"} /\ q.todo = p.todo /\ q.op = p.op
         /\ q.issue = p.issue /\ q.target = p.target /\ q.mem = p.mem
  <2>1. "transit" \in Steps \ {"idle"} /\ "vacate" \in Steps \ {"idle"} BY DEF Steps
  <2> QED BY <1>4, <1>6, <2>1 DEF Request
<1>13. WorkerFits(w)'
  <2>1. CASE q = None BY <1>11, <2>1 DEF WorkerFits
  <2>2. CASE q # None
    <3>1. /\ q \in Request /\ q.pc \in {"transit", "vacate"} /\ q.todo = p.todo /\ q.op = "update"
          /\ q.issue = i /\ q.target = p.target /\ q.mem = p.mem
      BY <1>2, <1>7, <1>12, <2>2
    <3>2. StepFits(q)' /\ PositionsFit(q)' BY <1>7, <1>9, <1>10, <3>1 DEF StepFits, PositionsFit
    <3>3. WritesFit(w)' BY <1>11 DEF WritesFit, NoRows
    <3>4. Knows(w)' BY <1>9, <1>11, <3>1 DEF Knows
    <3> QED BY <1>11, <2>2, <3>1, <3>2, <3>3, <3>4 DEF WorkerFits, Moves
  <2> QED BY <2>1, <2>2
<1>14. \A j \in DOMAIN W : /\ W[j] \in Row /\ W[j].pos \in 1..Size
                           /\ Free(w, j) /\ <<j, W[j].state>> \in entered'
  BY <1>2, <1>5, <1>6, <1>7, <1>8, <1>10
<1>15. entered' \subseteq (1..MaxIssues) \X States /\ requests' \in 0..MaxRequests
       /\ crashes' \in 0..MaxCrashes /\ stored' \subseteq (1..MaxIssues) \X States \X States
  BY <1>5, <1>10 DEF RequestsInv, Counted
<1> QED BY <1>5, <1>7, <1>8, <1>10, <1>13, <1>14, <1>15, TableWritten, ConstantsAssumption

\* update_workflow_state of an update commits at once, with its transition.
LEMMA TransitUpdateStep ==
  ASSUME ConstantsAssumption, RequestsInv, NEW w \in Workers, run[w] # None, Transit(w),
         run[w].op = "update"
  PROVE  RequestsInv'
<1>1. PICK p : p = run[w] OBVIOUS
<1>2. PICK i : i = p.issue OBVIOUS
<1>3. PICK m : m = [p.mem EXCEPT !.state = p.target] OBVIOUS
<1>4. PICK W : W = [j \in {i} |-> m] OBVIOUS
<1>5. PICK q : q = [p EXCEPT !.mem = m, !.pc = "vacate"] OBVIOUS
<1>6. /\ p.pc = "transit" /\ p.op = "update" /\ Free(w, i) /\ Publish(w, W)
      /\ stored' = {<<i, p.mem.state, p.target>>} /\ entered' = entered \cup {<<i, p.target>>}
      /\ run' = [run EXCEPT ![w] = q] /\ requests' = requests /\ crashes' = crashes
  BY <1>1, <1>2, <1>3, <1>4, <1>5 DEF Transit, WriteThrough, Become, Store
<1>7. /\ p \in Request /\ StepFits(p) /\ PositionsFit(p)
  BY <1>1, WorkerShape, ConstantsAssumption
<1>8. /\ i \in DOMAIN rows /\ p.mem.pos \in 1..Size /\ p.mem \in Row /\ p.target \in States
      /\ p.todo \subseteq (1..Size) \X (1..Size) /\ p.mem.state \in States
  BY <1>2, <1>6, <1>7, RequestFields, RowFields DEF PositionsFit
<1>9. m \in Row /\ m.state = p.target /\ m.pos = p.mem.pos BY <1>3, <1>8 DEF Row
<1>10. DOMAIN W = {i} /\ W[i] = m BY <1>4
<1>11. rows'[i] = m /\ DOMAIN rows' = DOMAIN rows /\ pending' = [pending EXCEPT ![w] = NoRows]
  BY <1>6, <1>8, <1>10 DEF Publish
<1>12. Size' = Size BY <1>11 DEF Size
<1>13. run'[w] = q /\ pending'[w] = NoRows BY <1>6, <1>11 DEF RequestsInv, Counted
<1>14. /\ q \in Request /\ q.pc = "vacate" /\ q.todo = p.todo /\ q.op = p.op
       /\ q.issue = p.issue /\ q.target = p.target /\ q.mem = m
  <2>1. "vacate" \in Steps \ {"idle"} BY DEF Steps
  <2> QED BY <1>5, <1>7, <1>9, <2>1 DEF Request
<1>15. WorkerFits(w)'
  <2>1. StepFits(q)' /\ PositionsFit(q)'
    BY <1>2, <1>6, <1>8, <1>9, <1>11, <1>12, <1>14 DEF StepFits, PositionsFit
  <2>2. WritesFit(w)' BY <1>13 DEF WritesFit, NoRows
  <2>3. Knows(w)' BY <1>2, <1>6, <1>11, <1>13, <1>14 DEF Knows
  <2>4. q # None BY <1>14, ConstantsAssumption DEF ConstantsAssumption
  <2> QED BY <1>6, <1>13, <1>14, <2>1, <2>2, <2>3, <2>4 DEF WorkerFits, Moves
<1>16. \A j \in DOMAIN W : /\ W[j] \in Row /\ W[j].pos \in 1..Size
                           /\ Free(w, j) /\ <<j, W[j].state>> \in entered'
  BY <1>6, <1>8, <1>9, <1>10
<1>17. i \in 1..MaxIssues BY <1>8, TableShape, ConstantsAssumption DEF RequestsInv
<1>18. entered' \subseteq (1..MaxIssues) \X States /\ requests' \in 0..MaxRequests
       /\ crashes' \in 0..MaxCrashes /\ stored' \subseteq (1..MaxIssues) \X States \X States
  BY <1>6, <1>8, <1>17 DEF RequestsInv, Counted
<1> QED BY <1>6, <1>8, <1>10, <1>15, <1>16, <1>18, TableWritten, ConstantsAssumption

\* That of a move waits for its commit.
LEMMA TransitMoveStep ==
  ASSUME ConstantsAssumption, RequestsInv, NEW w \in Workers, run[w] # None, Transit(w),
         run[w].op # "update"
  PROVE  RequestsInv'
<1>1. PICK p : p = run[w] OBVIOUS
<1>2. PICK i : i = p.issue OBVIOUS
<1>3. PICK m : m = [p.mem EXCEPT !.state = p.target] OBVIOUS
<1>4. PICK q : q = [p EXCEPT !.mem = m, !.pc = "vacate"] OBVIOUS
<1>5. p.pc = "transit" /\ p.op = "move" /\ Write(w, i, m) /\ StoreNothing /\ Become(w, q)
  BY <1>1, <1>2, <1>3, <1>4 DEF Transit
<1>6. /\ p \in Request /\ StepFits(p) /\ PositionsFit(p) /\ Knows(w) /\ Moves(p)
  BY <1>1, <1>5, WorkerShape, ConstantsAssumption
<1>7. /\ i \in DOMAIN rows /\ p.mem.pos \in 1..Size /\ p.mem \in Row /\ p.target \in States
      /\ p.todo \subseteq (1..Size) \X (1..Size)
  BY <1>2, <1>5, <1>6, RequestFields DEF PositionsFit
<1>8. m \in Row /\ m.state = p.target /\ m.pos = p.mem.pos /\ m.archived = p.mem.archived
  BY <1>3, <1>7 DEF Row
<1>9. /\ q \in Request /\ q.pc = "vacate" /\ q.todo = p.todo /\ q.op = p.op /\ q.orig = p.orig
      /\ q.issue = p.issue /\ q.target = p.target /\ q.mem = m
  <2>1. "vacate" \in Steps \ {"idle"} BY DEF Steps
  <2> QED BY <1>4, <1>6, <1>8, <2>1 DEF Request
<1>10. StepFits(q) BY <1>5, <1>9 DEF StepFits
<1>11. PositionsFit(q) BY <1>2, <1>5, <1>7, <1>8, <1>9 DEF PositionsFit
<1>12. Moves(q) BY <1>6, <1>9 DEF Moves
<1>13. w \notin overtaken => m.archived = rows[i].archived
  BY <1>1, <1>2, <1>5, <1>6, <1>8 DEF Knows
<1> QED
  BY <1>1, <1>2, <1>5, <1>7, <1>8, <1>9, <1>10, <1>11, <1>12, <1>13, WritesOn, ConstantsAssumption

\* The transaction commits, with the transition of a move.
LEMMA CommitStep ==
  ASSUME ConstantsAssumption, RequestsInv, NEW w \in Workers, run[w] # None, Commit(w)
  PROVE  RequestsInv'
<1>1. PICK p : p = run[w] OBVIOUS
<1>2. PICK W : W = pending[w] OBVIOUS
<1>3. PICK q : q = None OBVIOUS
<1>4. /\ Publish(w, W) /\ run' = [run EXCEPT ![w] = q] /\ requests' = requests /\ crashes' = crashes
      /\ p.pc \in {"vacating", "occupying"}
      /\ IF Moves(p) THEN Store(p.issue, p.orig.state, p.target) ELSE StoreNothing
  BY <1>1, <1>2, <1>3 DEF Commit, Answer, Moves
<1>5. p \in Request /\ StepFits(p) /\ PositionsFit(p) /\ WritesFit(w)
  BY <1>1, WorkerShape, ConstantsAssumption
<1>6. p.issue \in DOMAIN rows /\ p.issue \in 1..MaxIssues /\ p.target \in States /\ p.orig.state \in States
  <2>1. p.op # "create" BY <1>4, <1>5 DEF StepFits
  <2>2. p.issue \in DOMAIN rows /\ p.orig \in Row /\ p.target \in States
    BY <1>5, <2>1, RequestFields DEF PositionsFit
  <2> QED BY <2>2, RowFields, TableShape, ConstantsAssumption DEF RequestsInv
<1>7. /\ entered \subseteq entered' /\ entered' \subseteq (1..MaxIssues) \X States
      /\ stored' \subseteq (1..MaxIssues) \X States \X States
      /\ Moves(p) => <<p.issue, p.target>> \in entered'
  BY <1>4, <1>6 DEF Store, StoreNothing, RequestsInv, Counted
<1>8. /\ DOMAIN W \subseteq DOMAIN rows
      /\ \A i \in DOMAIN W : W[i] \in Row /\ W[i].pos \in 1..Size
  BY <1>2, PendingShape
<1>9. \A i \in DOMAIN W : <<i, W[i].state>> \in entered'
  BY <1>1, <1>2, <1>5, <1>7 DEF WritesFit
<1>10. WorkerFits(w)'
  <2>1. run'[w] = None /\ pending'[w] = NoRows BY <1>3, <1>4 DEF Publish, RequestsInv, Counted
  <2> QED BY <2>1 DEF WorkerFits
<1>11. requests' \in 0..MaxRequests /\ crashes' \in 0..MaxCrashes BY <1>4 DEF RequestsInv, Counted
<1> QED BY <1>2, <1>4, <1>7, <1>8, <1>9, <1>10, <1>11, TableWritten, ConstantsAssumption

\* The transaction is rolled back.
LEMMA RollBackStep ==
  ASSUME ConstantsAssumption, RequestsInv, NEW w \in Workers, BreakDeadlock(w) \/ Crash(w)
  PROVE  RequestsInv'
<1>1. PICK q : q = None OBVIOUS
<1>2. /\ pending' = [pending EXCEPT ![w] = NoRows] /\ run' = [run EXCEPT ![w] = q]
      /\ rows' = rows /\ requests' = requests /\ overtaken' = overtaken \ {w} /\ StoreNothing
  BY <1>1 DEF BreakDeadlock, Crash, RollBack
<1>3. crashes' \in 0..MaxCrashes
  BY ConstantsAssumption DEF BreakDeadlock, Crash, RequestsInv, Counted, ConstantsAssumption
<1>4. OthersStay(w) /\ run'[w] = None BY <1>1, <1>2, OneWorker
<1>5. pending'[w] = NoRows /\ DOMAIN pending'[w] = {} BY <1>2 DEF RequestsInv, Counted, NoRows
<1>6. WorkerFits(w)' BY <1>4, <1>5 DEF WorkerFits
<1>7. requests' \in 0..MaxRequests BY <1>2 DEF RequestsInv, Counted
<1> QED BY <1>2, <1>3, <1>4, <1>5, <1>6, <1>7, TableStays, ConstantsAssumption

\* The new row has the next key; its position was free when it was read.
LEMMA InsertStep ==
  ASSUME ConstantsAssumption, RequestsInv, NEW w \in Workers, run[w] # None, Insert(w)
  PROVE  RequestsInv'
<1>1. PICK p : p = run[w] OBVIOUS
<1>2. PICK i : i = Size + 1 OBVIOUS
<1>3. PICK W : W = [j \in {i} |-> p.mem] OBVIOUS
<1>4. PICK q : q = None OBVIOUS
<1>5. /\ p.pc = "insert" /\ i <= MaxIssues /\ Publish(w, W) /\ stored' = {}
      /\ entered' = entered \cup {<<i, p.mem.state>>}
      /\ run' = [run EXCEPT ![w] = q] /\ requests' = requests /\ crashes' = crashes
  BY <1>1, <1>2, <1>3, <1>4 DEF Insert, Answer, Size
<1>6. p \in Request /\ StepFits(p) /\ PositionsFit(p) BY <1>1, WorkerShape, ConstantsAssumption
<1>7. p.mem \in Row /\ p.mem.pos \in 1..(Size + 1) /\ p.mem.state \in States
  BY <1>5, <1>6, RequestFields, RowFields DEF StepFits, PositionsFit
<1>8. /\ Size \in Nat /\ DOMAIN rows = 1..Size /\ i \notin DOMAIN rows
      /\ \A j \in DOMAIN rows : rows[j] \in Row /\ rows[j].pos \in 1..Size
  BY <1>2, TableShape DEF RequestsInv
<1>9. /\ DOMAIN rows' = DOMAIN rows \cup {i}
      /\ rows'[i] = p.mem /\ \A j \in DOMAIN rows : rows'[j] = rows[j]
      /\ rows' = [j \in DOMAIN rows' |-> rows'[j]]
      /\ pending' = [pending EXCEPT ![w] = NoRows]
      /\ overtaken' = (overtaken \cup {v \in Workers : run[v] # None /\ run[v].issue \in {i}}) \ {w}
  BY <1>3, <1>5, <1>8 DEF Publish
<1>10. DOMAIN rows' = 1..i BY <1>2, <1>8, <1>9
<1>11. Size' = i
  <2>1. i \in Nat BY <1>2, <1>8
  <2>2. Cardinality(1..i) = i BY <2>1, FS_Interval
  <2> QED BY <1>10, <2>2 DEF Size
<1>12. TableFits'
  <2>1. i \in 0..MaxIssues /\ 1..Size \subseteq 1..i /\ 1..(Size + 1) \subseteq 1..i
    BY <1>2, <1>5, <1>8, ConstantsAssumption DEF ConstantsAssumption
  <2>2. \A j \in DOMAIN rows' : rows'[j] \in Row /\ rows'[j].pos \in 1..i BY <1>7, <1>8, <1>9, <2>1
  <2> QED BY <1>9, <1>10, <1>11, <2>1, <2>2 DEF TableFits
<1>13. OthersStay(w) /\ run'[w] = q BY <1>5, <1>9, OneWorker
<1>14. pending'[w] = NoRows /\ DOMAIN pending'[w] = {} BY <1>9 DEF RequestsInv, Counted, NoRows
<1>15. WorkerFits(w)' BY <1>4, <1>13, <1>14 DEF WorkerFits
<1>16. StatesAreReached' BY <1>5, <1>9 DEF RequestsInv, StatesAreReached
<1>17. \A v \in Workers \ {w} : WorkerFits(v)'
  <2>1. Size' \in Nat /\ Size <= Size' BY <1>2, <1>8, <1>11
  <2>2. \A v \in Workers \ {w} : \A j \in DOMAIN pending[v] : rows'[j] = rows[j]
    BY <1>9, PendingShape
  <2>3. entered \subseteq entered' /\ DOMAIN rows \subseteq DOMAIN rows' BY <1>5, <1>9
  <2> QED BY <1>9, <1>13, <2>1, <2>2, <2>3, OthersFit, ConstantsAssumption
<1>18. Counted'
  <2>1. i \in 1..MaxIssues BY <1>2, <1>5, <1>8, ConstantsAssumption DEF ConstantsAssumption
  <2>2. \A v, u \in Workers : v # u => DOMAIN pending'[v] \cap DOMAIN pending'[u] = {}
    BY <1>13, <1>14, StillApart
  <2> QED BY <1>5, <1>7, <1>9, <1>13, <2>1, <2>2 DEF RequestsInv, Counted, OthersStay
<1> QED BY <1>12, <1>15, <1>16, <1>17, <1>18 DEF RequestsInv

-----------------------------------------------------------------------------
(* The invariant holds.                                                    *)

\* The first table is within the bounds and no worker has begun.
LEMMA RequestsInvInit == ConstantsAssumption /\ Init => RequestsInv
<1> SUFFICES ASSUME ConstantsAssumption, Init PROVE RequestsInv
  OBVIOUS
<1>1. PICK n \in InitialSizes :
        rows \in [1..n -> [state : States, priority : Priorities, pos : 1..n, archived : {FALSE}]]
  BY DEF Init
<1>2. n \in 0..MaxIssues /\ n \in Nat BY ConstantsAssumption DEF ConstantsAssumption
<1>3. DOMAIN rows = 1..n BY <1>1
<1>4. Size = n BY <1>2, <1>3, FS_Interval DEF Size
<1>5. \A i \in 1..n : rows[i] \in Row /\ rows[i].pos \in 1..n /\ rows[i].state \in States
  <2>1. TAKE i \in 1..n
  <2>2. PICK r \in [state : States, priority : Priorities, pos : 1..n, archived : {FALSE}] : r = rows[i]
    BY <1>1
  <2>3. r.pos \in 1..n /\ r.archived \in BOOLEAN OBVIOUS
  <2>4. r.pos \in Nat \ {0} BY <1>2, <2>3
  <2>5. r \in Row BY <2>3, <2>4 DEF Row
  <2>6. r.state \in States OBVIOUS
  <2> QED BY <2>2, <2>3, <2>5, <2>6
<1>6. TableFits
  <2>1. rows \in [1..n -> Row] BY <1>1, <1>5
  <2> QED BY <1>2, <1>3, <1>4, <1>5, <2>1 DEF TableFits
<1>7. /\ pending = [w \in Workers |-> NoRows] /\ run = [w \in Workers |-> None]
      /\ requests = 0 /\ stored = {} /\ overtaken = {} /\ crashes = 0
      /\ entered = {<<i, rows[i].state>> : i \in DOMAIN rows}
  BY DEF Init
<1>8. StatesAreReached BY <1>7 DEF StatesAreReached
<1>9. entered \subseteq (1..MaxIssues) \X States
  <2>1. 1..n \subseteq 1..MaxIssues BY <1>2, ConstantsAssumption DEF ConstantsAssumption
  <2> QED BY <1>3, <1>5, <1>7, <2>1
<1>10. \A w \in Workers : pending[w] = NoRows /\ run[w] = None BY <1>7
<1>11. DOMAIN NoRows = {} BY DEF NoRows
<1>12. requests \in 0..MaxRequests /\ crashes \in 0..MaxCrashes
  BY <1>7, ConstantsAssumption DEF ConstantsAssumption
<1>13. Counted BY <1>7, <1>9, <1>10, <1>11, <1>12 DEF Counted
<1> QED BY <1>6, <1>8, <1>10, <1>13 DEF RequestsInv, WorkerFits

\* Every step keeps it.
LEMMA RequestsInvNext == ConstantsAssumption /\ RequestsInv /\ [Next]_vars => RequestsInv'
<1> SUFFICES ASSUME ConstantsAssumption, RequestsInv, [Next]_vars PROVE RequestsInv'
  OBVIOUS
<1>1. CASE UNCHANGED vars
  BY <1>1 DEF vars, RequestsInv, Counted, TableFits, Size, StatesAreReached, WorkerFits, StepFits,
              PositionsFit, WritesFit, Knows, Moves, Same
<1>2. ASSUME NEW w \in Workers, Start(w) PROVE RequestsInv'
  BY <1>2, StartCreateStep, StartUpdateStep, StartArchiveStep, StartMoveStep, ConstantsAssumption DEF Start
<1>3. ASSUME NEW w \in Workers, Step(w) PROVE RequestsInv'
  <2>1. run[w] # None BY <1>3 DEF Step
  <2>2. CASE Insert(w) BY <2>1, <2>2, InsertStep, ConstantsAssumption
  <2>3. CASE ReadOriginal(w) BY <2>1, <2>3, ReadOriginalStep, ConstantsAssumption
  <2>4. CASE SaveFields(w) BY <2>1, <2>4, SaveFieldsStep, ConstantsAssumption
  <2>5. CASE Transit(w) BY <2>1, <2>5, TransitUpdateStep, TransitMoveStep, ConstantsAssumption
  <2>6. CASE SaveArchived(w) BY <2>1, <2>6, SaveArchivedStep, ConstantsAssumption
  <2>7. CASE Vacate(w) BY <2>1, <2>7, VacateStep, ConstantsAssumption
  <2>8. CASE Occupy(w) BY <2>1, <2>8, OccupyStep, ConstantsAssumption
  <2>9. CASE SavePosition(w) BY <2>1, <2>9, SavePositionStep, ConstantsAssumption
  <2>10. CASE Commit(w) BY <2>1, <2>10, CommitStep, ConstantsAssumption
  <2> QED BY <1>3, <2>2, <2>3, <2>4, <2>5, <2>6, <2>7, <2>8, <2>9, <2>10 DEF Step
<1>4. ASSUME NEW w \in Workers, BreakDeadlock(w) \/ Crash(w) PROVE RequestsInv'
  BY <1>4, RollBackStep, ConstantsAssumption
<1> QED BY <1>1, <1>2, <1>3, <1>4 DEF Next

\* Throughout.
LEMMA RequestsInvariant == Spec => []RequestsInv
<1>1. Init => RequestsInv BY RequestsInvInit, ConstantsAssumption
<1>2. RequestsInv /\ [Next]_vars => RequestsInv' BY RequestsInvNext, ConstantsAssumption
<1> QED BY <1>1, <1>2, PTL DEF Spec

-----------------------------------------------------------------------------
(* What follows.                                                           *)

\* Whatever the interleaving, the table, the transactions and the requests
\* keep their shape, and no two transactions have written the same row.
THEOREM RequestsTypeCorrect == Spec => []TypeOK
<1>1. RequestsInv => TypeOK
  <2> SUFFICES ASSUME RequestsInv PROVE TypeOK
    OBVIOUS
  <2>1. DOMAIN rows \subseteq 1..MaxIssues /\ rows \in [DOMAIN rows -> Row]
    BY TableShape, ConstantsAssumption DEF RequestsInv, TableFits
  <2>2. ASSUME NEW w \in Workers
        PROVE  /\ DOMAIN pending[w] \subseteq DOMAIN rows
               /\ pending[w] \in [DOMAIN pending[w] -> Row]
               /\ run[w] = None \/ run[w] \in Request
               /\ run[w] = None => pending[w] = NoRows
    <3>1. CASE run[w] = None BY <3>1 DEF RequestsInv, WorkerFits, NoRows
    <3>2. CASE run[w] # None BY <3>2, WorkerShape, ConstantsAssumption DEF WritesFit
    <3> QED BY <3>1, <3>2
  <2> QED BY <2>1, <2>2 DEF TypeOK, RequestsInv, Counted
<1> QED BY <1>1, RequestsInvariant, PTL

\* Requests that renumber from tables they read before others wrote leave no
\* position beyond the number of issues and no state nobody took the issue to.
THEOREM StaleWritesAreBounded == Spec => []StaleWritesStayInBounds
<1>1. RequestsInv => StaleWritesStayInBounds
  BY DEF RequestsInv, TableFits, Size, StaleWritesStayInBounds, PositionsBounded
<1> QED BY <1>1, RequestsInvariant, PTL

\* What a step of w does to row i: its position at most, or the row is that of
\* its own request; and unless that is overtaken, what it undoes is recorded.
Honest(w, i) ==
  \/ Same(rows'[i], rows[i])
  \/ /\ run[w] # None /\ run'[w] # run[w] /\ run[w].issue = i
     /\ w \notin overtaken => /\ rows'[i].state = rows[i].state \/ StoredNow(i)
                              /\ rows[i].archived => rows'[i].archived

\* What is published of row i.
LEMMA Published ==
  ASSUME NEW w, NEW W, Publish(w, W), NEW i \in DOMAIN rows
  PROVE  rows'[i] = IF i \in DOMAIN W THEN W[i] ELSE rows[i]
  BY DEF Publish

\* A whole-row save.
LEMMA SaveFieldsHonest ==
  ASSUME ConstantsAssumption, RequestsInv, NEW w \in Workers, run[w] # None, SaveFields(w),
         NEW i \in DOMAIN rows
  PROVE  Honest(w, i)
<1>1. PICK p : p = run[w] OBVIOUS
<1>2. PICK W : W = [j \in {p.issue} |-> p.mem] OBVIOUS
<1>3. p.pc = "fields" /\ Publish(w, W) BY <1>1, <1>2 DEF SaveFields, WriteThrough
<1>4. p \in Request /\ StepFits(p) /\ Knows(w) BY <1>1, WorkerShape, ConstantsAssumption
<1>5. rows'[i] = IF i = p.issue THEN p.mem ELSE rows[i] BY <1>2, <1>3, Published
<1>6. CASE i = p.issue
  <2>1. run'[w] # run[w]
    <3>1. /\ \/ run' = [run EXCEPT ![w] = None]
             \/ run' = [run EXCEPT ![w] = [p EXCEPT !.pc = "transit"]]
             \/ run' = [run EXCEPT ![w] = [p EXCEPT !.pc = "vacate"]]
          /\ run = [v \in Workers |-> run[v]]
      BY <1>1 DEF SaveFields, Become, Answer, RequestsInv, Counted
    <3>2. run'[w] \in {None, [p EXCEPT !.pc = "transit"], [p EXCEPT !.pc = "vacate"]} BY <3>1
    <3>3. [p EXCEPT !.pc = "transit"].pc = "transit" /\ [p EXCEPT !.pc = "vacate"].pc = "vacate"
      BY <1>4 DEF Request
    <3> QED BY <1>1, <1>3, <3>2, <3>3
  <2>2. p.op = "update" BY <1>3, <1>4 DEF StepFits
  <2>3. w \notin overtaken => rows[i].archived = p.mem.archived /\ rows[i].state = p.mem.state
    BY <1>1, <1>3, <1>4, <1>6, <2>2 DEF Knows
  <2> QED BY <1>1, <1>5, <1>6, <2>1, <2>3 DEF Honest
<1>7. CASE i # p.issue BY <1>5, <1>7 DEF Honest, Same
<1> QED BY <1>6, <1>7

\* A change of state.
LEMMA TransitHonest ==
  ASSUME ConstantsAssumption, RequestsInv, NEW w \in Workers, run[w] # None, Transit(w),
         NEW i \in DOMAIN rows
  PROVE  Honest(w, i)
<1>1. PICK p : p = run[w] OBVIOUS
<1>2. PICK m : m = [p.mem EXCEPT !.state = p.target] OBVIOUS
<1>3. PICK W : W = [j \in {p.issue} |-> m] OBVIOUS
<1>4. p.pc = "transit" /\ run' = [run EXCEPT ![w] = [p EXCEPT !.mem = m, !.pc = "vacate"]]
  BY <1>1, <1>2 DEF Transit, Become
<1>5. p \in Request /\ Knows(w) /\ p.mem \in Row BY <1>1, WorkerShape, RequestFields, ConstantsAssumption
<1>6. CASE p.op = "update"
  <2>1. Publish(w, W) /\ stored' = {<<p.issue, p.mem.state, p.target>>}
    BY <1>1, <1>2, <1>3, <1>6 DEF Transit, WriteThrough, Store
  <2>2. rows'[i] = IF i = p.issue THEN m ELSE rows[i] BY <1>3, <2>1, Published
  <2>3. m.state = p.target /\ m.archived = p.mem.archived BY <1>2, <1>5 DEF Row
  <2>4. CASE i = p.issue
    <3>1. run'[w] # run[w]
      <4>1. run = [v \in Workers |-> run[v]] BY DEF RequestsInv, Counted
      <4>2. run'[w] = [p EXCEPT !.mem = m, !.pc = "vacate"] BY <1>4, <4>1
      <4>3. [p EXCEPT !.mem = m, !.pc = "vacate"].pc = "vacate" BY <1>5 DEF Request
      <4> QED BY <1>1, <1>4, <4>2, <4>3
    <3>2. w \notin overtaken => rows[i].archived = p.mem.archived /\ rows[i].state = p.mem.state
      BY <1>1, <1>4, <1>5, <1>6, <2>4 DEF Knows
    <3>3. w \notin overtaken => StoredNow(i) BY <2>1, <2>2, <2>3, <2>4, <3>2 DEF StoredNow
    <3> QED BY <1>1, <2>2, <2>3, <2>4, <3>1, <3>2, <3>3 DEF Honest
  <2>5. CASE i # p.issue BY <2>2, <2>5 DEF Honest, Same
  <2> QED BY <2>4, <2>5
<1>7. CASE p.op # "update"
  <2>1. rows' = rows BY <1>1, <1>7 DEF Transit, Write
  <2> QED BY <2>1 DEF Honest, Same
<1> QED BY <1>6, <1>7

\* A transaction commits.
LEMMA CommitHonest ==
  ASSUME ConstantsAssumption, RequestsInv, NEW w \in Workers, run[w] # None, Commit(w),
         NEW i \in DOMAIN rows
  PROVE  Honest(w, i)
<1>1. PICK p : p = run[w] OBVIOUS
<1>2. PICK W : W = pending[w] OBVIOUS
<1>3. /\ Publish(w, W) /\ p.pc \in {"vacating", "occupying"} /\ run'[w] = None
      /\ Moves(p) => stored' = {<<p.issue, p.orig.state, p.target>>}
  <2>1. run' = [run EXCEPT ![w] = None] /\ run = [v \in Workers |-> run[v]]
    BY DEF Commit, Answer, RequestsInv, Counted
  <2> QED BY <1>1, <1>2, <2>1 DEF Commit, Store, Moves
<1>4. p \in Request /\ StepFits(p) /\ WritesFit(w) /\ Knows(w) BY <1>1, WorkerShape, ConstantsAssumption
<1>5. rows'[i] = IF i \in DOMAIN W THEN W[i] ELSE rows[i] BY <1>3, Published
<1>6. CASE i \notin DOMAIN W BY <1>5, <1>6 DEF Honest, Same
<1>7. CASE i \in DOMAIN W /\ (i # p.issue \/ p.op = "update")
  BY <1>1, <1>2, <1>4, <1>5, <1>7 DEF Honest, WritesFit
<1>8. CASE i \in DOMAIN W /\ i = p.issue /\ p.op # "update"
  <2>1. p.op \in {"archive", "move"} BY <1>3, <1>4, <1>8 DEF StepFits, Request, Ops
  <2>2. p.op = "archive" => rows'[i].state = rows[i].state /\ (rows[i].archived => rows'[i].archived)
    BY <1>1, <1>2, <1>4, <1>5, <1>8 DEF WritesFit
  <2>3. p.op = "move" /\ w \notin overtaken =>
          /\ rows'[i].archived = rows[i].archived
          /\ rows'[i].state = p.target /\ rows[i].state = p.orig.state
    BY <1>1, <1>2, <1>4, <1>5, <1>8 DEF Knows
  <2>4. p.op = "move" /\ w \notin overtaken => rows'[i].state = rows[i].state \/ StoredNow(i)
    BY <1>3, <1>8, <2>3 DEF Moves, StoredNow
  <2> QED BY <1>1, <1>3, <1>8, <2>1, <2>2, <2>3, <2>4 DEF Honest
<1> QED BY <1>6, <1>7, <1>8

\* Every step.
LEMMA StepsAreHonest ==
  ASSUME ConstantsAssumption, RequestsInv, NEW w \in Workers,
         Start(w) \/ Step(w) \/ BreakDeadlock(w) \/ Crash(w), NEW i \in DOMAIN rows
  PROVE  Honest(w, i)
<1>1. ASSUME rows' = rows PROVE Honest(w, i) BY <1>1 DEF Honest, Same
<1>2. CASE Start(w)
  BY <1>1, <1>2 DEF Start, StartCreate, StartUpdate, StartArchive, StartMove, Begin
<1>3. CASE Step(w)
  <2>1. run[w] # None BY <1>3 DEF Step
  <2>2. CASE Insert(w)
    <3>1. PICK W : W = [j \in {Cardinality(DOMAIN rows) + 1} |-> run[w].mem] OBVIOUS
    <3>2. Publish(w, W) BY <2>2, <3>1 DEF Insert
    <3>3. i \notin DOMAIN W BY <3>1, TableShape DEF RequestsInv, Size
    <3>4. rows'[i] = rows[i] BY <3>2, <3>3, Published
    <3> QED BY <3>4 DEF Honest, Same
  <2>3. CASE SaveFields(w) BY <2>1, <2>3, SaveFieldsHonest, ConstantsAssumption
  <2>4. CASE Transit(w) BY <2>1, <2>4, TransitHonest, ConstantsAssumption
  <2>5. CASE Commit(w) BY <2>1, <2>5, CommitHonest, ConstantsAssumption
  <2>6. CASE ReadOriginal(w) \/ SaveArchived(w) \/ Vacate(w) \/ Occupy(w) \/ SavePosition(w)
    BY <1>1, <2>6 DEF ReadOriginal, SaveArchived, Vacate, Occupy, SavePosition, Write
  <2> QED BY <1>3, <2>2, <2>3, <2>4, <2>5, <2>6 DEF Step
<1>4. CASE BreakDeadlock(w) \/ Crash(w) BY <1>1, <1>4 DEF BreakDeadlock, Crash, RollBack
<1> QED BY <1>2, <1>3, <1>4

\* No step takes an issue off the table.
LEMMA TableGrows ==
  ASSUME NEW w \in Workers, Start(w) \/ Step(w) \/ BreakDeadlock(w) \/ Crash(w)
  PROVE  DOMAIN rows \subseteq DOMAIN rows'
<1>1. ASSUME rows' = rows PROVE DOMAIN rows \subseteq DOMAIN rows' BY <1>1
<1>2. ASSUME NEW W, Publish(w, W) PROVE DOMAIN rows \subseteq DOMAIN rows' BY <1>2 DEF Publish
<1>3. CASE Start(w)
  BY <1>1, <1>3, ZenonT(60) DEF Start, StartCreate, StartUpdate, StartArchive, StartMove, Begin
<1>4. CASE Step(w)
  BY <1>1, <1>2, <1>4
  DEF Step, Insert, ReadOriginal, SaveFields, Transit, SaveArchived, Vacate, Occupy, SavePosition, Commit,
      Write, WriteThrough
<1>5. CASE BreakDeadlock(w) \/ Crash(w) BY <1>1, <1>5 DEF BreakDeadlock, Crash, RollBack
<1> QED BY <1>3, <1>4, <1>5

\* Renumbering, and whatever else runs at the same time, changes of another
\* issue than the request's own nothing but the position.
THEOREM OnlySubjectsChange == Spec => OnlySubjectChanges
<1> DEFINE Kept(i) == [rows'[i] EXCEPT !.pos = 0] # [rows[i] EXCEPT !.pos = 0] =>
                        \E w \in Workers : run[w] # None /\ run'[w] # run[w] /\ run[w].issue = i
<1>1. RequestsInv /\ RequestsInv' /\ [Next]_vars => [\A i \in DOMAIN rows : Kept(i)]_vars
  <2> SUFFICES ASSUME RequestsInv, RequestsInv', Next, NEW i \in DOMAIN rows PROVE Kept(i)
    OBVIOUS
  <2>1. PICK w \in Workers : Start(w) \/ Step(w) \/ BreakDeadlock(w) \/ Crash(w) BY DEF Next
  <2>2. Honest(w, i) BY <2>1, StepsAreHonest, ConstantsAssumption
  <2>3. rows[i] \in Row BY TableShape DEF RequestsInv
  <2>4. CASE Same(rows'[i], rows[i])
    <3>1. rows'[i] \in Row
      <4>1. i \in DOMAIN rows' BY <2>1, TableGrows, ConstantsAssumption
      <4> QED BY <4>1 DEF RequestsInv, TableFits
    <3> QED BY <2>3, <2>4, <3>1, SameRows
  <2>5. CASE ~Same(rows'[i], rows[i]) BY <2>2, <2>5 DEF Honest
  <2> QED BY <2>4, <2>5
<1> QED BY <1>1, RequestsInvariant, PTL DEF Spec, OnlySubjectChanges

\* An issue loses a state without a record, or comes back from the archive,
\* only by a request that another one has overtaken on that issue.
THEOREM UndoingTakesOverlap == Spec => UndoingNeedsOverlap
<1> DEFINE Excused(i) == (\/ rows'[i].state # rows[i].state /\ ~StoredNow(i)
                          \/ rows[i].archived /\ ~rows'[i].archived)
                         => \E w \in overtaken : run[w].issue = i /\ run'[w] # run[w]
<1>1. RequestsInv /\ [Next]_vars => [\A i \in DOMAIN rows : Excused(i)]_vars
  <2> SUFFICES ASSUME RequestsInv, Next, NEW i \in DOMAIN rows PROVE Excused(i)
    OBVIOUS
  <2>1. PICK w \in Workers : Start(w) \/ Step(w) \/ BreakDeadlock(w) \/ Crash(w) BY DEF Next
  <2>2. Honest(w, i) BY <2>1, StepsAreHonest, ConstantsAssumption
  <2> QED BY <2>2 DEF Honest, Same
<1> QED BY <1>1, RequestsInvariant, PTL DEF Spec, UndoingNeedsOverlap

-----------------------------------------------------------------------------
(* Who waits for whom.                                                     *)

\* Only a transaction that has renumbered, or is about to, has locked rows.  An
\* update that renumbers has stored what its form asked for.
Stores(w) ==
  run[w] # None =>
    /\ run[w].pc \in {"insert", "original", "fields", "transit", "archive"} => pending[w] = NoRows
    /\ run[w].op = "update" /\ run[w].pc = "fields" => run[w].mem.state = run[w].orig.state
    /\ run[w].op = "update" /\ run[w].pc \in {"vacate", "vacating", "occupy", "occupying"} =>
         /\ run[w].mem.state = run[w].target
         /\ w \notin overtaken => rows[run[w].issue] = run[w].mem

\* The invariant.
StoresInv == \A w \in Workers : Stores(w)

\* A step of w leaves what the others have stored, or overtakes them.
LEMMA StoresOn ==
  ASSUME ConstantsAssumption, RequestsInv, StoresInv, NEW w \in Workers, NEW q,
         run' = [run EXCEPT ![w] = q],
         pending' = pending \/ \E p : pending' = [pending EXCEPT ![w] = p],
         \/ rows' = rows /\ overtaken' \in {overtaken, overtaken \ {w}}
         \/ \E W : Publish(w, W),
         Stores(w)'
  PROVE  StoresInv'
<1> SUFFICES ASSUME NEW v \in Workers, v # w PROVE Stores(v)'
  BY DEF StoresInv
<1>1. run'[v] = run[v] /\ pending'[v] = pending[v] BY OneWorker DEF OthersStay
<1>2. Stores(v) BY DEF StoresInv
<1>3. run[v] # None /\ run[v].op = "update" => run[v].issue \in DOMAIN rows
  BY WorkerShape, ConstantsAssumption DEF StepFits, PositionsFit
<1>4. ASSUME run[v] # None, v \notin overtaken', run[v].issue \in DOMAIN rows
      PROVE  v \notin overtaken /\ rows'[run[v].issue] = rows[run[v].issue]
  <2>1. CASE rows' = rows /\ overtaken' \in {overtaken, overtaken \ {w}} BY <1>4, <2>1
  <2>2. ASSUME NEW W, Publish(w, W)
        PROVE  v \notin overtaken /\ rows'[run[v].issue] = rows[run[v].issue]
    <3>1. v \notin overtaken /\ run[v].issue \notin DOMAIN W BY <1>4, <2>2 DEF Publish
    <3> QED BY <1>4, <2>2, <3>1, Published
  <2> QED BY <2>1, <2>2
<1> QED BY <1>1, <1>2, <1>3, <1>4 DEF Stores

\* A request begins with a transaction that has locked nothing.
LEMMA StartStores ==
  ASSUME ConstantsAssumption, RequestsInv, StoresInv, NEW w \in Workers, Start(w)
  PROVE  StoresInv'
<1>1. ASSUME NEW r, Begin(w, r), r.pc # "fields", r.op = "update" => r.pc = "original"
      PROVE  StoresInv'
  <2>1. /\ run[w] = None /\ run' = [run EXCEPT ![w] = r] /\ pending' = pending /\ rows' = rows
        /\ overtaken' = overtaken
    BY <1>1 DEF Begin
  <2>2. run'[w] = r /\ pending'[w] = NoRows
    BY <2>1 DEF RequestsInv, Counted, WorkerFits
  <2>3. Stores(w)' BY <1>1, <2>2 DEF Stores
  <2> QED BY <2>1, <2>3, StoresOn, ConstantsAssumption
<1>2. ASSUME NEW op, NEW pc, NEW i, NEW s, NEW k, NEW m
      PROVE  Loaded(op, pc, i, s, k, m).pc = pc /\ Loaded(op, pc, i, s, k, m).op = op
  BY DEF Loaded
<1>3. ASSUME NEW s \in States, NEW p \in Priorities, StartCreate(w, s, p) PROVE StoresInv'
  <2>1. PICK m : Begin(w, Loaded("create", "insert", 0, s, 0, m)) BY <1>3 DEF StartCreate
  <2> QED BY <1>1, <1>2, <2>1
<1>4. ASSUME NEW s \in States, NEW p \in Priorities, NEW i \in DOMAIN rows, StartUpdate(w, i, s, p)
      PROVE  StoresInv'
  <2>1. PICK m : Begin(w, Loaded("update", "original", i, s, MaxIssues, m)) BY <1>4 DEF StartUpdate
  <2> QED BY <1>1, <1>2, <2>1
<1>5. ASSUME NEW i \in DOMAIN rows, StartArchive(w, i) PROVE StoresInv'
  <2>1. PICK s, m : Begin(w, Loaded("archive", "archive", i, s, 0, m)) BY <1>5 DEF StartArchive
  <2> QED BY <1>1, <1>2, <2>1
<1>6. ASSUME NEW i \in DOMAIN rows, NEW s \in BoardStates, NEW k \in 0..MaxIssues, StartMove(w, i, s, k)
      PROVE  StoresInv'
  <2>1. PICK pc, m : Begin(w, Loaded("move", pc, i, s, k, m)) /\ pc \in {"occupy", "transit"}
    BY <1>6 DEF StartMove
  <2> QED BY <1>1, <1>2, <2>1
<1> QED BY <1>3, <1>4, <1>5, <1>6 DEF Start

\* A request that goes on within its renumbering keeps its instance.
LEMMA RenumberStores ==
  ASSUME ConstantsAssumption, RequestsInv, StoresInv, NEW w \in Workers, run[w] # None,
         Vacate(w) \/ Occupy(w) \/ SavePosition(w)
  PROVE  StoresInv'
<1>1. PICK r : r = run[w] OBVIOUS
<1>2. r \in Request /\ StepFits(r) BY <1>1, WorkerShape, ConstantsAssumption
<1>3. PICK pc, T : run' = [run EXCEPT ![w] = [r EXCEPT !.pc = pc, !.todo = T]]
                   /\ pc \in {"vacating", "occupying"}
  <2>1. CASE Vacate(w) BY <1>1, <2>1 DEF Vacate, Become
  <2>2. CASE Occupy(w) BY <1>1, <2>2 DEF Occupy, Become
  <2>3. CASE SavePosition(w)
    <3>1. PICK T : run' = [run EXCEPT ![w] = [r EXCEPT !.todo = T]] /\ r.pc \in {"vacating", "occupying"}
      BY <1>1, <2>3 DEF SavePosition, Become, Renumbering
    <3>2. [r EXCEPT !.todo = T] = [r EXCEPT !.pc = r.pc, !.todo = T] BY <1>2 DEF Request
    <3> QED BY <3>1, <3>2
  <2> QED BY <2>1, <2>2, <2>3
<1>4. PICK q : q = [r EXCEPT !.pc = pc, !.todo = T] OBVIOUS
<1>5. /\ q.pc = pc /\ q.op = r.op /\ q.target = r.target /\ q.mem = r.mem /\ q.issue = r.issue
  BY <1>2, <1>4 DEF Request
<1>6. r.pc \in {"vacate", "occupy", "vacating", "occupying"}
  BY <1>1 DEF Vacate, Occupy, SavePosition, Renumbering
<1>7. /\ rows' = rows /\ overtaken' = overtaken
      /\ pending' = pending \/ \E p : pending' = [pending EXCEPT ![w] = p]
  BY DEF Vacate, Occupy, SavePosition, Write
<1>8. run'[w] = q BY <1>3, <1>4 DEF RequestsInv, Counted
<1>9. Stores(w) BY DEF StoresInv
<1>10. Stores(w)' BY <1>1, <1>3, <1>5, <1>6, <1>7, <1>8, <1>9 DEF Stores
<1> QED BY <1>3, <1>7, <1>10, StoresOn, ConstantsAssumption

\* update_issue has read the row again.
LEMMA ReadOriginalStores ==
  ASSUME ConstantsAssumption, RequestsInv, StoresInv, NEW w \in Workers, run[w] # None, ReadOriginal(w)
  PROVE  StoresInv'
<1>1. PICK r : r = run[w] OBVIOUS
<1>2. PICK now : now = rows[r.issue] OBVIOUS
<1>3. PICK q : q = [r EXCEPT !.orig = now, !.mem.state = now.state, !.pc = "fields"] OBVIOUS
<1>4. /\ r.pc = "original" /\ run' = [run EXCEPT ![w] = q] /\ rows' = rows /\ pending' = pending
      /\ overtaken' = overtaken
  BY <1>1, <1>2, <1>3 DEF ReadOriginal, Become
<1>5. r \in Request /\ r.mem \in Row BY <1>1, WorkerShape, RequestFields, ConstantsAssumption
<1>6. q.pc = "fields" /\ q.mem.state = now.state /\ q.orig = now
  BY <1>3, <1>5 DEF Request, Row
<1>7. run'[w] = q /\ pending'[w] = NoRows
  BY <1>1, <1>4 DEF RequestsInv, Counted, StoresInv, Stores
<1>8. Stores(w)' BY <1>6, <1>7 DEF Stores
<1> QED BY <1>4, <1>8, StoresOn, ConstantsAssumption

\* update_issue has saved the fields.
LEMMA SaveFieldsStores ==
  ASSUME ConstantsAssumption, RequestsInv, StoresInv, NEW w \in Workers, run[w] # None, SaveFields(w)
  PROVE  StoresInv'
<1>1. PICK p : p = run[w] OBVIOUS
<1>2. PICK i : i = p.issue OBVIOUS
<1>3. PICK W : W = [j \in {i} |-> p.mem] OBVIOUS
<1>4. PICK q : q = IF p.target # p.orig.state THEN [p EXCEPT !.pc = "transit"]
                   ELSE IF p.mem.priority # p.orig.priority THEN [p EXCEPT !.pc = "vacate"]
                   ELSE None
  OBVIOUS
<1>5. p.pc = "fields" /\ Publish(w, W) /\ run' = [run EXCEPT ![w] = q]
  BY <1>1, <1>2, <1>3, <1>4 DEF SaveFields, WriteThrough, Become, Answer
<1>6. p \in Request /\ StepFits(p) /\ PositionsFit(p) BY <1>1, WorkerShape, ConstantsAssumption
<1>7. p.op = "update" /\ i \in DOMAIN rows BY <1>2, <1>5, <1>6 DEF StepFits, PositionsFit
<1>8. p.mem.state = p.orig.state BY <1>1, <1>5, <1>7 DEF StoresInv, Stores
<1>9. pending' = [pending EXCEPT ![w] = NoRows] /\ rows'[i] = p.mem
  BY <1>3, <1>5, <1>7, Published DEF Publish
<1>10. run'[w] = q /\ pending'[w] = NoRows BY <1>5, <1>9 DEF RequestsInv, Counted
<1>11. q # None =>
         /\ q.pc \in {"transit", "vacate"} /\ q.issue = i /\ q.target = p.target /\ q.mem = p.mem
         /\ q.pc = "vacate" => p.target = p.orig.state
  BY <1>2, <1>4, <1>6 DEF Request
<1>12. Stores(w)' BY <1>8, <1>9, <1>10, <1>11 DEF Stores
<1> QED BY <1>5, <1>9, <1>12, StoresOn, ConstantsAssumption

\* update_workflow_state has saved the state.
LEMMA TransitStores ==
  ASSUME ConstantsAssumption, RequestsInv, StoresInv, NEW w \in Workers, run[w] # None, Transit(w)
  PROVE  StoresInv'
<1>1. PICK p : p = run[w] OBVIOUS
<1>2. PICK i : i = p.issue OBVIOUS
<1>3. PICK m : m = [p.mem EXCEPT !.state = p.target] OBVIOUS
<1>4. PICK W : W = [j \in {i} |-> m] OBVIOUS
<1>5. PICK q : q = [p EXCEPT !.mem = m, !.pc = "vacate"] OBVIOUS
<1>6. p.pc = "transit" /\ run' = [run EXCEPT ![w] = q] BY <1>1, <1>3, <1>5 DEF Transit, Become
<1>7. p \in Request /\ StepFits(p) /\ PositionsFit(p) /\ p.mem \in Row
  BY <1>1, WorkerShape, RequestFields, ConstantsAssumption
<1>8. i \in DOMAIN rows BY <1>2, <1>6, <1>7 DEF StepFits, PositionsFit
<1>9. /\ q.pc = "vacate" /\ q.issue = i /\ q.target = p.target /\ q.mem = m /\ q.op = p.op
      /\ m.state = p.target
  BY <1>2, <1>3, <1>5, <1>7 DEF Request, Row
<1>10. run'[w] = q BY <1>6 DEF RequestsInv, Counted
<1>11. CASE p.op = "update"
  <2>1. Publish(w, W) BY <1>1, <1>2, <1>3, <1>4, <1>11 DEF Transit, WriteThrough
  <2>2. pending' = [pending EXCEPT ![w] = NoRows] /\ rows'[i] = m
    BY <1>4, <1>8, <2>1, Published DEF Publish
  <2>3. Stores(w)' BY <1>9, <1>10, <2>2 DEF Stores
  <2> QED BY <1>6, <2>1, <2>2, <2>3, StoresOn, ConstantsAssumption
<1>12. CASE p.op # "update"
  <2>1. /\ rows' = rows /\ overtaken' = overtaken
        /\ \E pp : pending' = [pending EXCEPT ![w] = pp]
    BY <1>1, <1>12 DEF Transit, Write
  <2>2. Stores(w)' BY <1>9, <1>10, <1>12 DEF Stores
  <2> QED BY <1>6, <2>1, <2>2, StoresOn, ConstantsAssumption
<1> QED BY <1>11, <1>12

\* archive has saved its fields.
LEMMA SaveArchivedStores ==
  ASSUME ConstantsAssumption, RequestsInv, StoresInv, NEW w \in Workers, run[w] # None, SaveArchived(w)
  PROVE  StoresInv'
<1>1. PICK p : p = run[w] OBVIOUS
<1>2. PICK q : q = [p EXCEPT !.pc = "vacate"] OBVIOUS
<1>3. /\ p.pc = "archive" /\ run' = [run EXCEPT ![w] = q] /\ rows' = rows /\ overtaken' = overtaken
      /\ \E pp : pending' = [pending EXCEPT ![w] = pp]
  BY <1>1, <1>2 DEF SaveArchived, Become, Write
<1>4. p \in Request /\ p.op = "archive" BY <1>1, <1>3, WorkerShape, ConstantsAssumption DEF StepFits
<1>5. q.pc = "vacate" /\ q.op = "archive" BY <1>2, <1>4 DEF Request
<1>6. run'[w] = q BY <1>3 DEF RequestsInv, Counted
<1>7. Stores(w)' BY <1>5, <1>6 DEF Stores
<1> QED BY <1>3, <1>7, StoresOn, ConstantsAssumption

\* A request ends.
LEMMA EndStores ==
  ASSUME ConstantsAssumption, RequestsInv, StoresInv, NEW w \in Workers,
         Insert(w) \/ Commit(w) \/ BreakDeadlock(w) \/ Crash(w)
  PROVE  StoresInv'
<1>1. run' = [run EXCEPT ![w] = None]
  BY DEF Insert, Commit, BreakDeadlock, Crash, Answer, RollBack
<1>2. pending' = [pending EXCEPT ![w] = NoRows]
  BY DEF Insert, Commit, BreakDeadlock, Crash, Publish, RollBack
<1>3. \/ rows' = rows /\ overtaken' \in {overtaken, overtaken \ {w}}
      \/ \E W : Publish(w, W)
  BY DEF Insert, Commit, BreakDeadlock, Crash, RollBack
<1>4. run'[w] = None BY <1>1 DEF RequestsInv, Counted
<1>5. Stores(w)' BY <1>4 DEF Stores
<1> QED BY <1>1, <1>2, <1>3, <1>5, StoresOn, ConstantsAssumption

\* Throughout.
LEMMA StoresInvariant == Spec => []StoresInv
<1>1. Init => StoresInv BY DEF Init, StoresInv, Stores
<1>2. RequestsInv /\ StoresInv /\ [Next]_vars => StoresInv'
  <2> SUFFICES ASSUME RequestsInv, StoresInv, [Next]_vars PROVE StoresInv'
    OBVIOUS
  <2>1. CASE UNCHANGED vars BY <2>1 DEF vars, StoresInv, Stores
  <2>2. ASSUME NEW w \in Workers, Start(w) PROVE StoresInv' BY <2>2, StartStores, ConstantsAssumption
  <2>3. ASSUME NEW w \in Workers, Step(w) PROVE StoresInv'
    BY <2>3, RenumberStores, ReadOriginalStores, SaveFieldsStores, TransitStores, SaveArchivedStores,
       EndStores, ConstantsAssumption
    DEF Step
  <2>4. ASSUME NEW w \in Workers, BreakDeadlock(w) \/ Crash(w) PROVE StoresInv'
    BY <2>4, EndStores, ConstantsAssumption
  <2> QED BY <2>1, <2>2, <2>3, <2>4 DEF Next
<1> QED BY <1>1, <1>2, RequestsInvariant, PTL DEF Spec

\* Of a circle of several, each waits for another one and is waited for.
LEMMA CirclesClose ==
  ASSUME NEW C \in SUBSET Workers, Circle(C), NEW w \in C, C # {w}
  PROVE  WaitsFor(w) # {} /\ \E v \in C : w \in WaitsFor(v)
<1>1. {w} \in SUBSET C /\ {w} \notin {{}, C} OBVIOUS
<1>2. C \ {w} \in SUBSET C /\ C \ {w} \notin {{}, C} OBVIOUS
<1>3. \E v \in {w} : WaitsFor(v) \cap (C \ {w}) # {} BY <1>1 DEF Circle
<1>4. \E v \in C \ {w} : WaitsFor(v) \cap (C \ (C \ {w})) # {} BY <1>2 DEF Circle
<1> QED BY <1>3, <1>4

\* Who is waited for has written rows.
LEMMA OwnersWrote ==
  ASSUME NEW w, NEW v \in WaitsFor(w)
  PROVE  v \in Workers /\ v # w /\ pending[v] # NoRows
  BY DEF WaitsFor, Owner, NoRows

\* A finite set in which nobody looks out has a part in which all see each
\* other: the least one that is as closed.
LEMMA LeastClosed ==
  ASSUME NEW S, IsFiniteSet(S), S # {}, \A v \in S : WaitsFor(v) \cap S # {}
  PROVE  \E C \in SUBSET S : C # {} /\ Circle(C) /\ \A v \in C : WaitsFor(v) \cap C # {}
<1> DEFINE Closed1(C) == C # {} /\ \A v \in C : WaitsFor(v) \cap C # {}
           K == {Cardinality(C) : C \in {D \in SUBSET S : Closed1(D)}}
<1>1. S \in {D \in SUBSET S : Closed1(D)} OBVIOUS
<1>2. \A D \in SUBSET S : IsFiniteSet(D) /\ Cardinality(D) \in Nat BY FS_Subset, FS_CardinalityType
<1>3. K \subseteq Nat /\ K # {} BY <1>1, <1>2
<1>4. PICK m \in K : \A k \in K : ~ (<<k, m>> \in OpToRel(<, Nat))
  BY <1>3, NatLessThanWellFounded, WFMin
<1>5. PICK C \in SUBSET S : Closed1(C) /\ Cardinality(C) = m OBVIOUS
<1>6. Circle(C)
  <2> SUFFICES ASSUME NEW D \in SUBSET C, D \notin {{}, C}, \A v \in D : WaitsFor(v) \cap (C \ D) = {}
               PROVE  FALSE
    BY DEF Circle
  <2>1. D \in SUBSET S /\ Closed1(D) BY <1>5
  <2>2. Cardinality(D) \in K BY <2>1
  <2>3. Cardinality(D) < Cardinality(C) BY <1>2, <1>5, FS_Subset
  <2> QED BY <1>2, <1>3, <1>4, <1>5, <2>2, <2>3 DEF OpToRel
<1> QED BY <1>5, <1>6

\* Requests of whom each renumbers are all that a deadlock can abort; an update
\* among them has stored what its form asked for.  And whoever waits, waits for
\* a request that goes on or is aborted.
THEOREM DeadlocksEnd == Spec => []DeadlocksCostPositionsOnly
<1>1. RequestsInv /\ StoresInv => VictimsRenumber
  <2> SUFFICES ASSUME RequestsInv, StoresInv, NEW w \in Workers, Deadlocked(w)
               PROVE  /\ Renumbering(run[w])
                      /\ run[w].op = "update" /\ w \notin overtaken =>
                           [rows[run[w].issue] EXCEPT !.pos = 0] =
                             [run[w].mem EXCEPT !.pos = 0, !.state = run[w].target]
    BY DEF VictimsRenumber
  <2>1. PICK C \in SUBSET Workers : w \in C /\ C # {w} /\ Circle(C) BY DEF Deadlocked
  <2>2. WaitsFor(w) # {} /\ pending[w] # NoRows BY <2>1, CirclesClose, OwnersWrote
  <2>3. run[w] # None BY <2>2 DEF WaitsFor, Wanted
  <2>4. Stores(w) BY DEF StoresInv
  <2>5. Renumbering(run[w]) BY <2>2, <2>3, <2>4 DEF WaitsFor, Wanted, Stores
  <2>6. ASSUME run[w].op = "update", w \notin overtaken
        PROVE  [rows[run[w].issue] EXCEPT !.pos = 0] =
                 [run[w].mem EXCEPT !.pos = 0, !.state = run[w].target]
    <3>1. rows[run[w].issue] = run[w].mem /\ run[w].mem.state = run[w].target
      BY <2>3, <2>4, <2>5, <2>6 DEF Stores, Renumbering
    <3>2. run[w].mem \in Row BY <2>3, WorkerShape, RequestFields, ConstantsAssumption
    <3> QED BY <3>1, <3>2 DEF Row
  <2> QED BY <2>5, <2>6
<1>2. RequestsInv => SomebodyGoesOn
  <2> SUFFICES ASSUME RequestsInv, NEW C \in SUBSET Workers, \A v \in C : WaitsFor(v) \subseteq C,
                      \E v \in C : run[v] # None,
                      \A v \in C : run[v] # None => WaitsFor(v) # {}
               PROVE  \E v \in C : run[v] # None /\ Deadlocked(v)
    BY DEF SomebodyGoesOn
  <2>1. PICK S : S = {v \in C : run[v] # None} OBVIOUS
  <2>2. \A v \in Workers : run[v] = None => pending[v] = NoRows BY DEF RequestsInv, WorkerFits
  <2>3. \A v \in S : WaitsFor(v) \cap S # {} BY <2>1, <2>2, OwnersWrote
  <2>4. IsFiniteSet(S) /\ S # {} BY <2>1, FS_Subset, ConstantsAssumption DEF ConstantsAssumption
  <2>5. PICK D \in SUBSET S : D # {} /\ Circle(D) /\ \A v \in D : WaitsFor(v) \cap D # {}
    BY <2>3, <2>4, LeastClosed
  <2>6. PICK v \in D : TRUE BY <2>5
  <2>7. D # {v} BY <2>5, OwnersWrote
  <2> QED BY <2>1, <2>5, <2>6, <2>7 DEF Deadlocked
<1> QED BY <1>1, <1>2, RequestsInvariant, StoresInvariant, PTL DEF DeadlocksCostPositionsOnly

-----------------------------------------------------------------------------
(* Requests come to an end.                                                *)

\* The stages that a request has still before it.
Stages == [insert |-> 1, original |-> 6, fields |-> 5, transit |-> 4, archive |-> 4, vacate |-> 3,
           vacating |-> 2, occupy |-> 2, occupying |-> 1]

\* The statements that a request takes at most: in a stage it saves as many
\* positions as there are issues, and goes on.
StepsLeft(r) == IF r = None THEN 0 ELSE Stages[r.pc] * (MaxIssues + 1) + Cardinality(r.todo)

\* Each statement of a request, and its abortion, brings it nearer to its end,
\* which other requests do not put off.
Advancing ==
  \A w \in Workers :
    /\ Step(w) \/ BreakDeadlock(w) \/ Crash(w) => StepsLeft(run'[w]) < StepsLeft(run[w])
    /\ \/ run'[w] = run[w]
       \/ StepsLeft(run'[w]) < StepsLeft(run[w])
       \/ run[w] = None /\ StepsLeft(run'[w]) <= 6 * (MaxIssues + 1)

\* No issue is to be given two positions.
Single(T) == \A x, y \in T : x[1] = y[1] => x = y

\* Of all that is to be saved.
SavedOnce == \A w \in Workers : run[w] # None => Single(run[w].todo)

\* The stages count from 1.
LEMMA StagesCount ==
  ASSUME NEW r \in Request
  PROVE  Stages[r.pc] \in 1..6
<1>1. r.pc \in Steps \ {"idle"} BY RequestFields
<1> QED BY <1>1 DEF Steps, Stages

\* A renumbering has one position for each issue that it moves.
LEMMA ChangesOnce ==
  ASSUME NEW t, NEW u
  PROVE  Single(Changes(t, u))
BY DEF Single, Changes

\* So there are no more of them than issues.
LEMMA TodoBounded ==
  ASSUME ConstantsAssumption, NEW r \in Request, Single(r.todo)
  PROVE  IsFiniteSet(r.todo) /\ Cardinality(r.todo) \in 0..MaxIssues
<1>1. r.todo \subseteq (1..MaxIssues) \X Nat BY RequestFields
<1>2. PICK f : f = [x \in r.todo |-> x[1]] OBVIOUS
<1>3. f \in Injection(r.todo, 1..MaxIssues)
  <2>1. f \in [r.todo -> 1..MaxIssues] BY <1>1, <1>2
  <2>2. \A x, y \in r.todo : f[x] = f[y] => x = y BY <1>2 DEF Single
  <2> QED BY <2>1, <2>2 DEF Injection, IsInjective
<1>4. MaxIssues \in Nat BY DEF ConstantsAssumption
<1>5. IsFiniteSet(1..MaxIssues) /\ Cardinality(1..MaxIssues) = MaxIssues
  BY <1>4, FS_Interval
<1>6. IsFiniteSet(r.todo) /\ Cardinality(r.todo) <= MaxIssues BY <1>3, <1>5, FS_Injection
<1> QED BY <1>4, <1>6, FS_CardinalityType

\* A request that is under way has a step to take.
LEMMA LeftIsPositive ==
  ASSUME ConstantsAssumption, NEW r \in Request, Single(r.todo)
  PROVE  StepsLeft(r) \in Nat /\ StepsLeft(r) > StepsLeft(None)
<1>1. PICK k \in 1..6 : k = Stages[r.pc] BY StagesCount
<1>2. PICK n \in Nat : n = Cardinality(r.todo) BY TodoBounded
<1>3. MaxIssues \in Nat /\ r # None BY DEF ConstantsAssumption
<1>4. StepsLeft(r) = k * (MaxIssues + 1) + n /\ StepsLeft(None) = 0
  BY <1>1, <1>2, <1>3 DEF StepsLeft
<1>5. k * (MaxIssues + 1) \in Nat /\ k * (MaxIssues + 1) > 0 BY <1>1, <1>3
<1>6. PICK m \in Nat : m = k * (MaxIssues + 1) BY <1>5
<1> QED BY <1>2, <1>4, <1>5, <1>6

\* A later stage, whatever it has to save.
LEMMA LaterStage ==
  ASSUME ConstantsAssumption, NEW r \in Request, NEW q \in Request, Single(r.todo), Single(q.todo),
         Stages[q.pc] < Stages[r.pc]
  PROVE  StepsLeft(q) < StepsLeft(r)
<1>1. PICK k \in 1..6 : k = Stages[r.pc] BY StagesCount
<1>2. PICK l \in 1..6 : l = Stages[q.pc] BY StagesCount
<1>3. PICK n \in Nat : n = Cardinality(r.todo) BY TodoBounded
<1>4. PICK p \in 0..MaxIssues : p = Cardinality(q.todo) BY TodoBounded
<1>5. MaxIssues \in Nat /\ r # None /\ q # None BY DEF ConstantsAssumption
<1>6. StepsLeft(r) = k * (MaxIssues + 1) + n /\ StepsLeft(q) = l * (MaxIssues + 1) + p
  BY <1>1, <1>2, <1>3, <1>4, <1>5 DEF StepsLeft
<1>7. l < k BY <1>1, <1>2
<1>8. k * (MaxIssues + 1) >= l * (MaxIssues + 1) + (MaxIssues + 1)
  <2>1. PICK d \in Nat : k = l + 1 + d
    <3>1. k - l - 1 \in Nat /\ k = l + 1 + (k - l - 1) BY <1>1, <1>2, <1>7
    <3> QED BY <3>1
  <2>2. k * (MaxIssues + 1) = l * (MaxIssues + 1) + (MaxIssues + 1) + d * (MaxIssues + 1)
    BY <1>2, <1>5, <2>1
  <2>3. d * (MaxIssues + 1) \in Nat BY <1>5, <2>1
  <2> QED BY <1>1, <1>2, <1>5, <2>2, <2>3
<1>9. PICK a \in Nat : a = k * (MaxIssues + 1) BY <1>1, <1>5
<1>10. PICK b \in Nat : b = l * (MaxIssues + 1) BY <1>2, <1>5
<1> QED BY <1>3, <1>4, <1>5, <1>6, <1>8, <1>9, <1>10

\* One position less to save.
LEMMA OneLess ==
  ASSUME ConstantsAssumption, NEW r \in Request, NEW q \in Request, Single(r.todo), NEW x \in r.todo,
         q.pc = r.pc, q.todo = r.todo \ {x}
  PROVE  StepsLeft(q) < StepsLeft(r)
<1>1. PICK k \in 1..6 : k = Stages[r.pc] BY StagesCount
<1>2. PICK n \in Nat : n = Cardinality(r.todo) BY TodoBounded
<1>3. Cardinality(q.todo) = n - 1 BY <1>2, TodoBounded, FS_RemoveElement
<1>4. MaxIssues \in Nat /\ r # None /\ q # None BY DEF ConstantsAssumption
<1>5. PICK a \in Nat : a = k * (MaxIssues + 1) BY <1>1, <1>4
<1>6. StepsLeft(r) = a + n /\ StepsLeft(q) = a + (n - 1)
  BY <1>1, <1>2, <1>3, <1>4, <1>5 DEF StepsLeft
<1> QED BY <1>2, <1>5, <1>6

\* What a statement does to its request.
NearsEnd(w) ==
  LET r == run[w]
      q == run'[w]
  IN \/ q = None
     \/ /\ Stages[q.pc] < Stages[r.pc]
        /\ q.todo = r.todo \/ \E t, u : q.todo = Changes(t, u)
     \/ /\ q.pc = r.pc
        /\ \E x \in r.todo : q.todo = r.todo \ {x}

\* Each of them.
LEMMA StatementsGoOn ==
  ASSUME ConstantsAssumption, RequestsInv, NEW w \in Workers, Step(w)
  PROVE  NearsEnd(w)
<1>1. PICK r : r = run[w] OBVIOUS
<1>2. r # None BY <1>1 DEF Step
<1>3. r \in Request BY <1>1, <1>2, WorkerShape, ConstantsAssumption
<1>4. ASSUME NEW q, run' = [run EXCEPT ![w] = q] PROVE run'[w] = q
  BY <1>4 DEF RequestsInv, Counted
<1>5. CASE Insert(w) \/ Commit(w)
  BY <1>4, <1>5 DEF Insert, Commit, Answer, NearsEnd
<1>6. CASE ReadOriginal(w)
  <2>1. PICK q : q = [r EXCEPT !.orig = rows[r.issue], !.mem.state = rows[r.issue].state, !.pc = "fields"]
    OBVIOUS
  <2>2. r.pc = "original" /\ run'[w] = q BY <1>1, <1>4, <1>6, <2>1 DEF ReadOriginal, Become
  <2>3. q.pc = "fields" /\ q.todo = r.todo BY <1>3, <2>1 DEF Request
  <2> QED BY <1>1, <2>2, <2>3 DEF NearsEnd, Stages
<1>7. CASE SaveFields(w)
  <2>1. r.pc = "fields" /\ (Answer(w, r.issue, TRUE, Events(w)) \/ \E c \in {"transit", "vacate"} : Become(w, [r EXCEPT !.pc = c]))
    BY <1>1, <1>7 DEF SaveFields
  <2>2. CASE Answer(w, r.issue, TRUE, Events(w))
    BY <1>4, <2>2 DEF Answer, NearsEnd
  <2>3. ASSUME NEW c \in {"transit", "vacate"}, Become(w, [r EXCEPT !.pc = c]) PROVE NearsEnd(w)
    <3>1. PICK q : q = [r EXCEPT !.pc = c] OBVIOUS
    <3>2. run'[w] = q BY <1>4, <2>3, <3>1 DEF Become
    <3>3. q.pc = c /\ q.todo = r.todo BY <1>3, <3>1 DEF Request
    <3> QED BY <1>1, <2>1, <3>2, <3>3 DEF NearsEnd, Stages
  <2> QED BY <2>1, <2>2, <2>3
<1>8. CASE Transit(w)
  <2>1. PICK m : m = [r.mem EXCEPT !.state = r.target] OBVIOUS
  <2>2. PICK q : q = [r EXCEPT !.mem = m, !.pc = "vacate"] OBVIOUS
  <2>3. r.pc = "transit" /\ run'[w] = q BY <1>1, <1>4, <1>8, <2>1, <2>2 DEF Transit, Become
  <2>4. q.pc = "vacate" /\ q.todo = r.todo BY <1>3, <2>2 DEF Request
  <2> QED BY <1>1, <2>3, <2>4 DEF NearsEnd, Stages
<1>9. CASE SaveArchived(w)
  <2>1. PICK q : q = [r EXCEPT !.pc = "vacate"] OBVIOUS
  <2>2. r.pc = "archive" /\ run'[w] = q BY <1>1, <1>4, <1>9, <2>1 DEF SaveArchived, Become
  <2>3. q.pc = "vacate" /\ q.todo = r.todo BY <1>3, <2>1 DEF Request
  <2> QED BY <1>1, <2>2, <2>3 DEF NearsEnd, Stages
<1>10. CASE Vacate(w)
  <2>1. PICK t, u : r.pc = "vacate" /\ Become(w, [r EXCEPT !.pc = "vacating", !.todo = Changes(t, u)])
    BY <1>1, <1>10 DEF Vacate
  <2>2. PICK q : q = [r EXCEPT !.pc = "vacating", !.todo = Changes(t, u)] OBVIOUS
  <2>3. run'[w] = q BY <1>4, <2>1, <2>2 DEF Become
  <2>4. q.pc = "vacating" /\ q.todo = Changes(t, u) BY <1>3, <2>2 DEF Request
  <2> QED BY <1>1, <2>1, <2>3, <2>4 DEF NearsEnd, Stages
<1>11. CASE Occupy(w)
  <2>1. PICK t : t = [View(w) EXCEPT ![r.issue] = IF r.op = "update" THEN [r.mem EXCEPT !.pos = 0] ELSE r.mem]
    OBVIOUS
  <2>2. PICK T : T = Changes(t, InsertIntoBand(t, r.issue, r.index)) OBVIOUS
  <2>3. PICK q : q = [r EXCEPT !.pc = "occupying", !.todo = T] OBVIOUS
  <2>4. r.pc = "occupy" \/ r.pc = "vacating" BY <1>1, <1>11 DEF Occupy
  <2>5. Become(w, q) BY <1>1, <1>11, <2>1, <2>2, <2>3, Zenon DEF Occupy
  <2>6. run'[w] = q BY <1>4, <2>5 DEF Become
  <2>7. q.pc = "occupying" /\ q.todo = T BY <1>3, <2>3 DEF Request
  <2> QED BY <1>1, <2>2, <2>4, <2>6, <2>7 DEF NearsEnd, Stages
<1>12. CASE SavePosition(w)
  <2>1. PICK x : x = Due(r) OBVIOUS
  <2>2. r.todo # {} /\ Become(w, [r EXCEPT !.todo = r.todo \ {x}])
    BY <1>1, <1>3, <1>12, <2>1 DEF SavePosition, Renumbering
  <2>3. x \in r.todo BY <1>3, <2>1, <2>2, DueIsOne
  <2>4. PICK q : q = [r EXCEPT !.todo = r.todo \ {x}] OBVIOUS
  <2>5. run'[w] = q BY <1>4, <2>2, <2>4 DEF Become
  <2>6. q.pc = r.pc /\ q.todo = r.todo \ {x} BY <1>3, <2>4 DEF Request
  <2> QED BY <1>1, <2>3, <2>5, <2>6 DEF NearsEnd
<1> QED BY <1>5, <1>6, <1>7, <1>8, <1>9, <1>10, <1>11, <1>12 DEF Step

\* It changes no other worker's request.
LEMMA StepsOwnRun ==
  ASSUME NEW w \in Workers, Start(w) \/ Step(w)
  PROVE  \E q : run' = [run EXCEPT ![w] = q]
<1>1. CASE Start(w) BY <1>1, Zenon DEF Start, StartCreate, StartUpdate, StartArchive, StartMove, Begin
<1>2. CASE Insert(w) \/ Commit(w) BY <1>2, Zenon DEF Insert, Commit, Answer
<1>3. CASE SaveFields(w) BY <1>3, Zenon DEF SaveFields, Become, Answer
<1>4. CASE ReadOriginal(w) \/ Transit(w) BY <1>4, Zenon DEF ReadOriginal, Transit, Become
<1>5. CASE SaveArchived(w) \/ SavePosition(w) BY <1>5, Zenon DEF SaveArchived, SavePosition, Become
<1>6. CASE Vacate(w) BY <1>6, Zenon DEF Vacate, Become
<1>7. CASE Occupy(w) BY <1>7, Zenon DEF Occupy, Become
<1> QED BY <1>1, <1>2, <1>3, <1>4, <1>5, <1>6, <1>7 DEF Step

\* A step is of one request.
LEMMA OwnRunOnly ==
  ASSUME RequestsInv, NEW w \in Workers, Start(w) \/ Step(w) \/ BreakDeadlock(w) \/ Crash(w)
  PROVE  \A v \in Workers \ {w} : run'[v] = run[v]
<1>1. PICK q : run' = [run EXCEPT ![w] = q]
  BY StepsOwnRun DEF BreakDeadlock, Crash, RollBack
<1> QED BY <1>1 DEF RequestsInv, Counted

\* Who is in a circle is running a request.
LEMMA VictimsRun ==
  ASSUME NEW w \in Workers, Deadlocked(w)
  PROVE  run[w] # None
<1>1. PICK C \in SUBSET Workers : w \in C /\ C # {w} /\ Circle(C) BY DEF Deadlocked
<1>2. WaitsFor(w) # {} BY <1>1, CirclesClose
<1> QED BY <1>2 DEF WaitsFor, Wanted

\* A request begins with nothing to save.
LEMMA BeginsEmpty ==
  ASSUME RequestsInv, NEW w \in Workers, Start(w)
  PROVE  run[w] = None /\ run'[w].todo = {}
<1>1. PICK op, pc, i, s, index, mem : Begin(w, Loaded(op, pc, i, s, index, mem))
  BY DEF Start, StartCreate, StartUpdate, StartArchive, StartMove
<1>2. run[w] = None /\ run'[w] = Loaded(op, pc, i, s, index, mem) BY <1>1 DEF Begin, RequestsInv, Counted
<1> QED BY <1>2 DEF Loaded

\* Throughout.
LEMMA SavedOnceInvariant == Spec => []SavedOnce
<1>1. Init => SavedOnce BY DEF Init, SavedOnce
<1>2. RequestsInv /\ SavedOnce /\ [Next]_vars => SavedOnce'
  <2> SUFFICES ASSUME RequestsInv, SavedOnce, [Next]_vars PROVE SavedOnce'
    OBVIOUS
  <2>1. CASE UNCHANGED vars BY <2>1 DEF vars, SavedOnce, Single
  <2>2. ASSUME NEW w \in Workers, Start(w) \/ Step(w) \/ BreakDeadlock(w) \/ Crash(w),
               run'[w] # None => Single(run'[w].todo)
        PROVE  SavedOnce'
    <3>1. \A v \in Workers \ {w} : run'[v] = run[v] BY <2>2, OwnRunOnly
    <3> QED BY <2>2, <3>1 DEF SavedOnce, Single
  <2>3. ASSUME NEW w \in Workers, Start(w) PROVE SavedOnce'
    <3>1. Single(run'[w].todo) BY <2>3, BeginsEmpty DEF Single
    <3> QED BY <2>2, <2>3, <3>1
  <2>4. ASSUME NEW w \in Workers, Step(w) PROVE SavedOnce'
    <3>1. NearsEnd(w) /\ run[w] # None BY <2>4, StatementsGoOn, ConstantsAssumption DEF Step
    <3>2. Single(run[w].todo) BY <3>1 DEF SavedOnce
    <3>3. run'[w] # None => Single(run'[w].todo)
      BY <3>1, <3>2, ChangesOnce DEF NearsEnd, Single
    <3> QED BY <2>2, <2>4, <3>3
  <2>5. ASSUME NEW w \in Workers, BreakDeadlock(w) \/ Crash(w) PROVE SavedOnce'
    <3>1. run'[w] = None BY <2>5 DEF BreakDeadlock, Crash, RollBack, RequestsInv, Counted
    <3> QED BY <2>2, <2>5, <3>1
  <2> QED BY <2>1, <2>3, <2>4, <2>5 DEF Next
<1> QED BY <1>1, <1>2, RequestsInvariant, PTL DEF Spec

\* A request that is under way ends after finitely many statements of its own,
\* whatever other requests, deadlocks and crashes do: each brings it nearer to
\* its end, nobody puts that off, and a new one takes six stages at most
\* (update_issue, move_on_board, archive_issue, create_issue).
THEOREM RequestsEnd == Spec => [][Advancing]_vars
<1>1. ASSUME RequestsInv, RequestsInv', SavedOnce, SavedOnce', [Next]_vars PROVE [Advancing]_vars
  <2>1. ASSUME NEW w \in Workers, Step(w) \/ BreakDeadlock(w) \/ Crash(w)
        PROVE  StepsLeft(run'[w]) < StepsLeft(run[w])
    <3>1. run[w] # None
      BY <1>1, <2>1, VictimsRun DEF Step, BreakDeadlock, Crash
    <3>2. run[w] \in Request /\ Single(run[w].todo)
      BY <1>1, <3>1, WorkerShape, ConstantsAssumption DEF SavedOnce
    <3>3. CASE run'[w] = None
      BY <3>2, <3>3, LeftIsPositive, ConstantsAssumption
    <3>4. CASE run'[w] # None
      <4>1. NearsEnd(w)
        <5>1. BreakDeadlock(w) \/ Crash(w) => run'[w] = None
          BY <1>1 DEF BreakDeadlock, Crash, RollBack, RequestsInv, Counted
        <5> QED BY <1>1, <2>1, <3>4, <5>1, StatementsGoOn, ConstantsAssumption
      <4>2. run'[w] \in Request /\ Single(run'[w].todo)
        BY <1>1, <3>4 DEF SavedOnce, RequestsInv, WorkerFits
      <4>3. CASE Stages[run'[w].pc] < Stages[run[w].pc]
        BY <3>2, <4>2, <4>3, LaterStage, ConstantsAssumption
      <4>4. CASE run'[w].pc = run[w].pc /\ \E x \in run[w].todo : run'[w].todo = run[w].todo \ {x}
        BY <3>2, <4>2, <4>4, OneLess, ConstantsAssumption
      <4> QED BY <3>4, <4>1, <4>3, <4>4 DEF NearsEnd
    <3> QED BY <3>3, <3>4
  <2>2. ASSUME NEW w \in Workers, Start(w)
        PROVE  run[w] = None /\ StepsLeft(run'[w]) <= 6 * (MaxIssues + 1)
    <3>1. run[w] = None /\ run'[w].todo = {} BY <1>1, <2>2, BeginsEmpty
    <3>2. PICK n \in Nat : n = MaxIssues + 1 BY ConstantsAssumption DEF ConstantsAssumption
    <3>3. CASE run'[w] = None
      <4>1. StepsLeft(run'[w]) = 0 BY <3>3 DEF StepsLeft
      <4> QED BY <3>1, <3>2, <4>1
    <3>4. CASE run'[w] # None
      <4>1. run'[w] \in Request BY <1>1, <3>4 DEF RequestsInv, WorkerFits
      <4>2. PICK k \in 1..6 : k = Stages[run'[w].pc] BY <4>1, StagesCount
      <4>3. StepsLeft(run'[w]) = k * n + 0 BY <3>1, <3>2, <3>4, <4>2, FS_EmptySet DEF StepsLeft
      <4>4. k * n + 0 <= 6 * n BY <3>2, <4>2
      <4> QED BY <3>1, <3>2, <4>3, <4>4
    <3> QED BY <3>3, <3>4
  <2>3. CASE UNCHANGED vars BY <2>3
  <2>4. ASSUME NEW w \in Workers, Start(w) \/ Step(w) \/ BreakDeadlock(w) \/ Crash(w) PROVE Advancing
    <3>1. \A v \in Workers \ {w} : run'[v] = run[v] BY <1>1, <2>4, OwnRunOnly
    <3> QED BY <2>1, <2>2, <2>4, <3>1 DEF Advancing
  <2> QED BY <1>1, <2>3, <2>4 DEF Next
<1> QED BY <1>1, RequestsInvariant, SavedOnceInvariant, PTL DEF Spec
-----------------------------------------------------------------------------
(* Requests that follow one another implement IssueBoard.                  *)

\* A row as IssueBoard has it, with no assignment.
Unassigned(r) == [state |-> r.state, priority |-> r.priority, pos |-> r.pos, archived |-> r.archived,
                  group |-> None, user |-> None]

\* So a table.
Mapped(t) == [i \in DOMAIN t |-> Unassigned(t[i])]

\* A table of rows.
IsTable(t) == t = [i \in DOMAIN t |-> t[i]] /\ \A i \in DOMAIN t : t[i] \in Positioned(States, Priorities)

\* The helpers of IssueBoard are those of IssueTable.
LEMMA SameHelpers ==
  ASSUME NEW t, NEW b, NEW x, NEW index
  PROVE  /\ Board!Band(t, x) = Band(t, x)
         /\ Board!Live(t) = Live(t)
         /\ Board!NextPosition(t, b) = NextPosition(t, b)
         /\ Board!NormalizeBand(t, b, x) = NormalizeBand(t, b, x)
         /\ Board!InsertIntoBand(t, x, index) = InsertIntoBand(t, x, index)
<1>1. \A S : Board!Cardinality(S) = Cardinality(S) BY DEF Board!Cardinality, Cardinality
<1>2. \A S : Board!Max(S) = Max(S) BY DEF Board!Max, Max
<1>3. Board!Band(t, x) = Band(t, x) BY DEF Board!Band, Band
<1>4. Board!Live(t) = Live(t) BY DEF Board!Live, Live
<1>5. Board!NextPosition(t, b) = NextPosition(t, b)
  BY <1>2 DEF Board!NextPosition, NextPosition, Board!Band, Band
<1>6. \A c : Board!InBand(t, c) = InBand(t, c)
  BY <1>4 DEF Board!InBand, InBand, Board!Band, Band
<1>7. \A S, i : Board!Rank(t, S, i) = Rank(t, S, i)
  BY <1>1 DEF Board!Rank, Rank, Board!Precedes, Precedes
<1>8. Board!NormalizeBand(t, b, x) = NormalizeBand(t, b, x)
  BY <1>6, <1>7 DEF Board!NormalizeBand, NormalizeBand
<1>9. Board!InsertIntoBand(t, x, index) = InsertIntoBand(t, x, index)
  BY <1>1, <1>3, <1>6, <1>7 DEF Board!InsertIntoBand, InsertIntoBand
<1> QED BY <1>3, <1>4, <1>5, <1>8, <1>9

\* Reading such a table is reading the other.
LEMMA MappedReads ==
  ASSUME NEW t, NEW m, m = Mapped(t)
  PROVE  /\ DOMAIN m = DOMAIN t /\ \A i \in DOMAIN t : m[i] = Unassigned(t[i])
         /\ \A i \in DOMAIN t : /\ m[i].state = t[i].state /\ m[i].priority = t[i].priority
                                /\ m[i].pos = t[i].pos /\ m[i].archived = t[i].archived
                                /\ m[i].group = None /\ m[i].user = None
         /\ \A i \in DOMAIN t : Band(m, i) = Band(t, i)
         /\ Live(m) = Live(t) /\ \A b : InBand(m, b) = InBand(t, b)
         /\ \A i, j \in DOMAIN t : Precedes(m, i, j) <=> Precedes(t, i, j)
         /\ \A S \in SUBSET DOMAIN t : \A i \in DOMAIN t : Rank(m, S, i) = Rank(t, S, i)
<1>1. DOMAIN m = DOMAIN t /\ \A i \in DOMAIN t : m[i] = Unassigned(t[i]) BY DEF Mapped
<1>2. \A i \in DOMAIN t : /\ m[i].state = t[i].state /\ m[i].priority = t[i].priority
                          /\ m[i].pos = t[i].pos /\ m[i].archived = t[i].archived
                          /\ m[i].group = None /\ m[i].user = None
  BY <1>1 DEF Unassigned
<1>3. \A i \in DOMAIN t : Band(m, i) = Band(t, i) BY <1>2 DEF Band
<1>4. Live(m) = Live(t) BY <1>1, <1>2 DEF Live
<1>5. \A b : InBand(m, b) = InBand(t, b) BY <1>3, <1>4 DEF InBand, Live
<1>6. \A i, j \in DOMAIN t : Precedes(m, i, j) <=> Precedes(t, i, j) BY <1>2 DEF Precedes
<1>7. ASSUME NEW S \in SUBSET DOMAIN t, NEW i \in DOMAIN t PROVE Rank(m, S, i) = Rank(t, S, i)
  <2>1. {j \in S : Precedes(m, j, i)} = {j \in S : Precedes(t, j, i)} BY <1>6
  <2> QED BY <2>1 DEF Rank
<1> QED BY <1>1, <1>2, <1>3, <1>4, <1>5, <1>6, <1>7

\* A row with another position.
LEMMA UnassignedAt ==
  ASSUME NEW r \in Positioned(States, Priorities), NEW k
  PROVE  Unassigned([r EXCEPT !.pos = k]) = [Unassigned(r) EXCEPT !.pos = k]
  BY DEF Unassigned, Positioned

\* A create reads the same next position.
LEMMA MappedNext ==
  ASSUME NEW t, NEW b
  PROVE  Board!NextPosition(Mapped(t), b) = NextPosition(t, b)
<1>1. PICK m : m = Mapped(t) OBVIOUS
<1>2. {j \in DOMAIN m : Band(m, j) = b} = {j \in DOMAIN t : Band(t, j) = b}
  BY <1>1, MappedReads
<1>3. PICK J : J = {j \in DOMAIN t : Band(t, j) = b} OBVIOUS
<1>4. {m[i].pos : i \in J} = {t[i].pos : i \in J} BY <1>1, <1>3, MappedReads
<1>5. NextPosition(m, b) = NextPosition(t, b) BY <1>2, <1>3, <1>4 DEF NextPosition
<1> QED BY <1>1, <1>5, SameHelpers

\* A band is closed up in the same way.
LEMMA MappedNormalize ==
  ASSUME NEW t, IsTable(t), NEW b, NEW x
  PROVE  Board!NormalizeBand(Mapped(t), b, x) = Mapped(NormalizeBand(t, b, x))
<1>1. PICK m : m = Mapped(t) OBVIOUS
<1>2. PICK S : S = InBand(t, b) \ {x} OBVIOUS
<1>3. S \in SUBSET DOMAIN t BY <1>2 DEF InBand, Live
<1>4. PICK u : u = NormalizeBand(t, b, x) OBVIOUS
<1>5. u = [i \in DOMAIN t |-> IF i \in S THEN [t[i] EXCEPT !.pos = Rank(t, S, i) + 1] ELSE t[i]]
  BY <1>2, <1>4 DEF NormalizeBand
<1>6. PICK v : v = NormalizeBand(m, b, x) OBVIOUS
<1>7. v = [i \in DOMAIN m |-> IF i \in S THEN [m[i] EXCEPT !.pos = Rank(m, S, i) + 1] ELSE m[i]]
  <2>1. S = InBand(m, b) \ {x} BY <1>1, <1>2, MappedReads
  <2> QED BY <1>6, <2>1 DEF NormalizeBand
<1>8. DOMAIN m = DOMAIN t BY <1>1, MappedReads
<1>9. ASSUME NEW i \in DOMAIN t PROVE v[i] = Unassigned(u[i])
  <2>1. CASE i \in S
    <3>1. PICK k : k = Rank(t, S, i) + 1 OBVIOUS
    <3>2. Rank(m, S, i) = Rank(t, S, i) /\ m[i] = Unassigned(t[i]) BY <1>1, <1>3, MappedReads
    <3>3. v[i] = [Unassigned(t[i]) EXCEPT !.pos = k] BY <1>7, <1>8, <2>1, <3>1, <3>2
    <3>4. u[i] = [t[i] EXCEPT !.pos = k] BY <1>5, <2>1, <3>1
    <3> QED BY <3>3, <3>4, UnassignedAt DEF IsTable
  <2>2. CASE i \notin S
    <3>1. v[i] = m[i] BY <1>7, <1>8, <2>2
    <3>2. u[i] = t[i] BY <1>5, <2>2
    <3> QED BY <1>1, <3>1, <3>2, MappedReads
  <2> QED BY <2>1, <2>2
<1>10. DOMAIN u = DOMAIN t BY <1>5
<1>11. v = Mapped(u) BY <1>7, <1>8, <1>9, <1>10 DEF Mapped
<1> QED BY <1>1, <1>4, <1>6, <1>11, SameHelpers

\* And another one makes room.
LEMMA MappedInsert ==
  ASSUME NEW t, IsTable(t), NEW x \in DOMAIN t, NEW index
  PROVE  Board!InsertIntoBand(Mapped(t), x, index) = Mapped(InsertIntoBand(t, x, index))
<1>1. PICK m : m = Mapped(t) OBVIOUS
<1>2. PICK S : S = InBand(t, Band(t, x)) \ {x} OBVIOUS
<1>3. S \in SUBSET DOMAIN t BY <1>2 DEF InBand, Live
<1>4. PICK c : c = IF index < Cardinality(S) THEN index ELSE Cardinality(S) OBVIOUS
<1> DEFINE Slot(y, i) == IF i = x THEN c + 1
                         ELSE IF Rank(y, S, i) < c THEN Rank(y, S, i) + 1 ELSE Rank(y, S, i) + 2
<1>5. PICK u : u = InsertIntoBand(t, x, index) OBVIOUS
<1>6. u = [i \in DOMAIN t |-> IF i \in S \cup {x} THEN [t[i] EXCEPT !.pos = Slot(t, i)] ELSE t[i]]
  BY <1>2, <1>4, <1>5 DEF InsertIntoBand
<1>7. PICK v : v = InsertIntoBand(m, x, index) OBVIOUS
<1>8. S = InBand(m, Band(m, x)) \ {x} BY <1>1, <1>2, MappedReads
<1>9. v = [i \in DOMAIN m |-> IF i \in S \cup {x} THEN [m[i] EXCEPT !.pos = Slot(m, i)] ELSE m[i]]
  BY <1>4, <1>7, <1>8 DEF InsertIntoBand
<1>10. DOMAIN m = DOMAIN t BY <1>1, MappedReads
<1>11. \A i \in DOMAIN t : Slot(m, i) = Slot(t, i) BY <1>1, <1>3, MappedReads
<1> HIDE DEF Slot
<1>12. ASSUME NEW i \in DOMAIN t PROVE v[i] = Unassigned(u[i])
  <2>1. CASE i \in S \cup {x}
    <3>1. PICK k : k = Slot(t, i) OBVIOUS
    <3>2. m[i] = Unassigned(t[i]) BY <1>1, MappedReads
    <3>3. v[i] = [Unassigned(t[i]) EXCEPT !.pos = k] BY <1>9, <1>10, <1>11, <2>1, <3>1, <3>2
    <3>4. u[i] = [t[i] EXCEPT !.pos = k] BY <1>6, <2>1, <3>1
    <3> QED BY <3>3, <3>4, UnassignedAt DEF IsTable
  <2>2. CASE i \notin S \cup {x}
    <3>1. v[i] = m[i] BY <1>9, <1>10, <2>2
    <3>2. u[i] = t[i] BY <1>6, <2>2
    <3> QED BY <1>1, <3>1, <3>2, MappedReads
  <2> QED BY <2>1, <2>2
<1>13. DOMAIN u = DOMAIN t BY <1>6
<1>14. v = Mapped(u) BY <1>9, <1>10, <1>12, <1>13 DEF Mapped
<1> QED BY <1>1, <1>5, <1>7, <1>14, SameHelpers

\* The variables of IssueBoard.
LEMMA BoardState ==
         /\ \A i, p, g, u : Board!EditFields(i, p, g, u) =
              [Mapped(settled) EXCEPT ![i].priority = p, ![i].group = g, ![i].user = u]
         /\ \A op, i, ok, events : Board!Respond(op, i, ok, events) <=>
              answer' = [op |-> op, issue |-> i, ok |-> ok, events |-> events]
         /\ \A t, i, s : s \in States => Board!EnterState(t, i, s) = IF s = t[i].state THEN t ELSE [t EXCEPT ![i].state = s]
         /\ \A u, g : Board!Assignable(g, u) <=> (u # None => g # None /\ <<u, g>> \in {})
<1>1. \A i, p, g, u : Board!EditFields(i, p, g, u) =
              [Mapped(settled) EXCEPT ![i].priority = p, ![i].group = g, ![i].user = u]
  BY DEF Board!EditFields, Mapped, Unassigned
<1>2. \A op, i, ok, events : Board!Respond(op, i, ok, events) <=>
              answer' = [op |-> op, issue |-> i, ok |-> ok, events |-> events]
  BY DEF Board!Respond
<1>3. \A t, i, s : s \in States => Board!EnterState(t, i, s) = IF s = t[i].state THEN t ELSE [t EXCEPT ![i].state = s]
  BY DEF Board!EnterState
<1>4. \A u, g : Board!Assignable(g, u) <=> (u # None => g # None /\ <<u, g>> \in {})
  BY DEF Board!Assignable
<1> QED BY <1>1, <1>2, <1>3, <1>4

\* A create, in the terms of IssueBoard.
LEMMA BoardCreates ==
  ASSUME ConstantsAssumption, NEW n \in Nat, n + 1 <= MaxIssues, DOMAIN settled = 1..n,
         NEW s \in States, NEW p \in Priorities, NEW r, 
         r = [state |-> s, priority |-> p, pos |-> NextPosition(settled, <<s, p>>), archived |-> FALSE],
         settled' = [j \in DOMAIN settled \cup {n + 1} |-> IF j = n + 1 THEN r ELSE settled[j]],
         answer' = [op |-> "create", issue |-> n + 1, ok |-> TRUE, events |-> {"created"}]
  PROVE  Board!Next
<1>1. Cardinality(DOMAIN settled) = n BY FS_Interval
<1>2. Cardinality(DOMAIN settled') = n + 1
  <2>1. PICK k \in Nat : k = n + 1 OBVIOUS
  <2>2. DOMAIN settled' = 1..k BY <2>1
  <2>3. Cardinality(1..k) = k BY FS_Interval
  <2> QED BY <2>1, <2>2, <2>3
<1>3. PICK m : m = Mapped(settled) OBVIOUS
<1>4. PICK q : q = Unassigned(r) OBVIOUS
<1>5. q = [state |-> s, priority |-> p, pos |-> Board!NextPosition(m, <<s, p>>), archived |-> FALSE,
           group |-> None, user |-> None]
  BY <1>3, <1>4, MappedNext DEF Unassigned
<1>6. Mapped(settled)' = [i \in DOMAIN m \cup {n + 1} |-> IF i = n + 1 THEN q ELSE m[i]]
  <2>1. DOMAIN m = DOMAIN settled /\ \A i \in DOMAIN settled : m[i] = Unassigned(settled[i])
    BY <1>3, MappedReads
  <2>2. Mapped(settled') = [i \in DOMAIN settled' |-> Unassigned(settled'[i])] BY DEF Mapped
  <2>3. \A i \in DOMAIN settled' : Unassigned(settled'[i]) = IF i = n + 1 THEN q ELSE m[i]
    BY <1>4, <2>1
  <2> QED BY <2>1, <2>2, <2>3
<1>7. Board!Respond("create", n + 1, TRUE, {"created"}) BY BoardState
<1>8. Board!Assignable(None, None) BY BoardState
<1>9. Board!CreateIssue(s, p, None, None)
  BY <1>1, <1>2, <1>3, <1>5, <1>6, <1>7, <1>8 DEF Board!CreateIssue, Mapped, Unassigned
<1> QED BY <1>9 DEF Board!Next, Board!BoardRequest

\* Closing up a band leaves a table.
LEMMA NormalizeTable ==
  ASSUME NEW t, IsTable(t), NEW n \in Nat, DOMAIN t = 1..n, NEW b, NEW x,
         NEW u, u = NormalizeBand(t, b, x)
  PROVE  IsTable(u) /\ DOMAIN u = DOMAIN t
<1>1. PICK S : S = InBand(t, b) \ {x} OBVIOUS
<1>2. u = [i \in DOMAIN t |-> IF i \in S THEN [t[i] EXCEPT !.pos = Rank(t, S, i) + 1] ELSE t[i]]
  BY <1>1 DEF NormalizeBand
<1>3. S \in SUBSET DOMAIN t BY <1>1 DEF InBand, Live
<1>4. \A j \in DOMAIN t : t[j].pos \in Int BY DEF Positioned, IsTable
<1>5. ASSUME NEW i \in DOMAIN t PROVE u[i] \in Positioned(States, Priorities)
  <2>1. t[i] \in Positioned(States, Priorities) BY DEF IsTable
  <2>2. Rank(t, S, i) \in Nat
    <3>1. Rank(t, S, i) \in 0..Cardinality(S) /\ Cardinality(S) \in 0..n BY <1>3, <1>4, RankWithin
    <3> QED BY <3>1
  <2>3. PICK k \in Nat : k = Rank(t, S, i) + 1 BY <2>2
  <2>4. [t[i] EXCEPT !.pos = k] \in Positioned(States, Priorities) BY <2>1 DEF Positioned
  <2> QED BY <1>2, <2>1, <2>3, <2>4
<1> QED BY <1>2, <1>5 DEF IsTable

\* Rehome of IssueBoard, of such a table.
Rehomed(t, i, b, index) == InsertIntoBand(IF Band(t, i) = b THEN t ELSE NormalizeBand(t, b, i), i, index)

\* They agree.
LEMMA MappedRehome ==
  ASSUME NEW t, IsTable(t), NEW n \in Nat, DOMAIN t = 1..n, NEW i \in DOMAIN t, NEW b, NEW index
  PROVE  Board!Rehome(Mapped(t), i, b, index) = Mapped(Rehomed(t, i, b, index))
<1>1. PICK u : u = IF Band(t, i) = b THEN t ELSE NormalizeBand(t, b, i) OBVIOUS
<1>2. IsTable(u) /\ i \in DOMAIN u BY <1>1, NormalizeTable
<1>3. Board!Band(Mapped(t), i) = Band(t, i) BY MappedReads DEF Board!Band, Band
<1>4. (IF Board!Band(Mapped(t), i) = b THEN Mapped(t) ELSE Board!NormalizeBand(Mapped(t), b, i)) = Mapped(u)
  BY <1>1, <1>3, MappedNormalize
<1>5. Board!InsertIntoBand(Mapped(u), i, index) = Mapped(InsertIntoBand(u, i, index))
  BY <1>2, MappedInsert
<1> QED BY <1>1, <1>4, <1>5 DEF Board!Rehome, Rehomed

\* Without assignments every row can be saved.
LEMMA AllSaveable ==
  ASSUME NEW t
  PROVE  /\ \A i \in DOMAIN t : Board!Saveable(Mapped(t), i)
         /\ \A u : Board!Renumberable(Mapped(t), u)
<1>1. PICK m : m = Mapped(t) OBVIOUS
<1>2. DOMAIN m = DOMAIN t /\ \A i \in DOMAIN t : m[i].user = None BY <1>1, MappedReads
<1>3. \A i \in DOMAIN t : Board!Saveable(m, i) BY <1>2 DEF Board!Saveable, Board!Assignable
<1>4. \A u : Board!Renumberable(m, u) BY <1>2, <1>3 DEF Board!Renumberable
<1> QED BY <1>1, <1>3, <1>4

\* The events of a request that turns row q into row r.
Announced(q, r) ==
  (IF r.state = Closed /\ q.state # Closed THEN {"closed"} ELSE {})
  \cup (IF r.state # q.state \/ r.priority # q.priority THEN {"updated"} ELSE {})

\* Those of IssueBoard.
LEMMA BoardAnnounces ==
  ASSUME NEW t, NEW i \in DOMAIN t, i \in DOMAIN settled
  PROVE  Board!ClosedEvent(Mapped(t), i) \cup Board!UpdatedEvent(Mapped(t), i)
           = Announced(settled[i], t[i])
         /\ Board!QueueEvent(Mapped(t), i) = {}
<1>1. PICK m : m = Mapped(t) OBVIOUS
<1>2. PICK o : o = Mapped(settled) OBVIOUS
<1>3. Board!ClosedEvent(m, i) = IF m[i].state = Closed /\ o[i].state # Closed THEN {"closed"} ELSE {}
  BY <1>2 DEF Board!ClosedEvent, Mapped, Unassigned
<1>4. Board!UpdatedEvent(m, i) = IF Board!Changed(m, i) THEN {"updated"} ELSE {}
  BY DEF Board!UpdatedEvent
<1>5. Board!Changed(m, i) <=> (\/ m[i].state # o[i].state \/ m[i].priority # o[i].priority
                               \/ m[i].group # o[i].group \/ m[i].user # o[i].user)
  BY <1>2 DEF Board!Changed, Mapped, Unassigned
<1>6. Board!QueueEvent(m, i) = IF m[i].group # o[i].group THEN {"queue_assigned"} ELSE {}
  BY <1>2 DEF Board!QueueEvent, Mapped, Unassigned
<1>7. /\ m[i].state = t[i].state /\ m[i].priority = t[i].priority /\ m[i].group = None /\ m[i].user = None
      /\ o[i].state = settled[i].state /\ o[i].priority = settled[i].priority
      /\ o[i].group = None /\ o[i].user = None
  BY <1>1, <1>2, MappedReads
<1> QED BY <1>1, <1>3, <1>4, <1>5, <1>6, <1>7 DEF Announced

\* The row of issue i in state s, with priority p.
Entered(i, s, p) == [settled EXCEPT ![i] = [settled[i] EXCEPT !.state = s, !.priority = p]]

\* EnterState of IssueBoard.
LEMMA MappedEnters ==
  ASSUME IsTable(settled), NEW i \in DOMAIN settled, NEW s \in States, NEW p \in Priorities
  PROVE  /\ IsTable(Entered(i, s, p)) /\ DOMAIN Entered(i, s, p) = DOMAIN settled
         /\ Entered(i, s, p)[i] = [settled[i] EXCEPT !.state = s, !.priority = p]
         /\ Board!EnterState(Board!EditFields(i, p, None, None), i, s) = Mapped(Entered(i, s, p))
         /\ p = settled[i].priority => Board!EnterState(Mapped(settled), i, s) = Mapped(Entered(i, s, p))
<1>1. PICK e : e = Entered(i, s, p) OBVIOUS
<1>2. PICK r : r = [settled[i] EXCEPT !.state = s, !.priority = p] OBVIOUS
<1>3. settled[i] \in Positioned(States, Priorities) BY DEF IsTable
<1>4. /\ r \in Positioned(States, Priorities)
      /\ r.state = s /\ r.priority = p /\ r.pos = settled[i].pos /\ r.archived = settled[i].archived
  BY <1>2, <1>3 DEF Positioned
<1>5. e = [settled EXCEPT ![i] = r] BY <1>1, <1>2 DEF Entered
<1>6. /\ DOMAIN e = DOMAIN settled /\ e[i] = r /\ IsTable(e)
      /\ \A j \in DOMAIN settled \ {i} : e[j] = settled[j]
  BY <1>4, <1>5 DEF IsTable
<1>7. PICK m : m = Mapped(settled) OBVIOUS
<1>8. /\ m = [j \in DOMAIN settled |-> Unassigned(settled[j])]
      /\ Mapped(e) = [j \in DOMAIN settled |-> IF j = i THEN Unassigned(r) ELSE m[j]]
  BY <1>6, <1>7 DEF Mapped
<1>9. m[i] = [state |-> settled[i].state, priority |-> settled[i].priority, pos |-> settled[i].pos,
              archived |-> settled[i].archived, group |-> None, user |-> None]
  BY <1>8 DEF Unassigned
<1>10. Unassigned(r) = [state |-> s, priority |-> p, pos |-> settled[i].pos,
                        archived |-> settled[i].archived, group |-> None, user |-> None]
  BY <1>4 DEF Unassigned
<1>11. PICK d : d = Board!EditFields(i, p, None, None) OBVIOUS
<1>12. d = [m EXCEPT ![i].priority = p, ![i].group = None, ![i].user = None]
  BY <1>7, <1>11, BoardState
<1>13. d[i] = [state |-> settled[i].state, priority |-> p, pos |-> settled[i].pos,
               archived |-> settled[i].archived, group |-> None, user |-> None]
  <2>1. PICK a : a = [m EXCEPT ![i].priority = p] OBVIOUS
  <2>2. PICK c : c = [a EXCEPT ![i].group = None] OBVIOUS
  <2>3. d = [c EXCEPT ![i].user = None] BY <1>12, <2>1, <2>2
  <2>4. i \in DOMAIN m BY <1>8
  <2>5. DOMAIN a = DOMAIN m /\ a[i] = [m[i] EXCEPT !.priority = p] BY <1>8, <2>1, <2>4
  <2>6. DOMAIN c = DOMAIN m /\ c[i] = [a[i] EXCEPT !.group = None] BY <1>8, <2>1, <2>2, <2>5, <2>4
  <2>7. d[i] = [c[i] EXCEPT !.user = None] BY <2>2, <2>3, <2>6, <2>4
  <2>8. PICK z : z = [state |-> settled[i].state, priority |-> p, pos |-> settled[i].pos,
                      archived |-> settled[i].archived, group |-> None, user |-> None]
    OBVIOUS
  <2>9. a[i] = z BY <1>9, <2>5, <2>8
  <2>10. c[i] = z BY <2>6, <2>8, <2>9
  <2>11. d[i] = z BY <2>7, <2>8, <2>10
  <2> QED BY <2>8, <2>11
<1>14. d = [j \in DOMAIN settled |-> IF j = i THEN d[i] ELSE m[j]] BY <1>8, <1>12
<1>15. Board!EnterState(d, i, s) = Mapped(e)
  <2>1. Board!EnterState(d, i, s) = IF s = d[i].state THEN d ELSE [d EXCEPT ![i].state = s]
    BY DEF Board!EnterState
  <2>2. CASE s = d[i].state
    <3>1. d[i] = Unassigned(r) BY <1>10, <1>13, <2>2
    <3> QED BY <1>8, <1>14, <2>1, <2>2, <3>1
  <2>3. CASE s # d[i].state
    <3>1. [d[i] EXCEPT !.state = s] = Unassigned(r) BY <1>10, <1>13
    <3>2. [d EXCEPT ![i].state = s] = [j \in DOMAIN settled |-> IF j = i THEN [d[i] EXCEPT !.state = s] ELSE m[j]]
      BY <1>14
    <3> QED BY <1>8, <2>1, <2>3, <3>1, <3>2
  <2> QED BY <2>2, <2>3
<1>16. ASSUME p = settled[i].priority PROVE Board!EnterState(m, i, s) = Mapped(e)
  <2>1. Board!EnterState(m, i, s) = IF s = m[i].state THEN m ELSE [m EXCEPT ![i].state = s]
    BY DEF Board!EnterState
  <2>2. CASE s = m[i].state
    <3>1. m[i] = Unassigned(r) BY <1>9, <1>10, <1>16, <2>2
    <3> QED BY <1>8, <2>1, <2>2, <3>1
  <2>3. CASE s # m[i].state
    <3>1. [m[i] EXCEPT !.state = s] = Unassigned(r) BY <1>9, <1>10, <1>16
    <3>2. [m EXCEPT ![i].state = s] = [j \in DOMAIN settled |-> IF j = i THEN [m[i] EXCEPT !.state = s] ELSE m[j]]
      BY <1>8
    <3> QED BY <1>8, <2>1, <2>3, <3>1, <3>2
  <2> QED BY <2>2, <2>3
<1> QED BY <1>1, <1>2, <1>6, <1>7, <1>11, <1>15, <1>16

\* How many issues there are does not change.
LEMMA BoardKeepsKeys ==
  ASSUME DOMAIN settled' = DOMAIN settled
  PROVE  Cardinality(DOMAIN settled') = Cardinality(DOMAIN settled)
  OBVIOUS

\* A settled table.
IsSettled(n) == n \in Nat /\ IsTable(settled) /\ DOMAIN settled = 1..n

\* An update, in the terms of IssueBoard.
LEMMA BoardUpdates ==
  ASSUME ConstantsAssumption, NEW n, IsSettled(n), NEW i \in Live(settled), NEW s \in States, NEW p \in Priorities,
         NEW e, e = Entered(i, s, p),
         settled' = IF Band(e, i) = Band(settled, i) THEN e ELSE Rehomed(e, i, Band(settled, i), MaxIssues),
         DOMAIN settled' = DOMAIN settled,
         answer' = [op |-> "update", issue |-> i, ok |-> TRUE, events |-> Announced(settled[i], e[i])]
  PROVE  Board!Next
<1>1. n \in Nat /\ IsTable(settled) /\ DOMAIN settled = 1..n /\ i \in DOMAIN settled
  BY DEF IsSettled, Live
<1>2. /\ IsTable(e) /\ DOMAIN e = 1..n /\ i \in DOMAIN e
      /\ Board!EnterState(Board!EditFields(i, p, None, None), i, s) = Mapped(e)
  BY <1>1, MappedEnters, ZenonT(60)
<1>3. PICK m : m = Mapped(settled) OBVIOUS
<1>4. PICK b : b = Band(settled, i) OBVIOUS
<1>5. i \in Board!Live(m) /\ Board!Band(m, i) = b /\ Board!Band(Mapped(e), i) = Band(e, i)
  <2>1. Live(m) = Live(settled) /\ Band(m, i) = b /\ Band(Mapped(e), i) = Band(e, i)
    BY <1>1, <1>2, <1>3, <1>4, MappedReads
  <2> QED BY <2>1 DEF Board!Live, Live, Board!Band, Band
<1>6. PICK inState : inState = Mapped(e) OBVIOUS
<1>7. PICK placed : placed = Mapped(Rehomed(e, i, b, MaxIssues)) OBVIOUS
<1>8. Board!Rehome(inState, i, b, Board!AtEnd) = placed
  BY <1>1, <1>2, <1>6, <1>7, MappedRehome DEF Board!AtEnd
<1>9. \A u : Board!Renumberable(inState, u) BY <1>6, AllSaveable
<1>10. PICK normal : normal = Board!NormalizeBand(inState, b, i) OBVIOUS
<1>11. Board!Renumberable(normal, placed)
  <2>1. normal = Mapped(NormalizeBand(e, b, i)) BY <1>2, <1>6, <1>10, MappedNormalize
  <2> QED BY <2>1, AllSaveable
<1>12. Board!Saveable(inState, i) BY <1>2, <1>6, AllSaveable
<1>13. Mapped(settled') = IF Board!Band(inState, i) # b THEN placed ELSE inState
  BY <1>4, <1>5, <1>6, <1>7
<1>14. Board!ClosedEvent(inState, i) \cup Board!UpdatedEvent(inState, i) \cup Board!QueueEvent(inState, i)
         = Announced(settled[i], e[i])
  BY <1>1, <1>2, <1>6, BoardAnnounces
<1>15. Board!Respond("update", i, TRUE, Board!ClosedEvent(inState, i) \cup Board!UpdatedEvent(inState, i)
                                          \cup Board!QueueEvent(inState, i))
  BY <1>14 DEF Board!Respond
<1>16. Board!Assignable(None, None) BY DEF Board!Assignable
<1>17. Board!UpdateIssue(i, s, p, None, None)
  BY <1>2, <1>3, <1>5, <1>6, <1>8, <1>9, <1>10, <1>11, <1>12, <1>13, <1>15, <1>16, BoardKeepsKeys
  DEF Board!UpdateIssue, Mapped, Unassigned
<1> QED BY <1>1, <1>17 DEF Board!Next, Board!BoardRequest

\* The row of issue i, archived.
Archived(i) == [settled EXCEPT ![i] = [settled[i] EXCEPT !.archived = TRUE]]

\* As IssueBoard has it.
LEMMA MappedArchives ==
  ASSUME IsTable(settled), NEW i \in DOMAIN settled
  PROVE  /\ IsTable(Archived(i)) /\ DOMAIN Archived(i) = DOMAIN settled
         /\ Archived(i)[i] = [settled[i] EXCEPT !.archived = TRUE]
         /\ [Mapped(settled) EXCEPT ![i].archived = TRUE] = Mapped(Archived(i))
<1>1. PICK e : e = Archived(i) OBVIOUS
<1>2. PICK r : r = [settled[i] EXCEPT !.archived = TRUE] OBVIOUS
<1>3. settled[i] \in Positioned(States, Priorities) BY DEF IsTable
<1>4. /\ r \in Positioned(States, Priorities)
      /\ Unassigned(r) = [Unassigned(settled[i]) EXCEPT !.archived = TRUE]
  <2>1. /\ r \in Positioned(States, Priorities) /\ r.archived = TRUE
        /\ r.state = settled[i].state /\ r.priority = settled[i].priority /\ r.pos = settled[i].pos
    BY <1>2, <1>3 DEF Positioned
  <2>2. PICK yes : yes = TRUE OBVIOUS
  <2>3. PICK q : q = Unassigned(settled[i]) OBVIOUS
  <2>4. q = [state |-> settled[i].state, priority |-> settled[i].priority, pos |-> settled[i].pos,
             archived |-> settled[i].archived, group |-> None, user |-> None]
    BY <2>3 DEF Unassigned
  <2>5. Unassigned(r) = [state |-> settled[i].state, priority |-> settled[i].priority,
                         pos |-> settled[i].pos, archived |-> yes, group |-> None, user |-> None]
    BY <2>1, <2>2 DEF Unassigned
  <2>6. [q EXCEPT !.archived = yes] = [state |-> settled[i].state, priority |-> settled[i].priority,
                         pos |-> settled[i].pos, archived |-> yes, group |-> None, user |-> None]
    BY <2>4
  <2> QED BY <2>1, <2>2, <2>3, <2>5, <2>6
<1>5. e = [settled EXCEPT ![i] = r] BY <1>1, <1>2 DEF Archived
<1>6. /\ DOMAIN e = DOMAIN settled /\ e[i] = r /\ IsTable(e)
      /\ \A j \in DOMAIN settled \ {i} : e[j] = settled[j]
  BY <1>4, <1>5 DEF IsTable
<1>7. PICK m : m = Mapped(settled) OBVIOUS
<1>8. /\ m = [j \in DOMAIN settled |-> Unassigned(settled[j])]
      /\ Mapped(e) = [j \in DOMAIN settled |-> IF j = i THEN Unassigned(r) ELSE m[j]]
  BY <1>6, <1>7 DEF Mapped
<1>9. [m EXCEPT ![i].archived = TRUE]
        = [j \in DOMAIN settled |-> IF j = i THEN [m[i] EXCEPT !.archived = TRUE] ELSE m[j]]
  BY <1>8
<1>10. [m EXCEPT ![i].archived = TRUE] = Mapped(e) BY <1>4, <1>8, <1>9
<1> QED BY <1>1, <1>2, <1>6, <1>7, <1>10

\* Archiving, in the terms of IssueBoard.
LEMMA BoardArchives ==
  ASSUME ConstantsAssumption, NEW n, IsSettled(n), NEW i \in Live(settled), NEW e, e = Archived(i),
         settled' = NormalizeBand(e, Band(settled, i), i), DOMAIN settled' = DOMAIN settled,
         answer' = [op |-> "archive", issue |-> i, ok |-> TRUE, events |-> {}]
  PROVE  Board!Next
<1>1. n \in Nat /\ IsTable(settled) /\ DOMAIN settled = 1..n /\ i \in DOMAIN settled
  BY DEF IsSettled, Live
<1>2. PICK m : m = Mapped(settled) OBVIOUS
<1>3. PICK archived : archived = Mapped(e) OBVIOUS
<1>4. /\ IsTable(e) /\ i \in DOMAIN e /\ archived = [m EXCEPT ![i].archived = TRUE]
  BY <1>1, <1>2, <1>3, MappedArchives
<1>5. PICK b : b = Band(settled, i) OBVIOUS
<1>6. i \in Board!Live(m) /\ Board!Band(m, i) = b
  <2>1. Live(m) = Live(settled) /\ Band(m, i) = b BY <1>1, <1>2, <1>5, MappedReads
  <2> QED BY <2>1 DEF Board!Live, Live, Board!Band, Band
<1>7. Mapped(settled') = Board!NormalizeBand(archived, b, i) BY <1>3, <1>4, <1>5, MappedNormalize
<1>8. Board!Saveable(archived, i) /\ \A u : Board!Renumberable(archived, u) BY <1>3, <1>4, AllSaveable
<1>9. Board!Respond("archive", i, TRUE, {}) BY DEF Board!Respond
<1>10. Board!ArchiveIssue(i)
  BY <1>2, <1>4, <1>6, <1>7, <1>8, <1>9, BoardKeepsKeys DEF Board!ArchiveIssue, Mapped, Unassigned
<1> QED BY <1>1, <1>10 DEF Board!Next, Board!BoardRequest

\* A move, in the terms of IssueBoard.
LEMMA BoardMoves ==
  ASSUME ConstantsAssumption, NEW n, IsSettled(n), NEW i \in Live(settled),
         NEW s \in BoardStates, NEW index \in 0..MaxIssues, settled[i].priority \in Priorities,
         NEW e, e = Entered(i, s, settled[i].priority),
         settled' = Rehomed(e, i, Band(settled, i), index), DOMAIN settled' = DOMAIN settled,
         answer' = [op |-> "move", issue |-> i, ok |-> TRUE, events |-> Announced(settled[i], e[i])]
  PROVE  Board!Next
<1>1. n \in Nat /\ IsTable(settled) /\ DOMAIN settled = 1..n /\ i \in DOMAIN settled /\ s \in States
  BY DEF IsSettled, Live, ConstantsAssumption
<1>2. PICK m : m = Mapped(settled) OBVIOUS
<1>3. PICK inState : inState = Mapped(e) OBVIOUS
<1>4. IsTable(e) /\ DOMAIN e = 1..n /\ i \in DOMAIN e /\ Board!EnterState(m, i, s) = inState
  <2>1. PICK p \in Priorities : p = settled[i].priority OBVIOUS
  <2>2. e = Entered(i, s, p) BY <2>1
  <2>3. /\ IsTable(Entered(i, s, p)) /\ DOMAIN Entered(i, s, p) = DOMAIN settled
        /\ p = settled[i].priority => Board!EnterState(Mapped(settled), i, s) = Mapped(Entered(i, s, p))
    BY ONLY <1>1, <2>1, MappedEnters, p \in Priorities, ZenonT(60)
  <2> QED BY <1>1, <1>2, <1>3, <2>1, <2>2, <2>3
<1>5. PICK b : b = Band(settled, i) OBVIOUS
<1>6. i \in Board!Live(m) /\ Board!Band(m, i) = b
  <2>1. Live(m) = Live(settled) /\ Band(m, i) = b BY <1>1, <1>2, <1>5, MappedReads
  <2> QED BY <2>1 DEF Board!Live, Live, Board!Band, Band
<1>7. PICK placed : placed = Mapped(Rehomed(e, i, b, index)) OBVIOUS
<1>8. Board!Rehome(inState, i, b, index) = placed BY <1>1, <1>3, <1>4, <1>7, MappedRehome
<1>9. PICK normal : normal = Board!NormalizeBand(inState, b, i) OBVIOUS
<1>10. Board!Renumberable(normal, placed)
  <2>1. normal = Mapped(NormalizeBand(e, b, i)) BY <1>3, <1>4, <1>9, MappedNormalize
  <2> QED BY <2>1, AllSaveable
<1>11. Board!Saveable(inState, i) /\ (\A u : Board!Renumberable(inState, u))
       /\ \A u : Board!Renumberable(m, u)
  BY <1>2, <1>3, <1>4, AllSaveable
<1>12. Mapped(settled') = placed BY <1>5, <1>7
<1>13. Board!ClosedEvent(inState, i) \cup Board!UpdatedEvent(inState, i) = Announced(settled[i], e[i])
  BY <1>1, <1>3, <1>4, BoardAnnounces
<1>14. Board!Respond("move", i, TRUE, Board!ClosedEvent(inState, i) \cup Board!UpdatedEvent(inState, i))
  BY <1>13 DEF Board!Respond
<1>15. Board!MoveIssue(i, s, index)
  BY <1>2, <1>4, <1>6, <1>8, <1>9, <1>10, <1>11, <1>12, <1>14, BoardKeepsKeys
  DEF Board!MoveIssue, Mapped, Unassigned
<1> QED BY <1>1, <1>15 DEF Board!Next, Board!BoardRequest

-----------------------------------------------------------------------------
(* A renumbering, row by row.                                              *)

\* Saving the positions todo takes table v to table u.
Reaches(v, todo, u) ==
  /\ IsTable(v) /\ u = [j \in DOMAIN v |-> u[j]]
  /\ \A j \in DOMAIN v : u[j] = [v[j] EXCEPT !.pos = u[j].pos]
  /\ \A x \in todo : x = <<x[1], u[x[1]].pos>> /\ x[1] \in DOMAIN v /\ x[2] \in Nat
  /\ \A j \in DOMAIN v : u[j].pos # v[j].pos => <<j, u[j].pos>> \in todo

\* When none is left it has.
LEMMA ReachesEnd ==
  ASSUME NEW v, NEW u, Reaches(v, {}, u)
  PROVE  u = v
<1>1. ASSUME NEW j \in DOMAIN v PROVE u[j] = v[j]
  <2>1. v[j] \in Positioned(States, Priorities) BY DEF Reaches, IsTable
  <2>2. u[j].pos = v[j].pos /\ u[j] = [v[j] EXCEPT !.pos = u[j].pos] BY DEF Reaches
  <2>3. [v[j] EXCEPT !.pos = v[j].pos] = v[j] BY <2>1 DEF Positioned
  <2> QED BY <2>2, <2>3
<1> QED BY <1>1 DEF Reaches, IsTable

\* Each one saved is one less.
LEMMA ReachesOn ==
  ASSUME NEW v, NEW todo, NEW u, Reaches(v, todo, u), NEW x \in todo,
         NEW y, y = [v EXCEPT ![x[1]] = [v[x[1]] EXCEPT !.pos = x[2]]]
  PROVE  Reaches(y, todo \ {x}, u)
<1>1. PICK i : i = x[1] OBVIOUS
<1>2. PICK k : k = x[2] OBVIOUS
<1>3. PICK r : r = [v[i] EXCEPT !.pos = k] OBVIOUS
<1>4. i \in DOMAIN v /\ k = u[i].pos /\ x = <<i, k>> /\ k \in Nat
  <2>1. x = <<x[1], u[x[1]].pos>> /\ x[1] \in DOMAIN v /\ x[2] \in Nat BY DEF Reaches
  <2>2. x[2] = u[x[1]].pos BY <2>1
  <2> QED BY <1>1, <1>2, <2>1, <2>2
<1>5. y = [v EXCEPT ![i] = r] BY <1>1, <1>2, <1>3
<1>6. v[i] \in Positioned(States, Priorities) BY <1>4 DEF Reaches, IsTable
<1>7. r \in Positioned(States, Priorities) /\ r.pos = k BY <1>3, <1>4, <1>6 DEF Positioned
<1>8. DOMAIN y = DOMAIN v /\ y[i] = r /\ \A j \in DOMAIN v \ {i} : y[j] = v[j] BY <1>4, <1>5
<1>9. IsTable(y) BY <1>5, <1>7, <1>8, ZenonT(60) DEF Reaches, IsTable
<1>10. u[i] = [r EXCEPT !.pos = k]
  <2>1. u[i] = [v[i] EXCEPT !.pos = k] BY <1>4 DEF Reaches
  <2>2. [r EXCEPT !.pos = k] = r BY <1>7 DEF Positioned
  <2> QED BY <1>3, <2>1, <2>2
<1>11. \A j \in DOMAIN y : u[j] = [y[j] EXCEPT !.pos = u[j].pos]
  BY <1>4, <1>8, <1>10 DEF Reaches
<1>12. \A j \in DOMAIN y : u[j].pos # y[j].pos => <<j, u[j].pos>> \in todo \ {x}
  <2>1. SUFFICES ASSUME NEW j \in DOMAIN y, u[j].pos # y[j].pos PROVE <<j, u[j].pos>> \in todo \ {x}
    OBVIOUS
  <2>2. j # i BY <1>4, <1>7, <1>8, <2>1
  <2>3. <<j, u[j].pos>> \in todo BY <1>8, <2>1, <2>2 DEF Reaches
  <2>4. <<j, u[j].pos>> # x BY <1>4, <2>2
  <2> QED BY <2>3, <2>4
<1> QED BY <1>8, <1>9, <1>11, <1>12 DEF Reaches

\* It begins with all that change; where the table that is read differs from the
\* one that is stored, its position does, and changes.
LEMMA ReachesFrom ==
  ASSUME NEW v, IsTable(v), NEW u, u = [j \in DOMAIN v |-> u[j]],
         \A j \in DOMAIN v : u[j] = [v[j] EXCEPT !.pos = u[j].pos] /\ u[j].pos \in Nat,
         NEW t, DOMAIN t = DOMAIN v, \A j \in DOMAIN v : t[j].pos = v[j].pos \/ t[j].pos # u[j].pos
  PROVE  Reaches(v, Changes(t, u), u)
<1>1. \A x \in Changes(t, u) : x = <<x[1], u[x[1]].pos>> /\ x[1] \in DOMAIN v /\ x[2] \in Nat
  BY DEF Changes
<1>2. \A j \in DOMAIN v : u[j].pos # v[j].pos => <<j, u[j].pos>> \in Changes(t, u)
  BY DEF Changes
<1> QED BY <1>1, <1>2 DEF Reaches

\* Tables that differ in positions only.
MovesOnly(v, u) ==
  /\ u = [j \in DOMAIN v |-> u[j]]
  /\ \A j \in DOMAIN v : u[j] = [v[j] EXCEPT !.pos = u[j].pos] /\ u[j].pos \in Nat

\* A band that is closed up changes in its positions only, and not in x.
LEMMA NormalizeMoves ==
  ASSUME NEW t, IsTable(t), NEW n \in Nat, DOMAIN t = 1..n, NEW b, NEW x,
         NEW u, u = NormalizeBand(t, b, x)
  PROVE  /\ u = [j \in DOMAIN t |-> u[j]]
         /\ \A j \in DOMAIN t : u[j] = [t[j] EXCEPT !.pos = u[j].pos] /\ u[j].pos \in Nat
         /\ x \in DOMAIN t => u[x] = t[x]
<1>1. PICK S : S = InBand(t, b) \ {x} OBVIOUS
<1>2. u = [i \in DOMAIN t |-> IF i \in S THEN [t[i] EXCEPT !.pos = Rank(t, S, i) + 1] ELSE t[i]]
  BY <1>1 DEF NormalizeBand
<1>3. IsTable(u) /\ DOMAIN u = DOMAIN t BY NormalizeTable
<1>4. ASSUME NEW j \in DOMAIN t PROVE u[j] = [t[j] EXCEPT !.pos = u[j].pos] /\ u[j].pos \in Nat
  <2>1. t[j] \in Positioned(States, Priorities) /\ u[j] \in Positioned(States, Priorities)
    BY <1>3 DEF IsTable
  <2>2. u[j].pos \in Nat BY <2>1 DEF Positioned
  <2>3. PICK k : k = IF j \in S THEN Rank(t, S, j) + 1 ELSE t[j].pos OBVIOUS
  <2>4. u[j] = [t[j] EXCEPT !.pos = k]
    <3>1. CASE j \in S BY <1>2, <2>3, <3>1
    <3>2. CASE j \notin S
      <4>1. [t[j] EXCEPT !.pos = t[j].pos] = t[j] BY <2>1 DEF Positioned
      <4> QED BY <1>2, <2>3, <3>2, <4>1
    <3> QED BY <3>1, <3>2
  <2>5. u[j].pos = k BY <2>1, <2>4 DEF Positioned
  <2> QED BY <2>2, <2>4, <2>5
<1>5. x \in DOMAIN t => u[x] = t[x] BY <1>1, <1>2
<1> QED BY <1>2, <1>4, <1>5

\* A table with another position in row x.
Repositioned(v, x, k) == [v EXCEPT ![x] = [v[x] EXCEPT !.pos = k]]

\* So does one that makes room for x; the position x had does not matter.
LEMMA InsertMoves ==
  ASSUME NEW v, IsTable(v), NEW n \in Nat, DOMAIN v = 1..n, NEW x \in DOMAIN v, NEW index \in Nat,
         NEW k \in Nat,
         NEW u, u = InsertIntoBand(v, x, index)
  PROVE  MovesOnly(v, u) /\ u[x].pos # 0 /\ InsertIntoBand(Repositioned(v, x, k), x, index) = u
<1>1. PICK S : S = InBand(v, Band(v, x)) \ {x} OBVIOUS
<1>2. S \in SUBSET DOMAIN v /\ x \notin S BY <1>1 DEF InBand, Live
<1>3. PICK c : c = IF index < Cardinality(S) THEN index ELSE Cardinality(S) OBVIOUS
<1> DEFINE Slot(y, i) == IF i = x THEN c + 1
                         ELSE IF Rank(y, S, i) < c THEN Rank(y, S, i) + 1 ELSE Rank(y, S, i) + 2
<1>4. u = [i \in DOMAIN v |-> IF i \in S \cup {x} THEN [v[i] EXCEPT !.pos = Slot(v, i)] ELSE v[i]]
  BY <1>1, <1>3 DEF InsertIntoBand
<1>5. v[x] \in Positioned(States, Priorities) BY DEF IsTable
<1>0. PICK t : t = Repositioned(v, x, k) OBVIOUS
<1>6. PICK r : r = [v[x] EXCEPT !.pos = k] OBVIOUS
<1>7. /\ r \in Positioned(States, Priorities) /\ r.state = v[x].state /\ r.priority = v[x].priority
      /\ r.archived = v[x].archived
  BY <1>5, <1>6 DEF Positioned
<1>8. DOMAIN t = DOMAIN v /\ t[x] = r /\ \A j \in DOMAIN v \ {x} : t[j] = v[j]
  BY <1>0, <1>6 DEF Repositioned
<1>9. \A j \in DOMAIN v : Band(t, j) = Band(v, j) /\ t[j].archived = v[j].archived BY <1>7, <1>8 DEF Band
<1>10. S = InBand(t, Band(t, x)) \ {x} BY <1>1, <1>8, <1>9 DEF InBand, Live
<1>11. \A j \in S : Rank(t, S, j) = Rank(v, S, j)
  <2>1. ASSUME NEW j \in S PROVE Rank(t, S, j) = Rank(v, S, j)
    <3>1. \A h \in S : t[h] = v[h] BY <1>2, <1>8
    <3>2. {h \in S : Precedes(t, h, j)} = {h \in S : Precedes(v, h, j)} BY <3>1 DEF Precedes
    <3> QED BY <3>2 DEF Rank
  <2> QED BY <2>1
<1>12. \A j \in S \cup {x} : Slot(t, j) = Slot(v, j) BY <1>11
<1>13. \A j \in DOMAIN v : v[j].pos \in Int BY DEF IsTable, Positioned
<1>14. Cardinality(S) \in Nat /\ \A j \in S : Rank(v, S, j) \in Nat
  <2>1. \A j \in DOMAIN v : Cardinality(S) \in 0..n /\ Rank(v, S, j) \in 0..Cardinality(S)
    BY <1>2, <1>13, RankWithin
  <2> QED BY <1>2, <2>1
<1>15. c \in Nat BY <1>3, <1>14
<1>16. \A j \in S \cup {x} : Slot(v, j) \in Nat \ {0} BY <1>14, <1>15
<1>17. InsertIntoBand(t, x, index)
         = [i \in DOMAIN t |-> IF i \in S \cup {x} THEN [t[i] EXCEPT !.pos = Slot(t, i)] ELSE t[i]]
  BY <1>3, <1>10 DEF InsertIntoBand
<1> HIDE DEF Slot
<1>18. ASSUME NEW j \in DOMAIN v
       PROVE  /\ u[j] = [v[j] EXCEPT !.pos = u[j].pos] /\ u[j].pos \in Nat /\ (j = x => u[j].pos # 0)
              /\ u[j] = IF j \in S \cup {x} THEN [t[j] EXCEPT !.pos = Slot(t, j)] ELSE t[j]
  <2>1. v[j] \in Positioned(States, Priorities) BY DEF IsTable
  <2>2. CASE j \in S \cup {x}
    <3>1. PICK z \in Nat \ {0} : z = Slot(v, j) BY <1>16, <2>2
    <3>2. u[j] = [v[j] EXCEPT !.pos = z] BY <1>4, <2>2, <3>1
    <3>3. u[j].pos = z BY <2>1, <3>2 DEF Positioned
    <3>4. [t[j] EXCEPT !.pos = z] = [v[j] EXCEPT !.pos = z]
      <4>1. CASE j = x BY <1>5, <1>6, <1>8, <4>1 DEF Positioned
      <4>2. CASE j # x BY <1>8, <4>2
      <4> QED BY <4>1, <4>2
    <3> QED BY <1>12, <2>2, <3>1, <3>2, <3>3, <3>4
  <2>3. CASE j \notin S \cup {x}
    <3>1. u[j] = v[j] /\ t[j] = v[j] BY <1>4, <1>8, <2>3
    <3>2. v[j] = [v[j] EXCEPT !.pos = v[j].pos] /\ v[j].pos \in Nat BY <2>1 DEF Positioned
    <3> QED BY <2>3, <3>1, <3>2
  <2> QED BY <2>2, <2>3
<1>19. InsertIntoBand(t, x, index) = u BY <1>4, <1>8, <1>17, <1>18
<1>20. u = [j \in DOMAIN v |-> u[j]] BY <1>4
<1>21. MovesOnly(v, u) BY <1>18, <1>20 DEF MovesOnly
<1> QED BY <1>0, <1>18, <1>19, <1>21

-----------------------------------------------------------------------------
(* What the only request has made of the settled table.                    *)

\* The table with the row of its issue as the request makes it.
Left(r) == IF r.op = "archive" THEN Archived(r.issue) ELSE Entered(r.issue, r.mem.state, r.mem.priority)

\* The band the issue was in.
Source(r) == Band(settled, r.issue)

\* The table when that band is closed up, ...
ClosedUp(r) == NormalizeBand(Left(r), Source(r), r.issue)

\* ... and when there is room for the issue.
Goal(r) == Rehomed(Left(r), r.issue, Source(r), r.index)

\* The request is about a live issue, which it knows.
KnowsIssue(r) ==
  /\ r.issue \in Live(settled) /\ r.orig = settled[r.issue]
  /\ r.mem = [settled[r.issue] EXCEPT !.state = r.mem.state, !.priority = r.mem.priority]
  /\ r.op = "update" => r.index = MaxIssues
  /\ r.op = "move" => r.target \in BoardStates /\ r.index \in 0..MaxIssues
  /\ r.op = "move" => r.mem.priority = settled[r.issue].priority

\* The instance is in another band.
Leaves(r) == r.op # "archive" => <<r.mem.state, r.mem.priority>> # Source(r)

\* At each step the worker sees table v, of which its transaction has written p.
AtStep(r, v, p) ==
  /\ r.pc \in {"original", "fields", "transit", "archive"} => p = NoRows
  /\ r.pc \in {"original", "fields", "archive"} => v = settled
  /\ r.pc \in {"transit", "vacate", "occupy"} => v = Left(r)
  /\ r.pc = "vacating" => Reaches(v, r.todo, ClosedUp(r))
  /\ r.pc = "occupying" => Reaches(v, r.todo, Goal(r))
  /\ r.pc \in {"original", "vacate", "vacating", "occupy", "occupying"} /\ r.op # "archive" => r.mem.state = r.target
  /\ r.pc \in {"fields", "transit"} => r.mem.state = settled[r.issue].state
  /\ r.pc = "transit" => r.target # settled[r.issue].state
  /\ r.pc \in {"vacate", "vacating"} => Leaves(r)
  /\ r.pc = "occupying" => (r.op = "update" => Leaves(r))
  /\ r.pc = "occupy" => r.op = "move" /\ r.target = settled[r.issue].state

\* So of the whole request.
Underway(r, v, p) ==
  IF r.op = "create"
  THEN /\ v = settled /\ p = NoRows
       /\ r.mem = [state |-> r.mem.state, priority |-> r.mem.priority,
                   pos |-> NextPosition(settled, <<r.mem.state, r.mem.priority>>), archived |-> FALSE]
  ELSE KnowsIssue(r) /\ AtStep(r, v, p)

\* No other worker has a request under way, nor begins one.
Others(w) == \A u \in Workers \ {w} : run[u] = None /\ run'[u] = None

\* The invariant of a worker whose request is alone.
AloneInv(w) ==
  /\ settled = [i \in DOMAIN rows |-> settled[i]] /\ \A i \in DOMAIN rows : settled[i] \in Row
  /\ IF run[w] = None THEN rows = settled ELSE Underway(run[w], View(w), pending[w])

\* Tables there are.
LEMMA AloneShape ==
  ASSUME ConstantsAssumption, RequestsInv, NEW w \in Workers, AloneInv(w)
  PROVE  /\ IsSettled(Size) /\ Size \in Nat
         /\ DOMAIN settled = 1..Size /\ DOMAIN rows = 1..Size /\ Size <= MaxIssues
         /\ DOMAIN View(w) = 1..Size /\ IsTable(View(w))
         /\ \A i \in 1..Size : settled[i] \in Row
         /\ pending[w] = NoRows => View(w) = rows
<1>1. Size \in Nat /\ DOMAIN rows = 1..Size /\ Size <= MaxIssues
  BY ConstantsAssumption DEF RequestsInv, TableFits, ConstantsAssumption
<1>2. DOMAIN settled = 1..Size /\ \A i \in 1..Size : settled[i] \in Row BY <1>1 DEF AloneInv
<1>3. \A r \in Row : r \in Positioned(States, Priorities) BY DEF Row, Positioned
<1>4. IsTable(settled) BY <1>2, <1>3 DEF IsTable, AloneInv
<1>5. DOMAIN View(w) = DOMAIN rows /\ \A i \in DOMAIN rows : View(w)[i] \in Row BY ViewShape
<1>6. View(w) = [i \in DOMAIN View(w) |-> View(w)[i]] BY DEF View
<1>7. IsTable(View(w)) BY <1>3, <1>5, <1>6 DEF IsTable
<1>8. pending[w] = NoRows => View(w) = rows
  <2>1. rows = [i \in DOMAIN rows |-> rows[i]] BY DEF RequestsInv, TableFits
  <2> QED BY <2>1 DEF View, NoRows
<1> QED BY <1>1, <1>2, <1>4, <1>5, <1>7, <1>8 DEF IsSettled

\* A request goes on.
LEMMA GoesOn ==
  ASSUME ConstantsAssumption, NEW w \in Workers, AloneInv(w), Settle, NEW q \in Request, run'[w] = q,
         DOMAIN rows' = DOMAIN rows, NEW v, v = View(w)', NEW p, p = pending'[w], Underway(q, v, p)
  PROVE  AloneInv(w)' /\ settled' = settled
<1>1. q # None BY ConstantsAssumption DEF ConstantsAssumption
<1>2. settled' = settled BY <1>1 DEF Settle
<1>3. Underway(q, v, p)'
  BY <1>2 DEF Underway, KnowsIssue, AtStep, Leaves, Source, ClosedUp, Goal, Left, Archived, Entered
<1> QED BY <1>1, <1>2, <1>3 DEF AloneInv

\* A request ends.
LEMMA Ends ==
  ASSUME ConstantsAssumption, NEW w \in Workers, Others(w), RequestsInv', Settle, run'[w] = None
  PROVE  AloneInv(w)' /\ settled' = rows'
<1>1. settled' = rows' BY DEF Settle, Others
<1>2. rows' \in [DOMAIN rows' -> Row] BY DEF RequestsInv, TableFits
<1> QED BY <1>1, <1>2 DEF AloneInv

\* A row as it is.
LEMMA RowEntered ==
  ASSUME NEW r \in Row
  PROVE  [r EXCEPT !.state = r.state, !.priority = r.priority] = r
  BY DEF Row

\* The table with the row as it is.
LEMMA EnteredSame ==
  ASSUME IsTable(settled), NEW i \in DOMAIN settled, settled[i] \in Row
  PROVE  Entered(i, settled[i].state, settled[i].priority) = settled
<1>1. [settled[i] EXCEPT !.state = settled[i].state, !.priority = settled[i].priority] = settled[i]
  BY RowEntered
<1>2. [settled EXCEPT ![i] = settled[i]] = settled BY DEF IsTable
<1> QED BY <1>1, <1>2 DEF Entered

\* A request that is loaded.
LEMMA LoadedFits ==
  ASSUME ConstantsAssumption, NEW op \in Ops, NEW pc \in Steps \ {"idle"}, NEW i \in 0..MaxIssues,
         NEW s \in States, NEW index \in Nat, NEW m \in Row, i # 0 => rows[i] \in Row,
         NEW q, q = Loaded(op, pc, i, s, index, m)
  PROVE  /\ q \in Request /\ q.op = op /\ q.pc = pc /\ q.issue = i /\ q.target = s /\ q.index = index
         /\ q.mem = m /\ (i # 0 => q.orig = rows[i])
<1>1. PICK o \in Row : o = IF i = 0 THEN m ELSE rows[i] OBVIOUS
<1>2. q = [op |-> op, pc |-> pc, issue |-> i, target |-> s, index |-> index, orig |-> o, mem |-> m,
           todo |-> {}]
  BY <1>1 DEF Loaded
<1> QED BY <1>1, <1>2 DEF Request

\* A request begins with the table it finds.
LEMMA BeginsAlone ==
  ASSUME ConstantsAssumption, RequestsInv, NEW w \in Workers, AloneInv(w), Settle,
         NEW q \in Request, Begin(w, q),
         NEW p, p = NoRows, Underway(q, settled, p)
  PROVE  AloneInv(w)' /\ UNCHANGED <<settled, answer>>
<1>1. /\ run[w] = None /\ run' = [run EXCEPT ![w] = q]
      /\ rows' = rows /\ pending' = pending /\ answer' = answer
  BY DEF Begin
<1>2. run'[w] = q BY <1>1 DEF RequestsInv, Counted
<1>3. pending[w] = NoRows /\ rows = settled BY <1>1 DEF RequestsInv, WorkerFits, AloneInv
<1>4. View(w)' = settled
  <2>1. View(w)' = View(w) BY <1>1 DEF View
  <2> QED BY <1>3, <2>1, AloneShape
<1>5. p = pending'[w] BY <1>1, <1>3
<1> QED BY <1>1, <1>2, <1>4, <1>5, GoesOn

\* A create.
LEMMA StartCreateAlone ==
  ASSUME ConstantsAssumption, RequestsInv, NEW w \in Workers, AloneInv(w), Settle,
         NEW s \in States, NEW p \in Priorities, StartCreate(w, s, p)
  PROVE  AloneInv(w)' /\ UNCHANGED <<settled, answer>>
<1>1. PICK k : k = NextPosition(rows, <<s, p>>) OBVIOUS
<1>2. PICK m : m = [state |-> s, priority |-> p, pos |-> k, archived |-> FALSE] OBVIOUS
<1>3. PICK q : q = Loaded("create", "insert", 0, s, 0, m) OBVIOUS
<1>4. Begin(w, q) /\ rows = settled BY <1>1, <1>2, <1>3 DEF StartCreate, Begin, AloneInv
<1>5. m \in Row
  <2>1. Size \in Nat /\ \A j \in DOMAIN rows : rows[j].pos \in 0..Size
    BY TableShape DEF RequestsInv
  <2>2. k \in 1..(Size + 1) BY <1>1, <2>1, NextWithin
  <2>3. k \in Nat \ {0} BY <2>1, <2>2
  <2> QED BY <1>2, <2>3 DEF Row
<1>6. q \in Request /\ q.op = "create" /\ q.mem = m
  <2>1. "create" \in Ops /\ "insert" \in Steps \ {"idle"} BY DEF Ops, Steps
  <2>2. 0 \in 0..MaxIssues /\ 0 \in Nat BY ConstantsAssumption DEF ConstantsAssumption
  <2> QED BY <1>3, <1>5, <2>1, <2>2, LoadedFits, ConstantsAssumption
<1>7. Underway(q, settled, NoRows) BY <1>1, <1>2, <1>4, <1>6 DEF Underway
<1> QED BY <1>4, <1>6, <1>7, BeginsAlone, ConstantsAssumption

\* An update.
LEMMA StartUpdateAlone ==
  ASSUME ConstantsAssumption, RequestsInv, NEW w \in Workers, AloneInv(w), Settle,
         NEW i \in DOMAIN rows, NEW s \in States, NEW p \in Priorities, StartUpdate(w, i, s, p)
  PROVE  AloneInv(w)' /\ UNCHANGED <<settled, answer>>
<1>1. PICK m : m = [rows[i] EXCEPT !.state = s, !.priority = p] OBVIOUS
<1>2. PICK q : q = Loaded("update", "original", i, s, MaxIssues, m) OBVIOUS
<1>3. i \in Live(rows) /\ Begin(w, q) /\ rows = settled
  BY <1>1, <1>2 DEF StartUpdate, Begin, AloneInv
<1>4. i \in 0..MaxIssues /\ i # 0 /\ rows[i] \in Row BY <1>3, LiveShape, ConstantsAssumption
<1>5. m \in Row /\ m.state = s /\ m.priority = p BY <1>1, <1>4 DEF Row
<1>6. /\ q \in Request /\ q.op = "update" /\ q.pc = "original" /\ q.issue = i /\ q.mem = m
      /\ q.target = s /\ q.index = MaxIssues /\ q.orig = rows[i]
  <2>1. "update" \in Ops /\ "original" \in Steps \ {"idle"} BY DEF Ops, Steps
  <2>2. MaxIssues \in Nat BY ConstantsAssumption DEF ConstantsAssumption
  <2> QED BY <1>2, <1>4, <1>5, <2>1, <2>2, LoadedFits, ConstantsAssumption
<1>7. KnowsIssue(q) BY <1>1, <1>3, <1>5, <1>6 DEF KnowsIssue
<1>8. AtStep(q, settled, NoRows) BY <1>5, <1>6 DEF AtStep
<1>9. Underway(q, settled, NoRows) BY <1>6, <1>7, <1>8 DEF Underway
<1> QED BY <1>3, <1>6, <1>9, BeginsAlone, ConstantsAssumption

\* An archive.
LEMMA StartArchiveAlone ==
  ASSUME ConstantsAssumption, RequestsInv, NEW w \in Workers, AloneInv(w), Settle,
         NEW i \in DOMAIN rows, StartArchive(w, i)
  PROVE  AloneInv(w)' /\ UNCHANGED <<settled, answer>>
<1>1. PICK q : q = Loaded("archive", "archive", i, rows[i].state, 0, rows[i]) OBVIOUS
<1>2. i \in Live(rows) /\ Begin(w, q) /\ rows = settled
  BY <1>1 DEF StartArchive, Begin, AloneInv
<1>3. i \in 0..MaxIssues /\ i # 0 /\ rows[i] \in Row /\ rows[i].state \in States
  BY <1>2, LiveShape, RowFields, ConstantsAssumption
<1>4. /\ q \in Request /\ q.op = "archive" /\ q.pc = "archive" /\ q.issue = i /\ q.mem = rows[i]
      /\ q.orig = rows[i]
  <2>1. "archive" \in Ops /\ "archive" \in Steps \ {"idle"} BY DEF Ops, Steps
  <2> QED BY <1>1, <1>3, <2>1, LoadedFits, ConstantsAssumption
<1>5. KnowsIssue(q)
  <2>1. [rows[i] EXCEPT !.state = rows[i].state, !.priority = rows[i].priority] = rows[i]
    BY <1>3, RowEntered
  <2> QED BY <1>2, <1>4, <2>1 DEF KnowsIssue
<1>6. AtStep(q, settled, NoRows) BY <1>4 DEF AtStep
<1>7. Underway(q, settled, NoRows) BY <1>4, <1>5, <1>6 DEF Underway
<1> QED BY <1>2, <1>4, <1>7, BeginsAlone, ConstantsAssumption

\* A move.
LEMMA StartMoveAlone ==
  ASSUME ConstantsAssumption, RequestsInv, NEW w \in Workers, AloneInv(w), Settle,
         NEW i \in DOMAIN rows, NEW s \in BoardStates, NEW index \in 0..MaxIssues, StartMove(w, i, s, index)
  PROVE  AloneInv(w)' /\ UNCHANGED <<settled, answer>>
<1>1. PICK c : c = IF s = rows[i].state THEN "occupy" ELSE "transit" OBVIOUS
<1>2. PICK q : q = Loaded("move", c, i, s, index, rows[i]) OBVIOUS
<1>3. i \in Live(rows) /\ Begin(w, q) /\ rows = settled
  BY <1>1, <1>2 DEF StartMove, Begin, AloneInv
<1>4. i \in 0..MaxIssues /\ i # 0 /\ rows[i] \in Row /\ i \in DOMAIN settled
  BY <1>3, LiveShape, ConstantsAssumption
<1>5. /\ q \in Request /\ q.op = "move" /\ q.pc = c /\ q.issue = i /\ q.mem = rows[i]
      /\ q.target = s /\ q.index = index /\ q.orig = rows[i]
  <2>1. "move" \in Ops /\ c \in Steps \ {"idle"} BY <1>1 DEF Ops, Steps
  <2>2. s \in States /\ index \in Nat BY ConstantsAssumption DEF ConstantsAssumption
  <2> QED BY <1>2, <1>4, <2>1, <2>2, LoadedFits, ConstantsAssumption
<1>6. KnowsIssue(q)
  <2>1. [rows[i] EXCEPT !.state = rows[i].state, !.priority = rows[i].priority] = rows[i]
    BY <1>4, RowEntered
  <2> QED BY <1>3, <1>5, <2>1 DEF KnowsIssue
<1>7. settled = Left(q)
  <2>1. IsTable(settled) BY AloneShape, ConstantsAssumption DEF IsSettled
  <2>2. Entered(i, settled[i].state, settled[i].priority) = settled BY <1>3, <1>4, <2>1, EnteredSame
  <2> QED BY <1>3, <1>5, <2>2 DEF Left
<1>8. AtStep(q, settled, NoRows) BY <1>1, <1>3, <1>5, <1>7 DEF AtStep
<1>9. Underway(q, settled, NoRows) BY <1>5, <1>6, <1>8 DEF Underway
<1> QED BY <1>3, <1>5, <1>9, BeginsAlone, ConstantsAssumption

-----------------------------------------------------------------------------
(* Its steps.                                                              *)

\* The worker runs a request, and no other does.
Runs(w) == ConstantsAssumption /\ RequestsInv /\ RequestsInv' /\ AloneInv(w) /\ Settle /\ Others(w) /\ run[w] # None

\* What it runs.
LEMMA RunsShape ==
  ASSUME NEW w \in Workers, Runs(w), NEW r, r = run[w]
  PROVE  /\ ConstantsAssumption /\ RequestsInv /\ RequestsInv' /\ AloneInv(w) /\ Settle /\ Others(w)
         /\ r \in Request /\ StepFits(r) /\ PositionsFit(r) /\ WritesFit(w)
         /\ Underway(r, View(w), pending[w])
  BY WorkerShape DEF Runs, AloneInv

\* What it knows of its issue.
LEMMA KnowsShape ==
  ASSUME ConstantsAssumption, RequestsInv, NEW w \in Workers, AloneInv(w),
         NEW r \in Request, KnowsIssue(r), NEW i, i = r.issue
  PROVE  /\ i \in 1..Size /\ i \in DOMAIN settled /\ i \in DOMAIN rows /\ i \in Live(settled)
         /\ settled[i] \in Row /\ r.orig = settled[i] /\ r.mem \in Row
         /\ r.mem.state \in States /\ r.mem.priority \in Priorities /\ r.target \in States
         /\ settled[i].state \in States /\ settled[i].priority \in Priorities
         /\ r.mem = [settled[i] EXCEPT !.state = r.mem.state, !.priority = r.mem.priority]
         /\ Entered(i, r.mem.state, r.mem.priority) = [settled EXCEPT ![i] = r.mem]
         /\ IsTable(Left(r)) /\ DOMAIN Left(r) = DOMAIN settled
         /\ r.op # "archive" => Left(r) = Entered(i, r.mem.state, r.mem.priority) /\ Left(r)[i] = r.mem
         /\ Source(r) = <<settled[i].state, settled[i].priority>>
<1>1. i \in DOMAIN settled /\ i \in Live(settled) /\ r.orig = settled[i]
      /\ r.mem = [settled[i] EXCEPT !.state = r.mem.state, !.priority = r.mem.priority]
  BY DEF KnowsIssue, Live
<1>2. i \in 1..Size /\ i \in DOMAIN rows /\ settled[i] \in Row /\ IsTable(settled)
  BY <1>1, AloneShape DEF IsSettled
<1>3. /\ r.mem \in Row /\ r.mem.state \in States /\ r.mem.priority \in Priorities /\ r.target \in States
      /\ settled[i].state \in States /\ settled[i].priority \in Priorities
  BY <1>2, RequestFields, RowFields
<1>4. Entered(i, r.mem.state, r.mem.priority) = [settled EXCEPT ![i] = r.mem] BY <1>1 DEF Entered
<1>5. IsTable(Entered(i, r.mem.state, r.mem.priority))
      /\ DOMAIN Entered(i, r.mem.state, r.mem.priority) = DOMAIN settled
  <2>1. PICK s \in States : s = r.mem.state BY <1>3
  <2>2. PICK p \in Priorities : p = r.mem.priority BY <1>3
  <2>3. IsTable(Entered(i, s, p)) /\ DOMAIN Entered(i, s, p) = DOMAIN settled
    BY ONLY <1>1, <1>2, MappedEnters, s \in States, p \in Priorities, Zenon
  <2> QED BY <2>1, <2>2, <2>3
<1>6. IsTable(Archived(i)) /\ DOMAIN Archived(i) = DOMAIN settled BY <1>1, <1>2, MappedArchives
<1>7. IsTable(Left(r)) /\ DOMAIN Left(r) = DOMAIN settled BY <1>5, <1>6 DEF Left
<1>8. r.op # "archive" => Left(r) = Entered(i, r.mem.state, r.mem.priority) BY DEF Left
<1>9. [settled EXCEPT ![i] = r.mem][i] = r.mem BY <1>1
<1>10. Source(r) = <<settled[i].state, settled[i].priority>> BY DEF Source, Band
<1> QED BY <1>1, <1>2, <1>3, <1>4, <1>7, <1>8, <1>9, <1>10

\* What it sees when it has written a row.
LEMMA ViewWrites ==
  ASSUME RequestsInv, NEW w \in Workers, NEW i \in DOMAIN rows, NEW r, Write(w, i, r)
  PROVE  View(w)' = [View(w) EXCEPT ![i] = r] /\ rows' = rows
<1>1. PICK p : p = [j \in DOMAIN pending[w] \cup {i} |-> IF j = i THEN r ELSE pending[w][j]] OBVIOUS
<1>2. rows' = rows /\ pending'[w] = p BY <1>1 DEF Write, RequestsInv, Counted
<1>3. View(w)' = [j \in DOMAIN rows |-> IF j \in DOMAIN p THEN p[j] ELSE rows[j]] BY <1>2 DEF View
<1>4. \A j \in DOMAIN rows : (IF j \in DOMAIN p THEN p[j] ELSE rows[j])
        = IF j = i THEN r ELSE IF j \in DOMAIN pending[w] THEN pending[w][j] ELSE rows[j]
  BY <1>1
<1>5. View(w) = [j \in DOMAIN rows |-> IF j \in DOMAIN pending[w] THEN pending[w][j] ELSE rows[j]]
  BY DEF View
<1> QED BY <1>2, <1>3, <1>4, <1>5

\* And when it has committed one at once.
LEMMA ViewWritesThrough ==
  ASSUME RequestsInv, NEW w \in Workers, pending[w] = NoRows, View(w) = rows,
         NEW i \in DOMAIN rows, NEW r, WriteThrough(w, i, r)
  PROVE  rows' = [rows EXCEPT ![i] = r] /\ View(w)' = rows' /\ pending'[w] = NoRows
<1>1. PICK W : W = [j \in {i} |-> r] OBVIOUS
<1>2. Publish(w, W) BY <1>1 DEF WriteThrough
<1>3. pending'[w] = NoRows BY <1>2 DEF Publish, RequestsInv, Counted
<1>4. rows' = [j \in DOMAIN rows |-> IF j = i THEN r ELSE rows[j]]
  BY <1>1, <1>2 DEF Publish
<1>5. rows = [j \in DOMAIN rows |-> rows[j]] BY DEF RequestsInv, TableFits
<1>6. View(w)' = rows' BY <1>3, <1>4 DEF View, NoRows
<1> QED BY <1>3, <1>4, <1>5, <1>6

\* And when it commits.
LEMMA ViewCommits ==
  ASSUME RequestsInv, NEW w \in Workers, Publish(w, pending[w])
  PROVE  rows' = View(w)
<1>1. DOMAIN pending[w] \subseteq DOMAIN rows BY PendingShape
<1>2. PICK W : W = pending[w] OBVIOUS
<1>3. rows' = [j \in DOMAIN rows \cup DOMAIN W |-> IF j \in DOMAIN W THEN W[j] ELSE rows[j]]
  BY <1>2 DEF Publish
<1>4. DOMAIN rows \cup DOMAIN W = DOMAIN rows BY <1>1, <1>2
<1> QED BY <1>2, <1>3, <1>4 DEF View

\* The row is inserted.
LEMMA InsertAlone ==
  ASSUME NEW w \in Workers, Runs(w), Insert(w)
  PROVE  AloneInv(w)' /\ Board!Next
<1>1. PICK r : r = run[w] OBVIOUS
<1>2. PICK n : n = Size OBVIOUS
<1>3. /\ ConstantsAssumption /\ RequestsInv /\ RequestsInv' /\ AloneInv(w) /\ Settle /\ Others(w)
      /\ r \in Request /\ StepFits(r) /\ Underway(r, View(w), pending[w])
  BY <1>1, RunsShape
<1>4. PICK W : W = [j \in {n + 1} |-> r.mem] OBVIOUS
<1>5. /\ r.pc = "insert" /\ n + 1 <= MaxIssues /\ Publish(w, W) /\ run' = [run EXCEPT ![w] = None]
      /\ answer' = [op |-> r.op, issue |-> n + 1, ok |-> TRUE, events |-> {"created"}]
  BY <1>1, <1>2, <1>4 DEF Insert, Answer, Size
<1>6. r.op = "create" BY <1>3, <1>5 DEF StepFits
<1>7. PICK s \in States : s = r.mem.state BY <1>3, RequestFields, RowFields
<1>8. PICK p \in Priorities : p = r.mem.priority BY <1>3, RequestFields, RowFields
<1>9. View(w) = settled /\ pending[w] = NoRows
      /\ r.mem = [state |-> s, priority |-> p, pos |-> NextPosition(settled, <<s, p>>), archived |-> FALSE]
  BY <1>3, <1>6, <1>7, <1>8 DEF Underway
<1>10. IsSettled(n) /\ n \in Nat /\ DOMAIN settled = 1..n /\ rows = settled
  BY <1>2, <1>3, <1>9, AloneShape
<1>11. run'[w] = None BY <1>3, <1>5 DEF RequestsInv, Counted
<1>12. AloneInv(w)' /\ settled' = rows' BY <1>3, <1>11, Ends
<1>13. settled' = [j \in DOMAIN settled \cup {n + 1} |-> IF j = n + 1 THEN r.mem ELSE settled[j]]
  BY <1>4, <1>5, <1>10, <1>12 DEF Publish
<1>14. Board!Next BY <1>3, <1>5, <1>6, <1>9, <1>10, <1>13, BoardCreates
<1> QED BY <1>12, <1>14

\* A request about an issue.
LEMMA RunsIssue ==
  ASSUME NEW w \in Workers, Runs(w), NEW r, r = run[w], r.op # "create"
  PROVE  /\ ConstantsAssumption /\ RequestsInv /\ AloneInv(w)
         /\ r \in Request /\ StepFits(r) /\ KnowsIssue(r) /\ AtStep(r, View(w), pending[w])
  BY RunsShape DEF Underway

\* It goes on.
LEMMA IssueGoesOn ==
  ASSUME NEW w \in Workers, Runs(w), NEW q \in Request, run' = [run EXCEPT ![w] = q], q.op # "create",
         DOMAIN rows' = DOMAIN rows, answer' = answer, KnowsIssue(q),
         NEW v, v = View(w)', NEW p, p = pending'[w], AtStep(q, v, p)
  PROVE  AloneInv(w)' /\ UNCHANGED <<settled, answer>>
<1>1. run'[w] = q BY DEF Runs, RequestsInv, Counted
<1>2. Underway(q, v, p) BY DEF Underway
<1> QED BY <1>1, <1>2, GoesOn DEF Runs

\* What it knows it keeps knowing.
LEMMA KnowsOn ==
  ASSUME NEW r, KnowsIssue(r), NEW q, q.op = r.op, q.issue = r.issue, q.orig = r.orig, q.mem = r.mem,
         q.index = r.index, q.target = r.target
  PROVE  KnowsIssue(q) /\ Left(q) = Left(r) /\ Source(q) = Source(r) /\ ClosedUp(q) = ClosedUp(r)
         /\ Goal(q) = Goal(r) /\ (Leaves(q) <=> Leaves(r))
  BY DEF KnowsIssue, Left, Source, ClosedUp, Goal, Leaves

\* The row is read again.
LEMMA ReadOriginalAlone ==
  ASSUME NEW w \in Workers, Runs(w), ReadOriginal(w)
  PROVE  AloneInv(w)' /\ UNCHANGED <<settled, answer>>
<1>1. PICK r : r = run[w] OBVIOUS
<1>2. PICK i : i = r.issue OBVIOUS
<1>3. r.pc = "original" /\ UNCHANGED <<rows, pending, answer>> BY <1>1 DEF ReadOriginal, Become
<1>4. r.op = "update" BY <1>1, <1>3, RunsShape DEF StepFits
<1>5. r \in Request /\ KnowsIssue(r) /\ View(w) = settled /\ pending[w] = NoRows /\ rows = settled
  <2>1. r \in Request /\ KnowsIssue(r) /\ View(w) = settled /\ pending[w] = NoRows
    BY <1>1, <1>3, <1>4, RunsIssue DEF AtStep
  <2> QED BY <2>1, AloneShape DEF Runs
<1>6. /\ i \in DOMAIN settled /\ settled[i] \in Row /\ r.orig = settled[i] /\ r.mem \in Row
      /\ r.mem = [settled[i] EXCEPT !.state = r.mem.state, !.priority = r.mem.priority]
  BY <1>2, <1>5, KnowsShape DEF Runs
<1>7. PICK c : c = settled[i].state OBVIOUS
<1>8. PICK m : m = [r.mem EXCEPT !.state = c] OBVIOUS
<1>9. m \in Row /\ m.state = c /\ m.priority = r.mem.priority
      /\ m = [settled[i] EXCEPT !.state = c, !.priority = r.mem.priority]
  <2>1. c \in States BY <1>6, <1>7, RowFields
  <2>2. m \in Row /\ m.state = c /\ m.priority = r.mem.priority BY <1>6, <1>8, <2>1 DEF Row
  <2> QED BY <1>6, <1>8, <2>2 DEF Row
<1>10. PICK q : q = [r EXCEPT !.pc = "fields", !.orig = settled[i], !.mem = m] OBVIOUS
<1>11. run' = [run EXCEPT ![w] = q]
  <2>1. q = [r EXCEPT !.orig = settled[i], !.mem.state = c, !.pc = "fields"]
    BY <1>5, <1>8, <1>10 DEF Request
  <2> QED BY <1>1, <1>2, <1>5, <1>7, <2>1 DEF ReadOriginal, Become
<1>12. /\ q \in Request /\ q.pc = "fields" /\ q.op = r.op /\ q.issue = r.issue /\ q.mem = m
       /\ q.target = r.target /\ q.index = r.index /\ q.orig = settled[i]
  <2>1. "fields" \in Steps \ {"idle"} BY DEF Steps
  <2> QED BY <1>5, <1>6, <1>9, <1>10, <2>1 DEF Request
<1>13. KnowsIssue(q) BY <1>2, <1>4, <1>5, <1>9, <1>12 DEF KnowsIssue
<1>14. View(w)' = settled /\ pending'[w] = NoRows
  <2>1. View(w)' = View(w) BY <1>3 DEF View
  <2> QED BY <1>3, <1>5, <2>1
<1>15. AtStep(q, settled, NoRows) BY <1>2, <1>7, <1>9, <1>12 DEF AtStep
<1> QED BY <1>3, <1>4, <1>11, <1>12, <1>13, <1>14, <1>15, IssueGoesOn

\* The archive fields are saved.
LEMMA SaveArchivedAlone ==
  ASSUME NEW w \in Workers, Runs(w), SaveArchived(w)
  PROVE  AloneInv(w)' /\ UNCHANGED <<settled, answer>>
<1>1. PICK r : r = run[w] OBVIOUS
<1>2. PICK i : i = r.issue OBVIOUS
<1>3. PICK q : q = [r EXCEPT !.pc = "vacate"] OBVIOUS
<1>4. PICK a : a = [rows[i] EXCEPT !.archived = TRUE] OBVIOUS
<1>5. /\ r.pc = "archive" /\ Write(w, i, a) /\ run' = [run EXCEPT ![w] = q] /\ answer' = answer
  BY <1>1, <1>2, <1>3, <1>4 DEF SaveArchived, Become
<1>6. r.op = "archive" BY <1>1, <1>5, RunsShape DEF StepFits
<1>7. r \in Request /\ KnowsIssue(r) /\ View(w) = settled /\ pending[w] = NoRows /\ rows = settled
  <2>1. r \in Request /\ KnowsIssue(r) /\ View(w) = settled /\ pending[w] = NoRows
    BY <1>1, <1>5, <1>6, RunsIssue DEF AtStep
  <2> QED BY <2>1, AloneShape DEF Runs
<1>8. i \in DOMAIN rows BY <1>2, <1>7, KnowsShape DEF Runs
<1>9. View(w)' = [settled EXCEPT ![i] = a] /\ rows' = rows
  BY <1>5, <1>7, <1>8, ViewWrites DEF Runs
<1>10. /\ q \in Request /\ q.pc = "vacate" /\ q.op = r.op /\ q.issue = r.issue /\ q.mem = r.mem
       /\ q.target = r.target /\ q.index = r.index /\ q.orig = r.orig
  <2>1. "vacate" \in Steps \ {"idle"} BY DEF Steps
  <2> QED BY <1>3, <1>7, <2>1 DEF Request
<1>11. KnowsIssue(q) BY <1>7, <1>10, KnowsOn
<1>12. [settled EXCEPT ![i] = a] = Left(q) BY <1>2, <1>4, <1>6, <1>7, <1>10 DEF Left, Archived
<1>13. AtStep(q, Left(q), pending'[w]) BY <1>6, <1>10 DEF AtStep, Leaves
<1> QED BY <1>5, <1>6, <1>9, <1>10, <1>11, <1>12, <1>13, IssueGoesOn

\* The band the issue leaves is read.
LEMMA VacateAlone ==
  ASSUME NEW w \in Workers, Runs(w), Vacate(w)
  PROVE  AloneInv(w)' /\ UNCHANGED <<settled, answer>>
<1>1. PICK r : r = run[w] OBVIOUS
<1>2. PICK i : i = r.issue OBVIOUS
<1>3. PICK t : t = View(w) OBVIOUS
<1>4. PICK b : b = Band([j \in {i} |-> r.orig], i) OBVIOUS
<1>5. PICK u : u = NormalizeBand(t, b, i) OBVIOUS
<1>6. PICK T : T = Changes(t, u) OBVIOUS
<1>7. PICK q : q = [r EXCEPT !.pc = "vacating", !.todo = T] OBVIOUS
<1>8. r.pc = "vacate" /\ run' = [run EXCEPT ![w] = q] /\ UNCHANGED <<rows, pending, answer>>
  BY <1>1, <1>2, <1>3, <1>4, <1>5, <1>6, <1>7 DEF Vacate, Become
<1>9. r.op # "create" BY <1>1, <1>8, RunsShape DEF StepFits
<1>10. r \in Request /\ KnowsIssue(r) /\ t = Left(r) /\ Leaves(r)
       /\ (r.op # "archive" => r.mem.state = r.target)
  BY <1>1, <1>3, <1>8, <1>9, RunsIssue DEF AtStep
<1>11. b = Source(r) /\ u = ClosedUp(r)
  <2>1. r.orig = settled[i] BY <1>2, <1>10 DEF KnowsIssue
  <2>2. b = Source(r) BY <1>2, <1>4, <2>1 DEF Source, Band
  <2> QED BY <1>2, <1>5, <1>10, <2>2 DEF ClosedUp
<1>12. IsTable(t) /\ DOMAIN t = 1..Size /\ Size \in Nat /\ Size <= MaxIssues
  BY <1>3, AloneShape DEF Runs
<1>13. /\ u = [j \in DOMAIN t |-> u[j]]
       /\ \A j \in DOMAIN t : u[j] = [t[j] EXCEPT !.pos = u[j].pos] /\ u[j].pos \in Nat
  BY <1>5, <1>12, NormalizeMoves
<1>14. Reaches(t, T, u) BY <1>6, <1>12, <1>13, ReachesFrom
<1>15. T \in SUBSET ((1..MaxIssues) \X Nat)
  BY <1>6, <1>12, <1>13, ConstantsAssumption DEF Changes, ConstantsAssumption
<1>16. /\ q \in Request /\ q.pc = "vacating" /\ q.op = r.op /\ q.issue = r.issue /\ q.mem = r.mem
       /\ q.target = r.target /\ q.index = r.index /\ q.orig = r.orig /\ q.todo = T
  <2>1. "vacating" \in Steps \ {"idle"} BY DEF Steps
  <2> QED BY <1>7, <1>10, <1>15, <2>1 DEF Request
<1>17. KnowsIssue(q) /\ ClosedUp(q) = u /\ Leaves(q) BY <1>10, <1>11, <1>16, KnowsOn
<1>18. View(w)' = t BY <1>3, <1>8 DEF View
<1>19. AtStep(q, t, pending'[w]) BY <1>10, <1>14, <1>16, <1>17 DEF AtStep
<1> QED BY <1>8, <1>9, <1>16, <1>17, <1>18, <1>19, IssueGoesOn

\* A position is saved.
LEMMA SavePositionAlone ==
  ASSUME NEW w \in Workers, Runs(w), SavePosition(w)
  PROVE  AloneInv(w)' /\ UNCHANGED <<settled, answer>>
<1>1. PICK r : r = run[w] OBVIOUS
<1>2. PICK x : x = Due(r) OBVIOUS
<1>3. PICK v : v = View(w) OBVIOUS
<1>4. PICK a : a = [v[x[1]] EXCEPT !.pos = x[2]] OBVIOUS
<1>5. PICK T : T = r.todo \ {x} OBVIOUS
<1>6. PICK q : q = [r EXCEPT !.todo = T] OBVIOUS
<1>7. /\ r.pc \in {"vacating", "occupying"} /\ r.todo # {} /\ Write(w, x[1], a)
      /\ run' = [run EXCEPT ![w] = q] /\ answer' = answer
  BY <1>1, <1>2, <1>3, <1>4, <1>5, <1>6 DEF SavePosition, Renumbering, Become
<1>8. r.op # "create" BY <1>1, <1>7, RunsShape DEF StepFits
<1>9. r \in Request /\ KnowsIssue(r) /\ AtStep(r, v, pending[w])
  BY <1>1, <1>3, <1>8, RunsIssue
<1>10. x \in r.todo BY <1>2, <1>7, <1>9, DueIsOne
<1>11. PICK u : Reaches(v, r.todo, u) /\ u = IF r.pc = "vacating" THEN ClosedUp(r) ELSE Goal(r)
  BY <1>7, <1>9 DEF AtStep
<1>12. x[1] \in DOMAIN rows
  <2>1. x[1] \in DOMAIN v BY <1>10, <1>11 DEF Reaches
  <2> QED BY <1>3, <2>1, AloneShape DEF Runs
<1>13. PICK y : y = [v EXCEPT ![x[1]] = a] OBVIOUS
<1>14. View(w)' = y /\ rows' = rows BY <1>3, <1>7, <1>12, <1>13, ViewWrites DEF Runs
<1>15. Reaches(y, T, u) BY <1>4, <1>5, <1>10, <1>11, <1>13, ReachesOn
<1>16. /\ q \in Request /\ q.pc = r.pc /\ q.op = r.op /\ q.issue = r.issue /\ q.mem = r.mem
       /\ q.target = r.target /\ q.index = r.index /\ q.orig = r.orig /\ q.todo = T
  <2>1. T \in SUBSET ((1..MaxIssues) \X Nat) BY <1>5, <1>9 DEF Request
  <2> QED BY <1>6, <1>9, <2>1 DEF Request
<1>17. KnowsIssue(q) /\ ClosedUp(q) = ClosedUp(r) /\ Goal(q) = Goal(r) /\ (Leaves(q) <=> Leaves(r))
  BY <1>9, <1>16, KnowsOn
<1>18. AtStep(q, y, pending'[w]) BY <1>7, <1>9, <1>11, <1>15, <1>16, <1>17 DEF AtStep
<1> QED BY <1>7, <1>8, <1>14, <1>16, <1>17, <1>18, IssueGoesOn

\* The band the issue is in now is read.
LEMMA OccupyAlone ==
  ASSUME NEW w \in Workers, Runs(w), Occupy(w)
  PROVE  AloneInv(w)' /\ UNCHANGED <<settled, answer>>
<1>1. PICK r : r = run[w] OBVIOUS
<1>2. PICK i : i = r.issue OBVIOUS
<1>3. PICK v : v = View(w) OBVIOUS
<1>4. PICK self : self = IF r.op = "update" THEN [r.mem EXCEPT !.pos = 0] ELSE r.mem OBVIOUS
<1>5. PICK t : t = [v EXCEPT ![i] = self] OBVIOUS
<1>6. PICK u : u = InsertIntoBand(t, i, r.index) OBVIOUS
<1>7. PICK T : T = Changes(t, u) OBVIOUS
<1>8. PICK q : q = [r EXCEPT !.pc = "occupying", !.todo = T] OBVIOUS
<1>9. /\ r.pc = "occupy" \/ (r.pc = "vacating" /\ r.todo = {} /\ r.op # "archive")
      /\ run' = [run EXCEPT ![w] = q] /\ UNCHANGED <<rows, pending, answer>>
  BY <1>1, <1>2, <1>3, <1>4, <1>5, <1>6, <1>7, <1>8 DEF Occupy, Become
<1>10. r.op \in {"update", "move"}
  <2>1. r.op \in Ops /\ StepFits(r) BY <1>1, RunsShape, RequestFields
  <2> QED BY <1>9, <2>1 DEF StepFits, Ops
<1>11. r \in Request /\ KnowsIssue(r) /\ AtStep(r, v, pending[w]) BY <1>1, <1>3, <1>10, RunsIssue
<1>12. r.mem.state = r.target /\ (r.op = "update" => Leaves(r)) BY <1>9, <1>10, <1>11 DEF AtStep
<1>13. IsTable(v) /\ DOMAIN v = 1..Size /\ Size \in Nat /\ Size <= MaxIssues /\ DOMAIN settled = 1..Size
  BY <1>3, AloneShape DEF Runs
<1>14. /\ i \in DOMAIN v /\ r.mem \in Row /\ IsTable(Left(r)) /\ DOMAIN Left(r) = 1..Size
       /\ Left(r)[i] = r.mem /\ Source(r) = <<settled[i].state, settled[i].priority>>
  BY <1>2, <1>10, <1>11, <1>13, KnowsShape DEF Runs
<1>15. v[i] = r.mem /\ Goal(r) = InsertIntoBand(v, i, r.index)
  <2>1. Band(Left(r), i) = <<r.mem.state, r.mem.priority>> BY <1>14 DEF Band
  <2>2. CASE r.pc = "occupy"
    <3>1. v = Left(r) /\ r.op = "move" /\ r.target = settled[i].state
      BY <1>2, <1>11, <2>2 DEF AtStep
    <3>2. r.mem.priority = settled[i].priority BY <1>2, <1>11, <3>1 DEF KnowsIssue
    <3>3. Band(Left(r), i) = Source(r) BY <1>12, <1>14, <2>1, <3>1, <3>2
    <3> QED BY <1>2, <1>14, <3>1, <3>3 DEF Goal, Rehomed
  <2>3. CASE r.pc = "vacating" /\ r.todo = {}
    <3>1. Reaches(v, {}, ClosedUp(r)) /\ Leaves(r) BY <1>11, <2>3 DEF AtStep
    <3>2. v = ClosedUp(r) BY <3>1, ReachesEnd
    <3>3. v = NormalizeBand(Left(r), Source(r), i) BY <1>2, <3>2 DEF ClosedUp
    <3>4. v[i] = Left(r)[i] BY <1>13, <1>14, <3>3, NormalizeMoves
    <3>5. Band(Left(r), i) # Source(r) BY <1>10, <2>1, <3>1 DEF Leaves
    <3> QED BY <1>2, <1>14, <3>3, <3>4, <3>5 DEF Goal, Rehomed
  <2> QED BY <1>9, <2>2, <2>3
<1>16. PICK k \in Nat : k = IF r.op = "update" THEN 0 ELSE r.mem.pos BY <1>14, RowFields
<1>17. self = [v[i] EXCEPT !.pos = k] /\ self.pos = k
  <2>1. [r.mem EXCEPT !.pos = r.mem.pos] = r.mem BY <1>14 DEF Row
  <2>2. [r.mem EXCEPT !.pos = 0].pos = 0 BY <1>14 DEF Row
  <2> QED BY <1>4, <1>15, <1>16, <2>1, <2>2
<1>18. r.index \in Nat BY <1>11, RequestFields
<1>19. /\ Goal(r) = [j \in DOMAIN v |-> Goal(r)[j]]
       /\ \A j \in DOMAIN v : Goal(r)[j] = [v[j] EXCEPT !.pos = Goal(r)[j].pos] /\ Goal(r)[j].pos \in Nat
       /\ Goal(r)[i].pos # 0 /\ u = Goal(r)
  <2>1. t = Repositioned(v, i, k) BY <1>5, <1>17 DEF Repositioned
  <2>2. PICK g : g = Goal(r) OBVIOUS
  <2>3. PICK index \in Nat : index = r.index BY <1>18
  <2>4. PICK n \in Nat : n = Size BY <1>13
  <2>5. g = InsertIntoBand(v, i, index) /\ DOMAIN v = 1..n BY <1>13, <1>15, <2>2, <2>3, <2>4
  <2>6. MovesOnly(v, g) /\ g[i].pos # 0 /\ InsertIntoBand(Repositioned(v, i, k), i, index) = g
    <3>1. IsTable(v) /\ i \in DOMAIN v BY <1>13, <1>14
    <3>2. k \in Nat /\ index \in Nat /\ n \in Nat OBVIOUS
    <3>3. DOMAIN v = 1..n /\ g = InsertIntoBand(v, i, index) BY <2>5
    <3> QED BY ONLY <3>1, <3>2, <3>3, InsertMoves, ZenonT(60)
  <2> QED BY <1>6, <2>1, <2>2, <2>3, <2>6 DEF MovesOnly
<1>20. DOMAIN t = DOMAIN v /\ t[i].pos = k /\ \A j \in DOMAIN v \ {i} : t[j].pos = v[j].pos
  BY <1>5, <1>14, <1>17
<1>21. \A j \in DOMAIN v : t[j].pos = v[j].pos \/ t[j].pos # u[j].pos
  BY <1>15, <1>16, <1>19, <1>20
<1>22. Reaches(v, T, u) BY <1>7, <1>13, <1>19, <1>20, <1>21, ReachesFrom
<1>23. T \in SUBSET ((1..MaxIssues) \X Nat)
  BY <1>7, <1>13, <1>19, <1>20, ConstantsAssumption DEF Changes, ConstantsAssumption
<1>24. /\ q \in Request /\ q.pc = "occupying" /\ q.op = r.op /\ q.issue = r.issue /\ q.mem = r.mem
       /\ q.target = r.target /\ q.index = r.index /\ q.orig = r.orig /\ q.todo = T
  <2>1. "occupying" \in Steps \ {"idle"} BY DEF Steps
  <2> QED BY <1>8, <1>11, <1>23, <2>1 DEF Request
<1>25. KnowsIssue(q) /\ Goal(q) = u /\ (Leaves(q) <=> Leaves(r)) BY <1>11, <1>19, <1>24, KnowsOn
<1>26. View(w)' = v BY <1>3, <1>9 DEF View
<1>27. AtStep(q, v, pending'[w]) BY <1>12, <1>22, <1>24, <1>25 DEF AtStep
<1> QED BY <1>9, <1>10, <1>24, <1>25, <1>26, <1>27, IssueGoesOn

\* The events of a request.
LEMMA EventsAnnounced ==
  ASSUME NEW w, NEW r, r = run[w], r.op # "archive"
  PROVE  Events(w) = Announced(r.orig, r.mem)
  BY DEF Events, Announced

\* The instance is saved, and that may be all.
LEMMA SaveFieldsAlone ==
  ASSUME NEW w \in Workers, Runs(w), SaveFields(w)
  PROVE  AloneInv(w)' /\ (UNCHANGED <<settled, answer>> \/ Board!Next)
<1>1. PICK r : r = run[w] OBVIOUS
<1>2. PICK i : i = r.issue OBVIOUS
<1>3. r.pc = "fields" /\ WriteThrough(w, i, r.mem) BY <1>1, <1>2 DEF SaveFields
<1>4. r.op = "update" BY <1>1, <1>3, RunsShape DEF StepFits
<1>5. /\ r \in Request /\ KnowsIssue(r) /\ View(w) = settled /\ pending[w] = NoRows /\ rows = settled
      /\ r.mem.state = settled[i].state
  <2>1. /\ r \in Request /\ KnowsIssue(r) /\ View(w) = settled /\ pending[w] = NoRows
        /\ r.mem.state = settled[i].state
    BY <1>1, <1>2, <1>3, <1>4, RunsIssue DEF AtStep
  <2> QED BY <2>1, AloneShape DEF Runs
<1>6. /\ i \in DOMAIN rows /\ i \in DOMAIN settled /\ i \in Live(settled) /\ r.orig = settled[i]
      /\ r.mem.state \in States /\ r.mem.priority \in Priorities
      /\ Entered(i, r.mem.state, r.mem.priority) = [settled EXCEPT ![i] = r.mem]
      /\ Left(r) = Entered(i, r.mem.state, r.mem.priority) /\ Left(r)[i] = r.mem
      /\ DOMAIN Left(r) = DOMAIN settled
      /\ Source(r) = <<settled[i].state, settled[i].priority>>
  BY <1>2, <1>4, <1>5, KnowsShape, ZenonT(60) DEF Runs
<1>7. rows' = Left(r) /\ View(w)' = Left(r) /\ pending'[w] = NoRows
  <2>1. rows' = [rows EXCEPT ![i] = r.mem] /\ View(w)' = rows' /\ pending'[w] = NoRows
    BY <1>3, <1>5, <1>6, ViewWritesThrough DEF Runs
  <2> QED BY <1>5, <1>6, <2>1
<1>8. DOMAIN rows' = DOMAIN rows BY <1>5, <1>6, <1>7
<1>9. CASE r.target # settled[i].state
  <2>1. PICK q : q = [r EXCEPT !.pc = "transit"] OBVIOUS
  <2>2. run' = [run EXCEPT ![w] = q] /\ answer' = answer
    BY <1>1, <1>6, <1>9, <2>1 DEF SaveFields, Become
  <2>3. /\ q \in Request /\ q.pc = "transit" /\ q.op = r.op /\ q.issue = r.issue /\ q.mem = r.mem
        /\ q.target = r.target /\ q.index = r.index /\ q.orig = r.orig
    <3>1. "transit" \in Steps \ {"idle"} BY DEF Steps
    <3> QED BY <1>5, <2>1, <3>1 DEF Request
  <2>4. KnowsIssue(q) /\ Left(q) = Left(r) BY <1>5, <2>3, KnowsOn
  <2>5. AtStep(q, Left(r), NoRows) BY <1>2, <1>5, <1>9, <2>3, <2>4 DEF AtStep
  <2> QED BY <1>4, <1>7, <1>8, <2>2, <2>3, <2>4, <2>5, IssueGoesOn
<1>10. CASE r.target = settled[i].state /\ r.mem.priority # settled[i].priority
  <2>1. PICK q : q = [r EXCEPT !.pc = "vacate"] OBVIOUS
  <2>2. run' = [run EXCEPT ![w] = q] /\ answer' = answer
    BY <1>1, <1>6, <1>10, <2>1 DEF SaveFields, Become
  <2>3. /\ q \in Request /\ q.pc = "vacate" /\ q.op = r.op /\ q.issue = r.issue /\ q.mem = r.mem
        /\ q.target = r.target /\ q.index = r.index /\ q.orig = r.orig
    <3>1. "vacate" \in Steps \ {"idle"} BY DEF Steps
    <3> QED BY <1>5, <2>1, <3>1 DEF Request
  <2>4. KnowsIssue(q) /\ Left(q) = Left(r) /\ (Leaves(q) <=> Leaves(r)) BY <1>5, <2>3, KnowsOn
  <2>5. Leaves(r) BY <1>6, <1>10 DEF Leaves
  <2>6. AtStep(q, Left(r), NoRows) BY <1>5, <1>10, <2>3, <2>4, <2>5 DEF AtStep
  <2> QED BY <1>4, <1>7, <1>8, <2>2, <2>3, <2>4, <2>6, IssueGoesOn
<1>11. CASE r.target = settled[i].state /\ r.mem.priority = settled[i].priority
  <2>1. /\ run' = [run EXCEPT ![w] = None]
        /\ answer' = [op |-> "update", issue |-> i, ok |-> TRUE, events |-> Announced(settled[i], r.mem)]
    <3>1. Events(w) = Announced(settled[i], r.mem) BY <1>1, <1>4, <1>6, EventsAnnounced
    <3> QED BY <1>1, <1>2, <1>4, <1>6, <1>11, <3>1 DEF SaveFields, Answer
  <2>2. run'[w] = None BY <2>1 DEF Runs, RequestsInv, Counted
  <2>3. AloneInv(w)' /\ settled' = Left(r) BY <1>7, <2>2, Ends DEF Runs
  <2>4. PICK e : e = Left(r) OBVIOUS
  <2>5. Band(e, i) = Band(settled, i) BY <1>5, <1>6, <1>11, <2>4 DEF Band
  <2>6. IsSettled(Size) BY AloneShape DEF Runs
  <2>7. PICK s \in States : s = r.mem.state BY <1>6
  <2>8. PICK p \in Priorities : p = r.mem.priority BY <1>6
  <2>9. e = Entered(i, s, p) BY <1>6, <2>4, <2>7, <2>8
  <2>10. settled' = IF Band(e, i) = Band(settled, i) THEN e ELSE Rehomed(e, i, Band(settled, i), MaxIssues)
    BY <2>3, <2>4, <2>5
  <2>11. Board!Next
    BY <1>6, <2>1, <2>3, <2>4, <2>6, <2>9, <2>10, BoardUpdates, ConstantsAssumption
  <2> QED BY <2>3, <2>11
<1> QED BY <1>9, <1>10, <1>11

\* The state is changed.
LEMMA TransitAlone ==
  ASSUME NEW w \in Workers, Runs(w), Transit(w)
  PROVE  AloneInv(w)' /\ UNCHANGED <<settled, answer>>
<1>1. PICK r : r = run[w] OBVIOUS
<1>2. PICK i : i = r.issue OBVIOUS
<1>3. PICK m : m = [r.mem EXCEPT !.state = r.target] OBVIOUS
<1>4. PICK q : q = [r EXCEPT !.mem = m, !.pc = "vacate"] OBVIOUS
<1>5. /\ r.pc = "transit" /\ run' = [run EXCEPT ![w] = q] /\ answer' = answer
      /\ \/ r.op = "update" /\ WriteThrough(w, i, m)
         \/ r.op = "move" /\ Write(w, i, m)
  BY <1>1, <1>2, <1>3, <1>4 DEF Transit, Become
<1>6. /\ r \in Request /\ KnowsIssue(r) /\ View(w) = Left(r) /\ pending[w] = NoRows /\ rows = Left(r)
      /\ r.target # settled[i].state
  <2>1. /\ r \in Request /\ KnowsIssue(r) /\ View(w) = Left(r) /\ pending[w] = NoRows
        /\ r.target # settled[i].state
    BY <1>1, <1>2, <1>5, RunsIssue DEF AtStep
  <2> QED BY <2>1, AloneShape DEF Runs
<1>7. /\ i \in DOMAIN rows /\ i \in DOMAIN settled /\ settled[i] \in Row /\ r.mem \in Row /\ r.target \in States
      /\ r.mem = [settled[i] EXCEPT !.state = r.mem.state, !.priority = r.mem.priority]
      /\ Left(r) = [settled EXCEPT ![i] = r.mem]
      /\ Source(r) = <<settled[i].state, settled[i].priority>>
  <2>1. r.op # "archive" BY <1>5
  <2> QED BY <1>2, <1>6, <2>1, KnowsShape, ZenonT(60) DEF Runs
<1>8. /\ m \in Row /\ m.state = r.target /\ m.priority = r.mem.priority
      /\ m = [settled[i] EXCEPT !.state = r.target, !.priority = r.mem.priority]
  <2>1. m \in Row /\ m.state = r.target /\ m.priority = r.mem.priority BY <1>3, <1>7 DEF Row
  <2> QED BY <1>3, <1>7, <2>1 DEF Row
<1>9. View(w)' = [Left(r) EXCEPT ![i] = m] /\ DOMAIN rows' = DOMAIN rows
  <2>1. CASE WriteThrough(w, i, m)
    <3>1. View(w) = rows /\ pending[w] = NoRows BY <1>6
    <3>2. RequestsInv BY DEF Runs
    <3>3. rows' = [rows EXCEPT ![i] = m] /\ View(w)' = rows'
      BY <1>7, <2>1, <3>1, <3>2, ViewWritesThrough
    <3>4. View(w)' = [Left(r) EXCEPT ![i] = m] BY <1>6, <3>3
    <3>5. DOMAIN rows' = DOMAIN rows BY <3>3
    <3> QED BY <3>4, <3>5
  <2>2. CASE Write(w, i, m)
    <3>1. View(w)' = [View(w) EXCEPT ![i] = m] /\ rows' = rows
      BY <1>7, <2>2, ViewWrites DEF Runs
    <3> QED BY <1>6, <3>1
  <2> QED BY <1>5, <2>1, <2>2
<1>10. /\ q \in Request /\ q.pc = "vacate" /\ q.op = r.op /\ q.issue = r.issue /\ q.mem = m
       /\ q.target = r.target /\ q.index = r.index /\ q.orig = r.orig
  <2>1. "vacate" \in Steps \ {"idle"} BY DEF Steps
  <2> QED BY <1>4, <1>6, <1>8, <2>1 DEF Request
<1>11. KnowsIssue(q) BY <1>2, <1>6, <1>8, <1>10 DEF KnowsIssue
<1>12. [Left(r) EXCEPT ![i] = m] = Left(q)
  <2>1. Left(q) = Entered(i, r.target, r.mem.priority) BY <1>2, <1>5, <1>8, <1>10 DEF Left
  <2>2. Left(q) = [settled EXCEPT ![i] = m] BY <1>8, <2>1 DEF Entered
  <2> QED BY <1>7, <2>2
<1>13. Leaves(q)
  <2>1. Source(q) = Source(r) BY <1>10 DEF Source
  <2> QED BY <1>6, <1>7, <1>8, <1>10, <2>1 DEF Leaves
<1>14. AtStep(q, Left(q), pending'[w]) BY <1>8, <1>10, <1>13 DEF AtStep
<1> QED BY <1>5, <1>9, <1>10, <1>11, <1>12, <1>14, IssueGoesOn

\* The transaction commits, and the request ends.
LEMMA CommitAlone ==
  ASSUME NEW w \in Workers, Runs(w), Commit(w)
  PROVE  AloneInv(w)' /\ Board!Next
<1>1. PICK r : r = run[w] OBVIOUS
<1>2. PICK i : i = r.issue OBVIOUS
<1>3. PICK e : e = Left(r) OBVIOUS
<1>4. PICK b : b = Band(settled, i) OBVIOUS
<1>5. /\ r.pc = (IF r.op = "archive" THEN "vacating" ELSE "occupying") /\ r.todo = {}
      /\ Publish(w, pending[w]) /\ run' = [run EXCEPT ![w] = None]
      /\ answer' = [op |-> r.op, issue |-> i, ok |-> TRUE, events |-> Events(w)]
  BY <1>1, <1>2 DEF Commit, Answer
<1>6. r.op \in {"update", "archive", "move"}
  <2>1. r.op \in Ops /\ StepFits(r) BY <1>1, RunsShape, RequestFields
  <2> QED BY <1>5, <2>1 DEF StepFits, Ops
<1>7. r \in Request /\ KnowsIssue(r) /\ AtStep(r, View(w), pending[w]) BY <1>1, <1>6, RunsIssue
<1>8. /\ i \in DOMAIN settled /\ i \in Live(settled) /\ r.orig = settled[i]
      /\ r.mem.state \in States /\ r.mem.priority \in Priorities /\ settled[i].priority \in Priorities
      /\ DOMAIN e = DOMAIN settled
      /\ r.op # "archive" => e = Entered(i, r.mem.state, r.mem.priority) /\ e[i] = r.mem
  BY <1>2, <1>3, <1>7, KnowsShape DEF Runs
<1>9. run'[w] = None BY <1>5 DEF Runs, RequestsInv, Counted
<1>10. AloneInv(w)' /\ settled' = View(w)
  <2>1. AloneInv(w)' /\ settled' = rows' BY <1>9, Ends DEF Runs
  <2>2. rows' = View(w) BY <1>5, ViewCommits DEF Runs
  <2> QED BY <2>1, <2>2
<1>11. IsSettled(Size) /\ DOMAIN settled' = DOMAIN settled BY <1>10, AloneShape DEF Runs
<1>12. r.op # "archive" => Events(w) = Announced(settled[i], e[i])
  BY <1>1, <1>8, EventsAnnounced
<1>13. CASE r.op = "archive"
  <2>1. Reaches(View(w), {}, ClosedUp(r)) BY <1>5, <1>7, <1>13 DEF AtStep
  <2>2. settled' = NormalizeBand(e, b, i)
    BY <1>2, <1>3, <1>4, <1>10, <2>1, ReachesEnd DEF ClosedUp, Source
  <2>3. e = Archived(i) BY <1>2, <1>3, <1>13 DEF Left
  <2>4. answer' = [op |-> "archive", issue |-> i, ok |-> TRUE, events |-> {}]
    BY <1>1, <1>5, <1>13 DEF Events
  <2>5. Board!Next BY <1>4, <1>8, <1>11, <2>2, <2>3, <2>4, BoardArchives, ConstantsAssumption
  <2> QED BY <1>10, <2>5
<1>14. ASSUME r.op # "archive" PROVE settled' = Rehomed(e, i, b, r.index)
  <2>1. Reaches(View(w), {}, Goal(r)) BY <1>5, <1>7, <1>14 DEF AtStep
  <2> QED BY <1>2, <1>3, <1>4, <1>10, <2>1, ReachesEnd DEF Goal, Source
<1>15. CASE r.op = "update"
  <2>1. Leaves(r) /\ r.index = MaxIssues BY <1>5, <1>7, <1>15 DEF AtStep, KnowsIssue
  <2>2. Band(e, i) # b BY <1>2, <1>4, <1>8, <1>15, <2>1 DEF Leaves, Source, Band
  <2>3. PICK s \in States : s = r.mem.state BY <1>8
  <2>4. PICK p \in Priorities : p = r.mem.priority BY <1>8
  <2>5. e = Entered(i, s, p) BY <1>8, <1>15, <2>3, <2>4
  <2>6. settled' = IF Band(e, i) = Band(settled, i) THEN e ELSE Rehomed(e, i, Band(settled, i), MaxIssues)
    BY <1>4, <1>14, <1>15, <2>1, <2>2
  <2>7. answer' = [op |-> "update", issue |-> i, ok |-> TRUE, events |-> Announced(settled[i], e[i])]
    BY <1>5, <1>12, <1>15
  <2>8. Board!Next BY <1>8, <1>11, <2>5, <2>6, <2>7, BoardUpdates, ConstantsAssumption
  <2> QED BY <1>10, <2>8
<1>16. CASE r.op = "move"
  <2>1. /\ r.mem.state = r.target /\ r.target \in BoardStates /\ r.index \in 0..MaxIssues
        /\ r.mem.priority = settled[i].priority
    BY <1>2, <1>5, <1>7, <1>16 DEF AtStep, KnowsIssue
  <2>2. PICK s \in BoardStates : s = r.target BY <2>1
  <2>3. PICK index \in 0..MaxIssues : index = r.index BY <2>1
  <2>4. e = Entered(i, s, settled[i].priority) BY <1>8, <1>16, <2>1, <2>2
  <2>5. settled' = Rehomed(e, i, Band(settled, i), index) BY <1>4, <1>14, <1>16, <2>3
  <2>6. answer' = [op |-> "move", issue |-> i, ok |-> TRUE, events |-> Announced(settled[i], e[i])]
    BY <1>5, <1>12, <1>16
  <2>7. Board!Next BY <1>8, <1>11, <2>4, <2>5, <2>6, BoardMoves, ConstantsAssumption
  <2> QED BY <1>10, <2>7
<1> QED BY <1>6, <1>13, <1>15, <1>16

-----------------------------------------------------------------------------
(* The refinement.                                                         *)

\* Of a worker whose request is, or would be, alone, what AloneInv says.
SerialInv ==
  /\ Alone
  /\ \A w \in Workers : (\A u \in Workers \ {w} : run[u] = None) => AloneInv(w)

\* At the start there is no issue.
LEMMA AloneInit ==
  ASSUME ConstantsAssumption, InitialSizes = {0}, Init, settled = rows
  PROVE  SerialInv /\ Board!Init
<1>1. RequestsInv BY RequestsInvInit, ConstantsAssumption
<1>2. \A w \in Workers : run[w] = None BY DEF Init
<1>3. rows \in [DOMAIN rows -> Row] BY <1>1 DEF RequestsInv, TableFits
<1>4. SerialInv BY <1>2, <1>3 DEF SerialInv, Alone, AloneInv
<1>5. DOMAIN settled = {} BY DEF Init
<1>6. Mapped(settled) = << >> BY <1>5 DEF Mapped
<1>7. Cardinality(DOMAIN settled) = 0 BY <1>5, FS_EmptySet
<1>8. answer = [op |-> "none", issue |-> 0, ok |-> TRUE, events |-> {}] BY DEF Init
<1>9. Board!Init BY <1>6, <1>7, <1>8 DEF Board!Init, Mapped, Unassigned
<1> QED BY <1>4, <1>9

\* Of two workers in a circle each waits for the other, which runs a request.
LEMMA AloneUnblocked ==
  ASSUME Alone, NEW w \in Workers
  PROVE  ~ Deadlocked(w)
<1> SUFFICES ASSUME NEW C \in SUBSET Workers, w \in C, C # {w}, Circle(C) PROVE FALSE
  BY DEF Deadlocked
<1>1. PICK v \in C : v # w OBVIOUS
<1>2. WaitsFor(w) # {} /\ WaitsFor(v) # {} BY <1>1, CirclesClose
<1>3. \A u : WaitsFor(u) # {} => run[u] # None BY DEF WaitsFor, Wanted
<1> QED BY <1>1, <1>2, <1>3 DEF Alone

\* A worker's step is one of the handler, or that of IssueBoard.
LEMMA AloneStep ==
  ASSUME ConstantsAssumption, RequestsInv, RequestsInv', NEW w \in Workers, Others(w), AloneInv(w), Settle,
         Start(w) \/ Step(w)
  PROVE  AloneInv(w)' /\ (UNCHANGED <<settled, answer>> \/ Board!Next)
<1>1. CASE Start(w)
  BY <1>1, StartCreateAlone, StartUpdateAlone, StartArchiveAlone, StartMoveAlone, ConstantsAssumption DEF Start
<1>2. CASE Step(w)
  <2>1. Runs(w) BY <1>2, ConstantsAssumption DEF Step, Runs
  <2>2. CASE Insert(w) BY <2>1, <2>2, InsertAlone
  <2>3. CASE ReadOriginal(w) BY <2>1, <2>3, ReadOriginalAlone
  <2>4. CASE SaveFields(w) BY <2>1, <2>4, SaveFieldsAlone
  <2>5. CASE Transit(w) BY <2>1, <2>5, TransitAlone
  <2>6. CASE SaveArchived(w) BY <2>1, <2>6, SaveArchivedAlone
  <2>7. CASE Vacate(w) BY <2>1, <2>7, VacateAlone
  <2>8. CASE Occupy(w) BY <2>1, <2>8, OccupyAlone
  <2>9. CASE SavePosition(w) BY <2>1, <2>9, SavePositionAlone
  <2>10. CASE Commit(w) BY <2>1, <2>10, CommitAlone
  <2> QED BY <1>2, <2>2, <2>3, <2>4, <2>5, <2>6, <2>7, <2>8, <2>9, <2>10 DEF Step
<1> QED BY <1>1, <1>2

\* Whichever worker takes the step.
LEMMA AloneNext ==
  ASSUME ConstantsAssumption, RequestsInv, RequestsInv', MaxCrashes = 0,
         SerialInv, [Next /\ Settle /\ Alone']_<<vars, settled>>
  PROVE  SerialInv' /\ (UNCHANGED <<settled, answer>> \/ Board!Next)
<1>1. CASE UNCHANGED <<vars, settled>>
  <2>1. run' = run /\ Alone' BY <1>1 DEF vars, SerialInv, Alone
  <2>2. ASSUME NEW w \in Workers, AloneInv(w) PROVE AloneInv(w)'
    BY <1>1, <2>2 DEF vars, AloneInv, View, Underway, KnowsIssue, AtStep, Leaves, Source, ClosedUp, Goal, Left,
                Archived, Entered
  <2>3. SerialInv'
    <3>1. ASSUME NEW w \in Workers, \A u \in Workers \ {w} : run'[u] = None PROVE AloneInv(w)'
      <4>1. \A u \in Workers \ {w} : run[u] = None BY <2>1, <3>1
      <4>2. AloneInv(w) BY <4>1 DEF SerialInv
      <4> QED BY <2>2, <4>2
    <3> QED BY <2>1, <3>1 DEF SerialInv
  <2>4. UNCHANGED <<settled, answer>> BY <1>1 DEF vars
  <2> QED BY <2>3, <2>4
<1>2. ASSUME Settle, Alone', NEW w \in Workers, Start(w) \/ Step(w)
      PROVE  SerialInv' /\ (UNCHANGED <<settled, answer>> \/ Board!Next)
  <2>1. \A u \in Workers \ {w} : run'[u] = run[u]
    <3>1. PICK q : run' = [run EXCEPT ![w] = q] BY <1>2, StepsOwnRun
    <3>2. run = [v \in Workers |-> run[v]] BY DEF RequestsInv, Counted
    <3> QED BY <3>1, <3>2
  <2>2. run[w] # None \/ run'[w] # None
    <3>1. Start(w) => run'[w] \in Request
      BY StartCreateStep, StartUpdateStep, StartArchiveStep, StartMoveStep, ConstantsAssumption DEF Start
    <3>2. Start(w) => run'[w] # None BY <3>1, ConstantsAssumption DEF ConstantsAssumption
    <3> QED BY <1>2, <3>2 DEF Step
  <2>3. Others(w) BY <1>2, <2>1, <2>2 DEF Others, SerialInv, Alone
  <2>4. AloneInv(w) BY <2>3 DEF Others, SerialInv
  <2>5. AloneInv(w)' /\ (UNCHANGED <<settled, answer>> \/ Board!Next)
    BY <1>2, <2>3, <2>4, AloneStep, ConstantsAssumption
  <2>6. ASSUME NEW v \in Workers, \A u \in Workers \ {v} : run'[u] = None PROVE AloneInv(v)'
    <3>1. CASE v = w BY <2>5, <3>1
    <3>2. CASE v # w
      <4>1. run'[v] = None /\ run'[w] = None BY <2>3, <2>6, <3>2 DEF Others
      <4> QED BY <2>5, <4>1 DEF AloneInv
    <3> QED BY <3>1, <3>2
  <2> QED BY <1>2, <2>5, <2>6 DEF SerialInv
<1>3. ASSUME NEW w \in Workers PROVE ~ BreakDeadlock(w)
  BY AloneUnblocked DEF BreakDeadlock, SerialInv
<1>4. ASSUME NEW w \in Workers PROVE ~ Crash(w) BY DEF Crash, RequestsInv, Counted
<1> QED BY <1>1, <1>2, <1>3, <1>4 DEF Next

\* The statements of a handler, with nobody else's in between and nobody dying,
\* amount to its action in IssueBoard: the same table, answer and webhook events,
\* whatever the workers, states, priorities, bounds and the requests made.
THEOREM AloneImplementsBoard ==
  ASSUME MaxCrashes = 0, InitialSizes = {0}
  PROVE  AloneSpec => ImplementsIssueBoard
<1>1. Init /\ settled = rows => RequestsInv /\ SerialInv /\ Board!Init
  BY AloneInit, RequestsInvInit, ConstantsAssumption
<1>2. RequestsInv /\ [Next /\ Settle /\ Alone']_<<vars, settled>> => RequestsInv'
  BY RequestsInvNext, ConstantsAssumption DEF vars
<1>3. RequestsInv /\ RequestsInv' /\ SerialInv /\ [Next /\ Settle /\ Alone']_<<vars, settled>> =>
        SerialInv' /\ [Board!Next]_Board!vars
  <2> SUFFICES ASSUME RequestsInv, RequestsInv', SerialInv, [Next /\ Settle /\ Alone']_<<vars, settled>>
               PROVE  SerialInv' /\ [Board!Next]_Board!vars
    OBVIOUS
  <2>1. SerialInv' /\ (UNCHANGED <<settled, answer>> \/ Board!Next)
    BY AloneNext, ConstantsAssumption
  <2>2. UNCHANGED <<settled, answer>> => UNCHANGED Board!vars BY DEF Board!vars
  <2> QED BY <2>1, <2>2
<1> QED BY <1>1, <1>2, <1>3, PTL DEF AloneSpec, ImplementsIssueBoard, Board!Spec
=============================================================================
