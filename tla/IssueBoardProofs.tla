-------------------------- MODULE IssueBoardProofs --------------------------
(***************************************************************************)
(* Theorems about IssueBoard for every set of states, priorities, groups   *)
(* and users and for every number of issues.                               *)
(***************************************************************************)
EXTENDS IssueBoard, IssueTableProofs

\* A well-formed table with primary keys and positions up to n.
Table(t, n) ==
  /\ DOMAIN t \subseteq 1..n
  /\ t \in [DOMAIN t -> Issue]
  /\ \A i \in DOMAIN t : t[i].pos \in 1..n

\* Table u has the rows of t, renumbered.
Renumbers(t, u) ==
  /\ DOMAIN u = DOMAIN t
  /\ \A i \in DOMAIN t : u[i] = [t[i] EXCEPT !.pos = u[i].pos]

\* Issues of one band other than x precede each other in u as they do in t.
KeepsOrder(t, u, x) ==
  \A i, j \in Live(t) \ {x} :
    Band(t, i) = Band(t, j) /\ Precedes(t, i, j) => Precedes(u, i, j)

-----------------------------------------------------------------------------
(* Ranks.                                                                  *)

\* A rank among finitely many issues is a number of them (_normalize_band's
\* and _insert_into_band's enumerate).
LEMMA RankBound ==
  ASSUME NEW t, NEW n \in Nat, Table(t, n), NEW S \in SUBSET DOMAIN t, NEW i \in DOMAIN t
  PROVE  /\ IsFiniteSet(S)
         /\ Cardinality(S) \in 0..n
         /\ Rank(t, S, i) \in 0..Cardinality(S)
         /\ i \in S => Rank(t, S, i) + 1 <= Cardinality(S)
<1>1. DOMAIN t \subseteq 1..n /\ \A j \in DOMAIN t : t[j].pos \in Int
  BY DEF Table
<1>2. QED BY <1>1, RankWithin

\* Ranks grow with the display order, ties included.
LEMMA RankMonotone ==
  ASSUME NEW t, NEW n \in Nat, Table(t, n), NEW S \in SUBSET DOMAIN t,
         NEW i \in S, NEW j \in S, Precedes(t, i, j)
  PROVE  Rank(t, S, i) < Rank(t, S, j)
<1>1. DOMAIN t \subseteq 1..n /\ \A h \in DOMAIN t : t[h].pos \in Int
  BY DEF Table
<1>2. QED BY <1>1, RankGrows

-----------------------------------------------------------------------------
(* The renumbering helpers.                                                *)

\* A row with another position is a row.
LEMMA RowRenumbered ==
  ASSUME NEW row \in Issue, NEW k \in Nat
  PROVE  /\ [row EXCEPT !.pos = k] \in Issue
         /\ [row EXCEPT !.pos = k].pos = k
BY DEF Issue

\* _normalize_band keeps the rows and every band's order, but for x.
LEMMA NormalizeFacts ==
  ASSUME NEW t, NEW n \in Nat, Table(t, n), NEW b, NEW x
  PROVE  LET u == NormalizeBand(t, b, x)
         IN  Table(u, n) /\ Renumbers(t, u) /\ KeepsOrder(t, u, x)
<1> DEFINE S == InBand(t, b) \ {x}
           u == NormalizeBand(t, b, x)
<1>1. S \in SUBSET DOMAIN t
  BY DEF InBand, Live
<1>2. DOMAIN u = DOMAIN t
  BY DEF NormalizeBand
<1>3. \A i \in DOMAIN t : u[i] = IF i \in S THEN [t[i] EXCEPT !.pos = Rank(t, S, i) + 1] ELSE t[i]
  BY DEF NormalizeBand
<1>4. \A i \in S : Rank(t, S, i) + 1 \in 1..n
  <2>1. TAKE i \in S
  <2>2. /\ Cardinality(S) \in 0..n
        /\ Rank(t, S, i) \in 0..Cardinality(S)
        /\ Rank(t, S, i) + 1 <= Cardinality(S)
    BY <1>1, RankBound
  <2>3. QED BY <2>2
<1>5. \A i \in DOMAIN t : t[i] \in Issue /\ t[i].pos \in 1..n
  BY DEF Table
<1>6. Table(u, n)
  <2>1. \A i \in DOMAIN t : u[i] \in Issue /\ u[i].pos \in 1..n
    <3>1. TAKE i \in DOMAIN t
    <3>2. CASE i \in S
      <4>1. Rank(t, S, i) + 1 \in Nat /\ Rank(t, S, i) + 1 \in 1..n
        BY <1>4, <3>2
      <4>2. u[i] = [t[i] EXCEPT !.pos = Rank(t, S, i) + 1]
        BY <1>3, <3>2
      <4>3. QED BY <1>5, <4>1, <4>2, RowRenumbered
    <3>3. CASE i \notin S
      BY <1>3, <1>5, <3>3
    <3>4. QED BY <3>2, <3>3
  <2>2. u \in [DOMAIN u -> Issue]
    BY <1>2, <2>1 DEF NormalizeBand
  <2>3. QED BY <1>2, <2>1, <2>2 DEF Table
<1>7. Renumbers(t, u)
  BY <1>2, <1>3, <1>4, <1>5 DEF Renumbers, Issue
<1>8. KeepsOrder(t, u, x)
  <2>1. SUFFICES ASSUME NEW i \in Live(t) \ {x}, NEW j \in Live(t) \ {x},
                        Band(t, i) = Band(t, j), Precedes(t, i, j)
                 PROVE  Precedes(u, i, j)
    BY DEF KeepsOrder
  <2>2. i \in S <=> j \in S
    BY <2>1 DEF InBand
  <2>3. i \in DOMAIN t /\ j \in DOMAIN t
    BY DEF Live
  <2>4. CASE i \in S
    <3>1. Rank(t, S, i) < Rank(t, S, j)
      BY <1>1, <2>1, <2>2, <2>4, RankMonotone
    <3>2. u[i].pos = Rank(t, S, i) + 1 /\ u[j].pos = Rank(t, S, j) + 1
      BY <1>3, <1>4, <1>5, <2>2, <2>3, <2>4 DEF Issue
    <3>3. Rank(t, S, i) \in Int /\ Rank(t, S, j) \in Int
      BY <1>4, <2>2, <2>4, <1>1, <2>3, RankBound
    <3>4. QED BY <3>1, <3>2, <3>3 DEF Precedes
  <2>5. CASE i \notin S
    BY <1>3, <2>1, <2>2, <2>3, <2>5 DEF Precedes
  <2>6. QED BY <2>4, <2>5
<1>9. QED BY <1>6, <1>7, <1>8

\* _insert_into_band keeps the rows and every band's order, but for x.
LEMMA InsertFacts ==
  ASSUME NEW t, NEW n \in Nat, Table(t, n), NEW x \in Live(t), NEW index \in Nat
  PROVE  LET u == InsertIntoBand(t, x, index)
         IN  Table(u, n) /\ Renumbers(t, u) /\ KeepsOrder(t, u, x)
<1> DEFINE S == InBand(t, Band(t, x)) \ {x}
           k == IF index < Cardinality(S) THEN index ELSE Cardinality(S)
           Slot(i) == IF i = x THEN k + 1
                      ELSE IF Rank(t, S, i) < k THEN Rank(t, S, i) + 1 ELSE Rank(t, S, i) + 2
           u == InsertIntoBand(t, x, index)
<1>1. S \in SUBSET DOMAIN t /\ S \cup {x} \in SUBSET DOMAIN t /\ x \in DOMAIN t
  BY DEF InBand, Live
<1>2. DOMAIN u = DOMAIN t
  BY DEF InsertIntoBand
<1>3. \A i \in DOMAIN t : u[i] = IF i \in S \cup {x} THEN [t[i] EXCEPT !.pos = Slot(i)] ELSE t[i]
  BY DEF InsertIntoBand
<1>4. /\ IsFiniteSet(S) /\ Cardinality(S) \in Nat
      /\ Cardinality(S) + 1 <= n
  <2>1. IsFiniteSet(S) /\ Cardinality(S) \in 0..n /\ Cardinality(S \cup {x}) \in 0..n
    BY <1>1, RankBound
  <2>2. Cardinality(S \cup {x}) = Cardinality(S) + 1
    BY <2>1, FS_AddElement
  <2>3. QED BY <2>1, <2>2
<1>5. k \in 0..Cardinality(S)
  BY <1>4
<1>6. \A i \in S : Rank(t, S, i) \in Nat /\ Rank(t, S, i) + 1 <= Cardinality(S)
  BY <1>1, RankBound
<1>7. \A i \in S \cup {x} : Slot(i) \in 1..n
  BY <1>4, <1>5, <1>6
<1>8. \A i \in DOMAIN t : t[i] \in Issue /\ t[i].pos \in 1..n
  BY DEF Table
<1> HIDE DEF Slot, u, S, k
<1>9. Table(u, n)
  <2>1. \A i \in DOMAIN t : u[i] \in Issue /\ u[i].pos \in 1..n
    <3>1. TAKE i \in DOMAIN t
    <3>2. CASE i \in S \cup {x}
      <4>1. Slot(i) \in Nat /\ Slot(i) \in 1..n
        BY <1>7, <3>2
      <4>2. u[i] = [t[i] EXCEPT !.pos = Slot(i)]
        BY <1>3, <3>2
      <4>3. QED BY <1>8, <4>1, <4>2, RowRenumbered
    <3>3. CASE i \notin S \cup {x}
      BY <1>3, <1>8, <3>3
    <3>4. QED BY <3>2, <3>3
  <2>2. u \in [DOMAIN u -> Issue]
    BY <1>2, <2>1 DEF u, InsertIntoBand
  <2>3. QED BY <1>2, <2>1, <2>2 DEF Table
<1>10. Renumbers(t, u)
  BY <1>2, <1>3, <1>7, <1>8 DEF Renumbers, Issue
<1>11. KeepsOrder(t, u, x)
  <2>1. SUFFICES ASSUME NEW i \in Live(t) \ {x}, NEW j \in Live(t) \ {x},
                        Band(t, i) = Band(t, j), Precedes(t, i, j)
                 PROVE  Precedes(u, i, j)
    BY DEF KeepsOrder
  <2>2. i \in S <=> j \in S
    BY <2>1 DEF S, InBand
  <2>3. i \in DOMAIN t /\ j \in DOMAIN t
    BY DEF Live
  <2>4. CASE i \in S
    <3>1. Rank(t, S, i) < Rank(t, S, j)
      BY <1>1, <2>1, <2>2, <2>4, RankMonotone
    <3>2. u[i].pos = Slot(i) /\ u[j].pos = Slot(j)
      BY <1>3, <1>7, <1>8, <2>2, <2>3, <2>4 DEF Issue
    <3>3. Slot(i) < Slot(j)
      BY <1>4, <1>5, <1>6, <2>1, <2>2, <2>4, <3>1 DEF Slot
    <3>4. Slot(i) \in Int /\ Slot(j) \in Int
      BY <1>7, <2>2, <2>4
    <3>5. QED BY <3>2, <3>3, <3>4 DEF Precedes
  <2>5. CASE i \notin S
    BY <1>3, <2>1, <2>2, <2>3, <2>5 DEF Precedes
  <2>6. QED BY <2>4, <2>5
<1>12. QED BY <1>9, <1>10, <1>11 DEF u

-----------------------------------------------------------------------------
(* Tables that differ in the row of one issue and in positions.            *)

\* Table u differs from t in row x and in renumbering the other rows in order.
Rewrites(t, u, x) ==
  /\ DOMAIN u = DOMAIN t
  /\ \A j \in DOMAIN t \ {x} : u[j] = [t[j] EXCEPT !.pos = u[j].pos]
  /\ KeepsOrder(t, u, x)

\* A handler's steps on the table compose: what each spares, all spare.
LEMMA RewritesCompose ==
  ASSUME NEW n \in Nat, NEW x, NEW t, NEW v, NEW u, Table(t, n), Table(v, n), Table(u, n),
         Rewrites(t, v, x), Rewrites(v, u, x)
  PROVE  Rewrites(t, u, x)
<1>1. \A j \in DOMAIN t : t[j] \in Issue /\ v[j] \in Issue /\ u[j] \in Issue
  BY DEF Table, Rewrites
<1>2. \A j \in DOMAIN t \ {x} :
        /\ v[j].state = t[j].state /\ v[j].priority = t[j].priority /\ v[j].archived = t[j].archived
        /\ u[j] = [t[j] EXCEPT !.pos = u[j].pos]
  BY <1>1 DEF Rewrites, Issue
<1>3. Live(t) \ {x} = Live(v) \ {x}
  BY <1>2 DEF Live, Rewrites
<1>4. \A j \in Live(t) \ {x} : Band(v, j) = Band(t, j)
  BY <1>2 DEF Live, Band
<1>5. KeepsOrder(t, u, x)
  BY <1>3, <1>4 DEF KeepsOrder, Rewrites
<1>6. QED BY <1>2, <1>5 DEF Rewrites

\* A handler's edit of one row that leaves its position alone.
LEMMA EditFacts ==
  ASSUME NEW n \in Nat, NEW t, NEW u, Table(t, n), NEW x \in DOMAIN t,
         u \in [DOMAIN t -> Issue], u[x].pos = t[x].pos,
         \A j \in DOMAIN t \ {x} : u[j] = t[j]
  PROVE  Table(u, n) /\ Rewrites(t, u, x)
<1>1. \A j \in DOMAIN t : t[j] \in Issue /\ t[j].pos \in 1..n
  BY DEF Table
<1>2. \A j \in DOMAIN t \ {x} : u[j] = [t[j] EXCEPT !.pos = u[j].pos]
  BY <1>1 DEF Issue
<1>3. KeepsOrder(t, u, x)
  BY DEF KeepsOrder, Live, Precedes
<1>4. QED BY <1>1, <1>2, <1>3 DEF Table, Rewrites

\* Renumbering that spares x is a special case of rewriting x.
LEMMA RenumbersRewrites ==
  ASSUME NEW t, NEW u, NEW x, Renumbers(t, u), KeepsOrder(t, u, x)
  PROVE  Rewrites(t, u, x)
BY DEF Renumbers, Rewrites

\* update_workflow_state writes one row and not its position.
LEMMA EnterFacts ==
  ASSUME NEW n \in Nat, NEW t, Table(t, n), NEW x \in DOMAIN t, NEW s \in States,
         rules \in [States -> Rule \cup {None}]
  PROVE  LET u == EnterState(t, x, s)
         IN  /\ Table(u, n) /\ Rewrites(t, u, x)
             /\ u[x].archived = t[x].archived
<1> DEFINE u == EnterState(t, x, s)
<1>1. t \in [DOMAIN t -> Issue] /\ t[x] \in Issue
  BY DEF Table
<1>2. \/ u = t
      \/ u = [t EXCEPT ![x].state = s]
      \/ /\ rules[s] \in Rule
         /\ u = [t EXCEPT ![x].state = s, ![x].group = rules[s].group, ![x].user = rules[s].user]
  BY DEF EnterState
<1>3. /\ u \in [DOMAIN t -> Issue]
      /\ u[x].pos = t[x].pos /\ u[x].archived = t[x].archived
      /\ \A j \in DOMAIN t \ {x} : u[j] = t[j]
  <2>1. CASE u = t
    BY <1>1, <2>1
  <2>2. CASE u = [t EXCEPT ![x].state = s]
    BY <1>1, <2>2 DEF Issue
  <2>3. CASE /\ rules[s] \in Rule
             /\ u = [t EXCEPT ![x].state = s, ![x].group = rules[s].group, ![x].user = rules[s].user]
    BY <1>1, <2>3 DEF Issue, Rule
  <2>4. QED BY <1>2, <2>1, <2>2, <2>3
<1> HIDE DEF u
<1>4. QED BY <1>3, EditFacts DEF u

\* Leaving one band and numbering another moves nobody else.
LEMMA RehomeFacts ==
  ASSUME NEW n \in Nat, NEW t, Table(t, n), NEW x \in Live(t), NEW old, NEW index \in Nat
  PROVE  LET u == Rehome(t, x, old, index)
         IN  Table(u, n) /\ Rewrites(t, u, x)
<1> DEFINE v == IF Band(t, x) = old THEN t ELSE NormalizeBand(t, old, x)
           u == InsertIntoBand(v, x, index)
<1>1. Table(v, n) /\ Renumbers(t, v) /\ KeepsOrder(t, v, x)
  <2>1. Renumbers(t, t)
    BY DEF Renumbers, Table, Issue
  <2>2. KeepsOrder(t, t, x)
    BY DEF KeepsOrder
  <2>3. QED BY <2>1, <2>2, NormalizeFacts
<1> HIDE DEF v
<1>2. x \in Live(v)
  BY <1>1 DEF Renumbers, Live, Table, Issue
<1>3. Table(u, n) /\ Renumbers(v, u) /\ KeepsOrder(v, u, x)
  BY <1>1, <1>2, InsertFacts
<1> HIDE DEF u
<1>4. Rewrites(t, u, x)
  BY <1>1, <1>3, RenumbersRewrites, RewritesCompose
<1>5. QED BY <1>3, <1>4 DEF u, v, Rehome

-----------------------------------------------------------------------------
(* The handlers.                                                           *)

IInv == TypeOK /\ PositionsBounded

Answers == [op : Operations, issue : 0..MaxIssues, ok : BOOLEAN, events : SUBSET EventTypes]

\* The step formula of BystandersKeepOrder.
Bystanders ==
  \A i, j \in Live(issues) \cap Live(issues') :
    /\ last'.issue \notin {i, j}
    /\ Band(issues, i) = Band(issues, j)
    /\ Precedes(issues, i, j)
    => Band(issues', i) = Band(issues', j) /\ Precedes(issues', i, j)

\* What a request does to the table: it rewrites it around its own issue, which
\* it does not take back from the archive; deletes that issue; or adds it, after
\* those of its band.
OneMoves ==
  LET x == last'.issue
  IN \/ Rewrites(issues, issues', x) /\ (x \in Live(issues') => x \in Live(issues))
     \/ x \in DOMAIN issues /\ issues' = [j \in DOMAIN issues \ {x} |-> issues[j]]
     \/ /\ x \notin DOMAIN issues /\ DOMAIN issues' = DOMAIN issues \cup {x}
        /\ \A j \in DOMAIN issues : /\ issues'[j] = issues[j]
                                    /\ Band(issues, j) = Band(issues', x) => issues[j].pos < issues'[x].pos
        /\ ~issues'[x].archived

\* The invariant in terms of the table.
LEMMA InvIsTable == IInv => Table(issues, nextPk - 1) /\ nextPk - 1 \in Nat
  BY ConstantsAssumption DEF IInv, TypeOK, PositionsBounded, Table

\* A request answers with one of the listed operations and event types.
LEMMA Answered ==
  ASSUME NEW op \in Operations, NEW x \in 0..MaxIssues, NEW ok \in BOOLEAN,
         NEW events \in SUBSET EventTypes, Respond(op, x, ok, events)
  PROVE  last' \in Answers /\ last'.issue = x
BY DEF Respond, Answers

\* The events of a request are of the known types.
LEMMA EventsTyped ==
  ASSUME NEW t, NEW i
  PROVE  /\ ClosedEvent(t, i) \in SUBSET EventTypes
         /\ UpdatedEvent(t, i) \in SUBSET EventTypes
         /\ QueueEvent(t, i) \in SUBSET EventTypes
BY DEF ClosedEvent, UpdatedEvent, QueueEvent, EventTypes

\* Validation gives a Boolean.
LEMMA OutcomesTyped ==
  ASSUME NEW t, NEW u, NEW i
  PROVE  Saveable(t, i) \in BOOLEAN /\ Renumberable(t, u) \in BOOLEAN
BY DEF Saveable, Assignable, Renumberable

\* A request that rewrites the table around its own issue.
LEMMA RewriteStep ==
  ASSUME IInv, NEW x \in 0..MaxIssues, Table(issues', nextPk - 1), Rewrites(issues, issues', x),
         nextPk' = nextPk, members' \in SUBSET (Users \X Groups),
         rules' \in [States -> Rule \cup {None}], last' \in Answers, last'.issue = x,
         x \in Live(issues') => x \in Live(issues)
  PROVE  IInv' /\ Bystanders /\ OneMoves
<1>1. TypeOK /\ Table(issues, nextPk - 1)
  BY InvIsTable DEF IInv
<1>2. TypeOK' /\ PositionsBounded'
  BY <1>1 DEF TypeOK, PositionsBounded, Table, Answers
<1>3. \A j \in DOMAIN issues \ {x} :
        issues'[j].state = issues[j].state /\ issues'[j].priority = issues[j].priority
  BY <1>1 DEF Table, Rewrites, Issue
<1>4. Bystanders
  BY <1>3 DEF Bystanders, Rewrites, KeepsOrder, Live, Band
<1>5. OneMoves
  BY DEF OneMoves
<1>6. QED BY <1>2, <1>4, <1>5 DEF IInv

\* A request that changes nothing rewrites nothing.
LEMMA Untouched ==
  ASSUME IInv, NEW x
  PROVE  Rewrites(issues, issues, x)
<1>1. Table(issues, nextPk - 1)
  BY InvIsTable
<1>2. QED BY <1>1 DEF Rewrites, KeepsOrder, Table, Issue

\* Creating an issue takes a position at most one above those in use (_get_next_board_position).
LEMMA CreateStep ==
  ASSUME IInv, NEW s \in States, NEW p \in Priorities, NEW g \in Groups \cup {None},
         NEW u \in Users \cup {None}, CreateIssue(s, p, g, u)
  PROVE  IInv' /\ Bystanders /\ OneMoves
<1> DEFINE n == nextPk - 1
           P == {0} \cup {issues[i].pos : i \in {j \in DOMAIN issues : Band(issues, j) = <<s, p>>}}
           row == [state |-> s, priority |-> p, pos |-> NextPosition(issues, <<s, p>>),
                   archived |-> FALSE, group |-> g, user |-> u]
<1>1. TypeOK /\ Table(issues, n) /\ n \in Nat /\ nextPk \in 1..MaxIssues
  BY InvIsTable, ConstantsAssumption DEF IInv, TypeOK, CreateIssue
<1>2. /\ NextPosition(issues, <<s, p>>) \in 1..n + 1
      /\ \A j \in DOMAIN issues : Band(issues, j) = <<s, p>> => issues[j].pos < NextPosition(issues, <<s, p>>)
  <2>1. P \in SUBSET (0..n) /\ P # {}
    BY <1>1 DEF Table
  <2>2. Max(P) \in 0..n /\ \A y \in P : y <= Max(P)
    BY <1>1, <2>1, MaxExists
  <2>3. NextPosition(issues, <<s, p>>) = Max(P) + 1
    BY DEF NextPosition
  <2>4. ASSUME NEW j \in DOMAIN issues, Band(issues, j) = <<s, p>>
        PROVE  issues[j].pos < Max(P) + 1
    <3>1. issues[j].pos \in P /\ issues[j].pos \in 0..n
      BY <1>1, <2>1, <2>4
    <3>2. PICK m : m = Max(P)
      OBVIOUS
    <3>3. m \in 0..n /\ issues[j].pos <= m
      BY <2>2, <3>1, <3>2
    <3> HIDE DEF P
    <3>4. issues[j].pos < m + 1
      BY <1>1, <3>1, <3>3
    <3> QED BY <3>2, <3>4
  <2>5. QED BY <1>1, <2>2, <2>3, <2>4
<1>3. row \in Issue /\ row.pos \in 1..n + 1
  BY <1>2 DEF Issue
<1>row. /\ row.state = s /\ row.priority = p /\ row.pos = NextPosition(issues, <<s, p>>)
       /\ ~row.archived
  OBVIOUS
<1> HIDE DEF row, n
<1>4. /\ issues' = [i \in DOMAIN issues \cup {nextPk} |-> IF i = nextPk THEN row ELSE issues[i]]
      /\ nextPk' = nextPk + 1 /\ members' = members /\ rules' = rules
      /\ Respond("create", nextPk, TRUE, {"created"})
  BY DEF CreateIssue, row
<1>5. last' \in Answers /\ last'.issue = nextPk
  <2>1. "create" \in Operations /\ {"created"} \in SUBSET EventTypes /\ nextPk \in 0..MaxIssues
    BY <1>1, ConstantsAssumption DEF Operations, EventTypes
  <2>2. QED BY <1>4, <2>1, Answered
<1>6. nextPk \notin DOMAIN issues /\ n + 1 = nextPk
  BY <1>1 DEF Table, n
<1>7. \A i \in DOMAIN issues : issues[i] \in Issue /\ issues[i].pos \in 1..n /\ i \in 1..n
  BY <1>1 DEF Table
<1>8. TypeOK' /\ PositionsBounded'
  <2>1. DOMAIN issues' \subseteq 1..nextPk' - 1 /\ nextPk' \in 1..MaxIssues + 1
    <3>1. DOMAIN issues' = DOMAIN issues \cup {nextPk} /\ nextPk' - 1 = nextPk
      BY <1>1, <1>4, ConstantsAssumption
    <3>2. \A i \in DOMAIN issues : i \in 1..nextPk
      BY <1>1, <1>6, <1>7, ConstantsAssumption
    <3>3. QED BY <1>1, <1>4, <3>1, <3>2, ConstantsAssumption
  <2>2. \A i \in DOMAIN issues' : issues'[i] \in Issue /\ issues'[i].pos \in 1..nextPk' - 1
    BY <1>1, <1>3, <1>4, <1>6, <1>7
  <2>3. issues' \in [DOMAIN issues' -> Issue]
    BY <1>4, <2>2
  <2>4. QED BY <1>1, <1>4, <1>5, <2>1, <2>2, <2>3 DEF TypeOK, PositionsBounded, Answers
<1>9. Bystanders
  BY <1>4, <1>6 DEF Bystanders, Live, Band, Precedes
<1>10. OneMoves
  <2>1. issues'[nextPk] = row /\ Band(issues', nextPk) = <<s, p>>
    BY <1>4, <1>row DEF Band
  <2>2. \A j \in DOMAIN issues : issues'[j] = issues[j]
    BY <1>4, <1>6
  <2>3. QED BY <1>2, <1>4, <1>5, <1>6, <1>row, <2>1, <2>2 DEF OneMoves
<1>11. QED BY <1>8, <1>9, <1>10 DEF IInv

\* What every handler of an existing issue finds.
LEMMA Existing ==
  ASSUME IInv, NEW i \in DOMAIN issues
  PROVE  /\ Table(issues, nextPk - 1) /\ nextPk - 1 \in Nat
         /\ i \in 0..MaxIssues /\ i # nextPk
         /\ rules \in [States -> Rule \cup {None}] /\ members \in SUBSET (Users \X Groups)
BY InvIsTable, ConstantsAssumption DEF IInv, TypeOK, Table

\* The fields an update or an admin edit may set.
LEMMA FieldsEdited ==
  ASSUME IInv, NEW i \in DOMAIN issues, NEW p \in Priorities, NEW g \in Groups \cup {None},
         NEW u \in Users \cup {None}
  PROVE  LET edited == EditFields(i, p, g, u)
         IN  /\ Table(edited, nextPk - 1) /\ Rewrites(issues, edited, i)
             /\ edited[i].archived = issues[i].archived
<1> DEFINE edited == EditFields(i, p, g, u)
<1>1. Table(issues, nextPk - 1) /\ nextPk - 1 \in Nat
  BY Existing
<1>2. issues \in [DOMAIN issues -> Issue] /\ issues[i] \in Issue
  BY <1>1 DEF Table
<1>3. /\ edited \in [DOMAIN issues -> Issue]
      /\ edited[i].pos = issues[i].pos /\ edited[i].archived = issues[i].archived
      /\ \A j \in DOMAIN issues \ {i} : edited[j] = issues[j]
  BY <1>2 DEF Issue, EditFields
<1> HIDE DEF edited
<1>4. QED BY <1>1, <1>3, EditFacts DEF edited

\* update_issue, wherever it stops, rewrites the table around its issue.
LEMMA UpdateStep ==
  ASSUME IInv, NEW i \in DOMAIN issues, NEW s \in States, NEW p \in Priorities,
         NEW g \in Groups \cup {None}, NEW u \in Users \cup {None}, UpdateIssue(i, s, p, g, u)
  PROVE  IInv' /\ Bystanders /\ OneMoves
<1> DEFINE n == nextPk - 1
           edited == EditFields(i, p, g, u)
           entered == EnterState(edited, i, s)
           placed == Rehome(entered, i, Band(issues, i), AtEnd)
<1>1. Table(issues, n) /\ n \in Nat /\ i \in 0..MaxIssues /\ i \in Live(issues)
  BY Existing DEF UpdateIssue
<1>2. /\ Table(edited, n) /\ Rewrites(issues, edited, i)
      /\ edited[i].archived = issues[i].archived
  BY FieldsEdited
<1> HIDE DEF edited
<1>3. Table(entered, n) /\ Rewrites(edited, entered, i) /\ entered[i].archived = edited[i].archived
  BY <1>1, <1>2, Existing, EnterFacts DEF Rewrites
<1> HIDE DEF entered
<1>4. Rewrites(issues, entered, i) /\ i \in Live(entered)
  BY <1>1, <1>2, <1>3, RewritesCompose, ZenonT(60) DEF Rewrites, Live
<1>5. Table(placed, n) /\ Rewrites(entered, placed, i)
  BY <1>1, <1>3, <1>4, RehomeFacts, ConstantsAssumption DEF AtEnd
<1> HIDE DEF placed
<1>6. Rewrites(issues, placed, i)
  BY <1>1, <1>3, <1>4, <1>5, RewritesCompose
<1>7. issues' \in {edited, entered, placed}
  BY DEF UpdateIssue, edited, entered, placed
<1>8. last' \in Answers /\ last'.issue = i
  <2>1. PICK ok \in BOOLEAN, events \in SUBSET EventTypes : Respond("update", i, ok, events)
    BY EventsTyped DEF UpdateIssue
  <2>2. QED BY <1>1, <2>1, Answered DEF Operations
<1>9. nextPk' = nextPk /\ members' = members /\ rules' = rules
  BY DEF UpdateIssue
<1>10. QED BY <1>1, <1>2, <1>3, <1>4, <1>5, <1>6, <1>7, <1>8, <1>9, Existing, RewriteStep

\* A comment leaves the table alone.
LEMMA CommentStep ==
  ASSUME IInv, NEW i \in DOMAIN issues, AddIssueComment(i)
  PROVE  IInv' /\ Bystanders /\ OneMoves
<1>1. last' \in Answers /\ last'.issue = i
  <2>1. "comment" \in Operations /\ {"commented"} \in SUBSET EventTypes
    BY DEF Operations, EventTypes
  <2>2. Respond("comment", i, Saveable(issues, i), {"commented"})
    BY DEF AddIssueComment
  <2>3. QED BY <2>1, <2>2, Existing, OutcomesTyped, Answered
<1>2. issues' = issues /\ nextPk' = nextPk /\ members' = members /\ rules' = rules
  BY DEF AddIssueComment
<1>3. QED BY <1>1, <1>2, Existing, Untouched, RewriteStep

\* archive closes up the band, or is rolled back.
LEMMA ArchiveStep ==
  ASSUME IInv, NEW i \in DOMAIN issues, ArchiveIssue(i)
  PROVE  IInv' /\ Bystanders /\ OneMoves
<1> DEFINE n == nextPk - 1
           archived == [issues EXCEPT ![i].archived = TRUE]
           normal == NormalizeBand(archived, Band(issues, i), i)
<1>1. Table(issues, n) /\ n \in Nat /\ i \in 0..MaxIssues /\ i \in Live(issues)
  BY Existing DEF ArchiveIssue
<1>2. issues \in [DOMAIN issues -> Issue] /\ issues[i] \in Issue
  BY <1>1 DEF Table
<1>3. /\ archived \in [DOMAIN issues -> Issue] /\ archived[i].pos = issues[i].pos
      /\ \A j \in DOMAIN issues \ {i} : archived[j] = issues[j]
  BY <1>2 DEF Issue
<1> HIDE DEF archived
<1>4. Table(archived, n) /\ Rewrites(issues, archived, i)
  BY <1>1, <1>3, EditFacts
<1>5. Table(normal, n) /\ Rewrites(archived, normal, i)
  BY <1>1, <1>4, NormalizeFacts, RenumbersRewrites
<1> HIDE DEF normal
<1>6. Rewrites(issues, normal, i)
  BY <1>1, <1>4, <1>5, RewritesCompose
<1>7. issues' \in {normal, issues}
  BY DEF ArchiveIssue, archived, normal
<1>8. last' \in Answers /\ last'.issue = i
  <2>1. PICK ok \in BOOLEAN : Respond("archive", i, ok, {})
    BY OutcomesTyped DEF ArchiveIssue
  <2>2. QED BY <1>1, <2>1, Answered DEF Operations
<1>9. nextPk' = nextPk /\ members' = members /\ rules' = rules
  BY DEF ArchiveIssue
<1>10. QED BY <1>1, <1>5, <1>6, <1>7, <1>8, <1>9, Existing, Untouched, RewriteStep

\* move_on_board renumbers the bands it leaves and enters, or is rolled back.
LEMMA MoveStep ==
  ASSUME IInv, NEW i \in DOMAIN issues, NEW s \in BoardStates, NEW index \in 0..MaxIssues,
         MoveIssue(i, s, index)
  PROVE  IInv' /\ Bystanders /\ OneMoves
<1> DEFINE n == nextPk - 1
           entered == EnterState(issues, i, s)
           placed == Rehome(entered, i, Band(issues, i), index)
<1>1. Table(issues, n) /\ n \in Nat /\ i \in 0..MaxIssues /\ i \in Live(issues)
  BY Existing DEF MoveIssue
<1>2. Table(entered, n) /\ Rewrites(issues, entered, i) /\ entered[i].archived = issues[i].archived
  BY <1>1, Existing, EnterFacts, ConstantsAssumption
<1> HIDE DEF entered
<1>3. i \in Live(entered)
  BY <1>1, <1>2 DEF Rewrites, Live
<1>4. Table(placed, n) /\ Rewrites(entered, placed, i)
  BY <1>1, <1>2, <1>3, RehomeFacts, ConstantsAssumption
<1> HIDE DEF placed
<1>5. Rewrites(issues, placed, i)
  BY <1>1, <1>2, <1>4, RewritesCompose
<1>6. issues' \in {placed, issues}
  BY DEF MoveIssue, entered, placed
<1>7. last' \in Answers /\ last'.issue = i
  <2>1. PICK ok \in BOOLEAN, events \in SUBSET EventTypes : Respond("move", i, ok, events)
    BY EventsTyped, OutcomesTyped DEF MoveIssue
  <2>2. QED BY <1>1, <2>1, Answered DEF Operations
<1>8. nextPk' = nextPk /\ members' = members /\ rules' = rules
  BY DEF MoveIssue
<1>9. QED BY <1>1, <1>4, <1>5, <1>6, <1>7, <1>8, Existing, Untouched, RewriteStep

\* An admin edit writes one row.
LEMMA AdminEditStep ==
  ASSUME IInv, NEW i \in DOMAIN issues, NEW s \in States, NEW p \in Priorities,
         NEW g \in Groups \cup {None}, NEW u \in Users \cup {None}, AdminEditIssue(i, s, p, g, u)
  PROVE  IInv' /\ Bystanders /\ OneMoves
<1> DEFINE n == nextPk - 1
           edited == EditFields(i, p, g, u)
           entered == EnterState(edited, i, s)
<1>1. Table(issues, n) /\ n \in Nat /\ i \in 0..MaxIssues
  BY Existing
<1>2. Table(edited, n) /\ Rewrites(issues, edited, i) /\ edited[i].archived = issues[i].archived
  BY FieldsEdited
<1> HIDE DEF edited
<1>3. Table(entered, n) /\ Rewrites(edited, entered, i) /\ entered[i].archived = edited[i].archived
  BY <1>1, <1>2, Existing, EnterFacts DEF Rewrites
<1> HIDE DEF entered
<1>4. Rewrites(issues, entered, i)
  BY <1>1, <1>2, <1>3, RewritesCompose
<1>5. issues' \in {entered, issues}
  BY DEF AdminEditIssue, edited, entered
<1>6. last' \in Answers /\ last'.issue = i
  <2>1. PICK ok \in BOOLEAN, events \in SUBSET EventTypes : Respond("admin", i, ok, events)
    BY EventsTyped, OutcomesTyped DEF AdminEditIssue
  <2>2. QED BY <1>1, <2>1, Answered DEF Operations
<1>7. nextPk' = nextPk /\ members' = members /\ rules' = rules
  BY DEF AdminEditIssue
<1>8. i \in Live(issues') => i \in Live(issues)
  BY <1>2, <1>3, <1>5 DEF Live
<1>9. QED BY <1>1, <1>3, <1>4, <1>5, <1>6, <1>7, <1>8, Existing, Untouched, RewriteStep

\* Deleting an issue leaves all other rows as they are.
LEMMA AdminDeleteStep ==
  ASSUME IInv, NEW i \in DOMAIN issues, AdminDeleteIssue(i)
  PROVE  IInv' /\ Bystanders /\ OneMoves
<1>1. TypeOK /\ Table(issues, nextPk - 1) /\ i \in 0..MaxIssues
  BY Existing DEF IInv
<1>2. /\ issues' = [j \in DOMAIN issues \ {i} |-> issues[j]]
      /\ nextPk' = nextPk /\ members' = members /\ rules' = rules
      /\ Respond("delete", i, TRUE, {})
  BY DEF AdminDeleteIssue
<1>3. last' \in Answers /\ last'.issue = i
  <2>1. "delete" \in Operations /\ {} \in SUBSET EventTypes
    BY DEF Operations
  <2>2. QED BY <1>1, <1>2, <2>1, Answered
<1>4. \A j \in DOMAIN issues : issues[j] \in Issue /\ issues[j].pos \in 1..nextPk - 1
  BY <1>1 DEF Table
<1>5. TypeOK' /\ PositionsBounded'
  BY <1>1, <1>2, <1>3, <1>4 DEF TypeOK, PositionsBounded, Answers
<1>6. Bystanders
  BY <1>2 DEF Bystanders, Live, Band, Precedes
<1>7. OneMoves
  BY <1>2, <1>3 DEF OneMoves
<1>8. QED BY <1>5, <1>6, <1>7 DEF IInv

\* Configuration leaves every issue alone.
LEMMA ConfigureStep ==
  ASSUME IInv, issues' = issues, nextPk' = nextPk, members' \in SUBSET (Users \X Groups),
         rules' \in [States -> Rule \cup {None}], Respond("configure", 0, TRUE, {})
  PROVE  IInv' /\ Bystanders /\ OneMoves
<1>1. Table(issues, nextPk - 1) /\ Rewrites(issues, issues, 0)
  BY InvIsTable, Untouched
<1>2. 0 \in 0..MaxIssues
  BY ConstantsAssumption
<1>3. last' \in Answers /\ last'.issue = 0
  <2>1. "configure" \in Operations /\ {} \in SUBSET EventTypes
    BY DEF Operations
  <2>2. QED BY <1>2, <2>1, Answered
<1>4. QED BY <1>1, <1>2, <1>3, RewriteStep

\* Memberships are not part of the table.
LEMMA SetMembershipStep ==
  ASSUME IInv, NEW u \in Users, NEW g \in Groups, SetMembership(u, g)
  PROVE  IInv' /\ Bystanders /\ OneMoves
<1>1. members \in SUBSET (Users \X Groups) /\ rules \in [States -> Rule \cup {None}]
  BY DEF IInv, TypeOK
<1>2. /\ members' \in {members \cup {<<u, g>>}, members \ {<<u, g>>}}
      /\ issues' = issues /\ nextPk' = nextPk /\ rules' = rules
      /\ Respond("configure", 0, TRUE, {})
  BY DEF SetMembership
<1>3. <<u, g>> \in Users \X Groups
  OBVIOUS
<1>4. members' \in SUBSET (Users \X Groups)
  BY <1>1, <1>2, <1>3
<1>5. QED BY <1>1, <1>2, <1>4, ConfigureStep

\* Rules are not part of the table.
LEMMA SetRuleStep ==
  ASSUME IInv, NEW s \in States, NEW r \in Rule \cup {None}, SetRule(s, r)
  PROVE  IInv' /\ Bystanders /\ OneMoves
<1>1. members \in SUBSET (Users \X Groups) /\ rules \in [States -> Rule \cup {None}]
  BY DEF IInv, TypeOK
<1>2. /\ rules' \in [States -> Rule \cup {None}]
      /\ issues' = issues /\ nextPk' = nextPk /\ members' = members
      /\ Respond("configure", 0, TRUE, {})
  BY <1>1 DEF SetRule
<1>3. QED BY <1>1, <1>2, ConfigureStep

-----------------------------------------------------------------------------
(* The specification.                                                      *)

\* The empty table is well formed.
LEMMA InitInv == Init => IInv
<1> SUFFICES ASSUME Init PROVE IInv
  OBVIOUS
<1>1. DOMAIN issues = {} /\ issues \in [DOMAIN issues -> Issue]
  BY DEF Init
<1>2. nextPk \in 1..MaxIssues + 1
  BY ConstantsAssumption DEF Init
<1>3. members \in SUBSET (Users \X Groups) /\ rules \in [States -> Rule \cup {None}]
  BY DEF Init
<1>4. last \in Answers
  <2>1. "none" \in Operations /\ 0 \in 0..MaxIssues /\ {} \in SUBSET EventTypes
    BY ConstantsAssumption DEF Operations
  <2>2. QED BY <2>1 DEF Init, Answers
<1>5. QED BY <1>1, <1>2, <1>3, <1>4 DEF IInv, TypeOK, PositionsBounded, Answers

\* Every request of every handler keeps the invariant and respects bystanders.
LEMMA NextStep ==
  ASSUME IInv, Next
  PROVE  IInv' /\ Bystanders /\ OneMoves
<1>1. CASE BoardRequest
  <2>1. CASE \E s \in States, p \in Priorities, g \in Groups \cup {None}, u \in Users \cup {None} :
               CreateIssue(s, p, g, u)
    BY <2>1, CreateStep
  <2>2. CASE \E s \in States, p \in Priorities, g \in Groups \cup {None}, u \in Users \cup {None},
                i \in DOMAIN issues : UpdateIssue(i, s, p, g, u)
    BY <2>2, UpdateStep
  <2>3. CASE \E i \in DOMAIN issues : AddIssueComment(i)
    BY <2>3, CommentStep
  <2>4. CASE \E i \in DOMAIN issues : ArchiveIssue(i)
    BY <2>4, ArchiveStep
  <2>5. CASE \E i \in DOMAIN issues, s \in BoardStates, index \in 0..MaxIssues :
               MoveIssue(i, s, index)
    BY <2>5, MoveStep
  <2>6. QED BY <1>1, <2>1, <2>2, <2>3, <2>4, <2>5 DEF BoardRequest
<1>2. CASE AdminRequest
  <2>1. CASE \E i \in DOMAIN issues, s \in States, p \in Priorities, g \in Groups \cup {None},
                u \in Users \cup {None} : AdminEditIssue(i, s, p, g, u)
    BY <2>1, AdminEditStep
  <2>2. CASE \E i \in DOMAIN issues : AdminDeleteIssue(i)
    BY <2>2, AdminDeleteStep
  <2>3. CASE \E u \in Users, g \in Groups : SetMembership(u, g)
    BY <2>3, SetMembershipStep
  <2>4. CASE \E s \in States, r \in Rule \cup {None} : SetRule(s, r)
    BY <2>4, SetRuleStep
  <2>5. QED BY <1>2, <2>1, <2>2, <2>3, <2>4 DEF AdminRequest
<1>3. QED BY <1>1, <1>2 DEF Next

\* So does a step without a request.
LEMMA StutterStep ==
  ASSUME IInv, UNCHANGED vars
  PROVE  IInv' /\ Bystanders
BY DEF IInv, TypeOK, PositionsBounded, Bystanders, Live, Band, Precedes, vars

\* The induction: the invariant holds throughout, ...
LEMMA Invariance == Spec => []IInv
<1>1. Init => IInv
  BY InitInv
<1>2. IInv /\ [Next]_vars => IInv'
  BY NextStep, StutterStep
<1>3. QED BY <1>1, <1>2, PTL DEF Spec

\* ... and from it every step respects bystanders.
LEMMA StepsRespectBystanders == Spec => [][Bystanders]_vars
<1>1. IInv /\ [Next]_vars => [Bystanders]_vars
  BY NextStep
<1>2. QED BY <1>1, Invariance, PTL DEF Spec

\* Every reachable table is well formed, whatever sequence of board and admin
\* requests, failing or not, led there.
THEOREM TypeCorrect == Spec => []TypeOK
  BY Invariance, PTL DEF IInv

\* No sequence of renumberings, carried-over positions and gaps takes a board
\* position above the number of issues ever created (_get_next_board_position).
THEOREM PositionsStayBounded == Spec => []PositionsBounded
  BY Invariance, PTL DEF IInv

\* _normalize_band and _insert_into_band, composed as the handlers compose
\* them, never swap two issues a request was not about.
THEOREM OrderPreserved == Spec => BystandersKeepOrder
  BY StepsRespectBystanders, PTL DEF Bystanders, BystandersKeepOrder

-----------------------------------------------------------------------------
(* The order on the board: the positions stand for the lists of BoardOrder. *)

\* What column and above of BoardOrder stand for in table t.
Column(t) == [i \in Live(t) |-> Band(t, i)]
Above(t) ==
  {p \in Live(t) \X Live(t) : p[1] # p[2] /\ Band(t, p[1]) = Band(t, p[2]) /\ Precedes(t, p[1], p[2])}

\* The others of band b, and those displayed above x.
Others(t, b, x) == {j \in Live(t) \ {x} : Band(t, j) = b}
AboveIt(t, b, x) == {j \in Others(t, b, x) : Precedes(t, j, x)}

\* Positions and keys order the issues strictly, ...
LEMMA OneFirst ==
  ASSUME NEW n \in Nat, NEW t, Table(t, n), NEW i \in DOMAIN t, NEW j \in DOMAIN t
  PROVE  ~(Precedes(t, i, j) /\ Precedes(t, j, i)) /\ (i # j => Precedes(t, i, j) \/ Precedes(t, j, i))
<1>1. t[i].pos \in 1..n /\ t[j].pos \in 1..n /\ i \in 1..n /\ j \in 1..n
  BY DEF Table
<1>2. QED BY <1>1 DEF Precedes

\* ... and in one line.
LEMMA InLine ==
  ASSUME NEW n \in Nat, NEW t, Table(t, n), NEW h \in DOMAIN t, NEW i \in DOMAIN t, NEW j \in DOMAIN t,
         Precedes(t, h, i), Precedes(t, i, j)
  PROVE  Precedes(t, h, j)
<1>1. /\ t[h].pos \in 1..n /\ t[i].pos \in 1..n /\ t[j].pos \in 1..n
      /\ h \in 1..n /\ i \in 1..n /\ j \in 1..n
  BY DEF Table
<1>2. QED BY <1>1 DEF Precedes

\* What rewriting leaves of the other issues.
LEMMA OthersAsBefore ==
  ASSUME NEW n \in Nat, NEW t, NEW u, NEW x, Table(t, n), Table(u, n), Rewrites(t, u, x)
  PROVE  /\ Live(u) \ {x} = Live(t) \ {x}
         /\ \A j \in DOMAIN t \ {x} : Band(u, j) = Band(t, j)
<1>1. DOMAIN u = DOMAIN t
  BY DEF Rewrites
<1>2. \A j \in DOMAIN t \ {x} : u[j].state = t[j].state /\ u[j].priority = t[j].priority
                               /\ u[j].archived = t[j].archived
  BY DEF Rewrites, Table, Issue
<1>3. QED BY <1>1, <1>2 DEF Live, Band

\* The order of two others is as before too.
LEMMA OrderAsBefore ==
  ASSUME NEW n \in Nat, NEW t, NEW u, NEW x, Table(t, n), Table(u, n), Rewrites(t, u, x),
         NEW i \in Live(t) \ {x}, NEW j \in Live(t) \ {x}, i # j, Band(t, i) = Band(t, j)
  PROVE  Precedes(u, i, j) <=> Precedes(t, i, j)
<1>1. i \in DOMAIN t /\ j \in DOMAIN t /\ i \in DOMAIN u /\ j \in DOMAIN u
  BY DEF Live, Rewrites
<1>2. /\ Precedes(t, i, j) => Precedes(u, i, j)
      /\ Precedes(t, j, i) => Precedes(u, j, i)
  BY DEF Rewrites, KeepsOrder
<1>3. Precedes(t, i, j) \/ Precedes(t, j, i)
  BY <1>1, OneFirst
<1>4. ~(Precedes(u, i, j) /\ Precedes(u, j, i))
  BY <1>1, OneFirst
<1>5. QED BY <1>2, <1>3, <1>4

\* Pairs of others are above each other as before.
LEMMA PairsAsBefore ==
  ASSUME NEW n \in Nat, NEW t, NEW u, NEW x, Table(t, n), Table(u, n), Rewrites(t, u, x)
  PROVE  {p \in Above(u) : p[1] # x /\ p[2] # x} = {p \in Above(t) : p[1] # x /\ p[2] # x}
<1>1. Live(u) \ {x} = Live(t) \ {x} /\ \A j \in DOMAIN t \ {x} : Band(u, j) = Band(t, j)
  BY OthersAsBefore
<1>2. \A i, j \in Live(t) \ {x} : i # j /\ Band(t, i) = Band(t, j) =>
        (Precedes(u, i, j) <=> Precedes(t, i, j))
  BY OrderAsBefore
<1>3. \A i, j : i # x /\ j # x => (<<i, j>> \in Above(u) <=> <<i, j>> \in Above(t))
  BY <1>1, <1>2 DEF Above, Live
<1>4. \A p \in Above(u) \cup Above(t) : p = <<p[1], p[2]>>
  BY DEF Above
<1>5. QED BY <1>3, <1>4

\* The issues above x are those with less than their number above them.
LEMMA HeadOfOthers ==
  ASSUME NEW n \in Nat, NEW u, Table(u, n), NEW x \in DOMAIN u, NEW b, NEW j \in Others(u, b, x)
  PROVE  /\ Cardinality(AboveIt(u, b, x)) \in 0..n
         /\ j \in AboveIt(u, b, x) <=>
              Cardinality({h \in Others(u, b, x) : Precedes(u, h, j)}) < Cardinality(AboveIt(u, b, x))
<1> DEFINE H == AboveIt(u, b, x)
           A == {h \in Others(u, b, x) : Precedes(u, h, j)}
<1>1. Others(u, b, x) \subseteq DOMAIN u /\ x \notin Others(u, b, x) /\ j \in DOMAIN u /\ j # x
  BY DEF Others, Live
<1>2. H \in SUBSET DOMAIN u /\ A \in SUBSET DOMAIN u
  BY <1>1 DEF AboveIt
<1>3. /\ IsFiniteSet(H) /\ Cardinality(H) \in 0..n
      /\ IsFiniteSet(A) /\ Cardinality(A) \in 0..n
  BY <1>1, <1>2, RankBound
<1>4. ASSUME j \in H PROVE Cardinality(A) < Cardinality(H)
  <2>1. \A h \in A : h \in H
    <3>1. TAKE h \in A
    <3>2. Precedes(u, h, j) /\ Precedes(u, j, x) /\ h \in DOMAIN u
      BY <1>1, <1>4 DEF AboveIt
    <3>3. QED BY <1>1, <3>2, InLine DEF AboveIt
  <2>2. j \notin A
    BY <1>1, OneFirst
  <2>3. IsFiniteSet(A \cup {j}) /\ Cardinality(A \cup {j}) = Cardinality(A) + 1
    BY <1>3, <2>2, FS_AddElement
  <2>4. A \cup {j} \in SUBSET H
    BY <1>4, <2>1
  <2>5. Cardinality(A \cup {j}) <= Cardinality(H)
    BY <1>3, <2>4, FS_Subset
  <2>6. QED BY <1>3, <2>3, <2>5
<1>5. ASSUME j \notin H PROVE ~(Cardinality(A) < Cardinality(H))
  <2>1. Precedes(u, x, j)
    BY <1>1, <1>5, OneFirst DEF AboveIt
  <2>2. \A h \in H : h \in A
    <3>1. TAKE h \in H
    <3>2. Precedes(u, h, x) /\ h \in DOMAIN u /\ h \in Others(u, b, x)
      BY <1>1 DEF AboveIt
    <3>3. QED BY <1>1, <2>1, <3>2, InLine
  <2>3. H \in SUBSET A
    BY <2>2
  <2>4. Cardinality(H) <= Cardinality(A)
    BY <1>3, <2>3, FS_Subset
  <2>5. QED BY <1>3, <2>4
<1> HIDE DEF H, A
<1>6. QED BY <1>3, <1>4, <1>5 DEF H, A

\* Every step of the board is one of the lists.
Follows == [Order!Next]_Order!vars

\* The abstract actions in terms of tables.
LEMMA AbstractActions ==
  /\ \A i, b : /\ i \notin Live(issues)
               /\ Column(issues') = [j \in Live(issues) \cup {i} |-> IF j = i THEN b ELSE Band(issues, j)]
               /\ Above(issues') = Above(issues) \cup (Others(issues, b, i) \X {i})
               => Order!Append(i, b)
  /\ \A i : /\ i \in Live(issues)
            /\ Column(issues') = [j \in Live(issues) \ {i} |-> Band(issues, j)]
            /\ Above(issues') = {p \in Above(issues) : p[1] # i /\ p[2] # i}
            => Order!Remove(i)
  /\ Column(issues') = Column(issues) /\ Above(issues') = Above(issues) => UNCHANGED Order!vars
<1>1. /\ \A b, i : Order!Peers(b, i) = Others(issues, b, i)
      /\ Order!Displayed = Live(issues)
  BY DEF Order!Peers, Order!Displayed, Others
<1>2. /\ \A i, b : /\ i \notin Live(issues)
               /\ Column(issues') = [j \in Live(issues) \cup {i} |-> IF j = i THEN b ELSE Band(issues, j)]
               /\ Above(issues') = Above(issues) \cup (Others(issues, b, i) \X {i})
               => Order!Append(i, b)
  BY <1>1 DEF Order!Append, Column, Above
<1>3. \A i : /\ i \in Live(issues)
            /\ Column(issues') = [j \in Live(issues) \ {i} |-> Band(issues, j)]
            /\ Above(issues') = {p \in Above(issues) : p[1] # i /\ p[2] # i}
            => Order!Remove(i)
  BY <1>1 DEF Order!Remove, Order!Without, Column, Above
<1>4. Column(issues') = Column(issues) /\ Above(issues') = Above(issues) => UNCHANGED Order!vars
  BY DEF Order!vars, Column, Above
<1>5. QED BY <1>2, <1>3, <1>4

\* The instance of BoardOrder counts as this module does.
LEMMA SameCardinality ==
  ASSUME NEW S
  PROVE  Order!Cardinality(S) = Cardinality(S)
  BY DEF Order!Cardinality, Cardinality

\* The same of Place, with k issues above.
LEMMA AbstractPlace ==
  ASSUME NEW i \in Live(issues), NEW b, NEW k, NEW H,
         \A j \in Others(issues, b, i) :
           j \in H <=> Cardinality({h \in Others(issues, b, i) : <<h, j>> \in Above(issues)}) < k,
         H \subseteq Others(issues, b, i),
         Column(issues') = [Column(issues) EXCEPT ![i] = b],
         Above(issues') = {p \in Above(issues) : p[1] # i /\ p[2] # i}
                            \cup (H \X {i}) \cup ({i} \X (Others(issues, b, i) \ H))
  PROVE  Order!Place(i, b, k)
<1>1. Order!Peers(b, i) = Others(issues, b, i) /\ i \in Order!Displayed
  BY DEF Order!Peers, Order!Displayed, Others
<1>2. \A j : Order!Index(j, Others(issues, b, i))
               = Cardinality({h \in Others(issues, b, i) : <<h, j>> \in Above(issues)})
  BY SameCardinality DEF Order!Index, Above
<1>3. H = {j \in Others(issues, b, i) : Order!Index(j, Others(issues, b, i)) < k}
  <2>1. ASSUME NEW j \in Others(issues, b, i)
        PROVE  j \in H <=> Order!Index(j, Others(issues, b, i)) < k
    <3>1. PICK c : c = Cardinality({h \in Others(issues, b, i) : <<h, j>> \in Above(issues)})
      OBVIOUS
    <3>2. j \in H <=> c < k
      BY <3>1
    <3>3. QED BY <1>2, <3>1, <3>2
  <2>2. QED BY <2>1
<1>4. Order!Without(i) = {p \in Above(issues) : p[1] # i /\ p[2] # i}
  BY DEF Order!Without, Above
<1>5. QED BY <1>1, <1>3, <1>4 DEF Order!Place, Column, Above

\* Rewriting the table around a displayed issue places it.
LEMMA RewritesPlace ==
  ASSUME IInv, NEW n \in Nat, NEW x, Table(issues, n), Table(issues', n),
         Rewrites(issues, issues', x), x \in Live(issues), x \in Live(issues')
  PROVE  \E k \in 0..Cardinality(Live(issues)) : Order!Place(x, Band(issues', x), k)
<1>1. PICK b : b = Band(issues', x)
  OBVIOUS
<1>2. PICK S : S = Others(issues, b, x)
  OBVIOUS
<1>3. PICK H : H = AboveIt(issues', b, x)
  OBVIOUS
<1>4. /\ Live(issues') \ {x} = Live(issues) \ {x} /\ DOMAIN issues' = DOMAIN issues
      /\ \A j \in DOMAIN issues \ {x} : Band(issues', j) = Band(issues, j)
  BY OthersAsBefore DEF Rewrites
<1>5. S \subseteq DOMAIN issues \ {x} /\ x \in DOMAIN issues'
  BY <1>2 DEF Others, Live
<1>6. Others(issues', b, x) = S
  BY <1>2, <1>4 DEF Others, Live
<1>7. H \subseteq S /\ H = {j \in S : Precedes(issues', j, x)}
  BY <1>3, <1>6 DEF AboveIt
<1>8. \A h, j \in S : <<h, j>> \in Above(issues) <=> Precedes(issues', h, j)
  <2>1. TAKE h, j \in S
  <2>2. h \in Live(issues) \ {x} /\ j \in Live(issues) \ {x} /\ Band(issues, h) = Band(issues, j)
    BY <1>2 DEF Others
  <2>3. CASE h = j
    BY <1>4, <1>5, <2>3, OneFirst DEF Above
  <2>4. CASE h # j
    BY <2>2, <2>4, OrderAsBefore DEF Above
  <2>5. QED BY <2>3, <2>4
<1>9. ASSUME NEW j \in S
      PROVE  j \in H <=> Cardinality({h \in S : <<h, j>> \in Above(issues)}) < Cardinality(H)
  <2>1. {h \in S : <<h, j>> \in Above(issues)} = {h \in S : Precedes(issues', h, j)}
    BY <1>8
  <2>2. j \in AboveIt(issues', b, x) <=>
          Cardinality({h \in Others(issues', b, x) : Precedes(issues', h, j)}) < Cardinality(AboveIt(issues', b, x))
    BY <1>5, <1>6, HeadOfOthers
  <2>3. QED BY <1>3, <1>6, <2>1, <2>2
<1>10. Column(issues') = [Column(issues) EXCEPT ![x] = b]
  <2>1. Live(issues') = Live(issues)
    BY <1>4
  <2>2. \A j \in Live(issues) : Column(issues')[j] = IF j = x THEN b ELSE Column(issues)[j]
    BY <1>1, <1>4, <2>1 DEF Column, Live
  <2>3. QED BY <2>1, <2>2 DEF Column
<1>11. Above(issues') = {p \in Above(issues) : p[1] # x /\ p[2] # x} \cup (H \X {x}) \cup ({x} \X (S \ H))
  <2>1. {p \in Above(issues') : p[1] # x /\ p[2] # x} = {p \in Above(issues) : p[1] # x /\ p[2] # x}
    BY PairsAsBefore
  <2>2. \A j : <<j, x>> \in Above(issues') <=> j \in H
    BY <1>1, <1>6, <1>7 DEF Above, Others
  <2>3. \A j : <<x, j>> \in Above(issues') <=> j \in S \ H
    <3>1. \A j \in S : Precedes(issues', x, j) <=> j \notin H
      BY <1>4, <1>5, <1>7, OneFirst
    <3>2. \A j : <<x, j>> \in Above(issues') <=> j \in S /\ Precedes(issues', x, j)
      BY <1>1, <1>6 DEF Above, Others
    <3>3. QED BY <3>1, <3>2
  <2>4. \A p \in Above(issues') \cup Above(issues) : p = <<p[1], p[2]>>
    BY DEF Above
  <2>5. \A p : p \in Above(issues') <=> \/ p \in {q \in Above(issues) : q[1] # x /\ q[2] # x}
                                        \/ p \in H \X {x}
                                        \/ p \in {x} \X (S \ H)
    <3>1. TAKE p
    <3>2. CASE p \in Above(issues')
      <4>1. p = <<p[1], p[2]>>
        BY <2>4, <3>2
      <4>2. CASE p[1] # x /\ p[2] # x
        BY <2>1, <3>2, <4>2
      <4>3. CASE p[2] = x
        BY <2>2, <3>2, <4>1, <4>3
      <4>4. CASE p[1] = x
        BY <2>3, <3>2, <4>1, <4>4
      <4>5. QED BY <4>2, <4>3, <4>4
    <3>3. CASE p \notin Above(issues')
      <4>1. p \notin {q \in Above(issues) : q[1] # x /\ q[2] # x}
        BY <2>1, <3>3
      <4>2. p \notin H \X {x}
        BY <2>2, <3>3
      <4>3. p \notin {x} \X (S \ H)
        BY <2>3, <3>3
      <4>4. QED BY <3>3, <4>1, <4>2, <4>3
    <3>4. QED BY <3>2, <3>3
  <2>6. QED BY <2>5
<1>12. Order!Place(x, b, Cardinality(H))
  BY <1>2, <1>7, <1>9, <1>10, <1>11, AbstractPlace, ZenonT(60)
<1>13. Cardinality(H) \in 0..Cardinality(Live(issues))
  <2>1. H \in SUBSET Live(issues) /\ Live(issues) \in SUBSET DOMAIN issues
    BY <1>2, <1>7 DEF Others, Live
  <2>2. IsFiniteSet(Live(issues)) /\ Cardinality(Live(issues)) \in Nat
    BY <1>5, <2>1, <1>4, RankBound
  <2>3. IsFiniteSet(H) /\ Cardinality(H) \in Nat /\ Cardinality(H) <= Cardinality(Live(issues))
    BY <2>1, <2>2, FS_Subset, FS_CardinalityType
  <2>4. QED BY <2>2, <2>3
<1>14. QED BY <1>1, <1>12, <1>13

\* An issue that is no longer displayed is removed.
LEMMA RemovesFollow ==
  ASSUME NEW n \in Nat, NEW x, Table(issues, n), Live(issues') = Live(issues) \ {x}, x \in Live(issues),
         \A j \in Live(issues) \ {x} : Band(issues', j) = Band(issues, j),
         {p \in Above(issues') : p[1] # x /\ p[2] # x} = {p \in Above(issues) : p[1] # x /\ p[2] # x}
  PROVE  Order!Remove(x)
<1>1. Column(issues') = [j \in Live(issues) \ {x} |-> Band(issues, j)]
  BY DEF Column
<1>2. \A p \in Above(issues') : p[1] # x /\ p[2] # x
  BY DEF Above
<1>3. Above(issues') = {p \in Above(issues) : p[1] # x /\ p[2] # x}
  BY <1>2
<1>4. QED BY <1>1, <1>3, AbstractActions

\* Rows and positions are bounded by the number of issues ever created.
LEMMA InvBounds ==
  /\ IInv => Table(issues, MaxIssues)
  /\ IInv' => Table(issues', MaxIssues)
  BY ConstantsAssumption DEF IInv, TypeOK, PositionsBounded, Table

\* A row that is not displayed counts for nothing.
LEMMA HiddenChange ==
  ASSUME Live(issues') = Live(issues), \A j \in Live(issues) : Band(issues', j) = Band(issues, j),
         Above(issues') = Above(issues)
  PROVE  UNCHANGED Order!vars
<1>1. Column(issues') = Column(issues)
  BY DEF Column
<1>2. QED BY <1>1, AbstractActions

\* Rewriting the table around an issue places it, removes it or goes unseen.
LEMMA RewritesFollow ==
  ASSUME IInv, IInv', NEW x \in 1..MaxIssues, Rewrites(issues, issues', x),
         x \in Live(issues') => x \in Live(issues)
  PROVE  Follows
<1>1. Table(issues, MaxIssues) /\ Table(issues', MaxIssues) /\ MaxIssues \in Nat
  BY InvBounds, ConstantsAssumption
<1>2. /\ Live(issues') \ {x} = Live(issues) \ {x}
      /\ \A j \in DOMAIN issues \ {x} : Band(issues', j) = Band(issues, j)
  BY <1>1, OthersAsBefore
<1>3. {p \in Above(issues') : p[1] # x /\ p[2] # x} = {p \in Above(issues) : p[1] # x /\ p[2] # x}
  BY <1>1, PairsAsBefore
<1>4. \A j \in Live(issues) \ {x} : Band(issues', j) = Band(issues, j)
  BY <1>2 DEF Live
<1>5. CASE x \in Live(issues) /\ x \in Live(issues')
  <2>1. PICK k \in 0..Cardinality(Live(issues)) : Order!Place(x, Band(issues', x), k)
    BY <1>1, <1>5, RewritesPlace
  <2>2. Band(issues', x) \in Bands
    BY <1>1, <1>5 DEF Table, Live, Band, Bands, Issue
  <2>3. Cardinality(Live(issues)) = Order!Cardinality(Order!Displayed)
    BY SameCardinality DEF Order!Displayed
  <2>4. QED BY <2>1, <2>2, <2>3 DEF Follows, Order!Next
<1>6. CASE x \in Live(issues) /\ x \notin Live(issues')
  <2>1. Order!Remove(x)
    BY <1>1, <1>2, <1>3, <1>4, <1>6, RemovesFollow
  <2>2. QED BY <2>1 DEF Follows, Order!Next
<1>7. CASE x \notin Live(issues)
  <2>1. Live(issues') = Live(issues)
    BY <1>2, <1>7
  <2>2. \A t \in {issues, issues'} : \A p \in Above(t) : p[1] # x /\ p[2] # x
    BY <1>7, <2>1 DEF Above
  <2>3. Above(issues') = Above(issues)
    BY <1>3, <2>2
  <2>4. QED BY <1>4, <1>7, <2>1, <2>3, HiddenChange DEF Follows
<1>8. QED BY <1>5, <1>6, <1>7

\* Deleting an issue removes it, or nothing that is displayed.
LEMMA DeletesFollow ==
  ASSUME IInv, NEW x \in 1..MaxIssues, issues' = [j \in DOMAIN issues \ {x} |-> issues[j]]
  PROVE  Follows
<1>1. Table(issues, MaxIssues) /\ MaxIssues \in Nat
  BY InvBounds, ConstantsAssumption
<1>2. /\ Live(issues') = Live(issues) \ {x}
      /\ \A j \in Live(issues) \ {x} : Band(issues', j) = Band(issues, j)
  BY DEF Live, Band
<1>3. \A i, j \in Live(issues) \ {x} : Precedes(issues', i, j) <=> Precedes(issues, i, j)
  BY DEF Live, Precedes
<1>4. Above(issues') = {p \in Above(issues) : p[1] # x /\ p[2] # x}
  BY <1>2, <1>3 DEF Above
<1>5. CASE x \in Live(issues)
  <2>1. Column(issues') = [j \in Live(issues) \ {x} |-> Band(issues, j)]
    BY <1>2 DEF Column
  <2>2. Order!Remove(x)
    BY <1>4, <1>5, <2>1, AbstractActions
  <2>3. QED BY <2>2 DEF Follows, Order!Next
<1>6. CASE x \notin Live(issues)
  <2>1. Above(issues') = Above(issues)
    BY <1>4, <1>6 DEF Above
  <2>2. QED BY <1>2, <1>6, <2>1, HiddenChange DEF Follows
<1>7. QED BY <1>5, <1>6

\* A new issue is appended to its band.
LEMMA NewcomersFollow ==
  ASSUME IInv, IInv', NEW x \in 1..MaxIssues, x \notin DOMAIN issues, DOMAIN issues' = DOMAIN issues \cup {x},
         \A j \in DOMAIN issues : /\ issues'[j] = issues[j]
                                  /\ Band(issues, j) = Band(issues', x) => issues[j].pos < issues'[x].pos,
         ~issues'[x].archived
  PROVE  Follows
<1>1. PICK b : b = Band(issues', x)
  OBVIOUS
<1>2. Table(issues, MaxIssues) /\ Table(issues', MaxIssues) /\ MaxIssues \in Nat
  BY InvBounds, ConstantsAssumption
<1>3. Live(issues') = Live(issues) \cup {x} /\ x \notin Live(issues)
  BY DEF Live
<1>4. \A j \in Live(issues) : Band(issues', j) = Band(issues, j)
  BY DEF Live, Band
<1>5. Column(issues') = [j \in Live(issues) \cup {x} |-> IF j = x THEN b ELSE Band(issues, j)]
  BY <1>1, <1>3, <1>4 DEF Column
<1>6. \A i, j \in Live(issues) : Precedes(issues', i, j) <=> Precedes(issues, i, j)
  BY DEF Live, Precedes
<1>7. \A j \in Live(issues) : Band(issues, j) = b => Precedes(issues', j, x) /\ ~Precedes(issues', x, j)
  <2>1. TAKE j \in Live(issues)
  <2>2. HAVE Band(issues, j) = b
  <2>3. j \in DOMAIN issues' /\ x \in DOMAIN issues' /\ issues'[j].pos < issues'[x].pos
    BY <1>1, <2>2 DEF Live
  <2>4. Precedes(issues', j, x)
    BY <2>3 DEF Precedes
  <2>5. QED BY <1>2, <2>3, <2>4, OneFirst
<1>8. Above(issues') = Above(issues) \cup (Others(issues, b, x) \X {x})
  <2>1. \A i, j \in Live(issues) : <<i, j>> \in Above(issues') <=> <<i, j>> \in Above(issues)
    BY <1>3, <1>4, <1>6 DEF Above
  <2>2. \A j \in Live(issues) : <<j, x>> \in Above(issues') <=> j \in Others(issues, b, x)
    BY <1>1, <1>3, <1>4, <1>7 DEF Above, Others
  <2>3. \A j : <<x, j>> \notin Above(issues')
    BY <1>1, <1>3, <1>4, <1>7 DEF Above
  <2>4. Above(issues') \subseteq Live(issues') \X Live(issues') /\ Above(issues) \subseteq Live(issues) \X Live(issues)
        /\ Others(issues, b, x) \subseteq Live(issues)
    BY DEF Above, Others
  <2>5. \A p \in Live(issues') \X Live(issues') :
          p \in Above(issues') <=> p \in Above(issues) \cup (Others(issues, b, x) \X {x})
    <3>1. TAKE p \in Live(issues') \X Live(issues')
    <3>2. PICK i \in Live(issues'), j \in Live(issues') : p = <<i, j>>
      OBVIOUS
    <3>3. CASE i # x /\ j # x
      BY <1>3, <2>1, <3>2, <3>3
    <3>4. CASE i # x /\ j = x
      BY <1>3, <2>2, <2>4, <3>2, <3>4
    <3>5. CASE i = x
      BY <1>3, <2>3, <2>4, <3>2, <3>5
    <3>6. QED BY <3>3, <3>4, <3>5
  <2>6. Above(issues) \cup (Others(issues, b, x) \X {x}) \subseteq Live(issues') \X Live(issues')
    BY <1>3, <2>4
  <2>7. QED BY <2>4, <2>5, <2>6
<1>9. Order!Append(x, b)
  BY <1>3, <1>5, <1>8, AbstractActions
<1>10. b \in Bands
  BY <1>1, <1>2 DEF Table, Band, Bands, Issue
<1>11. QED BY <1>9, <1>10 DEF Follows, Order!Next

\* Whatever a request does to the table, on the board it moves at most its issue.
LEMMA StepFollows ==
  ASSUME IInv, IInv', OneMoves
  PROVE  Follows
<1>1. PICK x : x = last'.issue
  OBVIOUS
<1>2. DOMAIN issues \subseteq 1..MaxIssues /\ DOMAIN issues' \subseteq 1..MaxIssues
  BY InvBounds DEF Table
<1>3. CASE Rewrites(issues, issues', x) /\ (x \in Live(issues') => x \in Live(issues))
  <2>1. CASE x \in 1..MaxIssues
    BY <1>3, <2>1, RewritesFollow
  <2>2. CASE x \notin 1..MaxIssues
    <3>1. x \notin DOMAIN issues /\ DOMAIN issues' = DOMAIN issues
      BY <1>2, <1>3, <2>2 DEF Rewrites
    <3>2. Table(issues, MaxIssues) /\ Table(issues', MaxIssues) /\ MaxIssues \in Nat
      BY InvBounds, ConstantsAssumption
    <3>3. /\ Live(issues') \ {x} = Live(issues) \ {x}
          /\ \A j \in DOMAIN issues \ {x} : Band(issues', j) = Band(issues, j)
      BY <1>3, <3>2, OthersAsBefore
    <3>4. {p \in Above(issues') : p[1] # x /\ p[2] # x} = {p \in Above(issues) : p[1] # x /\ p[2] # x}
      BY <1>3, <3>2, PairsAsBefore
    <3>5. Live(issues') = Live(issues) /\ \A j \in Live(issues) : Band(issues', j) = Band(issues, j)
      BY <3>1, <3>3 DEF Live
    <3>6. Above(issues') = Above(issues)
      BY <3>1, <3>4 DEF Above, Live
    <3>7. QED BY <3>5, <3>6, HiddenChange DEF Follows
  <2>3. QED BY <2>1, <2>2
<1>4. CASE x \in DOMAIN issues /\ issues' = [j \in DOMAIN issues \ {x} |-> issues[j]]
  BY <1>2, <1>4, DeletesFollow
<1>5. CASE /\ x \notin DOMAIN issues /\ DOMAIN issues' = DOMAIN issues \cup {x}
           /\ \A j \in DOMAIN issues : /\ issues'[j] = issues[j]
                                       /\ Band(issues, j) = Band(issues', x) => issues[j].pos < issues'[x].pos
           /\ ~issues'[x].archived
  BY <1>2, <1>5, NewcomersFollow
<1>6. QED BY <1>1, <1>3, <1>4, <1>5 DEF OneMoves

\* The positions implement the lists: every request of every handler, also one
\* that fails half-way, appends, places or removes at most one issue on the
\* board (IssueController, and the handlers that use it).
THEOREM BoardImplementsOrder == Spec => ImplementsBoardOrder
<1>1. Init => Order!Init
  <2> SUFFICES ASSUME Init PROVE Order!Init
    OBVIOUS
  <2>1. Live(issues) = {}
    BY DEF Init, Live
  <2>2. QED BY <2>1 DEF Order!Init
<1>2. IInv /\ IInv' /\ [Next]_vars => Follows
  <2> SUFFICES ASSUME IInv, IInv', [Next]_vars PROVE Follows
    OBVIOUS
  <2>1. CASE Next
    BY <2>1, NextStep, StepFollows
  <2>2. CASE UNCHANGED vars
    <3>1. issues' = issues
      BY <2>2 DEF vars
    <3>2. QED BY <3>1, HiddenChange DEF Follows
  <2>3. QED BY <2>1, <2>2
<1>3. QED BY <1>1, <1>2, Invariance, PTL DEF Spec, Follows, ImplementsBoardOrder, Order!Spec

-----------------------------------------------------------------------------
(* Assignments: what Issue.clean checks on each save is enough, however old *)
(* the rules are.                                                          *)

\* Row j of table u is assigned as that of t is.
Keeps(t, u, j) == u[j].group = t[j].group /\ u[j].user = t[j].user

\* Each row of u is assigned as in t, or in a way that full_clean accepts.
Validated(t, u) ==
  \A j \in DOMAIN u : (j \in DOMAIN t /\ Keeps(t, u, j)) \/ Saveable(u, j)

-----------------------------------------------------------------------------
(* The tables of the handlers.                                             *)

\* Renumbering assigns nothing.
LEMMA RenumbersKeeps ==
  ASSUME NEW n, NEW t, NEW u, Table(t, n), Renumbers(t, u)
  PROVE  DOMAIN u = DOMAIN t /\ \A j \in DOMAIN t : Keeps(t, u, j)
BY DEF Table, Renumbers, Keeps, Issue

\* Nor does leaving one band and entering another.
LEMMA RehomeKeeps ==
  ASSUME NEW n \in Nat, NEW t, Table(t, n), NEW x \in Live(t), NEW old, NEW index \in Nat
  PROVE  LET u == Rehome(t, x, old, index)
         IN  DOMAIN u = DOMAIN t /\ \A j \in DOMAIN t : Keeps(t, u, j)
<1> DEFINE v == IF Band(t, x) = old THEN t ELSE NormalizeBand(t, old, x)
           u == InsertIntoBand(v, x, index)
<1>1. Table(v, n) /\ Renumbers(t, v)
  <2>1. Renumbers(t, t)
    BY DEF Renumbers, Table, Issue
  <2>2. QED BY <2>1, NormalizeFacts
<1> HIDE DEF v
<1>2. x \in Live(v)
  BY <1>1 DEF Renumbers, Live, Table, Issue
<1>3. Renumbers(v, u)
  BY <1>1, <1>2, InsertFacts
<1> HIDE DEF u
<1>4. DOMAIN u = DOMAIN t /\ \A j \in DOMAIN t : Keeps(t, v, j) /\ Keeps(v, u, j)
  BY <1>1, <1>3, RenumbersKeeps
<1>5. QED BY <1>4 DEF u, v, Rehome, Keeps

\* An edit of row i that full_clean accepts, and what renumbers after it.
LEMMA ValidatedStep ==
  ASSUME NEW t, NEW v, NEW u, NEW i \in DOMAIN t, DOMAIN v = DOMAIN t, DOMAIN u = DOMAIN t,
         \A j \in DOMAIN t \ {i} : Keeps(t, v, j), Keeps(t, v, i) \/ Saveable(v, i),
         \A j \in DOMAIN t : Keeps(v, u, j)
  PROVE  Validated(t, u)
BY DEF Validated, Keeps, Saveable

\* The fields of an edit, and the row that a transition saves.
LEMMA EditKeeps ==
  ASSUME IInv, NEW i \in DOMAIN issues, NEW p \in Priorities, NEW g \in Groups \cup {None},
         NEW u \in Users \cup {None}, Assignable(g, u)
  PROVE  LET edited == EditFields(i, p, g, u)
         IN  /\ DOMAIN edited = DOMAIN issues /\ edited[i].state = issues[i].state
             /\ \A j \in DOMAIN issues \ {i} : Keeps(issues, edited, j)
             /\ Saveable(edited, i)
<1>1. issues \in [DOMAIN issues -> Issue] /\ issues[i] \in Issue
  BY DEF IInv, TypeOK
<1> DEFINE row == [issues[i] EXCEPT !.priority = p, !.group = g, !.user = u]
           edited == EditFields(i, p, g, u)
<1>2. /\ DOMAIN edited = DOMAIN issues
      /\ edited[i] = row
      /\ \A j \in DOMAIN issues \ {i} : edited[j] = issues[j]
  BY <1>1 DEF EditFields
<1>3. row.state = issues[i].state /\ row.group = g /\ row.user = u
  BY <1>1 DEF Issue
<1> HIDE DEF row, edited
<1>4. QED BY <1>2, <1>3 DEF edited, Keeps, Saveable

\* A transition assigns at most its own row.
LEMMA EnterKeeps ==
  ASSUME NEW t, NEW i \in DOMAIN t, NEW s
  PROVE  LET e == EnterState(t, i, s)
         IN  /\ DOMAIN e = DOMAIN t
             /\ \A j \in DOMAIN t \ {i} : Keeps(t, e, j)
             /\ s = t[i].state => e = t
BY DEF EnterState, Keeps

-----------------------------------------------------------------------------
(* The handlers.                                                           *)

\* A creation validates its row.
LEMMA CreateValidates ==
  ASSUME IInv, NEW s \in States, NEW p \in Priorities, NEW g \in Groups \cup {None},
         NEW u \in Users \cup {None}, CreateIssue(s, p, g, u)
  PROVE  Validated(issues, issues')
<1> DEFINE row == [state |-> s, priority |-> p, pos |-> NextPosition(issues, <<s, p>>),
                   archived |-> FALSE, group |-> g, user |-> u]
<1>1. /\ issues' = [j \in DOMAIN issues \cup {nextPk} |-> IF j = nextPk THEN row ELSE issues[j]]
      /\ Assignable(g, u)
  BY DEF CreateIssue
<1>2. row.group = g /\ row.user = u
  OBVIOUS
<1>3. nextPk \notin DOMAIN issues
  BY DEF IInv, TypeOK
<1> HIDE DEF row
<1>4. QED BY <1>1, <1>2, <1>3 DEF Validated, Keeps, Saveable

\* An update validates its row, wherever it stops.
LEMMA UpdateValidates ==
  ASSUME IInv, NEW i \in DOMAIN issues, NEW s \in States, NEW p \in Priorities,
         NEW g \in Groups \cup {None}, NEW u \in Users \cup {None}, UpdateIssue(i, s, p, g, u)
  PROVE  Validated(issues, issues')
<1> DEFINE n == nextPk - 1
           edited == EditFields(i, p, g, u)
           entered == EnterState(edited, i, s)
           placed == Rehome(entered, i, Band(issues, i), AtEnd)
           transits == s = issues[i].state \/ Saveable(entered, i)
<1>1. Table(issues, n) /\ n \in Nat /\ i \in Live(issues) /\ Assignable(g, u)
  BY Existing DEF UpdateIssue
<1>2. /\ Table(edited, n) /\ Rewrites(issues, edited, i) /\ edited[i].archived = issues[i].archived
      /\ DOMAIN edited = DOMAIN issues /\ edited[i].state = issues[i].state
      /\ \A j \in DOMAIN issues \ {i} : Keeps(issues, edited, j)
      /\ Saveable(edited, i)
  BY <1>1, FieldsEdited, EditKeeps
<1>3. \/ issues' = edited
      \/ transits /\ issues' \in {entered, placed}
  BY DEF UpdateIssue
<1> HIDE DEF edited
<1>4. /\ Table(entered, n) /\ entered[i].archived = edited[i].archived
      /\ DOMAIN entered = DOMAIN edited
      /\ \A j \in DOMAIN edited \ {i} : Keeps(edited, entered, j)
      /\ s = edited[i].state => entered = edited
  BY <1>1, <1>2, Existing, EnterFacts, EnterKeeps
<1> HIDE DEF entered
<1>5. i \in Live(entered)
  BY <1>1, <1>2, <1>4 DEF Live
<1>6. DOMAIN placed = DOMAIN entered /\ \A j \in DOMAIN entered : Keeps(entered, placed, j)
  BY <1>1, <1>4, <1>5, RehomeKeeps, ConstantsAssumption DEF AtEnd
<1> HIDE DEF placed
<1>7. Validated(issues, edited)
  BY <1>2 DEF Validated
<1>8. ASSUME transits PROVE Saveable(entered, i)
  BY <1>2, <1>4, <1>8
<1>9. \A j \in DOMAIN issues \ {i} : Keeps(issues, entered, j)
  BY <1>2, <1>4 DEF Keeps
<1>10. ASSUME transits PROVE Validated(issues, entered) /\ Validated(issues, placed)
  <2>1. \A j \in DOMAIN issues : Keeps(entered, entered, j)
    BY DEF Keeps
  <2>2. QED BY <1>2, <1>4, <1>6, <1>8, <1>9, <1>10, <2>1, ValidatedStep
<1>11. QED BY <1>3, <1>7, <1>10

\* Archiving assigns nothing.
LEMMA ArchiveValidates ==
  ASSUME IInv, NEW i \in DOMAIN issues, ArchiveIssue(i)
  PROVE  Validated(issues, issues')
<1> DEFINE n == nextPk - 1
           archived == [issues EXCEPT ![i].archived = TRUE]
           normal == NormalizeBand(archived, Band(issues, i), i)
<1>1. Table(issues, n) /\ n \in Nat /\ issues \in [DOMAIN issues -> Issue] /\ issues[i] \in Issue
  BY Existing DEF Table
<1>2. /\ archived \in [DOMAIN issues -> Issue] /\ archived[i].pos = issues[i].pos
      /\ \A j \in DOMAIN issues \ {i} : archived[j] = issues[j]
      /\ Keeps(issues, archived, i)
  BY <1>1 DEF Issue, Keeps
<1>3. issues' \in {normal, issues}
  BY DEF ArchiveIssue
<1> HIDE DEF archived
<1>4. Table(archived, n) /\ DOMAIN archived = DOMAIN issues
  BY <1>1, <1>2, EditFacts
<1>5. DOMAIN normal = DOMAIN archived /\ \A j \in DOMAIN archived : Keeps(archived, normal, j)
  BY <1>1, <1>4, NormalizeFacts, RenumbersKeeps
<1> HIDE DEF normal
<1>6. \A j \in DOMAIN issues : Keeps(issues, normal, j) /\ Keeps(issues, issues, j)
  BY <1>2, <1>4, <1>5 DEF Keeps
<1>7. QED BY <1>3, <1>4, <1>5, <1>6 DEF Validated

\* A move validates the row it takes to another state.
LEMMA MoveValidates ==
  ASSUME IInv, NEW i \in DOMAIN issues, NEW s \in BoardStates, NEW index \in 0..MaxIssues,
         MoveIssue(i, s, index)
  PROVE  Validated(issues, issues')
<1> DEFINE n == nextPk - 1
           entered == EnterState(issues, i, s)
           placed == Rehome(entered, i, Band(issues, i), index)
<1>1. Table(issues, n) /\ n \in Nat /\ i \in Live(issues) /\ s \in States
  BY Existing, ConstantsAssumption DEF MoveIssue
<1>2. \/ issues' = issues
      \/ issues' = placed /\ (s # issues[i].state => Saveable(entered, i))
  BY DEF MoveIssue
<1>3. /\ Table(entered, n) /\ entered[i].archived = issues[i].archived
      /\ DOMAIN entered = DOMAIN issues
      /\ \A j \in DOMAIN issues \ {i} : Keeps(issues, entered, j)
      /\ s = issues[i].state => entered = issues
  BY <1>1, Existing, EnterFacts, EnterKeeps
<1> HIDE DEF entered
<1>4. i \in Live(entered)
  BY <1>1, <1>3 DEF Live
<1>5. DOMAIN placed = DOMAIN entered /\ \A j \in DOMAIN entered : Keeps(entered, placed, j)
  BY <1>1, <1>3, <1>4, RehomeKeeps, ConstantsAssumption
<1> HIDE DEF placed
<1>6. \A j \in DOMAIN issues : Keeps(issues, issues, j)
  BY DEF Keeps
<1>7. Validated(issues, issues)
  BY <1>6 DEF Validated
<1>8. ASSUME s # issues[i].state => Saveable(entered, i) PROVE Validated(issues, placed)
  <2>1. Keeps(issues, entered, i) \/ Saveable(entered, i)
    BY <1>3, <1>6, <1>8
  <2>2. QED BY <1>3, <1>5, <2>1, ValidatedStep
<1>9. QED BY <1>2, <1>7, <1>8

\* The admin validates the row it edits.
LEMMA AdminEditValidates ==
  ASSUME IInv, NEW i \in DOMAIN issues, NEW s \in States, NEW p \in Priorities,
         NEW g \in Groups \cup {None}, NEW u \in Users \cup {None}, AdminEditIssue(i, s, p, g, u)
  PROVE  Validated(issues, issues')
<1> DEFINE edited == EditFields(i, p, g, u)
           entered == EnterState(edited, i, s)
<1>1. issues' = issues \/ (issues' = entered /\ Saveable(entered, i))
  BY DEF AdminEditIssue
<1>2. DOMAIN edited = DOMAIN issues /\ \A j \in DOMAIN issues \ {i} : Keeps(issues, edited, j)
  BY EditKeeps DEF AdminEditIssue
<1> HIDE DEF edited
<1>3. DOMAIN entered = DOMAIN edited /\ \A j \in DOMAIN edited \ {i} : Keeps(edited, entered, j)
  BY <1>2, EnterKeeps
<1> HIDE DEF entered
<1>4. \A j \in DOMAIN issues \ {i} : Keeps(issues, entered, j)
  BY <1>2, <1>3 DEF Keeps
<1>5. QED BY <1>1, <1>2, <1>3, <1>4 DEF Validated, Keeps

\* Each request validates what it assigns.
LEMMA RequestValidates ==
  ASSUME IInv, [Next]_vars
  PROVE  Validated(issues, issues')
<1>1. ASSUME \/ UNCHANGED issues
             \/ \E i \in DOMAIN issues : issues' = [j \in DOMAIN issues \ {i} |-> issues[j]]
      PROVE  Validated(issues, issues')
  BY <1>1 DEF Validated, Keeps
<1>2. CASE BoardRequest
  BY <1>1, <1>2, CreateValidates, UpdateValidates, ArchiveValidates, MoveValidates
  DEF BoardRequest, AddIssueComment
<1>3. CASE AdminRequest
  BY <1>1, <1>3, AdminEditValidates DEF AdminRequest, AdminDeleteIssue, SetMembership, SetRule
<1>4. CASE UNCHANGED vars
  BY <1>1, <1>4 DEF vars
<1>5. QED BY <1>2, <1>3, <1>4 DEF Next
-----------------------------------------------------------------------------
\* What OnlyRevocationStrandsUser says of one step.
Kept ==
  \A i \in DOMAIN issues' :
     Stranded(issues, i)' =>
        \/ i \in DOMAIN issues /\ Stranded(issues, i)
        \/ members' # members

\* Each step satisfies the formula.
LEMMA StepsKeep ==
  ASSUME IInv, [Next]_vars
  PROVE  Kept
<1> SUFFICES ASSUME NEW i \in DOMAIN issues', Stranded(issues, i)', members' = members
             PROVE  i \in DOMAIN issues /\ Stranded(issues, i)
  BY DEF Kept
<1>1. (i \in DOMAIN issues /\ Keeps(issues, issues', i)) \/ Saveable(issues', i)
  BY RequestValidates DEF Validated
<1>2. QED BY <1>1 DEF Stranded, Saveable, Assignable, Keeps

\* Only a revoked membership leaves an issue with a user outside its group:
\* update_workflow_state may apply a rule whose member has left, but not save it.
THEOREM AssignmentsStayValid == Spec => OnlyRevocationStrandsUser
<1>1. IInv /\ [Next]_vars => [Kept]_vars
  BY StepsKeep
<1>2. QED BY <1>1, Invariance, PTL DEF Spec, Kept, OnlyRevocationStrandsUser

-----------------------------------------------------------------------------
(* Where the handlers leave positions.                                     *)

\* Distinct positions among the issues in S that share a band.
Distinct(t, S) ==
  \A i, j \in S : i # j /\ Band(t, i) = Band(t, j) => t[i].pos # t[j].pos

\* What _normalize_band makes of positions: from 1 on without gap in its band,
\* no new ties, other bands as they were.
LEMMA NormalizePlaces ==
  ASSUME NEW t, NEW n \in Nat, Table(t, n), NEW b, NEW x
  PROVE  LET u == NormalizeBand(t, b, x)
         IN  /\ Distinct(t, Live(t) \ {x}) => Distinct(u, Live(t) \ {x})
             /\ x \notin InBand(t, b) => Dense(u, b)
             /\ \A j \in DOMAIN t : Band(t, j) # b => u[j] = t[j]
<1> DEFINE S == InBand(t, b) \ {x}
           u == NormalizeBand(t, b, x)
<1>1. /\ S \in SUBSET DOMAIN t
      /\ DOMAIN t \subseteq 1..n /\ \A j \in DOMAIN t : t[j].pos \in Int /\ t[j] \in Issue
  BY DEF InBand, Live, Table
<1>2. /\ \A i, j \in S : Rank(t, S, i) = Rank(t, S, j) => i = j
      /\ \A i \in S : Rank(t, S, i) \in 0..(Cardinality(S) - 1)
  BY <1>1, RanksFill
<1>fill. \A r \in 0..(Cardinality(S) - 1) : \E i \in S : Rank(t, S, i) = r
  BY <1>1, RanksFill
<1>3. \A i \in DOMAIN t : u[i] = IF i \in S THEN [t[i] EXCEPT !.pos = Rank(t, S, i) + 1] ELSE t[i]
  BY DEF NormalizeBand
<1>4. DOMAIN u = DOMAIN t
  BY DEF NormalizeBand
<1> HIDE DEF u
<1>5. \A i \in DOMAIN t : Band(u, i) = Band(t, i) /\ u[i].archived = t[i].archived
  BY <1>1, <1>3 DEF Band, Issue
<1>6. \A i \in S : u[i].pos = Rank(t, S, i) + 1
  BY <1>1, <1>3 DEF Issue
<1>7. \A j \in DOMAIN t : Band(t, j) # b => u[j] = t[j]
  BY <1>3 DEF InBand
<1>8. ASSUME Distinct(t, Live(t) \ {x}) PROVE Distinct(u, Live(t) \ {x})
  <2>1. SUFFICES ASSUME NEW i \in Live(t) \ {x}, NEW j \in Live(t) \ {x}, i # j, Band(u, i) = Band(u, j)
                 PROVE  u[i].pos # u[j].pos
    BY DEF Distinct
  <2>2. i \in DOMAIN t /\ j \in DOMAIN t /\ Band(t, i) = Band(t, j)
    BY <1>5, <2>1 DEF Live
  <2>3. CASE Band(t, i) = b
    <3>1. i \in S /\ j \in S
      BY <2>1, <2>2, <2>3 DEF InBand
    <3>2. Rank(t, S, i) # Rank(t, S, j) /\ Rank(t, S, i) \in Int /\ Rank(t, S, j) \in Int
      BY <1>2, <2>1, <3>1
    <3> QED BY <1>6, <3>1, <3>2
  <2>4. CASE Band(t, i) # b
    BY <1>7, <1>8, <2>1, <2>2, <2>4 DEF Distinct
  <2> QED BY <2>3, <2>4
<1>9. ASSUME x \notin InBand(t, b) PROVE Dense(u, b)
  <2>1. InBand(u, b) = S
    BY <1>4, <1>5, <1>9 DEF InBand, Live
  <2>2. Cardinality(S) \in Nat
    BY <1>1, SubtableFinite
  <2>3. ASSUME NEW i \in S PROVE u[i].pos \in 1..Cardinality(S)
    <3>1. Rank(t, S, i) \in 0..(Cardinality(S) - 1) /\ u[i].pos = Rank(t, S, i) + 1
      BY <1>2, <1>6
    <3> QED BY <2>2, <3>1
  <2>4. ASSUME NEW p \in 1..Cardinality(S) PROVE \E i \in S : u[i].pos = p
    <3>1. p - 1 \in 0..(Cardinality(S) - 1)
      BY <2>2
    <3>2. PICK i \in S : Rank(t, S, i) = p - 1
      BY <1>fill, <3>1
    <3>3. u[i].pos = (p - 1) + 1
      BY <1>6, <3>2
    <3> QED BY <3>3
  <2>5. {u[i].pos : i \in S} = 1..Cardinality(S)
    BY <2>3, <2>4
  <2> QED BY <2>1, <2>5 DEF Dense
<1> QED BY <1>7, <1>8, <1>9 DEF u

\* What _insert_into_band makes of positions: x at the index or at the end, its
\* band from 1 on without gap, no ties left there, other bands as they were.
LEMMA InsertPlaces ==
  ASSUME NEW t, NEW n \in Nat, Table(t, n), NEW x \in Live(t), NEW index \in Nat
  PROVE  LET u == InsertIntoBand(t, x, index)
         IN  /\ Distinct(t, Live(t) \ {x}) => Distinct(u, Live(t))
             /\ Dense(u, Band(t, x))
             /\ DisplayIndex(u, x) = IF index < Cardinality(Siblings(u, x))
                                     THEN index ELSE Cardinality(Siblings(u, x))
             /\ index >= Cardinality(Siblings(u, x)) => \A j \in Siblings(u, x) : Precedes(u, j, x)
             /\ \A j \in DOMAIN t : Band(t, j) # Band(t, x) => u[j] = t[j]
             /\ Cardinality(Siblings(u, x)) <= n
<1> DEFINE b == Band(t, x)
           S == InBand(t, b) \ {x}
           k == IF index < Cardinality(S) THEN index ELSE Cardinality(S)
           Slot(i) == IF i = x THEN k + 1
                      ELSE IF Rank(t, S, i) < k THEN Rank(t, S, i) + 1 ELSE Rank(t, S, i) + 2
           u == InsertIntoBand(t, x, index)
<1>1. /\ S \in SUBSET DOMAIN t /\ x \in DOMAIN t /\ x \notin S
      /\ DOMAIN t \subseteq 1..n /\ \A j \in DOMAIN t : t[j].pos \in Int /\ t[j] \in Issue /\ j \in Int
  BY DEF InBand, Live, Table
<1>2. /\ \A i, j \in S : Rank(t, S, i) = Rank(t, S, j) => i = j
      /\ \A i \in S : Rank(t, S, i) \in 0..(Cardinality(S) - 1)
  BY <1>1, RanksFill
<1>fill. \A r \in 0..(Cardinality(S) - 1) : \E i \in S : Rank(t, S, i) = r
  BY <1>1, RanksFill
<1>3. \A i \in DOMAIN t : u[i] = IF i \in S \cup {x} THEN [t[i] EXCEPT !.pos = Slot(i)] ELSE t[i]
  BY DEF InsertIntoBand
<1>4. DOMAIN u = DOMAIN t
  BY DEF InsertIntoBand
<1>5. IsFiniteSet(S) /\ Cardinality(S) \in Nat /\ Cardinality(S) <= n /\ k \in 0..Cardinality(S)
  <2>1. IsFiniteSet(S) /\ Cardinality(S) \in Nat /\ Cardinality(S) <= n
    BY <1>1, SubtableFinite
  <2> QED BY <2>1
<1>6. Cardinality({i \in S : Rank(t, S, i) < k}) = k
  <2>1. PICK c : c = k
    OBVIOUS
  <2>2. c \in 0..Cardinality(S)
    BY <1>5, <2>1
  <2>3. Cardinality({i \in S : Rank(t, S, i) < c}) = c
    BY <1>1, <2>2, RanksBelow
  <2> QED BY <2>1, <2>3
<1> HIDE DEF u
<1>7. \A i \in S \cup {x} : u[i].pos = Slot(i)
  <2>1. TAKE i \in S \cup {x}
  <2>2. PICK p : p = Slot(i)
    OBVIOUS
  <2>3. u[i] = [t[i] EXCEPT !.pos = p]
    BY <1>1, <1>3, <2>2
  <2> QED BY <1>1, <2>2, <2>3 DEF Issue
<1>8. u[x].pos = k + 1
  BY <1>7
<1>9. ASSUME NEW i \in S
      PROVE  u[i].pos = IF Rank(t, S, i) < k THEN Rank(t, S, i) + 1 ELSE Rank(t, S, i) + 2
  BY <1>1, <1>7
<1> HIDE DEF Slot, k
<1>10. \A i \in DOMAIN t : Band(u, i) = Band(t, i) /\ u[i].archived = t[i].archived
  <2>1. TAKE i \in DOMAIN t
  <2>2. PICK p : p = Slot(i)
    OBVIOUS
  <2>3. u[i] = [t[i] EXCEPT !.pos = p] \/ u[i] = t[i]
    BY <1>3, <2>2
  <2> QED BY <1>1, <2>3 DEF Band, Issue
<1>11. \A j \in DOMAIN t : Band(t, j) # b => u[j] = t[j]
  BY <1>3 DEF InBand
<1>12. InBand(u, b) = S \cup {x} /\ Siblings(u, x) = S
  <2>1. InBand(u, b) = InBand(t, b) /\ Band(u, x) = b
    BY <1>1, <1>4, <1>10 DEF InBand, Live
  <2>2. x \in InBand(t, b)
    BY DEF InBand
  <2> QED BY <2>1, <2>2 DEF Siblings
<1>13. ASSUME NEW i \in S PROVE Precedes(u, i, x) <=> Rank(t, S, i) < k
  <2>1. Rank(t, S, i) \in Int /\ k \in Int
    BY <1>2, <1>5
  <2>2. u[x].pos = k + 1
    BY <1>8
  <2>3. u[i].pos = IF Rank(t, S, i) < k THEN Rank(t, S, i) + 1 ELSE Rank(t, S, i) + 2
    BY <1>9
  <2> QED BY <2>1, <2>2, <2>3 DEF Precedes
<1>14. DisplayIndex(u, x) = k
  <2>1. {j \in S : Precedes(u, j, x)} = {i \in S : Rank(t, S, i) < k}
    BY <1>13
  <2>2. DisplayIndex(u, x) = Cardinality({j \in S : Precedes(u, j, x)})
    BY <1>12 DEF DisplayIndex, Siblings, Rank
  <2> QED BY <1>6, <2>1, <2>2
<1>15. ASSUME index >= Cardinality(S) PROVE \A j \in S : Precedes(u, j, x)
  <2>1. k = Cardinality(S)
    BY <1>5, <1>15 DEF k
  <2>2. ASSUME NEW j \in S PROVE Rank(t, S, j) < k
    <3>1. Rank(t, S, j) \in 0..(Cardinality(S) - 1)
      BY <1>2
    <3> QED BY <1>5, <2>1, <3>1
  <2> QED BY <1>13, <2>2
<1>16. ASSUME Distinct(t, Live(t) \ {x}) PROVE Distinct(u, Live(t))
  <2>1. SUFFICES ASSUME NEW i \in Live(t), NEW j \in Live(t), i # j, Band(u, i) = Band(u, j)
                 PROVE  u[i].pos # u[j].pos
    BY DEF Distinct
  <2>2. i \in DOMAIN t /\ j \in DOMAIN t /\ Band(t, i) = Band(t, j)
    BY <1>10, <2>1 DEF Live
  <2>3. CASE Band(t, i) = b
    <3>1. i \in S \cup {x} /\ j \in S \cup {x}
      BY <2>1, <2>2, <2>3 DEF InBand
    <3>2. ASSUME NEW h \in S PROVE Rank(t, S, h) \in Int /\ u[h].pos # u[x].pos
      <4>1. Rank(t, S, h) \in Int /\ k \in Int
        BY <1>2, <1>5
      <4>2. u[h].pos = IF Rank(t, S, h) < k THEN Rank(t, S, h) + 1 ELSE Rank(t, S, h) + 2
        BY <1>9
      <4> QED BY <1>8, <4>1, <4>2
    <3>3. CASE i \in S /\ j \in S
      <4>1. Rank(t, S, i) # Rank(t, S, j)
        BY <1>2, <2>1, <3>3
      <4>2. k \in Int
        BY <1>5
      <4>3. Rank(t, S, i) \in Int /\ Rank(t, S, j) \in Int
        BY <3>2, <3>3
      <4>4. u[i].pos = IF Rank(t, S, i) < k THEN Rank(t, S, i) + 1 ELSE Rank(t, S, i) + 2
        BY <1>9, <3>3
      <4>5. u[j].pos = IF Rank(t, S, j) < k THEN Rank(t, S, j) + 1 ELSE Rank(t, S, j) + 2
        BY <1>9, <3>3
      <4>6. PICK p, q : p = Rank(t, S, i) /\ q = Rank(t, S, j)
        OBVIOUS
      <4> QED BY <4>1, <4>2, <4>3, <4>4, <4>5, <4>6
    <3> QED BY <2>1, <3>1, <3>2, <3>3
  <2>4. CASE Band(t, i) # b
    <3>1. u[i] = t[i] /\ u[j] = t[j] /\ i # x /\ j # x
      BY <1>11, <2>2, <2>4
    <3> QED BY <1>16, <2>1, <2>2, <3>1 DEF Distinct
  <2> QED BY <2>3, <2>4
<1>17. Dense(u, b)
  <2>1. Cardinality(S \cup {x}) = Cardinality(S) + 1
    BY <1>1, <1>5, FS_AddElement
  <2>2. ASSUME NEW i \in S \cup {x} PROVE u[i].pos \in 1..Cardinality(S) + 1
    <3>1. CASE i = x
      BY <1>5, <1>8, <3>1
    <3>2. CASE i \in S
      <4>1. Rank(t, S, i) \in 0..(Cardinality(S) - 1)
        BY <1>2, <3>2
      <4>2. u[i].pos = IF Rank(t, S, i) < k THEN Rank(t, S, i) + 1 ELSE Rank(t, S, i) + 2
        BY <1>9, <3>2
      <4> QED BY <1>5, <4>1, <4>2
    <3> QED BY <3>1, <3>2
  <2>3. ASSUME NEW p \in 1..Cardinality(S) + 1 PROVE \E i \in S \cup {x} : u[i].pos = p
    <3>1. CASE p = k + 1
      BY <1>8, <3>1
    <3>2. CASE p <= k
      <4>1. p - 1 \in 0..(Cardinality(S) - 1)
        BY <1>5, <3>2
      <4>2. PICK i \in S : Rank(t, S, i) = p - 1
        BY <1>fill, <4>1
      <4>3. p - 1 < k
        BY <1>5, <3>2
      <4> QED BY <1>9, <4>2, <4>3
    <3>3. CASE p > k + 1
      <4>1. p - 2 \in 0..(Cardinality(S) - 1)
        BY <1>5, <3>3
      <4>2. PICK i \in S : Rank(t, S, i) = p - 2
        BY <1>fill, <4>1
      <4>3. ~(p - 2 < k)
        BY <1>5, <3>3
      <4> QED BY <1>9, <4>2, <4>3
    <3> QED BY <1>5, <3>1, <3>2, <3>3
  <2>4. {u[i].pos : i \in S \cup {x}} = 1..Cardinality(S) + 1
    BY <2>2, <2>3
  <2> QED BY <1>12, <2>1, <2>4 DEF Dense
<1> QED BY <1>5, <1>11, <1>12, <1>14, <1>15, <1>16, <1>17 DEF u, k

\* The rows that renumbering leaves differ in their positions alone.
LEMMA RenumbersFields ==
  ASSUME NEW n, NEW t, NEW u, Table(t, n), Renumbers(t, u)
  PROVE  /\ \A j \in DOMAIN t : /\ u[j].state = t[j].state /\ u[j].priority = t[j].priority
                                /\ u[j].group = t[j].group /\ u[j].user = t[j].user
                                /\ u[j].archived = t[j].archived /\ Band(u, j) = Band(t, j)
         /\ Live(u) = Live(t)
         /\ \A b : InBand(u, b) = InBand(t, b)
<1>1. \A j \in DOMAIN t : /\ u[j].state = t[j].state /\ u[j].priority = t[j].priority
                          /\ u[j].group = t[j].group /\ u[j].user = t[j].user
                          /\ u[j].archived = t[j].archived
  BY DEF Table, Renumbers, Issue
<1>2. \A j \in DOMAIN t : Band(u, j) = Band(t, j)
  BY <1>1 DEF Band
<1>3. DOMAIN u = DOMAIN t
  BY DEF Renumbers
<1> QED BY <1>1, <1>2, <1>3 DEF Live, InBand

\* Where issue x goes when its handler leaves one band and numbers another.
LEMMA RehomePlaces ==
  ASSUME NEW n \in Nat, NEW t, Table(t, n), NEW x \in Live(t), NEW old, NEW index \in Nat
  PROVE  LET u == Rehome(t, x, old, index)
         IN  /\ Renumbers(t, u)
             /\ Distinct(t, Live(t) \ {x}) => Distinct(u, Live(t))
             /\ Dense(u, Band(t, x))
             /\ Band(t, x) # old => Dense(u, old)
             /\ DisplayIndex(u, x) = IF index < Cardinality(Siblings(u, x))
                                     THEN index ELSE Cardinality(Siblings(u, x))
             /\ index >= n => \A j \in Siblings(u, x) : Precedes(u, j, x)
<1> DEFINE v == IF Band(t, x) = old THEN t ELSE NormalizeBand(t, old, x)
           u == InsertIntoBand(v, x, index)
<1>1. Table(v, n) /\ Renumbers(t, v)
  <2>1. Renumbers(t, t)
    BY DEF Renumbers, Table, Issue
  <2>2. QED BY <2>1, NormalizeFacts
<1>2. Distinct(t, Live(t) \ {x}) => Distinct(v, Live(t) \ {x})
  BY NormalizePlaces
<1>3. Band(t, x) # old => Dense(v, old)
  <2>1. Band(t, x) # old => x \notin InBand(t, old)
    BY DEF InBand
  <2> QED BY <2>1, NormalizePlaces
<1> HIDE DEF v
<1>4. Live(v) = Live(t) /\ Band(v, x) = Band(t, x) /\ x \in DOMAIN t
  BY <1>1, RenumbersFields DEF Live
<1>5. Table(u, n) /\ Renumbers(v, u)
  BY <1>1, <1>4, InsertFacts
<1>6. /\ Distinct(v, Live(v) \ {x}) => Distinct(u, Live(v))
      /\ Dense(u, Band(v, x))
      /\ DisplayIndex(u, x) = IF index < Cardinality(Siblings(u, x))
                              THEN index ELSE Cardinality(Siblings(u, x))
      /\ index >= Cardinality(Siblings(u, x)) => \A j \in Siblings(u, x) : Precedes(u, j, x)
      /\ \A j \in DOMAIN v : Band(v, j) # Band(v, x) => u[j] = v[j]
      /\ Cardinality(Siblings(u, x)) <= n
  BY <1>1, <1>4, InsertPlaces
<1> HIDE DEF u
<1>7. Renumbers(t, u)
  <2>1. \A j \in DOMAIN t : t[j] \in Issue /\ v[j] \in Issue /\ u[j] \in Issue
    BY <1>1, <1>5 DEF Table, Renumbers
  <2> QED BY <1>1, <1>5, <2>1 DEF Renumbers, Issue
<1>8. ASSUME Band(t, x) # old PROVE Dense(u, old)
  <2>1. InBand(u, old) = InBand(v, old)
    BY <1>1, <1>5, RenumbersFields
  <2>2. \A j \in InBand(v, old) : u[j] = v[j]
    BY <1>4, <1>6, <1>8 DEF InBand, Live
  <2>3. {u[j].pos : j \in InBand(u, old)} = {v[j].pos : j \in InBand(v, old)}
    BY <2>1, <2>2
  <2> QED BY <1>3, <1>8, <2>1, <2>3 DEF Dense
<1>9. ASSUME index >= n PROVE \A j \in Siblings(u, x) : Precedes(u, j, x)
  <2>1. index >= Cardinality(Siblings(u, x))
    <3>1. IsFiniteSet(Siblings(u, x)) /\ Cardinality(Siblings(u, x)) \in Nat
      <4>1. Siblings(u, x) \in SUBSET DOMAIN u /\ DOMAIN u \subseteq 1..n
        BY <1>5 DEF Siblings, InBand, Live, Table
      <4> QED BY <4>1, SubtableFinite
    <3> QED BY <1>6, <1>9, <3>1
  <2> QED BY <1>6, <2>1
<1> QED BY <1>2, <1>4, <1>6, <1>7, <1>8, <1>9 DEF u, v, Rehome

\* update_workflow_state writes the state, and the assignment if there is a rule.
LEMMA EnterRow ==
  ASSUME NEW n \in Nat, NEW t, Table(t, n), NEW x \in DOMAIN t, NEW s \in States,
         rules \in [States -> Rule \cup {None}]
  PROVE  LET u == EnterState(t, x, s)
         IN  /\ DOMAIN u = DOMAIN t
             /\ \A j \in DOMAIN t \ {x} : u[j] = t[j]
             /\ u[x].state = s /\ u[x].priority = t[x].priority
             /\ u[x].pos = t[x].pos /\ u[x].archived = t[x].archived
<1> DEFINE u == EnterState(t, x, s)
<1>1. t \in [DOMAIN t -> Issue] /\ t[x] \in Issue
  BY DEF Table
<1>2. \/ s = t[x].state /\ u = t
      \/ u = [t EXCEPT ![x].state = s]
      \/ u = [t EXCEPT ![x].state = s, ![x].group = rules[s].group, ![x].user = rules[s].user]
  BY DEF EnterState
<1> HIDE DEF u
<1>3. CASE s = t[x].state /\ u = t
  BY <1>3 DEF u
<1>4. CASE u = [t EXCEPT ![x].state = s]
  BY <1>1, <1>4 DEF u, Issue
<1>5. CASE u = [t EXCEPT ![x].state = s, ![x].group = rules[s].group, ![x].user = rules[s].user]
  <2>1. u[x] = [t[x] EXCEPT !.state = s, !.group = rules[s].group, !.user = rules[s].user]
    BY <1>1, <1>5
  <2>2. u[x].state = s /\ u[x].priority = t[x].priority /\ u[x].pos = t[x].pos /\ u[x].archived = t[x].archived
    BY <1>1, <2>1 DEF Issue
  <2>3. DOMAIN u = DOMAIN t /\ \A j \in DOMAIN t \ {x} : u[j] = t[j]
    BY <1>1, <1>5
  <2> QED BY <2>2, <2>3 DEF u
<1> QED BY <1>2, <1>3, <1>4, <1>5

\* The fields of an edit leave the state, the position and the archive flag.
LEMMA EditRow ==
  ASSUME IInv, NEW i \in DOMAIN issues, NEW p \in Priorities, NEW g \in Groups \cup {None},
         NEW u \in Users \cup {None}
  PROVE  LET edited == EditFields(i, p, g, u)
         IN  /\ DOMAIN edited = DOMAIN issues
             /\ \A j \in DOMAIN issues \ {i} : edited[j] = issues[j]
             /\ edited[i].state = issues[i].state /\ edited[i].priority = p
             /\ edited[i].pos = issues[i].pos /\ edited[i].archived = issues[i].archived
<1>1. issues \in [DOMAIN issues -> Issue] /\ issues[i] \in Issue
  BY DEF IInv, TypeOK
<1> DEFINE row == [issues[i] EXCEPT !.priority = p, !.group = g, !.user = u]
           edited == EditFields(i, p, g, u)
<1>2. /\ DOMAIN edited = DOMAIN issues
      /\ edited[i] = row
      /\ \A j \in DOMAIN issues \ {i} : edited[j] = issues[j]
  BY <1>1 DEF EditFields
<1>3. /\ row.state = issues[i].state /\ row.priority = p
      /\ row.pos = issues[i].pos /\ row.archived = issues[i].archived
  BY <1>1 DEF Issue
<1> HIDE DEF row, edited
<1>4. QED BY <1>2, <1>3 DEF edited

-----------------------------------------------------------------------------
(* What a request does besides, and what its answer and events say of it.  *)

\* The step formulas of FailureTouchesOnlySubject, of SuccessIsAnnounced for the
\* request's own issue, and of RequestsKeepDistinct.
FailureSpares ==
  ~last'.ok => /\ DOMAIN issues' = DOMAIN issues
               /\ Live(issues') = Live(issues)
               /\ \A i \in DOMAIN issues \ {last'.issue} : issues'[i] = issues[i]

OwnChangeTold ==
  LET i == last'.issue
  IN last'.ok /\ i \in DOMAIN issues \cap DOMAIN issues' /\ Changed(issues', i) => "updated" \in last'.events

StaysDistinct ==
  /\ last'.ok /\ last'.op \in {"create", "update", "comment", "archive", "move"}
  /\ PositionsDistinct
  => PositionsDistinct'

Tells == FailureSpares /\ ClosedEventIffClosed /\ OwnChangeTold /\ StaysDistinct /\ NewcomersGoLast

\* What Respond records.
LEMMA Responded ==
  ASSUME NEW op, NEW x, NEW ok, NEW events, Respond(op, x, ok, events)
  PROVE  last'.op = op /\ last'.issue = x /\ last'.ok = ok /\ last'.events = events
BY DEF Respond

\* PositionsDistinct in terms of the table.
LEMMA DistinctIs ==
  /\ PositionsDistinct <=> Distinct(issues, Live(issues))
  /\ PositionsDistinct' <=> Distinct(issues', Live(issues'))
BY DEF PositionsDistinct, Distinct

\* Distinct positions are a matter of bands and positions alone.
LEMMA DistinctCarries ==
  ASSUME NEW t, NEW u, NEW S, NEW T \in SUBSET S, Distinct(t, S),
         \A j \in T : u[j].pos = t[j].pos /\ Band(u, j) = Band(t, j)
  PROVE  Distinct(u, T)
BY DEF Distinct

\* A request that leaves the table alone.
LEMMA NothingDone ==
  ASSUME issues' = issues, "closed" \notin last'.events, last'.op \notin {"create", "update"}
  PROVE  Tells
<1>1. FailureSpares
  BY DEF FailureSpares
<1>2. ClosedEventIffClosed
  BY DEF ClosedEventIffClosed
<1>3. OwnChangeTold
  BY DEF OwnChangeTold, Changed
<1>4. StaysDistinct
  BY DistinctIs DEF StaysDistinct
<1>5. NewcomersGoLast
  BY DEF NewcomersGoLast
<1> QED BY <1>1, <1>2, <1>3, <1>4, <1>5 DEF Tells

\* Renumbering after an edit does not show in the events.
LEMMA EventsOfEntered ==
  ASSUME NEW t, NEW u, NEW i,
         u[i].state = t[i].state, u[i].priority = t[i].priority,
         u[i].group = t[i].group, u[i].user = t[i].user
  PROVE  /\ "closed" \in ClosedEvent(t, i) <=> u[i].state = Closed /\ issues[i].state # Closed
         /\ "updated" \in UpdatedEvent(t, i) <=> Changed(u, i)
         /\ "closed" \notin UpdatedEvent(t, i) /\ "closed" \notin QueueEvent(t, i)
<1>1. Changed(u, i) <=> Changed(t, i)
  BY DEF Changed
<1>2. "closed" # "updated" /\ "closed" # "queue_assigned"
  OBVIOUS
<1>3. "updated" \in UpdatedEvent(t, i) <=> Changed(u, i)
  BY <1>1 DEF UpdatedEvent
<1>4. "closed" \in ClosedEvent(t, i) <=> u[i].state = Closed /\ issues[i].state # Closed
  BY DEF ClosedEvent
<1>5. "closed" \notin UpdatedEvent(t, i) /\ "closed" \notin QueueEvent(t, i)
  BY <1>2 DEF UpdatedEvent, QueueEvent
<1> QED BY <1>3, <1>4, <1>5

\* A creation.
LEMMA CreateTells ==
  ASSUME IInv, NEW s \in States, NEW p \in Priorities, NEW g \in Groups \cup {None},
         NEW u \in Users \cup {None}, CreateIssue(s, p, g, u)
  PROVE  Tells
<1>1. PICK x : x = nextPk
  OBVIOUS
<1>2. /\ last'.op = "create" /\ last'.issue = x /\ last'.ok = TRUE /\ last'.events = {"created"}
      /\ DOMAIN issues' = DOMAIN issues \cup {x}
  <2>1. Respond("create", nextPk, TRUE, {"created"}) /\ DOMAIN issues' = DOMAIN issues \cup {nextPk}
    BY DEF CreateIssue
  <2> QED BY <1>1, <2>1, Responded
<1>3. x \notin DOMAIN issues
  BY <1>1 DEF IInv, TypeOK
<1>4. OneMoves /\ IInv'
  BY CreateStep
<1>5. /\ \A j \in DOMAIN issues : /\ issues'[j] = issues[j]
                                  /\ Band(issues, j) = Band(issues', x) => issues[j].pos < issues'[x].pos
      /\ ~issues'[x].archived
  <2>1. ~Rewrites(issues, issues', x)
    BY <1>2, <1>3 DEF Rewrites
  <2>2. ~(x \in DOMAIN issues /\ issues' = [j \in DOMAIN issues \ {x} |-> issues[j]])
    BY <1>3
  <2> QED BY <1>2, <1>4, <2>1, <2>2 DEF OneMoves
<1>6. \A j \in DOMAIN issues : issues[j].pos \in Int /\ issues'[x].pos \in Int
  <2>1. \A j \in DOMAIN issues' : issues'[j].pos \in Int
    BY <1>4 DEF IInv, PositionsBounded
  <2> QED BY <1>2, <1>5, <2>1
<1>7. FailureSpares /\ OwnChangeTold
  BY <1>2, <1>3 DEF FailureSpares, OwnChangeTold
<1>8. ClosedEventIffClosed
  <2>1. "closed" \notin {"created"}
    OBVIOUS
  <2> QED BY <1>2, <1>3, <2>1 DEF ClosedEventIffClosed
<1>9. StaysDistinct
  <2>1. SUFFICES ASSUME PositionsDistinct, NEW i \in Live(issues'), NEW j \in Live(issues'),
                        i # j, Band(issues', i) = Band(issues', j)
                 PROVE  issues'[i].pos # issues'[j].pos
    BY DEF StaysDistinct, PositionsDistinct
  <2>2. i \in DOMAIN issues \cup {x} /\ j \in DOMAIN issues \cup {x}
    BY <1>2 DEF Live
  <2>3. CASE i = x
    <3>1. j \in DOMAIN issues /\ Band(issues, j) = Band(issues', x)
      BY <1>5, <2>1, <2>2, <2>3 DEF Band
    <3> QED BY <1>5, <1>6, <2>3, <3>1
  <2>4. CASE j = x
    <3>1. i \in DOMAIN issues /\ Band(issues, i) = Band(issues', x)
      BY <1>5, <2>1, <2>2, <2>4 DEF Band
    <3> QED BY <1>5, <1>6, <2>4, <3>1
  <2>5. CASE i # x /\ j # x
    <3>1. i \in Live(issues) /\ j \in Live(issues) /\ Band(issues, i) = Band(issues, j)
      BY <1>5, <2>1, <2>2, <2>5 DEF Band, Live
    <3> QED BY <1>5, <2>1, <2>2, <2>5, <3>1 DEF PositionsDistinct
  <2> QED BY <2>3, <2>4, <2>5
<1>10. NewcomersGoLast
  <2>1. ASSUME NEW j \in Siblings(issues', x) PROVE Precedes(issues', j, x)
    <3>1. j \in DOMAIN issues /\ Band(issues', j) = Band(issues', x)
      BY <1>2 DEF Siblings, InBand, Live
    <3>2. issues'[j] = issues[j] /\ Band(issues, j) = Band(issues', x)
      BY <1>5, <3>1 DEF Band
    <3> QED BY <1>5, <3>1, <3>2 DEF Precedes
  <2> QED BY <1>2, <2>1 DEF NewcomersGoLast
<1> QED BY <1>7, <1>8, <1>9, <1>10 DEF Tells

\* An update, also one that stops half-way.
LEMMA UpdateTells ==
  ASSUME IInv, NEW i \in DOMAIN issues, NEW s \in States, NEW p \in Priorities,
         NEW g \in Groups \cup {None}, NEW u \in Users \cup {None}, UpdateIssue(i, s, p, g, u)
  PROVE  Tells
<1> DEFINE n == nextPk - 1
           edited == EditFields(i, p, g, u)
           entered == EnterState(edited, i, s)
           placed == Rehome(entered, i, Band(issues, i), AtEnd)
<1>1. PICK moved \in BOOLEAN : moved <=> Band(entered, i) # Band(issues, i)
  OBVIOUS
<1>2. /\ Table(issues, n) /\ n \in Nat /\ n <= MaxIssues /\ i \in Live(issues)
      /\ rules \in [States -> Rule \cup {None}]
  BY Existing, ConstantsAssumption DEF UpdateIssue, IInv, TypeOK
<1>3. /\ Table(edited, n) /\ DOMAIN edited = DOMAIN issues
      /\ \A j \in DOMAIN issues \ {i} : edited[j] = issues[j]
      /\ edited[i].state = issues[i].state
      /\ edited[i].pos = issues[i].pos /\ edited[i].archived = issues[i].archived
  BY FieldsEdited, EditRow
<1>4. /\ last'.op = "update" /\ last'.issue = i
      /\ \/ /\ last'.ok = TRUE
            /\ issues' = IF moved THEN placed ELSE entered
            /\ last'.events = ClosedEvent(entered, i) \cup UpdatedEvent(entered, i) \cup QueueEvent(entered, i)
         \/ /\ last'.ok = FALSE /\ issues' = edited /\ last'.events = {}
         \/ /\ last'.ok = FALSE /\ issues' = entered /\ last'.events = ClosedEvent(entered, i)
  BY <1>1, Responded DEF UpdateIssue
<1> HIDE DEF edited
<1>5. /\ Table(entered, n) /\ DOMAIN entered = DOMAIN issues
      /\ \A j \in DOMAIN issues \ {i} : entered[j] = issues[j]
      /\ entered[i].pos = issues[i].pos /\ entered[i].archived = issues[i].archived
  BY <1>2, <1>3, EnterFacts, EnterRow
<1> HIDE DEF entered
<1>6. i \in Live(entered) /\ Live(entered) = Live(issues) /\ Live(edited) = Live(issues)
  BY <1>2, <1>3, <1>5 DEF Live
<1>7. /\ Renumbers(entered, placed)
      /\ Distinct(entered, Live(entered) \ {i}) => Distinct(placed, Live(entered))
      /\ AtEnd >= n => \A j \in Siblings(placed, i) : Precedes(placed, j, i)
  BY <1>2, <1>5, <1>6, RehomePlaces, ConstantsAssumption DEF AtEnd
<1> HIDE DEF placed
<1>8. /\ DOMAIN placed = DOMAIN issues /\ Live(placed) = Live(entered)
      /\ placed[i].state = entered[i].state /\ placed[i].priority = entered[i].priority
      /\ placed[i].group = entered[i].group /\ placed[i].user = entered[i].user
  <2>1. /\ \A j \in DOMAIN entered : /\ placed[j].state = entered[j].state
                                     /\ placed[j].priority = entered[j].priority
                                     /\ placed[j].group = entered[j].group
                                     /\ placed[j].user = entered[j].user
        /\ Live(placed) = Live(entered)
    BY <1>5, <1>7, RenumbersFields
  <2> QED BY <1>5, <1>7, <2>1 DEF Renumbers
<1>9. FailureSpares
  BY <1>3, <1>4, <1>5, <1>6 DEF FailureSpares
<1>10. i \in DOMAIN issues \cap DOMAIN issues'
  BY <1>3, <1>4, <1>5, <1>8
<1>11. ClosedEventIffClosed
  <2>1. CASE last'.ok
    <3>1. /\ issues'[i].state = entered[i].state /\ issues'[i].priority = entered[i].priority
          /\ issues'[i].group = entered[i].group /\ issues'[i].user = entered[i].user
      BY <1>4, <1>8, <2>1
    <3>2. "closed" \in last'.events <=> issues'[i].state = Closed /\ issues[i].state # Closed
      BY <1>4, <2>1, <3>1, EventsOfEntered
    <3> QED BY <1>4, <1>10, <3>2 DEF ClosedEventIffClosed
  <2>2. CASE issues' = edited /\ last'.events = {}
    BY <1>3, <1>4, <2>2 DEF ClosedEventIffClosed
  <2>3. CASE issues' = entered /\ last'.events = ClosedEvent(entered, i)
    <3>1. "closed" \in last'.events <=> entered[i].state = Closed /\ issues[i].state # Closed
      BY <2>3, EventsOfEntered
    <3> QED BY <1>4, <1>10, <2>3, <3>1 DEF ClosedEventIffClosed
  <2> QED BY <1>4, <2>1, <2>2, <2>3
<1>12. OwnChangeTold
  <2>1. SUFFICES ASSUME last'.ok, Changed(issues', i) PROVE "updated" \in last'.events
    BY <1>4 DEF OwnChangeTold
  <2>2. /\ issues'[i].state = entered[i].state /\ issues'[i].priority = entered[i].priority
        /\ issues'[i].group = entered[i].group /\ issues'[i].user = entered[i].user
    BY <1>4, <1>8, <2>1
  <2>3. "updated" \in UpdatedEvent(entered, i)
    BY <2>1, <2>2, EventsOfEntered
  <2> QED BY <1>4, <2>1, <2>3
<1>13. StaysDistinct
  <2>1. SUFFICES ASSUME last'.ok, Distinct(issues, Live(issues))
                 PROVE  Distinct(issues', Live(issues'))
    BY DistinctIs DEF StaysDistinct
  <2>2. \A j \in DOMAIN issues \ {i} : entered[j].pos = issues[j].pos /\ Band(entered, j) = Band(issues, j)
    BY <1>5 DEF Band
  <2>3. CASE moved
    <3>1. Live(entered) \ {i} \in SUBSET Live(issues)
      BY <1>6
    <3>2. \A j \in Live(entered) \ {i} : entered[j].pos = issues[j].pos /\ Band(entered, j) = Band(issues, j)
      BY <1>6, <2>2 DEF Live
    <3>3. Distinct(entered, Live(entered) \ {i})
      BY <2>1, <3>1, <3>2, DistinctCarries
    <3>4. issues' = placed
      BY <1>4, <2>1, <2>3
    <3> QED BY <1>7, <1>8, <3>3, <3>4
  <2>4. CASE ~moved
    <3>1. Band(entered, i) = Band(issues, i)
      BY <1>1, <2>4
    <3>2. \A j \in Live(issues) : entered[j].pos = issues[j].pos /\ Band(entered, j) = Band(issues, j)
      BY <1>5, <2>2, <3>1 DEF Live
    <3>3. Distinct(entered, Live(issues))
      BY <2>1, <3>2, DistinctCarries
    <3>4. issues' = entered
      BY <1>4, <2>1, <2>4
    <3> QED BY <1>6, <3>3, <3>4
  <2> QED BY <2>3, <2>4
<1>14. NewcomersGoLast
  <2>1. SUFFICES ASSUME last'.ok, Band(issues, i) # Band(issues', i)
                 PROVE  \A j \in Siblings(issues', i) : Precedes(issues', j, i)
    BY <1>4 DEF NewcomersGoLast
  <2>2. moved
    BY <1>1, <1>4, <2>1
  <2>3. issues' = placed
    BY <1>4, <2>1, <2>2
  <2>4. AtEnd >= n
    BY <1>2, ConstantsAssumption DEF AtEnd
  <2> QED BY <1>7, <2>3, <2>4
<1> QED BY <1>9, <1>11, <1>12, <1>13, <1>14 DEF Tells

\* A comment, also one whose touch fails.
LEMMA CommentTells ==
  ASSUME NEW i \in DOMAIN issues, AddIssueComment(i)
  PROVE  Tells
<1>1. /\ issues' = issues /\ last'.op = "comment" /\ last'.events = {"commented"}
  BY Responded DEF AddIssueComment
<1>2. "closed" \notin {"commented"} /\ "comment" \notin {"create", "update"}
  OBVIOUS
<1> QED BY <1>1, <1>2, NothingDone

\* Archiving closes up the band that the issue leaves.
LEMMA ArchiveTells ==
  ASSUME IInv, NEW i \in DOMAIN issues, ArchiveIssue(i)
  PROVE  Tells
<1> DEFINE n == nextPk - 1
           archived == [issues EXCEPT ![i].archived = TRUE]
           normal == NormalizeBand(archived, Band(issues, i), i)
<1>1. Table(issues, n) /\ n \in Nat /\ issues \in [DOMAIN issues -> Issue] /\ issues[i] \in Issue
  BY Existing DEF Table
<1>2. /\ last'.op = "archive" /\ last'.issue = i /\ last'.events = {}
      /\ \/ last'.ok = TRUE /\ issues' = normal
         \/ last'.ok = FALSE /\ issues' = issues
  <2>1. PICK ok : /\ issues' = IF ok THEN normal ELSE issues
                  /\ Respond("archive", i, ok, {})
                  /\ ok \in BOOLEAN
    BY OutcomesTyped DEF ArchiveIssue
  <2> QED BY <2>1, Responded
<1>3. /\ archived \in [DOMAIN issues -> Issue] /\ archived[i].archived
      /\ archived[i].pos = issues[i].pos /\ archived[i].state = issues[i].state
      /\ archived[i].priority = issues[i].priority
      /\ archived[i].group = issues[i].group /\ archived[i].user = issues[i].user
      /\ \A j \in DOMAIN issues \ {i} : archived[j] = issues[j]
  BY <1>1 DEF Issue
<1> HIDE DEF archived
<1>4. Table(archived, n) /\ DOMAIN archived = DOMAIN issues
  BY <1>1, <1>3, EditFacts
<1>5. /\ Renumbers(archived, normal)
      /\ Distinct(archived, Live(archived) \ {i}) => Distinct(normal, Live(archived) \ {i})
  BY <1>1, <1>4, NormalizeFacts, NormalizePlaces
<1> HIDE DEF normal
<1>6. /\ \A j \in DOMAIN archived : /\ normal[j].state = archived[j].state
                                    /\ normal[j].priority = archived[j].priority
                                    /\ normal[j].group = archived[j].group
                                    /\ normal[j].user = archived[j].user
      /\ Live(normal) = Live(archived)
  BY <1>4, <1>5, RenumbersFields
<1>7. CASE last'.ok = TRUE /\ issues' = normal
  <2>1. FailureSpares
    BY <1>7 DEF FailureSpares
  <2>2. /\ issues'[i].state = issues[i].state /\ issues'[i].priority = issues[i].priority
        /\ issues'[i].group = issues[i].group /\ issues'[i].user = issues[i].user
    BY <1>3, <1>4, <1>6, <1>7
  <2>3. ClosedEventIffClosed /\ OwnChangeTold
    BY <1>2, <2>2 DEF ClosedEventIffClosed, OwnChangeTold, Changed
  <2>4. StaysDistinct
    <3>1. SUFFICES ASSUME Distinct(issues, Live(issues)) PROVE Distinct(issues', Live(issues'))
      BY DistinctIs DEF StaysDistinct
    <3>2. Live(archived) \ {i} = Live(archived) /\ Live(archived) \in SUBSET Live(issues)
      BY <1>3, <1>4 DEF Live
    <3>3. \A j \in Live(archived) \ {i} : archived[j].pos = issues[j].pos /\ Band(archived, j) = Band(issues, j)
      BY <1>3, <1>4 DEF Live, Band
    <3>4. Distinct(archived, Live(archived) \ {i})
      BY <3>1, <3>2, <3>3, DistinctCarries
    <3> QED BY <1>5, <1>6, <1>7, <3>2, <3>4
  <2>5. NewcomersGoLast
    BY <1>2 DEF NewcomersGoLast
  <2> QED BY <2>1, <2>3, <2>4, <2>5 DEF Tells
<1>8. CASE issues' = issues
  <2>1. "archive" \notin {"create", "update"} /\ "closed" \notin {}
    OBVIOUS
  <2> QED BY <1>2, <1>8, <2>1, NothingDone
<1> QED BY <1>2, <1>7, <1>8

\* A move, carried out or rolled back.
LEMMA MoveTells ==
  ASSUME IInv, NEW i \in DOMAIN issues, NEW s \in BoardStates, NEW index \in 0..MaxIssues,
         MoveIssue(i, s, index)
  PROVE  Tells
<1> DEFINE n == nextPk - 1
           entered == EnterState(issues, i, s)
           placed == Rehome(entered, i, Band(issues, i), index)
<1>1. /\ Table(issues, n) /\ n \in Nat /\ i \in Live(issues) /\ s \in States /\ index \in Nat
      /\ rules \in [States -> Rule \cup {None}]
  BY Existing, ConstantsAssumption DEF MoveIssue
<1>2. /\ last'.op = "move" /\ last'.issue = i
      /\ \/ /\ last'.ok = TRUE /\ issues' = placed
            /\ last'.events = ClosedEvent(entered, i) \cup UpdatedEvent(entered, i)
         \/ last'.ok = FALSE /\ issues' = issues /\ last'.events = {}
  <2>1. PICK ok : /\ issues' = IF ok THEN placed ELSE issues
                  /\ Respond("move", i, ok,
                             IF ok THEN ClosedEvent(entered, i) \cup UpdatedEvent(entered, i) ELSE {})
                  /\ ok \in BOOLEAN
    BY OutcomesTyped DEF MoveIssue
  <2> QED BY <2>1, Responded
<1>3. /\ Table(entered, n) /\ DOMAIN entered = DOMAIN issues
      /\ \A j \in DOMAIN issues \ {i} : entered[j] = issues[j]
      /\ entered[i].pos = issues[i].pos /\ entered[i].archived = issues[i].archived
  BY <1>1, EnterFacts, EnterRow
<1> HIDE DEF entered
<1>4. i \in Live(entered) /\ Live(entered) = Live(issues)
  BY <1>1, <1>3 DEF Live
<1>5. /\ Renumbers(entered, placed)
      /\ Distinct(entered, Live(entered) \ {i}) => Distinct(placed, Live(entered))
  BY <1>1, <1>3, <1>4, RehomePlaces
<1> HIDE DEF placed
<1>6. /\ \A j \in DOMAIN entered : /\ placed[j].state = entered[j].state
                                   /\ placed[j].priority = entered[j].priority
                                   /\ placed[j].group = entered[j].group
                                   /\ placed[j].user = entered[j].user
      /\ Live(placed) = Live(entered)
  BY <1>3, <1>5, RenumbersFields
<1>7. CASE /\ last'.ok = TRUE /\ issues' = placed
           /\ last'.events = ClosedEvent(entered, i) \cup UpdatedEvent(entered, i)
  <2>1. FailureSpares
    BY <1>7 DEF FailureSpares
  <2>2. /\ issues'[i].state = entered[i].state /\ issues'[i].priority = entered[i].priority
        /\ issues'[i].group = entered[i].group /\ issues'[i].user = entered[i].user
        /\ i \in DOMAIN issues \cap DOMAIN issues'
    BY <1>3, <1>5, <1>6, <1>7 DEF Renumbers
  <2>3. /\ "closed" \in ClosedEvent(entered, i) <=> issues'[i].state = Closed /\ issues[i].state # Closed
        /\ "updated" \in UpdatedEvent(entered, i) <=> Changed(issues', i)
        /\ "closed" \notin UpdatedEvent(entered, i)
    BY <2>2, EventsOfEntered
  <2>4. ClosedEventIffClosed
    BY <1>2, <1>7, <2>2, <2>3 DEF ClosedEventIffClosed
  <2>5. OwnChangeTold
    BY <1>2, <1>7, <2>3 DEF OwnChangeTold
  <2>6. StaysDistinct
    <3>1. SUFFICES ASSUME Distinct(issues, Live(issues)) PROVE Distinct(issues', Live(issues'))
      BY DistinctIs DEF StaysDistinct
    <3>2. Live(entered) \ {i} \in SUBSET Live(issues)
      BY <1>4
    <3>3. \A j \in Live(entered) \ {i} : entered[j].pos = issues[j].pos /\ Band(entered, j) = Band(issues, j)
      BY <1>3 DEF Live, Band
    <3>4. Distinct(entered, Live(entered) \ {i})
      BY <3>1, <3>2, <3>3, DistinctCarries
    <3> QED BY <1>5, <1>6, <1>7, <3>4
  <2>7. NewcomersGoLast
    BY <1>2 DEF NewcomersGoLast
  <2> QED BY <2>1, <2>4, <2>5, <2>6, <2>7 DEF Tells
<1>8. CASE issues' = issues /\ last'.events = {}
  <2>1. "move" \notin {"create", "update"} /\ "closed" \notin {}
    OBVIOUS
  <2> QED BY <1>2, <1>8, <2>1, NothingDone
<1> QED BY <1>2, <1>7, <1>8

\* An edit in the admin, which renumbers nothing.
LEMMA AdminEditTells ==
  ASSUME IInv, NEW i \in DOMAIN issues, NEW s \in States, NEW p \in Priorities,
         NEW g \in Groups \cup {None}, NEW u \in Users \cup {None}, AdminEditIssue(i, s, p, g, u)
  PROVE  Tells
<1> DEFINE edited == EditFields(i, p, g, u)
           entered == EnterState(edited, i, s)
           events == ClosedEvent(entered, i) \cup UpdatedEvent(entered, i) \cup QueueEvent(entered, i)
<1>1. /\ last'.op = "admin" /\ last'.issue = i
      /\ \/ last'.ok = TRUE /\ issues' = entered /\ last'.events = events
         \/ last'.ok = FALSE /\ issues' = issues /\ last'.events = {}
  <2>1. PICK ok : /\ issues' = IF ok THEN entered ELSE issues
                  /\ Respond("admin", i, ok, IF ok THEN events ELSE {})
                  /\ ok \in BOOLEAN
    BY OutcomesTyped DEF AdminEditIssue
  <2> QED BY <2>1, Responded
<1>2. DOMAIN entered = DOMAIN issues
  BY DEF EnterState, EditFields
<1> HIDE DEF entered
<1>3. CASE last'.ok = TRUE /\ issues' = entered /\ last'.events = events
  <2>1. /\ "closed" \in ClosedEvent(entered, i) <=> entered[i].state = Closed /\ issues[i].state # Closed
        /\ "updated" \in UpdatedEvent(entered, i) <=> Changed(entered, i)
        /\ "closed" \notin UpdatedEvent(entered, i) /\ "closed" \notin QueueEvent(entered, i)
    BY EventsOfEntered
  <2>2. ClosedEventIffClosed
    BY <1>1, <1>2, <1>3, <2>1 DEF ClosedEventIffClosed
  <2>3. OwnChangeTold
    BY <1>1, <1>3, <2>1 DEF OwnChangeTold
  <2>4. FailureSpares /\ StaysDistinct /\ NewcomersGoLast
    BY <1>1, <1>3 DEF FailureSpares, StaysDistinct, NewcomersGoLast
  <2> QED BY <2>2, <2>3, <2>4 DEF Tells
<1>4. CASE issues' = issues /\ last'.events = {}
  <2>1. "admin" \notin {"create", "update"} /\ "closed" \notin {}
    OBVIOUS
  <2> QED BY <1>1, <1>4, <2>1, NothingDone
<1> QED BY <1>1, <1>3, <1>4

\* A deletion, which tells nobody.
LEMMA AdminDeleteTells ==
  ASSUME NEW i \in DOMAIN issues, AdminDeleteIssue(i)
  PROVE  Tells
<1>1. /\ last'.op = "delete" /\ last'.issue = i /\ last'.ok = TRUE /\ last'.events = {}
      /\ i \notin DOMAIN issues'
  BY Responded DEF AdminDeleteIssue
<1> QED BY <1>1 DEF Tells, FailureSpares, ClosedEventIffClosed, OwnChangeTold, StaysDistinct, NewcomersGoLast

\* Every request does and tells what its answer says.
LEMMA NextTells ==
  ASSUME IInv, Next
  PROVE  Tells
<1>1. ASSUME issues' = issues, Respond("configure", 0, TRUE, {}) PROVE Tells
  <2>1. last'.op = "configure" /\ last'.events = {}
    BY <1>1, Responded
  <2>2. "configure" \notin {"create", "update"} /\ "closed" \notin {}
    OBVIOUS
  <2> QED BY <1>1, <2>1, <2>2, NothingDone
<1>2. CASE BoardRequest
  <2>1. CASE \E s \in States, p \in Priorities, g \in Groups \cup {None}, u \in Users \cup {None} :
               CreateIssue(s, p, g, u)
    BY <2>1, CreateTells
  <2>2. CASE \E s \in States, p \in Priorities, g \in Groups \cup {None}, u \in Users \cup {None},
                i \in DOMAIN issues : UpdateIssue(i, s, p, g, u)
    BY <2>2, UpdateTells
  <2>3. CASE \E i \in DOMAIN issues : AddIssueComment(i)
    BY <2>3, CommentTells
  <2>4. CASE \E i \in DOMAIN issues : ArchiveIssue(i)
    BY <2>4, ArchiveTells
  <2>5. CASE \E i \in DOMAIN issues, s \in BoardStates, index \in 0..MaxIssues :
               MoveIssue(i, s, index)
    BY <2>5, MoveTells
  <2> QED BY <1>2, <2>1, <2>2, <2>3, <2>4, <2>5 DEF BoardRequest
<1>3. CASE AdminRequest
  <2>1. CASE \E i \in DOMAIN issues, s \in States, p \in Priorities, g \in Groups \cup {None},
                u \in Users \cup {None} : AdminEditIssue(i, s, p, g, u)
    BY <2>1, AdminEditTells
  <2>2. CASE \E i \in DOMAIN issues : AdminDeleteIssue(i)
    BY <2>2, AdminDeleteTells
  <2>3. CASE \E u \in Users, g \in Groups : SetMembership(u, g)
    BY <1>1, <2>3 DEF SetMembership
  <2>4. CASE \E s \in States, r \in Rule \cup {None} : SetRule(s, r)
    BY <1>1, <2>4 DEF SetRule
  <2> QED BY <1>3, <2>1, <2>2, <2>3, <2>4 DEF AdminRequest
<1> QED BY <1>2, <1>3 DEF Next

\* A move displays the issue at the index, and both bands without gaps.
LEMMA MoveLands ==
  ASSUME IInv, IInv'
  PROVE  MoveLandsAtIndex
<1>1. PICK i : i = last'.issue
  OBVIOUS
<1>2. PICK s : s = issues'[i].state
  OBVIOUS
<1> SUFFICES ASSUME last'.op = "move", last'.ok, NEW index \in 0..MaxIssues, MoveIssue(i, s, index)
             PROVE  /\ DisplayIndex(issues', i) = IF index < Cardinality(Siblings(issues', i))
                                                  THEN index ELSE Cardinality(Siblings(issues', i))
                    /\ Dense(issues', Band(issues', i))
                    /\ Band(issues, i) # Band(issues', i) => Dense(issues', Band(issues, i))
  BY <1>1, <1>2 DEF MoveLandsAtIndex
<1> DEFINE n == nextPk - 1
           entered == EnterState(issues, i, s)
           placed == Rehome(entered, i, Band(issues, i), index)
<1>3. i \in Live(issues) /\ i \in DOMAIN issues
  BY DEF MoveIssue, Live
<1>4. issues' = placed
  <2>1. PICK ok : /\ issues' = IF ok THEN placed ELSE issues
                  /\ Respond("move", i, ok,
                             IF ok THEN ClosedEvent(entered, i) \cup UpdatedEvent(entered, i) ELSE {})
                  /\ ok \in BOOLEAN
    BY OutcomesTyped DEF MoveIssue
  <2>2. last'.ok = ok
    BY <2>1, Responded
  <2> QED BY <2>1, <2>2
<1>5. DOMAIN issues' = DOMAIN issues
  BY <1>4 DEF EnterState, Rehome, NormalizeBand, InsertIntoBand
<1>6. s \in States
  BY <1>2, <1>3, <1>5 DEF IInv, TypeOK, Issue
<1>7. /\ Table(issues, n) /\ n \in Nat /\ rules \in [States -> Rule \cup {None}] /\ index \in Nat
  BY <1>3, Existing, ConstantsAssumption
<1>8. /\ Table(entered, n) /\ DOMAIN entered = DOMAIN issues
      /\ entered[i].archived = issues[i].archived
  BY <1>3, <1>6, <1>7, EnterFacts, EnterRow
<1> HIDE DEF entered
<1>9. i \in Live(entered)
  BY <1>3, <1>8 DEF Live
<1>10. /\ Renumbers(entered, placed)
       /\ Dense(placed, Band(entered, i))
       /\ Band(entered, i) # Band(issues, i) => Dense(placed, Band(issues, i))
       /\ DisplayIndex(placed, i) = IF index < Cardinality(Siblings(placed, i))
                                    THEN index ELSE Cardinality(Siblings(placed, i))
  BY <1>7, <1>8, <1>9, RehomePlaces, ZenonT(60)
<1> HIDE DEF placed
<1>11. Band(placed, i) = Band(entered, i)
  BY <1>3, <1>8, <1>10, RenumbersFields
<1> QED BY <1>4, <1>10, <1>11

\* What a request does to other issues changes none of the tracked fields.
LEMMA OthersUnchanged ==
  ASSUME IInv, OneMoves, NEW j \in DOMAIN issues \cap DOMAIN issues', Changed(issues', j)
  PROVE  j = last'.issue
<1>1. PICK x : x = last'.issue
  OBVIOUS
<1>2. SUFFICES ASSUME j # x PROVE FALSE
  BY <1>1
<1>3. issues[j] \in Issue
  BY DEF IInv, TypeOK
<1>4. issues'[j] = [issues[j] EXCEPT !.pos = issues'[j].pos] \/ issues'[j] = issues[j]
  BY <1>1, <1>2 DEF OneMoves, Rewrites
<1> QED BY <1>3, <1>4 DEF Changed, Issue

\* What the board's properties say of a step.
LEMMA StepTells ==
  ASSUME IInv, [Next]_vars
  PROVE  /\ [FailureSpares]_vars
         /\ [ClosedEventIffClosed /\ SuccessIsAnnounced]_vars
         /\ [StaysDistinct]_vars
         /\ [MoveLandsAtIndex /\ NewcomersGoLast]_vars
<1>1. CASE Next
  <2>1. Tells /\ OneMoves /\ IInv'
    BY <1>1, NextTells, NextStep
  <2>2. SuccessIsAnnounced
    <3>1. SUFFICES ASSUME NEW i \in DOMAIN issues \cap DOMAIN issues', last'.ok, Changed(issues', i)
                   PROVE  i = last'.issue /\ "updated" \in last'.events
      BY DEF SuccessIsAnnounced
    <3>2. i = last'.issue
      BY <2>1, <3>1, OthersUnchanged
    <3> QED BY <2>1, <3>1, <3>2 DEF Tells, OwnChangeTold
  <2>3. MoveLandsAtIndex
    BY <2>1, MoveLands
  <2> QED BY <2>1, <2>2, <2>3 DEF Tells
<1>2. CASE UNCHANGED vars
  BY <1>2
<1> QED BY <1>1, <1>2

\* A request that fails half-way has written at most its own issue.
THEOREM FailuresSpareOthers == Spec => FailureTouchesOnlySubject
<1>1. IInv /\ [Next]_vars => [FailureSpares]_vars
  BY StepTells
<1> QED BY <1>1, Invariance, PTL DEF Spec, FailureSpares, FailureTouchesOnlySubject

\* Webhook events tell what a request changed: issue.closed exactly the entries
\* into CLOSED, issue.updated every change of a request that succeeds.
THEOREM EventsAreTrue == Spec => EventsTellChanges
<1>1. IInv /\ [Next]_vars => [ClosedEventIffClosed /\ SuccessIsAnnounced]_vars
  BY StepTells
<1> QED BY <1>1, Invariance, PTL DEF Spec, EventsTellChanges

\* Requests of the board that succeed make no ties.
THEOREM NoTiesFromRequests == Spec => RequestsKeepDistinct
<1>1. IInv /\ [Next]_vars => [StaysDistinct]_vars
  BY StepTells
<1> QED BY <1>1, Invariance, PTL DEF Spec, StaysDistinct, RequestsKeepDistinct

\* A move lands at its index, a newcomer at the end, for bands of any length and
\* whatever gaps and ties they had.
THEOREM SubjectsLand == Spec => SubjectLandsInPlace
<1>1. IInv /\ [Next]_vars => [MoveLandsAtIndex /\ NewcomersGoLast]_vars
  BY StepTells
<1> QED BY <1>1, Invariance, PTL DEF Spec, SubjectLandsInPlace
=============================================================================
