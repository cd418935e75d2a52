----------------------------- MODULE ClientsProofs -----------------------------
(***************************************************************************)
(* Theorems about the programs that talk to the server, for any records    *)
(* and any bounds.  The poll trigger emits a version again only within the *)
(* millisecond of its watermark, and leaves no orderly change out;         *)
(* board pages never go back to an older state of the board and all come   *)
(* to agree; the editor shows the text it previews and loses none of it to *)
(* a choice; the action nodes report what has become of their items.       *)
(***************************************************************************)
EXTENDS MCClients, FiniteSetTheorems, SequenceTheorems, NaturalsInduction,
        WellFoundedInduction, TLAPS

-----------------------------------------------------------------------------
(* The poll trigger.                                                       *)

\* A version that is later than the watermark within its millisecond.
Hidden(x) == mark # 0 /\ UpdatedAt(x) > mark /\ Millis(x) = mark \div TicksPerMs

\* A version that isNewIssue takes for an old one, or that is hidden from
\* sortIssues.
Covered(x) ==
  \/ UpdatedAt(x) < mark
  \/ UpdatedAt(x) = mark /\ Id(x) \in markIds
  \/ Hidden(x)

\* A version that is known is no newer than the last save of its issue, and
\* older than one that is not committed yet.
NoNewer(S) ==
  \A x \in S : /\ UpdatedAt(x) <= saved[Id(x)]
               /\ \A w \in staged : Id(w.version) = Id(x) => UpdatedAt(x) < UpdatedAt(w.version)

\* What is staged is the last save of its issue, and the only one.
StagedIsLast ==
  \A w \in staged : /\ UpdatedAt(w.version) = saved[Id(w.version)]
                    /\ \A u \in staged : Id(u.version) = Id(w.version) => u = w

Shape ==
  /\ profile \in Profile
  /\ clock \in Times
  /\ saved \in [Issues -> 0..MaxClock]
  /\ staged \subseteq [version : Version, matches : BOOLEAN]
  /\ listed \subseteq Version
  /\ mark \in 0..MaxClock /\ markIds \subseteq Issues
  /\ answer = None \/ answer \subseteq Version
  /\ output \subseteq Version /\ seen \subseteq Version

\* What was seen and is listed is covered by the watermark, before a poll and
\* while it waits for its answer; and what was seen does not come back.
IInv ==
  /\ Shape
  /\ StagedIsLast
  /\ NoNewer(seen \cup listed)
  /\ \A x \in seen \cap listed : Covered(x)
  /\ answer # None => /\ NoNewer(answer)
                      /\ \A x \in seen \cap answer : Covered(x)
                      /\ seen \cap listed \subseteq answer

-----------------------------------------------------------------------------
(* The last issue of a list.                                               *)

\* A bounded non-empty set of numbers has a maximum.
LEMMA BoundedMax ==
  ASSUME NEW n \in Nat, NEW S \in SUBSET (0..n), S # {}
  PROVE  \E x \in S : \A y \in S : y <= x
<1> DEFINE T == {m \in Nat : \A y \in S : y <= m}
<1>1. n \in T
  OBVIOUS
<1>2. PICK m \in T : \A k \in T : ~ (<<k, m>> \in OpToRel(<, Nat))
  BY <1>1, NatLessThanWellFounded, WFMin
<1>3. \A k \in T : ~ (k < m)
  BY <1>2 DEF OpToRel
<1>4. SUFFICES ASSUME m \notin S PROVE FALSE
  BY <1>2
<1>5. \A y \in S : y <= m - 1
  BY <1>4
<1>6. PICK y : y \in S
  OBVIOUS
<1>7. m - 1 \in Nat
  <2>1. y \in Nat /\ y <= m - 1 /\ m \in Nat
    BY <1>5, <1>6
  <2>2. QED BY <2>1
<1>8. QED BY <1>3, <1>5, <1>7

\* So has a finite one: its largest subset that has a maximum is the whole.
LEMMA FiniteMax ==
  ASSUME NEW S \in SUBSET Nat, IsFiniteSet(S), S # {}
  PROVE  \E x \in S : \A y \in S : y <= x
<1> DEFINE HasMax(U) == \E x \in U : \A y \in U : y <= x
           T == {Cardinality(U) : U \in {W \in SUBSET S : HasMax(W)}}
<1>1. Cardinality(S) \in Nat
  BY FS_CardinalityType
<1>2. ASSUME NEW U \in SUBSET S
      PROVE  IsFiniteSet(U) /\ Cardinality(U) \in 0..Cardinality(S)
  <2>1. IsFiniteSet(U) /\ Cardinality(U) <= Cardinality(S)
    BY FS_Subset
  <2>2. Cardinality(U) \in Nat
    BY <2>1, FS_CardinalityType
  <2>3. QED BY <1>1, <2>1, <2>2
<1>3. T \in SUBSET (0..Cardinality(S))
  BY <1>2
<1>4. T # {}
  <2>1. PICK s \in S : TRUE
    OBVIOUS
  <2>2. {s} \in SUBSET S /\ HasMax({s})
    OBVIOUS
  <2>3. {s} \in {W \in SUBSET S : HasMax(W)}
    BY <2>2
  <2> HIDE DEF HasMax
  <2>4. Cardinality({s}) \in T
    BY <2>3
  <2>5. QED BY <2>4
<1>5. PICK m \in T : \A k \in T : k <= m
  BY <1>1, <1>3, <1>4, BoundedMax
<1>6. PICK U \in SUBSET S : HasMax(U) /\ Cardinality(U) = m
  BY <1>5
<1>7. ASSUME NEW s \in S, s \notin U PROVE FALSE
  <2> DEFINE W == U \cup {s}
  <2>1. Cardinality(W) = m + 1
    BY <1>2, <1>6, <1>7, FS_AddElement
  <2>2. HasMax(W)
    <3>1. PICK x \in U : \A y \in U : y <= x
      BY <1>6
    <3>2. CASE s <= x
      BY <3>1, <3>2
    <3>3. CASE ~ (s <= x)
      <4>1. \A y \in W : y \in Nat /\ y <= s
        BY <3>1, <3>3
      <4>2. QED BY <4>1
    <3>4. QED BY <3>2, <3>3
  <2>3. W \in SUBSET S
    OBVIOUS
  <2>4. m + 1 \in T
    BY <2>1, <2>2, <2>3
  <2>5. m \in Nat
    BY <1>3
  <2>6. QED BY <1>5, <2>4, <2>5
<1>8. U = S
  BY <1>7
<1>9. QED BY <1>6, <1>8

\* The millisecond of a tick is no later a number than the tick.
LEMMA DivBounds ==
  ASSUME NEW a \in Nat, NEW b \in Nat \ {0}
  PROVE  a \div b \in 0..a
<1>1. a \div b \in Int /\ a % b \in Int /\ 0 <= a % b /\ a % b < b /\ a = b * (a \div b) + (a % b)
  OBVIOUS
<1>2. PICK q \in Int : q = a \div b
  BY <1>1
<1>3. PICK r \in Int : r = a % b
  BY <1>1
<1>4. a = b * q + r /\ 0 <= r /\ r < b
  BY <1>1, <1>2, <1>3
<1>5. q >= 0
  <2>1. ASSUME q <= -1 PROVE FALSE
    <3>1. b * q <= b * (-1)
      BY <1>2, <2>1
    <3>2. QED BY <1>3, <1>4, <3>1
  <2>2. QED BY <1>2, <2>1
<1>6. q <= a
  <2>1. b * q >= 1 * q
    BY <1>2, <1>5
  <2>2. QED BY <1>2, <1>3, <1>4, <2>1
<1>7. QED BY <1>2, <1>5, <1>6

\* A later tick is of no earlier a millisecond.
LEMMA DivMonotone ==
  ASSUME NEW a \in Nat, NEW b \in Nat, NEW k \in Nat \ {0}, a <= b
  PROVE  a \div k <= b \div k
<1>1. a \div k \in Int /\ a % k \in Int /\ 0 <= a % k /\ a % k < k /\ a = k * (a \div k) + (a % k)
  OBVIOUS
<1>2. b \div k \in Int /\ b % k \in Int /\ 0 <= b % k /\ b % k < k /\ b = k * (b \div k) + (b % k)
  OBVIOUS
<1>3. PICK q \in Int : q = a \div k
  BY <1>1
<1>4. PICK p \in Int : p = b \div k
  BY <1>2
<1>5. k * q <= b /\ b < k * p + k
  <2>1. PICK r \in Int : r = a % k
    BY <1>1
  <2>2. PICK t \in Int : t = b % k
    BY <1>2
  <2>3. a = k * q + r /\ 0 <= r /\ b = k * p + t /\ t < k
    BY <1>1, <1>2, <1>3, <1>4, <2>1, <2>2
  <2>4. k * q \in Int /\ k * p \in Int
    BY <1>3, <1>4
  <2>5. QED BY <2>1, <2>2, <2>3, <2>4
<1>6. ASSUME q >= p + 1 PROVE FALSE
  <2>1. k * q >= k * (p + 1) /\ k * (p + 1) = k * p + k
    BY <1>3, <1>4, <1>6
  <2>2. k * q \in Int /\ k * p \in Int
    BY <1>3, <1>4
  <2>3. QED BY <1>5, <2>1, <2>2
<1>7. QED BY <1>3, <1>4, <1>6

\* The last issue of sortIssues is one of the list, and none is of a later
\* millisecond, however many ticks a millisecond has.
LEMMA LastIsListed ==
  ASSUME NEW S \in SUBSET Version, S # {}
  PROVE  /\ LastOf(S) \in S
         /\ \A y \in S : Millis(y) \in Nat /\ Millis(y) <= Millis(LastOf(S))
<1>1. \A x \in S : UpdatedAt(x) \in Nat /\ UpdatedAt(x) <= MaxClock /\ Id(x) \in Issues
  BY ConstantsAssumption DEF Version, Times, UpdatedAt, Id
<1>2. ASSUME NEW x \in S PROVE Millis(x) \in 0..MaxClock
  <2>1. Millis(x) \in 0..UpdatedAt(x)
    BY <1>1, ConstantsAssumption, DivBounds DEF Millis
  <2>2. PICK m \in 0..UpdatedAt(x) : m = Millis(x)
    BY <2>1
  <2>3. QED BY <1>1, <2>2, ConstantsAssumption
<1>3. PICK t \in {Millis(x) : x \in S} : \A u \in {Millis(x) : x \in S} : u <= t
  <2> DEFINE U == {Millis(x) : x \in S}
  <2>1. U \in SUBSET (0..MaxClock) /\ U # {} /\ MaxClock \in Nat
    BY <1>2, ConstantsAssumption
  <2> HIDE DEF U
  <2>2. \E x \in U : \A y \in U : y <= x
    BY <2>1, BoundedMax
  <2>3. QED BY <2>2 DEF U
<1>4. PICK i \in {Id(x) : x \in {y \in S : Millis(y) = t}} :
        \A j \in {Id(x) : x \in {y \in S : Millis(y) = t}} : j <= i
  <2> DEFINE I == {Id(x) : x \in {y \in S : Millis(y) = t}}
  <2>1. I \in SUBSET Issues /\ I # {}
    BY <1>1, <1>3
  <2> HIDE DEF I
  <2>2. IsFiniteSet(I) /\ I \in SUBSET Nat
    BY <2>1, ConstantsAssumption, FS_Subset
  <2>3. \E x \in I : \A y \in I : y <= x
    BY <2>1, <2>2, FiniteMax
  <2>4. QED BY <2>3 DEF I
<1>5. PICK x \in S : Millis(x) = t /\ Id(x) = i
  BY <1>4
<1>6. ASSUME NEW y \in S
      PROVE  Millis(y) < Millis(x) \/ (Millis(y) = Millis(x) /\ Id(y) <= Id(x))
  <2>1. CASE Millis(y) = t
    BY <1>4, <1>5, <2>1
  <2>2. CASE Millis(y) # t
    <3>1. Millis(y) <= t
      BY <1>3
    <3>2. PICK m \in 0..MaxClock : m = Millis(y)
      BY <1>2
    <3>3. t \in 0..MaxClock
      BY <1>2, <1>5
    <3>4. QED BY <1>5, <2>2, <3>1, <3>2, <3>3, ConstantsAssumption
  <2>3. QED BY <2>1, <2>2
<1>7. /\ LastOf(S) \in S
      /\ \A y \in S : \/ Millis(y) < Millis(LastOf(S))
                      \/ (Millis(y) = Millis(LastOf(S)) /\ Id(y) <= Id(LastOf(S)))
  BY <1>6, Zenon DEF LastOf
<1>8. ASSUME NEW y \in S PROVE Millis(y) \in Nat /\ Millis(y) <= Millis(LastOf(S))
  <2>1. PICK m \in 0..MaxClock : m = Millis(y)
    BY <1>2
  <2>2. PICK n \in 0..MaxClock : n = Millis(LastOf(S))
    BY <1>2, <1>7
  <2>3. m < n \/ m = n
    BY <1>7, <2>1, <2>2
  <2>4. QED BY <2>1, <2>2, <2>3, ConstantsAssumption
<1>9. QED BY <1>7, <1>8

-----------------------------------------------------------------------------
(* One lemma per action.                                                   *)

\* Nothing is saved, seen or asked for initially.
LEMMA InitInv == Init => IInv
<1> SUFFICES ASSUME Init PROVE IInv
  OBVIOUS
<1>1. clock \in Times
  BY ConstantsAssumption DEF Init, Times
<1>2. Shape
  BY <1>1, ConstantsAssumption DEF Init, Shape
<1>3. QED BY <1>2 DEF Init, IInv, StagedIsLast, NoNewer

\* Time passes.
LEMMA TickStep ==
  ASSUME IInv, Tick
  PROVE  IInv'
<1>1. clock' \in Times
  BY ConstantsAssumption DEF Tick, IInv, Shape, Times
<1>2. UNCHANGED <<profile, listed, saved, staged, mark, markIds, answer, output, seen>>
  BY DEF Tick, poller
<1>3. QED BY <1>1, <1>2 DEF IInv, Shape, StagedIsLast, NoNewer, Covered, Hidden

\* A save is newer than every version of its issue that is known.
LEMMA SaveStep ==
  ASSUME IInv, NEW i \in Issues, NEW matches \in BOOLEAN, Save(i, matches)
  PROVE  IInv'
<1> DEFINE new == [version |-> <<i, clock>>, matches |-> matches]
<1>1. /\ saved[i] < clock /\ \A w \in staged : Id(w.version) # i
      /\ saved' = [saved EXCEPT ![i] = clock] /\ staged' = staged \cup {new}
      /\ UNCHANGED <<profile, clock, listed, mark, markIds, answer, output, seen>>
  BY DEF Save, poller
<1>2. clock \in 1..MaxClock /\ saved \in [Issues -> 0..MaxClock] /\ MaxClock \in Nat
  BY ConstantsAssumption DEF IInv, Shape, Times
<1>3. Id(new.version) = i /\ UpdatedAt(new.version) = clock /\ new \in [version : Version, matches : BOOLEAN]
  BY <1>2 DEF Id, UpdatedAt, Version, Times
<1>4. \A j \in Issues : saved'[j] = IF j = i THEN clock ELSE saved[j]
  BY <1>1, <1>2
<1>5. saved' \in [Issues -> 0..MaxClock]
  BY <1>1, <1>2
<1> HIDE DEF new
<1>6. Shape'
  BY <1>1, <1>3, <1>5 DEF IInv, Shape
<1>7. \A w \in staged : Id(w.version) \in Issues /\ w.version \in Version
  BY DEF IInv, Shape, Version, Id
<1>8. StagedIsLast'
  <2>1. ASSUME NEW w \in staged' PROVE UpdatedAt(w.version) = saved'[Id(w.version)]
    BY <1>1, <1>3, <1>4, <1>7 DEF IInv, StagedIsLast
  <2>2. ASSUME NEW w \in staged', NEW u \in staged', Id(u.version) = Id(w.version) PROVE u = w
    BY <1>1, <1>3, <2>2 DEF IInv, StagedIsLast
  <2>3. QED BY <2>1, <2>2 DEF StagedIsLast
<1>9. ASSUME NEW S \in SUBSET Version, NoNewer(S) PROVE NoNewer(S)'
  <2>1. ASSUME NEW x \in S PROVE /\ UpdatedAt(x) <= saved'[Id(x)]
                                 /\ \A w \in staged' : Id(w.version) = Id(x) => UpdatedAt(x) < UpdatedAt(w.version)
    <3>1. UpdatedAt(x) \in Nat /\ Id(x) \in Issues
      BY DEF Version, Times, UpdatedAt, Id
    <3>2. UpdatedAt(x) <= saved[Id(x)] /\ saved[Id(x)] \in Nat
      BY <1>2, <1>9, <3>1 DEF NoNewer
    <3>3. CASE Id(x) = i
      <4>1. UpdatedAt(x) < clock
        BY <1>1, <1>2, <3>1, <3>2, <3>3
      <4>2. UpdatedAt(x) <= clock
        BY <1>2, <3>1, <4>1
      <4>3. QED BY <1>1, <1>3, <1>4, <3>1, <3>3, <4>1, <4>2
    <3>4. CASE Id(x) # i
      BY <1>1, <1>3, <1>4, <1>9, <3>1, <3>2, <3>4 DEF NoNewer
    <3>5. QED BY <3>3, <3>4
  <2>2. QED BY <2>1 DEF NoNewer
<1>10. seen \in SUBSET Version /\ listed \in SUBSET Version /\ (answer # None => answer \in SUBSET Version)
  BY DEF IInv, Shape
<1>11. NoNewer(seen \cup listed)' /\ (answer # None => NoNewer(answer)')
  <2>1. NoNewer(seen \cup listed) /\ (answer # None => NoNewer(answer))
    BY DEF IInv
  <2>2. QED BY <1>1, <1>9, <1>10, <2>1 DEF NoNewer
<1>12. QED BY <1>1, <1>6, <1>8, <1>11 DEF IInv, Covered, Hidden

\* A commit lists a version that nobody has seen.
LEMMA CommitStep ==
  ASSUME IInv, NEW w \in staged, Commit(w)
  PROVE  IInv'
<1>1. /\ staged' = staged \ {w}
      /\ \A x \in listed' : x \in listed \/ x = w.version
      /\ UNCHANGED <<profile, clock, saved, mark, markIds, answer, output, seen>>
  BY DEF Commit, poller
<1>2. w.version \in Version
  BY DEF IInv, Shape
<1>3. Shape' /\ StagedIsLast'
  BY <1>1, <1>2 DEF IInv, Shape, StagedIsLast
<1>4. UpdatedAt(w.version) \in Nat /\ Id(w.version) \in Issues
  BY <1>2 DEF Version, Times, UpdatedAt, Id
<1>5. w.version \notin seen
  <2>1. ASSUME w.version \in seen PROVE UpdatedAt(w.version) < UpdatedAt(w.version)
    BY <2>1 DEF IInv, NoNewer
  <2>2. QED BY <1>4, <2>1
<1>6. seen \cap listed' \subseteq listed
  BY <1>1, <1>5
<1>7. NoNewer({w.version})'
  <2>1. UpdatedAt(w.version) <= saved[Id(w.version)]
    BY <1>4 DEF IInv, StagedIsLast
  <2>2. \A u \in staged \ {w} : Id(u.version) # Id(w.version)
    BY DEF IInv, StagedIsLast
  <2>3. QED BY <1>1, <2>1, <2>2 DEF NoNewer
<1>8. NoNewer(seen \cup listed)'
  BY <1>1, <1>7 DEF IInv, NoNewer
<1>9. answer # None => NoNewer(answer)'
  BY <1>1 DEF IInv, NoNewer
<1>10. QED BY <1>1, <1>3, <1>6, <1>8, <1>9 DEF IInv, Covered, Hidden

\* A poll asks for what is listed.
LEMMA FetchStep ==
  ASSUME IInv, Fetch
  PROVE  IInv'
BY DEF IInv, Shape, StagedIsLast, NoNewer, Covered, Hidden, Fetch

\* The end of a poll: the watermark covers the whole list.
LEMMA PollStep ==
  ASSUME IInv, answer # None, mark' = Mark(answer), markIds' = MarkIds(answer),
         seen' \subseteq seen \cup answer, output' \subseteq answer, answer' = None,
         UNCHANGED <<profile, clock, listed, saved, staged>>
  PROVE  IInv'
<1>1. answer \in SUBSET Version
  BY DEF IInv, Shape
<1>2. ASSUME answer # {}
      PROVE  /\ LastOf(answer) \in answer
             /\ \A y \in answer : Millis(y) \in Nat /\ Millis(y) <= Millis(LastOf(answer))
             /\ mark' = UpdatedAt(LastOf(answer))
             /\ markIds' = {Id(x) : x \in {y \in answer : UpdatedAt(y) = UpdatedAt(LastOf(answer))}}
  BY <1>1, <1>2, LastIsListed DEF Mark, MarkIds
<1>3. mark' \in 0..MaxClock /\ markIds' \subseteq Issues
  <2>1. CASE answer = {}
    BY <2>1 DEF IInv, Shape, Mark, MarkIds
  <2>2. CASE answer # {}
    BY <1>1, <1>2, <2>2 DEF Version, Times, UpdatedAt, Id
  <2>3. QED BY <2>1, <2>2
<1>4. Shape'
  BY <1>1, <1>3 DEF IInv, Shape
<1>5. StagedIsLast'
  BY DEF IInv, StagedIsLast
<1>6. NoNewer(seen \cup listed)'
  BY DEF IInv, NoNewer
<1>7. ASSUME NEW x \in answer PROVE Covered(x)'
  <2>1. PICK z \in answer : z = LastOf(answer)
    BY <1>2
  <2>2. UpdatedAt(x) \in Nat /\ UpdatedAt(z) \in Nat /\ UpdatedAt(z) # 0
    BY <1>1 DEF Version, Times, UpdatedAt
  <2>3. mark' = UpdatedAt(z) /\ (UpdatedAt(x) = mark' => Id(x) \in markIds')
    BY <1>2, <2>1
  <2>4. ASSUME UpdatedAt(x) > UpdatedAt(z) PROVE Millis(x) = UpdatedAt(z) \div TicksPerMs
    <3>1. UpdatedAt(z) \div TicksPerMs <= UpdatedAt(x) \div TicksPerMs
      BY <2>2, <2>4, DivMonotone, ConstantsAssumption
    <3>2. Millis(z) <= Millis(x) /\ Millis(x) <= Millis(z)
      BY <1>2, <2>1, <3>1 DEF Millis
    <3>3. Millis(x) \in Nat /\ Millis(z) \in Nat
      BY <1>2
    <3>4. Millis(x) = Millis(z)
      BY <3>2, <3>3
    <3>5. QED BY <3>4 DEF Millis
  <2>5. UpdatedAt(x) < mark' \/ UpdatedAt(x) = mark' \/ UpdatedAt(x) > UpdatedAt(z)
    BY <2>2, <2>3
  <2>6. QED BY <2>2, <2>3, <2>4, <2>5 DEF Covered, Hidden, Millis
<1>8. seen' \cap listed' \subseteq answer
  BY DEF IInv
<1>9. \A x \in seen' \cap listed' : Covered(x)'
  BY <1>7, <1>8
<1>10. QED BY <1>4, <1>5, <1>6, <1>9 DEF IInv, Covered, Hidden

\* Every step keeps the invariant.
LEMMA NextStep ==
  ASSUME IInv, [Next]_vars
  PROVE  IInv'
<1>1. CASE Tick
  BY <1>1, TickStep
<1>2. CASE \E i \in Issues, matches \in BOOLEAN : Save(i, matches)
  BY <1>2, SaveStep
<1>3. CASE \E w \in staged : Commit(w)
  BY <1>3, CommitStep
<1>4. CASE Fetch
  BY <1>4, FetchStep
<1>5. CASE RecordOnly
  BY <1>5, PollStep DEF RecordOnly
<1>6. CASE Emit
  BY <1>6, PollStep DEF Emit
<1>7. CASE UNCHANGED vars
  BY <1>7 DEF vars, IInv, Shape, StagedIsLast, NoNewer, Covered, Hidden
<1>8. QED BY <1>1, <1>2, <1>3, <1>4, <1>5, <1>6, <1>7 DEF Next

\* A step that ends a poll emits nothing that was seen but what is hidden.
Fresh == answer # None /\ answer' = None => \A x \in output' \cap seen : Hidden(x)

\* What a poll emits again was covered by the watermark, so it is hidden.
LEMMA FreshStep ==
  ASSUME IInv, [Next]_vars
  PROVE  Fresh
<1> SUFFICES ASSUME answer # None, answer' = None PROVE \A x \in output' \cap seen : Hidden(x)
  BY DEF Fresh
<1>1. RecordOnly \/ Emit
  BY DEF Next, vars, Tick, Save, Commit, Fetch, poller
<1>2. CASE RecordOnly
  BY <1>2 DEF RecordOnly
<1>3. CASE Emit
  <2>1. ASSUME NEW x \in output', x \in seen PROVE Hidden(x)
    <3>1. x \in answer /\ (mark = 0 \/ IsNew(x))
      BY <1>3, <2>1 DEF Emit
    <3>2. Covered(x)
      BY <2>1, <3>1 DEF IInv
    <3>3. UpdatedAt(x) \in Nat \ {0} /\ mark \in Nat
      BY <3>1 DEF IInv, Shape, Version, Times, UpdatedAt
    <3>4. QED BY <3>1, <3>2, <3>3 DEF Covered, Hidden, IsNew
  <2>2. QED BY <2>1
<1>4. QED BY <1>1, <1>2, <1>3
-----------------------------------------------------------------------------
(* The theorem.                                                            *)

\* The invariant holds throughout.
LEMMA Invariance == Spec => []IInv
<1>1. Init => IInv
  BY InitInv
<1>2. IInv /\ [Next]_vars => IInv'
  BY NextStep
<1>3. QED BY <1>1, <1>2, PTL DEF Spec

\* Whatever the first poll does, however late commits are, whatever fails, and
\* however far the watermark falls back with the list: updateWatermark and
\* isNewIssue emit a version again only when it is later than the watermark
\* within the millisecond that sortIssues takes both for.
THEOREM RepeatsAreHidden == Spec => RepeatsWithinMillisecond
<1>1. IInv /\ [Next]_vars => [Fresh]_vars
  BY FreshStep
<1>2. Spec => []IInv
  BY Invariance
<1>3. Spec => [][Fresh]_vars
  BY <1>1, <1>2, PTL DEF Spec
<1>4. QED BY <1>3, PTL DEF Fresh, Hidden, RepeatsWithinMillisecond

-----------------------------------------------------------------------------
(* Nothing is left out by a node that emits existing issues, whose requests *)
(* for details succeed, of a tracker that commits in the order of its times.*)

Punctual == profile.emitExisting /\ ~profile.loadDetail /\ ~profile.lateCommits

\* The versions that the list shows, or will.
Coming == listed \cup {w.version : w \in staged}

\* Version x was saved after everything in S.
After(x, S) == \A y \in S : UpdatedAt(y) <= UpdatedAt(x) /\ (Id(y) = Id(x) => UpdatedAt(y) < UpdatedAt(x))

\* Everything that is to come counts as new, unless it was emitted, and so does
\* what a poll was sent; what it was not sent is later.
OrderlyInv ==
  /\ mark <= clock
  /\ \A i \in markIds : mark <= saved[i]
  /\ \A x \in Coming : x \in seen \/ IsNew(x)
  /\ \A x \in listed : UpdatedAt(x) <= clock
  /\ answer # None =>
       \A y \in answer : UpdatedAt(y) <= clock /\ (y \in seen \/ IsNew(y))
  /\ answer # None =>
       \A x \in Coming \ answer : After(x, answer)

\* The times and ids of versions are numbers.
LEMMA VersionParts ==
  ASSUME NEW x \in Version
  PROVE  UpdatedAt(x) \in Nat /\ UpdatedAt(x) > 0 /\ Id(x) \in Issues
BY DEF Version, Times, UpdatedAt, Id

\* What Shape says of the sets of versions.
LEMMA ComingTyped ==
  ASSUME Shape
  PROVE  /\ \A x \in Coming : x \in Version
         /\ answer # None => \A x \in answer : x \in Version
         /\ mark \in Nat /\ clock \in Nat
         /\ \A i \in Issues : saved[i] \in Nat
BY ConstantsAssumption DEF Shape, Coming, Times

\* Nothing is known at the start.
LEMMA OrderlyInit == Init => OrderlyInv
BY DEF Init, OrderlyInv, Coming

\* Time passes.
LEMMA OrderlyTick ==
  ASSUME IInv, OrderlyInv, Tick
  PROVE  OrderlyInv'
<1>1. clock' = clock + 1 /\ UNCHANGED <<listed, saved, staged, mark, markIds, answer, seen>>
  BY DEF Tick, poller
<1>2. Shape
  BY DEF IInv
<1>3. \A n \in Nat : n <= clock => n <= clock'
  BY <1>1, <1>2, ComingTyped
<1>4. /\ \A x \in listed : UpdatedAt(x) \in Nat
      /\ answer # None => \A x \in answer : UpdatedAt(x) \in Nat
      /\ mark \in Nat
  BY <1>2, ComingTyped, VersionParts DEF Coming
<1>5. Coming' = Coming
  BY <1>1 DEF Coming
<1>6. \A x : IsNew(x)' <=> IsNew(x)
  BY <1>1 DEF IsNew
<1> QED BY <1>1, <1>3, <1>4, <1>5, <1>6 DEF OrderlyInv

\* A save stamps a time that no watermark has passed.
LEMMA OrderlySave ==
  ASSUME IInv, OrderlyInv, NEW i \in Issues, NEW matches \in BOOLEAN, Save(i, matches)
  PROVE  OrderlyInv'
<1> DEFINE new == <<i, clock>>
<1>1. /\ saved[i] < clock /\ saved' = [saved EXCEPT ![i] = clock]
      /\ staged' = staged \cup {[version |-> new, matches |-> matches]}
      /\ UNCHANGED <<clock, listed, mark, markIds, answer, seen>>
  BY DEF Save, poller
<1>2. Shape
  BY DEF IInv
<1>3. /\ \A x \in Coming : x \in Version
      /\ answer # None => \A x \in answer : x \in Version
      /\ mark \in Nat /\ clock \in Nat
      /\ \A j \in Issues : saved[j] \in Nat
  BY <1>2, ComingTyped
<1>4. \A j \in Issues : saved'[j] = IF j = i THEN clock ELSE saved[j]
  BY <1>1, <1>2 DEF Shape
<1>5. Coming' = Coming \cup {new}
  <2>1. \A w \in staged' : w \in staged \/ w.version = new
    BY <1>1
  <2>2. \E w \in staged' : w.version = new
    <3>1. [version |-> new, matches |-> matches] \in staged'
      BY <1>1
    <3>2. [version |-> new, matches |-> matches].version = new
      OBVIOUS
    <3> QED BY <3>1, <3>2
  <2>3. {w.version : w \in staged'} = {w.version : w \in staged} \cup {new}
    BY <1>1, <2>1, <2>2
  <2> QED BY <1>1, <2>3 DEF Coming
<1>6. Id(new) = i /\ UpdatedAt(new) = clock
  BY DEF Id, UpdatedAt
<1>7. \A x : IsNew(x)' <=> IsNew(x)
  BY <1>1 DEF IsNew
<1>8. IsNew(new)
  <2>1. CASE mark = clock
    <3>1. i \notin markIds
      BY <1>1, <1>3, <2>1 DEF OrderlyInv
    <3> QED BY <1>6, <2>1, <3>1 DEF IsNew
  <2>2. CASE mark # clock
    <3>1. mark < clock
      BY <1>3, <2>2 DEF OrderlyInv
    <3> QED BY <1>3, <1>6, <3>1 DEF IsNew
  <2> QED BY <2>1, <2>2
<1>9. ASSUME answer # None PROVE After(new, answer)
  <2>1. SUFFICES ASSUME NEW y \in answer
                 PROVE  UpdatedAt(y) <= clock /\ (Id(y) = i => UpdatedAt(y) < clock)
    BY <1>6 DEF After
  <2>2. UpdatedAt(y) <= clock
    BY <1>9 DEF OrderlyInv
  <2>3. UpdatedAt(y) <= saved[Id(y)]
    BY <1>9 DEF IInv, NoNewer
  <2>4. UpdatedAt(y) \in Nat /\ saved[i] \in Nat
    BY <1>3, <1>9, VersionParts
  <2>5. Id(y) = i => UpdatedAt(y) < clock
    BY <1>1, <1>3, <2>3, <2>4
  <2> QED BY <2>2, <2>5
<1> HIDE DEF new
<1>10. \A j \in markIds : mark' <= saved'[j]
  <2>1. TAKE j \in markIds
  <2>2. j \in Issues /\ mark <= saved[j]
    BY <1>2 DEF Shape, OrderlyInv
  <2> QED BY <1>1, <1>3, <1>4, <2>2 DEF OrderlyInv
<1>11. \A x \in Coming' : x \in seen' \/ IsNew(x)'
  BY <1>1, <1>5, <1>7, <1>8 DEF OrderlyInv
<1>12. answer' # None => \A x \in Coming' \ answer' : After(x, answer')
  BY <1>1, <1>5, <1>9 DEF OrderlyInv
<1> QED BY <1>1, <1>7, <1>10, <1>11, <1>12 DEF OrderlyInv

\* A commit shows what was to come.
LEMMA OrderlyCommit ==
  ASSUME IInv, OrderlyInv, NEW w \in staged, Commit(w), \A x \in staged : UpdatedAt(x.version) <= clock
  PROVE  OrderlyInv'
<1>1. /\ staged' = staged \ {w}
      /\ \A x \in listed' : x \in listed \/ x = w.version
      /\ UNCHANGED <<clock, saved, mark, markIds, answer, seen>>
  BY DEF Commit, poller
<1>2. \A x \in Coming' : x \in Coming
  BY <1>1 DEF Coming
<1>3. \A x : IsNew(x)' <=> IsNew(x)
  BY <1>1 DEF IsNew
<1>4. \A x \in listed' : UpdatedAt(x) <= clock'
  BY <1>1 DEF OrderlyInv
<1> QED BY <1>1, <1>2, <1>3, <1>4 DEF OrderlyInv

\* A poll is sent the list when nothing is about to be committed.
LEMMA OrderlyFetch ==
  ASSUME IInv, OrderlyInv, staged = {}, Fetch
  PROVE  OrderlyInv'
<1>1. answer' = listed /\ UNCHANGED <<clock, listed, saved, staged, mark, markIds, seen>>
  BY DEF Fetch
<1>2. Coming' = Coming /\ Coming = listed
  BY <1>1 DEF Coming
<1>3. \A x : IsNew(x)' <=> IsNew(x)
  BY <1>1 DEF IsNew
<1> QED BY <1>1, <1>2, <1>3 DEF OrderlyInv

\* The end of a poll: the watermark passes nothing that was not sent.
LEMMA OrderlyEmit ==
  ASSUME IInv, OrderlyInv, Punctual, Emit
  PROVE  OrderlyInv' /\ answer \subseteq seen'
<1>1. /\ answer # None /\ answer' = None
      /\ mark' = Mark(answer) /\ markIds' = MarkIds(answer)
      /\ UNCHANGED <<clock, listed, saved, staged>>
  BY DEF Emit
<1>2. seen' = seen \cup (IF mark = 0 THEN answer ELSE {x \in answer : IsNew(x)})
  BY DEF Emit, Punctual
<1>3. answer \subseteq seen'
  BY <1>1, <1>2 DEF OrderlyInv
<1>4. Shape
  BY DEF IInv
<1>5. /\ \A x \in Coming : x \in Version
      /\ answer \in SUBSET Version
      /\ mark \in Nat /\ clock \in Nat
      /\ \A j \in Issues : saved[j] \in Nat
  BY <1>1, <1>4, ComingTyped
<1>6. Coming' = Coming
  BY <1>1 DEF Coming
<1>7. CASE answer = {}
  <2>1. mark' = mark /\ markIds' = markIds
    BY <1>1, <1>7 DEF Mark, MarkIds
  <2>2. \A x : IsNew(x)' <=> IsNew(x)
    BY <2>1 DEF IsNew
  <2>3. \A x \in Coming' : x \in seen' \/ IsNew(x)'
    BY <1>2, <1>6, <2>2 DEF OrderlyInv
  <2> QED BY <1>1, <1>3, <2>1, <2>3 DEF OrderlyInv
<1>8. CASE answer # {}
  <2>1. PICK z : z = LastOf(answer)
    OBVIOUS
  <2>2. z \in answer
    BY <1>5, <1>8, <2>1, LastIsListed
  <2>3. mark' = UpdatedAt(z) /\ markIds' = {Id(x) : x \in {y \in answer : UpdatedAt(y) = UpdatedAt(z)}}
    BY <1>1, <1>8, <2>1 DEF Mark, MarkIds
  <2>4. UpdatedAt(z) \in Nat /\ UpdatedAt(z) <= clock
    BY <1>1, <1>5, <2>2, VersionParts DEF OrderlyInv
  <2>5. \A i \in markIds' : mark' <= saved'[i]
    <3>1. \A y \in answer : UpdatedAt(y) <= saved[Id(y)]
      BY <1>1 DEF IInv, NoNewer
    <3> QED BY <1>1, <2>3, <3>1
  <2>6. ASSUME NEW x \in Coming, x \notin answer PROVE IsNew(x)'
    <3>1. After(x, answer)
      BY <1>1, <2>6 DEF OrderlyInv
    <3>2. UpdatedAt(x) \in Nat /\ UpdatedAt(z) <= UpdatedAt(x)
      BY <1>5, <2>2, <3>1, VersionParts DEF After
    <3>3. ASSUME UpdatedAt(x) = UpdatedAt(z) PROVE Id(x) \notin markIds'
      <4>1. ASSUME NEW y \in answer, UpdatedAt(y) = UpdatedAt(z) PROVE Id(y) # Id(x)
        BY <2>4, <3>1, <3>3, <4>1 DEF After
      <4> QED BY <2>3, <4>1
    <3> QED BY <2>3, <2>4, <3>2, <3>3 DEF IsNew
  <2>7. \A x \in Coming' : x \in seen' \/ IsNew(x)'
    BY <1>3, <1>6, <2>6
  <2> QED BY <1>1, <1>3, <2>3, <2>4, <2>5, <2>7 DEF OrderlyInv
<1> QED BY <1>3, <1>7, <1>8

\* Saves are not stamped in the future.
StagedNow == \A w \in staged : UpdatedAt(w.version) <= clock

\* The step formula of EmitsEveryOrderlyChange.
Complete ==
  answer # None /\ answer' = None
    => ~profile.emitExisting \/ profile.loadDetail \/ profile.lateCommits \/ answer \subseteq seen'

\* Every step keeps the order, and a poll that ends leaves nothing of its answer out.
LEMMA OrderlyStep ==
  ASSUME IInv, IInv', StagedNow, Punctual => OrderlyInv, [Next]_vars
  PROVE  StagedNow' /\ (Punctual' => OrderlyInv') /\ Complete
<1>1. profile' = profile
  BY DEF Next, vars, Tick, Save, Commit, Fetch, RecordOnly, Emit
<1>2. StagedNow'
  <2>1. clock \in Nat /\ \A w \in staged : UpdatedAt(w.version) \in Nat
    <3>1. Shape
      BY DEF IInv
    <3> QED BY <3>1, ComingTyped, VersionParts DEF Shape
  <2>2. CASE Tick
    BY <2>1, <2>2 DEF StagedNow, Tick
  <2>3. ASSUME NEW i \in Issues, NEW matches \in BOOLEAN, Save(i, matches) PROVE StagedNow'
    BY <2>1, <2>3 DEF StagedNow, Save, UpdatedAt
  <2>4. ASSUME NEW w \in staged, Commit(w) PROVE StagedNow'
    BY <2>4 DEF StagedNow, Commit
  <2>5. CASE Fetch \/ RecordOnly \/ Emit \/ UNCHANGED vars
    BY <2>5 DEF StagedNow, Fetch, RecordOnly, Emit, vars
  <2> QED BY <2>2, <2>3, <2>4, <2>5 DEF Next
<1>3. CASE ~Punctual
  BY <1>1, <1>2, <1>3 DEF Complete, Punctual
<1>4. CASE Punctual
  <2>1. Punctual' /\ OrderlyInv
    BY <1>1, <1>4 DEF Punctual
  <2>2. CASE Tick
    BY <1>2, <2>1, <2>2, OrderlyTick DEF Complete, Tick, poller
  <2>3. ASSUME NEW i \in Issues, NEW matches \in BOOLEAN, Save(i, matches) PROVE OrderlyInv' /\ Complete
    BY <2>1, <2>3, OrderlySave DEF Complete, Save, poller
  <2>4. ASSUME NEW w \in staged, Commit(w) PROVE OrderlyInv' /\ Complete
    <3>1. UNCHANGED answer
      BY <2>4 DEF Commit, poller
    <3> QED BY <2>1, <2>4, <3>1, OrderlyCommit DEF Complete, StagedNow
  <2>5. CASE Fetch
    <3>1. staged = {}
      BY <1>4, <2>5 DEF Fetch, Settled, Punctual
    <3>2. answer = None
      BY <2>5 DEF Fetch
    <3> QED BY <1>2, <2>1, <2>5, <3>1, <3>2, OrderlyFetch DEF Complete
  <2>6. CASE RecordOnly
    BY <1>4, <2>6 DEF RecordOnly, Punctual
  <2>7. CASE Emit
    BY <1>2, <1>4, <2>1, <2>7, OrderlyEmit DEF Complete
  <2>8. CASE UNCHANGED vars
    BY <1>2, <2>1, <2>8 DEF vars, OrderlyInv, Coming, IsNew, After, Complete
  <2> QED BY <1>2, <2>2, <2>3, <2>4, <2>5, <2>6, <2>7, <2>8 DEF Next
<1> QED BY <1>3, <1>4

\* No version that a poll was sent stays unreported: neither issues that share
\* a time or a millisecond with the watermark nor a watermark that falls back
\* lose anything.
THEOREM OrderlyChangesEmitted == Spec => EmitsEveryOrderlyChange
<1>1. Init => StagedNow /\ (Punctual => OrderlyInv)
  BY OrderlyInit DEF Init, StagedNow
<1>2. IInv /\ IInv' /\ StagedNow /\ (Punctual => OrderlyInv) /\ [Next]_vars
        => StagedNow' /\ (Punctual' => OrderlyInv') /\ Complete
  BY OrderlyStep
<1>3. Spec => []IInv
  BY Invariance
<1>4. Spec => [][Complete]_vars
  BY <1>1, <1>2, <1>3, PTL DEF Spec
<1> QED BY <1>4, PTL DEF Complete, EmitsEveryOrderlyChange

-----------------------------------------------------------------------------
(* The state of the poll trigger, whatever its clock tells apart.           *)

\* The watermark is the time of a listed issue, and its ids are issues.
LEMMA MarksTyped ==
  ASSUME NEW S \in SUBSET Version, mark \in 0..MaxClock, markIds \subseteq Issues
  PROVE  Mark(S) \in 0..MaxClock /\ MarkIds(S) \subseteq Issues
<1>1. CASE S = {}
  BY <1>1 DEF Mark, MarkIds
<1>2. CASE S # {}
  <2>1. LastOf(S) \in Version
    BY <1>2, LastIsListed
  <2>2. UpdatedAt(LastOf(S)) \in 0..MaxClock
    BY <2>1, ConstantsAssumption DEF Version, Times, UpdatedAt
  <2>3. \A x \in S : Id(x) \in Issues
    BY DEF Version, Id
  <2>4. QED BY <1>2, <2>2, <2>3 DEF Mark, MarkIds
<1>3. QED BY <1>1, <1>2

\* The poll trigger starts well typed.
LEMMA PollStart == ASSUME Init PROVE TypeOK
<1>1. 1 \in Times /\ 0 \in 0..MaxClock
  BY ConstantsAssumption DEF Times
<1>2. QED BY <1>1 DEF Init, TypeOK

\* What the steps of the poll trigger and of its tracker leave alone stays
\* typed, and what they write is.
LEMMA PollTypesStep == ASSUME TypeOK, [Next]_vars PROVE TypeOK'
<1>1. ASSUME Tick PROVE TypeOK'
  <2>1. clock' \in Times
    BY <1>1, ConstantsAssumption DEF Tick, TypeOK, Times
  <2>2. QED BY <1>1, <2>1 DEF Tick, poller, TypeOK
<1>2. ASSUME NEW i \in Issues, NEW matches \in BOOLEAN, Save(i, matches) PROVE TypeOK'
  <2>1. clock \in 0..MaxClock /\ <<i, clock>> \in Version
    BY ConstantsAssumption DEF TypeOK, Times, Version
  <2>2. saved' \in [Issues -> 0..MaxClock]
    BY <1>2, <2>1 DEF Save, TypeOK
  <2>3. staged' \subseteq [version : Version, matches : BOOLEAN]
    BY <1>2, <2>1 DEF Save, TypeOK
  <2>4. QED BY <1>2, <2>2, <2>3 DEF Save, poller, TypeOK
<1>3. ASSUME NEW w \in staged, Commit(w) PROVE TypeOK'
  <2>1. w.version \in Version /\ staged' \subseteq [version : Version, matches : BOOLEAN]
    BY <1>3 DEF Commit, TypeOK
  <2>2. listed' \subseteq Version
    BY <1>3, <2>1 DEF Commit, TypeOK
  <2>3. \A x, y \in listed' : Id(x) = Id(y) => x = y
    <3>1. ASSUME NEW x \in listed' PROVE x = w.version \/ (x \in listed /\ Id(x) # Id(w.version))
      BY <1>3 DEF Commit
    <3>2. QED BY <3>1 DEF TypeOK
  <2>4. QED BY <1>3, <2>1, <2>2, <2>3 DEF Commit, poller, TypeOK
<1>4. ASSUME Fetch PROVE TypeOK'
  BY <1>4 DEF Fetch, TypeOK
<1>5. ASSUME RecordOnly PROVE TypeOK'
  <2>1. answer \in SUBSET Version
    BY <1>5 DEF RecordOnly, TypeOK
  <2>2. mark' \in 0..MaxClock /\ markIds' \subseteq Issues
    BY <1>5, <2>1, MarksTyped DEF RecordOnly, TypeOK
  <2>3. QED BY <1>5, <2>1, <2>2 DEF RecordOnly, TypeOK
<1>6. ASSUME Emit PROVE TypeOK'
  <2>1. answer \in SUBSET Version
    BY <1>6 DEF Emit, TypeOK
  <2>2. mark' \in 0..MaxClock /\ markIds' \subseteq Issues
    BY <1>6, <2>1, MarksTyped DEF Emit, TypeOK
  <2>3. output' \subseteq Version
    BY <1>6, <2>1 DEF Emit
  <2>4. QED BY <1>6, <2>1, <2>2, <2>3 DEF Emit, TypeOK
<1>7. ASSUME UNCHANGED vars PROVE TypeOK'
  BY <1>7 DEF vars, poller, TypeOK
<1>8. QED BY <1>1, <1>2, <1>3, <1>4, <1>5, <1>6, <1>7 DEF Next

-----------------------------------------------------------------------------
(* The preview.                                                            *)

\* The newest request is of the text, unless another one is due.
PreviewInv ==
  /\ asked \in Nat /\ preview.number \in Nat /\ preview.number <= asked
  /\ \A p \in previews : p.number \in Nat /\ p.number <= asked
  /\ ~timer => /\ \A p \in previews : p.number = asked => p.of = text
               /\ preview.number = asked => preview.of \in {text, Unavailable}

\* A step that changes the text asks for a preview of it, or lets one be due.
LEMMA PreviewStep ==
  ASSUME PreviewInv, [EditorNext]_editorVars
  PROVE  PreviewInv'
<1>1. ASSUME AskPreview(text'), UNCHANGED preview PROVE PreviewInv'
  BY <1>1 DEF PreviewInv, AskPreview
<1>2. ASSUME UNCHANGED <<asked, previews, preview>>, timer' \/ (timer' = timer /\ text' = text) PROVE PreviewInv'
  BY <1>2 DEF PreviewInv
<1>3. ASSUME NEW s, NEW c, Input(s, c) PROVE PreviewInv'
  BY <1>2, <1>3 DEF Input
<1>4. CASE TypePiece \/ ErasePiece \/ ApplyTemplate
  BY <1>3, <1>4 DEF TypePiece, ErasePiece, ApplyTemplate
<1>5. CASE PreviewDue
  BY <1>1, <1>5 DEF PreviewDue, AskPreview
<1>6. ASSUME NEW p \in previews, ShowPreview(p) PROVE PreviewInv'
  BY <1>6 DEF PreviewInv, ShowPreview
<1>7. CASE FinishUpload \/ ChooseSuggestion
  BY <1>1, <1>7 DEF FinishUpload, ChooseSuggestion
<1>8. CASE MoveCursor \/ StartUpload \/ FailUpload \/ OpenHelper \/ HideAssist \/ UNCHANGED editorVars
  BY <1>2, <1>8 DEF MoveCursor, StartUpload, FailUpload, OpenHelper, HideAssist, editorVars
<1>9. ASSUME NEW l \in lookups, ShowSuggestions(l) PROVE PreviewInv'
  BY <1>2, <1>9 DEF ShowSuggestions
<1> QED BY <1>4, <1>5, <1>6, <1>7, <1>8, <1>9 DEF EditorNext

\* However the text is changed and whatever answers overtake others, the answer
\* to the newest request is of the text in the editor or says it has failed.
THEOREM PreviewsShowText == EditorSpec => []PreviewShowsText
<1>1. EditorInit => PreviewInv
  BY DEF EditorInit, PreviewInv
<1>2. PreviewInv => PreviewShowsText
  BY DEF PreviewInv, PreviewShowsText
<1> QED BY <1>1, <1>2, PreviewStep, PTL DEF EditorSpec

-----------------------------------------------------------------------------
(* Suggestions.                                                            *)

\* Two sequences one after the other.
LEMMA ConcatElements ==
  ASSUME NEW b \in Seq(Piece), NEW c \in Seq(Piece)
  PROVE  /\ b \o c \in Seq(Piece)
         /\ Len(b \o c) = Len(b) + Len(c)
         /\ \A k \in 1..Len(b) : (b \o c)[k] = b[k]
         /\ \A k \in 1..Len(c) : (b \o c)[Len(b) + k] = c[k]
<1>1. Len(b) \in Nat /\ Len(c) \in Nat
  OBVIOUS
<1>2. b \o c \in Seq(Piece) /\ Len(b \o c) = Len(b) + Len(c)
  OBVIOUS
<1>3. \A k \in 1..Len(b) : (b \o c)[k] = b[k]
  BY <1>1
<1>4. ASSUME NEW k \in 1..Len(c) PROVE (b \o c)[Len(b) + k] = c[k]
  <2>1. Len(b) + k \in 1..(Len(b) + Len(c)) /\ ~(Len(b) + k <= Len(b)) /\ Len(b) + k - Len(b) = k
    BY <1>1
  <2> QED BY <1>1, <2>1
<1> QED BY <1>2, <1>3, <1>4

\* Sequence t is s with the piece in the place of those from + 1 .. to.
IsSplice(t, s, from, to, piece) ==
  LET rest == IF to <= Len(s) THEN Len(s) - to ELSE 0
  IN  /\ t \in Seq(Piece)
      /\ Len(t) = from + 1 + rest
      /\ \A k \in 1..from : t[k] = s[k]
      /\ t[from + 1] = piece
      /\ \A k \in 1..rest : t[from + 1 + k] = s[to + k]

\* Splice is that.
LEMMA SpliceElements ==
  ASSUME NEW s \in Seq(Piece), NEW from \in 0..Len(s), NEW to \in Nat, from <= to, NEW piece \in Piece
  PROVE  IsSplice(Splice(s, from, to, piece), s, from, to, piece)
<1> DEFINE rest == IF to <= Len(s) THEN Len(s) - to ELSE 0
           a == SubSeq(s, 1, from)
           b == a \o <<piece>>
           c == SubSeq(s, to + 1, Len(s))
           t == Splice(s, from, to, piece)
<1>1. Len(s) \in Nat
  OBVIOUS
<1>2. a \in Seq(Piece) /\ Len(a) = from /\ \A k \in 1..from : a[k] = s[k]
  BY <1>1
<1>3. b \in Seq(Piece) /\ Len(b) = from + 1 /\ (\A k \in 1..from : b[k] = s[k]) /\ b[from + 1] = piece
  <2> HIDE DEF a
  <2>1. <<piece>> \in Seq(Piece) /\ Len(<<piece>>) = 1 /\ <<piece>>[1] = piece
    OBVIOUS
  <2>2. b \in Seq(Piece) /\ Len(b) = from + 1
    BY <1>2, <2>1
  <2>3. \A k \in 1..from : b[k] = s[k]
    BY <1>2, <2>1
  <2>4. b[from + 1] = piece
    BY <1>2, <2>1
  <2> QED BY <2>2, <2>3, <2>4
<1>4. c \in Seq(Piece) /\ Len(c) = rest /\ \A k \in 1..rest : c[k] = s[to + k]
  BY <1>1
<1>5. t = b \o c
  BY DEF Splice
<1> HIDE DEF a, b, c, t
<1>6. rest \in Nat
  BY <1>1
<1> HIDE DEF rest
<1>7. /\ t \in Seq(Piece)
      /\ Len(t) = Len(b) + Len(c)
      /\ \A k \in 1..Len(b) : t[k] = b[k]
      /\ \A k \in 1..Len(c) : t[Len(b) + k] = c[k]
  BY <1>3, <1>4, <1>5, ConcatElements
<1>8. ASSUME NEW k \in 1..from PROVE t[k] = s[k]
  <2>1. k \in 1..Len(b)
    BY <1>3
  <2> QED BY <1>3, <1>7, <2>1
<1>9. t[from + 1] = piece
  BY <1>3, <1>7
<1>10. \A k \in 1..rest : t[from + 1 + k] = s[to + k]
  BY <1>3, <1>4, <1>7
<1>11. Len(t) = from + 1 + rest
  BY <1>3, <1>4, <1>7
<1> QED BY <1>7, <1>8, <1>9, <1>10, <1>11 DEF t, rest, IsSplice

\* A piece taken out.
LEMMA RemoveElements ==
  ASSUME NEW S, NEW s \in Seq(S), NEW at \in DOMAIN s
  PROVE  LET t == RemoveAt(s, at)
         IN  /\ t \in Seq(S)
             /\ Len(t) = Len(s) - 1
             /\ \A k \in 1..(at - 1) : t[k] = s[k]
             /\ \A k \in at..(Len(s) - 1) : t[k] = s[k + 1]
<1> DEFINE a == SubSeq(s, 1, at - 1)
           c == SubSeq(s, at + 1, Len(s))
<1>1. Len(s) \in Nat /\ at \in 1..Len(s)
  OBVIOUS
<1>2. a \in Seq(S) /\ Len(a) = at - 1 /\ \A k \in 1..(at - 1) : a[k] = s[k]
  BY <1>1
<1>3. c \in Seq(S) /\ Len(c) = Len(s) - at /\ \A k \in 1..(Len(s) - at) : c[k] = s[at + k]
  BY <1>1
<1>4. RemoveAt(s, at) = a \o c
  BY DEF RemoveAt
<1> HIDE DEF a, c
<1>5. a \o c \in Seq(S) /\ Len(a \o c) = Len(s) - 1
  BY <1>1, <1>2, <1>3
<1>6. \A k \in 1..(at - 1) : (a \o c)[k] = s[k]
  BY <1>1, <1>2, <1>3
<1>7. ASSUME NEW k \in at..(Len(s) - 1) PROVE (a \o c)[k] = s[k + 1]
  <2>1. (a \o c)[k] = c[k - (at - 1)]
    BY <1>1, <1>2, <1>3
  <2>2. k - (at - 1) \in 1..(Len(s) - at) /\ at + (k - (at - 1)) = k + 1
    BY <1>1
  <2> QED BY <1>3, <2>1, <2>2
<1> QED BY <1>4, <1>5, <1>6, <1>7

\* So the piece put in has a place.
LEMMA SplicePlaces ==
  ASSUME NEW s \in Seq(Piece), NEW from \in 0..Len(s), NEW to \in Nat, from <= to, NEW piece \in Piece
  PROVE  from + 1 \in 0..Len(Splice(s, from, to, piece))
<1> DEFINE t == Splice(s, from, to, piece)
           rest == IF to <= Len(s) THEN Len(s) - to ELSE 0
<1>1. Len(t) = from + 1 + rest
  <2>1. IsSplice(t, s, from, to, piece) BY SpliceElements
  <2> QED BY <2>1 DEF IsSplice
<1>2. rest \in Nat
  OBVIOUS
<1> HIDE DEF t, rest
<1>3. from + 1 \in 0..Len(t)
  BY <1>1, <1>2
<1> QED BY <1>3 DEF t

\* Pieces are told apart by their ids, of which n have been given.
Own(s, n) ==
  /\ s \in Seq(Piece)
  /\ \A i \in DOMAIN s : s[i].id <= n
  /\ \A i, j \in DOMAIN s : s[i].id = s[j].id => i = j

\* A range reaches from a trigger over pieces that are no tokens.
RangeFits(r, of) ==
  r = Empty \/ /\ r \in Span /\ r.from < r.to /\ r.to <= Len(of)
               /\ of[r.from + 1].kind = "trigger"
               /\ \A j \in (r.from + 1)..r.to : of[j].kind # "token"

\* The cursor is in the text, whose pieces differ, and every range, when it
\* was taken, was a reference being typed.
ChoiceInv ==
  /\ edits \in Nat /\ uploading \in Nat /\ edits + uploading <= MaxEdits
  /\ Own(text, edits)
  /\ cursor \in 0..Len(text)
  /\ \A l \in lookups : RangeFits(l.range, l.of)
  /\ assist.of # Empty => RangeFits(assist.range, assist.of)

\* A piece with a new id keeps the pieces different.
LEMMA SpliceOwn ==
  ASSUME NEW n \in Nat, n < MaxEdits, NEW s, Own(s, n), MaxEdits \in Nat,
         NEW from \in 0..Len(s), NEW to \in Nat, from <= to,
         NEW piece \in Piece, piece.id = n + 1
  PROVE  Own(Splice(s, from, to, piece), n + 1)
<1> DEFINE rest == IF to <= Len(s) THEN Len(s) - to ELSE 0
           t == Splice(s, from, to, piece)
<1>1. s \in Seq(Piece) /\ Len(s) \in Nat /\ DOMAIN s = 1..Len(s)
  BY DEF Own
<1>2. /\ t \in Seq(Piece)
      /\ Len(t) = from + 1 + rest
      /\ \A k \in 1..from : t[k] = s[k]
      /\ t[from + 1] = piece
      /\ \A k \in 1..rest : t[from + 1 + k] = s[to + k]
  <2>1. IsSplice(t, s, from, to, piece) BY <1>1, SpliceElements
  <2> QED BY <2>1 DEF IsSplice
<1>3. rest \in Nat /\ (rest # 0 => to + rest = Len(s))
  BY <1>1
<1> HIDE DEF t, rest
<1> DEFINE old(i) == IF i <= from THEN i ELSE to + (i - (from + 1))
<1>4. DOMAIN t = 1..(from + 1 + rest)
  BY <1>2
<1>5. ASSUME NEW i \in DOMAIN t, i # from + 1 PROVE old(i) \in DOMAIN s /\ t[i] = s[old(i)]
  <2>1. CASE i <= from
    BY <1>1, <1>2, <1>4, <2>1
  <2>2. CASE ~(i <= from)
    <3>1. PICK k : k = i - (from + 1)
      OBVIOUS
    <3>2. k \in 1..rest /\ i = from + 1 + k
      BY <1>3, <1>4, <1>5, <2>2, <3>1
    <3>3. t[from + 1 + k] = s[to + k]
      BY <1>2, <3>2
    <3>4. to + k \in 1..Len(s)
      <4>1. k \in Nat /\ 1 <= k /\ k <= rest
        BY <1>3, <3>2
      <4>2. to + rest = Len(s)
        BY <1>3, <4>1
      <4>3. PICK m \in Nat : m = Len(s)
        BY <1>1
      <4>4. to + k \in 1..m
        BY <1>3, <4>1, <4>2, <4>3
      <4> QED BY <4>3, <4>4
    <3> QED BY <1>1, <2>2, <3>1, <3>2, <3>3, <3>4
  <2> QED BY <2>1, <2>2
<1>6. ASSUME NEW i \in DOMAIN t, NEW j \in DOMAIN t, i # from + 1, j # from + 1, old(i) = old(j) PROVE i = j
  BY <1>3, <1>4, <1>6
<1> HIDE DEF old
<1>7. ASSUME NEW i \in DOMAIN t PROVE t[i].id <= n + 1 /\ (i # from + 1 => t[i].id <= n)
  <2>1. CASE i = from + 1
    BY <1>2, <2>1
  <2>2. CASE i # from + 1
    <3>1. s[old(i)].id <= n /\ s[old(i)] \in Piece /\ t[i] = s[old(i)]
      BY <1>1, <1>5, <2>2 DEF Own
    <3> QED BY <3>1 DEF Piece
  <2> QED BY <2>1, <2>2
<1>8. ASSUME NEW i \in DOMAIN t, NEW j \in DOMAIN t, t[i].id = t[j].id PROVE i = j
  <2>1. CASE i # from + 1 /\ j # from + 1
    BY <1>5, <1>6, <1>8, <2>1 DEF Own
  <2>2. CASE i = from + 1 /\ j # from + 1
    <3>1. t[i].id = n + 1 /\ t[j].id <= n
      BY <1>2, <1>7, <2>2
    <3> QED BY <1>8, <3>1
  <2>3. CASE i # from + 1 /\ j = from + 1
    <3>1. t[j].id = n + 1 /\ t[i].id <= n
      BY <1>2, <1>7, <2>3
    <3> QED BY <1>8, <3>1
  <2>4. CASE i = from + 1 /\ j = from + 1
    BY <2>4
  <2> QED BY <2>1, <2>2, <2>3, <2>4
<1> QED BY <1>2, <1>7, <1>8 DEF Own, t

\* Nor does it make two alike to take one out.
LEMMA RemoveOwn ==
  ASSUME NEW n \in Nat, NEW s, Own(s, n), NEW at \in DOMAIN s
  PROVE  Own(RemoveAt(s, at), n + 1) /\ at - 1 \in 0..Len(RemoveAt(s, at))
<1> DEFINE t == RemoveAt(s, at)
<1>1. s \in Seq(Piece) /\ Len(s) \in Nat /\ DOMAIN s = 1..Len(s)
  BY SMTT(30) DEF Own
<1>2. /\ t \in Seq(Piece)
      /\ Len(t) = Len(s) - 1
      /\ \A k \in 1..(at - 1) : t[k] = s[k]
      /\ \A k \in at..(Len(s) - 1) : t[k] = s[k + 1]
  BY <1>1, RemoveElements
<1> HIDE DEF t
<1> DEFINE old(i) == IF i < at THEN i ELSE i + 1
<1>3. DOMAIN t = 1..(Len(s) - 1)
  BY <1>1, <1>2
<1>4. ASSUME NEW i \in DOMAIN t PROVE old(i) \in DOMAIN s /\ t[i] = s[old(i)]
  <2>1. CASE i < at
    BY <1>1, <1>2, <1>3, <2>1
  <2>2. CASE ~(i < at)
    <3>1. i \in at..(Len(s) - 1)
      BY <1>1, <1>3, <2>2
    <3> QED BY <1>1, <1>2, <2>2, <3>1
  <2> QED BY <2>1, <2>2
<1>5. ASSUME NEW i \in DOMAIN t, NEW j \in DOMAIN t, old(i) = old(j) PROVE i = j
  BY <1>1, <1>3, <1>5
<1> HIDE DEF old
<1>6. ASSUME NEW i \in DOMAIN t PROVE t[i].id <= n + 1
  <2>1. s[old(i)].id <= n /\ s[old(i)] \in Piece /\ t[i] = s[old(i)]
    BY <1>1, <1>4 DEF Own
  <2> QED BY <2>1 DEF Piece
<1>7. ASSUME NEW i \in DOMAIN t, NEW j \in DOMAIN t, t[i].id = t[j].id PROVE i = j
  BY <1>4, <1>5, <1>7 DEF Own
<1>8. at - 1 \in 0..Len(t)
  BY <1>1, <1>2
<1> QED BY <1>2, <1>6, <1>7, <1>8 DEF Own, t

\* The range asked about starts at the first trigger with no token after it.
LEMMA TriggerAsks ==
  ASSUME NEW s \in Seq(Piece), NEW c \in 0..Len(s), HandleTokenTrigger(s, c)
  PROVE  \/ lookups' = lookups
         \/ \E r \in Span : RangeFits(r, s) /\ lookups' = lookups \cup {[range |-> r, of |-> s]}
<1> DEFINE starts == TriggerStarts(s, c)
           first == CHOOSE i \in starts : \A j \in starts : i <= j
<1>1. CASE starts # {}
  <2>1. starts \subseteq Nat
    BY DEF TriggerStarts
  <2>2. \E i \in starts : \A j \in starts : i <= j
    <3> HIDE DEF starts
    <3>1. \E i \in starts : \A j \in starts : ~(<<j, i>> \in OpToRel(<, Nat))
      BY <1>1, <2>1, WFMin, NatLessThanWellFounded
    <3>2. PICK i \in starts : \A j \in starts : ~(<<j, i>> \in OpToRel(<, Nat))
      BY <3>1
    <3>3. ASSUME NEW j \in starts PROVE i <= j
      <4>1. ~(<<j, i>> \in {ss \in Nat \X Nat : ss[1] < ss[2]})
        BY <3>2 DEF OpToRel
      <4> QED BY <2>1, <4>1
    <3> QED BY <3>3
  <2>3. PICK i : i = first
    OBVIOUS
  <2>4. i \in starts
    BY <2>2, <2>3
  <2>5. i \in 1..c /\ s[i].kind = "trigger" /\ \A j \in i..c : s[j].kind # "token"
    BY <2>4 DEF TriggerStarts
  <2>6. i - 1 \in Nat /\ c \in Nat /\ i - 1 < c /\ c <= Len(s) /\ i - 1 + 1 = i
    BY <2>5
  <2>7. RangeFits([from |-> i - 1, to |-> c], s) /\ [from |-> i - 1, to |-> c] \in Span
    BY <2>5, <2>6 DEF RangeFits, Span
  <2>8. lookups' = lookups \cup {[range |-> [from |-> i - 1, to |-> c], of |-> s]}
    BY <1>1, <2>3 DEF HandleTokenTrigger, LoadSuggestions
  <2> QED BY <2>7, <2>8
<1>2. CASE starts = {}
  BY <1>2 DEF HandleTokenTrigger
<1> QED BY <1>1, <1>2

\* Every step of the editor keeps it so.
LEMMA ChoiceStep ==
  ASSUME ChoiceInv, [EditorNext]_editorVars
  PROVE  ChoiceInv'
<1> USE EditorAssumption
<1>0. MaxEdits \in Nat
  BY EditorAssumption
<1>1. ASSUME NEW s, NEW c, Input(s, c), Own(s, edits + 1), c \in 0..Len(s) PROVE ChoiceInv'
  <2>1. s \in Seq(Piece)
    BY <1>1 DEF Own
  <2>2. \A l \in lookups' : RangeFits(l.range, l.of)
    BY <1>1, <2>1, TriggerAsks DEF Input, ChoiceInv
  <2>3. edits' = edits + 1 /\ text' = s /\ cursor' = c /\ UNCHANGED <<assist, uploading>> /\ edits + uploading < MaxEdits
    BY <1>1 DEF Input
  <2> QED BY <1>0, <1>1, <2>2, <2>3 DEF ChoiceInv, Own, RangeFits
<1>2. ASSUME NEW kind \in {"plain", "trigger", "token"}, edits < MaxEdits
      PROVE  NewPiece(kind) \in Piece /\ NewPiece(kind).id = edits + 1
  BY <1>0, <1>2 DEF ChoiceInv, NewPiece, Piece
<1>3. ASSUME NEW from \in 0..Len(text), NEW to \in Nat, from <= to, NEW kind \in {"plain", "trigger", "token"}, edits < MaxEdits
      PROVE  /\ Own(Splice(text, from, to, NewPiece(kind)), edits + 1)
             /\ from + 1 \in 0..Len(Splice(text, from, to, NewPiece(kind)))
  <2>1. edits \in Nat /\ Own(text, edits)
    BY DEF ChoiceInv
  <2>2. PICK p \in Piece : p = NewPiece(kind) /\ p.id = edits + 1
    BY <1>2, <1>3
  <2>3. Own(Splice(text, from, to, p), edits + 1)
    BY <1>0, <1>3, <2>1, <2>2, SpliceOwn
  <2>4. text \in Seq(Piece) /\ Len(text) \in Nat
    BY <2>1 DEF Own
  <2>5. from + 1 \in 0..Len(Splice(text, from, to, p))
    BY <1>3, <2>2, <2>4, SplicePlaces
  <2> QED BY <2>2, <2>3, <2>5
<1>4. CASE TypePiece
  <2>1. PICK at \in 0..Len(text), kind \in {"plain", "trigger"} : Input(Splice(text, at, at, NewPiece(kind)), at + 1)
    BY <1>4 DEF TypePiece
  <2>2. edits < MaxEdits /\ Len(text) \in Nat
    BY <1>0, <2>1 DEF Input, ChoiceInv, Own
  <2>3. at \in Nat /\ at <= at
    BY <2>2
  <2>4. /\ Own(Splice(text, at, at, NewPiece(kind)), edits + 1)
        /\ at + 1 \in 0..Len(Splice(text, at, at, NewPiece(kind)))
    BY <1>3, <2>2, <2>3
  <2> QED BY <1>1, <2>1, <2>4
<1>5. CASE ErasePiece
  <2>1. PICK at \in DOMAIN text : Input(RemoveAt(text, at), at - 1)
    BY <1>5 DEF ErasePiece
  <2>2. Own(RemoveAt(text, at), edits + 1) /\ at - 1 \in 0..Len(RemoveAt(text, at))
    BY RemoveOwn DEF ChoiceInv
  <2> QED BY <1>1, <2>1, <2>2
<1>6. CASE ApplyTemplate
  <2>1. Input(<<NewPiece("plain")>>, 1)
    BY <1>6 DEF ApplyTemplate
  <2>2. edits < MaxEdits /\ edits \in Nat
    BY <1>0, <2>1 DEF Input, ChoiceInv
  <2>3. NewPiece("plain") \in Piece /\ NewPiece("plain").id = edits + 1
    BY <1>2, <2>2
  <2>4. Own(<<NewPiece("plain")>>, edits + 1) /\ 1 \in 0..Len(<<NewPiece("plain")>>)
    BY <2>2, <2>3 DEF Own
  <2> QED BY <1>1, <2>1, <2>4
<1>7. CASE FinishUpload
  <2>1. edits < MaxEdits /\ cursor \in 0..Len(text) /\ Len(text) \in Nat
    BY <1>0, <1>7 DEF FinishUpload, ChoiceInv, Own
  <2>2. /\ Own(Splice(text, cursor, cursor, NewPiece("token")), edits + 1)
        /\ cursor + 1 \in 0..Len(Splice(text, cursor, cursor, NewPiece("token")))
    <3>1. cursor \in Nat /\ cursor <= cursor
      BY <2>1
    <3> QED BY <1>3, <2>1, <3>1
  <2>3. edits' \in Nat /\ uploading' \in Nat /\ edits' + uploading' <= MaxEdits
    BY <1>0, <1>7 DEF FinishUpload, ChoiceInv
  <2>4. UNCHANGED <<assist, lookups>>
    BY <1>7 DEF FinishUpload
  <2>5. /\ text' = Splice(text, cursor, cursor, NewPiece("token"))
        /\ edits' = edits + 1 /\ cursor' = cursor + 1
    BY <1>7 DEF FinishUpload
  <2> QED BY <2>2, <2>3, <2>4, <2>5 DEF ChoiceInv, RangeFits
<1>8. CASE ChooseSuggestion
  <2>1. PICK f : f = IF assist.range = Empty THEN cursor ELSE assist.range.from
    OBVIOUS
  <2>2. PICK to : to = IF assist.range = Empty THEN cursor ELSE assist.range.to
    OBVIOUS
  <2>3. PICK from : from = IF f < Len(text) THEN f ELSE Len(text)
    OBVIOUS
  <2>4. cursor \in 0..Len(text) /\ Len(text) \in Nat /\ Own(text, edits)
    BY DEF ChoiceInv, Own
  <2>5. f \in Nat /\ to \in Nat /\ f <= to
    BY <1>8, <2>1, <2>2, <2>4 DEF ChooseSuggestion, ChoiceInv, RangeFits, Span
  <2>6. from \in 0..Len(text) /\ from <= to
    BY <2>3, <2>4, <2>5
  <2>7. edits < MaxEdits
    BY <1>0, <1>8 DEF ChooseSuggestion, ChoiceInv
  <2>8. /\ Own(Splice(text, from, to, NewPiece("token")), edits + 1)
        /\ from + 1 \in 0..Len(Splice(text, from, to, NewPiece("token")))
    BY <1>3, <2>5, <2>6, <2>7
  <2>9. /\ text' = Splice(text, from, to, NewPiece("token"))
        /\ edits' = edits + 1
        /\ cursor' = IF f < Len(text) THEN f + 1 ELSE Len(text')
    BY <1>8, <2>1, <2>2, <2>3 DEF ChooseSuggestion
  <2>10. cursor' \in 0..Len(text')
    <3>1. Len(text') \in Nat
      BY <2>8, <2>9 DEF Own
    <3> QED BY <2>3, <2>5, <2>8, <2>9, <3>1
  <2>11. UNCHANGED <<lookups, uploading>> /\ assist' = [assist EXCEPT !.hidden = TRUE] /\ edits + uploading < MaxEdits
    BY <1>8 DEF ChooseSuggestion
  <2>12. assist'.of # Empty => RangeFits(assist'.range, assist'.of)
    BY <2>11 DEF ChoiceInv
  <2> QED BY <1>0, <2>8, <2>9, <2>10, <2>11, <2>12 DEF ChoiceInv
<1>9. CASE MoveCursor
  <2>1. cursor' \in 0..Len(text') /\ UNCHANGED <<text, edits, assist, lookups, uploading>>
    BY <1>9 DEF MoveCursor
  <2> QED BY <2>1 DEF ChoiceInv, Own, RangeFits
<1>10. ASSUME UNCHANGED <<text, cursor, edits, assist, lookups>>, uploading' \in Nat, edits + uploading' <= MaxEdits PROVE ChoiceInv'
  BY <1>10 DEF ChoiceInv, Own, RangeFits
<1>11. CASE PreviewDue \/ UNCHANGED editorVars \/ \E p \in previews : ShowPreview(p)
  BY <1>10, <1>11 DEF PreviewDue, ShowPreview, editorVars, ChoiceInv
<1>12. CASE StartUpload \/ FailUpload
  <2>1. UNCHANGED <<text, cursor, edits, assist, lookups>>
    BY <1>12 DEF StartUpload, FailUpload
  <2>2. edits \in Nat /\ uploading \in Nat /\ edits + uploading <= MaxEdits
    BY DEF ChoiceInv
  <2>3. uploading' \in Nat /\ edits + uploading' <= MaxEdits
    <3>1. CASE uploading' = uploading + 1 /\ edits + uploading < MaxEdits
      BY <1>0, <2>2, <3>1
    <3>2. CASE uploading' = uploading - 1 /\ uploading > 0
      BY <1>0, <2>2, <3>2
    <3> QED BY <1>12, <3>1, <3>2 DEF StartUpload, FailUpload
  <2> QED BY <1>10, <2>1, <2>3
<1>13. CASE OpenHelper
  <2>1. /\ UNCHANGED <<text, cursor, edits, uploading>>
        /\ assist'.of = assist.of /\ assist'.range = assist.range
        /\ lookups' = lookups \cup {[range |-> Empty, of |-> text]}
    BY <1>13 DEF OpenHelper, LoadSuggestions
  <2> QED BY <2>1 DEF ChoiceInv, Own, RangeFits
<1>14. CASE HideAssist
  <2>1. UNCHANGED <<text, cursor, edits, uploading, lookups>> /\ assist'.of = assist.of /\ assist'.range = assist.range
    BY <1>14 DEF HideAssist
  <2> QED BY <2>1 DEF ChoiceInv, Own, RangeFits
<1>15. ASSUME NEW l \in lookups, ShowSuggestions(l) PROVE ChoiceInv'
  <2>1. UNCHANGED <<text, cursor, edits, uploading>> /\ lookups' \subseteq lookups
    BY <1>15 DEF ShowSuggestions
  <2>2. assist'.of # Empty => assist'.of = l.of /\ assist'.range = l.range
    BY <1>15 DEF ShowSuggestions
  <2>3. RangeFits(l.range, l.of)
    BY DEF ChoiceInv
  <2> QED BY <2>1, <2>2, <2>3 DEF ChoiceInv, Own
<1> QED BY <1>4, <1>5, <1>6, <1>7, <1>8, <1>9, <1>11, <1>12, <1>13, <1>14, <1>15 DEF EditorNext

\* The pieces outside the place stay.
LEMMA SpliceKeeps ==
  ASSUME NEW s \in Seq(Piece), NEW from \in 0..Len(s), NEW to \in Nat, from <= to, NEW piece \in Piece,
         NEW i \in DOMAIN s, i <= from \/ to < i
  PROVE  s[i] \in Range(Splice(s, from, to, piece))
<1> DEFINE rest == IF to <= Len(s) THEN Len(s) - to ELSE 0
           t == Splice(s, from, to, piece)
<1>1. Len(s) \in Nat /\ i \in 1..Len(s) /\ rest \in Nat
  OBVIOUS
<1>2. /\ t \in Seq(Piece)
      /\ Len(t) = from + 1 + rest
      /\ \A k \in 1..from : t[k] = s[k]
      /\ t[from + 1] = piece
      /\ \A k \in 1..rest : t[from + 1 + k] = s[to + k]
  <2>1. IsSplice(t, s, from, to, piece) BY SpliceElements
  <2> QED BY <2>1 DEF IsSplice
<1>3. to < i => i - to \in 1..rest
  BY <1>1
<1> HIDE DEF t, rest
<1>4. DOMAIN t = 1..(from + 1 + rest)
  BY <1>2
<1>5. CASE i <= from
  <2>1. i \in DOMAIN t /\ t[i] = s[i]
    <3>1. i \in 1..from
      BY <1>1, <1>5
    <3>2. t[i] = s[i]
      BY <1>2, <3>1
    <3>3. i \in 1..(from + 1 + rest)
      BY <1>1, <3>1
    <3> QED BY <1>4, <3>2, <3>3
  <2> QED BY <2>1 DEF Range, t
<1>6. CASE to < i
  <2>1. PICK k : k = i - to
    OBVIOUS
  <2>2. k \in 1..rest /\ to + k = i
    BY <1>1, <1>6, <1>3, <2>1
  <2>3. t[from + 1 + k] = s[i]
    BY <1>2, <2>2
  <2>4. from + 1 + k \in DOMAIN t
    BY <1>1, <1>4, <2>2
  <2> QED BY <2>3, <2>4 DEF Range, t
<1> QED BY <1>1, <1>5, <1>6

\* Those in the place are gone.
LEMMA SpliceLoses ==
  ASSUME NEW n \in Nat, NEW s, Own(s, n), NEW from \in 0..Len(s), NEW to \in Nat, to <= Len(s),
         NEW piece \in Piece, piece.id = n + 1, NEW j \in (from + 1)..to
  PROVE  s[j] \notin Range(Splice(s, from, to, piece))
<1> DEFINE rest == IF to <= Len(s) THEN Len(s) - to ELSE 0
           t == Splice(s, from, to, piece)
<1>1. s \in Seq(Piece) /\ Len(s) \in Nat /\ DOMAIN s = 1..Len(s) /\ j \in 1..Len(s) /\ from <= to
  BY DEF Own
<1>2. /\ t \in Seq(Piece)
      /\ Len(t) = from + 1 + rest
      /\ \A k \in 1..from : t[k] = s[k]
      /\ t[from + 1] = piece
      /\ \A k \in 1..rest : t[from + 1 + k] = s[to + k]
  <2>1. IsSplice(t, s, from, to, piece) BY <1>1, SpliceElements
  <2> QED BY <2>1 DEF IsSplice
<1>3. rest \in Nat /\ to + rest = Len(s)
  BY <1>1
<1> HIDE DEF t, rest
<1>4. DOMAIN t = 1..(from + 1 + rest)
  BY <1>2
<1>5. ASSUME NEW m \in DOMAIN t PROVE t[m] # s[j]
  <2>1. CASE m <= from
    <3>1. t[m] = s[m] /\ m \in DOMAIN s /\ m # j
      BY <1>1, <1>2, <1>4, <2>1
    <3> QED BY <1>1, <3>1 DEF Own
  <2>2. CASE m = from + 1
    <3>1. s[j].id <= n /\ s[j] \in Piece
      BY <1>1 DEF Own
    <3>2. s[j].id # n + 1
      BY <3>1 DEF Piece
    <3> QED BY <1>2, <2>2, <3>2
  <2>3. CASE m > from + 1
    <3>1. PICK k : k = m - (from + 1)
      OBVIOUS
    <3>2. k \in 1..rest /\ from + 1 + k = m
      BY <1>3, <1>4, <2>3, <3>1
    <3>3. t[m] = s[to + k]
      BY <1>2, <3>2
    <3>4. to + k \in DOMAIN s /\ to + k # j
      <4>1. k \in Nat /\ 1 <= k /\ k <= rest
        BY <1>3, <3>2
      <4>2. PICK l \in Nat : l = Len(s)
        BY <1>1
      <4>3. to + k \in 1..l
        BY <1>3, <4>1, <4>2
      <4>4. to + k # j
        BY <4>1
      <4> QED BY <1>1, <4>2, <4>3, <4>4
    <3> QED BY <1>1, <3>3, <3>4 DEF Own
  <2> QED BY <1>3, <1>4, <2>1, <2>2, <2>3
<1> QED BY <1>5 DEF Range, t

\* A suggestion taken for the text it was asked for replaces the reference
\* being typed, whatever else was typed, answered or uploaded before.
THEOREM ChoicesKeepText == EditorSpec => ChoiceKeepsText
<1>1. EditorInit => ChoiceInv
  <2>1. ASSUME EditorInit PROVE ChoiceInv
    <3>1. Own(<<>>, 0)
      BY DEF Own
    <3>2. MaxEdits \in Nat
      BY EditorAssumption
    <3>3. cursor \in 0..Len(text)
      BY <2>1 DEF EditorInit
    <3> QED BY <2>1, <3>1, <3>2, <3>3 DEF EditorInit, ChoiceInv
  <2> QED BY <2>1
<1> DEFINE Kept(i) ==
      \/ text[i] \in Range(text')
      \/ \E j \in 1..i : /\ text[j].kind = "trigger" /\ text[j] \notin Range(text')
                        /\ \A k \in j..i : text[k].kind # "token"
<1>2. ASSUME ChoiceInv, [EditorNext]_editorVars, chosen' # chosen, assist.of = text, NEW i \in DOMAIN text
      PROVE  Kept(i)
  <2>1. ChooseSuggestion
    BY <1>2 DEF EditorNext, editorVars, TypePiece, ErasePiece, ApplyTemplate, Input, MoveCursor, PreviewDue,
                ShowPreview, StartUpload, FinishUpload, FailUpload, OpenHelper, HideAssist, ShowSuggestions
  <2>2. PICK f : f = IF assist.range = Empty THEN cursor ELSE assist.range.from
    OBVIOUS
  <2>3. PICK to : to = IF assist.range = Empty THEN cursor ELSE assist.range.to
    OBVIOUS
  <2>4. PICK n \in Nat : n = edits
    BY <1>2 DEF ChoiceInv
  <2>5. cursor \in 0..Len(text) /\ Len(text) \in Nat /\ Own(text, n) /\ text \in Seq(Piece) /\ DOMAIN text = 1..Len(text)
    BY <1>2, <2>4 DEF ChoiceInv, Own
  <2>6. RangeFits(assist.range, text)
    BY <1>2, <2>1 DEF ChooseSuggestion, ChoiceInv
  <2>7. /\ f \in 0..Len(text) /\ to \in Nat /\ f <= to /\ to <= Len(text)
        /\ f < to => /\ text[f + 1].kind = "trigger"
                     /\ \A j \in (f + 1)..to : text[j].kind # "token"
    BY <2>2, <2>3, <2>5, <2>6 DEF RangeFits, Span
  <2>8. PICK piece : piece = NewPiece("token")
    OBVIOUS
  <2>9. piece \in Piece /\ piece.id = n + 1
    <3>1. MaxEdits \in Nat /\ edits + uploading < MaxEdits /\ uploading \in Nat
      BY <1>2, <2>1, EditorAssumption DEF ChooseSuggestion, ChoiceInv
    <3>2. n + 1 \in 1..MaxEdits
      BY <2>4, <3>1
    <3> QED BY <2>4, <2>8, <3>2 DEF NewPiece, Piece
  <2>10. text' = Splice(text, f, to, piece)
    <3>1. text' = Splice(text, IF f < Len(text) THEN f ELSE Len(text), to, piece)
      BY <2>1, <2>2, <2>3, <2>8 DEF ChooseSuggestion
    <3>2. (IF f < Len(text) THEN f ELSE Len(text)) = f
      <4>1. PICK l \in Nat : l = Len(text)
        BY <2>5
      <4>2. f \in 0..l
        BY <2>7, <4>1
      <4> QED BY <4>1, <4>2
    <3> QED BY <3>1, <3>2
  <2>11. CASE i <= f \/ to < i
    <3>1. text[i] \in Range(Splice(text, f, to, piece))
      BY <1>2, <2>5, <2>7, <2>9, <2>11, SpliceKeeps
    <3> QED BY <2>10, <3>1
  <2>12. CASE ~(i <= f \/ to < i)
    <3>1. i \in 1..Len(text) /\ f < to /\ f + 1 \in 1..i /\ f + 1 \in (f + 1)..to
      BY <1>2, <2>5, <2>7, <2>12
    <3>2. text[f + 1] \notin Range(Splice(text, f, to, piece))
      BY <2>5, <2>7, <2>9, <3>1, SpliceLoses
    <3>3. text[f + 1].kind = "trigger" /\ \A k \in (f + 1)..i : text[k].kind # "token"
      BY <2>7, <2>12, <3>1
    <3> QED BY <2>10, <3>1, <3>2, <3>3
  <2> QED BY <2>11, <2>12
<1>3. ChoiceInv /\ [EditorNext]_editorVars
        => [chosen' # chosen /\ assist.of = text => \A i \in DOMAIN text : Kept(i)]_editorVars
  BY <1>2
<1> QED BY <1>1, <1>3, ChoiceStep, PTL DEF EditorSpec, ChoiceKeepsText

-----------------------------------------------------------------------------
(* The state of the editor.                                                *)

\* Each suggestion that was taken was an edit.
EditorInv == EditorTypeOK /\ ChoiceInv /\ chosen <= edits

\* The bounds are natural numbers.
LEMMA EditorBounds ==
  MaxEdits \in Nat /\ MaxAsked \in Nat /\ MaxAsked >= 1 /\ MaxLookups \in Nat /\ MaxFailed \in Nat
BY EditorAssumption

\* initializeEditor asks for the preview of an empty text.
LEMMA EditorStart == ASSUME EditorInit PROVE EditorInv
<1>1. Own(<<>>, 0) /\ <<>> \in Seq(Piece)
  BY DEF Own
<1>2. preview \in [number : 0..MaxAsked, of : {Unavailable} \cup Seq(Piece)]
  BY <1>1, EditorBounds DEF EditorInit
<1>3. previews \subseteq [number : 1..MaxAsked, of : Seq(Piece)] /\ asked \in 0..MaxAsked
  BY <1>1, EditorBounds DEF EditorInit
<1>4. assist \in [hidden : BOOLEAN, range : {Empty} \cup Span, of : {Empty} \cup Seq(Piece)]
  BY DEF EditorInit
<1>5. text = <<>> /\ cursor = 0 /\ edits = 0 /\ uploading = 0 /\ lookups = {} /\ assist.of = Empty
  BY DEF EditorInit
<1>6. ChoiceInv
  BY <1>1, <1>5, EditorBounds DEF ChoiceInv
<1>7. cursor \in 0..Len(text) /\ text \in Seq(Piece) /\ uploading \in 0..MaxEdits /\ edits \in 0..MaxEdits
  BY <1>1, <1>5, EditorBounds
<1>8. chosen \in 0..MaxEdits /\ chosen <= edits /\ failed \in 0..MaxFailed /\ timer \in BOOLEAN
  <2>1. chosen = 0 /\ edits = 0 /\ failed = 0 /\ timer = FALSE
    BY DEF EditorInit
  <2>2. timer \in BOOLEAN
    BY <2>1
  <2>3. chosen \in 0..MaxEdits /\ chosen <= edits /\ failed \in 0..MaxFailed
    BY <2>1, EditorBounds
  <2>4. QED BY <2>2, <2>3
<1>9. QED BY <1>2, <1>3, <1>4, <1>5, <1>6, <1>7, <1>8 DEF EditorInv, EditorTypeOK

\* A request for a preview of a text has the next number.
LEMMA AskTypes ==
  ASSUME EditorTypeOK, NEW of \in Seq(Piece), AskPreview(of)
  PROVE  /\ asked' \in 0..MaxAsked
         /\ previews' \subseteq [number : 1..MaxAsked, of : Seq(Piece)]
<1>1. asked' \in 1..MaxAsked
  BY EditorBounds DEF AskPreview, EditorTypeOK
<1>2. PICK n \in 1..MaxAsked : n = asked'
  BY <1>1
<1>3. previews' = previews \cup {[number |-> n, of |-> of]}
  BY <1>2 DEF AskPreview
<1>4. QED BY <1>2, <1>3, EditorBounds DEF EditorTypeOK

\* Failed requests are counted up to their bound.
LEMMA FailsTypes ==
  ASSUME EditorTypeOK, NEW yes \in BOOLEAN, Fails(yes)
  PROVE  failed' \in 0..MaxFailed
BY EditorBounds DEF Fails, EditorTypeOK

\* Every step of the editor keeps its state typed.
LEMMA EditorStep == ASSUME EditorInv, [EditorNext]_editorVars PROVE EditorInv'
<1> DEFINE Asking == /\ asked' \in 0..MaxAsked
                     /\ previews' \subseteq [number : 1..MaxAsked, of : Seq(Piece)]
           Listing == lookups' \subseteq [range : {Empty} \cup Span, of : Seq(Piece)]
           Helping == assist' \in [hidden : BOOLEAN, range : {Empty} \cup Span, of : {Empty} \cup Seq(Piece)]
           Previewing == preview' \in [number : 0..MaxAsked, of : {Unavailable} \cup Seq(Piece)]
           Counting == chosen' \in Nat /\ chosen' <= edits' /\ failed' \in 0..MaxFailed /\ timer' \in BOOLEAN
<1>1. ChoiceInv'
  BY ChoiceStep DEF EditorInv
<1>2. /\ text' \in Seq(Piece) /\ cursor' \in 0..Len(text') /\ edits' \in 0..MaxEdits /\ uploading' \in 0..MaxEdits
      /\ edits' \in Nat
  <2>1. Own(text', edits') /\ cursor' \in 0..Len(text')
    BY <1>1 DEF ChoiceInv
  <2>2. edits' \in Nat /\ uploading' \in Nat /\ edits' + uploading' <= MaxEdits
    BY <1>1 DEF ChoiceInv
  <2>3. text' \in Seq(Piece)
    BY <2>1 DEF Own
  <2>4. PICK e \in Nat : e = edits'
    BY <2>2
  <2>5. PICK u \in Nat : u = uploading'
    BY <2>2
  <2>6. e \in 0..MaxEdits /\ u \in 0..MaxEdits
    <3>1. MaxEdits \in Nat /\ e + u <= MaxEdits
      BY <2>2, <2>4, <2>5, EditorBounds
    <3>2. QED BY <3>1
  <2>7. QED BY <2>1, <2>2, <2>3, <2>4, <2>5, <2>6
<1>3. ASSUME Asking, Listing, Helping, Previewing, Counting PROVE EditorInv'
  <2>1. chosen' \in 0..MaxEdits
    BY <1>2, <1>3, EditorBounds
  <2>2. QED BY <1>1, <1>2, <1>3, <2>1 DEF EditorInv, EditorTypeOK
<1>4. /\ text \in Seq(Piece) /\ cursor \in 0..Len(text) /\ edits \in Nat /\ chosen \in Nat /\ chosen <= edits
      /\ failed \in 0..MaxFailed /\ timer \in BOOLEAN
      /\ EditorTypeOK
  BY EditorBounds DEF EditorInv, EditorTypeOK
<1>5. ASSUME UNCHANGED <<asked, previews>> PROVE Asking
  BY <1>4, <1>5 DEF EditorTypeOK
<1>6. ASSUME UNCHANGED lookups PROVE Listing
  BY <1>4, <1>6 DEF EditorTypeOK
<1>7. ASSUME UNCHANGED assist PROVE Helping
  BY <1>4, <1>7 DEF EditorTypeOK
<1>8. ASSUME UNCHANGED preview PROVE Previewing
  BY <1>4, <1>8 DEF EditorTypeOK
<1>9. ASSUME UNCHANGED <<chosen, edits, failed, timer>> PROVE Counting
  BY <1>4, <1>9
<1>10. ASSUME assist' = [assist EXCEPT !.hidden = TRUE] \/ assist' = [assist EXCEPT !.hidden = FALSE] PROVE Helping
  BY <1>4, <1>10 DEF EditorTypeOK
<1> HIDE DEF Asking, Listing, Helping, Previewing, Counting
<1>11. ASSUME NEW s \in Seq(Piece), NEW c \in 0..Len(s), Input(s, c) PROVE EditorInv'
  <2>1. UNCHANGED <<preview, asked, previews, assist, chosen, failed>> /\ edits' = edits + 1 /\ timer' = TRUE
    BY <1>11 DEF Input
  <2>2. Counting
    BY <1>4, <2>1 DEF Counting
  <2>3. \/ lookups' = lookups
        \/ \E r \in Span : RangeFits(r, s) /\ lookups' = lookups \cup {[range |-> r, of |-> s]}
    BY <1>11, TriggerAsks DEF Input
  <2>4. Listing
    BY <1>4, <2>3 DEF EditorTypeOK, Listing
  <2>5. QED BY <1>3, <1>5, <1>7, <1>8, <2>1, <2>2, <2>4
<1>12. ASSUME NEW s, NEW c, Input(s, c) PROVE EditorInv'
  <2>1. text' = s /\ cursor' = c
    BY <1>12 DEF Input
  <2>2. s \in Seq(Piece) /\ c \in 0..Len(s)
    BY <1>2, <2>1
  <2>3. QED BY <1>11, <1>12, <2>2
<1>13. CASE TypePiece
  BY <1>12, <1>13 DEF TypePiece
<1>14. CASE ErasePiece
  BY <1>12, <1>14 DEF ErasePiece
<1>15. CASE ApplyTemplate
  BY <1>12, <1>15 DEF ApplyTemplate
<1>16. CASE MoveCursor
  BY <1>3, <1>5, <1>6, <1>7, <1>8, <1>9, <1>16 DEF MoveCursor
<1>17. CASE PreviewDue
  <2>1. UNCHANGED <<text, cursor, edits, preview, assist, lookups, uploading, chosen, failed>> /\ timer' = FALSE
    BY <1>17 DEF PreviewDue
  <2>2. Asking
    BY <1>4, <1>17, AskTypes DEF PreviewDue, Asking
  <2>3. Counting
    BY <1>4, <2>1 DEF Counting
  <2>4. QED BY <1>3, <1>6, <1>7, <1>8, <2>1, <2>2, <2>3
<1>18. ASSUME NEW p \in previews, ShowPreview(p) PROVE EditorInv'
  <2>1. UNCHANGED <<edits, timer, asked, assist, lookups, chosen>> /\ previews' = previews \ {p}
    BY <1>18 DEF ShowPreview
  <2>2. PICK fails \in BOOLEAN : /\ Fails(fails)
                                 /\ preview' = [number |-> p.number, of |-> IF fails THEN Unavailable ELSE p.of]
    BY <1>18 DEF ShowPreview
  <2>3. p.number \in 0..MaxAsked /\ p.of \in Seq(Piece)
    BY <1>4, EditorBounds DEF EditorTypeOK
  <2>4. Previewing
    BY <2>2, <2>3 DEF Previewing
  <2>5. Counting
    BY <1>4, <2>1, <2>2, FailsTypes DEF Counting
  <2>6. Asking
    BY <1>4, <2>1 DEF EditorTypeOK, Asking
  <2>7. QED BY <1>3, <1>6, <1>7, <2>1, <2>4, <2>5, <2>6
<1>19. CASE StartUpload
  BY <1>3, <1>5, <1>6, <1>7, <1>8, <1>9, <1>19 DEF StartUpload
<1>20. CASE FinishUpload
  <2>1. UNCHANGED <<timer, preview, assist, lookups, chosen, failed>> /\ edits' = edits + 1 /\ AskPreview(text')
    BY <1>20 DEF FinishUpload
  <2>2. PICK s \in Seq(Piece) : s = text'
    BY <1>2
  <2>3. AskPreview(s)
    BY <2>1, <2>2
  <2>4. Asking
    BY <1>4, <2>3, AskTypes DEF Asking
  <2>5. Counting
    BY <1>4, <2>1 DEF Counting
  <2>6. QED BY <1>3, <1>6, <1>7, <1>8, <2>1, <2>4, <2>5
<1>21. CASE FailUpload
  <2>1. UNCHANGED <<text, cursor, edits, timer, preview, asked, previews, assist, lookups, chosen>> /\ Fails(TRUE)
    BY <1>21 DEF FailUpload
  <2>2. Counting
    BY <1>4, <2>1, FailsTypes DEF Counting
  <2>3. QED BY <1>3, <1>5, <1>6, <1>7, <1>8, <2>1, <2>2
<1>22. CASE OpenHelper
  <2>1. /\ assist' = [assist EXCEPT !.hidden = FALSE]
        /\ lookups' = lookups \cup {[range |-> Empty, of |-> text]}
        /\ UNCHANGED <<text, cursor, edits, timer, preview, asked, previews, uploading, chosen, failed>>
    BY <1>22 DEF OpenHelper, LoadSuggestions
  <2>2. Listing
    BY <1>4, <2>1 DEF EditorTypeOK, Listing
  <2>3. QED BY <1>3, <1>5, <1>8, <1>9, <1>10, <2>1, <2>2
<1>23. CASE HideAssist
  BY <1>3, <1>5, <1>6, <1>8, <1>9, <1>10, <1>23 DEF HideAssist
<1>24. CASE ChooseSuggestion
  <2>1. /\ UNCHANGED <<timer, preview, lookups, uploading, failed>> /\ edits' = edits + 1 /\ AskPreview(text')
        /\ chosen' = chosen + 1 /\ assist' = [assist EXCEPT !.hidden = TRUE]
    BY <1>24 DEF ChooseSuggestion
  <2>2. PICK s \in Seq(Piece) : s = text'
    BY <1>2
  <2>3. AskPreview(s)
    BY <2>1, <2>2
  <2>4. Asking
    BY <1>4, <2>3, AskTypes DEF Asking
  <2>5. Counting
    BY <1>4, <2>1 DEF Counting
  <2>6. QED BY <1>3, <1>6, <1>8, <1>10, <2>1, <2>4, <2>5
<1>25. ASSUME NEW l \in lookups, ShowSuggestions(l) PROVE EditorInv'
  <2>1. /\ UNCHANGED <<text, cursor, edits, timer, preview, asked, previews, uploading, chosen>>
        /\ lookups' = lookups \ {l}
    BY <1>25 DEF ShowSuggestions
  <2>2. PICK fails \in BOOLEAN :
          /\ Fails(fails)
          /\ assist' = [hidden |-> FALSE, range |-> l.range, of |-> IF fails THEN Empty ELSE l.of]
    BY <1>25 DEF ShowSuggestions
  <2>3. l.range \in {Empty} \cup Span /\ l.of \in Seq(Piece)
    BY <1>4 DEF EditorTypeOK
  <2>4. Helping
    BY <2>2, <2>3 DEF Helping
  <2>5. Counting
    BY <1>4, <2>1, <2>2, FailsTypes DEF Counting
  <2>6. Listing
    BY <1>4, <2>1 DEF EditorTypeOK, Listing
  <2>7. QED BY <1>3, <1>5, <1>8, <2>1, <2>4, <2>5, <2>6
<1>26. CASE UNCHANGED editorVars
  BY <1>3, <1>5, <1>6, <1>7, <1>8, <1>9, <1>26 DEF editorVars
<1>27. QED BY <1>13, <1>14, <1>15, <1>16, <1>17, <1>18, <1>19, <1>20, <1>21, <1>22, <1>23, <1>24, <1>25, <1>26 DEF EditorNext

-----------------------------------------------------------------------------
(* Board pages: the sequences of their reads and requests.                 *)

\* What is left has the other elements, and no others.
LEMMA RemoveLeaves ==
  ASSUME NEW S, NEW s \in Seq(S), NEW at \in DOMAIN s
  PROVE  LET t == RemoveAt(s, at)
         IN  /\ t \in Seq(S)
             /\ \A k \in DOMAIN t : \E j \in DOMAIN s : j # at /\ t[k] = s[j]
             /\ \A j \in DOMAIN s : j # at => \E k \in DOMAIN t : t[k] = s[j]
<1> DEFINE t == RemoveAt(s, at)
<1>1. /\ t \in Seq(S)
      /\ Len(t) = Len(s) - 1
      /\ \A k \in 1..(at - 1) : t[k] = s[k]
      /\ \A k \in at..(Len(s) - 1) : t[k] = s[k + 1]
  BY RemoveElements
<1>2. Len(s) \in Nat /\ at \in 1..Len(s) /\ DOMAIN s = 1..Len(s)
  OBVIOUS
<1> HIDE DEF t
<1>3. DOMAIN t = 1..(Len(s) - 1)
  BY <1>1, <1>2
<1>4. ASSUME NEW k \in DOMAIN t PROVE \E j \in DOMAIN s : j # at /\ t[k] = s[j]
  <2>1. CASE k < at
    <3>1. k \in 1..(at - 1) /\ k \in DOMAIN s
      BY <1>2, <1>3, <2>1
    <3> QED BY <1>1, <2>1, <3>1
  <2>2. CASE ~(k < at)
    <3>1. k \in at..(Len(s) - 1) /\ k + 1 \in DOMAIN s /\ k + 1 # at
      BY <1>2, <1>3, <2>2
    <3> QED BY <1>1, <3>1
  <2> QED BY <2>1, <2>2
<1>5. ASSUME NEW j \in DOMAIN s, j # at PROVE \E k \in DOMAIN t : t[k] = s[j]
  <2>1. CASE j < at
    <3>1. j \in 1..(at - 1) /\ j \in DOMAIN t
      BY <1>2, <1>3, <2>1
    <3> QED BY <1>1, <3>1
  <2>2. CASE ~(j < at)
    <3>1. PICK k : k = j - 1
      OBVIOUS
    <3>2. k \in at..(Len(s) - 1) /\ k + 1 = j /\ k \in DOMAIN t
      BY <1>2, <1>3, <1>5, <2>2, <3>1
    <3> QED BY <1>1, <3>2
  <2> QED BY <2>1, <2>2
<1> QED BY <1>1, <1>4, <1>5 DEF t

\* A sequence whose elements have been changed one by one.
LEMMA MapSeq ==
  ASSUME NEW S, NEW T, NEW s \in Seq(S), NEW t, DOMAIN t = DOMAIN s, t = [i \in DOMAIN s |-> t[i]],
         \A i \in DOMAIN s : t[i] \in T
  PROVE  t \in Seq(T) /\ Len(t) = Len(s)
<1>1. t \in [1..Len(s) -> T] /\ Len(s) \in Nat
  OBVIOUS
<1> QED BY <1>1, SeqDef

-----------------------------------------------------------------------------
\* States of the program, with the changes the requests are about.
PagesTypes ==
  /\ PagesTypeOK
  /\ \A w \in Workers : requests[w] # Absent /\ requests[w].step # "commit" => requests[w].change \in 1..board
  /\ \A p \in Pages : pages[p].bound >= 1
  /\ Len(moves) <= MaxMoves
  /\ \A m \in DOMAIN moves : moves[m].drop <= Len(moves)

\* The bounds are natural numbers, and Absent is none of the rest.
LEMMA PagesBounds ==
  MaxChanges \in Nat /\ MaxMoves \in Nat /\ MaxFailures \in Nat /\ Absent \notin Processes /\ Absent \notin PageRequest
BY BoardPagesAssumption

\* A request taken up or gone, and its move answered or not.
LEMMA AnsweredTypes ==
  ASSUME PagesTypes, NEW m \in 0..MaxMoves, NEW at \in {"taken", "done", "refused"}
  PROVE  /\ Answered(m, at) \in Seq(PageMove)
         /\ Len(Answered(m, at)) = Len(moves)
         /\ DOMAIN Answered(m, at) = DOMAIN moves
         /\ \A k \in DOMAIN moves : /\ Answered(m, at)[k].page = moves[k].page
                                    /\ Answered(m, at)[k].drop = moves[k].drop
                                    /\ Answered(m, at)[k].attached = moves[k].attached
                                    /\ Answered(m, at)[k].at \in {moves[k].at, at}
<1>1. moves \in Seq(PageMove) /\ \A k \in DOMAIN moves : moves[k] \in PageMove
  BY DEF PagesTypes, PagesTypeOK
<1>2. CASE m = 0
  BY <1>1, <1>2 DEF Answered
<1>3. CASE m # 0
  <2> DEFINE t == [moves EXCEPT ![m].at = at]
  <2>1. Answered(m, at) = t
    BY <1>3 DEF Answered
  <2>2. DOMAIN t = DOMAIN moves
    OBVIOUS
  <2>3. \A k \in DOMAIN moves : t[k] = IF k = m THEN [moves[k] EXCEPT !.at = at] ELSE moves[k]
    OBVIOUS
  <2>4. t = [k \in DOMAIN moves |-> t[k]]
    BY <2>2
  <2> HIDE DEF t
  <2>5. ASSUME NEW k \in DOMAIN moves
        PROVE  /\ t[k] \in PageMove
               /\ t[k].page = moves[k].page /\ t[k].drop = moves[k].drop
               /\ t[k].attached = moves[k].attached /\ t[k].at \in {moves[k].at, at}
    BY <1>1, <2>3 DEF PageMove
  <2>6. t \in Seq(PageMove) /\ Len(t) = Len(moves)
    BY <1>1, <2>2, <2>4, <2>5, MapSeq
  <2> QED BY <2>1, <2>2, <2>5, <2>6
<1> QED BY <1>2, <1>3

\* And the moves stay in their bounds.
LEMMA AnsweredDrops ==
  ASSUME PagesTypes, NEW m \in 0..MaxMoves, NEW at \in {"taken", "done", "refused"}
  PROVE  LET t == Answered(m, at)
         IN  t \in Seq(PageMove) /\ Len(t) <= MaxMoves /\ \A k \in DOMAIN t : t[k].drop <= Len(t)
<1> DEFINE t == Answered(m, at)
<1>1. t \in Seq(PageMove) /\ Len(t) = Len(moves) /\ DOMAIN t = DOMAIN moves /\ \A k \in DOMAIN moves : t[k].drop = moves[k].drop
  BY AnsweredTypes
<1> HIDE DEF t
<1>2. Len(moves) <= MaxMoves /\ \A k \in DOMAIN moves : moves[k].drop <= Len(moves)
  BY DEF PagesTypes
<1>3. t \in Seq(PageMove) /\ Len(t) <= MaxMoves /\ \A k \in DOMAIN t : t[k].drop <= Len(t)
  BY <1>1, <1>2
<1> QED BY <1>3 DEF t

\* Types of what a cut of streams leaves.
LEMMA CutTypes ==
  ASSUME PagesTypes, NEW ps \in SUBSET Pages, NEW running \in SUBSET Workers, CutStreams(ps, running)
  PROVE  /\ streams' \in [Pages -> Processes \cup {Absent}]
         /\ events' \in [Pages -> Seq(Changes)]
         /\ requests' \in [Workers -> PageRequest \cup {Absent}]
         /\ missed' \in [Pages -> SUBSET Changes]
         /\ \A w \in Workers : requests'[w] # Absent =>
              /\ requests[w] # Absent /\ w \in running
              /\ requests'[w].step = requests[w].step /\ requests'[w].change = requests[w].change
              /\ requests'[w].to = requests[w].to \ ps
<1>1. PagesTypeOK
  BY DEF PagesTypes
<1>2. streams' \in [Pages -> Processes \cup {Absent}]
  BY <1>1 DEF PagesTypeOK, CutStreams
<1>3. events' \in [Pages -> Seq(Changes)]
  <2>1. <<>> \in Seq(Changes)
    OBVIOUS
  <2> QED BY <1>1, <2>1 DEF PagesTypeOK, CutStreams
<1>4. ASSUME NEW w \in Workers
      PROVE  /\ requests'[w] \in PageRequest \cup {Absent}
             /\ requests'[w] # Absent =>
                  /\ requests[w] # Absent /\ w \in running
                  /\ requests'[w].step = requests[w].step /\ requests'[w].change = requests[w].change
                  /\ requests'[w].to = requests[w].to \ ps
  <2>1. requests'[w] = IF w \notin running THEN Absent
                       ELSE IF requests[w] = Absent THEN Absent
                       ELSE [requests[w] EXCEPT !.to = @ \ ps]
    BY DEF CutStreams
  <2>2. requests[w] # Absent => requests[w] \in PageRequest
    BY <1>1 DEF PagesTypeOK
  <2> QED BY <2>1, <2>2 DEF PageRequest
<1>5. requests' = [w \in Workers |-> requests'[w]]
  BY DEF CutStreams
<1>6. ASSUME NEW p \in Pages PROVE missed'[p] \in SUBSET Changes
  <2>1. missed'[p] = missed[p] \cup
       (IF p \in ps THEN Range(events[p]) ELSE {}) \cup
       {requests[w].change : w \in {v \in Workers :
          \/ Stands(v, "put") /\ p \in requests[v].to /\ (p \in ps \/ v \notin running)
          \/ Stands(v, "copy") /\ v \notin running}}
    BY DEF CutStreams
  <2>2. Range(events[p]) \subseteq Changes /\ missed[p] \subseteq Changes
    BY <1>1 DEF PagesTypeOK, Range
  <2>3. ASSUME NEW w \in Workers, Stands(w, "put") \/ Stands(w, "copy") PROVE requests[w].change \in Changes
    BY <2>3, PagesBounds DEF PagesTypes, PagesTypeOK, Stands, Changes
  <2> QED BY <2>1, <2>2, <2>3
<1>7. missed' = [p \in Pages |-> missed'[p]]
  BY DEF CutStreams
<1> QED BY <1>2, <1>3, <1>4, <1>5, <1>6, <1>7

\* Every step keeps them.
LEMMA PagesTypesStep ==
  ASSUME PagesTypes, [PagesNext]_pagesVars
  PROVE  PagesTypes'
<1> USE PagesBounds
<1>0. PagesTypeOK
  BY DEF PagesTypes
<1>1. ASSUME NEW w \in Workers, NEW process \in Processes, NEW loud \in BOOLEAN, NEW m \in 0..MaxMoves, Ask(w, process, loud, m)
      PROVE  PagesTypes'
  <2>1. requests' \in [Workers -> PageRequest \cup {Absent}]
    BY <1>0, <1>1 DEF Ask, PagesTypeOK, PageRequest
  <2>2. moves' = Answered(m, "taken")
    BY <1>1 DEF Ask
  <2>3. \A v \in Workers : requests'[v] # Absent /\ requests'[v].step # "commit" => requests'[v] = requests[v]
    BY <1>0, <1>1 DEF Ask, PagesTypeOK
  <2>4. moves' \in Seq(PageMove) /\ Len(moves') <= MaxMoves /\ \A k \in DOMAIN moves' : moves'[k].drop <= Len(moves')
    BY <2>2, AnsweredDrops
  <2>5. UNCHANGED <<board, pages, streams, events, fetches, failures, missed>>
    BY <1>1 DEF Ask
  <2> QED BY <1>0, <2>1, <2>3, <2>4, <2>5 DEF PagesTypes, PagesTypeOK
<1>2. ASSUME NEW w \in Workers, CommitChange(w) PROVE PagesTypes'
  <2>1. board' = board + 1 /\ board' \in 0..MaxChanges /\ board' \in Changes /\ board \in Nat
    BY <1>0, <1>2 DEF CommitChange, PagesTypeOK, Changes
  <2>2. requests[w] \in PageRequest /\ requests[w] # Absent
    BY <1>0, <1>2 DEF CommitChange, Stands, PagesTypeOK
  <2>3. missed' \in [Pages -> SUBSET Changes]
    BY <1>0, <1>2, <2>1 DEF CommitChange, Miss, PagesTypeOK
  <2>4. PICK r : r = IF requests[w].loud THEN [requests[w] EXCEPT !.step = "copy", !.change = board'] ELSE Absent
    OBVIOUS
  <2>5. r \in PageRequest \cup {Absent} /\ (r # Absent => r.change = board')
    BY <2>1, <2>2, <2>4 DEF PageRequest
  <2>6. requests' = [requests EXCEPT ![w] = r]
    BY <1>2, <2>4 DEF CommitChange, Leaves
  <2>7. requests' \in [Workers -> PageRequest \cup {Absent}]
    BY <1>0, <2>5, <2>6 DEF PagesTypeOK
  <2>8. ASSUME NEW v \in Workers, requests'[v] # Absent, requests'[v].step # "commit" PROVE requests'[v].change \in 1..board'
    <3>1. CASE v = w
      BY <1>0, <2>1, <2>5, <2>6, <2>8, <3>1 DEF PagesTypeOK
    <3>2. CASE v # w
      <4>1. requests'[v] = requests[v]
        BY <1>0, <2>6, <3>2 DEF PagesTypeOK
      <4>2. requests[v].change \in 1..board
        BY <2>8, <4>1 DEF PagesTypes
      <4> QED BY <2>1, <4>1, <4>2
    <3> QED BY <3>1, <3>2
  <2>9. UNCHANGED <<pages, streams, events, fetches, moves, failures>>
    BY <1>2 DEF CommitChange
  <2> QED BY <1>0, <2>1, <2>3, <2>7, <2>8, <2>9 DEF PagesTypes, PagesTypeOK
<1>3. ASSUME NEW w \in Workers, NEW at \in {"taken", "done", "refused"}, Leaves(w), Stands(w, "commit") \/ Stands(w, "put"), moves' = Answered(requests[w].move, at),
             UNCHANGED <<board, pages, streams, events, fetches, failures, missed>>
      PROVE  PagesTypes'
  <2>1. requests' \in [Workers -> PageRequest \cup {Absent}]
    BY <1>0, <1>3 DEF Leaves, PagesTypeOK
  <2>2. requests[w].move \in 0..MaxMoves
    BY <1>0, <1>3 DEF Stands, PagesTypeOK, PageRequest
  <2>3. \A v \in Workers : requests'[v] # Absent => requests'[v] = requests[v]
    BY <1>0, <1>3 DEF Leaves, PagesTypeOK
  <2>4. moves' \in Seq(PageMove) /\ Len(moves') <= MaxMoves /\ \A k \in DOMAIN moves' : moves'[k].drop <= Len(moves')
    BY <1>3, <2>2, AnsweredDrops
  <2> QED BY <1>0, <1>3, <2>1, <2>3, <2>4 DEF PagesTypes, PagesTypeOK
<1>4. ASSUME NEW w \in Workers, CopySubscribers(w) PROVE PagesTypes'
  <2>1. requests[w] \in PageRequest /\ requests[w].change \in 1..board /\ Subscribers(requests[w].process) \in SUBSET Pages
    BY <1>0, <1>4 DEF CopySubscribers, Stands, PagesTypes, PagesTypeOK, Subscribers
  <2>2. requests' \in [Workers -> PageRequest \cup {Absent}]
    BY <1>0, <1>4, <2>1 DEF CopySubscribers, PagesTypeOK, PageRequest
  <2>3. missed' \in [Pages -> SUBSET Changes]
    BY <1>0, <1>4, <2>1 DEF CopySubscribers, Miss, PagesTypeOK, Changes
  <2>4. ASSUME NEW v \in Workers, requests'[v] # Absent, requests'[v].step # "commit" PROVE requests'[v].change \in 1..board'
    BY <1>0, <1>4, <2>1, <2>4 DEF CopySubscribers, PagesTypes, PagesTypeOK, PageRequest
  <2> QED BY <1>0, <1>4, <2>2, <2>3, <2>4 DEF CopySubscribers, PagesTypes, PagesTypeOK
<1>5. ASSUME NEW w \in Workers, NEW p \in Pages, PutEvent(w, p) PROVE PagesTypes'
  <2>1. requests[w] \in PageRequest /\ requests[w].change \in 1..board /\ requests[w].change \in Changes
    BY <1>0, <1>5 DEF PutEvent, Stands, PagesTypes, PagesTypeOK, Changes
  <2>2. requests' \in [Workers -> PageRequest \cup {Absent}]
    BY <1>0, <1>5, <2>1 DEF PutEvent, PagesTypeOK, PageRequest
  <2>3. events' \in [Pages -> Seq(Changes)]
    BY <1>0, <1>5, <2>1 DEF PutEvent, PagesTypeOK
  <2>4. ASSUME NEW v \in Workers, requests'[v] # Absent, requests'[v].step # "commit" PROVE requests'[v].change \in 1..board'
    BY <1>0, <1>5, <2>1, <2>4 DEF PutEvent, PagesTypes, PagesTypeOK, PageRequest
  <2> QED BY <1>0, <1>5, <2>2, <2>3, <2>4 DEF PutEvent, PagesTypes, PagesTypeOK
<1>6. ASSUME NEW ps \in SUBSET Pages, NEW running \in SUBSET Workers, CutStreams(ps, running), failures' \in 0..MaxFailures, UNCHANGED <<board, pages, fetches>>,
             moves' \in Seq(PageMove), Len(moves') = Len(moves), \A m \in DOMAIN moves : moves'[m].drop = moves[m].drop
      PROVE  PagesTypes'
  <2>1. DOMAIN moves' = DOMAIN moves
    BY <1>0, <1>6 DEF PagesTypeOK
  <2> QED BY <1>0, <1>6, <2>1, CutTypes DEF PagesTypes, PagesTypeOK
<1>7. ASSUME NEW process \in Processes, KillProcess(process) PROVE PagesTypes'
  <2> DEFINE dying == {w \in Workers : requests[w] # Absent /\ requests[w].process = process}
  <2>1. /\ failures < MaxFailures /\ failures' = failures + 1
        /\ CutStreams(Subscribers(process), Workers \ dying)
        /\ moves' = [m \in DOMAIN moves |->
             IF \E w \in dying : requests[w].move = m THEN [moves[m] EXCEPT !.at = "refused"] ELSE moves[m]]
        /\ UNCHANGED <<board, pages, fetches>>
    BY <1>7 DEF KillProcess
  <2>2. Subscribers(process) \in SUBSET Pages /\ Workers \ dying \in SUBSET Workers /\ failures' \in 0..MaxFailures
    BY <1>0, <2>1 DEF Subscribers, PagesTypeOK
  <2> HIDE DEF dying
  <2>3. moves \in Seq(PageMove) /\ \A m \in DOMAIN moves : moves[m] \in PageMove
    BY <1>0 DEF PagesTypeOK
  <2>4. DOMAIN moves' = DOMAIN moves /\ moves' = [m \in DOMAIN moves |-> moves'[m]]
    BY <2>1
  <2>5. \A m \in DOMAIN moves : moves'[m] \in PageMove /\ moves'[m].drop = moves[m].drop
    BY <2>1, <2>3 DEF PageMove
  <2>6. moves' \in Seq(PageMove) /\ Len(moves') = Len(moves)
    BY <2>3, <2>4, <2>5, MapSeq
  <2> QED BY <1>6, <2>1, <2>2, <2>5, <2>6
<1>8. ASSUME NEW p \in Pages, BreakStream(p) PROVE PagesTypes'
  <2>1. {p} \in SUBSET Pages /\ failures' \in 0..MaxFailures /\ CutStreams({p}, Workers) /\ UNCHANGED <<board, pages, fetches, moves>>
    BY <1>0, <1>8 DEF BreakStream, PagesTypeOK
  <2>2. moves \in Seq(PageMove)
    BY <1>0 DEF PagesTypeOK
  <2> QED BY <1>6, <2>1, <2>2
<1>9. ASSUME NEW p \in Pages, Subscribe(p) PROVE PagesTypes'
  BY <1>0, <1>9 DEF Subscribe, PagesTypes, PagesTypeOK
<1>10. ASSUME NEW p \in Pages, NEW about \in 0..MaxChanges PROVE Refresh(p, about) \in [Pages -> Seq(PageFetch)]
  <2>1. [about |-> about, read |-> Absent, attached |-> TRUE] \in PageFetch
    BY DEF PageFetch
  <2> QED BY <1>0, <2>1 DEF Refresh, PagesTypeOK
<1>11. ASSUME NEW p \in Pages, HandleEvent(p) PROVE PagesTypes'
  <2>1. events[p] \in Seq(Changes) /\ events[p] # <<>>
    BY <1>0, <1>11 DEF HandleEvent, PagesTypeOK
  <2>2. Head(events[p]) \in 0..MaxChanges /\ Tail(events[p]) \in Seq(Changes)
    <3>1. Head(events[p]) \in Changes /\ Tail(events[p]) \in Seq(Changes)
      BY <2>1, HeadTailProperties
    <3> QED BY <3>1 DEF Changes
  <2> QED BY <1>0, <1>10, <1>11, <2>2 DEF HandleEvent, PagesTypes, PagesTypeOK
<1>12. ASSUME NEW p \in Pages, NEW i \in DOMAIN fetches[p], RenderBoard(p, i) PROVE PagesTypes'
  <2>1. fetches[p] \in Seq(PageFetch) /\ board \in 0..MaxChanges
    BY <1>0 DEF PagesTypeOK
  <2>2. [fetches[p] EXCEPT ![i].read = board] \in Seq(PageFetch)
    <3>1. fetches[p][i] \in PageFetch
      BY <2>1
    <3>2. [fetches[p][i] EXCEPT !.read = board] \in PageFetch
      BY <2>1, <3>1 DEF PageFetch
    <3> QED BY <2>1, <3>2
  <2>3. fetches' \in [Pages -> Seq(PageFetch)]
    BY <1>0, <1>12, <2>2 DEF RenderBoard, PagesTypeOK
  <2> QED BY <1>0, <1>12, <2>3 DEF RenderBoard, PagesTypes, PagesTypeOK
<1>13. ASSUME NEW p \in Pages, NEW i \in DOMAIN fetches[p], ReplaceBoard(p, i) PROVE PagesTypes'
  <2> DEFINE f == fetches[p][i]
             others == RemoveAt(fetches[p], i)
  <2>1. fetches[p] \in Seq(PageFetch) /\ f \in PageFetch
    BY <1>0 DEF PagesTypeOK
  <2>2. others \in Seq(PageFetch)
    BY <2>1, RemoveLeaves
  <2>3. CASE OnDisplay(f)
    <3>1. /\ f.read # Absent
          /\ pages' = [pages EXCEPT ![p] = [shown |-> f.read, held |-> FALSE, astray |-> {}, bound |-> 1]]
          /\ fetches' = [fetches EXCEPT ![p] = [j \in DOMAIN others |-> [others[j] EXCEPT !.attached = FALSE]]]
          /\ moves' = [m \in DOMAIN moves |->
               IF moves[m].page = p THEN [moves[m] EXCEPT !.attached = FALSE] ELSE moves[m]]
          /\ UNCHANGED <<missed, board, requests, streams, events, failures>>
      BY <1>13, <2>3 DEF ReplaceBoard
    <3>2. pages' \in [Pages -> PageState] /\ \A q \in Pages : pages'[q].bound >= 1
      <4>1. [shown |-> f.read, held |-> FALSE, astray |-> {}, bound |-> 1] \in PageState
        BY <2>1, <3>1 DEF PageFetch, PageState
      <4> QED BY <1>0, <3>1, <4>1 DEF PagesTypes, PagesTypeOK
    <3>3. [j \in DOMAIN others |-> [others[j] EXCEPT !.attached = FALSE]] \in Seq(PageFetch)
      <4> DEFINE t == [j \in DOMAIN others |-> [others[j] EXCEPT !.attached = FALSE]]
      <4> HIDE DEF others
      <4>1. ASSUME NEW j \in DOMAIN others PROVE t[j] \in PageFetch
        <5>1. others[j] \in PageFetch
          BY <2>2
        <5> QED BY <5>1 DEF PageFetch
      <4>2. DOMAIN t = DOMAIN others /\ t = [j \in DOMAIN others |-> t[j]]
        OBVIOUS
      <4> HIDE DEF t
      <4>3. t \in Seq(PageFetch)
        BY <2>2, <4>1, <4>2, MapSeq
      <4> QED BY <4>3 DEF t
    <3>4. fetches' \in [Pages -> Seq(PageFetch)]
      BY <1>0, <3>1, <3>3 DEF PagesTypeOK
    <3>5. moves \in Seq(PageMove) /\ \A m \in DOMAIN moves : moves[m] \in PageMove
      BY <1>0 DEF PagesTypeOK
    <3>6. DOMAIN moves' = DOMAIN moves /\ moves' = [m \in DOMAIN moves |-> moves'[m]]
      BY <3>1
    <3>7. \A m \in DOMAIN moves : moves'[m] \in PageMove /\ moves'[m].drop = moves[m].drop
      BY <3>1, <3>5 DEF PageMove
    <3>8. moves' \in Seq(PageMove) /\ Len(moves') = Len(moves)
      BY <3>5, <3>6, <3>7, MapSeq
    <3> QED BY <1>0, <3>1, <3>2, <3>4, <3>6, <3>7, <3>8 DEF PagesTypes, PagesTypeOK
  <2>4. CASE ~OnDisplay(f)
    <3>1. /\ pages' = [pages EXCEPT ![p].bound = @ + 1]
          /\ fetches' = [fetches EXCEPT ![p] = others]
          /\ Miss({p}, {f.about} \ {0})
          /\ UNCHANGED <<moves, board, requests, streams, events, failures>>
      BY <1>13, <2>4 DEF ReplaceBoard
    <3>2. pages' \in [Pages -> PageState] /\ \A q \in Pages : pages'[q].bound >= 1
      <4>1. pages[p] \in PageState /\ pages[p].bound + 1 \in Nat /\ pages[p].bound + 1 >= 1
        BY <1>0 DEF PagesTypes, PagesTypeOK, PageState
      <4>2. [pages[p] EXCEPT !.bound = @ + 1] \in PageState /\ [pages[p] EXCEPT !.bound = @ + 1].bound >= 1
        BY <4>1 DEF PageState
      <4> QED BY <1>0, <3>1, <4>2 DEF PagesTypes, PagesTypeOK
    <3>3. {f.about} \ {0} \subseteq Changes
      BY <2>1 DEF PageFetch, Changes
    <3>4. missed' \in [Pages -> SUBSET Changes]
      BY <1>0, <3>1, <3>3 DEF PagesTypeOK, Miss
    <3>5. fetches' \in [Pages -> Seq(PageFetch)]
      BY <1>0, <2>2, <3>1 DEF PagesTypeOK
    <3> QED BY <1>0, <3>1, <3>2, <3>4, <3>5 DEF PagesTypes, PagesTypeOK
  <2> QED BY <2>3, <2>4
<1>14. ASSUME NEW p \in Pages, NEW i \in DOMAIN fetches[p], FailRefresh(p, i) PROVE PagesTypes'
  <2>1. fetches[p] \in Seq(PageFetch) /\ fetches[p][i] \in PageFetch
    BY <1>0 DEF PagesTypeOK
  <2>2. RemoveAt(fetches[p], i) \in Seq(PageFetch)
    BY <2>1, RemoveLeaves
  <2>3. {fetches[p][i].about} \ {0} \subseteq Changes
    BY <2>1 DEF PageFetch, Changes
  <2>4. missed' \in [Pages -> SUBSET Changes] /\ fetches' \in [Pages -> Seq(PageFetch)] /\ failures' \in 0..MaxFailures
    BY <1>0, <1>14, <2>2, <2>3 DEF PagesTypeOK, Miss, FailRefresh
  <2> QED BY <1>0, <1>14, <2>4 DEF FailRefresh, PagesTypes, PagesTypeOK
<1>15. ASSUME NEW p \in Pages, PickUpCard(p) PROVE PagesTypes'
  BY <1>0, <1>15 DEF PickUpCard, PagesTypes, PagesTypeOK, PageState
<1>16. ASSUME NEW p \in Pages, DropCard(p) PROVE PagesTypes'
  <2>1. PICK drop : drop = Len(moves) + 1
    OBVIOUS
  <2>2. PICK posts : posts = [i \in 1..pages[p].bound |-> [page |-> p, drop |-> drop, attached |-> TRUE, at |-> "sent"]]
    OBVIOUS
  <2>3. moves \in Seq(PageMove) /\ Len(moves) \in Nat /\ pages[p] \in PageState /\ pages[p].bound \in Nat /\ pages[p].bound >= 1
    BY <1>0 DEF PagesTypes, PagesTypeOK, PageState
  <2>4. drop \in 1..MaxMoves /\ Len(moves) + pages[p].bound <= MaxMoves
    BY <1>16, <2>1, <2>3 DEF DropCard
  <2>5. posts \in Seq(PageMove) /\ Len(posts) = pages[p].bound
    <3>1. [page |-> p, drop |-> drop, attached |-> TRUE, at |-> "sent"] \in PageMove
      BY <2>4 DEF PageMove
    <3>2. posts \in [1..pages[p].bound -> PageMove]
      BY <2>2, <3>1
    <3>3. posts \in Seq(PageMove)
      BY <2>3, <3>2, SeqDef
    <3> QED BY <2>3, <3>2, <3>3
  <2>6. moves' = moves \o posts
    BY <1>16, <2>1, <2>2 DEF DropCard
  <2>7. moves' \in Seq(PageMove) /\ Len(moves') = Len(moves) + pages[p].bound
    BY <2>3, <2>5, <2>6
  <2>8. ASSUME NEW m \in DOMAIN moves' PROVE moves'[m].drop <= Len(moves')
    <3>1. m \in 1..(Len(moves) + pages[p].bound)
      BY <2>7
    <3>2. CASE m <= Len(moves)
      <4>1. m \in DOMAIN moves /\ moves'[m] = moves[m] /\ moves[m] \in PageMove
        BY <2>3, <2>5, <2>6, <3>1, <3>2
      <4>2. moves[m].drop <= Len(moves) /\ moves[m].drop \in Nat
        BY <4>1 DEF PagesTypes, PageMove
      <4> QED BY <2>3, <2>7, <4>1, <4>2
    <3>3. CASE ~(m <= Len(moves))
      <4>1. moves'[m] = posts[m - Len(moves)] /\ m - Len(moves) \in 1..pages[p].bound
        BY <2>3, <2>5, <2>6, <3>1, <3>3
      <4>2. moves'[m].drop = drop
        BY <2>2, <4>1
      <4> QED BY <2>1, <2>3, <2>7, <4>2
    <3> QED BY <3>2, <3>3
  <2>9. pages' \in [Pages -> PageState] /\ \A q \in Pages : pages'[q].bound >= 1
    BY <1>0, <1>16, <2>1, <2>4 DEF DropCard, PagesTypes, PagesTypeOK, PageState
  <2>10. UNCHANGED <<board, requests, streams, events, fetches, failures, missed>> /\ Len(moves') <= MaxMoves
    BY <1>16, <2>4, <2>7 DEF DropCard
  <2> QED BY <1>0, <2>7, <2>8, <2>9, <2>10 DEF PagesTypes, PagesTypeOK
<1>17. ASSUME NEW p \in Pages, NEW m \in DOMAIN moves, HandleAnswer(p, m) PROVE PagesTypes'
  <2>1. moves \in Seq(PageMove) /\ moves[m] \in PageMove
    BY <1>0 DEF PagesTypeOK
  <2>2. \E at \in {"settled", "rejected"} : moves' = [moves EXCEPT ![m].at = at]
    BY <1>17 DEF HandleAnswer
  <2>3. PICK at \in {"settled", "rejected"} : moves' = [moves EXCEPT ![m].at = at]
    BY <2>2
  <2>4. [moves[m] EXCEPT !.at = at] \in PageMove /\ [moves[m] EXCEPT !.at = at].drop = moves[m].drop
    BY <2>1 DEF PageMove
  <2>5. moves' \in Seq(PageMove) /\ Len(moves') = Len(moves) /\ \A k \in DOMAIN moves : moves'[k].drop = moves[k].drop
    BY <2>1, <2>3, <2>4
  <2>6. pages' \in [Pages -> PageState] /\ \A q \in Pages : pages'[q].bound >= 1
    <3>1. PICK q : q = [pages[p] EXCEPT !.astray = IF moves[m].attached THEN @ \ {moves[m].drop} ELSE @]
      OBVIOUS
    <3>2. pages[p] \in PageState /\ pages[p].bound >= 1
      BY <1>0 DEF PagesTypes, PagesTypeOK
    <3>3. q \in PageState /\ q.bound >= 1
      BY <3>1, <3>2 DEF PageState
    <3>4. pages' = [pages EXCEPT ![p] = q] \/ pages' = pages
      BY <1>17, <3>1 DEF HandleAnswer
    <3> QED BY <1>0, <3>3, <3>4 DEF PagesTypes, PagesTypeOK
  <2>7. fetches' \in [Pages -> Seq(PageFetch)]
    BY <1>0, <1>10, <1>17 DEF HandleAnswer, PagesTypeOK
  <2>8. DOMAIN moves' = DOMAIN moves
    BY <2>1, <2>5
  <2>9. UNCHANGED <<board, requests, streams, events, failures, missed>>
    BY <1>17 DEF HandleAnswer
  <2> QED BY <1>0, <2>5, <2>6, <2>7, <2>8, <2>9 DEF PagesTypes, PagesTypeOK
<1>18. ASSUME NEW w \in Workers, ChangeIssue(w) \/ MoveIssue(w) PROVE PagesTypes'
  <2>1. DOMAIN moves \subseteq 0..MaxMoves
    BY <1>0 DEF PagesTypes, PagesTypeOK
  <2>2. 0 \in 0..MaxMoves
    OBVIOUS
  <2>3. CASE ChangeIssue(w)
    BY <1>1, <2>2, <2>3 DEF ChangeIssue
  <2>4. CASE MoveIssue(w)
    <3>1. PICK process \in Processes, m \in DOMAIN moves : Ask(w, process, TRUE, m)
      BY <2>4 DEF MoveIssue
    <3>2. m \in 0..MaxMoves
      BY <2>1
    <3> QED BY <1>1, <3>1, <3>2
  <2> QED BY <1>18, <2>3, <2>4
<1>19. ASSUME NEW w \in Workers, RejectChange(w) \/ AnswerChange(w) PROVE PagesTypes'
  BY <1>3, <1>19 DEF RejectChange, AnswerChange
<1>20. CASE UNCHANGED pagesVars
  BY <1>20 DEF pagesVars, PagesTypes, PagesTypeOK, Stands
<1> QED
  BY <1>2, <1>4, <1>5, <1>7, <1>8, <1>9, <1>11, <1>12, <1>13, <1>14, <1>15, <1>16, <1>17, <1>18, <1>19, <1>20 DEF PagesNext

-----------------------------------------------------------------------------
(* What a page shows.                                                      *)

\* A refresh is about a committed change.  Its answer shows the board after that
\* change and, as long as the board it was asked for is on display, no older one.
FetchFits(f, shown, b) ==
  /\ f.about <= b
  /\ f.read # Absent => f.about <= f.read /\ f.read <= b /\ (f.attached => shown <= f.read)

ReadsInv ==
  \A p \in Pages :
    /\ pages[p].shown <= board
    /\ \A i \in DOMAIN events[p] : events[p][i] <= board
    /\ \A i \in DOMAIN fetches[p] : FetchFits(fetches[p][i], pages[p].shown, board)

\* An element put at the end.
LEMMA AppendLeaves ==
  ASSUME NEW S, NEW s \in Seq(S), NEW x \in S
  PROVE  LET t == Append(s, x)
         IN  /\ \A k \in DOMAIN t : (k \in DOMAIN s /\ t[k] = s[k]) \/ t[k] = x
             /\ \A k \in DOMAIN s : k \in DOMAIN t /\ t[k] = s[k]
             /\ \E k \in DOMAIN t : t[k] = x
<1> DEFINE t == Append(s, x)
<1>1. t \in Seq(S) /\ Len(t) = Len(s) + 1 /\ Len(s) \in Nat
  OBVIOUS
<1>2. DOMAIN t = 1..(Len(s) + 1) /\ DOMAIN s = 1..Len(s)
  BY <1>1
<1>3. (\A k \in 1..Len(s) : t[k] = s[k]) /\ t[Len(s) + 1] = x
  OBVIOUS
<1> HIDE DEF t
<1>4. ASSUME NEW k \in DOMAIN t PROVE (k \in DOMAIN s /\ t[k] = s[k]) \/ t[k] = x
  <2>1. CASE k <= Len(s)
    BY <1>1, <1>2, <1>3, <2>1
  <2>2. CASE ~(k <= Len(s))
    <3>1. k = Len(s) + 1
      BY <1>1, <1>2, <2>2
    <3> QED BY <1>3, <3>1
  <2> QED BY <2>1, <2>2
<1>5. \A k \in DOMAIN s : k \in DOMAIN t /\ t[k] = s[k]
  BY <1>1, <1>2, <1>3
<1>6. Len(s) + 1 \in DOMAIN t
  BY <1>1, <1>2
<1> QED BY <1>3, <1>4, <1>5, <1>6 DEF t

\* One more refresh of a page.
LEMMA RefreshReads ==
  ASSUME PagesTypes, NEW p \in Pages, NEW about \in 0..MaxChanges
  PROVE  LET t == Refresh(p, about)
             f == [about |-> about, read |-> Absent, attached |-> TRUE]
         IN  /\ \A q \in Pages : \A i \in DOMAIN t[q] : (i \in DOMAIN fetches[q] /\ t[q][i] = fetches[q][i]) \/ (q = p /\ t[q][i] = f)
             /\ \A q \in Pages : \A i \in DOMAIN fetches[q] : i \in DOMAIN t[q] /\ t[q][i] = fetches[q][i]
             /\ \E i \in DOMAIN t[p] : t[p][i] = f
<1> DEFINE f == [about |-> about, read |-> Absent, attached |-> TRUE]
           t == Refresh(p, about)
<1>1. f \in PageFetch /\ fetches \in [Pages -> Seq(PageFetch)]
  BY DEF PagesTypes, PagesTypeOK, PageFetch
<1>2. t = [fetches EXCEPT ![p] = Append(fetches[p], f)]
  BY DEF Refresh
<1> HIDE DEF f, t
<1>3. t[p] = Append(fetches[p], f) /\ \A q \in Pages : q # p => t[q] = fetches[q]
  BY <1>1, <1>2
<1>4. /\ \A i \in DOMAIN t[p] : (i \in DOMAIN fetches[p] /\ t[p][i] = fetches[p][i]) \/ t[p][i] = f
      /\ \A i \in DOMAIN fetches[p] : i \in DOMAIN t[p] /\ t[p][i] = fetches[p][i]
      /\ \E i \in DOMAIN t[p] : t[p][i] = f
  BY <1>1, <1>3, AppendLeaves
<1>5. /\ \A q \in Pages : \A i \in DOMAIN t[q] : (i \in DOMAIN fetches[q] /\ t[q][i] = fetches[q][i]) \/ (q = p /\ t[q][i] = f)
      /\ \A q \in Pages : \A i \in DOMAIN fetches[q] : i \in DOMAIN t[q] /\ t[q][i] = fetches[q][i]
      /\ \E i \in DOMAIN t[p] : t[p][i] = f
  BY <1>3, <1>4
<1> QED BY <1>5 DEF f, t

\* No step shows an older board.
LEMMA ReadsStep ==
  ASSUME PagesTypes, PagesTypes', ReadsInv, [PagesNext]_pagesVars
  PROVE  ReadsInv' /\ \A p \in Pages : pages'[p].shown >= pages[p].shown
<1> USE PagesBounds
<1>0. PagesTypeOK /\ PagesTypeOK'
  BY DEF PagesTypes
<1> DEFINE Goal == ReadsInv' /\ \A p \in Pages : pages'[p].shown >= pages[p].shown
<1>1. board \in Nat /\ board' \in Nat /\ \A p \in Pages : /\ pages[p].shown \in Nat /\ events[p] \in Seq(Changes) /\ fetches[p] \in Seq(PageFetch)
                              /\ \A i \in DOMAIN fetches[p] : fetches[p][i] \in PageFetch
  BY <1>0 DEF PagesTypeOK, PageState
<1>2. \A f \in PageFetch : f.about \in 0..MaxChanges /\ (f.read # Absent => f.read \in 0..MaxChanges)
  BY DEF PageFetch
<1>3. ASSUME board <= board',
             \A p \in Pages : pages'[p].shown = pages[p].shown,
             \A p \in Pages : \A i \in DOMAIN events'[p] : events'[p][i] <= board',
             \A p \in Pages : \A i \in DOMAIN fetches'[p] : (\E j \in DOMAIN fetches[p] : fetches'[p][i] = fetches[p][j]) \/ FetchFits(fetches'[p][i], pages[p].shown, board')
      PROVE  Goal
  <2>1. ASSUME NEW p \in Pages, NEW i \in DOMAIN fetches'[p] PROVE FetchFits(fetches'[p][i], pages'[p].shown, board')
    <3>1. CASE FetchFits(fetches'[p][i], pages[p].shown, board')
      BY <1>3, <3>1
    <3>2. ASSUME NEW j \in DOMAIN fetches[p], fetches'[p][i] = fetches[p][j] PROVE FetchFits(fetches'[p][i], pages'[p].shown, board')
      <4>1. PICK f \in PageFetch : f = fetches[p][j]
        BY <1>1
      <4>2. PICK shown \in Nat : shown = pages[p].shown
        BY <1>1
      <4>3. FetchFits(f, shown, board)
        BY <4>1, <4>2 DEF ReadsInv
      <4>4. FetchFits(f, shown, board')
        BY <1>1, <1>2, <1>3, <4>3 DEF FetchFits
      <4> QED BY <1>3, <3>2, <4>1, <4>2, <4>4
    <3> QED BY <1>3, <3>1, <3>2
  <2>2. ASSUME NEW p \in Pages PROVE pages'[p].shown <= board' /\ pages'[p].shown >= pages[p].shown
    BY <1>1, <1>3 DEF ReadsInv
  <2> QED BY <1>3, <2>1, <2>2 DEF ReadsInv
<1>4. ASSUME board <= board', \A p \in Pages : pages'[p].shown = pages[p].shown,
             fetches' = fetches, \A p \in Pages : events'[p] \in {events[p], <<>>}
      PROVE  Goal
  <2>1. ASSUME NEW p \in Pages, NEW i \in DOMAIN events'[p] PROVE events'[p][i] <= board'
    <3>1. events'[p] = events[p]
      BY <1>4, <2>1
    <3>2. events[p][i] \in Nat /\ events[p][i] <= board
      BY <1>1, <2>1, <3>1 DEF ReadsInv, Changes
    <3> QED BY <1>1, <1>4, <3>1, <3>2
  <2> QED BY <1>3, <1>4, <2>1
<1>5. CASE \E w \in Workers : ChangeIssue(w) \/ MoveIssue(w) \/ CommitChange(w) \/ RejectChange(w) \/ CopySubscribers(w) \/ AnswerChange(w)
  BY <1>1, <1>4, <1>5 DEF ChangeIssue, MoveIssue, Ask, CommitChange, RejectChange, CopySubscribers, AnswerChange
<1>6. ASSUME NEW w \in Workers, NEW p \in Pages, PutEvent(w, p) PROVE Goal
  <2>1. requests[w].change \in 1..board /\ requests[w].change \in Changes
    BY <1>0, <1>1, <1>6 DEF PutEvent, Stands, PagesTypes, PagesTypeOK, Changes
  <2>2. PICK c : c = requests[w].change
    OBVIOUS
  <2>3. UNCHANGED <<board, pages, fetches>> /\ events' = [events EXCEPT ![p] = Append(events[p], c)]
    BY <1>6, <2>2 DEF PutEvent
  <2>4. ASSUME NEW q \in Pages, NEW i \in DOMAIN events'[q] PROVE events'[q][i] <= board'
    <3>1. CASE q = p
      <4>1. events'[q] = Append(events[p], c)
        BY <1>0, <2>3, <3>1 DEF PagesTypeOK
      <4>2. (i \in DOMAIN events[p] /\ events'[q][i] = events[p][i]) \/ events'[q][i] = c
        BY <1>1, <2>1, <2>2, <2>4, <4>1, AppendLeaves
      <4> QED BY <2>1, <2>2, <2>3, <4>2 DEF ReadsInv
    <3>2. CASE q # p
      <4>1. events'[q] = events[q]
        BY <1>0, <2>3, <3>2 DEF PagesTypeOK
      <4> QED BY <2>3, <2>4, <4>1 DEF ReadsInv
    <3> QED BY <3>1, <3>2
  <2> QED BY <1>1, <1>3, <2>3, <2>4
<1>7. ASSUME NEW ps, NEW running, CutStreams(ps, running), UNCHANGED <<board, pages, fetches>> PROVE Goal
  BY <1>1, <1>4, <1>7 DEF CutStreams
<1>8. ASSUME NEW process \in Processes, KillProcess(process) PROVE Goal
  BY <1>7, <1>8 DEF KillProcess
<1>9. ASSUME NEW p \in Pages, BreakStream(p) \/ Subscribe(p) PROVE Goal
  BY <1>1, <1>4, <1>7, <1>9 DEF BreakStream, Subscribe
<1>10. ASSUME NEW p \in Pages, PickUpCard(p) \/ DropCard(p) PROVE Goal
  <2>1. \A q \in Pages : pages'[q].shown = pages[q].shown
    <3>1. PICK drop : drop = Len(moves) + 1
      OBVIOUS
    <3>2. PICK r, s : r = [pages[p] EXCEPT !.held = TRUE] /\ s = [pages[p] EXCEPT !.held = FALSE, !.astray = @ \cup {drop}]
      OBVIOUS
    <3>3. r.shown = pages[p].shown /\ s.shown = pages[p].shown
      BY <1>0, <3>2 DEF PagesTypeOK, PageState
    <3>4. pages' = [pages EXCEPT ![p] = r] \/ pages' = [pages EXCEPT ![p] = s]
      BY <1>10, <3>1, <3>2 DEF PickUpCard, DropCard
    <3> QED BY <1>0, <3>3, <3>4 DEF PagesTypeOK
  <2> QED BY <1>1, <1>4, <1>10, <2>1 DEF PickUpCard, DropCard
<1>11. ASSUME NEW p \in Pages, NEW about \in 0..MaxChanges, about <= board, fetches' = Refresh(p, about), UNCHANGED <<board, pages>>,
              \A q \in Pages : \A i \in DOMAIN events'[q] : \E j \in DOMAIN events[q] : events'[q][i] = events[q][j]
       PROVE  Goal
  <2>1. PICK f : f = [about |-> about, read |-> Absent, attached |-> TRUE]
    OBVIOUS
  <2>2. \A q \in Pages : \A i \in DOMAIN fetches'[q] : (i \in DOMAIN fetches[q] /\ fetches'[q][i] = fetches[q][i]) \/ (q = p /\ fetches'[q][i] = f)
    BY <1>11, <2>1, RefreshReads
  <2>3. \A q \in Pages : FetchFits(f, pages[q].shown, board')
    BY <1>11, <2>1 DEF FetchFits
  <2>4. \A q \in Pages : \A i \in DOMAIN fetches'[q] : (\E j \in DOMAIN fetches[q] : fetches'[q][i] = fetches[q][j]) \/ FetchFits(fetches'[q][i], pages[q].shown, board')
    BY <2>2, <2>3
  <2>5. \A q \in Pages : \A i \in DOMAIN events'[q] : events'[q][i] <= board'
    BY <1>11 DEF ReadsInv
  <2> QED BY <1>1, <1>3, <1>11, <2>4, <2>5
<1>12. ASSUME NEW p \in Pages, HandleEvent(p) PROVE Goal
  <2>1. events[p] \in Seq(Changes) /\ events[p] # <<>> /\ events' = [events EXCEPT ![p] = Tail(@)] /\ fetches' = Refresh(p, Head(events[p])) /\ UNCHANGED <<board, pages>>
    BY <1>1, <1>12 DEF HandleEvent
  <2>2. Head(events[p]) = events[p][1] /\ 1 \in DOMAIN events[p]
    BY <2>1
  <2>3. Head(events[p]) \in 0..MaxChanges /\ Head(events[p]) <= board
    <3>1. events[p][1] \in Changes
      BY <2>1, <2>2
    <3> QED BY <2>2, <3>1 DEF ReadsInv, Changes
  <2>4. ASSUME NEW q \in Pages, NEW i \in DOMAIN events'[q] PROVE \E j \in DOMAIN events[q] : events'[q][i] = events[q][j]
    <3>1. CASE q = p
      <4>1. events'[q] = Tail(events[p])
        BY <1>0, <2>1, <3>1 DEF PagesTypeOK
      <4>2. Tail(events[p]) \in Seq(Changes) /\ Len(Tail(events[p])) = Len(events[p]) - 1 /\ \A k \in 1..Len(Tail(events[p])) : Tail(events[p])[k] = events[p][k + 1]
        BY <2>1, HeadTailProperties
      <4>3. i \in 1..(Len(events[p]) - 1) /\ i + 1 \in DOMAIN events[p]
        <5>1. PICK n \in Nat : n = Len(events[p]) /\ DOMAIN events[p] = 1..n
          BY <2>1
        <5>2. i \in 1..(n - 1)
          BY <2>4, <4>1, <4>2, <5>1
        <5>3. i + 1 \in 1..n
          BY <5>1, <5>2
        <5> QED BY <5>1, <5>2, <5>3
      <4>4. events'[q][i] = events[p][i + 1]
        BY <4>1, <4>2, <4>3
      <4> QED BY <3>1, <4>3, <4>4
    <3>2. CASE q # p
      BY <1>0, <2>1, <2>4, <3>2 DEF PagesTypeOK
    <3> QED BY <3>1, <3>2
  <2> QED BY <1>11, <2>1, <2>3, <2>4
<1>13. ASSUME NEW p \in Pages, NEW m \in DOMAIN moves, HandleAnswer(p, m) PROVE Goal
  <2>1. \A q \in Pages : pages'[q].shown = pages[q].shown
    <3>1. PICK r : r = [pages[p] EXCEPT !.astray = IF moves[m].attached THEN @ \ {moves[m].drop} ELSE @]
      OBVIOUS
    <3>2. r.shown = pages[p].shown
      BY <1>0, <3>1 DEF PagesTypeOK, PageState
    <3>3. pages' = [pages EXCEPT ![p] = r] \/ pages' = pages
      BY <1>13, <3>1 DEF HandleAnswer
    <3> QED BY <1>0, <3>2, <3>3 DEF PagesTypeOK
  <2>2. CASE fetches' = fetches
    BY <1>1, <1>4, <1>13, <2>1, <2>2 DEF HandleAnswer
  <2>3. CASE fetches' # fetches
    <3>1. fetches' = Refresh(p, 0) /\ UNCHANGED <<board, pages, events>>
      BY <1>13, <2>3 DEF HandleAnswer
    <3>2. 0 \in 0..MaxChanges /\ 0 <= board
      BY <1>1
    <3> QED BY <1>11, <3>1, <3>2
  <2> QED BY <2>2, <2>3
<1>14. ASSUME NEW p \in Pages, NEW i \in DOMAIN fetches[p], RenderBoard(p, i) PROVE Goal
  <2>1. UNCHANGED <<board, pages, events>> /\ fetches' = [fetches EXCEPT ![p][i].read = board]
    BY <1>14 DEF RenderBoard
  <2>2. \A q \in Pages : \A j \in DOMAIN events'[q] : events'[q][j] <= board'
    BY <2>1 DEF ReadsInv
  <2>3. ASSUME NEW q \in Pages, NEW j \in DOMAIN fetches'[q] PROVE (\E k \in DOMAIN fetches[q] : fetches'[q][j] = fetches[q][k]) \/ FetchFits(fetches'[q][j], pages[q].shown, board')
    <3>1. CASE q # p \/ j # i
      <4>1. j \in DOMAIN fetches[q] /\ fetches'[q][j] = fetches[q][j]
        BY <1>0, <1>1, <2>1, <2>3, <3>1 DEF PagesTypeOK
      <4> QED BY <4>1
    <3>2. CASE q = p /\ j = i
      <4>1. fetches'[q][j] = [fetches[p][i] EXCEPT !.read = board]
        BY <1>0, <1>1, <2>1, <2>3, <3>2 DEF PagesTypeOK
      <4>2. fetches'[q][j].read = board /\ fetches'[q][j].about = fetches[p][i].about
        BY <1>1, <4>1 DEF PageFetch
      <4>3. fetches[p][i].about <= board /\ pages[q].shown <= board
        BY <3>2 DEF ReadsInv, FetchFits
      <4> QED BY <1>1, <2>1, <4>2, <4>3 DEF FetchFits
    <3> QED BY <3>1, <3>2
  <2> QED BY <1>1, <1>3, <2>1, <2>2, <2>3
<1>15. ASSUME NEW p \in Pages, NEW i \in DOMAIN fetches[p] PROVE \A j \in DOMAIN RemoveAt(fetches[p], i) : \E k \in DOMAIN fetches[p] : RemoveAt(fetches[p], i)[j] = fetches[p][k]
  BY <1>1, RemoveLeaves
<1>16. ASSUME NEW p \in Pages, NEW i \in DOMAIN fetches[p], fetches' = [fetches EXCEPT ![p] = RemoveAt(fetches[p], i)],
              UNCHANGED <<board, events>>, \A q \in Pages : pages'[q].shown = pages[q].shown
       PROVE  Goal
  <2>1. \A q \in Pages : \A j \in DOMAIN fetches'[q] : \E k \in DOMAIN fetches[q] : fetches'[q][j] = fetches[q][k]
    <3>1. fetches'[p] = RemoveAt(fetches[p], i) /\ \A q \in Pages : q # p => fetches'[q] = fetches[q]
      BY <1>0, <1>16 DEF PagesTypeOK
    <3> QED BY <1>15, <3>1
  <2>2. \A q \in Pages : \A j \in DOMAIN events'[q] : events'[q][j] <= board'
    BY <1>16 DEF ReadsInv
  <2> QED BY <1>1, <1>3, <1>16, <2>1, <2>2
<1>17. ASSUME NEW p \in Pages, NEW i \in DOMAIN fetches[p], FailRefresh(p, i) PROVE Goal
  BY <1>16, <1>17 DEF FailRefresh
<1>18. ASSUME NEW p \in Pages, NEW i \in DOMAIN fetches[p], ReplaceBoard(p, i) PROVE Goal
  <2> DEFINE f == fetches[p][i]
             others == RemoveAt(fetches[p], i)
  <2>1. CASE ~OnDisplay(f)
    <3>1. fetches' = [fetches EXCEPT ![p] = RemoveAt(fetches[p], i)] /\ pages' = [pages EXCEPT ![p].bound = @ + 1] /\ UNCHANGED <<board, events>>
      BY <1>18, <2>1 DEF ReplaceBoard
    <3>2. \A q \in Pages : pages'[q].shown = pages[q].shown
      BY <1>0, <3>1 DEF PagesTypeOK, PageState
    <3> QED BY <1>16, <3>1, <3>2
  <2>2. CASE OnDisplay(f)
    <3>1. /\ f.read # Absent
          /\ pages' = [pages EXCEPT ![p] = [shown |-> f.read, held |-> FALSE, astray |-> {}, bound |-> 1]]
          /\ fetches' = [fetches EXCEPT ![p] = [j \in DOMAIN others |-> [others[j] EXCEPT !.attached = FALSE]]]
          /\ UNCHANGED <<board, events>>
      BY <1>18, <2>2 DEF ReplaceBoard
    <3>2. /\ f \in PageFetch /\ f.read \in 0..MaxChanges
          /\ f.read <= board /\ pages[p].shown <= f.read
      BY <1>1, <1>2, <2>2, <3>1 DEF ReadsInv, FetchFits, OnDisplay
    <3>3. pages'[p].shown = f.read /\ \A q \in Pages : q # p => pages'[q] = pages[q]
      BY <1>0, <3>1 DEF PagesTypeOK
    <3>4. \A q \in Pages : pages'[q].shown >= pages[q].shown /\ pages'[q].shown <= board'
      BY <1>1, <3>1, <3>2, <3>3 DEF ReadsInv
    <3>5. ASSUME NEW q \in Pages, NEW j \in DOMAIN fetches'[q] PROVE FetchFits(fetches'[q][j], pages'[q].shown, board')
      <4>1. CASE q # p
        <5>1. fetches'[q] = fetches[q]
          BY <1>0, <3>1, <4>1 DEF PagesTypeOK
        <5> QED BY <3>1, <3>3, <3>5, <4>1, <5>1 DEF ReadsInv
      <4>2. CASE q = p
        <5>1. fetches'[q] = [k \in DOMAIN others |-> [others[k] EXCEPT !.attached = FALSE]]
          BY <1>0, <3>1, <4>2 DEF PagesTypeOK
        <5>2. j \in DOMAIN others /\ fetches'[q][j] = [others[j] EXCEPT !.attached = FALSE]
          BY <3>5, <5>1
        <5>3. PICK k \in DOMAIN fetches[p] : others[j] = fetches[p][k]
          BY <1>15, <5>2
        <5> HIDE DEF others
        <5>4. PICK g \in PageFetch : g = fetches[p][k]
          BY <1>1
        <5>5. fetches'[q][j] = [g EXCEPT !.attached = FALSE] /\ FetchFits(g, pages[p].shown, board)
          BY <5>2, <5>3, <5>4 DEF ReadsInv
        <5>6. fetches'[q][j].about = g.about /\ fetches'[q][j].read = g.read /\ ~fetches'[q][j].attached
          BY <5>5 DEF PageFetch
        <5> QED BY <3>1, <5>5, <5>6 DEF FetchFits
      <4> QED BY <4>1, <4>2
    <3> QED BY <3>1, <3>4, <3>5 DEF ReadsInv
  <2> QED BY <2>1, <2>2
<1>19. CASE UNCHANGED pagesVars
  BY <1>1, <1>4, <1>19 DEF pagesVars
<1> QED
  BY <1>5, <1>6, <1>8, <1>9, <1>10, <1>12, <1>13, <1>14, <1>17, <1>18, <1>19 DEF PagesNext

\* The states a page starts from.
LEMMA PagesStart == ASSUME PagesInit PROVE PagesTypes /\ ReadsInv
<1> USE PagesBounds
<1>1. <<>> \in Seq(Changes) /\ <<>> \in Seq(PageFetch) /\ <<>> \in Seq(PageMove)
  OBVIOUS
<1>2. [shown |-> 0, held |-> FALSE, astray |-> {}, bound |-> 1] \in PageState
  BY DEF PageState
<1>3. PagesTypeOK
  BY <1>1, <1>2 DEF PagesInit, PagesTypeOK
<1> QED BY <1>3 DEF PagesInit, PagesTypes, ReadsInv

\* Whatever order the answers of overlapping refreshes come in, no page goes
\* back to an older board.
THEOREM PagesGoForward == PagesSpec => PagesNeverGoBack
<1>1. PagesTypes /\ [PagesNext]_pagesVars => PagesTypes'
  BY PagesTypesStep
<1>2. PagesTypes /\ PagesTypes' /\ ReadsInv /\ [PagesNext]_pagesVars => ReadsInv'
  BY ReadsStep
<1>3. PagesTypes /\ PagesTypes' /\ ReadsInv /\ [PagesNext]_pagesVars => [\A p \in Pages : pages'[p].shown >= pages[p].shown]_pagesVars
  BY ReadsStep
<1> QED BY <1>1, <1>2, <1>3, PagesStart, PTL DEF PagesSpec, PagesNeverGoBack

-----------------------------------------------------------------------------
(* What a page does not show yet.                                          *)

\* A request has still to publish the change to the page.
Carries(w, p, c) ==
  /\ requests[w] # Absent /\ requests[w].change = c
  /\ requests[w].step = "copy" \/ (requests[w].step = "put" /\ p \in requests[w].to)

Knows(p, c) ==
  \/ c \in missed[p]
  \/ \E i \in DOMAIN events[p] : events[p][i] = c
  \/ \E i \in DOMAIN fetches[p] : fetches[p][i].about = c
  \/ \E w \in Workers : Carries(w, p, c)

\* A change that a page does not show is on its way to it, or was missed.
KnownInv == \A p \in Pages : \A c \in 1..board : pages[p].shown < c => Knows(p, c)

\* A change on its way stays so until it is shown or missed.
LEMMA KnownStep ==
  ASSUME PagesTypes, PagesTypes', ReadsInv, KnownInv, [PagesNext]_pagesVars
  PROVE  KnownInv'
<1> USE PagesBounds
<1> SUFFICES ASSUME NEW q \in Pages, NEW c \in 1..board', pages'[q].shown < c
             PROVE  Knows(q, c)'
  BY DEF KnownInv
<1>0. PagesTypeOK /\ PagesTypeOK'
  BY DEF PagesTypes
<1>1. board \in Nat /\ board' \in Nat /\ \A p \in Pages : /\ pages[p].shown \in Nat /\ events[p] \in Seq(Changes) /\ fetches[p] \in Seq(PageFetch)
                              /\ \A i \in DOMAIN fetches[p] : fetches[p][i] \in PageFetch
  BY <1>0, SMTT(30) DEF PagesTypeOK, PageState
<1>2. pages'[q].shown \in Nat
  BY <1>0 DEF PagesTypeOK, PageState
<1>3. pages[q].shown < c
  BY <1>1, <1>2, ReadsStep
<1>4. c \in 1..board => Knows(q, c)
  BY <1>3 DEF KnownInv
<1>5. ASSUME c \in 1..board, missed[q] \subseteq missed'[q],
             ASSUME NEW i \in DOMAIN events[q], events[q][i] = c PROVE Knows(q, c)',
             ASSUME NEW i \in DOMAIN fetches[q], fetches[q][i].about = c PROVE Knows(q, c)',
             ASSUME NEW w \in Workers, Carries(w, q, c) PROVE Knows(q, c)'
      PROVE  Knows(q, c)'
  <2>1. CASE c \in missed[q]
    BY <1>5, <2>1 DEF Knows
  <2>2. CASE \E i \in DOMAIN events[q] : events[q][i] = c
    BY <1>5, <2>2
  <2>3. CASE \E i \in DOMAIN fetches[q] : fetches[q][i].about = c
    BY <1>5, <2>3
  <2>4. CASE \E w \in Workers : Carries(w, q, c)
    BY <1>5, <2>4
  <2> QED BY <1>4, <1>5, <2>1, <2>2, <2>3, <2>4 DEF Knows
<1>6. ASSUME events'[q] = events[q], NEW i \in DOMAIN events[q], events[q][i] = c PROVE Knows(q, c)'
  BY <1>6 DEF Knows
<1>7. ASSUME fetches'[q] = fetches[q], NEW i \in DOMAIN fetches[q], fetches[q][i].about = c PROVE Knows(q, c)'
  BY <1>7 DEF Knows
<1>8. ASSUME NEW w \in Workers, requests'[w] = requests[w], Carries(w, q, c) PROVE Knows(q, c)'
  BY <1>8 DEF Knows, Carries
<1>9. ASSUME NEW w \in Workers, UNCHANGED <<board, events, fetches>>, missed[q] \subseteq missed'[q],
             \A v \in Workers : v # w => requests'[v] = requests[v],
             Carries(w, q, c) => Knows(q, c)'
      PROVE  Knows(q, c)'
  BY <1>5, <1>6, <1>7, <1>8, <1>9
<1>10. ASSUME NEW w \in Workers, NEW process \in Processes, NEW loud \in BOOLEAN, NEW m, Ask(w, process, loud, m) PROVE Knows(q, c)'
  <2>1. requests[w] = Absent
    BY <1>10 DEF Ask
  <2>2. \A v \in Workers : v # w => requests'[v] = requests[v]
    BY <1>0, <1>10 DEF Ask, PagesTypeOK
  <2> QED BY <1>9, <1>10, <2>1, <2>2 DEF Ask, Carries
<1>11. ASSUME NEW w \in Workers, ChangeIssue(w) \/ MoveIssue(w) PROVE Knows(q, c)'
  BY <1>10, <1>11 DEF ChangeIssue, MoveIssue
<1>12. ASSUME NEW w \in Workers, CommitChange(w) PROVE Knows(q, c)'
  <2>1. board' = board + 1 /\ requests[w] # Absent /\ requests[w].step = "commit" /\ requests[w] \in PageRequest
    BY <1>0, <1>12 DEF CommitChange, Stands, PagesTypeOK
  <2>2. UNCHANGED <<events, fetches>> /\ \A v \in Workers : v # w => requests'[v] = requests[v]
    BY <1>0, <1>12 DEF CommitChange, Leaves, PagesTypeOK
  <2>3. missed[q] \subseteq missed'[q]
    BY <1>0, <1>12 DEF CommitChange, Miss, PagesTypeOK
  <2>4. CASE c = board'
    <3>1. CASE requests[w].loud
      <4>1. PICK r : r = [requests[w] EXCEPT !.step = "copy", !.change = board']
        OBVIOUS
      <4>2. r.step = "copy" /\ r.change = board' /\ r \in PageRequest
        BY <1>0, <2>1, <4>1 DEF PageRequest, PagesTypeOK
      <4>3. requests'[w] = r
        BY <1>0, <1>12, <3>1, <4>1 DEF CommitChange, PagesTypeOK
      <4> QED BY <2>4, <4>2, <4>3 DEF Knows, Carries
    <3>2. CASE ~requests[w].loud
      <4>1. c \in missed'[q]
        BY <1>0, <1>12, <2>4, <3>2 DEF CommitChange, Miss, PagesTypeOK
      <4> QED BY <4>1 DEF Knows
    <3> QED BY <3>1, <3>2
  <2>5. CASE c # board'
    <3>1. c \in 1..board
      BY <1>1, <2>1, <2>5
    <3>2. ~Carries(w, q, c)
      BY <2>1 DEF Carries
    <3> QED BY <1>5, <1>6, <1>7, <1>8, <2>2, <2>3, <3>1, <3>2
  <2> QED BY <2>4, <2>5
<1>13. ASSUME NEW w \in Workers, RejectChange(w) PROVE Knows(q, c)'
  <2>1. \A v \in Workers : v # w => requests'[v] = requests[v]
    BY <1>0, <1>13 DEF RejectChange, Leaves, PagesTypeOK
  <2> QED BY <1>9, <1>13, <2>1 DEF RejectChange, Stands, Carries
<1>14. ASSUME NEW w \in Workers, AnswerChange(w) PROVE Knows(q, c)'
  <2>1. \A v \in Workers : v # w => requests'[v] = requests[v]
    BY <1>0, <1>14 DEF AnswerChange, Leaves, PagesTypeOK
  <2> QED BY <1>9, <1>14, <2>1 DEF AnswerChange, Stands, Carries
<1>15. ASSUME NEW w \in Workers, CopySubscribers(w) PROVE Knows(q, c)'
  <2>1. PICK heard : heard = Subscribers(requests[w].process)
    OBVIOUS
  <2>2. /\ requests[w] \in PageRequest
        /\ requests' = [requests EXCEPT ![w].step = "put", ![w].to = heard]
        /\ Miss(Pages \ heard, {requests[w].change})
        /\ UNCHANGED <<board, events, fetches>>
    BY <1>0, <1>15, <2>1 DEF CopySubscribers, Stands, PagesTypeOK
  <2>3. \A v \in Workers : v # w => requests'[v] = requests[v]
    BY <1>0, <2>2 DEF PagesTypeOK
  <2>4. requests'[w] = [requests[w] EXCEPT !.step = "put", !.to = heard]
    BY <1>0, <2>2 DEF PagesTypeOK
  <2>5. missed[q] \subseteq missed'[q] /\ (q \notin heard => requests[w].change \in missed'[q])
    BY <1>0, <2>2 DEF Miss, PagesTypeOK
  <2>6. ASSUME Carries(w, q, c) PROVE Knows(q, c)'
    <3>1. requests[w].change = c
      BY <2>6 DEF Carries
    <3>2. CASE q \in heard
      <4>1. heard \in SUBSET Pages
        BY <2>1 DEF Subscribers
      <4>2. PICK r \in PageRequest : r = requests[w] /\ r.change = c
        BY <2>2, <3>1
      <4>3. PICK t : t = [r EXCEPT !.step = "put", !.to = heard]
        OBVIOUS
      <4>4. t \in PageRequest /\ t.step = "put" /\ t.to = heard /\ t.change = c
        BY <4>1, <4>2, <4>3 DEF PageRequest
      <4>5. requests'[w] = t
        BY <2>4, <4>2, <4>3
      <4> QED BY <3>2, <4>4, <4>5 DEF Knows, Carries
    <3>3. CASE q \notin heard
      BY <2>5, <3>1, <3>3 DEF Knows
    <3> QED BY <3>2, <3>3
  <2> QED BY <1>9, <2>2, <2>3, <2>5, <2>6
<1>16. ASSUME NEW w \in Workers, NEW p \in Pages, PutEvent(w, p) PROVE Knows(q, c)'
  <2>1. /\ requests[w] \in PageRequest /\ requests[w] # Absent /\ requests[w].step = "put" /\ p \in requests[w].to
        /\ requests[w].change \in Changes
        /\ requests' = [requests EXCEPT ![w].to = @ \ {p}]
        /\ events' = [events EXCEPT ![p] = Append(@, requests[w].change)]
        /\ UNCHANGED <<board, fetches, missed>>
    BY <1>0, <1>1, <1>16 DEF PutEvent, Stands, PagesTypes, PagesTypeOK, Changes
  <2>2. \A v \in Workers : v # w => requests'[v] = requests[v]
    BY <1>0, <2>1 DEF PagesTypeOK
  <2>3. requests'[w] = [requests[w] EXCEPT !.to = @ \ {p}]
    BY <1>0, <2>1 DEF PagesTypeOK
  <2>4. events'[p] = Append(events[p], requests[w].change) /\ (q # p => events'[q] = events[q])
    BY <1>0, <2>1 DEF PagesTypeOK
  <2>5. /\ \A i \in DOMAIN events[p] : i \in DOMAIN events'[p] /\ events'[p][i] = events[p][i]
        /\ \E i \in DOMAIN events'[p] : events'[p][i] = requests[w].change
    <3>1. PICK x \in Changes : x = requests[w].change
      BY <2>1
    <3>2. /\ \A i \in DOMAIN events[p] : i \in DOMAIN Append(events[p], x) /\ Append(events[p], x)[i] = events[p][i]
          /\ \E i \in DOMAIN Append(events[p], x) : Append(events[p], x)[i] = x
      BY <1>1, AppendLeaves
    <3> QED BY <2>4, <3>1, <3>2
  <2>6. ASSUME NEW i \in DOMAIN events[q], events[q][i] = c PROVE Knows(q, c)'
    BY <2>4, <2>5, <2>6 DEF Knows
  <2>7. ASSUME Carries(w, q, c) PROVE Knows(q, c)'
    <3>1. CASE q = p
      BY <2>5, <2>7, <3>1 DEF Knows, Carries
    <3>2. CASE q # p
      <4>1. q \in requests[w].to /\ requests[w].change = c
        BY <2>1, <2>7 DEF Carries
      <4>2. requests'[w] \in PageRequest /\ requests'[w].step = "put" /\ requests'[w].change = c /\ q \in requests'[w].to
        BY <2>1, <2>3, <3>2, <4>1 DEF PageRequest
      <4> QED BY <4>2 DEF Knows, Carries
    <3> QED BY <3>1, <3>2
  <2> QED BY <1>5, <1>7, <1>8, <2>1, <2>2, <2>6, <2>7
<1>17. ASSUME NEW ps \in SUBSET Pages, NEW running \in SUBSET Workers, CutStreams(ps, running), UNCHANGED <<board, pages, fetches>> PROVE Knows(q, c)'
  <2>1. missed'[q] = missed[q] \cup
          (IF q \in ps THEN Range(events[q]) ELSE {}) \cup
          {requests[w].change : w \in {v \in Workers :
             \/ Stands(v, "put") /\ q \in requests[v].to /\ (q \in ps \/ v \notin running)
             \/ Stands(v, "copy") /\ v \notin running}}
    BY <1>17 DEF CutStreams
  <2>2. ASSUME NEW i \in DOMAIN events[q], events[q][i] = c PROVE Knows(q, c)'
    <3>1. CASE q \in ps
      <4>1. c \in missed'[q]
        BY <2>1, <2>2, <3>1 DEF Range
      <4> QED BY <4>1 DEF Knows
    <3>2. CASE q \notin ps
      <4>1. events'[q] = events[q]
        BY <1>17, <3>2 DEF CutStreams
      <4> QED BY <1>6, <2>2, <4>1
    <3> QED BY <3>1, <3>2
  <2>3. ASSUME NEW w \in Workers, Carries(w, q, c) PROVE Knows(q, c)'
    <3>1. requests[w] \in PageRequest /\ requests[w].change = c /\ requests[w] # Absent
      BY <1>0, <2>3 DEF Carries, PagesTypeOK
    <3>2. CASE w \in running /\ (requests[w].step = "put" => q \notin ps)
      <4>1. requests'[w] = [requests[w] EXCEPT !.to = @ \ ps]
        BY <1>17, <3>1, <3>2 DEF CutStreams
      <4>2. /\ requests'[w] \in PageRequest /\ requests'[w].step = requests[w].step /\ requests'[w].change = c
            /\ requests'[w].to = requests[w].to \ ps
        BY <3>1, <4>1 DEF PageRequest
      <4>3. Carries(w, q, c)'
        BY <2>3, <3>2, <4>2 DEF Carries
      <4> QED BY <4>3 DEF Knows
    <3>3. CASE ~(w \in running /\ (requests[w].step = "put" => q \notin ps))
      <4>1. \/ Stands(w, "put") /\ q \in requests[w].to /\ (q \in ps \/ w \notin running)
            \/ Stands(w, "copy") /\ w \notin running
        BY <2>3, <3>3 DEF Carries, Stands
      <4>2. c \in missed'[q]
        BY <2>1, <3>1, <4>1
      <4> QED BY <4>2 DEF Knows
    <3> QED BY <3>2, <3>3
  <2> QED BY <1>5, <1>7, <1>17, <2>1, <2>2, <2>3
<1>18. ASSUME NEW process \in Processes, KillProcess(process) PROVE Knows(q, c)'
  <2> DEFINE dying == {w \in Workers : requests[w] # Absent /\ requests[w].process = process}
  <2>1. /\ CutStreams(Subscribers(process), Workers \ dying)
        /\ UNCHANGED <<board, pages, fetches>>
    BY <1>18 DEF KillProcess
  <2>2. Subscribers(process) \in SUBSET Pages /\ Workers \ dying \in SUBSET Workers
    BY DEF Subscribers
  <2> QED BY <1>17, <2>1, <2>2
<1>19. ASSUME NEW p \in Pages, BreakStream(p) PROVE Knows(q, c)'
  <2>1. {p} \in SUBSET Pages /\ Workers \in SUBSET Workers /\ CutStreams({p}, Workers) /\ UNCHANGED <<board, pages, fetches>>
    BY <1>19 DEF BreakStream
  <2> QED BY <1>17, <2>1
<1>20. ASSUME UNCHANGED <<board, requests, events, missed, fetches>> PROVE Knows(q, c)'
  BY <1>4, <1>20 DEF Knows, Carries
<1>21. ASSUME NEW p \in Pages, Subscribe(p) \/ PickUpCard(p) \/ DropCard(p) PROVE Knows(q, c)'
  BY <1>20, <1>21 DEF Subscribe, PickUpCard, DropCard
<1>22. ASSUME NEW p \in Pages, HandleEvent(p) PROVE Knows(q, c)'
  <2>1. /\ events[p] \in Seq(Changes) /\ events[p] # <<>>
        /\ events' = [events EXCEPT ![p] = Tail(@)] /\ fetches' = Refresh(p, Head(events[p]))
        /\ UNCHANGED <<board, requests, missed>>
    BY <1>1, <1>22 DEF HandleEvent
  <2>2. PICK about : about = events[p][1]
    OBVIOUS
  <2>3. Head(events[p]) = about /\ about \in 0..MaxChanges
    <3>1. events[p][1] \in Changes /\ Head(events[p]) = events[p][1]
      BY <2>1
    <3> QED BY <2>2, <3>1 DEF Changes
  <2>4. PICK f : f = [about |-> about, read |-> Absent, attached |-> TRUE]
    OBVIOUS
  <2>5. /\ \A i \in DOMAIN fetches[q] : i \in DOMAIN fetches'[q] /\ fetches'[q][i] = fetches[q][i]
        /\ \E i \in DOMAIN fetches'[p] : fetches'[p][i] = f
    BY <2>1, <2>3, <2>4, RefreshReads
  <2>6. ASSUME NEW i \in DOMAIN fetches[q], fetches[q][i].about = c PROVE Knows(q, c)'
    BY <2>5, <2>6 DEF Knows
  <2>7. ASSUME NEW i \in DOMAIN events[q], events[q][i] = c PROVE Knows(q, c)'
    <3>1. CASE q # p
      <4>1. events'[q] = events[q]
        BY <1>0, <2>1, <3>1 DEF PagesTypeOK
      <4> QED BY <1>6, <2>7, <4>1
    <3>2. CASE q = p /\ i = 1
      <4>1. f.about = c
        BY <2>2, <2>4, <2>7, <3>2
      <4> QED BY <2>5, <3>2, <4>1 DEF Knows
    <3>3. CASE q = p /\ i # 1
      <4>1. events'[p] = Tail(events[p])
        BY <1>0, <2>1 DEF PagesTypeOK
      <4>2. Tail(events[p]) \in Seq(Changes) /\ Len(Tail(events[p])) = Len(events[p]) - 1 /\ \A k \in 1..Len(Tail(events[p])) : Tail(events[p])[k] = events[p][k + 1]
        BY <2>1, HeadTailProperties
      <4>3. PICK n \in Nat : n = Len(events[p]) /\ DOMAIN events[p] = 1..n
        BY <2>1
      <4>4. PICK k : k = i - 1
        OBVIOUS
      <4>5. k \in 1..(n - 1) /\ k + 1 = i
        BY <2>7, <3>3, <4>3, <4>4
      <4>6. k \in DOMAIN Tail(events[p]) /\ Tail(events[p])[k] = c
        <5>1. Len(Tail(events[p])) = n - 1
          BY <4>2, <4>3
        <5>2. DOMAIN Tail(events[p]) = 1..(n - 1)
          BY <4>2, <5>1
        <5> QED BY <2>7, <3>3, <4>2, <4>5, <5>1, <5>2
      <4> QED BY <3>3, <4>1, <4>6 DEF Knows
    <3> QED BY <3>1, <3>2, <3>3
  <2> QED BY <1>5, <1>8, <2>1, <2>6, <2>7
<1>23. ASSUME NEW p \in Pages, NEW m \in DOMAIN moves, HandleAnswer(p, m) PROVE Knows(q, c)'
  <2>1. UNCHANGED <<board, requests, events, missed>>
    BY <1>23 DEF HandleAnswer
  <2>2. CASE fetches' = fetches
    BY <1>20, <2>1, <2>2
  <2>3. CASE fetches' # fetches
    <3>1. PICK about \in 0..MaxChanges : fetches' = Refresh(p, about)
      BY <1>23, <2>3 DEF HandleAnswer
    <3>2. \A r \in Pages : \A i \in DOMAIN fetches[r] : i \in DOMAIN fetches'[r] /\ fetches'[r][i] = fetches[r][i]
      <4>1. \A r \in Pages : \A i \in DOMAIN fetches[r] : i \in DOMAIN Refresh(p, about)[r] /\ Refresh(p, about)[r][i] = fetches[r][i]
        BY RefreshReads
      <4> QED BY <3>1, <4>1
    <3>3. ASSUME NEW i \in DOMAIN fetches[q], fetches[q][i].about = c PROVE Knows(q, c)'
      BY <3>2, <3>3 DEF Knows
    <3> QED BY <1>5, <1>6, <1>8, <2>1, <3>3
  <2> QED BY <2>2, <2>3
<1>24. ASSUME NEW p \in Pages, NEW i \in DOMAIN fetches[p], RenderBoard(p, i) PROVE Knows(q, c)'
  <2>1. UNCHANGED <<board, requests, events, missed>> /\ fetches' = [fetches EXCEPT ![p][i].read = board]
    BY <1>24 DEF RenderBoard
  <2>2. ASSUME NEW j \in DOMAIN fetches[q], fetches[q][j].about = c PROVE Knows(q, c)'
    <3>1. j \in DOMAIN fetches'[q] /\ fetches'[q][j].about = fetches[q][j].about
      BY <1>0, <1>1, <2>1, <2>2 DEF PagesTypeOK, PageFetch
    <3> QED BY <2>2, <3>1 DEF Knows
  <2> QED BY <1>5, <1>6, <1>8, <2>1, <2>2
<1>25. ASSUME NEW p \in Pages, NEW i \in DOMAIN fetches[p], fetches'[p] = RemoveAt(fetches[p], i) \/ fetches'[p] = [j \in DOMAIN RemoveAt(fetches[p], i) |-> [RemoveAt(fetches[p], i)[j] EXCEPT !.attached = FALSE]],
              \A r \in Pages : r # p => fetches'[r] = fetches[r],
              q = p /\ fetches[p][i].about = c => c \in missed'[q],
              UNCHANGED <<board, requests, events>>, missed[q] \subseteq missed'[q]
       PROVE  Knows(q, c)'
  <2>1. ASSUME NEW j \in DOMAIN fetches[q], fetches[q][j].about = c PROVE Knows(q, c)'
    <3>1. CASE q # p
      BY <1>7, <1>25, <2>1, <3>1
    <3>2. CASE q = p /\ j = i
      BY <1>25, <2>1, <3>2 DEF Knows
    <3>3. CASE q = p /\ j # i
      <4>1. PICK others : others = RemoveAt(fetches[p], i)
        OBVIOUS
      <4>2. others \in Seq(PageFetch) /\ \E k \in DOMAIN others : others[k] = fetches[q][j]
        BY <1>1, <2>1, <3>3, <4>1, RemoveLeaves
      <4>3. PICK k \in DOMAIN others : others[k] = fetches[q][j]
        BY <4>2
      <4>4. others[k] \in PageFetch /\ others[k].about = c
        BY <2>1, <4>2, <4>3
      <4>5. k \in DOMAIN fetches'[q] /\ fetches'[q][k].about = c
        BY <1>25, <3>3, <4>1, <4>3, <4>4 DEF PageFetch
      <4> QED BY <4>5 DEF Knows
    <3> QED BY <3>1, <3>2, <3>3
  <2> QED BY <1>5, <1>6, <1>8, <1>25, <2>1
<1>26. ASSUME NEW p \in Pages, NEW i \in DOMAIN fetches[p], FailRefresh(p, i) PROVE Knows(q, c)'
  <2>1. fetches'[p] = RemoveAt(fetches[p], i) /\ \A r \in Pages : r # p => fetches'[r] = fetches[r]
    BY <1>0, <1>26 DEF FailRefresh, PagesTypeOK
  <2>2. missed[q] \subseteq missed'[q] /\ (q = p /\ fetches[p][i].about = c => c \in missed'[q])
    BY <1>1, <1>26 DEF FailRefresh, Miss
  <2>3. UNCHANGED <<board, requests, events>>
    BY <1>26 DEF FailRefresh
  <2> QED BY <1>25, <2>1, <2>2, <2>3
<1>27. ASSUME NEW p \in Pages, NEW i \in DOMAIN fetches[p], ReplaceBoard(p, i) PROVE Knows(q, c)'
  <2>1. UNCHANGED <<board, requests, events>>
    BY <1>27 DEF ReplaceBoard
  <2>2. fetches'[p] = RemoveAt(fetches[p], i) \/ fetches'[p] = [j \in DOMAIN RemoveAt(fetches[p], i) |-> [RemoveAt(fetches[p], i)[j] EXCEPT !.attached = FALSE]]
    BY <1>0, <1>27 DEF ReplaceBoard, PagesTypeOK
  <2>3. \A r \in Pages : r # p => fetches'[r] = fetches[r]
    BY <1>0, <1>27 DEF ReplaceBoard, PagesTypeOK
  <2>4. missed[q] \subseteq missed'[q]
    BY <1>27 DEF ReplaceBoard, Miss
  <2>5. ASSUME q = p, fetches[p][i].about = c PROVE c \in missed'[q]
    <3>1. CASE OnDisplay(fetches[p][i])
      <4>1. pages'[p].shown = fetches[p][i].read /\ fetches[p][i].read # Absent
        BY <1>0, <1>27, <3>1 DEF ReplaceBoard, PagesTypeOK
      <4>2. c <= fetches[p][i].read /\ fetches[p][i].read \in Nat
        BY <1>1, <2>5, <4>1 DEF ReadsInv, FetchFits, PageFetch
      <4> QED BY <2>5, <4>1, <4>2
    <3>2. CASE ~OnDisplay(fetches[p][i])
      <4>1. Miss({p}, {fetches[p][i].about} \ {0})
        BY <1>27, <3>2 DEF ReplaceBoard
      <4> QED BY <2>5, <4>1 DEF Miss
    <3> QED BY <3>1, <3>2
  <2> QED BY <1>25, <2>1, <2>2, <2>3, <2>4, <2>5
<1>28. CASE UNCHANGED pagesVars
  BY <1>20, <1>28 DEF pagesVars
<1> QED
  BY <1>11, <1>12, <1>13, <1>14, <1>15, <1>16, <1>18, <1>19, <1>21, <1>22, <1>23, <1>24, <1>26, <1>27, <1>28 DEF PagesNext

-----------------------------------------------------------------------------
(* What stays where it was dropped.                                        *)

\* A card astray is that of the moves posted by its drop: the board they were
\* dropped on is on display, and one of them has not been accepted.
StraysInv ==
  \A p \in Pages : \A d \in pages[p].astray :
    /\ d \in DOMAIN moves
    /\ \E m \in DOMAIN moves : moves[m].page = p /\ moves[m].drop = d /\ moves[m].at # "settled"
    /\ \A m \in DOMAIN moves : moves[m].page = p /\ moves[m].drop = d => moves[m].attached

\* It stays astray until a move of it is accepted or the board is replaced.
LEMMA StraysStep ==
  ASSUME PagesTypes, PagesTypes', StraysInv, [PagesNext]_pagesVars
  PROVE  StraysInv'
<1> USE PagesBounds
<1>0. PagesTypeOK /\ PagesTypeOK'
  BY DEF PagesTypes
<1>1. moves \in Seq(PageMove) /\ DOMAIN moves = 1..Len(moves) /\ Len(moves) \in Nat
      /\ \A m \in DOMAIN moves : moves[m] \in PageMove
  BY <1>0 DEF PagesTypeOK
<1>2. moves' \in Seq(PageMove) /\ DOMAIN moves' = 1..Len(moves') /\ Len(moves') \in Nat
  BY <1>0 DEF PagesTypeOK
<1>3. ASSUME DOMAIN moves' = DOMAIN moves,
             \A p \in Pages : pages'[p].astray \subseteq pages[p].astray,
             \A m \in DOMAIN moves : /\ moves'[m].page = moves[m].page /\ moves'[m].drop = moves[m].drop
                                     /\ moves'[m].attached = moves[m].attached
                                     /\ moves[m].at # "settled" => moves'[m].at # "settled"
      PROVE  StraysInv'
  <2>2. ASSUME NEW p \in Pages, NEW d \in pages'[p].astray
        PROVE  /\ d \in DOMAIN moves'
               /\ \E m \in DOMAIN moves' : moves'[m].page = p /\ moves'[m].drop = d /\ moves'[m].at # "settled"
               /\ \A m \in DOMAIN moves' : moves'[m].page = p /\ moves'[m].drop = d => moves'[m].attached
    <3>1. d \in pages[p].astray
      BY <1>3
    <3>2. /\ d \in DOMAIN moves
          /\ \E m \in DOMAIN moves : moves[m].page = p /\ moves[m].drop = d /\ moves[m].at # "settled"
          /\ \A m \in DOMAIN moves : moves[m].page = p /\ moves[m].drop = d => moves[m].attached
      BY <3>1 DEF StraysInv
    <3> QED BY <1>3, <3>2
  <2> QED BY <2>2 DEF StraysInv
<1>4. ASSUME UNCHANGED moves, \A p \in Pages : pages'[p].astray \subseteq pages[p].astray PROVE StraysInv'
  BY <1>3, <1>4
<1>5. ASSUME NEW m \in 0..MaxMoves, NEW at \in {"taken", "done", "refused"}, moves' = Answered(m, at), UNCHANGED pages
      PROVE  StraysInv'
  <2>1. /\ DOMAIN Answered(m, at) = DOMAIN moves
        /\ \A k \in DOMAIN moves : /\ Answered(m, at)[k].page = moves[k].page
                                   /\ Answered(m, at)[k].drop = moves[k].drop
                                   /\ Answered(m, at)[k].attached = moves[k].attached
                                   /\ Answered(m, at)[k].at \in {moves[k].at, at}
    BY AnsweredTypes
  <2> QED BY <1>3, <1>5, <2>1
<1>6. ASSUME NEW w \in Workers, ChangeIssue(w) \/ MoveIssue(w) PROVE StraysInv'
  <2>1. \E m \in 0..MaxMoves : moves' = Answered(m, "taken") /\ UNCHANGED pages
    <3>1. DOMAIN moves \subseteq 0..MaxMoves /\ 0 \in 0..MaxMoves
      BY <1>1 DEF PagesTypes
    <3>2. CASE ChangeIssue(w)
      BY <3>1, <3>2 DEF ChangeIssue, Ask
    <3>3. CASE MoveIssue(w)
      <4>1. PICK m \in DOMAIN moves : moves' = Answered(m, "taken") /\ UNCHANGED pages
        BY <3>3 DEF MoveIssue, Ask
      <4> QED BY <3>1, <4>1
    <3> QED BY <1>6, <3>2, <3>3
  <2> QED BY <1>5, <2>1
<1>7. ASSUME NEW w \in Workers, RejectChange(w) \/ AnswerChange(w) PROVE StraysInv'
  <2>1. requests[w].move \in 0..MaxMoves
    BY <1>0, <1>7 DEF RejectChange, AnswerChange, Stands, PagesTypeOK, PageRequest
  <2>2. \E at \in {"done", "refused"} : moves' = Answered(requests[w].move, at) /\ UNCHANGED pages
    BY <1>7 DEF RejectChange, AnswerChange
  <2> QED BY <1>5, <2>1, <2>2
<1>8. ASSUME NEW w \in Workers, CommitChange(w) \/ CopySubscribers(w) \/ \E p \in Pages : PutEvent(w, p) PROVE StraysInv'
  BY <1>4, <1>8 DEF CommitChange, CopySubscribers, PutEvent
<1>9. ASSUME NEW process \in Processes, KillProcess(process) PROVE StraysInv'
  <2> DEFINE dying == {w \in Workers : requests[w] # Absent /\ requests[w].process = process}
  <2>1. /\ moves' = [m \in DOMAIN moves |->
             IF \E w \in dying : requests[w].move = m THEN [moves[m] EXCEPT !.at = "refused"] ELSE moves[m]]
        /\ UNCHANGED pages
    BY <1>9 DEF KillProcess
  <2> HIDE DEF dying
  <2>2. ASSUME NEW m \in DOMAIN moves
        PROVE  /\ moves'[m].page = moves[m].page /\ moves'[m].drop = moves[m].drop
               /\ moves'[m].attached = moves[m].attached
               /\ moves[m].at # "settled" => moves'[m].at # "settled"
    BY <1>1, <2>1 DEF PageMove
  <2>3. DOMAIN moves' = DOMAIN moves
    BY <2>1
  <2> QED BY <1>3, <2>1, <2>2, <2>3
<1>10. ASSUME NEW p \in Pages, BreakStream(p) \/ Subscribe(p) \/ HandleEvent(p) PROVE StraysInv'
  BY <1>4, <1>10 DEF BreakStream, Subscribe, HandleEvent
<1>11. ASSUME NEW p \in Pages, PickUpCard(p) PROVE StraysInv'
  <2>1. \A q \in Pages : pages'[q].astray = pages[q].astray
    BY <1>0, <1>11 DEF PickUpCard, PagesTypeOK, PageState
  <2> QED BY <1>4, <1>11, <2>1 DEF PickUpCard
<1>12. ASSUME NEW p \in Pages, NEW i \in DOMAIN fetches[p], RenderBoard(p, i) \/ FailRefresh(p, i) PROVE StraysInv'
  BY <1>4, <1>12 DEF RenderBoard, FailRefresh
<1>13. ASSUME NEW p \in Pages, NEW i \in DOMAIN fetches[p], ReplaceBoard(p, i) PROVE StraysInv'
  <2>1. CASE ~OnDisplay(fetches[p][i])
    <3>1. pages' = [pages EXCEPT ![p].bound = @ + 1] /\ UNCHANGED moves
      BY <1>13, <2>1 DEF ReplaceBoard
    <3>2. \A q \in Pages : pages'[q].astray = pages[q].astray
      BY <1>0, <3>1 DEF PagesTypeOK, PageState
    <3> QED BY <1>4, <3>1, <3>2
  <2>2. CASE OnDisplay(fetches[p][i])
    <3>1. /\ pages' = [pages EXCEPT ![p] = [shown |-> fetches[p][i].read, held |-> FALSE, astray |-> {}, bound |-> 1]]
          /\ moves' = [m \in DOMAIN moves |->
               IF moves[m].page = p THEN [moves[m] EXCEPT !.attached = FALSE] ELSE moves[m]]
      BY <1>13, <2>2 DEF ReplaceBoard
    <3>2. pages'[p].astray = {} /\ \A q \in Pages : q # p => pages'[q] = pages[q]
      BY <1>0, <3>1 DEF PagesTypeOK
    <3>3. DOMAIN moves' = DOMAIN moves /\ Len(moves') = Len(moves)
      BY <1>1, <1>2, <3>1
    <3>4. \A m \in DOMAIN moves : /\ moves[m].page = p => moves'[m].page = p
                                  /\ moves[m].page # p => moves'[m] = moves[m]
      BY <1>1, <3>1 DEF PageMove
    <3>5. ASSUME NEW q \in Pages, NEW d \in pages'[q].astray
          PROVE  /\ d \in DOMAIN moves'
                 /\ \E m \in DOMAIN moves' : moves'[m].page = q /\ moves'[m].drop = d /\ moves'[m].at # "settled"
                 /\ \A m \in DOMAIN moves' : moves'[m].page = q /\ moves'[m].drop = d => moves'[m].attached
      <4>1. q # p /\ d \in pages[q].astray
        BY <3>2, <3>5
      <4>2. /\ d \in DOMAIN moves
            /\ \E m \in DOMAIN moves : moves[m].page = q /\ moves[m].drop = d /\ moves[m].at # "settled"
            /\ \A m \in DOMAIN moves : moves[m].page = q /\ moves[m].drop = d => moves[m].attached
        BY <4>1 DEF StraysInv
      <4> QED BY <3>3, <3>4, <4>1, <4>2
    <3> QED BY <3>5 DEF StraysInv
  <2> QED BY <2>1, <2>2
<1>14. ASSUME NEW p \in Pages, DropCard(p) PROVE StraysInv'
  <2>1. PICK drop : drop = Len(moves) + 1
    OBVIOUS
  <2>2. PICK posts : posts = [i \in 1..pages[p].bound |-> [page |-> p, drop |-> drop, attached |-> TRUE, at |-> "sent"]]
    OBVIOUS
  <2>3. PICK n \in Nat : n = pages[p].bound /\ n >= 1
    BY <1>0 DEF PagesTypes, PagesTypeOK, PageState
  <2>4. /\ pages' = [pages EXCEPT ![p].held = FALSE, ![p].astray = @ \cup {drop}]
        /\ moves' = moves \o posts
    BY <1>14, <2>1, <2>2 DEF DropCard
  <2>5. pages'[p].astray = pages[p].astray \cup {drop} /\ \A q \in Pages : q # p => pages'[q] = pages[q]
    BY <1>0, <2>4 DEF PagesTypeOK, PageState
  <2>6. posts \in Seq({[page |-> p, drop |-> drop, attached |-> TRUE, at |-> "sent"]}) /\ Len(posts) = n
    <3>1. posts \in [1..n -> {[page |-> p, drop |-> drop, attached |-> TRUE, at |-> "sent"]}]
      BY <2>2, <2>3
    <3>2. posts \in Seq({[page |-> p, drop |-> drop, attached |-> TRUE, at |-> "sent"]})
      BY <2>3, <3>1, SeqDef
    <3> QED BY <2>3, <3>1, <3>2
  <2>7. Len(moves') = Len(moves) + n /\ DOMAIN moves' = 1..(Len(moves) + n)
    <3>1. Len(moves \o posts) = Len(moves) + Len(posts)
      BY <1>1, <2>6
    <3>2. Len(moves') = Len(moves) + n
      BY <2>4, <2>6, <3>1
    <3> QED BY <1>2, <3>2
  <2>8. \A m \in DOMAIN moves : m \in DOMAIN moves' /\ moves'[m] = moves[m]
    BY <1>1, <2>3, <2>4, <2>6, <2>7
  <2>9. ASSUME NEW m \in DOMAIN moves', m \notin DOMAIN moves
        PROVE  moves'[m].page = p /\ moves'[m].drop = drop /\ moves'[m].attached /\ moves'[m].at = "sent"
    <3>1. PICK k : k = m - Len(moves)
      OBVIOUS
    <3>2. k \in 1..n /\ m \in 1..(Len(moves) + n) /\ ~(m <= Len(moves))
      BY <1>1, <2>3, <2>7, <2>9, <3>1
    <3>3. moves'[m] = posts[k]
      BY <1>1, <2>3, <2>4, <2>6, <3>1, <3>2
    <3> QED BY <2>2, <2>3, <3>2, <3>3
  <2>10. drop \in DOMAIN moves' /\ drop \notin DOMAIN moves /\ drop <= Len(moves')
    BY <1>1, <2>1, <2>3, <2>7
  <2>11. \A m \in DOMAIN moves : moves[m].drop \in Nat /\ moves[m].drop <= Len(moves)
    BY <1>1 DEF PagesTypes, PageMove
  <2>12. ASSUME NEW q \in Pages, NEW d \in pages'[q].astray
         PROVE  /\ d \in DOMAIN moves'
                /\ \E m \in DOMAIN moves' : moves'[m].page = q /\ moves'[m].drop = d /\ moves'[m].at # "settled"
                /\ \A m \in DOMAIN moves' : moves'[m].page = q /\ moves'[m].drop = d => moves'[m].attached
    <3>1. CASE q = p /\ d = drop
      <4>1. ASSUME NEW m \in DOMAIN moves', moves'[m].page = q, moves'[m].drop = d PROVE moves'[m].attached
        <5>1. m \notin DOMAIN moves
          BY <1>1, <2>1, <2>8, <2>11, <3>1, <4>1
        <5> QED BY <2>9, <5>1
      <4>2. moves'[drop].page = q /\ moves'[drop].drop = d /\ moves'[drop].at # "settled"
        BY <2>9, <2>10, <3>1
      <4> QED BY <2>10, <3>1, <4>1, <4>2
    <3>2. CASE ~(q = p /\ d = drop)
      <4>1. d \in pages[q].astray
        BY <2>5, <2>12, <3>2
      <4>2. /\ d \in DOMAIN moves
            /\ \E m \in DOMAIN moves : moves[m].page = q /\ moves[m].drop = d /\ moves[m].at # "settled"
            /\ \A m \in DOMAIN moves : moves[m].page = q /\ moves[m].drop = d => moves[m].attached
        BY <4>1 DEF StraysInv
      <4>3. d \in Nat
        BY <1>0, <4>1, SMTT(30) DEF PagesTypeOK, PageState
      <4>4. d # drop /\ d \in DOMAIN moves'
        BY <1>1, <2>1, <2>3, <2>7, <4>2, <4>3
      <4>5. ASSUME NEW m \in DOMAIN moves', moves'[m].page = q, moves'[m].drop = d PROVE moves'[m].attached
        BY <2>8, <2>9, <4>2, <4>4, <4>5
      <4> QED BY <2>8, <4>2, <4>4, <4>5
    <3> QED BY <3>1, <3>2
  <2> QED BY <2>12 DEF StraysInv
<1>15. ASSUME NEW p \in Pages, NEW m \in DOMAIN moves, HandleAnswer(p, m) PROVE StraysInv'
  <2>1. CASE moves[m].at = "refused"
    <3>1. moves' = [moves EXCEPT ![m].at = "rejected"] /\ UNCHANGED pages
      BY <1>15, <2>1 DEF HandleAnswer
    <3>2. DOMAIN moves' = DOMAIN moves
      BY <3>1
    <3>3. ASSUME NEW k \in DOMAIN moves
          PROVE  /\ moves'[k].page = moves[k].page /\ moves'[k].drop = moves[k].drop
                 /\ moves'[k].attached = moves[k].attached
                 /\ moves[k].at # "settled" => moves'[k].at # "settled"
      BY <1>1, <3>1 DEF PageMove
    <3> QED BY <1>3, <3>1, <3>2, <3>3
  <2>2. CASE moves[m].at # "refused"
    <3>1. /\ moves[m].page = p
          /\ moves' = [moves EXCEPT ![m].at = "settled"]
          /\ pages' = [pages EXCEPT ![p].astray = IF moves[m].attached THEN @ \ {moves[m].drop} ELSE @]
      BY <1>15, <2>2 DEF HandleAnswer
    <3>2. DOMAIN moves' = DOMAIN moves /\ Len(moves') = Len(moves)
      BY <1>1, <1>2, <3>1
    <3>3. ASSUME NEW k \in DOMAIN moves
          PROVE  /\ moves'[k].page = moves[k].page /\ moves'[k].drop = moves[k].drop
                 /\ moves'[k].attached = moves[k].attached
                 /\ k # m => moves'[k].at = moves[k].at
      BY <1>1, <3>1 DEF PageMove
    <3>4. /\ pages'[p].astray = IF moves[m].attached THEN pages[p].astray \ {moves[m].drop} ELSE pages[p].astray
          /\ \A q \in Pages : q # p => pages'[q] = pages[q]
      BY <1>0, <3>1 DEF PagesTypeOK, PageState
    <3>5. ASSUME NEW q \in Pages, NEW d \in pages'[q].astray
          PROVE  /\ d \in DOMAIN moves'
                 /\ \E k \in DOMAIN moves' : moves'[k].page = q /\ moves'[k].drop = d /\ moves'[k].at # "settled"
                 /\ \A k \in DOMAIN moves' : moves'[k].page = q /\ moves'[k].drop = d => moves'[k].attached
      <4>1. d \in pages[q].astray
        BY <3>4, <3>5
      <4>2. /\ d \in DOMAIN moves
            /\ \E k \in DOMAIN moves : moves[k].page = q /\ moves[k].drop = d /\ moves[k].at # "settled"
            /\ \A k \in DOMAIN moves : moves[k].page = q /\ moves[k].drop = d => moves[k].attached
        BY <4>1 DEF StraysInv
      <4>3. ~(moves[m].page = q /\ moves[m].drop = d)
        BY <3>1, <3>4, <3>5, <4>2
      <4> QED BY <3>2, <3>3, <4>2, <4>3
    <3> QED BY <3>5 DEF StraysInv
  <2> QED BY <2>1, <2>2
<1>16. CASE UNCHANGED pagesVars
  BY <1>4, <1>16 DEF pagesVars
<1> QED
  BY <1>6, <1>7, <1>8, <1>9, <1>10, <1>11, <1>12, <1>13, <1>14, <1>15, <1>16 DEF PagesNext

\* However many processes and pages there are, and whatever fails, a page at
\* rest hides no change but those it missed, and only rejected moves leave
\* a card astray.
THEOREM PagesAgree == PagesSpec => []PagesComeToAgree
<1>1. PagesTypes /\ [PagesNext]_pagesVars => PagesTypes'
  BY PagesTypesStep
<1>2. PagesTypes /\ PagesTypes' /\ ReadsInv /\ [PagesNext]_pagesVars => ReadsInv'
  BY ReadsStep
<1>3. PagesTypes /\ PagesTypes' /\ ReadsInv /\ KnownInv /\ [PagesNext]_pagesVars => KnownInv'
  BY KnownStep
<1>4. PagesTypes /\ PagesTypes' /\ StraysInv /\ [PagesNext]_pagesVars => StraysInv'
  BY StraysStep
<1>5. PagesInit => KnownInv /\ StraysInv
  BY DEF PagesInit, KnownInv, StraysInv
<1>6. ASSUME PagesTypes, ReadsInv, KnownInv, StraysInv PROVE PagesComeToAgree
  <2>1. ASSUME NEW p \in Pages, UpToDate(p), NEW c \in (pages[p].shown + 1)..board PROVE c \in missed[p]
    <3>1. pages[p].shown \in Nat /\ board \in Nat
      BY <1>6 DEF PagesTypes, PagesTypeOK, PageState
    <3>2. c \in 1..board /\ pages[p].shown < c
      BY <3>1
    <3>3. Knows(p, c)
      BY <1>6, <3>2 DEF KnownInv
    <3> QED BY <2>1, <3>3 DEF Knows, Carries, UpToDate
  <2>2. ASSUME NEW p \in Pages, UpToDate(p), NEW d \in pages[p].astray
        PROVE  \E m \in DOMAIN moves : moves[m].page = p /\ moves[m].drop = d /\ moves[m].at = "rejected"
    BY <1>6, <2>2 DEF StraysInv, UpToDate
  <2> QED BY <2>1, <2>2 DEF PagesComeToAgree, OnlyMissedChangesHidden, OnlyRejectedMovesStray
<1> QED BY <1>1, <1>2, <1>3, <1>4, <1>5, <1>6, PagesStart, PTL DEF PagesSpec

-----------------------------------------------------------------------------
(* The action nodes: their states.                                         *)

Busy == {"resolving", "sent", "answered"}

\* States of the program: what an execution has met and put out so far.
ClientTypes ==
  /\ ClientTypeOK
  /\ run.at \in {"next"} \cup Busy => run.item <= MaxItems /\ run.number >= 1
  /\ run.item - 1 <= Len(input)
  /\ run.at \in Busy => run.item \in DOMAIN input
  /\ Len(outputs) = run.item - 1
  /\ \A n \in DOMAIN stops : stops[n].item \in DOMAIN input
  /\ IsFiniteSet(straying)

\* The bounds are natural numbers, and ids are none of the rest.
LEMMA ClientBounds ==
  /\ MaxItems \in Nat \ {0} /\ MaxRuns \in Nat /\ MaxRenames \in Nat /\ MaxLosses \in Nat
  /\ Ids \subseteq Nat \ {0} /\ IsFiniteSet(Ids)
  /\ Unset \notin Ids /\ Null \notin Ids /\ Pending \notin Ids /\ Refused \notin Ids
BY ClientAssumption

\* An element put at the end.
LEMMA AppendLast ==
  ASSUME NEW S, NEW s \in Seq(S), NEW x \in S
  PROVE  LET t == Append(s, x)
         IN  /\ t \in Seq(S) /\ Len(t) = Len(s) + 1
             /\ DOMAIN t = DOMAIN s \cup {Len(s) + 1} /\ Len(s) + 1 \notin DOMAIN s
             /\ \A k \in DOMAIN s : t[k] = s[k]
             /\ t[Len(s) + 1] = x
<1> DEFINE t == Append(s, x)
<1>1. t \in Seq(S) /\ Len(t) = Len(s) + 1 /\ Len(s) \in Nat
  OBVIOUS
<1>2. DOMAIN t = 1..(Len(s) + 1) /\ DOMAIN s = 1..Len(s)
  BY <1>1
<1>3. (\A k \in 1..Len(s) : t[k] = s[k]) /\ t[Len(s) + 1] = x
  OBVIOUS
<1> HIDE DEF t
<1>4. DOMAIN t = DOMAIN s \cup {Len(s) + 1} /\ Len(s) + 1 \notin DOMAIN s
  BY <1>1, <1>2
<1> QED BY <1>1, <1>2, <1>3, <1>4 DEF t

\* An item ends the execution, or the next one is up.
Stopped(known) ==
  /\ run'.at = "idle" /\ run'.item = run.item
  /\ outputs' = outputs
  /\ stops' = Append(stops, [item |-> run.item, known |-> known])
WentOn(fails, known, outcome) ==
  /\ run'.at = (IF run.item = MaxItems THEN "done" ELSE "next") /\ run'.item = run.item + 1
  /\ outputs' = Append(outputs, [error |-> fails, known |-> known, outcome |-> outcome])
  /\ stops' = stops

\* The types of what the end of an item leaves.
LEMMA ConcludeDoes ==
  ASSUME ClientTypes, run.at \in {"next"} \cup Busy,
         NEW fails \in BOOLEAN, NEW known \in BOOLEAN, NEW outcome \in Outcome, Conclude(fails, known, outcome)
  PROVE  /\ run'.number = run.number /\ run'.goesOn = run.goesOn /\ run'.at \in {"idle", "next", "done"}
         /\ (fails /\ Stopped(known)) \/ WentOn(fails, known, outcome)
         /\ run' \in [number : 0..MaxRuns, goesOn : BOOLEAN, item : 1..(MaxItems + 1),
                      at : {"idle", "next", "resolving", "sent", "answered", "done"},
                      outcome : Outcome, fails : BOOLEAN]
         /\ resolved' = Blank
<1> DEFINE Run == [number : 0..MaxRuns, goesOn : BOOLEAN, item : 1..(MaxItems + 1),
                   at : {"idle", "next", "resolving", "sent", "answered", "done"},
                   outcome : Outcome, fails : BOOLEAN]
<1>1. run \in Run /\ run.item \in 1..MaxItems /\ MaxItems \in Nat /\ "none" \in Outcome
  BY ClientBounds DEF ClientTypes, ClientTypeOK, Outcome
<1>2. resolved' = Blank
  BY DEF Conclude
<1>3. CASE fails /\ ~run.goesOn
  <2>1. run' = [run EXCEPT !.at = "idle", !.outcome = "none", !.fails = FALSE]
        /\ outputs' = outputs /\ stops' = Append(stops, [item |-> run.item, known |-> known])
    BY <1>3 DEF Conclude
  <2>2. run' \in Run /\ run'.number = run.number /\ run'.goesOn = run.goesOn /\ run'.at = "idle" /\ run'.item = run.item
    BY <1>1, <2>1
  <2> QED BY <1>2, <1>3, <2>1, <2>2 DEF Stopped
<1>4. CASE ~(fails /\ ~run.goesOn)
  <2>1. PICK at : at = IF run.item = MaxItems THEN "done" ELSE "next"
    OBVIOUS
  <2>2. run' = [run EXCEPT !.item = @ + 1, !.outcome = "none", !.fails = FALSE, !.at = at]
        /\ outputs' = Append(outputs, [error |-> fails, known |-> known, outcome |-> outcome]) /\ stops' = stops
    BY <1>4, <2>1 DEF Conclude
  <2>3. at \in {"next", "done"} /\ run.item + 1 \in 1..(MaxItems + 1)
    BY <1>1, <2>1
  <2>4. run' \in Run /\ run'.number = run.number /\ run'.goesOn = run.goesOn /\ run'.at = at /\ run'.item = run.item + 1
    BY <1>1, <2>2, <2>3
  <2> QED BY <1>2, <2>1, <2>2, <2>3, <2>4 DEF WentOn
<1> QED BY <1>3, <1>4

\* The rest of the state after the end of an item.
LEMMA ConcludeTypes ==
  ASSUME ClientTypes, run.at \in {"next"} \cup Busy,
         NEW fails \in BOOLEAN, NEW known \in BOOLEAN, NEW outcome \in Outcome, Conclude(fails, known, outcome),
         input' \in Seq(Inputs), Len(input') <= MaxItems, run.item \in DOMAIN input', DOMAIN input \subseteq DOMAIN input'
  PROVE  /\ outputs' \in Seq([error : BOOLEAN, known : BOOLEAN, outcome : Outcome])
         /\ stops' \in Seq([item : 1..MaxItems, known : BOOLEAN])
         /\ resolved' \in [Fields -> Resolution]
         /\ run'.at \in {"next"} \cup Busy => run'.item <= MaxItems /\ run'.number >= 1
         /\ run'.item - 1 <= Len(input')
         /\ run'.at \in Busy => run'.item \in DOMAIN input'
         /\ Len(outputs') = run'.item - 1
         /\ \A n \in DOMAIN stops' : stops'[n].item \in DOMAIN input'
<1> USE ClientBounds
<1>1. /\ run.item \in 1..MaxItems /\ run.number >= 1 /\ Len(outputs) = run.item - 1 /\ Len(input') \in Nat /\ DOMAIN input' = 1..Len(input')
      /\ outputs \in Seq([error : BOOLEAN, known : BOOLEAN, outcome : Outcome])
      /\ stops \in Seq([item : 1..MaxItems, known : BOOLEAN])
      /\ \A n \in DOMAIN stops : stops[n].item \in DOMAIN input'
  BY DEF ClientTypes, ClientTypeOK
<1>2. run'.number = run.number /\ run'.at \in {"idle", "next", "done"} /\ resolved' = Blank
      /\ ((fails /\ Stopped(known)) \/ WentOn(fails, known, outcome))
  BY ConcludeDoes
<1>3. resolved' \in [Fields -> Resolution]
  BY <1>2 DEF Blank, Resolution
<1>4. CASE Stopped(known)
  <2>1. PICK x : x = [item |-> run.item, known |-> known]
    OBVIOUS
  <2>2. x \in [item : 1..MaxItems, known : BOOLEAN] /\ x.item = run.item
    BY <1>1, <2>1
  <2>3. stops' = Append(stops, x)
    BY <1>4, <2>1 DEF Stopped
  <2>4. /\ stops' \in Seq([item : 1..MaxItems, known : BOOLEAN])
        /\ DOMAIN stops' = DOMAIN stops \cup {Len(stops) + 1}
        /\ \A k \in DOMAIN stops : stops'[k] = stops[k]
        /\ stops'[Len(stops) + 1] = x
    BY <1>1, <2>2, <2>3, AppendLast
  <2>5. \A n \in DOMAIN stops' : stops'[n].item \in DOMAIN input'
    BY <1>1, <2>2, <2>4
  <2> QED BY <1>1, <1>3, <1>4, <2>4, <2>5 DEF Stopped, Busy
<1>5. CASE WentOn(fails, known, outcome)
  <2>1. PICK x : x = [error |-> fails, known |-> known, outcome |-> outcome]
    OBVIOUS
  <2>2. x \in [error : BOOLEAN, known : BOOLEAN, outcome : Outcome]
    BY <2>1
  <2>3. outputs' = Append(outputs, x)
    BY <1>5, <2>1 DEF WentOn
  <2>4. /\ outputs' \in Seq([error : BOOLEAN, known : BOOLEAN, outcome : Outcome])
        /\ Len(outputs') = Len(outputs) + 1
    BY <1>1, <2>2, <2>3, AppendLast
  <2>5. /\ run'.item = run.item + 1 /\ stops' = stops
        /\ run'.at = "next" => run'.item <= MaxItems
        /\ run'.at \notin Busy
    BY <1>1, <1>5 DEF WentOn, Busy
  <2>6. Len(outputs') = run'.item - 1 /\ run'.item - 1 <= Len(input')
    BY <1>1, <2>4, <2>5
  <2> QED BY <1>1, <1>2, <1>3, <2>4, <2>5, <2>6
<1> QED BY <1>2, <1>4, <1>5

\* Each of the references an item gives is resolved, looked up or refused.
LEMMA BodyTypes ==
  ASSUME NEW item
  PROVE  Body(item) \in [Fields -> Resolution]
<1>1. \A ref : Required(ref) \in Resolution /\ \A b \in BOOLEAN : Optional(ref, b) \in Resolution
  BY DEF Required, Optional, Resolution
<1>2. CreateBody(item.refs) \in [Fields -> Resolution] /\ UpdateBody(item.refs) \in [Fields -> Resolution]
  BY <1>1 DEF CreateBody, UpdateBody, Resolution
<1>3. Blank \in [Fields -> Resolution]
  BY DEF Blank, Resolution
<1> QED BY <1>2, <1>3 DEF Body

\* Every step keeps the types.
LEMMA ClientTypesStep ==
  ASSUME ClientTypes, [ClientNext]_clientVars
  PROVE  ClientTypes'
<1> USE ClientBounds
<1> DEFINE Run == [number : 0..MaxRuns, goesOn : BOOLEAN, item : 1..(MaxItems + 1),
                   at : {"idle", "next", "resolving", "sent", "answered", "done"},
                   outcome : Outcome, fails : BOOLEAN]
<1>0. ClientTypeOK /\ run \in Run /\ "none" \in Outcome
  BY DEF ClientTypes, ClientTypeOK, Outcome
<1>1. ASSUME NEW goesOn \in BOOLEAN, Execute(goesOn) PROVE ClientTypes'
  <2>1. PICK g \in BOOLEAN : g = IF run.number = 0 THEN goesOn ELSE run.goesOn
    BY <1>0
  <2>2. run' = [run EXCEPT !.number = @ + 1, !.item = 1, !.at = "next", !.goesOn = g]
    BY <1>1, <2>1 DEF Execute
  <2>3. run' \in Run /\ run'.number >= 1 /\ run'.item = 1 /\ run'.at = "next"
    <3>1. run.number + 1 \in 0..MaxRuns /\ run.number + 1 >= 1 /\ 1 \in 1..(MaxItems + 1)
      BY <1>0, <1>1 DEF Execute
    <3> QED BY <1>0, <2>1, <2>2, <3>1
  <2>4. outputs' \in Seq([error : BOOLEAN, known : BOOLEAN, outcome : Outcome]) /\ Len(outputs') = 0
    BY <1>1 DEF Execute
  <2>5. now' \subseteq 1..MaxItems /\ UNCHANGED <<directory, renamed, renames, input, resolved, effects, stops, straying, losses>>
    BY <1>1 DEF Execute
  <2>6. Len(input') \in Nat
    BY <1>0, <2>5 DEF ClientTypeOK
  <2> QED BY <1>0, <2>3, <2>4, <2>5, <2>6 DEF ClientTypes, ClientTypeOK, Busy
<1>2. ASSUME NEW fails \in BOOLEAN, NEW known \in BOOLEAN, NEW outcome \in Outcome, Conclude(fails, known, outcome),
             run.at \in {"next"} \cup Busy,
             input' \in Seq(Inputs), Len(input') <= MaxItems, run.item \in DOMAIN input', DOMAIN input \subseteq DOMAIN input',
             renamed' \subseteq Fields, losses' \in 0..MaxLosses, IsFiniteSet(straying'),
             straying' \subseteq [item : 1..MaxItems, run : 1..MaxRuns],
             UNCHANGED <<directory, renames, effects, now>>
      PROVE  ClientTypes'
  <2>1. /\ outputs' \in Seq([error : BOOLEAN, known : BOOLEAN, outcome : Outcome])
        /\ stops' \in Seq([item : 1..MaxItems, known : BOOLEAN])
        /\ resolved' \in [Fields -> Resolution]
        /\ run'.at \in {"next"} \cup Busy => run'.item <= MaxItems /\ run'.number >= 1
        /\ run'.item - 1 <= Len(input')
        /\ run'.at \in Busy => run'.item \in DOMAIN input'
        /\ Len(outputs') = run'.item - 1
        /\ \A n \in DOMAIN stops' : stops'[n].item \in DOMAIN input'
    BY <1>2, ConcludeTypes
  <2>2. run' \in Run
    BY <1>2, ConcludeDoes
  <2> QED BY <1>0, <1>2, <2>1, <2>2 DEF ClientTypes, ClientTypeOK
<1>3. ASSUME NEW fails \in BOOLEAN, NEW known \in BOOLEAN, NEW outcome \in Outcome, Conclude(fails, known, outcome),
             run.at \in Busy, losses' \in 0..MaxLosses, UNCHANGED <<directory, renamed, renames, input, effects, now, straying>>
      PROVE  ClientTypes'
  <2>1. input' \in Seq(Inputs) /\ Len(input') <= MaxItems /\ run.item \in DOMAIN input' /\ renamed' \subseteq Fields
        /\ IsFiniteSet(straying') /\ straying' \subseteq [item : 1..MaxItems, run : 1..MaxRuns]
    BY <1>0, <1>3 DEF ClientTypes, ClientTypeOK
  <2> QED BY <1>2, <1>3, <2>1
<1>4. CASE TakeItem
  <2>1. PICK item \in IF run.item \in DOMAIN input THEN {input[run.item]} ELSE Inputs :
          /\ input' = IF run.item \in DOMAIN input THEN input ELSE Append(input, item)
          /\ IF MissesFile(item) \/ \E f \in Fields : Body(item)[f] = Refused
             THEN Conclude(TRUE, TRUE, "none")
             ELSE /\ resolved' = Body(item) /\ run' = [run EXCEPT !.at = "resolving"]
                  /\ UNCHANGED <<outputs, stops>>
    BY <1>4 DEF TakeItem
  <2>2. /\ run.at = "next" /\ renamed' = {} /\ UNCHANGED <<directory, renames, effects, now, straying, losses>>
    BY <1>4 DEF TakeItem
  <2>3. /\ input \in Seq(Inputs) /\ Len(input) \in Nat /\ DOMAIN input = 1..Len(input) /\ Len(input) <= MaxItems
        /\ run.item \in 1..MaxItems /\ run.item - 1 <= Len(input)
    BY <1>0, <2>2 DEF ClientTypes, ClientTypeOK
  <2>4. input' \in Seq(Inputs) /\ Len(input') <= MaxItems /\ run.item \in DOMAIN input' /\ DOMAIN input \subseteq DOMAIN input'
    <3>1. CASE run.item \in DOMAIN input
      BY <2>1, <2>3, <3>1
    <3>2. CASE run.item \notin DOMAIN input
      <4>1. run.item = Len(input) + 1 /\ item \in Inputs /\ input' = Append(input, item)
        <5>1. PICK n \in Nat : n = Len(input)
          BY <2>3
        <5>2. ~(run.item \in 1..n) /\ run.item - 1 <= n /\ run.item \in 1..MaxItems
          BY <2>3, <3>2, <5>1
        <5>3. run.item = n + 1
          BY <5>2
        <5> QED BY <2>1, <3>2, <5>1, <5>3
      <4>2. /\ input' \in Seq(Inputs) /\ Len(input') = Len(input) + 1
            /\ DOMAIN input' = DOMAIN input \cup {Len(input) + 1}
        BY <2>3, <4>1, AppendLast
      <4> QED BY <2>3, <4>1, <4>2
    <3> QED BY <3>1, <3>2
  <2>5. /\ losses' \in 0..MaxLosses /\ IsFiniteSet(straying') /\ straying' \subseteq [item : 1..MaxItems, run : 1..MaxRuns]
    BY <1>0, <2>2 DEF ClientTypes, ClientTypeOK
  <2>6. CASE MissesFile(item) \/ \E f \in Fields : Body(item)[f] = Refused
    BY <1>0, <1>2, <2>1, <2>2, <2>4, <2>5, <2>6
  <2>7. CASE ~(MissesFile(item) \/ \E f \in Fields : Body(item)[f] = Refused)
    <3>1. resolved' = Body(item) /\ run' = [run EXCEPT !.at = "resolving"] /\ UNCHANGED <<outputs, stops>>
      BY <2>1, <2>7
    <3>2. resolved' \in [Fields -> Resolution]
      BY <3>1, BodyTypes
    <3>3. run' \in Run /\ run'.item = run.item /\ run'.number = run.number /\ run'.at = "resolving"
      BY <1>0, <3>1
    <3>4. run.item <= MaxItems /\ run.number >= 1 /\ Len(outputs) = run.item - 1 /\ \A n \in DOMAIN stops : stops[n].item \in DOMAIN input
      BY <2>2 DEF ClientTypes
    <3>5. run'.item - 1 <= Len(input')
      <4>1. DOMAIN input' = 1..Len(input') /\ Len(input') \in Nat
        BY <2>4
      <4> QED BY <2>3, <2>4, <3>3, <4>1
    <3> QED BY <1>0, <2>2, <2>4, <2>5, <3>1, <3>2, <3>3, <3>4, <3>5 DEF ClientTypes, ClientTypeOK
  <2> QED BY <2>6, <2>7
<1>5. \A f \in LookedUp : f \in Fields
  BY DEF LookedUp, Unresolved
<1>6. ASSUME NEW f \in Fields, Resolve(f) PROVE ClientTypes'
  <2>1. PICK found : found = Matches(f, input[run.item].refs[f].name)
    OBVIOUS
  <2>2. /\ run.at = "resolving" /\ UNCHANGED <<directory, renamed, renames, input, effects, now, straying, losses>>
        /\ IF Cardinality(found) = 1
           THEN /\ resolved' = [resolved EXCEPT ![f] = CHOOSE i \in found : TRUE]
                /\ UNCHANGED <<run, outputs, stops>>
           ELSE Conclude(TRUE, TRUE, "none")
    BY <1>6, <2>1 DEF Resolve
  <2>3. CASE Cardinality(found) = 1
    <3>1. found \subseteq Ids
      BY <2>1 DEF Matches
    <3>2. \E i : found = {i}
      <4>1. IsFiniteSet(found)
        BY <3>1, FS_Subset
      <4> QED BY <2>3, <4>1, FS_Singleton
    <3>3. (CHOOSE i \in found : TRUE) \in Resolution
      BY <3>1, <3>2 DEF Resolution
    <3>4. resolved' \in [Fields -> Resolution] /\ UNCHANGED <<run, outputs, stops>>
      BY <1>0, <2>2, <2>3, <3>3 DEF ClientTypeOK
    <3> QED BY <1>0, <2>2, <3>4 DEF ClientTypes, ClientTypeOK
  <2>4. CASE Cardinality(found) # 1
    <3>1. Conclude(TRUE, TRUE, "none") /\ run.at \in Busy /\ losses' \in 0..MaxLosses
      BY <1>0, <2>2, <2>4 DEF Busy, ClientTypeOK
    <3> QED BY <1>0, <1>3, <2>2, <3>1
  <2> QED BY <2>3, <2>4
<1>7. ASSUME Loses PROVE losses' \in 0..MaxLosses
  BY <1>0, <1>7 DEF Loses, ClientTypeOK
<1>8. ASSUME NEW f \in Fields, MissLookup(f) PROVE ClientTypes'
  BY <1>0, <1>3, <1>7, <1>8 DEF MissLookup, Busy
<1>9. CASE Send
  <2>1. run' \in Run /\ run'.item = run.item /\ run'.number = run.number /\ run'.at = "sent" /\ run.at = "resolving"
    BY <1>0, <1>9 DEF Send
  <2>2. UNCHANGED <<directory, renamed, renames, input, resolved, outputs, effects, now, stops, straying, losses>>
    BY <1>9 DEF Send
  <2> QED BY <1>0, <2>1, <2>2 DEF ClientTypes, ClientTypeOK, Busy
<1>10. ASSUME NEW outcome \in Outcome, NEW fails \in BOOLEAN, Serve(outcome, fails) PROVE ClientTypes'
  <2>1. run.at = "sent" /\ run' = [run EXCEPT !.at = "answered", !.outcome = outcome, !.fails = fails]
        /\ UNCHANGED <<directory, renamed, renames, input, resolved, outputs, stops, straying, losses>>
    BY <1>10 DEF Serve
  <2>2. run' \in Run /\ run'.item = run.item /\ run'.number = run.number /\ run'.at = "answered"
    BY <1>0, <2>1
  <2>3. run.item \in 1..MaxItems
    BY <1>0, <2>1 DEF ClientTypes, Busy
  <2>4. effects' \in [1..MaxItems -> Nat] /\ now' \subseteq 1..MaxItems
    BY <1>0, <1>10, <2>3, SMTT(30) DEF Serve, Change, ClientTypeOK
  <2> QED BY <1>0, <2>1, <2>2, <2>4 DEF ClientTypes, ClientTypeOK, Busy
<1>11. CASE Answer
  <2>1. run.at \in Busy /\ run.fails \in BOOLEAN /\ run.outcome \in Outcome /\ losses' \in 0..MaxLosses
    BY <1>0, <1>11 DEF Answer, Busy, ClientTypeOK
  <2> QED BY <1>3, <1>11, <2>1 DEF Answer
<1>12. CASE LoseAnswer
  <2>1. run.at \in Busy /\ run.outcome \in Outcome
    BY <1>0, <1>12 DEF LoseAnswer, Busy
  <2> QED BY <1>3, <1>7, <1>12, <2>1 DEF LoseAnswer
<1>13. CASE GiveUp
  <2>1. /\ run.at = "sent" /\ Loses /\ Conclude(TRUE, FALSE, "none")
        /\ straying' = straying \/ straying' = straying \cup {[item |-> run.item, run |-> run.number]}
        /\ UNCHANGED <<directory, renamed, renames, input, effects, now>>
    BY <1>13 DEF GiveUp
  <2>2. run.item \in 1..MaxItems /\ run.number \in 1..MaxRuns
    BY <1>0, <2>1 DEF ClientTypes, Busy
  <2>3. IsFiniteSet(straying') /\ straying' \subseteq [item : 1..MaxItems, run : 1..MaxRuns]
    <3>1. PICK x : x = [item |-> run.item, run |-> run.number]
      OBVIOUS
    <3>2. x \in [item : 1..MaxItems, run : 1..MaxRuns]
      BY <2>2, <3>1
    <3>3. IsFiniteSet(straying) /\ straying \subseteq [item : 1..MaxItems, run : 1..MaxRuns]
      BY <1>0 DEF ClientTypes, ClientTypeOK
    <3>4. IsFiniteSet(straying \cup {x})
      BY <3>3, FS_AddElement
    <3> QED BY <2>1, <3>1, <3>2, <3>3, <3>4
  <2>4. input' \in Seq(Inputs) /\ Len(input') <= MaxItems /\ run.item \in DOMAIN input' /\ renamed' \subseteq Fields
    BY <1>0, <2>1 DEF ClientTypes, ClientTypeOK, Busy
  <2>5. losses' \in 0..MaxLosses /\ run.at \in {"next"} \cup Busy
    BY <1>7, <2>1 DEF Busy
  <2> QED BY <1>0, <1>2, <2>1, <2>3, <2>4, <2>5
<1>14. ASSUME NEW s \in straying, ServeLate(s) PROVE ClientTypes'
  <2>1. s.item \in 1..MaxItems /\ straying' = straying \ {s}
    BY <1>0, <1>14 DEF ServeLate, ClientTypeOK
  <2>2. IsFiniteSet(straying') /\ straying' \subseteq [item : 1..MaxItems, run : 1..MaxRuns]
    BY <1>0, <2>1, FS_RemoveElement DEF ClientTypes, ClientTypeOK
  <2>3. effects' \in [1..MaxItems -> Nat] /\ now' \subseteq 1..MaxItems
    <3>1. PICK n \in 1..MaxItems : n = s.item
      BY <2>1
    <3>2. effects \in [1..MaxItems -> Nat] /\ now \subseteq 1..MaxItems
      BY <1>0 DEF ClientTypeOK
    <3>3. effects' = [effects EXCEPT ![n] = @ + 1] /\ now' \in {now, now \cup {n}}
      BY <1>14, <3>1 DEF ServeLate, Change
    <3> QED BY <3>2, <3>3
  <2>4. UNCHANGED <<directory, renamed, renames, input, run, resolved, outputs, stops, losses>>
    BY <1>14 DEF ServeLate
  <2> QED BY <1>0, <2>2, <2>3, <2>4 DEF ClientTypes, ClientTypeOK
<1>15. ASSUME NEW f \in Fields, NEW i \in Ids, NEW name \in Names \cup {Deleted}, Rename(f, i, name) PROVE ClientTypes'
  <2>1. directory' \in [Fields -> [Ids -> Names \cup {Deleted}]]
    BY <1>0, <1>15 DEF Rename, ClientTypeOK
  <2>2. renamed' \subseteq Fields /\ renames' \in 0..MaxRenames
    BY <1>0, <1>15 DEF Rename, ClientTypeOK
  <2>3. UNCHANGED <<input, run, resolved, outputs, effects, now, stops, straying, losses>>
    BY <1>15 DEF Rename
  <2> QED BY <1>0, <2>1, <2>2, <2>3 DEF ClientTypes, ClientTypeOK
<1>16. CASE UNCHANGED clientVars
  BY <1>16 DEF clientVars, ClientTypes, ClientTypeOK
<1> QED
  BY <1>1, <1>4, <1>6, <1>8, <1>9, <1>10, <1>11, <1>12, <1>13, <1>14, <1>15, <1>16 DEF ClientNext

-----------------------------------------------------------------------------
(* The action nodes: the ids of a request.                                 *)

\* A reference by name is looked up or refused; no id stands for it yet.
LEMMA NamesArePending ==
  ASSUME NEW item, NEW f \in Fields, item.refs[f].name # Untold
  PROVE  Body(item)[f] \notin Ids
<1> USE ClientBounds
<1>1. Required(item.refs[f]) \notin Ids /\ \A b \in BOOLEAN : Optional(item.refs[f], b) \notin Ids
  BY DEF Required, Optional
<1>2. CreateBody(item.refs)[f] \notin Ids
  BY <1>1 DEF CreateBody
<1>3. UpdateBody(item.refs)[f] \notin Ids
  BY <1>1 DEF UpdateBody
<1>4. Blank[f] \notin Ids
  BY DEF Blank
<1> QED BY <1>2, <1>3, <1>4 DEF Body

\* The id of a name is that of the only record so named, until one is changed.
LEMMA IdsStep ==
  ASSUME ClientTypes, ClientTypes', IdsAreOfTheNames, [ClientNext]_clientVars
  PROVE  IdsAreOfTheNames'
<1> USE ClientBounds
<1> SUFFICES ASSUME run'.at \in {"resolving", "sent"}, NEW f \in Fields \ renamed',
                    input'[run'.item].refs[f].name # Untold, resolved'[f] \in Ids
             PROVE  {i \in Ids : directory'[f][i] = input'[run'.item].refs[f].name} = {resolved'[f]}
  BY DEF IdsAreOfTheNames, Matches
<1>0. ClientTypeOK /\ resolved \in [Fields -> Resolution] /\ directory \in [Fields -> [Ids -> Names \cup {Deleted}]]
  BY DEF ClientTypes, ClientTypeOK
<1>1. ASSUME run.at \in {"resolving", "sent"}, run'.item = run.item, input' = input, resolved'[f] = resolved[f],
             directory'[f] = directory[f], renamed \subseteq renamed'
      PROVE  {i \in Ids : directory'[f][i] = input'[run'.item].refs[f].name} = {resolved'[f]}
  <2>1. Matches(f, input[run.item].refs[f].name) = {resolved[f]}
    BY <1>1 DEF IdsAreOfTheNames
  <2> QED BY <1>1, <2>1 DEF Matches
<1>2. ASSUME NEW fails \in BOOLEAN, NEW known \in BOOLEAN, NEW outcome \in Outcome, Conclude(fails, known, outcome),
             run.at \in {"next"} \cup Busy
      PROVE  FALSE
  BY <1>2, ConcludeDoes
<1>3. "none" \in Outcome
  BY DEF Outcome
<1>4. ASSUME NEW goesOn \in BOOLEAN, Execute(goesOn) PROVE FALSE
  BY <1>0, <1>4 DEF Execute, ClientTypeOK
<1>5. CASE TakeItem
  <2>1. PICK item \in IF run.item \in DOMAIN input THEN {input[run.item]} ELSE Inputs :
          /\ input' = IF run.item \in DOMAIN input THEN input ELSE Append(input, item)
          /\ IF MissesFile(item) \/ \E g \in Fields : Body(item)[g] = Refused
             THEN Conclude(TRUE, TRUE, "none")
             ELSE /\ resolved' = Body(item) /\ run' = [run EXCEPT !.at = "resolving"]
                  /\ UNCHANGED <<outputs, stops>>
    BY <1>5 DEF TakeItem
  <2>2. run.at = "next"
    BY <1>5 DEF TakeItem
  <2>3. resolved' = Body(item) /\ run' = [run EXCEPT !.at = "resolving"]
    BY <1>2, <1>3, <2>1, <2>2
  <2>4. run'.item = run.item
    BY <1>0, <2>3 DEF ClientTypeOK
  <2>5. input'[run.item] = item
    <3>1. CASE run.item \in DOMAIN input
      BY <2>1, <3>1
    <3>2. CASE run.item \notin DOMAIN input
      <4>1. input \in Seq(Inputs) /\ item \in Inputs /\ input' = Append(input, item)
        BY <1>0, <2>1, <3>2 DEF ClientTypeOK
      <4>2. PICK n \in Nat : n = Len(input) /\ DOMAIN input = 1..n
        BY <4>1
      <4>3. run.item = n + 1
        BY <3>2, <4>2, SMTT(30) DEF ClientTypes, ClientTypeOK
      <4>4. input'[Len(input) + 1] = item
        BY <4>1, AppendLast
      <4> QED BY <4>2, <4>3, <4>4
    <3> QED BY <3>1, <3>2
  <2>6. Body(item)[f] \notin Ids
    BY <2>4, <2>5, NamesArePending
  <2> QED BY <2>3, <2>6
<1>6. ASSUME NEW g \in Fields, Resolve(g) PROVE {i \in Ids : directory'[f][i] = input'[run'.item].refs[f].name} = {resolved'[f]}
  <2>1. PICK found : found = Matches(g, input[run.item].refs[g].name)
    OBVIOUS
  <2>2. /\ run.at = "resolving" /\ UNCHANGED <<directory, renamed, renames, input, effects, now, straying, losses>>
        /\ IF Cardinality(found) = 1
           THEN /\ resolved' = [resolved EXCEPT ![g] = CHOOSE i \in found : TRUE]
                /\ UNCHANGED <<run, outputs, stops>>
           ELSE Conclude(TRUE, TRUE, "none")
    BY <1>6, <2>1 DEF Resolve
  <2>3. Cardinality(found) = 1
    BY <1>2, <1>3, <2>2 DEF Busy
  <2>4. resolved' = [resolved EXCEPT ![g] = CHOOSE i \in found : TRUE] /\ UNCHANGED run
    BY <2>2, <2>3
  <2>5. CASE f # g
    BY <1>0, <1>1, <2>2, <2>4, <2>5
  <2>6. CASE f = g
    <3>1. PICK i : found = {i}
      <4>1. found \subseteq Ids
        BY <2>1 DEF Matches
      <4>2. IsFiniteSet(found)
        BY <4>1, FS_Subset
      <4> QED BY <2>3, <4>2, FS_Singleton
    <3>2. resolved'[f] = i
      BY <1>0, <2>4, <2>6, <3>1
    <3> QED BY <2>1, <2>2, <2>4, <2>6, <3>1, <3>2 DEF Matches
  <2> QED BY <2>5, <2>6
<1>7. ASSUME NEW g \in Fields, MissLookup(g) PROVE FALSE
  BY <1>2, <1>3, <1>7 DEF MissLookup, Busy
<1>8. CASE Send
  <2>1. run'.item = run.item /\ run.at = "resolving"
    BY <1>0, <1>8 DEF Send, ClientTypeOK
  <2> QED BY <1>1, <1>8, <2>1 DEF Send
<1>9. ASSUME NEW outcome \in Outcome, NEW fails \in BOOLEAN, Serve(outcome, fails) PROVE FALSE
  BY <1>0, <1>9 DEF Serve, ClientTypeOK
<1>10. CASE Answer
  <2>1. run.at \in Busy /\ run.fails \in BOOLEAN /\ run.outcome \in Outcome /\ Conclude(run.fails, TRUE, run.outcome)
    BY <1>0, <1>10 DEF Answer, Busy, ClientTypeOK
  <2> QED BY <1>2, <2>1
<1>11. CASE LoseAnswer
  <2>1. run.at \in Busy /\ run.outcome \in Outcome /\ Conclude(TRUE, FALSE, run.outcome)
    BY <1>0, <1>11 DEF LoseAnswer, Busy, ClientTypeOK
  <2> QED BY <1>2, <2>1
<1>12. CASE GiveUp
  BY <1>2, <1>3, <1>12 DEF GiveUp, Busy
<1>13. ASSUME NEW s \in straying, ServeLate(s) PROVE {i \in Ids : directory'[f][i] = input'[run'.item].refs[f].name} = {resolved'[f]}
  BY <1>1, <1>13 DEF ServeLate
<1>14. ASSUME NEW g \in Fields, NEW i \in Ids, NEW name \in Names \cup {Deleted}, Rename(g, i, name)
       PROVE  {j \in Ids : directory'[f][j] = input'[run'.item].refs[f].name} = {resolved'[f]}
  <2>1. f # g
    BY <1>14 DEF Rename
  <2>2. directory'[f] = directory[f] /\ renamed \subseteq renamed' /\ UNCHANGED <<input, run, resolved>>
    BY <1>0, <1>14, <2>1 DEF Rename
  <2> QED BY <1>1, <2>2
<1>15. CASE UNCHANGED clientVars
  BY <1>1, <1>15 DEF clientVars
<1> QED
  BY <1>4, <1>5, <1>6, <1>7, <1>8, <1>9, <1>10, <1>11, <1>12, <1>13, <1>14, <1>15 DEF ClientNext

-----------------------------------------------------------------------------
(* The action nodes: what they put out.                                    *)

\* What the outputs say, with what makes it so: an item changes the server
\* when its request is served, or later if the node has given the request up
\* and said that it does not know.
OutputsInv ==
  /\ \A i \in now : i <= run.item
  /\ run.at \in {"next", "resolving", "sent"} => run.item \notin now
  /\ run.at = "answered" =>
       /\ ~run.fails /\ input[run.item].op # "read" => run.item \in now
       /\ run.fails /\ input[run.item].op # "update" => run.item \notin now /\ run.outcome = "none"
  /\ \A k \in DOMAIN outputs :
       /\ ~outputs[k].error /\ input[k].op # "read" => k \in now
       /\ outputs[k].error /\ outputs[k].known /\ input[k].op # "update" => k \notin now
  /\ \A s \in straying :
       /\ s.run <= run.number
       /\ s.run = run.number =>
            /\ s.item <= run.item
            /\ s.item = run.item => run.at = "idle"
            /\ s.item < run.item => outputs[s.item].error /\ ~outputs[s.item].known

\* The end of an item tells what has become of it.
LEMMA ConcludeTells ==
  ASSUME ClientTypes, ClientTypes', OutputsInv, run.at \in {"next"} \cup Busy,
         NEW fails \in BOOLEAN, NEW known \in BOOLEAN, NEW outcome \in Outcome, Conclude(fails, known, outcome),
         run.item \in DOMAIN input', \A k \in DOMAIN input : input'[k] = input[k],
         UNCHANGED now,
         ~fails /\ input'[run.item].op # "read" => run.item \in now,
         fails /\ known /\ input'[run.item].op # "update" => run.item \notin now,
         \A s \in straying' : s \in straying \/ (s = [item |-> run.item, run |-> run.number] /\ fails /\ ~known)
  PROVE  OutputsInv'
<1> USE ClientBounds
<1>0. /\ run.item \in 1..MaxItems /\ run.number \in Nat /\ now \subseteq Nat
      /\ outputs \in Seq([error : BOOLEAN, known : BOOLEAN, outcome : Outcome])
      /\ straying \subseteq [item : 1..MaxItems, run : 1..MaxRuns]
  <2>1. ClientTypeOK /\ run.item <= MaxItems
    BY DEF ClientTypes
  <2>2. run.item \in 1..MaxItems /\ run.number \in Nat
    BY <2>1 DEF ClientTypeOK
  <2> QED BY <2>1, <2>2 DEF ClientTypeOK
<1>1. DOMAIN outputs = 1..(run.item - 1) /\ \A k \in 1..(run.item - 1) : k \in DOMAIN input
  <2>1. PICK n, l \in Nat : n = Len(outputs) /\ l = Len(input) /\ DOMAIN outputs = 1..n /\ DOMAIN input = 1..l
    BY DEF ClientTypes, ClientTypeOK
  <2>2. n = run.item - 1 /\ n <= l
    BY <2>1 DEF ClientTypes
  <2> QED BY <1>0, <2>1, <2>2
<1>2. run'.number = run.number /\ run'.at \in {"idle", "next", "done"}
      /\ ((fails /\ Stopped(known)) \/ WentOn(fails, known, outcome))
  BY ConcludeDoes
<1>3. \A k \in DOMAIN outputs :
       /\ ~outputs[k].error /\ input'[k].op # "read" => k \in now
       /\ outputs[k].error /\ outputs[k].known /\ input'[k].op # "update" => k \notin now
  BY <1>1 DEF OutputsInv
<1>4. \A s \in straying : /\ s.run <= run.number
                          /\ s.run = run.number =>
                               /\ s.item < run.item
                               /\ s.item \in DOMAIN outputs /\ outputs[s.item].error /\ ~outputs[s.item].known
  <2>1. run.at # "idle"
    BY DEF Busy
  <2>2. ASSUME NEW s \in straying, s.run = run.number PROVE s.item < run.item /\ s.item \in 1..(run.item - 1)
    <3>1. s.item \in 1..MaxItems /\ s.item <= run.item /\ s.item # run.item
      BY <1>0, <2>1, <2>2 DEF OutputsInv
    <3> QED BY <1>0, <3>1
  <2> QED BY <1>1, <2>2 DEF OutputsInv
<1>5. CASE fails /\ Stopped(known)
  <2>1. run'.at = "idle" /\ run'.item = run.item /\ outputs' = outputs
    BY <1>5 DEF Stopped
  <2>2. ASSUME NEW s \in straying'
        PROVE  /\ s.run <= run'.number
               /\ s.run = run'.number =>
                    /\ s.item <= run'.item
                    /\ s.item = run'.item => run'.at = "idle"
                    /\ s.item < run'.item => outputs'[s.item].error /\ ~outputs'[s.item].known
    <3>1. CASE s \in straying
      <4>1. s.item \in Nat
        BY <1>0, <3>1
      <4> QED BY <1>0, <1>2, <1>4, <2>1, <3>1, <4>1
    <3>2. CASE s = [item |-> run.item, run |-> run.number]
      <4>1. s.item = run.item /\ s.run = run.number
        BY <3>2
      <4> QED BY <1>0, <1>2, <2>1, <4>1
    <3> QED BY <3>1, <3>2
  <2> QED BY <1>3, <2>1, <2>2 DEF OutputsInv
<1>6. CASE WentOn(fails, known, outcome)
  <2>1. PICK x : x = [error |-> fails, known |-> known, outcome |-> outcome]
    OBVIOUS
  <2>2. x \in [error : BOOLEAN, known : BOOLEAN, outcome : Outcome] /\ x.error = fails /\ x.known = known
    BY <2>1
  <2>3. run'.at \in {"next", "done"} /\ run'.item = run.item + 1 /\ outputs' = Append(outputs, x)
    BY <1>6, <2>1 DEF WentOn
  <2>4. /\ DOMAIN outputs' = DOMAIN outputs \cup {Len(outputs) + 1}
        /\ \A k \in DOMAIN outputs : outputs'[k] = outputs[k]
        /\ outputs'[Len(outputs) + 1] = x
    BY <1>0, <2>2, <2>3, AppendLast
  <2>5. Len(outputs) + 1 = run.item
    BY <1>0 DEF ClientTypes
  <2>6. /\ DOMAIN outputs' = DOMAIN outputs \cup {run.item} /\ outputs'[run.item] = x
    BY <2>4, <2>5
  <2>7. run.item + 1 \notin now /\ \A i \in now : i <= run.item + 1
    BY <1>0 DEF OutputsInv
  <2>8. \A k \in DOMAIN outputs' :
          /\ ~outputs'[k].error /\ input'[k].op # "read" => k \in now
          /\ outputs'[k].error /\ outputs'[k].known /\ input'[k].op # "update" => k \notin now
    BY <1>3, <2>2, <2>4, <2>6
  <2>9. ASSUME NEW s \in straying'
        PROVE  /\ s.run <= run'.number
               /\ s.run = run'.number =>
                    /\ s.item <= run'.item
                    /\ s.item = run'.item => run'.at = "idle"
                    /\ s.item < run'.item => outputs'[s.item].error /\ ~outputs'[s.item].known
    <3>1. CASE s \in straying
      <4>1. s.item \in Nat
        BY <1>0, <3>1
      <4> QED BY <1>0, <1>2, <1>4, <2>3, <2>4, <3>1, <4>1
    <3>2. CASE s = [item |-> run.item, run |-> run.number] /\ fails /\ ~known
      <4>1. s.item = run.item /\ s.run = run.number
        BY <3>2
      <4>2. outputs'[s.item].error /\ ~outputs'[s.item].known
        BY <2>2, <2>6, <3>2, <4>1
      <4>3. s.item < run'.item /\ s.item # run'.item /\ s.item <= run'.item
        BY <1>0, <2>3, <4>1
      <4> QED BY <1>0, <1>2, <4>1, <4>2, <4>3
    <3> QED BY <3>1, <3>2
  <2> QED BY <2>3, <2>7, <2>8, <2>9 DEF OutputsInv
<1> QED BY <1>2, <1>5, <1>6

\* Every step keeps the outputs true.
LEMMA OutputsStep ==
  ASSUME ClientTypes, ClientTypes', OutputsInv, [ClientNext]_clientVars
  PROVE  OutputsInv'
<1> USE ClientBounds
<1>0. /\ ClientTypeOK /\ "none" \in Outcome /\ run.item \in Nat /\ run.number \in Nat
      /\ straying \subseteq [item : 1..MaxItems, run : 1..MaxRuns]
  <2>1. ClientTypeOK
    BY DEF ClientTypes
  <2>2. run.item \in Nat /\ run.number \in Nat
    BY <2>1 DEF ClientTypeOK
  <2> QED BY <2>1, <2>2 DEF ClientTypeOK, Outcome
<1>1. ASSUME NEW goesOn \in BOOLEAN, Execute(goesOn) PROVE OutputsInv'
  <2>1. run'.number = run.number + 1 /\ run'.item = 1 /\ run'.at = "next"
    BY <1>0, <1>1 DEF Execute, ClientTypeOK
  <2>2. outputs' = <<>> /\ now' = {} /\ straying' = straying
    BY <1>1 DEF Execute
  <2>3. \A s \in straying : s.run <= run'.number /\ s.run # run'.number
    BY <1>0, <2>1 DEF OutputsInv
  <2> QED BY <2>1, <2>2, <2>3 DEF OutputsInv
<1>2. ASSUME NEW known \in BOOLEAN, NEW outcome \in Outcome, Conclude(TRUE, known, outcome),
             run.at \in {"resolving", "sent"},
             UNCHANGED <<input, now>>,
             \A s \in straying' : s \in straying \/ (s = [item |-> run.item, run |-> run.number] /\ ~known)
      PROVE  OutputsInv'
  <2>1. run.item \in DOMAIN input' /\ run.item \notin now
    BY <1>2 DEF ClientTypes, Busy, OutputsInv
  <2> QED BY <1>2, <2>1, ConcludeTells DEF Busy
<1>3. CASE TakeItem
  <2>1. PICK item \in IF run.item \in DOMAIN input THEN {input[run.item]} ELSE Inputs :
          /\ input' = IF run.item \in DOMAIN input THEN input ELSE Append(input, item)
          /\ IF MissesFile(item) \/ \E f \in Fields : Body(item)[f] = Refused
             THEN Conclude(TRUE, TRUE, "none")
             ELSE /\ resolved' = Body(item) /\ run' = [run EXCEPT !.at = "resolving"]
                  /\ UNCHANGED <<outputs, stops>>
    BY <1>3 DEF TakeItem
  <2>2. run.at = "next" /\ UNCHANGED <<now, straying>>
    BY <1>3 DEF TakeItem
  <2>3. PICK n \in Nat : n = Len(input) /\ DOMAIN input = 1..n /\ run.item - 1 <= n /\ run.item \in 1..MaxItems /\ input \in Seq(Inputs)
    BY <1>0, <2>2 DEF ClientTypes, ClientTypeOK
  <2>4. run.item \in DOMAIN input' /\ \A k \in DOMAIN input : input'[k] = input[k]
    <3>1. CASE run.item \in DOMAIN input
      BY <2>1, <3>1
    <3>2. CASE run.item \notin DOMAIN input
      <4>1. item \in Inputs /\ input' = Append(input, item) /\ run.item = n + 1
        BY <2>1, <2>3, <3>2
      <4>2. /\ DOMAIN input' = DOMAIN input \cup {Len(input) + 1}
            /\ \A k \in DOMAIN input : input'[k] = input[k]
        BY <2>3, <4>1, AppendLast
      <4> QED BY <2>3, <4>1, <4>2
    <3> QED BY <3>1, <3>2
  <2>5. CASE MissesFile(item) \/ \E f \in Fields : Body(item)[f] = Refused
    <3>1. Conclude(TRUE, TRUE, "none") /\ run.item \notin now
      BY <2>1, <2>2, <2>5 DEF OutputsInv
    <3> QED BY <1>0, <2>2, <2>4, <3>1, ConcludeTells
  <2>6. CASE ~(MissesFile(item) \/ \E f \in Fields : Body(item)[f] = Refused)
    <3>1. run' = [run EXCEPT !.at = "resolving"] /\ UNCHANGED <<outputs, stops>>
      BY <2>1, <2>6
    <3>2. run'.item = run.item /\ run'.number = run.number /\ run'.at = "resolving" /\ run'.fails = run.fails
      BY <1>0, <3>1 DEF ClientTypeOK
    <3>3. \A k \in DOMAIN outputs : k \in DOMAIN input
      <4>1. PICK l \in Nat : l = Len(outputs) /\ DOMAIN outputs = 1..l
        BY <1>0 DEF ClientTypeOK
      <4>2. l = run.item - 1
        BY <4>1 DEF ClientTypes
      <4> QED BY <2>3, <4>1, <4>2
    <3>4. \A k \in DOMAIN outputs :
            /\ ~outputs[k].error /\ input'[k].op # "read" => k \in now
            /\ outputs[k].error /\ outputs[k].known /\ input'[k].op # "update" => k \notin now
      BY <2>4, <3>3 DEF OutputsInv
    <3>5. \A s \in straying :
            /\ s.run <= run.number
            /\ s.run = run.number =>
                 /\ s.item <= run.item
                 /\ s.item # run.item
                 /\ s.item < run.item => outputs[s.item].error /\ ~outputs[s.item].known
      BY <2>2 DEF OutputsInv
    <3> QED BY <2>2, <3>1, <3>2, <3>4, <3>5 DEF OutputsInv
  <2> QED BY <2>5, <2>6
<1>4. ASSUME NEW f \in Fields, Resolve(f) PROVE OutputsInv'
  <2>1. run.at = "resolving" /\ UNCHANGED <<input, now, straying>>
        /\ (UNCHANGED <<run, outputs, stops>> \/ Conclude(TRUE, TRUE, "none"))
    BY <1>4 DEF Resolve
  <2>2. CASE Conclude(TRUE, TRUE, "none")
    BY <1>0, <1>2, <2>1, <2>2
  <2>3. CASE UNCHANGED <<run, outputs, stops>>
    BY <2>1, <2>3 DEF OutputsInv
  <2> QED BY <2>1, <2>2, <2>3
<1>5. ASSUME NEW f \in Fields, MissLookup(f) PROVE OutputsInv'
  BY <1>0, <1>2, <1>5 DEF MissLookup
<1>6. CASE Send
  <2>1. run'.item = run.item /\ run'.number = run.number /\ run'.at = "sent" /\ run.at = "resolving"
        /\ UNCHANGED <<input, outputs, now, straying>>
    BY <1>0, <1>6 DEF Send, ClientTypeOK
  <2> QED BY <2>1 DEF OutputsInv
<1>7. ASSUME NEW outcome \in Outcome, NEW fails \in BOOLEAN, Serve(outcome, fails) PROVE OutputsInv'
  <2>1. run.at = "sent" /\ run' = [run EXCEPT !.at = "answered", !.outcome = outcome, !.fails = fails]
        /\ UNCHANGED <<input, outputs, straying>>
        /\ now' = IF outcome = "none" THEN now ELSE now \cup {run.item}
    BY <1>7 DEF Serve
  <2>2. run'.item = run.item /\ run'.number = run.number /\ run'.at = "answered" /\ run'.outcome = outcome /\ run'.fails = fails
    BY <1>0, <2>1 DEF ClientTypeOK
  <2>3. /\ outcome = "none" => fails \/ input[run.item].op = "read"
        /\ outcome = "partly" => fails /\ input[run.item].op = "update"
        /\ outcome = "changed" => ~fails /\ input[run.item].op # "read"
    BY <1>7 DEF Serve
  <2>4. run.item \notin now /\ run.item \notin DOMAIN outputs
    <3>1. PICK l \in Nat : l = Len(outputs) /\ DOMAIN outputs = 1..l
      BY <1>0 DEF ClientTypeOK
    <3>2. l = run.item - 1
      BY <3>1 DEF ClientTypes
    <3> QED BY <1>0, <2>1, <3>1, <3>2 DEF OutputsInv
  <2>5. \A i \in now' : i <= run'.item
    BY <1>0, <2>1, <2>2 DEF OutputsInv
  <2>6. /\ ~fails /\ input[run.item].op # "read" => run.item \in now'
        /\ fails /\ input[run.item].op # "update" => run.item \notin now' /\ outcome = "none"
    BY <2>1, <2>3, <2>4 DEF Outcome
  <2>7. \A k \in DOMAIN outputs :
          /\ ~outputs[k].error /\ input[k].op # "read" => k \in now'
          /\ outputs[k].error /\ outputs[k].known /\ input[k].op # "update" => k \notin now'
    BY <2>1, <2>4 DEF OutputsInv
  <2>8. \A s \in straying :
          /\ s.run <= run.number
          /\ s.run = run.number =>
               /\ s.item <= run.item
               /\ s.item # run.item
               /\ s.item < run.item => outputs[s.item].error /\ ~outputs[s.item].known
    BY <2>1 DEF OutputsInv
  <2> QED BY <2>1, <2>2, <2>5, <2>6, <2>7, <2>8 DEF OutputsInv
<1>8. CASE Answer
  <2>1. run.at = "answered" /\ Conclude(run.fails, TRUE, run.outcome) /\ UNCHANGED <<input, now, straying>>
    BY <1>8 DEF Answer
  <2>2. run.fails \in BOOLEAN /\ run.outcome \in Outcome /\ run.item \in DOMAIN input' /\ run.at \in {"next"} \cup Busy
    BY <1>0, <2>1 DEF ClientTypes, ClientTypeOK, Busy
  <2>3. /\ ~run.fails /\ input'[run.item].op # "read" => run.item \in now
        /\ run.fails /\ TRUE /\ input'[run.item].op # "update" => run.item \notin now
    BY <2>1 DEF OutputsInv
  <2> QED BY <2>1, <2>2, <2>3, ConcludeTells
<1>9. CASE LoseAnswer
  <2>1. run.at = "answered" /\ Conclude(TRUE, FALSE, run.outcome) /\ UNCHANGED <<input, now, straying>>
    BY <1>9 DEF LoseAnswer
  <2>2. run.outcome \in Outcome /\ run.item \in DOMAIN input' /\ run.at \in {"next"} \cup Busy
    BY <1>0, <2>1 DEF ClientTypes, ClientTypeOK, Busy
  <2> QED BY <2>1, <2>2, ConcludeTells
<1>10. CASE GiveUp
  <2>1. /\ run.at = "sent" /\ Conclude(TRUE, FALSE, "none") /\ UNCHANGED <<input, now>>
        /\ straying' = straying \/ straying' = straying \cup {[item |-> run.item, run |-> run.number]}
    BY <1>10 DEF GiveUp
  <2> QED BY <1>0, <1>2, <2>1
<1>11. ASSUME NEW s \in straying, ServeLate(s) PROVE OutputsInv'
  <2>1. /\ straying' = straying \ {s} /\ UNCHANGED <<input, run, outputs>>
        /\ now' = IF s.run = run.number THEN now \cup {s.item} ELSE now
    BY <1>11 DEF ServeLate
  <2>2. CASE s.run # run.number
    BY <2>1, <2>2 DEF OutputsInv
  <2>3. CASE s.run = run.number
    <3>1. /\ s.item <= run.item
          /\ s.item = run.item => run.at = "idle"
          /\ s.item < run.item => outputs[s.item].error /\ ~outputs[s.item].known
      BY <2>3 DEF OutputsInv
    <3>2. s.item \in DOMAIN outputs => s.item < run.item
      <4>1. PICK l \in Nat : l = Len(outputs) /\ DOMAIN outputs = 1..l
        BY <1>0 DEF ClientTypeOK
      <4>2. l = run.item - 1
        BY <4>1 DEF ClientTypes
      <4> QED BY <1>0, <4>1, <4>2
    <3>3. \A k \in DOMAIN outputs :
            /\ ~outputs[k].error /\ input[k].op # "read" => k \in now'
            /\ outputs[k].error /\ outputs[k].known /\ input[k].op # "update" => k \notin now'
      BY <2>1, <3>1, <3>2 DEF OutputsInv
    <3>4. \A i \in now' : i <= run.item
      BY <2>1, <3>1 DEF OutputsInv
    <3>5. run.at \in {"next", "resolving", "sent", "answered"} => s.item # run.item
      BY <3>1
    <3> QED BY <2>1, <2>3, <3>3, <3>4, <3>5 DEF OutputsInv
  <2> QED BY <2>2, <2>3
<1>12. ASSUME UNCHANGED <<input, run, outputs, now, straying>> PROVE OutputsInv'
  BY <1>12 DEF OutputsInv
<1>13. ASSUME NEW f \in Fields, NEW i \in Ids, NEW name \in Names \cup {Deleted}, Rename(f, i, name) PROVE OutputsInv'
  BY <1>12, <1>13 DEF Rename
<1>14. CASE UNCHANGED clientVars
  BY <1>12, <1>14 DEF clientVars
<1> QED
  BY <1>1, <1>3, <1>4, <1>5, <1>6, <1>7, <1>8, <1>9, <1>10, <1>11, <1>13, <1>14 DEF ClientNext

-----------------------------------------------------------------------------
(* The action nodes: how often an item changes the server.                 *)

\* The executions that stopped in a way that has item i repeated.
Repeats(st, inp, i) ==
  {n \in DOMAIN st : \/ st[n].item > i
                     \/ st[n].item = i /\ (~st[n].known \/ inp[i].op = "update")}

\* The execution has taken item i up and may have changed the server for it.
Spent(i) == run.at # "idle" /\ (i < run.item \/ (i = run.item /\ run.at = "answered" /\ run.outcome # "none"))

Late(i) == {s \in straying : s.item = i}

\* What the server has done for an item, and may yet do, is one change for
\* each execution that has come so far.
EffectsInv ==
  \A i \in 1..MaxItems :
    effects[i] + Cardinality(Late(i)) <= Cardinality(Repeats(stops, input, i)) + (IF Spent(i) THEN 1 ELSE 0)

\* There are finitely many of them.
LEMMA RepeatsFinite ==
  ASSUME NEW S, NEW st \in Seq(S), NEW inp, NEW i
  PROVE  IsFiniteSet(Repeats(st, inp, i)) /\ Cardinality(Repeats(st, inp, i)) \in Nat
<1>1. DOMAIN st = 1..Len(st) /\ Len(st) \in Nat
  OBVIOUS
<1>2. IsFiniteSet(1..Len(st))
  BY <1>1, FS_Interval
<1>3. Repeats(st, inp, i) \subseteq 1..Len(st)
  BY <1>1 DEF Repeats
<1>4. IsFiniteSet(Repeats(st, inp, i))
  BY <1>2, <1>3, FS_Subset
<1> QED BY <1>4, FS_CardinalityType

\* One more item in the input repeats nothing.
LEMMA RepeatsOfMore ==
  ASSUME NEW st, NEW inp, NEW more, NEW i, \A n \in DOMAIN st : st[n].item \in DOMAIN inp,
         \A k \in DOMAIN inp : more[k] = inp[k]
  PROVE  Repeats(st, more, i) = Repeats(st, inp, i)
BY DEF Repeats

\* One more stop may be one more repetition.
LEMMA RepeatsAppend ==
  ASSUME NEW S, NEW st \in Seq(S), NEW x \in S, NEW inp, NEW i
  PROVE  Cardinality(Repeats(Append(st, x), inp, i)) =
           Cardinality(Repeats(st, inp, i)) +
             (IF x.item > i \/ (x.item = i /\ (~x.known \/ inp[i].op = "update")) THEN 1 ELSE 0)
<1> DEFINE t == Append(st, x)
           R == Repeats(st, inp, i)
           n == Len(st) + 1
<1>1. /\ DOMAIN t = DOMAIN st \cup {n} /\ n \notin DOMAIN st
      /\ \A k \in DOMAIN st : t[k] = st[k]
      /\ t[n] = x
  BY AppendLast
<1>2. IsFiniteSet(R) /\ Cardinality(R) \in Nat
  BY RepeatsFinite
<1>3. n \notin R
  BY <1>1 DEF Repeats
<1> HIDE DEF t, n
<1>4. CASE x.item > i \/ (x.item = i /\ (~x.known \/ inp[i].op = "update"))
  <2>1. Repeats(t, inp, i) = R \cup {n}
    BY <1>1, <1>4 DEF Repeats
  <2>2. Cardinality(R \cup {n}) = Cardinality(R) + 1
    <3> HIDE DEF R
    <3> QED BY <1>2, <1>3, FS_AddElement
  <2> QED BY <1>4, <2>1, <2>2 DEF t
<1>5. CASE ~(x.item > i \/ (x.item = i /\ (~x.known \/ inp[i].op = "update")))
  <2>1. Repeats(t, inp, i) = R
    BY <1>1, <1>5 DEF Repeats
  <2> QED BY <1>2, <1>5, <2>1 DEF t
<1> QED BY <1>4, <1>5

\* The requests on their way for an item are finitely many.
LEMMA LateFinite ==
  ASSUME ClientTypes, NEW i
  PROVE  IsFiniteSet(Late(i)) /\ Cardinality(Late(i)) \in Nat
<1>1. IsFiniteSet(straying) /\ Late(i) \subseteq straying
  BY DEF ClientTypes, Late
<1>2. IsFiniteSet(Late(i))
  BY <1>1, FS_Subset
<1> QED BY <1>2, FS_CardinalityType

\* The end of an item is paid for: by the item itself if the execution goes
\* on, and otherwise by the stop if the server may have done something.
LEMMA ConcludeSpends ==
  ASSUME ClientTypes, ClientTypes', EffectsInv, run.at \in {"next"} \cup Busy,
         NEW fails \in BOOLEAN, NEW known \in BOOLEAN, NEW outcome \in Outcome, Conclude(fails, known, outcome),
         \A k \in DOMAIN input : input'[k] = input[k],
         UNCHANGED effects,
         Spent(run.item) /\ known /\ fails => input'[run.item].op = "update",
         straying' = straying \/ (straying' = straying \cup {[item |-> run.item, run |-> run.number]} /\ ~Spent(run.item) /\ ~known)
  PROVE  EffectsInv'
<1> USE ClientBounds
<1>0. ClientTypeOK /\ run.item \in Nat /\ effects \in [1..MaxItems -> Nat] /\ stops \in Seq([item : 1..MaxItems, known : BOOLEAN])
  <2>1. ClientTypeOK
    BY DEF ClientTypes
  <2>2. run.item \in Nat
    BY <2>1 DEF ClientTypeOK
  <2> QED BY <2>1, <2>2 DEF ClientTypeOK
<1> SUFFICES ASSUME NEW i \in 1..MaxItems
             PROVE  effects'[i] + Cardinality(Late(i)') <= Cardinality(Repeats(stops', input', i)) + (IF Spent(i)' THEN 1 ELSE 0)
  BY DEF EffectsInv
<1>1. PICK e, l, r \in Nat : e = effects[i] /\ l = Cardinality(Late(i)) /\ r = Cardinality(Repeats(stops, input, i))
  BY <1>0, LateFinite, RepeatsFinite
<1>2. e + l <= r + (IF Spent(i) THEN 1 ELSE 0) /\ effects'[i] = e
  BY <1>1 DEF EffectsInv
<1>3. Cardinality(Repeats(stops, input', i)) = r
  <2>1. \A n \in DOMAIN stops : stops[n].item \in DOMAIN input
    BY DEF ClientTypes
  <2>2. Repeats(stops, input', i) = Repeats(stops, input, i)
    BY <2>1, RepeatsOfMore
  <2> QED BY <1>1, <2>2
<1>4. PICK d \in {0, 1} : Cardinality(Late(i)') = l + d /\ (d = 1 => i = run.item /\ ~Spent(run.item) /\ ~known)
  <2>1. CASE Late(i)' = Late(i)
    BY <1>1, <2>1
  <2>2. CASE Late(i)' # Late(i)
    <3>1. PICK s : s = [item |-> run.item, run |-> run.number] /\ straying' = straying \cup {s}
      BY <2>2 DEF Late
    <3>2. s.item = i /\ s \notin Late(i) /\ Late(i)' = Late(i) \cup {s}
      BY <2>2, <3>1 DEF Late
    <3>3. Cardinality(Late(i) \cup {s}) = l + 1
      BY <1>1, <3>2, LateFinite, FS_AddElement
    <3>4. straying' # straying /\ i = run.item
      BY <2>2, <3>1, <3>2 DEF Late
    <3> QED BY <3>2, <3>3, <3>4
  <2> QED BY <2>1, <2>2
<1>5. /\ run'.at \in {"idle", "next", "done"}
      /\ ((fails /\ Stopped(known)) \/ WentOn(fails, known, outcome))
  BY ConcludeDoes
<1>6. Spent(i) => i <= run.item
  BY <1>0 DEF Spent
<1>7. CASE fails /\ Stopped(known)
  <2>1. PICK x : x = [item |-> run.item, known |-> known]
    OBVIOUS
  <2>2. run'.at = "idle" /\ stops' = Append(stops, x)
    BY <1>7, <2>1 DEF Stopped
  <2>3. x \in [item : 1..MaxItems, known : BOOLEAN] /\ x.item = run.item /\ x.known = known
    <3>1. run.item \in 1..MaxItems
      BY <1>0 DEF ClientTypes, ClientTypeOK
    <3> QED BY <2>1, <3>1
  <2>4. PICK c \in {0, 1} : /\ Cardinality(Repeats(stops', input', i)) = r + c
                            /\ (run.item > i \/ (run.item = i /\ (~known \/ input'[i].op = "update"))) => c = 1
    <3>1. Cardinality(Repeats(Append(stops, x), input', i)) =
            Cardinality(Repeats(stops, input', i)) +
             (IF x.item > i \/ (x.item = i /\ (~x.known \/ input'[i].op = "update")) THEN 1 ELSE 0)
      <4>1. PICK S, inp, st : S = [item : 1..MaxItems, known : BOOLEAN] /\ inp = input' /\ st = stops
        OBVIOUS
      <4>2. st \in Seq(S) /\ x \in S
        BY <1>0, <2>3, <4>1
      <4>3. Cardinality(Repeats(Append(st, x), inp, i)) =
              Cardinality(Repeats(st, inp, i)) +
               (IF x.item > i \/ (x.item = i /\ (~x.known \/ inp[i].op = "update")) THEN 1 ELSE 0)
        BY <4>2, RepeatsAppend
      <4> QED BY <4>1, <4>3
    <3>2. PICK c : c = IF x.item > i \/ (x.item = i /\ (~x.known \/ input'[i].op = "update")) THEN 1 ELSE 0
      OBVIOUS
    <3>3. c \in {0, 1} /\ Cardinality(Repeats(stops', input', i)) = r + c
      BY <1>3, <2>2, <3>1, <3>2
    <3>4. (run.item > i \/ (run.item = i /\ (~known \/ input'[i].op = "update"))) => c = 1
      BY <2>3, <3>2
    <3> QED BY <3>3, <3>4
  <2>5. Spent(i) => c = 1
    <3>1. CASE i < run.item
      BY <1>0, <2>4, <3>1
    <3>2. CASE i = run.item
      BY <1>7, <2>4, <3>2
    <3> QED BY <1>0, <1>6, <3>1, <3>2
  <2>6. d = 1 => c = 1 /\ ~Spent(i)
    BY <1>4, <2>4
  <2>7. ~Spent(i)'
    BY <2>2 DEF Spent
  <2>8. e + (l + d) <= r + c
    <3>1. CASE Spent(i)
      BY <1>1, <1>2, <1>4, <2>4, <2>5, <2>6, <3>1
    <3>2. CASE ~Spent(i)
      BY <1>1, <1>2, <1>4, <2>4, <2>6, <3>2
    <3> QED BY <3>1, <3>2
  <2> QED BY <1>1, <1>2, <1>4, <2>4, <2>7, <2>8
<1>8. CASE WentOn(fails, known, outcome)
  <2>1. run'.at # "idle" /\ run'.item = run.item + 1 /\ stops' = stops
    BY <1>8 DEF WentOn
  <2>2. i <= run.item => Spent(i)'
    BY <1>0, <2>1 DEF Spent
  <2>3. d = 1 => Spent(i)' /\ ~Spent(i)
    BY <1>0, <1>4, <2>2
  <2>4. PICK b : b = IF Spent(i)' THEN 1 ELSE 0
    OBVIOUS
  <2>5. e + (l + d) <= r + b
    <3>1. CASE Spent(i)
      BY <1>1, <1>2, <1>4, <1>6, <2>2, <2>3, <2>4, <3>1
    <3>2. CASE ~Spent(i)
      BY <1>1, <1>2, <1>4, <2>3, <2>4, <3>2
    <3> QED BY <3>1, <3>2
  <2> QED BY <1>1, <1>2, <1>3, <1>4, <2>1, <2>4, <2>5
<1> QED BY <1>5, <1>7, <1>8

\* Every step keeps the count.
LEMMA EffectsStep ==
  ASSUME ClientTypes, ClientTypes', OutputsInv, EffectsInv, [ClientNext]_clientVars
  PROVE  EffectsInv'
<1> USE ClientBounds
<1>0. /\ ClientTypeOK /\ "none" \in Outcome /\ run.item \in Nat /\ run.number \in Nat
      /\ effects \in [1..MaxItems -> Nat] /\ stops \in Seq([item : 1..MaxItems, known : BOOLEAN])
      /\ straying \subseteq [item : 1..MaxItems, run : 1..MaxRuns]
  <2>1. ClientTypeOK
    BY DEF ClientTypes
  <2>2. run.item \in Nat /\ run.number \in Nat
    BY <2>1 DEF ClientTypeOK
  <2> QED BY <2>1, <2>2 DEF ClientTypeOK, Outcome
<1>1. ASSUME \A k \in DOMAIN input : input'[k] = input[k], UNCHANGED <<effects, stops, straying>>,
             \A i \in 1..MaxItems : Spent(i) => Spent(i)'
      PROVE  EffectsInv'
  <2>1. ASSUME NEW i \in 1..MaxItems
        PROVE  effects'[i] + Cardinality(Late(i)') <= Cardinality(Repeats(stops', input', i)) + (IF Spent(i)' THEN 1 ELSE 0)
    <3>1. PICK e, l, r \in Nat : e = effects[i] /\ l = Cardinality(Late(i)) /\ r = Cardinality(Repeats(stops, input, i))
      BY <1>0, LateFinite, RepeatsFinite
    <3>2. e + l <= r + (IF Spent(i) THEN 1 ELSE 0)
      BY <3>1 DEF EffectsInv
    <3>3. Repeats(stops, input', i) = Repeats(stops, input, i)
      <4>1. \A n \in DOMAIN stops : stops[n].item \in DOMAIN input
        BY DEF ClientTypes
      <4> QED BY <1>1, <4>1, RepeatsOfMore
    <3>4. Late(i)' = Late(i)
      BY <1>1 DEF Late
    <3>5. e + l <= r + (IF Spent(i)' THEN 1 ELSE 0)
      BY <1>1, <3>1, <3>2
    <3> QED BY <1>1, <3>1, <3>3, <3>4, <3>5
  <2> QED BY <2>1 DEF EffectsInv
<1>2. ASSUME NEW goesOn \in BOOLEAN, Execute(goesOn) PROVE EffectsInv'
  <2>1. run.at = "idle" /\ UNCHANGED <<input, effects, stops, straying>>
    BY <1>2 DEF Execute
  <2> QED BY <1>1, <2>1 DEF Spent
<1>3. ASSUME NEW known \in BOOLEAN, Conclude(TRUE, known, "none"), run.at \in {"resolving", "sent"}, UNCHANGED <<input, effects>>,
             straying' = straying \/ (straying' = straying \cup {[item |-> run.item, run |-> run.number]} /\ ~known)
      PROVE  EffectsInv'
  <2>1. ~Spent(run.item)
    BY <1>0, <1>3 DEF Spent
  <2> QED BY <1>0, <1>3, <2>1, ConcludeSpends DEF Busy
<1>4. CASE TakeItem
  <2>1. PICK item \in IF run.item \in DOMAIN input THEN {input[run.item]} ELSE Inputs :
          /\ input' = IF run.item \in DOMAIN input THEN input ELSE Append(input, item)
          /\ IF MissesFile(item) \/ \E f \in Fields : Body(item)[f] = Refused
             THEN Conclude(TRUE, TRUE, "none")
             ELSE /\ resolved' = Body(item) /\ run' = [run EXCEPT !.at = "resolving"]
                  /\ UNCHANGED <<outputs, stops>>
    BY <1>4 DEF TakeItem
  <2>2. run.at = "next" /\ UNCHANGED <<effects, straying>>
    BY <1>4 DEF TakeItem
  <2>3. \A k \in DOMAIN input : input'[k] = input[k]
    <3>1. CASE run.item \in DOMAIN input
      BY <2>1, <3>1
    <3>2. CASE run.item \notin DOMAIN input
      <4>1. input \in Seq(Inputs) /\ item \in Inputs /\ input' = Append(input, item)
        BY <1>0, <2>1, <3>2 DEF ClientTypeOK
      <4> QED BY <4>1, AppendLast
    <3> QED BY <3>1, <3>2
  <2>4. ~Spent(run.item)
    BY <1>0, <2>2 DEF Spent
  <2>5. CASE Conclude(TRUE, TRUE, "none")
    BY <1>0, <2>2, <2>3, <2>4, <2>5, ConcludeSpends
  <2>6. CASE run' = [run EXCEPT !.at = "resolving"] /\ UNCHANGED stops
    <3>1. run'.item = run.item /\ run'.at = "resolving"
      BY <1>0, <2>6 DEF ClientTypeOK
    <3>2. \A i \in 1..MaxItems : Spent(i) => Spent(i)'
      BY <2>2, <3>1 DEF Spent
    <3> QED BY <1>1, <2>2, <2>3, <2>6, <3>2
  <2> QED BY <2>1, <2>5, <2>6
<1>5. ASSUME UNCHANGED <<input, run, effects, stops, straying>> PROVE EffectsInv'
  BY <1>1, <1>5 DEF Spent
<1>6. ASSUME NEW f \in Fields, Resolve(f) PROVE EffectsInv'
  <2>1. run.at = "resolving" /\ UNCHANGED <<input, effects, straying>>
        /\ (UNCHANGED <<run, outputs, stops>> \/ Conclude(TRUE, TRUE, "none"))
    BY <1>6 DEF Resolve
  <2> QED BY <1>3, <1>5, <2>1
<1>7. ASSUME NEW f \in Fields, MissLookup(f) PROVE EffectsInv'
  BY <1>3, <1>7 DEF MissLookup
<1>8. CASE Send
  <2>1. run'.item = run.item /\ run'.at = "sent" /\ run.at = "resolving" /\ UNCHANGED <<input, effects, stops, straying>>
    BY <1>0, <1>8 DEF Send, ClientTypeOK
  <2> QED BY <1>1, <2>1 DEF Spent
<1>9. ASSUME NEW outcome \in Outcome, NEW fails \in BOOLEAN, Serve(outcome, fails) PROVE EffectsInv'
  <2>1. /\ run.at = "sent" /\ run' = [run EXCEPT !.at = "answered", !.outcome = outcome, !.fails = fails]
        /\ UNCHANGED <<input, stops, straying>>
        /\ IF outcome = "none" THEN UNCHANGED effects ELSE Change(run.item)
    BY <1>9 DEF Serve
  <2>2. run'.item = run.item /\ run'.at = "answered" /\ run'.outcome = outcome
    BY <1>0, <2>1 DEF ClientTypeOK
  <2>3. \A i \in 1..MaxItems : Spent(i) => Spent(i)'
    BY <1>0, <2>1, <2>2 DEF Spent
  <2>4. CASE outcome = "none"
    BY <1>1, <2>1, <2>3, <2>4
  <2>5. CASE outcome # "none"
    <3>1. effects' = [effects EXCEPT ![run.item] = @ + 1]
      BY <2>1, <2>5 DEF Change
    <3>2. ~Spent(run.item) /\ Spent(run.item)'
      BY <1>0, <2>1, <2>2, <2>5 DEF Spent
    <3>3. ASSUME NEW i \in 1..MaxItems
          PROVE  effects'[i] + Cardinality(Late(i)') <= Cardinality(Repeats(stops', input', i)) + (IF Spent(i)' THEN 1 ELSE 0)
      <4>1. PICK e, l, r \in Nat : e = effects[i] /\ l = Cardinality(Late(i)) /\ r = Cardinality(Repeats(stops, input, i))
        BY <1>0, LateFinite, RepeatsFinite
      <4>2. e + l <= r + (IF Spent(i) THEN 1 ELSE 0)
        BY <4>1 DEF EffectsInv
      <4>3. Late(i)' = Late(i) /\ Repeats(stops', input', i) = Repeats(stops, input, i)
        BY <2>1 DEF Late
      <4>4. CASE i = run.item
        <5>0. effects'[i] = e + 1
          BY <1>0, <3>1, <4>1, <4>4
        <5>1. effects'[i] = e + 1 /\ ~Spent(i) /\ Spent(i)'
          <6>1. run'.item = i
            BY <2>2, <4>4
          <6>2. ~Spent(i)
            BY <1>0, <2>1, <4>4 DEF Spent
          <6>3. Spent(i)'
            BY <2>2, <2>5, <6>1 DEF Spent
          <6> QED BY <5>0, <6>2, <6>3
        <5>2. (e + 1) + l <= r + 1
          BY <4>1, <4>2, <5>1
        <5> QED BY <4>1, <4>3, <5>1, <5>2
      <4>5. CASE i # run.item
        <5>1. effects'[i] = e
          BY <1>0, <3>1, <4>1, <4>5
        <5>2. e + l <= r + (IF Spent(i)' THEN 1 ELSE 0)
          BY <2>3, <4>1, <4>2
        <5> QED BY <4>1, <4>3, <5>1, <5>2
      <4> QED BY <4>4, <4>5
    <3> QED BY <3>3 DEF EffectsInv
  <2> QED BY <2>4, <2>5
<1>10. CASE Answer
  <2>1. run.at = "answered" /\ Conclude(run.fails, TRUE, run.outcome) /\ UNCHANGED <<input, effects, straying>>
    BY <1>10 DEF Answer
  <2>2. run.fails \in BOOLEAN /\ run.outcome \in Outcome /\ run.at \in {"next"} \cup Busy
    BY <1>0, <2>1 DEF ClientTypeOK, Busy
  <2>3. Spent(run.item) /\ TRUE /\ run.fails => input'[run.item].op = "update"
    BY <1>0, <2>1 DEF OutputsInv, Spent
  <2> QED BY <2>1, <2>2, <2>3, ConcludeSpends
<1>11. CASE LoseAnswer
  <2>1. run.at = "answered" /\ Conclude(TRUE, FALSE, run.outcome) /\ UNCHANGED <<input, effects, straying>>
    BY <1>11 DEF LoseAnswer
  <2>2. run.outcome \in Outcome /\ run.at \in {"next"} \cup Busy
    BY <1>0, <2>1 DEF ClientTypeOK, Busy
  <2> QED BY <2>1, <2>2, ConcludeSpends
<1>12. CASE GiveUp
  <2>1. /\ run.at = "sent" /\ Conclude(TRUE, FALSE, "none") /\ UNCHANGED <<input, effects>>
        /\ straying' = straying \/ straying' = straying \cup {[item |-> run.item, run |-> run.number]}
    BY <1>12 DEF GiveUp
  <2> QED BY <1>3, <2>1
<1>13. ASSUME NEW s \in straying, ServeLate(s) PROVE EffectsInv'
  <2>1. /\ straying' = straying \ {s} /\ UNCHANGED <<input, run, stops>>
        /\ effects' = [effects EXCEPT ![s.item] = @ + 1]
    BY <1>13 DEF ServeLate, Change
  <2>2. ASSUME NEW i \in 1..MaxItems
        PROVE  effects'[i] + Cardinality(Late(i)') <= Cardinality(Repeats(stops', input', i)) + (IF Spent(i)' THEN 1 ELSE 0)
    <3>1. PICK e, l, r \in Nat : e = effects[i] /\ l = Cardinality(Late(i)) /\ r = Cardinality(Repeats(stops, input, i))
      BY <1>0, LateFinite, RepeatsFinite
    <3>2. e + l <= r + (IF Spent(i) THEN 1 ELSE 0)
      BY <3>1 DEF EffectsInv
    <3>3. (Spent(i)' <=> Spent(i)) /\ Repeats(stops', input', i) = Repeats(stops, input, i)
      BY <2>1 DEF Spent
    <3>4. CASE i = s.item
      <4>1. effects'[i] = e + 1
        BY <1>0, <2>1, <3>1, <3>4
      <4>2. s \in Late(i) /\ Late(i)' = Late(i) \ {s}
        BY <2>1, <3>4 DEF Late
      <4>3. IsFiniteSet(Late(i))
        BY LateFinite
      <4>4. Cardinality(Late(i) \ {s}) = l - 1
        BY <3>1, <4>2, <4>3, FS_RemoveElement
      <4>5. (e + 1) + (l - 1) <= r + (IF Spent(i) THEN 1 ELSE 0)
        BY <3>1, <3>2
      <4> QED BY <3>1, <3>3, <4>1, <4>2, <4>4, <4>5
    <3>5. CASE i # s.item
      <4>1. effects'[i] = e /\ Late(i)' = Late(i)
        BY <1>0, <2>1, <3>1, <3>5 DEF Late
      <4> QED BY <3>1, <3>2, <3>3, <4>1
    <3> QED BY <3>4, <3>5
  <2> QED BY <2>2 DEF EffectsInv
<1>14. ASSUME NEW f \in Fields, NEW i \in Ids, NEW name \in Names \cup {Deleted}, Rename(f, i, name) PROVE EffectsInv'
  BY <1>5, <1>14 DEF Rename
<1>15. CASE UNCHANGED clientVars
  BY <1>5, <1>15 DEF clientVars
<1> QED
  BY <1>2, <1>4, <1>6, <1>7, <1>8, <1>9, <1>10, <1>11, <1>12, <1>13, <1>14, <1>15 DEF ClientNext

\* The states an execution starts from.
LEMMA ClientStart == ASSUME ClientInit PROVE ClientTypes /\ OutputsInv /\ EffectsInv /\ IdsAreOfTheNames
<1> USE ClientBounds
<1>1. /\ directory \in [Fields -> [Ids -> Names]]
      /\ renamed = {} /\ renames = 0 /\ losses = 0 /\ input = <<>>
      /\ run = [number |-> 0, goesOn |-> FALSE, item |-> 1, at |-> "idle", outcome |-> "none", fails |-> FALSE]
      /\ resolved = Blank /\ outputs = <<>> /\ effects = [i \in 1..MaxItems |-> 0] /\ now = {}
      /\ stops = <<>> /\ straying = {}
  BY DEF ClientInit
<1>2. directory \in [Fields -> [Ids -> Names \cup {Deleted}]]
  BY <1>1
<1>3. Blank \in [Fields -> Resolution]
  BY DEF Blank, Resolution
<1>4. run \in [number : 0..MaxRuns, goesOn : BOOLEAN, item : 1..(MaxItems + 1),
               at : {"idle", "next", "resolving", "sent", "answered", "done"},
               outcome : Outcome, fails : BOOLEAN]
  BY <1>1 DEF Outcome
<1>5. input \in Seq(Inputs) /\ Len(input) = 0 /\ outputs \in Seq([error : BOOLEAN, known : BOOLEAN, outcome : Outcome])
      /\ Len(outputs) = 0 /\ stops \in Seq([item : 1..MaxItems, known : BOOLEAN])
  BY <1>1
<1>6. ClientTypeOK
  BY <1>1, <1>2, <1>3, <1>4, <1>5 DEF ClientTypeOK
<1>7. ClientTypes
  BY <1>1, <1>5, <1>6, FS_EmptySet DEF ClientTypes, Busy
<1>8. OutputsInv /\ IdsAreOfTheNames
  BY <1>1 DEF OutputsInv, IdsAreOfTheNames
<1>9. ASSUME NEW i \in 1..MaxItems PROVE effects[i] + Cardinality(Late(i)) <= Cardinality(Repeats(stops, input, i)) + (IF Spent(i) THEN 1 ELSE 0)
  <2>1. Late(i) = {} /\ Repeats(stops, input, i) = {} /\ effects[i] = 0
    BY <1>1 DEF Late, Repeats
  <2> QED BY <2>1, FS_EmptySet
<1> QED BY <1>7, <1>8, <1>9 DEF EffectsInv

\* Whatever gets lost and whoever else changes the records, an execution tells
\* what it did, to the records its items named, and repeats only what has to be.
THEOREM ExecutionsTellTheTruth == ClientSpec => []ExecutionsAreTrue
<1>1. ClientTypes /\ [ClientNext]_clientVars => ClientTypes'
  BY ClientTypesStep
<1>2. ClientTypes /\ ClientTypes' /\ OutputsInv /\ [ClientNext]_clientVars => OutputsInv'
  BY OutputsStep
<1>3. ClientTypes /\ ClientTypes' /\ OutputsInv /\ EffectsInv /\ [ClientNext]_clientVars => EffectsInv'
  BY EffectsStep
<1>4. ClientTypes /\ ClientTypes' /\ IdsAreOfTheNames /\ [ClientNext]_clientVars => IdsAreOfTheNames'
  BY IdsStep
<1>5. ASSUME ClientTypes, OutputsInv, EffectsInv PROVE OutputsTellWhatHappened /\ OnlyRetriesRepeat
  <2>1. OutputsTellWhatHappened
    BY <1>5 DEF OutputsTellWhatHappened, OutputsInv, ClientTypes
  <2>2. ASSUME NEW i \in 1..MaxItems PROVE effects[i] <= 1 + Cardinality(Repeats(stops, input, i))
    <3>1. effects \in [1..MaxItems -> Nat] /\ stops \in Seq([item : 1..MaxItems, known : BOOLEAN])
      BY <1>5 DEF ClientTypes, ClientTypeOK
    <3>2. PICK e, l, r \in Nat : e = effects[i] /\ l = Cardinality(Late(i)) /\ r = Cardinality(Repeats(stops, input, i))
      BY <1>5, <3>1, LateFinite, RepeatsFinite
    <3>3. e + l <= r + (IF Spent(i) THEN 1 ELSE 0)
      BY <1>5, <3>2 DEF EffectsInv
    <3>4. e <= 1 + r
      BY <3>2, <3>3
    <3> QED BY <3>2, <3>4
  <2> QED BY <2>1, <2>2 DEF OnlyRetriesRepeat, Repeats
<1> QED BY <1>1, <1>2, <1>3, <1>4, <1>5, ClientStart, PTL DEF ClientSpec, ExecutionsAreTrue

-----------------------------------------------------------------------------
(* All of them together, as one run checks them.                           *)

\* A step of the run is a step of each program, or leaves that one as it is.
LEMMA ClientsSteps ==
  ASSUME [ClientsNext]_clientsVars
  PROVE  [Next]_vars /\ [PagesNext]_pagesVars /\ [EditorNext]_editorVars /\ [ClientNext]_clientVars
<1>1. CASE ClientsNext
  BY <1>1 DEF ClientsNext
<1>2. CASE UNCHANGED clientsVars
  BY <1>2 DEF clientsVars
<1> QED BY <1>1, <1>2

\* Whichever program takes the steps, each of them behaves as it does alone:
\* what is proved of a program is true in the run.
THEOREM ClientsCompose == ClientsSpec => Spec /\ PagesSpec /\ EditorSpec /\ ClientSpec
<1>1. ClientsInit => Init /\ PagesInit /\ EditorInit /\ ClientInit
  BY DEF ClientsInit
<1> QED BY <1>1, ClientsSteps, PTL DEF ClientsSpec, Spec, PagesSpec, EditorSpec, ClientSpec

\* Every value that the poll trigger, a board page, the editor and an action
\* node ever hold has the shape that the code gives it: the watermark and the
\* list it comes from, with one version of each issue; requests, reads and
\* moves; texts, previews and suggestions; executions and their answers.
THEOREM ClientsTyped == ClientsSpec => []ClientsTypeOK
<1> DEFINE Inv == TypeOK /\ PagesTypes /\ EditorInv /\ ClientTypes
<1>1. ClientsInit => Inv
  BY PollStart, PagesStart, EditorStart, ClientStart DEF ClientsInit
<1>2. Inv /\ [ClientsNext]_clientsVars => Inv'
  BY ClientsSteps, PollTypesStep, PagesTypesStep, EditorStep, ClientTypesStep
<1>3. Inv => ClientsTypeOK
  BY DEF ClientsTypeOK, PagesTypes, EditorInv, ClientTypes
<1> QED BY <1>1, <1>2, <1>3, PTL DEF ClientsSpec
=============================================================================
