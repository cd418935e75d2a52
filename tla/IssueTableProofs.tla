-------------------------- MODULE IssueTableProofs --------------------------
(***************************************************************************)
(* Lemmas about the queries and the renumbering helpers of IssueTable, for *)
(* tables of any size: which ranks and positions they give.                *)
(***************************************************************************)
EXTENDS IssueTable, FiniteSetTheorems, TLAPS

\* A rank among finitely many issues is a number of them (_normalize_band's
\* and _insert_into_band's enumerate).
LEMMA RankWithin ==
  ASSUME NEW t, NEW n \in Nat, DOMAIN t \subseteq 1..n, \A j \in DOMAIN t : t[j].pos \in Int,
         NEW S \in SUBSET DOMAIN t, NEW i \in DOMAIN t
  PROVE  /\ IsFiniteSet(S)
         /\ Cardinality(S) \in 0..n
         /\ Rank(t, S, i) \in 0..Cardinality(S)
         /\ i \in S => Rank(t, S, i) + 1 <= Cardinality(S)
<1> DEFINE P == {j \in S : Precedes(t, j, i)}
<1>1. IsFiniteSet(1..n) /\ Cardinality(1..n) = n
  BY FS_Interval
<1>2. S \in SUBSET (1..n)
  OBVIOUS
<1>3. IsFiniteSet(S) /\ Cardinality(S) \in 0..n
  BY <1>1, <1>2, FS_Subset, FS_CardinalityType
<1>4. P \in SUBSET S /\ IsFiniteSet(P) /\ Cardinality(P) \in 0..Cardinality(S)
  BY <1>3, FS_Subset, FS_CardinalityType
<1>5. ASSUME i \in S PROVE Cardinality(P) + 1 <= Cardinality(S)
  <2>1. i \notin P
    BY DEF Precedes
  <2>2. IsFiniteSet(P \cup {i}) /\ Cardinality(P \cup {i}) = Cardinality(P) + 1
    BY <1>4, <2>1, FS_AddElement
  <2>3. P \cup {i} \in SUBSET S
    BY <1>5
  <2>4. QED BY <1>3, <2>2, <2>3, FS_Subset
<1>6. QED BY <1>3, <1>4, <1>5 DEF Rank

\* Ranks grow with the display order, ties included.
LEMMA RankGrows ==
  ASSUME NEW t, NEW n \in Nat, DOMAIN t \subseteq 1..n, \A j \in DOMAIN t : t[j].pos \in Int,
         NEW S \in SUBSET DOMAIN t, NEW i \in S, NEW j \in S, Precedes(t, i, j)
  PROVE  Rank(t, S, i) < Rank(t, S, j)
<1> DEFINE P == {h \in S : Precedes(t, h, i)}
           Q == {h \in S : Precedes(t, h, j)}
<1>1. IsFiniteSet(S)
  BY RankWithin
<1>2. \A h \in DOMAIN t : t[h].pos \in Int /\ h \in Nat
  OBVIOUS
<1>3. P \cup {i} \in SUBSET Q
  BY <1>2 DEF Precedes
<1>4. i \notin P
  BY <1>2 DEF Precedes
<1>5. P \in SUBSET S /\ IsFiniteSet(P) /\ Cardinality(P) \in Nat
  BY <1>1, FS_Subset, FS_CardinalityType
<1>6. Q \in SUBSET S /\ IsFiniteSet(Q) /\ Cardinality(Q) \in Nat
  BY <1>1, FS_Subset, FS_CardinalityType
<1>7. Cardinality(P \cup {i}) = Cardinality(P) + 1
  BY <1>4, <1>5, FS_AddElement
<1>8. Cardinality(P \cup {i}) <= Cardinality(Q)
  BY <1>3, <1>6, FS_Subset
<1>9. QED BY <1>5, <1>6, <1>7, <1>8 DEF Rank

\* A non-empty set of numbers up to n has a maximum (the Max aggregate).
LEMMA MaxExists ==
  ASSUME NEW n \in Nat, NEW S \in SUBSET (0..n), S # {}
  PROVE  Max(S) \in S /\ \A y \in S : y <= Max(S)
<1> DEFINE T == {m \in Nat : \A y \in S : y <= m}
<1>1. n \in T
  OBVIOUS
<1>2. PICK m \in T : \A k \in T : ~ (<<k, m>> \in OpToRel(<, Nat))
  BY <1>1, NatLessThanWellFounded, WFMin
<1>3. \A k \in T : ~ (k < m)
  BY <1>2 DEF OpToRel
<1>4. m \in S
  <2>1. SUFFICES ASSUME m \notin S PROVE FALSE
    OBVIOUS
  <2>2. \A y \in S : y <= m - 1
    BY <2>1
  <2>3. PICK y : y \in S
    OBVIOUS
  <2>4. m - 1 \in T
    <3>1. y \in Nat /\ y <= m - 1 /\ m \in Nat
      BY <2>2, <2>3
    <3>2. m - 1 \in Nat
      BY <3>1
    <3>3. QED BY <2>2, <3>2
  <2>5. QED BY <1>3, <2>4
<1>5. \E x \in S : \A y \in S : x >= y
  BY <1>4
<1>6. QED BY <1>5 DEF Max

\* A new issue's position comes after those in its band (save).
LEMMA NextWithin ==
  ASSUME NEW t, NEW n \in Nat, \A j \in DOMAIN t : t[j].pos \in 0..n, NEW b
  PROVE  NextPosition(t, b) \in 1..(n + 1)
<1>1. PICK P : P = {0} \cup {t[i].pos : i \in {j \in DOMAIN t : Band(t, j) = b}} OBVIOUS
<1>2. P \in SUBSET (0..n) /\ P # {} BY <1>1
<1>3. Max(P) \in 0..n BY <1>2, MaxExists
<1> QED BY <1>1, <1>3 DEF NextPosition

\* A row as the helpers read it, with a position that may be 0.
Positioned(A, B) == [state : A, priority : B, pos : Nat, archived : BOOLEAN]

\* _normalize_band gives the positions from 1 on.
LEMMA NormalizeWithin ==
  ASSUME NEW t, NEW n \in Nat, DOMAIN t \subseteq 1..n, NEW A, NEW B,
         \A j \in DOMAIN t : t[j] \in Positioned(A, B), NEW b, NEW x,
         NEW u, u = NormalizeBand(t, b, x)
  PROVE  /\ DOMAIN u = DOMAIN t
         /\ \A j \in DOMAIN t : u[j].pos # t[j].pos => u[j].pos \in 1..n
<1>1. PICK S : S = InBand(t, b) \ {x} OBVIOUS
<1>2. S \in SUBSET DOMAIN t BY <1>1 DEF InBand, Live
<1>3. u = [j \in DOMAIN t |-> IF j \in S THEN [t[j] EXCEPT !.pos = Rank(t, S, j) + 1] ELSE t[j]]
  BY <1>1 DEF NormalizeBand
<1>4. \A j \in DOMAIN t : t[j].pos \in Int BY DEF Positioned
<1>5. ASSUME NEW j \in S PROVE u[j].pos \in 1..n
  <2>1. /\ Cardinality(S) \in 0..n /\ Rank(t, S, j) \in 0..Cardinality(S)
        /\ Rank(t, S, j) + 1 <= Cardinality(S)
    BY <1>2, <1>4, RankWithin
  <2>2. PICK k : k = Rank(t, S, j) + 1 OBVIOUS
  <2>3. k \in 1..n BY <2>1, <2>2
  <2>4. u[j] = [t[j] EXCEPT !.pos = k] BY <1>2, <1>3, <2>2
  <2> QED BY <1>2, <2>3, <2>4 DEF Positioned
<1> QED BY <1>2, <1>3, <1>5

\* _insert_into_band gives no position beyond the number of rows.
LEMMA InsertWithin ==
  ASSUME NEW t, NEW n \in Nat, DOMAIN t \subseteq 1..n, NEW A, NEW B,
         \A j \in DOMAIN t : t[j] \in Positioned(A, B), NEW x \in DOMAIN t, NEW index \in Nat,
         NEW u, u = InsertIntoBand(t, x, index)
  PROVE  /\ DOMAIN u = DOMAIN t
         /\ \A j \in DOMAIN t : u[j].pos # t[j].pos => u[j].pos \in 1..n
<1>1. PICK S : S = InBand(t, Band(t, x)) \ {x} OBVIOUS
<1>2. PICK k : k = IF index < Cardinality(S) THEN index ELSE Cardinality(S) OBVIOUS
<1>3. S \in SUBSET DOMAIN t /\ S \cup {x} \in SUBSET DOMAIN t /\ x \notin S
  BY <1>1 DEF InBand, Live
<1> DEFINE Slot(i) == IF i = x THEN k + 1
                      ELSE IF Rank(t, S, i) < k THEN Rank(t, S, i) + 1 ELSE Rank(t, S, i) + 2
<1>4. u = [j \in DOMAIN t |-> IF j \in S \cup {x} THEN [t[j] EXCEPT !.pos = Slot(j)] ELSE t[j]]
  BY <1>1, <1>2 DEF InsertIntoBand
<1>5. \A j \in DOMAIN t : t[j].pos \in Int BY DEF Positioned
<1>6. IsFiniteSet(S) /\ Cardinality(S) \in Nat /\ Cardinality(S) + 1 <= n
  <2>1. IsFiniteSet(S) /\ Cardinality(S) \in 0..n /\ Cardinality(S \cup {x}) \in 0..n
    BY <1>3, <1>5, RankWithin
  <2>2. Cardinality(S \cup {x}) = Cardinality(S) + 1
    BY <1>3, <2>1, FS_AddElement
  <2> QED BY <2>1, <2>2
<1>7. k \in 0..Cardinality(S) BY <1>2, <1>6
<1>8. ASSUME NEW j \in S PROVE Rank(t, S, j) \in Nat /\ Rank(t, S, j) + 1 <= Cardinality(S)
  <2>1. /\ Rank(t, S, j) \in 0..Cardinality(S)
        /\ Rank(t, S, j) + 1 <= Cardinality(S)
    BY <1>3, <1>5, RankWithin
  <2> QED BY <1>6, <2>1
<1>9. \A j \in S \cup {x} : Slot(j) \in 1..n BY <1>6, <1>7, <1>8
<1> HIDE DEF Slot
<1>10. ASSUME NEW j \in S \cup {x} PROVE u[j].pos \in 1..n
  <2>1. PICK p : p = Slot(j) OBVIOUS
  <2>2. u[j] = [t[j] EXCEPT !.pos = p] BY <1>3, <1>4, <2>1
  <2>3. p \in 1..n BY <1>9, <2>1
  <2> QED BY <1>3, <2>2, <2>3 DEF Positioned
<1> QED BY <1>3, <1>4, <1>10

\* A table's issues are finitely many.
LEMMA SubtableFinite ==
  ASSUME NEW t, NEW n \in Nat, DOMAIN t \subseteq 1..n, NEW S \in SUBSET DOMAIN t
  PROVE  IsFiniteSet(S) /\ Cardinality(S) \in Nat /\ Cardinality(S) <= n
<1>1. IsFiniteSet(1..n) /\ Cardinality(1..n) = n
  BY FS_Interval
<1>2. S \in SUBSET (1..n)
  OBVIOUS
<1> QED BY <1>1, <1>2, FS_Subset, FS_CardinalityType

\* The ranks among some issues number them from 0 on.
LEMMA RanksFill ==
  ASSUME NEW t, NEW n \in Nat, DOMAIN t \subseteq 1..n, \A j \in DOMAIN t : t[j].pos \in Int,
         NEW S \in SUBSET DOMAIN t
  PROVE  /\ \A i, j \in S : Rank(t, S, i) = Rank(t, S, j) => i = j
         /\ \A i \in S : Rank(t, S, i) \in 0..(Cardinality(S) - 1)
         /\ \A r \in 0..(Cardinality(S) - 1) : \E i \in S : Rank(t, S, i) = r
<1> DEFINE c == Cardinality(S)
           rank == [i \in S |-> Rank(t, S, i)]
<1>1. IsFiniteSet(S) /\ c \in Nat
  BY SubtableFinite
<1>2. ASSUME NEW i \in S PROVE Rank(t, S, i) \in 0..(c - 1)
  <2>1. Rank(t, S, i) \in 0..c /\ Rank(t, S, i) + 1 <= c
    BY RankWithin
  <2> QED BY <1>1, <2>1
<1>3. ASSUME NEW i \in S, NEW j \in S, i # j PROVE Rank(t, S, i) # Rank(t, S, j)
  <2>1. Precedes(t, i, j) \/ Precedes(t, j, i)
    <3>1. t[i].pos \in Int /\ t[j].pos \in Int /\ i \in Int /\ j \in Int
      OBVIOUS
    <3> QED BY <1>3, <3>1 DEF Precedes
  <2>2. Rank(t, S, i) \in Int /\ Rank(t, S, j) \in Int
    BY <1>2
  <2>3. CASE Precedes(t, i, j)
    BY <2>2, <2>3, RankGrows
  <2>4. CASE Precedes(t, j, i)
    BY <2>2, <2>4, RankGrows
  <2> QED BY <2>1, <2>3, <2>4
<1>4. rank \in Injection(S, 0..(c - 1))
  BY <1>2, <1>3 DEF Injection, IsInjective
<1>5. IsFiniteSet(0..(c - 1)) /\ Cardinality(0..(c - 1)) = c
  BY <1>1, FS_Interval
<1>6. rank \in Surjection(S, 0..(c - 1))
  BY <1>4, <1>5, FS_Injection
<1>7. \A r \in 0..(c - 1) : \E i \in S : rank[i] = r
  BY <1>6 DEF Surjection
<1> QED BY <1>2, <1>3, <1>7

\* So k of them have a rank below k.
LEMMA RanksBelow ==
  ASSUME NEW t, NEW n \in Nat, DOMAIN t \subseteq 1..n, \A j \in DOMAIN t : t[j].pos \in Int,
         NEW S \in SUBSET DOMAIN t, NEW k \in 0..Cardinality(S)
  PROVE  Cardinality({i \in S : Rank(t, S, i) < k}) = k
<1> DEFINE c == Cardinality(S)
           B == {i \in S : Rank(t, S, i) < k}
           rank == [i \in B |-> Rank(t, S, i)]
<1>1. IsFiniteSet(S) /\ c \in Nat /\ k \in Nat /\ k <= c
  BY SubtableFinite
<1>2. /\ \A i, j \in S : Rank(t, S, i) = Rank(t, S, j) => i = j
      /\ \A i \in S : Rank(t, S, i) \in 0..(c - 1)
      /\ \A r \in 0..(c - 1) : \E i \in S : Rank(t, S, i) = r
  BY RanksFill
<1>3. IsFiniteSet(B)
  BY <1>1, FS_Subset
<1>4. rank \in Injection(B, 0..(k - 1))
  <2>1. \A i \in B : Rank(t, S, i) \in 0..(k - 1)
    BY <1>1, <1>2
  <2>2. \A i, j \in B : Rank(t, S, i) = Rank(t, S, j) => i = j
    BY <1>2
  <2> QED BY <2>1, <2>2 DEF Injection, IsInjective
<1>5. rank \in Surjection(B, 0..(k - 1))
  <2>1. ASSUME NEW r \in 0..(k - 1) PROVE \E i \in B : rank[i] = r
    <3>1. r \in 0..(c - 1) /\ r < k
      BY <1>1
    <3>2. PICK i \in S : Rank(t, S, i) = r
      BY <1>2, <3>1
    <3> QED BY <3>1, <3>2
  <2>2. rank \in [B -> 0..(k - 1)]
    BY <1>4 DEF Injection
  <2> QED BY <2>1, <2>2 DEF Surjection
<1>6. IsFiniteSet(0..(k - 1)) /\ Cardinality(0..(k - 1)) = k
  <2>1. k - 1 \in Int /\ k \in Nat
    BY <1>1
  <2>2. /\ IsFiniteSet(0..(k - 1))
        /\ Cardinality(0..(k - 1)) = IF 0 > k - 1 THEN 0 ELSE (k - 1) - 0 + 1
    BY <2>1, FS_Interval
  <2> QED BY <2>1, <2>2
<1> QED BY <1>4, <1>5, <1>6, FS_Injection
=============================================================================
