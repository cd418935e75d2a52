-------------------------- MODULE BoardOrderProofs --------------------------
(***************************************************************************)
(* The bands of the abstract board are ordered at all times, for every set *)
(* of issues and bands.  BandsAreOrdered needs to know that only displayed *)
(* issues are ordered, and Place, which counts, that they are finitely     *)
(* many.                                                                   *)
(***************************************************************************)
EXTENDS BoardOrder, FiniteSetTheorems, TLAPS

OrderInv ==
  /\ column = [j \in Displayed |-> column[j]]
  /\ IsFiniteSet(Displayed)
  /\ above \subseteq Displayed \X Displayed
  /\ BandsAreOrdered

\* The issues among which issue i is placed: no issue of head comes after one
\* of the rest, whatever number k cuts them.
LEMMA HeadIsAbove ==
  ASSUME OrderInv, NEW b, NEW i, NEW k \in Nat,
         NEW h \in Peers(b, i), Index(h, Peers(b, i)) < k,
         NEW t \in Peers(b, i), ~(Index(t, Peers(b, i)) < k)
  PROVE  <<h, t>> \in above
<1> DEFINE Above(j) == {g \in Peers(b, i) : <<g, j>> \in above}
<1>1. IsFiniteSet(Peers(b, i))
  BY FS_Subset DEF OrderInv, Peers
<1>2. IsFiniteSet(Above(h)) /\ Cardinality(Above(h)) \in Nat
  BY <1>1, FS_Subset, FS_CardinalityType
<1>3. SUFFICES ASSUME <<t, h>> \in above PROVE FALSE
  <2>1. h # t
    OBVIOUS
  <2>2. h \in Displayed /\ t \in Displayed /\ column[h] = column[t]
    BY DEF Peers
  <2> QED
    BY <1>3, <2>1, <2>2 DEF OrderInv, BandsAreOrdered
<1>4. Above(t) \subseteq Above(h)
  <2> SUFFICES ASSUME NEW g \in Above(t) PROVE g \in Above(h)
    OBVIOUS
  <2>1. <<g, t>> \in above
    OBVIOUS
  <2>2. <<g, h>> \in above
    BY <1>3, <2>1 DEF OrderInv, BandsAreOrdered
  <2> QED
    BY <2>2
<1>5. Cardinality(Above(t)) <= Cardinality(Above(h)) /\ Cardinality(Above(t)) \in Nat
  BY <1>2, <1>4, FS_Subset, FS_CardinalityType
<1>6. Index(h, Peers(b, i)) = Cardinality(Above(h)) /\ Index(t, Peers(b, i)) = Cardinality(Above(t))
  BY DEF Index
<1> HIDE DEF Above
<1> QED
  BY <1>2, <1>5, <1>6

\* A new issue keeps the bands ordered.
LEMMA AppendKeepsOrder ==
  ASSUME OrderInv, NEW i, NEW b, Append(i, b) PROVE OrderInv'
<1>1. Displayed' = Displayed \cup {i} /\ i \notin Displayed
  BY DEF Append, Displayed
<1>2. column' = [j \in Displayed' |-> column'[j]]
  BY DEF Append, Displayed
<1>3. IsFiniteSet(Displayed')
  BY <1>1, FS_AddElement DEF OrderInv
<1>4. column'[i] = b /\ \A j \in Displayed : column'[j] = column[j]
  BY DEF Append
<1>5. /\ above' = above \cup (Peers(b, i) \X {i})
      /\ \A j \in Peers(b, i) : j \in Displayed /\ column[j] = b
  BY DEF Append, Peers
<1>6. above' \subseteq Displayed' \X Displayed'
  BY <1>1, <1>5 DEF OrderInv
<1>7. BandsAreOrdered'
  <2>1. ASSUME NEW p \in above' PROVE column'[p[1]] = column'[p[2]] /\ <<p[2], p[1]>> \notin above'
    BY <1>1, <1>4, <1>5, <2>1 DEF OrderInv, BandsAreOrdered
  <2>2. ASSUME NEW g \in Displayed', NEW j \in Displayed', g # j, column'[g] = column'[j]
        PROVE  <<g, j>> \in above' \/ <<j, g>> \in above'
    <3>1. CASE g # i /\ j # i
      BY <1>1, <1>4, <1>5, <2>2, <3>1 DEF OrderInv, BandsAreOrdered
    <3>2. CASE g = i \/ j = i
      BY <1>1, <1>4, <1>5, <2>2, <3>2 DEF Peers
    <3> QED
      BY <3>1, <3>2
  <2>3. ASSUME NEW p \in above', NEW q \in above', p[2] = q[1] PROVE <<p[1], q[2]>> \in above'
    <3>1. p \in above
      BY <1>1, <1>5, <2>3 DEF OrderInv
    <3>2. CASE q \in above
      BY <1>5, <2>3, <3>1, <3>2 DEF OrderInv, BandsAreOrdered
    <3>3. CASE q \in Peers(b, i) \X {i}
      <4>1. p[1] \in Displayed /\ column[p[1]] = b
        BY <1>5, <2>3, <3>1, <3>3 DEF OrderInv, BandsAreOrdered
      <4>2. p[1] \in Peers(b, i)
        BY <1>1, <4>1 DEF Peers
      <4> QED
        BY <1>5, <3>3, <4>2
    <3> QED
      BY <1>5, <3>2, <3>3
  <2> QED
    BY <2>1, <2>2, <2>3 DEF BandsAreOrdered
<1> QED
  BY <1>2, <1>3, <1>6, <1>7 DEF OrderInv

\* So does one that is placed elsewhere.
LEMMA PlaceKeepsOrder ==
  ASSUME OrderInv, NEW i, NEW b, NEW k \in Nat, Place(i, b, k) PROVE OrderInv'
<1> DEFINE P == Peers(b, i)
           head == {j \in P : Index(j, P) < k}
<1>1. Displayed' = Displayed /\ i \in Displayed
  BY DEF Place, Displayed, OrderInv
<1>2. column' = [j \in Displayed' |-> column'[j]]
  BY DEF Place, Displayed, OrderInv
<1>3. column'[i] = b /\ \A j \in Displayed \ {i} : column'[j] = column[j]
  BY DEF Place, Displayed, OrderInv
<1>4. above' = Without(i) \cup (head \X {i}) \cup ({i} \X (P \ head))
  BY DEF Place
<1>5. \A j \in P : j \in Displayed \ {i} /\ column[j] = b
  BY DEF Peers
<1>6. \A p \in Without(i) : p \in above /\ p[1] # i /\ p[2] # i
  BY DEF Without
<1>7. \A h \in head, t \in P \ head : <<h, t>> \in above
  BY HeadIsAbove
<1>8. head \subseteq P
  OBVIOUS
<1>9. \A j \in Displayed \ {i} : column[j] = b => j \in P
  BY DEF Peers
<1>10. \A p \in above : p[1] # i /\ p[2] # i => p \in Without(i)
  BY DEF Without
<1> HIDE DEF P, head
<1>11. above' \subseteq Displayed' \X Displayed'
  BY <1>1, <1>4, <1>5, <1>6, <1>8 DEF OrderInv
<1>12. \A p \in above' : \/ p \in Without(i)
                         \/ p[1] \in head /\ p[2] = i
                         \/ p[1] = i /\ p[2] \in P \ head
  BY <1>4
<1>13. /\ \A h \in head : <<h, i>> \in above'
       /\ \A t \in P \ head : <<i, t>> \in above'
       /\ \A p \in Without(i) : p \in above'
  BY <1>4
<1>14. BandsAreOrdered'
  <2>1. ASSUME NEW p \in above' PROVE column'[p[1]] = column'[p[2]] /\ <<p[2], p[1]>> \notin above'
    <3>1. CASE p \in Without(i)
      <4>1. column[p[1]] = column[p[2]] /\ <<p[2], p[1]>> \notin above /\ p[1] # i /\ p[2] # i
        BY <1>6, <3>1 DEF OrderInv, BandsAreOrdered
      <4>2. p[1] \in Displayed \ {i} /\ p[2] \in Displayed \ {i}
        BY <1>6, <3>1, <4>1 DEF OrderInv
      <4> QED
        BY <1>3, <1>4, <1>6, <4>1, <4>2
    <3>2. CASE p[1] \in head /\ p[2] = i
      <4>1. p[1] # i /\ column'[p[1]] = b
        BY <1>3, <1>5, <1>8, <3>2
      <4>2. <<p[2], p[1]>> \notin above'
        BY <1>4, <1>6, <3>2, <4>1
      <4> QED
        BY <1>3, <3>2, <4>1, <4>2
    <3>3. CASE p[1] = i /\ p[2] \in P \ head
      <4>1. p[2] # i /\ column'[p[2]] = b
        BY <1>3, <1>5, <3>3
      <4>2. <<p[2], p[1]>> \notin above'
        BY <1>4, <1>6, <3>3, <4>1
      <4> QED
        BY <1>3, <3>3, <4>1, <4>2
    <3> QED
      BY <1>12, <3>1, <3>2, <3>3
  <2>2. ASSUME NEW g \in Displayed', NEW j \in Displayed', g # j, column'[g] = column'[j]
        PROVE  <<g, j>> \in above' \/ <<j, g>> \in above'
    <3>1. CASE g # i /\ j # i
      <4>1. <<g, j>> \in above \/ <<j, g>> \in above
        BY <1>1, <1>3, <2>2, <3>1 DEF OrderInv, BandsAreOrdered
      <4> QED
        BY <1>10, <1>13, <3>1, <4>1
    <3>2. CASE g = i
      <4>1. j \in P
        BY <1>1, <1>3, <1>9, <2>2, <3>2
      <4> QED
        BY <1>13, <3>2, <4>1
    <3>3. CASE j = i
      <4>1. g \in P
        BY <1>1, <1>3, <1>9, <2>2, <3>3
      <4> QED
        BY <1>13, <3>3, <4>1
    <3> QED
      BY <3>1, <3>2, <3>3
  <2>3. ASSUME NEW p \in above', NEW q \in above', p[2] = q[1] PROVE <<p[1], q[2]>> \in above'
    <3>1. CASE p \in Without(i) /\ q \in Without(i)
      <4>1. <<p[1], q[2]>> \in above /\ p[1] # i /\ q[2] # i
        BY <1>6, <2>3, <3>1 DEF OrderInv, BandsAreOrdered
      <4> QED
        BY <1>10, <1>13, <4>1
    <3>2. CASE p \in Without(i) /\ q[1] \in head /\ q[2] = i
      <4>1. <<p[1], q[1]>> \in above /\ p[1] # i /\ p[1] \in Displayed /\ column[p[1]] = b
        BY <1>5, <1>6, <1>8, <2>3, <3>2 DEF OrderInv, BandsAreOrdered
      <4>2. p[1] \in P
        BY <1>9, <4>1
      <4>3. p[1] \in head
        <5> SUFFICES ASSUME p[1] \notin head PROVE FALSE
          OBVIOUS
        <5>1. <<q[1], p[1]>> \in above
          BY <1>7, <3>2, <4>2
        <5> QED
          BY <4>1, <5>1 DEF OrderInv, BandsAreOrdered
      <4> QED
        BY <1>13, <3>2, <4>3
    <3>3. CASE p[1] = i /\ p[2] \in P \ head /\ q \in Without(i)
      <4>1. <<q[1], q[2]>> \in above /\ q[2] # i /\ q[2] \in Displayed /\ column[q[2]] = b
        BY <1>5, <1>6, <2>3, <3>3 DEF OrderInv, BandsAreOrdered
      <4>2. q[2] \in P
        BY <1>9, <4>1
      <4>3. q[2] \notin head
        <5> SUFFICES ASSUME q[2] \in head PROVE FALSE
          OBVIOUS
        <5>1. <<q[2], q[1]>> \in above
          BY <1>7, <2>3, <3>3
        <5> QED
          BY <4>1, <5>1 DEF OrderInv, BandsAreOrdered
      <4> QED
        BY <1>13, <3>3, <4>2, <4>3
    <3>4. CASE p[1] \in head /\ p[2] = i /\ q[1] = i /\ q[2] \in P \ head
      <4>1. <<p[1], q[2]>> \in above /\ p[1] # i /\ q[2] # i
        BY <1>5, <1>7, <1>8, <3>4
      <4> QED
        BY <1>10, <1>13, <4>1
    <3>5. p[2] # i => p \in Without(i) \/ (p[1] = i /\ p[2] \in P \ head)
      BY <1>12
    <3>6. p[2] = i => p[1] \in head
      BY <1>5, <1>6, <1>12
    <3>7. q[1] = i => q[2] \in P \ head
      BY <1>5, <1>6, <1>8, <1>12
    <3>8. q[1] # i => q \in Without(i) \/ (q[1] \in head /\ q[2] = i)
      BY <1>12
    <3>9. ~(p[1] = i /\ p[2] \in P \ head /\ q[1] \in head /\ q[2] = i)
      BY <2>3
    <3> QED
      BY <2>3, <3>1, <3>2, <3>3, <3>4, <3>5, <3>6, <3>7, <3>8, <3>9
  <2> QED
    BY <2>1, <2>2, <2>3 DEF BandsAreOrdered
<1> QED
  BY <1>1, <1>2, <1>11, <1>14 DEF OrderInv

\* And one that leaves the board.
LEMMA RemoveKeepsOrder ==
  ASSUME OrderInv, NEW i, Remove(i) PROVE OrderInv'
<1>1. Displayed' = Displayed \ {i}
  BY DEF Remove, Displayed
<1>2. column' = [j \in Displayed' |-> column'[j]] /\ \A j \in Displayed' : column'[j] = column[j]
  BY DEF Remove, Displayed
<1>3. IsFiniteSet(Displayed')
  BY <1>1, FS_Subset DEF OrderInv
<1>4. above' = Without(i)
  BY DEF Remove
<1>5. above' \subseteq Displayed' \X Displayed'
  BY <1>1, <1>4 DEF OrderInv, Without
<1>6. above' \subseteq above /\ \A p \in above : p[1] # i /\ p[2] # i => p \in above'
  BY <1>4 DEF Without
<1>7. BandsAreOrdered'
  <2>1. ASSUME NEW p \in above' PROVE column'[p[1]] = column'[p[2]] /\ <<p[2], p[1]>> \notin above'
    BY <1>2, <1>5, <1>6, <2>1 DEF OrderInv, BandsAreOrdered
  <2>2. ASSUME NEW g \in Displayed', NEW j \in Displayed', g # j, column'[g] = column'[j]
        PROVE  <<g, j>> \in above' \/ <<j, g>> \in above'
    BY <1>1, <1>2, <1>6, <2>2 DEF OrderInv, BandsAreOrdered
  <2>3. ASSUME NEW p \in above', NEW q \in above', p[2] = q[1] PROVE <<p[1], q[2]>> \in above'
    <3>1. <<p[1], q[2]>> \in above
      BY <1>6, <2>3 DEF OrderInv, BandsAreOrdered
    <3>2. p[1] # i /\ q[2] # i
      BY <1>4, <2>3 DEF Without
    <3> QED
      BY <1>6, <3>1, <3>2
  <2> QED
    BY <2>1, <2>2, <2>3 DEF BandsAreOrdered
<1> QED
  BY <1>2, <1>3, <1>5, <1>7 DEF OrderInv

\* Whatever is appended, placed and removed, each band shows one list: the
\* order of _sort_issues is strict and total within a band, and relates no
\* issues of different bands.
THEOREM BoardIsOrdered == Spec => []BandsAreOrdered
<1>1. Init => OrderInv
  BY FS_EmptySet DEF Init, OrderInv, BandsAreOrdered, Displayed
<1>2. OrderInv /\ [Next]_vars => OrderInv'
  <2> SUFFICES ASSUME OrderInv, [Next]_vars PROVE OrderInv'
    OBVIOUS
  <2>1. CASE UNCHANGED vars
    BY <2>1 DEF vars, OrderInv, BandsAreOrdered, Displayed
  <2>2. CASE Next
    <3> PICK i \in Issues : \/ \E b \in Bands : Append(i, b) \/ \E k \in 0..Cardinality(Displayed) : Place(i, b, k)
                            \/ Remove(i)
      BY <2>2 DEF Next
    <3>1. CASE Remove(i)
      BY <3>1, RemoveKeepsOrder
    <3>2. CASE \E b \in Bands : Append(i, b)
      BY <3>2, AppendKeepsOrder
    <3>3. CASE \E b \in Bands, k \in 0..Cardinality(Displayed) : Place(i, b, k)
      <4> PICK b \in Bands, k \in 0..Cardinality(Displayed) : Place(i, b, k)
        BY <3>3
      <4>1. k \in Nat
        OBVIOUS
      <4> QED
        BY <4>1, PlaceKeepsOrder
    <3> QED
      BY <3>1, <3>2, <3>3
  <2> QED
    BY <2>1, <2>2
<1>3. OrderInv => BandsAreOrdered
  BY DEF OrderInv
<1> QED
  BY <1>1, <1>2, <1>3, PTL DEF Spec
=============================================================================
