----------------------------- MODULE BoardOrder -----------------------------
(***************************************************************************)
(* What the kanban board promises its viewers, with no numbers in it: every *)
(* displayed issue lies in one band (a workflow state and a priority), the *)
(* issues of a band are totally ordered, and one request puts at most one  *)
(* issue somewhere else.  IssueBoard implements this promise with integer  *)
(* board positions that its handlers renumber.                             *)
(***************************************************************************)
EXTENDS Naturals, FiniteSets

CONSTANTS
  Issues,   \* identities an issue may have
  Bands     \* places of the board that hold an ordered list of issues

VARIABLES
  column,   \* the band of each displayed issue
  above     \* pairs <<i, j>> of issues of one band, i displayed above j

vars == <<column, above>>

Displayed == DOMAIN column

Peers(b, i) == {j \in Displayed \ {i} : column[j] = b}

\* The order between the issues other than i.
Without(i) == {p \in above : p[1] # i /\ p[2] # i}

\* How many issues of S are displayed above j.
Index(j, S) == Cardinality({h \in S : <<h, j>> \in above})

Init == column = << >> /\ above = {}

\* A new issue is displayed below every issue of its band.
Append(i, b) ==
  /\ i \notin Displayed
  /\ column' = [j \in Displayed \cup {i} |-> IF j = i THEN b ELSE column[j]]
  /\ above' = above \cup (Peers(b, i) \X {i})

\* Issue i is displayed in band b below the first k of the others.
Place(i, b, k) ==
  LET head == {j \in Peers(b, i) : Index(j, Peers(b, i)) < k}
  IN /\ i \in Displayed
     /\ column' = [column EXCEPT ![i] = b]
     /\ above' = Without(i) \cup (head \X {i}) \cup ({i} \X (Peers(b, i) \ head))

\* Issue i leaves the board, archived or deleted.
Remove(i) ==
  /\ i \in Displayed
  /\ column' = [j \in Displayed \ {i} |-> column[j]]
  /\ above' = Without(i)

Next ==
  \E i \in Issues :
    \/ \E b \in Bands : Append(i, b) \/ \E k \in 0..Cardinality(Displayed) : Place(i, b, k)
    \/ Remove(i)

Spec == Init /\ [][Next]_vars

\* The issues of a band are strictly and totally ordered, and issues of
\* different bands are not: viewers see one list per band (_sort_issues,
\* _build_board_column), whatever is appended, placed and removed.
BandsAreOrdered ==
  /\ \A p \in above : column[p[1]] = column[p[2]] /\ <<p[2], p[1]>> \notin above
  /\ \A i, j \in Displayed :
       i # j /\ column[i] = column[j] => <<i, j>> \in above \/ <<j, i>> \in above
  /\ \A p, q \in above : p[2] = q[1] => <<p[1], q[2]>> \in above
=============================================================================
