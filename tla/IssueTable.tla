----------------------------- MODULE IssueTable -----------------------------
(***************************************************************************)
(* Reading and renumbering the issue table: the queries of Issue and the   *)
(* helpers of IssueController (core/models/issue.py,                       *)
(* core/controllers/issue_controller.py).  A table maps primary keys to    *)
(* rows with a state, a priority, a position pos and a flag archived.       *)
(* Creation time is represented by the primary key.                        *)
(***************************************************************************)
EXTENDS Integers, FiniteSets, FiniteSetsExt
-----------------------------------------------------------------------------
(* Reading the table.                                                      *)

Band(t, i) == <<t[i].state, t[i].priority>>

Live(t) == {i \in DOMAIN t : ~t[i].archived}

InBand(t, b) == {i \in Live(t) : Band(t, i) = b}

\* order_by("board_position", "created_at", "pk")
Precedes(t, i, j) == t[i].pos < t[j].pos \/ (t[i].pos = t[j].pos /\ i < j)

Rank(t, S, i) == Cardinality({j \in S : Precedes(t, j, i)})

\* Archived issues keep their position and count here.
NextPosition(t, b) == Max({0} \cup {t[i].pos : i \in {j \in DOMAIN t : Band(t, j) = b}}) + 1
-----------------------------------------------------------------------------
(* The renumbering helpers of IssueController.  Each maps a table to the   *)
(* table it leaves.                                                        *)

\* Mutant: the query forgets order_by("board_position").
NormalizeByCreation(t, b, x) ==
  LET S == InBand(t, b) \ {x}
  IN [i \in DOMAIN t |->
        IF i \in S THEN [t[i] EXCEPT !.pos = Cardinality({j \in S : j < i}) + 1] ELSE t[i]]

NormalizeBand(t, b, x) ==
  LET S == InBand(t, b) \ {x}
  IN [i \in DOMAIN t |-> IF i \in S THEN [t[i] EXCEPT !.pos = Rank(t, S, i) + 1] ELSE t[i]]

\* Mutant: the index is not clamped.
InsertUnclamped(t, x, index) ==
  LET S == InBand(t, Band(t, x)) \ {x}
      Slot(i) == IF i = x THEN index + 1
                 ELSE IF Rank(t, S, i) < index THEN Rank(t, S, i) + 1 ELSE Rank(t, S, i) + 2
  IN [i \in DOMAIN t |-> IF i \in S \cup {x} THEN [t[i] EXCEPT !.pos = Slot(i)] ELSE t[i]]

\* Mutant: the siblings make no room.
InsertWithoutRoom(t, x, index) ==
  LET S == InBand(t, Band(t, x)) \ {x}
      k == IF index < Cardinality(S) THEN index ELSE Cardinality(S)
  IN [i \in DOMAIN t |->
        IF i \in S \cup {x} THEN [t[i] EXCEPT !.pos = (IF i = x THEN k ELSE Rank(t, S, i)) + 1]
        ELSE t[i]]

\* The siblings from index on make room for x; the index is clamped.
InsertIntoBand(t, x, index) ==
  LET S == InBand(t, Band(t, x)) \ {x}
      k == IF index < Cardinality(S) THEN index ELSE Cardinality(S)
      Slot(i) == IF i = x THEN k + 1
                 ELSE IF Rank(t, S, i) < k THEN Rank(t, S, i) + 1 ELSE Rank(t, S, i) + 2
  IN [i \in DOMAIN t |-> IF i \in S \cup {x} THEN [t[i] EXCEPT !.pos = Slot(i)] ELSE t[i]]
=============================================================================
