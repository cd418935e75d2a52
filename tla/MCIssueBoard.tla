---------------------------- MODULE MCIssueBoard ----------------------------
(* Instances of IssueBoard for TLC. *)
EXTENDS IssueBoard, TLC

\* No handler compares priorities: they only tell bands apart.
PrioritySymmetry == Permutations(Priorities)
=============================================================================
