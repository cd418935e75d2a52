------------------------ MODULE MCIssuePollTrigger ------------------------
(* Instances of IssuePollTrigger for TLC. *)
EXTENDS IssuePollTrigger

Orderly == [emitExisting |-> TRUE, loadDetail |-> FALSE, lateCommits |-> FALSE]

\* Records first, loads details that may fail, and meets late commits.
Adverse == [emitExisting |-> FALSE, loadDetail |-> TRUE, lateCommits |-> TRUE]

OrderlyAndAdverse == {Orderly, Adverse}
OrderlyOnly == {Orderly}
=============================================================================
