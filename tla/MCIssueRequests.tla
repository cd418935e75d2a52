-------------------------- MODULE MCIssueRequests --------------------------
(* Instances of IssueRequests for TLC. *)
EXTENDS IssueRequests, TLC

\* Workers differ in nothing but their names.
WorkerSymmetry == Permutations(Workers)
=============================================================================
