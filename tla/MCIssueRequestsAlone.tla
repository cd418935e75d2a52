------------------------ MODULE MCIssueRequestsAlone ------------------------
(* Instances of IssueRequestsAlone for TLC. *)
EXTENDS IssueRequestsAlone, MCIssueRequests
=============================================================================
