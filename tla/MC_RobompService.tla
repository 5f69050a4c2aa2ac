-------------------------- MODULE MC_RobompService --------------------------
EXTENDS RobompService
CONSTANTS e1, e2, k1
MCIssueOf == [e \in Events |-> k1]
MCKindOf == [e \in Events |-> IF e = e1 THEN "comment" ELSE "closed"]
=============================================================================
