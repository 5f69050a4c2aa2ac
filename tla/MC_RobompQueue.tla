--------------------------- MODULE MC_RobompQueue ---------------------------
EXTENDS RobompQueue
CONSTANTS e1, e2, e3, k1, k2
MCIssueOf == [e \in Events |-> IF e = e3 THEN k2 ELSE k1]
=============================================================================
