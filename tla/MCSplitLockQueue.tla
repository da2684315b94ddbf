--------------------------- MODULE MCSplitLockQueue ---------------------------
EXTENDS SplitLockQueue

MCStopScopes == {{"push"}, {"push", "pop"}}
=============================================================================
