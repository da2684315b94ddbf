------------------------------ MODULE MCHarness ------------------------------
EXTENDS Harness

\* stop is one flag, which every push and every pop is given.
MCStopScopes == {{"push", "pop"}}
=============================================================================
