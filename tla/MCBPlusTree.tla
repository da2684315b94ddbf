----------------------------- MODULE MCBPlusTree -----------------------------
EXTENDS BPlusTree

\* Values that are neither keys nor block ids, so that none is taken for another.
MCEntries == {[key |-> k, value |-> 100 + k] : k \in {-1} \cup 1 .. 6}
=============================================================================
