-------------------------- MODULE MCTaskLifecycle --------------------------
EXTENDS TaskLifecycle, TLC

CONSTANTS w1, w2, e1, e2

WorkersAndEditors == Permutations({w1, w2}) \cup Permutations({e1, e2})
=============================================================================
