--------------------------- MODULE MCAsyncBridge ---------------------------
EXTENDS AsyncBridge, TLC

Symmetry == Permutations(Threads) \cup Permutations(Modules)
=============================================================================
