--------------------------- MODULE MCMemoryLease ---------------------------
EXTENDS MemoryLease, TLC

Interchangeable == Permutations(Holders) \cup Permutations(Keys)
=============================================================================
