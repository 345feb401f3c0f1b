---------------------------- MODULE MCAuditChain ----------------------------
EXTENDS AuditChain, TLC

\* Processes, and payloads, are interchangeable in every property of the run.
Interchangeable == Permutations(Processes) \cup Permutations(Payloads)
=============================================================================
