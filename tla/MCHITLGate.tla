----------------------------- MODULE MCHITLGate -----------------------------
EXTENDS HITLGate, TLC

\* The calls are interchangeable: what each writes is chosen freely.
Interchangeable == Permutations(Calls)
=============================================================================
