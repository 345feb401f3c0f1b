------------------------- MODULE MCCapsuleApproval -------------------------
EXTENDS CapsuleApproval, TLC

CONSTANTS t1, t2, t3, p, q

\* Two threads of one server and one of another.
TwoServers == (t1 :> p) @@ (t2 :> p) @@ (t3 :> q)

\* The threads of the first server are interchangeable, and so are the capsules.
Interchangeable == Permutations({t1, t2}) \cup Permutations(Capsules)
=============================================================================
