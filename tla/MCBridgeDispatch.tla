-------------------------- MODULE MCBridgeDispatch --------------------------
EXTENDS BridgeDispatch

\* Both bridges ask for one effect; a bucket holds one token.
MCEffectOf == [c \in Callers |-> "file_read"]
MCBurst == [b \in Buckets |-> 1]
MCRate == [b \in Buckets |-> 1]
=============================================================================
