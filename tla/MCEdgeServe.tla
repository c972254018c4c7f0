----------------------------- MODULE MCEdgeServe -----------------------------
EXTENDS EdgeServe

CONSTANTS t1, t2, q1
=============================================================================
