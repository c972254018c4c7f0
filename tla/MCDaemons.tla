----------------------------- MODULE MCDaemons ------------------------------
EXTENDS Daemons

CONSTANTS d1, d2
=============================================================================
