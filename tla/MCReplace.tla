----------------------------- MODULE MCReplace ------------------------------
EXTENDS Replace

CONSTANTS h1, h2
=============================================================================
