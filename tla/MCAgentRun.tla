----------------------------- MODULE MCAgentRun -----------------------------
EXTENDS AgentRun

CONSTANTS h1, h2
=============================================================================
