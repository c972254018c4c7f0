----------------------------- MODULE MCRegistry -----------------------------
(***************************************************************************)
(* Instances of Registry for TLC.                                          *)
(***************************************************************************)
EXTENDS Registry, TLC

CONSTANTS a, s1, s2, s3

\* Every connection presents the same certificate: the case in which the
\* sessions compete.
MCFpOf == [s \in Session |-> a]

\* Version 1 agents, and version 2 agents, are interchangeable among themselves.
SessionSymmetry == Permutations(V2) \cup Permutations(Session \ V2)
=============================================================================
