--------------------------- MODULE MCDrainHandoff ---------------------------
(***************************************************************************)
(* Instances of DrainHandoff for TLC.                                      *)
(***************************************************************************)
EXTENDS DrainHandoff, TLC

CONSTANTS o1, o2, d1
=============================================================================
