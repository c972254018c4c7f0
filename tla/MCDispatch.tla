----------------------------- MODULE MCDispatch -----------------------------
EXTENDS Dispatch

CONSTANTS s1, s2, r1

(* One least_conn route, which both agents serve. *)
MCRouteOf == [r \in Request |-> "route"]
=============================================================================
