------------------------------ MODULE MCH3Pool ------------------------------
EXTENDS H3Pool

CONSTANTS r1, r2, r3, c1, c2, a1, s1, s2

(* Two HTTP/3 requests on one connection; the third is a TCP connection.   *)
MCConnOf == [r \in Request |-> IF r = r3 THEN c2 ELSE c1]
=============================================================================
