----------------------------- MODULE AgentPool ------------------------------
(***************************************************************************)
(* What the registry promises to the edge: the set of agents that serve.   *)
(* A certificate that may not be shared serves through one session at a    *)
(* time, nobody is displaced by a newcomer, a session that left does not   *)
(* come back, and nobody joins once the edge has shut the pool.            *)
(***************************************************************************)
CONSTANTS Session, FpOf, Shared

VARIABLES serving,   \* sessions requests may be sent to
          left,      \* sessions that have stopped serving or were refused
          shut       \* the edge takes no more sessions

vars == <<serving, left, shut>>

Init == serving = {} /\ left = {} /\ shut = FALSE

\* A newcomer joins: its certificate is free, or may be shared.
Join(s) ==
    /\ ~shut
    /\ s \notin serving \cup left
    /\ \A t \in serving : FpOf[t] = FpOf[s] => FpOf[s] \in Shared
    /\ serving' = serving \cup {s}
    /\ UNCHANGED <<left, shut>>

\* A session dies, drains, or is evicted.
Leave(s) ==
    /\ s \in serving
    /\ serving' = serving \ {s}
    /\ left' = left \cup {s}
    /\ UNCHANGED shut

\* A newcomer is turned away.
Refuse(s) ==
    /\ s \notin serving \cup left
    /\ left' = left \cup {s}
    /\ UNCHANGED <<serving, shut>>

Shut ==
    /\ ~shut
    /\ shut' = TRUE
    /\ UNCHANGED <<serving, left>>

Next == Shut \/ \E s \in Session : Join(s) \/ Leave(s) \/ Refuse(s)

Spec == Init /\ [][Next]_vars
=============================================================================
