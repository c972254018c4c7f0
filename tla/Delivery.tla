------------------------------ MODULE Delivery ------------------------------
(***************************************************************************)
(* What dispatch promises its caller: a request is given to one agent, or  *)
(* to none.  It is answered with that agent's stream, or refused: as never *)
(* sent, or as failed, in which case the agent may or may not have run it. *)
(***************************************************************************)
CONSTANTS Request, Session

VARIABLES holder,    \* the sessions whose agent may run the request
          answer     \* "none" until dispatch returns

vars == <<holder, answer>>

Init ==
    /\ holder = [r \in Request |-> {}]
    /\ answer = [r \in Request |-> "none"]

\* The request reaches one agent, and whether that is known is settled at once.
Deliver(r, c) ==
    /\ answer[r] = "none"
    /\ holder' = [holder EXCEPT ![r] = {c}]
    /\ \E a \in {"ok", "failed"} : answer' = [answer EXCEPT ![r] = a]

\* No agent has it, and none will.
Refuse(r) ==
    /\ answer[r] = "none"
    /\ \E a \in {"noAgent", "failed"} : answer' = [answer EXCEPT ![r] = a]
    /\ UNCHANGED holder

Next == \E r \in Request : Refuse(r) \/ \E c \in Session : Deliver(r, c)

Spec == Init /\ [][Next]_vars
=============================================================================
