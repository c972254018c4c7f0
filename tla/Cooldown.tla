------------------------------ MODULE Cooldown ------------------------------
(***************************************************************************)
(* One session's coolUntil (internal/edge/registry.go, coolDownFor, and    *)
(* the reads and the CompareAndSwap of dispatchOnce in edge.go): a lock-   *)
(* free timestamp that concurrent requests raise when an attempt on the    *)
(* session fails and clear when one works.  Every atomic access is a step. *)
(***************************************************************************)
EXTENDS Integers

CONSTANTS
    Request,        \* concurrent requests attempting the session
    Short,          \* cooldown: a refused or failed stream
    Long,           \* 2*acceptWait: a stalled session
    MaxNow          \* bound: clock readings

(* No two calls compute the same expiry: the clock has nanoseconds, and    *)
(* the two lengths are too far apart to meet within the bounded time.      *)
ASSUME CooldownAssumption ==
    /\ Short \in Nat \ {0}
    /\ Long \in Nat /\ Long > Short + MaxNow
    /\ MaxNow \in Nat

VARIABLES
    now,            \* the clock; every reading of it is later than the last
    coolUntil,      \* the session's expiry, 0 for none
    pc,             \* where each request is
    cooled,         \* the expiry a request read before its attempt
    until,          \* the expiry its coolDownFor wants
    cur,            \* what its coolDownFor loop last loaded
    meanwhile       \* history: the latest expiry another request asked for
                    \* since this one read cooled

coolVars == <<now, coolUntil, pc, cooled, until, cur, meanwhile>>

CoolInit ==
    /\ now = 0
    /\ coolUntil = 0
    /\ pc = [r \in Request |-> "idle"]
    /\ cooled = [r \in Request |-> 0]
    /\ until = [r \in Request |-> 0]
    /\ cur = [r \in Request |-> 0]
    /\ meanwhile = [r \in Request |-> 0]

Goto(r, l) == pc' = [pc EXCEPT ![r] = l]

(* dispatchOnce: cooled := c.coolUntil.Load(), then the attempt runs. *)
Attempt(r) ==
    /\ pc[r] = "idle"
    /\ cooled' = [cooled EXCEPT ![r] = coolUntil]
    /\ meanwhile' = [meanwhile EXCEPT ![r] = 0]
    /\ Goto(r, "trying")
    /\ UNCHANGED <<now, coolUntil, until, cur>>

(* Mutant: a success clears whatever cooldown is in place. *)
WorksClears(r) ==
    /\ pc[r] = "trying"
    /\ coolUntil' = 0
    /\ Goto(r, "idle")
    /\ UNCHANGED <<now, cooled, until, cur, meanwhile>>

(* attemptOK: CompareAndSwap(cooled, 0). *)
Works(r) ==
    /\ pc[r] = "trying"
    /\ coolUntil' = IF coolUntil = cooled[r] THEN 0 ELSE coolUntil
    /\ Goto(r, "idle")
    /\ UNCHANGED <<now, cooled, until, cur, meanwhile>>

(* A failed attempt: coolDownFor(d) reads the clock... *)
Fails(r) ==
    /\ pc[r] = "trying"
    /\ now < MaxNow
    /\ now' = now + 1
    /\ \E d \in {Short, Long} : until' = [until EXCEPT ![r] = now' + d]
    /\ Goto(r, "load")
    /\ UNCHANGED <<coolUntil, cooled, cur, meanwhile>>

(* ...or the attempt ends without a cooldown (evicted, retired). *)
EndsOtherwise(r) ==
    /\ pc[r] = "trying"
    /\ Goto(r, "idle")
    /\ UNCHANGED <<now, coolUntil, cooled, until, cur, meanwhile>>

(* coolDownFor has returned: its request has the session cooled down.      *)
Asked(r) ==
    meanwhile' = [q \in Request |->
                    IF q # r /\ pc[q] = "trying" /\ meanwhile[q] < until[r]
                    THEN until[r] ELSE meanwhile[q]]

(* The loop: load; return if a cooldown at least as long is in place.      *)
LoadCur(r) ==
    /\ pc[r] = "load"
    /\ cur' = [cur EXCEPT ![r] = coolUntil]
    /\ IF coolUntil >= until[r]
       THEN Goto(r, "idle") /\ Asked(r)
       ELSE Goto(r, "swap") /\ UNCHANGED meanwhile
    /\ UNCHANGED <<now, coolUntil, cooled, until>>

(* CompareAndSwap(cur, until), and round again if it lost.                 *)
Swap(r) ==
    /\ pc[r] = "swap"
    /\ IF coolUntil = cur[r]
       THEN coolUntil' = until[r] /\ Goto(r, "idle") /\ Asked(r)
       ELSE UNCHANGED <<coolUntil, meanwhile>> /\ Goto(r, "load")
    /\ UNCHANGED <<now, cooled, until, cur>>

CoolNext == \E r \in Request :
    Attempt(r) \/ Works(r) \/ Fails(r) \/ EndsOtherwise(r) \/ LoadCur(r) \/ Swap(r)

CoolSpec == CoolInit /\ [][CoolNext]_coolVars

-----------------------------------------------------------------------------
(***************************************************************************)
(* "never shortening a longer cooldown already in place": however loads    *)
(* and swaps of concurrent failures interleave, coolUntil only grows,      *)
(* except that an attempt that worked clears the cooldown that was in      *)
(* place when it began, and never one set while it ran.                    *)
(***************************************************************************)
CooldownKept ==
    [][coolUntil' < coolUntil =>
          /\ coolUntil' = 0
          /\ \E r \in Request : pc[r] = "trying" /\ pc'[r] = "idle" /\ meanwhile[r] # coolUntil]_coolVars
=============================================================================
