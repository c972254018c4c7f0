--------------------------- MODULE CooldownProofs ---------------------------
(***************************************************************************)
(* A session's cooldown is never shortened, for any number of requests.    *)
(*                                                                         *)
(* The argument is that every coolDownFor wants an expiry of its own.  So  *)
(* a request whose CompareAndSwap finds the expiry it read before its      *)
(* attempt knows that no other was set since: an expiry still being set    *)
(* differs from every one in place or remembered.                          *)
(***************************************************************************)
EXTENDS Cooldown, TLAPS

\* The expiries asked for so far, and none.
Old == {0} \cup { t + d : t \in 1..now, d \in {Short, Long} }

\* Requests inside coolDownFor.
Pending(r) == pc[r] \in {"load", "swap"}
Trying(r) == pc[r] = "trying"

Types ==
    /\ now \in 0..MaxNow
    /\ coolUntil \in Old
    /\ pc \in [Request -> {"idle", "trying", "load", "swap"}]
    /\ cooled \in [Request -> Old]
    /\ until \in [Request -> Old]
    /\ cur \in [Request -> Int]
    /\ meanwhile \in [Request -> Old]

Apart(r) ==
    /\ Pending(r) =>
        /\ until[r] # coolUntil
        /\ until[r] # 0
        /\ \A q \in Request : q # r /\ Pending(q) => until[q] # until[r]
        /\ \A q \in Request : Trying(q) => until[r] # cooled[q]
    /\ Trying(r) /\ cooled[r] # 0 => meanwhile[r] # cooled[r]
    /\ pc[r] = "swap" => cur[r] < until[r]

Inv == Types /\ \A r \in Request : Apart(r)

USE CooldownAssumption

LEMMA OldIsInt == ASSUME now \in 0..MaxNow PROVE Old \subseteq Int
BY DEF Old

\* A clock reading gives an expiry nobody has had.
LEMMA Fresh ==
  ASSUME now \in 0..MaxNow, now < MaxNow, now' = now + 1, NEW d \in {Short, Long}
  PROVE  now' + d \in Old' \ Old /\ Old \subseteq Old'
<1>1. now' + d \in Old'
  BY DEF Old
<1>2. Old \subseteq Old'
  BY DEF Old
<1>3. ASSUME NEW t \in 1..now, NEW e \in {Short, Long} PROVE t + e # now' + d
  OBVIOUS
<1>4. now' + d # 0
  OBVIOUS
<1> QED  BY <1>1, <1>2, <1>3, <1>4 DEF Old

LEMMA InvInitially == CoolInit => Inv
BY DEF CoolInit, Inv, Types, Apart, Old, Pending, Trying

LEMMA InvInductive == Inv /\ [CoolNext]_coolVars => Inv'
<1> SUFFICES ASSUME Inv, [CoolNext]_coolVars PROVE Inv'
  OBVIOUS
<1> USE DEF Inv, Pending, Trying, Goto
<1>0. Old \subseteq Int /\ 0 \in Old
  BY OldIsInt DEF Types, Old
<1>1. CASE UNCHANGED coolVars
  BY <1>1 DEF coolVars, Types, Apart, Old
<1>2. ASSUME NEW r \in Request, Attempt(r) PROVE Inv'
  <2>0. UNCHANGED Old
    BY <1>2 DEF Attempt, Old
  <2>1. Types'
    BY <1>0, <1>2, <2>0 DEF Attempt, Types
  <2>2. \A q \in Request : Apart(q)'
    BY <1>2 DEF Attempt, Types, Apart
  <2> QED  BY <2>1, <2>2
<1>3. ASSUME NEW r \in Request, Works(r) PROVE Inv'
  <2>0. UNCHANGED Old
    BY <1>3 DEF Works, Old
  <2>1. Types'
    BY <1>0, <1>3, <2>0 DEF Works, Types
  <2>2. \A q \in Request : Apart(q)'
    BY <1>3 DEF Works, Types, Apart
  <2> QED  BY <2>1, <2>2
<1>4. ASSUME NEW r \in Request, Fails(r) PROVE Inv'
  <2>1. PICK d \in {Short, Long} : until' = [until EXCEPT ![r] = now' + d]
    BY <1>4 DEF Fails
  <2>2. now' + d \in Old' \ Old /\ Old \subseteq Old'
    BY <1>4, Fresh DEF Fails, Types
  <2>3. Types'
    <3>1. now' \in 0..MaxNow /\ UNCHANGED <<coolUntil, cooled, cur, meanwhile>>
      BY <1>4 DEF Fails, Types
    <3>2. pc' \in [Request -> {"idle", "trying", "load", "swap"}]
      BY <1>4 DEF Fails, Types
    <3> HIDE DEF Old
    <3> QED  BY <2>1, <2>2, <3>1, <3>2 DEF Types
  <2>4. \A q \in Request : Apart(q)'
    <3> HIDE DEF Old
    <3>1. UNCHANGED <<coolUntil, cooled, cur, meanwhile>> /\ pc' = [pc EXCEPT ![r] = "load"]
      BY <1>4 DEF Fails
    <3> QED  BY <1>0, <2>1, <2>2, <3>1 DEF Types, Apart
  <2> QED  BY <2>3, <2>4
<1>5. ASSUME NEW r \in Request, EndsOtherwise(r) PROVE Inv'
  <2>0. UNCHANGED Old
    BY <1>5 DEF EndsOtherwise, Old
  <2>1. Types'
    BY <1>5, <2>0 DEF EndsOtherwise, Types
  <2>2. \A q \in Request : Apart(q)'
    BY <1>5 DEF EndsOtherwise, Types, Apart
  <2> QED  BY <2>1, <2>2
<1>6. ASSUME NEW r \in Request, LoadCur(r) PROVE Inv'
  <2>0. UNCHANGED Old
    BY <1>6 DEF LoadCur, Old
  <2>1. Types'
    BY <1>0, <1>6, <2>0 DEF LoadCur, Asked, Types
  <2>2. \A q \in Request : Apart(q)'
    <3>1. CASE coolUntil >= until[r]
      BY <1>0, <1>6, <3>1 DEF LoadCur, Asked, Types, Apart
    <3>2. CASE ~(coolUntil >= until[r])
      <4>1. coolUntil < until[r]
        <5>1. coolUntil \in Int /\ until[r] \in Int
          BY <1>0 DEF Types
        <5> QED  BY <3>2, <5>1
      <4> QED  BY <1>6, <3>2, <4>1 DEF LoadCur, Types, Apart
    <3> QED  BY <3>1, <3>2
  <2> QED  BY <2>1, <2>2
<1>7. ASSUME NEW r \in Request, Swap(r) PROVE Inv'
  <2>0. UNCHANGED Old
    BY <1>7 DEF Swap, Old
  <2>1. Types'
    BY <1>0, <1>7, <2>0 DEF Swap, Asked, Types
  <2>2. \A q \in Request : Apart(q)'
    BY <1>0, <1>7 DEF Swap, Asked, Types, Apart
  <2> QED  BY <2>1, <2>2
<1> QED  BY <1>1, <1>2, <1>3, <1>4, <1>5, <1>6, <1>7 DEF CoolNext

\* Only a success lowers coolUntil: it clears the expiry it read.
LEMMA OnlyClears ==
  ASSUME Inv, [CoolNext]_coolVars, coolUntil' < coolUntil
  PROVE  /\ coolUntil' = 0
         /\ \E r \in Request : pc[r] = "trying" /\ pc'[r] = "idle" /\ meanwhile[r] # coolUntil
<1>0. Old \subseteq Int /\ coolUntil \in Int /\ ~(coolUntil < coolUntil)
  BY OldIsInt DEF Inv, Types
<1>1. PICK r \in Request : Works(r) \/ Swap(r)
  BY <1>0 DEF CoolNext, coolVars, Attempt, Fails, EndsOtherwise, LoadCur
<1>2. CASE Swap(r)
  <2>1. until[r] \in Int /\ cur[r] < until[r]
    BY <1>0, <1>2 DEF Inv, Types, Apart, Swap
  <2> QED  BY <1>0, <1>2, <2>1 DEF Swap
<1>3. CASE Works(r)
  <2>1. coolUntil' = 0 /\ coolUntil = cooled[r] /\ pc[r] = "trying" /\ coolUntil # 0
    BY <1>0, <1>3 DEF Works
  <2>2. pc'[r] = "idle"
    BY <1>3 DEF Works, Goto, Inv, Types
  <2> QED  BY <2>1, <2>2 DEF Inv, Apart, Trying
<1> QED  BY <1>1, <1>2, <1>3

(***************************************************************************)
(* For any number of requests failing and succeeding on one session at the *)
(* same time, coolDownFor "never" shortens "a longer cooldown already in   *)
(* place", and a success clears only what it found before its attempt.     *)
(***************************************************************************)
THEOREM KeepsCooldown == CoolSpec => CooldownKept
<1>1. Inv /\ [CoolNext]_coolVars =>
        [coolUntil' < coolUntil =>
          /\ coolUntil' = 0
          /\ \E r \in Request : pc[r] = "trying" /\ pc'[r] = "idle" /\ meanwhile[r] # coolUntil]_coolVars
  BY OnlyClears
<1> QED  BY <1>1, InvInitially, InvInductive, PTL DEF CoolSpec, CooldownKept
=============================================================================
