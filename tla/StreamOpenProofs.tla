-------------------------- MODULE StreamOpenProofs --------------------------
(***************************************************************************)
(* openUnlessRetired and retireForDrain for any number of opens and drain  *)
(* requests: the counters are exact, no wakeup is lost, no open starts on  *)
(* a retired session, and a drain acknowledgement sent in time follows     *)
(* every opening frame that will be used.                                  *)
(*                                                                         *)
(* The inductive invariant adds to these what ties a caller to its         *)
(* goroutine and, the heart of it, Settled: from the moment a drain was    *)
(* woken every open still in flight is one that was given up on.           *)
(***************************************************************************)
EXTENDS StreamOpen, FiniteSetTheorems, TLAPS

\* What is known of one open.
OpenLife(o) ==
    /\ call[o] \in {"new", "errRetired", "errOpenBlocked"} <=> bg[o] = "none"
    /\ o \in abandoned => /\ call[o] = "errOpenTimeout"
                          /\ bg[o] \in {"opening", "sent", "failed", "unused"}
    /\ bg[o] = "unused" => o \in abandoned

\* A drain request works on a retired session, and once it was woken all the
\* opens in flight are abandoned ones.
Settled(d) ==
    /\ drain[d] # "new" => retired
    /\ drain[d] \in {"woken", "acked"} => InFlight \subseteq abandoned

\* What has been sent.
Sent(i) ==
    /\ wire[i] \in Drain => drain[wire[i]] \in {"acked", "ackedEarly"}
    /\ wire[i] \in Open => bg[wire[i]] \notin {"none", "opening"}

Inv ==
    /\ TypeOK
    /\ CountsExact
    /\ NoLostWakeup
    /\ AckFollowsOpens
    /\ \A o \in Open : OpenLife(o)
    /\ \A d \in Drain : Settled(d)
    /\ \A i \in DOMAIN wire : Sent(i)

USE StreamOpenAssumption

(***************************************************************************)
(* Counting.                                                               *)
(***************************************************************************)
\* liveOpensLocked: opening - stuck counts the opens in flight that were not
\* given up on; it is zero exactly when there are none.
LEMMA LiveOpensCounts ==
  ASSUME NEW S, IsFiniteSet(S), NEW A
  PROVE  /\ Cardinality(S) \in Nat
         /\ Cardinality(S \cap A) \in Nat
         /\ Cardinality(S \cap A) <= Cardinality(S)
         /\ LiveOpens(Cardinality(S), Cardinality(S \cap A)) <= 0 <=> S \subseteq A
<1>1. /\ IsFiniteSet(S \cap A)
      /\ Cardinality(S \cap A) \in Nat
      /\ Cardinality(S) \in Nat
  BY FS_Subset, FS_CardinalityType
<1>2. /\ Cardinality(S \cap A) <= Cardinality(S)
      /\ Cardinality(S \cap A) = Cardinality(S) => S \cap A = S
  BY FS_Subset
<1>3. S \subseteq A => S \cap A = S
  OBVIOUS
<1> QED
  BY <1>1, <1>2, <1>3 DEF LiveOpens

\* One open more or less.
LEMMA CountOne ==
  ASSUME NEW S, IsFiniteSet(S), NEW x
  PROVE  /\ Cardinality(S) \in Nat
         /\ x \notin S => Cardinality(S \cup {x}) = Cardinality(S) + 1
         /\ x \in S => Cardinality(S \ {x}) = Cardinality(S) - 1
<1>1. Cardinality(S) \in Nat
  BY FS_CardinalityType
<1>2. x \notin S => Cardinality(S \cup {x}) = Cardinality(S) + 1
  BY FS_AddElement
<1>3. x \in S => Cardinality(S \ {x}) = Cardinality(S) - 1
  BY FS_RemoveElement
<1> QED
  BY <1>1, <1>2, <1>3

\* The opens in flight are finitely many.
LEMMA InFlightFinite == IsFiniteSet(InFlight) /\ IsFiniteSet(InFlight \cap abandoned)
<1>1. InFlight \subseteq Open /\ InFlight \cap abandoned \subseteq Open
  BY DEF InFlight
<1> QED
  BY <1>1, FS_Subset

(***************************************************************************)
(* The invariant, one step per action.                                     *)
(***************************************************************************)
\* The initial state: nothing opened, nothing asked.
LEMMA InitInv == Init => Inv
<1> SUFFICES ASSUME Init
             PROVE  Inv
  OBVIOUS
<1>1. TypeOK
  <2>1. /\ call \in [Open -> {"new", "waiting", "ok", "err", "errRetired",
                              "errOpenBlocked", "errOpenTimeout"}]
        /\ bg \in [Open -> {"none", "opening", "sent", "failed", "stream",
                            "unused"}]
        /\ drain \in [Drain -> {"new", "retired", "waiting", "woken", "early",
                                "acked", "ackedEarly"}]
    BY DEF Init
  <2>2. wire \in Seq(Open \cup Drain)
    BY DEF Init
  <2> QED
    BY <2>1, <2>2 DEF Init, TypeOK
<1>2. InFlight = {} /\ InFlight \cap abandoned = {}
  BY DEF Init, InFlight
<1>3. CountsExact
  BY <1>2, FS_EmptySet DEF Init, CountsExact
<1>4. NoLostWakeup /\ AckFollowsOpens /\ \A i \in DOMAIN wire : Sent(i)
  BY DEF Init, NoLostWakeup, AckFollowsOpens, Sent
<1>5. (\A o \in Open : OpenLife(o)) /\ (\A d \in Drain : Settled(d))
  BY DEF Init, OpenLife, Settled
<1> QED
  BY <1>1, <1>3, <1>4, <1>5 DEF Inv

\* wakeIfIdleLocked, called with the counters as they are after the step: the
\* waiting drains are woken if there is no live open left, and only then.
LEMMA Woken ==
  ASSUME Inv, CountsExact', TypeOK', WakeIfIdle(opening', stuck')
  PROVE  /\ NoLostWakeup'
         /\ \A d \in Drain :
              \/ drain'[d] = drain[d]
              \/ drain[d] = "waiting" /\ drain'[d] = "woken" /\ (InFlight \subseteq abandoned)'
<1>1. LiveOpens(opening', stuck') <= 0 <=> (InFlight \subseteq abandoned)'
  <2>1. IsFiniteSet(InFlight')
    <3>1. InFlight' \subseteq Open
      BY DEF InFlight
    <3> QED
      BY <3>1, FS_Subset
  <2> QED
    BY <2>1, LiveOpensCounts DEF CountsExact
<1>2. CASE LiveOpens(opening', stuck') <= 0 /\ idle
  BY <1>1, <1>2 DEF WakeIfIdle, NoLostWakeup, Inv, TypeOK
<1>3. CASE ~(LiveOpens(opening', stuck') <= 0 /\ idle)
  BY <1>1, <1>3 DEF WakeIfIdle, NoLostWakeup, Inv
<1> QED
  BY <1>2, <1>3

\* Each step preserves Inv.
LEMMA NextInv == Inv /\ [Next]_vars => Inv'
<1> SUFFICES ASSUME Inv, [Next]_vars
             PROVE  Inv'
  OBVIOUS
<1> USE DEF Inv
<1>1. CASE Retire
  <2>1. TypeOK'
    BY <1>1 DEF TypeOK, Retire, connVars
  <2>2. InFlight' = InFlight /\ CountsExact'
    BY <1>1 DEF InFlight, CountsExact, Retire, connVars
  <2>3. NoLostWakeup'
    BY <1>1, <2>2 DEF NoLostWakeup, TypeOK, Retire, connVars
  <2>4. AckFollowsOpens' /\ \A i \in DOMAIN wire' : Sent(i)'
    BY <1>1 DEF AckFollowsOpens, Sent, TypeOK, Retire, connVars
  <2>5. \A x \in Open : OpenLife(x)'
    BY <1>1 DEF OpenLife, TypeOK, Retire, connVars
  <2>6. \A e \in Drain : Settled(e)'
    BY <1>1, <2>2 DEF Settled, TypeOK, Retire, connVars
  <2> QED
    BY <2>1, <2>2, <2>3, <2>4, <2>5, <2>6
<1>2. ASSUME NEW o \in Open, OpenReturns(o)
      PROVE  Inv'
  <2>1. TypeOK'
    BY <1>2 DEF TypeOK, OpenReturns, connVars
  <2>2. InFlight' = InFlight /\ CountsExact'
    BY <1>2 DEF InFlight, CountsExact, OpenReturns, connVars
  <2>3. NoLostWakeup'
    BY <1>2, <2>2 DEF NoLostWakeup, TypeOK, OpenReturns, connVars
  <2>4. AckFollowsOpens' /\ \A i \in DOMAIN wire' : Sent(i)'
    BY <1>2 DEF AckFollowsOpens, Sent, TypeOK, OpenReturns, connVars
  <2>5. \A x \in Open : OpenLife(x)'
    BY <1>2 DEF OpenLife, TypeOK, OpenReturns, connVars
  <2>6. \A e \in Drain : Settled(e)'
    BY <1>2, <2>2 DEF Settled, TypeOK, OpenReturns, connVars
  <2> QED
    BY <2>1, <2>2, <2>3, <2>4, <2>5, <2>6
<1>3. ASSUME NEW d \in Drain, DrainRetires(d)
      PROVE  Inv'
  <2>1. TypeOK'
    BY <1>3 DEF TypeOK, DrainRetires, connVars
  <2>2. InFlight' = InFlight /\ CountsExact'
    BY <1>3 DEF InFlight, CountsExact, DrainRetires, connVars
  <2>3. NoLostWakeup'
    BY <1>3, <2>2 DEF NoLostWakeup, TypeOK, DrainRetires, connVars
  <2>4. AckFollowsOpens' /\ \A i \in DOMAIN wire' : Sent(i)'
    BY <1>3 DEF AckFollowsOpens, Sent, TypeOK, DrainRetires, connVars
  <2>5. \A x \in Open : OpenLife(x)'
    BY <1>3 DEF OpenLife, TypeOK, DrainRetires, connVars
  <2>6. \A e \in Drain : Settled(e)'
    BY <1>3, <2>2 DEF Settled, TypeOK, DrainRetires, connVars
  <2> QED
    BY <2>1, <2>2, <2>3, <2>4, <2>5, <2>6
<1>4. ASSUME NEW d \in Drain, DrainTimesOut(d)
      PROVE  Inv'
  <2>1. TypeOK'
    BY <1>4 DEF TypeOK, DrainTimesOut, connVars
  <2>2. InFlight' = InFlight /\ CountsExact'
    BY <1>4 DEF InFlight, CountsExact, DrainTimesOut, connVars
  <2>3. NoLostWakeup'
    BY <1>4, <2>2 DEF NoLostWakeup, TypeOK, DrainTimesOut, connVars
  <2>4. AckFollowsOpens' /\ \A i \in DOMAIN wire' : Sent(i)'
    BY <1>4 DEF AckFollowsOpens, Sent, TypeOK, DrainTimesOut, connVars
  <2>5. \A x \in Open : OpenLife(x)'
    BY <1>4 DEF OpenLife, TypeOK, DrainTimesOut, connVars
  <2>6. \A e \in Drain : Settled(e)'
    BY <1>4, <2>2 DEF Settled, TypeOK, DrainTimesOut, connVars
  <2> QED
    BY <2>1, <2>2, <2>3, <2>4, <2>5, <2>6
<1>5. ASSUME NEW o \in Open, OpenStart(o)
      PROVE  Inv'
  <2>1. TypeOK'
    BY <1>5 DEF TypeOK, OpenStart
  <2>2. CASE bg' = bg /\ opening' = opening
    <3>1. InFlight' = InFlight /\ CountsExact'
      BY <1>5, <2>2 DEF InFlight, CountsExact, OpenStart, TypeOK
    <3>2. NoLostWakeup'
      BY <1>5, <3>1 DEF NoLostWakeup, OpenStart
    <3>3. AckFollowsOpens' /\ \A i \in DOMAIN wire' : Sent(i)'
      BY <1>5, <2>2 DEF AckFollowsOpens, Sent, OpenStart
    <3>4. \A x \in Open : OpenLife(x)'
      BY <1>5, <2>2 DEF OpenLife, OpenStart, TypeOK
    <3>5. \A d \in Drain : Settled(d)'
      BY <1>5, <3>1 DEF Settled, OpenStart
    <3> QED
      BY <2>1, <3>1, <3>2, <3>3, <3>4, <3>5
  <2>3. CASE ~retired /\ bg' = [bg EXCEPT ![o] = "opening"]
    <3>1. bg[o] = "none" /\ o \notin abandoned
      BY <1>5 DEF OpenLife, OpenStart
    <3>2. InFlight' = InFlight \cup {o} /\ o \notin InFlight
      BY <2>3, <3>1 DEF InFlight, TypeOK
    <3>3. (InFlight \cap abandoned)' = InFlight \cap abandoned
      BY <1>5, <3>1, <3>2 DEF OpenStart
    <3>4. opening' = opening + 1 /\ stuck' = stuck
      BY <1>5, <2>3, <3>1 DEF OpenStart, TypeOK
    <3>5. CountsExact'
      BY <3>2, <3>3, <3>4, InFlightFinite, CountOne DEF CountsExact
    <3>6. NoLostWakeup'
      BY <1>5, <3>1, <3>2 DEF NoLostWakeup, OpenStart
    <3>7. AckFollowsOpens' /\ \A i \in DOMAIN wire' : Sent(i)'
      BY <1>5, <2>3, <3>1 DEF AckFollowsOpens, Sent, OpenStart, TypeOK
    <3>8. \A x \in Open : OpenLife(x)'
      BY <1>5, <2>3, <3>1 DEF OpenLife, OpenStart, TypeOK
    <3>9. \A d \in Drain : Settled(d)'
      BY <1>5, <2>3 DEF Settled, OpenStart
    <3> QED
      BY <2>1, <3>5, <3>6, <3>7, <3>8, <3>9
  <2> QED
    BY <1>5, <2>2, <2>3 DEF OpenStart
<1>6. ASSUME NEW o \in Open, OpenSends(o)
      PROVE  Inv'
  <2>1. TypeOK'
    BY <1>6 DEF TypeOK, OpenSends, connVars
  <2>2. InFlight' = InFlight /\ CountsExact'
    BY <1>6 DEF InFlight, CountsExact, OpenSends, connVars, TypeOK
  <2>3. NoLostWakeup'
    BY <1>6, <2>2 DEF NoLostWakeup, OpenSends, connVars
  <2>4. \A i \in DOMAIN wire' : Sent(i)'
    BY <1>6 DEF Sent, OpenSends, TypeOK
  <2>5. AckFollowsOpens'
    <3> SUFFICES ASSUME NEW i \in DOMAIN wire', NEW j \in DOMAIN wire',
                        i < j, wire'[i] \in Drain, wire'[j] \in Open
                 PROVE  drain[wire'[i]] = "ackedEarly" \/ wire'[j] \in abandoned
      BY <1>6 DEF AckFollowsOpens, OpenSends
    <3>1. i \in DOMAIN wire /\ wire'[i] = wire[i]
      BY <1>6 DEF OpenSends, TypeOK
    <3>2. CASE j \in DOMAIN wire
      BY <1>6, <3>1, <3>2 DEF AckFollowsOpens, OpenSends, TypeOK
    <3>3. CASE j \notin DOMAIN wire
      <4>1. wire'[j] = o /\ o \in InFlight
        BY <1>6, <3>3 DEF OpenSends, TypeOK, InFlight
      <4> QED
        BY <3>1, <4>1 DEF Sent, Settled
    <3> QED
      BY <3>2, <3>3
  <2>6. \A x \in Open : OpenLife(x)'
    BY <1>6 DEF OpenLife, OpenSends, TypeOK
  <2>7. \A d \in Drain : Settled(d)'
    BY <1>6, <2>2 DEF Settled, OpenSends, connVars
  <2> QED
    BY <2>1, <2>2, <2>3, <2>4, <2>5, <2>6, <2>7
<1>7. ASSUME NEW o \in Open, OpenFinishes(o)
      PROVE  Inv'
  <2>1. InFlight' = InFlight \ {o} /\ o \in InFlight /\ abandoned' = abandoned
    BY <1>7 DEF InFlight, OpenFinishes, TypeOK
  <2>2. CountsExact'
    <3>1. opening' = opening - 1
      BY <1>7 DEF OpenFinishes
    <3>2. opening' = Cardinality(InFlight')
      BY <2>1, <3>1, InFlightFinite, CountOne DEF CountsExact
    <3>3. CASE o \in abandoned
      <4>1. (InFlight \cap abandoned)' = (InFlight \cap abandoned) \ {o}
        BY <2>1
      <4>2. stuck' = stuck - 1 /\ o \in InFlight \cap abandoned
        BY <1>7, <2>1, <3>3 DEF OpenFinishes
      <4>3. Cardinality((InFlight \cap abandoned) \ {o})
              = Cardinality(InFlight \cap abandoned) - 1
        BY <4>2, InFlightFinite, CountOne
      <4> QED
        BY <3>2, <4>1, <4>2, <4>3 DEF CountsExact
    <3>4. CASE o \notin abandoned
      <4>1. (InFlight \cap abandoned)' = InFlight \cap abandoned
        BY <2>1, <3>4
      <4> QED
        BY <1>7, <3>2, <3>4, <4>1 DEF OpenFinishes, CountsExact
    <3> QED
      BY <3>3, <3>4
  <2>3. opening' \in Nat /\ stuck' \in Nat
    <3>1. IsFiniteSet(InFlight')
      BY <2>1, InFlightFinite, FS_Subset
    <3> QED
      BY <2>2, <3>1, LiveOpensCounts DEF CountsExact
  <2>4. TypeOK'
    BY <1>7, <2>3 DEF TypeOK, OpenFinishes, WakeIfIdle
  <2>5. /\ NoLostWakeup'
        /\ \A d \in Drain :
             \/ drain'[d] = drain[d]
             \/ drain[d] = "waiting" /\ drain'[d] = "woken" /\ (InFlight \subseteq abandoned)'
    BY <1>7, <2>2, <2>4, Woken DEF OpenFinishes
  <2>6. AckFollowsOpens' /\ \A i \in DOMAIN wire' : Sent(i)'
    BY <1>7, <2>5 DEF AckFollowsOpens, Sent, OpenFinishes, TypeOK
  <2>7. \A x \in Open : OpenLife(x)'
    BY <1>7 DEF OpenLife, OpenFinishes, TypeOK
  <2>8. \A d \in Drain : Settled(d)'
    BY <1>7, <2>1, <2>5 DEF Settled, OpenFinishes
  <2> QED
    BY <2>2, <2>4, <2>5, <2>6, <2>7, <2>8
<1>8. ASSUME NEW o \in Open, OpenTimesOut(o)
      PROVE  Inv'
  <2>1. /\ InFlight' = InFlight /\ o \in InFlight
        /\ abandoned' = abandoned \cup {o} /\ o \notin abandoned
    BY <1>8 DEF InFlight, OpenTimesOut, OpenLife
  <2>2. CountsExact'
    <3>1. (InFlight \cap abandoned)' = (InFlight \cap abandoned) \cup {o}
      BY <2>1
    <3>2. stuck' = stuck + 1 /\ opening' = opening /\ o \notin InFlight \cap abandoned
      BY <1>8, <2>1 DEF OpenTimesOut
    <3>3. Cardinality((InFlight \cap abandoned) \cup {o})
            = Cardinality(InFlight \cap abandoned) + 1
      BY <3>2, InFlightFinite, CountOne
    <3> QED
      BY <2>1, <3>1, <3>2, <3>3 DEF CountsExact
  <2>3. TypeOK'
    <3>1. /\ drain' \in [Drain -> {"new", "retired", "waiting", "woken",
                                  "early", "acked", "ackedEarly"}]
          /\ idle' \in BOOLEAN
      BY <1>8 DEF TypeOK, OpenTimesOut, WakeIfIdle
    <3> QED
      BY <1>8, <3>1 DEF TypeOK, OpenTimesOut
  <2>4. /\ NoLostWakeup'
        /\ \A d \in Drain :
             \/ drain'[d] = drain[d]
             \/ drain[d] = "waiting" /\ drain'[d] = "woken" /\ (InFlight \subseteq abandoned)'
    <3>1. WakeIfIdle(opening', stuck')
      BY <1>8 DEF OpenTimesOut
    <3> QED
      BY <2>2, <2>3, <3>1, Woken
  <2>5. AckFollowsOpens' /\ \A i \in DOMAIN wire' : Sent(i)'
    BY <1>8, <2>4 DEF AckFollowsOpens, Sent, OpenTimesOut, TypeOK
  <2>6. \A x \in Open : OpenLife(x)'
    BY <1>8 DEF OpenLife, OpenTimesOut, TypeOK
  <2>7. \A d \in Drain : Settled(d)'
    BY <1>8, <2>1, <2>4 DEF Settled, OpenTimesOut
  <2> QED
    BY <2>2, <2>3, <2>4, <2>5, <2>6, <2>7
<1>9. ASSUME NEW d \in Drain, DrainWaits(d)
      PROVE  Inv'
  <2>1. TypeOK'
    BY <1>9 DEF TypeOK, DrainWaits
  <2>2. InFlight' = InFlight /\ abandoned' = abandoned /\ CountsExact'
    BY <1>9 DEF InFlight, CountsExact, DrainWaits
  <2>3. LiveOpens(opening, stuck) = 0 <=> InFlight \subseteq abandoned
    <3>1. /\ LiveOpens(opening, stuck) <= 0 <=> InFlight \subseteq abandoned
          /\ stuck <= opening
      BY InFlightFinite, LiveOpensCounts DEF CountsExact
    <3> QED
      BY <3>1 DEF LiveOpens, TypeOK
  <2>4. NoLostWakeup'
    BY <1>9, <2>2, <2>3 DEF NoLostWakeup, DrainWaits, TypeOK
  <2>5. AckFollowsOpens' /\ \A i \in DOMAIN wire' : Sent(i)'
    BY <1>9 DEF AckFollowsOpens, Sent, DrainWaits, TypeOK
  <2>6. \A x \in Open : OpenLife(x)'
    BY <1>9 DEF OpenLife, DrainWaits
  <2>7. \A e \in Drain : Settled(e)'
    BY <1>9, <2>2, <2>3 DEF Settled, DrainWaits, TypeOK
  <2> QED
    BY <2>1, <2>2, <2>4, <2>5, <2>6, <2>7
<1>10. ASSUME NEW d \in Drain, DrainAcks(d)
       PROVE  Inv'
  <2>1. TypeOK'
    BY <1>10 DEF TypeOK, DrainAcks, connVars
  <2>2. InFlight' = InFlight /\ abandoned' = abandoned /\ CountsExact'
    BY <1>10 DEF InFlight, CountsExact, DrainAcks, connVars
  <2>3. NoLostWakeup'
    BY <1>10, <2>2 DEF NoLostWakeup, DrainAcks, TypeOK, connVars
  <2>4. \A i \in DOMAIN wire' : Sent(i)'
    BY <1>10 DEF Sent, DrainAcks, TypeOK
  <2>5. AckFollowsOpens'
    <3> SUFFICES ASSUME NEW i \in DOMAIN wire', NEW j \in DOMAIN wire',
                        i < j, wire'[i] \in Drain, wire'[j] \in Open
                 PROVE  drain'[wire'[i]] = "ackedEarly" \/ wire'[j] \in abandoned'
      BY DEF AckFollowsOpens
    <3>1. /\ i \in DOMAIN wire /\ j \in DOMAIN wire
          /\ wire'[i] = wire[i] /\ wire'[j] = wire[j]
      BY <1>10 DEF DrainAcks, TypeOK
    <3>2. drain[wire[i]] = "ackedEarly" \/ wire[j] \in abandoned
      BY <3>1 DEF AckFollowsOpens
    <3> QED
      BY <1>10, <3>1, <3>2, <2>2 DEF DrainAcks, TypeOK
  <2>6. \A x \in Open : OpenLife(x)'
    BY <1>10 DEF OpenLife, DrainAcks
  <2>7. \A e \in Drain : Settled(e)'
    BY <1>10, <2>2 DEF Settled, DrainAcks, TypeOK, connVars
  <2> QED
    BY <2>1, <2>2, <2>3, <2>4, <2>5, <2>6, <2>7
<1>11. CASE UNCHANGED vars
  BY <1>11 DEF TypeOK, CountsExact, InFlight, NoLostWakeup, AckFollowsOpens,
         OpenLife, Settled, Sent, vars, connVars
<1> QED
  BY <1>1, <1>2, <1>3, <1>4, <1>5, <1>6, <1>7, <1>8, <1>9, <1>10, <1>11 DEF Next

\* Inv holds in every reachable state.
THEOREM Invariance == Spec => []Inv
  BY InitInv, NextInv, PTL DEF Spec

-----------------------------------------------------------------------------
(***************************************************************************)
(* What Inv implies.                                                       *)
(***************************************************************************)
\* Type correctness; opening and stuck never go below zero.
THEOREM TypeCorrect == Spec => []TypeOK
<1>1. Inv => TypeOK
  BY DEF Inv
<1> QED
  BY <1>1, Invariance, PTL

\* openUnlessRetired: opening and stuck are exact, whichever of a timer and a
\* late return of OpenStream comes first.
THEOREM CountersAreExact == Spec => []CountsExact
<1>1. Inv => CountsExact
  BY DEF Inv
<1> QED
  BY <1>1, Invariance, PTL

\* wakeIfIdleLocked: a drain that waits has a live open to wake it.
THEOREM WakeupsKept == Spec => []NoLostWakeup
<1>1. Inv => NoLostWakeup
  BY DEF Inv
<1> QED
  BY <1>1, Invariance, PTL

\* retireForDrain: an acknowledgement sent in time follows, on the wire, every
\* opening frame of a stream that will be used.
THEOREM AckComesLast == Spec => []AckFollowsOpens
<1>1. Inv => AckFollowsOpens
  BY DEF Inv
<1> QED
  BY <1>1, Invariance, PTL

\* openUnlessRetired: nobody has the stream of an open that was given up on.
THEOREM AbandonedUnused == Spec => []AbandonedIsUnused
<1>1. Inv => AbandonedIsUnused
  BY DEF Inv, AbandonedIsUnused, OpenLife, TypeOK
<1> QED
  BY <1>1, Invariance, PTL

\* openUnlessRetired: no open starts on a retired session.
THEOREM NoLateOpen == Spec => NoOpenAfterRetire
<1>1. Inv /\ [Next]_vars =>
        [retired => \A o \in Open : bg[o] = "none" => bg'[o] = "none"]_vars
  <2> SUFFICES ASSUME Inv, Next, retired, NEW o \in Open, bg[o] = "none"
               PROVE  bg'[o] = "none"
    OBVIOUS
  <2>1. ASSUME NEW x \in Open,
               OpenStart(x) \/ OpenSends(x) \/ OpenFinishes(x)
        PROVE  bg'[o] = "none"
    BY <2>1 DEF OpenStart, OpenSends, OpenFinishes, Inv, TypeOK
  <2> QED
    BY <2>1 DEF Next, Retire, OpenReturns, OpenTimesOut, DrainRetires,
           DrainWaits, DrainTimesOut, DrainAcks
<1> QED
  BY <1>1, Invariance, PTL DEF Spec, NoOpenAfterRetire
=============================================================================
