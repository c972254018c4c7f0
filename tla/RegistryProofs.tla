--------------------------- MODULE RegistryProofs ---------------------------
(***************************************************************************)
(* The registry's safety for any number of connections, certificates and   *)
(* any cap: type correctness, the invariants and action properties that    *)
(* the runs of MCRegistry check, and that Registry implements AgentPool.   *)
(*                                                                         *)
(* All of it rests on one inductive invariant, Inv: where serveAgent of a  *)
(* session is determines whether the session is tracked, joined, listed    *)
(* and open, and nobody but serveAgent touches a session before it joined. *)
(***************************************************************************)
EXTENDS Registry, FiniteSetTheorems, TLAPS

Probing == {"candidates", "probe", "retiring"}
In == {"serving", "left"}

\* What the position of serveAgent of s says about s.
Life(s) ==
    /\ s \in all <=> pc[s] \notin {"none", "track", "done"}
    /\ s \in wasJoined <=> pc[s] \in In
    /\ pc[s] \in {"none", "left", "refused", "done"} => link[s] = "closed"
    /\ pc[s] \in Probing => probed[s] # "no"
    /\ pc[s] = "register" \/ (pc[s] \in Probing /\ probed[s] = "post") => s \in listed
    /\ s \in listed => \/ pc[s] \in {"register", "unlist", "serving"}
                       \/ pc[s] \in Probing /\ probed[s] = "post"

\* A session in the pool has joined, is not retired or being evicted, and is
\* listed while it is open.
Pooled(s) ==
    s \in pool => /\ s \in wasJoined
                  /\ retire[s] # "done"
                  /\ s \notin evicting
                  /\ link[s] # "closed" => s \in listed

\* Whoever holds a session besides its own serveAgent got it from the pool.
FromPool(s) ==
    /\ retire[s] # "no" => pc[s] \in In \cup {"done"}
    /\ s \in evicting => pc[s] \in In \cup {"done"}
    /\ \A t \in Session : s \in todo[t] => pc[s] \in In \cup {"done"}

Inv ==
    /\ TypeOK
    /\ ExclusivePool
    /\ \A s \in Session : Life(s) /\ Pooled(s) /\ FromPool(s)

USE RegistryAssumption

\* The initial state, in which no connection has been accepted.
LEMMA InitInv == Init => Inv
<1> SUFFICES ASSUME Init
             PROVE  Inv
  OBVIOUS
<1>1. TypeOK
  <2>1. 0 \in 0..MaxSharedSessions
    OBVIOUS
  <2>2. /\ joined \in [Fingerprint -> 0..MaxSharedSessions]
        /\ pending \in [Fingerprint -> 0..MaxSharedSessions]
    BY <2>1 DEF Init
  <2>3. /\ pc \in [Session -> Label]
        /\ link \in [Session -> {"closed", "up", "goaway"}]
        /\ retire \in [Session -> {"no", "marked", "done"}]
        /\ probed \in [Session -> {"no", "pre", "post"}]
        /\ todo \in [Session -> SUBSET Session]
    BY DEF Init, Label
  <2> QED
    BY <2>2, <2>3 DEF Init, TypeOK
<1>2. ExclusivePool
  BY DEF Init, ExclusivePool
<1>3. ASSUME NEW s \in Session
      PROVE  Life(s) /\ Pooled(s) /\ FromPool(s)
  BY DEF Init, Life, Pooled, FromPool, Probing, In
<1> QED
  BY <1>1, <1>2, <1>3 DEF Inv

\* Each step of a serveAgent, of a request, of an agent's control stream, of the
\* shutdown and of the environment preserves Inv.
LEMMA NextInv == Inv /\ [Next]_vars => Inv'
<1> SUFFICES ASSUME Inv, [Next]_vars
             PROVE  Inv'
  OBVIOUS
<1> USE DEF Inv
<1>1. CASE CloseAll
  <2>1. TypeOK'
    BY <1>1 DEF TypeOK, Label, CloseAll, serveVars, regVars
  <2>2. ExclusivePool'
    BY <1>1 DEF TypeOK, ExclusivePool, CloseAll, serveVars, regVars
  <2>3. ASSUME NEW t \in Session
        PROVE  (Life(t) /\ Pooled(t) /\ FromPool(t))'
    BY <1>1 DEF TypeOK, Life, Pooled, FromPool, In, Probing, CloseAll,
           serveVars, regVars
  <2> QED
    BY <2>1, <2>2, <2>3
<1>2. ASSUME NEW s \in Session, Handshake(s)
      PROVE  Inv'
  <2>1. TypeOK'
    BY <1>2 DEF TypeOK, Label, Handshake, regVars, Goto
  <2>2. ExclusivePool'
    BY <1>2 DEF TypeOK, ExclusivePool, Handshake, regVars, Goto
  <2>3. ASSUME NEW t \in Session
        PROVE  (Life(t) /\ Pooled(t) /\ FromPool(t))'
    BY <1>2 DEF TypeOK, Life, Pooled, FromPool, In, Probing, Handshake,
           regVars, Goto
  <2> QED
    BY <2>1, <2>2, <2>3
<1>3. ASSUME NEW s \in Session, Track(s)
      PROVE  Inv'
  <2>1. TypeOK'
    BY <1>3 DEF TypeOK, Label, Track, Goto, Close
  <2>2. ExclusivePool'
    BY <1>3 DEF TypeOK, ExclusivePool, Track, Goto, Close
  <2>3. ASSUME NEW t \in Session
        PROVE  (Life(t) /\ Pooled(t) /\ FromPool(t))'
    BY <1>3 DEF TypeOK, Life, Pooled, FromPool, In, Probing, Track, Goto,
           Close
  <2> QED
    BY <2>1, <2>2, <2>3
<1>4. ASSUME NEW s \in Session, Precheck(s)
      PROVE  Inv'
  <2>1. TypeOK'
    BY <1>4 DEF TypeOK, Label, Precheck, Goto, Pruned, Duplicate, Live, open
  <2>2. ExclusivePool'
    BY <1>4 DEF TypeOK, ExclusivePool, Precheck, Goto, Pruned, Duplicate,
           Live, open
  <2>3. ASSUME NEW t \in Session
        PROVE  (Life(t) /\ Pooled(t) /\ FromPool(t))'
    BY <1>4 DEF TypeOK, Life, Pooled, FromPool, In, Probing, Precheck, Goto,
           Pruned, Duplicate, Live, open
  <2> QED
    BY <2>1, <2>2, <2>3
<1>5. ASSUME NEW s \in Session, Candidates(s)
      PROVE  Inv'
  <2>1. TypeOK'
    BY <1>5 DEF TypeOK, Label, Candidates, regVars, Goto, Live, open
  <2>2. ExclusivePool'
    BY <1>5 DEF TypeOK, ExclusivePool, Candidates, regVars, Goto, Live, open
  <2>3. ASSUME NEW t \in Session
        PROVE  (Life(t) /\ Pooled(t) /\ FromPool(t))'
    BY <1>5 DEF TypeOK, Life, Pooled, FromPool, In, Probing, Candidates,
           regVars, Goto, Live, open
  <2> QED
    BY <2>1, <2>2, <2>3
<1>6. ASSUME NEW s \in Session, Probed(s)
      PROVE  Inv'
  <2>1. TypeOK'
    BY <1>6 DEF TypeOK, Label, Probed, regVars, Goto
  <2>2. ExclusivePool'
    BY <1>6 DEF TypeOK, ExclusivePool, Probed, regVars, Goto
  <2>3. ASSUME NEW t \in Session
        PROVE  (Life(t) /\ Pooled(t) /\ FromPool(t))'
    BY <1>6 DEF TypeOK, Life, Pooled, FromPool, In, Probing, Probed, regVars,
           Goto
  <2> QED
    BY <2>1, <2>2, <2>3
<1>7. ASSUME NEW s \in Session, Recheck(s)
      PROVE  Inv'
  <2>1. TypeOK'
    BY <1>7 DEF TypeOK, Label, Recheck, Goto, Pruned, Duplicate, Live, open
  <2>2. ExclusivePool'
    BY <1>7 DEF TypeOK, ExclusivePool, Recheck, Goto, Pruned, Duplicate, Live,
           open
  <2>3. ASSUME NEW t \in Session
        PROVE  (Life(t) /\ Pooled(t) /\ FromPool(t))'
    BY <1>7 DEF TypeOK, Life, Pooled, FromPool, In, Probing, Recheck, Goto,
           Pruned, Duplicate, Live, open
  <2> QED
    BY <2>1, <2>2, <2>3
<1>8. ASSUME NEW s \in Session, Ping(s)
      PROVE  Inv'
  <2>1. TypeOK'
    BY <1>8 DEF TypeOK, Label, Ping, regVars, Goto, open
  <2>2. ExclusivePool'
    BY <1>8 DEF TypeOK, ExclusivePool, Ping, regVars, Goto, open
  <2>3. ASSUME NEW t \in Session
        PROVE  (Life(t) /\ Pooled(t) /\ FromPool(t))'
    BY <1>8 DEF TypeOK, Life, Pooled, FromPool, In, Probing, Ping, regVars,
           Goto, open
  <2> QED
    BY <2>1, <2>2, <2>3
<1>9. ASSUME NEW s \in Session, Register(s)
      PROVE  Inv'
  <2>1. TypeOK'
    BY <1>9 DEF TypeOK, Label, Register, Goto, RegisterConn, Registration,
           Pruned, Duplicate, Live, open, Decrement
  <2>2. ExclusivePool'
    BY <1>9 DEF TypeOK, ExclusivePool, Register, Goto, RegisterConn,
           Registration, Pruned, Duplicate, Live, open, Decrement
  <2>3. ASSUME NEW t \in Session
        PROVE  (Life(t) /\ Pooled(t) /\ FromPool(t))'
    BY <1>9 DEF TypeOK, Life, Pooled, FromPool, In, Probing, Register, Goto,
           RegisterConn, Registration, Pruned, Duplicate, Live, open,
           Decrement
  <2> QED
    BY <2>1, <2>2, <2>3
<1>10. ASSUME NEW s \in Session, Unlist(s)
      PROVE  Inv'
  <2>1. TypeOK'
    BY <1>10 DEF TypeOK, Label, Unlist, regVars, Goto
  <2>2. ExclusivePool'
    BY <1>10 DEF TypeOK, ExclusivePool, Unlist, regVars, Goto
  <2>3. ASSUME NEW t \in Session
        PROVE  (Life(t) /\ Pooled(t) /\ FromPool(t))'
    BY <1>10 DEF TypeOK, Life, Pooled, FromPool, In, Probing, Unlist, regVars,
           Goto
  <2> QED
    BY <2>1, <2>2, <2>3
<1>11. ASSUME NEW s \in Session, CloseRefused(s)
      PROVE  Inv'
  <2>1. TypeOK'
    BY <1>11 DEF TypeOK, Label, CloseRefused, regVars, Goto, Close
  <2>2. ExclusivePool'
    BY <1>11 DEF TypeOK, ExclusivePool, CloseRefused, regVars, Goto, Close
  <2>3. ASSUME NEW t \in Session
        PROVE  (Life(t) /\ Pooled(t) /\ FromPool(t))'
    BY <1>11 DEF TypeOK, Life, Pooled, FromPool, In, Probing, CloseRefused,
           regVars, Goto, Close
  <2> QED
    BY <2>1, <2>2, <2>3
<1>12. ASSUME NEW s \in Session, Disconnected(s)
      PROVE  Inv'
  <2>1. TypeOK'
    BY <1>12 DEF TypeOK, Label, Disconnected, regVars, Goto, open
  <2>2. ExclusivePool'
    BY <1>12 DEF TypeOK, ExclusivePool, Disconnected, regVars, Goto, open
  <2>3. ASSUME NEW t \in Session
        PROVE  (Life(t) /\ Pooled(t) /\ FromPool(t))'
    BY <1>12 DEF TypeOK, Life, Pooled, FromPool, In, Probing, Disconnected,
           regVars, Goto, open
  <2> QED
    BY <2>1, <2>2, <2>3
<1>13. ASSUME NEW s \in Session, Drop(s)
      PROVE  Inv'
  <2>1. TypeOK'
    BY <1>13 DEF TypeOK, Label, Drop, regVars, Goto, Decrement
  <2>2. ExclusivePool'
    BY <1>13 DEF TypeOK, ExclusivePool, Drop, regVars, Goto, Decrement
  <2>3. ASSUME NEW t \in Session
        PROVE  (Life(t) /\ Pooled(t) /\ FromPool(t))'
    BY <1>13 DEF TypeOK, Life, Pooled, FromPool, In, Probing, Drop, regVars,
           Goto, Decrement
  <2> QED
    BY <2>1, <2>2, <2>3
<1>14. ASSUME NEW s \in Session, RetireMark(s)
      PROVE  Inv'
  <2>1. TypeOK'
    BY <1>14 DEF TypeOK, Label, RetireMark, serveVars, regVars, Known
  <2>2. ExclusivePool'
    BY <1>14 DEF TypeOK, ExclusivePool, RetireMark, serveVars, regVars, Known
  <2>3. ASSUME NEW t \in Session
        PROVE  (Life(t) /\ Pooled(t) /\ FromPool(t))'
    BY <1>14 DEF TypeOK, Life, Pooled, FromPool, In, Probing, RetireMark,
           serveVars, regVars, Known
  <2> QED
    BY <2>1, <2>2, <2>3
<1>15. ASSUME NEW s \in Session, RetireTake(s)
      PROVE  Inv'
  <2>1. TypeOK'
    BY <1>15 DEF TypeOK, Label, RetireTake, serveVars
  <2>2. ExclusivePool'
    BY <1>15 DEF TypeOK, ExclusivePool, RetireTake, serveVars
  <2>3. ASSUME NEW t \in Session
        PROVE  (Life(t) /\ Pooled(t) /\ FromPool(t))'
    BY <1>15 DEF TypeOK, Life, Pooled, FromPool, In, Probing, RetireTake,
           serveVars
  <2> QED
    BY <2>1, <2>2, <2>3
<1>16. ASSUME NEW s \in Session, EvictTake(s)
      PROVE  Inv'
  <2>1. TypeOK'
    BY <1>16 DEF TypeOK, Label, EvictTake, serveVars, Known
  <2>2. ExclusivePool'
    BY <1>16 DEF TypeOK, ExclusivePool, EvictTake, serveVars, Known
  <2>3. ASSUME NEW t \in Session
        PROVE  (Life(t) /\ Pooled(t) /\ FromPool(t))'
    BY <1>16 DEF TypeOK, Life, Pooled, FromPool, In, Probing, EvictTake,
           serveVars, Known
  <2> QED
    BY <2>1, <2>2, <2>3
<1>17. ASSUME NEW s \in Session, EvictUnlist(s)
      PROVE  Inv'
  <2>1. TypeOK'
    BY <1>17 DEF TypeOK, Label, EvictUnlist, serveVars, regVars, open
  <2>2. ExclusivePool'
    BY <1>17 DEF TypeOK, ExclusivePool, EvictUnlist, serveVars, regVars, open
  <2>3. ASSUME NEW t \in Session
        PROVE  (Life(t) /\ Pooled(t) /\ FromPool(t))'
    BY <1>17 DEF TypeOK, Life, Pooled, FromPool, In, Probing, EvictUnlist,
           serveVars, regVars, open
  <2> QED
    BY <2>1, <2>2, <2>3
<1>18. ASSUME NEW s \in Session, CloseSession(s)
      PROVE  Inv'
  <2>1. TypeOK'
    BY <1>18 DEF TypeOK, Label, CloseSession, serveVars, regVars, Close
  <2>2. ExclusivePool'
    BY <1>18 DEF TypeOK, ExclusivePool, CloseSession, serveVars, regVars,
           Close
  <2>3. ASSUME NEW t \in Session
        PROVE  (Life(t) /\ Pooled(t) /\ FromPool(t))'
    BY <1>18 DEF TypeOK, Life, Pooled, FromPool, In, Probing, CloseSession,
           serveVars, regVars, Close
  <2> QED
    BY <2>1, <2>2, <2>3
<1>19. ASSUME NEW s \in Session, AgentGoesAway(s)
      PROVE  Inv'
  <2>1. TypeOK'
    BY <1>19 DEF TypeOK, Label, AgentGoesAway, serveVars, regVars
  <2>2. ExclusivePool'
    BY <1>19 DEF TypeOK, ExclusivePool, AgentGoesAway, serveVars, regVars
  <2>3. ASSUME NEW t \in Session
        PROVE  (Life(t) /\ Pooled(t) /\ FromPool(t))'
    BY <1>19 DEF TypeOK, Life, Pooled, FromPool, In, Probing, AgentGoesAway,
           serveVars, regVars
  <2> QED
    BY <2>1, <2>2, <2>3
<1>20. ASSUME NEW s \in Session, SessionDies(s)
      PROVE  Inv'
  <2>1. TypeOK'
    BY <1>20 DEF TypeOK, Label, SessionDies, serveVars, regVars, Close, open
  <2>2. ExclusivePool'
    BY <1>20 DEF TypeOK, ExclusivePool, SessionDies, serveVars, regVars,
           Close, open
  <2>3. ASSUME NEW t \in Session
        PROVE  (Life(t) /\ Pooled(t) /\ FromPool(t))'
    BY <1>20 DEF TypeOK, Life, Pooled, FromPool, In, Probing, SessionDies,
           serveVars, regVars, Close, open
  <2> QED
    BY <2>1, <2>2, <2>3
<1>21. ASSUME NEW s \in Session, NEW c \in Session, Probe(s, c)
      PROVE  Inv'
  <2>1. TypeOK'
    BY <1>21 DEF TypeOK, Label, Probe, regVars, Goto
  <2>2. ExclusivePool'
    BY <1>21 DEF TypeOK, ExclusivePool, Probe, regVars, Goto
  <2>3. ASSUME NEW t \in Session
        PROVE  (Life(t) /\ Pooled(t) /\ FromPool(t))'
    BY <1>21 DEF TypeOK, Life, Pooled, FromPool, In, Probing, Probe, regVars,
           Goto
  <2> QED
    BY <2>1, <2>2, <2>3
<1>22. CASE UNCHANGED vars
  <2>1. TypeOK'
    BY <1>22 DEF TypeOK, Label, vars, serveVars, regVars
  <2>2. ExclusivePool'
    BY <1>22 DEF TypeOK, ExclusivePool, vars, serveVars, regVars
  <2>3. ASSUME NEW t \in Session
        PROVE  (Life(t) /\ Pooled(t) /\ FromPool(t))'
    BY <1>22 DEF TypeOK, Life, Pooled, FromPool, In, Probing, vars, serveVars,
           regVars
  <2> QED
    BY <2>1, <2>2, <2>3
<1> QED
  BY <1>1, <1>2, <1>3, <1>4, <1>5, <1>6, <1>7, <1>8, <1>9, <1>10, <1>11,
     <1>12, <1>13, <1>14, <1>15, <1>16, <1>17, <1>18, <1>19, <1>20, <1>21,
     <1>22 DEF Next, ServeAgent

\* Inv holds in every reachable state.
THEOREM Invariance == Spec => []Inv
  BY InitInv, NextInv, PTL DEF Spec

-----------------------------------------------------------------------------
(***************************************************************************)
(* What Inv implies.                                                       *)
(***************************************************************************)
\* Type correctness; joined and pending never exceed maxSharedSessions.
THEOREM TypeCorrect == Spec => []TypeOK
<1>1. Inv => TypeOK
  BY DEF Inv
<1> QED
  BY <1>1, Invariance, PTL

\* registerConn: an exclusive certificate never has two sessions in the pool.
THEOREM Exclusive == Spec => []ExclusivePool
<1>1. Inv => ExclusivePool
  BY DEF Inv
<1> QED
  BY <1>1, Invariance, PTL

\* track and registerConn: a pooled session is tracked and counted as joined.
THEOREM Tracked == Spec => []PooledIsTracked
<1>1. Inv => PooledIsTracked
  BY DEF Inv, Pooled, PooledIsTracked, TypeOK
<1> QED
  BY <1>1, Invariance, PTL

\* serveAgent and evict: a live pooled session is listed in the status.
THEOREM Listed == Spec => []PooledIsListed
<1>1. Inv => PooledIsListed
  BY DEF Inv, Pooled, PooledIsListed, TypeOK, open
<1> QED
  BY <1>1, Invariance, PTL

\* serveAgent: when it has returned its session is left nowhere.
THEOREM LeftNowhere == Spec => []NothingLeftBehind
<1>1. Inv => NothingLeftBehind
  BY DEF Inv, Life, Pooled, NothingLeftBehind, TypeOK, open, In, Probing
<1> QED
  BY <1>1, Invariance, PTL

\* retire: a session it has taken out of the pool does not come back.
THEOREM StaysOut == Spec => []RetiredStaysOut
<1>1. Inv => RetiredStaysOut
  BY DEF Inv, Pooled, RetiredStaysOut, TypeOK
<1> QED
  BY <1>1, Invariance, PTL

\* registerConn, drop and the newcomers' checks displace nobody: a live session
\* leaves the pool only because retire or evict takes it.
THEOREM NobodyDisplaced == Spec => NoDisplacement
<1>1. Inv /\ [Next]_vars =>
        [\A s \in (pool \cap open) \ pool' :
            \/ retire[s] = "marked" /\ retire'[s] = "done"
            \/ s \in evicting' \ evicting]_vars
  <2> SUFFICES ASSUME Inv, Next, NEW s \in (pool \cap open) \ pool'
               PROVE  \/ retire[s] = "marked" /\ retire'[s] = "done"
                      \/ s \in evicting' \ evicting
    OBVIOUS
  <2>1. s \in Session /\ link[s] # "closed" /\ s \notin evicting /\ pc[s] \in In
    BY DEF Inv, TypeOK, Pooled, Life, open
  <2>2. ASSUME NEW t \in Session, RetireTake(t) \/ EvictTake(t)
        PROVE  \/ retire[s] = "marked" /\ retire'[s] = "done"
               \/ s \in evicting' \ evicting
    BY <2>1, <2>2 DEF RetireTake, EvictTake, Inv, TypeOK
  <2>3. ASSUME NEW t \in Session, Drop(t)
        PROVE  FALSE
    BY <2>1, <2>3 DEF Drop, Inv, Life, In, regVars
  <2>4. ASSUME NEW t \in Session, Precheck(t) \/ Recheck(t) \/ Register(t)
        PROVE  FALSE
    BY <2>1, <2>4 DEF Precheck, Recheck, Register, RegisterConn, Pruned, open
  <2> QED
    BY <2>2, <2>3, <2>4 DEF Next, ServeAgent, CloseAll, Handshake, Track,
           Candidates, Probe, Probed, Ping, Unlist, CloseRefused, Disconnected,
           RetireMark, EvictUnlist, CloseSession, AgentGoesAway, SessionDies,
           regVars
<1> QED
  BY <1>1, Invariance, PTL DEF Spec, NoDisplacement

\* closeAll: from then on no session is tracked or pooled.
THEOREM ClosedToNewcomers == Spec => ClosingAdmitsNone
<1>1. [Next]_vars => [closing => pool' \subseteq pool /\ all' \subseteq all]_vars
  <2> SUFFICES ASSUME Next, closing
               PROVE  pool' \subseteq pool /\ all' \subseteq all
    OBVIOUS
  <2>1. ASSUME NEW s \in Session, Register(s)
        PROVE  pool' \subseteq pool /\ all' \subseteq all
    BY <2>1 DEF Register, Registration, RegisterConn, Pruned
  <2>2. ASSUME NEW s \in Session, Track(s) \/ Precheck(s) \/ Recheck(s) \/ Drop(s)
        PROVE  pool' \subseteq pool /\ all' \subseteq all
    BY <2>2 DEF Track, Precheck, Recheck, Drop, Pruned, regVars
  <2> QED
    BY <2>1, <2>2 DEF Next, ServeAgent, CloseAll, Handshake, Candidates, Probe,
           Probed, Ping, Unlist, CloseRefused, Disconnected, RetireMark,
           RetireTake, EvictTake, EvictUnlist, CloseSession, AgentGoesAway,
           SessionDies, regVars
<1> QED
  BY <1>1, PTL DEF Spec, ClosingAdmitsNone

-----------------------------------------------------------------------------
(***************************************************************************)
(* The counters.  Only track, registerConn and drop move a session between *)
(* the sets that pending and joined count, one session at a time.          *)
(***************************************************************************)
\* The counted sets are finite, and one session more or less changes their
\* size by one.
LEMMA CountOne ==
  ASSUME NEW S, IsFiniteSet(S), NEW x
  PROVE  /\ Cardinality(S) \in Nat
         /\ x \notin S => Cardinality(S \cup {x}) = Cardinality(S) + 1
         /\ x \in S => Cardinality(S \ {x}) = Cardinality(S) - 1
         /\ x \in S => Cardinality(S) > 0
<1>1. Cardinality(S) \in Nat
  BY FS_CardinalityType
<1>2. x \notin S => Cardinality(S \cup {x}) = Cardinality(S) + 1
  BY FS_AddElement
<1>3. x \in S => Cardinality(S \ {x}) = Cardinality(S) - 1
  BY FS_RemoveElement
<1>4. x \in S => Cardinality(S) # 0
  BY FS_EmptySet
<1> QED
  BY <1>1, <1>2, <1>3, <1>4

\* What the counters count: finite, as they are sets of sessions.
LEMMA CountedFinite ==
  ASSUME TypeOK, NEW fp
  PROVE  IsFiniteSet(PendingOf(fp)) /\ IsFiniteSet(JoinedOf(fp))
<1>1. PendingOf(fp) \subseteq Session /\ JoinedOf(fp) \subseteq Session
  BY DEF TypeOK, PendingOf, JoinedOf
<1> QED
  BY <1>1, FS_Subset

\* registry.track: one more session is pending, and pending goes up by one.
LEMMA TrackCounts ==
  ASSUME Inv, CountersExact, NEW s \in Session, Track(s)
  PROVE  CountersExact'
<1> USE DEF Inv
<1> SUFFICES ASSUME NEW fp \in Fingerprint
             PROVE  /\ pending'[fp] = Cardinality(PendingOf(fp)')
                    /\ joined'[fp] = Cardinality(JoinedOf(fp)')
  BY DEF CountersExact
<1>1. s \notin all
  BY DEF Life, Track
<1>2. JoinedOf(fp)' = JoinedOf(fp) /\ joined' = joined
  BY DEF JoinedOf, Track
<1>3. CASE all' = all
  BY <1>1, <1>2, <1>3 DEF Track, PendingOf, CountersExact
<1>4. CASE all' = all \cup {s} /\ FpOf[s] # fp
  <2>1. PendingOf(fp)' = PendingOf(fp)
    BY <1>4 DEF PendingOf, Track
  <2>2. pending'[fp] = pending[fp]
    BY <1>4, <1>1 DEF Track, TypeOK
  <2> QED
    BY <1>2, <2>1, <2>2 DEF CountersExact
<1>5. CASE all' = all \cup {s} /\ FpOf[s] = fp
  <2>1. PendingOf(fp)' = PendingOf(fp) \cup {s} /\ s \notin PendingOf(fp)
    BY <1>1, <1>5 DEF PendingOf, Track, TypeOK
  <2>2. pending'[fp] = pending[fp] + 1
    BY <1>1, <1>5 DEF Track, TypeOK
  <2> QED
    BY <1>2, <2>1, <2>2, CountOne, CountedFinite DEF CountersExact
<1> QED
  BY <1>3, <1>4, <1>5 DEF Track

\* registry.registerConn: a session it pools moves from pending to joined.
LEMMA RegisterCounts ==
  ASSUME Inv, CountersExact, NEW s \in Session, Register(s)
  PROVE  CountersExact'
<1> USE DEF Inv
<1> SUFFICES ASSUME NEW fp \in Fingerprint
             PROVE  /\ pending'[fp] = Cardinality(PendingOf(fp)')
                    /\ joined'[fp] = Cardinality(JoinedOf(fp)')
  BY DEF CountersExact
<1>1. s \in all /\ s \notin wasJoined /\ all' = all
  BY DEF Life, In, Register, RegisterConn
<1>2. CASE Registration(s) # "registered"
  <2>1. UNCHANGED <<wasJoined, joined, pending>>
    BY <1>2 DEF Register, RegisterConn
  <2> QED
    BY <1>1, <2>1 DEF CountersExact, PendingOf, JoinedOf
<1>3. CASE Registration(s) = "registered"
  <2>1. /\ wasJoined' = wasJoined \cup {s}
        /\ joined' = [joined EXCEPT ![FpOf[s]] = @ + 1]
        /\ pending' = Decrement(pending, FpOf[s])
    BY <1>1, <1>3 DEF Register, RegisterConn
  <2>2. CASE FpOf[s] # fp
    <3>1. PendingOf(fp)' = PendingOf(fp) /\ JoinedOf(fp)' = JoinedOf(fp)
      BY <1>1, <2>1, <2>2 DEF PendingOf, JoinedOf
    <3>2. pending'[fp] = pending[fp] /\ joined'[fp] = joined[fp]
      BY <2>1, <2>2 DEF TypeOK, Decrement
    <3> QED
      BY <3>1, <3>2 DEF CountersExact
  <2>3. CASE FpOf[s] = fp
    <3>1. /\ PendingOf(fp)' = PendingOf(fp) \ {s} /\ s \in PendingOf(fp)
          /\ JoinedOf(fp)' = JoinedOf(fp) \cup {s} /\ s \notin JoinedOf(fp)
      BY <1>1, <2>1, <2>3 DEF PendingOf, JoinedOf
    <3>2. pending[fp] > 0
      BY <3>1, CountOne, CountedFinite DEF CountersExact
    <3>3. pending'[fp] = pending[fp] - 1 /\ joined'[fp] = joined[fp] + 1
      BY <2>1, <2>3, <3>2 DEF TypeOK, Decrement
    <3> QED
      BY <3>1, <3>3, CountOne, CountedFinite DEF CountersExact
  <2> QED
    BY <2>2, <2>3
<1> QED
  BY <1>2, <1>3

\* registry.drop: the session leaves the set it is counted in.
LEMMA DropCounts ==
  ASSUME Inv, CountersExact, NEW s \in Session, Drop(s)
  PROVE  CountersExact'
<1> USE DEF Inv
<1> SUFFICES ASSUME NEW fp \in Fingerprint
             PROVE  /\ pending'[fp] = Cardinality(PendingOf(fp)')
                    /\ joined'[fp] = Cardinality(JoinedOf(fp)')
  BY DEF CountersExact
<1>1. s \in all /\ all' = all \ {s} /\ wasJoined' = wasJoined \ {s}
  BY DEF Life, Drop
<1>2. CASE s \in wasJoined
  <2>1. joined' = Decrement(joined, FpOf[s]) /\ pending' = pending
    BY <1>1, <1>2 DEF Drop
  <2>2. PendingOf(fp)' = PendingOf(fp)
    BY <1>1, <1>2 DEF PendingOf
  <2>3. CASE FpOf[s] # fp
    <3>1. JoinedOf(fp)' = JoinedOf(fp) /\ joined'[fp] = joined[fp]
      BY <1>1, <2>1, <2>3 DEF JoinedOf, TypeOK, Decrement
    <3> QED
      BY <2>1, <2>2, <3>1 DEF CountersExact
  <2>4. CASE FpOf[s] = fp
    <3>1. JoinedOf(fp)' = JoinedOf(fp) \ {s} /\ s \in JoinedOf(fp)
      BY <1>1, <1>2, <2>4 DEF JoinedOf
    <3>2. joined[fp] > 0
      BY <3>1, CountOne, CountedFinite DEF CountersExact
    <3>3. joined'[fp] = joined[fp] - 1
      BY <2>1, <2>4, <3>2 DEF TypeOK, Decrement
    <3> QED
      BY <2>1, <2>2, <3>1, <3>3, CountOne, CountedFinite DEF CountersExact
  <2> QED
    BY <2>3, <2>4
<1>3. CASE s \notin wasJoined
  <2>1. pending' = Decrement(pending, FpOf[s]) /\ joined' = joined
    BY <1>1, <1>3 DEF Drop
  <2>2. JoinedOf(fp)' = JoinedOf(fp)
    BY <1>1, <1>3 DEF JoinedOf
  <2>3. CASE FpOf[s] # fp
    <3>1. PendingOf(fp)' = PendingOf(fp) /\ pending'[fp] = pending[fp]
      BY <1>1, <2>1, <2>3 DEF PendingOf, TypeOK, Decrement
    <3> QED
      BY <2>1, <2>2, <3>1 DEF CountersExact
  <2>4. CASE FpOf[s] = fp
    <3>1. PendingOf(fp)' = PendingOf(fp) \ {s} /\ s \in PendingOf(fp)
      BY <1>1, <1>3, <2>4 DEF PendingOf
    <3>2. pending[fp] > 0
      BY <3>1, CountOne, CountedFinite DEF CountersExact
    <3>3. pending'[fp] = pending[fp] - 1
      BY <2>1, <2>4, <3>2 DEF TypeOK, Decrement
    <3> QED
      BY <2>1, <2>2, <3>1, <3>3, CountOne, CountedFinite DEF CountersExact
  <2> QED
    BY <2>3, <2>4
<1> QED
  BY <1>2, <1>3

\* track, registerConn and drop: the counters of a certificate are the numbers
\* of its tracked sessions that have not, and that have, joined.
THEOREM CountersAreExact == Spec => []CountersExact
<1>1. Init => CountersExact
  <2> SUFFICES ASSUME Init, NEW fp \in Fingerprint
               PROVE  /\ pending[fp] = Cardinality(PendingOf(fp))
                      /\ joined[fp] = Cardinality(JoinedOf(fp))
    BY DEF CountersExact
  <2>1. PendingOf(fp) = {} /\ JoinedOf(fp) = {}
    BY DEF Init, PendingOf, JoinedOf
  <2>2. pending[fp] = 0 /\ joined[fp] = 0
    BY DEF Init
  <2> QED
    BY <2>1, <2>2, FS_EmptySet
<1>2. Inv /\ CountersExact /\ [Next]_vars => CountersExact'
  <2> SUFFICES ASSUME Inv, CountersExact, [Next]_vars
               PROVE  CountersExact'
    OBVIOUS
  <2>1. CASE UNCHANGED <<all, wasJoined, joined, pending>>
    BY <2>1 DEF CountersExact, PendingOf, JoinedOf
  <2>2. \/ UNCHANGED <<all, wasJoined, joined, pending>>
        \/ \E s \in Session : Track(s) \/ Register(s) \/ Drop(s)
    BY DEF Next, ServeAgent, CloseAll, Handshake, Precheck, Candidates, Probe,
           Probed, Recheck, Ping, Unlist, CloseRefused, Disconnected,
           RetireMark, RetireTake, EvictTake, EvictUnlist, CloseSession,
           AgentGoesAway, SessionDies, regVars, vars
  <2> QED
    BY <2>1, <2>2, TrackCounts, RegisterCounts, DropCounts
<1> QED
  BY <1>1, <1>2, Invariance, PTL DEF Spec

-----------------------------------------------------------------------------
(***************************************************************************)
(* Registry implements AgentPool: registerConn is Join; a close, a retire  *)
(* or an eviction of a serving session is Leave; the end of the serveAgent *)
(* of a session that never joined is Refuse; closeAll is Shut; every other *)
(* step leaves the abstract state alone.                                   *)
(***************************************************************************)
\* A session that closes, or that is taken out of the pool, leaves.
LEMMA LeaveStep ==
  ASSUME Inv, NEW s \in Session, UNCHANGED <<pc, wasJoined, closing>>,
         Serving' = Serving \ {s}
  PROVE  Abstract!Leave(s) \/ UNCHANGED <<Serving, Left, closing>>
<1>1. Left' = Left \cup (Serving \cap {s})
  BY DEF Inv, TypeOK, Left, Serving, Pooled
<1>2. CASE s \in Serving
  BY <1>1, <1>2 DEF Abstract!Leave
<1>3. CASE s \notin Serving
  BY <1>1, <1>3
<1> QED
  BY <1>2, <1>3

\* The serveAgent of a session that never joined returns: it was refused.
LEMMA RefuseStep ==
  ASSUME Inv, NEW s \in Session, pc[s] \notin In \cup {"done"},
         Goto(s, "done"), UNCHANGED <<wasJoined, closing>>, Serving' = Serving
  PROVE  Abstract!Refuse(s)
<1>1. s \notin wasJoined /\ s \notin Serving
  BY DEF Inv, Life, Pooled, Serving
<1>2. s \notin Left
  BY <1>1 DEF Left, In
<1>3. Left' = Left \cup {s}
  BY DEF Left, Goto, Inv, TypeOK
<1> QED
  BY <1>1, <1>2, <1>3 DEF Abstract!Refuse

\* registerConn pools a session: it joins, or nothing changes.
LEMMA JoinStep ==
  ASSUME Inv, NEW s \in Session, Register(s)
  PROVE  Abstract!Join(s) \/ UNCHANGED <<Serving, Left, closing>>
<1>1. /\ open' = open /\ closing' = closing
      /\ s \in all /\ s \notin wasJoined /\ s \notin Serving
  BY DEF Inv, Life, Pooled, In, Register, Serving, open
<1>2. {t \in Session : pc[t] = "done"}' = {t \in Session : pc[t] = "done"}
  BY DEF Register, Goto, Inv, TypeOK
<1>3. CASE Registration(s) # "registered"
  <2>1. Serving' = Serving /\ wasJoined' = wasJoined
    BY <1>1, <1>3 DEF Register, RegisterConn, Pruned, Serving
  <2> QED
    BY <1>1, <1>2, <2>1 DEF Left
<1>4. CASE Registration(s) = "registered"
  <2>1. ~closing /\ s \in open /\ ~Duplicate(FpOf[s])
    BY <1>4 DEF Registration
  <2>2. Serving' = Serving \cup {s} /\ wasJoined' = wasJoined \cup {s}
    BY <1>1, <1>4, <2>1 DEF Register, RegisterConn, Pruned, Serving
  <2>3. Left' = Left
    BY <1>1, <1>2, <2>2 DEF Left
  <2>4. s \notin Left
    BY <1>1 DEF Left, Register
  <2>5. \A t \in Serving : FpOf[t] = FpOf[s] => FpOf[s] \in Shared
    BY <2>1 DEF Duplicate, Live, Serving
  <2> QED
    BY <1>1, <2>1, <2>2, <2>3, <2>4, <2>5 DEF Abstract!Join
<1> QED
  BY <1>3, <1>4

\* Every step of the registry is a step of AgentPool or changes nothing of it.
LEMMA StepSimulation ==
  Inv /\ [Next]_vars => [Abstract!Next]_<<Serving, Left, closing>>
<1> SUFFICES ASSUME Inv, [Next]_vars
             PROVE  Abstract!Next \/ UNCHANGED <<Serving, Left, closing>>
  OBVIOUS
<1> DEFINE Done == {t \in Session : pc[t] = "done"}
<1> DEFINE Same == UNCHANGED <<Serving, Left, closing>>
<1>1. CASE CloseAll
  <2>1. Serving' = Serving /\ Left' = Left
    BY <1>1 DEF CloseAll, Serving, Left, open, serveVars, regVars
  <2> QED
    BY <1>1, <2>1 DEF CloseAll, Abstract!Next, Abstract!Shut
<1>2. ASSUME NEW s \in Session, Handshake(s)
      PROVE  Abstract!Next \/ Same
  <2>1. s \notin pool
    BY <1>2 DEF Inv, Life, Pooled, Handshake, In
  <2>2. Serving' = Serving /\ UNCHANGED <<wasJoined, closing>>
    BY <1>2, <2>1 DEF Handshake, Serving, open, regVars, Inv, TypeOK
  <2>3. CASE Goto(s, "track")
    <3>1. Done' = Done
      BY <1>2, <2>3 DEF Handshake, Goto, Inv, TypeOK
    <3> QED
      BY <2>2, <3>1 DEF Left
  <2>4. CASE Goto(s, "done")
    BY <1>2, <2>2, <2>4, RefuseStep DEF Handshake, Abstract!Next, In
  <2> QED
    BY <1>2, <2>3, <2>4 DEF Handshake
<1>3. ASSUME NEW s \in Session, Track(s)
      PROVE  Abstract!Next \/ Same
  <2>1. s \notin pool
    BY <1>3 DEF Inv, Life, Pooled, Track, In
  <2>2. Serving' = Serving /\ UNCHANGED <<wasJoined, closing>>
    BY <1>3, <2>1 DEF Track, Close, Serving, open, Inv, TypeOK
  <2>3. CASE Goto(s, "precheck")
    <3>1. Done' = Done
      BY <1>3, <2>3 DEF Track, Goto, Inv, TypeOK
    <3> QED
      BY <2>2, <3>1 DEF Left
  <2>4. CASE Goto(s, "done")
    BY <1>3, <2>2, <2>4, RefuseStep DEF Track, Abstract!Next, In
  <2> QED
    BY <1>3, <2>3, <2>4 DEF Track
<1>4. ASSUME NEW s \in Session, Register(s)
      PROVE  Abstract!Next \/ Same
  BY <1>4, JoinStep DEF Abstract!Next
<1>5. ASSUME NEW s \in Session, Precheck(s) \/ Recheck(s)
      PROVE  Same
  <2>1. Serving' = Serving /\ UNCHANGED <<wasJoined, closing>>
    BY <1>5 DEF Precheck, Recheck, Pruned, Serving, open
  <2>2. Done' = Done
    BY <1>5 DEF Precheck, Recheck, Goto, Inv, TypeOK
  <2> QED
    BY <2>1, <2>2 DEF Left
<1>6. ASSUME NEW s \in Session, Candidates(s) \/ Probed(s) \/ Ping(s)
                                  \/ Unlist(s) \/ Disconnected(s)
      PROVE  Same
  <2>1. Serving' = Serving /\ UNCHANGED <<wasJoined, closing>>
    BY <1>6 DEF Candidates, Probed, Ping, Unlist, Disconnected, Serving, open,
           regVars
  <2>2. Done' = Done
    BY <1>6 DEF Candidates, Probed, Ping, Unlist, Disconnected, Goto, Inv,
           TypeOK
  <2> QED
    BY <2>1, <2>2 DEF Left
<1>7. ASSUME NEW s \in Session, NEW c \in Session, Probe(s, c)
      PROVE  Same
  <2>1. Serving' = Serving /\ UNCHANGED <<wasJoined, closing>>
    BY <1>7 DEF Probe, Serving, open, regVars
  <2>2. Done' = Done
    BY <1>7 DEF Probe, Goto, Inv, TypeOK
  <2> QED
    BY <2>1, <2>2 DEF Left
<1>8. ASSUME NEW s \in Session, CloseRefused(s)
      PROVE  Same
  <2>1. s \notin pool
    BY <1>8 DEF Inv, Life, Pooled, CloseRefused, In
  <2>2. Serving' = Serving /\ UNCHANGED <<wasJoined, closing>>
    BY <1>8, <2>1 DEF CloseRefused, Close, Serving, open, regVars, Inv, TypeOK
  <2>3. Done' = Done
    BY <1>8 DEF CloseRefused, Goto, Inv, TypeOK
  <2> QED
    BY <2>2, <2>3 DEF Left
<1>9. ASSUME NEW s \in Session, Drop(s)
      PROVE  Abstract!Next \/ Same
  <2>1. link[s] = "closed" /\ s \in all
    BY <1>9 DEF Inv, Life, Drop
  <2>2. Serving' = Serving /\ closing' = closing /\ wasJoined' = wasJoined \ {s}
    BY <1>9, <2>1 DEF Drop, Serving, open
  <2>3. CASE pc[s] = "refused"
    <3>1. s \notin wasJoined
      BY <2>3 DEF Inv, Life, In
    <3> QED
      BY <1>9, <2>2, <2>3, <3>1, RefuseStep DEF Drop, Abstract!Next, In
  <2>4. CASE pc[s] = "left"
    <3>1. s \in wasJoined /\ s \notin Serving
      BY <2>1, <2>4 DEF Inv, Life, In, Serving, open
    <3>2. Done' = Done \cup {s}
      BY <1>9 DEF Drop, Goto, Inv, TypeOK
    <3> QED
      BY <2>2, <3>1, <3>2 DEF Left
  <2> QED
    BY <1>9, <2>3, <2>4 DEF Drop
<1>10. ASSUME NEW s \in Session, RetireTake(s) \/ EvictTake(s)
       PROVE  Abstract!Next \/ Same
  <2>1. Serving' = Serving \ {s} /\ UNCHANGED <<pc, wasJoined, closing>>
    BY <1>10 DEF RetireTake, EvictTake, Serving, open, serveVars
  <2> QED
    BY <2>1, LeaveStep DEF Abstract!Next
<1>11. ASSUME NEW s \in Session, CloseSession(s) \/ SessionDies(s)
       PROVE  Abstract!Next \/ Same
  <2>1. open' = open \ {s} /\ UNCHANGED <<pc, pool, wasJoined, closing>>
    BY <1>11 DEF CloseSession, SessionDies, Close, open, serveVars, regVars,
           Inv, TypeOK
  <2>2. Serving' = Serving \ {s}
    BY <2>1 DEF Serving
  <2> QED
    BY <2>1, <2>2, LeaveStep DEF Abstract!Next
<1>12. ASSUME NEW s \in Session, RetireMark(s) \/ EvictUnlist(s) \/ AgentGoesAway(s)
       PROVE  Same
  <2>1. open' = open /\ UNCHANGED <<pc, pool, wasJoined, closing>>
    BY <1>12 DEF RetireMark, EvictUnlist, AgentGoesAway, open, serveVars,
           regVars, Inv, TypeOK
  <2> QED
    BY <2>1 DEF Serving, Left
<1>13. CASE UNCHANGED vars
  BY <1>13 DEF vars, serveVars, regVars, Serving, Left, open
<1> QED
  BY <1>1, <1>2, <1>3, <1>4, <1>5, <1>6, <1>7, <1>8, <1>9, <1>10, <1>11, <1>12,
     <1>13 DEF Next, ServeAgent

\* The registry implements AgentPool.
THEOREM Implements == Spec => ImplementsAgentPool
<1>1. Init => Abstract!Init
  BY DEF Init, Abstract!Init, Serving, Left
<1> QED
  BY <1>1, StepSimulation, Invariance, PTL DEF Spec, ImplementsAgentPool,
     Abstract!Spec, Abstract!vars
=============================================================================
