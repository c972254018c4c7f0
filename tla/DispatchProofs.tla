--------------------------- MODULE DispatchProofs ---------------------------
(***************************************************************************)
(* dispatch for any number of requests, sessions and routes: its accounts  *)
(* are exact, and it implements at-most-once delivery.                     *)
(*                                                                         *)
(* Everything dispatch does is, for these two, one of a few moves of one   *)
(* request: it takes or gives back a stream or neither, and is answered or *)
(* not.  ActionMoves shows that every action is such a move, and the rest  *)
(* looks only at moves.  Which session is picked does not matter, so       *)
(* nothing is needed of Balance.                                           *)
(***************************************************************************)
EXTENDS Dispatch, FiniteSetTheorems, TLAPS

Step == {"start", "look", "pick", "open", "accept", "send", "preamble", "serving", "wait", "done"}

\* Where a request has a stream, or one reserved.
Holding == {"open", "accept", "send", "preamble", "serving"}

Over == {"serving", "done"}

\* The requests with a stream on c.
On(c) == { r \in Request : c \in at[r] }

\* What is known of one request.
Life(r) ==
    /\ pc[r] \notin Holding => at[r] = {}
    /\ \A c, d \in at[r] : c = d
    /\ pc[r] \notin Over => answer[r] = "none"
    /\ answer[r] = "none" => holder[r] = {}
    /\ failures[r] = IF answer[r] \in {"noAgent", "failed"} THEN 1 ELSE 0

\* The inductive invariant: the accounts, and what ties a request's stream and
\* answer to where it is.
Inv ==
    /\ active \in [Session -> Int]
    /\ pc \in [Request -> Step]
    /\ answer \in [Request -> {"none", "ok", "noAgent", "failed"}]
    /\ failures \in [Request -> Int]
    /\ at = [r \in Request |-> at[r]]
    /\ holder = [r \in Request |-> holder[r]]
    /\ \A r \in Request : Life(r)
    /\ \A c \in Session : active[c] = Cardinality(On(c))

account == <<active, at, pc, holder, answer, failures>>

\* The moves of a request: its stream,
Stays == UNCHANGED <<active, at>>
Takes(r) ==
    \E c : /\ at[r] = {}
           /\ at' = [at EXCEPT ![r] = {c}]
           /\ active' = [active EXCEPT ![c] = active[c] + 1]
Gives(r) ==
    \E c : /\ at[r] = {c}
           /\ at' = [at EXCEPT ![r] = {}]
           /\ active' = [active EXCEPT ![c] = active[c] - 1]

\* its answer,
Unanswered == UNCHANGED <<holder, answer, failures>>
Answered(r, a, h) ==
    /\ answer[r] = "none"
    /\ answer' = [answer EXCEPT ![r] = a]
    /\ failures' = [failures EXCEPT ![r] = failures[r] + (IF a = "ok" THEN 0 ELSE 1)]
    /\ holder' = [holder EXCEPT ![r] = h]
Served1(r) == \E c \in Session : Answered(r, "ok", {c})
Refused1(r) == \E a \in {"noAgent", "failed"} : Answered(r, a, {})
Unknown1(r) == \E c \in Session : Answered(r, "failed", {c})

\* and where it goes.
Moves(r) ==
    /\ Stays \/ Takes(r) \/ Gives(r)
    /\ Unanswered \/ Served1(r) \/ Refused1(r) \/ Unknown1(r)
    /\ \E s \in Step :
        /\ pc' = [pc EXCEPT ![r] = s]
        /\ s \notin Holding => at'[r] = {}
        /\ s \notin Over => answer'[r] = "none"

USE DispatchAssumption

(***************************************************************************)
(* Every action is a move.                                                 *)
(***************************************************************************)

\* A request that is not over yet, answered at most as refused, moves to "wait"
\* or "done".
LEMMA NoAgentMoves ==
  ASSUME NEW r \in Request, NEW rd, Inv, NoAgent(r, rd), pc[r] \notin Over, at[r] = {},
         UNCHANGED <<active, at, holder>>
  PROVE  Moves(r)
<1>1. answer[r] = "none" /\ holder[r] = {}
  BY DEF Inv, Life
<1>2. holder' = [holder EXCEPT ![r] = {}]
  BY <1>1 DEF Inv
<1>3. PICK w : \/ w = "left" /\ Goto(r, "wait") /\ UNCHANGED <<answer, failures>>
               \/ Goto(r, "done") /\ Answer(r, "noAgent", 1)
  BY Zenon DEF NoAgent
<1>4. CASE Goto(r, "wait") /\ UNCHANGED <<answer, failures>>
  BY <1>1, <1>4 DEF Moves, Stays, Unanswered, Goto, Set, Step, Holding, Over
<1>5. CASE Goto(r, "done") /\ Answer(r, "noAgent", 1)
  <2>1. Answered(r, "noAgent", {})
    BY <1>1, <1>2, <1>5 DEF Answer, Answered, Set
  <2> QED  BY <1>5, <2>1 DEF Moves, Stays, Refused1, Goto, Set, Step, Holding, Over
<1> QED  BY <1>3, <1>4, <1>5

\* RoundEnds: the same, after a round that met a failure or none.
LEMMA RoundEndsMoves ==
  ASSUME NEW r \in Request, NEW late, Inv, RoundEnds(r, late), pc[r] \notin Over, at[r] = {},
         UNCHANGED <<active, at, holder>>
  PROVE  Moves(r)
<1>1. CASE round[r].broken
  <2>1. Goto(r, "done") /\ Answer(r, "failed", 1)
    BY <1>1 DEF RoundEnds
  <2>2. answer[r] = "none" /\ holder' = [holder EXCEPT ![r] = {}]
    BY DEF Inv, Life
  <2>3. Answered(r, "failed", {})
    BY <2>1, <2>2 DEF Answer, Answered, Set
  <2> QED  BY <2>1, <2>3 DEF Moves, Stays, Refused1, Goto, Set, Step, Holding, Over
<1>2. CASE ~round[r].broken
  <2>1. NoAgent(r, [round[r] EXCEPT !.late = late])
    BY <1>2 DEF RoundEnds
  <2> QED  BY <2>1, NoAgentMoves
<1> QED  BY <1>1, <1>2

\* A request that goes on without stream or answer being touched.
LEMMA GoesOn ==
  ASSUME NEW r \in Request, NEW s \in Step, Inv, pc' = [pc EXCEPT ![r] = s],
         UNCHANGED <<active, at, holder, answer, failures>>,
         s \notin Holding => at[r] = {}, pc[r] \notin Over
  PROVE  Moves(r)
BY DEF Moves, Stays, Unanswered, Inv, Life

\* tryAgent gives up on the session: the stream is given back.
LEMMA AttemptEnds ==
  ASSUME NEW r \in Request, NEW c \in Session, Inv, at[r] = {c}, pc[r] \notin Over,
         Unavailable(r, c) \/ Failed(r, c) \/ Unknown(r, c)
  PROVE  Moves(r)
<1>1. answer[r] = "none" /\ holder[r] = {}
  BY DEF Inv, Life
<1>2. at'[r] = {} /\ Gives(r)
  BY DEF Unavailable, Failed, Unknown, Release, Gives, Set, Inv
<1>3. CASE Unavailable(r, c) \/ Failed(r, c)
  <2>1. Goto(r, "pick") /\ UNCHANGED <<holder, answer, failures>>
    BY <1>3 DEF Unavailable, Failed
  <2> QED  BY <1>1, <1>2, <2>1 DEF Moves, Unanswered, Goto, Set, Step, Holding, Over
<1>4. CASE Unknown(r, c)
  <2>1. PICK h \in SUBSET {c} : holder' = [holder EXCEPT ![r] = holder[r] \cup h]
    BY <1>4 DEF Unknown, Set
  <2>2. Goto(r, "done") /\ Answer(r, "failed", 1)
    BY <1>4 DEF Unknown
  <2>3. Answered(r, "failed", {}) \/ Answered(r, "failed", {c})
    <3>1. h = {} \/ h = {c}
      BY <2>1
    <3> QED  BY <1>1, <2>1, <2>2, <3>1 DEF Answer, Answered, Set
  <2>4. Refused1(r) \/ Unknown1(r)
    BY <2>3 DEF Refused1, Unknown1
  <2> QED  BY <1>2, <2>2, <2>4 DEF Moves, Goto, Set, Step, Holding, Over
<1> QED  BY <1>3, <1>4

\* tryAgent has given the request to the agent.
LEMMA ServedMoves ==
  ASSUME NEW r \in Request, NEW c \in Session, Inv, at[r] = {c}, pc[r] \notin Over, Served(r, c)
  PROVE  Moves(r)
<1>1. answer[r] = "none" /\ holder[r] = {}
  BY DEF Inv, Life
<1>2. holder' = [holder EXCEPT ![r] = {c}] /\ Goto(r, "serving") /\ Answer(r, "ok", 0) /\ Stays
  BY <1>1 DEF Served, Set, Stays
<1>3. Answered(r, "ok", {c})
  BY <1>1, <1>2 DEF Answer, Answered, Set
<1> QED  BY <1>2, <1>3 DEF Moves, Served1, Goto, Set, Step, Holding, Over

\* tryAgent takes its next step.
LEMMA AdvanceMoves ==
  ASSUME NEW r \in Request, NEW s \in Step \cap Holding, Inv, pc[r] \notin Over, Advance(r, s)
  PROVE  Moves(r)
BY GoesOn DEF Advance, Goto, Set

\* Every action of dispatch is a move of its request.
LEMMA RequestMoves ==
  ASSUME Inv, NEW r \in Request,
         RequestStep(r) \/ Deadline(r) \/ WaitCut(r) \/ StreamClosed(r)
  PROVE  UNCHANGED account \/ Moves(r)
<1> USE DEF Step, Holding, Over
<1>0. Life(r) /\ pc \in [Request -> Step]
  BY DEF Inv
<1>1. CASE Start(r)
  BY <1>0, <1>1, GoesOn DEF Start, Goto, Set, edge, Life
<1>2. CASE Look(r)
  <2>0. pc[r] = "look" /\ at[r] = {} /\ UNCHANGED <<active, at, holder>>
    BY <1>0, <1>2 DEF Look, Life
  <2>1. CASE LivePool = <<>>
    BY <2>0, <2>1, <1>2, NoAgentMoves DEF Look
  <2>2. CASE LivePool # <<>> /\ r \in oversized
    <3>1. Goto(r, "done") /\ Answer(r, "failed", 1)
      BY <2>2, <1>2 DEF Look
    <3>2. answer[r] = "none" /\ holder' = [holder EXCEPT ![r] = {}]
      BY <2>0 DEF Inv, Life
    <3>3. Answered(r, "failed", {})
      BY <3>1, <3>2 DEF Answer, Answered, Set
    <3> QED  BY <2>0, <3>1, <3>3 DEF Moves, Stays, Refused1, Goto, Set
  <2>3. CASE LivePool # <<>> /\ r \notin oversized
    <3>1. Goto(r, "pick") /\ UNCHANGED <<answer, failures>>
      BY <2>3, <1>2 DEF Look
    <3> QED  BY <2>0, <3>1, GoesOn DEF Goto, Set
  <2> QED  BY <2>1, <2>2, <2>3
<1>3. CASE Reserve(r)
  <2>0. pc[r] = "pick" /\ at[r] = {} /\ answer[r] = "none"
    BY <1>0, <1>3 DEF Reserve, Life
  <2>1. PICK c \in PickOf(r) : at' = [at EXCEPT ![r] = {c}]
                               /\ active' = [active EXCEPT ![c] = active[c] + 1]
    BY <1>3 DEF Reserve, Set
  <2>2. Takes(r)
    BY <2>0, <2>1 DEF Takes
  <2>3. pc' = [pc EXCEPT ![r] = "open"] /\ UNCHANGED <<holder, answer, failures>>
    BY <1>3 DEF Reserve, Goto, Set
  <2> QED  BY <2>0, <2>2, <2>3 DEF Moves, Unanswered
<1>4. CASE Exhausted(r)
  <2>0. pc[r] = "pick" /\ at[r] = {} /\ UNCHANGED <<active, at, holder>>
    BY <1>0, <1>4 DEF Exhausted, Life
  <2>1. UNCHANGED <<pc, answer, failures>> \/ RoundEnds(r, FALSE)
    BY <1>4 DEF Exhausted
  <2> QED  BY <2>0, <2>1, RoundEndsMoves DEF account
<1>5. CASE Deadline(r)
  <2>0. pc[r] = "pick" /\ at[r] = {} /\ UNCHANGED <<active, at, holder>> /\ RoundEnds(r, TRUE)
    BY <1>0, <1>5 DEF Deadline, Life, edge
  <2> QED  BY <2>0, RoundEndsMoves
<1>6. ASSUME NEW c \in Session, Open(r, c) PROVE Moves(r)
  <2>0. pc[r] = "open" /\ at[r] = {c}
    BY <1>6 DEF Open, Attempting
  <2>1. \/ Unavailable(r, c) \/ Failed(r, c)
        \/ Advance(r, IF c \in V2 THEN "accept" ELSE "preamble")
    BY <1>6 DEF Open
  <2> QED  BY <2>0, <2>1, AttemptEnds, AdvanceMoves
<1>7. ASSUME NEW c \in Session, AwaitAccept(r, c) PROVE Moves(r)
  <2>0. pc[r] = "accept" /\ at[r] = {c}
    BY <1>7 DEF AwaitAccept, Attempting
  <2>1. Unavailable(r, c) \/ Failed(r, c) \/ Advance(r, "send")
    BY <1>7 DEF AwaitAccept
  <2> QED  BY <2>0, <2>1, AttemptEnds, AdvanceMoves
<1>8. ASSUME NEW c \in Session, SendHead(r, c) PROVE Moves(r)
  <2>0. pc[r] = "send" /\ at[r] = {c}
    BY <1>8 DEF SendHead, Attempting
  <2>1. Unknown(r, c) \/ Served(r, c)
    BY <1>8 DEF SendHead
  <2> QED  BY <2>0, <2>1, AttemptEnds, ServedMoves
<1>9. ASSUME NEW c \in Session, WritePreamble(r, c) PROVE Moves(r)
  <2>0. pc[r] = "preamble" /\ at[r] = {c}
    BY <1>9 DEF WritePreamble, Attempting
  <2>1. Unavailable(r, c) \/ Failed(r, c) \/ Served(r, c)
    BY <1>9 DEF WritePreamble
  <2> QED  BY <2>0, <2>1, AttemptEnds, ServedMoves
<1>10. CASE Joined(r) \/ RetryTimer(r)
  <2>1. pc[r] = "wait" /\ at[r] = {} /\ pc' = [pc EXCEPT ![r] = "start"]
        /\ UNCHANGED <<active, at, holder, answer, failures>>
    BY <1>0, <1>10 DEF Joined, RetryTimer, NewRoundStarts, Goto, Set, edge, Life
  <2> QED  BY <2>1, GoesOn
<1>11. CASE WaitCut(r)
  <2>0. pc[r] = "wait" /\ at[r] = {} /\ UNCHANGED <<active, at, holder>>
    BY <1>0, <1>11 DEF WaitCut, Life, edge
  <2>1. Goto(r, "done") /\ Answer(r, "noAgent", 1)
    BY <1>11 DEF WaitCut
  <2>2. answer[r] = "none" /\ holder' = [holder EXCEPT ![r] = {}]
    BY <2>0 DEF Inv, Life
  <2>3. Answered(r, "noAgent", {})
    BY <2>1, <2>2 DEF Answer, Answered, Set
  <2> QED  BY <2>0, <2>1, <2>3 DEF Moves, Stays, Refused1, Goto, Set
<1>12. CASE StreamClosed(r)
  <2>1. PICK c \in at[r] : at' = [at EXCEPT ![r] = {}] /\ active' = [active EXCEPT ![c] = active[c] - 1]
    BY <1>12 DEF StreamClosed, Release, Set
  <2>2. at[r] = {c}
    BY <1>0 DEF Life
  <2>3. Gives(r) /\ at'[r] = {}
    BY <2>1, <2>2 DEF Gives, Inv
  <2>4. pc' = [pc EXCEPT ![r] = "done"] /\ UNCHANGED <<holder, answer, failures>>
    BY <1>12 DEF StreamClosed, Goto, Set
  <2> QED  BY <2>3, <2>4 DEF Moves, Unanswered
<1> QED  BY <1>1, <1>2, <1>3, <1>4, <1>5, <1>6, <1>7, <1>8, <1>9, <1>10, <1>11, <1>12
         DEF RequestStep

\* The sessions' own steps touch nothing of it.
LEMMA ActionMoves ==
  ASSUME Inv, [Next]_vars
  PROVE  UNCHANGED account \/ \E r \in Request : Moves(r)
<1>1. CASE UNCHANGED vars
  BY <1>1 DEF vars, account
<1>2. ASSUME NEW c \in Session, SessionStep(c) PROVE UNCHANGED account
  BY <1>2 DEF SessionStep, Join, Drain, AgentGoesAway, SessionDies, Drop, CoolEnds, Environment, account
<1>3. ASSUME NEW r \in Request, RequestStep(r) \/ Deadline(r) \/ WaitCut(r) \/ StreamClosed(r)
      PROVE  UNCHANGED account \/ Moves(r)
  BY <1>3, RequestMoves
<1> QED  BY <1>1, <1>2, <1>3 DEF Next

(***************************************************************************)
(* A move keeps the invariant.                                             *)
(***************************************************************************)

LEMMA OnFinite == \A c : IsFiniteSet(On(c))
BY FS_Subset DEF On

\* A stream taken or given back is one more or one less on its session, and on
\* no other.
LEMMA MoveCounts ==
  ASSUME Inv, NEW r \in Request, Moves(r)
  PROVE  /\ active' \in [Session -> Int]
         /\ \A c \in Session : active'[c] = Cardinality(On(c)')
<1>0. /\ active \in [Session -> Int] /\ at = [q \in Request |-> at[q]]
      /\ \A c \in Session : active[c] = Cardinality(On(c))
  BY DEF Inv
<1>1. CASE Stays
  BY <1>0, <1>1 DEF Stays, On
<1>2. CASE Takes(r)
  <2>1. PICK c : /\ at[r] = {} /\ at' = [at EXCEPT ![r] = {c}]
                 /\ active' = [active EXCEPT ![c] = active[c] + 1]
    BY <1>2 DEF Takes
  <2>2. On(c)' = On(c) \cup {r} /\ r \notin On(c)
    BY <1>0, <2>1 DEF On
  <2>3. \A d \in Session : d # c => On(d)' = On(d)
    BY <1>0, <2>1 DEF On
  <2>4. Cardinality(On(c)') = Cardinality(On(c)) + 1
    BY <2>2, OnFinite, FS_AddElement
  <2>5. ASSUME NEW d \in Session PROVE active'[d] = Cardinality(On(d)')
    <3>1. CASE d = c
      <4>1. active'[d] = active[d] + 1
        BY <1>0, <2>1, <3>1
      <4> QED  BY <1>0, <2>4, <3>1, <4>1
    <3>2. CASE d # c
      <4>1. active'[d] = active[d]
        BY <1>0, <2>1, <3>2
      <4> QED  BY <1>0, <2>3, <3>2, <4>1
    <3> QED  BY <3>1, <3>2
  <2>6. active' \in [Session -> Int]
    <3>1. active' = [d \in Session |-> IF d = c THEN active[d] + 1 ELSE active[d]]
      BY <1>0, <2>1
    <3> QED  BY <1>0, <3>1
  <2> QED  BY <2>5, <2>6
<1>3. CASE Gives(r)
  <2>1. PICK c : /\ at[r] = {c} /\ at' = [at EXCEPT ![r] = {}]
                 /\ active' = [active EXCEPT ![c] = active[c] - 1]
    BY <1>3 DEF Gives
  <2>2. On(c)' = On(c) \ {r} /\ r \in On(c)
    BY <1>0, <2>1 DEF On
  <2>3. \A d \in Session : d # c => On(d)' = On(d)
    BY <1>0, <2>1 DEF On
  <2>4. Cardinality(On(c)') = Cardinality(On(c)) - 1
    BY <2>2, OnFinite, FS_RemoveElement
  <2>5. ASSUME NEW d \in Session PROVE active'[d] = Cardinality(On(d)')
    <3>1. CASE d = c
      <4>1. active'[d] = active[d] - 1
        BY <1>0, <2>1, <3>1
      <4> QED  BY <1>0, <2>4, <3>1, <4>1
    <3>2. CASE d # c
      <4>1. active'[d] = active[d]
        BY <1>0, <2>1, <3>2
      <4> QED  BY <1>0, <2>3, <3>2, <4>1
    <3> QED  BY <3>1, <3>2
  <2>6. active' \in [Session -> Int]
    <3>1. active' = [d \in Session |-> IF d = c THEN active[d] - 1 ELSE active[d]]
      BY <1>0, <2>1
    <3> QED  BY <1>0, <3>1
  <2> QED  BY <2>5, <2>6
<1> QED  BY <1>1, <1>2, <1>3 DEF Moves

LEMMA MovePreserves ==
  ASSUME Inv, NEW r \in Request, Moves(r)
  PROVE  Inv'
<1>0. /\ pc \in [Request -> Step] /\ answer \in [Request -> {"none", "ok", "noAgent", "failed"}]
      /\ failures \in [Request -> Int]
      /\ at = [q \in Request |-> at[q]] /\ holder = [q \in Request |-> holder[q]]
      /\ \A q \in Request : Life(q)
  BY DEF Inv
<1>1. /\ at' = [q \in Request |-> at'[q]]
      /\ \A q \in Request \ {r} : at'[q] = at[q]
      /\ \A c, d \in at'[r] : c = d
  BY <1>0 DEF Moves, Stays, Takes, Gives, Life
<1>2. PICK s \in Step : /\ pc' = [pc EXCEPT ![r] = s]
                        /\ s \notin Holding => at'[r] = {}
                        /\ s \notin Over => answer'[r] = "none"
  BY DEF Moves
<1>3. /\ answer' \in [Request -> {"none", "ok", "noAgent", "failed"}]
      /\ failures' \in [Request -> Int] /\ holder' = [q \in Request |-> holder'[q]]
      /\ \A q \in Request \ {r} : /\ answer'[q] = answer[q] /\ failures'[q] = failures[q]
                                  /\ holder'[q] = holder[q]
      /\ answer'[r] = "none" => holder'[r] = {}
      /\ failures'[r] = IF answer'[r] \in {"noAgent", "failed"} THEN 1 ELSE 0
  <2>1. Life(r)
    BY <1>0
  <2>2. CASE Unanswered
    BY <1>0, <2>1, <2>2 DEF Unanswered, Life
  <2>3. ASSUME NEW a \in {"ok", "noAgent", "failed"}, NEW h, Answered(r, a, h)
        PROVE  <1>3
    <3>1. failures[r] = 0
      BY <2>1, <2>3 DEF Answered, Life
    <3> QED  BY <1>0, <2>3, <3>1 DEF Answered
  <2> QED  BY <2>2, <2>3 DEF Moves, Served1, Refused1, Unknown1
<1>4. \A q \in Request : Life(q)'
  BY <1>0, <1>1, <1>2, <1>3 DEF Life
<1>5. pc' \in [Request -> Step]
  BY <1>0, <1>2
<1> QED  BY <1>1, <1>3, <1>4, <1>5, MoveCounts DEF Inv

LEMMA InvInductive == Inv /\ [Next]_vars => Inv'
<1> SUFFICES ASSUME Inv, [Next]_vars PROVE Inv'
  OBVIOUS
<1>1. CASE UNCHANGED account
  BY <1>1 DEF account, Inv, Life, On
<1>2. ASSUME NEW r \in Request, Moves(r) PROVE Inv'
  BY <1>2, MovePreserves
<1> QED  BY <1>1, <1>2, ActionMoves

LEMMA InvInitially == Init => Inv
<1> SUFFICES ASSUME Init PROVE Inv
  OBVIOUS
<1>1. \A c \in Session : On(c) = {}
  BY DEF Init, On
<1>2. \A r \in Request : Life(r)
  BY DEF Init, Life, Over, Holding
<1>3. active \in [Session -> Int] /\ \A c \in Session : active[c] = Cardinality(On(c))
  <2>1. active = [c \in Session |-> 0]
    BY DEF Init
  <2>2. Cardinality({}) = 0
    BY FS_EmptySet
  <2>3. \A c \in Session : Cardinality(On(c)) = 0
    BY <1>1, <2>2
  <2> QED  BY <2>1, <2>3
<1>4. /\ pc \in [Request -> Step] /\ answer \in [Request -> {"none", "ok", "noAgent", "failed"}]
      /\ failures \in [Request -> Int]
  BY DEF Init, Step
<1>5. at = [r \in Request |-> at[r]] /\ holder = [r \in Request |-> holder[r]]
  BY DEF Init
<1> QED  BY <1>2, <1>3, <1>4, <1>5 DEF Inv

THEOREM InvHolds == Spec => []Inv
BY InvInitially, InvInductive, PTL DEF Spec

(***************************************************************************)
(* For any number of requests and sessions: through all failovers a        *)
(* session's stream count is the number of requests on it, and each        *)
(* refused request counts as one failure of its route, a served one as     *)
(* none (tryAgent's releases, dispatch's and dispatchOnce's recordFailure).*)
(***************************************************************************)
THEOREM AccountsAreExact == Spec => []AccountsExact
<1>1. Inv => AccountsExact
  BY DEF Inv, Life, On, AccountsExact
<1> QED  BY <1>1, InvHolds, PTL

(***************************************************************************)
(* For any number of requests and sessions, dispatch is at-most-once.      *)
(***************************************************************************)
THEOREM DispatchDelivers == Spec => ImplementsDelivery
<1>1. Init => Abstract!Init
  BY DEF Init, Abstract!Init
<1>2. ASSUME Inv, NEW r \in Request, Moves(r) PROVE Abstract!Next \/ UNCHANGED Abstract!vars
  <2>1. CASE Unanswered
    BY <2>1 DEF Unanswered, Abstract!vars
  <2>2. CASE Served1(r) \/ Unknown1(r)
    BY <2>2 DEF Served1, Unknown1, Answered, Abstract!Next, Abstract!Deliver
  <2>3. CASE Refused1(r)
    <3>1. holder[r] = {} /\ holder = [q \in Request |-> holder[q]]
      BY <1>2, <2>3 DEF Inv, Life, Refused1, Answered
    <3>2. UNCHANGED holder
      BY <2>3, <3>1 DEF Refused1, Answered
    <3> QED  BY <2>3, <3>2 DEF Refused1, Answered, Abstract!Next, Abstract!Refuse
  <2> QED  BY <1>2, <2>1, <2>2, <2>3 DEF Moves
<1>3. Inv /\ [Next]_vars => [Abstract!Next]_(Abstract!vars)
  <2> SUFFICES ASSUME Inv, [Next]_vars PROVE Abstract!Next \/ UNCHANGED Abstract!vars
    OBVIOUS
  <2>1. CASE UNCHANGED account
    BY <2>1 DEF account, Abstract!vars
  <2> QED  BY <2>1, <1>2, ActionMoves
<1> QED  BY <1>1, <1>3, InvHolds, PTL DEF Spec, ImplementsDelivery, Abstract!Spec
=============================================================================
