--------------------------- MODULE AgentRunProofs ---------------------------
(***************************************************************************)
(* Reloading an agent for any number of SIGHUPs: the service is never lost *)
(* nor served by two successors, in the protocol of Replace and in the     *)
(* agent process that implements it, whose session is shut down in order.  *)
(***************************************************************************)
EXTENDS AgentRun, FiniteSetTheorems, TLAPS

\* Where a replace() holds busy, and where its successor may be alive.
Claiming == {"spawn", "prepared?", "check", "set", "cancel", "done"}
Started == Claiming \ {"spawn"}
Registered == {"cancel", "done"}

Places == Claiming \cup {"idle", "claim", "failed"}
Lives == {"none", "starting", "prepared", "running", "exited"}

Types ==
    /\ {ctx, term, busy, retiredDone, handoverFailed} \subseteq BOOLEAN
    /\ onRetired \subseteq Hup
    /\ handing \in {"no", "look", "notify", "go", "done"}
    /\ old \in {"up", "exit0", "exit1", "crashed"}
    /\ pc \in [Hup -> Places]
    /\ succ \in [Hup -> Lives]
    /\ goAhead \in [Hup -> {"open", "sent"}]

\* busy is a lock: one replace() is past it, its successor alone may be alive,
\* and its handover alone may be registered.
Alone ==
    /\ \A g, h \in Hup : pc[g] \in Claiming /\ pc[h] \in Claiming => g = h
    /\ \A h \in Hup : pc[h] \in Claiming => busy
    /\ \A h \in Hup : Alive(h) => pc[h] \in Started
    /\ \A h \in Hup : h \in onRetired <=> pc[h] \in Registered

\* Why the agent shuts down.
Cause == ctx => term \/ \E h \in Hup : pc[h] = "done" /\ h \in onRetired

\* The handover, from the callback to the exit.  That it ended without a word to
\* systemd means that it failed, or that there was none: a stop.
HandedOver ==
    /\ handing = "no" <=> ~retiredDone
    /\ retiredDone => ctx
    /\ handing \in {"look", "notify", "go"} => onRetired # {}
    /\ handing = "go" => mainpid \in onRetired
    /\ handing = "done" => handoverFailed \/ term \/ mainpid # Old
    /\ old = "exit0" => handing = "done" /\ ~handoverFailed

\* The turn of a successor.
InTurn(h) ==
    /\ goAhead[h] = "sent" => handing = "done" /\ mainpid = h
    /\ succ[h] = "running" /\ old = "up" /\ h \notin overdue => retiredDone

Inv == Types /\ Alone /\ Cause /\ HandedOver /\ \A h \in Hup : InTurn(h)

USE ReplaceAssumption

LEMMA InvInitially == Init => Inv
BY DEF Init, Inv, Types, Alone, Cause, HandedOver, InTurn, Alive, Places, Lives, Claiming, Started, Registered

LEMMA InvInductive == Inv /\ [Next]_vars => Inv'
<1> SUFFICES ASSUME Inv, [Next]_vars PROVE Inv'
  OBVIOUS
<1> USE DEF Inv, Types, Alone, Cause, HandedOver, InTurn, Alive, Places, Lives, Claiming, Started,
            Registered, Step, Set, agent
<1>1. ASSUME NEW h \in Hup, Replace(h) PROVE Inv'
  BY <1>1 DEF Replace
<1>2. ASSUME NEW h \in Hup, Claim(h) PROVE Inv'
  BY <1>2 DEF Claim
<1>3. ASSUME NEW h \in Hup, Spawn(h) PROVE Inv'
  <2>1. Types'
    BY <1>3 DEF Spawn
  <2>2. Alone'
    BY <1>3 DEF Spawn
  <2>3. Cause' /\ HandedOver'
    BY <1>3 DEF Spawn
  <2>4. \A g \in Hup : InTurn(g)'
    BY <1>3 DEF Spawn
  <2> QED  BY <2>1, <2>2, <2>3, <2>4
<1>4. ASSUME NEW h \in Hup, Prepared(h) PROVE Inv'
  BY <1>4 DEF Prepared
<1>5. ASSUME NEW h \in Hup, NotPrepared(h) PROVE Inv'
  <2>1. Types'
    BY <1>5 DEF NotPrepared
  <2>2. Alone'
    BY <1>5 DEF NotPrepared
  <2>3. Cause' /\ HandedOver'
    BY <1>5 DEF NotPrepared
  <2>4. \A g \in Hup : InTurn(g)'
    BY <1>5 DEF NotPrepared
  <2> QED  BY <2>1, <2>2, <2>3, <2>4
<1>6. ASSUME NEW h \in Hup, NEW from \in {"check", "set"}, Abort(h, from) PROVE Inv'
  <2>1. Types'
    BY <1>6 DEF Abort
  <2>2. Alone'
    BY <1>6 DEF Abort
  <2>3. Cause' /\ HandedOver'
    BY <1>6 DEF Abort
  <2>4. \A g \in Hup : InTurn(g)'
    BY <1>6 DEF Abort
  <2> QED  BY <2>1, <2>2, <2>3, <2>4
<1>7. ASSUME NEW h \in Hup, CheckShutdown(h) PROVE Inv'
  <2>1. CASE ctx
    BY <1>6, <1>7, <2>1 DEF CheckShutdown
  <2>2. CASE ~ctx
    BY <1>7, <2>2 DEF CheckShutdown
  <2> QED  BY <2>1, <2>2
<1>8. ASSUME NEW h \in Hup, SetOnRetired(h) PROVE Inv'
  <2>1. CASE retiredDone
    BY <1>6, <1>8, <2>1 DEF SetOnRetired
  <2>2. CASE ~retiredDone
    BY <1>8, <2>2 DEF SetOnRetired
  <2> QED  BY <2>1, <2>2
<1>9. ASSUME NEW h \in Hup, Cancel(h) PROVE Inv'
  BY <1>9 DEF Cancel
<1>10. CASE SigTerm
  BY <1>10 DEF SigTerm
<1>11. CASE Retired
  BY <1>11 DEF Retired
<1>12. CASE SuccessorGone
  BY <1>12 DEF SuccessorGone, HandStep
<1>13. CASE SuccessorThere
  BY <1>13 DEF SuccessorThere, HandStep
<1>14. CASE NotifyMainPid
  BY <1>14 DEF NotifyMainPid, HandStep
<1>15. CASE NotifyFails
  BY <1>15 DEF NotifyFails, HandStep
<1>16. CASE Go
  BY <1>16 DEF Go, HandStep
<1>17. CASE Exit
  BY <1>17 DEF Exit
<1>18. CASE Crash
  BY <1>18 DEF Crash
<1>19. ASSUME NEW h \in Hup, Loads(h) PROVE Inv'
  BY <1>19 DEF Loads, Succeeds
<1>20. ASSUME NEW h \in Hup, Dies(h) PROVE Inv'
  BY <1>20 DEF Dies, Succeeds
<1>21. ASSUME NEW h \in Hup, TakesOver(h) PROVE Inv'
  BY <1>21 DEF TakesOver, Succeeds
<1>22. ASSUME NEW h \in Hup, StartsAnyway(h) PROVE Inv'
  BY <1>22 DEF StartsAnyway, Succeeds
<1>23. CASE UNCHANGED vars
  BY <1>23 DEF vars
<1> QED
  BY <1>1, <1>2, <1>3, <1>4, <1>5, <1>7, <1>8, <1>9, <1>10, <1>11, <1>12, <1>13, <1>14, <1>15,
     <1>16, <1>17, <1>18, <1>19, <1>20, <1>21, <1>22, <1>23
  DEF Next, ReplaceStep, SuccessorStep, OldStep

(***************************************************************************)
(* replace(), handOver and the successors: whatever SIGHUPs, SIGTERM and   *)
(* crashes do to one another, a reload never loses the service, at most    *)
(* one successor is alive next to the old agent, and it takes over in its  *)
(* turn.                                                                   *)
(***************************************************************************)
THEOREM ReloadsAreSafe == Spec => []ReloadIsSafe
<1>1. ASSUME Inv PROVE ReloadIsSafe
  <2>1. ServiceKept
    BY <1>1 DEF Inv, Cause, HandedOver, ServiceKept
  <2>2. Cardinality({ h \in Hup : Alive(h) }) <= 1
    <3> DEFINE A == { h \in Hup : Alive(h) }
    <3>1. \A g, h \in A : g = h
      BY <1>1 DEF Inv, Alone, Started
    <3>2. CASE A = {}
      BY <3>2, FS_EmptySet
    <3>3. ASSUME NEW h \in A PROVE Cardinality(A) <= 1
      <4>1. A = {h}
        BY <3>1, <3>3
      <4> QED  BY <4>1, FS_Singleton
    <3> QED  BY <3>2, <3>3
  <2>3. TakesOverInTurn
    BY <1>1, <2>2 DEF Inv, InTurn, TakesOverInTurn
  <2> QED  BY <2>1, <2>3 DEF ReloadIsSafe
<1> QED  BY <1>1, InvInitially, InvInductive, PTL DEF Spec

(***************************************************************************)
(* The agent process.  A step of Run, connectOnce or the shutdown of a     *)
(* session is none of Replace's, but where it calls retired().             *)
(***************************************************************************)
LEMMA StepImplements == [RunNext]_processVars => [Next]_vars
<1> SUFFICES ASSUME RunNext PROVE [Next]_vars
  BY DEF processVars
<1>1. CASE DialFails \/ Established \/ ServeStream \/ StreamEnds \/ SessionDies
  BY <1>1 DEF DialFails, Disconnected, Established, ServeStream, StreamEnds, SessionDies
<1>2. CASE RunStep
  BY <1>2 DEF RunStep, MainStops, ConnectReturns, Disconnected, BackoffEnds, RunReturns, Next, OldStep
<1>3. CASE ShutStep
  BY <1>3 DEF ShutStep, ShutSelect, ShutSwitch, ShutAsked, ShutCall, ShutGoAway, ShutMainStopped,
              ShutRefuse, ShutClose, Next, OldStep
<1>4. CASE ShutBacklog
  BY <1>4 DEF ShutBacklog
<1>5. CASE HandOverStep
  BY <1>5 DEF HandOverStep, Next, OldStep
<1>6. CASE SigTerm \/ Crash
  BY <1>6 DEF Next
<1>7. ASSUME NEW h \in Hup, ReloadStep(h) \/ SuccessorRuns(h) \/ Replace(h) \/ NotPrepared(h) \/ Dies(h)
      PROVE  Next
  BY <1>7 DEF ReloadStep, SuccessorRuns, Next
<1> QED  BY <1>1, <1>2, <1>3, <1>4, <1>5, <1>6, <1>7 DEF RunNext

(***************************************************************************)
(* Agent.Run with its sessions implements the protocol of Replace: the     *)
(* callback runs in a shutdown, once, and the process exits after it.      *)
(***************************************************************************)
THEOREM RunImplements == RunSpec => ImplementsReplace
<1>1. RunInit => Init
  BY DEF RunInit
<1> QED  BY <1>1, StepImplements, PTL DEF RunSpec, Spec, ImplementsReplace

(* So the agent process, too, reloads without losing the service.          *)
THEOREM RunReloadsSafely == RunSpec => []ReloadIsSafe
BY RunImplements, ReloadsAreSafe, PTL DEF ImplementsReplace

(***************************************************************************)
(* The shutdown of a session.  What its goroutine has come to tells which  *)
(* edge it talks to, that new streams are refused and that the session is  *)
(* closed; and once the callback has run, Run only winds down.             *)
(***************************************************************************)
Handing == {"ask", "call, drain", "call, goaway", "goaway", "stopping", "backlog"}

Ordered ==
    /\ run \in {"up", "ended"} <=> sess # "none"
    /\ sess # "none" <=> shut # "none"
    /\ shut \in Handing => v2
    /\ shut = "wait" => refusing
    /\ shut = "call, end" => sess # "open"
    /\ sess = "closed" => refusing /\ shut \in {"call, end", "done"}
    /\ retiredDone => run \notin {"dial", "backoff"}
    /\ CallbackAfterClose
    /\ ClosedIsDrained

RunInv == Inv /\ streams \in Nat /\ Ordered

LEMMA StreamsCounted == streams \in Nat /\ [RunNext]_processVars => streams' \in Nat
<1> SUFFICES ASSUME streams \in Nat, [RunNext]_processVars PROVE streams' \in Nat
  OBVIOUS
<1>1. CASE UNCHANGED streams
  BY <1>1
<1>2. CASE ServeStream \/ StreamEnds \/ ShutBacklog
  BY <1>2 DEF ServeStream, StreamEnds, ShutBacklog
<1>3. CASE Gone
  BY <1>3 DEF Gone
<1>4. CASE RunStep \/ DialFails \/ Established \/ SessionDies
  BY <1>4 DEF RunStep, MainStops, ConnectReturns, Disconnected, BackoffEnds, RunReturns, DialFails,
              Established, SessionDies
<1>5. CASE ShutStep
  BY <1>5 DEF ShutStep, ShutSelect, ShutSwitch, ShutAsked, ShutCall, ShutGoAway, ShutMainStopped,
              ShutRefuse, ShutClose
<1>6. CASE UNCHANGED runVars
  BY <1>6 DEF runVars
<1> QED
  BY <1>1, <1>2, <1>3, <1>4, <1>5, <1>6 DEF RunNext, HandOverStep, ReloadStep, SuccessorRuns, processVars, runVars

LEMMA SomeEnd == StreamEnds => streams # 0
BY DEF StreamEnds

LEMMA ClosesDrained == streams \in Nat /\ ShutClose => spent' \/ streams = 0
<1>1. ShutClose => spent' \/ ~(streams > 0)
  BY Zenon DEF ShutClose
<1>2. streams \in Nat /\ ~(streams > 0) => streams = 0
  OBVIOUS
<1> QED  BY <1>1, <1>2

LEMMA OrderedInductive == Inv /\ streams \in Nat /\ Ordered /\ [RunNext]_processVars => Ordered'
<1> SUFFICES ASSUME Inv, streams \in Nat, Ordered, [RunNext]_processVars PROVE Ordered'
  OBVIOUS
<1> USE DEF Ordered, CallbackAfterClose, ClosedIsDrained, Handing, Running, Shutting, vars
<1>0. retiredDone => ctx
  BY DEF Inv, HandedOver
<1>1. CASE DialFails
  BY <1>0, <1>1 DEF DialFails, Disconnected
<1>2. CASE Established
  BY <1>2 DEF Established
<1>3. CASE ServeStream
  <2>1. sess # "closed"
    BY <1>3 DEF ServeStream
  <2>2. run' = run /\ UNCHANGED <<sess, v2, shut, refusing, retiredDone>>
    BY <1>3 DEF ServeStream
  <2> QED  BY <2>1, <2>2
<1>4. CASE StreamEnds
  <2>1. streams # 0
    BY <1>4, SomeEnd
  <2>2. UNCHANGED <<run, sess, v2, shut, refusing, retiredDone, spent>>
    BY <1>4 DEF StreamEnds
  <2> QED  BY <2>1, <2>2
<1>5. CASE SessionDies
  BY <1>5 DEF SessionDies
<1>6. CASE MainStops
  BY <1>6 DEF MainStops
<1>7. CASE ConnectReturns
  BY <1>0, <1>7 DEF ConnectReturns, Disconnected
<1>8. CASE BackoffEnds
  BY <1>0, <1>8 DEF BackoffEnds
<1>9. CASE RunReturns
  BY <1>9 DEF RunReturns, Retired
<1>10. CASE ShutSelect
  BY <1>10 DEF ShutSelect
<1>11. CASE ShutSwitch
  <2>1. UNCHANGED <<run, sess, v2, streams, spent, retiredDone>>
    BY <1>11 DEF ShutSwitch
  <2>2. shut = "switch" /\ (shut' = "drain" \/ (v2 /\ shut' \in {"call, drain", "ask"}))
    BY <1>11 DEF ShutSwitch
  <2> QED  BY <2>1, <2>2
<1>12. CASE ShutAsked
  BY <1>12 DEF ShutAsked
<1>13. CASE ShutCall
  <2>1. UNCHANGED <<run, sess, v2, streams, refusing, spent>>
    BY <1>13 DEF ShutCall
  <2>2. PICK next \in {<<"call, drain", "drain">>, <<"call, goaway", "goaway">>, <<"call, end", "done">>} :
            shut = next[1] /\ (shut' = next[1] \/ shut' = next[2])
    BY <1>13 DEF ShutCall
  <2>3. CASE next = <<"call, drain", "drain">>
    BY <2>1, <2>2, <2>3
  <2>4. CASE next = <<"call, goaway", "goaway">>
    BY <2>1, <2>2, <2>4
  <2>5. CASE next = <<"call, end", "done">>
    BY <2>1, <2>2, <2>5
  <2> QED  BY <2>3, <2>4, <2>5
<1>14. CASE ShutGoAway
  BY <1>14 DEF ShutGoAway
<1>15. CASE ShutMainStopped
  BY <1>15 DEF ShutMainStopped
<1>16. CASE ShutRefuse
  BY <1>16 DEF ShutRefuse
<1>17. CASE ShutClose
  <2>1. UNCHANGED <<run, v2, streams, refusing, retiredDone>>
    BY <1>17 DEF ShutClose
  <2>2. shut = "wait" /\ shut' \in {"done", "call, end"} /\ sess # "none"
    BY <1>17 DEF ShutClose
  <2>3. sess' \notin {"none", "open"}
    BY <1>17, <2>2 DEF ShutClose
  <2> QED  BY <1>17, <2>1, <2>2, <2>3, ClosesDrained
<1>18. CASE ShutBacklog
  <2>1. UNCHANGED <<run, sess, v2, refusing, retiredDone>>
    BY <1>18 DEF ShutBacklog
  <2>2. shut = "backlog" /\ shut' \in {"backlog", "drain"}
    BY <1>18 DEF ShutBacklog
  <2> QED  BY <2>1, <2>2
<1>19. CASE UNCHANGED <<runVars, retiredDone>>
  BY <1>19 DEF runVars
<1>20. CASE Gone /\ UNCHANGED retiredDone
  BY <1>20 DEF Gone
<1>21. CASE HandOverStep
  BY <1>19, <1>20, <1>21
  DEF HandOverStep, SuccessorGone, SuccessorThere, NotifyMainPid, NotifyFails, Go, HandStep, Exit
<1>22. CASE SigTerm /\ UNCHANGED runVars
  BY <1>19, <1>22 DEF SigTerm
<1>23. CASE Crash /\ Gone
  BY <1>20, <1>23 DEF Crash
<1>24. ASSUME NEW h \in Hup, ReloadStep(h) PROVE Ordered'
  BY <1>19, <1>24
  DEF ReloadStep, ReplaceStep, Claim, Spawn, Prepared, CheckShutdown, SetOnRetired, Abort, Cancel, agent
<1>25. ASSUME NEW h \in Hup, SuccessorRuns(h) PROVE Ordered'
  BY <1>19, <1>25 DEF SuccessorRuns, SuccessorStep, Loads, TakesOver, StartsAnyway, Succeeds, agent
<1>26. ASSUME NEW h \in Hup, (Replace(h) \/ NotPrepared(h) \/ Dies(h)) /\ UNCHANGED runVars PROVE Ordered'
  BY <1>19, <1>26 DEF Replace, NotPrepared, Dies, Succeeds, agent
<1>27. CASE UNCHANGED processVars
  BY <1>19, <1>27 DEF processVars
<1> QED
  BY <1>1, <1>2, <1>3, <1>4, <1>5, <1>6, <1>7, <1>8, <1>9, <1>10, <1>11, <1>12, <1>13, <1>14, <1>15,
     <1>16, <1>17, <1>18, <1>21, <1>22, <1>23, <1>24, <1>25, <1>26, <1>27
  DEF RunNext, RunStep, ShutStep

(***************************************************************************)
(* shutdownSession, whatever ends meanwhile: with an edge without drain    *)
(* support the callback runs only once the session is closed, and a        *)
(* session that the agent closes has no stream in flight, unless the drain *)
(* budget ran out.                                                         *)
(***************************************************************************)
THEOREM ShutsDownInOrder == RunSpec => [](CallbackAfterClose /\ ClosedIsDrained)
<1>1. RunInit => RunInv
  BY InvInitially DEF RunInv, RunInit, Init, Ordered, Handing, CallbackAfterClose, ClosedIsDrained
<1>2. RunInv /\ [RunNext]_processVars => RunInv'
  BY StepImplements, InvInductive, StreamsCounted, OrderedInductive DEF RunInv
<1>3. RunInv => CallbackAfterClose /\ ClosedIsDrained
  BY DEF RunInv, Ordered
<1> QED  BY <1>1, <1>2, <1>3, PTL DEF RunSpec

=============================================================================
