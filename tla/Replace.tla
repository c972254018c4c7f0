------------------------------ MODULE Replace -------------------------------
(***************************************************************************)
(* Replacing a running agent on SIGHUP (internal/cli/replace.go; internal/ *)
(* handoff/handoff.go; SetOnRetired and retired of internal/agent/agent.go;*)
(* runDaemon and serveDaemon of internal/cli/run.go).                      *)
(*                                                                         *)
(* Each SIGHUP runs replace() in a goroutine of its own.  The one that is  *)
(* not turned away starts a successor process and waits until it reports   *)
(* over a pipe that it is prepared.  It then registers handOver as the     *)
(* agent's onRetired callback and cancels the agent's context.  When the   *)
(* edge has retired the agent, handOver makes the successor systemd's main *)
(* process and gives it the go-ahead over a second pipe.  SIGTERM cancels  *)
(* the same context.  A successor may die at any moment.                   *)
(*                                                                         *)
(* systemd is modelled from how the code uses it: MAINPID moves its watch  *)
(* to the successor, and an exit of the watched process other than a clean *)
(* one restarts the service.                                               *)
(***************************************************************************)
EXTENDS Naturals, FiniteSets

CONSTANT Hup        \* SIGHUPs received, each with the successor it may start

Old == "old"        \* the running agent's process
ASSUME ReplaceAssumption == Old \notin Hup

VARIABLES
    ctx,            \* the agent's context is cancelled
    term,           \* SIGTERM or SIGINT arrived
    busy,           \* replacer.busy
    retiredDone,    \* Agent.retiredDone
    onRetired,      \* Agent.onRetired: the SIGHUP whose handOver it runs, as a set
    handing,        \* handOver: "no", "look", "notify", "go", "done"
    handoverFailed,
    old,            \* the old process: "up", "exit0", "exit1", "crashed"
    mainpid         \* the process systemd watches

VARIABLES           \* of each SIGHUP
    pc,             \* its replace() goroutine
    succ,           \* its successor: "none", "starting", "prepared", "running", "exited"
    reported,       \* the SIGHUPs whose successor reported that it is prepared
    goAhead,        \* the go-ahead pipe: "open", "sent"
    overdue         \* history: the successor stopped waiting for the go-ahead

vars == <<ctx, term, busy, retiredDone, onRetired, handing, handoverFailed, old, mainpid,
          pc, succ, reported, goAhead, overdue>>
agent == <<ctx, term, retiredDone, onRetired, handing, handoverFailed, old, mainpid>>

Init ==
    /\ ctx = FALSE
    /\ term = FALSE
    /\ busy = FALSE
    /\ retiredDone = FALSE
    /\ onRetired = {}
    /\ handing = "no"
    /\ handoverFailed = FALSE
    /\ old = "up"
    /\ mainpid = Old
    /\ pc = [h \in Hup |-> "idle"]
    /\ succ = [h \in Hup |-> "none"]
    /\ reported = {}
    /\ goAhead = [h \in Hup |-> "open"]
    /\ overdue = {}

Set(f, h, v) == [f EXCEPT ![h] = v]
Step(h, from, to) == old = "up" /\ pc[h] = from /\ pc' = Set(pc, h, to)
Alive(h) == succ[h] \in {"starting", "prepared", "running"}

-----------------------------------------------------------------------------
(* replace(), in the goroutine of one SIGHUP. *)

(* SIGHUP: refused at once when the agent is shutting down. *)
Replace(h) ==
    /\ Step(h, "idle", IF ctx THEN "failed" ELSE "claim")
    /\ UNCHANGED <<agent, busy, succ, reported, goAhead, overdue>>

(* busy.CompareAndSwap(false, true) *)
Claim(h) ==
    /\ Step(h, "claim", IF busy THEN "failed" ELSE "spawn")
    /\ busy' = TRUE
    /\ UNCHANGED <<agent, succ, reported, goAhead, overdue>>

(* handoff.Start, which may fail. *)
Spawn(h) ==
    /\ \/ /\ Step(h, "spawn", "prepared?")
          /\ succ' = Set(succ, h, "starting")
          /\ UNCHANGED busy
       \/ /\ Step(h, "spawn", "failed")
          /\ busy' = FALSE
          /\ UNCHANGED succ
    /\ UNCHANGED <<agent, reported, goAhead, overdue>>

(* WaitPrepared: its report arrived (it may have died since) ... *)
Prepared(h) ==
    /\ h \in reported
    /\ Step(h, "prepared?", "check")
    /\ UNCHANGED <<agent, busy, succ, reported, goAhead, overdue>>

(* ... or it exited, or it took too long and is killed. *)
NotPrepared(h) ==
    /\ Step(h, "prepared?", "failed")
    /\ succ' = Set(succ, h, "exited")
    /\ busy' = FALSE
    /\ UNCHANGED <<agent, reported, goAhead, overdue>>

(* A shutdown that began meanwhile: the successor is stopped. *)
Abort(h, from) ==
    /\ Step(h, from, "failed")
    /\ succ' = Set(succ, h, "exited")
    /\ busy' = FALSE
    /\ UNCHANGED <<agent, reported, goAhead, overdue>>

CheckShutdown(h) ==
    IF ctx THEN Abort(h, "check")
    ELSE Step(h, "check", "set") /\ UNCHANGED <<agent, busy, succ, reported, goAhead, overdue>>

SetOnRetired(h) ==
    IF retiredDone THEN Abort(h, "set")
    ELSE /\ Step(h, "set", "cancel")
         /\ onRetired' = {h}
         /\ UNCHANGED <<ctx, term, busy, retiredDone, handing, handoverFailed, old, mainpid, succ,
                        reported, goAhead, overdue>>

(* state.SetDraining, then cancel: the agent shuts down. *)
Cancel(h) ==
    /\ Step(h, "cancel", "done")
    /\ ctx' = TRUE
    /\ UNCHANGED <<term, busy, retiredDone, onRetired, handing, handoverFailed, old, mainpid, succ,
                   reported, goAhead, overdue>>

-----------------------------------------------------------------------------
(* The old agent. *)

SigTerm ==
    /\ old = "up" /\ ~term
    /\ term' = TRUE
    /\ ctx' = TRUE
    /\ UNCHANGED <<busy, retiredDone, onRetired, handing, handoverFailed, old, mainpid, pc, succ,
                   reported, goAhead, overdue>>

(* The shutdown reaches the moment a replacement can take over: retired(). *)
Retired ==
    /\ old = "up" /\ ctx /\ ~retiredDone
    /\ retiredDone' = TRUE
    /\ handing' = IF onRetired = {} THEN "done" ELSE "look"
    /\ UNCHANGED <<ctx, term, busy, onRetired, handoverFailed, old, mainpid, pc, succ, reported, goAhead, overdue>>

HandStep(from, to) ==
    /\ old = "up" /\ handing = from /\ handing' = to
    /\ UNCHANGED <<ctx, term, busy, retiredDone, onRetired, old, pc, reported, overdue>>

(* handOver: the successor is gone, ... *)
SuccessorGone ==
    /\ \E h \in onRetired : succ[h] = "exited"
    /\ HandStep("look", "done")
    /\ handoverFailed' = TRUE
    /\ UNCHANGED <<mainpid, succ, goAhead>>

SuccessorThere ==
    /\ \E h \in onRetired : succ[h] # "exited"
    /\ HandStep("look", "notify")
    /\ UNCHANGED <<handoverFailed, mainpid, succ, goAhead>>

(* ... or systemd is told, ... *)
NotifyMainPid ==
    /\ HandStep("notify", "go")
    /\ \E h \in onRetired : mainpid' = h
    /\ UNCHANGED <<handoverFailed, succ, goAhead>>

(* Mutant: that systemd cannot be told is not remembered. *)
NotifyFailsQuietly ==
    /\ HandStep("notify", "done")
    /\ succ' = [h \in Hup |-> IF h \in onRetired THEN "exited" ELSE succ[h]]
    /\ UNCHANGED <<handoverFailed, mainpid, goAhead>>

(* ... or cannot be told, and the successor is stopped; ... *)
NotifyFails ==
    /\ HandStep("notify", "done")
    /\ handoverFailed' = TRUE
    /\ succ' = [h \in Hup |-> IF h \in onRetired THEN "exited" ELSE succ[h]]
    /\ UNCHANGED <<mainpid, goAhead>>

(* ... and the go-ahead is written; a broken pipe is only logged. *)
Go ==
    /\ HandStep("go", "done")
    /\ goAhead' = [h \in Hup |-> IF h \in onRetired /\ Alive(h) THEN "sent" ELSE goAhead[h]]
    /\ UNCHANGED <<handoverFailed, mainpid, succ>>

(* Run has drained and returned, and with it the process. *)
Exit ==
    /\ old = "up" /\ retiredDone /\ handing = "done"
    /\ old' = IF handoverFailed THEN "exit1" ELSE "exit0"
    /\ UNCHANGED <<ctx, term, busy, retiredDone, onRetired, handing, handoverFailed, mainpid, pc,
                   succ, reported, goAhead, overdue>>

Crash ==
    /\ old = "up"
    /\ old' = "crashed"
    /\ UNCHANGED <<ctx, term, busy, retiredDone, onRetired, handing, handoverFailed, mainpid, pc,
                   succ, reported, goAhead, overdue>>

-----------------------------------------------------------------------------
(* A successor. *)

Succeeds(h, from, to) ==
    /\ succ[h] = from
    /\ succ' = Set(succ, h, to)
    /\ UNCHANGED <<agent, busy, pc, goAhead>>

(* Config and certificates load, and it reports: it exits when nobody is   *)
(* left to report to.                                                      *)
Loads(h) ==
    /\ Succeeds(h, "starting", IF old = "up" THEN "prepared" ELSE "exited")
    /\ reported' = IF old = "up" THEN reported \cup {h} ELSE reported
    /\ UNCHANGED overdue

(* They do not load, or it dies later. *)
Dies(h) ==
    /\ \E s \in {"starting", "prepared", "running"} : Succeeds(h, s, "exited")
    /\ UNCHANGED <<reported, overdue>>

(* awaitTurn: the go-ahead. *)
TakesOver(h) ==
    /\ goAhead[h] = "sent"
    /\ Succeeds(h, "prepared", "running")
    /\ UNCHANGED <<reported, overdue>>

(* awaitTurn: the pipe closed or goAheadWait passed, and it starts anyway. *)
StartsAnyway(h) ==
    /\ goAhead[h] # "sent"
    /\ Succeeds(h, "prepared", "running")
    /\ overdue' = IF old = "up" THEN overdue \cup {h} ELSE overdue
    /\ UNCHANGED reported

ReplaceStep(h) ==
    \/ Claim(h) \/ Spawn(h) \/ Prepared(h) \/ CheckShutdown(h) \/ SetOnRetired(h) \/ Cancel(h)

OldStep ==
    \/ Retired \/ SuccessorGone \/ SuccessorThere \/ NotifyMainPid \/ NotifyFails \/ Go \/ Exit

SuccessorStep(h) == Loads(h) \/ TakesOver(h) \/ StartsAnyway(h)

Next ==
    \/ \E h \in Hup : Replace(h) \/ ReplaceStep(h) \/ NotPrepared(h) \/ SuccessorStep(h) \/ Dies(h)
    \/ OldStep \/ SigTerm \/ Crash

Spec == Init /\ [][Next]_vars

(* Each goroutine and process goes on when it can; a shutdown that began   *)
(* gets to its end, which drain_timeout bounds.                            *)
FairSpec ==
    /\ Spec
    /\ WF_vars(OldStep)
    /\ \A h \in Hup : WF_vars(ReplaceStep(h)) /\ WF_vars(SuccessorStep(h))

-----------------------------------------------------------------------------

(* The type of the state; handOver runs only in a shutdown. *)
TypeOK ==
    /\ ctx \in BOOLEAN /\ term \in BOOLEAN /\ busy \in BOOLEAN /\ retiredDone \in BOOLEAN
    /\ onRetired \subseteq Hup /\ Cardinality(onRetired) <= 1
    /\ handing \in {"no", "look", "notify", "go", "done"}
    /\ handing # "no" => ctx /\ retiredDone
    /\ handoverFailed \in BOOLEAN
    /\ old \in {"up", "exit0", "exit1", "crashed"}
    /\ mainpid \in Hup \cup {Old}
    /\ pc \in [Hup -> {"idle", "claim", "spawn", "prepared?", "check", "set", "cancel", "done", "failed"}]
    /\ succ \in [Hup -> {"none", "starting", "prepared", "running", "exited"}]
    /\ reported \subseteq Hup
    /\ goAhead \in [Hup -> {"open", "sent"}]
    /\ overdue \subseteq Hup

(***************************************************************************)
(* A reload never loses the service.  When the old agent exits cleanly and *)
(* nobody asked it to stop, systemd watches the successor that took over   *)
(* from it, so that a failure of that one restarts the service; every      *)
(* other end of the old process is one systemd restarts the service after. *)
(* And a reload that fails leaves the agent running: its shutdown begins   *)
(* only for a signal, or for a replacement that registered its handover.   *)
(***************************************************************************)
ServiceKept ==
    /\ (old = "exit0" /\ ~term) => mainpid # Old
    /\ ctx => term \/ \E h \in Hup : pc[h] = "done" /\ h \in onRetired

(***************************************************************************)
(* "Only one replacement runs at a time", however SIGHUPs interleave.  A   *)
(* successor connects to the edge only once the old agent was retired or   *)
(* is gone (or it gave up waiting), and by the go-ahead only when systemd  *)
(* already watches it.                                                     *)
(***************************************************************************)
TakesOverInTurn ==
    /\ old = "up" => Cardinality({ h \in Hup : Alive(h) }) <= 1
    /\ \A h \in Hup :
        /\ (succ[h] = "running" /\ old = "up" /\ h \notin overdue) => retiredDone
        /\ goAhead[h] = "sent" => mainpid = h

(* A reload neither loses the service nor has two agents serve it.         *)
ReloadIsSafe == ServiceKept /\ TakesOverInTurn

(***************************************************************************)
(* SetOnRetired "reports false, and does not set f, when that moment has   *)
(* already passed (the shutdown began before it was called)": no handover  *)
(* is registered once the agent's context is cancelled.                    *)
(***************************************************************************)
NoHandoverOnceStopping == [][ctx => onRetired' \subseteq onRetired]_vars

(***************************************************************************)
(* A replacement that went through is completed: the old agent exits, and  *)
(* its successor runs unless it died.                                      *)
(***************************************************************************)
ReplacementCompletes ==
    \A h \in Hup : (pc[h] = "done") ~> (old # "up" /\ succ[h] \in {"running", "exited"})
=============================================================================
