----------------------------- MODULE AdminSocket ----------------------------
(***************************************************************************)
(* The admin socket's file across daemons that replace one another         *)
(* (internal/admin/admin.go, Server.Serve; lock_unix.go, lockSocketPath).  *)
(*                                                                         *)
(* A starting daemon removes what is at the socket path and listens there. *)
(* A stopping one removes the path again, but only while it is its own     *)
(* file, told by its inode number: a newer daemon may have replaced it     *)
(* while this one was draining.  A file lock keeps the remove-and-listen   *)
(* of one and the check-and-remove of another apart.  Each system call is  *)
(* a step; a daemon may be killed between any two.  A daemon creates one   *)
(* socket file, so the daemon stands for its file's inode number: the file *)
(* system is taken not to give a removed file's number to a new file.      *)
(***************************************************************************)
EXTENDS Naturals, FiniteSets

CONSTANT Daemon

None == "none"

VARIABLES
    pc,             \* where each daemon's Serve is
    path,           \* whose file is at the socket path, or None
    bound,          \* the daemons whose listener is open
    ours,           \* the file each daemon recorded as its own, or None
    lock,           \* who holds the file lock, or None
    mishap,         \* history: some daemon found the lock held past lockWait
                    \* ("contended"), or else some daemon was killed ("killed")
    latest          \* history, until a lock is contended: the daemon that last
                    \* removed the path to listen

vars == <<pc, path, bound, ours, lock, latest, mishap>>

Init ==
    /\ pc = [d \in Daemon |-> "off"]
    /\ path = None
    /\ bound = {}
    /\ ours = [d \in Daemon |-> None]
    /\ lock = None
    /\ latest = None
    /\ mishap = "none"

Goto(d, l) == pc' = [pc EXCEPT ![d] = l]
Step(d, from, to) == pc[d] = from /\ Goto(d, to)

-----------------------------------------------------------------------------
(* lockSocketPath, at the start and at the end. *)

Lock(d, from, to) ==
    /\ Step(d, from, to)
    /\ lock = None
    /\ lock' = d
    /\ UNCHANGED <<path, bound, ours, latest, mishap>>

LockContended(d, from, to) ==
    /\ lock \notin {None, d}
    /\ Step(d, from, to)
    /\ mishap' = "contended"
    /\ latest' = None
    /\ UNCHANGED <<path, bound, ours, lock>>

Unlock(d, from, to) ==
    /\ Step(d, from, to)
    /\ lock' = IF lock = d THEN None ELSE lock
    /\ UNCHANGED <<path, bound, ours, latest, mishap>>

-----------------------------------------------------------------------------
(* Starting. *)

Start(d) == Lock(d, "off", "remove") \/ LockContended(d, "off", "remove")

RemoveOld(d) ==
    /\ Step(d, "remove", "listen")
    /\ path' = None
    /\ latest' = IF mishap = "contended" THEN None ELSE d
    /\ UNCHANGED <<bound, ours, lock, mishap>>

(* net.Listen fails when something is at the path, and Serve returns. *)
Listen(d) ==
    /\ pc[d] = "listen"
    /\ IF path # None
       THEN Goto(d, "unlock-gone") /\ UNCHANGED <<path, bound>>
       ELSE path' = d /\ bound' = bound \cup {d} /\ Goto(d, "stat")
    /\ UNCHANGED <<ours, lock, latest, mishap>>

StatOurs(d) ==
    /\ Step(d, "stat", "unlock")
    /\ ours' = [ours EXCEPT ![d] = path]
    /\ UNCHANGED <<path, bound, lock, latest, mishap>>

Started(d) == Unlock(d, "unlock", "serve")

-----------------------------------------------------------------------------
(* Stopping: the end of the daemon's life, a failed accept or chmod. *)

CloseListener(d) ==
    /\ Step(d, "serve", "lock2")
    /\ bound' = bound \ {d}
    /\ UNCHANGED <<path, ours, lock, latest, mishap>>

LockAgain(d) == Lock(d, "lock2", "check")

(* Another process is working on the path: leave the socket. *)
LeaveSocket(d) == LockContended(d, "lock2", "gone")

(* os.SameFile compares inode numbers. *)
Check(d, same) ==
    /\ pc[d] = "check"
    /\ Goto(d, IF path # None /\ same THEN "unlink" ELSE "unlock-gone")
    /\ UNCHANGED <<path, bound, ours, lock, latest, mishap>>

(* Mutant: any socket is removed. *)
CheckAny(d) == Check(d, TRUE)

CheckOurs(d) == Check(d, path = ours[d])

Unlink(d) ==
    /\ Step(d, "unlink", "unlock-gone")
    /\ path' = None
    /\ UNCHANGED <<bound, ours, lock, latest, mishap>>

Gone(d) ==
    /\ Step(d, "unlock-gone", "gone")
    /\ lock' = IF lock = d THEN None ELSE lock
    /\ ours' = [ours EXCEPT ![d] = None]
    /\ UNCHANGED <<path, bound, latest, mishap>>

(* The process is killed: the kernel closes its listener and its lock. *)
Killed(d) ==
    /\ pc[d] \notin {"off", "gone"}
    /\ Goto(d, "gone")
    /\ bound' = bound \ {d}
    /\ lock' = IF lock = d THEN None ELSE lock
    /\ ours' = [ours EXCEPT ![d] = None]
    /\ mishap' = IF mishap = "none" THEN "killed" ELSE mishap
    /\ UNCHANGED <<path, latest>>

DaemonStep(d) ==
    \/ RemoveOld(d) \/ Listen(d) \/ StatOurs(d) \/ Started(d)
    \/ LockAgain(d) \/ LeaveSocket(d) \/ CheckOurs(d) \/ Unlink(d) \/ Gone(d)

Next == \E d \in Daemon : Start(d) \/ DaemonStep(d) \/ CloseListener(d) \/ Killed(d)

Spec == Init /\ [][Next]_vars

-----------------------------------------------------------------------------

(* The type of the state; whoever holds the file lock is working on the    *)
(* path under it.                                                          *)
TypeOK ==
    /\ pc \in [Daemon -> {"off", "remove", "listen", "stat", "unlock", "serve", "lock2", "check",
                          "unlink", "unlock-gone", "gone"}]
    /\ path \in Daemon \cup {None}
    /\ bound \subseteq Daemon
    /\ ours \in [Daemon -> Daemon \cup {None}]
    /\ lock \in Daemon \cup {None}
    /\ lock # None => pc[lock] \in {"remove", "listen", "stat", "unlock", "check", "unlink",
                                    "unlock-gone"}
    /\ mishap \in {"none", "killed", "contended"}
    /\ latest \in Daemon \cup {None}

(***************************************************************************)
(* "its socket must survive our exit": while a daemon serves, the path     *)
(* leads to its socket until a newer one removes it to listen there,       *)
(* whatever older daemons do as they exit.  A start that goes on without   *)
(* the lock gives this up, as Serve's warning says.                        *)
(***************************************************************************)
NewestReachable ==
    mishap # "contended" => \A d \in Daemon :
        (latest = d /\ pc[d] \in {"stat", "unlock", "serve"}) => path = d

(***************************************************************************)
(* Listening never finds the path taken: between its remove and its listen *)
(* no other daemon has listened, so a start does not lose its socket to    *)
(* another start.                                                          *)
(***************************************************************************)
ListenFindsPathFree == mishap # "contended" => \A d \in Daemon : pc[d] = "listen" => path = None

(***************************************************************************)
(* Daemons that all exited by themselves leave no socket behind.           *)
(***************************************************************************)
NothingLeft ==
    (mishap = "none" /\ \A d \in Daemon : pc[d] \in {"off", "gone"}) => path = None

(***************************************************************************)
(* The path leads where it should at every moment of the daemons' starts   *)
(* and exits: to the newest daemon, to nobody for one about to listen, and *)
(* to nothing once all are gone.                                           *)
(***************************************************************************)
SocketPathRight == TypeOK /\ NewestReachable /\ ListenFindsPathFree /\ NothingLeft
=============================================================================
