---- MODULE DaemonControl ----
(***************************************************************************)
(* `otelop start`, `stop` and `status` and the detached daemon: the        *)
(* metadata file of internal/daemon, the advisory flock on it, the ready   *)
(* pipe and the signal.  Clients are command invocations; two of them may  *)
(* run at once.  A daemon is a process with a pid of its own.              *)
(*                                                                         *)
(* WriteMetadata renames a fresh file into place, once in a daemon's life, *)
(* so a daemon also names the inode of the metadata it wrote; a lock is on *)
(* the inode a process opened, RemoveState removes whatever is at the path.*)
(* `restart` is a stop followed by a start; `start --foreground` writes no *)
(* metadata and takes no part.                                             *)
(***************************************************************************)
EXTENDS Naturals

CONSTANTS
    Clients,     \* concurrent invocations of the otelop command
    Daemons,     \* the pids daemon children get, each of them once
    MaxCommands, \* bound on the commands given
    None         \* no file, no process

ASSUME ProcessesAssumption ==
    /\ Clients \cap Daemons = {}
    /\ None \notin Clients \cup Daemons
    /\ MaxCommands \in Nat

VARIABLES
    file,      \* the inode at the metadata path
    holder,    \* who holds the flock on each inode
    child,     \* where each daemon process is
    opened,    \* the inode LockMetadata opened
    signalled, \* daemons a SIGTERM was sent to
    pc,        \* where each command is
    op,        \* the command it runs
    meta,      \* the metadata it read
    fd,        \* the inode its lock probe opened
    locked,    \* what the probe said
    waitsFor,  \* the daemon it spawned or signalled
    commands,  \* ghost: the commands given, bounded by MaxCommands
    overlapped \* ghost: two commands have run at the same time

history == <<commands, overlapped>>

childVars == <<child, opened, signalled>>
requestVars == <<op, meta, fd, locked, waitsFor>>
clientVars == <<pc, requestVars>>
vars == <<file, holder, childVars, clientVars, history>>

Ops == {"start", "stop", "status"}
Alive(d) == child[d] \notin {"unborn", "exited"}

Init ==
    /\ file = None
    /\ holder = [i \in Daemons |-> None]
    /\ child = [d \in Daemons |-> "unborn"]
    /\ opened = [d \in Daemons |-> None]
    /\ signalled = {}
    /\ pc = [c \in Clients |-> "idle"]
    /\ op = [c \in Clients |-> "none"]
    /\ meta = [c \in Clients |-> None]
    /\ fd = [c \in Clients |-> None]
    /\ locked = [c \in Clients |-> FALSE]
    /\ waitsFor = [c \in Clients |-> None]
    /\ commands = 0
    /\ overlapped = FALSE

----
(* The daemon child: runServer                                             *)

Goto(d, at) == child' = [child EXCEPT ![d] = at]

\* The kernel drops the locks of a process that exits.
ReleaseAll(p) == holder' = [i \in Daemons |-> IF holder[i] = p THEN None ELSE holder[i]]

\* WriteMetadata: temp file and rename, once the runtime has started.
WriteMetadata(d) ==
    /\ child[d] = "starting"
    /\ Goto(d, "written")
    /\ file' = d
    /\ UNCHANGED <<holder, opened, signalled, clientVars, history>>

\* runtime.Start or WriteMetadata failed: the error goes up the pipe.
StartFails(d) ==
    /\ child[d] = "starting"
    /\ Goto(d, "exited")
    /\ UNCHANGED <<file, holder, opened, signalled, clientVars, history>>

\* LockMetadata opens what is at the path now ...
OpenMetadata(d) ==
    /\ child[d] = "written"
    /\ IF file = None
       THEN Goto(d, "lockFailed") /\ UNCHANGED opened
       ELSE Goto(d, "opened") /\ opened' = [opened EXCEPT ![d] = file]
    /\ UNCHANGED <<file, holder, signalled, clientVars, history>>

\* ... and takes the lock if it is free; then the parent is told "ok".
LockMetadata(d) ==
    /\ child[d] = "opened"
    /\ IF holder[opened[d]] = None
       THEN Goto(d, "running") /\ holder' = [holder EXCEPT ![opened[d]] = d]
       ELSE Goto(d, "lockFailed") /\ UNCHANGED holder
    /\ UNCHANGED <<file, opened, signalled, clientVars, history>>

\* Without the lock the child removes the state and gives up.
LockFailed(d) ==
    /\ child[d] = "lockFailed"
    /\ Goto(d, "exited")
    /\ file' = None
    /\ UNCHANGED <<holder, opened, signalled, clientVars, history>>

\* SIGTERM, or the runtime ended by itself.
BeginShutdown(d) ==
    /\ child[d] = "running"
    /\ Goto(d, "stopping")
    /\ UNCHANGED <<file, holder, opened, signalled, clientVars, history>>

\* Bug: the lock is let go before the state is removed.
UnlockFirst(d) ==
    \/ /\ child[d] = "stopping"
       /\ Goto(d, "removed")
       /\ ReleaseAll(d)
       /\ UNCHANGED <<file, opened, signalled, clientVars, history>>
    \/ /\ child[d] = "removed"
       /\ Goto(d, "unlocked")
       /\ file' = None
       /\ UNCHANGED <<holder, opened, signalled, clientVars, history>>

\* The deferred calls: RemoveState, then the lock file is closed.
RemoveThenUnlock(d) ==
    \/ /\ child[d] = "stopping"
       /\ Goto(d, "removed")
       /\ file' = None
       /\ UNCHANGED <<holder, opened, signalled, clientVars, history>>
    \/ /\ child[d] = "removed"
       /\ Goto(d, "unlocked")
       /\ ReleaseAll(d)
       /\ UNCHANGED <<file, opened, signalled, clientVars, history>>

\* The last deferred call, Runtime.Shutdown, and the exit.
Exit(d) ==
    /\ child[d] = "unlocked"
    /\ Goto(d, "exited")
    /\ UNCHANGED <<file, holder, opened, signalled, clientVars, history>>

\* The process is killed, or panics.
Crash(d) ==
    /\ Alive(d)
    /\ Goto(d, "exited")
    /\ ReleaseAll(d)
    /\ UNCHANGED <<file, opened, signalled, clientVars, history>>

----
(* The commands                                                            *)

At(c, from, to) == pc[c] = from /\ pc' = [pc EXCEPT ![c] = to]

\* A command ends, and what it knew is gone.
End(c) ==
    /\ pc' = [pc EXCEPT ![c] = "idle"]
    /\ op' = [op EXCEPT ![c] = "none"]
    /\ meta' = [meta EXCEPT ![c] = None]
    /\ fd' = [fd EXCEPT ![c] = None]
    /\ locked' = [locked EXCEPT ![c] = FALSE]
    /\ waitsFor' = [waitsFor EXCEPT ![c] = None]

Command(c, o) ==
    /\ At(c, "idle", "read")
    /\ commands < MaxCommands
    /\ commands' = commands + 1
    /\ op' = [op EXCEPT ![c] = o]
    /\ overlapped' = (overlapped \/ \E other \in Clients \ {c} : pc[other] # "idle")
    /\ UNCHANGED <<file, holder, childVars, meta, fd, locked, waitsFor>>

\* There is no metadata (any more): start spawns, stop and status end.
NotRunning(c) ==
    IF op[c] = "start"
    THEN pc' = [pc EXCEPT ![c] = "spawn"] /\ UNCHANGED requestVars
    ELSE End(c)

\* Running: ReadMetadata, then metadataLocked opens the path again ...
ReadMetadata(c) ==
    /\ pc[c] = "read"
    /\ IF file = None
       THEN NotRunning(c)
       ELSE /\ At(c, "read", "probe")
            /\ meta' = [meta EXCEPT ![c] = file]
            /\ UNCHANGED <<op, fd, locked, waitsFor>>
    /\ UNCHANGED <<file, holder, childVars, history>>

OpenProbe(c) ==
    /\ At(c, "probe", IF file = None THEN "decide" ELSE "flock")
    /\ fd' = [fd EXCEPT ![c] = file]
    /\ UNCHANGED <<file, holder, childVars, op, meta, locked, waitsFor, history>>

\* ... and tries the exclusive lock itself: a failure means locked ...
ProbeLock(c) ==
    /\ pc[c] = "flock"
    /\ IF holder[fd[c]] = None
       THEN /\ At(c, "flock", "funlock")
            /\ holder' = [holder EXCEPT ![fd[c]] = c]
            /\ UNCHANGED locked
       ELSE /\ At(c, "flock", "decide")
            /\ locked' = [locked EXCEPT ![c] = TRUE]
            /\ UNCHANGED holder
    /\ UNCHANGED <<file, childVars, op, meta, fd, waitsFor, history>>

\* ... and a success is undone.
ProbeUnlock(c) ==
    /\ At(c, "funlock", "decide")
    /\ ReleaseAll(c)
    /\ UNCHANGED <<file, childVars, requestVars, history>>

\* Status is told, and a start that finds a daemon is refused.
Report(c) ==
    /\ pc[c] = "decide"
    /\ op[c] = "status" \/ (op[c] = "start" /\ locked[c])
    /\ End(c)
    /\ UNCHANGED <<file, holder, childVars, history>>

\* Stale metadata is removed, by start on its way and by stop.
RemoveStale(c) ==
    /\ pc[c] = "decide"
    /\ op[c] \in {"start", "stop"}
    /\ ~locked[c]
    /\ file' = None
    /\ NotRunning(c)
    /\ UNCHANGED <<holder, childVars, history>>

\* StopAndWait sends SIGTERM to the pid in the metadata.
Signal(c) ==
    /\ op[c] = "stop"
    /\ locked[c]
    /\ At(c, "decide", "gone")
    /\ signalled' = signalled \cup {meta[c]}
    /\ waitsFor' = [waitsFor EXCEPT ![c] = meta[c]]
    /\ UNCHANGED <<file, holder, child, opened, op, meta, fd, locked, history>>

\* The process is gone: what it left behind is removed.
StopDone(c) ==
    /\ pc[c] = "gone"
    /\ ~Alive(waitsFor[c])
    /\ file' = None
    /\ End(c)
    /\ UNCHANGED <<holder, childVars, history>>

\* The process outlives the timeout: stop reports the error, and that is all.
StopTimeout(c) ==
    /\ pc[c] = "gone"
    /\ Alive(waitsFor[c])
    /\ End(c)
    /\ UNCHANGED <<file, holder, childVars, history>>

\* Spawn re-execs the binary and waits on the ready pipe.
Spawn(c, d) ==
    /\ At(c, "spawn", "ready")
    /\ child[d] = "unborn"
    /\ Goto(d, "starting")
    /\ waitsFor' = [waitsFor EXCEPT ![c] = d]
    /\ UNCHANGED <<file, holder, opened, signalled, op, meta, fd, locked, history>>

\* The log file, the pipe or the fork fails.
SpawnFails(c) ==
    /\ pc[c] = "spawn"
    /\ End(c)
    /\ UNCHANGED <<file, holder, childVars, history>>

SaidOk(d) == child[d] \in {"running", "stopping", "removed", "unlocked"}

\* Bug: the parent keeps the write end of the pipe, so there is no EOF.
SpawnDoneOnMessage(c) ==
    /\ pc[c] = "ready"
    /\ SaidOk(waitsFor[c])
    /\ End(c)
    /\ UNCHANGED <<file, holder, childVars, history>>

\* "ok", an error line, or the EOF of a child that died without either.
SpawnDone(c) ==
    /\ pc[c] = "ready"
    /\ SaidOk(waitsFor[c]) \/ ~Alive(waitsFor[c])
    /\ End(c)
    /\ UNCHANGED <<file, holder, childVars, history>>

----
ChildStep(d) ==
    \/ WriteMetadata(d) \/ StartFails(d) \/ OpenMetadata(d) \/ LockMetadata(d)
    \/ LockFailed(d) \/ RemoveThenUnlock(d) \/ Exit(d)

ClientStep(c) ==
    \/ ReadMetadata(c) \/ OpenProbe(c) \/ ProbeLock(c) \/ ProbeUnlock(c)
    \/ Report(c) \/ RemoveStale(c) \/ Signal(c) \/ StopDone(c) \/ StopTimeout(c)
    \/ (\E d \in Daemons : Spawn(c, d)) \/ SpawnFails(c) \/ SpawnDone(c)

Next ==
    \/ \E d \in Daemons : ChildStep(d) \/ BeginShutdown(d) \/ Crash(d)
    \/ \E c \in Clients : ClientStep(c) \/ \E o \in Ops : Command(c, o)

Spec == Init /\ [][Next]_vars

\* The kernel runs both sides; nothing makes a daemon crash or stop by
\* itself, no command has to be given, and a daemon that was sent SIGTERM
\* begins to shut down.
Fairness ==
    /\ \A d \in Daemons : /\ WF_vars(ChildStep(d))
                          /\ WF_vars(d \in signalled /\ BeginShutdown(d))
    /\ \A c \in Clients : WF_vars(ClientStep(c))

FairSpec == Spec /\ Fairness

----
(* Properties                                                              *)

\* As long as commands were given one after the other, a daemon that reported
\* ready can be found by the next one, whatever older daemons that are still
\* shutting down do: the file at the path is its own and it holds the lock.
RunningIsVisible ==
    ~overlapped =>
        \A d \in Daemons : child[d] = "running" => file = d /\ holder[d] = d

\* Every command ends: start hears from its child or sees the pipe close,
\* stop gives up after its timeout.
CommandsEnd == \A c \in Clients : pc[c] # "idle" ~> pc[c] = "idle"
====
