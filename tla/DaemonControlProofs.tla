---- MODULE DaemonControlProofs ----
(***************************************************************************)
(* Theorems about DaemonControl, for any number of invocations, daemons    *)
(* and commands.                                                           *)
(***************************************************************************)
EXTENDS DaemonControl, TLAPS

DaemonTyped ==
    /\ file \in Daemons \cup {None}
    /\ holder \in [Daemons -> Daemons \cup Clients \cup {None}]
    /\ child \in [Daemons -> {"unborn", "starting", "written", "opened", "lockFailed", "running",
                              "stopping", "removed", "unlocked", "exited"}]
    /\ opened \in [Daemons -> Daemons \cup {None}]
    /\ pc \in [Clients -> {"idle", "read", "probe", "flock", "funlock", "decide", "gone",
                           "spawn", "ready"}]
    /\ op \in [Clients -> Ops \cup {"none"}]
    /\ meta \in [Clients -> Daemons \cup {None}]
    /\ fd \in [Clients -> Daemons \cup {None}]
    /\ locked \in [Clients -> BOOLEAN]
    /\ waitsFor \in [Clients -> Daemons \cup {None}]
    /\ overlapped \in BOOLEAN

\* A daemon whose parent has not been told, and one that has the lock and
\* will still remove the state.
Young(d) == child[d] \in {"starting", "written", "opened", "lockFailed"}
Up(d) == child[d] \in {"running", "stopping"}

OneCommand == \A c, e \in Clients : pc[c] # "idle" /\ pc[e] # "idle" => c = e

\* A young daemon has a start that waits for it.
Awaited == \A d \in Daemons : Young(d) => \E c \in Clients : pc[c] = "ready" /\ waitsFor[c] = d

Visible == \A d \in Daemons : Up(d) => file = d /\ holder[d] = d

\* No daemon is started beside one that is up.
Alone == \A d, e \in Daemons : Young(d) => ~Up(e)

\* Between its rename and its lock nobody touches a daemon's file.
OwnFile ==
    \A d \in Daemons : /\ child[d] \in {"written", "opened"} => file = d
                       /\ child[d] = "opened" => opened[d] = d

\* What a command found out about the daemon that is up stays true.
Known ==
    \A d \in Daemons, c \in Clients : Up(d) =>
        /\ pc[c] \notin {"spawn", "funlock"}
        /\ pc[c] = "flock" => fd[c] = d
        /\ pc[c] = "decide" => locked[c]
        /\ pc[c] \in {"probe", "flock", "decide"} => meta[c] = d
        /\ pc[c] = "gone" => waitsFor[c] = d

OneByOne == OneCommand /\ Awaited /\ Visible /\ Alone /\ OwnFile /\ Known

DaemonInv == DaemonTyped /\ (~overlapped => OneByOne)

\* No daemon and no command runs at the start.
LEMMA DaemonInit == Init => DaemonInv
  <1> SUFFICES ASSUME Init PROVE DaemonInv
    OBVIOUS
  <1>1. \A d \in Daemons : child[d] = "unborn"
    BY DEF Init
  <1>2. \A c \in Clients : pc[c] = "idle"
    BY DEF Init
  <1>3. DaemonTyped
    BY DEF Init, DaemonTyped
  <1>4. OneByOne
    BY <1>1, <1>2 DEF OneByOne, OneCommand, Awaited, Visible, Alone, OwnFile, Known, Young, Up
  <1>5. QED
    BY <1>3, <1>4 DEF DaemonInv

\* Types, action by action.
LEMMA DaemonTypes == DaemonTyped /\ [Next]_vars => DaemonTyped'
  <1> SUFFICES ASSUME DaemonTyped, [Next]_vars PROVE DaemonTyped'
    OBVIOUS
  <1> USE DEF DaemonTyped
  <1>1. ASSUME NEW d \in Daemons, ChildStep(d) \/ BeginShutdown(d) \/ Crash(d) PROVE DaemonTyped'
    <2>1. CASE WriteMetadata(d) \/ StartFails(d) \/ OpenMetadata(d)
      BY <2>1 DEF WriteMetadata, StartFails, OpenMetadata, Goto, clientVars, requestVars, history
    <2>2. CASE LockMetadata(d) \/ LockFailed(d) \/ Exit(d)
      BY <2>2 DEF LockMetadata, LockFailed, Exit, Goto, clientVars, requestVars, history
    <2>3. CASE RemoveThenUnlock(d) \/ BeginShutdown(d) \/ Crash(d)
      BY <2>3 DEF RemoveThenUnlock, BeginShutdown, Crash, Goto, ReleaseAll, clientVars, requestVars, history
    <2>4. QED
      BY <1>1, <2>1, <2>2, <2>3 DEF ChildStep
  <1>2. ASSUME NEW c \in Clients, ClientStep(c) PROVE DaemonTyped'
    <2>1. CASE ReadMetadata(c)
      BY <2>1 DEF ReadMetadata, NotRunning, End, At, childVars, requestVars, history
    <2>2. CASE OpenProbe(c) \/ ProbeUnlock(c)
      BY <2>2 DEF OpenProbe, ProbeUnlock, ReleaseAll, At, childVars, requestVars, history
    <2>8. CASE ProbeLock(c)
      BY <2>8 DEF ProbeLock, At, childVars, history
    <2>3. CASE Report(c) \/ StopDone(c) \/ StopTimeout(c) \/ SpawnFails(c) \/ SpawnDone(c)
      BY <2>3 DEF Report, StopDone, StopTimeout, SpawnFails, SpawnDone, End, childVars, history
    <2>4. CASE RemoveStale(c)
      BY <2>4 DEF RemoveStale, NotRunning, End, childVars, requestVars, history
    <2>5. CASE Signal(c)
      BY <2>5 DEF Signal, At, history
    <2>6. ASSUME NEW d \in Daemons, Spawn(c, d) PROVE DaemonTyped'
      BY <2>6 DEF Spawn, At, Goto, history
    <2>7. QED
      BY <1>2, <2>1, <2>2, <2>3, <2>4, <2>5, <2>6, <2>8 DEF ClientStep
  <1>3. ASSUME NEW c \in Clients, NEW o \in Ops, Command(c, o) PROVE DaemonTyped'
    BY <1>3 DEF Command, At, childVars
  <1>4. CASE UNCHANGED vars
    BY <1>4 DEF vars, childVars, clientVars, requestVars, history
  <1>5. QED
    BY <1>1, <1>2, <1>3, <1>4 DEF Next

\* Two daemons whose parents wait would have two commands waiting.
LEMMA OneYoung == OneByOne => \A d, e \in Daemons : Young(d) /\ Young(e) => d = e
  BY DEF OneByOne, OneCommand, Awaited

\* A step of a daemon while commands are given one after the other.
LEMMA ChildKeeps ==
  ASSUME DaemonTyped, OneByOne, NEW d \in Daemons, ChildStep(d) \/ BeginShutdown(d) \/ Crash(d)
  PROVE  OneByOne'
  <1> USE DEF DaemonTyped
  <1>1. UNCHANGED <<pc, op, meta, fd, locked, waitsFor>>
    BY DEF ChildStep, WriteMetadata, StartFails, OpenMetadata, LockMetadata, LockFailed, RemoveThenUnlock,
           Exit, BeginShutdown, Crash, clientVars, requestVars
  <1>2. \A e \in Daemons : e # d => child'[e] = child[e]
    BY DEF ChildStep, WriteMetadata, StartFails, OpenMetadata, LockMetadata, LockFailed, RemoveThenUnlock,
           Exit, BeginShutdown, Crash, Goto
  <1>3. \A e \in Daemons : e # d => (Up(e)' <=> Up(e)) /\ (Young(e)' <=> Young(e))
    BY <1>2 DEF Up, Young
  \* It suffices to say what becomes of this daemon and of the file.
  <1>4. ASSUME Young(d)' => Young(d), Up(d)' => Up(d), Visible', OwnFile' PROVE OneByOne'
    <2>1. \A e \in Daemons : (Up(e)' => Up(e)) /\ (Young(e)' => Young(e))
      BY <1>3, <1>4
    <2>2. OneCommand' /\ Awaited' /\ Alone' /\ Known'
      BY <1>1, <2>1 DEF OneByOne, OneCommand, Awaited, Alone, Known
    <2>3. QED
      BY <1>4, <2>2 DEF OneByOne
  <1>5. ASSUME Young(d) PROVE \A e \in Daemons : ~Up(e) /\ (Young(e) => e = d)
    BY <1>5, OneYoung DEF OneByOne, Alone
  <1>6. CASE WriteMetadata(d)
    <2>1. child[d] = "starting" /\ child'[d] = "written" /\ file' = d
      BY <1>6 DEF WriteMetadata, Goto
    <2>2. Young(d) /\ ~Up(d)'
      BY <2>1 DEF Young, Up
    <2>3. Visible'
      BY <1>3, <1>5, <2>2 DEF Visible
    <2>4. \A e \in Daemons : child'[e] \in {"written", "opened"} => e = d
      BY <1>2, <1>5, <2>2 DEF Young
    <2>5. OwnFile'
      BY <2>1, <2>4 DEF OwnFile
    <2>6. QED
      BY <1>4, <2>2, <2>3, <2>5
  <1>7. CASE OpenMetadata(d)
    <2>1. /\ child[d] = "written" /\ file' = file /\ holder' = holder
          /\ child'[d] \in {"opened", "lockFailed"}
          /\ child'[d] = "opened" => opened' = [opened EXCEPT ![d] = file]
          /\ child'[d] = "lockFailed" => opened' = opened
      BY <1>7 DEF OpenMetadata, Goto
    <2>2. file = d
      BY <2>1 DEF OneByOne, OwnFile
    <2>3. Young(d) /\ ~Up(d)'
      BY <2>1 DEF Young, Up
    <2>4. Visible'
      BY <1>3, <1>5, <2>3 DEF Visible
    <2>5. \A e \in Daemons : child'[e] \in {"written", "opened"} => e = d
      BY <1>2, <1>5, <2>3 DEF Young
    <2>6. OwnFile'
      BY <2>1, <2>2, <2>5 DEF OwnFile
    <2>7. QED
      BY <1>4, <2>3, <2>4, <2>6
  <1>8. CASE LockMetadata(d)
    <2>1. child[d] = "opened" /\ file' = file /\ opened' = opened
      BY <1>8 DEF LockMetadata
    <2>2. file = d /\ opened[d] = d
      BY <2>1 DEF OneByOne, OwnFile
    <2>3. Young(d)
      BY <2>1 DEF Young
    <2>4. \A e \in Daemons : ~(child'[e] \in {"written", "opened"})
      <3>1. child'[d] \in {"running", "lockFailed"}
        BY <1>8 DEF LockMetadata, Goto
      <3>2. QED
        BY <1>2, <1>5, <2>3, <3>1 DEF Young
    <2>5. OwnFile'
      BY <2>4 DEF OwnFile
    <2>6. \A e \in Daemons : Up(e)' => e = d /\ holder' = [holder EXCEPT ![d] = d] /\ child'[d] = "running"
      BY <1>3, <1>5, <1>8, <2>2, <2>3 DEF LockMetadata, Goto, Up
    <2>7. Visible'
      BY <2>1, <2>2, <2>6 DEF Visible
    <2>8. CASE Up(d)'
      <3>1. \A e \in Daemons : ~Young(e)'
        BY <1>3, <1>5, <2>3, <2>6, <2>8 DEF Young
      <3>2. PICK c \in Clients : pc[c] = "ready" /\ waitsFor[c] = d
        BY <2>3 DEF OneByOne, Awaited
      <3>3. \A b \in Clients : pc[b] \in {"idle", "ready"}
        BY <3>2 DEF OneByOne, OneCommand
      <3>4. OneCommand' /\ Awaited' /\ Alone'
        BY <1>1, <3>1 DEF OneByOne, OneCommand, Awaited, Alone
      <3>5. Known'
        BY <1>1, <3>3 DEF Known
      <3>6. QED
        BY <2>5, <2>7, <3>4, <3>5 DEF OneByOne
    <2>9. CASE ~Up(d)'
      BY <1>4, <2>3, <2>5, <2>7, <2>9
    <2>10. QED
      BY <2>8, <2>9
  <1>9. CASE LockFailed(d)
    <2>1. child[d] = "lockFailed" /\ child'[d] = "exited"
      BY <1>9 DEF LockFailed, Goto
    <2>2. Young(d) /\ ~Young(d)' /\ ~Up(d)'
      BY <2>1 DEF Young, Up
    <2>3. Visible'
      BY <1>3, <1>5, <2>2 DEF Visible
    <2>4. \A e \in Daemons : ~Young(e)'
      BY <1>3, <1>5, <2>2
    <2>5. OwnFile'
      BY <2>4 DEF OwnFile, Young
    <2>6. QED
      BY <1>4, <2>2, <2>3, <2>5
  <1>10. CASE RemoveThenUnlock(d) /\ child[d] = "stopping"
    <2>1. child'[d] = "removed" /\ Up(d)
      BY <1>10 DEF RemoveThenUnlock, Goto, Up
    <2>2. ~Up(d)' /\ ~Young(d)'
      BY <2>1 DEF Up, Young
    <2>3. \A e \in Daemons : Up(e) => e = d
      BY <2>1 DEF OneByOne, Visible
    <2>4. \A e \in Daemons : ~Young(e)' /\ ~Up(e)'
      BY <1>3, <2>1, <2>2, <2>3 DEF OneByOne, Alone
    <2>5. Visible' /\ OwnFile'
      BY <2>4 DEF Visible, OwnFile, Young
    <2>6. QED
      BY <1>4, <2>2, <2>5
  <1>11. CASE \/ StartFails(d) \/ BeginShutdown(d) \/ Exit(d) \/ Crash(d)
              \/ RemoveThenUnlock(d) /\ child[d] = "removed"
    <2>1. /\ file' = file /\ opened' = opened
          /\ child'[d] \notin {"starting", "written", "opened", "lockFailed"}
          /\ child'[d] \in {"running", "stopping"} => child[d] = "running" /\ holder' = holder
      BY <1>11 DEF StartFails, BeginShutdown, Exit, Crash, RemoveThenUnlock, Goto
    <2>2. \A e \in Daemons : e # d /\ holder[e] = e => holder'[e] = e
      BY <1>11 DEF StartFails, BeginShutdown, Exit, Crash, RemoveThenUnlock, ReleaseAll
    <2>3. ~Young(d)' /\ (Up(d)' => Up(d) /\ holder' = holder)
      BY <2>1 DEF Young, Up
    <2>4. Visible'
      BY <1>3, <2>1, <2>2, <2>3 DEF OneByOne, Visible
    <2>5. OwnFile'
      BY <1>2, <2>1 DEF OneByOne, OwnFile
    <2>6. QED
      BY <1>4, <2>3, <2>4, <2>5
  <1>12. QED
    BY <1>6, <1>7, <1>8, <1>9, <1>10, <1>11 DEF ChildStep, RemoveThenUnlock

\* A step of the one command there is.
LEMMA ClientKeeps ==
  ASSUME DaemonTyped, OneByOne, NEW c \in Clients, ClientStep(c)
  PROVE  OneByOne'
  <1> USE DEF DaemonTyped
  <1>1. pc[c] # "idle" /\ \A e \in Clients \ {c} : pc'[e] = pc[e]
    BY DEF ClientStep, ReadMetadata, NotRunning, OpenProbe, ProbeLock, ProbeUnlock, Report, RemoveStale,
           Signal, StopDone, StopTimeout, Spawn, SpawnFails, SpawnDone, At, End, requestVars
  <1>2. \A e \in Clients \ {c} : pc[e] = "idle" /\ pc'[e] = "idle"
    BY <1>1 DEF OneByOne, OneCommand
  <1>3. OneCommand'
    BY <1>2 DEF OneCommand
  <1>4. \A d \in Daemons : ~Young(d)
    <2>1. ASSUME NEW d \in Daemons, Young(d) PROVE FALSE
      <3>1. pc[c] = "ready" /\ waitsFor[c] = d
        BY <1>2, <2>1 DEF OneByOne, Awaited
      <3>2. SpawnDone(c)
        BY <3>1 DEF ClientStep, ReadMetadata, OpenProbe, ProbeLock, ProbeUnlock, Report, RemoveStale,
                    Signal, StopDone, StopTimeout, Spawn, SpawnFails, At
      <3>3. QED
        BY <2>1, <3>1, <3>2 DEF SpawnDone, SaidOk, Alive, Young
    <2>2. QED
      BY <2>1
  \* What is left to show for a step that starts no daemon.
  <1>5. ASSUME child' = child, Visible',
               \A d \in Daemons : Up(d) =>
                  /\ pc'[c] \notin {"spawn", "funlock"}
                  /\ pc'[c] = "flock" => fd'[c] = d
                  /\ pc'[c] = "decide" => locked'[c]
                  /\ pc'[c] \in {"probe", "flock", "decide"} => meta'[c] = d
                  /\ pc'[c] = "gone" => waitsFor'[c] = d
        PROVE  OneByOne'
    <2>1. \A d \in Daemons : (Up(d)' <=> Up(d)) /\ ~Young(d)'
      BY <1>4, <1>5 DEF Up, Young
    <2>2. Awaited' /\ Alone'
      BY <2>1 DEF Awaited, Alone
    <2>3. OwnFile'
      BY <2>1 DEF OwnFile, Young
    <2>4. Known'
      BY <1>2, <1>5, <2>1 DEF Known
    <2>5. QED
      BY <1>3, <1>5, <2>2, <2>3, <2>4 DEF OneByOne
  <1>6. \A d \in Daemons : Up(d) => file = d /\ holder[d] = d
    BY DEF OneByOne, Visible
  <1>7. ASSUME child' = child, file' = file, \A d \in Daemons : holder[d] = d => holder'[d] = d
        PROVE  Visible'
    BY <1>6, <1>7 DEF Visible, Up
  <1>8. \A d \in Daemons : Up(d) =>
           /\ pc[c] \notin {"spawn", "funlock"}
           /\ pc[c] = "flock" => fd[c] = d
           /\ pc[c] = "decide" => locked[c]
           /\ pc[c] \in {"probe", "flock", "decide"} => meta[c] = d
           /\ pc[c] = "gone" => waitsFor[c] = d
    BY DEF OneByOne, Known
  <1>9. ASSUME child' = child, \A d \in Daemons : ~Up(d) PROVE OneByOne'
    <2>1. Visible'
      BY <1>9 DEF Visible, Up
    <2>2. QED
      BY <1>5, <1>9, <2>1
  <1>10. CASE ReadMetadata(c)
    <2>1. child' = child /\ file' = file /\ holder' = holder
      BY <1>10 DEF ReadMetadata, childVars
    <2>2. CASE file = None
      BY <1>6, <1>9, <2>1, <2>2, ProcessesAssumption
    <2>3. CASE file # None
      <3>1. pc'[c] = "probe" /\ meta'[c] = file
        BY <1>10, <2>3 DEF ReadMetadata, At
      <3>2. QED
        BY <1>5, <1>6, <1>7, <2>1, <3>1
    <2>4. QED
      BY <2>2, <2>3
  <1>11. CASE OpenProbe(c)
    <2>1. /\ child' = child /\ file' = file /\ holder' = holder /\ meta' = meta
          /\ pc[c] = "probe" /\ pc'[c] = (IF file = None THEN "decide" ELSE "flock")
          /\ fd'[c] = file
      BY <1>11 DEF OpenProbe, At, childVars
    <2>2. CASE file = None
      BY <1>6, <1>9, <2>1, <2>2, ProcessesAssumption
    <2>3. CASE file # None
      BY <1>5, <1>6, <1>7, <1>8, <2>1, <2>3
    <2>4. QED
      BY <2>2, <2>3
  <1>12. CASE ProbeLock(c)
    <2>1. child' = child /\ file' = file /\ meta' = meta /\ pc[c] = "flock"
      BY <1>12 DEF ProbeLock, At, childVars
    <2>2. CASE holder[fd[c]] = None
      BY <1>6, <1>8, <1>9, <2>1, <2>2, ProcessesAssumption
    <2>3. CASE holder[fd[c]] # None
      <3>1. pc'[c] = "decide" /\ locked'[c] /\ holder' = holder
        BY <1>12, <2>3 DEF ProbeLock, At
      <3>2. QED
        BY <1>5, <1>7, <1>8, <2>1, <3>1
    <2>4. QED
      BY <2>2, <2>3
  <1>13. CASE ProbeUnlock(c)
    <2>1. child' = child /\ pc[c] = "funlock"
      BY <1>13 DEF ProbeUnlock, At, childVars
    <2>2. QED
      BY <1>8, <1>9, <2>1
  <1>14. CASE Report(c) \/ StopTimeout(c) \/ SpawnFails(c) \/ SpawnDone(c)
    <2>1. child' = child /\ file' = file /\ holder' = holder /\ pc'[c] = "idle"
      BY <1>14 DEF Report, StopTimeout, SpawnFails, SpawnDone, End, childVars
    <2>2. QED
      BY <1>5, <1>7, <2>1
  <1>15. CASE RemoveStale(c)
    <2>1. child' = child /\ pc[c] = "decide" /\ ~locked[c]
      BY <1>15 DEF RemoveStale, childVars
    <2>2. QED
      BY <1>8, <1>9, <2>1
  <1>16. CASE Signal(c)
    <2>1. /\ child' = child /\ file' = file /\ holder' = holder
          /\ pc[c] = "decide" /\ pc'[c] = "gone" /\ waitsFor'[c] = meta[c]
      BY <1>16 DEF Signal, At
    <2>2. QED
      BY <1>5, <1>7, <1>8, <2>1
  <1>17. CASE StopDone(c)
    <2>1. child' = child /\ pc[c] = "gone" /\ ~Alive(waitsFor[c])
      BY <1>17 DEF StopDone, childVars
    <2>2. \A d \in Daemons : ~Up(d)
      BY <1>8, <2>1 DEF Alive, Up
    <2>3. QED
      BY <1>9, <2>1, <2>2
  <1>18. ASSUME NEW d \in Daemons, Spawn(c, d) PROVE OneByOne'
    <2>1. /\ pc[c] = "spawn" /\ pc'[c] = "ready" /\ waitsFor'[c] = d
          /\ child'[d] = "starting" /\ \A e \in Daemons : e # d => child'[e] = child[e]
      BY <1>18 DEF Spawn, At, Goto
    <2>2. \A e \in Daemons : ~Up(e)' /\ (Young(e)' => e = d)
      BY <1>4, <1>8, <2>1 DEF Up, Young
    <2>3. Awaited' /\ Alone' /\ Visible' /\ Known'
      BY <2>1, <2>2 DEF Awaited, Alone, Visible, Known
    <2>4. OwnFile'
      BY <2>1, <2>2 DEF OwnFile, Young
    <2>5. QED
      BY <1>3, <2>3, <2>4 DEF OneByOne
  <1>19. QED
    BY <1>10, <1>11, <1>12, <1>13, <1>14, <1>15, <1>16, <1>17, <1>18 DEF ClientStep

\* Every action of a command or a daemon keeps the invariant.
LEMMA DaemonNext == DaemonInv /\ [Next]_vars => DaemonInv'
  <1> SUFFICES ASSUME DaemonInv, [Next]_vars PROVE DaemonInv'
    OBVIOUS
  <1>1. DaemonTyped /\ DaemonTyped'
    BY DaemonTypes DEF DaemonInv
  <1>2. ASSUME ~overlapped' PROVE OneByOne'
    <2>1. ASSUME NEW d \in Daemons, ChildStep(d) \/ BeginShutdown(d) \/ Crash(d) PROVE OneByOne'
      <3>1. overlapped' = overlapped
        BY <2>1 DEF ChildStep, WriteMetadata, StartFails, OpenMetadata, LockMetadata, LockFailed,
                    RemoveThenUnlock, Exit, BeginShutdown, Crash, history
      <3>2. QED
        BY <1>1, <1>2, <2>1, <3>1, ChildKeeps DEF DaemonInv
    <2>2. ASSUME NEW c \in Clients, ClientStep(c) PROVE OneByOne'
      <3>1. overlapped' = overlapped
        BY <2>2 DEF ClientStep, ReadMetadata, OpenProbe, ProbeLock, ProbeUnlock, Report, RemoveStale,
                    Signal, StopDone, StopTimeout, Spawn, SpawnFails, SpawnDone, history
      <3>2. QED
        BY <1>1, <1>2, <2>2, <3>1, ClientKeeps DEF DaemonInv
    <2>3. ASSUME NEW c \in Clients, NEW o \in Ops, Command(c, o) PROVE OneByOne'
      <3>1. /\ pc[c] = "idle" /\ pc'[c] = "read" /\ \A e \in Clients \ {c} : pc'[e] = pc[e]
            /\ UNCHANGED <<file, holder, child, opened, meta, fd, locked, waitsFor>>
        BY <1>1, <2>3 DEF Command, At, childVars, DaemonTyped
      <3>2. ~overlapped /\ \A e \in Clients \ {c} : pc[e] = "idle"
        BY <1>2, <2>3 DEF Command
      <3>3. OneByOne
        BY <3>2 DEF DaemonInv
      <3>4. \A d \in Daemons : (Up(d)' <=> Up(d)) /\ ~Young(d) /\ ~Young(d)'
        BY <3>1, <3>2, <3>3 DEF OneByOne, Awaited, Up, Young
      <3>5. OneCommand' /\ Awaited' /\ Visible' /\ Alone'
        BY <3>1, <3>2, <3>3, <3>4 DEF OneByOne, OneCommand, Awaited, Visible, Alone
      <3>6. OwnFile'
        BY <3>4 DEF OwnFile, Young
      <3>7. Known'
        BY <3>1, <3>2, <3>4 DEF Known
      <3>8. QED
        BY <3>5, <3>6, <3>7 DEF OneByOne
    <2>4. CASE UNCHANGED vars
      <3>1. UNCHANGED <<file, holder, child, opened, pc, meta, fd, locked, waitsFor, overlapped>>
        BY <2>4 DEF vars, childVars, clientVars, requestVars, history
      <3>2. QED
        BY <1>2, <3>1 DEF DaemonInv, OneByOne, OneCommand, Awaited, Visible, Alone, OwnFile, Known, Up, Young
    <2>5. QED
      BY <2>1, <2>2, <2>3, <2>4 DEF Next
  <1>3. QED
    BY <1>1, <1>2 DEF DaemonInv

\* As long as commands are given one after the other, a daemon that reported
\* ready is the one whose metadata is at the path and holds the lock on it:
\* no start spawns beside it, no stale removal, late stop or old daemon that
\* is still shutting down takes its file, and no probe its lock.
THEOREM DaemonIsVisible == Spec => []RunningIsVisible
  <1>1. Init => DaemonInv
    BY DaemonInit
  <1>2. DaemonInv /\ [Next]_vars => DaemonInv'
    BY DaemonNext
  <1>3. DaemonInv => RunningIsVisible
    BY DEF DaemonInv, OneByOne, Visible, Up, RunningIsVisible
  <1>4. QED
    BY <1>1, <1>2, <1>3, PTL DEF Spec
====
