---- MODULE WritePipeline ----
(***************************************************************************)
(* The concurrency skeleton of internal/storage/storage.go: everything     *)
(* between a call of AddTraces/AddMetrics/AddLogs/Sync/Sweep/Clear/Close   *)
(* and the OnCommit (or OnCommitBatch) callback.                           *)
(*                                                                         *)
(* Goroutines: the callers (producers never block on the queue, control    *)
(* callers do), the ticker-driven sweepLoop (a caller of Sweep), the       *)
(* callers of Close, the single writer (run) and the delivery goroutine    *)
(* (runCommits).  Shared state: the RWMutex mu with its closed flag, the   *)
(* bounded channel queue, the bounded channel commitCh, and the per-call   *)
(* reply channels.  What a batch contains, and what SQL it runs, is the    *)
(* subject of SignalStore; here a batch is its kind and a ticket.           *)
(***************************************************************************)
EXTENDS Integers, Sequences, FiniteSets

CONSTANTS
    Producers,        \* goroutines calling AddTraces, AddMetrics, AddLogs
    Controllers,      \* goroutines calling Sync, Sweep, Clear
    SweepLoop,        \* the goroutine of sweepLoop
    Closers,          \* goroutines calling Close
    Signals,          \* the signals ingested, among traces, metrics, logs
    Controls,         \* what controllers call, among sync, sweep, clear
    Listener,         \* "none", "single" (OnCommit) or "batch" (OnCommitBatch)
    WriteQueueSize,   \* writeQueueSize (1024 in the code)
    CommitQueueSize,  \* commitQueueSize (256)
    MetricBatchSize,  \* metricCommitBatchSize (16)
    MaxCalls          \* bound on the calls made, Close apart

Callers == Producers \cup Controllers \cup {SweepLoop}

ASSUME SizesAssumption ==
    /\ WriteQueueSize \in Nat \ {0}
    /\ CommitQueueSize \in Nat \ {0}
    /\ MetricBatchSize \in Nat \ {0}
    /\ MaxCalls \in Nat

ASSUME ActorsAssumption ==
    /\ Producers \cap Controllers = {}
    /\ SweepLoop \notin Producers \cup Controllers
    /\ Signals \subseteq {"traces", "metrics", "logs"}
    /\ Controls \subseteq {"sync", "sweep", "clear"}
    /\ Listener \in {"none", "single", "batch"}

VARIABLES
    callerPc,     \* where each caller is
    call,         \* what it is calling, and the id of its message in queue
    closerPc,     \* where each caller of Close is
    closed,       \* Storage.closed; queue is closed in the same critical section
    queue,        \* Storage.queue
    writerPc,     \* where run() is
    cur,          \* the message run() holds, a sequence of at most one
    commitCh,     \* Storage.commitCh; a "sync" entry is a barrier job
    commitClosed, \* commitCh has been closed
    deliveryPc,   \* where runCommits() is
    jobs,         \* the jobs runCommits() has taken for the next callback
    pending,      \* its one-job pushback, a sequence of at most one
    reached,      \* ids of the barrier jobs runCommits() has closed
    answered,     \* ids of the messages whose barrier/done channel is ready
    nextId,       \* ghost: ids number the messages in the order queue took them
    calls,        \* ghost: calls begun, bounded by MaxCalls
    accepted,     \* ghost: batches queue took
    written,      \* ghost: batches the writer has finished with
    dispatched,   \* ghost: batches whose CommitEvent commitCh took
    delivered     \* ghost: CommitEvents in the order the listener got them

callerVars == <<callerPc, call, calls>>
queueVars == <<queue, nextId, accepted>>
writerVars == <<writerPc, cur, answered, written>>
deliveryVars == <<deliveryPc, jobs, pending, reached, delivered>>
vars == <<callerVars, closerPc, closed, queueVars, writerVars, commitCh,
          commitClosed, dispatched, deliveryVars>>

Kinds == Signals \cup {"sync", "sweep", "clear"}
Msg == [id : Nat, kind : Kinds]
NoCall == [op |-> "none", ticket |-> 0]
Calls == [op : Kinds \cup {"none"}, ticket : Nat]

Init ==
    /\ callerPc = [c \in Callers |-> "idle"]
    /\ call = [c \in Callers |-> NoCall]
    /\ closerPc = [c \in Closers |-> "idle"]
    /\ closed = FALSE
    /\ queue = <<>>
    /\ writerPc = "recv"
    /\ cur = <<>>
    /\ commitCh = <<>>
    /\ commitClosed = FALSE
    /\ deliveryPc = IF Listener = "none" THEN "exited" ELSE "recv"
    /\ jobs = <<>>
    /\ pending = <<>>
    /\ reached = {}
    /\ answered = {}
    /\ nextId = 1
    /\ calls = 0
    /\ accepted = {}
    /\ written = {}
    /\ dispatched = {}
    /\ delivered = <<>>

----
(* The read-write mutex.  A sync.RWMutex stops handing out read locks as   *)
(* soon as a writer has asked for the lock, and gives it the lock once the *)
(* readers already in have left.                                           *)

\* Bug: the read lock is released before the send.
ReadersUntilChecked == {c \in Callers : callerPc[c] = "locked"}

Readers == {c \in Callers : callerPc[c] \in {"locked", "send"}}
WriterPending == \E c \in Closers : closerPc[c] = "lock"

----
(* Callers                                                                 *)

OpsOf(c) == IF c \in Producers THEN Signals
            ELSE IF c \in Controllers THEN Controls ELSE {"sweep"}

\* A call begins: conversion is over, RLock is about to be taken.  For the
\* sweepLoop this is a tick of its ticker.
Call(c, k) ==
    /\ callerPc[c] = "idle"
    /\ calls < MaxCalls
    /\ calls' = calls + 1
    /\ callerPc' = [callerPc EXCEPT ![c] = "rlock"]
    /\ call' = [call EXCEPT ![c] = [op |-> k, ticket |-> 0]]
    /\ UNCHANGED <<closerPc, closed, queueVars, writerVars, commitCh,
                   commitClosed, dispatched, deliveryVars>>

RLock(c) ==
    /\ callerPc[c] = "rlock"
    /\ ~WriterPending
    /\ callerPc' = [callerPc EXCEPT ![c] = "locked"]
    /\ UNCHANGED <<call, calls, closerPc, closed, queueVars, writerVars,
                   commitCh, commitClosed, dispatched, deliveryVars>>

Return(c) ==
    /\ callerPc' = [callerPc EXCEPT ![c] = "idle"]
    /\ call' = [call EXCEPT ![c] = NoCall]

\* The check of s.closed: a call on a closed storage returns at once.
CheckClosed(c) ==
    /\ callerPc[c] = "locked"
    /\ IF closed
       THEN Return(c)
       ELSE /\ callerPc' = [callerPc EXCEPT ![c] = "send"]
            /\ UNCHANGED call
    /\ UNCHANGED <<calls, closerPc, closed, queueVars, writerVars,
                   commitCh, commitClosed, dispatched, deliveryVars>>

Put(c) ==
    /\ Len(queue) < WriteQueueSize
    /\ queue' = Append(queue, [id |-> nextId, kind |-> call[c].op])
    /\ nextId' = nextId + 1

\* enqueue: the select sends if there is room and drops the batch if not.
TrySend(c) ==
    /\ callerPc[c] = "send"
    /\ c \in Producers
    /\ Return(c)
    /\ \/ /\ Put(c)
          /\ accepted' = accepted \cup {[id |-> nextId, kind |-> call[c].op]}
       \/ /\ Len(queue) = WriteQueueSize
          /\ UNCHANGED queueVars
    /\ UNCHANGED <<calls, closerPc, closed, writerVars, commitCh, commitClosed,
                   dispatched, deliveryVars>>

\* enqueueBlocking: the send waits for room with the read lock held.
BlockingSend(c) ==
    /\ callerPc[c] = "send"
    /\ c \notin Producers
    /\ Put(c)
    /\ callerPc' = [callerPc EXCEPT ![c] = "wait"]
    /\ call' = [call EXCEPT ![c] = [op |-> call[c].op, ticket |-> nextId]]
    /\ UNCHANGED <<calls, accepted, closerPc, closed, writerVars, commitCh,
                   commitClosed, dispatched, deliveryVars>>

CallReturn(c) ==
    /\ callerPc[c] = "wait"
    /\ call[c].ticket \in answered
    /\ Return(c)
    /\ UNCHANGED <<calls, closerPc, closed, queueVars, writerVars,
                   commitCh, commitClosed, dispatched, deliveryVars>>

\* Sweep and Clear return when their context ends; the message stays queued.
\* Sync takes no context, and sweepLoop passes context.Background().
GiveUp(c) ==
    /\ callerPc[c] = "wait"
    /\ c # SweepLoop
    /\ call[c].op # "sync"
    /\ Return(c)
    /\ UNCHANGED <<calls, closerPc, closed, queueVars, writerVars,
                   commitCh, commitClosed, dispatched, deliveryVars>>

\* sweepLoop sees sweepStop, which Close closes before it joins.
SweepLoopExit ==
    /\ callerPc[SweepLoop] = "idle"
    /\ closed
    /\ callerPc' = [callerPc EXCEPT ![SweepLoop] = "exited"]
    /\ UNCHANGED <<call, calls, closerPc, closed, queueVars, writerVars,
                   commitCh, commitClosed, dispatched, deliveryVars>>

----
(* Close                                                                   *)

\* Lock: only one writer of the mutex may be pending.
CloseCall(c) ==
    /\ closerPc[c] = "idle"
    /\ ~WriterPending
    /\ closerPc' = [closerPc EXCEPT ![c] = "lock"]
    /\ UNCHANGED <<callerVars, closed, queueVars, writerVars, commitCh,
                   commitClosed, dispatched, deliveryVars>>

\* The critical section: closed = true and close(queue).  A second Close
\* finds the flag set and returns nil.
CloseLocked(c) ==
    /\ closerPc[c] = "lock"
    /\ Readers = {}
    /\ closerPc' = [closerPc EXCEPT ![c] = IF closed THEN "noop" ELSE "join"]
    /\ closed' = TRUE
    /\ UNCHANGED <<callerVars, queueVars, writerVars, commitCh, commitClosed,
                   dispatched, deliveryVars>>

\* wg.Wait covers the writer and sweepLoop; then commitCh can be closed.
CloseJoin(c) ==
    /\ closerPc[c] = "join"
    /\ writerPc = "exited"
    /\ callerPc[SweepLoop] = "exited"
    /\ closerPc' = [closerPc EXCEPT ![c] = "commitJoin"]
    /\ commitClosed' = TRUE
    /\ UNCHANGED <<callerVars, closed, queueVars, writerVars, commitCh,
                   dispatched, deliveryVars>>

\* commitWG.Wait, after which the connections are closed and Close returns.
CloseReturn(c) ==
    /\ closerPc[c] = "commitJoin"
    /\ deliveryPc = "exited"
    /\ closerPc' = [closerPc EXCEPT ![c] = "returned"]
    /\ UNCHANGED <<callerVars, closed, queueVars, writerVars, commitCh,
                   commitClosed, dispatched, deliveryVars>>

----
(* The writer goroutine                                                    *)

WriterRecv ==
    /\ writerPc = "recv"
    /\ queue # <<>>
    /\ cur' = <<Head(queue)>>
    /\ queue' = Tail(queue)
    /\ writerPc' = "busy"
    /\ UNCHANGED <<callerVars, closerPc, closed, nextId, accepted, answered,
                   written, commitCh, commitClosed, dispatched, deliveryVars>>

BatchWritten ==
    /\ writerPc = "busy"
    /\ cur[1].kind \in Signals
    /\ written' = written \cup {cur[1]}
    /\ cur' = <<>>
    /\ writerPc' = "recv"
    /\ UNCHANGED <<callerVars, closerPc, closed, queueVars, answered,
                   commitClosed, deliveryVars>>

\* A write that fails, that leaves nothing to announce, or whose event
\* dispatchCommit has no listener for.
WriteSilently ==
    /\ BatchWritten
    /\ UNCHANGED <<commitCh, dispatched>>

DispatchCommit ==
    /\ BatchWritten
    /\ Listener # "none"
    /\ Len(commitCh) < CommitQueueSize
    /\ commitCh' = Append(commitCh, cur[1])
    /\ dispatched' = dispatched \cup {cur[1]}

\* Bug: the oldest event makes room for the newest.
DropOldestCommit ==
    /\ BatchWritten
    /\ Listener # "none"
    /\ Len(commitCh) = CommitQueueSize
    /\ commitCh' = Append(Tail(commitCh), cur[1])
    /\ dispatched' = dispatched \cup {cur[1]}

\* dispatchCommit's default branch: the newest event is dropped.
DropCommit ==
    /\ BatchWritten
    /\ Listener # "none"
    /\ Len(commitCh) = CommitQueueSize
    /\ UNCHANGED <<commitCh, dispatched>>

Reply(m) ==
    /\ answered' = answered \cup {m.id}
    /\ cur' = <<>>
    /\ writerPc' = "recv"

\* Bug: Sync's barrier is closed without awaitCommitDrain.
RunControlNoDrain ==
    /\ writerPc = "busy"
    /\ cur[1].kind \in {"sync", "sweep", "clear"}
    /\ Reply(cur[1])
    /\ UNCHANGED <<callerVars, closerPc, closed, queueVars, written, commitCh,
                   commitClosed, dispatched, deliveryVars>>

\* performSweep and performClear: done is buffered, so the send never blocks.
RunControl ==
    /\ writerPc = "busy"
    /\ \/ cur[1].kind \in {"sweep", "clear"}
       \/ cur[1].kind = "sync" /\ Listener = "none"
    /\ Reply(cur[1])
    /\ UNCHANGED <<callerVars, closerPc, closed, queueVars, written, commitCh,
                   commitClosed, dispatched, deliveryVars>>

\* Bug: the barrier job is dropped when commitCh is full.
SendBarrierOrDrop ==
    /\ writerPc = "busy"
    /\ cur[1].kind = "sync"
    /\ Listener # "none"
    /\ commitCh' = IF Len(commitCh) < CommitQueueSize
                   THEN Append(commitCh, cur[1]) ELSE commitCh
    /\ writerPc' = "barrier"
    /\ UNCHANGED <<callerVars, closerPc, closed, queueVars, cur, answered,
                   written, commitClosed, dispatched, deliveryVars>>

\* awaitCommitDrain: the barrier job is sent with a blocking send ...
SendBarrier ==
    /\ writerPc = "busy"
    /\ cur[1].kind = "sync"
    /\ Listener # "none"
    /\ Len(commitCh) < CommitQueueSize
    /\ commitCh' = Append(commitCh, cur[1])
    /\ writerPc' = "barrier"
    /\ UNCHANGED <<callerVars, closerPc, closed, queueVars, cur, answered,
                   written, commitClosed, dispatched, deliveryVars>>

\* ... and run() closes Sync's own barrier once runCommits has reached it.
BarrierReached ==
    /\ writerPc = "barrier"
    /\ cur[1].id \in reached
    /\ Reply(cur[1])
    /\ UNCHANGED <<callerVars, closerPc, closed, queueVars, written, commitCh,
                   commitClosed, dispatched, deliveryVars>>

\* Bug: the writer leaves on the closed flag, not on the drained channel.
WriterExitEarly ==
    /\ writerPc = "recv"
    /\ closed
    /\ writerPc' = "exited"
    /\ UNCHANGED <<callerVars, closerPc, closed, queueVars, cur, answered,
                   written, commitCh, commitClosed, dispatched, deliveryVars>>

WriterExit ==
    /\ writerPc = "recv"
    /\ queue = <<>>
    /\ closed
    /\ writerPc' = "exited"
    /\ UNCHANGED <<callerVars, closerPc, closed, queueVars, cur, answered,
                   written, commitCh, commitClosed, dispatched, deliveryVars>>

----
(* The delivery goroutine                                                  *)

StartJob(job) ==
    IF job.kind = "sync"
    THEN /\ reached' = reached \cup {job.id}
         /\ UNCHANGED <<jobs, deliveryPc>>
    ELSE /\ jobs' = <<job>>
         /\ deliveryPc' = IF Listener = "batch" /\ job.kind = "metrics"
                          THEN "collect" ELSE "deliver"
         /\ UNCHANGED reached

TakePending ==
    /\ deliveryPc = "recv"
    /\ pending # <<>>
    /\ pending' = <<>>
    /\ StartJob(pending[1])
    /\ UNCHANGED <<callerVars, closerPc, closed, queueVars, writerVars,
                   commitCh, commitClosed, dispatched, delivered>>

TakeJob ==
    /\ deliveryPc = "recv"
    /\ pending = <<>>
    /\ commitCh # <<>>
    /\ commitCh' = Tail(commitCh)
    /\ StartJob(Head(commitCh))
    /\ UNCHANGED <<callerVars, closerPc, closed, queueVars, writerVars,
                   commitClosed, dispatched, pending, delivered>>

\* drainMetrics: another metric event joins the callback; anything else is
\* pushed back and ends the drain.
Collect ==
    /\ deliveryPc = "collect"
    /\ Len(jobs) < MetricBatchSize
    /\ commitCh # <<>>
    /\ commitCh' = Tail(commitCh)
    /\ IF Head(commitCh).kind = "metrics"
       THEN /\ jobs' = Append(jobs, Head(commitCh))
            /\ UNCHANGED <<pending, deliveryPc>>
       ELSE /\ pending' = <<Head(commitCh)>>
            /\ deliveryPc' = "deliver"
            /\ UNCHANGED jobs
    /\ UNCHANGED <<callerVars, closerPc, closed, queueVars, writerVars,
                   commitClosed, dispatched, reached, delivered>>

\* The drain also ends at the batch size, on an empty channel, and on a
\* closed one, where runCommits delivers and returns.
StopCollecting ==
    /\ deliveryPc = "collect"
    /\ \/ /\ Len(jobs) = MetricBatchSize
          /\ deliveryPc' = "deliver"
       \/ /\ Len(jobs) < MetricBatchSize
          /\ commitCh = <<>>
          /\ deliveryPc' = IF commitClosed THEN "deliverLast" ELSE "deliver"
    /\ UNCHANGED <<callerVars, closerPc, closed, queueVars, writerVars,
                   commitCh, commitClosed, dispatched, jobs, pending, reached,
                   delivered>>

\* The listener's callback returns.
Deliver ==
    /\ deliveryPc \in {"deliver", "deliverLast"}
    /\ delivered' = delivered \o jobs
    /\ jobs' = <<>>
    /\ deliveryPc' = IF deliveryPc = "deliver" THEN "recv" ELSE "exited"
    /\ UNCHANGED <<callerVars, closerPc, closed, queueVars, writerVars,
                   commitCh, commitClosed, dispatched, pending, reached>>

DeliveryExit ==
    /\ deliveryPc = "recv"
    /\ pending = <<>>
    /\ commitCh = <<>>
    /\ commitClosed
    /\ deliveryPc' = "exited"
    /\ UNCHANGED <<callerVars, closerPc, closed, queueVars, writerVars,
                   commitCh, commitClosed, dispatched, jobs, pending, reached,
                   delivered>>

----
(* The system stops once every Close has returned and no call is left.     *)
Done ==
    /\ \A c \in Closers : closerPc[c] \in {"returned", "noop"}
    /\ \A c \in Callers : callerPc[c] \in {"idle", "exited"}
    /\ UNCHANGED vars

CallerNext(c) ==
    \/ \E k \in OpsOf(c) : Call(c, k)
    \/ RLock(c)
    \/ CheckClosed(c)
    \/ TrySend(c)
    \/ BlockingSend(c)
    \/ CallReturn(c)
    \/ GiveUp(c)

CloserNext(c) ==
    \/ CloseCall(c)
    \/ CloseLocked(c)
    \/ CloseJoin(c)
    \/ CloseReturn(c)

WriterNext ==
    \/ WriterRecv
    \/ WriteSilently
    \/ DispatchCommit
    \/ DropCommit
    \/ RunControl
    \/ SendBarrier
    \/ BarrierReached
    \/ WriterExit

DeliveryNext ==
    \/ TakePending
    \/ TakeJob
    \/ Collect
    \/ StopCollecting
    \/ Deliver
    \/ DeliveryExit

Next ==
    \/ \E c \in Callers : CallerNext(c)
    \/ SweepLoopExit
    \/ \E c \in Closers : CloserNext(c)
    \/ WriterNext
    \/ DeliveryNext
    \/ Done

Spec == Init /\ [][Next]_vars

\* A caller that has begun runs on, and so do the goroutines of Storage: the
\* Go scheduler runs every runnable goroutine.  No call has to begin, no
\* context has to end.  That Deliver is fair assumes a listener that returns.
Fairness ==
    /\ \A c \in Callers :
          WF_vars(RLock(c) \/ CheckClosed(c) \/ TrySend(c) \/ CallReturn(c))
    /\ \A c \in Callers \ Producers : SF_vars(BlockingSend(c))
    /\ WF_vars(SweepLoopExit)
    /\ \A c \in Closers : WF_vars(CloseLocked(c) \/ CloseJoin(c) \/ CloseReturn(c))
    /\ WF_vars(WriterNext)
    /\ WF_vars(DeliveryNext)

FairSpec == Spec /\ Fairness

----
(* Properties                                                              *)

\* The program counters and channels stay in their ranges, the channels
\* within their capacities (make(chan, writeQueueSize), commitQueueSize).
CallersTyped ==
    /\ callerPc \in [Callers ->
                       {"idle", "rlock", "locked", "send", "wait", "exited"}]
    /\ call \in [Callers -> Calls]
    /\ closerPc \in [Closers ->
                       {"idle", "lock", "join", "commitJoin", "returned", "noop"}]
    /\ calls \in Nat
QueueTyped ==
    /\ closed \in BOOLEAN
    /\ queue \in Seq(Msg) /\ Len(queue) <= WriteQueueSize
    /\ nextId \in Nat \ {0}
    /\ accepted \subseteq Msg
WriterTyped ==
    /\ writerPc \in {"recv", "busy", "barrier", "exited"}
    /\ cur \in Seq(Msg)
    /\ Len(cur) = (IF writerPc \in {"busy", "barrier"} THEN 1 ELSE 0)
    /\ answered \subseteq Nat
    /\ written \subseteq Msg
CommitTyped ==
    /\ commitCh \in Seq(Msg) /\ Len(commitCh) <= CommitQueueSize
    /\ commitClosed \in BOOLEAN
    /\ dispatched \subseteq Msg
DeliveryTyped ==
    /\ deliveryPc \in {"recv", "collect", "deliver", "deliverLast", "exited"}
    /\ jobs \in Seq(Msg) /\ Len(jobs) <= MetricBatchSize
    /\ pending \in Seq(Msg) /\ Len(pending) <= 1
    /\ reached \subseteq Nat
    /\ delivered \in Seq(Msg)
TypeOK ==
    /\ CallersTyped
    /\ QueueTyped
    /\ WriterTyped
    /\ CommitTyped
    /\ DeliveryTyped

\* Storage.mu's comment: no sender is in flight when a channel closes, so no
\* send can hit a closed channel and panic.  A caller past the closed check
\* keeps the queue open; the writer, sole sender on commitCh, is gone when
\* Close closes it; and the flag and the mutex agree.
NoSendOnClosed ==
    /\ closed => \A c \in Callers : callerPc[c] # "send"
    /\ commitClosed => writerPc = "exited"

\* The callers that are in a call know what they called.
CallOK ==
    \A c \in Callers : callerPc[c] \in {"rlock", "locked", "send", "wait"}
                          => call[c].op \in OpsOf(c)

\* The strengthening that makes type correctness and NoSendOnClosed inductive.
LockInv == TypeOK /\ CallOK /\ NoSendOnClosed

HeldIn(m, s) == \E i \in 1..Len(s) : s[i] = m

Undelivered == {m \in dispatched : ~HeldIn(m, delivered)}

\* An event commitCh took is never lost on its way to the listener: as long
\* as it is undelivered it is held exactly where runCommits will find it,
\* whatever the coalescing and the channel's closing did in between.
DispatchedIsHeld ==
    \A m \in Undelivered :
        HeldIn(m, jobs) \/ HeldIn(m, pending) \/ HeldIn(m, commitCh)

\* Sync "blocks until the writer has processed every batch enqueued before
\* this call", extended by msgSync's comment to delivery: when a caller of
\* Sync has its answer, every batch the queue took before its message is
\* written and every event of those the channel took has been delivered.
SyncIsBarrier ==
    \A c \in Callers :
        (callerPc[c] = "wait" /\ call[c].op = "sync" /\ call[c].ticket \in answered) =>
            /\ \A m \in accepted : m.id < call[c].ticket => m \in written
            /\ \A m \in Undelivered : m.id > call[c].ticket

\* Close "drains everything already queued" and "waits for every CommitEvent
\* already handed to the delivery goroutine": the Close that shut the queue
\* returns with every accepted batch written, nothing undelivered, and both
\* goroutines gone.
CloseDrains ==
    \A c \in Closers : closerPc[c] = "returned" =>
        /\ accepted \subseteq written
        /\ Undelivered = {}
        /\ writerPc = "exited" /\ deliveryPc = "exited"

\* Why CloseDrains is inductive: what was accepted is written or still with
\* the writer, what was dispatched is delivered or still with runCommits, and
\* each goroutine leaves only when nothing can reach it any more.
WriterKeeps ==
    /\ \A m \in accepted : m \in written \/ HeldIn(m, cur) \/ HeldIn(m, queue)
    /\ \A m \in accepted : m.kind \in Signals
    /\ writerPc = "barrier" => cur[1].kind = "sync"
    /\ writerPc = "exited" => closed /\ queue = <<>>
DeliveryKeeps ==
    /\ \A m \in dispatched : m.kind \in Signals
    /\ DispatchedIsHeld
    /\ deliveryPc = "recv" => jobs = <<>>
    /\ deliveryPc \in {"collect", "deliverLast"} => pending = <<>>
    /\ deliveryPc = "deliverLast" => commitClosed /\ commitCh = <<>>
    /\ deliveryPc = "exited" => \/ Listener = "none" /\ dispatched = {}
                                \/ /\ commitClosed
                                   /\ jobs = <<>> /\ pending = <<>> /\ commitCh = <<>>
    /\ Listener = "none" => deliveryPc = "exited"
CloserKeeps ==
    \A c \in Closers :
        /\ closerPc[c] = "commitJoin" => commitClosed
        /\ closerPc[c] = "returned" => writerPc = "exited" /\ deliveryPc = "exited"
DrainInv == LockInv /\ WriterKeeps /\ DeliveryKeeps /\ CloserKeeps

\* No wait of the pipeline is for ever: every call of a producer or a
\* controller comes back, also the ones racing Close, those blocked on a full
\* queue with the read lock held, and those whose predecessor gave up on its
\* reply.  That a Close comes back is part of ImplementsCommitStream.
CallsReturn ==
    \A c \in Callers : callerPc[c] = "rlock" ~> callerPc[c] \in {"idle", "exited"}

----
(* The pipeline implements the commit stream.                              *)

IsBatch(m) == m.kind \in Signals

\* The batches of s, without the control messages among them.
BatchesIn(s) ==
    LET upTo[n \in 0..Len(s)] ==
            IF n = 0 THEN <<>>
            ELSE IF IsBatch(s[n]) THEN Append(upTo[n - 1], s[n])
            ELSE upTo[n - 1]
    IN  upTo[Len(s)]

Phase == IF \E c \in Closers : closerPc[c] = "returned" THEN "closed"
         ELSE IF closed THEN "draining" ELSE "open"

Abs == INSTANCE CommitStream WITH
    Batches <- [id : 1..MaxCalls, kind : Signals],
    phase <- Phase,
    buffered <- BatchesIn(cur \o queue),
    events <- BatchesIn(jobs \o pending \o commitCh)

\* The goroutines, channels and locks of storage.go implement the ordered,
\* draining stream its doc comments promise, progress included.
ImplementsCommitStream == Abs!Spec

====
