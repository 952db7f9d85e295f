---- MODULE WritePipelineProofs ----
(***************************************************************************)
(* Theorems about WritePipeline, for every set of callers, every capacity  *)
(* of the two channels and every batch size.                               *)
(***************************************************************************)
EXTENDS WritePipeline, SequenceTheorems, FiniteSetTheorems, WellFoundedInduction, TLAPS

----
(* Sets of numbers.                                                        *)

\* A set that holds 0 and the successor of each of its elements holds every
\* natural: one it left out would have a least.
LEMMA InductiveSet ==
  ASSUME NEW S, 0 \in S, \A n \in Nat : n \in S => n + 1 \in S
  PROVE  Nat \subseteq S
  <1> DEFINE R == OpToRel(<, Nat)
             Out == Nat \ S
  <1>1. IsWellFoundedOn(R, Nat)
    BY NatLessThanWellFounded, Zenon
  <1>2. \A x, y \in Nat : y < x => <<y, x>> \in R
    BY DEF OpToRel
  <1>3. Out \subseteq Nat
    OBVIOUS
  <1> HIDE DEF R, Out
  <1>4. Out # {} => \E x \in Out : \A y \in Out : ~(<<y, x>> \in R)
    BY <1>1, <1>3, WFMin, Zenon
  <1>5. SUFFICES ASSUME NEW x \in Out, \A y \in Out : ~(<<y, x>> \in R) PROVE FALSE
    BY <1>4 DEF Out
  <1>6. x \in Nat /\ x # 0 /\ x \notin S
    BY DEF Out
  <1>7. x - 1 \in Nat /\ x - 1 < x /\ (x - 1) + 1 = x
    BY <1>6
  <1>8. x - 1 \in Out
    BY <1>6, <1>7 DEF Out
  <1>9. QED
    BY <1>2, <1>5, <1>6, <1>7, <1>8

----
(* The lock and the types.                                                  *)

USE SizesAssumption, ActorsAssumption

\* The initial state is well typed and nothing is closed.
LEMMA LockInit == Init => LockInv
  <1> SUFFICES ASSUME Init PROVE LockInv
    OBVIOUS
  <1>1. CallersTyped
    BY DEF Init, CallersTyped, NoCall, Calls
  <1>2. QueueTyped
    <2>1. closed \in BOOLEAN
      BY DEF Init
    <2>2. queue \in Seq(Msg) /\ Len(queue) <= WriteQueueSize
      BY DEF Init
    <2>3. nextId \in Nat \ {0} /\ accepted \subseteq Msg
      BY DEF Init
    <2>4. QED
      BY <2>1, <2>2, <2>3 DEF QueueTyped
  <1>3. WriterTyped
    BY DEF Init, WriterTyped
  <1>4. CommitTyped
    <2>1. commitClosed \in BOOLEAN
      BY DEF Init
    <2>2. commitCh \in Seq(Msg) /\ Len(commitCh) <= CommitQueueSize /\ dispatched \subseteq Msg
      BY DEF Init
    <2>3. QED
      BY <2>1, <2>2 DEF CommitTyped
  <1>5. DeliveryTyped
    BY DEF Init, DeliveryTyped
  <1>6. CallOK
    BY DEF Init, CallOK
  <1>7. NoSendOnClosed
    BY DEF Init, NoSendOnClosed
  <1>8. QED
    BY <1>1, <1>2, <1>3, <1>4, <1>5, <1>6, <1>7 DEF LockInv, TypeOK

\* What a caller asks for is a message kind.
LEMMA OpsAreKinds ==
  ASSUME NEW c \in Callers
  PROVE  OpsOf(c) \subseteq Kinds
  BY DEF OpsOf, Kinds

\* The message a sender puts in the queue is well formed, and the queue stays
\* within its capacity.
LEMMA PutTyped ==
  ASSUME LockInv, NEW c \in Callers, callerPc[c] = "send", Put(c)
  PROVE  /\ [id |-> nextId, kind |-> call[c].op] \in Msg
         /\ queue' \in Seq(Msg) /\ Len(queue') <= WriteQueueSize
         /\ nextId' \in Nat \ {0}
  <1> DEFINE m == [id |-> nextId, kind |-> call[c].op]
  <1>1. call[c].op \in Kinds
    BY OpsAreKinds DEF LockInv, CallOK
  <1>2. m \in Msg
    BY <1>1 DEF LockInv, TypeOK, QueueTyped, Msg
  <1>3. queue' = Append(queue, m) /\ Len(queue) < WriteQueueSize /\ nextId' = nextId + 1
    BY DEF Put
  <1>4. queue \in Seq(Msg) /\ nextId \in Nat \ {0}
    BY DEF LockInv, TypeOK, QueueTyped
  <1>5. QED
    BY <1>2, <1>3, <1>4

\* Every step of a caller keeps the invariant: only CheckClosed brings a
\* caller to its send, and only when the storage is open.
LEMMA CallerStep ==
  ASSUME LockInv, NEW c \in Callers, CallerNext(c)
  PROVE  LockInv'
  <1> USE DEF LockInv, TypeOK, callerVars, queueVars, writerVars, deliveryVars
  <1>1. ASSUME NEW k \in OpsOf(c), Call(c, k) PROVE LockInv'
    <2>1. [op |-> k, ticket |-> 0] \in Calls
      BY <1>1, OpsAreKinds DEF Calls
    <2>2. CallersTyped'
      BY <1>1, <2>1 DEF CallersTyped, Call
    <2>3. CallOK' /\ NoSendOnClosed'
      BY <1>1 DEF CallersTyped, Call, CallOK, NoSendOnClosed
    <2>4. QED
      BY <1>1, <2>2, <2>3 DEF Call, QueueTyped, WriterTyped, CommitTyped, DeliveryTyped
  <1>2. CASE RLock(c)
    BY <1>2 DEF RLock, CallersTyped, QueueTyped, WriterTyped, CommitTyped,
                DeliveryTyped, CallOK, NoSendOnClosed
  <1>3. ASSUME Return(c), UNCHANGED <<closerPc, calls>>
        PROVE  CallersTyped' /\ CallOK'
    BY <1>3 DEF Return, NoCall, Calls, CallersTyped, CallOK
  <1>4. ASSUME Return(c), UNCHANGED <<closed, writerPc, commitClosed>>
        PROVE  NoSendOnClosed'
    BY <1>4 DEF Return, CallersTyped, NoSendOnClosed
  <1>5. CASE CheckClosed(c)
    <2>1. CASE closed
      BY <1>3, <1>4, <1>5, <2>1 DEF CheckClosed, QueueTyped, WriterTyped,
                                    CommitTyped, DeliveryTyped
    <2>2. CASE ~closed
      BY <1>5, <2>2 DEF CheckClosed, CallersTyped, QueueTyped, WriterTyped,
                        CommitTyped, DeliveryTyped, CallOK, NoSendOnClosed
    <2>3. QED
      BY <2>1, <2>2
  <1>6. CASE TrySend(c)
    <2>1. CallersTyped' /\ CallOK' /\ NoSendOnClosed'
      BY <1>3, <1>4, <1>6 DEF TrySend
    <2>2. QueueTyped'
      <3>1. CASE Put(c) /\ accepted' = accepted \cup {[id |-> nextId, kind |-> call[c].op]}
        BY <1>6, <3>1, PutTyped DEF TrySend, QueueTyped
      <3>2. CASE UNCHANGED queueVars
        BY <1>6, <3>2 DEF TrySend, QueueTyped
      <3>3. QED
        BY <1>6, <3>1, <3>2 DEF TrySend
    <2>3. QED
      BY <1>6, <2>1, <2>2 DEF TrySend, WriterTyped, CommitTyped, DeliveryTyped
  <1>7. CASE BlockingSend(c)
    <2>1. QueueTyped'
      BY <1>7, PutTyped DEF BlockingSend, QueueTyped
    <2>2. [op |-> call[c].op, ticket |-> nextId] \in Calls
      BY <1>7, OpsAreKinds DEF BlockingSend, CallOK, Calls, QueueTyped
    <2>3. CallersTyped'
      BY <1>7, <2>2 DEF BlockingSend, CallersTyped
    <2>4. CallOK' /\ NoSendOnClosed'
      BY <1>7 DEF BlockingSend, CallersTyped, CallOK, NoSendOnClosed
    <2>5. QED
      BY <1>7, <2>1, <2>3, <2>4 DEF BlockingSend, WriterTyped, CommitTyped, DeliveryTyped
  <1>8. CASE CallReturn(c)
    BY <1>3, <1>4, <1>8 DEF CallReturn, QueueTyped, WriterTyped, CommitTyped, DeliveryTyped
  <1>9. CASE GiveUp(c)
    BY <1>3, <1>4, <1>9 DEF GiveUp, QueueTyped, WriterTyped, CommitTyped, DeliveryTyped
  <1>10. QED
    BY <1>1, <1>2, <1>5, <1>6, <1>7, <1>8, <1>9 DEF CallerNext

\* A caller of Close sets the flag only when no reader is inside, and closes
\* commitCh only after the writer has left.
LEMMA CloserStep ==
  ASSUME LockInv, NEW c \in Closers, CloserNext(c)
  PROVE  LockInv'
  <1> USE DEF LockInv, TypeOK, CallersTyped, QueueTyped, WriterTyped, CommitTyped,
              DeliveryTyped, callerVars, queueVars, writerVars, deliveryVars
  <1>1. CASE CloseCall(c)
    BY <1>1 DEF CloseCall, CallOK, NoSendOnClosed
  <1>2. CASE CloseLocked(c)
    <2>1. \A d \in Callers : callerPc[d] # "send"
      BY <1>2 DEF CloseLocked, Readers
    <2>2. QED
      BY <1>2, <2>1 DEF CloseLocked, CallOK, NoSendOnClosed
  <1>3. CASE CloseJoin(c)
    BY <1>3 DEF CloseJoin, CallOK, NoSendOnClosed
  <1>4. CASE CloseReturn(c)
    BY <1>4 DEF CloseReturn, CallOK, NoSendOnClosed
  <1>5. QED
    BY <1>1, <1>2, <1>3, <1>4 DEF CloserNext

\* The writer holds one message while it works, and never leaves "exited".
LEMMA WriterStep ==
  ASSUME LockInv, WriterNext
  PROVE  LockInv'
  <1> USE DEF LockInv, TypeOK, callerVars, queueVars, writerVars, deliveryVars
  <1>1. CASE WriterRecv
    <2>1. Head(queue) \in Msg /\ Tail(queue) \in Seq(Msg) /\ Len(Tail(queue)) <= WriteQueueSize
      BY <1>1 DEF WriterRecv, QueueTyped
    <2>2. QueueTyped' /\ WriterTyped'
      BY <1>1, <2>1 DEF WriterRecv, QueueTyped, WriterTyped
    <2>3. QED
      BY <1>1, <2>2 DEF WriterRecv, CallersTyped, CommitTyped, DeliveryTyped, CallOK, NoSendOnClosed
  <1>2. ASSUME writerPc \in {"busy", "barrier"} PROVE cur[1] \in Msg /\ cur[1].id \in Nat
    <2>1. cur \in Seq(Msg) /\ Len(cur) = 1
      BY <1>2 DEF WriterTyped
    <2>2. cur[1] \in Msg
      BY <2>1
    <2>3. QED
      BY <2>2 DEF Msg
  <1>3. ASSUME BatchWritten PROVE CallersTyped' /\ QueueTyped' /\ WriterTyped' /\ DeliveryTyped'
                                  /\ CallOK' /\ NoSendOnClosed'
    BY <1>2, <1>3 DEF BatchWritten, CallersTyped, QueueTyped, WriterTyped, DeliveryTyped,
                      CallOK, NoSendOnClosed
  <1>4. CASE WriteSilently
    BY <1>3, <1>4 DEF WriteSilently, BatchWritten, CommitTyped
  <1>5. CASE DispatchCommit
    <2>1. cur[1] \in Msg
      BY <1>2, <1>5 DEF DispatchCommit, BatchWritten
    <2>2. CommitTyped'
      BY <1>5, <2>1 DEF DispatchCommit, BatchWritten, CommitTyped
    <2>3. QED
      BY <1>3, <1>5, <2>2 DEF DispatchCommit
  <1>6. CASE DropCommit
    BY <1>3, <1>6 DEF DropCommit, BatchWritten, CommitTyped
  <1>7. ASSUME writerPc \in {"busy", "barrier"}, Reply(cur[1]), UNCHANGED written
        PROVE  WriterTyped'
    <2>1. cur[1].id \in Nat
      BY <1>2, <1>7
    <2>2. answered' \subseteq Nat
      BY <1>7, <2>1 DEF Reply, WriterTyped
    <2>3. QED
      BY <1>7, <2>2 DEF Reply, WriterTyped
  <1>8. CASE RunControl
    BY <1>7, <1>8 DEF RunControl, Reply, CallersTyped, QueueTyped, WriterTyped, CommitTyped,
                      DeliveryTyped, CallOK, NoSendOnClosed
  <1>9. CASE SendBarrier
    <2>1. cur[1] \in Msg
      BY <1>2, <1>9 DEF SendBarrier
    <2>2. CommitTyped' /\ WriterTyped'
      BY <1>9, <2>1 DEF SendBarrier, CommitTyped, WriterTyped
    <2>3. QED
      BY <1>9, <2>2 DEF SendBarrier, CallersTyped, QueueTyped, WriterTyped, DeliveryTyped,
                        CallOK, NoSendOnClosed
  <1>10. CASE BarrierReached
    BY <1>7, <1>10 DEF BarrierReached, Reply, CallersTyped, QueueTyped, CommitTyped,
                       DeliveryTyped, WriterTyped, CallOK, NoSendOnClosed
  <1>11. CASE WriterExit
    BY <1>11 DEF WriterExit, CallersTyped, QueueTyped, WriterTyped, CommitTyped,
                 DeliveryTyped, CallOK, NoSendOnClosed
  <1>12. QED
    BY <1>1, <1>4, <1>5, <1>6, <1>8, <1>9, <1>10, <1>11 DEF WriterNext

\* The delivery goroutine only touches what is typed by DeliveryTyped and the
\* head of commitCh.
LEMMA DeliveryStep ==
  ASSUME LockInv, DeliveryNext
  PROVE  LockInv'
  <1> USE DEF LockInv, TypeOK, callerVars, queueVars, writerVars, deliveryVars
  <1>1. ASSUME NEW job \in Msg, StartJob(job), deliveryPc = "recv", jobs \in Seq(Msg)
        PROVE  /\ deliveryPc' \in {"recv", "collect", "deliver", "deliverLast", "exited"}
               /\ jobs' \in Seq(Msg) /\ Len(jobs') <= MetricBatchSize
               /\ reached' \subseteq Nat
    <2>1. job.id \in Nat
      BY DEF Msg
    <2>2. CASE job.kind = "sync"
      BY <1>1, <2>1, <2>2 DEF StartJob, DeliveryTyped
    <2>3. CASE job.kind # "sync"
      <3>1. <<job>> \in Seq(Msg) /\ Len(<<job>>) <= MetricBatchSize
        OBVIOUS
      <3>2. QED
        BY <1>1, <2>3, <3>1 DEF StartJob, DeliveryTyped
    <2>4. QED
      BY <2>2, <2>3
  <1>2. ASSUME commitCh # <<>>
        PROVE  Head(commitCh) \in Msg /\ Tail(commitCh) \in Seq(Msg)
               /\ Len(Tail(commitCh)) <= CommitQueueSize
    BY <1>2 DEF CommitTyped
  <1>3. CASE TakePending
    <2>1. pending[1] \in Msg
      BY <1>3 DEF TakePending, DeliveryTyped
    <2>2. DeliveryTyped'
      BY <1>1, <1>3, <2>1 DEF TakePending, DeliveryTyped
    <2>3. QED
      BY <1>3, <2>2 DEF TakePending, CallersTyped, QueueTyped, WriterTyped, CommitTyped,
                        CallOK, NoSendOnClosed
  <1>4. CASE TakeJob
    <2>1. DeliveryTyped'
      BY <1>1, <1>2, <1>4 DEF TakeJob, DeliveryTyped
    <2>2. CommitTyped'
      BY <1>2, <1>4 DEF TakeJob, CommitTyped
    <2>3. QED
      BY <1>4, <2>1, <2>2 DEF TakeJob, CallersTyped, QueueTyped, WriterTyped, CallOK, NoSendOnClosed
  <1>5. CASE Collect
    <2>1. Head(commitCh) \in Msg
      BY <1>2, <1>5 DEF Collect
    <2>2. DeliveryTyped'
      <3>1. CASE Head(commitCh).kind = "metrics"
        <4> DEFINE head == Head(commitCh)
        <4>0. jobs' = Append(jobs, head) /\ Len(jobs) < MetricBatchSize /\ jobs \in Seq(Msg)
          BY <1>5, <3>1 DEF Collect, DeliveryTyped
        <4>1. jobs' \in Seq(Msg) /\ Len(jobs') <= MetricBatchSize
          <5> HIDE DEF head
          <5>1. head \in Msg
            BY <2>1 DEF head
          <5>2. QED
            BY <4>0, <5>1
        <4>2. UNCHANGED <<pending, deliveryPc, reached, delivered>>
          BY <1>5, <3>1 DEF Collect
        <4>3. QED
          BY <4>1, <4>2 DEF DeliveryTyped
      <3>2. CASE Head(commitCh).kind # "metrics"
        <4>0. pending' = <<Head(commitCh)>>
          BY <1>5, <3>2 DEF Collect
        <4>1. pending' \in Seq(Msg) /\ Len(pending') <= 1
          BY <2>1, <4>0
        <4>2. deliveryPc' = "deliver" /\ UNCHANGED <<jobs, reached, delivered>>
          BY <1>5, <3>2 DEF Collect
        <4>3. QED
          BY <4>1, <4>2 DEF DeliveryTyped
      <3>3. QED
        BY <3>1, <3>2
    <2>3. CommitTyped'
      BY <1>2, <1>5 DEF Collect, CommitTyped
    <2>4. QED
      BY <1>5, <2>2, <2>3 DEF Collect, CallersTyped, QueueTyped, WriterTyped, CallOK, NoSendOnClosed
  <1>6. CASE StopCollecting
    BY <1>6 DEF StopCollecting, CallersTyped, QueueTyped, WriterTyped, CommitTyped,
                DeliveryTyped, CallOK, NoSendOnClosed
  <1>7. CASE Deliver
    <2>1. DeliveryTyped'
      BY <1>7 DEF Deliver, DeliveryTyped
    <2>2. QED
      BY <1>7, <2>1 DEF Deliver, CallersTyped, QueueTyped, WriterTyped, CommitTyped,
                        CallOK, NoSendOnClosed
  <1>8. CASE DeliveryExit
    BY <1>8 DEF DeliveryExit, CallersTyped, QueueTyped, WriterTyped, CommitTyped,
                DeliveryTyped, CallOK, NoSendOnClosed
  <1>9. QED
    BY <1>3, <1>4, <1>5, <1>6, <1>7, <1>8 DEF DeliveryNext

\* Every step, and every stutter, keeps the invariant.
LEMMA LockNext == LockInv /\ [Next]_vars => LockInv'
  <1> SUFFICES ASSUME LockInv, [Next]_vars PROVE LockInv'
    OBVIOUS
  <1> USE DEF LockInv, TypeOK, callerVars, queueVars, writerVars, deliveryVars
  <1>1. CASE SweepLoopExit
    <2>1. SweepLoop \in Callers
      BY DEF Callers
    <2>2. CallersTyped'
      BY <1>1, <2>1 DEF SweepLoopExit, CallersTyped
    <2>3. CallOK' /\ NoSendOnClosed'
      BY <1>1, <2>1 DEF SweepLoopExit, CallersTyped, CallOK, NoSendOnClosed
    <2>4. QED
      BY <1>1, <2>2, <2>3 DEF SweepLoopExit, QueueTyped, WriterTyped, CommitTyped, DeliveryTyped
  <1>2. CASE UNCHANGED vars
    BY <1>2 DEF vars, CallersTyped, QueueTyped, WriterTyped, CommitTyped, DeliveryTyped,
                CallOK, NoSendOnClosed
  <1>3. QED
    BY <1>1, <1>2, CallerStep, CloserStep, WriterStep, DeliveryStep DEF Next, Done, LockInv

\* No sender is ever at a closed channel, whatever the number of callers and
\* however their calls race Close (the comment on Storage.mu).
THEOREM NeverSendOnClosed == Spec => [](TypeOK /\ NoSendOnClosed)
  <1>1. LockInv => TypeOK /\ NoSendOnClosed
    BY DEF LockInv
  <1>2. QED
    BY <1>1, LockInit, LockNext, PTL DEF Spec

----
(* Nothing is lost between the queue and the listener.                     *)

\* Where a message is found after a queue operation.
LEMMA HeldAppend ==
  ASSUME NEW s \in Seq(Msg), NEW m \in Msg, NEW x, HeldIn(x, s) \/ x = m
  PROVE  HeldIn(x, Append(s, m))
  <1>1. Len(Append(s, m)) = Len(s) + 1 /\ Append(s, m)[Len(s) + 1] = m
        /\ \A i \in 1..Len(s) : Append(s, m)[i] = s[i]
    OBVIOUS
  <1>2. CASE HeldIn(x, s)
    BY <1>1, <1>2 DEF HeldIn
  <1>3. CASE x = m
    BY <1>1, <1>3 DEF HeldIn
  <1>4. QED
    BY <1>2, <1>3

\* What is held is the head or in the tail.
LEMMA HeldTail ==
  ASSUME NEW s \in Seq(Msg), s # <<>>, NEW x, HeldIn(x, s)
  PROVE  x = Head(s) \/ HeldIn(x, Tail(s))
  <1>1. PICK i \in 1..Len(s) : s[i] = x
    BY DEF HeldIn
  <1>2. CASE i = 1
    BY <1>1, <1>2
  <1>3. CASE i # 1
    <2>1. Len(Tail(s)) = Len(s) - 1 /\ i - 1 \in 1..Len(Tail(s)) /\ Tail(s)[i - 1] = s[i]
      BY <1>1, <1>3
    <2>2. QED
      BY <1>1, <2>1 DEF HeldIn
  <1>4. QED
    BY <1>2, <1>3

\* What is held in either part is held in the whole.
LEMMA HeldConcat ==
  ASSUME NEW s \in Seq(Msg), NEW t \in Seq(Msg), NEW x, HeldIn(x, s) \/ HeldIn(x, t)
  PROVE  HeldIn(x, s \o t)
  <1>1. /\ Len(s \o t) = Len(s) + Len(t)
        /\ \A i \in 1..Len(s) : (s \o t)[i] = s[i]
        /\ \A i \in 1..Len(t) : (s \o t)[Len(s) + i] = t[i]
    OBVIOUS
  <1>2. CASE HeldIn(x, s)
    BY <1>1, <1>2 DEF HeldIn
  <1>3. CASE HeldIn(x, t)
    <2>1. PICK i \in 1..Len(t) : t[i] = x
      BY <1>3 DEF HeldIn
    <2>2. Len(s) + i \in 1..Len(s \o t) /\ (s \o t)[Len(s) + i] = x
      BY <1>1, <2>1
    <2>3. QED
      BY <2>2 DEF HeldIn
  <1>4. QED
    BY <1>2, <1>3

\* What is held in no message, and in one.
LEMMA HeldFew ==
  ASSUME NEW x, NEW m
  PROVE  ~HeldIn(x, <<>>) /\ (HeldIn(x, <<m>>) <=> x = m)
  BY DEF HeldIn

\* A channel of one holds one message.
LEMMA HeldInOne ==
  ASSUME NEW s \in Seq(Msg), Len(s) <= 1, NEW x, HeldIn(x, s)
  PROVE  x = s[1]
  BY DEF HeldIn

\* Callers put batches in the queue and never touch what is held further on.
LEMMA CallerDrain ==
  ASSUME DrainInv, NEW c \in Callers, CallerNext(c)
  PROVE  WriterKeeps' /\ DeliveryKeeps' /\ CloserKeeps'
  <1> USE DEF DrainInv, callerVars, queueVars, writerVars, deliveryVars
  <1>1. UNCHANGED <<closed, closerPc, writerVars, deliveryVars, commitCh, commitClosed, dispatched>>
    BY DEF CallerNext, Call, RLock, CheckClosed, TrySend, BlockingSend, CallReturn, GiveUp
  <1>2. DeliveryKeeps' /\ CloserKeeps'
    BY <1>1 DEF DeliveryKeeps, DispatchedIsHeld, Undelivered, HeldIn, CloserKeeps
  <1>3. \/ UNCHANGED queueVars
        \/ /\ callerPc[c] = "send" /\ Put(c)
           /\ \/ accepted' = accepted
              \/ /\ c \in Producers
                 /\ accepted' = accepted \cup {[id |-> nextId, kind |-> call[c].op]}
    BY DEF CallerNext, Call, RLock, CheckClosed, TrySend, BlockingSend, CallReturn, GiveUp
  <1>4. WriterKeeps'
    <2>1. CASE UNCHANGED queueVars
      BY <1>1, <2>1 DEF WriterKeeps, HeldIn
    <2>2. CASE /\ callerPc[c] = "send" /\ Put(c)
               /\ \/ accepted' = accepted
                  \/ /\ c \in Producers
                     /\ accepted' = accepted \cup {[id |-> nextId, kind |-> call[c].op]}
      <3> DEFINE m == [id |-> nextId, kind |-> call[c].op]
      <3>1. m \in Msg /\ queue \in Seq(Msg) /\ queue' = Append(queue, m)
        BY <2>2, PutTyped DEF Put, LockInv, TypeOK, QueueTyped
      <3>2. writerPc # "exited"
        BY <2>2 DEF WriterKeeps, LockInv, NoSendOnClosed
      <3>3. \A x \in accepted' : x \in written \/ HeldIn(x, cur) \/ HeldIn(x, queue) \/ x = m
        BY <2>2 DEF WriterKeeps
      <3>4. \A x : HeldIn(x, queue) \/ x = m => HeldIn(x, queue')
        BY <3>1, HeldAppend
      <3>5. \A x \in accepted' : x.kind \in Signals
        <4>1. c \in Producers => m.kind \in Signals
          BY <2>2 DEF LockInv, CallOK, OpsOf
        <4>2. QED
          BY <2>2, <4>1 DEF WriterKeeps
      <3>6. \A x \in accepted' : x \in written' \/ HeldIn(x, cur') \/ HeldIn(x, queue')
        BY <1>1, <3>3, <3>4 DEF HeldIn
      <3>7. QED
        BY <1>1, <3>2, <3>5, <3>6 DEF WriterKeeps
    <2>3. QED
      BY <1>3, <2>1, <2>2
  <1>5. QED
    BY <1>2, <1>4

\* Close only sets flags; it closes commitCh and returns after the joins.
LEMMA CloserDrain ==
  ASSUME DrainInv, NEW c \in Closers, CloserNext(c)
  PROVE  WriterKeeps' /\ DeliveryKeeps' /\ CloserKeeps'
  <1> USE DEF DrainInv, LockInv, TypeOK, CallersTyped, NoSendOnClosed,
              callerVars, queueVars, writerVars, deliveryVars
  <1>1. UNCHANGED <<queueVars, writerVars, deliveryVars, commitCh, dispatched>>
        /\ (closed => closed') /\ (commitClosed => commitClosed')
    BY DEF CloserNext, CloseCall, CloseLocked, CloseJoin, CloseReturn
  <1>2. WriterKeeps'
    BY <1>1 DEF WriterKeeps, HeldIn
  <1>3. DeliveryKeeps'
    BY <1>1 DEF DeliveryKeeps, DispatchedIsHeld, Undelivered, HeldIn
  <1>4. CloserKeeps'
    <2>1. CASE CloseCall(c)
      BY <2>1 DEF CloseCall, CloserKeeps
    <2>2. CASE CloseLocked(c)
      BY <2>2 DEF CloseLocked, CloserKeeps
    <2>3. CASE CloseJoin(c)
      BY <2>3 DEF CloseJoin, CloserKeeps
    <2>4. CASE CloseReturn(c)
      BY <2>4 DEF CloseReturn, CloserKeeps
    <2>5. QED
      BY <2>1, <2>2, <2>3, <2>4 DEF CloserNext
  <1>5. QED
    BY <1>2, <1>3, <1>4

\* The writer moves a message from the queue to its hands, and from there to
\* written; what it dispatches joins commitCh.
LEMMA WriterDrain ==
  ASSUME DrainInv, WriterNext
  PROVE  WriterKeeps' /\ DeliveryKeeps' /\ CloserKeeps'
  <1> USE DEF DrainInv, LockInv, TypeOK, callerVars, queueVars, writerVars, deliveryVars
  <1>1. ASSUME writerPc \in {"busy", "barrier"}
        PROVE  cur[1] \in Msg /\ (\A x : HeldIn(x, cur) => x = cur[1])
    <2>1. cur \in Seq(Msg) /\ Len(cur) = 1
      BY <1>1 DEF WriterTyped
    <2>2. cur[1] \in Msg
      BY <2>1
    <2>3. ASSUME NEW x, HeldIn(x, cur) PROVE x = cur[1]
      BY <2>1, <2>3 DEF HeldIn
    <2>4. QED
      BY <2>2, <2>3
  <1>2. ASSUME UNCHANGED <<deliveryVars, commitCh, commitClosed, dispatched>>
        PROVE  DeliveryKeeps'
    BY <1>2 DEF DeliveryKeeps, DispatchedIsHeld, Undelivered, HeldIn
  <1>3. UNCHANGED <<callerPc, closed, closerPc, accepted, commitClosed, deliveryVars>>
        /\ writerPc # "exited"
    BY DEF WriterNext, WriterRecv, WriteSilently, DispatchCommit, DropCommit, BatchWritten,
           RunControl, SendBarrier, BarrierReached, WriterExit
  <1>4. CloserKeeps'
    BY <1>3 DEF CloserKeeps
  <1>5. ASSUME UNCHANGED queue, cur' = <<>>, writerPc' = "recv", writerPc \in {"busy", "barrier"},
               \/ written' = written \cup {cur[1]}
               \/ written' = written /\ cur[1] \notin accepted
        PROVE  WriterKeeps'
    BY <1>1, <1>3, <1>5 DEF WriterKeeps, HeldIn
  <1>6. CASE WriterRecv
    <2>1. queue \in Seq(Msg) /\ queue # <<>> /\ cur' = <<Head(queue)>> /\ queue' = Tail(queue)
          /\ written' = written /\ writerPc' = "busy"
      BY <1>6 DEF WriterRecv, QueueTyped
    <2>2. Len(cur) = 0
      BY <1>6 DEF WriterRecv, WriterTyped
    <2>3. \A x : ~HeldIn(x, cur)
      BY <2>2 DEF HeldIn
    <2>4. \A x : HeldIn(x, queue) => HeldIn(x, cur') \/ HeldIn(x, queue')
      BY <2>1, HeldTail, HeldFew
    <2>5. WriterKeeps'
      BY <1>3, <2>1, <2>3, <2>4 DEF WriterKeeps
    <2>6. QED
      BY <1>2, <1>4, <1>6, <2>5 DEF WriterRecv
  <1>7. CASE WriteSilently
    BY <1>2, <1>4, <1>5, <1>7 DEF WriteSilently, BatchWritten
  <1>8. CASE DropCommit
    BY <1>2, <1>4, <1>5, <1>8 DEF DropCommit, BatchWritten
  <1>9. CASE DispatchCommit
    <2>1. WriterKeeps'
      BY <1>5, <1>9 DEF DispatchCommit, BatchWritten
    <2>2. cur[1] \in Msg /\ cur[1].kind \in Signals
          /\ commitCh' = Append(commitCh, cur[1]) /\ commitCh \in Seq(Msg)
          /\ dispatched' = dispatched \cup {cur[1]} /\ Listener # "none"
      BY <1>1, <1>9 DEF DispatchCommit, BatchWritten, CommitTyped
    <2>3. \A x : HeldIn(x, commitCh) \/ x = cur[1] => HeldIn(x, commitCh')
      BY <2>2, HeldAppend
    <2>4. DispatchedIsHeld'
      BY <1>3, <2>2, <2>3 DEF DeliveryKeeps, DispatchedIsHeld, Undelivered, HeldIn
    <2>5. ~commitClosed
      BY <1>3 DEF NoSendOnClosed
    <2>6. DeliveryKeeps'
      BY <1>3, <2>2, <2>4, <2>5 DEF DeliveryKeeps
    <2>7. QED
      BY <1>4, <2>1, <2>6
  <1>10. ASSUME UNCHANGED <<queue, written>>, writerPc \in {"busy", "barrier"},
                cur[1].kind \notin Signals, Reply(cur[1])
         PROVE  WriterKeeps'
    BY <1>5, <1>10 DEF WriterKeeps, Reply
  <1>11. CASE RunControl
    BY <1>2, <1>4, <1>10, <1>11 DEF RunControl
  <1>12. CASE SendBarrier
    <2>1. cur[1] \in Msg /\ commitCh' = Append(commitCh, cur[1]) /\ commitCh \in Seq(Msg)
          /\ UNCHANGED <<queue, written, cur, dispatched>> /\ writerPc' = "barrier"
          /\ cur[1].kind = "sync" /\ Listener # "none"
      BY <1>1, <1>12 DEF SendBarrier, CommitTyped
    <2>2. \A x : HeldIn(x, commitCh) => HeldIn(x, commitCh')
      BY <2>1, HeldAppend
    <2>3. WriterKeeps'
      BY <1>3, <2>1 DEF WriterKeeps, HeldIn
    <2>4. DispatchedIsHeld'
      BY <1>3, <2>1, <2>2 DEF DeliveryKeeps, DispatchedIsHeld, Undelivered, HeldIn
    <2>5. ~commitClosed
      BY <1>3 DEF NoSendOnClosed
    <2>6. DeliveryKeeps'
      BY <1>3, <2>1, <2>4, <2>5 DEF DeliveryKeeps
    <2>7. QED
      BY <1>4, <2>3, <2>6
  <1>13. CASE BarrierReached
    <2>1. cur[1].kind \notin Signals
      BY <1>13 DEF BarrierReached, WriterKeeps
    <2>2. QED
      BY <1>2, <1>4, <1>10, <1>13, <2>1 DEF BarrierReached
  <1>14. CASE WriterExit
    BY <1>2, <1>4, <1>14 DEF WriterExit, WriterKeeps, HeldIn
  <1>15. QED
    BY <1>6, <1>7, <1>8, <1>9, <1>11, <1>12, <1>13, <1>14 DEF WriterNext

\* runCommits moves jobs from commitCh to its hands or its pushback, and from
\* there to the listener.
LEMMA DeliveryDrain ==
  ASSUME DrainInv, DeliveryNext
  PROVE  WriterKeeps' /\ DeliveryKeeps' /\ CloserKeeps'
  <1> USE DEF DrainInv, LockInv, TypeOK, callerVars, queueVars, writerVars, deliveryVars
  <1>1. UNCHANGED <<callerPc, closed, closerPc, queueVars, writerVars, commitClosed, dispatched>>
    BY DEF DeliveryNext, TakePending, TakeJob, Collect, StopCollecting, Deliver, DeliveryExit
  <1>2. WriterKeeps'
    BY <1>1 DEF WriterKeeps, HeldIn
  <1>3. deliveryPc # "exited" /\ Listener # "none"
    BY DEF DeliveryNext, TakePending, TakeJob, Collect, StopCollecting, Deliver, DeliveryExit,
           DeliveryKeeps
  <1>4. CloserKeeps'
    BY <1>1, <1>3 DEF CloserKeeps
  <1>5. commitCh \in Seq(Msg) /\ jobs \in Seq(Msg) /\ pending \in Seq(Msg)
        /\ delivered \in Seq(Msg) /\ Len(pending) <= 1
    BY DEF CommitTyped, DeliveryTyped
  <1>6. ASSUME commitCh # <<>>
        PROVE  \A x : HeldIn(x, commitCh) => x = Head(commitCh) \/ HeldIn(x, Tail(commitCh))
    BY <1>5, <1>6, HeldTail
  <1>7. ASSUME NEW job, StartJob(job), deliveryPc = "recv", UNCHANGED delivered
        PROVE  /\ deliveryPc' \in {"recv", "collect", "deliver"}
               /\ deliveryPc' = "recv" => jobs' = <<>>
               /\ \A x : HeldIn(x, jobs) => HeldIn(x, jobs')
               /\ job \in dispatched => HeldIn(job, jobs')
    <2>1. jobs = <<>>
      BY <1>7 DEF DeliveryKeeps
    <2>2. CASE job.kind = "sync"
      BY <1>7, <2>1, <2>2 DEF StartJob, DeliveryKeeps
    <2>3. CASE job.kind # "sync"
      BY <1>7, <2>1, <2>3, HeldFew DEF StartJob
    <2>4. QED
      BY <2>2, <2>3
  <1>8. CASE TakePending
    <2>1. StartJob(pending[1]) /\ deliveryPc = "recv" /\ pending' = <<>>
          /\ UNCHANGED <<commitCh, delivered>>
      BY <1>8 DEF TakePending
    <2>2. \A x : HeldIn(x, pending) => x = pending[1]
      BY <1>5, HeldInOne
    <2>3. DispatchedIsHeld'
      BY <1>1, <1>7, <2>1, <2>2 DEF DeliveryKeeps, DispatchedIsHeld, Undelivered
    <2>4. DeliveryKeeps'
      BY <1>1, <1>3, <1>7, <2>1, <2>3 DEF DeliveryKeeps
    <2>5. QED
      BY <1>2, <1>4, <2>4
  <1>9. CASE TakeJob
    <2>1. StartJob(Head(commitCh)) /\ deliveryPc = "recv" /\ pending' = <<>> /\ pending = <<>>
          /\ commitCh # <<>> /\ commitCh' = Tail(commitCh) /\ UNCHANGED delivered
      BY <1>9 DEF TakeJob
    <2>2. DispatchedIsHeld'
      BY <1>1, <1>6, <1>7, <2>1 DEF DeliveryKeeps, DispatchedIsHeld, Undelivered
    <2>3. DeliveryKeeps'
      BY <1>1, <1>3, <1>7, <2>1, <2>2 DEF DeliveryKeeps
    <2>4. QED
      BY <1>2, <1>4, <2>3
  <1>10. CASE Collect
    <2>1. deliveryPc = "collect" /\ pending = <<>> /\ commitCh # <<>>
          /\ commitCh' = Tail(commitCh) /\ UNCHANGED delivered
      BY <1>10 DEF Collect, DeliveryKeeps
    <2>2. Head(commitCh) \in Msg
      BY <1>5, <2>1
    <2>3. CASE Head(commitCh).kind = "metrics"
      <3>1. jobs' = Append(jobs, Head(commitCh)) /\ UNCHANGED <<pending, deliveryPc>>
        BY <1>10, <2>3 DEF Collect
      <3>2. \A x : HeldIn(x, jobs) \/ x = Head(commitCh) => HeldIn(x, jobs')
        BY <1>5, <2>2, <3>1, HeldAppend
      <3>3. DispatchedIsHeld'
        BY <1>1, <1>6, <2>1, <3>1, <3>2 DEF DeliveryKeeps, DispatchedIsHeld, Undelivered
      <3>4. deliveryPc' = "collect" /\ pending' = <<>>
        BY <2>1, <3>1
      <3>5. QED
        BY <1>1, <1>2, <1>3, <1>4, <3>3, <3>4 DEF DeliveryKeeps
    <2>4. CASE Head(commitCh).kind # "metrics"
      <3>1. pending' = <<Head(commitCh)>> /\ deliveryPc' = "deliver" /\ UNCHANGED jobs
        BY <1>10, <2>4 DEF Collect
      <3>2. HeldIn(Head(commitCh), pending') /\ (\A x : ~HeldIn(x, pending))
        BY <2>1, <3>1, HeldFew
      <3>3. DispatchedIsHeld'
        BY <1>1, <1>6, <2>1, <3>1, <3>2 DEF DeliveryKeeps, DispatchedIsHeld, Undelivered
      <3>4. QED
        BY <1>1, <1>2, <1>3, <1>4, <3>1, <3>3 DEF DeliveryKeeps
    <2>5. QED
      BY <2>3, <2>4
  <1>11. CASE StopCollecting
    <2>1. UNCHANGED <<commitCh, jobs, pending, delivered>> /\ pending = <<>>
          /\ \/ deliveryPc' = "deliver"
             \/ deliveryPc' = "deliverLast" /\ commitClosed /\ commitCh = <<>>
      BY <1>11 DEF StopCollecting, DeliveryKeeps
    <2>2. DispatchedIsHeld'
      BY <1>1, <2>1 DEF DeliveryKeeps, DispatchedIsHeld, Undelivered
    <2>3. DeliveryKeeps'
      BY <1>1, <1>3, <2>1, <2>2 DEF DeliveryKeeps
    <2>4. QED
      BY <1>2, <1>4, <2>3
  <1>12. CASE Deliver
    <2>1. delivered' = delivered \o jobs /\ jobs' = <<>> /\ UNCHANGED <<commitCh, pending>>
          /\ deliveryPc' \in {"recv", "exited"}
          /\ (deliveryPc' = "exited" => commitClosed /\ commitCh = <<>> /\ pending = <<>>)
      BY <1>12 DEF Deliver, DeliveryKeeps
    <2>2. \A x : HeldIn(x, delivered) \/ HeldIn(x, jobs) => HeldIn(x, delivered')
      <3>1. ASSUME NEW x, HeldIn(x, delivered) \/ HeldIn(x, jobs)
            PROVE  HeldIn(x, delivered \o jobs)
        BY <1>5, <3>1, HeldConcat
      <3>2. QED
        BY <2>1, <3>1
    <2>3. DispatchedIsHeld'
      <3>1. \A x \in dispatched : HeldIn(x, delivered') \/ HeldIn(x, pending) \/ HeldIn(x, commitCh)
        BY <2>2 DEF DeliveryKeeps, DispatchedIsHeld, Undelivered
      <3>2. QED
        BY <1>1, <2>1, <3>1 DEF DispatchedIsHeld, Undelivered
    <2>4. DeliveryKeeps'
      BY <1>1, <1>3, <2>1, <2>3 DEF DeliveryKeeps
    <2>5. QED
      BY <1>2, <1>4, <2>4
  <1>13. CASE DeliveryExit
    <2>1. UNCHANGED <<commitCh, jobs, pending, delivered>> /\ deliveryPc' = "exited"
          /\ jobs = <<>> /\ pending = <<>> /\ commitCh = <<>> /\ commitClosed
      BY <1>13 DEF DeliveryExit, DeliveryKeeps
    <2>2. DispatchedIsHeld'
      BY <1>1, <2>1 DEF DeliveryKeeps, DispatchedIsHeld, Undelivered
    <2>3. DeliveryKeeps'
      BY <1>1, <1>3, <2>1, <2>2 DEF DeliveryKeeps
    <2>4. QED
      BY <1>2, <1>4, <2>3
  <1>14. QED
    BY <1>8, <1>9, <1>10, <1>11, <1>12, <1>13 DEF DeliveryNext

\* Nothing is accepted at the start.
LEMMA DrainInit == Init => DrainInv
  <1> SUFFICES ASSUME Init PROVE DrainInv
    OBVIOUS
  <1>1. WriterKeeps
    BY DEF Init, WriterKeeps
  <1>2. DeliveryKeeps
    BY DEF Init, DeliveryKeeps, DispatchedIsHeld, Undelivered
  <1>3. CloserKeeps
    BY DEF Init, CloserKeeps
  <1>4. QED
    BY <1>1, <1>2, <1>3, LockInit DEF DrainInv

\* Every goroutine keeps what is accepted or dispatched in its place.
LEMMA DrainNext == DrainInv /\ [Next]_vars => DrainInv'
  <1> SUFFICES ASSUME DrainInv, [Next]_vars PROVE DrainInv'
    OBVIOUS
  <1>1. LockInv'
    BY LockNext DEF DrainInv
  <1>2. ASSUME UNCHANGED <<closerPc, closed, queueVars, writerVars, commitCh, commitClosed,
                           dispatched, deliveryVars>>
        PROVE  WriterKeeps' /\ DeliveryKeeps' /\ CloserKeeps'
    BY <1>2 DEF DrainInv, queueVars, writerVars, deliveryVars, WriterKeeps, DeliveryKeeps,
                CloserKeeps, DispatchedIsHeld, Undelivered, HeldIn
  <1>3. CASE SweepLoopExit
    BY <1>1, <1>2, <1>3 DEF SweepLoopExit, DrainInv
  <1>4. CASE UNCHANGED vars
    BY <1>1, <1>2, <1>4 DEF vars, DrainInv
  <1>5. QED
    BY <1>1, <1>3, <1>4, CallerDrain, CloserDrain, WriterDrain, DeliveryDrain
       DEF Next, Done, DrainInv

\* A Close that returns leaves nothing behind (Close's doc comment), and until
\* then no dispatched event is lost, for any number of callers, any capacity
\* of the channels, and any of the three listeners.
THEOREM CloseDrainsEverything == Spec => [](CloseDrains /\ DispatchedIsHeld)
  <1>1. DrainInv => CloseDrains /\ DispatchedIsHeld
    <2> SUFFICES ASSUME DrainInv PROVE CloseDrains
      BY DEF DrainInv, DeliveryKeeps
    <2> SUFFICES ASSUME NEW c \in Closers, closerPc[c] = "returned"
                 PROVE  /\ accepted \subseteq written
                        /\ Undelivered = {}
                        /\ writerPc = "exited" /\ deliveryPc = "exited"
      BY DEF CloseDrains
    <2>1. writerPc = "exited" /\ deliveryPc = "exited"
      BY DEF DrainInv, CloserKeeps
    <2>2. queue = <<>> /\ Len(cur) = 0
      BY <2>1 DEF DrainInv, WriterKeeps, LockInv, TypeOK, WriterTyped
    <2>3. accepted \subseteq written
      BY <2>2 DEF DrainInv, WriterKeeps, HeldIn
    <2>4. Undelivered = {}
      BY <2>1 DEF DrainInv, DeliveryKeeps, DispatchedIsHeld, Undelivered, HeldIn
    <2>5. QED
      BY <2>1, <2>3, <2>4
  <1>2. QED
    BY <1>1, DrainInit, DrainNext, PTL DEF Spec

----
(* The answer of Sync is a barrier.                                        *)

\* The writer has taken everything up to id n out of the queue, and
\* everything up to n out of its hands.
OutOfQueue(n) == n < nextId /\ \A i \in 1..Len(queue) : n < queue[i].id
Past(n) == OutOfQueue(n) /\ \A i \in 1..Len(cur) : n < cur[i].id

\* The ids grow along the queue, and along commitCh.
QueueOrdered ==
    /\ \A i, j \in 1..Len(queue) : i < j => queue[i].id < queue[j].id
    /\ \A i \in 1..Len(queue) : queue[i].id < nextId
    /\ \A i \in 1..Len(cur) : OutOfQueue(cur[i].id)
    /\ \A i, j \in 1..Len(commitCh) : i < j => commitCh[i].id < commitCh[j].id
    /\ \A i \in 1..Len(pending), j \in 1..Len(commitCh) : pending[i].id < commitCh[j].id

\* What the writer has handed on, or answered, is older than what it holds,
\* but for the barrier job it waits for.
HandedOn(n) == Past(n) \/ (writerPc = "barrier" /\ n = cur[1].id)
PastWriter ==
    /\ \A m \in dispatched : Past(m.id)
    /\ \A t \in answered : Past(t)
    /\ \A i \in 1..Len(commitCh) : HandedOn(commitCh[i].id)
    /\ \A i \in 1..Len(pending) : HandedOn(pending[i].id)
    /\ \A t \in reached : HandedOn(t)

\* A barrier job that runCommits has reached has nothing undelivered before it.
ReachedIsClear == \A t \in reached : \A m \in Undelivered : m.id > t

\* A caller that waits for Sync has a sync message, which is answered only
\* when runCommits has reached its job.
SyncWaits ==
    \A c \in Callers : callerPc[c] = "wait" =>
        /\ call[c].ticket < nextId
        /\ \A i \in 1..Len(queue) : queue[i].id = call[c].ticket => queue[i].kind = call[c].op
        /\ \A i \in 1..Len(cur) : cur[i].id = call[c].ticket => cur[i].kind = call[c].op
        /\ call[c].op = "sync" /\ call[c].ticket \in answered =>
              call[c].ticket \in reached \/ Listener = "none"

BarrierInv ==
    /\ DrainInv
    /\ \A m \in accepted : m.id < nextId
    /\ QueueOrdered /\ PastWriter /\ ReachedIsClear /\ SyncWaits

\* Nobody waits for a barrier at the start.
LEMMA BarrierInit == Init => BarrierInv
  <1> SUFFICES ASSUME Init PROVE BarrierInv
    OBVIOUS
  <1>1. QueueOrdered /\ PastWriter
    BY DEF Init, QueueOrdered, PastWriter
  <1>2. ReachedIsClear /\ SyncWaits /\ (\A m \in accepted : m.id < nextId)
    BY DEF Init, ReachedIsClear, SyncWaits
  <1>3. QED
    BY <1>1, <1>2, DrainInit DEF BarrierInv

\* The ids that the invariant compares are numbers.
LEMMA IdsTyped ==
  ASSUME LockInv
  PROVE  /\ nextId \in Nat
         /\ \A m \in Msg : m.id \in Nat
         /\ \A i \in 1..Len(queue) : queue[i] \in Msg
         /\ \A i \in 1..Len(cur) : cur[i] \in Msg
         /\ \A i \in 1..Len(commitCh) : commitCh[i] \in Msg
         /\ \A i \in 1..Len(pending) : pending[i] \in Msg
         /\ accepted \subseteq Msg /\ dispatched \subseteq Msg
         /\ answered \subseteq Nat /\ reached \subseteq Nat
         /\ \A c \in Callers : call[c].ticket \in Nat
  <1>1. \A m \in Msg : m.id \in Nat
    BY DEF Msg
  <1>2. \A c \in Callers : call[c].ticket \in Nat
    BY DEF LockInv, TypeOK, CallersTyped, Calls
  <1>3. QED
    BY <1>1, <1>2 DEF LockInv, TypeOK, QueueTyped, WriterTyped, CommitTyped, DeliveryTyped

\* Where the elements are after a queue operation.
LEMMA AppendAt ==
  ASSUME NEW s \in Seq(Msg), NEW m \in Msg
  PROVE  /\ Len(s) \in Nat /\ Len(Append(s, m)) = Len(s) + 1
         /\ Append(s, m)[Len(s) + 1] = m
         /\ \A i \in 1..Len(s) : Append(s, m)[i] = s[i]
  OBVIOUS

\* Head and tail by their indices.
LEMMA TailAt ==
  ASSUME NEW s \in Seq(Msg), s # <<>>
  PROVE  /\ Len(s) \in Nat \ {0} /\ Len(Tail(s)) = Len(s) - 1
         /\ Head(s) = s[1] /\ Head(s) \in Msg
         /\ \A i \in 1..Len(Tail(s)) : Tail(s)[i] = s[i + 1]
  OBVIOUS

\* A sequence that is not empty and has at most one element has one.
LEMMA OneLong ==
  ASSUME NEW s \in Seq(Msg), s # <<>>, Len(s) <= 1
  PROVE  Len(s) = 1
  <1>1. Len(s) \in Nat /\ Len(s) # 0
    BY TailAt
  <1>2. \A n \in Nat : n # 0 /\ n <= 1 => n = 1
    OBVIOUS
  <1>3. QED
    BY <1>1, <1>2

\* A message that enters the queue is younger than everything there is.
LEMMA PutBarrier ==
  ASSUME BarrierInv, NEW c \in Callers, callerPc[c] = "send", Put(c),
         UNCHANGED <<writerVars, commitCh, dispatched, deliveryVars>>,
         \/ accepted' = accepted
         \/ accepted' = accepted \cup {[id |-> nextId, kind |-> call[c].op]}
  PROVE  /\ \A m \in accepted' : m.id < nextId'
         /\ QueueOrdered' /\ PastWriter' /\ ReachedIsClear'
  <1> DEFINE m == [id |-> nextId, kind |-> call[c].op]
  <1> USE DEF BarrierInv, DrainInv, writerVars, deliveryVars
  <1>1. queue \in Seq(Msg) /\ m \in Msg /\ queue' = Append(queue, m) /\ nextId' = nextId + 1
        /\ nextId \in Nat
    BY PutTyped DEF Put, LockInv, TypeOK, QueueTyped
  <1>2. m.id = nextId
    OBVIOUS
  <1> HIDE DEF m
  <1>3. /\ Len(queue) \in Nat /\ Len(queue') = Len(queue) + 1 /\ queue'[Len(queue) + 1] = m
        /\ \A i \in 1..Len(queue) : queue'[i] = queue[i]
    BY <1>1, AppendAt
  <1>4. ASSUME NEW n \in Nat, OutOfQueue(n) PROVE OutOfQueue(n)'
    BY <1>1, <1>2, <1>3, <1>4 DEF OutOfQueue
  <1>5. ASSUME NEW n \in Nat, Past(n) PROVE Past(n)'
    BY <1>4, <1>5 DEF Past
  <1>6. ASSUME NEW n \in Nat, HandedOn(n) PROVE HandedOn(n)'
    BY <1>5, <1>6 DEF HandedOn
  <1>7. \A x \in accepted' : x.id < nextId'
    BY <1>1, <1>2, IdsTyped DEF m
  <1>8. QueueOrdered'
    <2>1. ASSUME NEW i \in 1..Len(queue'), NEW j \in 1..Len(queue'), i < j
          PROVE  queue'[i].id < queue'[j].id
      <3>1. i \in 1..Len(queue) /\ queue'[i] = queue[i]
        BY <1>3, <2>1
      <3>2. CASE j \in 1..Len(queue)
        BY <1>3, <2>1, <3>1, <3>2 DEF QueueOrdered
      <3>3. CASE j = Len(queue) + 1
        BY <1>2, <1>3, <3>1, <3>3 DEF QueueOrdered
      <3>4. QED
        BY <1>3, <3>2, <3>3
    <2>2. \A i \in 1..Len(queue') : queue'[i].id < nextId'
      BY <1>1, <1>2, <1>3, IdsTyped DEF QueueOrdered
    <2>3. \A i \in 1..Len(cur) : OutOfQueue(cur[i].id)'
      BY <1>4, IdsTyped DEF QueueOrdered
    <2>4. QED
      BY <2>1, <2>2, <2>3 DEF QueueOrdered
  <1>9. PastWriter'
    BY <1>5, <1>6, IdsTyped DEF PastWriter
  <1>10. ReachedIsClear'
    BY DEF ReachedIsClear, Undelivered, HeldIn
  <1>11. QED
    BY <1>7, <1>8, <1>9, <1>10

Barrier == (\A m \in accepted : m.id < nextId) /\ QueueOrdered /\ PastWriter
           /\ ReachedIsClear /\ SyncWaits

\* A caller of Sync starts to wait with the id of the message it has put in
\* the queue, which nobody can have answered.
LEMMA CallerBarrier ==
  ASSUME BarrierInv, NEW c \in Callers, CallerNext(c)
  PROVE  Barrier'
  <1> USE DEF BarrierInv, DrainInv, callerVars, queueVars, writerVars, deliveryVars
  <1>1. UNCHANGED <<writerVars, deliveryVars, commitCh, dispatched>>
    BY DEF CallerNext, Call, RLock, CheckClosed, TrySend, BlockingSend, CallReturn, GiveUp
  <1>2. callerPc \in [Callers -> {"idle", "rlock", "locked", "send", "wait", "exited"}]
        /\ call \in [Callers -> Calls]
    BY DEF LockInv, TypeOK, CallersTyped
  <1>3. \/ UNCHANGED queueVars
        \/ /\ callerPc[c] = "send" /\ Put(c)
           /\ \/ accepted' = accepted
              \/ accepted' = accepted \cup {[id |-> nextId, kind |-> call[c].op]}
    BY DEF CallerNext, Call, RLock, CheckClosed, TrySend, BlockingSend, CallReturn, GiveUp
  <1>4. \/ BlockingSend(c)
        \/ /\ \A d \in Callers : callerPc'[d] = "wait" => callerPc[d] = "wait" /\ call'[d] = call[d]
           /\ \/ UNCHANGED queueVars
              \/ Put(c) /\ callerPc[c] = "send"
    BY <1>2 DEF CallerNext, Call, RLock, CheckClosed, TrySend, CallReturn, GiveUp, Return
  <1>5. (\A m \in accepted' : m.id < nextId') /\ QueueOrdered' /\ PastWriter' /\ ReachedIsClear'
    <2>1. CASE UNCHANGED queueVars
      BY <1>1, <2>1 DEF QueueOrdered, PastWriter, ReachedIsClear, OutOfQueue, Past, HandedOn,
                        Undelivered, HeldIn
    <2>2. CASE ~UNCHANGED queueVars
      BY <1>1, <1>3, <2>2, PutBarrier
    <2>3. QED
      BY <2>1, <2>2
  <1>6. ASSUME NEW d \in Callers, callerPc[d] = "wait", call'[d] = call[d],
               \/ UNCHANGED queueVars
               \/ callerPc[c] = "send" /\ Put(c)
        PROVE  /\ call'[d].ticket < nextId'
               /\ \A i \in 1..Len(queue') :
                     queue'[i].id = call'[d].ticket => queue'[i].kind = call'[d].op
    <2>1. CASE UNCHANGED queueVars
      BY <1>6, <2>1 DEF SyncWaits
    <2>2. CASE callerPc[c] = "send" /\ Put(c)
      <3> DEFINE m == [id |-> nextId, kind |-> call[c].op]
      <3>1. queue \in Seq(Msg) /\ m \in Msg /\ queue' = Append(queue, m) /\ nextId' = nextId + 1
        BY <2>2, PutTyped DEF Put, LockInv, TypeOK, QueueTyped
      <3>2. m.id = nextId /\ nextId \in Nat /\ call[d].ticket \in Nat /\ call[d].ticket < nextId
        BY <1>6, IdsTyped DEF SyncWaits
      <3> HIDE DEF m
      <3>3. /\ Len(queue) \in Nat /\ Len(queue') = Len(queue) + 1 /\ queue'[Len(queue) + 1] = m
            /\ \A i \in 1..Len(queue) : queue'[i] = queue[i]
        BY <3>1, AppendAt
      <3>4. ASSUME NEW i \in 1..Len(queue'), queue'[i].id = call'[d].ticket
            PROVE  queue'[i].kind = call'[d].op
        <4>1. i # Len(queue) + 1
          BY <1>6, <3>2, <3>3, <3>4
        <4>2. i \in 1..Len(queue) /\ queue'[i] = queue[i]
          BY <3>3, <3>4, <4>1
        <4>3. QED
          BY <1>6, <3>4, <4>2 DEF SyncWaits
      <3>5. call'[d].ticket < nextId'
        BY <1>6, <3>1, <3>2
      <3>6. QED
        BY <3>4, <3>5
    <2>3. QED
      BY <1>6, <2>1, <2>2
  <1>7. SyncWaits'
    <2>1. CASE BlockingSend(c)
      <3> DEFINE m == [id |-> nextId, kind |-> call[c].op]
      <3>1. callerPc[c] = "send" /\ Put(c) /\ call'[c] = [op |-> call[c].op, ticket |-> nextId]
            /\ \A d \in Callers \ {c} : callerPc'[d] = callerPc[d] /\ call'[d] = call[d]
        BY <1>2, <2>1 DEF BlockingSend
      <3>2. queue \in Seq(Msg) /\ m \in Msg /\ queue' = Append(queue, m) /\ nextId' = nextId + 1
        BY <3>1, PutTyped DEF Put, LockInv, TypeOK, QueueTyped
      <3>3. m.id = nextId /\ m.kind = call[c].op /\ nextId \in Nat
        BY IdsTyped
      <3> HIDE DEF m
      <3>4. /\ Len(queue) \in Nat /\ Len(queue') = Len(queue) + 1 /\ queue'[Len(queue) + 1] = m
            /\ \A i \in 1..Len(queue) : queue'[i] = queue[i]
        BY <3>2, AppendAt
      <3>5. nextId \notin answered /\ \A i \in 1..Len(cur) : cur[i].id # nextId
        BY <3>3, IdsTyped DEF PastWriter, QueueOrdered, Past, OutOfQueue
      <3>6. ASSUME NEW i \in 1..Len(queue'), queue'[i].id = nextId PROVE queue'[i].kind = call[c].op
        <4>1. i = Len(queue) + 1
          BY <3>3, <3>4, <3>6, IdsTyped DEF QueueOrdered
        <4>2. QED
          BY <3>3, <3>4, <4>1
      <3>7. ASSUME NEW d \in Callers, callerPc'[d] = "wait"
            PROVE  /\ call'[d].ticket < nextId'
                   /\ \A i \in 1..Len(queue') :
                         queue'[i].id = call'[d].ticket => queue'[i].kind = call'[d].op
                   /\ \A i \in 1..Len(cur') :
                         cur'[i].id = call'[d].ticket => cur'[i].kind = call'[d].op
                   /\ call'[d].op = "sync" /\ call'[d].ticket \in answered' =>
                         call'[d].ticket \in reached' \/ Listener = "none"
        <4>1. CASE d = c
          BY <1>1, <3>1, <3>2, <3>3, <3>5, <3>6, <4>1
        <4>2. CASE d # c
          BY <1>1, <1>6, <3>1, <3>7, <4>2 DEF SyncWaits
        <4>3. QED
          BY <4>1, <4>2
      <3>8. QED
        BY <3>7 DEF SyncWaits
    <2>2. CASE /\ \A d \in Callers : callerPc'[d] = "wait" =>
                     callerPc[d] = "wait" /\ call'[d] = call[d]
               /\ UNCHANGED queueVars \/ (Put(c) /\ callerPc[c] = "send")
      BY <1>1, <1>6, <2>2 DEF SyncWaits
    <2>3. QED
      BY <1>4, <2>1, <2>2
  <1>8. QED
    BY <1>5, <1>7 DEF Barrier

\* Close, and the sweep loop that leaves, change nothing the barrier is about.
LEMMA OthersBarrier ==
  ASSUME BarrierInv,
         UNCHANGED <<call, queueVars, writerVars, deliveryVars, commitCh, dispatched>>,
         \A c \in Callers : callerPc'[c] = "wait" => callerPc[c] = "wait"
  PROVE  Barrier'
  <1> USE DEF BarrierInv, DrainInv, queueVars, writerVars, deliveryVars
  <1>1. (\A m \in accepted' : m.id < nextId') /\ QueueOrdered' /\ PastWriter' /\ ReachedIsClear'
    BY DEF QueueOrdered, PastWriter, ReachedIsClear, OutOfQueue, Past, HandedOn,
           Undelivered, HeldIn
  <1>2. SyncWaits'
    BY DEF SyncWaits
  <1>3. QED
    BY <1>1, <1>2 DEF Barrier

\* When the writer lets go of its message, all it handed on is past.
LEMMA HandsEmpty ==
  ASSUME BarrierInv, writerPc \in {"busy", "barrier"}, cur' = <<>>, UNCHANGED <<queue, nextId>>
  PROVE  /\ cur \in Seq(Msg) /\ Len(cur) = 1 /\ cur[1] \in Msg /\ cur[1].id \in Nat
         /\ \A n \in Nat : Past(n) \/ HandedOn(n) \/ n = cur[1].id => Past(n)'
  <1>1. cur \in Seq(Msg) /\ Len(cur) = 1
    BY DEF BarrierInv, DrainInv, LockInv, TypeOK, WriterTyped
  <1>2. cur[1] \in Msg /\ cur[1].id \in Nat
    BY <1>1, IdsTyped DEF BarrierInv, DrainInv
  <1>3. OutOfQueue(cur[1].id)
    BY <1>1 DEF BarrierInv, QueueOrdered
  <1>4. \A n \in Nat : OutOfQueue(n) => Past(n)'
    BY DEF OutOfQueue, Past
  <1>5. \A n \in Nat : Past(n) \/ HandedOn(n) => OutOfQueue(n) \/ n = cur[1].id
    BY DEF HandedOn, Past
  <1>6. QED
    BY <1>1, <1>2, <1>3, <1>4, <1>5

\* What the busy writer appends to commitCh is younger than what is there.
LEMMA CommitAppend ==
  ASSUME BarrierInv, writerPc = "busy", commitCh' = Append(commitCh, cur[1]), UNCHANGED pending
  PROVE  /\ \A i, j \in 1..Len(commitCh') : i < j => commitCh'[i].id < commitCh'[j].id
         /\ \A i \in 1..Len(pending'), j \in 1..Len(commitCh') : pending'[i].id < commitCh'[j].id
         /\ Len(commitCh) \in Nat /\ Len(commitCh') = Len(commitCh) + 1
         /\ commitCh'[Len(commitCh) + 1] = cur[1]
         /\ \A i \in 1..Len(commitCh) : commitCh'[i] = commitCh[i]
  <1> USE DEF BarrierInv, DrainInv
  <1>1. cur \in Seq(Msg) /\ Len(cur) = 1 /\ commitCh \in Seq(Msg)
    BY DEF LockInv, TypeOK, WriterTyped, CommitTyped
  <1>2. cur[1] \in Msg
    BY <1>1, IdsTyped
  <1>3. /\ Len(commitCh) \in Nat /\ Len(commitCh') = Len(commitCh) + 1
        /\ commitCh'[Len(commitCh) + 1] = cur[1]
        /\ \A i \in 1..Len(commitCh) : commitCh'[i] = commitCh[i]
    BY <1>1, <1>2, AppendAt
  <1>4. /\ \A i \in 1..Len(commitCh) : commitCh[i].id < cur[1].id
        /\ \A i \in 1..Len(pending) : pending[i].id < cur[1].id
    BY <1>1 DEF PastWriter, HandedOn, Past
  <1>5. ASSUME NEW i \in 1..Len(commitCh'), NEW j \in 1..Len(commitCh'), i < j
        PROVE  commitCh'[i].id < commitCh'[j].id
    <2>1. i \in 1..Len(commitCh) /\ commitCh'[i] = commitCh[i]
      BY <1>3, <1>5
    <2>2. CASE j \in 1..Len(commitCh)
      BY <1>3, <1>5, <2>1, <2>2 DEF QueueOrdered
    <2>3. CASE j = Len(commitCh) + 1
      BY <1>3, <1>4, <2>1, <2>3
    <2>4. QED
      BY <1>3, <2>2, <2>3
  <1>6. ASSUME NEW i \in 1..Len(pending), NEW j \in 1..Len(commitCh')
        PROVE  pending[i].id < commitCh'[j].id
    <2>1. CASE j \in 1..Len(commitCh)
      BY <1>3, <2>1 DEF QueueOrdered
    <2>2. CASE j = Len(commitCh) + 1
      BY <1>3, <1>4, <2>2
    <2>3. QED
      BY <1>3, <2>1, <2>2
  <1>7. QED
    BY <1>3, <1>5, <1>6

\* The writer takes messages in order, announces a batch when it is past, and
\* answers Sync only when its barrier job was reached.
LEMMA WriterBarrier ==
  ASSUME BarrierInv, WriterNext
  PROVE  Barrier'
  <1> USE DEF BarrierInv, DrainInv, callerVars, queueVars, writerVars, deliveryVars
  <1>1. UNCHANGED <<callerPc, call, nextId, accepted, deliveryVars>> /\ delivered' = delivered
        /\ \A x : HeldIn(x, delivered) => HeldIn(x, delivered)'
    BY DEF WriterNext, WriterRecv, WriteSilently, DispatchCommit, DropCommit, BatchWritten,
           RunControl, SendBarrier, BarrierReached, WriterExit, HeldIn
  <1>2. \A m \in accepted' : m.id < nextId'
    BY <1>1
  <1>3. ASSUME UNCHANGED <<queue, commitCh>>, \A i \in 1..Len(cur') : OutOfQueue(cur'[i].id)
        PROVE  QueueOrdered'
    BY <1>1, <1>3 DEF QueueOrdered, OutOfQueue
  <1>4. ASSUME UNCHANGED dispatched PROVE ReachedIsClear'
    BY <1>1, <1>4 DEF ReachedIsClear, Undelivered, HeldIn
  <1>5. ASSUME UNCHANGED <<queue, answered>>, cur' = cur \/ cur' = <<>> PROVE SyncWaits'
    BY <1>1, <1>5 DEF SyncWaits
  <1>6. CASE WriterRecv
    <2>1. /\ queue \in Seq(Msg) /\ queue # <<>> /\ cur' = <<Head(queue)>> /\ queue' = Tail(queue)
          /\ UNCHANGED <<answered, commitCh, dispatched>> /\ writerPc = "recv"
      BY <1>6 DEF WriterRecv, LockInv, TypeOK, QueueTyped
    <2>2. /\ Len(queue) \in Nat \ {0} /\ Len(queue') = Len(queue) - 1
          /\ Head(queue) = queue[1] /\ Head(queue) \in Msg
          /\ \A i \in 1..Len(queue') : queue'[i] = queue[i + 1]
      BY <2>1, TailAt
    <2>3. Len(cur') = 1 /\ cur'[1] = queue[1] /\ queue[1].id \in Nat
      BY <2>1, <2>2, IdsTyped
    <2>4. ASSUME NEW n \in Nat, OutOfQueue(n) PROVE Past(n)'
      BY <1>1, <2>2, <2>3, <2>4 DEF OutOfQueue, Past
    <2>5. ASSUME NEW n \in Nat, HandedOn(n) PROVE HandedOn(n)'
      BY <2>1, <2>4, <2>5 DEF HandedOn, Past
    <2>6. PastWriter'
      BY <1>1, <2>1, <2>4, <2>5, IdsTyped DEF PastWriter, Past
    <2>7. QueueOrdered'
      <3>1. cur'[1].id < nextId' /\ \A i \in 1..Len(queue') : cur'[1].id < queue'[i].id
        BY <1>1, <2>2, <2>3 DEF QueueOrdered
      <3>2. \A i, j \in 1..Len(queue') : i < j => queue'[i].id < queue'[j].id
        BY <2>2 DEF QueueOrdered
      <3>3. \A i \in 1..Len(queue') : queue'[i].id < nextId'
        BY <1>1, <2>2 DEF QueueOrdered
      <3>4. \A i \in 1..Len(cur') : OutOfQueue(cur[i].id)'
        BY <2>3, <3>1 DEF OutOfQueue
      <3>5. QED
        BY <1>1, <2>1, <3>2, <3>3, <3>4 DEF QueueOrdered
    <2>8. SyncWaits'
      BY <1>1, <2>1, <2>2, <2>3 DEF SyncWaits
    <2>9. QED
      BY <1>2, <1>4, <2>1, <2>6, <2>7, <2>8 DEF Barrier
  <1>7. ASSUME BatchWritten, UNCHANGED <<commitCh, dispatched>> PROVE Barrier'
    <2>1. /\ writerPc = "busy" /\ cur' = <<>> /\ writerPc' = "recv"
          /\ UNCHANGED <<queue, nextId, answered, commitCh, dispatched>>
      BY <1>7 DEF BatchWritten
    <2>2. QueueOrdered'
      BY <1>3, <2>1
    <2>3. PastWriter'
      BY <1>1, <2>1, HandsEmpty, IdsTyped DEF PastWriter, HandedOn
    <2>4. QED
      BY <1>2, <1>4, <1>5, <2>1, <2>2, <2>3 DEF Barrier
  <1>8. CASE WriteSilently
    BY <1>7, <1>8 DEF WriteSilently
  <1>9. CASE DropCommit
    BY <1>7, <1>9 DEF DropCommit
  <1>10. CASE DispatchCommit
    <2>1. /\ writerPc = "busy" /\ cur' = <<>> /\ writerPc' = "recv"
          /\ commitCh' = Append(commitCh, cur[1]) /\ dispatched' = dispatched \cup {cur[1]}
          /\ UNCHANGED <<queue, nextId, answered, pending>>
      BY <1>10 DEF DispatchCommit, BatchWritten
    <2>2. /\ cur[1].id \in Nat
          /\ \A n \in Nat : Past(n) \/ HandedOn(n) \/ n = cur[1].id => Past(n)'
      BY <2>1, HandsEmpty
    <2>3. /\ Len(commitCh) \in Nat /\ Len(commitCh') = Len(commitCh) + 1
          /\ commitCh'[Len(commitCh) + 1] = cur[1]
          /\ \A i \in 1..Len(commitCh) : commitCh'[i] = commitCh[i]
      BY <2>1, CommitAppend
    <2>4. QueueOrdered'
      <3>1. \A i \in 1..Len(cur') : OutOfQueue(cur[i].id)'
        BY <2>1
      <3>2. /\ \A i, j \in 1..Len(commitCh') : i < j => commitCh'[i].id < commitCh'[j].id
            /\ \A i \in 1..Len(pending'), j \in 1..Len(commitCh') :
                  pending'[i].id < commitCh'[j].id
        BY <1>1, <2>1, CommitAppend
      <3>3. QED
        BY <1>1, <2>1, <3>1, <3>2, Zenon DEF QueueOrdered
    <2>5. \A i \in 1..Len(commitCh') : Past(commitCh[i].id)'
      <3> SUFFICES ASSUME NEW i \in 1..Len(commitCh') PROVE Past(commitCh[i].id)'
        OBVIOUS
      <3>1. CASE i \in 1..Len(commitCh)
        BY <2>2, <2>3, <3>1, IdsTyped DEF PastWriter
      <3>2. CASE i = Len(commitCh) + 1
        BY <2>2, <2>3, <3>2
      <3>3. QED
        BY <2>3, <3>1, <3>2
    <2>6. PastWriter'
      BY <1>1, <2>1, <2>2, <2>5, IdsTyped DEF PastWriter, HandedOn
    <2>7. ReachedIsClear'
      <3>1. Len(cur) = 1
        BY <2>1, HandsEmpty
      <3>2. \A t \in reached : cur[1].id > t
        BY <2>1, <2>2, <3>1, IdsTyped DEF PastWriter, HandedOn, Past
      <3>3. Undelivered' \subseteq Undelivered \cup {cur[1]}
        BY <1>1, <2>1 DEF Undelivered, HeldIn
      <3>4. QED
        BY <1>1, <3>2, <3>3 DEF ReachedIsClear
    <2>8. QED
      BY <1>2, <1>5, <2>1, <2>4, <2>6, <2>7 DEF Barrier
  <1>11. ASSUME writerPc \in {"busy", "barrier"}, Reply(cur[1]),
                UNCHANGED <<queue, nextId, commitCh, dispatched>>,
                cur[1].kind = "sync" => cur[1].id \in reached \/ Listener = "none"
         PROVE  Barrier'
    <2>1. /\ cur' = <<>> /\ writerPc' = "recv" /\ answered' = answered \cup {cur[1].id}
      BY <1>11 DEF Reply
    <2>2. QueueOrdered'
      BY <1>3, <1>11, <2>1
    <2>3. PastWriter'
      BY <1>1, <1>11, <2>1, HandsEmpty, IdsTyped DEF PastWriter, HandedOn
    <2>4. SyncWaits'
      <3>1. Len(cur) = 1 /\ cur[1].id \in Nat
        BY <1>11, <2>1, HandsEmpty
      <3>2. QED
        BY <1>1, <1>11, <2>1, <3>1 DEF SyncWaits
    <2>5. QED
      BY <1>2, <1>4, <1>11, <2>2, <2>3, <2>4 DEF Barrier
  <1>12. CASE RunControl
    BY <1>11, <1>12 DEF RunControl
  <1>13. CASE BarrierReached
    BY <1>11, <1>13 DEF BarrierReached
  <1>14. CASE SendBarrier
    <2>1. /\ writerPc = "busy" /\ cur' = cur /\ writerPc' = "barrier"
          /\ commitCh' = Append(commitCh, cur[1])
          /\ UNCHANGED <<queue, nextId, answered, pending, dispatched>>
      BY <1>14 DEF SendBarrier
    <2>2. /\ Len(commitCh) \in Nat /\ Len(commitCh') = Len(commitCh) + 1
          /\ commitCh'[Len(commitCh) + 1] = cur[1]
          /\ \A i \in 1..Len(commitCh) : commitCh'[i] = commitCh[i]
      BY <2>1, CommitAppend
    <2>3. QueueOrdered'
      BY <1>1, <2>1, CommitAppend DEF QueueOrdered, OutOfQueue
    <2>4. \A n : Past(n) => Past(n)'
      BY <2>1 DEF Past, OutOfQueue
    <2>5. \A n : HandedOn(n) => HandedOn(n)'
      BY <2>1, <2>4 DEF HandedOn
    <2>6. \A i \in 1..Len(commitCh') : HandedOn(commitCh[i].id)'
      <3> SUFFICES ASSUME NEW i \in 1..Len(commitCh') PROVE HandedOn(commitCh[i].id)'
        OBVIOUS
      <3>1. CASE i \in 1..Len(commitCh)
        BY <2>2, <2>5, <3>1 DEF PastWriter
      <3>2. CASE i = Len(commitCh) + 1
        BY <2>1, <2>2, <3>2 DEF HandedOn
      <3>3. QED
        BY <2>2, <3>1, <3>2
    <2>7. PastWriter'
      BY <1>1, <2>1, <2>4, <2>5, <2>6 DEF PastWriter
    <2>8. QED
      BY <1>2, <1>4, <1>5, <2>1, <2>3, <2>7 DEF Barrier
  <1>15. CASE WriterExit
    <2>1. UNCHANGED <<queue, cur, answered, commitCh, dispatched>> /\ writerPc = "recv"
      BY <1>15 DEF WriterExit
    <2>2. QueueOrdered' /\ PastWriter'
      BY <1>1, <2>1 DEF QueueOrdered, PastWriter, HandedOn, Past, OutOfQueue
    <2>3. QED
      BY <1>2, <1>4, <1>5, <2>1, <2>2 DEF Barrier
  <1>16. QED
    BY <1>6, <1>8, <1>9, <1>10, <1>12, <1>13, <1>14, <1>15 DEF WriterNext

\* runCommits takes the jobs in order, so that a barrier job it reaches has
\* nothing undelivered before it.
LEMMA DeliveryBarrier ==
  ASSUME BarrierInv, DeliveryNext
  PROVE  Barrier'
  <1> USE DEF BarrierInv, DrainInv, callerVars, queueVars, writerVars, deliveryVars
  <1>1. UNCHANGED <<callerPc, call, queueVars, writerVars, dispatched>>
    BY DEF DeliveryNext, TakePending, TakeJob, Collect, StopCollecting, Deliver, DeliveryExit
  <1>2. \A n : (OutOfQueue(n) => OutOfQueue(n)') /\ (Past(n) => Past(n)')
               /\ (HandedOn(n) => HandedOn(n)')
    BY <1>1 DEF OutOfQueue, Past, HandedOn
  <1>3. commitCh \in Seq(Msg) /\ pending \in Seq(Msg) /\ Len(pending) <= 1
        /\ jobs \in Seq(Msg) /\ delivered \in Seq(Msg)
    BY DEF LockInv, TypeOK, CommitTyped, DeliveryTyped
  <1>4. ASSUME commitCh # <<>>
        PROVE  /\ Len(commitCh) \in Nat \ {0} /\ Len(Tail(commitCh)) = Len(commitCh) - 1
               /\ Head(commitCh) = commitCh[1] /\ Head(commitCh) \in Msg
               /\ \A i \in 1..Len(Tail(commitCh)) : Tail(commitCh)[i] = commitCh[i + 1]
    BY <1>3, <1>4, TailAt
  <1>5. ASSUME commitCh' = commitCh \/ (commitCh # <<>> /\ commitCh' = Tail(commitCh)),
               \/ pending' = pending \/ pending' = <<>>
               \/ pending' = <<Head(commitCh)>> /\ commitCh # <<>> /\ commitCh' = Tail(commitCh)
        PROVE  /\ QueueOrdered'
               /\ \A i \in 1..Len(commitCh') : HandedOn(commitCh[i].id)'
               /\ \A i \in 1..Len(pending') : HandedOn(pending[i].id)'
    <2>1. ASSUME NEW i \in 1..Len(commitCh') PROVE HandedOn(commitCh[i].id)'
      <3>1. CASE commitCh' = commitCh
        BY <1>2, <3>1 DEF PastWriter
      <3>2. CASE commitCh # <<>> /\ commitCh' = Tail(commitCh)
        BY <1>2, <1>4, <3>2 DEF PastWriter
      <3>3. QED
        BY <1>5, <3>1, <3>2
    <2>2. ASSUME NEW i \in 1..Len(pending') PROVE HandedOn(pending[i].id)'
      <3>1. CASE pending' = pending
        BY <1>2, <3>1 DEF PastWriter
      <3>2. CASE pending' = <<Head(commitCh)>> /\ commitCh # <<>>
        <4>1. i = 1 /\ pending'[i] = commitCh[1] /\ 1 \in 1..Len(commitCh)
          BY <1>4, <3>2
        <4>2. QED
          BY <1>2, <4>1 DEF PastWriter
      <3>3. QED
        BY <1>5, <3>1, <3>2
    <2>3. ASSUME NEW i \in 1..Len(commitCh'), NEW j \in 1..Len(commitCh'), i < j
          PROVE  commitCh'[i].id < commitCh'[j].id
      <3>1. CASE commitCh' = commitCh
        BY <2>3, <3>1 DEF QueueOrdered
      <3>2. CASE commitCh # <<>> /\ commitCh' = Tail(commitCh)
        <4>1. commitCh'[i] = commitCh[i + 1] /\ commitCh'[j] = commitCh[j + 1]
              /\ i + 1 \in 1..Len(commitCh) /\ j + 1 \in 1..Len(commitCh) /\ i + 1 < j + 1
          BY <1>4, <2>3, <3>2
        <4>2. QED
          BY <4>1 DEF QueueOrdered
      <3>3. QED
        BY <1>5, <3>1, <3>2
    <2>4. ASSUME NEW i \in 1..Len(pending'), NEW j \in 1..Len(commitCh')
          PROVE  pending'[i].id < commitCh'[j].id
      <3>1. CASE pending' = pending /\ commitCh' = commitCh
        BY <3>1 DEF QueueOrdered
      <3>2. CASE pending' = pending /\ commitCh # <<>> /\ commitCh' = Tail(commitCh)
        BY <1>4, <3>2 DEF QueueOrdered
      <3>3. CASE /\ pending' = <<Head(commitCh)>> /\ commitCh # <<>> /\ commitCh' = Tail(commitCh)
        <4>1. pending'[i] = commitCh[1] /\ commitCh'[j] = commitCh[j + 1]
              /\ 1 \in 1..Len(commitCh) /\ j + 1 \in 1..Len(commitCh) /\ 1 < j + 1
          BY <1>4, <3>3
        <4>2. QED
          BY <4>1 DEF QueueOrdered
      <3>4. QED
        BY <1>5, <3>1, <3>2, <3>3
    <2>5. \A i, j \in 1..Len(queue') : i < j => queue'[i].id < queue'[j].id
      BY <1>1 DEF QueueOrdered
    <2>6. (\A i \in 1..Len(queue') : queue'[i].id < nextId')
          /\ \A i \in 1..Len(cur') : OutOfQueue(cur[i].id)'
      BY <1>1 DEF QueueOrdered, OutOfQueue
    <2>7. QED
      BY <2>1, <2>2, <2>3, <2>4, <2>5, <2>6 DEF QueueOrdered
  <1>6. ASSUME \A t \in reached' : HandedOn(t),
               \A i \in 1..Len(commitCh') : HandedOn(commitCh[i].id)',
               \A i \in 1..Len(pending') : HandedOn(pending[i].id)',
               reached \subseteq reached'
        PROVE  (\A m \in accepted' : m.id < nextId') /\ PastWriter' /\ SyncWaits'
    BY <1>1, <1>2, <1>6 DEF PastWriter, SyncWaits
  <1>7. ASSUME Undelivered' \subseteq Undelivered,
               \A t \in reached' : t \in reached \/ \A m \in Undelivered : m.id > t
        PROVE  ReachedIsClear'
    BY <1>7 DEF ReachedIsClear
  <1>8. ASSUME NEW job, StartJob(job), deliveryPc = "recv",
               \A m \in dispatched : m # job /\ m \in Undelivered =>
                  HeldIn(m, commitCh) /\ (\A i \in 1..Len(commitCh) : m = commitCh[i] => commitCh[i].id > job.id),
               HandedOn(job.id), UNCHANGED delivered
        PROVE  /\ ReachedIsClear'
               /\ \A t \in reached' : HandedOn(t)
               /\ reached \subseteq reached'
    <2>1. Undelivered' = Undelivered
      BY <1>1, <1>8 DEF Undelivered, HeldIn
    <2>2. CASE job.kind = "sync"
      <3>1. job \notin dispatched
        BY <2>2 DEF DeliveryKeeps, ActorsAssumption
      <3>2. \A m \in Undelivered : m.id > job.id
        BY <1>8, <3>1 DEF Undelivered, HeldIn
      <3>3. reached' = reached \cup {job.id}
        BY <1>8, <2>2 DEF StartJob
      <3>4. QED
        BY <1>7, <1>8, <2>1, <3>2, <3>3 DEF PastWriter
    <2>3. CASE job.kind # "sync"
      <3>1. reached' = reached
        BY <1>8, <2>3 DEF StartJob
      <3>2. QED
        BY <1>7, <2>1, <3>1 DEF PastWriter
    <2>4. QED
      BY <2>2, <2>3
  <1>9. CASE TakePending
    <2>1. /\ StartJob(pending[1]) /\ deliveryPc = "recv" /\ pending # <<>> /\ pending' = <<>>
          /\ UNCHANGED <<commitCh, delivered>>
      BY <1>9 DEF TakePending
    <2>2. jobs = <<>> /\ Len(pending) = 1
      <3>1. jobs = <<>>
        BY <2>1 DEF DeliveryKeeps
      <3>2. Len(pending) = 1
        BY <1>3, <2>1, OneLong
      <3>3. QED
        BY <3>1, <3>2
    <2>3. \A m \in Undelivered : m # pending[1] => HeldIn(m, commitCh)
      BY <1>3, <2>2, HeldFew, HeldInOne DEF DeliveryKeeps, DispatchedIsHeld
    <2>4. HandedOn(pending[1].id) /\ \A i \in 1..Len(commitCh) : commitCh[i].id > pending[1].id
      BY <2>2, IdsTyped DEF PastWriter, QueueOrdered
    <2>5. QED
      BY <1>5, <1>6, <1>8, <2>1, <2>3, <2>4 DEF Barrier
  <1>10. CASE TakeJob
    <2>1. /\ StartJob(Head(commitCh)) /\ deliveryPc = "recv" /\ pending = <<>> /\ commitCh # <<>>
          /\ commitCh' = Tail(commitCh) /\ UNCHANGED <<pending, delivered>>
      BY <1>10 DEF TakeJob
    <2>2. jobs = <<>>
      BY <2>1 DEF DeliveryKeeps
    <2>3. \A m \in Undelivered : HeldIn(m, commitCh)
      BY <2>1, <2>2, HeldFew DEF DeliveryKeeps, DispatchedIsHeld
    <2>4. Len(commitCh) \in Nat \ {0} /\ Head(commitCh) = commitCh[1]
      BY <1>4, <2>1
    <2>5. /\ HandedOn(Head(commitCh).id)
          /\ \A i \in 1..Len(commitCh) : i # 1 => commitCh[i].id > Head(commitCh).id
      BY <2>4, IdsTyped DEF PastWriter, QueueOrdered
    <2>6. QED
      BY <1>5, <1>6, <1>8, <2>1, <2>3, <2>4, <2>5 DEF Barrier
  <1>11. ASSUME UNCHANGED <<reached, delivered>>,
                commitCh' = commitCh \/ (commitCh # <<>> /\ commitCh' = Tail(commitCh)),
                \/ pending' = pending
                \/ pending' = <<Head(commitCh)>> /\ commitCh # <<>> /\ commitCh' = Tail(commitCh)
         PROVE  Barrier'
    <2>1. Undelivered' = Undelivered
      BY <1>1, <1>11 DEF Undelivered, HeldIn
    <2>2. \A t \in reached' : HandedOn(t)
      BY <1>11 DEF PastWriter
    <2>3. QED
      BY <1>5, <1>6, <1>7, <1>11, <2>1, <2>2 DEF Barrier
  <1>12. CASE Collect
    BY <1>11, <1>12 DEF Collect
  <1>13. CASE StopCollecting
    BY <1>11, <1>13 DEF StopCollecting
  <1>14. CASE DeliveryExit
    BY <1>11, <1>14 DEF DeliveryExit
  <1>15. CASE Deliver
    <2>1. delivered' = delivered \o jobs /\ UNCHANGED <<commitCh, pending, reached>>
      BY <1>15 DEF Deliver
    <2>2. Undelivered' \subseteq Undelivered
      BY <1>1, <1>3, <2>1, HeldConcat DEF Undelivered
    <2>3. \A t \in reached' : HandedOn(t)
      BY <2>1 DEF PastWriter
    <2>4. QED
      BY <1>5, <1>6, <1>7, <2>1, <2>2, <2>3 DEF Barrier
  <1>16. QED
    BY <1>9, <1>10, <1>12, <1>13, <1>14, <1>15 DEF DeliveryNext

\* Every goroutine keeps the order of barrier and batches.
LEMMA BarrierNext == BarrierInv /\ [Next]_vars => BarrierInv'
  <1> SUFFICES ASSUME BarrierInv, [Next]_vars PROVE BarrierInv'
    OBVIOUS
  <1>1. DrainInv'
    BY DrainNext DEF BarrierInv
  <1>2. ASSUME NEW c \in Closers, CloserNext(c) PROVE Barrier'
    BY <1>2, OthersBarrier DEF CloserNext, CloseCall, CloseLocked, CloseJoin, CloseReturn, callerVars
  <1>3. ASSUME SweepLoopExit PROVE Barrier'
    <2>1. callerPc \in [Callers -> {"idle", "rlock", "locked", "send", "wait", "exited"}]
      BY DEF BarrierInv, DrainInv, LockInv, TypeOK, CallersTyped
    <2>2. \A c \in Callers : callerPc'[c] = "wait" => callerPc[c] = "wait"
      BY <1>3, <2>1 DEF SweepLoopExit
    <2>3. QED
      BY <1>3, <2>2, OthersBarrier DEF SweepLoopExit
  <1>4. ASSUME UNCHANGED vars PROVE Barrier'
    BY <1>4, OthersBarrier DEF vars, callerVars
  <1>5. Barrier'
    BY <1>2, <1>3, <1>4, CallerBarrier, WriterBarrier, DeliveryBarrier DEF Next, Done
  <1>6. QED
    BY <1>1, <1>5 DEF Barrier, BarrierInv

\* A Sync that is answered is a barrier, as its comment says, for any number
\* of callers, any capacity of the channels, and any of the three listeners:
\* what the queue took before it is written, and announced events of it are
\* delivered.
THEOREM SyncIsABarrier == Spec => []SyncIsBarrier
  <1>1. BarrierInv => SyncIsBarrier
    <2> SUFFICES ASSUME BarrierInv, NEW c \in Callers, callerPc[c] = "wait",
                        call[c].op = "sync", call[c].ticket \in answered
                 PROVE  /\ \A m \in accepted : m.id < call[c].ticket => m \in written
                        /\ \A m \in Undelivered : m.id > call[c].ticket
      BY DEF SyncIsBarrier
    <2> USE DEF BarrierInv, DrainInv
    <2>1. Past(call[c].ticket)
      BY DEF PastWriter
    <2>2. ASSUME NEW m \in accepted, m.id < call[c].ticket PROVE m \in written
      <3>1. ~HeldIn(m, cur) /\ ~HeldIn(m, queue)
        BY <2>1, <2>2, IdsTyped DEF Past, OutOfQueue, HeldIn
      <3>2. QED
        BY <3>1 DEF WriterKeeps
    <2>3. \A m \in Undelivered : m.id > call[c].ticket
      <3>1. CASE call[c].ticket \in reached
        BY <3>1 DEF ReachedIsClear
      <3>2. CASE Listener = "none"
        <4>1. Undelivered = {}
          <5>1. deliveryPc = "exited"
            BY <3>2 DEF DeliveryKeeps
          <5>2. CASE dispatched = {}
            BY <5>2 DEF Undelivered
          <5>3. CASE jobs = <<>> /\ pending = <<>> /\ commitCh = <<>>
            BY <5>3, HeldFew DEF DeliveryKeeps, DispatchedIsHeld
          <5>4. QED
            BY <5>1, <5>2, <5>3 DEF DeliveryKeeps
        <4>2. QED
          BY <4>1
      <3>3. QED
        BY <3>1, <3>2 DEF SyncWaits
    <2>4. QED
      BY <2>2, <2>3
  <1>2. QED
    BY <1>1, BarrierInit, BarrierNext, PTL DEF Spec

----
(* The batches in a channel: what the refinement mapping of CommitStream   *)
(* reads out of queue, commitCh and the goroutines' hands.                 *)

\* What holds of <<>>, and stays when an element is appended, holds of every
\* sequence.
LEMMA EverySequence ==
  ASSUME NEW S, NEW P, <<>> \in P, \A s \in Seq(S), e \in S : s \in P => Append(s, e) \in P
  PROVE  Seq(S) \subseteq P
  <1> DEFINE N == {n \in Nat : \A s \in Seq(S) : Len(s) = n => s \in P}
  <1>1. 0 \in N
    <2>1. \A s \in Seq(S) : Len(s) = 0 => s = <<>>
      BY EmptySeq
    <2>2. QED
      BY <2>1
  <1>2. ASSUME NEW n \in Nat, n \in N PROVE n + 1 \in N
    <2>1. ASSUME NEW s \in Seq(S), Len(s) = n + 1 PROVE s \in P
      <3>1. s # <<>>
        BY <2>1
      <3>2. PICK t \in Seq(S), e \in S : s = Append(t, e)
        BY <3>1, SequenceEmptyOrAppend
      <3>3. Len(t) = n
        BY <2>1, <3>2, AppendProperties, LenProperties
      <3>4. QED
        BY <1>2, <3>2, <3>3
    <2>2. QED
      BY <2>1
  <1> HIDE DEF N
  <1>3. Nat \subseteq N
    BY <1>1, <1>2, InductiveSet
  <1>4. QED
    BY <1>3, LenProperties DEF N

\* One turn of the loop in BatchesIn, and the values it goes through.
Turn(f, s, n) == IF IsBatch(s[n]) THEN Append(f[n - 1], s[n]) ELSE f[n - 1]

Loop(f, s, n) == f = [k \in 0..n |-> IF k = 0 THEN <<>> ELSE Turn(f, s, k)]

\* The function that BatchesIn chooses exists: by induction on its length.
LEMMA LoopExists ==
  ASSUME NEW s, NEW m \in Nat
  PROVE  \E f : Loop(f, s, m)
  <1> DEFINE S == {n \in Nat : \E f : Loop(f, s, n)}
  <1>1. 0 \in S
    <2>1. Loop([k \in 0..0 |-> <<>>], s, 0)
      BY DEF Loop
    <2>2. QED
      BY <2>1
  <1>2. ASSUME NEW n \in Nat, n \in S PROVE n + 1 \in S
    <2>1. PICK f : Loop(f, s, n)
      BY <1>2
    <2> DEFINE g == [k \in 0..(n + 1) |-> IF k = n + 1 THEN Turn(f, s, n + 1) ELSE f[k]]
    <2>2. /\ \A k \in 0..n : g[k] = f[k] /\ k # n + 1
          /\ g[n + 1] = Turn(f, s, n + 1)
          /\ g = [k \in 0..(n + 1) |-> g[k]]
      OBVIOUS
    <2>3. \A k \in 0..n : f[k] = IF k = 0 THEN <<>> ELSE Turn(f, s, k)
      BY <2>1 DEF Loop
    <2> HIDE DEF g
    <2>4. \A k \in 0..(n + 1) : k # 0 => Turn(g, s, k) = Turn(f, s, k)
      <3>1. ASSUME NEW k \in 0..(n + 1), k # 0 PROVE g[k - 1] = f[k - 1]
        <4>1. k - 1 \in 0..n
          BY <3>1
        <4>2. QED
          BY <2>2, <4>1
      <3>2. QED
        BY <3>1 DEF Turn
    <2>5. ASSUME NEW k \in 0..(n + 1) PROVE g[k] = IF k = 0 THEN <<>> ELSE Turn(g, s, k)
      <3>1. CASE k = n + 1
        BY <2>2, <2>4, <3>1
      <3>2. CASE k # n + 1
        <4>1. k \in 0..n
          BY <3>2
        <4>2. QED
          BY <2>2, <2>3, <2>4, <4>1
      <3>3. QED
        BY <3>1, <3>2
    <2>6. Loop(g, s, n + 1)
      BY <2>2, <2>5 DEF Loop
    <2>7. QED
      BY <2>6
  <1> HIDE DEF S
  <1>3. m \in S
    BY <1>1, <1>2, InductiveSet
  <1>4. QED
    BY <1>3 DEF S

\* BatchesIn is where the loop ends.
LEMMA BatchesLoop ==
  ASSUME NEW s \in Seq(Msg)
  PROVE  \E f : /\ BatchesIn(s) = f[Len(s)] /\ f[0] = <<>>
                /\ \A n \in 1..Len(s) : f[n] = Turn(f, s, n)
  <1> DEFINE f == CHOOSE g : g = [n \in 0..Len(s) |->
                                    IF n = 0 THEN <<>>
                                    ELSE IF IsBatch(s[n]) THEN Append(g[n - 1], s[n])
                                    ELSE g[n - 1]]
  <1>1. Len(s) \in Nat
    OBVIOUS
  <1>2. f = [n \in 0..Len(s) |-> IF n = 0 THEN <<>>
                                 ELSE IF IsBatch(s[n]) THEN Append(f[n - 1], s[n])
                                 ELSE f[n - 1]]
    <2>1. PICK h : Loop(h, s, Len(s))
      BY <1>1, LoopExists
    <2>2. \E g : g = [n \in 0..Len(s) |-> IF n = 0 THEN <<>>
                                          ELSE IF IsBatch(s[n]) THEN Append(g[n - 1], s[n])
                                          ELSE g[n - 1]]
      BY <2>1, Zenon DEF Loop, Turn
    <2>3. QED
      BY <2>2
  <1>3. BatchesIn(s) = f[Len(s)]
    BY DEF BatchesIn
  <1> HIDE DEF f
  <1>4. f[0] = <<>>
    BY <1>1, <1>2
  <1>5. ASSUME NEW n \in 1..Len(s) PROVE f[n] = Turn(f, s, n)
    <2>1. n \in 0..Len(s) /\ n # 0
      BY <1>1
    <2>2. f[n] = IF IsBatch(s[n]) THEN Append(f[n - 1], s[n]) ELSE f[n - 1]
      BY <1>2, <2>1, Zenon
    <2>3. QED
      BY <2>2 DEF Turn
  <1>6. QED
    BY <1>3, <1>4, <1>5

\* Any function that goes through the turns ends there.
LEMMA BatchesUnique ==
  ASSUME NEW s \in Seq(Msg), NEW g, g[0] = <<>>, \A n \in 1..Len(s) : g[n] = Turn(g, s, n)
  PROVE  BatchesIn(s) = g[Len(s)]
  <1>1. PICK f : /\ BatchesIn(s) = f[Len(s)] /\ f[0] = <<>>
                 /\ \A n \in 1..Len(s) : f[n] = Turn(f, s, n)
    BY BatchesLoop
  <1> DEFINE S == {n \in Nat : n <= Len(s) => f[n] = g[n]}
  <1>2. Len(s) \in Nat
    OBVIOUS
  <1>3. 0 \in S
    BY <1>1
  <1>4. ASSUME NEW n \in Nat, n \in S PROVE n + 1 \in S
    <2>1. CASE n + 1 <= Len(s)
      <3>1. n + 1 \in 1..Len(s) /\ (n + 1) - 1 = n /\ f[n] = g[n]
        BY <1>2, <1>4, <2>1
      <3>2. Turn(f, s, n + 1) = Turn(g, s, n + 1)
        BY <3>1 DEF Turn
      <3>3. QED
        BY <1>1, <3>1, <3>2
    <2>2. QED
      BY <2>1
  <1> HIDE DEF S
  <1>5. Len(s) \in S
    BY <1>2, <1>3, <1>4, InductiveSet
  <1>6. QED
    BY <1>1, <1>5 DEF S

\* A message that enters the queue is the last batch, or none.
LEMMA BatchesAppend ==
  ASSUME NEW s \in Seq(Msg), NEW m \in Msg
  PROVE  BatchesIn(Append(s, m)) = IF IsBatch(m) THEN Append(BatchesIn(s), m) ELSE BatchesIn(s)
  <1> DEFINE t == Append(s, m)
             k == Len(s)
  <1>1. t \in Seq(Msg) /\ k \in Nat /\ Len(t) = k + 1 /\ t[k + 1] = m /\ \A i \in 1..k : t[i] = s[i]
    BY AppendAt
  <1> HIDE DEF t
  <1>2. PICK f : /\ BatchesIn(t) = f[Len(t)] /\ f[0] = <<>>
                 /\ \A n \in 1..Len(t) : f[n] = Turn(f, t, n)
    BY <1>1, BatchesLoop
  <1>3. ASSUME NEW n \in 1..k PROVE f[n] = Turn(f, s, n)
    BY <1>1, <1>2 DEF Turn
  <1>4. BatchesIn(s) = f[k]
    BY <1>2, <1>3, BatchesUnique
  <1>5. f[k + 1] = Turn(f, t, k + 1) /\ (k + 1) - 1 = k
    BY <1>1, <1>2
  <1> HIDE DEF k
  <1>6. BatchesIn(t) = IF IsBatch(m) THEN Append(f[k], m) ELSE f[k]
    BY <1>1, <1>2, <1>5 DEF Turn
  <1>7. QED
    BY <1>4, <1>6 DEF t

\* No message, no batch.
LEMMA BatchesEmpty == BatchesIn(<<>>) = <<>>
  <1>1. <<>> \in Seq(Msg) /\ Len(<<>>) = 0
    OBVIOUS
  <1>2. PICK f : BatchesIn(<<>>) = f[Len(<<>>)] /\ f[0] = <<>>
    BY <1>1, BatchesLoop
  <1>3. QED
    BY <1>1, <1>2

\* The batches of one message.
LEMMA BatchesOne ==
  ASSUME NEW m \in Msg
  PROVE  BatchesIn(<<m>>) = IF IsBatch(m) THEN <<m>> ELSE <<>>
  <1>1. <<>> \in Seq(Msg) /\ Append(<<>>, m) = <<m>>
    OBVIOUS
  <1>2. QED
    BY <1>1, BatchesAppend, BatchesEmpty

\* BatchesIn of a concatenation.
LEMMA BatchesConcat ==
  ASSUME NEW s \in Seq(Msg), NEW t \in Seq(Msg)
  PROVE  BatchesIn(s \o t) = BatchesIn(s) \o BatchesIn(t) /\ BatchesIn(t) \in Seq(Msg)
  <1> DEFINE P == {u \in Seq(Msg) : BatchesIn(u) \in Seq(Msg)}
             Q == {u \in Seq(Msg) : BatchesIn(s \o u) = BatchesIn(s) \o BatchesIn(u)}
  <1>1. <<>> \in P
    <2>1. <<>> \in Seq(Msg)
      OBVIOUS
    <2>2. QED
      BY <2>1, BatchesEmpty
  <1>2. ASSUME NEW u \in Seq(Msg), NEW m \in Msg, u \in P PROVE Append(u, m) \in P
    <2>1. Append(u, m) \in Seq(Msg) /\ Append(BatchesIn(u), m) \in Seq(Msg)
      BY <1>2, AppendProperties
    <2>2. QED
      BY <1>2, <2>1, BatchesAppend
  <1>3. Seq(Msg) \subseteq P
    <2> HIDE DEF P
    <2>1. QED
      BY <1>1, <1>2, EverySequence
  <1>4. \A u \in Seq(Msg) : BatchesIn(u) \in Seq(Msg)
    BY <1>3
  <1>5. <<>> \in Q
    BY <1>4, BatchesEmpty, ConcatEmptySeq
  <1>6. ASSUME NEW u \in Seq(Msg), NEW m \in Msg, u \in Q PROVE Append(u, m) \in Q
    <2>1. /\ Append(u, m) = u \o <<m>> /\ Append(s \o u, m) = (s \o u) \o <<m>>
          /\ s \o u \in Seq(Msg) /\ <<m>> \in Seq(Msg) /\ Append(u, m) \in Seq(Msg)
      BY AppendIsConcat, AppendProperties, ConcatProperties
    <2>2. s \o Append(u, m) = Append(s \o u, m)
      BY <2>1, ConcatAssociative
    <2>3. BatchesIn(s \o u) = BatchesIn(s) \o BatchesIn(u)
      BY <1>6
    <2>4. BatchesIn(s \o Append(u, m)) = IF IsBatch(m) THEN Append(BatchesIn(s) \o BatchesIn(u), m)
                                         ELSE BatchesIn(s) \o BatchesIn(u)
      BY <2>1, <2>2, <2>3, BatchesAppend
    <2>5. BatchesIn(s) \in Seq(Msg) /\ BatchesIn(u) \in Seq(Msg)
      BY <1>4
    <2>6. Append(BatchesIn(s) \o BatchesIn(u), m) = BatchesIn(s) \o Append(BatchesIn(u), m)
      <3> DEFINE x == BatchesIn(s)
                 y == BatchesIn(u)
                 z == <<m>>
      <3>1. x \in Seq(Msg) /\ y \in Seq(Msg) /\ z \in Seq(Msg)
        BY <2>1, <2>5
      <3>2. Append(y, m) = y \o z
        BY <3>1, AppendIsConcat
      <3>3. Append(x \o y, m) = (x \o y) \o z
        BY <3>1, ConcatProperties, AppendIsConcat
      <3> HIDE DEF x, y, z
      <3>4. (x \o y) \o z = x \o (y \o z)
        BY <3>1, SMT
      <3>5. QED
        BY <3>2, <3>3, <3>4, Zenon DEF x, y
    <2>7. BatchesIn(s \o Append(u, m)) = BatchesIn(s) \o BatchesIn(Append(u, m))
      BY <2>4, <2>6, BatchesAppend
    <2>8. QED
      BY <2>1, <2>7
  <1> HIDE DEF Q
  <1>7. Seq(Msg) \subseteq Q
    BY <1>5, <1>6, EverySequence
  <1>8. QED
    BY <1>4, <1>7 DEF Q

\* A sequence of batches is all batches.
LEMMA BatchesAll ==
  ASSUME NEW s \in Seq(Msg), \A i \in 1..Len(s) : IsBatch(s[i])
  PROVE  BatchesIn(s) = s
  <1> DEFINE P == {u \in Seq(Msg) : (\A i \in 1..Len(u) : IsBatch(u[i])) => BatchesIn(u) = u}
  <1>1. <<>> \in P
    BY BatchesEmpty
  <1>2. ASSUME NEW u \in Seq(Msg), NEW m \in Msg, u \in P PROVE Append(u, m) \in P
    <2> DEFINE v == Append(u, m)
    <2>1. /\ v \in Seq(Msg) /\ Len(u) \in Nat /\ Len(v) = Len(u) + 1 /\ v[Len(u) + 1] = m
          /\ \A i \in 1..Len(u) : v[i] = u[i]
      BY AppendAt
    <2>2. BatchesIn(v) = IF IsBatch(m) THEN Append(BatchesIn(u), m) ELSE BatchesIn(u)
      BY BatchesAppend
    <2>3. ASSUME \A i \in 1..Len(v) : IsBatch(v[i]) PROVE BatchesIn(v) = v
      <3> HIDE DEF v
      <3>1. IsBatch(m) /\ \A i \in 1..Len(u) : IsBatch(u[i])
        <4>1. Len(u) + 1 \in 1..Len(v) /\ \A i \in 1..Len(u) : i \in 1..Len(v)
          BY <2>1
        <4>2. QED
          BY <2>1, <2>3, <4>1
      <3>2. BatchesIn(u) = u
        BY <1>2, <3>1
      <3>3. QED
        BY <2>2, <3>1, <3>2 DEF v
    <2>4. QED
      BY <2>1, <2>3
  <1> HIDE DEF P
  <1>3. Seq(Msg) \subseteq P
    BY <1>1, <1>2, EverySequence
  <1>4. QED
    BY <1>3 DEF P

----
(* The pipeline implements the commit stream, step by step.                *)

\* commitCh holds batches and barrier jobs, a callback batches only, and more
\* than one only of metrics; without a listener there is none of it.
JobsInv ==
    /\ \A i \in 1..Len(commitCh) : commitCh[i].kind \in Signals \cup {"sync"}
    /\ \A i \in 1..Len(pending) : pending[i].kind \in Signals \cup {"sync"}
    /\ \A i \in 1..Len(jobs) : IsBatch(jobs[i])
    /\ deliveryPc = "collect" \/ Len(jobs) > 1 => \A i \in 1..Len(jobs) : jobs[i].kind = "metrics"
    /\ Listener = "none" => commitCh = <<>> /\ pending = <<>> /\ jobs = <<>>

\* A call that has begun puts at most one message in the queue.
Begun == {c \in Callers : callerPc[c] \in {"rlock", "locked", "send"}}

CountInv ==
    /\ calls <= MaxCalls
    /\ IsFiniteSet(Begun)
    /\ Cardinality(Begun) + nextId <= calls + 1

StreamInv == DrainInv /\ JobsInv /\ CountInv

\* The next job of runCommits becomes its callback, unless it is a barrier.
LEMMA StartedJob ==
  ASSUME NEW job \in Msg, job.kind \in Signals \cup {"sync"}, StartJob(job), jobs = <<>>,
         deliveryPc = "recv"
  PROVE  /\ \A i \in 1..Len(jobs') : IsBatch(jobs'[i])
         /\ deliveryPc' = "collect" \/ Len(jobs') > 1
              => \A i \in 1..Len(jobs') : jobs'[i].kind = "metrics"
         /\ jobs' = IF IsBatch(job) THEN <<job>> ELSE <<>>
  <1>1. CASE job.kind = "sync"
    BY <1>1 DEF StartJob, IsBatch
  <1>2. CASE job.kind # "sync"
    <2>1. jobs' = <<job>> /\ job.kind \in Signals /\ (deliveryPc' = "collect" => job.kind = "metrics")
      BY <1>2 DEF StartJob
    <2>2. Len(<<job>>) = 1 /\ <<job>>[1] = job
      OBVIOUS
    <2>3. \A i \in 1..Len(jobs') : jobs'[i] = job
      BY <2>1, <2>2
    <2>4. ~(Len(jobs') > 1)
      BY <2>1, <2>2
    <2>5. QED
      BY <2>1, <2>3, <2>4 DEF IsBatch
  <1>3. QED
    BY <1>1, <1>2

\* Every goroutine keeps jobs and channel in the shape that Deliver needs.
LEMMA JobsNext == DrainInv /\ JobsInv /\ [Next]_vars => JobsInv'
  <1> SUFFICES ASSUME DrainInv, JobsInv, [Next]_vars PROVE JobsInv'
    OBVIOUS
  <1> USE DEF JobsInv
  <1>1. /\ commitCh \in Seq(Msg) /\ pending \in Seq(Msg) /\ jobs \in Seq(Msg) /\ Len(pending) <= 1
        /\ cur \in Seq(Msg) /\ Len(cur) = (IF writerPc \in {"busy", "barrier"} THEN 1 ELSE 0)
        /\ deliveryPc = "recv" => jobs = <<>>
        /\ Listener = "none" => deliveryPc = "exited"
    BY DEF DrainInv, LockInv, TypeOK, CommitTyped, DeliveryTyped, WriterTyped, DeliveryKeeps
  <1>2. ASSUME UNCHANGED <<commitCh, pending, jobs>>, deliveryPc' # "collect" \/ deliveryPc' = deliveryPc
        PROVE  JobsInv'
    BY <1>2 DEF IsBatch
  <1>3. CASE \E c \in Callers : CallerNext(c)
    BY <1>2, <1>3 DEF CallerNext, Call, RLock, CheckClosed, TrySend, BlockingSend, CallReturn,
                      GiveUp, deliveryVars
  <1>4. CASE \E c \in Closers : CloserNext(c)
    BY <1>2, <1>4 DEF CloserNext, CloseCall, CloseLocked, CloseJoin, CloseReturn, deliveryVars
  <1>5. CASE SweepLoopExit \/ Done \/ UNCHANGED vars
    BY <1>2, <1>5 DEF SweepLoopExit, Done, vars, deliveryVars
  <1>6. CASE WriterRecv \/ WriteSilently \/ DropCommit \/ RunControl \/ BarrierReached \/ WriterExit
    BY <1>2, <1>6 DEF WriterRecv, WriteSilently, DropCommit, BatchWritten, RunControl,
                      BarrierReached, WriterExit, deliveryVars
  <1>7. CASE DispatchCommit \/ SendBarrier
    <2>1. /\ commitCh' = Append(commitCh, cur[1]) /\ cur[1].kind \in Signals \cup {"sync"}
          /\ Listener # "none" /\ writerPc = "busy"
          /\ UNCHANGED <<pending, jobs, deliveryPc>>
      BY <1>7 DEF DispatchCommit, SendBarrier, BatchWritten, deliveryVars
    <2>2. cur[1] \in Msg
      <3>1. Len(cur) = 1
        BY <1>1, <2>1
      <3>2. QED
        BY <3>1, IdsTyped DEF DrainInv
    <2>3. \A i \in 1..Len(commitCh') : commitCh'[i] = cur[1] \/ \E j \in 1..Len(commitCh) : commitCh'[i] = commitCh[j]
      <3>1. /\ Len(commitCh) \in Nat /\ Len(commitCh') = Len(commitCh) + 1
            /\ commitCh'[Len(commitCh) + 1] = cur[1]
            /\ \A i \in 1..Len(commitCh) : commitCh'[i] = commitCh[i]
        BY <1>1, <2>1, <2>2, AppendAt
      <3>2. QED
        BY <3>1
    <2>4. QED
      BY <2>1, <2>3 DEF IsBatch
  <1>8. CASE TakePending
    <2>1. /\ deliveryPc = "recv" /\ pending # <<>> /\ pending' = <<>> /\ StartJob(pending[1])
          /\ UNCHANGED commitCh
      BY <1>8 DEF TakePending
    <2>2. Len(pending) = 1 /\ pending[1] \in Msg
      BY <1>1, <2>1, OneLong
    <2>3. /\ \A i \in 1..Len(jobs') : IsBatch(jobs'[i])
          /\ deliveryPc' = "collect" \/ Len(jobs') > 1
               => \A i \in 1..Len(jobs') : jobs'[i].kind = "metrics"
      BY <1>1, <2>1, <2>2, StartedJob
    <2>4. QED
      BY <1>1, <2>1, <2>3
  <1>9. CASE TakeJob
    <2>1. /\ deliveryPc = "recv" /\ commitCh # <<>> /\ commitCh' = Tail(commitCh)
          /\ StartJob(Head(commitCh)) /\ UNCHANGED pending
      BY <1>9 DEF TakeJob
    <2>2. /\ Len(commitCh) \in Nat \ {0} /\ Len(commitCh') = Len(commitCh) - 1
          /\ Head(commitCh) = commitCh[1] /\ Head(commitCh) \in Msg
          /\ \A i \in 1..Len(commitCh') : commitCh'[i] = commitCh[i + 1]
      BY <1>1, <2>1, TailAt
    <2>3. \A i \in 1..Len(commitCh') : commitCh'[i].kind \in Signals \cup {"sync"}
      BY <2>2
    <2>4. commitCh[1].kind \in Signals \cup {"sync"}
      BY <2>2
    <2>5. /\ \A i \in 1..Len(jobs') : IsBatch(jobs'[i])
          /\ deliveryPc' = "collect" \/ Len(jobs') > 1
               => \A i \in 1..Len(jobs') : jobs'[i].kind = "metrics"
      BY <1>1, <2>1, <2>2, <2>4, StartedJob
    <2>6. QED
      BY <1>1, <2>1, <2>3, <2>5
  <1>10. CASE Collect
    <2>1. /\ deliveryPc = "collect" /\ commitCh # <<>> /\ commitCh' = Tail(commitCh)
          /\ \/ /\ Head(commitCh).kind = "metrics" /\ jobs' = Append(jobs, Head(commitCh))
                /\ UNCHANGED <<pending, deliveryPc>>
             \/ /\ pending' = <<Head(commitCh)>> /\ deliveryPc' = "deliver" /\ UNCHANGED jobs
      BY <1>10 DEF Collect
    <2>2. /\ Len(commitCh) \in Nat \ {0} /\ Len(commitCh') = Len(commitCh) - 1
          /\ Head(commitCh) = commitCh[1] /\ Head(commitCh) \in Msg
          /\ \A i \in 1..Len(commitCh') : commitCh'[i] = commitCh[i + 1]
      BY <1>1, <2>1, TailAt
    <2>3. /\ \A i \in 1..Len(commitCh') : commitCh'[i].kind \in Signals \cup {"sync"}
          /\ commitCh[1].kind \in Signals \cup {"sync"}
      BY <2>2
    <2>4. CASE Head(commitCh).kind = "metrics" /\ jobs' = Append(jobs, Head(commitCh)) /\ UNCHANGED <<pending, deliveryPc>>
      <3>1. \A i \in 1..Len(jobs') : jobs'[i] = Head(commitCh) \/ \E j \in 1..Len(jobs) : jobs'[i] = jobs[j]
        <4>1. /\ Len(jobs) \in Nat /\ Len(jobs') = Len(jobs) + 1
              /\ jobs'[Len(jobs) + 1] = Head(commitCh)
              /\ \A i \in 1..Len(jobs) : jobs'[i] = jobs[i]
          BY <1>1, <2>2, <2>4, AppendAt
        <4>2. QED
          BY <4>1
      <3>2. "metrics" \in Signals
        BY <2>2, <2>3, <2>4
      <3>3. \A i \in 1..Len(jobs') : jobs'[i].kind = "metrics"
        BY <2>1, <2>4, <3>1
      <3>4. QED
        BY <1>1, <2>1, <2>3, <2>4, <3>2, <3>3 DEF IsBatch
    <2>5. CASE pending' = <<Head(commitCh)>> /\ deliveryPc' = "deliver" /\ UNCHANGED jobs
      BY <1>1, <2>1, <2>2, <2>3, <2>5 DEF IsBatch
    <2>6. QED
      BY <2>1, <2>4, <2>5
  <1>11. CASE StopCollecting \/ DeliveryExit
    BY <1>2, <1>11 DEF StopCollecting, DeliveryExit
  <1>12. CASE Deliver
    <2>1. jobs' = <<>> /\ deliveryPc' # "collect" /\ UNCHANGED <<pending, commitCh>>
      BY <1>12 DEF Deliver
    <2>2. QED
      BY <2>1
  <1>13. QED
    BY <1>3, <1>4, <1>5, <1>6, <1>7, <1>8, <1>9, <1>10, <1>11, <1>12 DEF Next, WriterNext, DeliveryNext

\* A call that has begun puts at most one message in the queue, so the ids of
\* messages stay within the bound on calls.
LEMMA CountNext == DrainInv /\ CountInv /\ [Next]_vars => CountInv'
  <1> SUFFICES ASSUME DrainInv, CountInv, [Next]_vars PROVE CountInv'
    OBVIOUS
  <1> USE DEF CountInv
  <1>1. /\ calls \in Nat /\ nextId \in Nat /\ callerPc \in [Callers -> {"idle", "rlock", "locked", "send", "wait", "exited"}]
        /\ Cardinality(Begun) \in Nat
    BY FS_CardinalityType DEF DrainInv, LockInv, TypeOK, CallersTyped, QueueTyped
  <1>2. ASSUME UNCHANGED <<calls, nextId>>, Begun' = Begun PROVE CountInv'
    BY <1>2
  <1>3. ASSUME NEW c \in Begun, calls' = calls, nextId' \in {nextId, nextId + 1}, Begun' = Begun \ {c}
        PROVE  CountInv'
    <2>1. IsFiniteSet(Begun') /\ Cardinality(Begun') = Cardinality(Begun) - 1
      BY <1>3, FS_RemoveElement
    <2>2. QED
      BY <1>1, <1>3, <2>1
  <1>4. ASSUME NEW c \in Callers, CallerNext(c) PROVE CountInv'
    <2>1. ASSUME NEW k \in OpsOf(c), Call(c, k) PROVE CountInv'
      <3>1. c \notin Begun /\ Begun' = Begun \cup {c} /\ calls < MaxCalls /\ calls' = calls + 1 /\ nextId' = nextId
        BY <1>1, <2>1 DEF Call, Begun, queueVars
      <3>2. IsFiniteSet(Begun') /\ Cardinality(Begun') = Cardinality(Begun) + 1
        BY <3>1, FS_AddElement
      <3>3. QED
        BY <1>1, <3>1, <3>2
    <2>2. CASE RLock(c) \/ CallReturn(c) \/ GiveUp(c)
      BY <1>1, <1>2, <2>2 DEF RLock, CallReturn, GiveUp, Return, Begun, queueVars
    <2>3. CASE CheckClosed(c)
      <3>1. CASE closed
        <4>1. c \in Begun /\ Begun' = Begun \ {c} /\ calls' = calls /\ nextId' = nextId
          BY <1>1, <2>3, <3>1 DEF CheckClosed, Return, Begun, queueVars
        <4>2. QED
          BY <1>3, <4>1
      <3>2. CASE ~closed
        BY <1>1, <1>2, <2>3, <3>2 DEF CheckClosed, Begun, queueVars
      <3>3. QED
        BY <3>1, <3>2
    <2>4. CASE TrySend(c) \/ BlockingSend(c)
      <3>1. c \in Begun /\ Begun' = Begun \ {c} /\ calls' = calls
        BY <1>1, <2>4 DEF TrySend, BlockingSend, Return, Begun
      <3>2. nextId' \in {nextId, nextId + 1}
        BY <2>4 DEF TrySend, BlockingSend, Put, queueVars
      <3>3. QED
        BY <1>3, <3>1, <3>2
    <2>5. QED
      BY <1>4, <2>1, <2>2, <2>3, <2>4 DEF CallerNext
  <1>5. CASE SweepLoopExit
    BY <1>1, <1>2, <1>5 DEF SweepLoopExit, Begun, queueVars
  <1>6. CASE \E c \in Closers : CloserNext(c)
    BY <1>2, <1>6 DEF CloserNext, CloseCall, CloseLocked, CloseJoin, CloseReturn, callerVars,
                      queueVars, Begun
  <1>7. CASE WriterNext
    BY <1>2, <1>7 DEF WriterNext, WriterRecv, WriteSilently, DispatchCommit, DropCommit, BatchWritten,
                      RunControl, SendBarrier, BarrierReached, WriterExit, callerVars, queueVars, Begun
  <1>8. CASE DeliveryNext
    BY <1>2, <1>8 DEF DeliveryNext, TakePending, TakeJob, Collect, StopCollecting, Deliver,
                      DeliveryExit, callerVars, queueVars, Begun
  <1>9. CASE Done \/ UNCHANGED vars
    BY <1>2, <1>9 DEF Done, vars, callerVars, queueVars, Begun
  <1>10. QED
    BY <1>4, <1>5, <1>6, <1>7, <1>8, <1>9 DEF Next

\* The state of the stream, read out of the pipeline.
Buffered == BatchesIn(cur \o queue)
Events == BatchesIn(jobs \o pending \o commitCh)
StreamStays == UNCHANGED <<Phase, Buffered, Events, delivered>>

\* A message taken from the head of a channel.
LEMMA BatchesHead ==
  ASSUME NEW s \in Seq(Msg), s # <<>>
  PROVE  /\ s = <<Head(s)>> \o Tail(s) /\ <<Head(s)>> \in Seq(Msg) /\ Tail(s) \in Seq(Msg)
         /\ BatchesIn(s) = BatchesIn(<<Head(s)>>) \o BatchesIn(Tail(s))
  <1>1. Head(s) \in Msg /\ Tail(s) \in Seq(Msg)
    BY HeadTailProperties, TailAt
  <1>2. <<Head(s)>> \in Seq(Msg)
    BY <1>1
  <1>3. s = <<Head(s)>> \o Tail(s)
    BY <1>1, SMT
  <1>4. QED
    BY <1>1, <1>2, <1>3, BatchesConcat

\* The phase of the stream depends on Close alone.
LEMMA PhaseStays ==
  ASSUME UNCHANGED closed, \A c \in Closers : closerPc'[c] = "returned" <=> closerPc[c] = "returned"
  PROVE  Phase' = Phase
  BY DEF Phase

\* While a caller sends, the stream is open.
LEMMA OpenPhase ==
  ASSUME DrainInv, ~closed
  PROVE  Phase = "open" /\ \A c \in Closers : closerPc[c] \notin {"commitJoin", "returned"}
  <1>1. writerPc # "exited" /\ ~commitClosed
    BY DEF DrainInv, WriterKeeps, LockInv, NoSendOnClosed
  <1>2. QED
    BY <1>1 DEF DrainInv, CloserKeeps, Phase

\* A caller's step: only a batch that the queue takes is seen, as an Accept.
LEMMA CallerStream ==
  ASSUME StreamInv, NEW c \in Callers, CallerNext(c)
  PROVE  \/ StreamStays
         \/ /\ Phase = "open"
            /\ \E m \in [id : 1..MaxCalls, kind : Signals] : Buffered' = Append(Buffered, m)
            /\ UNCHANGED <<Phase, Events, delivered>>
  <1> USE DEF StreamInv
  <1>1. /\ UNCHANGED <<closed, cur, jobs, pending, commitCh, delivered>>
        /\ closerPc' = closerPc
    BY DEF CallerNext, Call, RLock, CheckClosed, TrySend, BlockingSend, CallReturn, GiveUp,
           writerVars, deliveryVars
  <1>2. Phase' = Phase /\ Events' = Events /\ delivered' = delivered
    BY <1>1, PhaseStays DEF Events
  <1>3. CASE queue' = queue
    BY <1>1, <1>2, <1>3 DEF StreamStays, Buffered
  <1>4. CASE Put(c) /\ callerPc[c] = "send" /\ (c \in Producers <=> TrySend(c))
    <2> DEFINE m == [id |-> nextId, kind |-> call[c].op]
    <2>1. LockInv /\ cur \in Seq(Msg) /\ queue \in Seq(Msg)
      BY DEF DrainInv, LockInv, TypeOK, QueueTyped, WriterTyped
    <2>2. m \in Msg /\ queue' = Append(queue, m) /\ m.kind = call[c].op /\ m.kind \in OpsOf(c)
      BY <1>4, <2>1, PutTyped DEF Put, LockInv, CallOK
    <2>3. m.id \in 1..MaxCalls
      <3>1. c \in Begun /\ Begun # {}
        BY <1>4 DEF Begun
      <3>2. Cardinality(Begun) \in Nat /\ Cardinality(Begun) # 0
        BY <3>1, FS_CardinalityType, FS_EmptySet DEF CountInv
      <3>3. nextId \in Nat \ {0} /\ calls \in Nat
        BY DEF DrainInv, LockInv, TypeOK, CallersTyped, QueueTyped
      <3>4. QED
        BY <3>2, <3>3 DEF CountInv
    <2>4. cur \o queue \in Seq(Msg) /\ cur' \o queue' = Append(cur \o queue, m)
      <3> HIDE DEF m
      <3>1. cur \o queue \in Seq(Msg)
        BY <2>1, ConcatProperties
      <3>2. cur \o Append(queue, m) = Append(cur \o queue, m)
        BY <2>1, <2>2, SMT
      <3>3. QED
        BY <1>1, <2>2, <3>1, <3>2
    <2>5. Buffered' = IF IsBatch(m) THEN Append(Buffered, m) ELSE Buffered
      BY <2>2, <2>4, BatchesAppend DEF Buffered
    <2>6. CASE IsBatch(m)
      <3>1. c \in Producers
        BY <2>2, <2>6 DEF IsBatch, OpsOf
      <3>2. Phase = "open"
        BY <1>4, OpenPhase DEF DrainInv, LockInv, NoSendOnClosed
      <3>3. m \in [id : 1..MaxCalls, kind : Signals]
        BY <2>2, <2>3, <2>6 DEF IsBatch
      <3>4. QED
        BY <1>2, <2>5, <2>6, <3>2, <3>3
    <2>7. CASE ~IsBatch(m)
      BY <1>2, <2>5, <2>7 DEF StreamStays
    <2>8. QED
      BY <2>6, <2>7
  <1>5. QED
    BY <1>3, <1>4 DEF CallerNext, Call, RLock, CheckClosed, TrySend, BlockingSend, CallReturn,
                      GiveUp, queueVars

\* The Close that sets the flag is Stop, the first that returns is Finish.
LEMMA CloserStream ==
  ASSUME StreamInv, NEW c \in Closers, CloserNext(c)
  PROVE  \/ StreamStays
         \/ /\ Phase = "open" /\ Phase' = "draining"
            /\ UNCHANGED <<Buffered, Events, delivered>>
         \/ /\ Phase = "draining" /\ Buffered = <<>> /\ Events = <<>> /\ Phase' = "closed"
            /\ UNCHANGED <<Buffered, Events, delivered>>
  <1> USE DEF StreamInv
  <1>1. UNCHANGED <<queue, cur, jobs, pending, commitCh, delivered>>
    BY DEF CloserNext, CloseCall, CloseLocked, CloseJoin, CloseReturn, queueVars, writerVars,
           deliveryVars
  <1>2. Buffered' = Buffered /\ Events' = Events /\ delivered' = delivered
    BY <1>1 DEF Buffered, Events
  <1>3. closerPc \in [Closers -> {"idle", "lock", "join", "commitJoin", "returned", "noop"}] /\ closed \in BOOLEAN
    BY DEF DrainInv, LockInv, TypeOK, CallersTyped, QueueTyped
  <1>4. CASE CloseCall(c) \/ CloseJoin(c) \/ (CloseLocked(c) /\ closed)
    <2>1. closed' = closed /\ \A d \in Closers : closerPc'[d] = "returned" <=> closerPc[d] = "returned"
      BY <1>3, <1>4 DEF CloseCall, CloseJoin, CloseLocked
    <2>2. Phase' = Phase
      BY <2>1, PhaseStays
    <2>3. QED
      BY <1>2, <2>2 DEF StreamStays
  <1>5. CASE CloseLocked(c) /\ ~closed
    <2>1. Phase = "open" /\ \A d \in Closers : closerPc[d] # "returned"
      BY <1>5, OpenPhase
    <2>2. closed' /\ \A d \in Closers : closerPc'[d] # "returned"
      BY <1>3, <1>5, <2>1 DEF CloseLocked
    <2>3. Phase' = "draining"
      BY <2>2 DEF Phase
    <2>4. QED
      BY <1>2, <2>1, <2>3
  <1>6. CASE CloseReturn(c)
    <2>1. closerPc[c] = "commitJoin" /\ deliveryPc = "exited" /\ closerPc'[c] = "returned"
      BY <1>3, <1>6 DEF CloseReturn
    <2>2. closed /\ queue = <<>> /\ writerPc = "exited" /\ commitClosed
      BY <2>1 DEF DrainInv, CloserKeeps, WriterKeeps, LockInv, NoSendOnClosed
    <2>3. cur = <<>>
      <3>1. cur \in Seq(Msg) /\ Len(cur) = 0
        BY <2>2 DEF DrainInv, LockInv, TypeOK, WriterTyped
      <3>2. QED
        BY <3>1, EmptySeq
    <2>4. jobs = <<>> /\ pending = <<>> /\ commitCh = <<>>
      BY <2>1 DEF DrainInv, DeliveryKeeps, JobsInv
    <2>5. <<>> \o <<>> = <<>>
      OBVIOUS
    <2>6. Buffered = <<>>
      BY <2>2, <2>3, <2>5, BatchesEmpty DEF Buffered
    <2>7. Events = <<>>
      BY <2>4, <2>5, BatchesEmpty DEF Events
    <2>8. Phase' = "closed" /\ Phase \in {"draining", "closed"}
      BY <2>1, <2>2 DEF Phase
    <2>9. QED
      BY <1>2, <2>6, <2>7, <2>8 DEF StreamStays
  <1>7. QED
    BY <1>4, <1>5, <1>6 DEF CloserNext

\* The writer: a batch it has finished with is a Process, with an event or
\* without; control messages are not seen.
LEMMA WriterStream ==
  ASSUME StreamInv, WriterNext
  PROVE  \/ StreamStays
         \/ /\ Buffered # <<>> /\ Buffered' = Tail(Buffered)
            /\ Events' \in {Events, Append(Events, Head(Buffered))}
            /\ UNCHANGED <<Phase, delivered>>
  <1> USE DEF StreamInv
  <1>1. /\ cur \in Seq(Msg) /\ queue \in Seq(Msg) /\ commitCh \in Seq(Msg)
        /\ jobs \in Seq(Msg) /\ pending \in Seq(Msg)
        /\ Len(cur) = (IF writerPc \in {"busy", "barrier"} THEN 1 ELSE 0)
    BY DEF DrainInv, LockInv, TypeOK, QueueTyped, WriterTyped, CommitTyped, DeliveryTyped
  <1>2. UNCHANGED <<closed, closerPc, jobs, pending, delivered>>
    BY DEF WriterNext, WriterRecv, WriteSilently, DispatchCommit, DropCommit, BatchWritten,
           RunControl, SendBarrier, BarrierReached, WriterExit, deliveryVars
  <1>3. Phase' = Phase /\ delivered' = delivered
    BY <1>2, PhaseStays
  <1>4. writerPc \in {"busy", "barrier"} => cur = <<cur[1]>> /\ cur[1] \in Msg
    BY <1>1, IdsTyped, SMT DEF DrainInv
  <1>5. CASE WriterRecv
    <2>1. /\ queue # <<>> /\ cur' = <<Head(queue)>> /\ queue' = Tail(queue) /\ commitCh' = commitCh
          /\ writerPc = "recv"
      BY <1>5 DEF WriterRecv
    <2>2. cur = <<>>
      <3>1. Len(cur) = 0
        BY <1>1, <2>1
      <3>2. QED
        BY <1>1, <3>1, EmptySeq
    <2>3. cur \o queue = queue /\ cur' \o queue' = queue
      BY <1>1, <2>1, <2>2, BatchesHead, ConcatEmptySeq
    <2>4. Buffered' = Buffered /\ Events' = Events
      BY <1>2, <2>1, <2>3 DEF Buffered, Events
    <2>5. QED
      BY <1>3, <2>4 DEF StreamStays
  <1>6. CASE WriterExit
    BY <1>2, <1>3, <1>6 DEF WriterExit, StreamStays, Buffered, Events, queueVars
  <1>7. ASSUME writerPc \in {"busy", "barrier"}
        PROVE  Buffered = BatchesIn(<<cur[1]>>) \o BatchesIn(queue) /\ BatchesIn(queue) \in Seq(Msg)
    BY <1>1, <1>4, <1>7, BatchesConcat DEF Buffered
  <1>8. ASSUME cur' = <<>>, queue' = queue PROVE Buffered' = BatchesIn(queue)
    BY <1>1, <1>8, ConcatEmptySeq DEF Buffered
  <1>9. ASSUME commitCh' = Append(commitCh, cur[1]), cur[1] \in Msg
        PROVE  Events' = IF IsBatch(cur[1]) THEN Append(Events, cur[1]) ELSE Events
    <2>1. jobs \o pending \o commitCh \in Seq(Msg) /\ jobs \o pending \in Seq(Msg)
      BY <1>1, ConcatProperties
    <2> DEFINE front == jobs \o pending
    <2> HIDE DEF front
    <2>2. front \in Seq(Msg) => front \o Append(commitCh, cur[1]) = Append(front \o commitCh, cur[1])
      BY <1>1, <1>9, SMT
    <2>3. jobs' \o pending' \o commitCh' = Append(jobs \o pending \o commitCh, cur[1])
      BY <1>2, <1>9, <2>1, <2>2 DEF front
    <2>4. QED
      BY <1>9, <2>1, <2>3, BatchesAppend DEF Events
  <1>10. CASE BatchWritten /\ (WriteSilently \/ DropCommit \/ DispatchCommit)
    <2>1. writerPc = "busy" /\ IsBatch(cur[1]) /\ cur' = <<>> /\ queue' = queue
      BY <1>10 DEF BatchWritten, IsBatch, queueVars
    <2>2. Buffered = <<cur[1]>> \o BatchesIn(queue) /\ Buffered' = BatchesIn(queue)
      BY <1>4, <1>7, <1>8, <2>1, BatchesOne
    <2>3. Buffered # <<>> /\ Buffered' = Tail(Buffered) /\ Head(Buffered) = cur[1]
      <3> DEFINE q == BatchesIn(queue)
                 m == cur[1]
      <3>1. q \in Seq(Msg) /\ m \in Msg
        BY <1>4, <1>7, <2>1
      <3> HIDE DEF q, m
      <3>2. <<m>> \o q # <<>> /\ Tail(<<m>> \o q) = q /\ Head(<<m>> \o q) = m
        BY <3>1, SMT
      <3>3. QED
        BY <2>2, <3>2 DEF q, m
    <2>4. Events' \in {Events, Append(Events, cur[1])}
      <3>1. CASE commitCh' = commitCh
        BY <1>2, <3>1 DEF Events
      <3>2. CASE DispatchCommit
        BY <1>4, <1>9, <2>1, <3>2 DEF DispatchCommit
      <3>3. QED
        BY <1>10, <3>1, <3>2 DEF WriteSilently, DropCommit
    <2>5. QED
      BY <1>3, <2>3, <2>4
  <1>11. CASE RunControl \/ BarrierReached
    <2>1. /\ writerPc \in {"busy", "barrier"} /\ cur[1].kind \in {"sync", "sweep", "clear"}
          /\ cur' = <<>> /\ queue' = queue /\ commitCh' = commitCh
      BY <1>11 DEF RunControl, BarrierReached, Reply, queueVars, DrainInv, WriterKeeps
    <2>2. ~IsBatch(cur[1])
      BY <2>1 DEF IsBatch
    <2>3. Buffered' = Buffered
      BY <1>4, <1>7, <1>8, <2>1, <2>2, BatchesOne, ConcatEmptySeq
    <2>4. Events' = Events
      BY <1>2, <2>1 DEF Events
    <2>5. QED
      BY <1>3, <2>3, <2>4 DEF StreamStays
  <1>12. CASE SendBarrier
    <2>1. /\ writerPc = "busy" /\ cur[1].kind = "sync" /\ commitCh' = Append(commitCh, cur[1])
          /\ cur' = cur /\ queue' = queue
      BY <1>12 DEF SendBarrier, queueVars
    <2>2. ~IsBatch(cur[1])
      BY <2>1 DEF IsBatch
    <2>3. Events' = Events
      BY <1>4, <1>9, <2>1, <2>2
    <2>4. QED
      BY <1>3, <2>1, <2>3 DEF StreamStays, Buffered
  <1>13. QED
    BY <1>5, <1>6, <1>10, <1>11, <1>12 DEF WriterNext, WriteSilently, DropCommit, DispatchCommit

\* The sequence that a callback takes the first events of.
LEMMA FrontAndRest ==
  ASSUME NEW a \in Seq(Msg), NEW b \in Seq(Msg), a # <<>>
  PROVE  /\ Len(a) \in 1..Len(a \o b)
         /\ SubSeq(a \o b, 1, Len(a)) = a
         /\ SubSeq(a \o b, Len(a) + 1, Len(a \o b)) = b
         /\ \A i \in 1..Len(a) : (a \o b)[i] = a[i]
  <1> DEFINE s == a \o b
             n == Len(a)
             k == Len(b)
  <1>1. /\ s \in Seq(Msg) /\ Len(s) = n + k
        /\ \A i \in 1..(n + k) : s[i] = IF i <= n THEN a[i] ELSE b[i - n]
    BY ConcatProperties
  <1>2. n \in Nat \ {0} /\ k \in Nat
    BY EmptySeq, LenProperties
  <1>3. /\ \A i \in 1..n : s[i] = a[i] /\ s[i] \in Msg
        /\ \A i \in (n + 1)..(n + k) : s[i] = b[i - n] /\ s[i] \in Msg
    <2>1. \A i \in 1..n : a[i] \in Msg
      BY ElementOfSeq
    <2>2. \A i \in 1..k : b[i] \in Msg
      BY ElementOfSeq
    <2> HIDE DEF s, n, k
    <2>3. ASSUME NEW i \in 1..n PROVE s[i] = a[i] /\ s[i] \in Msg
      BY <1>1, <1>2, <2>1
    <2>4. ASSUME NEW i \in (n + 1)..(n + k) PROVE s[i] = b[i - n] /\ s[i] \in Msg
      <3>1. i \in 1..(n + k) /\ ~(i <= n) /\ i - n \in 1..k
        BY <1>2
      <3>2. QED
        BY <1>1, <2>2, <3>1
    <2>5. QED
      BY <2>3, <2>4
  <1> HIDE DEF s
  <1>4. SubSeq(s, 1, n) = a
    <2>1. /\ SubSeq(s, 1, n) \in Seq(Msg)
          /\ Len(SubSeq(s, 1, n)) = IF 1 <= n THEN n - 1 + 1 ELSE 0
          /\ \A i \in 1..(n - 1 + 1) : SubSeq(s, 1, n)[i] = s[1 + i - 1]
      BY <1>2, <1>3, SubSeqProperties
    <2>2. Len(SubSeq(s, 1, n)) = n
      BY <1>2, <2>1
    <2>3. ASSUME NEW i \in 1..Len(SubSeq(s, 1, n)) PROVE SubSeq(s, 1, n)[i] = a[i]
      <3>1. i \in 1..n /\ i \in 1..(n - 1 + 1) /\ 1 + i - 1 = i
        BY <1>2, <2>2
      <3>2. QED
        BY <1>3, <2>1, <3>1
    <2>4. QED
      BY <2>1, <2>2, <2>3, SeqEqual
  <1>5. SubSeq(s, n + 1, n + k) = b
    <2> DEFINE t == SubSeq(s, n + 1, n + k)
    <2>1. /\ t \in Seq(Msg)
          /\ Len(t) = IF n + 1 <= n + k THEN (n + k) - (n + 1) + 1 ELSE 0
          /\ \A i \in 1..((n + k) - (n + 1) + 1) : t[i] = s[(n + 1) + i - 1]
      BY <1>2, <1>3, SubSeqProperties
    <2> HIDE DEF t
    <2>2. Len(t) = k
      BY <1>2, <2>1
    <2>3. ASSUME NEW i \in 1..Len(t) PROVE t[i] = b[i]
      <3>1. i \in 1..((n + k) - (n + 1) + 1) /\ (n + 1) + i - 1 \in (n + 1)..(n + k) /\ ((n + 1) + i - 1) - n = i
        BY <1>2, <2>2
      <3>2. QED
        BY <1>3, <2>1, <3>1
    <2>4. QED
      BY <2>1, <2>2, <2>3, SeqEqual DEF t
  <1>6. n \in 1..Len(s)
    BY <1>1, <1>2
  <1>7. QED
    BY <1>1, <1>3, <1>4, <1>5, <1>6 DEF s

\* runCommits: taking, collecting and pushing back jobs is not seen, a
\* callback is a Deliver.
LEMMA DeliveryStream ==
  ASSUME StreamInv, DeliveryNext
  PROVE  \/ StreamStays
         \/ /\ \E n \in 1..Len(Events) :
                  /\ n > 1 => n <= MetricBatchSize /\ \A i \in 1..n : Events[i].kind = "metrics"
                  /\ delivered' = delivered \o SubSeq(Events, 1, n)
                  /\ Events' = SubSeq(Events, n + 1, Len(Events))
            /\ UNCHANGED <<Phase, Buffered>>
  <1> USE DEF StreamInv
  <1>1. /\ commitCh \in Seq(Msg) /\ jobs \in Seq(Msg) /\ pending \in Seq(Msg) /\ Len(pending) <= 1
        /\ delivered \in Seq(Msg) /\ Len(jobs) <= MetricBatchSize
        /\ deliveryPc = "recv" => jobs = <<>>
        /\ deliveryPc = "collect" => pending = <<>>
    BY DEF DrainInv, LockInv, TypeOK, CommitTyped, DeliveryTyped, DeliveryKeeps
  <1>2. UNCHANGED <<closed, closerPc, queue, cur>>
    BY DEF DeliveryNext, TakePending, TakeJob, Collect, StopCollecting, Deliver, DeliveryExit,
           queueVars, writerVars
  <1>3. Phase' = Phase /\ Buffered' = Buffered
    BY <1>2, PhaseStays DEF Buffered
  <1>4. ASSUME Events' = Events, delivered' = delivered PROVE StreamStays
    BY <1>3, <1>4 DEF StreamStays
  <1>5. CASE StopCollecting \/ DeliveryExit
    BY <1>4, <1>5 DEF StopCollecting, DeliveryExit, Events
  <1>6. CASE TakePending
    <2>1. /\ jobs = <<>> /\ pending # <<>> /\ pending' = <<>> /\ StartJob(pending[1])
          /\ commitCh' = commitCh /\ delivered' = delivered /\ deliveryPc = "recv"
      BY <1>1, <1>6 DEF TakePending
    <2>2. Len(pending) = 1 /\ pending[1] \in Msg /\ pending = <<pending[1]>>
      BY <1>1, <2>1, OneLong, SMT
    <2>3. pending[1].kind \in Signals \cup {"sync"}
      BY <2>2 DEF JobsInv
    <2>4. jobs' = BatchesIn(pending)
      BY <2>1, <2>2, <2>3, StartedJob, BatchesOne
    <2>5. jobs' \in Seq(Msg) /\ BatchesIn(jobs') = jobs'
      <3>1. \A m \in Msg : <<m>> \in Seq(Msg)
        OBVIOUS
      <3>2. BatchesIn(pending) \in Seq(Msg)
        BY <1>1, BatchesConcat
      <3>3. QED
        BY <2>1, <2>2, <2>3, <2>4, <3>2, StartedJob, BatchesOne, BatchesEmpty
    <2>6. Events = jobs' \o BatchesIn(commitCh)
      <3>1. BatchesIn(<<>> \o pending \o commitCh) = BatchesIn(pending) \o BatchesIn(commitCh)
        BY <1>1, BatchesConcat, ConcatEmptySeq
      <3>2. QED
        BY <2>1, <2>4, <3>1 DEF Events
    <2>7. Events' = jobs' \o BatchesIn(commitCh)
      <3>1. BatchesIn(jobs' \o <<>> \o commitCh) = BatchesIn(jobs') \o BatchesIn(commitCh)
        BY <1>1, <2>5, BatchesConcat, ConcatEmptySeq
      <3>2. QED
        BY <2>1, <2>5, <3>1 DEF Events
    <2>8. QED
      BY <1>4, <2>1, <2>6, <2>7
  <1>7. CASE TakeJob
    <2> DEFINE h == Head(commitCh)
               r == Tail(commitCh)
    <2>1. /\ jobs = <<>> /\ pending = <<>> /\ commitCh # <<>> /\ commitCh' = r /\ StartJob(h)
          /\ pending' = <<>> /\ delivered' = delivered /\ deliveryPc = "recv"
      BY <1>1, <1>7 DEF TakeJob
    <2>2. /\ h = commitCh[1] /\ h \in Msg /\ Len(commitCh) \in Nat \ {0}
          /\ r \in Seq(Msg) /\ <<h>> \in Seq(Msg)
          /\ BatchesIn(commitCh) = BatchesIn(<<h>>) \o BatchesIn(r)
      BY <1>1, <2>1, TailAt, BatchesHead
    <2>3. h.kind \in Signals \cup {"sync"}
      <3>1. 1 \in 1..Len(commitCh)
        BY <2>2
      <3>2. QED
        BY <2>2, <3>1 DEF JobsInv
    <2> HIDE DEF h, r
    <2>4. jobs' = BatchesIn(<<h>>) /\ jobs' \in Seq(Msg) /\ BatchesIn(jobs') = jobs'
      <3>1. BatchesIn(<<h>>) \in Seq(Msg)
        BY <2>2, BatchesConcat
      <3>2. QED
        BY <2>1, <2>2, <2>3, <3>1, StartedJob, BatchesOne, BatchesEmpty
    <2>5. Events = jobs' \o BatchesIn(r)
      <3>1. <<>> \o <<>> \o commitCh = commitCh
        BY <1>1, SMT
      <3>2. QED
        BY <2>1, <2>2, <2>4, <3>1 DEF Events
    <2>6. Events' = jobs' \o BatchesIn(r)
      <3>1. BatchesIn(jobs' \o <<>> \o r) = BatchesIn(jobs') \o BatchesIn(r)
        <4>1. jobs' \o <<>> = jobs'
          BY <2>4, ConcatEmptySeq
        <4>2. BatchesIn(jobs' \o r) = BatchesIn(jobs') \o BatchesIn(r)
          BY <2>2, <2>4, BatchesConcat
        <4>3. QED
          BY <4>1, <4>2
      <3>2. QED
        BY <2>1, <2>4, <3>1 DEF Events
    <2>7. QED
      BY <1>4, <2>1, <2>5, <2>6
  <1>8. CASE Collect
    <2> DEFINE h == Head(commitCh)
               r == Tail(commitCh)
    <2>1. /\ pending = <<>> /\ commitCh # <<>> /\ commitCh' = r /\ delivered' = delivered
          /\ \/ jobs' = Append(jobs, h) /\ pending' = <<>>
             \/ jobs' = jobs /\ pending' = <<h>>
      BY <1>1, <1>8 DEF Collect
    <2>2. h \in Msg /\ r \in Seq(Msg) /\ <<h>> \in Seq(Msg) /\ commitCh = <<h>> \o r
      BY <1>1, <2>1, TailAt, BatchesHead
    <2> HIDE DEF h, r
    <2>3. jobs \o <<>> \o (<<h>> \o r) = jobs \o <<h>> \o r
      BY <1>1, <2>2, SMT
    <2>4. jobs' \o pending' \o commitCh' = jobs \o <<h>> \o r
      <3>1. CASE jobs' = Append(jobs, h) /\ pending' = <<>>
        <4>1. Append(jobs, h) \o <<>> \o r = jobs \o <<h>> \o r
          BY <1>1, <2>2, SMT
        <4>2. QED
          BY <2>1, <3>1, <4>1
      <3>2. CASE jobs' = jobs /\ pending' = <<h>>
        BY <2>1, <3>2
      <3>3. QED
        BY <2>1, <3>1, <3>2
    <2>5. jobs \o pending \o commitCh = jobs \o <<h>> \o r
      BY <2>1, <2>2, <2>3
    <2>6. Events' = Events
      BY <2>4, <2>5 DEF Events
    <2>7. QED
      BY <1>4, <2>1, <2>6
  <1>9. CASE Deliver
    <2> DEFINE rest == BatchesIn(pending) \o BatchesIn(commitCh)
    <2>1. delivered' = delivered \o jobs /\ jobs' = <<>> /\ UNCHANGED <<pending, commitCh>>
      BY <1>9 DEF Deliver
    <2>2. BatchesIn(jobs) = jobs
      BY <1>1, BatchesAll DEF JobsInv
    <2>3. BatchesIn(pending) \in Seq(Msg) /\ BatchesIn(commitCh) \in Seq(Msg) /\ rest \in Seq(Msg)
      BY <1>1, BatchesConcat, ConcatProperties
    <2>4. Events = jobs \o rest
      <3>1. Events = jobs \o BatchesIn(pending) \o BatchesIn(commitCh)
        <4>1. BatchesIn(jobs \o pending \o commitCh)
                = BatchesIn(jobs) \o BatchesIn(pending) \o BatchesIn(commitCh)
          <5>1. jobs \o pending \in Seq(Msg)
            BY <1>1, ConcatProperties
          <5>2. BatchesIn((jobs \o pending) \o commitCh) = BatchesIn(jobs \o pending) \o BatchesIn(commitCh)
            BY <1>1, <5>1, BatchesConcat
          <5>3. BatchesIn(jobs \o pending) = BatchesIn(jobs) \o BatchesIn(pending)
            BY <1>1, BatchesConcat
          <5>4. QED
            BY <5>2, <5>3, Zenon
        <4>2. QED
          BY <2>2, <4>1, Zenon DEF Events
      <3> DEFINE x == BatchesIn(pending)
                 y == BatchesIn(commitCh)
      <3> HIDE DEF x, y
      <3>2. x \in Seq(Msg) /\ y \in Seq(Msg) => jobs \o x \o y = jobs \o (x \o y)
        BY <1>1, SMT
      <3>3. QED
        BY <2>3, <3>1, <3>2 DEF x, y
    <2>5. Events' = rest
      <3>1. <<>> \o pending = pending
        BY <1>1, ConcatEmptySeq
      <3>2. BatchesIn(pending \o commitCh) = rest
        BY <1>1, BatchesConcat
      <3>3. QED
        BY <2>1, <3>1, <3>2 DEF Events
    <2> HIDE DEF rest
    <2>6. CASE jobs = <<>>
      BY <1>1, <1>4, <2>1, <2>3, <2>4, <2>5, <2>6, ConcatEmptySeq
    <2>7. CASE jobs # <<>>
      <3>1. /\ Len(jobs) \in 1..Len(Events)
            /\ SubSeq(Events, 1, Len(jobs)) = jobs
            /\ SubSeq(Events, Len(jobs) + 1, Len(Events)) = rest
            /\ \A i \in 1..Len(jobs) : Events[i] = jobs[i]
        BY <1>1, <2>3, <2>4, <2>7, FrontAndRest
      <3>2. Len(jobs) > 1 => Len(jobs) <= MetricBatchSize /\ \A i \in 1..Len(jobs) : Events[i].kind = "metrics"
        BY <1>1, <3>1 DEF JobsInv
      <3>3. QED
        BY <1>3, <2>1, <2>5, <3>1, <3>2
    <2>8. QED
      BY <2>6, <2>7
  <1>10. QED
    BY <1>5, <1>6, <1>7, <1>8, <1>9 DEF DeliveryNext

\* All parts hold at the start.
LEMMA StreamInvInit == Init => StreamInv
  <1> SUFFICES ASSUME Init PROVE StreamInv
    OBVIOUS
  <1>1. JobsInv
    BY DEF Init, JobsInv
  <1>2. Begun = {}
    BY DEF Init, Begun
  <1>3. CountInv
    BY <1>2, FS_EmptySet DEF Init, CountInv
  <1>4. QED
    BY <1>1, <1>3, DrainInit DEF StreamInv

\* All parts together are inductive.
LEMMA StreamInvNext == StreamInv /\ [Next]_vars => StreamInv'
  BY DrainNext, JobsNext, CountNext DEF StreamInv

\* Every step of the pipeline is a step of the stream, or is not seen there.
LEMMA StreamStep == StreamInv /\ [Next]_vars => [Abs!Next]_(Abs!vars)
  <1> SUFFICES ASSUME StreamInv, [Next]_vars PROVE [Abs!Next]_(Abs!vars)
    OBVIOUS
  <1>1. StreamStays => UNCHANGED Abs!vars
    BY DEF StreamStays, Buffered, Events, Abs!vars
  <1>2. ASSUME NEW c \in Callers, CallerNext(c) PROVE [Abs!Next]_(Abs!vars)
    BY <1>1, <1>2, CallerStream DEF Abs!Next, Abs!Accept, Buffered, Events
  <1>3. ASSUME NEW c \in Closers, CloserNext(c) PROVE [Abs!Next]_(Abs!vars)
    BY <1>1, <1>3, CloserStream DEF Abs!Next, Abs!Stop, Abs!Finish, Buffered, Events
  <1>4. CASE WriterNext
    BY <1>1, <1>4, WriterStream DEF Abs!Next, Abs!Process, Buffered, Events
  <1>5. CASE DeliveryNext
    <2>1. CASE StreamStays
      BY <1>1, <2>1
    <2>2. ASSUME NEW n \in 1..Len(Events),
                 n > 1 => n <= MetricBatchSize /\ \A i \in 1..n : Events[i].kind = "metrics",
                 delivered' = delivered \o SubSeq(Events, 1, n),
                 Events' = SubSeq(Events, n + 1, Len(Events)),
                 UNCHANGED <<Phase, Buffered>>
          PROVE  [Abs!Next]_(Abs!vars)
      <3>1. Len(Events) \in Nat
        <4>1. Events \in Seq(Msg)
          <5>1. jobs \o pending \o commitCh \in Seq(Msg)
            BY ConcatProperties DEF StreamInv, DrainInv, LockInv, TypeOK, CommitTyped, DeliveryTyped
          <5>2. QED
            BY <5>1, BatchesConcat DEF Events
        <4>2. QED
          BY <4>1, LenProperties
      <3>2. n <= Len(Events)
        BY <3>1
      <3>3. Abs!Deliver(n)
        BY <2>2, <3>2 DEF Abs!Deliver, Buffered, Events
      <3>4. Abs!Next
        BY <3>3 DEF Abs!Next, Events
      <3>5. QED
        BY <3>4
    <2>3. QED
      BY <1>5, <2>1, <2>2, DeliveryStream
  <1>6. CASE SweepLoopExit \/ Done \/ UNCHANGED vars
    <2>1. UNCHANGED <<closed, closerPc, cur, queue, jobs, pending, commitCh, delivered>>
      BY <1>6 DEF SweepLoopExit, Done, vars, queueVars, writerVars, deliveryVars
    <2>2. StreamStays
      BY <2>1, PhaseStays DEF StreamStays, Buffered, Events
    <2>3. QED
      BY <1>1, <2>2
  <1>7. QED
    BY <1>2, <1>3, <1>4, <1>5, <1>6 DEF Next

\* For any callers, capacities and batch size, the goroutines, channels and
\* locks of storage.go implement the safety part of the stream that its doc
\* comments promise: batches are processed once and in the order the queue took
\* them, the listener gets their events in that order and none twice, and a
\* closed storage accepts nothing and has left nothing behind.
THEOREM PipelineImplementsStream == Spec => Abs!Safety
  <1>1. Init => Abs!Init
    <2> SUFFICES ASSUME Init PROVE Abs!Init
      OBVIOUS
    <2>1. <<>> \o <<>> = <<>>
      OBVIOUS
    <2>2. BatchesIn(cur \o queue) = <<>> /\ BatchesIn(jobs \o pending \o commitCh) = <<>>
      BY <2>1, BatchesEmpty DEF Init
    <2>3. Phase = "open" /\ delivered = <<>>
      BY DEF Init, Phase
    <2>4. QED
      BY <2>2, <2>3 DEF Abs!Init
  <1>2. QED
    BY <1>1, StreamInvInit, StreamInvNext, StreamStep, PTL DEF Spec, Abs!Safety
====
