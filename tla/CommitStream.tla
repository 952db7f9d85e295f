---- MODULE CommitStream ----
(***************************************************************************)
(* What internal/storage promises about ingest, without its goroutines:    *)
(* batches wait in the order they were accepted, each is processed once    *)
(* and may yield a commit event, events reach the listener in commit order *)
(* (one at a time, or a run of at most MetricBatchSize metric events), and *)
(* a closed storage has processed and delivered everything it took.  The   *)
(* promises are those of the doc comments of Options.OnCommit,             *)
(* OnCommitBatchFunc and Close in internal/storage/storage.go.             *)
(***************************************************************************)
EXTENDS Integers, Sequences

CONSTANTS
    Batches,         \* the batches that can be accepted, records with a kind
    MetricBatchSize  \* how many metric events one delivery may hold

VARIABLES
    phase,     \* "open", "draining" or "closed"
    buffered,  \* batches accepted and not yet processed, oldest first
    events,    \* commit events not yet delivered, oldest first
    delivered  \* commit events delivered, oldest first

vars == <<phase, buffered, events, delivered>>

Init ==
    /\ phase = "open"
    /\ buffered = <<>>
    /\ events = <<>>
    /\ delivered = <<>>

\* Add accepts a batch (one that is dropped never gets here).
Accept(b) ==
    /\ phase = "open"
    /\ buffered' = Append(buffered, b)
    /\ UNCHANGED <<phase, events, delivered>>

\* The oldest batch is processed; its event may be dropped or not exist.
Process ==
    /\ buffered # <<>>
    /\ buffered' = Tail(buffered)
    /\ events' \in {events, Append(events, Head(buffered))}
    /\ UNCHANGED <<phase, delivered>>

\* One callback: the oldest event, or that many metric events.
Deliver(n) ==
    /\ n <= Len(events)
    /\ n > 1 => /\ n <= MetricBatchSize
                /\ \A i \in 1..n : events[i].kind = "metrics"
    /\ delivered' = delivered \o SubSeq(events, 1, n)
    /\ events' = SubSeq(events, n + 1, Len(events))
    /\ UNCHANGED <<phase, buffered>>

Stop ==
    /\ phase = "open"
    /\ phase' = "draining"
    /\ UNCHANGED <<buffered, events, delivered>>

\* Close returns only when nothing accepted is left behind.
Finish ==
    /\ phase = "draining"
    /\ buffered = <<>>
    /\ events = <<>>
    /\ phase' = "closed"
    /\ UNCHANGED <<buffered, events, delivered>>

Next ==
    \/ \E b \in Batches : Accept(b)
    \/ Process
    \/ \E n \in 1..Len(events) : Deliver(n)
    \/ Stop
    \/ Finish

Fairness ==
    /\ WF_vars(Process)
    /\ WF_vars(\E n \in 1..Len(events) : Deliver(n))
    /\ WF_vars(Finish)

\* What the stream never does, and what it does in the end.
Safety == Init /\ [][Next]_vars

Spec == Safety /\ Fairness
====
