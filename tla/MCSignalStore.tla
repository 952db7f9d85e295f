---- MODULE MCSignalStore ----
(***************************************************************************)
(* Small batches for SignalStore, at a scale of two nanoseconds to the     *)
(* microsecond and to the day.  Trace "a" can reach four spans, one more   *)
(* than the limit.  Its roots are equally long to the microsecond; to the  *)
(* nanosecond the one with id 2 is shorter than the other two.  One span   *)
(* of "b" comes twice in a batch.                                          *)
(***************************************************************************)
EXTENDS SignalStore

CONSTANTS x, y, s1, s2, h1

Row(t, i, root, from, to, error, nlinks, r) ==
    [trace |-> t, id |-> i, root |-> root, start |-> from, end |-> to,
     error |-> error, links |-> nlinks, res |-> r]

LateRoot == Row("a", 2, TRUE, 2, 4, FALSE, 0, x)
LongRoot == Row("a", 4, TRUE, 2, 5, FALSE, 0, x)
EarlyRoot == Row("a", 1, TRUE, 0, 3, TRUE, 1, y)
Child == Row("a", 3, FALSE, 0, 4, FALSE, 1, x)
Other == Row("b", 1, FALSE, 2, 2, FALSE, 0, y)
OtherAgain == Row("b", 1, FALSE, 0, 2, TRUE, 1, y)

MCTraceBatches ==
    { [resources |-> <<x>>, spans |-> <<LongRoot, LateRoot>>],
      [resources |-> <<y>>, spans |-> <<EarlyRoot>>],
      [resources |-> <<x, y>>, spans |-> <<Other, Child, OtherAgain>>] }

MCLogBatches ==
    { [resources |-> <<y, x>>, logs |-> {[ts |-> 2, res |-> y], [ts |-> 0, res |-> x]}] }

MCMetricBatches ==
    { [resources |-> <<x>>, series |-> [s \in {s1} |-> x],
       points |-> {[series |-> s1, ts |-> 0, layout |-> h1]}],
      [resources |-> <<y>>, series |-> [s \in {s2} |-> y],
       points |-> {[series |-> s2, ts |-> 2, layout |-> NoLayout]}] }
====
