---- MODULE MCMetricView ----
(* Two values of the attribute whose hashes collide are stored already; a   *)
(* late point falls into the fixed window, whose first bucket starts before *)
(* it, and a new one after it.                                              *)
EXTENDS MetricView

MCPoints == {[t |-> 2, a |-> 1], [t |-> 5, a |-> 2]}
MCWindows == {[mode |-> "live", range |-> 2],
              [mode |-> "fixed", from |-> 1, to |-> 5]}
MCLive == {w \in MCWindows : w.mode = "live" /\ w.range = 2}
MCHistory == <<[m |-> "m", t |-> 1, a |-> 1], [m |-> "m", t |-> 3, a |-> 2]>>
MCHash == [i \in {"attr", None} \X (0..2) |-> 1]
====
