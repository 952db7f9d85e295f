---- MODULE MCTraceView ----
EXTENDS TraceView

Span(parent, start, duration, error, name) ==
    [parent |-> parent, start |-> start, duration |-> duration,
     error |-> error, name |-> name]

\* A root whose branch of two has a sibling, spans not in start order.  The last
\* one ends after the root, within as long of its own start.
Branching == <<Span(0, 1, 4, FALSE, "n"), Span(1, 3, 2, FALSE, "m"),
               Span(2, 4, 2, TRUE, "n"), Span(1, 2, 1, FALSE, "m")>>

\* A chain that arrives from its end: the early spans are orphans at first.
\* Its last span begins before the others.
Backwards == <<Span(2, 2, 0, TRUE, "n"), Span(3, 2, 0, FALSE, "m"),
               Span(4, 1, 3, FALSE, "n"), Span(9, 0, 5, FALSE, "m")>>

\* Two spans that are each other's parent, one below them, and one apart
\* without a duration.
Circle == <<Span(0, 1, 0, FALSE, "n"), Span(3, 1, 2, FALSE, "m"),
            Span(2, 1, 1, TRUE, "m"), Span(3, 2, 1, FALSE, "n")>>

MCTraces == {Branching, Backwards, Circle}
====
