---- MODULE MCWritePipeline ----
(* Model values for the run of WritePipeline.                              *)
EXTENDS WritePipeline

CONSTANTS p1, k1, sweeper, c1, c2

MCProducers == {p1}
MCControllers == {k1}
MCSweepLoop == sweeper
MCClosers == {c1, c2}
MCSignals == {"traces", "metrics"}
====
