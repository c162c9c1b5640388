-------------------------- MODULE MCAsyncTelemetry --------------------------
(* Bounded instance of AsyncTelemetry.  Closers are interchangeable, but    *)
(* symmetry is not used: the run checks liveness.                           *)
EXTENDS AsyncTelemetry
CONSTANTS c1, c2
MCClosers == {c1, c2}
=============================================================================
