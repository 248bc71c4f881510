--------------------------- MODULE MCTraceForward ---------------------------
(***************************************************************************)
(* TraceForward on small sets for TLC.                                     *)
(***************************************************************************)
EXTENDS TraceForwardInv

(* Traces and connections are interchangeable as long as no property fixes *)
(* one; used by the runs that check no liveness.                           *)
Interchangeable == Permutations(Traces) \cup Permutations(Conns)
=============================================================================
