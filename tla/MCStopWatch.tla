---------------------------- MODULE MCStopWatch -----------------------------
(***************************************************************************)
(* A small instance of StopWatch for TLC.                                  *)
(***************************************************************************)
EXTENDS StopWatch
=============================================================================
