------------------------- MODULE MCAsyncCallManager -------------------------
(***************************************************************************)
(* A small instance of AsyncCallManager for TLC.                           *)
(***************************************************************************)
EXTENDS AsyncCallManager

AllKinds == {"queue", "merge", "last", "rate"}
=============================================================================
