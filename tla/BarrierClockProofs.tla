------------------------- MODULE BarrierClockProofs -------------------------
(***************************************************************************)
(* What follows from the abstract clock alone, and so for every stop watch *)
(* that implements it.                                                     *)
(***************************************************************************)
EXTENDS BarrierClock, TLAPS

IInv ==
    /\ arrived \in [Subjects -> Nat]
    /\ NeverApart

(***************************************************************************)
(* However many subjects share a clock and whatever its target, nobody is  *)
(* ever more than one tick ahead of anybody else (the synchronisation      *)
(* barrier of executeTick in synchronizedStopWatch.js).                    *)
(***************************************************************************)
THEOREM ClockKeepsTogether == Spec => []NeverApart
<1>1. Init => IInv
  BY DEF Init, IInv, NeverApart
<1>2. IInv /\ [Next]_arrived => IInv'
  <2> SUFFICES ASSUME IInv, [Next]_arrived PROVE IInv'
    OBVIOUS
  <2>1. CASE UNCHANGED arrived
    BY <2>1 DEF IInv, NeverApart
  <2>2. ASSUME NEW s \in Subjects, Arrive(s) PROVE IInv'
    <3>1. arrived' \in [Subjects -> Nat]
      BY <2>2 DEF IInv, Arrive
    <3>2. ASSUME NEW t \in Subjects, NEW u \in Subjects
          PROVE  arrived'[t] <= arrived'[u] + 1
      <4>1. arrived[t] \in Nat /\ arrived[u] \in Nat /\ arrived[s] \in Nat
        BY DEF IInv
      <4>2. arrived[t] <= arrived[u] + 1 /\ arrived[u] >= arrived[s]
        BY <2>2 DEF IInv, NeverApart, Arrive
      <4>3. /\ arrived'[t] = IF t = s THEN arrived[t] + 1 ELSE arrived[t]
            /\ arrived'[u] = IF u = s THEN arrived[u] + 1 ELSE arrived[u]
        BY <2>2 DEF IInv, Arrive
      <4> QED
        BY <4>1, <4>2, <4>3
    <3> QED
      BY <3>1, <3>2 DEF IInv, NeverApart
  <2> QED
    BY <2>1, <2>2 DEF Next
<1> QED
  BY <1>1, <1>2, PTL DEF Spec, IInv
=============================================================================
