---------------------------- MODULE BarrierClock ----------------------------
(***************************************************************************)
(* What the synchronised stop watch (synchronizedStopWatch.js) promises: a *)
(* clock that the subjects drive together.  A subject announces that it    *)
(* has come to a tick only when everybody has announced the tick before,   *)
(* and never takes an announcement back, whatever happens to its page.     *)
(***************************************************************************)
EXTENDS Naturals

CONSTANTS
    Subjects,       \* the subjects of the clock
    Target          \* the last tick; the first is 0

VARIABLE arrived    \* how many ticks each subject has announced

Init == arrived = [s \in Subjects |-> 0]

Arrive(s) ==
    /\ arrived[s] <= Target
    /\ \A t \in Subjects : arrived[t] >= arrived[s]
    /\ arrived' = [arrived EXCEPT ![s] = @ + 1]

Next == \E s \in Subjects : Arrive(s)

Spec == Init /\ [][Next]_arrived

(***************************************************************************)
(* Nobody is more than one tick ahead of anybody else: who runs the clock  *)
(* of executeTick cannot be told a tick that somebody has not come near.   *)
(***************************************************************************)
NeverApart == \A s, t \in Subjects : arrived[s] <= arrived[t] + 1
=============================================================================
