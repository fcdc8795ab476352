------------------------------ MODULE MCRouter ------------------------------
(***************************************************************************)
(* Small instances of Router for TLC.  ClientKeys says which messages the  *)
(* clients of a run send and Callers who they are; connections are         *)
(* interchangeable.                                                        *)
(***************************************************************************)
EXTENDS Router, TLC

Users == Subjects \cup {"admin"}

Periods == {"__set_period__"}
Everything == {"__set_period__", "__set_config__", "data", "__reset__", "__delete__"}
Resets == {"__set_period__", "__set_group__", "__set_config__", "__reset__"}
ScopeAndConfig == {"__set_group__", "__set_config__", "__reset__"}
PeriodPageReset == {"__set_period__", "__set_page__", "__reset__"}

ConnSymmetry == Permutations(Conns)

(***************************************************************************)
(* Symmetry is not sound for liveness.  Instead one of two connections,    *)
(* each used once, is the first: the one that connects in an earlier life  *)
(* of the process, or the admin's in the same life, or the only one.  Each *)
(* behaviour that this leaves out becomes one that it keeps when the two   *)
(* change places.                                                          *)
(***************************************************************************)
First == CHOOSE c \in Conns : TRUE

Serves(c, n) == conn[c].st \notin {"free", "dead"} /\ conn[c].name = n

FirstIsFirst ==
    \A c \in Conns \ {First} :
        /\ Serves(c, "admin") => Serves(First, "admin") \/ conn[First].st = "dead"
        /\ conn[c].st = "dead" => conn[First].st # "free"
=============================================================================
