----------------------------- MODULE SessionLog -----------------------------
(***************************************************************************)
(* What the router promises to all who read a session's log: it is written *)
(* at its end, by one epoch after the other, and what has been written     *)
(* stays until a reset begins a newer epoch with an empty log.             *)
(***************************************************************************)
EXTENDS Naturals, Sequences

VARIABLES
    log,            \* the messages
    epoch           \* the epoch in which the log was last emptied

Init == log = << >> /\ epoch = 1

Write ==
    /\ log' # << >>
    /\ LET m == log'[Len(log')]
       IN  /\ log' = Append(log, m)
           /\ m.nonce >= epoch
           /\ \A i \in DOMAIN log : log[i].nonce <= m.nonce
    /\ UNCHANGED epoch

Reset ==
    /\ epoch' > epoch
    /\ log' = << >>

Next == Write \/ Reset

Spec == Init /\ [][Next]_<<log, epoch>>
=============================================================================
