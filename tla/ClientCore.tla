----------------------------- MODULE ClientCore -----------------------------
(***************************************************************************)
(* What RedwoodCore (redwoodCore.js) does for every script in a browser:   *)
(* it sends, it follows the replay of the log after a connection, and it   *)
(* keeps the period of every subject.  Its state belongs to one load of    *)
(* one page, so it is a record here, and an operation maps the page before *)
(* to the page after.                                                      *)
(*                                                                         *)
(* Fields of a page p: sync (rw.__sync__.in_progress), reloading           *)
(* (rw.__pending_reload__), isReload (rw.__is_reload__), period            *)
(* (rw.period), periods (rw.periods), queue (rw.__send_queue__), and out,  *)
(* what the present handler has given to the websocket.                    *)
(***************************************************************************)
EXTENDS Messages, Integers, Sequences, SequencesExt

\* A JavaScript variable that has not been assigned; JSON leaves it out, and Go reads 0.
Undefined == -1

OnWire(m) == [m EXCEPT !.period = IF @ = Undefined THEN 0 ELSE @]

(***************************************************************************)
(* convertToMessage, with its arguments filled in.                         *)
(***************************************************************************)
Message(key, sender, period, group, stateUpdate, value) ==
    [key |-> key, sender |-> sender, nonce |-> 1, period |-> period, group |-> group,
     stateUpdate |-> stateUpdate, time |-> 0, value |-> value]

\* Mutant: state updates are queued during a replay like everything else.
AnyIsQueueable(p, me, m) == m.sender = me

(***************************************************************************)
(* What a page may send while the log is replayed to it: nothing that      *)
(* changes a subject's state and nothing on behalf of somebody else.       *)
(***************************************************************************)
IsQueueable(p, me, m) ==
    /\ m.key \notin {"__reset__", "__delete__"} \cup StateKeys
    /\ m.period \in {0, p.period}
    /\ m.sender = me

DefaultSend(p, m) == [p EXCEPT !.out = Append(@, OnWire(m))]

SyncSend(p, me, m) ==
    IF IsQueueable(p, me, m) THEN [p EXCEPT !.queue = Append(@, m)] ELSE p

Send(p, me, m) == IF p.sync THEN SyncSend(p, me, m) ELSE DefaultSend(p, m)

(***************************************************************************)
(* getMsgId: two messages that agree on these fields are the same one.     *)
(***************************************************************************)
SameMsgId(m, n) ==
    /\ m.key = n.key
    /\ m.sender = n.sender
    /\ m.period = n.period
    /\ m.value = n.value

(***************************************************************************)
(* The replay begins; what the script sends is queued from now on.         *)
(***************************************************************************)
QueueStart(p) == [p EXCEPT !.sync = TRUE, !.queue = <<>>]

(***************************************************************************)
(* A message of the replay that the script has sent again is not sent.     *)
(***************************************************************************)
Deduplicate(p, m) ==
    IF p.sync
    THEN [p EXCEPT !.queue = RemoveFirstMatch(@, LAMBDA q : SameMsgId(q, m))]
    ELSE p

\* Mutant: what has been queued is forgotten.
QueueEndEmpty(p, me) ==
    LET loaded == Message("__page_loaded__", me, p.period, 0, FALSE, 0)
        announced == IF p.isReload THEN p ELSE DefaultSend(p, loaded)
    IN  [announced EXCEPT !.sync = FALSE, !.isReload = FALSE]

\* Mutant: a page that was there already does not leave the replay.
QueueEndOpen(p, me) == IF p.isReload THEN p ELSE QueueEndEmpty(p, me)

(***************************************************************************)
(* The replay ends: a page that has not announced itself in this period    *)
(* does so, and then what is left in the queue is sent.                    *)
(***************************************************************************)
QueueEnd(p, me) ==
    LET loaded == Message("__page_loaded__", me, p.period, 0, FALSE, 0)
        announced == IF p.isReload THEN p ELSE DefaultSend(p, loaded)
        cleared == [announced EXCEPT !.sync = FALSE, !.isReload = FALSE]
    IN  [cleared EXCEPT !.out = @ \o p.queue]

(***************************************************************************)
(* The state that __handle_msg__ and the core's own listener keep.  What   *)
(* the listeners of the script do comes after it.                          *)
(***************************************************************************)
CoreSetPeriod(p, me, m) ==
    [p EXCEPT !.periods[m.sender] = m.value,
              !.period = IF m.sender = me THEN m.value ELSE @,
              !.isReload = IF p.sync /\ m.sender = me THEN FALSE ELSE @]

CoreSetPage(p, me, m) ==
    [p EXCEPT !.reloading = @ \/ (~p.sync /\ m.sender = me)]

CorePageLoaded(p, me, m) ==
    [p EXCEPT !.isReload = @ \/ (/\ p.sync
                                 /\ m.sender = me
                                 /\ p.period \in {Undefined, m.period})]
=============================================================================
