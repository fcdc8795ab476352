------------------------------ MODULE Messages ------------------------------
(***************************************************************************)
(* The messages of one Redwood session (message.go) and the filter that    *)
(* decides which of them a listener gets (Listener.match, listener.go).    *)
(*                                                                         *)
(* Payloads are numbers: the period, the group or the page that a          *)
(* __set_*__ message carries, the row of a config, the content of a user   *)
(* message.  Instance and Session are left out: everything below is about  *)
(* one session.  ClientTime is copied and compared but never produced by   *)
(* the server, so it is left out too.                                      *)
(***************************************************************************)
EXTENDS Naturals

CONSTANTS
    Subjects,       \* the subject names of the experiment
    NoMsg           \* the nil *Msg

(***************************************************************************)
(* HandleWebsocket gives these two names a Subject of their own, outside   *)
(* session.subjects, and match lets them see everything.                   *)
(***************************************************************************)
Observers == {"admin", "listener"}

Names == Subjects \cup Observers

ControlKeys == {"__register__", "__pause__", "__reset__", "__delete__", "__error__"}

StateKeys == {"__set_period__", "__set_group__", "__set_page__"}

Keys == ControlKeys \cup StateKeys \cup {"__set_config__", "data"}

(***************************************************************************)
(* Msg, without the fields named above.  nonce names the router epoch the  *)
(* sender was synced with; time is stamped by the router (0 before).       *)
(***************************************************************************)
Msg == [key: Keys, sender: Names, nonce: Nat, period: Nat, group: Nat,
        stateUpdate: BOOLEAN, time: Nat, value: Nat]

ASSUME NamesAssumption == /\ Subjects \cap Observers = {}
                          /\ NoMsg \notin Msg

(***************************************************************************)
(* Msg.IdenticalTo: every field but the value.                             *)
(***************************************************************************)
IdenticalTo(m, other) ==
    /\ other # NoMsg
    /\ m.nonce = other.nonce
    /\ m.sender = other.sender
    /\ m.period = other.period
    /\ m.group = other.group
    /\ m.stateUpdate = other.stateUpdate
    /\ m.time = other.time
    /\ m.key = other.key

(***************************************************************************)
(* session.last_state_update, a map from key and sender to the last state  *)
(* update, kept as the set of its values.                                  *)
(***************************************************************************)
WithUpdate(updates, m) ==
    IF m.stateUpdate
    THEN {u \in updates : ~(u.key = m.key /\ u.sender = m.sender)} \cup {m}
    ELSE updates

(***************************************************************************)
(* Listener.match for a listener called name whose Subject object says     *)
(* scope (a period and a group), in a session with these updates.  The     *)
(* code's session_state disjunct is implied by its last one for everybody  *)
(* who reaches it: the only name for which it says more, "admin", has      *)
(* already been let through.                                               *)
(***************************************************************************)
match(name, scope, updates, m) ==
    \/ name \in Observers
    \/ m.key \in ControlKeys
    \/ /\ m.period \in {0, scope.period}
       /\ m.group \in {0, scope.group}
       /\ m.stateUpdate => \E u \in updates : IdenticalTo(m, u)
=============================================================================
