--------------------------- MODULE RouterChannels ---------------------------
(***************************************************************************)
(* The router's goroutines and the channels between them, with their       *)
(* capacities: what Router leaves out.  Route is followed send by send     *)
(* through the loop of Session.Receive, Listener.Send and its deferred     *)
(* function; every connection has the goroutine of HandleWebsocket, which  *)
(* ends in ReceiveLoop, and that of SendLoop.                              *)
(*                                                                         *)
(* What the messages say is left out: they are numbered in the order in    *)
(* which Route handles them, and all of them are for every listener (a     *)
(* control message).  Every connection has a name of its own, so no        *)
(* listener takes the place of another.  What a Sync writes is left out.   *)
(***************************************************************************)
EXTENDS Naturals, Sequences, SequencesExt

CONSTANTS
    Conns,          \* the connections; each is used once
    None,           \* no connection
    Answer,         \* the answer to a __get_period__ message
    MsgCap,         \* capacity of Router.messages (100)
    RecvCap,        \* capacity of Listener.recv (100)
    RemoveCap,      \* capacity of Router.removeListeners (100)
    MaxSent         \* bound on the messages that the clients send

ASSUME ChannelsAssumption ==
    /\ None \notin Conns
    /\ Answer \notin Nat
    /\ {MsgCap, RecvCap, RemoveCap} \subseteq Nat \ {0}
    /\ MaxSent \in Nat

VARIABLES
    route,          \* Route is in its select, in the loop of Receive, sending, or recovering
    left,           \* the listeners that the loop has not come to
    target,         \* the listener it is sending to
    handled,        \* how many messages Route has taken
    messages,       \* how many are in Router.messages
    listeners,      \* the listeners of the session
    removals,       \* Router.removeListeners
    sender,         \* HandleWebsocket up to the end of Sync, then SendLoop
    receiver,       \* ReceiveLoop
    recv,           \* Listener.recv
    hand,           \* what SendLoop has taken out of it: one message or none
    client,         \* the other end of the websocket
    written,        \* what SendLoop has written to it
    sent,           \* how many messages the clients have sent
    since           \* history: how many messages were handled before the registration

routeVars == <<route, left, target, handled>>
sendVars == <<recv, hand, written>>
vars == <<routeVars, messages, listeners, removals, sender, receiver, sendVars, client,
          sent, since>>

Senders == {"off", "joining", "syncing", "waiting", "writing", "closed"}
Receivers == {"off", "decoding", "sending", "answering", "ended"}
\* A client stalls at most once: it is "fresh" until it does.
Clients == {"none", "fresh", "stalled", "reading", "gone"}
Reading(c) == client[c] \in {"fresh", "reading"}

Init ==
    /\ route = "select"
    /\ left = {}
    /\ target = None
    /\ handled = 0
    /\ messages = 0
    /\ listeners = {}
    /\ removals = << >>
    /\ sender = [c \in Conns |-> "off"]
    /\ receiver = [c \in Conns |-> "off"]
    /\ recv = [c \in Conns |-> << >>]
    /\ hand = [c \in Conns |-> << >>]
    /\ client = [c \in Conns |-> "none"]
    /\ written = [c \in Conns |-> << >>]
    /\ sent = 0
    /\ since = [c \in Conns |-> 0]

Closed(c) == sender[c] = "closed"

-----------------------------------------------------------------------------
(* Route                                                                   *)

TakeMessage ==
    /\ route = "select"
    /\ messages > 0
    /\ messages' = messages - 1
    /\ handled' = handled + 1
    /\ route' = "receive"
    /\ left' = listeners
    /\ UNCHANGED <<target, listeners, removals, sender, receiver, sendVars, client, sent, since>>

(***************************************************************************)
(* The loop comes to a listener, in the order of a map, that is, in any.   *)
(***************************************************************************)
NextListener ==
    /\ route = "receive"
    /\ \E c \in left : target' = c /\ left' = left \ {c}
    /\ route' = "send"
    /\ UNCHANGED <<handled, messages, listeners, removals, sender, receiver, sendVars,
                   client, sent, since>>

EndReceive ==
    /\ route = "receive"
    /\ left = {}
    /\ route' = "select"
    /\ target' = None
    /\ UNCHANGED <<left, handled, messages, listeners, removals, sender, receiver, sendVars,
                   client, sent, since>>

\* Mutant: recv grows beyond its capacity.
PushAlways ==
    /\ route = "send"
    /\ ~Closed(target)
    /\ recv' = [recv EXCEPT ![target] = Append(@, handled)]
    /\ route' = "receive"
    /\ UNCHANGED <<left, target, handled, messages, listeners, removals, sender, receiver,
                   hand, written, client, sent, since>>

\* Mutant: a message for a full recv is dropped.
PushOrDrop ==
    /\ route = "send"
    /\ ~Closed(target)
    /\ recv' = IF Len(recv[target]) < RecvCap
               THEN [recv EXCEPT ![target] = Append(@, handled)]
               ELSE recv
    /\ route' = "receive"
    /\ UNCHANGED <<left, target, handled, messages, listeners, removals, sender, receiver,
                   hand, written, client, sent, since>>

(***************************************************************************)
(* l.recv <- rawMessage waits for a place in recv.                         *)
(***************************************************************************)
Push ==
    /\ route = "send"
    /\ ~Closed(target)
    /\ Len(recv[target]) < RecvCap
    /\ recv' = [recv EXCEPT ![target] = Append(@, handled)]
    /\ route' = "receive"
    /\ UNCHANGED <<left, target, handled, messages, listeners, removals, sender, receiver,
                   hand, written, client, sent, since>>

(***************************************************************************)
(* A send on a closed channel, begun before or after it was closed,        *)
(* panics, and the deferred function recovers ...                          *)
(***************************************************************************)
Recover ==
    /\ route = "send"
    /\ Closed(target)
    /\ route' = "recovering"
    /\ UNCHANGED <<left, target, handled, messages, listeners, removals, sender, receiver,
                   sendVars, client, sent, since>>

\* Mutant: the panic is recovered from and forgotten.
ForgetRemoval ==
    /\ route = "recovering"
    /\ route' = "receive"
    /\ UNCHANGED <<left, target, handled, messages, listeners, removals, sender, receiver,
                   sendVars, client, sent, since>>

(***************************************************************************)
(* ... and waits for a place in removeListeners, which nobody but Route    *)
(* takes anything out of.                                                  *)
(***************************************************************************)
QueueRemoval ==
    /\ route = "recovering"
    /\ Len(removals) < RemoveCap
    /\ removals' = Append(removals, target)
    /\ route' = "receive"
    /\ UNCHANGED <<left, target, handled, messages, listeners, sender, receiver, sendVars,
                   client, sent, since>>

TakeRemoval ==
    /\ route = "select"
    /\ removals # << >>
    /\ listeners' = listeners \ {Head(removals)}
    /\ removals' = Tail(removals)
    /\ UNCHANGED <<routeVars, messages, sender, receiver, sendVars, client, sent, since>>

\* Route enters the listener and acknowledges, for which HandleWebsocket is waiting.
TakeListener(c) ==
    /\ route = "select"
    /\ sender[c] = "joining"
    /\ listeners' = listeners \cup {c}
    /\ since' = [since EXCEPT ![c] = handled]
    /\ sender' = [sender EXCEPT ![c] = "syncing"]
    /\ UNCHANGED <<routeVars, messages, removals, receiver, sendVars, client, sent>>

-----------------------------------------------------------------------------
(* A connection                                                            *)

Connect(c) ==
    /\ client[c] = "none"
    /\ client' = [client EXCEPT ![c] = "fresh"]
    /\ sender' = [sender EXCEPT ![c] = "joining"]
    /\ UNCHANGED <<routeVars, messages, listeners, removals, receiver, sendVars, sent, since>>

(***************************************************************************)
(* Sync writes to the websocket, which waits while the client does not     *)
(* read and ignores that it is gone.  Then SendLoop and ReceiveLoop start. *)
(***************************************************************************)
EndSync(c) ==
    /\ sender[c] = "syncing"
    /\ client[c] # "stalled"
    /\ sender' = [sender EXCEPT ![c] = "waiting"]
    /\ receiver' = [receiver EXCEPT ![c] = "decoding"]
    /\ UNCHANGED <<routeVars, messages, listeners, removals, sendVars, client, sent, since>>

Take(c) ==
    /\ sender[c] = "waiting"
    /\ recv[c] # << >>
    /\ hand' = [hand EXCEPT ![c] = <<Head(recv[c])>>]
    /\ recv' = [recv EXCEPT ![c] = Tail(@)]
    /\ sender' = [sender EXCEPT ![c] = "writing"]
    /\ UNCHANGED <<routeVars, messages, listeners, removals, receiver, written, client,
                   sent, since>>

Write(c) ==
    /\ sender[c] = "writing"
    /\ Reading(c)
    /\ written' = [written EXCEPT ![c] = @ \o hand[c]]
    /\ hand' = [hand EXCEPT ![c] = << >>]
    /\ sender' = [sender EXCEPT ![c] = "waiting"]
    /\ UNCHANGED <<routeVars, messages, listeners, removals, receiver, recv, client,
                   sent, since>>

\* Mutant: SendLoop returns and leaves recv open.
ReturnOpen(c) ==
    /\ sender[c] = "writing"
    /\ client[c] = "gone"
    /\ hand' = [hand EXCEPT ![c] = << >>]
    /\ sender' = [sender EXCEPT ![c] = "off"]
    /\ UNCHANGED <<routeVars, messages, listeners, removals, receiver, recv, written,
                   client, sent, since>>

(***************************************************************************)
(* The write fails, and SendLoop closes recv on its way out.               *)
(***************************************************************************)
FailToWrite(c) ==
    /\ sender[c] = "writing"
    /\ client[c] = "gone"
    /\ hand' = [hand EXCEPT ![c] = << >>]
    /\ sender' = [sender EXCEPT ![c] = "closed"]
    /\ UNCHANGED <<routeVars, messages, listeners, removals, receiver, recv, written,
                   client, sent, since>>

(***************************************************************************)
(* ReceiveLoop decodes a message of the client: one that goes to Route, or *)
(* __get_period__.                                                         *)
(***************************************************************************)
Decode(c) ==
    /\ receiver[c] = "decoding"
    /\ client[c] # "gone"
    /\ sent < MaxSent
    /\ sent' = sent + 1
    /\ \E next \in {"sending", "answering"} : receiver' = [receiver EXCEPT ![c] = next]
    /\ UNCHANGED <<routeVars, messages, listeners, removals, sender, sendVars, client, since>>

PassOn(c) ==
    /\ receiver[c] = "sending"
    /\ messages < MsgCap
    /\ messages' = messages + 1
    /\ receiver' = [receiver EXCEPT ![c] = "decoding"]
    /\ UNCHANGED <<routeVars, listeners, removals, sender, sendVars, client, sent, since>>

(***************************************************************************)
(* The answer waits for a place in recv as Route does.  Nothing here       *)
(* recovers when recv is closed: the http server does, and ReceiveLoop is  *)
(* over.                                                                   *)
(***************************************************************************)
GetPeriod(c) ==
    /\ receiver[c] = "answering"
    /\ \/ /\ Closed(c)
          /\ receiver' = [receiver EXCEPT ![c] = "ended"]
          /\ UNCHANGED recv
       \/ /\ ~Closed(c)
          /\ Len(recv[c]) < RecvCap
          /\ receiver' = [receiver EXCEPT ![c] = "decoding"]
          /\ recv' = [recv EXCEPT ![c] = Append(@, Answer)]
    /\ UNCHANGED <<routeVars, messages, listeners, removals, sender, hand, written, client,
                   sent, since>>

\* There is nothing to decode any more: HandleWebsocket returns, and the websocket is closed.
EndReceiveLoop(c) ==
    /\ receiver[c] = "decoding"
    /\ client[c] = "gone"
    /\ receiver' = [receiver EXCEPT ![c] = "ended"]
    /\ UNCHANGED <<routeVars, messages, listeners, removals, sender, sendVars, client,
                   sent, since>>

-----------------------------------------------------------------------------
(* The other end                                                           *)

Stall(c) ==
    /\ client[c] = "fresh"
    /\ client' = [client EXCEPT ![c] = "stalled"]
    /\ UNCHANGED <<routeVars, messages, listeners, removals, sender, receiver, sendVars,
                   sent, since>>

Resume(c) ==
    /\ client[c] = "stalled"
    /\ client' = [client EXCEPT ![c] = "reading"]
    /\ UNCHANGED <<routeVars, messages, listeners, removals, sender, receiver, sendVars,
                   sent, since>>

Leave(c) ==
    /\ Reading(c) \/ client[c] = "stalled"
    /\ client' = [client EXCEPT ![c] = "gone"]
    /\ UNCHANGED <<routeVars, messages, listeners, removals, sender, receiver, sendVars,
                   sent, since>>

-----------------------------------------------------------------------------
Receive == NextListener \/ EndReceive \/ Push \/ Recover \/ QueueRemoval

SendLoop(c) == Take(c) \/ Write(c) \/ FailToWrite(c)

ReceiveLoop(c) == PassOn(c) \/ GetPeriod(c) \/ EndReceiveLoop(c)

Client(c) == Connect(c) \/ Decode(c) \/ Stall(c) \/ Resume(c) \/ Leave(c)

Next ==
    \/ TakeMessage \/ TakeRemoval \/ Receive
    \/ \E c \in Conns : TakeListener(c) \/ EndSync(c) \/ SendLoop(c) \/ ReceiveLoop(c) \/ Client(c)

Spec == Init /\ [][Next]_vars

(***************************************************************************)
(* Every goroutine that can run does.  Weak fairness is enough because the *)
(* clients send MaxSent messages and stall once: without such a bound      *)
(* Route's select would have to choose every channel again and again,      *)
(* which it does by choosing at random.  Nothing is assumed of clients: one*)
(* that has stalled may stay so.                                           *)
(***************************************************************************)
Fairness ==
    /\ WF_vars(TakeMessage)
    /\ WF_vars(TakeRemoval)
    /\ WF_vars(Receive)
    /\ \A c \in Conns :
           /\ WF_vars(TakeListener(c) \/ EndSync(c) \/ SendLoop(c))
           /\ WF_vars(ReceiveLoop(c))

FairSpec == Spec /\ Fairness

-----------------------------------------------------------------------------
(* Properties                                                              *)

TypeOK ==
    /\ route \in {"select", "receive", "send", "recovering"}
    /\ left \subseteq listeners
    /\ target \in Conns \cup {None}
    /\ handled \in 0 .. MaxSent
    /\ messages \in 0 .. MsgCap
    /\ listeners \subseteq Conns
    /\ removals \in Seq(Conns) /\ Len(removals) <= RemoveCap
    /\ sender \in [Conns -> Senders]
    /\ receiver \in [Conns -> Receivers]
    /\ \A c \in Conns : /\ recv[c] \in Seq(Nat \cup {Answer}) /\ Len(recv[c]) <= RecvCap
                        /\ hand[c] \in Seq(Nat \cup {Answer}) /\ Len(hand[c]) <= 1
                        /\ written[c] \in Seq(Nat \cup {Answer})
    /\ client \in [Conns -> Clients]
    /\ sent \in 0 .. MaxSent
    /\ since \in [Conns -> 0 .. MaxSent]

(***************************************************************************)
(* What a client has received, and has coming in recv, are the messages    *)
(* that Route handled since the registration, one after the other without  *)
(* a gap: all of them so far while the listener is registered and its recv *)
(* is open.  Full channels, stalls, answers to __get_period__ and failing  *)
(* neighbours in the loop of Receive must not change that.                 *)
(***************************************************************************)
Stream(c) == written[c] \o hand[c] \o recv[c]

Routed(c) == ToSet(Stream(c)) \ {Answer}

ComingTo(c) == c \in left \/ (route = "send" /\ target = c)

Reached(c) ==
    IF c \notin listeners THEN since[c] ELSE IF ComingTo(c) THEN handled - 1 ELSE handled

Contiguous ==
    \A c \in Conns : ~Closed(c) =>
        /\ Routed(c) = since[c] + 1 .. Reached(c)
        /\ \A i, j \in DOMAIN Stream(c) :
               (i < j /\ Answer \notin {Stream(c)[i], Stream(c)[j]})
               => Stream(c)[i] < Stream(c)[j]

(***************************************************************************)
(* The router sets no deadline for its writes: for as long as a client is  *)
(* there and does not read, its SendLoop stands still, and once its recv   *)
(* is full so does Route.  The liveness properties have the hypothesis that*)
(* no client does that for ever: it reads on, or its websocket breaks.     *)
(***************************************************************************)
NobodyStallsForEver == \A c \in Conns : []<>(client[c] # "stalled")

(***************************************************************************)
(* No client keeps Route from its select for ever by leaving, be it in the *)
(* middle of a send to it, if nobody stalls for ever.                      *)
(***************************************************************************)
RouteReturns == NobodyStallsForEver => (route # "select" ~> route = "select")

(***************************************************************************)
(* A listener that Route could not send to is taken off the session, if    *)
(* nobody stalls for ever.                                                 *)
(***************************************************************************)
FailedIsRemoved ==
    NobodyStallsForEver =>
        \A c \in Conns : route = "recovering" /\ target = c ~> c \notin listeners

(***************************************************************************)
(* The goroutine of a client that has left comes to an end, wherever the   *)
(* client left it: waiting to be registered, in Sync, waiting to pass a    *)
(* message on or to answer; if nobody else stalls for ever.                *)
(***************************************************************************)
HandlerReturns ==
    NobodyStallsForEver =>
        \A c \in Conns : client[c] = "gone" ~> receiver[c] = "ended"

(***************************************************************************)
(* "If it fails for any reason, l is added to the remove queue."           *)
(* (listener.go)                                                           *)
(***************************************************************************)
FailedIsQueued ==
    \A c \in Conns : route = "recovering" /\ target = c ~> \E i \in DOMAIN removals : removals[i] = c
=============================================================================
