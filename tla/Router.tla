------------------------------- MODULE Router -------------------------------
(***************************************************************************)
(* The message router (go/src/expecon-router) as seen by one session: the  *)
(* goroutine Route, which owns the session, one goroutine per websocket,   *)
(* which asks for its Subject, registers its Listener, replays the log and *)
(* then relays messages, the clients at the other end, and Redis.          *)
(*                                                                         *)
(* A step of this specification is what one goroutine does between two     *)
(* points where another one can interfere.  Route handles an ordinary      *)
(* message in one step; a reset takes four, because the sync goroutines    *)
(* read the nonce and the log while Route is talking to Redis.             *)
(*                                                                         *)
(* Channels: those that carry requests to Route hold at most one request   *)
(* per connection, so conn[c].st says where the request is.  The channel   *)
(* of messages has MsgCap places.  recv is not bounded here; see           *)
(* RouterChannels for what happens when it and removeListeners fill up.    *)
(***************************************************************************)
EXTENDS Database

CONSTANTS
    Conns,          \* websocket connections; each is used once
    None,           \* no connection
    Callers,        \* the names that clients connect under
    Values,         \* the periods, groups and pages that clients set
    ClientKeys,     \* the keys of the messages that clients send
    Faults,         \* what may go wrong: "leave" a client goes away, "crash" the router is killed
    MsgCap,         \* capacity of the channel Router.messages
    BlockSize,      \* messages fetched from the log at a time
    MaxNonce,       \* bound on the number of uuids drawn for nonces
    MaxTime         \* bound on the time of ordinary messages

Epochs == 1 .. MaxNonce

ASSUME RouterAssumption ==
    /\ None \notin Conns
    /\ Callers \subseteq Names
    /\ Values \subseteq Nat
    /\ ClientKeys \subseteq Keys
    /\ Faults \subseteq {"leave", "crash"}
    /\ MsgCap \in Nat \ {0}
    /\ BlockSize \in Nat \ {0}
    /\ MaxNonce \in Nat \ {0}
    /\ MaxTime \in Nat

VARIABLES
    status,         \* what Route is doing: see Statuses
    clock,          \* time.Now(), advanced by every message that is stamped
    nonce,          \* session.nonce; a uuid never drawn before is the next number
    sid,            \* which Session object is in router.sessions: its first nonce
    subjects,       \* session.subjects: the epoch in which the name's Subject was made, or 0
    attrs,          \* the Subject objects: period and group, by name and epoch
    updates,        \* last_state_update of every Session object
    lastCfg,        \* session.last_cfg
    listeners,      \* session.listeners
    messages,       \* the channel Router.messages
    removals,       \* the channel Router.removeListeners
    redis,          \* see Database
    conn,           \* the goroutine of a connection, its Listener and its client: see Conn
    pending,        \* messages fetched from the log, on their way to Sync
    recv,           \* the channel Listener.recv
    inbox,          \* what the client has received, in order
    logEpoch        \* history: the nonce of the session when its log was last deleted

session == <<nonce, sid, subjects, attrs, updates, lastCfg, listeners>>
links == <<conn, pending, recv, inbox>>
vars == <<status, clock, session, messages, removals, redis, links, logEpoch>>

(***************************************************************************)
(* Route is serving its channels, inside Session.Reset (before the log is  *)
(* deleted, before the config is replayed, before the reset message is     *)
(* passed on), or not there: the process was killed, or Route panicked,    *)
(* which kills the process as well.                                        *)
(***************************************************************************)
Resetting == {"clearing", "replaying", "answering"}
Statuses == {"running", "stopped", "panicked"} \cup Resetting
Up == status \in {"running"} \cup Resetting

(***************************************************************************)
(* st is where the connection's goroutine is in HandleWebsocket: waiting   *)
(* for a Subject, for the acknowledgement of newListeners, before Sync, in *)
(* Sync before the log is counted and after, in ReceiveLoop; broken once   *)
(* SendLoop has failed and closed recv, dead with the process.             *)
(* subj is the epoch of the Listener's Subject object (0: an observer's).  *)
(* sess is the Session object Sync holds, nonce the nonce it announced;    *)
(* the log is fetched from index next to index end.                        *)
(***************************************************************************)
ConnStates == {"free", "asking", "joined", "opened", "syncing", "fetching",
               "live", "broken", "dead"}

Conn == [st: ConnStates, open: BOOLEAN, name: Names, subj: 0 .. MaxNonce,
         sess: 0 .. MaxNonce, nonce: 0 .. MaxNonce, next: Nat, end: Nat]

FreeConn == [st |-> "free", open |-> FALSE, name |-> "admin", subj |-> 0,
             sess |-> 0, nonce |-> 0, next |-> 0, end |-> 0]

Scope == [period: Nat, group: Nat]
\* Mutant: a new Subject gets the period and group of an observer's.
ObserverScope == [period |-> -1, group |-> -1]

NoScope == [period |-> 0, group |-> 0]

NoSubjects == [n \in Names |-> 0]
NoListeners == [n \in Names |-> None]

Init ==
    /\ status = "running"
    /\ clock = 0
    /\ nonce = 1
    /\ sid = 1
    /\ subjects = NoSubjects
    /\ lastCfg = NoMsg
    /\ listeners = NoListeners
    /\ attrs = [n \in Names |-> [e \in Epochs |-> NoScope]]
    /\ updates = [e \in Epochs |-> {}]
    /\ messages = << >>
    /\ removals = {}
    /\ redis = EmptyRedis
    /\ conn = [c \in Conns |-> FreeConn]
    /\ pending = [c \in Conns |-> << >>]
    /\ recv = [c \in Conns |-> << >>]
    /\ inbox = [c \in Conns |-> << >>]
    /\ logEpoch = 1

-----------------------------------------------------------------------------
(* Listeners                                                               *)

\* Mutant: the listener gets nothing before its sync is over.
RegisteredLate(c) ==
    listeners[conn[c].name] = c /\ conn[c].st \notin {"opened", "syncing", "fetching"}

Registered(c) == listeners[conn[c].name] = c

Matches(c, ups, at, m) ==
    match(conn[c].name, at[conn[c].name][conn[c].subj], ups, m)

(***************************************************************************)
(* The loop of Session.Receive over the listeners, with Listener.Send: a   *)
(* send on a closed recv panics, is recovered from, and puts the listener  *)
(* on the channel of those to be removed.                                  *)
(***************************************************************************)
Deliver(ups, at, m) ==
    LET gets == {c \in Conns : Registered(c) /\ Matches(c, ups, at, m)}
        failed == {c \in gets : conn[c].st = "broken"}
    IN  /\ recv' = [c \in Conns |-> IF c \in gets \ failed
                                    THEN Append(recv[c], m)
                                    ELSE recv[c]]
        /\ removals' = removals \cup failed

-----------------------------------------------------------------------------
(* A connection, from HandleWebsocket to the end of Sync.  Its goroutines  *)
(* are dead when the process is, so only Connect asks whether it is up.    *)

(***************************************************************************)
(* A client called n opens a websocket.  Observers get a Subject of their  *)
(* own; the others have to ask Route for it.                               *)
(***************************************************************************)
Connect(c, n) ==
    /\ Up
    /\ conn[c].st = "free"
    /\ conn' = [conn EXCEPT ![c] =
           [FreeConn EXCEPT !.st = IF n \in Observers THEN "joined" ELSE "asking",
                            !.open = TRUE, !.name = n]]
    /\ UNCHANGED <<status, clock, session, messages, removals, redis,
                   pending, recv, inbox, logEpoch>>

(***************************************************************************)
(* Route answers with the Subject of that name.  When there is none it     *)
(* makes one and tells everybody (Session.Subject).                        *)
(***************************************************************************)
Register(n) ==
    [key |-> "__register__", sender |-> n, nonce |-> nonce, period |-> 0, group |-> 0,
     stateUpdate |-> FALSE, time |-> clock + 1, value |-> 0]

ServeSubjectRequest(c) ==
    LET n == conn[c].name IN
    /\ status = "running"
    /\ conn[c].st = "asking"
    /\ IF subjects[n] # 0
       THEN /\ conn' = [conn EXCEPT ![c].st = "joined", ![c].subj = subjects[n]]
            /\ UNCHANGED <<clock, subjects, attrs, removals, redis, recv>>
       ELSE /\ conn' = [conn EXCEPT ![c].st = "joined", ![c].subj = nonce]
            /\ subjects' = [subjects EXCEPT ![n] = nonce]
            /\ attrs' = [attrs EXCEPT ![n][nonce] = NoScope]
            /\ clock' = clock + 1
            /\ redis' = SaveMessage(redis, Register(n))
            /\ Deliver(updates[sid], attrs', Register(n))
    /\ UNCHANGED <<status, nonce, sid, updates, lastCfg, listeners, messages,
                   pending, inbox, logEpoch>>

(***************************************************************************)
(* Route enters the Listener, over any other of the same name, and         *)
(* acknowledges.                                                           *)
(***************************************************************************)
RegisterListener(c) ==
    /\ status = "running"
    /\ conn[c].st = "joined"
    /\ listeners' = [listeners EXCEPT ![conn[c].name] = c]
    /\ conn' = [conn EXCEPT ![c].st = "opened"]
    /\ UNCHANGED <<status, clock, nonce, sid, subjects, attrs, updates, lastCfg,
                   messages, removals, redis, pending, recv, inbox, logEpoch>>

(***************************************************************************)
(* Sync takes the Session object and announces its nonce in                *)
(* __queue_start__.                                                        *)
(***************************************************************************)
StartSync(c) ==
    /\ conn[c].st = "opened"
    /\ conn' = [conn EXCEPT ![c].st = "syncing", ![c].sess = sid, ![c].nonce = nonce]
    /\ UNCHANGED <<status, clock, session, messages, removals, redis,
                   pending, recv, inbox, logEpoch>>

(***************************************************************************)
(* Database.Messages asks for the length of the log once...                *)
(***************************************************************************)
CountQueue(c) ==
    /\ conn[c].st = "syncing"
    /\ conn' = [conn EXCEPT ![c].st = "fetching", ![c].next = 0,
                            ![c].end = Len(redis.queue)]
    /\ UNCHANGED <<status, clock, session, messages, removals, redis,
                   pending, recv, inbox, logEpoch>>

(***************************************************************************)
(* ... and then fetches it block by block.  The goroutine that fetches     *)
(* asks for another block when the last one is in the channel that Sync    *)
(* reads, which holds BlockSize messages.                                  *)
(***************************************************************************)
FetchBlock(c) ==
    LET lo == conn[c].next
        hi == IF lo + BlockSize < conn[c].end THEN lo + BlockSize ELSE conn[c].end
    IN  /\ conn[c].st = "fetching"
        /\ lo < conn[c].end
        /\ Len(pending[c]) <= BlockSize
        /\ pending' = [pending EXCEPT ![c] = @ \o LRange(redis.queue, lo, hi - 1)]
        /\ conn' = [conn EXCEPT ![c].next = hi]
        /\ UNCHANGED <<status, clock, session, messages, removals, redis,
                       recv, inbox, logEpoch>>

(***************************************************************************)
(* Sync takes a message and, if it still matches, writes it to the         *)
(* websocket.  Errors of that write are ignored.                           *)
(***************************************************************************)
SyncMessage(c) ==
    LET m == Head(pending[c]) IN
    /\ conn[c].st = "fetching"
    /\ pending[c] # << >>
    /\ pending' = [pending EXCEPT ![c] = Tail(@)]
    /\ inbox' = IF conn[c].open /\ Matches(c, updates[conn[c].sess], attrs, m)
                THEN [inbox EXCEPT ![c] = Append(@, m)]
                ELSE inbox
    /\ UNCHANGED <<status, clock, session, messages, removals, redis, conn,
                   recv, logEpoch>>

\* Mutant: __queue_end__ has to reach the client.
FinishSyncAttended(c) ==
    /\ conn[c].st = "fetching"
    /\ conn[c].open
    /\ conn[c].next >= conn[c].end
    /\ pending[c] = << >>
    /\ conn' = [conn EXCEPT ![c].st = "live"]
    /\ UNCHANGED <<status, clock, session, messages, removals, redis,
                   pending, recv, inbox, logEpoch>>

(***************************************************************************)
(* __queue_end__: SendLoop starts, and so does ReceiveLoop.                *)
(***************************************************************************)
FinishSync(c) ==
    /\ conn[c].st = "fetching"
    /\ conn[c].next >= conn[c].end
    /\ pending[c] = << >>
    /\ conn' = [conn EXCEPT ![c].st = "live"]
    /\ UNCHANGED <<status, clock, session, messages, removals, redis,
                   pending, recv, inbox, logEpoch>>

-----------------------------------------------------------------------------
(* A connection, after Sync                                                *)

(***************************************************************************)
(* SendLoop writes one message, or fails to, and then closes recv.  What   *)
(* was still in the channel is never read.                                 *)
(***************************************************************************)
SendLoop(c) ==
    /\ conn[c].st = "live"
    /\ recv[c] # << >>
    /\ IF conn[c].open
       THEN /\ inbox' = [inbox EXCEPT ![c] = Append(@, Head(recv[c]))]
            /\ recv' = [recv EXCEPT ![c] = Tail(@)]
            /\ UNCHANGED conn
       ELSE /\ conn' = [conn EXCEPT ![c].st = "broken"]
            /\ recv' = [recv EXCEPT ![c] = << >>]
            /\ UNCHANGED inbox
    /\ UNCHANGED <<status, clock, session, messages, removals, redis,
                   pending, logEpoch>>

(***************************************************************************)
(* The client goes away: a reload, a lost network.  ReceiveLoop returns,   *)
(* and nothing tells Route.                                                *)
(***************************************************************************)
Disconnect(c) ==
    /\ "leave" \in Faults
    /\ conn[c].open
    /\ conn' = [conn EXCEPT ![c].open = FALSE]
    /\ UNCHANGED <<status, clock, session, messages, removals, redis,
                   pending, recv, inbox, logEpoch>>

(***************************************************************************)
(* What a client believes from the messages it has received: the period or *)
(* group last set for a name, 0 if none (rw.period, rw.groups).            *)
(***************************************************************************)
IsLast(s, key, name, i) ==
    /\ i \in DOMAIN s
    /\ s[i].key = key /\ s[i].sender = name
    /\ \A j \in DOMAIN s : s[j].key = key /\ s[j].sender = name => j <= i

LastSet(s, key, name) ==
    IF \E i \in DOMAIN s : IsLast(s, key, name, i)
    THEN s[CHOOSE i \in DOMAIN s : IsLast(s, key, name, i)].value
    ELSE 0

Known(s) == {n \in Subjects : \E i \in DOMAIN s : /\ s[i].key = "__register__"
                                                  /\ s[i].sender = n}

(***************************************************************************)
(* The messages that the clients' scripts send (rw.send, rw.set_period and *)
(* the like, ra.reset, ra.delete_session).  A subject's messages carry its *)
(* period or none and are for its group or for everybody; it sets its own  *)
(* period, group and page.  The admin sets the period and group of the     *)
(* subjects it knows, in their name, and its messages carry no period.     *)
(***************************************************************************)
ClientMsg(c, key, sender, period, group, value) ==
    [key |-> key, sender |-> sender, nonce |-> conn[c].nonce, period |-> period,
     group |-> group, stateUpdate |-> key \in StateKeys \cup {"__set_config__"},
     time |-> 0, value |-> value]

SubjectMsgs(c) ==
    LET n == conn[c].name
        p == LastSet(inbox[c], "__set_period__", n)
        g == LastSet(inbox[c], "__set_group__", n)
    IN  {ClientMsg(c, "data", n, q, to, 0) : q \in {0, p}, to \in {0, g}}
            \cup {ClientMsg(c, k, n, p, 0, v) : k \in StateKeys, v \in Values}

AdminMsgs(c) ==
    {ClientMsg(c, k, n, 0, 0, v) : k \in {"__set_period__", "__set_group__"},
                                   n \in Known(inbox[c]), v \in Values}
        \cup {ClientMsg(c, "__set_config__", "admin", 0, 0, 0)}
        \cup {ClientMsg(c, k, "admin", 0, 0, 0) : k \in {"__reset__", "__delete__"}}

ClientMsgs(c) ==
    {m \in IF conn[c].name \in Subjects THEN SubjectMsgs(c)
           ELSE IF conn[c].name = "admin" THEN AdminMsgs(c) ELSE {} :
        m.key \in ClientKeys}

(***************************************************************************)
(* A client sends a message; ReceiveLoop passes it to Route.  The client's *)
(* scripts hold back what they have to say until the sync is over.         *)
(***************************************************************************)
ClientSend(c) ==
    /\ conn[c].st = "live"
    /\ conn[c].open
    /\ Len(messages) < MsgCap
    /\ \E m \in ClientMsgs(c) : messages' = Append(messages, m)
    /\ UNCHANGED <<status, clock, session, removals, redis, links, logEpoch>>

-----------------------------------------------------------------------------
(* HandleMessage                                                           *)

Msg1 == Head(messages)

\* Mutant: the nonce is not looked at.
AnyIsCurrent(m) == m.nonce <= nonce

(***************************************************************************)
(* A message of an earlier epoch of the session is dropped.                *)
(***************************************************************************)
Current(m) == m.nonce = nonce

HandleStale ==
    /\ status = "running"
    /\ messages # << >>
    /\ ~Current(Msg1)
    /\ messages' = Tail(messages)
    /\ UNCHANGED <<status, clock, session, removals, redis, links, logEpoch>>

\* Mutant: a period or group message keeps the period and group of its sender.
StampedTime(m) == [m EXCEPT !.time = clock + 1]

(***************************************************************************)
(* HandleMessage up to the switch and in its cases, and then Receive: the  *)
(* message gets a time, and the new period or group; it is remembered, the *)
(* Subject object changed, the session object stored, the message saved    *)
(* and sent to the listeners it matches, in that order.                    *)
(***************************************************************************)
Stamped(m) ==
    [m EXCEPT !.time = clock + 1,
              !.period = IF m.key = "__set_period__" THEN m.value ELSE @,
              !.group = IF m.key = "__set_group__" THEN m.value ELSE @]

WithScope(m) ==
    CASE m.key = "__set_period__" ->
            [attrs EXCEPT ![m.sender][subjects[m.sender]].period = m.value]
      [] m.key = "__set_group__" ->
            [attrs EXCEPT ![m.sender][subjects[m.sender]].group = m.value]
      [] OTHER -> attrs

StoreObject(db, m) ==
    CASE m.key = "__set_period__" -> SetInt(db, "period", m.sender, m.value)
      [] m.key = "__set_group__" -> SetInt(db, "group", m.sender, m.value)
      [] m.key = "__set_page__" -> SetInt(db, "page", m.sender, m.value)
      [] m.key = "__set_config__" -> SetConfig(db, m)
      [] OTHER -> db

Process(m) ==
    LET ups == WithUpdate(updates[sid], Stamped(m))
        at == WithScope(m)
    IN  /\ clock' = clock + 1
        /\ updates' = [updates EXCEPT ![sid] = ups]
        /\ attrs' = at
        /\ lastCfg' = IF m.key = "__set_config__" THEN Stamped(m) ELSE lastCfg
        /\ redis' = SaveMessage(StoreObject(redis, Stamped(m)), Stamped(m))
        /\ Deliver(ups, at, Stamped(m))

NeedsSubject(m) == m.key \in {"__set_period__", "__set_group__"}

IsReset(m) == m.key \in {"__reset__", "__delete__"}

HandleUpdate ==
    /\ status = "running"
    /\ messages # << >>
    /\ Current(Msg1)
    /\ ~IsReset(Msg1)
    /\ NeedsSubject(Msg1) => subjects[Msg1.sender] # 0
    /\ clock < MaxTime
    /\ Process(Msg1)
    /\ messages' = Tail(messages)
    /\ UNCHANGED <<status, nonce, sid, subjects, listeners, conn, pending, inbox,
                   logEpoch>>

-----------------------------------------------------------------------------
(* Session.Reset and Session.Delete                                        *)

(***************************************************************************)
(* In memory first: a fresh nonce, no subjects, no state updates.  The     *)
(* listeners stay, with the Subject objects they have.  Deleting takes a   *)
(* second uuid, for the Session object that will take the place of this    *)
(* one.                                                                    *)
(***************************************************************************)
BeginReset ==
    /\ status = "running"
    /\ messages # << >>
    /\ Current(Msg1)
    /\ IsReset(Msg1)
    /\ nonce + (IF Msg1.key = "__delete__" THEN 2 ELSE 1) <= MaxNonce
    /\ status' = "clearing"
    /\ clock' = clock + 1
    /\ messages' = [messages EXCEPT ![1].time = clock + 1]
    /\ nonce' = nonce + 1
    /\ subjects' = NoSubjects
    /\ updates' = [updates EXCEPT ![sid] = {}]
    /\ UNCHANGED <<sid, attrs, lastCfg, listeners, removals, redis, links, logEpoch>>

ClearLog ==
    /\ status = "clearing"
    /\ redis' = DeleteSession(redis)
    /\ logEpoch' = nonce
    /\ status' = IF lastCfg = NoMsg THEN "answering" ELSE "replaying"
    /\ UNCHANGED <<clock, session, messages, removals, links>>

(***************************************************************************)
(* HandleMessage(last_cfg), with the new nonce.                            *)
(***************************************************************************)
ReplayConfig ==
    /\ status = "replaying"
    /\ Process([lastCfg EXCEPT !.nonce = nonce])
    /\ status' = "answering"
    /\ UNCHANGED <<nonce, sid, subjects, listeners, messages, conn, pending, inbox,
                   logEpoch>>

(***************************************************************************)
(* The message itself is passed on but not saved.  A deleted session is    *)
(* gone from router.sessions; the one that Router.Session makes when it is *)
(* next asked for has no listeners.                                        *)
(***************************************************************************)
AnswerReset ==
    /\ status = "answering"
    /\ Deliver(updates[sid], attrs, Msg1)
    /\ IF Msg1.key = "__delete__"
       THEN /\ nonce' = nonce + 1
            /\ sid' = nonce + 1
            /\ subjects' = NoSubjects
            /\ lastCfg' = NoMsg
            /\ listeners' = NoListeners
       ELSE UNCHANGED <<nonce, sid, subjects, lastCfg, listeners>>
    /\ messages' = Tail(messages)
    /\ status' = "running"
    /\ UNCHANGED <<clock, attrs, updates, redis, conn, pending, inbox, logEpoch>>

\* Mutant: the listener registered under the name of the dead one is removed.
RemoveByName(c) ==
    /\ status = "running"
    /\ c \in removals
    /\ removals' = removals \ {c}
    /\ listeners' = [listeners EXCEPT ![conn[c].name] = None]
    /\ UNCHANGED <<status, clock, nonce, sid, subjects, attrs, updates, lastCfg,
                   messages, redis, links, logEpoch>>

(***************************************************************************)
(* Route takes a listener off the session, whatever name it is under.      *)
(***************************************************************************)
RemoveListener(c) ==
    /\ status = "running"
    /\ c \in removals
    /\ removals' = removals \ {c}
    /\ listeners' = [n \in Names |-> IF listeners[n] = c THEN None ELSE listeners[n]]
    /\ UNCHANGED <<status, clock, nonce, sid, subjects, attrs, updates, lastCfg,
                   messages, redis, links, logEpoch>>

-----------------------------------------------------------------------------
(* The process                                                             *)

(***************************************************************************)
(* Everything in memory is lost, and every websocket is closed.            *)
(***************************************************************************)
LoseMemory ==
    /\ subjects' = NoSubjects
    /\ lastCfg' = NoMsg
    /\ listeners' = NoListeners
    /\ messages' = << >>
    /\ removals' = {}
    /\ conn' = [c \in Conns |-> IF conn[c].st = "free" THEN FreeConn
                                ELSE [FreeConn EXCEPT !.st = "dead"]]
    /\ pending' = [c \in Conns |-> << >>]
    /\ recv' = [c \in Conns |-> << >>]
    /\ inbox' = [c \in Conns |-> << >>]
    /\ UNCHANGED <<clock, nonce, sid, attrs, updates, redis, logEpoch>>

(***************************************************************************)
(* session.subjects[msg.Sender] is nil and HandleMessage assigns to a      *)
(* field of it; nothing recovers a panic of Route.                         *)
(***************************************************************************)
RoutePanics ==
    /\ status = "running"
    /\ messages # << >>
    /\ Current(Msg1)
    /\ NeedsSubject(Msg1)
    /\ subjects[Msg1.sender] = 0
    /\ status' = "panicked"
    /\ LoseMemory

Crash ==
    /\ "crash" \in Faults
    /\ Up
    /\ status' = "stopped"
    /\ LoseMemory

(***************************************************************************)
(* NewRouter: a session that Redis knows gets back a Subject for every     *)
(* name in its session objects, the periods and groups, and its config.    *)
(***************************************************************************)
Restart ==
    LET n1 == nonce + 1
        stored == IF redis.listed THEN StoredSubjects(redis) ELSE {}
    IN  /\ status \in {"stopped", "panicked"}
        /\ nonce < MaxNonce
        /\ status' = "running"
        /\ nonce' = n1
        /\ sid' = n1
        /\ subjects' = [n \in Names |-> IF n \in stored THEN n1 ELSE 0]
        /\ attrs' = [n \in Names |-> [attrs[n] EXCEPT ![n1] =
               [period |-> StoredInt(redis, "period", n),
                group |-> StoredInt(redis, "group", n)]]]
        /\ lastCfg' \in IF redis.listed THEN StoredConfigs(redis) ELSE {NoMsg}
        /\ UNCHANGED <<clock, updates, listeners, messages, removals, redis, links,
                       logEpoch>>

-----------------------------------------------------------------------------
Handle ==
    \/ HandleStale
    \/ HandleUpdate
    \/ BeginReset
    \/ ClearLog
    \/ ReplayConfig
    \/ AnswerReset
    \/ RoutePanics

Serve(c) ==
    \/ ServeSubjectRequest(c)
    \/ RegisterListener(c)
    \/ RemoveListener(c)

Sync(c) ==
    \/ StartSync(c)
    \/ CountQueue(c)
    \/ FetchBlock(c)
    \/ SyncMessage(c)
    \/ FinishSync(c)

Client(c) ==
    \/ \E n \in Callers : Connect(c, n)
    \/ Disconnect(c)
    \/ ClientSend(c)

Next ==
    \/ Handle
    \/ \E c \in Conns : Serve(c) \/ Sync(c) \/ SendLoop(c) \/ Client(c)
    \/ Crash
    \/ Restart

Spec == Init /\ [][Next]_vars

(***************************************************************************)
(* Go's scheduler runs every goroutine that can run, and select chooses at *)
(* random among the channels that are ready, so a request that waits while *)
(* Route comes back to its select again and again is served: strong        *)
(* fairness for the requests, weak for the goroutines that wait for        *)
(* nobody.  Clients, crashes and restarts are under no obligation.         *)
(***************************************************************************)
Fairness ==
    /\ WF_vars(Handle)
    /\ \A c \in Conns : /\ SF_vars(ServeSubjectRequest(c))
                        /\ SF_vars(RegisterListener(c))
                        /\ WF_vars(Sync(c))
                        /\ WF_vars(SendLoop(c))

FairSpec == Spec /\ Fairness

-----------------------------------------------------------------------------
(* Invariants                                                              *)

TypeOK ==
    /\ status \in Statuses
    /\ clock \in Nat
    /\ nonce \in Epochs
    /\ sid \in Epochs
    /\ subjects \in [Names -> 0 .. MaxNonce]
    /\ attrs \in [Names -> [Epochs -> Scope]]
    /\ updates \in [Epochs -> SUBSET Msg]
    /\ lastCfg \in Msg \cup {NoMsg}
    /\ listeners \in [Names -> Conns \cup {None}]
    /\ messages \in Seq(Msg)
    /\ removals \subseteq Conns
    /\ redis \in RedisType
    /\ conn \in [Conns -> Conn]
    /\ pending \in [Conns -> Seq(Msg)]
    /\ recv \in [Conns -> Seq(Msg)]
    /\ inbox \in [Conns -> Seq(Msg)]
    /\ logEpoch \in Epochs

(***************************************************************************)
(* A connected client that has been synced, or whose log is being fetched, *)
(* has received, or is certain to receive, every message of the log that   *)
(* is meant for it whatever its period and group: all of them for an       *)
(* observer; registrations, and messages to everybody, for a subject.      *)
(* This is what registering the listener before Sync counts the log is     *)
(* for ("wait for listener to be registered before starting sync").        *)
(***************************************************************************)
ForAll(name, m) ==
    \/ name \in Observers
    \/ m.key \in ControlKeys
    \/ m.period = 0 /\ m.group = 0 /\ ~m.stateUpdate

Accounted(c) ==
    Range(inbox[c]) \cup Range(pending[c]) \cup Range(recv[c])
        \cup {redis.queue[i] : i \in {j \in DOMAIN redis.queue :
                                        conn[c].next < j /\ j <= conn[c].end}}

NoGap ==
    \A c \in Conns :
        Registered(c) /\ conn[c].open /\ conn[c].st \in {"fetching", "live"}
        => \A i \in DOMAIN redis.queue :
               ForAll(conn[c].name, redis.queue[i]) => redis.queue[i] \in Accounted(c)

(***************************************************************************)
(* Between two messages, what the router would restore after a crash is    *)
(* what it has in memory: the period and group of every subject and the    *)
(* last config.                                                            *)
(***************************************************************************)
MemoryIsStored ==
    status = "running" =>
        /\ \A n \in Names : subjects[n] # 0 =>
               attrs[n][subjects[n]] = [period |-> StoredInt(redis, "period", n),
                                        group |-> StoredInt(redis, "group", n)]
        /\ lastCfg # NoMsg => redis.listed /\ lastCfg \in StoredConfigs(redis)
        /\ redis.objs # {} => redis.listed

(***************************************************************************)
(* No message of an epoch that a reset has ended is in the log, however    *)
(* long it was under way and however late it was handled.                  *)
(***************************************************************************)
LogIsFresh ==
    \A i \in DOMAIN redis.queue : redis.queue[i].nonce >= logEpoch

(***************************************************************************)
(* While the router is not restarted, the log has exactly one registration *)
(* of every subject that the session has, and none of the others: the list *)
(* of subjects that the clients build from it is the router's.             *)
(***************************************************************************)
OneRegistration ==
    status = "running" =>
        \A n \in Subjects :
            LET at == {i \in DOMAIN redis.queue : /\ redis.queue[i].key = "__register__"
                                                 /\ redis.queue[i].sender = n}
            IN  IF subjects[n] = 0 THEN at = {} ELSE \E i \in at : at = {i}

(***************************************************************************)
(* A subject's client that has been synced knows, or is about to be told,  *)
(* the period that the router has it in, through every order of period     *)
(* changes, syncs and reconnections.                                       *)
(***************************************************************************)
PeriodKnown ==
    \A c \in Conns :
        LET n == conn[c].name IN
        (/\ Registered(c) /\ conn[c].open /\ conn[c].st = "live"
         /\ n \in Subjects /\ subjects[n] # 0 /\ subjects[n] = conn[c].subj)
        => LastSet(inbox[c] \o recv[c], "__set_period__", n) = attrs[n][subjects[n]].period

-----------------------------------------------------------------------------
(* Action and liveness properties                                          *)

(***************************************************************************)
(* A connected, synced listener stays in session.listeners until another   *)
(* of its name takes its place, its session is deleted or the process      *)
(* dies.  In particular the removal of a dead listener, which comes long   *)
(* after the client has reconnected, never removes the new one.            *)
(***************************************************************************)
StaysRegistered ==
    [][\A c \in Conns :
          Registered(c) /\ conn[c].open /\ conn[c].st = "live"
          => \/ listeners'[conn[c].name] = c
             \/ \E d \in Conns : listeners'[conn[c].name] = d /\ conn[d].st = "joined"
             \/ sid' # sid
             \/ status' \in {"stopped", "panicked"}]_vars

(***************************************************************************)
(* Whoever connects is synced in the end, whatever happens to its client,  *)
(* to the log or to the session meanwhile, unless the process dies.        *)
(***************************************************************************)
SyncCompletes ==
    \A c \in Conns : conn[c].st = "asking" ~> conn[c].st \in {"live", "broken", "dead"}

(***************************************************************************)
(* Through crashes inside a reset, restarts and late messages, the list in *)
(* Redis is a log: it grows at its end, in the order of the epochs, and    *)
(* only a reset empties it (database.go, session.go).                      *)
(***************************************************************************)
Log == INSTANCE SessionLog WITH log <- redis.queue, epoch <- logEpoch

IsSessionLog == Log!Spec

-----------------------------------------------------------------------------
(* What comments in the code say and the code does not do                  *)

(***************************************************************************)
(* "this ensures only one subject object exists per session/name pair"     *)
(* (router.go): a registered client that nobody has told to reload shares  *)
(* the Subject object of the session.                                      *)
(***************************************************************************)
OneSubjectObject ==
    \A c \in Conns :
        LET n == conn[c].name
            told == \E m \in Range(inbox[c]) \cup Range(recv[c]) : IsReset(m)
        IN  (/\ status = "running" /\ Registered(c)
             /\ conn[c].open /\ conn[c].st = "live"
             /\ n \in Subjects /\ ~told)
            => conn[c].subj = subjects[n]

(***************************************************************************)
(* "Display the current page [...] for the given subject" (views.py): a    *)
(* subject who has no period yet is not shown the page of a run that has   *)
(* been deleted, one that nothing in the log has set.  (That the answer    *)
(* may be a 404 instead of Wait is not what this is about.)                *)
(***************************************************************************)
PagesSet(n) == {m.value : m \in {x \in Range(redis.queue) : /\ x.key = "__set_page__"
                                                           /\ x.sender = n}}

CurrentPage ==
    \A n \in Subjects :
        status = "running" /\ subjects[n] # 0 /\ attrs[n][subjects[n]].period = 0
        => PageServed(redis, n) \in {WaitPage, NoPage} \cup PagesSet(n)

(***************************************************************************)
(* "populate the in-memory queues with persisted redis data" (router.go):  *)
(* the session goes on after a restart as it would have without, so that   *)
(* no message that was legal before kills Route after.  (PeriodKnown says  *)
(* as much of what clients are told, and it too fails after a restart.)    *)
(***************************************************************************)
NoPanic == status # "panicked"
=============================================================================
