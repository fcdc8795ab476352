---------------------------- MODULE RouterProofs ----------------------------
(***************************************************************************)
(* Theorems about Router, for any number of subjects and connections and   *)
(* any bounds: its state, its listeners and what the clients are told.     *)
(* Everything rests on one inductive invariant, TypeOK with what is true   *)
(* while a reset is under way and of the last config.                      *)
(***************************************************************************)
EXTENDS Router, SequenceTheorems, TLAPS

(***************************************************************************)
(* While a session is being reset, the message that asks for it is at the  *)
(* head of the channel, there are no subjects, and there is a nonce left   *)
(* for the Session object that takes the place of a deleted one.           *)
(***************************************************************************)
ResetUnderWay ==
    status \in Resetting =>
        /\ messages # << >>
        /\ IsReset(Msg1)
        /\ Msg1.key = "__delete__" => nonce < MaxNonce
        /\ subjects = NoSubjects
        /\ status = "replaying" => lastCfg # NoMsg

\* What is kept as a config was sent as one.
ConfigIsConfig ==
    /\ lastCfg # NoMsg => lastCfg.key = "__set_config__"
    /\ \A n \in Names : redis.config[n] # NoMsg => redis.config[n].key = "__set_config__"

\* A session object that Redis lists has a value, and its session is listed.
ObjectsAreStored ==
    /\ redis.objs # {} => redis.listed
    /\ \A type \in IntTypes, n \in Names :
           <<type, n>> \in redis.objs => redis.vals[<<type, n>>] # Absent

IInv == TypeOK /\ ResetUnderWay /\ ConfigIsConfig /\ ObjectsAreStored

\* The nonces of the log, and of the session, are not older than the log.
LogInv == logEpoch <= nonce /\ LogIsFresh

(***************************************************************************)
(* MemoryIsStored in parts, and why it survives the creation of a Subject  *)
(* (it has no period and no group, and nor has Redis one for it) and a     *)
(* reset (which has the config in Redis again before Route goes on).       *)
(***************************************************************************)
ScopesAreStored ==
    \A n \in Names : subjects[n] # 0 =>
        attrs[n][subjects[n]] = [period |-> StoredInt(redis, "period", n),
                                 group |-> StoredInt(redis, "group", n)]

NothingForgotten ==
    \A n \in Names : subjects[n] = 0 =>
        <<"period", n>> \notin redis.objs /\ <<"group", n>> \notin redis.objs

ConfigIsStored ==
    lastCfg # NoMsg => redis.listed /\ lastCfg \in StoredConfigs(redis)

MemInv ==
    /\ status \in {"running", "replaying", "answering"} => ScopesAreStored /\ NothingForgotten
    /\ status \in {"running", "answering"} => ConfigIsStored

-----------------------------------------------------------------------------
(* What a client may say is a message.                                     *)

LEMMA MsgFields ==
    ASSUME NEW m \in Msg
    PROVE  /\ m.key \in Keys /\ m.sender \in Names /\ m.stateUpdate \in BOOLEAN
           /\ m.nonce \in Nat /\ m.period \in Nat /\ m.group \in Nat
           /\ m.time \in Nat /\ m.value \in Nat
BY DEF Msg

LEMMA LastSetType ==
    ASSUME NEW s \in Seq(Msg), NEW key, NEW name
    PROVE  LastSet(s, key, name) \in Nat
<1>1. CASE \E i \in DOMAIN s : IsLast(s, key, name, i)
    <2>1. (CHOOSE i \in DOMAIN s : IsLast(s, key, name, i)) \in DOMAIN s
        BY <1>1
    <2>2. \A i \in DOMAIN s : s[i].value \in Nat
        <3>1. \A i \in DOMAIN s : s[i] \in Msg
            OBVIOUS
        <3> QED BY <3>1, MsgFields
    <2> QED BY <1>1, <2>1, <2>2 DEF LastSet
<1>2. CASE ~ \E i \in DOMAIN s : IsLast(s, key, name, i)
    BY <1>2 DEF LastSet
<1> QED BY <1>1, <1>2

LEMMA ClientMsgType ==
    ASSUME TypeOK, NEW c \in Conns, NEW key \in Keys, NEW n \in Names, NEW p \in Nat,
           NEW g \in Nat, NEW v \in Nat
    PROVE  ClientMsg(c, key, n, p, g, v) \in Msg
<1>1. conn[c].nonce \in Nat
    BY RouterAssumption DEF TypeOK, Conn
<1> QED BY <1>1 DEF ClientMsg, Msg

LEMMA ClientMsgsType ==
    ASSUME TypeOK, NEW c \in Conns, NEW m \in ClientMsgs(c)
    PROVE  m \in Msg
<1>1. inbox[c] \in Seq(Msg) /\ conn[c].name \in Names
    BY DEF TypeOK, Conn
<1>2. 0 \in Nat /\ Values \subseteq Nat
    BY RouterAssumption
<1>3. /\ {"data", "__set_config__", "__reset__", "__delete__"} \subseteq Keys
      /\ StateKeys \subseteq Keys
      /\ {"__set_period__", "__set_group__"} \subseteq Keys
    BY DEF Keys, ControlKeys, StateKeys
<1>4. CASE m \in SubjectMsgs(c)
    <2> DEFINE n == conn[c].name
               p == LastSet(inbox[c], "__set_period__", n)
               g == LastSet(inbox[c], "__set_group__", n)
    <2>1. p \in Nat /\ g \in Nat
        BY <1>1, LastSetType
    <2>2. \/ \E q \in {0, p}, to \in {0, g} : m = ClientMsg(c, "data", n, q, to, 0)
          \/ \E k \in StateKeys, v \in Values : m = ClientMsg(c, k, n, p, 0, v)
        BY <1>4 DEF SubjectMsgs
    <2> HIDE DEF n, p, g
    <2>3. n \in Names
        BY <1>1 DEF n
    <2>4. CASE \E q \in {0, p}, to \in {0, g} : m = ClientMsg(c, "data", n, q, to, 0)
        BY <1>2, <1>3, <2>1, <2>3, <2>4, ClientMsgType
    <2>5. CASE \E k \in StateKeys, v \in Values : m = ClientMsg(c, k, n, p, 0, v)
        BY <1>2, <1>3, <2>1, <2>3, <2>5, ClientMsgType
    <2> QED BY <2>2, <2>4, <2>5
<1>5. CASE m \in AdminMsgs(c)
    <2>1. Known(inbox[c]) \subseteq Names /\ "admin" \in Names
        BY DEF Known, Names, Observers
    <2>2. \/ \E k \in {"__set_period__", "__set_group__"}, n \in Known(inbox[c]), v \in Values :
                 m = ClientMsg(c, k, n, 0, 0, v)
          \/ m = ClientMsg(c, "__set_config__", "admin", 0, 0, 0)
          \/ \E k \in {"__reset__", "__delete__"} : m = ClientMsg(c, k, "admin", 0, 0, 0)
        BY <1>5 DEF AdminMsgs
    <2> QED BY <1>2, <1>3, <2>1, <2>2, ClientMsgType
<1> QED BY <1>4, <1>5 DEF ClientMsgs

-----------------------------------------------------------------------------
(* The operators that handle a message keep everything of its type.        *)

LEMMA StampedType ==
    ASSUME NEW m \in Msg, clock \in Nat
    PROVE  /\ Stamped(m) \in Msg
           /\ Stamped(m).key = m.key /\ Stamped(m).sender = m.sender
           /\ Stamped(m).value = m.value /\ Stamped(m).nonce = m.nonce
<1> DEFINE p == IF m.key = "__set_period__" THEN m.value ELSE m.period
           g == IF m.key = "__set_group__" THEN m.value ELSE m.group
<1>1. Stamped(m) = [m EXCEPT !.time = clock + 1, !.period = p, !.group = g]
    BY DEF Stamped, Msg
<1>2. p \in Nat /\ g \in Nat /\ clock + 1 \in Nat
    BY MsgFields
<1> HIDE DEF p, g
<1> QED BY <1>1, <1>2 DEF Msg

LEMMA RegisterType ==
    ASSUME TypeOK, NEW n \in Names
    PROVE  Register(n) \in Msg /\ Register(n).nonce = nonce
<1>1. clock + 1 \in Nat /\ nonce \in Nat /\ "__register__" \in Keys
    BY RouterAssumption DEF TypeOK, Epochs, Keys, ControlKeys
<1> QED BY <1>1 DEF Register, Msg

LEMMA WithUpdateType ==
    ASSUME NEW ups \in SUBSET Msg, NEW m \in Msg
    PROVE  WithUpdate(ups, m) \in SUBSET Msg
BY DEF WithUpdate

LEMMA WithScopeType ==
    ASSUME TypeOK, NEW m \in Msg
    PROVE  WithScope(m) \in [Names -> [Epochs -> Scope]]
<1>1. m.value \in Nat /\ m.sender \in Names
    BY MsgFields
<1>2. attrs \in [Names -> [Epochs -> Scope]]
    BY DEF TypeOK
<1>3. ASSUME NEW a \in [Epochs -> Scope], NEW e
      PROVE  /\ [a EXCEPT ![e].period = m.value] \in [Epochs -> Scope]
             /\ [a EXCEPT ![e].group = m.value] \in [Epochs -> Scope]
    BY <1>1 DEF Scope
<1>4. attrs[m.sender] \in [Epochs -> Scope]
    BY <1>1, <1>2
<1>5. /\ [attrs EXCEPT ![m.sender][subjects[m.sender]].period = m.value] \in [Names -> [Epochs -> Scope]]
      /\ [attrs EXCEPT ![m.sender][subjects[m.sender]].group = m.value] \in [Names -> [Epochs -> Scope]]
    BY <1>1, <1>2, <1>3, <1>4
<1> QED BY <1>2, <1>5 DEF WithScope

LEMMA StoreObjectType ==
    ASSUME NEW db \in RedisType, NEW m \in Msg
    PROVE  /\ StoreObject(db, m) \in RedisType
           /\ StoreObject(db, m).queue = db.queue
<1>1. m.value \in Nat /\ m.sender \in Names
    BY MsgFields
<1>2. \A t \in IntTypes \cup {"config"} : <<t, m.sender>> \in Objects
    BY <1>1 DEF Objects
<1>3. \A t \in IntTypes : /\ SetInt(db, t, m.sender, m.value) \in RedisType
                          /\ SetInt(db, t, m.sender, m.value).queue = db.queue
    BY <1>1, <1>2 DEF SetInt, RedisType
<1>4. SetConfig(db, m) \in RedisType /\ SetConfig(db, m).queue = db.queue
    BY <1>1, <1>2 DEF SetConfig, RedisType
<1> QED BY <1>3, <1>4 DEF StoreObject, IntTypes

LEMMA SaveMessageType ==
    ASSUME NEW db \in RedisType, NEW m \in Msg
    PROVE  /\ SaveMessage(db, m) \in RedisType
           /\ SaveMessage(db, m).queue = Append(db.queue, m)
           /\ SaveMessage(db, m).listed
           /\ SaveMessage(db, m).objs = db.objs
           /\ SaveMessage(db, m).vals = db.vals
           /\ SaveMessage(db, m).config = db.config
<1>1. db.queue \in Seq(Msg)
    BY DEF RedisType
<1>2. Append(db.queue, m) \in Seq(Msg)
    BY <1>1
<1> QED BY <1>2 DEF SaveMessage, RedisType

LEMMA DeleteSessionType ==
    ASSUME NEW db \in RedisType
    PROVE  /\ DeleteSession(db) \in RedisType
           /\ DeleteSession(db).queue = << >>
           /\ DeleteSession(db).objs = {}
           /\ DeleteSession(db).config = db.config
<1>1. << >> \in Seq(Msg)
    OBVIOUS
<1> QED BY <1>1 DEF DeleteSession, DeleteSessionObjects, RedisType

LEMMA LRangeType ==
    ASSUME NEW s \in Seq(Msg), NEW lo \in Nat, NEW hi \in Int
    PROVE  LRange(s, lo, hi) \in Seq(Msg)
<1>1. \A a, b \in Int : 1 <= a /\ b <= Len(s) => SubSeq(s, a, b) \in Seq(Msg)
    BY SubSeqProperties
<1> QED BY <1>1 DEF LRange

LEMMA StoredIntType ==
    ASSUME TypeOK, ObjectsAreStored, NEW n \in Names
    PROVE  StoredInt(redis, "period", n) \in Nat /\ StoredInt(redis, "group", n) \in Nat
BY DEF StoredInt, ObjectsAreStored, TypeOK, RedisType, Absent, IntTypes

LEMMA DeliverType ==
    ASSUME TypeOK, NEW m \in Msg, NEW ups, NEW at, Deliver(ups, at, m)
    PROVE  recv' \in [Conns -> Seq(Msg)] /\ removals' \subseteq Conns
<1> DEFINE gets == {c \in Conns : Registered(c) /\ Matches(c, ups, at, m)}
           failed == {c \in gets : conn[c].st = "broken"}
<1>1. /\ recv' = [c \in Conns |-> IF c \in gets \ failed THEN Append(recv[c], m) ELSE recv[c]]
      /\ removals' = removals \cup failed
    BY DEF Deliver
<1>2. gets \subseteq Conns /\ failed \subseteq Conns
    OBVIOUS
<1> HIDE DEF gets, failed
<1>3. \A c \in Conns : recv[c] \in Seq(Msg) /\ Append(recv[c], m) \in Seq(Msg)
    BY DEF TypeOK
<1> QED BY <1>1, <1>2, <1>3 DEF TypeOK

LEMMA ProcessType ==
    ASSUME TypeOK, NEW m \in Msg, Process(m)
    PROVE  /\ clock' \in Nat
           /\ attrs' \in [Names -> [Epochs -> Scope]]
           /\ updates' \in [Epochs -> SUBSET Msg]
           /\ lastCfg' \in Msg \cup {NoMsg}
           /\ redis' \in RedisType
           /\ recv' \in [Conns -> Seq(Msg)]
           /\ removals' \subseteq Conns
<1> DEFINE sm == Stamped(m)
           ups == WithUpdate(updates[sid], sm)
<1>1. sm \in Msg
    BY StampedType DEF TypeOK
<1>2. /\ clock' = clock + 1
      /\ updates' = [updates EXCEPT ![sid] = ups]
      /\ attrs' = WithScope(m)
      /\ lastCfg' = IF m.key = "__set_config__" THEN sm ELSE lastCfg
      /\ redis' = SaveMessage(StoreObject(redis, sm), sm)
      /\ Deliver(ups, WithScope(m), sm)
    BY DEF Process
<1> HIDE DEF sm
<1>3. ups \in SUBSET Msg
    BY <1>1, WithUpdateType DEF TypeOK
<1> HIDE DEF ups
<1>4. attrs' \in [Names -> [Epochs -> Scope]]
    BY <1>2, WithScopeType
<1>5. redis' \in RedisType
    BY <1>1, <1>2, StoreObjectType, SaveMessageType DEF TypeOK
<1>6. recv' \in [Conns -> Seq(Msg)] /\ removals' \subseteq Conns
    BY <1>1, <1>2, DeliverType
<1> QED BY <1>1, <1>2, <1>3, <1>4, <1>5, <1>6 DEF TypeOK

-----------------------------------------------------------------------------
(* Type correctness                                                        *)

LEMMA FreeConnType == FreeConn \in Conn
BY RouterAssumption DEF FreeConn, Conn, ConnStates, Names, Observers

LEMMA InitType == Init => IInv
<1> SUFFICES ASSUME Init PROVE IInv
    OBVIOUS
<1> USE DEF Init
<1>1. 1 \in Epochs /\ 0 \in 0 .. MaxNonce
    BY RouterAssumption DEF Epochs
<1>2. EmptyRedis \in RedisType
    BY DEF EmptyRedis, RedisType, Absent
<1>3. attrs \in [Names -> [Epochs -> Scope]]
    BY DEF NoScope, Scope
<1>4. subjects \in [Names -> 0 .. MaxNonce] /\ listeners \in [Names -> Conns \cup {None}]
    BY <1>1 DEF NoSubjects, NoListeners
<1>5. conn \in [Conns -> Conn]
    BY FreeConnType
<1>6. TypeOK
    BY <1>1, <1>2, <1>3, <1>4, <1>5 DEF TypeOK, Statuses
<1>7. ResetUnderWay
    BY DEF ResetUnderWay, Resetting
<1>8. ConfigIsConfig /\ ObjectsAreStored
    BY DEF ConfigIsConfig, ObjectsAreStored, EmptyRedis
<1> QED BY <1>6, <1>7, <1>8 DEF IInv

LEMMA ConnMoves ==
    ASSUME conn \in [Conns -> Conn], NEW c \in Conns, NEW st \in ConnStates
    PROVE  [conn EXCEPT ![c].st = st] \in [Conns -> Conn]
<1>1. [conn[c] EXCEPT !.st = st] \in Conn
    BY DEF Conn
<1> QED BY <1>1

LEMMA TypeStep ==
    ASSUME IInv, [Next]_vars
    PROVE  TypeOK'
<1> USE DEF IInv, session, links
<1>0. /\ 0 \in 0 .. MaxNonce
      /\ Epochs \subseteq 0 .. MaxNonce
      /\ Epochs \subseteq Nat
    BY RouterAssumption DEF Epochs
<1>1. ASSUME NEW c \in Conns, NEW n \in Callers, Connect(c, n)
      PROVE  TypeOK'
    <2>1. [FreeConn EXCEPT !.st = IF n \in Observers THEN "joined" ELSE "asking",
                           !.open = TRUE, !.name = n] \in Conn
        BY FreeConnType, RouterAssumption DEF Conn, ConnStates
    <2> QED BY <1>1, <2>1 DEF Connect, TypeOK
<1>2. ASSUME NEW c \in Conns, ServeSubjectRequest(c)
      PROVE  TypeOK'
    <2> DEFINE n == conn[c].name
    <2>1. n \in Names /\ subjects[n] \in 0 .. MaxNonce /\ nonce \in 0 .. MaxNonce
        BY <1>0 DEF TypeOK, Conn
    <2>2. \A e \in 0 .. MaxNonce :
              [conn EXCEPT ![c].st = "joined", ![c].subj = e] \in [Conns -> Conn]
        <3>1. ASSUME NEW e \in 0 .. MaxNonce
              PROVE  [conn[c] EXCEPT !.st = "joined", !.subj = e] \in Conn
            BY DEF TypeOK, Conn, ConnStates
        <3> QED BY <3>1 DEF TypeOK
    <2>3. CASE subjects[n] # 0
        BY <1>2, <2>1, <2>2, <2>3 DEF ServeSubjectRequest, TypeOK
    <2>4. CASE subjects[n] = 0
        <3>1. /\ conn' = [conn EXCEPT ![c].st = "joined", ![c].subj = nonce]
              /\ subjects' = [subjects EXCEPT ![n] = nonce]
              /\ attrs' = [attrs EXCEPT ![n][nonce] = NoScope]
              /\ clock' = clock + 1
              /\ redis' = SaveMessage(redis, Register(n))
              /\ Deliver(updates[sid], attrs', Register(n))
              /\ UNCHANGED <<status, nonce, sid, updates, lastCfg, listeners, messages,
                             pending, inbox, logEpoch>>
            BY <1>2, <2>4 DEF ServeSubjectRequest
        <3>2. Register(n) \in Msg
            BY <2>1, RegisterType
        <3>3. redis' \in RedisType
            BY <3>1, <3>2, SaveMessageType DEF TypeOK
        <3>4. recv' \in [Conns -> Seq(Msg)] /\ removals' \subseteq Conns
            BY <3>1, <3>2, DeliverType
        <3>5. attrs' \in [Names -> [Epochs -> Scope]]
            BY <2>1, <3>1 DEF TypeOK, NoScope, Scope
        <3>6. conn' \in [Conns -> Conn]
            BY <2>1, <2>2, <3>1
        <3>7. subjects' \in [Names -> 0 .. MaxNonce] /\ clock' \in Nat
            BY <2>1, <3>1 DEF TypeOK
        <3> QED BY <3>1, <3>3, <3>4, <3>5, <3>6, <3>7 DEF TypeOK
    <2> QED BY <2>3, <2>4
<1>3. ASSUME NEW c \in Conns, RegisterListener(c)
      PROVE  TypeOK'
    <2>1. conn' \in [Conns -> Conn]
        BY <1>3, ConnMoves DEF RegisterListener, TypeOK, ConnStates
    <2> QED BY <1>3, <2>1 DEF RegisterListener, TypeOK
<1>4. ASSUME NEW c \in Conns, StartSync(c)
      PROVE  TypeOK'
    <2> DEFINE r == [conn[c] EXCEPT !.st = "syncing", !.sess = sid, !.nonce = nonce]
    <2>1. conn[c] \in Conn /\ sid \in 0 .. MaxNonce /\ nonce \in 0 .. MaxNonce
        BY <1>0 DEF TypeOK
    <2>2. r \in Conn
        BY <2>1 DEF Conn, ConnStates
    <2>3. conn' = [conn EXCEPT ![c] = r]
        BY <1>4 DEF StartSync, TypeOK
    <2>4. conn' \in [Conns -> Conn]
        BY <2>2, <2>3 DEF TypeOK
    <2> QED BY <1>4, <2>4 DEF StartSync, TypeOK
<1>5. ASSUME NEW c \in Conns, CountQueue(c)
      PROVE  TypeOK'
    <2>1. Len(redis.queue) \in Nat
        BY DEF TypeOK, RedisType
    <2> DEFINE r == [conn[c] EXCEPT !.st = "fetching", !.next = 0, !.end = Len(redis.queue)]
    <2>2. r \in Conn
        <3>1. conn[c] \in Conn
            BY DEF TypeOK
        <3>2. ASSUME NEW n \in Nat
              PROVE  [conn[c] EXCEPT !.st = "fetching", !.next = 0, !.end = n] \in Conn
            BY <3>1 DEF Conn, ConnStates
        <3> QED BY <2>1, <3>2
    <2>3. conn' = [conn EXCEPT ![c] = r]
        BY <1>5 DEF CountQueue, TypeOK
    <2>4. conn' \in [Conns -> Conn]
        BY <2>2, <2>3 DEF TypeOK
    <2> QED BY <1>5, <2>4 DEF CountQueue, TypeOK
<1>6. ASSUME NEW c \in Conns, FetchBlock(c)
      PROVE  TypeOK'
    <2> DEFINE lo == conn[c].next
               hi == IF lo + BlockSize < conn[c].end THEN lo + BlockSize ELSE conn[c].end
               block == LRange(redis.queue, lo, hi - 1)
    <2>1. /\ conn[c] \in Conn /\ lo \in Nat /\ hi \in Nat
          /\ redis.queue \in Seq(Msg) /\ pending[c] \in Seq(Msg)
        BY RouterAssumption DEF TypeOK, Conn, RedisType
    <2>2. /\ conn' = [conn EXCEPT ![c].next = hi]
          /\ pending' = [pending EXCEPT ![c] = pending[c] \o block]
        BY <1>6 DEF FetchBlock, TypeOK
    <2>3. block \in Seq(Msg)
        <3>1. hi - 1 \in Int
            BY <2>1
        <3> HIDE DEF lo, hi
        <3> QED BY <2>1, <3>1, LRangeType
    <2>4. pending[c] \o block \in Seq(Msg)
        BY <2>1, <2>3
    <2>5. [conn[c] EXCEPT !.next = hi] \in Conn
        BY <2>1 DEF Conn
    <2> HIDE DEF lo, hi, block
    <2>6. conn' \in [Conns -> Conn] /\ pending' \in [Conns -> Seq(Msg)]
        BY <2>2, <2>4, <2>5 DEF TypeOK
    <2> QED BY <1>6, <2>6 DEF FetchBlock, TypeOK
<1>7. ASSUME NEW c \in Conns, SyncMessage(c)
      PROVE  TypeOK'
    <2>1. pending[c] \in Seq(Msg) /\ inbox[c] \in Seq(Msg) /\ pending[c] # << >>
        BY <1>7 DEF SyncMessage, TypeOK
    <2>2. Head(pending[c]) \in Msg /\ Tail(pending[c]) \in Seq(Msg)
        BY <2>1
    <2>3. Append(inbox[c], Head(pending[c])) \in Seq(Msg)
        BY <2>1, <2>2
    <2> QED BY <1>7, <2>2, <2>3 DEF SyncMessage, TypeOK
<1>8. ASSUME NEW c \in Conns, FinishSync(c)
      PROVE  TypeOK'
    <2>1. conn' \in [Conns -> Conn]
        BY <1>8, ConnMoves DEF FinishSync, TypeOK, ConnStates
    <2> QED BY <1>8, <2>1 DEF FinishSync, TypeOK
<1>9. ASSUME NEW c \in Conns, SendLoop(c)
      PROVE  TypeOK'
    <2>1. recv[c] \in Seq(Msg) /\ inbox[c] \in Seq(Msg) /\ recv[c] # << >> /\ << >> \in Seq(Msg)
        BY <1>9 DEF SendLoop, TypeOK
    <2>2. Head(recv[c]) \in Msg /\ Tail(recv[c]) \in Seq(Msg)
        BY <2>1
    <2>3. Append(inbox[c], Head(recv[c])) \in Seq(Msg)
        BY <2>1, <2>2
    <2>4. [conn EXCEPT ![c].st = "broken"] \in [Conns -> Conn]
        BY ConnMoves DEF TypeOK, ConnStates
    <2> QED BY <1>9, <2>1, <2>2, <2>3, <2>4 DEF SendLoop, TypeOK
<1>10. ASSUME NEW c \in Conns, Disconnect(c)
       PROVE  TypeOK'
    <2>1. conn' \in [Conns -> Conn]
        BY <1>10 DEF Disconnect, TypeOK, Conn
    <2> QED BY <1>10, <2>1 DEF Disconnect, TypeOK
<1>11. ASSUME NEW c \in Conns, ClientSend(c)
       PROVE  TypeOK'
    <2>1. PICK m \in ClientMsgs(c) : messages' = Append(messages, m)
        BY <1>11 DEF ClientSend
    <2>2. m \in Msg
        BY ClientMsgsType
    <2>3. messages' \in Seq(Msg)
        BY <2>1, <2>2 DEF TypeOK
    <2> QED BY <1>11, <2>3 DEF ClientSend, TypeOK
<1>12. CASE HandleStale
    <2>1. Tail(messages) \in Seq(Msg)
        BY <1>12 DEF HandleStale, TypeOK
    <2> QED BY <1>12, <2>1 DEF HandleStale, TypeOK
<1>13. CASE HandleUpdate
    <2>1. Msg1 \in Msg /\ Tail(messages) \in Seq(Msg)
        BY <1>13 DEF HandleUpdate, Msg1, TypeOK
    <2>2. /\ Process(Msg1) /\ messages' = Tail(messages)
          /\ UNCHANGED <<status, nonce, sid, subjects, listeners, conn, pending, inbox,
                         logEpoch>>
        BY <1>13 DEF HandleUpdate
    <2> HIDE DEF Msg1
    <2> QED BY <2>1, <2>2, ProcessType DEF TypeOK
<1>14. CASE BeginReset
    <2>1. Msg1 \in Msg /\ messages \in Seq(Msg) /\ messages # << >> /\ messages[1] = Msg1
        BY <1>14 DEF BeginReset, Msg1, TypeOK
    <2>2. [Msg1 EXCEPT !.time = clock + 1] \in Msg
        <3>1. clock + 1 \in Nat
            BY DEF TypeOK
        <3> QED BY <2>1, <3>1 DEF Msg
    <2>3. messages' \in Seq(Msg)
        BY <1>14, <2>1, <2>2, ExceptSeq DEF BeginReset
    <2>4. nonce' \in Epochs
        BY <1>14, RouterAssumption DEF BeginReset, TypeOK, Epochs
    <2>5. subjects' \in [Names -> 0 .. MaxNonce] /\ updates' \in [Epochs -> SUBSET Msg]
        BY <1>0, <1>14 DEF BeginReset, NoSubjects, TypeOK
    <2> QED BY <1>14, <2>3, <2>4, <2>5 DEF BeginReset, TypeOK, Statuses, Resetting
<1>15. CASE ClearLog
    <2>1. redis' \in RedisType
        BY <1>15, DeleteSessionType DEF ClearLog, TypeOK
    <2> QED BY <1>15, <2>1 DEF ClearLog, TypeOK, Statuses, Resetting
<1>16. CASE ReplayConfig
    <2> DEFINE m == [lastCfg EXCEPT !.nonce = nonce]
    <2>1. lastCfg \in Msg /\ nonce \in Nat
        BY <1>0, <1>16 DEF ReplayConfig, ResetUnderWay, Resetting, TypeOK
    <2>2. m \in Msg
        BY <2>1 DEF Msg
    <2>3. /\ Process(m) /\ status' = "answering"
          /\ UNCHANGED <<nonce, sid, subjects, listeners, messages, conn, pending, inbox,
                         logEpoch>>
        BY <1>16 DEF ReplayConfig
    <2> HIDE DEF m
    <2> QED BY <2>2, <2>3, ProcessType DEF TypeOK, Statuses, Resetting
<1>17. CASE AnswerReset
    <2>1. Msg1 \in Msg /\ Tail(messages) \in Seq(Msg)
        BY <1>17 DEF AnswerReset, ResetUnderWay, Resetting, Msg1, TypeOK
    <2>2. Msg1.key = "__delete__" => nonce + 1 \in Epochs
        BY <1>17, RouterAssumption DEF AnswerReset, ResetUnderWay, Resetting, TypeOK, Epochs
    <2>3. recv' \in [Conns -> Seq(Msg)] /\ removals' \subseteq Conns
        BY <1>17, <2>1, DeliverType DEF AnswerReset
    <2>4. /\ nonce' \in Epochs /\ sid' \in Epochs /\ subjects' \in [Names -> 0 .. MaxNonce]
          /\ lastCfg' \in Msg \cup {NoMsg} /\ listeners' \in [Names -> Conns \cup {None}]
        BY <1>0, <1>17, <2>2 DEF AnswerReset, TypeOK, NoSubjects, NoListeners
    <2> QED BY <1>17, <2>1, <2>3, <2>4 DEF AnswerReset, TypeOK, Statuses
<1>18. ASSUME NEW c \in Conns, RemoveListener(c)
       PROVE  TypeOK'
    BY <1>18 DEF RemoveListener, TypeOK
<1>19. ASSUME LoseMemory, status' \in Statuses
       PROVE  TypeOK'
    <2>1. [FreeConn EXCEPT !.st = "dead"] \in Conn
        BY FreeConnType DEF Conn, ConnStates
    <2>2. conn' \in [Conns -> Conn]
        BY <1>19, <2>1, FreeConnType DEF LoseMemory
    <2>3. subjects' \in [Names -> 0 .. MaxNonce] /\ listeners' \in [Names -> Conns \cup {None}]
        BY <1>0, <1>19 DEF LoseMemory, NoSubjects, NoListeners
    <2>4. << >> \in Seq(Msg)
        OBVIOUS
    <2>5. /\ messages' \in Seq(Msg) /\ pending' \in [Conns -> Seq(Msg)]
          /\ recv' \in [Conns -> Seq(Msg)] /\ inbox' \in [Conns -> Seq(Msg)]
        BY <1>19, <2>4 DEF LoseMemory
    <2>6. lastCfg' \in Msg \cup {NoMsg} /\ removals' \subseteq Conns
        BY <1>19 DEF LoseMemory
    <2>7. UNCHANGED <<clock, nonce, sid, attrs, updates, redis, logEpoch>>
        BY <1>19 DEF LoseMemory
    <2> QED BY <1>19, <2>2, <2>3, <2>5, <2>6, <2>7 DEF TypeOK
<1>20. CASE RoutePanics
    BY <1>19, <1>20 DEF RoutePanics, Statuses
<1>21. CASE Crash
    BY <1>19, <1>21 DEF Crash, Statuses
<1>22. CASE Restart
    <2>1. nonce + 1 \in Epochs
        BY <1>22, RouterAssumption DEF Restart, TypeOK, Epochs
    <2>2. \A n \in Names : [period |-> StoredInt(redis, "period", n),
                            group |-> StoredInt(redis, "group", n)] \in Scope
        BY StoredIntType DEF Scope
    <2>3. attrs' \in [Names -> [Epochs -> Scope]]
        BY <1>22, <2>2 DEF Restart, TypeOK
    <2>4. subjects' \in [Names -> 0 .. MaxNonce]
        BY <1>0, <1>22, <2>1 DEF Restart
    <2>5. lastCfg' \in Msg \cup {NoMsg}
        <3>1. \A n \in Names : redis.config[n] \in Msg \cup {NoMsg}
            BY DEF TypeOK, RedisType
        <3>2. StoredConfigs(redis) \subseteq Msg \cup {NoMsg}
            BY <3>1 DEF StoredConfigs
        <3> QED BY <1>22, <3>2 DEF Restart
    <2> QED BY <1>22, <2>1, <2>3, <2>4, <2>5 DEF Restart, TypeOK, Statuses
<1>23. CASE UNCHANGED vars
    BY <1>23 DEF vars, TypeOK
<1> QED
    BY <1>1, <1>2, <1>3, <1>4, <1>5, <1>6, <1>7, <1>8, <1>9, <1>10, <1>11, <1>12, <1>13,
       <1>14, <1>15, <1>16, <1>17, <1>18, <1>20, <1>21, <1>22, <1>23
    DEF Next, Handle, Serve, Sync, Client

(***************************************************************************)
(* What handling a message does to the config and to the session objects.  *)
(***************************************************************************)
KeyOf(type) ==
    CASE type = "period" -> "__set_period__"
      [] type = "group" -> "__set_group__"
      [] type = "page" -> "__set_page__"
      [] type = "config" -> "__set_config__"

Stores(new, old, m) ==
    /\ \A type \in IntTypes, n \in Names :
           IF m.key = KeyOf(type) /\ n = m.sender
           THEN <<type, n>> \in new.objs /\ new.vals[<<type, n>>] = m.value
           ELSE /\ <<type, n>> \in new.objs <=> <<type, n>> \in old.objs
                /\ new.vals[<<type, n>>] = old.vals[<<type, n>>]
    /\ \A n \in Names :
           IF m.key = KeyOf("config") /\ n = m.sender
           THEN <<"config", n>> \in new.objs /\ new.config[n] = m
           ELSE /\ <<"config", n>> \in new.objs <=> <<"config", n>> \in old.objs
                /\ new.config[n] = old.config[n]

LEMMA SetIntEffect ==
    ASSUME NEW db \in RedisType, NEW type \in IntTypes, NEW n \in Names, NEW v \in Nat
    PROVE  /\ \A t \in IntTypes, k \in Names :
                  IF t = type /\ k = n
                  THEN <<t, k>> \in SetInt(db, type, n, v).objs
                       /\ SetInt(db, type, n, v).vals[<<t, k>>] = v
                  ELSE /\ <<t, k>> \in SetInt(db, type, n, v).objs <=> <<t, k>> \in db.objs
                       /\ SetInt(db, type, n, v).vals[<<t, k>>] = db.vals[<<t, k>>]
           /\ \A k \in Names :
                  <<"config", k>> \in SetInt(db, type, n, v).objs <=> <<"config", k>> \in db.objs
           /\ SetInt(db, type, n, v).config = db.config
<1> DEFINE new == SetInt(db, type, n, v)
<1>1. /\ new.objs = db.objs \cup {<<type, n>>} /\ new.config = db.config
      /\ new.vals = [db.vals EXCEPT ![<<type, n>>] = v]
      /\ db.vals \in [IntTypes \X Names -> Nat \cup {Absent}]
    BY DEF SetInt, RedisType
<1>2. \A t, k : <<t, k>> = <<type, n>> <=> t = type /\ k = n
    OBVIOUS
<1>3. "config" # type
    BY DEF IntTypes
<1> HIDE DEF new
<1>4. \A t \in IntTypes, k \in Names :
          new.vals[<<t, k>>] = IF <<t, k>> = <<type, n>> THEN v ELSE db.vals[<<t, k>>]
    BY <1>1
<1>5. \A t, k : <<t, k>> \in new.objs <=> <<t, k>> \in db.objs \/ <<t, k>> = <<type, n>>
    BY <1>1
<1> QED BY <1>1, <1>2, <1>3, <1>4, <1>5 DEF new

LEMMA StoreObjectEffect ==
    ASSUME NEW db \in RedisType, NEW m \in Msg
    PROVE  Stores(StoreObject(db, m), db, m)
<1> USE DEF Stores, KeyOf, IntTypes
<1>1. m.sender \in Names /\ m.value \in Nat
    BY MsgFields
<1>2. CASE m.key = "__set_period__"
    <2>1. StoreObject(db, m) = SetInt(db, "period", m.sender, m.value)
        BY <1>2 DEF StoreObject
    <2>2. \A t \in IntTypes : m.key = KeyOf(t) <=> t = "period"
        BY <1>2
    <2>3. m.key # KeyOf("config") /\ "period" \in IntTypes
        BY <1>2
    <2> HIDE DEF KeyOf, IntTypes
    <2> QED BY <1>1, <2>1, <2>2, <2>3, SetIntEffect
<1>3. CASE m.key = "__set_group__"
    <2>1. StoreObject(db, m) = SetInt(db, "group", m.sender, m.value)
        BY <1>3 DEF StoreObject
    <2>2. \A t \in IntTypes : m.key = KeyOf(t) <=> t = "group"
        BY <1>3
    <2>3. m.key # KeyOf("config") /\ "group" \in IntTypes
        BY <1>3
    <2> HIDE DEF KeyOf, IntTypes
    <2> QED BY <1>1, <2>1, <2>2, <2>3, SetIntEffect
<1>4. CASE m.key = "__set_page__"
    <2>1. StoreObject(db, m) = SetInt(db, "page", m.sender, m.value)
        BY <1>4 DEF StoreObject
    <2>2. \A t \in IntTypes : m.key = KeyOf(t) <=> t = "page"
        BY <1>4
    <2>3. m.key # KeyOf("config") /\ "page" \in IntTypes
        BY <1>4
    <2> HIDE DEF KeyOf, IntTypes
    <2> QED BY <1>1, <2>1, <2>2, <2>3, SetIntEffect
<1>5. CASE m.key = "__set_config__"
    BY <1>1, <1>5 DEF StoreObject, SetConfig, RedisType
<1>6. CASE m.key \notin {"__set_period__", "__set_group__", "__set_page__", "__set_config__"}
    BY <1>1, <1>6 DEF StoreObject
<1> QED BY <1>2, <1>3, <1>4, <1>5, <1>6

LEMMA ProcessEffect ==
    ASSUME TypeOK, NEW m \in Msg, Process(m)
    PROVE  /\ redis'.queue = Append(redis.queue, Stamped(m))
           /\ redis'.listed
           /\ Stores(redis', redis, Stamped(m))
<1> DEFINE db == StoreObject(redis, Stamped(m))
<1>1. Stamped(m) \in Msg /\ redis \in RedisType
    BY StampedType DEF TypeOK
<1>2. redis' = SaveMessage(db, Stamped(m))
    BY DEF Process
<1>3. db \in RedisType /\ db.queue = redis.queue /\ Stores(db, redis, Stamped(m))
    BY <1>1, StoreObjectType, StoreObjectEffect
<1> HIDE DEF db
<1>4. /\ redis'.queue = Append(db.queue, Stamped(m)) /\ redis'.listed
      /\ redis'.objs = db.objs /\ redis'.vals = db.vals /\ redis'.config = db.config
    BY <1>1, <1>2, <1>3, SaveMessageType
<1> QED BY <1>3, <1>4 DEF Stores

LEMMA ProcessStored ==
    ASSUME TypeOK, ConfigIsConfig, ObjectsAreStored, NEW m \in Msg, Process(m)
    PROVE  ConfigIsConfig' /\ ObjectsAreStored'
<1>1. /\ redis'.listed /\ Stores(redis', redis, Stamped(m))
      /\ Stamped(m) \in Msg /\ Stamped(m).key = m.key
      /\ lastCfg' = IF m.key = "__set_config__" THEN Stamped(m) ELSE lastCfg
    BY ProcessEffect, StampedType DEF TypeOK, Process
<1>2. Stamped(m).sender \in Names /\ Stamped(m).value \in Nat
    BY <1>1, MsgFields
<1>3. ConfigIsConfig'
    BY <1>1, <1>2 DEF ConfigIsConfig, Stores, KeyOf
<1>4. ObjectsAreStored'
    BY <1>1, <1>2 DEF ObjectsAreStored, Stores, KeyOf, IntTypes, Absent
<1> QED BY <1>3, <1>4

(***************************************************************************)
(* The actions of a connection and of its client, but for registrations:   *)
(* they leave Route's memory and Redis alone.                              *)
(***************************************************************************)
LEMMA LinkSteps ==
    ASSUME NEW c \in Conns, Sync(c) \/ SendLoop(c) \/ Client(c)
    PROVE  UNCHANGED <<status, session, redis, logEpoch>>
BY DEF Sync, Client, StartSync, CountQueue, FetchBlock, SyncMessage, FinishSync, SendLoop,
       Connect, Disconnect, ClientSend, session, links

LEMMA ControlStep ==
    ASSUME IInv, [Next]_vars
    PROVE  (ResetUnderWay /\ ConfigIsConfig /\ ObjectsAreStored)'
<1> USE DEF IInv, session, links
<1>1. CASE UNCHANGED <<status, nonce, subjects, lastCfg, messages, redis>>
    BY <1>1 DEF ResetUnderWay, ConfigIsConfig, ObjectsAreStored, StoredInt, Msg1, IsReset
<1>2. ASSUME NEW c \in Conns, Sync(c) \/ SendLoop(c) \/ Client(c), ~ClientSend(c)
      PROVE  UNCHANGED <<status, nonce, subjects, lastCfg, messages, redis>>
    BY <1>2 DEF Sync, Client, StartSync, CountQueue, FetchBlock, SyncMessage, FinishSync,
                SendLoop, Connect, Disconnect
<1>3. ASSUME NEW c \in Conns, ClientSend(c)
      PROVE  (ResetUnderWay /\ ConfigIsConfig /\ ObjectsAreStored)'
    <2>1. messages # << >> => messages' # << >> /\ Msg1' = Msg1
        BY <1>3, ClientMsgsType DEF ClientSend, Msg1, TypeOK
    <2>2. UNCHANGED <<status, nonce, subjects, lastCfg, redis>>
        BY <1>3 DEF ClientSend
    <2> QED BY <2>1, <2>2 DEF ResetUnderWay, ConfigIsConfig, ObjectsAreStored, IsReset
<1>4. ASSUME NEW c \in Conns, ServeSubjectRequest(c)
      PROVE  (ResetUnderWay /\ ConfigIsConfig /\ ObjectsAreStored)'
    <2>1. status' \notin Resetting /\ lastCfg' = lastCfg
        BY <1>4 DEF ServeSubjectRequest, Resetting
    <2>2. \/ redis' = redis
          \/ redis' = SaveMessage(redis, Register(conn[c].name))
        BY <1>4 DEF ServeSubjectRequest
    <2>3. redis'.objs = redis.objs /\ redis'.vals = redis.vals /\ redis'.config = redis.config
          /\ (redis.listed => redis'.listed)
        BY <2>2, RegisterType, SaveMessageType, SMTT(30) DEF TypeOK, Conn
    <2> QED BY <2>1, <2>3 DEF ResetUnderWay, ConfigIsConfig, ObjectsAreStored
<1>5. ASSUME NEW c \in Conns, RegisterListener(c) \/ RemoveListener(c)
      PROVE  UNCHANGED <<status, nonce, subjects, lastCfg, messages, redis>>
    BY <1>5 DEF RegisterListener, RemoveListener
<1>6. CASE HandleStale
    BY <1>6 DEF HandleStale, ResetUnderWay, ConfigIsConfig, ObjectsAreStored, Resetting
<1>7. CASE HandleUpdate
    <2>1. Msg1 \in Msg /\ Process(Msg1) /\ status' \notin Resetting
        BY <1>7 DEF HandleUpdate, Msg1, TypeOK, Resetting
    <2> QED BY <2>1, ProcessStored DEF ResetUnderWay
<1>8. CASE BeginReset
    <2>1. messages' # << >> /\ Msg1'.key = Msg1.key
        <3>1. messages \in Seq(Msg) /\ messages # << >> /\ messages[1] = Msg1
            BY <1>8 DEF BeginReset, Msg1, TypeOK
        <3>2. messages' = [messages EXCEPT ![1] = [Msg1 EXCEPT !.time = clock + 1]]
            BY <1>8, <3>1 DEF BeginReset
        <3>3. messages' # << >> /\ Msg1' = [Msg1 EXCEPT !.time = clock + 1]
            BY <3>1, <3>2 DEF Msg1
        <3>4. Msg1 \in Msg
            BY <3>1
        <3> QED BY <3>3, <3>4 DEF Msg
    <2>2. Msg1.key = "__delete__" => nonce' < MaxNonce
        BY <1>8, RouterAssumption DEF BeginReset, TypeOK, Epochs
    <2> QED BY <1>8, <2>1, <2>2
            DEF BeginReset, ResetUnderWay, ConfigIsConfig, ObjectsAreStored, IsReset
<1>9. CASE ClearLog
    <2>1. redis'.objs = {} /\ redis'.config = redis.config
        BY <1>9, DeleteSessionType DEF ClearLog, TypeOK
    <2> QED BY <1>9, <2>1
            DEF ClearLog, ResetUnderWay, ConfigIsConfig, ObjectsAreStored, Resetting, Msg1, IsReset
<1>10. CASE ReplayConfig
    <2> DEFINE m == [lastCfg EXCEPT !.nonce = nonce]
    <2>1. lastCfg \in Msg /\ nonce \in Nat /\ lastCfg.key = "__set_config__"
        BY <1>10, RouterAssumption
        DEF ReplayConfig, ResetUnderWay, ConfigIsConfig, Resetting, TypeOK, Epochs
    <2>2. m \in Msg
        BY <2>1 DEF Msg
    <2>3. /\ Process(m) /\ status = "replaying" /\ status' = "answering"
          /\ UNCHANGED <<nonce, subjects, messages>>
        BY <1>10 DEF ReplayConfig
    <2> HIDE DEF m
    <2>4. ConfigIsConfig' /\ ObjectsAreStored'
        BY <2>2, <2>3, ProcessStored
    <2>5. ResetUnderWay'
        BY <2>3 DEF ResetUnderWay, Resetting, Msg1, IsReset
    <2> QED BY <2>4, <2>5
<1>11. CASE AnswerReset
    BY <1>11, NamesAssumption
    DEF AnswerReset, ResetUnderWay, ConfigIsConfig, ObjectsAreStored, Resetting
<1>12. ASSUME LoseMemory, status' \notin Resetting
       PROVE  (ResetUnderWay /\ ConfigIsConfig /\ ObjectsAreStored)'
    BY <1>12 DEF LoseMemory, ResetUnderWay, ConfigIsConfig, ObjectsAreStored
<1>13. CASE RoutePanics
    BY <1>12, <1>13 DEF RoutePanics, Resetting
<1>14. CASE Crash
    BY <1>12, <1>14 DEF Crash, Resetting
<1>15. CASE Restart
    <2>1. lastCfg' = NoMsg \/ \E n \in Names : lastCfg' = redis.config[n]
        BY <1>15 DEF Restart, StoredConfigs
    <2> QED BY <1>15, <2>1 DEF Restart, ResetUnderWay, ConfigIsConfig, ObjectsAreStored, Resetting
<1> QED
    BY <1>1, <1>2, <1>3, <1>4, <1>5, <1>6, <1>7, <1>8, <1>9, <1>10, <1>11, <1>13, <1>14, <1>15
    DEF Next, Handle, Serve, vars

(***************************************************************************)
(* Every variable keeps its type, through resets, crashes and restarts: in *)
(* particular the periods and groups read back from Redis are numbers, and *)
(* the config that a reset replays exists.                                 *)
(***************************************************************************)
THEOREM Inductive == Spec => []IInv
<1>1. Init => IInv
    BY InitType
<1>2. IInv /\ [Next]_vars => IInv'
    BY TypeStep, ControlStep DEF IInv
<1> QED BY <1>1, <1>2, PTL DEF Spec

THEOREM TypeCorrect == Spec => []TypeOK
<1>1. IInv => TypeOK
    BY DEF IInv
<1> QED BY <1>1, Inductive, PTL

-----------------------------------------------------------------------------
(* The log                                                                 *)

(***************************************************************************)
(* A step leaves the log alone, appends one message of the present epoch,  *)
(* or empties it, which begins an epoch.                                   *)
(***************************************************************************)
LogKept ==
    /\ redis'.queue = redis.queue /\ logEpoch' = logEpoch /\ nonce' >= nonce
    /\ status' = "clearing" => status = "clearing" \/ nonce' > nonce

LogGrows ==
    \E m \in Msg : /\ redis'.queue = Append(redis.queue, m) /\ m.nonce = nonce
                   /\ logEpoch' = logEpoch /\ nonce' = nonce /\ status' # "clearing"

LogCleared ==
    /\ redis'.queue = << >> /\ logEpoch' = nonce /\ nonce' = nonce
    /\ status = "clearing" /\ status' # "clearing"

LEMMA LogSteps ==
    ASSUME IInv, [Next]_vars
    PROVE  LogKept \/ LogGrows \/ LogCleared
<1> USE DEF IInv, session, links
<1>0. nonce \in Nat
    BY RouterAssumption DEF TypeOK, Epochs
<1>1. CASE UNCHANGED <<status, nonce, redis, logEpoch>>
    BY <1>0, <1>1 DEF LogKept
<1>2. ASSUME NEW c \in Conns, Sync(c) \/ SendLoop(c) \/ Client(c)
      PROVE  UNCHANGED <<status, nonce, redis, logEpoch>>
    BY <1>2, LinkSteps
<1>3. ASSUME NEW c \in Conns, ServeSubjectRequest(c)
      PROVE  LogKept \/ LogGrows
    <2> DEFINE m == Register(conn[c].name)
    <2>1. m \in Msg /\ m.nonce = nonce
        BY RegisterType DEF TypeOK, Conn
    <2>2. redis' = redis \/ redis' = SaveMessage(redis, m)
        BY <1>3 DEF ServeSubjectRequest
    <2>3. UNCHANGED <<nonce, logEpoch, status>> /\ status # "clearing"
        BY <1>3 DEF ServeSubjectRequest
    <2> HIDE DEF m
    <2>4. CASE redis' = redis
        BY <1>0, <2>3, <2>4 DEF LogKept
    <2>5. CASE redis' = SaveMessage(redis, m)
        BY <2>1, <2>3, <2>5, SaveMessageType DEF LogGrows, TypeOK
    <2> QED BY <2>2, <2>4, <2>5
<1>4. ASSUME NEW c \in Conns, RegisterListener(c) \/ RemoveListener(c)
      PROVE  UNCHANGED <<status, nonce, redis, logEpoch>>
    BY <1>4 DEF RegisterListener, RemoveListener
<1>5. ASSUME NEW m \in Msg, Process(m), m.nonce = nonce, UNCHANGED <<nonce, logEpoch>>,
             status' # "clearing"
      PROVE  LogGrows
    <2>1. Stamped(m) \in Msg /\ Stamped(m).nonce = nonce
        BY <1>5, StampedType DEF TypeOK
    <2>2. redis'.queue = Append(redis.queue, Stamped(m))
        BY <1>5, ProcessEffect
    <2> QED BY <1>5, <2>1, <2>2 DEF LogGrows
<1>6. CASE HandleUpdate
    <2>1. /\ Msg1 \in Msg /\ Process(Msg1) /\ Msg1.nonce = nonce
          /\ UNCHANGED <<nonce, logEpoch>> /\ status' # "clearing"
        BY <1>6 DEF HandleUpdate, Msg1, TypeOK, Current
    <2> QED BY <1>5, <2>1
<1>7. CASE ReplayConfig
    <2> DEFINE m == [lastCfg EXCEPT !.nonce = nonce]
    <2>1. lastCfg \in Msg
        BY <1>7 DEF ReplayConfig, ResetUnderWay, Resetting, TypeOK
    <2>2. m \in Msg /\ m.nonce = nonce
        BY <1>0, <2>1 DEF Msg
    <2>3. Process(m) /\ UNCHANGED <<nonce, logEpoch>> /\ status' # "clearing"
        BY <1>7 DEF ReplayConfig
    <2> HIDE DEF m
    <2> QED BY <1>5, <2>2, <2>3
<1>8. CASE ClearLog
    BY <1>8, DeleteSessionType DEF ClearLog, LogCleared, TypeOK
<1>9. CASE HandleStale \/ BeginReset \/ AnswerReset \/ Crash \/ Restart \/ RoutePanics
    BY <1>0, <1>9
    DEF LogKept, HandleStale, BeginReset, AnswerReset, Crash, Restart, RoutePanics, LoseMemory
<1> QED
    BY <1>1, <1>2, <1>3, <1>4, <1>6, <1>7, <1>8, <1>9 DEF Next, Handle, Serve, vars

(***************************************************************************)
(* A message that was sent before a reset is never in the log after it,    *)
(* however late Route gets to it and whatever the reset is interrupted by. *)
(***************************************************************************)
THEOREM LogStaysFresh == Spec => []LogIsFresh
<1>1. Init => LogInv
    BY DEF Init, LogInv, LogIsFresh, EmptyRedis
<1>2. IInv /\ LogInv /\ [Next]_vars => LogInv'
    <2> SUFFICES ASSUME IInv, LogInv, [Next]_vars PROVE LogInv'
        OBVIOUS
    <2>1. nonce \in Nat /\ logEpoch \in Nat /\ nonce' \in Nat /\ redis.queue \in Seq(Msg)
        BY TypeStep, RouterAssumption DEF IInv, TypeOK, RedisType, Epochs
    <2>2. CASE LogKept
        BY <2>1, <2>2 DEF LogInv, LogIsFresh, LogKept
    <2>3. CASE LogGrows
        <3>1. PICK m \in Msg : /\ redis'.queue = Append(redis.queue, m) /\ m.nonce = nonce
                               /\ logEpoch' = logEpoch /\ nonce' = nonce
            BY <2>3 DEF LogGrows
        <3>2. \A i \in DOMAIN redis'.queue :
                  (i \in DOMAIN redis.queue /\ redis'.queue[i] = redis.queue[i])
                  \/ redis'.queue[i] = m
            BY <2>1, <3>1
        <3> QED BY <2>1, <3>1, <3>2 DEF LogInv, LogIsFresh
    <2>4. CASE LogCleared
        BY <2>1, <2>4 DEF LogInv, LogIsFresh, LogCleared
    <2> QED BY <2>2, <2>3, <2>4, LogSteps
<1>3. LogInv => LogIsFresh
    BY DEF LogInv
<1> QED BY <1>1, <1>2, <1>3, Inductive, PTL DEF Spec

\* No message is of a later epoch than the session, and a reset has drawn
\* its nonce before it empties the log.
EpochInv ==
    /\ LogInv
    /\ \A i \in DOMAIN redis.queue : redis.queue[i].nonce <= nonce
    /\ status = "clearing" => logEpoch < nonce

LEMMA EpochStep ==
    ASSUME IInv, EpochInv, [Next]_vars
    PROVE  EpochInv' /\ [Log!Next]_<<redis.queue, logEpoch>>
<1>1. /\ nonce \in Nat /\ logEpoch \in Nat /\ nonce' \in Nat /\ logEpoch' \in Nat
      /\ redis.queue \in Seq(Msg) /\ redis'.queue \in Seq(Msg)
    BY TypeStep, RouterAssumption DEF IInv, TypeOK, RedisType, Epochs
<1>2. \A i \in DOMAIN redis.queue : redis.queue[i].nonce \in Nat
    <2>1. \A m \in Msg : m.nonce \in Nat
        BY DEF Msg
    <2>2. \A i \in DOMAIN redis.queue : redis.queue[i] \in Msg
        BY <1>1
    <2> QED BY <2>1, <2>2
<1>3. CASE LogKept
    BY <1>1, <1>2, <1>3 DEF LogKept, EpochInv, LogInv, LogIsFresh
<1>4. CASE LogGrows
    <2>1. PICK m \in Msg : /\ redis'.queue = Append(redis.queue, m) /\ m.nonce = nonce
                           /\ logEpoch' = logEpoch /\ nonce' = nonce /\ status' # "clearing"
        BY <1>4 DEF LogGrows
    <2>2. /\ \A i \in DOMAIN redis'.queue :
                (i \in DOMAIN redis.queue /\ redis'.queue[i] = redis.queue[i])
                \/ redis'.queue[i] = m
          /\ redis'.queue # << >>
          /\ redis'.queue[Len(redis'.queue)] = m
        BY <1>1, <2>1
    <2>3. EpochInv'
        BY <1>1, <1>2, <2>1, <2>2 DEF EpochInv, LogInv, LogIsFresh
    <2>4. Log!Write
        BY <1>1, <2>1, <2>2 DEF Log!Write, EpochInv, LogInv
    <2> QED BY <2>3, <2>4 DEF Log!Next
<1>5. CASE LogCleared
    <2>1. EpochInv'
        BY <1>1, <1>5 DEF LogCleared, EpochInv, LogInv, LogIsFresh
    <2>2. Log!Reset
        BY <1>1, <1>5 DEF LogCleared, EpochInv, Log!Reset
    <2> QED BY <2>1, <2>2 DEF Log!Next
<1> QED BY <1>3, <1>4, <1>5, LogSteps

(***************************************************************************)
(* What the router keeps in Redis is a session's log: it is written at its *)
(* end, in the order of the epochs, and only a reset empties it, wherever  *)
(* the process dies.                                                       *)
(***************************************************************************)
THEOREM RouterKeepsALog == Spec => IsSessionLog
<1>1. Init => EpochInv /\ Log!Init
    BY DEF Init, EpochInv, LogInv, LogIsFresh, EmptyRedis, Log!Init
<1>2. IInv /\ EpochInv /\ [Next]_vars => EpochInv' /\ [Log!Next]_<<redis.queue, logEpoch>>
    BY EpochStep
<1> QED BY <1>1, <1>2, Inductive, PTL DEF Spec, IsSessionLog, Log!Spec

-----------------------------------------------------------------------------
(* What is in memory is in Redis                                           *)

LEMMA ProcessScopes ==
    ASSUME TypeOK, ScopesAreStored, NothingForgotten, NEW m \in Msg, Process(m),
           NeedsSubject(m) => subjects[m.sender] # 0, subjects' = subjects
    PROVE  ScopesAreStored' /\ NothingForgotten'
<1>1. /\ Stores(redis', redis, Stamped(m))
      /\ Stamped(m).key = m.key /\ Stamped(m).sender = m.sender /\ Stamped(m).value = m.value
      /\ attrs' = WithScope(m)
    BY ProcessEffect, StampedType DEF TypeOK, Process
<1>2. m.sender \in Names /\ m.value \in Nat
    BY MsgFields
<1>3. \A n \in Names : \A type \in {"period", "group"} :
          IF m.key = KeyOf(type) /\ n = m.sender
          THEN StoredInt(redis', type, n) = m.value
          ELSE StoredInt(redis', type, n) = StoredInt(redis, type, n)
    BY <1>1 DEF Stores, StoredInt, IntTypes
<1>4. \A n \in Names : subjects[n] # 0 => subjects[n] \in Epochs
    BY RouterAssumption DEF TypeOK, Epochs
<1>5. ASSUME NEW n \in Names, subjects[n] # 0
      PROVE  attrs'[n][subjects[n]] = [period |-> StoredInt(redis', "period", n),
                                       group |-> StoredInt(redis', "group", n)]
    <2>1. attrs[n][subjects[n]] = [period |-> StoredInt(redis, "period", n),
                                   group |-> StoredInt(redis, "group", n)]
        BY <1>5 DEF ScopesAreStored
    <2>2. attrs \in [Names -> [Epochs -> Scope]] /\ subjects[n] \in Epochs
        BY <1>4, <1>5 DEF TypeOK
    <2>3. CASE n = m.sender /\ m.key = "__set_period__"
        <3>1. attrs'[n][subjects[n]] = [attrs[n][subjects[n]] EXCEPT !.period = m.value]
            BY <1>1, <1>2, <2>2, <2>3 DEF WithScope
        <3>2. /\ StoredInt(redis', "period", n) = m.value
              /\ StoredInt(redis', "group", n) = StoredInt(redis, "group", n)
            BY <1>3, <2>3 DEF KeyOf
        <3> QED BY <2>1, <3>1, <3>2
    <2>4. CASE n = m.sender /\ m.key = "__set_group__"
        <3>1. attrs'[n][subjects[n]] = [attrs[n][subjects[n]] EXCEPT !.group = m.value]
            BY <1>1, <1>2, <2>2, <2>4 DEF WithScope
        <3>2. /\ StoredInt(redis', "group", n) = m.value
              /\ StoredInt(redis', "period", n) = StoredInt(redis, "period", n)
            BY <1>3, <2>4 DEF KeyOf
        <3> QED BY <2>1, <3>1, <3>2
    <2>5. CASE n # m.sender \/ m.key \notin {"__set_period__", "__set_group__"}
        <3>1. attrs'[n][subjects[n]] = attrs[n][subjects[n]]
            BY <1>1, <1>2, <2>2, <2>5 DEF WithScope
        <3>2. /\ StoredInt(redis', "group", n) = StoredInt(redis, "group", n)
              /\ StoredInt(redis', "period", n) = StoredInt(redis, "period", n)
            BY <1>3, <2>5 DEF KeyOf
        <3> QED BY <2>1, <3>1, <3>2
    <2> QED BY <2>3, <2>4, <2>5
<1>6. NothingForgotten'
    BY <1>1 DEF NothingForgotten, Stores, KeyOf, IntTypes, NeedsSubject
<1> QED BY <1>5, <1>6 DEF ScopesAreStored

LEMMA ProcessConfig ==
    ASSUME TypeOK, NEW m \in Msg, Process(m), m.key = "__set_config__" \/ ConfigIsStored
    PROVE  ConfigIsStored'
<1>1. /\ Stores(redis', redis, Stamped(m)) /\ redis'.listed
      /\ Stamped(m).key = m.key /\ Stamped(m).sender = m.sender
      /\ lastCfg' = IF m.key = "__set_config__" THEN Stamped(m) ELSE lastCfg
      /\ m.sender \in Names
    BY ProcessEffect, StampedType, MsgFields DEF TypeOK, Process
<1>2. CASE m.key = "__set_config__"
    <2>1. <<"config", m.sender>> \in redis'.objs /\ redis'.config[m.sender] = lastCfg'
        BY <1>1, <1>2 DEF Stores, KeyOf
    <2> QED BY <1>1, <2>1 DEF ConfigIsStored, StoredConfigs
<1>3. CASE m.key # "__set_config__"
    <2>1. \A n \in Names : /\ <<"config", n>> \in redis'.objs <=> <<"config", n>> \in redis.objs
                           /\ redis'.config[n] = redis.config[n]
        BY <1>1, <1>3 DEF Stores, KeyOf
    <2>2. ASSUME lastCfg # NoMsg
          PROVE  lastCfg \in StoredConfigs(redis')
        <3>1. PICK n \in Names : <<"config", n>> \in redis.objs /\ lastCfg = redis.config[n]
            BY <1>3, <2>2 DEF ConfigIsStored, StoredConfigs
        <3>2. <<"config", n>> \in redis'.objs /\ lastCfg = redis'.config[n]
            BY <2>1, <3>1
        <3>3. n \in {k \in Names : <<"config", k>> \in redis'.objs}
            BY <3>2
        <3> QED BY <3>2, <3>3 DEF StoredConfigs
    <2> QED BY <1>1, <1>3, <2>2 DEF ConfigIsStored
<1> QED BY <1>2, <1>3

LEMMA MemStep ==
    ASSUME IInv, MemInv, [Next]_vars
    PROVE  MemInv'
<1> USE DEF IInv, session, links
<1>1. CASE UNCHANGED <<status, subjects, attrs, lastCfg, redis>>
    BY <1>1 DEF MemInv, ScopesAreStored, NothingForgotten, ConfigIsStored, StoredInt, StoredConfigs
<1>2. ASSUME NEW c \in Conns, Sync(c) \/ SendLoop(c) \/ Client(c)
      PROVE  UNCHANGED <<status, subjects, attrs, lastCfg, redis>>
    BY <1>2, LinkSteps
<1>3. ASSUME NEW c \in Conns, RegisterListener(c) \/ RemoveListener(c)
      PROVE  UNCHANGED <<status, subjects, attrs, lastCfg, redis>>
    BY <1>3 DEF RegisterListener, RemoveListener
<1>4. CASE HandleStale
    BY <1>1, <1>4 DEF HandleStale
<1>5. ASSUME NEW c \in Conns, ServeSubjectRequest(c)
      PROVE  MemInv'
    <2> DEFINE n == conn[c].name
    <2>1. n \in Names /\ nonce \in Epochs /\ nonce # 0 /\ status = "running"
        BY <1>5, RouterAssumption DEF ServeSubjectRequest, TypeOK, Conn, Epochs
    <2>2. CASE subjects[n] # 0
        BY <1>1, <1>5, <2>2 DEF ServeSubjectRequest
    <2>3. CASE subjects[n] = 0
        <3>1. /\ subjects' = [subjects EXCEPT ![n] = nonce]
              /\ attrs' = [attrs EXCEPT ![n][nonce] = NoScope]
              /\ redis' = SaveMessage(redis, Register(n))
              /\ UNCHANGED <<status, lastCfg>>
            BY <1>5, <2>3 DEF ServeSubjectRequest
        <3>2. redis'.objs = redis.objs /\ redis'.vals = redis.vals /\ redis'.config = redis.config
              /\ redis'.listed
            BY <2>1, <3>1, RegisterType, SaveMessageType DEF TypeOK
        <3>3. ScopesAreStored /\ NothingForgotten /\ ConfigIsStored
            BY <2>1 DEF MemInv
        <3>4. \A k \in Names : /\ StoredInt(redis', "period", k) = StoredInt(redis, "period", k)
                               /\ StoredInt(redis', "group", k) = StoredInt(redis, "group", k)
            BY <3>2 DEF StoredInt
        <3>5. StoredInt(redis, "period", n) = 0 /\ StoredInt(redis, "group", n) = 0
            BY <2>1, <2>3, <3>3 DEF NothingForgotten, StoredInt
        <3> HIDE DEF n
        <3>6. attrs'[n][subjects'[n]] = NoScope
            BY <2>1, <3>1 DEF TypeOK
        <3>7. \A k \in Names : k # n => attrs'[k] = attrs[k] /\ subjects'[k] = subjects[k]
            BY <3>1 DEF TypeOK
        <3>8. ScopesAreStored'
            BY <3>3, <3>4, <3>5, <3>6, <3>7 DEF ScopesAreStored, NoScope
        <3>9. NothingForgotten'
            BY <2>1, <3>1, <3>2, <3>3, <3>7 DEF NothingForgotten, TypeOK
        <3>10. ConfigIsStored'
            BY <3>1, <3>2, <3>3 DEF ConfigIsStored, StoredConfigs
        <3> QED BY <3>8, <3>9, <3>10 DEF MemInv
    <2> QED BY <2>2, <2>3
<1>6. CASE HandleUpdate
    <2>1. /\ Msg1 \in Msg /\ Process(Msg1) /\ subjects' = subjects /\ status = "running"
          /\ NeedsSubject(Msg1) => subjects[Msg1.sender] # 0
        BY <1>6 DEF HandleUpdate, Msg1, TypeOK
    <2>2. ScopesAreStored /\ NothingForgotten /\ ConfigIsStored
        BY <2>1 DEF MemInv
    <2> QED BY <2>1, <2>2, ProcessScopes, ProcessConfig DEF MemInv
<1>7. CASE BeginReset
    BY <1>7 DEF BeginReset, MemInv
<1>8. CASE ClearLog
    <2>1. redis'.objs = {} /\ subjects' = NoSubjects
        BY <1>8, DeleteSessionType DEF ClearLog, ResetUnderWay, Resetting, TypeOK
    <2>2. ScopesAreStored' /\ NothingForgotten'
        BY <2>1 DEF ScopesAreStored, NothingForgotten, NoSubjects
    <2>3. status' = "answering" => ConfigIsStored'
        BY <1>8 DEF ClearLog, ConfigIsStored
    <2>4. status' # "running"
        BY <1>8 DEF ClearLog
    <2> QED BY <2>2, <2>3, <2>4 DEF MemInv
<1>9. CASE ReplayConfig
    <2> DEFINE m == [lastCfg EXCEPT !.nonce = nonce]
    <2>1. /\ lastCfg \in Msg /\ nonce \in Nat /\ lastCfg.key = "__set_config__"
          /\ status = "replaying"
        BY <1>9, RouterAssumption
        DEF ReplayConfig, ResetUnderWay, ConfigIsConfig, Resetting, TypeOK, Epochs
    <2>2. m \in Msg /\ m.key = "__set_config__"
        BY <2>1 DEF Msg
    <2>3. Process(m) /\ subjects' = subjects
        BY <1>9 DEF ReplayConfig
    <2> HIDE DEF m
    <2>4. ~NeedsSubject(m) /\ ScopesAreStored /\ NothingForgotten
        BY <2>1, <2>2 DEF MemInv, NeedsSubject
    <2> QED BY <2>2, <2>3, <2>4, ProcessScopes, ProcessConfig DEF MemInv
<1>10. CASE AnswerReset
    <2>1. status = "answering" /\ UNCHANGED <<attrs, redis>> /\ subjects = NoSubjects
        BY <1>10 DEF AnswerReset, ResetUnderWay, Resetting
    <2>2. subjects' = subjects /\ (lastCfg' = lastCfg \/ lastCfg' = NoMsg)
        BY <1>10, <2>1 DEF AnswerReset
    <2> QED BY <2>1, <2>2
            DEF MemInv, ScopesAreStored, NothingForgotten, ConfigIsStored, StoredInt, StoredConfigs
<1>11. CASE RoutePanics \/ Crash
    BY <1>11 DEF RoutePanics, Crash, MemInv
<1>12. CASE Restart
    <2> DEFINE n1 == nonce + 1
               stored == IF redis.listed THEN StoredSubjects(redis) ELSE {}
    <2>1. n1 \in Epochs /\ n1 # 0
        BY <1>12, RouterAssumption DEF Restart, TypeOK, Epochs
    <2>2. /\ subjects' = [n \in Names |-> IF n \in stored THEN n1 ELSE 0]
          /\ attrs' = [n \in Names |-> [attrs[n] EXCEPT ![n1] =
                 [period |-> StoredInt(redis, "period", n),
                  group |-> StoredInt(redis, "group", n)]]]
          /\ redis' = redis
          /\ lastCfg' \in IF redis.listed THEN StoredConfigs(redis) ELSE {NoMsg}
        BY <1>12 DEF Restart
    <2>3. \A n \in Names : n \notin stored => /\ <<"period", n>> \notin redis.objs
                                              /\ <<"group", n>> \notin redis.objs
        BY DEF StoredSubjects, ObjectsAreStored
    <2> HIDE DEF n1, stored
    <2>4. ScopesAreStored'
        BY <2>1, <2>2 DEF ScopesAreStored, TypeOK
    <2>5. NothingForgotten'
        BY <2>1, <2>2, <2>3 DEF NothingForgotten
    <2>6. ConfigIsStored'
        BY <2>2 DEF ConfigIsStored
    <2> QED BY <2>4, <2>5, <2>6 DEF MemInv
<1> QED
    BY <1>1, <1>2, <1>3, <1>4, <1>5, <1>6, <1>7, <1>8, <1>9, <1>10, <1>11, <1>12
    DEF Next, Handle, Serve, vars

(***************************************************************************)
(* Whenever Route waits for its next message, the period and group of      *)
(* every subject and the last config are those that NewRouter would        *)
(* restore: a crash then loses none of them.                               *)
(***************************************************************************)
THEOREM MemoryStaysStored == Spec => []MemoryIsStored
<1>1. Init => MemInv
    BY DEF Init, MemInv, ScopesAreStored, NothingForgotten, ConfigIsStored, NoSubjects, EmptyRedis
<1>2. IInv /\ MemInv /\ [Next]_vars => MemInv'
    BY MemStep
<1>3. IInv /\ MemInv => MemoryIsStored
    BY DEF IInv, MemInv, MemoryIsStored, ScopesAreStored, ConfigIsStored, ObjectsAreStored
<1> QED BY <1>1, <1>2, <1>3, Inductive, PTL DEF Spec

-----------------------------------------------------------------------------
(***************************************************************************)
(* The listeners.  NoGap says why Sync may read the log without stopping   *)
(* Route.  It is inductive once the types are known.  Most steps move a    *)
(* message from one place where it is accounted for to the next; the one   *)
(* that counts the log accounts for all of it; and whatever is logged      *)
(* after that is put into recv in the same step, because the listener is   *)
(* registered.                                                             *)
(*                                                                         *)
(* StaysRegistered rests on the fact that only listeners whose connection  *)
(* is broken ever wait to be removed.                                      *)
(***************************************************************************)

Attended(c) == Registered(c) /\ conn[c].open /\ conn[c].st \in {"fetching", "live"}

GapFree(c) ==
    \A i \in DOMAIN redis.queue :
        ForAll(conn[c].name, redis.queue[i]) => redis.queue[i] \in Accounted(c)

LEMMA NoGapParts == NoGap <=> \A c \in Conns : Attended(c) => GapFree(c)
BY DEF NoGap, Attended, GapFree

-----------------------------------------------------------------------------
(* Sequences and the sets of their elements                                *)

LEMMA InRange ==
    ASSUME NEW S, NEW s \in Seq(S)
    PROVE  /\ \A i \in 1 .. Len(s) : s[i] \in Range(s)
           /\ \A x \in Range(s) : \E i \in 1 .. Len(s) : x = s[i]
BY DEF Range

LEMMA RangeOfAppend ==
    ASSUME NEW S, NEW s \in Seq(S), NEW e \in S
    PROVE  Range(Append(s, e)) = Range(s) \cup {e}
BY AppendProperties DEF Range

LEMMA RangeOfConcat ==
    ASSUME NEW S, NEW s \in Seq(S), NEW t \in Seq(S)
    PROVE  Range(s) \subseteq Range(s \o t) /\ Range(t) \subseteq Range(s \o t)
<1>1. \A i \in 1 .. Len(s) : (s \o t)[i] = s[i] /\ i \in 1 .. Len(s \o t)
    BY ConcatProperties
<1>2. \A i \in 1 .. Len(t) : (s \o t)[Len(s) + i] = t[i] /\ Len(s) + i \in 1 .. Len(s \o t)
    BY ConcatProperties
<1>3. s \o t \in Seq(S)
    OBVIOUS
<1>4. \A i \in 1 .. Len(s \o t) : (s \o t)[i] \in Range(s \o t)
    BY <1>3, InRange
<1>5. \A i \in 1 .. Len(s) : s[i] \in Range(s \o t)
    BY <1>1, <1>4
<1>6. \A i \in 1 .. Len(t) : t[i] \in Range(s \o t)
    BY <1>2, <1>4
<1> QED BY <1>5, <1>6, InRange

LEMMA RangeOfTail ==
    ASSUME NEW S, NEW s \in Seq(S), s # << >>
    PROVE  Range(s) = {Head(s)} \cup Range(Tail(s))
<1>1. Tail(s) \in Seq(S) /\ Len(Tail(s)) = Len(s) - 1 /\ Len(s) \in Nat /\ Len(s) > 0
    OBVIOUS
<1>2. \A i \in 1 .. Len(Tail(s)) : Tail(s)[i] = s[i + 1]
    OBVIOUS
<1>3. Range(Tail(s)) \subseteq Range(s) /\ Head(s) \in Range(s)
    BY <1>1, <1>2 DEF Range
<1>4. ASSUME NEW i \in 1 .. Len(s)
      PROVE  s[i] \in {Head(s)} \cup Range(Tail(s))
    <2>1. CASE i = 1
        BY <2>1
    <2>2. CASE i # 1
        <3>1. i - 1 \in 1 .. Len(Tail(s)) /\ Tail(s)[i - 1] = s[i]
            BY <1>1, <1>2, <2>2
        <3> QED BY <1>1, <3>1, InRange
    <2> QED BY <2>1, <2>2
<1> QED BY <1>3, <1>4 DEF Range

(***************************************************************************)
(* The block from lo to hi - 1 has all the messages of the log in between. *)
(***************************************************************************)
LEMMA RangeOfBlock ==
    ASSUME NEW s \in Seq(Msg), NEW lo \in Nat, NEW hi \in Nat
    PROVE  \A i \in DOMAIN s : lo < i /\ i <= hi => s[i] \in Range(LRange(s, lo, hi - 1))
<1> DEFINE last == IF hi < Len(s) THEN hi ELSE Len(s)
           b == SubSeq(s, lo + 1, last)
<1>1. LRange(s, lo, hi - 1) = b
    BY DEF LRange
<1>2. last \in Int /\ last <= Len(s) /\ (\A i \in lo + 1 .. last : s[i] \in Msg)
    OBVIOUS
<1>3. /\ b \in Seq(Msg)
      /\ Len(b) = IF lo + 1 <= last THEN last - lo ELSE 0
      /\ \A i \in 1 .. last - lo : b[i] = s[lo + i]
    BY <1>2, SubSeqProperties
<1>4. ASSUME NEW i \in DOMAIN s, lo < i, i <= hi
      PROVE  s[i] \in Range(b)
    <2>1. i - lo \in 1 .. Len(b) /\ b[i - lo] = s[i]
        BY <1>2, <1>3, <1>4
    <2> QED BY <1>3, <2>1 DEF Range
<1> QED BY <1>1, <1>4

-----------------------------------------------------------------------------
(* Delivery                                                                *)

LEMMA ForAllMatches ==
    ASSUME NEW name, NEW scope, NEW ups, NEW m, ForAll(name, m)
    PROVE  match(name, scope, ups, m)
BY DEF ForAll, match

LEMMA DeliverReaches ==
    ASSUME TypeOK, NEW m \in Msg, NEW ups, NEW at, Deliver(ups, at, m), NEW c \in Conns
    PROVE  /\ Range(recv[c]) \subseteq Range(recv'[c])
           /\ Attended(c) /\ ForAll(conn[c].name, m) => m \in Range(recv'[c])
<1>1. recv[c] \in Seq(Msg)
    BY DEF TypeOK
<1>2. Range(Append(recv[c], m)) = Range(recv[c]) \cup {m}
    BY <1>1, RangeOfAppend
<1>3. recv'[c] = IF Registered(c) /\ Matches(c, ups, at, m) /\ conn[c].st # "broken"
                 THEN Append(recv[c], m) ELSE recv[c]
    BY DEF Deliver
<1>4. Attended(c) /\ ForAll(conn[c].name, m) => Registered(c) /\ Matches(c, ups, at, m)
                                                /\ conn[c].st # "broken"
    BY ForAllMatches DEF Attended, Matches
<1> QED BY <1>2, <1>3, <1>4

(***************************************************************************)
(* What is accounted for stays so when nothing is taken away, and what is  *)
(* logged is accounted for when it is delivered.                           *)
(***************************************************************************)
LEMMA GapKept ==
    ASSUME NEW c \in Conns, GapFree(c), redis'.queue = redis.queue,
           conn'[c].name = conn[c].name,
           \A m \in Accounted(c) : ForAll(conn[c].name, m) => m \in Accounted(c)'
    PROVE  GapFree(c)'
BY DEF GapFree

LEMMA GapGrows ==
    ASSUME TypeOK, NEW c \in Conns, Attended(c), GapFree(c),
           NEW m \in Msg, NEW ups, NEW at, Deliver(ups, at, m),
           redis'.queue = Append(redis.queue, m),
           conn'[c] = conn[c], inbox' = inbox, pending' = pending
    PROVE  GapFree(c)'
<1>1. redis.queue \in Seq(Msg)
    BY DEF TypeOK, RedisType
<1>2. \A i \in DOMAIN redis.queue : i \in DOMAIN redis'.queue /\ redis'.queue[i] = redis.queue[i]
    BY <1>1
<1>3. \A i \in DOMAIN redis'.queue :
          redis'.queue[i] = m \/ (i \in DOMAIN redis.queue /\ redis'.queue[i] = redis.queue[i])
    BY <1>1
<1>4. Accounted(c) \subseteq Accounted(c)'
    BY <1>2, DeliverReaches DEF Accounted
<1>5. ForAll(conn[c].name, m) => m \in Accounted(c)'
    BY DeliverReaches DEF Accounted
<1> QED BY <1>3, <1>4, <1>5 DEF GapFree

-----------------------------------------------------------------------------
(* Every step                                                              *)

(***************************************************************************)
(* The steps of a connection, for the connection itself.                   *)
(***************************************************************************)
LEMMA OwnStep ==
    ASSUME TypeOK, NEW c \in Conns, Attended(c) => GapFree(c), Attended(c)',
           Sync(c) \/ SendLoop(c) \/ Client(c)
    PROVE  GapFree(c)'
<1> USE DEF session, links
<1>0. /\ conn \in [Conns -> Conn] /\ pending[c] \in Seq(Msg) /\ recv[c] \in Seq(Msg)
      /\ inbox[c] \in Seq(Msg) /\ redis.queue \in Seq(Msg)
      /\ inbox \in [Conns -> Seq(Msg)] /\ pending \in [Conns -> Seq(Msg)]
      /\ recv \in [Conns -> Seq(Msg)]
    BY DEF TypeOK, RedisType
<1>1. CASE StartSync(c)
    BY <1>0, <1>1 DEF StartSync, Attended
<1>2. CASE CountQueue(c)
    <2>1. /\ conn'[c].next = 0 /\ conn'[c].end = Len(redis.queue) /\ redis' = redis
          /\ conn'[c].name = conn[c].name
        BY <1>0, <1>2 DEF CountQueue, Conn
    <2>2. \A i \in DOMAIN redis.queue : conn'[c].next < i /\ i <= conn'[c].end
        BY <1>0, <2>1
    <2> QED BY <2>1, <2>2 DEF GapFree, Accounted
<1>3. CASE FetchBlock(c)
    <2> DEFINE lo == conn[c].next
               hi == IF lo + BlockSize < conn[c].end THEN lo + BlockSize ELSE conn[c].end
               block == LRange(redis.queue, lo, hi - 1)
    <2>1. /\ conn' = [conn EXCEPT ![c].next = hi] /\ redis' = redis
          /\ pending'[c] = pending[c] \o block /\ inbox' = inbox /\ recv' = recv
        BY <1>0, <1>3 DEF FetchBlock
    <2>2. lo \in Nat /\ hi \in Nat /\ conn[c].end \in Nat
        BY <1>0, RouterAssumption DEF Conn
    <2>3. conn'[c].next = hi /\ conn'[c].end = conn[c].end /\ conn'[c].name = conn[c].name
          /\ conn'[c].st = conn[c].st /\ conn'[c].open = conn[c].open
        BY <1>0, <2>1 DEF Conn
    <2>4. Attended(c)
        BY <1>0, <1>3, <2>3 DEF Attended, Registered, FetchBlock
    <2> HIDE DEF hi
    <2>5. block \in Seq(Msg)
        <3>1. hi - 1 \in Int
            BY <2>2
        <3> HIDE DEF lo
        <3> QED BY <1>0, <2>2, <3>1, LRangeType
    <2>6. Range(pending[c]) \subseteq Range(pending'[c]) /\ Range(block) \subseteq Range(pending'[c])
        BY <1>0, <2>1, <2>5, RangeOfConcat
    <2>7. \A i \in DOMAIN redis.queue : lo < i /\ i <= hi => redis.queue[i] \in Range(block)
        BY <1>0, <2>2, RangeOfBlock
    <2>8. \A i \in DOMAIN redis.queue : i \in Nat
        BY <1>0
    <2> HIDE DEF lo, block
    <2>9. Accounted(c) \subseteq Accounted(c)'
        BY <2>1, <2>2, <2>3, <2>6, <2>7, <2>8 DEF Accounted, lo
    <2> QED BY <2>1, <2>3, <2>4, <2>9, GapKept
<1>4. CASE SyncMessage(c)
    <2> DEFINE m == Head(pending[c])
    <2>1. /\ pending[c] # << >> /\ pending'[c] = Tail(pending[c])
          /\ UNCHANGED <<redis, conn, recv, listeners>>
          /\ inbox' = IF conn[c].open /\ Matches(c, updates[conn[c].sess], attrs, m)
                      THEN [inbox EXCEPT ![c] = Append(inbox[c], m)]
                      ELSE inbox
        BY <1>0, <1>4 DEF SyncMessage
    <2>2. Attended(c)
        BY <2>1 DEF Attended, Registered
    <2>3. m \in Msg
        BY <1>0, <2>1
    <2>4. Range(pending[c]) = {m} \cup Range(pending'[c])
        BY <1>0, <2>1, RangeOfTail
    <2>5. Range(Append(inbox[c], m)) = Range(inbox[c]) \cup {m}
        BY <1>0, <2>3, RangeOfAppend
    <2>6. ForAll(conn[c].name, m) => Matches(c, updates[conn[c].sess], attrs, m)
        BY ForAllMatches DEF Matches
    <2> HIDE DEF m
    <2>7. /\ Range(inbox[c]) \subseteq Range(inbox'[c])
          /\ ForAll(conn[c].name, m) => m \in Range(inbox'[c])
        BY <1>0, <2>1, <2>2, <2>5, <2>6 DEF Attended
    <2>8. \A x \in Accounted(c) : ForAll(conn[c].name, x) => x \in Accounted(c)'
        BY <2>1, <2>4, <2>7 DEF Accounted
    <2> QED BY <2>1, <2>2, <2>8, GapKept
<1>5. CASE FinishSync(c)
    <2>1. /\ conn' = [conn EXCEPT ![c].st = "live"] /\ conn[c].st = "fetching"
          /\ UNCHANGED <<redis, listeners, pending, recv, inbox>>
        BY <1>5 DEF FinishSync
    <2>2. /\ conn'[c].name = conn[c].name /\ conn'[c].open = conn[c].open
          /\ conn'[c].next = conn[c].next /\ conn'[c].end = conn[c].end
        BY <1>0, <2>1 DEF Conn
    <2>3. Attended(c)
        BY <2>1, <2>2 DEF Attended, Registered
    <2> QED BY <2>1, <2>2, <2>3, GapKept DEF Accounted
<1>6. CASE SendLoop(c)
    <2> DEFINE m == Head(recv[c])
    <2>1. conn[c].st = "live" /\ recv[c] # << >> /\ UNCHANGED <<redis, listeners, pending>>
        BY <1>6 DEF SendLoop
    <2>2. CASE conn[c].open
        <3>1. /\ inbox'[c] = Append(inbox[c], m) /\ recv'[c] = Tail(recv[c]) /\ conn' = conn
            BY <1>0, <1>6, <2>2 DEF SendLoop
        <3>2. m \in Msg
            BY <1>0, <2>1
        <3>3. Range(recv[c]) = {m} \cup Range(recv'[c]) /\ Range(inbox'[c]) = Range(inbox[c]) \cup {m}
            BY <1>0, <2>1, <3>1, <3>2, RangeOfTail, RangeOfAppend
        <3>4. Attended(c)
            BY <2>1, <3>1 DEF Attended, Registered
        <3>5. Accounted(c) \subseteq Accounted(c)'
            BY <2>1, <3>1, <3>3 DEF Accounted
        <3> QED BY <2>1, <3>1, <3>4, <3>5, GapKept
    <2>3. CASE ~conn[c].open
        <3>1. conn' = [conn EXCEPT ![c].st = "broken"]
            BY <1>6, <2>3 DEF SendLoop
        <3>2. conn'[c].st = "broken"
            BY <1>0, <3>1 DEF Conn
        <3> QED BY <3>2 DEF Attended
    <2> QED BY <2>2, <2>3
<1>7. CASE Client(c)
    <2>1. CASE \E n \in Callers : Connect(c, n)
        BY <1>0, <2>1 DEF Connect, Attended
    <2>2. CASE Disconnect(c)
        BY <1>0, <2>2 DEF Disconnect, Attended
    <2>3. CASE ClientSend(c)
        <3>1. UNCHANGED <<redis, listeners, conn, pending, recv, inbox>>
            BY <2>3 DEF ClientSend
        <3> QED BY <3>1, GapKept DEF Attended, Registered, Accounted
    <2> QED BY <1>7, <2>1, <2>2, <2>3 DEF Client
<1> QED BY <1>1, <1>2, <1>3, <1>4, <1>5, <1>6, <1>7 DEF Sync

(***************************************************************************)
(* The steps of another connection.                                        *)
(***************************************************************************)
LEMMA OtherStep ==
    ASSUME TypeOK, NEW c \in Conns, NEW d \in Conns, d # c,
           Sync(d) \/ SendLoop(d) \/ Client(d)
    PROVE  /\ UNCHANGED <<redis, listeners>>
           /\ conn'[c] = conn[c] /\ pending'[c] = pending[c]
           /\ recv'[c] = recv[c] /\ inbox'[c] = inbox[c]
<1>1. /\ conn \in [Conns -> Conn] /\ pending \in [Conns -> Seq(Msg)]
      /\ recv \in [Conns -> Seq(Msg)] /\ inbox \in [Conns -> Seq(Msg)]
    BY DEF TypeOK
<1> USE <1>1 DEF session, links
<1>2. CASE Sync(d)
    BY <1>2 DEF Sync, StartSync, CountQueue, FetchBlock, SyncMessage, FinishSync
<1>3. CASE SendLoop(d)
    BY <1>3 DEF SendLoop
<1>4. CASE Client(d)
    BY <1>4 DEF Client, Connect, Disconnect, ClientSend
<1> QED BY <1>2, <1>3, <1>4

LEMMA GapStep ==
    ASSUME IInv, NoGap, [Next]_vars, NEW c \in Conns, Attended(c)'
    PROVE  GapFree(c)'
<1> USE DEF IInv, session, links
<1>0. /\ Attended(c) => GapFree(c)
      /\ conn \in [Conns -> Conn] /\ listeners \in [Names -> Conns \cup {None}]
      /\ None \notin Conns
    BY NoGapParts, RouterAssumption DEF TypeOK
<1>1. ASSUME Attended(c), redis'.queue = redis.queue, conn'[c] = conn[c],
             pending'[c] = pending[c], inbox'[c] = inbox[c],
             Range(recv[c]) \subseteq Range(recv'[c])
      PROVE  GapFree(c)'
    <2>1. Accounted(c) \subseteq Accounted(c)'
        BY <1>1 DEF Accounted
    <2> QED BY <1>0, <1>1, <2>1, GapKept
<1>2. ASSUME NEW d \in Conns, Sync(d) \/ SendLoop(d) \/ Client(d)
      PROVE  GapFree(c)'
    <2>1. CASE d = c
        BY <1>0, <1>2, <2>1, OwnStep
    <2>2. CASE d # c
        BY <1>1, <1>2, <2>2, OtherStep DEF Attended, Registered
    <2> QED BY <2>1, <2>2
<1>3. ASSUME NEW d \in Conns, ServeSubjectRequest(d)
      PROVE  GapFree(c)'
    <2> DEFINE m == Register(conn[d].name)
    <2>1. d # c /\ conn'[c] = conn[c]
        <3>1. conn[d].st = "asking" /\ conn'[d].st = "joined"
            BY <1>0, <1>3 DEF ServeSubjectRequest, Conn
        <3>2. d # c
            BY <3>1 DEF Attended
        <3> QED BY <1>0, <1>3, <3>2 DEF ServeSubjectRequest
    <2>2. UNCHANGED <<listeners, pending, inbox>>
        BY <1>3 DEF ServeSubjectRequest
    <2>3. Attended(c)
        BY <2>1, <2>2 DEF Attended, Registered
    <2>4. CASE UNCHANGED <<redis, recv>>
        BY <1>1, <2>1, <2>2, <2>3, <2>4
    <2>5. CASE redis' = SaveMessage(redis, m) /\ Deliver(updates[sid], attrs', m)
        <3>1. m \in Msg
            BY RegisterType DEF TypeOK, Conn
        <3> HIDE DEF m
        <3>2. redis'.queue = Append(redis.queue, m)
            BY <2>5, <3>1, SaveMessageType DEF TypeOK
        <3> QED BY <1>0, <2>1, <2>2, <2>3, <2>5, <3>1, <3>2, GapGrows
    <2> QED BY <1>3, <2>4, <2>5 DEF ServeSubjectRequest
<1>4. ASSUME NEW d \in Conns, RegisterListener(d)
      PROVE  GapFree(c)'
    <2>1. /\ conn[d].st = "joined" /\ conn' = [conn EXCEPT ![d].st = "opened"]
          /\ listeners' = [listeners EXCEPT ![conn[d].name] = d]
          /\ UNCHANGED <<redis, pending, recv, inbox>>
        BY <1>4 DEF RegisterListener
    <2>2. d # c
        BY <1>0, <2>1 DEF Attended, Conn
    <2>3. conn'[c] = conn[c]
        BY <1>0, <2>1, <2>2
    <2>4. Attended(c)
        BY <1>0, <2>1, <2>2, <2>3 DEF Attended, Registered, Conn
    <2> QED BY <1>1, <2>1, <2>3, <2>4
<1>5. ASSUME NEW d \in Conns, RemoveListener(d)
      PROVE  GapFree(c)'
    <2>1. /\ listeners' = [n \in Names |-> IF listeners[n] = d THEN None ELSE listeners[n]]
          /\ UNCHANGED <<redis, conn, pending, recv, inbox>>
        BY <1>5 DEF RemoveListener
    <2>2. Attended(c)
        BY <1>0, <2>1 DEF Attended, Registered, Conn
    <2> QED BY <1>1, <2>1, <2>2
<1>6. ASSUME NEW m \in Msg, Process(m), UNCHANGED <<listeners, conn, pending, inbox>>
      PROVE  GapFree(c)'
    <2>1. PICK ups, at : Deliver(ups, at, Stamped(m))
        BY <1>6 DEF Process
    <2>2. Stamped(m) \in Msg /\ redis'.queue = Append(redis.queue, Stamped(m))
        BY <1>6, StampedType, ProcessEffect DEF TypeOK
    <2>3. Attended(c)
        BY <1>6 DEF Attended, Registered
    <2> QED BY <1>0, <1>6, <2>1, <2>2, <2>3, GapGrows
<1>7. CASE HandleUpdate
    <2>1. Msg1 \in Msg /\ Process(Msg1) /\ UNCHANGED <<listeners, conn, pending, inbox>>
        BY <1>7 DEF HandleUpdate, Msg1, TypeOK
    <2> QED BY <1>6, <2>1
<1>8. CASE ReplayConfig
    <2> DEFINE m == [lastCfg EXCEPT !.nonce = nonce]
    <2>1. lastCfg \in Msg /\ nonce \in Nat
        BY <1>8, RouterAssumption DEF ReplayConfig, ResetUnderWay, Resetting, TypeOK, Epochs
    <2>2. m \in Msg
        BY <2>1 DEF Msg
    <2>3. Process(m) /\ UNCHANGED <<listeners, conn, pending, inbox>>
        BY <1>8 DEF ReplayConfig
    <2> HIDE DEF m
    <2> QED BY <1>6, <2>2, <2>3
<1>9. CASE ClearLog
    BY <1>9, DeleteSessionType DEF ClearLog, GapFree, TypeOK
<1>10. CASE AnswerReset
    <2>1. /\ Deliver(updates[sid], attrs, Msg1) /\ UNCHANGED <<redis, conn, pending, inbox>>
          /\ listeners' = listeners \/ listeners' = NoListeners
        BY <1>10 DEF AnswerReset
    <2>2. Msg1 \in Msg
        BY <1>10 DEF AnswerReset, ResetUnderWay, Resetting, Msg1, TypeOK
    <2>3. Attended(c)
        BY <1>0, <2>1 DEF Attended, Registered, NoListeners, Conn
    <2>4. Range(recv[c]) \subseteq Range(recv'[c])
        BY <2>1, <2>2, DeliverReaches
    <2> QED BY <1>1, <2>1, <2>3, <2>4
<1>11. CASE LoseMemory
    BY <1>0, <1>11 DEF LoseMemory, Attended, FreeConn
<1>12. CASE HandleStale \/ BeginReset \/ Restart \/ UNCHANGED vars
    <2>1. UNCHANGED <<redis, listeners, conn, pending, recv, inbox>>
        BY <1>12 DEF HandleStale, BeginReset, Restart, vars
    <2> QED BY <1>1, <2>1 DEF Attended, Registered
<1>13. CASE RoutePanics \/ Crash
    BY <1>11, <1>13 DEF RoutePanics, Crash
<1> QED
    BY <1>2, <1>3, <1>4, <1>5, <1>7, <1>8, <1>9, <1>10, <1>12, <1>13 DEF Next, Handle, Serve

(***************************************************************************)
(* Registering a listener before its Sync counts the log loses nothing: a  *)
(* connected client has received, or is certain to receive, every message  *)
(* of the log that is meant for it whatever its period and group.          *)
(***************************************************************************)
THEOREM NobodyHasAGap == Spec => []NoGap
<1>1. Init => NoGap
    BY DEF Init, NoGap, FreeConn
<1>2. IInv /\ NoGap /\ [Next]_vars => NoGap'
    <2> SUFFICES ASSUME IInv, NoGap, [Next]_vars, NEW c \in Conns, Attended(c)'
                 PROVE  GapFree(c)'
        BY DEF NoGap, Attended, GapFree
    <2> QED BY GapStep
<1> QED BY <1>1, <1>2, Inductive, PTL DEF Spec

-----------------------------------------------------------------------------
(* Removal of dead listeners                                               *)

\* Only broken connections wait to be removed, and no Session object is of the future.
RemovalInv ==
    /\ \A c \in removals : conn[c].st = "broken"
    /\ sid <= nonce

LEMMA DeliverRemovals ==
    ASSUME RemovalInv, NEW m, NEW ups, NEW at, Deliver(ups, at, m)
    PROVE  \A c \in removals' : conn[c].st = "broken"
BY DEF Deliver, RemovalInv

LEMMA RemovalStep ==
    ASSUME IInv, RemovalInv, [Next]_vars
    PROVE  RemovalInv'
<1> USE DEF IInv, session, links
<1>0. /\ conn \in [Conns -> Conn] /\ removals \subseteq Conns
      /\ nonce \in Nat /\ sid \in Nat
    BY RouterAssumption DEF TypeOK, Epochs
<1>1. ASSUME NEW c \in Conns, Sync(c) \/ SendLoop(c) \/ Client(c)
      PROVE  RemovalInv'
    <2>1. UNCHANGED <<removals, sid, nonce>>
        BY <1>1 DEF Sync, Client, StartSync, CountQueue, FetchBlock, SyncMessage, FinishSync,
                    SendLoop, Connect, Disconnect, ClientSend
    <2>2. \A d \in Conns \ {c} : conn'[d] = conn[d]
        BY <1>1, OtherStep
    <2>3. conn[c].st = "broken" => conn'[c].st = "broken"
        BY <1>0, <1>1 DEF Sync, Client, StartSync, CountQueue, FetchBlock, SyncMessage,
                          FinishSync, SendLoop, Connect, Disconnect, ClientSend, Conn
    <2> QED BY <1>0, <2>1, <2>2, <2>3 DEF RemovalInv
<1>2. ASSUME NEW c \in Conns, ServeSubjectRequest(c)
      PROVE  RemovalInv'
    <2>1. \A d \in Conns : conn[d].st = "broken" => conn'[d].st = "broken"
        BY <1>0, <1>2 DEF ServeSubjectRequest, Conn
    <2>2. \A d \in removals' : conn[d].st = "broken" /\ d \in Conns
        BY <1>0, <1>2, DeliverRemovals DEF ServeSubjectRequest, Deliver, RemovalInv
    <2>3. UNCHANGED <<nonce, sid>>
        BY <1>2 DEF ServeSubjectRequest
    <2> QED BY <2>1, <2>2, <2>3 DEF RemovalInv
<1>3. ASSUME NEW c \in Conns, RegisterListener(c) \/ RemoveListener(c)
      PROVE  RemovalInv'
    <2>1. \A d \in Conns : conn[d].st = "broken" => conn'[d].st = "broken"
        BY <1>0, <1>3 DEF RegisterListener, RemoveListener, Conn
    <2>2. removals' \subseteq removals /\ UNCHANGED <<nonce, sid>>
        BY <1>3 DEF RegisterListener, RemoveListener
    <2> QED BY <1>0, <2>1, <2>2 DEF RemovalInv
<1>4. CASE HandleUpdate \/ ReplayConfig \/ AnswerReset
    <2>1. \A d \in removals' : conn[d].st = "broken"
        BY <1>4, DeliverRemovals DEF HandleUpdate, ReplayConfig, AnswerReset, Process
    <2>2. sid' <= nonce' /\ conn' = conn
        BY <1>0, <1>4 DEF HandleUpdate, ReplayConfig, AnswerReset, RemovalInv
    <2> QED BY <2>1, <2>2 DEF RemovalInv
<1>5. CASE HandleStale \/ BeginReset \/ ClearLog \/ UNCHANGED vars
    BY <1>0, <1>5 DEF HandleStale, BeginReset, ClearLog, vars, RemovalInv
<1>6. CASE RoutePanics \/ Crash
    BY <1>6 DEF RoutePanics, Crash, LoseMemory, RemovalInv
<1>7. CASE Restart
    BY <1>0, <1>7 DEF Restart, RemovalInv
<1> QED BY <1>1, <1>2, <1>3, <1>4, <1>5, <1>6, <1>7 DEF Next, Handle, Serve

LEMMA RegistrationStep ==
    ASSUME IInv, RemovalInv, [Next]_vars, NEW c \in Conns, Registered(c), conn[c].st = "live"
    PROVE  \/ listeners'[conn[c].name] = c
           \/ \E d \in Conns : listeners'[conn[c].name] = d /\ conn[d].st = "joined"
           \/ sid' # sid
           \/ status' \in {"stopped", "panicked"}
<1> USE DEF IInv, session, links
<1>0. /\ listeners \in [Names -> Conns \cup {None}] /\ conn[c].name \in Names
      /\ nonce \in Nat /\ sid \in Nat
    BY RouterAssumption DEF TypeOK, Conn, Epochs
<1>1. CASE listeners' = listeners
    BY <1>1 DEF Registered
<1>2. ASSUME NEW d \in Conns, RegisterListener(d)
      PROVE  \/ listeners'[conn[c].name] = c
             \/ listeners'[conn[c].name] = d /\ conn[d].st = "joined"
    BY <1>0, <1>2 DEF RegisterListener, Registered
<1>3. ASSUME NEW d \in Conns, RemoveListener(d)
      PROVE  listeners'[conn[c].name] = c
    <2>1. d # c
        BY <1>3 DEF RemoveListener, RemovalInv
    <2> QED BY <1>0, <1>3, <2>1 DEF RemoveListener, Registered
<1>4. CASE AnswerReset
    BY <1>0, <1>1, <1>4 DEF AnswerReset, RemovalInv
<1>5. CASE RoutePanics \/ Crash
    BY <1>5 DEF RoutePanics, Crash
<1>6. ASSUME NEW d \in Conns, Sync(d) \/ SendLoop(d) \/ Client(d)
      PROVE  listeners' = listeners
    BY <1>6, LinkSteps
<1>7. ASSUME NEW d \in Conns, ServeSubjectRequest(d)
      PROVE  listeners' = listeners
    BY <1>7 DEF ServeSubjectRequest
<1>8. CASE \/ HandleStale \/ HandleUpdate \/ BeginReset \/ ClearLog \/ ReplayConfig
           \/ Restart \/ UNCHANGED vars
    BY <1>1, <1>8
    DEF HandleStale, HandleUpdate, BeginReset, ClearLog, ReplayConfig, Restart, vars
<1> QED
    BY <1>1, <1>2, <1>3, <1>4, <1>5, <1>6, <1>7, <1>8 DEF Next, Handle, Serve

(***************************************************************************)
(* However late a dead listener is removed, the listener that a client has *)
(* registered since, under the same name, stays.                           *)
(***************************************************************************)
THEOREM RegistrationLasts == Spec => StaysRegistered
<1>1. Init => RemovalInv
    BY DEF Init, RemovalInv
<1>2. IInv /\ RemovalInv /\ [Next]_vars => RemovalInv'
    BY RemovalStep
<1>3. IInv /\ RemovalInv /\ [Next]_vars
      => [\A c \in Conns :
             Registered(c) /\ conn[c].open /\ conn[c].st = "live"
             => \/ listeners'[conn[c].name] = c
                \/ \E d \in Conns : listeners'[conn[c].name] = d /\ conn[d].st = "joined"
                \/ sid' # sid
                \/ status' \in {"stopped", "panicked"}]_vars
    BY RegistrationStep
<1> QED BY <1>1, <1>2, <1>3, Inductive, PTL DEF Spec, StaysRegistered

-----------------------------------------------------------------------------
(***************************************************************************)
(* What the clients are told while the router is not restarted: each       *)
(* subject is in the log once, and a synced client knows the period of its *)
(* subject.  (A restart forgets last_state_update and re-registers every   *)
(* subject, so neither holds across one.)                                  *)
(***************************************************************************)

Undisturbed == Spec /\ [][~Restart]_vars

IsPeriodOf(m, n) == m.key = "__set_period__" /\ m.sender = n

\* What clients send is no registration, and what sets a period is for every group.
WellSent(m) ==
    /\ m.key # "__register__"
    /\ m.key = "__set_period__" => m.group = 0 /\ m.stateUpdate

\* A period message that has been handled carries the period it sets.
Proper(m) == m.key = "__set_period__" => m.stateUpdate /\ m.value = m.period

\* The last message of s that sets the period of n sets it to p, and: no message does.
Tells(s, n, p) ==
    \E i \in DOMAIN s :
        /\ IsPeriodOf(s[i], n) /\ s[i].value = p
        /\ \A j \in DOMAIN s : j > i => ~IsPeriodOf(s[j], n)

Silent(s, n) == \A i \in DOMAIN s : ~IsPeriodOf(s[i], n)

-----------------------------------------------------------------------------
(* The inductive invariant                                                 *)

(***************************************************************************)
(* Subject objects and connections belong to the present epoch or to one   *)
(* that is over.                                                           *)
(***************************************************************************)
OfEpoch(k, subs, e, s) ==
    /\ k.subj <= e
    /\ k.subj = e => subs[k.name] = e
    /\ k.subj = e /\ k.st \in {"syncing", "fetching", "live"} => k.sess = s

EpochsInv ==
    /\ sid <= nonce
    /\ status # "running" => subjects = NoSubjects
    /\ \A e \in Epochs : e > nonce => updates[e] = {}
    /\ \A n \in Names : subjects[n] \in {0, nonce}
    /\ \A c \in Conns : OfEpoch(conn[c], subjects, nonce, sid)

\* Nothing reaches a connection before it is registered, nor its client before it is synced.
Unregistered == {"free", "asking", "joined"}

Unused(k, new, old, pend) ==
    /\ k.st \in Unregistered => new = << >>
    /\ k.st \in Unregistered \cup {"opened", "syncing"} => old = << >> /\ pend = << >>

LinksInv ==
    /\ \A n \in Names, c \in Conns :
           listeners[n] = c => conn[c].name = n /\ conn[c].st \notin Unregistered
    /\ \A c \in Conns : Unused(conn[c], recv[c], inbox[c], pending[c])

SentInv ==
    /\ \A i \in DOMAIN messages : WellSent(messages[i])
    /\ \A i \in DOMAIN redis.queue : Proper(redis.queue[i])
    /\ \A c \in Conns : \A i \in DOMAIN pending[c] : Proper(pending[c][i])

(***************************************************************************)
(* The log registers a subject when the session has it.                    *)
(***************************************************************************)
Registers(m, n) == m.key = "__register__" /\ m.sender = n

Once(s, n) ==
    \E i \in DOMAIN s : Registers(s[i], n) /\ \A j \in DOMAIN s : Registers(s[j], n) => j = i

Never(s, n) == \A i \in DOMAIN s : ~Registers(s[i], n)

RegisterInv ==
    status \in {"running", "replaying", "answering"} =>
        \A n \in Subjects :
            IF subjects[n] = 0 THEN Never(redis.queue, n) ELSE Once(redis.queue, n)

(***************************************************************************)
(* last_state_update has the period of a subject that has been given one,  *)
(* and the log has that message.                                           *)
(***************************************************************************)
Updates(ups, n) == {u \in ups : IsPeriodOf(u, n)}

Remembered(ups, log, n, e, at) ==
    /\ Updates(ups, n) = {} => Silent(log, n) /\ (e # 0 => at[n][e].period = 0)
    /\ Updates(ups, n) # {} => /\ e # 0
                               /\ \E i \in DOMAIN log : log[i] \in Updates(ups, n)
    /\ \A u \in Updates(ups, n) : /\ u.value = at[n][e].period /\ u.period = u.value
                                  /\ u.group = 0 /\ u.stateUpdate

RememberedInv ==
    /\ status = "clearing" => updates[sid] = {}
    /\ status \in {"running", "replaying", "answering"} =>
           \A n \in Subjects : Remembered(updates[sid], redis.queue, n, subjects[n], attrs)

(***************************************************************************)
(* What a client of the present epoch has been told of its own period: the *)
(* present one, or it is still among the messages that its Sync fetches.   *)
(***************************************************************************)
Follows(k, c, ls, e) ==
    /\ ls[k.name] = c /\ k.open /\ k.name \in Subjects /\ k.subj = e
    /\ k.st \in {"opened", "syncing", "fetching", "live"}

Tracked(c) == Follows(conn[c], c, listeners, nonce)

Told(old, new, n, p) == Tells(new, n, p) \/ (Silent(new, n) /\ Tells(old, n, p))

Fetched(pend, log, next, end, ups) ==
    \/ \E i \in DOMAIN pend : pend[i] \in ups
    \/ \E i \in DOMAIN log : next < i /\ i <= end /\ log[i] \in ups

Informed(k, old, pend, new, log, ups, p) ==
    /\ Updates(ups, k.name) = {} =>
           Silent(old, k.name) /\ Silent(pend, k.name) /\ Silent(new, k.name)
    /\ Updates(ups, k.name) # {} =>
           CASE k.st = "live" -> Told(old, new, k.name, p)
             [] k.st = "fetching" ->
                    \/ Told(old, new, k.name, p)
                    \/ /\ Silent(new, k.name)
                       /\ Fetched(pend, log, k.next, k.end, Updates(ups, k.name))
             [] OTHER -> Silent(new, k.name) \/ Tells(new, k.name, p)

InformedOf(c) ==
    Informed(conn[c], inbox[c], pending[c], recv[c], redis.queue, updates[sid],
             attrs[conn[c].name][nonce].period)

InformedInv == \A c \in Conns : Tracked(c) => InformedOf(c)

PeriodInv == EpochsInv /\ LinksInv /\ SentInv /\ RegisterInv /\ RememberedInv /\ InformedInv

-----------------------------------------------------------------------------
(* Sequences of messages                                                   *)

LEMMA AppendTells ==
    ASSUME NEW s \in Seq(Msg), NEW m \in Msg, NEW n, NEW p
    PROVE  /\ IsPeriodOf(m, n) => Tells(Append(s, m), n, m.value)
           /\ Tells(s, n, p) /\ (IsPeriodOf(m, n) => m.value = p) => Tells(Append(s, m), n, p)
           /\ Silent(s, n) /\ ~IsPeriodOf(m, n) => Silent(Append(s, m), n)
<1> DEFINE t == Append(s, m)
<1>1. /\ Len(s) \in Nat /\ DOMAIN s = 1 .. Len(s) /\ DOMAIN t = 1 .. Len(s) + 1
      /\ t[Len(s) + 1] = m /\ \A i \in 1 .. Len(s) : t[i] = s[i]
    BY AppendProperties
<1>2. /\ \A i \in 1 .. Len(s) + 1 : i \in 1 .. Len(s) \/ i = Len(s) + 1
      /\ \A j \in 1 .. Len(s) + 1 : ~(j > Len(s) + 1)
      /\ Len(s) + 1 \in 1 .. Len(s) + 1
      /\ \A i \in 1 .. Len(s) : i \in 1 .. Len(s) + 1
    BY <1>1
<1> HIDE DEF t
<1>3. IsPeriodOf(m, n) => Tells(t, n, m.value)
    BY <1>1, <1>2 DEF Tells
<1>4. ASSUME Tells(s, n, p), ~IsPeriodOf(m, n) PROVE Tells(t, n, p)
    <2>1. PICK i \in 1 .. Len(s) : /\ IsPeriodOf(s[i], n) /\ s[i].value = p
                                   /\ \A j \in 1 .. Len(s) : j > i => ~IsPeriodOf(s[j], n)
        BY <1>1, <1>4 DEF Tells
    <2>2. i \in DOMAIN t /\ IsPeriodOf(t[i], n) /\ t[i].value = p
        BY <1>1, <1>2, <2>1
    <2>3. \A j \in DOMAIN t : j > i => ~IsPeriodOf(t[j], n)
        BY <1>1, <1>2, <1>4, <2>1
    <2> QED BY <2>2, <2>3 DEF Tells
<1>5. Silent(s, n) /\ ~IsPeriodOf(m, n) => Silent(t, n)
    BY <1>1, <1>2 DEF Silent
<1> QED BY <1>3, <1>4, <1>5 DEF t

LEMMA TailTells ==
    ASSUME NEW s \in Seq(Msg), s # << >>, NEW n, NEW p
    PROVE  /\ Silent(s, n) => Silent(Tail(s), n) /\ ~IsPeriodOf(Head(s), n)
           /\ Tells(s, n, p) =>
                  \/ Tells(Tail(s), n, p)
                  \/ Silent(Tail(s), n) /\ IsPeriodOf(Head(s), n) /\ Head(s).value = p
<1> DEFINE t == Tail(s)
<1>1. /\ Len(s) \in Nat /\ Len(s) >= 1 /\ DOMAIN s = 1 .. Len(s) /\ DOMAIN t = 1 .. Len(s) - 1
      /\ Head(s) = s[1] /\ \A i \in 1 .. Len(s) - 1 : t[i] = s[i + 1]
    BY HeadTailProperties
<1>2. \A i \in 1 .. Len(s) - 1 : i + 1 \in 1 .. Len(s) /\ i + 1 > 1
    BY <1>1
<1> HIDE DEF t
<1>3. Silent(s, n) => Silent(t, n) /\ ~IsPeriodOf(s[1], n)
    BY <1>1, <1>2 DEF Silent
<1>4. ASSUME Tells(s, n, p)
      PROVE  Tells(t, n, p) \/ (Silent(t, n) /\ IsPeriodOf(s[1], n) /\ s[1].value = p)
    <2>1. PICK i \in 1 .. Len(s) : /\ IsPeriodOf(s[i], n) /\ s[i].value = p
                                   /\ \A j \in 1 .. Len(s) : j > i => ~IsPeriodOf(s[j], n)
        BY <1>1, <1>4 DEF Tells
    <2>2. CASE i = 1
        BY <1>1, <1>2, <2>1, <2>2 DEF Silent
    <2>3. CASE i # 1
        <3>1. i - 1 \in 1 .. Len(s) - 1 /\ (i - 1) + 1 = i
            BY <1>1, <2>3
        <3>2. t[i - 1] = s[i]
            BY <1>1, <3>1
        <3>3. \A j \in 1 .. Len(s) - 1 : j > i - 1 => j + 1 \in 1 .. Len(s) /\ j + 1 > i
            BY <1>1
        <3>4. \A j \in 1 .. Len(s) - 1 : j > i - 1 => ~IsPeriodOf(t[j], n)
            BY <1>1, <2>1, <3>3
        <3> QED BY <1>1, <2>1, <3>1, <3>2, <3>4 DEF Tells
    <2> QED BY <2>2, <2>3
<1> QED BY <1>1, <1>3, <1>4 DEF t

\* SendLoop moves the first message of recv to the end of the inbox.
LEMMA MovedIsTold ==
    ASSUME NEW old \in Seq(Msg), NEW new \in Seq(Msg), new # << >>, NEW n, NEW p
    PROVE  Told(old, new, n, p) => Told(Append(old, Head(new)), Tail(new), n, p)
<1>1. Head(new) \in Msg
    OBVIOUS
<1> DEFINE t == Append(old, Head(new))
<1>2. /\ IsPeriodOf(Head(new), n) => Tells(t, n, Head(new).value)
      /\ Tells(old, n, p) /\ ~IsPeriodOf(Head(new), n) => Tells(t, n, p)
    BY <1>1, AppendTells
<1> HIDE DEF t
<1> QED BY <1>2, TailTells DEF Told, t

\* Sync adds a message to the inbox, in front of what waits in recv.
LEMMA AddedIsTold ==
    ASSUME NEW old \in Seq(Msg), NEW new, NEW m \in Msg, NEW n, NEW p,
           IsPeriodOf(m, n) => m.value = p
    PROVE  Told(old, new, n, p) => Told(Append(old, m), new, n, p)
BY AppendTells DEF Told

LEMMA DeliveredIsTold ==
    ASSUME NEW old, NEW new \in Seq(Msg), NEW m \in Msg, NEW n, NEW p,
           IsPeriodOf(m, n) => m.value = p
    PROVE  /\ Told(old, new, n, p) => Told(old, Append(new, m), n, p)
           /\ IsPeriodOf(m, n) => Told(old, Append(new, m), n, p)
BY AppendTells DEF Told

(***************************************************************************)
(* What a client has been told is what it believes.                        *)
(***************************************************************************)
LEMMA ToldIsBelieved ==
    ASSUME NEW old \in Seq(Msg), NEW new \in Seq(Msg), NEW n, NEW p
    PROVE  /\ Told(old, new, n, p) => LastSet(old \o new, "__set_period__", n) = p
           /\ Silent(old, n) /\ Silent(new, n) => LastSet(old \o new, "__set_period__", n) = 0
<1> DEFINE s == old \o new
           k == "__set_period__"
<1>1. /\ Len(old) \in Nat /\ Len(new) \in Nat
      /\ DOMAIN s = 1 .. Len(old) + Len(new)
      /\ DOMAIN old = 1 .. Len(old) /\ DOMAIN new = 1 .. Len(new)
      /\ \A i \in 1 .. Len(old) : s[i] = old[i]
      /\ \A i \in 1 .. Len(new) : s[Len(old) + i] = new[i]
    BY ConcatProperties
<1>2. \A i \in 1 .. Len(old) + Len(new) :
          i \in 1 .. Len(old) \/ (i - Len(old) \in 1 .. Len(new) /\ Len(old) + (i - Len(old)) = i)
    BY <1>1
<1> HIDE DEF s
<1>3. ASSUME NEW i \in DOMAIN s, IsPeriodOf(s[i], n),
             \A j \in DOMAIN s : j > i => ~IsPeriodOf(s[j], n)
      PROVE  LastSet(s, k, n) = s[i].value
    <2>1. IsLast(s, k, n, i)
        BY <1>1, <1>3 DEF IsLast, IsPeriodOf
    <2>2. \A j \in DOMAIN s : IsLast(s, k, n, j) => j = i
        BY <1>1, <2>1 DEF IsLast
    <2>3. (CHOOSE j \in DOMAIN s : IsLast(s, k, n, j)) = i
        BY <2>1, <2>2
    <2> QED BY <2>1, <2>3 DEF LastSet
<1>4. ASSUME Tells(new, n, p) PROVE LastSet(s, k, n) = p
    <2>1. PICK i \in 1 .. Len(new) : /\ IsPeriodOf(new[i], n) /\ new[i].value = p
                                     /\ \A j \in 1 .. Len(new) : j > i => ~IsPeriodOf(new[j], n)
        BY <1>1, <1>4 DEF Tells
    <2>2. Len(old) + i \in DOMAIN s /\ s[Len(old) + i] = new[i]
        BY <1>1
    <2>3. ASSUME NEW j \in DOMAIN s, j > Len(old) + i PROVE ~IsPeriodOf(s[j], n)
        <3>1. j - Len(old) \in 1 .. Len(new) /\ j - Len(old) > i /\ Len(old) + (j - Len(old)) = j
            BY <1>1, <2>3
        <3>2. s[j] = new[j - Len(old)]
            BY <1>1, <3>1
        <3> QED BY <2>1, <3>1, <3>2
    <2> QED BY <1>3, <2>1, <2>2, <2>3
<1>5. ASSUME Silent(new, n), Tells(old, n, p) PROVE LastSet(s, k, n) = p
    <2>1. PICK i \in 1 .. Len(old) : /\ IsPeriodOf(old[i], n) /\ old[i].value = p
                                     /\ \A j \in 1 .. Len(old) : j > i => ~IsPeriodOf(old[j], n)
        BY <1>1, <1>5 DEF Tells
    <2>2. i \in DOMAIN s /\ s[i] = old[i]
        BY <1>1
    <2>3. \A j \in DOMAIN s : j > i => ~IsPeriodOf(s[j], n)
        BY <1>1, <1>2, <1>5, <2>1 DEF Silent
    <2> QED BY <1>3, <2>1, <2>2, <2>3
<1>6. ASSUME Silent(old, n), Silent(new, n) PROVE LastSet(s, k, n) = 0
    <2>1. \A i \in DOMAIN s : ~IsPeriodOf(s[i], n)
        BY <1>1, <1>2, <1>6 DEF Silent
    <2> QED BY <2>1 DEF LastSet, IsLast, IsPeriodOf
<1> QED BY <1>4, <1>5, <1>6 DEF Told, s

\* What Sync fetches is in the log.
LEMMA BlockOfLog ==
    ASSUME NEW s \in Seq(Msg), NEW lo \in Nat, NEW hi \in Int,
           NEW i \in DOMAIN LRange(s, lo, hi)
    PROVE  \E j \in DOMAIN s : LRange(s, lo, hi)[i] = s[j]
<1> DEFINE last == IF hi + 1 < Len(s) THEN hi + 1 ELSE Len(s)
<1>1. LRange(s, lo, hi) = SubSeq(s, lo + 1, last)
    BY DEF LRange
<1>2. last \in Int /\ last <= Len(s) /\ \A j \in lo + 1 .. last : s[j] \in Msg
    OBVIOUS
<1>3. /\ DOMAIN SubSeq(s, lo + 1, last) = 1 .. (IF lo + 1 <= last THEN last - lo ELSE 0)
      /\ \A j \in 1 .. last - lo : SubSeq(s, lo + 1, last)[j] = s[lo + j]
    BY <1>2, SubSeqProperties
<1>4. i \in 1 .. last - lo /\ lo + i \in DOMAIN s
    BY <1>1, <1>2, <1>3
<1> QED BY <1>1, <1>3, <1>4

-----------------------------------------------------------------------------
(* Epochs, and the order in which a connection is used                     *)

Opens(k, l) == k.st = "free" /\ l.st \in {"asking", "joined"} /\ l.subj = 0

Goes(k, l, from, to) == k.st = from /\ l.st = to /\ l.sess = k.sess

Moves(k, l) ==
    /\ l.name = k.name /\ l.subj = k.subj
    /\ \/ k.st = "opened" /\ l.st = "syncing" /\ l.sess = sid
       \/ Goes(k, l, "syncing", "fetching")
       \/ Goes(k, l, "fetching", "live")
       \/ Goes(k, l, "live", "broken")
       \/ l.st = k.st /\ l.sess = k.sess

(***************************************************************************)
(* The steps of a connection follow one another as HandleWebsocket says.   *)
(***************************************************************************)
LEMMA OwnMoves ==
    ASSUME TypeOK, NEW c \in Conns, Sync(c) \/ SendLoop(c) \/ Client(c)
    PROVE  /\ Opens(conn[c], conn'[c]) \/ Moves(conn[c], conn'[c])
           /\ UNCHANGED <<recv, inbox, pending>> \/ conn[c].st \in {"fetching", "live"}
<1> USE DEF links, session
<1>0. conn[c] \in Conn /\ conn \in [Conns -> Conn]
    BY DEF TypeOK
<1> USE DEF Goes
<1>1. CASE StartSync(c)
    BY <1>0, <1>1 DEF StartSync, Conn, Moves
<1>2. CASE CountQueue(c)
    BY <1>0, <1>2 DEF CountQueue, Conn, Moves
<1>3. CASE FetchBlock(c)
    BY <1>0, <1>3 DEF FetchBlock, Conn, Moves
<1>4. CASE SyncMessage(c)
    BY <1>0, <1>4 DEF SyncMessage, Conn, Moves
<1>5. CASE FinishSync(c)
    BY <1>0, <1>5 DEF FinishSync, Conn, Moves
<1>6. CASE SendLoop(c)
    BY <1>0, <1>6 DEF SendLoop, Conn, Moves
<1>7. ASSUME NEW n \in Callers, Connect(c, n)
      PROVE  Opens(conn[c], conn'[c]) /\ UNCHANGED <<recv, inbox, pending>>
    BY <1>0, <1>7 DEF Connect, FreeConn, Opens
<1>8. CASE Disconnect(c)
    BY <1>0, <1>8 DEF Disconnect, Conn, Moves
<1>9. CASE ClientSend(c)
    BY <1>0, <1>9 DEF ClientSend, Moves
<1> QED BY <1>1, <1>2, <1>3, <1>4, <1>5, <1>6, <1>7, <1>8, <1>9 DEF Sync, Client

LEMMA EpochsStep ==
    ASSUME IInv, EpochsInv, Next, ~Restart
    PROVE  EpochsInv'
<1> USE RouterAssumption DEF IInv, TypeOK, Epochs, session, links
<1>0. /\ nonce \in Nat /\ nonce >= 1 /\ sid \in Nat /\ NoSubjects = [n \in Names |-> 0]
      /\ \A c \in Conns : conn[c].subj \in Nat /\ conn[c].name \in Names
    BY DEF NoSubjects, Conn
<1>1. ASSUME UNCHANGED <<sid, nonce, updates, subjects, conn>>, status = "running" => status' = "running"
      PROVE  EpochsInv'
    BY <1>1 DEF EpochsInv
<1>2. ASSUME NEW c \in Conns, UNCHANGED <<status, sid, nonce, updates, subjects>>,
             \A d \in Conns : d # c => conn'[d] = conn[d],
             Opens(conn[c], conn'[c]) \/ Moves(conn[c], conn'[c])
      PROVE  EpochsInv'
    <2>1. OfEpoch(conn[c], subjects, nonce, sid)
        BY DEF EpochsInv
    <2>2. OfEpoch(conn'[c], subjects, nonce, sid)
        BY <1>0, <1>2, <2>1 DEF OfEpoch, Opens, Moves, Goes
    <2>3. \A d \in Conns : OfEpoch(conn'[d], subjects, nonce, sid)
        BY <1>2, <2>2 DEF EpochsInv
    <2> QED BY <1>2, <2>3 DEF EpochsInv
<1>3. ASSUME NEW c \in Conns, ServeSubjectRequest(c) PROVE EpochsInv'
    <2>1. UNCHANGED <<status, sid, nonce, updates>> /\ status = "running"
        BY <1>3 DEF ServeSubjectRequest
    <2>2. \A d \in Conns : d # c => conn'[d] = conn[d]
        BY <1>3 DEF ServeSubjectRequest
    <2>3. /\ subjects'[conn[c].name] = nonce /\ conn'[c].subj = nonce
          /\ conn'[c].name = conn[c].name /\ conn'[c].st = "joined"
        BY <1>0, <1>3, SMTT(30) DEF ServeSubjectRequest, EpochsInv, Conn
    <2>4. \A n \in Names : n # conn[c].name => subjects'[n] = subjects[n]
        BY <1>0, <1>3 DEF ServeSubjectRequest
    <2>5. \A d \in Conns : OfEpoch(conn'[d], subjects', nonce, sid)
        <3>1. OfEpoch(conn'[c], subjects', nonce, sid)
            BY <1>0, <2>3 DEF OfEpoch
        <3>2. ASSUME NEW d \in Conns, d # c PROVE OfEpoch(conn'[d], subjects', nonce, sid)
            <4>1. OfEpoch(conn[d], subjects, nonce, sid) /\ conn'[d] = conn[d]
                BY <2>2, <3>2 DEF EpochsInv
            <4>2. subjects'[conn[d].name] \in {nonce, subjects[conn[d].name]}
                BY <1>0, <2>3, <2>4
            <4> QED BY <4>1, <4>2 DEF OfEpoch
        <3> QED BY <3>1, <3>2
    <2> QED BY <1>0, <2>1, <2>3, <2>4, <2>5 DEF EpochsInv
<1>4. ASSUME NEW m, Process(m), UNCHANGED <<sid, nonce, subjects, conn>>,
             status = "running" => status' = "running"
      PROVE  EpochsInv'
    <2>1. \A e \in Epochs : e # sid => updates'[e] = updates[e]
        BY <1>4 DEF Process
    <2>2. sid <= nonce /\ \A e \in Epochs : e > nonce => updates[e] = {}
        BY DEF EpochsInv
    <2>3. \A e \in Epochs : e > nonce => e # sid
        BY <1>0, <2>2
    <2>4. \A e \in Epochs : e > nonce => updates'[e] = {}
        BY <2>1, <2>2, <2>3
    <2> QED BY <1>4, <2>4 DEF EpochsInv
<1>5. CASE HandleUpdate
    BY <1>4, <1>5 DEF HandleUpdate
<1>6. CASE ReplayConfig
    BY <1>4, <1>6 DEF ReplayConfig
<1>7. CASE BeginReset
    <2>1. /\ nonce' = nonce + 1 /\ subjects' = NoSubjects /\ UNCHANGED <<sid, conn>>
          /\ updates' = [updates EXCEPT ![sid] = {}]
        BY <1>7 DEF BeginReset
    <2>2. \A c \in Conns : OfEpoch(conn[c], subjects', nonce', sid)
        BY <1>0, <2>1 DEF EpochsInv, OfEpoch
    <2> QED BY <1>0, <2>1, <2>2 DEF EpochsInv
<1>8. CASE AnswerReset
    <2>1. /\ status' = "running" /\ UNCHANGED <<updates, conn>>
          /\ \/ /\ nonce' = nonce + 1 /\ sid' = nonce + 1 /\ subjects' = NoSubjects
             \/ UNCHANGED <<nonce, sid, subjects>>
        BY <1>8 DEF AnswerReset
    <2>2. CASE UNCHANGED <<nonce, sid, subjects>>
        BY <2>1, <2>2 DEF EpochsInv
    <2>3. CASE nonce' = nonce + 1 /\ sid' = nonce + 1 /\ subjects' = NoSubjects
        <3>1. \A c \in Conns : OfEpoch(conn[c], subjects', nonce', sid')
            BY <1>0, <2>3 DEF EpochsInv, OfEpoch
        <3>2. \A e \in Epochs : e > nonce + 1 => e > nonce
            BY <1>0
        <3>3. \A e \in Epochs : e > nonce' => updates'[e] = {}
            BY <2>1, <2>3, <3>2 DEF EpochsInv
        <3>4. sid' <= nonce' /\ \A n \in Names : subjects'[n] \in {0, nonce'}
            BY <1>0, <2>3
        <3> QED BY <2>1, <3>1, <3>3, <3>4 DEF EpochsInv
    <2> QED BY <2>1, <2>2, <2>3
<1>9. CASE RoutePanics \/ Crash
    <2>1. /\ subjects' = NoSubjects /\ UNCHANGED <<nonce, sid, updates>>
          /\ \A c \in Conns : conn'[c].subj = 0
        BY <1>9 DEF RoutePanics, Crash, LoseMemory, FreeConn
    <2>2. \A c \in Conns : OfEpoch(conn'[c], subjects', nonce, sid)
        BY <1>0, <2>1 DEF OfEpoch
    <2> QED BY <1>0, <2>1, <2>2 DEF EpochsInv
<1>10. CASE HandleStale \/ ClearLog
    BY <1>1, <1>10 DEF HandleStale, ClearLog
<1>11. ASSUME NEW c \in Conns, Sync(c) \/ SendLoop(c) \/ Client(c)
       PROVE  EpochsInv'
    <2>1. UNCHANGED <<status, sid, nonce, updates, subjects>>
        BY <1>11, LinkSteps
    <2>2. Opens(conn[c], conn'[c]) \/ Moves(conn[c], conn'[c])
        BY <1>11, OwnMoves
    <2>3. \A d \in Conns : d # c => conn'[d] = conn[d]
        <3> HIDE DEF TypeOK
        <3>1. \A d \in Conns : d # c => conn'[d] = conn[d]
            BY <1>11, OtherStep
        <3> QED BY <3>1
    <2> QED BY <1>2, <2>1, <2>2, <2>3
<1>12. ASSUME NEW c \in Conns, RegisterListener(c) \/ RemoveListener(c)
       PROVE  EpochsInv'
    <2>1. /\ UNCHANGED <<status, sid, nonce, updates, subjects>>
          /\ \A d \in Conns : d # c => conn'[d] = conn[d]
        BY <1>12 DEF RegisterListener, RemoveListener
    <2>2. /\ conn'[c].subj = conn[c].subj /\ conn'[c].name = conn[c].name
          /\ conn'[c].sess = conn[c].sess
          /\ conn'[c].st = conn[c].st \/ conn'[c].st = "opened"
        BY <1>12, SMTT(30) DEF RegisterListener, RemoveListener, Conn
    <2>3. OfEpoch(conn'[c], subjects, nonce, sid)
        <3>1. OfEpoch(conn[c], subjects, nonce, sid)
            BY DEF EpochsInv
        <3> QED BY <2>2, <3>1 DEF OfEpoch
    <2>4. \A d \in Conns : OfEpoch(conn'[d], subjects, nonce, sid)
        BY <2>1, <2>3 DEF EpochsInv
    <2> QED BY <2>1, <2>4 DEF EpochsInv
<1> QED
    BY <1>3, <1>5, <1>6, <1>7, <1>8, <1>9, <1>10, <1>11, <1>12 DEF Next, Handle, Serve

LEMMA LinksStep ==
    ASSUME IInv, LinksInv, Next, ~Restart
    PROVE  LinksInv'
<1> USE RouterAssumption DEF IInv, session, links
<1>0. /\ \A c \in Conns : conn[c] \in Conn /\ conn[c].name \in Names
      /\ conn \in [Conns -> Conn] /\ listeners \in [Names -> Conns \cup {None}]
    BY DEF TypeOK, Conn
<1>1. ASSUME NEW c \in Conns, Sync(c) \/ SendLoop(c) \/ Client(c) PROVE LinksInv'
    <2>1. \A d \in Conns : d # c => /\ conn'[d] = conn[d] /\ recv'[d] = recv[d]
                                   /\ inbox'[d] = inbox[d] /\ pending'[d] = pending[d]
        BY <1>1, OtherStep
    <2>2. /\ Opens(conn[c], conn'[c]) \/ Moves(conn[c], conn'[c])
          /\ UNCHANGED <<recv, inbox, pending>> \/ conn[c].st \in {"fetching", "live"}
        BY <1>1, OwnMoves
    <2>3. listeners' = listeners
        BY <1>1, LinkSteps
    <2>4. Unused(conn[c], recv[c], inbox[c], pending[c])
        BY DEF LinksInv
    <2>5. Unused(conn'[c], recv'[c], inbox'[c], pending'[c])
        BY <2>2, <2>4 DEF Unused, Unregistered, Opens, Moves, Goes
    <2>6. \A n \in Names : listeners[n] = c => conn'[c].name = n /\ conn'[c].st \notin Unregistered
        BY <2>2 DEF LinksInv, Unregistered, Opens, Moves, Goes
    <2> QED BY <2>1, <2>3, <2>5, <2>6 DEF LinksInv
<1>2. ASSUME NEW m, NEW ups, NEW at, Deliver(ups, at, m), UNCHANGED <<inbox, pending>>,
             listeners' = listeners \/ listeners' = NoListeners,
             \A c \in Conns : /\ conn'[c].name = conn[c].name
                              /\ \/ conn'[c].st = conn[c].st
                                 \/ conn[c].st = "asking" /\ conn'[c].st = "joined"
      PROVE  LinksInv'
    <2>1. \A c \in Conns : conn[c].st \in Unregistered => recv'[c] = recv[c]
        BY <1>0, <1>2 DEF Deliver, Registered, LinksInv
    <2>2. \A c \in Conns : Unused(conn'[c], recv'[c], inbox'[c], pending'[c])
        BY <1>2, <2>1 DEF LinksInv, Unused, Unregistered
    <2>3. \A n \in Names, c \in Conns :
              listeners'[n] = c => conn'[c].name = n /\ conn'[c].st \notin Unregistered
        <3> SUFFICES ASSUME NEW n \in Names, NEW c \in Conns, listeners'[n] = c
                     PROVE  conn'[c].name = n /\ conn'[c].st \notin Unregistered
            OBVIOUS
        <3>1. listeners[n] = c
            BY <1>2 DEF NoListeners
        <3>2. conn[c].name = n /\ conn[c].st \notin Unregistered
            BY <3>1 DEF LinksInv
        <3> QED BY <1>2, <3>2 DEF Unregistered
    <2> QED BY <2>2, <2>3 DEF LinksInv
<1>3. ASSUME NEW c \in Conns, ServeSubjectRequest(c) PROVE LinksInv'
    <2>1. /\ UNCHANGED <<inbox, pending, listeners>>
          /\ \/ recv' = recv
             \/ Deliver(updates[sid], attrs', Register(conn[c].name))
        BY <1>3 DEF ServeSubjectRequest
    <2>2. \A d \in Conns : /\ conn'[d].name = conn[d].name
                           /\ \/ conn'[d].st = conn[d].st
                              \/ conn[d].st = "asking" /\ conn'[d].st = "joined"
        BY <1>0, <1>3 DEF ServeSubjectRequest, Conn
    <2>3. CASE recv' = recv
        <3>1. \A d \in Conns : Unused(conn'[d], recv[d], inbox[d], pending[d])
            BY <2>2 DEF LinksInv, Unused, Unregistered
        <3> QED BY <2>1, <2>2, <2>3, <3>1 DEF LinksInv, Unregistered
    <2> QED BY <1>2, <2>1, <2>2, <2>3
<1>4. ASSUME NEW c \in Conns, RegisterListener(c) PROVE LinksInv'
    <2>1. /\ conn[c].st = "joined" /\ UNCHANGED <<inbox, pending, recv>>
          /\ listeners' = [listeners EXCEPT ![conn[c].name] = c]
          /\ conn' = [conn EXCEPT ![c].st = "opened"]
        BY <1>4 DEF RegisterListener
    <2>2. /\ conn'[c].st = "opened" /\ conn'[c].name = conn[c].name
          /\ \A d \in Conns : d # c => conn'[d] = conn[d]
        BY <1>0, <2>1 DEF Conn
    <2>3. \A n \in Names : listeners[n] # c
        BY <2>1 DEF LinksInv, Unregistered
    <2>4. \A d \in Conns : Unused(conn'[d], recv[d], inbox[d], pending[d])
        BY <2>1, <2>2 DEF LinksInv, Unused, Unregistered
    <2>5. \A n \in Names, d \in Conns : listeners'[n] = d =>
              (n = conn[c].name /\ d = c) \/ (d # c /\ listeners[n] = d)
        BY <1>0, <2>1, <2>3
    <2>6. \A n \in Names, d \in Conns :
              listeners'[n] = d => conn'[d].name = n /\ conn'[d].st \notin Unregistered
        BY <2>2, <2>5 DEF LinksInv, Unregistered
    <2> QED BY <2>1, <2>4, <2>6 DEF LinksInv
<1>5. ASSUME NEW c \in Conns, RemoveListener(c) PROVE LinksInv'
    BY <1>0, <1>5 DEF RemoveListener, LinksInv
<1>6. ASSUME UNCHANGED <<links, listeners>> PROVE LinksInv'
    BY <1>6 DEF LinksInv
<1>7. CASE HandleUpdate
    BY <1>2, <1>7 DEF HandleUpdate, Process
<1>8. CASE ReplayConfig
    BY <1>2, <1>8 DEF ReplayConfig, Process
<1>9. CASE AnswerReset
    BY <1>2, <1>9 DEF AnswerReset
<1>10. CASE RoutePanics \/ Crash
    <2>1. /\ listeners' = NoListeners
          /\ \A c \in Conns : recv'[c] = << >> /\ inbox'[c] = << >> /\ pending'[c] = << >>
        BY <1>10 DEF RoutePanics, Crash, LoseMemory
    <2> QED BY <2>1 DEF LinksInv, NoListeners, Unused
<1>11. CASE HandleStale \/ BeginReset \/ ClearLog
    BY <1>6, <1>11 DEF HandleStale, BeginReset, ClearLog
<1> QED
    BY <1>1, <1>3, <1>4, <1>5, <1>7, <1>8, <1>9, <1>10, <1>11 DEF Next, Handle, Serve

-----------------------------------------------------------------------------
(* What is sent, and what becomes of it                                    *)

LEMMA ClientMsgsWellSent ==
    ASSUME NEW c, NEW m \in ClientMsgs(c)
    PROVE  WellSent(m)
<1>1. \A key, n, p, v : LET l == ClientMsg(c, key, n, p, 0, v)
                       IN  l.key = key /\ l.group = 0 /\ (key = "__set_period__" => l.stateUpdate)
    BY DEF ClientMsg, StateKeys
<1>2. \A n, q, to : ClientMsg(c, "data", n, q, to, 0).key = "data"
    BY DEF ClientMsg
<1>3. CASE m \in SubjectMsgs(c)
    <2>1. \/ \E n, q, to : m = ClientMsg(c, "data", n, q, to, 0)
          \/ \E k \in StateKeys : \E n, p, v : m = ClientMsg(c, k, n, p, 0, v)
        BY <1>3 DEF SubjectMsgs
    <2> QED BY <1>1, <1>2, <2>1 DEF WellSent, StateKeys
<1>4. CASE m \in AdminMsgs(c)
    <2>1. \E k \in {"__set_period__", "__set_group__", "__set_config__", "__reset__", "__delete__"} :
              \E n, v : m = ClientMsg(c, k, n, 0, 0, v)
        BY <1>4 DEF AdminMsgs
    <2> QED BY <1>1, <2>1 DEF WellSent
<1> QED BY <1>3, <1>4 DEF ClientMsgs

LEMMA StampedProper ==
    ASSUME NEW m \in Msg, WellSent(m)
    PROVE  /\ Proper(Stamped(m)) /\ Stamped(m).stateUpdate = m.stateUpdate
           /\ Stamped(m).key # "__register__"
           /\ m.key = "__set_period__" => Stamped(m).group = 0 /\ Stamped(m).period = m.value
BY DEF Stamped, Proper, WellSent, Msg

\* The messages that Route processes.
LEMMA ProcessedMsg ==
    ASSUME IInv, SentInv, HandleUpdate \/ ReplayConfig
    PROVE  \E m \in Msg : /\ Process(m) /\ WellSent(m)
                          /\ NeedsSubject(m) => subjects[m.sender] # 0
<1> USE DEF IInv, TypeOK
<1>1. CASE HandleUpdate
    <2>1. /\ Msg1 \in Msg /\ Process(Msg1) /\ Msg1 = messages[1] /\ 1 \in DOMAIN messages
          /\ status = "running" /\ (NeedsSubject(Msg1) => subjects[Msg1.sender] # 0)
        BY <1>1 DEF HandleUpdate, Msg1
    <2> QED BY <2>1 DEF SentInv, NeedsSubject
<1>2. CASE ReplayConfig
    <2> DEFINE m == [lastCfg EXCEPT !.nonce = nonce]
    <2>1. lastCfg \in Msg /\ nonce \in Nat /\ lastCfg.key = "__set_config__"
        BY <1>2, RouterAssumption
        DEF ReplayConfig, ResetUnderWay, ConfigIsConfig, Resetting, Epochs
    <2>2. m \in Msg /\ m.key = "__set_config__"
        BY <2>1 DEF Msg
    <2>3. Process(m)
        BY <1>2 DEF ReplayConfig
    <2> HIDE DEF m
    <2> QED BY <2>2, <2>3 DEF WellSent, NeedsSubject
<1> QED BY <1>1, <1>2

LEMMA AllOfAppend ==
    ASSUME NEW s \in Seq(Msg), NEW m \in Msg
    PROVE  \A i \in DOMAIN Append(s, m) :
               (i \in DOMAIN s /\ Append(s, m)[i] = s[i]) \/ (i = Len(s) + 1 /\ Append(s, m)[i] = m)
<1>1. /\ Len(s) \in Nat /\ DOMAIN s = 1 .. Len(s) /\ DOMAIN Append(s, m) = 1 .. Len(s) + 1
      /\ Append(s, m)[Len(s) + 1] = m /\ \A i \in 1 .. Len(s) : Append(s, m)[i] = s[i]
    BY AppendProperties
<1>2. \A i \in 1 .. Len(s) + 1 : i \in 1 .. Len(s) \/ i = Len(s) + 1
    BY <1>1
<1> QED BY <1>1, <1>2

LEMMA AllOfTail ==
    ASSUME NEW s \in Seq(Msg), s # << >>
    PROVE  \A i \in DOMAIN Tail(s) : \E j \in DOMAIN s : Tail(s)[i] = s[j]
<1>1. /\ Len(s) \in Nat /\ DOMAIN s = 1 .. Len(s) /\ DOMAIN Tail(s) = 1 .. Len(s) - 1
      /\ \A i \in 1 .. Len(s) - 1 : Tail(s)[i] = s[i + 1]
    BY HeadTailProperties
<1>2. \A i \in 1 .. Len(s) - 1 : i + 1 \in 1 .. Len(s)
    BY <1>1
<1> QED BY <1>1, <1>2

LEMMA AllOfConcat ==
    ASSUME NEW s \in Seq(Msg), NEW r \in Seq(Msg)
    PROVE  \A i \in DOMAIN (s \o r) : \/ \E j \in DOMAIN s : (s \o r)[i] = s[j]
                                    \/ \E j \in DOMAIN r : (s \o r)[i] = r[j]
<1>1. /\ Len(s) \in Nat /\ Len(r) \in Nat /\ DOMAIN (s \o r) = 1 .. Len(s) + Len(r)
      /\ DOMAIN s = 1 .. Len(s) /\ DOMAIN r = 1 .. Len(r)
      /\ \A i \in 1 .. Len(s) : (s \o r)[i] = s[i]
      /\ \A i \in 1 .. Len(r) : (s \o r)[Len(s) + i] = r[i]
    BY ConcatProperties
<1>2. \A i \in 1 .. Len(s) + Len(r) :
          i \in 1 .. Len(s) \/ (i - Len(s) \in 1 .. Len(r) /\ Len(s) + (i - Len(s)) = i)
    BY <1>1
<1> SUFFICES ASSUME NEW i \in 1 .. Len(s) + Len(r)
             PROVE  \/ \E j \in DOMAIN s : (s \o r)[i] = s[j]
                    \/ \E j \in DOMAIN r : (s \o r)[i] = r[j]
    BY <1>1
<1>3. CASE i \in 1 .. Len(s)
    BY <1>1, <1>3
<1>4. CASE i - Len(s) \in 1 .. Len(r) /\ Len(s) + (i - Len(s)) = i
    <2>1. (s \o r)[i] = r[i - Len(s)]
        BY <1>1, <1>4
    <2> QED BY <1>1, <1>4, <2>1
<1> QED BY <1>2, <1>3, <1>4

LEMMA SentStep ==
    ASSUME IInv, SentInv, Next, ~Restart
    PROVE  SentInv'
<1> USE DEF IInv, session, links
<1>0. /\ messages \in Seq(Msg) /\ redis.queue \in Seq(Msg) /\ clock \in Nat /\ redis \in RedisType
      /\ \A c \in Conns : pending[c] \in Seq(Msg) /\ conn[c] \in Conn
    BY DEF TypeOK, RedisType
<1>1. ASSUME \A i \in DOMAIN messages' : WellSent(messages'[i]),
             \A i \in DOMAIN redis'.queue : Proper(redis'.queue[i]),
             \A c \in Conns : \A i \in DOMAIN pending'[c] : Proper(pending'[c][i])
      PROVE  SentInv'
    BY <1>1 DEF SentInv
<1>2. ASSUME messages # << >>, messages' = Tail(messages)
      PROVE  \A i \in DOMAIN messages' : WellSent(messages'[i])
    BY <1>0, <1>2, AllOfTail DEF SentInv
<1>3. ASSUME NEW m \in Msg, redis'.queue = Append(redis.queue, m), Proper(m)
      PROVE  \A i \in DOMAIN redis'.queue : Proper(redis'.queue[i])
    BY <1>0, <1>3, AllOfAppend DEF SentInv
<1>4. ASSUME NEW c \in Conns, ServeSubjectRequest(c) PROVE SentInv'
    <2> DEFINE m == Register(conn[c].name)
    <2>1. m \in Msg /\ Proper(m)
        BY <1>0, RegisterType DEF Conn, TypeOK, Register, Proper
    <2>2. UNCHANGED <<messages, pending>> /\ (redis' = redis \/ redis' = SaveMessage(redis, m))
        BY <1>4 DEF ServeSubjectRequest
    <2> HIDE DEF m
    <2>3. redis'.queue = redis.queue \/ redis'.queue = Append(redis.queue, m)
        BY <1>0, <2>1, <2>2, SaveMessageType
    <2> QED BY <1>1, <1>3, <2>1, <2>2, <2>3 DEF SentInv
<1>5. CASE HandleUpdate \/ ReplayConfig
    <2>1. PICK m \in Msg : Process(m) /\ WellSent(m)
        BY <1>5, ProcessedMsg
    <2>2. redis'.queue = Append(redis.queue, Stamped(m)) /\ Stamped(m) \in Msg /\ Proper(Stamped(m))
        BY <1>0, <2>1, ProcessEffect, StampedType, StampedProper DEF TypeOK
    <2>3. pending' = pending /\ (messages' = messages \/ (messages # << >> /\ messages' = Tail(messages)))
        BY <1>5 DEF HandleUpdate, ReplayConfig
    <2> QED BY <1>1, <1>2, <1>3, <2>2, <2>3 DEF SentInv
<1>6. CASE HandleStale \/ AnswerReset
    <2>1. UNCHANGED <<redis, pending>> /\ messages # << >> /\ messages' = Tail(messages)
        BY <1>6 DEF HandleStale, AnswerReset, ResetUnderWay, Resetting
    <2> QED BY <1>1, <1>2, <2>1 DEF SentInv
<1>7. CASE BeginReset
    <2>1. UNCHANGED <<redis, pending>> /\ messages' = [messages EXCEPT ![1].time = clock + 1]
        BY <1>7 DEF BeginReset
    <2>2. /\ DOMAIN messages' = DOMAIN messages
          /\ \A i \in DOMAIN messages : /\ messages'[i].key = messages[i].key
                                         /\ messages'[i].group = messages[i].group
                                         /\ messages'[i].stateUpdate = messages[i].stateUpdate
        BY <1>0, <2>1, SMTT(30) DEF Msg
    <2> QED BY <1>1, <2>1, <2>2 DEF SentInv, WellSent
<1>8. CASE ClearLog
    <2>1. redis'.queue = << >> /\ UNCHANGED <<messages, pending>>
        BY <1>0, <1>8, DeleteSessionType DEF ClearLog
    <2> QED BY <1>1, <2>1 DEF SentInv
<1>9. CASE RoutePanics \/ Crash
    <2>1. /\ messages' = << >> /\ redis' = redis /\ \A c \in Conns : pending'[c] = << >>
        BY <1>9 DEF RoutePanics, Crash, LoseMemory
    <2> QED BY <1>1, <2>1 DEF SentInv
<1>10. ASSUME NEW c \in Conns, RegisterListener(c) \/ RemoveListener(c) \/ StartSync(c)
                                \/ CountQueue(c) \/ FinishSync(c) \/ SendLoop(c)
                                \/ (\E n \in Callers : Connect(c, n)) \/ Disconnect(c)
       PROVE  SentInv'
    <2>1. UNCHANGED <<messages, redis, pending>>
        BY <1>10 DEF RegisterListener, RemoveListener, StartSync, CountQueue, FinishSync, SendLoop,
                     Connect, Disconnect
    <2> QED BY <2>1 DEF SentInv
<1>11. ASSUME NEW c \in Conns, FetchBlock(c) PROVE SentInv'
    <2> DEFINE lo == conn[c].next
               hi == IF lo + BlockSize < conn[c].end THEN lo + BlockSize ELSE conn[c].end
               block == LRange(redis.queue, lo, hi - 1)
    <2>1. pending' = [pending EXCEPT ![c] = @ \o block] /\ UNCHANGED <<messages, redis>>
        BY <1>11 DEF FetchBlock
    <2>2. lo \in Nat /\ hi - 1 \in Int
        BY <1>0, RouterAssumption DEF Conn
    <2> HIDE DEF lo, hi
    <2>3. block \in Seq(Msg) /\ \A i \in DOMAIN block : \E j \in DOMAIN redis.queue : block[i] = redis.queue[j]
        BY <1>0, <2>2, LRangeType, BlockOfLog
    <2> HIDE DEF block
    <2>4. \A i \in DOMAIN (pending[c] \o block) : Proper((pending[c] \o block)[i])
        BY <1>0, <2>3, AllOfConcat DEF SentInv
    <2> QED BY <1>1, <2>1, <2>4 DEF SentInv
<1>12. ASSUME NEW c \in Conns, SyncMessage(c) PROVE SentInv'
    <2>1. /\ pending[c] # << >> /\ pending' = [pending EXCEPT ![c] = Tail(@)]
          /\ UNCHANGED <<messages, redis>>
        BY <1>12 DEF SyncMessage
    <2>2. \A i \in DOMAIN Tail(pending[c]) : Proper(Tail(pending[c])[i])
        BY <1>0, <2>1, AllOfTail DEF SentInv
    <2> QED BY <1>1, <2>1, <2>2 DEF SentInv
<1>13. ASSUME NEW c \in Conns, ClientSend(c) PROVE SentInv'
    <2>1. PICK m \in ClientMsgs(c) : messages' = Append(messages, m)
        BY <1>13 DEF ClientSend
    <2>2. m \in Msg /\ WellSent(m) /\ UNCHANGED <<redis, pending>>
        BY <1>13, <2>1, ClientMsgsType, ClientMsgsWellSent DEF ClientSend
    <2>3. \A i \in DOMAIN messages' : WellSent(messages'[i])
        BY <1>0, <2>1, <2>2, AllOfAppend DEF SentInv
    <2> QED BY <1>1, <2>2, <2>3 DEF SentInv
<1> QED
    BY <1>4, <1>5, <1>6, <1>7, <1>8, <1>9, <1>10, <1>11, <1>12, <1>13
    DEF Next, Handle, Serve, Sync, Client

-----------------------------------------------------------------------------
(* Registrations                                                           *)

LEMMA AppendRegisters ==
    ASSUME NEW s \in Seq(Msg), NEW m \in Msg, NEW n
    PROVE  /\ Never(s, n) /\ Registers(m, n) => Once(Append(s, m), n)
           /\ Never(s, n) /\ ~Registers(m, n) => Never(Append(s, m), n)
           /\ Once(s, n) /\ ~Registers(m, n) => Once(Append(s, m), n)
<1> DEFINE t == Append(s, m)
<1>1. /\ Len(s) \in Nat /\ DOMAIN s = 1 .. Len(s) /\ DOMAIN t = 1 .. Len(s) + 1
      /\ t[Len(s) + 1] = m /\ \A i \in 1 .. Len(s) : t[i] = s[i]
    BY AppendProperties
<1>2. /\ \A i \in 1 .. Len(s) + 1 : i \in 1 .. Len(s) \/ i = Len(s) + 1
      /\ Len(s) + 1 \in 1 .. Len(s) + 1
      /\ \A i \in 1 .. Len(s) : i \in 1 .. Len(s) + 1
    BY <1>1
<1> HIDE DEF t
<1>3. Never(s, n) /\ Registers(m, n) => Once(t, n)
    BY <1>1, <1>2 DEF Never, Once
<1>4. Never(s, n) /\ ~Registers(m, n) => Never(t, n)
    BY <1>1, <1>2 DEF Never
<1>5. Once(s, n) /\ ~Registers(m, n) => Once(t, n)
    BY <1>1, <1>2 DEF Once
<1> QED BY <1>3, <1>4, <1>5 DEF t

LEMMA RegisterStep ==
    ASSUME IInv, EpochsInv, SentInv, RegisterInv, Next, ~Restart
    PROVE  RegisterInv'
<1> USE DEF IInv, session, links
<1>0. /\ redis.queue \in Seq(Msg) /\ redis \in RedisType /\ Subjects \subseteq Names
      /\ \A c \in Conns : conn[c] \in Conn /\ conn[c].name \in Names
      /\ nonce # 0 /\ subjects \in [Names -> 0 .. MaxNonce]
    BY RouterAssumption DEF TypeOK, RedisType, Names, Conn, Epochs
<1>1. ASSUME UNCHANGED <<redis, subjects>>, status' = status \/ status' \notin {"running", "replaying", "answering"}
      PROVE  RegisterInv'
    BY <1>1 DEF RegisterInv
<1>2. ASSUME NEW c \in Conns, ServeSubjectRequest(c) PROVE RegisterInv'
    <2> DEFINE n == conn[c].name
               m == Register(n)
    <2>1. /\ m \in Msg /\ Registers(m, n) /\ \A k \in Names : k # n => ~Registers(m, k)
        BY <1>0, RegisterType DEF TypeOK, Register, Registers
    <2>2. status = "running" /\ status' = "running"
        BY <1>2 DEF ServeSubjectRequest
    <2>3. CASE subjects[n] # 0
        BY <1>1, <1>2, <2>3 DEF ServeSubjectRequest
    <2>4. CASE subjects[n] = 0
        <3>1. redis' = SaveMessage(redis, m) /\ subjects' = [subjects EXCEPT ![n] = nonce]
            BY <1>2, <2>4 DEF ServeSubjectRequest
        <3> HIDE DEF m
        <3>2. redis'.queue = Append(redis.queue, m)
            BY <1>0, <2>1, <3>1, SaveMessageType
        <3>3. \A k \in Subjects : IF subjects'[k] = 0 THEN Never(redis'.queue, k)
                                                      ELSE Once(redis'.queue, k)
            <4> SUFFICES ASSUME NEW k \in Subjects
                         PROVE  IF subjects'[k] = 0 THEN Never(redis'.queue, k)
                                                    ELSE Once(redis'.queue, k)
                OBVIOUS
            <4>1. IF subjects[k] = 0 THEN Never(redis.queue, k) ELSE Once(redis.queue, k)
                BY <2>2 DEF RegisterInv
            <4>2. CASE k = n
                <5>1. subjects[k] = 0 /\ subjects'[k] # 0
                    BY <1>0, <2>4, <3>1, <4>2
                <5>2. Once(Append(redis.queue, m), k)
                    BY <1>0, <2>1, <4>1, <4>2, <5>1, AppendRegisters
                <5> QED BY <3>2, <5>1, <5>2
            <4>3. CASE k # n
                <5>1. subjects'[k] = subjects[k] /\ ~Registers(m, k)
                    BY <1>0, <2>1, <3>1, <4>3
                <5> QED BY <1>0, <2>1, <3>2, <4>1, <5>1, AppendRegisters
            <4> QED BY <4>2, <4>3
        <3> QED BY <3>3 DEF RegisterInv
    <2> QED BY <2>3, <2>4
<1>3. CASE HandleUpdate \/ ReplayConfig
    <2>1. PICK m \in Msg : Process(m) /\ WellSent(m)
        BY <1>3, ProcessedMsg
    <2>2. /\ redis'.queue = Append(redis.queue, Stamped(m)) /\ Stamped(m) \in Msg
          /\ \A n : ~Registers(Stamped(m), n)
        BY <2>1, ProcessEffect, StampedType, StampedProper DEF TypeOK, Registers
    <2>3. subjects' = subjects /\ status \in {"running", "replaying"}
        BY <1>3 DEF HandleUpdate, ReplayConfig
    <2>4. \A n \in Subjects : IF subjects[n] = 0 THEN Never(Append(redis.queue, Stamped(m)), n)
                                                 ELSE Once(Append(redis.queue, Stamped(m)), n)
        BY <1>0, <2>2, <2>3, AppendRegisters DEF RegisterInv
    <2> QED BY <2>2, <2>3, <2>4 DEF RegisterInv
<1>4. CASE ClearLog
    <2>1. redis'.queue = << >> /\ subjects' = NoSubjects
        BY <1>0, <1>4, DeleteSessionType DEF ClearLog, ResetUnderWay, Resetting
    <2> QED BY <1>0, <2>1 DEF RegisterInv, Never, NoSubjects
<1>5. CASE AnswerReset
    <2>1. redis' = redis /\ status = "answering" /\ subjects = NoSubjects
          /\ (subjects' = NoSubjects \/ subjects' = subjects)
        BY <1>5 DEF AnswerReset, ResetUnderWay, Resetting
    <2> QED BY <2>1 DEF RegisterInv
<1>6. CASE BeginReset \/ RoutePanics \/ Crash
    BY <1>6 DEF BeginReset, RoutePanics, Crash, RegisterInv
<1>7. CASE HandleStale
    BY <1>1, <1>7 DEF HandleStale
<1>8. ASSUME NEW c \in Conns, Sync(c) \/ SendLoop(c) \/ Client(c) PROVE RegisterInv'
    BY <1>1, <1>8, LinkSteps
<1>9. ASSUME NEW c \in Conns, RegisterListener(c) \/ RemoveListener(c) PROVE RegisterInv'
    BY <1>1, <1>9 DEF RegisterListener, RemoveListener
<1> QED
    BY <1>2, <1>3, <1>4, <1>5, <1>6, <1>7, <1>8, <1>9 DEF Next, Handle, Serve

-----------------------------------------------------------------------------
(* last_state_update                                                       *)

LEMMA UpdatesAfter ==
    ASSUME NEW ups, NEW m \in Msg, NEW n
    PROVE  /\ IsPeriodOf(m, n) /\ m.stateUpdate => Updates(WithUpdate(ups, m), n) = {m}
           /\ ~IsPeriodOf(m, n) => Updates(WithUpdate(ups, m), n) = Updates(ups, n)
BY DEF Updates, WithUpdate, IsPeriodOf

LEMMA AppendRemembered ==
    ASSUME NEW ups, NEW s \in Seq(Msg), NEW m \in Msg, NEW n, NEW e, NEW at,
           Remembered(ups, s, n, e, at), ~IsPeriodOf(m, n)
    PROVE  Remembered(ups, Append(s, m), n, e, at)
<1>1. Silent(s, n) => Silent(Append(s, m), n)
    BY AppendTells
<1>2. \A i \in DOMAIN s : i \in DOMAIN Append(s, m) /\ Append(s, m)[i] = s[i]
    <2>1. /\ Len(s) \in Nat /\ DOMAIN s = 1 .. Len(s) /\ DOMAIN Append(s, m) = 1 .. Len(s) + 1
          /\ \A i \in 1 .. Len(s) : Append(s, m)[i] = s[i]
        BY AppendProperties
    <2>2. \A i \in 1 .. Len(s) : i \in 1 .. Len(s) + 1
        BY <2>1
    <2> QED BY <2>1, <2>2
<1> QED BY <1>1, <1>2 DEF Remembered

\* What a message changes of a Subject object's period.
LEMMA ScopeAfter ==
    ASSUME TypeOK, NEW m \in Msg, NEW n \in Names, NEW e \in Epochs,
           NeedsSubject(m) => subjects[m.sender] \in Epochs
    PROVE  /\ IsPeriodOf(m, n) /\ subjects[n] = e => WithScope(m)[n][e].period = m.value
           /\ ~IsPeriodOf(m, n) => WithScope(m)[n][e].period = attrs[n][e].period
<1>1. attrs \in [Names -> [Epochs -> Scope]] /\ m.sender \in Names /\ attrs[n][e] \in Scope
    BY MsgFields DEF TypeOK
<1>2. CASE m.key = "__set_period__"
    <2> DEFINE f == subjects[m.sender]
    <2>1. f \in Epochs /\ attrs[m.sender][f] \in Scope
        BY <1>1, <1>2 DEF NeedsSubject
    <2>2. WithScope(m) = [attrs EXCEPT ![m.sender][f].period = m.value]
        BY <1>2 DEF WithScope
    <2> HIDE DEF f
    <2>3. WithScope(m)[m.sender][f].period = m.value
        BY <1>1, <2>1, <2>2 DEF Scope
    <2>4. n # m.sender => WithScope(m)[n] = attrs[n]
        BY <1>1, <2>2
    <2> QED BY <1>2, <2>3, <2>4 DEF IsPeriodOf, f
<1>3. CASE m.key = "__set_group__"
    <2> DEFINE f == subjects[m.sender]
    <2>1. f \in Epochs /\ attrs[m.sender][f] \in Scope
        BY <1>1, <1>3 DEF NeedsSubject
    <2>2. WithScope(m) = [attrs EXCEPT ![m.sender][f].group = m.value]
        BY <1>3 DEF WithScope
    <2> HIDE DEF f
    <2>3. WithScope(m)[n][e].period = attrs[n][e].period
        BY <1>1, <2>1, <2>2 DEF Scope
    <2> QED BY <1>3, <2>3 DEF IsPeriodOf
<1>4. CASE m.key \notin {"__set_period__", "__set_group__"}
    <2>1. WithScope(m) = attrs
        BY <1>4 DEF WithScope
    <2> QED BY <1>4, <2>1 DEF IsPeriodOf
<1> QED BY <1>2, <1>3, <1>4

LEMMA RememberedStep ==
    ASSUME IInv, EpochsInv, SentInv, RememberedInv, Next, ~Restart
    PROVE  RememberedInv'
<1> USE DEF IInv, session, links
<1>0. /\ redis.queue \in Seq(Msg) /\ redis \in RedisType /\ Subjects \subseteq Names
      /\ \A c \in Conns : conn[c] \in Conn /\ conn[c].name \in Names
      /\ nonce # 0 /\ nonce \in Epochs /\ sid \in Epochs /\ 0 \notin Epochs
      /\ subjects \in [Names -> 0 .. MaxNonce]
      /\ \A n \in Names : subjects[n] # 0 => subjects[n] \in Epochs
      /\ attrs \in [Names -> [Epochs -> Scope]] /\ updates \in [Epochs -> SUBSET Msg]
    BY RouterAssumption DEF TypeOK, RedisType, Names, Conn, Epochs
<1>1. ASSUME UNCHANGED <<redis, subjects, updates, sid, attrs, status>> PROVE RememberedInv'
    BY <1>1 DEF RememberedInv
<1>2. ASSUME NEW c \in Conns, ServeSubjectRequest(c) PROVE RememberedInv'
    <2> DEFINE n == conn[c].name
               m == Register(n)
    <2>1. m \in Msg /\ \A k : ~IsPeriodOf(m, k)
        BY <1>0, RegisterType DEF TypeOK, Register, IsPeriodOf
    <2>2. status = "running" /\ UNCHANGED <<status, updates, sid>>
        BY <1>2 DEF ServeSubjectRequest
    <2>3. CASE subjects[n] # 0
        BY <1>1, <1>2, <2>3 DEF ServeSubjectRequest
    <2>4. CASE subjects[n] = 0
        <3>1. /\ redis' = SaveMessage(redis, m) /\ subjects' = [subjects EXCEPT ![n] = nonce]
              /\ attrs' = [attrs EXCEPT ![n][nonce] = NoScope]
            BY <1>2, <2>4 DEF ServeSubjectRequest
        <3> HIDE DEF m
        <3>2. redis'.queue = Append(redis.queue, m)
            BY <1>0, <2>1, <3>1, SaveMessageType
        <3> SUFFICES ASSUME NEW k \in Subjects
                     PROVE  Remembered(updates[sid], redis'.queue, k, subjects'[k], attrs')
            BY <2>2 DEF RememberedInv
        <3>3. Remembered(updates[sid], redis'.queue, k, subjects[k], attrs)
            BY <1>0, <2>1, <2>2, <3>2, AppendRemembered DEF RememberedInv
        <3>4. CASE k = n
            <4>1. Updates(updates[sid], k) = {}
                BY <2>4, <3>3, <3>4 DEF Remembered
            <4>2. subjects'[k] = nonce /\ attrs'[k][nonce].period = 0
                BY <1>0, <3>1, <3>4 DEF NoScope
            <4> QED BY <3>3, <4>1, <4>2 DEF Remembered
        <3>5. CASE k # n
            <4>1. subjects'[k] = subjects[k] /\ attrs'[k] = attrs[k]
                BY <1>0, <3>1, <3>5
            <4> QED BY <3>3, <4>1 DEF Remembered
        <3> QED BY <3>4, <3>5
    <2> QED BY <2>3, <2>4
<1>3. CASE HandleUpdate \/ ReplayConfig
    <2>1. PICK m \in Msg : /\ Process(m) /\ WellSent(m)
                           /\ NeedsSubject(m) => subjects[m.sender] # 0
        BY <1>3, ProcessedMsg
    <2> DEFINE M == Stamped(m)
    <2>2. /\ M \in Msg /\ M.key = m.key /\ M.sender = m.sender /\ M.value = m.value /\ Proper(M)
          /\ m.key = "__set_period__" => M.stateUpdate /\ M.group = 0
          /\ redis'.queue = Append(redis.queue, M)
        <3>1. M \in Msg /\ M.key = m.key /\ M.sender = m.sender /\ M.value = m.value
            BY StampedType DEF TypeOK
        <3>2. /\ Proper(M) /\ M.stateUpdate = m.stateUpdate
              /\ m.key = "__set_period__" => M.group = 0 /\ m.stateUpdate
            BY <2>1, StampedProper DEF WellSent
        <3>3. redis'.queue = Append(redis.queue, M)
            BY <2>1, ProcessEffect
        <3> QED BY <3>1, <3>2, <3>3
    <2>3. /\ UNCHANGED <<subjects, sid>> /\ status \in {"running", "replaying"}
          /\ status' \in {"running", "answering"}
          /\ updates'[sid] = WithUpdate(updates[sid], M) /\ attrs' = WithScope(m)
        <3>1. updates' = [updates EXCEPT ![sid] = WithUpdate(updates[sid], M)] /\ attrs' = WithScope(m)
            BY <2>1 DEF Process
        <3>2. /\ UNCHANGED <<subjects, sid>> /\ status \in {"running", "replaying"}
              /\ status' \in {"running", "answering"}
            BY <1>3 DEF HandleUpdate, ReplayConfig
        <3> HIDE DEF M
        <3> QED BY <1>0, <3>1, <3>2
    <2>4. NeedsSubject(m) => subjects[m.sender] \in Epochs
        <3>1. m.sender \in Names
            BY MsgFields
        <3> QED BY <1>0, <2>1, <3>1
    <2> HIDE DEF M
    <2> SUFFICES ASSUME NEW n \in Subjects
                 PROVE  Remembered(WithUpdate(updates[sid], M), redis'.queue, n, subjects[n], attrs')
        BY <2>3 DEF RememberedInv
    <2>5. Remembered(updates[sid], redis.queue, n, subjects[n], attrs)
        BY <2>3 DEF RememberedInv
    <2>6. CASE IsPeriodOf(M, n)
        <3>1. IsPeriodOf(m, n) /\ m.sender = n /\ subjects[n] # 0 /\ subjects[n] \in Epochs
            BY <1>0, <2>1, <2>2, <2>4, <2>6 DEF IsPeriodOf, NeedsSubject
        <3>2. attrs'[n][subjects[n]].period = M.value /\ M.period = M.value
            BY <1>0, <2>2, <2>3, <2>4, <2>6, <3>1, ScopeAfter DEF Proper, IsPeriodOf
        <3>3. Updates(WithUpdate(updates[sid], M), n) = {M} /\ M.stateUpdate /\ M.group = 0
            <4>1. M.key = "__set_period__" /\ M.stateUpdate /\ M.group = 0
                BY <2>2, <2>6 DEF IsPeriodOf
            <4> QED BY <2>2, <2>6, <4>1, UpdatesAfter
        <3>4. \E i \in DOMAIN redis'.queue : redis'.queue[i] = M
            <4>1. /\ Len(redis.queue) + 1 \in DOMAIN Append(redis.queue, M)
                  /\ Append(redis.queue, M)[Len(redis.queue) + 1] = M
                BY <1>0, <2>2, AppendProperties
            <4> QED BY <2>2, <4>1
        <3> QED BY <3>1, <3>2, <3>3, <3>4 DEF Remembered
    <2>7. CASE ~IsPeriodOf(M, n)
        <3>1. ~IsPeriodOf(m, n)
            BY <2>2, <2>7 DEF IsPeriodOf
        <3>2. Updates(WithUpdate(updates[sid], M), n) = Updates(updates[sid], n)
            BY <2>2, <2>7, UpdatesAfter
        <3>3. subjects[n] # 0 => attrs'[n][subjects[n]].period = attrs[n][subjects[n]].period
            BY <1>0, <2>3, <2>4, <3>1, ScopeAfter
        <3>4. Remembered(updates[sid], redis'.queue, n, subjects[n], attrs)
            BY <1>0, <2>2, <2>5, <2>7, AppendRemembered
        <3> QED BY <3>2, <3>3, <3>4 DEF Remembered
    <2> QED BY <2>6, <2>7
<1>4. CASE BeginReset
    <2>1. status' = "clearing" /\ updates' = [updates EXCEPT ![sid] = {}] /\ sid' = sid
        BY <1>4 DEF BeginReset
    <2> QED BY <1>0, <2>1 DEF RememberedInv
<1>5. CASE ClearLog
    <2>1. /\ redis'.queue = << >> /\ status' # "clearing" /\ updates[sid] = {} /\ subjects = NoSubjects
          /\ UNCHANGED <<subjects, updates, sid, attrs>>
        BY <1>0, <1>5, DeleteSessionType DEF ClearLog, RememberedInv, ResetUnderWay, Resetting
    <2>2. \A n \in Subjects : Remembered({}, << >>, n, 0, attrs)
        BY DEF Remembered, Updates, Silent
    <2>3. \A n \in Subjects : subjects'[n] = 0
        BY <2>1 DEF NoSubjects, Names
    <2>4. \A n \in Subjects : Remembered(updates'[sid'], redis'.queue, n, subjects'[n], attrs')
        BY <2>1, <2>2, <2>3
    <2> QED BY <2>1, <2>4 DEF RememberedInv
<1>6. CASE AnswerReset
    <2>1. /\ status = "answering" /\ status' = "running" /\ UNCHANGED <<redis, attrs, updates>>
          /\ subjects = NoSubjects /\ subjects' = NoSubjects
          /\ \/ sid' = sid
             \/ sid' = nonce + 1 /\ nonce < MaxNonce
        BY <1>6 DEF AnswerReset, ResetUnderWay, Resetting
    <2>2. sid' = nonce + 1 /\ nonce < MaxNonce => updates[sid'] = {}
        <3>1. nonce < MaxNonce => nonce + 1 \in Epochs /\ nonce + 1 > nonce
            BY RouterAssumption DEF TypeOK, Epochs
        <3> QED BY <3>1 DEF EpochsInv
    <2>3. \A n \in Subjects : Remembered(updates[sid], redis.queue, n, 0, attrs)
        BY <1>0, <2>1 DEF RememberedInv, NoSubjects
    <2>4. \A n \in Subjects : Remembered({}, redis.queue, n, 0, attrs)
        BY <2>3 DEF Remembered, Updates
    <2> QED BY <1>0, <2>1, <2>2, <2>3, <2>4 DEF RememberedInv, NoSubjects
<1>7. CASE RoutePanics \/ Crash
    BY <1>7 DEF RoutePanics, Crash, RememberedInv
<1>8. CASE HandleStale
    BY <1>1, <1>8 DEF HandleStale
<1>9. ASSUME NEW c \in Conns, Sync(c) \/ SendLoop(c) \/ Client(c) PROVE RememberedInv'
    <2>1. UNCHANGED attrs
        BY <1>9 DEF Sync, Client, StartSync, CountQueue, FetchBlock, SyncMessage, FinishSync, SendLoop,
                    Connect, Disconnect, ClientSend
    <2> QED BY <1>1, <1>9, <2>1, LinkSteps
<1>10. ASSUME NEW c \in Conns, RegisterListener(c) \/ RemoveListener(c) PROVE RememberedInv'
    BY <1>1, <1>10 DEF RegisterListener, RemoveListener
<1> QED
    BY <1>2, <1>3, <1>4, <1>5, <1>6, <1>7, <1>8, <1>9, <1>10 DEF Next, Handle, Serve

-----------------------------------------------------------------------------
(* What clients are told                                                   *)

\* A message that sets no period of this subject changes nothing.
LEMMA StillInformed ==
    ASSUME NEW k, NEW old, NEW pend, NEW new \in Seq(Msg), NEW new2, NEW log \in Seq(Msg), NEW p,
           NEW ups, NEW ups2, NEW m \in Msg, ~IsPeriodOf(m, k.name),
           Updates(ups2, k.name) = Updates(ups, k.name),
           new2 = new \/ new2 = Append(new, m),
           Informed(k, old, pend, new, log, ups, p)
    PROVE  Informed(k, old, pend, new2, Append(log, m), ups2, p)
<1> DEFINE n == k.name
           U == Updates(ups, n)
<1>1. \A i \in DOMAIN log : i \in DOMAIN Append(log, m) /\ Append(log, m)[i] = log[i]
    <2>1. /\ Len(log) \in Nat /\ DOMAIN log = 1 .. Len(log)
          /\ DOMAIN Append(log, m) = 1 .. Len(log) + 1
          /\ \A i \in 1 .. Len(log) : Append(log, m)[i] = log[i]
        BY AppendProperties
    <2>2. \A i \in 1 .. Len(log) : i \in 1 .. Len(log) + 1
        BY <2>1
    <2> QED BY <2>1, <2>2
<1>2. Fetched(pend, log, k.next, k.end, U) => Fetched(pend, Append(log, m), k.next, k.end, U)
    BY <1>1 DEF Fetched
<1>3. /\ Silent(new, n) => Silent(new2, n)
      /\ Tells(new, n, p) => Tells(new2, n, p)
    BY AppendTells
<1>4. Told(old, new, n, p) => Told(old, new2, n, p)
    BY <1>3 DEF Told
<1> HIDE DEF n, U
<1>5. CASE U = {}
    BY <1>3, <1>5 DEF Informed, n, U
<1>6. CASE U # {}
    BY <1>2, <1>3, <1>4, <1>6 DEF Informed, n, U
<1> QED BY <1>5, <1>6

\* The message that sets it is delivered, and that is enough.
LEMMA NowInformed ==
    ASSUME NEW k, NEW old, NEW pend, NEW new \in Seq(Msg), NEW log,
           NEW ups, NEW m \in Msg, IsPeriodOf(m, k.name), Updates(ups, k.name) = {m}
    PROVE  Informed(k, old, pend, Append(new, m), log, ups, m.value)
BY AppendTells DEF Informed, Told

\* The messages of last_state_update match, and what matches says the period they say.
LEMMA UpdatesMatch ==
    ASSUME NEW n \in Subjects, NEW scope, NEW ups, NEW m \in Msg, Proper(m), IsPeriodOf(m, n),
           \A u \in Updates(ups, n) : /\ u.value = scope.period /\ u.period = u.value
                                      /\ u.group = 0 /\ u.stateUpdate
    PROVE  /\ match(n, scope, ups, m) => m.value = scope.period
           /\ m \in Updates(ups, n) => match(n, scope, ups, m)
<1>1. n \notin Observers /\ m.key \notin ControlKeys /\ m # NoMsg
    BY NamesAssumption DEF IsPeriodOf, ControlKeys
<1>2. m.stateUpdate /\ m.value = m.period
    BY DEF Proper, IsPeriodOf
<1>3. ASSUME match(n, scope, ups, m) PROVE m.value = scope.period
    <2>1. PICK u \in ups : IdenticalTo(m, u)
        BY <1>1, <1>2, <1>3 DEF match
    <2>2. u \in Updates(ups, n) /\ u.period = m.period
        BY <2>1 DEF IdenticalTo, Updates, IsPeriodOf
    <2> QED BY <1>2, <2>2
<1>4. ASSUME m \in Updates(ups, n) PROVE match(n, scope, ups, m)
    <2>1. m \in ups /\ IdenticalTo(m, m)
        BY <1>1, <1>4 DEF IdenticalTo, Updates
    <2>2. m.period = scope.period /\ m.group = 0
        BY <1>4
    <2> QED BY <2>1, <2>2 DEF match
<1> QED BY <1>3, <1>4

\* What a message of last_state_update says of the period of a client's subject.
LEMMA TrackedRemembers ==
    ASSUME IInv, EpochsInv, RememberedInv, NEW c \in Conns, Tracked(c)
    PROVE  /\ conn[c].name \in Subjects /\ status = "running"
           /\ Remembered(updates[sid], redis.queue, conn[c].name, nonce, attrs)
           /\ conn[c].st = "fetching" => conn[c].sess = sid
<1>1. /\ conn[c].name \in Subjects /\ conn[c].name \in Names /\ conn[c].subj = nonce /\ nonce # 0
    BY RouterAssumption DEF Tracked, Follows, IInv, TypeOK, Epochs, Names
<1>2. /\ subjects[conn[c].name] = nonce
      /\ conn[c].st = "fetching" => conn[c].sess = sid
    BY <1>1 DEF EpochsInv, OfEpoch
<1>3. status = "running"
    BY <1>1, <1>2 DEF EpochsInv, NoSubjects
<1> QED BY <1>1, <1>2, <1>3 DEF RememberedInv

\* Sync and SendLoop bring the client what they take.
LEMMA OwnInformed ==
    ASSUME IInv, EpochsInv, SentInv, RememberedInv, NEW c \in Conns,
           Tracked(c) => InformedOf(c), Tracked(c)',
           Sync(c) \/ SendLoop(c) \/ Client(c)
    PROVE  InformedOf(c)'
<1> DEFINE n == conn[c].name
           U == Updates(updates[sid], n)
           p == attrs[n][nonce].period
<1>0. /\ conn \in [Conns -> Conn] /\ conn[c] \in Conn
      /\ pending \in [Conns -> Seq(Msg)] /\ pending[c] \in Seq(Msg)
      /\ recv \in [Conns -> Seq(Msg)] /\ recv[c] \in Seq(Msg)
      /\ inbox \in [Conns -> Seq(Msg)] /\ inbox[c] \in Seq(Msg)
      /\ redis.queue \in Seq(Msg)
    BY DEF IInv, TypeOK, RedisType
<1>1. UNCHANGED <<nonce, sid, updates, attrs, listeners, redis>>
    BY DEF Sync, Client, StartSync, CountQueue, FetchBlock, SyncMessage, FinishSync, SendLoop,
           Connect, Disconnect, ClientSend, session, links
<1>2. Opens(conn[c], conn'[c]) \/ Moves(conn[c], conn'[c])
    BY OwnMoves DEF IInv
<1>3. conn'[c].st \in {"opened", "syncing", "fetching", "live"} /\ conn'[c].open
    BY DEF Tracked, Follows
<1>4. Moves(conn[c], conn'[c]) /\ conn[c].st \in {"opened", "syncing", "fetching", "live"}
    BY <1>2, <1>3 DEF Opens, Moves, Goes
<1>5. conn[c].open
    <2>1. CASE Sync(c)
        BY <1>0, <1>3, <2>1, SMTT(30)
        DEF Sync, StartSync, CountQueue, FetchBlock, SyncMessage, FinishSync, Conn
    <2>2. CASE SendLoop(c)
        BY <1>0, <1>3, <2>2 DEF SendLoop, Conn
    <2>3. ASSUME NEW name \in Callers PROVE ~Connect(c, name)
        BY <1>4 DEF Connect
    <2>4. CASE Disconnect(c)
        BY <2>4 DEF Disconnect
    <2>5. CASE ClientSend(c)
        BY <1>3, <2>5 DEF ClientSend, links
    <2> QED BY <2>1, <2>2, <2>3, <2>4, <2>5 DEF Client
<1>6. Tracked(c) /\ conn'[c].name = n
    BY <1>1, <1>4, <1>5 DEF Tracked, Follows, Moves
<1>7. /\ n \in Subjects /\ status = "running"
      /\ Remembered(updates[sid], redis.queue, n, nonce, attrs)
      /\ conn[c].st = "fetching" => conn[c].sess = sid
    BY <1>6, TrackedRemembers
<1>8. Informed(conn[c], inbox[c], pending[c], recv[c], redis.queue, updates[sid], p)
    BY <1>6 DEF InformedOf
<1> SUFFICES Informed(conn'[c], inbox'[c], pending'[c], recv'[c], redis.queue, updates[sid], p)
    BY <1>1, <1>6 DEF InformedOf
<1>9. /\ U = {} => Silent(inbox[c], n) /\ Silent(pending[c], n) /\ Silent(recv[c], n)
      /\ U # {} =>
             CASE conn[c].st = "live" -> Told(inbox[c], recv[c], n, p)
               [] conn[c].st = "fetching" ->
                      \/ Told(inbox[c], recv[c], n, p)
                      \/ /\ Silent(recv[c], n)
                         /\ Fetched(pending[c], redis.queue, conn[c].next, conn[c].end, U)
               [] OTHER -> Silent(recv[c], n) \/ Tells(recv[c], n, p)
    BY <1>8 DEF Informed
<1>10. /\ U = {} => Silent(redis.queue, n)
       /\ U # {} => \E i \in DOMAIN redis.queue : redis.queue[i] \in U
       /\ \A u \in U : u.value = p /\ u.period = u.value /\ u.group = 0 /\ u.stateUpdate
    BY <1>7 DEF Remembered
<1> HIDE DEF U, p
<1>11. CASE StartSync(c)
    <2>1. /\ conn[c].st = "opened" /\ conn'[c].st = "syncing"
          /\ UNCHANGED <<pending, recv, inbox>>
        BY <1>0, <1>11 DEF StartSync, Conn
    <2> QED BY <1>6, <1>9, <2>1 DEF Informed, U, n
<1>12. CASE CountQueue(c)
    <2>1. /\ conn[c].st = "syncing" /\ conn'[c].st = "fetching"
          /\ conn'[c].next = 0 /\ conn'[c].end = Len(redis.queue)
          /\ UNCHANGED <<pending, recv, inbox>>
        BY <1>0, <1>12 DEF CountQueue, Conn
    <2>2. \A i \in DOMAIN redis.queue : 0 < i /\ i <= Len(redis.queue)
        BY <1>0
    <2>3. U # {} => Fetched(pending[c], redis.queue, 0, Len(redis.queue), U)
        BY <1>10, <2>2 DEF Fetched
    <2>4. U # {} => Told(inbox[c], recv[c], n, p) \/ Silent(recv[c], n)
        BY <1>9, <2>1 DEF Told
    <2> QED BY <1>6, <1>9, <2>1, <2>3, <2>4 DEF Informed, U, n
<1>13. CASE FetchBlock(c)
    <2> DEFINE lo == conn[c].next
               hi == IF lo + BlockSize < conn[c].end THEN lo + BlockSize ELSE conn[c].end
               b == LRange(redis.queue, lo, hi - 1)
    <2>1. /\ conn[c].st = "fetching" /\ lo < conn[c].end
          /\ lo \in Nat /\ hi \in Nat /\ conn[c].end \in Nat
        BY <1>0, <1>13, RouterAssumption DEF FetchBlock, Conn
    <2>2. b \in Seq(Msg)
        <3>1. hi - 1 \in Int
            BY <2>1
        <3> HIDE DEF hi, lo
        <3> QED BY <1>0, <2>1, <3>1, LRangeType
    <2>3. /\ conn'[c].st = "fetching" /\ conn'[c].next = hi /\ conn'[c].end = conn[c].end
          /\ pending'[c] = pending[c] \o b /\ UNCHANGED <<recv, inbox>>
        BY <1>0, <1>13, <2>1 DEF FetchBlock, Conn
    <2>4. \A i \in DOMAIN redis.queue : lo < i /\ i <= hi => \E j \in DOMAIN b : b[j] = redis.queue[i]
        <3>1. redis.queue \in Seq(Msg)
            BY <1>0
        <3>2. \A i \in DOMAIN redis.queue : lo < i /\ i <= hi => redis.queue[i] \in Range(b)
            <4> HIDE DEF hi, lo
            <4> QED BY <2>1, <3>1, RangeOfBlock
        <3> HIDE DEF b, hi, lo
        <3> QED BY <3>2 DEF Range
    <2>5. Silent(redis.queue, n) => Silent(b, n)
        BY <1>0, <2>1, BlockOfLog DEF Silent
    <2> HIDE DEF b, hi
    <2>6. Silent(pending[c], n) /\ Silent(b, n) => Silent(pending[c] \o b, n)
        BY <1>0, <2>2, AllOfConcat DEF Silent
    <2>7. ASSUME Fetched(pending[c], redis.queue, lo, conn[c].end, U)
          PROVE  Fetched(pending[c] \o b, redis.queue, hi, conn[c].end, U)
        <3>1. /\ \A i \in DOMAIN pending[c] :
                    i \in DOMAIN (pending[c] \o b) /\ (pending[c] \o b)[i] = pending[c][i]
              /\ \A i \in DOMAIN b : \E j \in DOMAIN (pending[c] \o b) : (pending[c] \o b)[j] = b[i]
            <4>1. /\ Len(pending[c]) \in Nat /\ Len(b) \in Nat
                  /\ DOMAIN (pending[c] \o b) = 1 .. Len(pending[c]) + Len(b)
                  /\ DOMAIN pending[c] = 1 .. Len(pending[c]) /\ DOMAIN b = 1 .. Len(b)
                  /\ \A i \in 1 .. Len(pending[c]) : (pending[c] \o b)[i] = pending[c][i]
                  /\ \A i \in 1 .. Len(b) : (pending[c] \o b)[Len(pending[c]) + i] = b[i]
                BY <1>0, <2>2, ConcatProperties
            <4>2. /\ \A i \in 1 .. Len(pending[c]) : i \in 1 .. Len(pending[c]) + Len(b)
                  /\ \A i \in 1 .. Len(b) : Len(pending[c]) + i \in 1 .. Len(pending[c]) + Len(b)
                BY <4>1
            <4> QED BY <4>1, <4>2
        <3>2. CASE \E i \in DOMAIN pending[c] : pending[c][i] \in U
            BY <3>1, <3>2 DEF Fetched
        <3>3. ASSUME NEW i \in DOMAIN redis.queue, lo < i, i <= conn[c].end, redis.queue[i] \in U
              PROVE  Fetched(pending[c] \o b, redis.queue, hi, conn[c].end, U)
            <4>1. i \in Nat /\ (i <= hi \/ hi < i)
                BY <1>0, <2>1
            <4>2. CASE hi < i
                BY <3>3, <4>2 DEF Fetched
            <4>3. CASE i <= hi
                <5>1. \E j \in DOMAIN (pending[c] \o b) : (pending[c] \o b)[j] \in U
                    BY <2>4, <3>1, <3>3, <4>3
                <5> QED BY <5>1 DEF Fetched
            <4> QED BY <4>1, <4>2, <4>3
        <3> QED BY <2>7, <3>2, <3>3 DEF Fetched
    <2>8. CASE U = {}
        BY <1>6, <1>9, <1>10, <2>3, <2>5, <2>6, <2>8 DEF Informed, U, n
    <2>9. CASE U # {}
        <3>1. \/ Told(inbox[c], recv[c], n, p)
              \/ Silent(recv[c], n) /\ Fetched(pending[c] \o b, redis.queue, hi, conn[c].end, U)
            BY <1>9, <2>1, <2>7, <2>9
        <3> QED BY <1>6, <2>3, <2>9, <3>1 DEF Informed, U, n
    <2> QED BY <2>8, <2>9
<1>14. CASE SyncMessage(c)
    <2> DEFINE m == Head(pending[c])
    <2>1. /\ conn[c].st = "fetching" /\ pending[c] # << >> /\ UNCHANGED <<conn, recv>>
          /\ pending'[c] = Tail(pending[c])
          /\ inbox'[c] = IF Matches(c, updates[sid], attrs, m) THEN Append(inbox[c], m) ELSE inbox[c]
        BY <1>0, <1>5, <1>7, <1>14 DEF SyncMessage
    <2>2. m \in Msg /\ Proper(m)
        <3>1. m = pending[c][1] /\ 1 \in DOMAIN pending[c]
            BY <1>0, <2>1
        <3> QED BY <1>0, <3>1 DEF SentInv
    <2>3. Matches(c, updates[sid], attrs, m) <=> match(n, attrs[n][nonce], updates[sid], m)
        BY <1>6 DEF Matches, Tracked, Follows
    <2>4. IsPeriodOf(m, n) =>
              /\ Matches(c, updates[sid], attrs, m) => m.value = p
              /\ m \in U => Matches(c, updates[sid], attrs, m)
        <3>1. \A u \in Updates(updates[sid], n) :
                  /\ u.value = attrs[n][nonce].period /\ u.period = u.value
                  /\ u.group = 0 /\ u.stateUpdate
            BY <1>10 DEF U, p
        <3> HIDE DEF m, n
        <3>2. IsPeriodOf(m, n) =>
                  /\ match(n, attrs[n][nonce], updates[sid], m) => m.value = attrs[n][nonce].period
                  /\ m \in Updates(updates[sid], n) => match(n, attrs[n][nonce], updates[sid], m)
            BY <1>7, <2>2, <3>1, UpdatesMatch
        <3> QED BY <2>3, <3>2 DEF U, p
    <2> HIDE DEF m
    <2>5. \A i \in DOMAIN pending[c] : pending[c][i] = m \/ \E j \in DOMAIN Tail(pending[c]) :
                                                               Tail(pending[c])[j] = pending[c][i]
        <3>1. /\ Len(pending[c]) \in Nat /\ Len(pending[c]) >= 1
              /\ DOMAIN pending[c] = 1 .. Len(pending[c])
              /\ DOMAIN Tail(pending[c]) = 1 .. Len(pending[c]) - 1
              /\ m = pending[c][1]
              /\ \A i \in 1 .. Len(pending[c]) - 1 : Tail(pending[c])[i] = pending[c][i + 1]
            BY <1>0, <2>1, HeadTailProperties DEF m
        <3>2. \A i \in 1 .. Len(pending[c]) : i = 1 \/ (i - 1 \in 1 .. Len(pending[c]) - 1 /\ (i - 1) + 1 = i)
            BY <3>1
        <3> QED BY <3>1, <3>2
    <2>6. Told(inbox[c], recv[c], n, p) => Told(inbox'[c], recv[c], n, p)
        BY <1>0, <2>1, <2>2, <2>4, AddedIsTold
    <2>7. CASE U = {}
        <3>1. Silent(Tail(pending[c]), n) /\ ~IsPeriodOf(m, n)
            BY <1>0, <1>9, <2>1, <2>7, TailTells DEF m
        <3>2. Silent(inbox'[c], n)
            BY <1>0, <1>9, <2>1, <2>2, <2>7, <3>1, AppendTells
        <3> QED BY <1>6, <1>9, <2>1, <2>7, <3>1, <3>2 DEF Informed, U, n
    <2>8. CASE U # {}
        <3>1. ASSUME Silent(recv[c], n), Fetched(pending[c], redis.queue, conn[c].next, conn[c].end, U)
              PROVE  \/ Told(inbox'[c], recv[c], n, p)
                     \/ Fetched(Tail(pending[c]), redis.queue, conn[c].next, conn[c].end, U)
            <4>1. CASE m \in U
                <5>1. IsPeriodOf(m, n) /\ m.value = p /\ inbox'[c] = Append(inbox[c], m)
                    BY <2>1, <2>4, <4>1 DEF U, Updates
                <5>2. Tells(inbox'[c], n, p)
                    BY <1>0, <2>2, <5>1, AppendTells
                <5> QED BY <3>1, <5>2 DEF Told
            <4>2. CASE m \notin U
                BY <2>5, <3>1, <4>2 DEF Fetched
            <4> QED BY <4>1, <4>2
        <3>2. \/ Told(inbox'[c], recv[c], n, p)
              \/ /\ Silent(recv[c], n)
                 /\ Fetched(Tail(pending[c]), redis.queue, conn[c].next, conn[c].end, U)
            BY <1>9, <2>1, <2>6, <2>8, <3>1
        <3> QED BY <1>6, <2>1, <2>8, <3>2 DEF Informed, U, n
    <2> QED BY <2>7, <2>8
<1>15. CASE FinishSync(c)
    <2>1. /\ conn[c].st = "fetching" /\ conn'[c].st = "live" /\ UNCHANGED <<pending, recv, inbox>>
          /\ pending[c] = << >> /\ conn[c].next >= conn[c].end
          /\ conn[c].next \in Nat /\ conn[c].end \in Nat
        BY <1>0, <1>15 DEF FinishSync, Conn
    <2>2. \A i \in DOMAIN redis.queue : ~(conn[c].next < i /\ i <= conn[c].end)
        BY <1>0, <2>1
    <2>3. ~Fetched(pending[c], redis.queue, conn[c].next, conn[c].end, U)
        BY <2>1, <2>2 DEF Fetched
    <2> QED BY <1>6, <1>9, <2>1, <2>3 DEF Informed, U, n
<1>16. CASE SendLoop(c)
    <2>1. /\ conn[c].st = "live" /\ recv[c] # << >> /\ UNCHANGED <<conn, pending>>
          /\ inbox'[c] = Append(inbox[c], Head(recv[c])) /\ recv'[c] = Tail(recv[c])
        BY <1>0, <1>5, <1>16 DEF SendLoop
    <2>2. Told(inbox[c], recv[c], n, p) => Told(inbox'[c], recv'[c], n, p)
        BY <1>0, <2>1, MovedIsTold
    <2>3. Silent(recv[c], n) /\ Silent(inbox[c], n) => Silent(recv'[c], n) /\ Silent(inbox'[c], n)
        <3>1. Head(recv[c]) \in Msg
            BY <1>0, <2>1
        <3>2. Silent(recv[c], n) => Silent(Tail(recv[c]), n) /\ ~IsPeriodOf(Head(recv[c]), n)
            BY <1>0, <2>1, TailTells
        <3> QED BY <1>0, <2>1, <3>1, <3>2, AppendTells
    <2> QED BY <1>6, <1>9, <2>1, <2>2, <2>3 DEF Informed, U, n
<1>17. CASE Client(c)
    <2>1. ~ \E name \in Callers : Connect(c, name)
        BY <1>4 DEF Connect
    <2>2. ~ Disconnect(c)
        BY <1>0, <1>3 DEF Disconnect, Conn
    <2>3. ClientSend(c)
        BY <1>17, <2>1, <2>2 DEF Client
    <2>4. UNCHANGED links
        BY <2>3 DEF ClientSend
    <2> QED BY <1>8, <2>4 DEF links
<1> QED BY <1>11, <1>12, <1>13, <1>14, <1>15, <1>16, <1>17 DEF Sync

LEMMA InformedStep ==
    ASSUME IInv, EpochsInv, EpochsInv', LinksInv, SentInv, RememberedInv, InformedInv, TypeOK',
           Next, ~Restart
    PROVE  InformedInv'
<1> SUFFICES ASSUME NEW c \in Conns, Tracked(c)' PROVE InformedOf(c)'
    BY DEF InformedInv
<1> USE DEF session, links
<1> DEFINE n == conn[c].name
           p == attrs[n][nonce].period
<1>0. /\ conn \in [Conns -> Conn] /\ recv \in [Conns -> Seq(Msg)] /\ recv[c] \in Seq(Msg)
      /\ redis.queue \in Seq(Msg) /\ redis \in RedisType /\ sid \in Epochs /\ nonce \in Epochs
      /\ subjects \in [Names -> 0 .. MaxNonce] /\ updates \in [Epochs -> SUBSET Msg]
      /\ attrs \in [Names -> [Epochs -> Scope]] /\ TypeOK
    BY DEF IInv, TypeOK, RedisType
<1>names. \A d \in Conns : conn[d] \in Conn /\ conn[d].name \in Names
    BY <1>0 DEF TypeOK, Conn
<1>epochs. \A k \in Names : subjects[k] # 0 => subjects[k] \in Epochs
    BY <1>0, RouterAssumption DEF Epochs
<1>1. Tracked(c) => InformedOf(c)
    BY DEF InformedInv
<1>2. /\ subjects'[conn'[c].name] = nonce' /\ conn'[c].name \in Names /\ nonce' # 0
      /\ conn'[c].name \in Subjects
    BY RouterAssumption DEF Tracked, Follows, TypeOK, EpochsInv, OfEpoch, Epochs, Names
<1>3. subjects' # NoSubjects
    BY <1>2 DEF NoSubjects
<1>4. ~(BeginReset \/ RoutePanics \/ Crash)
    BY <1>3 DEF BeginReset, RoutePanics, Crash, LoseMemory
<1>5. ~(ClearLog \/ ReplayConfig \/ AnswerReset)
    BY <1>3 DEF ClearLog, ReplayConfig, AnswerReset, EpochsInv
<1>6. ASSUME UNCHANGED <<nonce, sid, updates, attrs, redis, conn, pending, inbox, recv>>,
             listeners'[conn[c].name] = c => listeners[conn[c].name] = c
      PROVE  InformedOf(c)'
    <2>1. Tracked(c)
        BY <1>6 DEF Tracked, Follows
    <2> QED BY <1>1, <1>6, <2>1 DEF InformedOf
<1>7. CASE HandleStale
    BY <1>6, <1>7 DEF HandleStale
<1>8. ASSUME NEW d \in Conns, Sync(d) \/ SendLoop(d) \/ Client(d) PROVE InformedOf(c)'
    <2>1. CASE d = c
        BY <1>1, <1>8, <2>1, OwnInformed
    <2>2. CASE d # c
        <3>1. /\ UNCHANGED <<redis, listeners>>
              /\ conn'[c] = conn[c] /\ pending'[c] = pending[c]
              /\ recv'[c] = recv[c] /\ inbox'[c] = inbox[c]
            BY <1>0, <1>8, <2>2, OtherStep
        <3>2. UNCHANGED <<nonce, sid, updates, attrs>>
            BY <1>8, LinkSteps
        <3>3. Tracked(c)
            BY <3>1, <3>2 DEF Tracked, Follows
        <3> QED BY <1>1, <3>1, <3>2, <3>3 DEF InformedOf
    <2> QED BY <2>1, <2>2
<1>9. ASSUME NEW d \in Conns, RemoveListener(d) PROVE InformedOf(c)'
    <2>1. listeners'[conn[c].name] = c => listeners[conn[c].name] = c
        BY <1>0, <1>names, <1>9, RouterAssumption DEF RemoveListener
    <2> QED BY <1>6, <1>9, <2>1 DEF RemoveListener
<1>10. ASSUME NEW d \in Conns, RegisterListener(d) PROVE InformedOf(c)'
    <2>1. /\ conn[d].st = "joined" /\ listeners' = [listeners EXCEPT ![conn[d].name] = d]
          /\ conn' = [conn EXCEPT ![d].st = "opened"]
          /\ UNCHANGED <<nonce, sid, updates, attrs, redis, pending, inbox, recv>>
        BY <1>10 DEF RegisterListener
    <2>2. CASE d = c
        <3>1. conn'[c].st = "opened"
            BY <1>0, <2>1, <2>2 DEF Conn
        <3>2. inbox[c] = << >> /\ pending[c] = << >> /\ recv[c] = << >>
            BY <2>1, <2>2 DEF LinksInv, Unused, Unregistered
        <3>3. \A k : Silent(<< >>, k)
            BY DEF Silent
        <3> QED BY <2>1, <3>1, <3>2, <3>3 DEF InformedOf, Informed
    <2>3. CASE d # c
        <3>1. conn'[c] = conn[c] /\ (listeners'[conn[c].name] = c => listeners[conn[c].name] = c)
            BY <1>0, <2>1, <2>3 DEF TypeOK
        <3>2. Tracked(c)
            BY <2>1, <3>1 DEF Tracked, Follows
        <3> QED BY <1>1, <2>1, <3>1, <3>2 DEF InformedOf
    <2> QED BY <2>2, <2>3
<1>11. ASSUME NEW d \in Conns, ServeSubjectRequest(d) PROVE InformedOf(c)'
    <2> DEFINE m == Register(conn[d].name)
    <2>1. /\ m \in Msg /\ ~IsPeriodOf(m, n)
        BY <1>0, <1>names, RegisterType DEF Register, IsPeriodOf
    <2>2. /\ conn[d].st = "asking" /\ conn'[d].st = "joined" /\ \A e \in Conns : e # d => conn'[e] = conn[e]
          /\ UNCHANGED <<nonce, sid, updates, listeners, pending, inbox>>
        BY <1>0, <1>11 DEF ServeSubjectRequest, Conn
    <2>3. d # c
        BY <2>2 DEF Tracked, Follows
    <2>4. conn'[c] = conn[c] /\ Tracked(c)
        BY <2>2, <2>3 DEF Tracked, Follows
    <2>5. CASE subjects[conn[d].name] # 0
        BY <1>1, <1>11, <2>2, <2>4, <2>5 DEF ServeSubjectRequest, InformedOf
    <2>6. CASE subjects[conn[d].name] = 0
        <3>1. subjects[n] = nonce /\ nonce # 0 /\ n \in Names
            BY <1>0, <1>names, <2>4, RouterAssumption DEF Tracked, Follows, EpochsInv, OfEpoch, Epochs
        <3>2. conn[d].name # n
            BY <2>6, <3>1
        <3>3. /\ attrs' = [attrs EXCEPT ![conn[d].name][nonce] = NoScope]
              /\ redis' = SaveMessage(redis, m) /\ Deliver(updates[sid], attrs', m)
            BY <1>11, <2>6 DEF ServeSubjectRequest
        <3>4. attrs'[n] = attrs[n]
            BY <1>0, <3>1, <3>2, <3>3
        <3> HIDE DEF m
        <3>5. redis'.queue = Append(redis.queue, m)
            BY <1>0, <2>1, <3>3, SaveMessageType
        <3>6. recv'[c] = recv[c] \/ recv'[c] = Append(recv[c], m)
            BY <1>0, <3>3 DEF Deliver
        <3>7. Informed(conn[c], inbox[c], pending[c], recv[c], redis.queue, updates[sid], p)
            BY <1>1, <2>4 DEF InformedOf
        <3> HIDE DEF p
        <3>8. Informed(conn[c], inbox[c], pending[c], recv'[c], Append(redis.queue, m), updates[sid], p)
            BY <1>0, <2>1, <3>6, <3>7, StillInformed
        <3> QED BY <2>2, <2>4, <3>4, <3>5, <3>8 DEF InformedOf, p
    <2> QED BY <2>5, <2>6
<1>12. CASE HandleUpdate
    <2>1. PICK m \in Msg : /\ Process(m) /\ WellSent(m)
                           /\ NeedsSubject(m) => subjects[m.sender] # 0
        BY <1>12, ProcessedMsg
    <2> DEFINE M == Stamped(m)
               ups == WithUpdate(updates[sid], M)
    <2>2. /\ M \in Msg /\ M.key = m.key /\ M.sender = m.sender /\ M.value = m.value /\ Proper(M)
          /\ m.key = "__set_period__" => M.stateUpdate /\ M.group = 0
        <3>1. M \in Msg /\ M.key = m.key /\ M.sender = m.sender /\ M.value = m.value
            BY <1>0, StampedType DEF TypeOK
        <3>2. /\ Proper(M) /\ M.stateUpdate = m.stateUpdate
              /\ m.key = "__set_period__" => M.group = 0 /\ m.stateUpdate
            BY <2>1, StampedProper DEF WellSent
        <3> QED BY <3>1, <3>2
    <2>3. /\ redis'.queue = Append(redis.queue, M)
          /\ updates' = [updates EXCEPT ![sid] = ups] /\ attrs' = WithScope(m)
          /\ Deliver(ups, WithScope(m), M)
        BY <1>0, <2>1, ProcessEffect DEF Process
    <2>4. UNCHANGED <<nonce, sid, subjects, listeners, conn, pending, inbox>>
        BY <1>12 DEF HandleUpdate
    <2>5. Tracked(c)
        BY <2>4 DEF Tracked, Follows
    <2>6. Informed(conn[c], inbox[c], pending[c], recv[c], redis.queue, updates[sid], p)
        BY <1>1, <2>5 DEF InformedOf
    <2>7. /\ n \in Subjects /\ n \in Names /\ listeners[n] = c /\ conn[c].st # "broken"
          /\ conn[c].subj = nonce /\ subjects[n] = nonce
        BY <1>0, <2>5 DEF Tracked, Follows, EpochsInv, OfEpoch, Names
    <2>8. NeedsSubject(m) => subjects[m.sender] \in Epochs
        BY <1>epochs, <2>1, MsgFields
    <2> HIDE DEF M, ups
    <2>9. updates'[sid] = ups
        BY <1>0, <2>3
    <2>10. recv'[c] = IF match(n, attrs'[n][nonce], ups, M) THEN Append(recv[c], M) ELSE recv[c]
        <3>1. Registered(c) /\ (Matches(c, ups, attrs', M) <=> match(n, attrs'[n][nonce], ups, M))
            BY <2>7 DEF Registered, Matches
        <3> QED BY <2>3, <2>7, <3>1 DEF Deliver
    <2>11. SUFFICES Informed(conn[c], inbox[c], pending[c], recv'[c], redis'.queue, ups,
                             attrs'[n][nonce].period)
        BY <2>4, <2>9 DEF InformedOf
    <2>12. CASE IsPeriodOf(M, n)
        <3>1. IsPeriodOf(m, n) /\ M.stateUpdate /\ M.group = 0 /\ M.period = M.value
            BY <2>2, <2>12 DEF IsPeriodOf, Proper
        <3>2. attrs'[n][nonce].period = M.value
            <4> HIDE DEF n
            <4> QED BY <1>0, <2>2, <2>3, <2>7, <2>8, <3>1, ScopeAfter
        <3>3. Updates(ups, n) = {M}
            BY <2>2, <2>12, <3>1, UpdatesAfter DEF ups
        <3>4. match(n, attrs'[n][nonce], ups, M)
            <4>1. M \in ups /\ IdenticalTo(M, M)
                BY <2>2, <3>3, NamesAssumption DEF Updates, IdenticalTo
            <4> QED BY <3>1, <3>2, <4>1 DEF match
        <3>5. Informed(conn[c], inbox[c], pending[c], Append(recv[c], M), redis'.queue, ups, M.value)
            BY <1>0, <2>2, <2>12, <3>3, NowInformed
        <3> QED BY <2>10, <3>2, <3>4, <3>5
    <2>13. CASE ~IsPeriodOf(M, n)
        <3>1. ~IsPeriodOf(m, n)
            BY <2>2, <2>13 DEF IsPeriodOf
        <3>2. attrs'[n][nonce].period = p
            <4> HIDE DEF n
            <4> QED BY <1>0, <2>3, <2>7, <2>8, <3>1, ScopeAfter
        <3>3. Updates(ups, n) = Updates(updates[sid], n)
            BY <2>2, <2>13, UpdatesAfter DEF ups
        <3> HIDE DEF p
        <3>4. Informed(conn[c], inbox[c], pending[c], recv'[c], Append(redis.queue, M), ups, p)
            BY <1>0, <2>2, <2>6, <2>10, <2>13, <3>3, StillInformed
        <3> QED BY <2>3, <3>2, <3>4
    <2> QED BY <2>12, <2>13
<1> QED
    BY <1>4, <1>5, <1>7, <1>8, <1>9, <1>10, <1>11, <1>12 DEF Next, Handle, Serve

-----------------------------------------------------------------------------
(* The theorems                                                            *)

LEMMA PeriodInit == Init => PeriodInv
<1> SUFFICES ASSUME Init PROVE PeriodInv
    OBVIOUS
<1> USE DEF Init
<1>1. /\ 1 \in Epochs /\ NoSubjects = [n \in Names |-> 0] /\ None \notin Conns
      /\ NoListeners = [n \in Names |-> None] /\ Subjects \subseteq Names
    BY RouterAssumption DEF Epochs, NoSubjects, NoListeners, Names
<1>2. EpochsInv
    BY <1>1 DEF EpochsInv, OfEpoch, FreeConn
<1>3. LinksInv
    BY <1>1 DEF LinksInv, Unused
<1>4. SentInv
    BY DEF SentInv, EmptyRedis
<1>5. RegisterInv
    BY <1>1 DEF RegisterInv, Never, EmptyRedis
<1>6. RememberedInv
    BY <1>1 DEF RememberedInv, Remembered, Updates, Silent, EmptyRedis
<1>7. InformedInv
    BY DEF InformedInv, Tracked, Follows, FreeConn
<1> QED BY <1>2, <1>3, <1>4, <1>5, <1>6, <1>7 DEF PeriodInv

LEMMA PeriodStep ==
    ASSUME IInv, TypeOK', PeriodInv, [Next]_vars, [~Restart]_vars
    PROVE  PeriodInv'
<1>1. CASE Next /\ ~Restart
    <2>1. EpochsInv' /\ LinksInv' /\ SentInv' /\ RegisterInv' /\ RememberedInv'
        BY <1>1, EpochsStep, LinksStep, SentStep, RegisterStep, RememberedStep DEF PeriodInv
    <2>2. InformedInv'
        BY <1>1, <2>1, InformedStep DEF PeriodInv
    <2> QED BY <2>1, <2>2 DEF PeriodInv
<1>2. CASE UNCHANGED vars
    <2>1. UNCHANGED <<status, session, messages, redis, links>>
        BY <1>2 DEF vars
    <2>2. EpochsInv' /\ LinksInv' /\ SentInv' /\ RegisterInv' /\ RememberedInv'
        BY <2>1 DEF PeriodInv, EpochsInv, LinksInv, SentInv, RegisterInv, RememberedInv, session, links
    <2>3. InformedInv'
        BY <2>1 DEF PeriodInv, InformedInv, InformedOf, Tracked, Follows, session, links
    <2> QED BY <2>2, <2>3 DEF PeriodInv
<1> QED BY <1>1, <1>2

(***************************************************************************)
(* PeriodInv holds as long as the router is not restarted.                 *)
(***************************************************************************)
THEOREM PeriodInductive == Undisturbed => []PeriodInv
<1>1. Init => PeriodInv
    BY PeriodInit
<1>2. IInv /\ TypeOK' /\ PeriodInv /\ [Next]_vars /\ [~Restart]_vars => PeriodInv'
    BY PeriodStep
<1>3. IInv => TypeOK
    BY DEF IInv
<1> QED BY <1>1, <1>2, <1>3, Inductive, PTL DEF Undisturbed, Spec

(***************************************************************************)
(* While the router is not restarted, the log has exactly one registration *)
(* of every subject of the session and none of any other, through every    *)
(* order of connections, resets and deletions (Router.Session.Subject).    *)
(***************************************************************************)
THEOREM SubjectsAreRegisteredOnce == Undisturbed => []OneRegistration
<1>1. PeriodInv => OneRegistration
    <2> SUFFICES ASSUME PeriodInv, status = "running", NEW n \in Subjects
                 PROVE  LET at == {i \in DOMAIN redis.queue : /\ redis.queue[i].key = "__register__"
                                                               /\ redis.queue[i].sender = n}
                        IN  IF subjects[n] = 0 THEN at = {} ELSE \E i \in at : at = {i}
        BY DEF OneRegistration
    <2>1. IF subjects[n] = 0 THEN Never(redis.queue, n) ELSE Once(redis.queue, n)
        BY DEF PeriodInv, RegisterInv
    <2> QED BY <2>1 DEF Never, Once, Registers
<1> QED BY <1>1, PeriodInductive, PTL

(***************************************************************************)
(* While the router is not restarted, a synced client of a subject knows,  *)
(* or is about to be told, the period the router has the subject in: what  *)
(* last_state_update keeps back from a sync (Listener.match) is never the  *)
(* message that says the present period.                                   *)
(***************************************************************************)
THEOREM PeriodIsKnown == Undisturbed => []PeriodKnown
<1>1. IInv /\ PeriodInv => PeriodKnown
    <2> SUFFICES ASSUME IInv, PeriodInv, NEW c \in Conns,
                        Registered(c), conn[c].open, conn[c].st = "live",
                        conn[c].name \in Subjects, subjects[conn[c].name] # 0,
                        subjects[conn[c].name] = conn[c].subj
                 PROVE  LastSet(inbox[c] \o recv[c], "__set_period__", conn[c].name)
                            = attrs[conn[c].name][subjects[conn[c].name]].period
        BY DEF PeriodKnown
    <2> DEFINE n == conn[c].name
               p == attrs[n][nonce].period
    <2>1. inbox[c] \in Seq(Msg) /\ recv[c] \in Seq(Msg) /\ nonce # 0 /\ n \in Names
        BY RouterAssumption DEF IInv, TypeOK, Epochs, Names
    <2>2. subjects[n] = nonce /\ Tracked(c)
        BY <2>1 DEF PeriodInv, EpochsInv, Tracked, Follows, Registered
    <2>3. Informed(conn[c], inbox[c], pending[c], recv[c], redis.queue, updates[sid], p)
        BY <2>2 DEF PeriodInv, InformedInv, InformedOf
    <2>4. Remembered(updates[sid], redis.queue, n, nonce, attrs)
        BY <2>2, TrackedRemembers DEF PeriodInv
    <2> HIDE DEF n
    <2>5. CASE Updates(updates[sid], n) = {}
        <3>1. p = 0
            BY <2>1, <2>4, <2>5 DEF Remembered
        <3>2. Silent(inbox[c], n) /\ Silent(recv[c], n)
            BY <2>3, <2>5 DEF Informed, n
        <3>3. LastSet(inbox[c] \o recv[c], "__set_period__", n) = 0
            BY <2>1, <3>2, ToldIsBelieved
        <3> QED BY <2>2, <3>1, <3>3 DEF n
    <2>6. CASE Updates(updates[sid], n) # {}
        <3>1. Told(inbox[c], recv[c], n, p)
            BY <2>3, <2>6 DEF Informed, n
        <3>2. LastSet(inbox[c] \o recv[c], "__set_period__", n) = p
            BY <2>1, <3>1, ToldIsBelieved
        <3> QED BY <2>2, <3>2 DEF n
    <2> QED BY <2>5, <2>6
<1> QED BY <1>1, PeriodInductive, Inductive, PTL DEF Undisturbed
=============================================================================
