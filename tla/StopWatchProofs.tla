-------------------------- MODULE StopWatchProofs --------------------------
(***************************************************************************)
(* The types of StopWatch, that ticks are executed together, and that the  *)
(* announcements implement BarrierClock, for any number of subjects and    *)
(* ticks, through pauses and reloads.                                      *)
(***************************************************************************)
EXTENDS StopWatch, SequenceTheorems, FiniteSetTheorems, WellFoundedInduction, TLAPS

WatchMsg ==
    [key: {"_at_barrier", "_pause_", "_resume_"}, sender: Subjects, nonce: {1},
     period: {Period}, group: {1}, stateUpdate: {FALSE}, time: {0}, value: Ticks]

WatchType ==
    [sync: BOOLEAN, isReload: BOOLEAN, period: {Period}, queue: Seq(WatchMsg),
     out: Seq(WatchMsg), started: BOOLEAN, tick: 0 .. Target + 1, executing: BOOLEAN,
     timer: BOOLEAN, stop: BOOLEAN, gate: {"open", "closed"}, wait: {"no", "gate", "lost"},
     atBarrier: BOOLEAN, received: [Ticks -> SUBSET Subjects]]

-----------------------------------------------------------------------------
(* The inductive invariant                                                 *)

\* The log l has the arrival of s at tick k.
Arrived(l, s, k) ==
    \E i \in DOMAIN l : l[i].key = "_at_barrier" /\ l[i].sender = s /\ l[i].value = k

\* Everybody has arrived at every tick before k.
Reached(l, k) == \A t \in Subjects : \A j \in 0 .. k - 1 : Arrived(l, t, j)

(***************************************************************************)
(* Who announces a tick has seen everybody arrive at the one before.       *)
(***************************************************************************)
Backed(l, m) == m.key = "_at_barrier" => Reached(l, m.value)

AllBacked(l, q) == \A i \in DOMAIN q : Backed(l, q[i])

(***************************************************************************)
(* What a page has been told is in the log; it is at a barrier only for    *)
(* the tick that it executes, and waits either there or for the resume.    *)
(* A replay is always that to a reloaded page, which has announced itself. *)
(***************************************************************************)
Sound(l, w) ==
    /\ w.executing \/ w.timer => w.tick \in Ticks
    /\ ~(w.timer /\ w.executing)
    /\ w.atBarrier => w.executing /\ w.wait = "no"
    /\ w.wait # "no" => w.executing
    /\ w.sync => w.isReload
    /\ \A k \in Ticks : \A t \in w.received[k] : Arrived(l, t, k)
    /\ Reached(l, w.tick)
    /\ AllBacked(l, w.queue) /\ AllBacked(l, w.out)

Good(l, w) == w \in WatchType /\ Sound(l, w)

WatchInv ==
    /\ log \in Seq(WatchMsg) /\ AllBacked(log, log)
    /\ up \in [Subjects -> Seq(WatchMsg)]
    /\ \A s \in Subjects : AllBacked(log, up[s])
    /\ seen \in [Subjects -> 0 .. Len(log)]
    /\ backlog \in [Subjects -> 0 .. Len(log)]
    /\ open \in [Subjects -> BOOLEAN]
    /\ watch \in [Subjects -> WatchType]
    /\ \A s \in Subjects : Sound(log, watch[s]) /\ watch[s].out = << >>

-----------------------------------------------------------------------------
(* Sequences                                                               *)

LEMMA BackedAppend ==
    ASSUME NEW l, NEW q \in Seq(WatchMsg), NEW m \in WatchMsg, AllBacked(l, q), Backed(l, m)
    PROVE  Append(q, m) \in Seq(WatchMsg) /\ AllBacked(l, Append(q, m))
<1>1. /\ Len(q) \in Nat /\ DOMAIN q = 1 .. Len(q) /\ DOMAIN Append(q, m) = 1 .. Len(q) + 1
      /\ Append(q, m)[Len(q) + 1] = m /\ \A i \in 1 .. Len(q) : Append(q, m)[i] = q[i]
    BY AppendProperties
<1>2. \A i \in 1 .. Len(q) + 1 : i \in 1 .. Len(q) \/ i = Len(q) + 1
    BY <1>1
<1> QED BY <1>1, <1>2 DEF AllBacked

LEMMA BackedConcat ==
    ASSUME NEW l, NEW q \in Seq(WatchMsg), NEW r \in Seq(WatchMsg), AllBacked(l, q), AllBacked(l, r)
    PROVE  q \o r \in Seq(WatchMsg) /\ AllBacked(l, q \o r)
<1>1. /\ Len(q) \in Nat /\ Len(r) \in Nat /\ DOMAIN (q \o r) = 1 .. Len(q) + Len(r)
      /\ DOMAIN q = 1 .. Len(q) /\ DOMAIN r = 1 .. Len(r)
      /\ \A i \in 1 .. Len(q) : (q \o r)[i] = q[i]
      /\ \A i \in 1 .. Len(r) : (q \o r)[Len(q) + i] = r[i]
    BY ConcatProperties
<1>2. \A i \in 1 .. Len(q) + Len(r) :
          i \in 1 .. Len(q) \/ (i - Len(q) \in 1 .. Len(r) /\ Len(q) + (i - Len(q)) = i)
    BY <1>1
<1> SUFFICES ASSUME NEW i \in 1 .. Len(q) + Len(r) PROVE Backed(l, (q \o r)[i])
    BY <1>1 DEF AllBacked
<1>3. CASE i \in 1 .. Len(q)
    BY <1>1, <1>3 DEF AllBacked
<1>4. CASE i - Len(q) \in 1 .. Len(r) /\ Len(q) + (i - Len(q)) = i
    <2>1. (q \o r)[i] = r[i - Len(q)]
        BY <1>1, <1>4
    <2> QED BY <1>1, <1>4, <2>1 DEF AllBacked
<1> QED BY <1>2, <1>3, <1>4

LEMMA BackedPart ==
    ASSUME NEW l, NEW q \in Seq(WatchMsg), AllBacked(l, q),
           NEW a \in 1 .. Len(q) + 1, NEW b \in 0 .. Len(q)
    PROVE  SubSeq(q, a, b) \in Seq(WatchMsg) /\ AllBacked(l, SubSeq(q, a, b))
<1>1. \A j \in a .. b : j \in DOMAIN q /\ q[j] \in WatchMsg
    OBVIOUS
<1>2. /\ SubSeq(q, a, b) \in Seq(WatchMsg)
      /\ DOMAIN SubSeq(q, a, b) = 1 .. (IF a <= b THEN b - a + 1 ELSE 0)
      /\ \A j \in 1 .. b - a + 1 : SubSeq(q, a, b)[j] = q[a + j - 1]
    BY <1>1, SubSeqProperties
<1>3. \A j \in DOMAIN SubSeq(q, a, b) : j \in 1 .. b - a + 1 /\ a + j - 1 \in DOMAIN q
    BY <1>2
<1> QED BY <1>2, <1>3 DEF AllBacked

\* A set of numbers has a first one.
LEMMA FirstNumber ==
    ASSUME NEW S \in SUBSET Nat, S # {}
    PROVE  Min(S) \in S /\ \A y \in S : Min(S) <= y
<1> DEFINE less == {p \in Nat \X Nat : p[1] < p[2]}
<1>1. IsWellFoundedOn(less, Nat)
    BY NatLessThanWellFounded DEF OpToRel
<1>2. S \subseteq Nat
    OBVIOUS
<1>3. PICK x \in S : \A y \in S : ~(<<y, x>> \in less)
    BY <1>1, <1>2, WFMin
<1>4. ASSUME NEW y \in S PROVE x <= y
    <2>1. <<y, x>> \in Nat \X Nat /\ ~(<<y, x>>[1] < <<y, x>>[2])
        BY <1>2, <1>3
    <2> QED BY <1>2, <2>1
<1>5. \E z \in S : \A y \in S : z <= y
    BY <1>4
<1> QED BY <1>5 DEF Min

\* What Deduplicate leaves of the queue q.
Without(q, m) == RemoveFirstMatch(q, LAMBDA e : SameMsgId(e, m))

LEMMA BackedRemoval ==
    ASSUME NEW l, NEW q \in Seq(WatchMsg), AllBacked(l, q), NEW m
    PROVE  Without(q, m) \in Seq(WatchMsg) /\ AllBacked(l, Without(q, m))
<1> DEFINE S == {i \in 1 .. Len(q) : SameMsgId(q[i], m)}
           r == Without(q, m)
<1>1. CASE S = {}
    <2>1. r = q
        BY <1>1 DEF Without, RemoveFirstMatch
    <2> QED BY <2>1
<1>2. CASE S # {}
    <2>1. r = SubSeq(q, 1, Min(S) - 1) \o SubSeq(q, Min(S) + 1, Len(q))
        BY <1>2 DEF Without, RemoveFirstMatch, RemoveAt, SelectInSeq
    <2>2. Min(S) \in S
        <3>1. S \in SUBSET Nat
            OBVIOUS
        <3> HIDE DEF S
        <3> QED BY <1>2, <3>1, FirstNumber
    <2>3. Min(S) - 1 \in 0 .. Len(q) /\ Min(S) + 1 \in 1 .. Len(q) + 1
          /\ 1 \in 1 .. Len(q) + 1 /\ Len(q) \in 0 .. Len(q)
        BY <2>2
    <2> HIDE DEF S
    <2>4. /\ SubSeq(q, 1, Min(S) - 1) \in Seq(WatchMsg) /\ AllBacked(l, SubSeq(q, 1, Min(S) - 1))
          /\ SubSeq(q, Min(S) + 1, Len(q)) \in Seq(WatchMsg)
          /\ AllBacked(l, SubSeq(q, Min(S) + 1, Len(q)))
        BY <2>3, BackedPart
    <2>5. r \in Seq(WatchMsg) /\ AllBacked(l, r)
        <3> HIDE DEF r
        <3> QED BY <2>1, <2>4, BackedConcat
    <2> QED BY <2>5
<1> QED BY <1>1, <1>2

-----------------------------------------------------------------------------
(* One watch                                                               *)

LEMMA WatchIsMsg ==
    ASSUME NEW me \in Subjects, NEW v \in Ticks, NEW key \in {"_at_barrier", "_pause_", "_resume_"}
    PROVE  /\ Watch(me, key, v) \in WatchMsg
           /\ Watch(me, key, v).key = key /\ Watch(me, key, v).value = v
BY DEF Watch, Message, WatchMsg

LEMMA SendGood ==
    ASSUME NEW l, NEW w, Good(l, w), NEW me, NEW m \in WatchMsg, Backed(l, m)
    PROVE  Good(l, Send(w, me, m))
<1>1. w \in WatchType /\ w.queue \in Seq(WatchMsg) /\ w.out \in Seq(WatchMsg)
      /\ AllBacked(l, w.queue) /\ AllBacked(l, w.out)
    BY DEF Good, WatchType, Sound
<1>2. OnWire(m) = m
    BY DEF OnWire, WatchMsg, Undefined, Period
<1>3. /\ Append(w.queue, m) \in Seq(WatchMsg) /\ AllBacked(l, Append(w.queue, m))
      /\ Append(w.out, m) \in Seq(WatchMsg) /\ AllBacked(l, Append(w.out, m))
    BY <1>1, BackedAppend
<1>4. ASSUME NEW q \in Seq(WatchMsg), AllBacked(l, q) PROVE Good(l, [w EXCEPT !.queue = q])
    BY <1>1, <1>4 DEF Good, WatchType, Sound
<1>5. ASSUME NEW q \in Seq(WatchMsg), AllBacked(l, q) PROVE Good(l, [w EXCEPT !.out = q])
    BY <1>1, <1>5 DEF Good, WatchType, Sound
<1> QED BY <1>1, <1>2, <1>3, <1>4, <1>5 DEF Send, SyncSend, DefaultSend

LEMMA ArriveGood ==
    ASSUME NEW l, NEW w, Good(l, w), w.executing, NEW me \in Subjects
    PROVE  Good(l, Arrive(w, me))
<1> DEFINE v == [w EXCEPT !.atBarrier = TRUE, !.wait = "no"]
<1>1. Good(l, v)
    BY DEF Good, WatchType, Sound
<1>2. w.tick \in Ticks /\ Reached(l, w.tick)
    BY DEF Good, Sound
<1>3. Watch(me, "_at_barrier", w.tick) \in WatchMsg /\ Backed(l, Watch(me, "_at_barrier", w.tick))
    BY <1>2, WatchIsMsg DEF Backed
<1> HIDE DEF v
<1> QED BY <1>1, <1>3, SendGood DEF Arrive, v

LEMMA ExecuteTickGood ==
    ASSUME NEW l, NEW w, Good(l, w), w.tick \in Ticks, NEW me \in Subjects, NEW stop \in BOOLEAN
    PROVE  Good(l, ExecuteTick(w, me, stop))
<1> DEFINE now == [w EXCEPT !.executing = TRUE, !.timer = FALSE, !.stop = stop]
<1>1. ~w.executing => Good(l, now) /\ now.executing /\ ~now.atBarrier
    BY DEF Good, WatchType, Sound
<1>2. ~w.executing => Good(l, [now EXCEPT !.wait = "gate"])
    <2> HIDE DEF now
    <2> QED BY <1>1 DEF Good, WatchType, Sound
<1> HIDE DEF now
<1>3. ~w.executing => Good(l, Arrive(now, me))
    BY <1>1, ArriveGood
<1> QED BY <1>2, <1>3 DEF ExecuteTick, now

\* The watch w after its tick, before the next one.
Passed(w) ==
    [w EXCEPT !.executing = FALSE, !.atBarrier = FALSE, !.tick = @ + 1, !.received[w.tick] = {}]

LEMMA PassedGood ==
    ASSUME NEW l, NEW w, Good(l, w), w.atBarrier, IsFull(w)
    PROVE  /\ Good(l, Passed(w)) /\ w.tick \in Ticks /\ ~w.timer
           /\ Passed(w).tick = w.tick + 1 /\ ~Passed(w).executing /\ ~Passed(w).atBarrier
           /\ Passed(w).queue = w.queue /\ Passed(w).out = w.out /\ Passed(w).gate = w.gate
           /\ Passed(w).sync = w.sync /\ Passed(w).started = w.started /\ Passed(w).stop = w.stop
           /\ \A k \in Ticks : k # w.tick => Passed(w).received[k] = w.received[k]
<1> DEFINE next == Passed(w)
<1> USE WatchAssumption DEF Ticks
<1>1. /\ w.tick \in Ticks /\ w \in WatchType /\ ~w.timer /\ w.wait = "no"
      /\ \A t \in Subjects : Arrived(l, t, w.tick)
    BY DEF Good, Sound, IsFull
<1>2. w.received \in [Ticks -> SUBSET Subjects] /\ w.tick + 1 \in 0 .. Target + 1
    BY <1>1 DEF WatchType
<1>3. [w.received EXCEPT ![w.tick] = {}] \in [Ticks -> SUBSET Subjects]
    BY <1>2
<1>4. /\ \A k \in Ticks : [w.received EXCEPT ![w.tick] = {}][k] \subseteq w.received[k]
      /\ \A k \in Ticks : k # w.tick => [w.received EXCEPT ![w.tick] = {}][k] = w.received[k]
    BY <1>1, <1>2
<1>5. next.received = [w.received EXCEPT ![w.tick] = {}]
    BY <1>1 DEF WatchType, Passed
<1>6. /\ next.tick = w.tick + 1 /\ ~next.executing /\ ~next.atBarrier
      /\ next.timer = w.timer /\ next.wait = w.wait /\ next.queue = w.queue /\ next.out = w.out
      /\ next.sync = w.sync /\ next.isReload = w.isReload /\ next.gate = w.gate
      /\ next.started = w.started /\ next.stop = w.stop
    BY <1>1 DEF WatchType, Passed
<1>7. next \in WatchType
    <2>1. ASSUME NEW rec \in [Ticks -> SUBSET Subjects], NEW k \in 0 .. Target + 1
          PROVE  [w EXCEPT !.executing = FALSE, !.atBarrier = FALSE, !.tick = k,
                           !.received = rec] \in WatchType
        BY <1>1 DEF WatchType
    <2>2. next = [w EXCEPT !.executing = FALSE, !.atBarrier = FALSE, !.tick = w.tick + 1,
                           !.received = [w.received EXCEPT ![w.tick] = {}]]
        BY <1>1 DEF WatchType, Passed
    <2>3. [w EXCEPT !.executing = FALSE, !.atBarrier = FALSE, !.tick = w.tick + 1,
                    !.received = [w.received EXCEPT ![w.tick] = {}]] \in WatchType
        BY <1>2, <1>3, <2>1
    <2> QED BY <2>2, <2>3
<1>8. /\ \A k \in Ticks : next.received[k] \subseteq w.received[k]
      /\ \A k \in Ticks : k # w.tick => next.received[k] = w.received[k]
    BY <1>4, <1>5
<1>9. Reached(l, w.tick + 1)
    <2>1. \A j \in 0 .. (w.tick + 1) - 1 : j \in 0 .. w.tick - 1 \/ j = w.tick
        BY <1>1
    <2> QED BY <1>1, <2>1 DEF Good, Sound, Reached
<1> HIDE DEF next
<1>10. Good(l, next)
    <2>1. /\ next.tick = w.tick + 1 /\ ~next.executing /\ ~next.atBarrier /\ ~next.timer
          /\ next.wait = "no" /\ next.queue = w.queue /\ next.out = w.out
          /\ next.sync = w.sync /\ next.isReload = w.isReload
        BY <1>1, <1>6
    <2>2. \A k \in Ticks : \A t \in next.received[k] : Arrived(l, t, k)
        BY <1>8 DEF Good, Sound
    <2> QED BY <1>7, <1>9, <2>1, <2>2 DEF Good, Sound
<1> QED BY <1>1, <1>6, <1>8, <1>10 DEF next

LEMMA PassGood ==
    ASSUME NEW l, NEW w, Good(l, w), w.atBarrier, IsFull(w), NEW me \in Subjects
    PROVE  Good(l, Pass(w, me))
<1> DEFINE next == Passed(w)
<1>1. /\ Good(l, next) /\ w.tick \in Ticks /\ ~w.timer
      /\ next.tick = w.tick + 1 /\ ~next.executing
    BY PassedGood
<1> HIDE DEF next
<1>2. CASE w.tick = Target \/ w.stop
    BY <1>1, <1>2 DEF Pass, Passed, next
<1>3. CASE ~(w.tick = Target \/ w.stop)
    <2>1. next.tick \in Ticks
        BY <1>1, <1>3, WatchAssumption DEF Ticks
    <2>2. Good(l, ExecuteTick(next, me, FALSE))
        BY <1>1, <2>1, ExecuteTickGood
    <2>3. Good(l, [next EXCEPT !.timer = TRUE])
        BY <1>1, <2>1 DEF Good, Sound, WatchType
    <2> QED BY <1>3, <2>2, <2>3 DEF Pass, Passed, next
<1> QED BY <1>2, <1>3

\* The watch w after the barrier's listener.
Counted(w, m) == [w EXCEPT !.received[m.value] = @ \cup {m.sender}]

LEMMA CountedGood ==
    ASSUME NEW l, NEW w, Good(l, w), NEW m \in WatchMsg, Arrived(l, m.sender, m.value)
    PROVE  /\ Good(l, Counted(w, m))
           /\ Counted(w, m).atBarrier = w.atBarrier /\ Counted(w, m).tick = w.tick
           /\ Counted(w, m).executing = w.executing /\ Counted(w, m).gate = w.gate
           /\ Counted(w, m).stop = w.stop /\ Counted(w, m).sync = w.sync
           /\ Counted(w, m).started = w.started /\ Counted(w, m).wait = w.wait
           /\ Counted(w, m).queue = w.queue /\ Counted(w, m).out = w.out
           /\ \A k \in Ticks : w.received[k] \subseteq Counted(w, m).received[k]
           /\ m.sender \in Counted(w, m).received[m.value]
<1>1. m.value \in Ticks /\ m.sender \in Subjects
    BY DEF WatchMsg
<1>2. w \in WatchType /\ w.received \in [Ticks -> SUBSET Subjects]
    BY DEF Good, WatchType
<1> DEFINE rec == [w.received EXCEPT ![m.value] = @ \cup {m.sender}]
<1>3. rec \in [Ticks -> SUBSET Subjects]
    BY <1>1, <1>2
<1>4. /\ \A k \in Ticks : \A t \in rec[k] : t \in w.received[k] \/ (k = m.value /\ t = m.sender)
      /\ \A k \in Ticks : w.received[k] \subseteq rec[k]
      /\ m.sender \in rec[m.value]
    BY <1>1, <1>2
<1>5. Counted(w, m) = [w EXCEPT !.received = rec]
    BY <1>2 DEF WatchType, Counted
<1> HIDE DEF rec
<1>6. [w EXCEPT !.received = rec] \in WatchType
    BY <1>2, <1>3 DEF WatchType
<1>7. \A k \in Ticks : \A t \in rec[k] : Arrived(l, t, k)
    BY <1>4 DEF Good, Sound
<1>8. Sound(l, [w EXCEPT !.received = rec])
    BY <1>2, <1>7 DEF Good, Sound, WatchType
<1> QED BY <1>2, <1>4, <1>5, <1>6, <1>8 DEF Good, WatchType

LEMMA OnBarrierGood ==
    ASSUME NEW l, NEW w, Good(l, w), NEW me \in Subjects, NEW m \in WatchMsg,
           Arrived(l, m.sender, m.value)
    PROVE  Good(l, OnBarrier(w, me, m))
<1> DEFINE counted == Counted(w, m)
           follows == ~w.sync /\ m.sender # me /\ m.value = w.tick
           along == IF follows THEN ExecuteTick(counted, me, FALSE) ELSE counted
<1>1. m.value \in Ticks
    BY DEF WatchMsg
<1>2. Good(l, counted) /\ counted.atBarrier = w.atBarrier /\ counted.tick = w.tick
      /\ counted.executing = w.executing
    BY CountedGood
<1> HIDE DEF counted
<1>3. Good(l, along)
    <2>1. CASE follows
        BY <1>1, <1>2, <2>1, ExecuteTickGood
    <2> QED BY <1>2, <2>1
<1>4. CASE w.atBarrier /\ m.value = w.tick /\ IsFull(counted)
    <2>1. counted.executing
        BY <1>2, <1>4 DEF Good, Sound
    <2>2. along = counted
        BY <2>1 DEF ExecuteTick
    <2>3. Good(l, Pass(along, me))
        BY <1>2, <1>4, <2>2, PassGood
    <2> QED BY <1>4, <2>3 DEF OnBarrier, Counted, counted
<1> QED BY <1>3, <1>4 DEF OnBarrier, Counted, counted

LEMMA HandleMsgGood ==
    ASSUME NEW l, NEW w, Good(l, w), NEW me \in Subjects, NEW m \in WatchMsg,
           m.key = "_at_barrier" => Arrived(l, m.sender, m.value)
    PROVE  Good(l, HandleMsg(w, me, m))
<1>1. m.key = "_at_barrier" => Good(l, OnBarrier(w, me, m))
    BY OnBarrierGood
<1>2. Good(l, OnPause(w))
    BY DEF OnPause, Good, WatchType, Sound
<1>3. Good(l, OnResume(w, me))
    <2> DEFINE opened == [w EXCEPT !.gate = "open"]
    <2>1. Good(l, opened) /\ opened.executing = w.executing
        BY DEF Good, WatchType, Sound
    <2>2. w.wait = "gate" => w.executing
        BY DEF Good, Sound
    <2> HIDE DEF opened
    <2>3. w.wait = "gate" => Good(l, Arrive(opened, me))
        BY <2>1, <2>2, ArriveGood
    <2> QED BY <2>1, <2>3 DEF OnResume, opened
<1>4. m.key \in {"_at_barrier", "_pause_", "_resume_"}
    BY DEF WatchMsg
<1> QED BY <1>1, <1>2, <1>3, <1>4 DEF HandleMsg

LEMMA DeduplicateGood ==
    ASSUME NEW l, NEW w, Good(l, w), NEW m
    PROVE  Good(l, Deduplicate(w, m))
<1> DEFINE r == Without(w.queue, m)
<1>1. w.queue \in Seq(WatchMsg) /\ AllBacked(l, w.queue)
    BY DEF Good, WatchType, Sound
<1>2. r \in Seq(WatchMsg) /\ AllBacked(l, r)
    BY <1>1, BackedRemoval
<1>3. Deduplicate(w, m) = IF w.sync THEN [w EXCEPT !.queue = r] ELSE w
    BY DEF Deduplicate, Without
<1> HIDE DEF r
<1> QED BY <1>2, <1>3 DEF Good, WatchType, Sound

LEMMA OnMessageGood ==
    ASSUME NEW l, NEW w, Good(l, w), NEW me \in Subjects, NEW m \in WatchMsg,
           m.key = "_at_barrier" => Arrived(l, m.sender, m.value)
    PROVE  Good(l, OnMessage(w, me, m))
BY DeduplicateGood, HandleMsgGood DEF OnMessage

LEMMA StartWatchGood ==
    ASSUME NEW l, NEW w, Good(l, w), NEW me \in Subjects
    PROVE  Good(l, StartWatch(w, me))
<1> DEFINE s == [w EXCEPT !.started = TRUE]
<1>1. Good(l, s) /\ s.tick = w.tick /\ w.tick \in 0 .. Target + 1
    BY DEF Good, WatchType, Sound
<1>2. w.tick < Target => s.tick \in Ticks
    BY <1>1, WatchAssumption DEF Ticks
<1>3. w.tick = 0 => s.tick \in Ticks
    BY <1>1, WatchAssumption DEF Ticks
<1>4. ~w.executing /\ w.tick < Target => Good(l, [s EXCEPT !.timer = TRUE])
    BY <1>1, <1>2 DEF Good, WatchType, Sound
<1> HIDE DEF s
<1>5. w.tick < Target \/ w.tick = 0 => Good(l, ExecuteTick(s, me, FALSE))
    BY <1>1, <1>2, <1>3, ExecuteTickGood
<1>6. ~(w.tick >= Target) => w.tick < Target
    BY <1>1, WatchAssumption
<1> QED BY <1>1, <1>4, <1>5, <1>6 DEF StartWatch, s

LEMMA FreshWatchGood ==
    ASSUME NEW l
    PROVE  Good(l, FreshWatch) /\ Good(l, QueueStart(FreshWatch))
<1>1. \A k : k \in 0 .. 0 - 1 => FALSE
    OBVIOUS
<1>2. Reached(l, 0)
    BY <1>1 DEF Reached
<1>3. AllBacked(l, << >>) /\ << >> \in Seq(WatchMsg)
    BY DEF AllBacked
<1>4. 0 \in 0 .. Target + 1
    BY WatchAssumption
<1>5. [k \in Ticks |-> {}] \in [Ticks -> SUBSET Subjects]
      /\ \A k \in Ticks : [j \in Ticks |-> {}][k] = {}
    OBVIOUS
<1> DEFINE Fresh(rec) ==
        [sync |-> FALSE, isReload |-> TRUE, period |-> Period, queue |-> <<>>, out |-> <<>>,
         started |-> FALSE, tick |-> 0, executing |-> FALSE, timer |-> FALSE, stop |-> FALSE,
         gate |-> "open", wait |-> "no", atBarrier |-> FALSE, received |-> rec]
<1>6. ASSUME NEW rec \in [Ticks -> SUBSET Subjects], \A k \in Ticks : rec[k] = {}
      PROVE  Good(l, Fresh(rec)) /\ Fresh(rec).isReload
    BY <1>2, <1>3, <1>4, <1>6 DEF Good, WatchType, Sound
<1>7. ASSUME NEW w, Good(l, w), w.isReload PROVE Good(l, QueueStart(w))
    BY <1>3, <1>7 DEF QueueStart, Good, WatchType, Sound
<1> HIDE DEF Fresh
<1>8. FreshWatch = Fresh([k \in Ticks |-> {}])
    BY DEF FreshWatch, Fresh
<1> QED BY <1>5, <1>6, <1>7, <1>8

LEMMA QueueEndGood ==
    ASSUME NEW l, NEW w, Good(l, w), w.sync, NEW me
    PROVE  Good(l, QueueEnd(w, me))
<1>1. w.isReload /\ w.queue \in Seq(WatchMsg) /\ w.out \in Seq(WatchMsg)
      /\ AllBacked(l, w.queue) /\ AllBacked(l, w.out)
    BY DEF Good, Sound, WatchType
<1>2. w.out \o w.queue \in Seq(WatchMsg) /\ AllBacked(l, w.out \o w.queue)
    BY <1>1, BackedConcat
<1>3. ASSUME NEW q \in Seq(WatchMsg), AllBacked(l, q)
      PROVE  Good(l, [w EXCEPT !.sync = FALSE, !.isReload = FALSE, !.out = q])
    BY <1>3 DEF Good, WatchType, Sound
<1>4. QueueEnd(w, me) = [w EXCEPT !.sync = FALSE, !.isReload = FALSE, !.out = w.out \o w.queue]
    BY <1>1 DEF QueueEnd, Good, WatchType
<1> QED BY <1>2, <1>3, <1>4

-----------------------------------------------------------------------------
(* The steps                                                               *)

LEMMA ArrivedGrows ==
    ASSUME NEW l \in Seq(WatchMsg), NEW m \in WatchMsg, NEW s, NEW k
    PROVE  Arrived(Append(l, m), s, k) <=>
               Arrived(l, s, k) \/ (m.key = "_at_barrier" /\ m.sender = s /\ m.value = k)
<1>1. /\ Len(l) \in Nat /\ DOMAIN l = 1 .. Len(l) /\ DOMAIN Append(l, m) = 1 .. Len(l) + 1
      /\ Append(l, m)[Len(l) + 1] = m /\ \A i \in 1 .. Len(l) : Append(l, m)[i] = l[i]
    BY AppendProperties
<1>2. \A i : i \in 1 .. Len(l) + 1 <=> i \in 1 .. Len(l) \/ i = Len(l) + 1
    BY <1>1
<1> QED BY <1>1, <1>2 DEF Arrived

LEMMA GoodGrows ==
    ASSUME NEW l \in Seq(WatchMsg), NEW m \in WatchMsg
    PROVE  /\ \A q : AllBacked(l, q) => AllBacked(Append(l, m), q)
           /\ \A w : Sound(l, w) => Sound(Append(l, m), w)
<1> DEFINE k == Append(l, m)
<1>1. \A s, j : Arrived(l, s, j) => Arrived(k, s, j)
    BY ArrivedGrows
<1> HIDE DEF k
<1>2. \A j : Reached(l, j) => Reached(k, j)
    BY <1>1 DEF Reached
<1>3. \A q : AllBacked(l, q) => AllBacked(k, q)
    BY <1>2 DEF AllBacked, Backed
<1>4. \A w : Sound(l, w) => Sound(k, w)
    BY <1>1, <1>2, <1>3 DEF Sound
<1> QED BY <1>3, <1>4 DEF k

\* What an operation of a page leaves in the watches and on the way to the router.
LEMMA ShowGood ==
    ASSUME WatchInv, NEW s \in Subjects, NEW w, Good(log, w), Show(s, w)
    PROVE  /\ up' \in [Subjects -> Seq(WatchMsg)]
           /\ \A t \in Subjects : AllBacked(log, up'[t])
           /\ watch' \in [Subjects -> WatchType]
           /\ \A t \in Subjects : Sound(log, watch'[t]) /\ watch'[t].out = << >>
<1>1. w \in WatchType /\ w.out \in Seq(WatchMsg) /\ AllBacked(log, w.out)
    BY DEF Good, Sound, WatchType
<1>2. up[s] \o w.out \in Seq(WatchMsg) /\ AllBacked(log, up[s] \o w.out)
    BY <1>1, BackedConcat DEF WatchInv
<1>3. AllBacked(log, << >>) /\ << >> \in Seq(WatchMsg)
    BY DEF AllBacked
<1>4. /\ [w EXCEPT !.out = << >>] \in WatchType /\ Sound(log, [w EXCEPT !.out = << >>])
      /\ [w EXCEPT !.out = << >>].out = << >>
    BY <1>1, <1>3 DEF Good, Sound, WatchType
<1>5. up' = [up EXCEPT ![s] = up[s] \o w.out] /\ watch' = [watch EXCEPT ![s] = [w EXCEPT !.out = << >>]]
    BY DEF Show
<1>6. /\ up \in [Subjects -> Seq(WatchMsg)] /\ \A t \in Subjects : AllBacked(log, up[t])
      /\ watch \in [Subjects -> WatchType]
      /\ \A t \in Subjects : Sound(log, watch[t]) /\ watch[t].out = << >>
    BY DEF WatchInv
<1>7. up' \in [Subjects -> Seq(WatchMsg)] /\ \A t \in Subjects : AllBacked(log, up'[t])
    BY <1>2, <1>5, <1>6
<1>8. watch' \in [Subjects -> WatchType]
    BY <1>4, <1>5, <1>6
<1>9. \A t \in Subjects : Sound(log, watch'[t]) /\ watch'[t].out = << >>
    BY <1>4, <1>5, <1>6
<1> QED BY <1>7, <1>8, <1>9

LEMMA WatchGood ==
    ASSUME WatchInv, NEW s \in Subjects
    PROVE  Good(log, watch[s])
BY DEF WatchInv, Good

LEMMA HandleGood ==
    ASSUME WatchInv, NEW s \in Subjects, Handle(s)
    PROVE  /\ Head(up[s]) \in WatchMsg /\ Backed(log, Head(up[s]))
           /\ WatchInv'
<1> DEFINE m == Head(up[s])
<1>1. /\ up[s] \in Seq(WatchMsg) /\ up[s] # << >> /\ AllBacked(log, up[s])
      /\ log \in Seq(WatchMsg)
    BY DEF WatchInv, Handle
<1>2. m \in WatchMsg /\ m = up[s][1] /\ 1 \in DOMAIN up[s] /\ 2 \in 1 .. Len(up[s]) + 1
      /\ Len(up[s]) \in 0 .. Len(up[s]) /\ Tail(up[s]) = SubSeq(up[s], 2, Len(up[s]))
    BY <1>1
<1>3. Backed(log, m)
    BY <1>1, <1>2 DEF AllBacked
<1>4. Tail(up[s]) \in Seq(WatchMsg) /\ AllBacked(log, Tail(up[s]))
    BY <1>1, <1>2, BackedPart
<1>5. /\ log' = Append(log, m) /\ up' = [up EXCEPT ![s] = Tail(up[s])]
      /\ UNCHANGED <<seen, backlog, open, watch, reloads, pauses>>
    BY DEF Handle
<1> HIDE DEF m
<1>6. log' \in Seq(WatchMsg) /\ AllBacked(log, log') /\ Len(log') = Len(log) + 1 /\ Len(log) \in Nat
    BY <1>1, <1>2, <1>3, <1>5, BackedAppend, AppendProperties DEF WatchInv
<1>7. /\ \A q : AllBacked(log, q) => AllBacked(log', q)
      /\ \A w : Sound(log, w) => Sound(log', w)
    BY <1>1, <1>2, <1>5, GoodGrows
<1>8. AllBacked(log', log')
    BY <1>6, <1>7
<1>9. up' \in [Subjects -> Seq(WatchMsg)] /\ \A t \in Subjects : AllBacked(log', up'[t])
    BY <1>4, <1>5, <1>7 DEF WatchInv
<1>10. /\ seen' \in [Subjects -> 0 .. Len(log')]
       /\ backlog' \in [Subjects -> 0 .. Len(log')]
    BY <1>5, <1>6 DEF WatchInv
<1>11. /\ open' \in [Subjects -> BOOLEAN] /\ watch' \in [Subjects -> WatchType]
       /\ \A t \in Subjects : Sound(log', watch'[t]) /\ watch'[t].out = << >>
    BY <1>5, <1>7 DEF WatchInv
<1> QED BY <1>2, <1>3, <1>6, <1>8, <1>9, <1>10, <1>11 DEF WatchInv, m

LEMMA PageGood ==
    ASSUME WatchInv, NEW s \in Subjects, NEW w, Good(log, w), Show(s, w), log' = log,
           seen' \in [Subjects -> 0 .. Len(log)], backlog' \in [Subjects -> 0 .. Len(log)],
           open' \in [Subjects -> BOOLEAN]
    PROVE  WatchInv'
<1>1. log \in Seq(WatchMsg) /\ AllBacked(log, log)
    BY DEF WatchInv
<1>2. /\ up' \in [Subjects -> Seq(WatchMsg)]
      /\ \A t \in Subjects : AllBacked(log, up'[t])
      /\ watch' \in [Subjects -> WatchType]
      /\ \A t \in Subjects : Sound(log, watch'[t]) /\ watch'[t].out = << >>
    BY ShowGood
<1> QED BY <1>1, <1>2 DEF WatchInv

LEMMA WatchStart == Init => WatchInv
<1> SUFFICES ASSUME Init PROVE WatchInv
    OBVIOUS
<1>1. AllBacked(<< >>, << >>) /\ << >> \in Seq(WatchMsg) /\ Len(<< >>) = 0
    BY DEF AllBacked
<1>2. Good(<< >>, FreshWatch) /\ FreshWatch.out = << >>
    BY FreshWatchGood DEF FreshWatch
<1>3. FreshWatch \in WatchType /\ Sound(<< >>, FreshWatch)
    BY <1>2 DEF Good
<1> HIDE DEF WatchType
<1> QED BY <1>1, <1>2, <1>3 DEF Init, WatchInv

LEMMA WatchStep == WatchInv /\ [Next]_vars => WatchInv'
<1> SUFFICES ASSUME WatchInv, [Next]_vars PROVE WatchInv'
    OBVIOUS
<1> USE DEF Ticks
<1>1. /\ log \in Seq(WatchMsg) /\ Len(log) \in Nat
      /\ seen \in [Subjects -> 0 .. Len(log)] /\ backlog \in [Subjects -> 0 .. Len(log)]
      /\ open \in [Subjects -> BOOLEAN] /\ watch \in [Subjects -> WatchType]
    BY DEF WatchInv
<1>2. ASSUME NEW s \in Subjects
      PROVE  Good(log, watch[s]) /\ watch[s].tick \in 0 .. Target + 1
    BY WatchGood DEF Good, WatchType
<1>3. CASE UNCHANGED vars
    BY <1>3 DEF WatchInv, vars
<1>4. ASSUME NEW s \in Subjects, Handle(s) PROVE WatchInv'
    BY <1>4, HandleGood
<1>5. ASSUME NEW s \in Subjects, Receive(s) PROVE WatchInv'
    <2> DEFINE m == log[seen[s] + 1]
    <2>1. seen[s] + 1 \in 1 .. Len(log) /\ seen[s] + 1 \in DOMAIN log
        BY <1>1, <1>5 DEF Receive
    <2>2. m \in WatchMsg /\ (m.key = "_at_barrier" => Arrived(log, m.sender, m.value))
        <3>1. m \in WatchMsg
            BY <1>1, <2>1, ElementOfSeq
        <3>2. \E i \in DOMAIN log : log[i] = m
            BY <2>1
        <3> HIDE DEF m
        <3> QED BY <3>1, <3>2 DEF Arrived
    <2> HIDE DEF m
    <2>3. Good(log, OnMessage(watch[s], s, m))
        BY <1>2, <2>2, OnMessageGood
    <2>4. Show(s, OnMessage(watch[s], s, m)) /\ UNCHANGED <<log, backlog, open>>
        BY <1>5 DEF Receive, m
    <2>5. seen' \in [Subjects -> 0 .. Len(log)]
        BY <1>1, <1>5, <2>1 DEF Receive
    <2> QED BY <1>1, <2>3, <2>4, <2>5, PageGood
<1>6. ASSUME NEW s \in Subjects, Start(s) PROVE WatchInv'
    <2>1. Good(log, StartWatch(watch[s], s))
        BY <1>2, StartWatchGood
    <2>2. Show(s, StartWatch(watch[s], s)) /\ UNCHANGED <<log, seen, backlog, open>>
        BY <1>6 DEF Start
    <2> QED BY <1>1, <2>1, <2>2, PageGood
<1>7. ASSUME NEW s \in Subjects, DoNextTick(s) PROVE WatchInv'
    <2>1. watch[s].tick \in Ticks
        BY <1>2, <1>7, WatchAssumption DEF DoNextTick
    <2>2. Good(log, ExecuteTick(watch[s], s, TRUE))
        BY <1>2, <2>1, ExecuteTickGood
    <2>3. Show(s, ExecuteTick(watch[s], s, TRUE)) /\ UNCHANGED <<log, seen, backlog, open>>
        BY <1>7 DEF DoNextTick
    <2> QED BY <1>1, <2>2, <2>3, PageGood
<1>8. ASSUME NEW s \in Subjects, Timeout(s) PROVE WatchInv'
    <2>1. watch[s].tick \in Ticks
        BY <1>2, <1>8 DEF Timeout, Good, Sound
    <2>2. Good(log, ExecuteTick(watch[s], s, FALSE))
        BY <1>2, <2>1, ExecuteTickGood
    <2>3. Show(s, ExecuteTick(watch[s], s, FALSE)) /\ UNCHANGED <<log, seen, backlog, open>>
        BY <1>8 DEF Timeout
    <2> QED BY <1>1, <2>2, <2>3, PageGood
<1>9. ASSUME NEW s \in Subjects, NEW key \in {"_pause_", "_resume_"}
      PROVE  Good(log, Send(watch[s], s, Watch(s, key, 0)))
    <2>1. Watch(s, key, 0) \in WatchMsg /\ Watch(s, key, 0).key # "_at_barrier"
        BY WatchIsMsg, WatchAssumption
    <2>2. Backed(log, Watch(s, key, 0))
        BY <2>1 DEF Backed
    <2> QED BY <1>2, <2>1, <2>2, SendGood
<1>10. ASSUME NEW s \in Subjects, Pause(s) PROVE WatchInv'
    <2>1. /\ Show(s, Send(watch[s], s, Watch(s, "_pause_", 0)))
          /\ UNCHANGED <<log, seen, backlog, open>>
        BY <1>10 DEF Pause
    <2> QED BY <1>1, <1>9, <2>1, PageGood
<1>11. ASSUME NEW s \in Subjects, Resume(s) PROVE WatchInv'
    <2>1. /\ Show(s, Send(watch[s], s, Watch(s, "_resume_", 0)))
          /\ UNCHANGED <<log, seen, backlog, open>>
        BY <1>11 DEF Resume
    <2> QED BY <1>1, <1>9, <2>1, PageGood
<1>12. ASSUME NEW s \in Subjects, Reload(s) PROVE WatchInv'
    <2>1. PICK n \in 0 .. Len(up[s]) : up' = [up EXCEPT ![s] = SubSeq(@, 1, n)]
        BY <1>12 DEF Reload
    <2>2. up[s] \in Seq(WatchMsg) /\ AllBacked(log, up[s]) /\ 1 \in 1 .. Len(up[s]) + 1
        BY DEF WatchInv
    <2>3. SubSeq(up[s], 1, n) \in Seq(WatchMsg) /\ AllBacked(log, SubSeq(up[s], 1, n))
        BY <2>2, BackedPart
    <2>4. up' \in [Subjects -> Seq(WatchMsg)] /\ \A t \in Subjects : AllBacked(log, up'[t])
        BY <2>1, <2>3 DEF WatchInv
    <2>5. FreshWatch \in WatchType /\ Sound(log, FreshWatch) /\ FreshWatch.out = << >>
        BY FreshWatchGood DEF Good, FreshWatch
    <2>6. watch' = [watch EXCEPT ![s] = FreshWatch] /\ open' = [open EXCEPT ![s] = FALSE]
          /\ UNCHANGED <<log, seen, backlog>>
        BY <1>12 DEF Reload
    <2>7. /\ watch' \in [Subjects -> WatchType]
          /\ \A t \in Subjects : Sound(log, watch'[t]) /\ watch'[t].out = << >>
        BY <2>5, <2>6 DEF WatchInv
    <2> QED BY <2>4, <2>6, <2>7 DEF WatchInv
<1>13. ASSUME NEW s \in Subjects, StartReplay(s) PROVE WatchInv'
    <2>1. Good(log, StartWatch(QueueStart(FreshWatch), s))
        BY FreshWatchGood, StartWatchGood
    <2>2. /\ Show(s, StartWatch(QueueStart(FreshWatch), s)) /\ log' = log
          /\ open' = [open EXCEPT ![s] = TRUE] /\ seen' = [seen EXCEPT ![s] = 0]
          /\ backlog' = [backlog EXCEPT ![s] = Len(log)]
        BY <1>13 DEF StartReplay
    <2>3. /\ open' \in [Subjects -> BOOLEAN] /\ seen' \in [Subjects -> 0 .. Len(log)]
          /\ backlog' \in [Subjects -> 0 .. Len(log)]
        BY <1>1, <2>2
    <2> QED BY <2>1, <2>2, <2>3, PageGood
<1>14. ASSUME NEW s \in Subjects, EndReplay(s) PROVE WatchInv'
    <2>1. Good(log, QueueEnd(watch[s], s))
        BY <1>2, <1>14, QueueEndGood DEF EndReplay
    <2>2. Show(s, QueueEnd(watch[s], s)) /\ UNCHANGED <<log, seen, backlog, open>>
        BY <1>14 DEF EndReplay
    <2> QED BY <1>1, <2>1, <2>2, PageGood
<1> QED BY <1>3, <1>4, <1>5, <1>6, <1>7, <1>8, <1>10, <1>11, <1>12, <1>13, <1>14 DEF Next, Page

(***************************************************************************)
(* The inductive invariant of the stop watch holds throughout.             *)
(***************************************************************************)
THEOREM WatchInductive == Spec => []WatchInv
BY WatchStart, WatchStep, PTL DEF Spec

-----------------------------------------------------------------------------
(* The theorems                                                            *)

(***************************************************************************)
(* A watch never has a timeout and a tick at once, never counts beyond the *)
(* end, and waits for a resume only before it goes to the barrier.         *)
(***************************************************************************)
THEOREM WatchTypes == Spec => []TypeOK
<1>1. ASSUME WatchInv PROVE TypeOK
    <2>1. \A i \in DOMAIN log : log[i].key \in {"_at_barrier", "_pause_", "_resume_"}
        <3>1. \A i \in DOMAIN log : log[i] \in WatchMsg
            BY <1>1 DEF WatchInv
        <3> QED BY <3>1 DEF WatchMsg
    <2>2. ASSUME NEW s \in Subjects
          PROVE  /\ watch[s].tick \in 0 .. Target + 1
                 /\ watch[s].out = <<>>
                 /\ ~(watch[s].timer /\ watch[s].executing)
                 /\ watch[s].wait # "no" => watch[s].executing /\ ~watch[s].atBarrier
        <3>1. watch[s] \in WatchType /\ Sound(log, watch[s]) /\ watch[s].out = << >>
            BY <1>1 DEF WatchInv
        <3> QED BY <3>1 DEF WatchType, Sound
    <2> QED BY <1>1, <2>1, <2>2 DEF WatchInv, TypeOK
<1> QED BY <1>1, WatchInductive, PTL

(***************************************************************************)
(* onTick is called for a tick only when everybody has arrived at it, with *)
(* any number of subjects and ticks, pauses and reloads.                   *)
(***************************************************************************)
THEOREM TicksAreTogether == Spec => []TicksTogether
<1>1. ASSUME WatchInv PROVE TicksTogether
    <2>1. ASSUME NEW s \in Subjects, NEW t \in Subjects, NEW k \in 0 .. watch[s].tick - 1
          PROVE  HasArrived(t, k)
        <3>1. Sound(log, watch[s])
            BY <1>1 DEF WatchInv
        <3>2. Arrived(log, t, k)
            BY <3>1 DEF Sound, Reached
        <3> QED BY <3>2 DEF Arrived, HasArrived
    <2> QED BY <2>1 DEF TicksTogether
<1> QED BY <1>1, WatchInductive, PTL

-----------------------------------------------------------------------------
(* The refinement of BarrierClock                                          *)

\* The ticks at which the log l has s arrive.
At(l, s) == {k \in Ticks : Arrived(l, s, k)}

LEMMA CountedFromNil ==
    ASSUME NEW n \in Nat
    PROVE  IsFiniteSet(0 .. n - 1) /\ Cardinality(0 .. n - 1) = n
<1>1. 0 \in Int /\ n - 1 \in Int /\ (0 > n - 1 <=> n = 0) /\ (n - 1) - 0 + 1 = n
    OBVIOUS
<1> QED BY <1>1, FS_Interval

(***************************************************************************)
(* Arrivals are counted by the first tick that is missing.                 *)
(***************************************************************************)
LEMMA ArrivalsAreCounted ==
    ASSUME NEW l \in Seq(WatchMsg), AllBacked(l, l), NEW s \in Subjects
    PROVE  /\ Cardinality(At(l, s)) \in 0 .. Target + 1
           /\ At(l, s) = 0 .. Cardinality(At(l, s)) - 1
<1> DEFINE missing == {k \in 0 .. Target + 1 : k \notin At(l, s)}
           c == Min(missing)
<1>1. missing \in SUBSET Nat /\ Target + 1 \in missing
    BY WatchAssumption DEF At, Ticks
<1>2. c \in missing /\ \A y \in missing : c <= y
    <2> HIDE DEF missing
    <2> QED BY <1>1, FirstNumber
<1>3. c \in 0 .. Target + 1 /\ c \notin At(l, s) /\ \A y \in missing : c <= y
    BY <1>2
<1> HIDE DEF c
<1>4. ASSUME NEW k \in 0 .. c - 1 PROVE k \in At(l, s)
    BY <1>3, WatchAssumption
<1>5. ASSUME NEW k \in At(l, s) PROVE k \in 0 .. c - 1
    <2>1. PICK i \in DOMAIN l : l[i].key = "_at_barrier" /\ l[i].sender = s /\ l[i].value = k
        BY <1>5 DEF At, Arrived
    <2>2. Reached(l, k)
        BY <2>1 DEF AllBacked, Backed
    <2>3. k \in Ticks
        BY <1>5 DEF At
    <2>4. \A j \in 0 .. k - 1 : Arrived(l, s, j) /\ j \in Ticks
        BY <2>2, <2>3, WatchAssumption DEF Reached, Ticks
    <2>5. c \notin 0 .. k - 1
        BY <1>3, <2>4 DEF At
    <2>6. c # k
        BY <1>3, <1>5
    <2> QED BY <1>3, <2>3, <2>5, <2>6, WatchAssumption DEF Ticks
<1>6. At(l, s) = 0 .. c - 1
    BY <1>4, <1>5
<1>7. c \in Nat
    BY <1>3, WatchAssumption
<1>8. Cardinality(At(l, s)) = c
    BY <1>6, <1>7, CountedFromNil
<1> QED BY <1>3, <1>6, <1>8

Announced(l) == [s \in Subjects |-> Cardinality(At(l, s))]

LEMMA AnnouncedIsCount == announced = Announced(log)
BY DEF announced, Announced, At, Arrived, HasArrived

LEMMA AnnouncementCounts ==
    ASSUME NEW l \in Seq(WatchMsg), AllBacked(l, l), NEW m \in WatchMsg, Backed(l, m)
    PROVE  \/ Announced(Append(l, m)) = Announced(l)
           \/ \E s \in Subjects :
                 /\ Announced(l)[s] <= Target
                 /\ \A t \in Subjects : Announced(l)[t] >= Announced(l)[s]
                 /\ Announced(Append(l, m)) = [Announced(l) EXCEPT ![s] = @ + 1]
<1> DEFINE x == m.sender
           k == m.value
           after == Append(l, m)
<1>1. x \in Subjects /\ k \in Ticks
    BY DEF WatchMsg
<1>2. \A s, j : Arrived(after, s, j) <=> Arrived(l, s, j) \/ (m.key = "_at_barrier" /\ x = s /\ k = j)
    BY ArrivedGrows
<1>3. after \in Seq(WatchMsg) /\ AllBacked(after, after)
    <2>1. after \in Seq(WatchMsg) /\ AllBacked(l, after)
        BY BackedAppend
    <2> QED BY <2>1, GoodGrows
<1> HIDE DEF x, k, after
<1>4. CASE m.key # "_at_barrier" \/ Arrived(l, x, k)
    <2>1. \A s \in Subjects : At(after, s) = At(l, s)
        BY <1>2, <1>4 DEF At
    <2> QED BY <2>1 DEF Announced, after
<1>5. CASE m.key = "_at_barrier" /\ ~Arrived(l, x, k)
    <2> DEFINE c(s) == Cardinality(At(l, s))
    <2>1. \A s \in Subjects : c(s) \in 0 .. Target + 1 /\ At(l, s) = 0 .. c(s) - 1
        BY ArrivalsAreCounted
    <2> HIDE DEF c
    <2>2. ASSUME NEW t \in Subjects PROVE c(t) >= k
        <3>1. \A j \in 0 .. k - 1 : j \in At(l, t)
            BY <1>1, <1>5, WatchAssumption DEF Backed, Reached, At, Ticks, k
        <3>2. k = 0 \/ k - 1 \in 0 .. k - 1
            BY <1>1, WatchAssumption DEF Ticks
        <3>3. k = 0 \/ k - 1 \in 0 .. c(t) - 1
            BY <2>1, <3>1, <3>2
        <3> QED BY <1>1, <2>1, <3>3, WatchAssumption DEF Ticks
    <2>3. k \notin 0 .. c(x) - 1
        BY <1>1, <1>5, <2>1 DEF At
    <2>4. c(x) = k
        BY <1>1, <2>1, <2>2, <2>3, WatchAssumption DEF Ticks
    <2>5. At(after, x) = At(l, x) \cup {k} /\ \A t \in Subjects \ {x} : At(after, t) = At(l, t)
        BY <1>1, <1>2, <1>5 DEF At
    <2>6. At(after, x) = 0 .. (k + 1) - 1
        BY <1>1, <2>1, <2>4, <2>5, WatchAssumption DEF Ticks
    <2>7. Cardinality(At(after, x)) = k + 1
        BY <1>1, <2>6, CountedFromNil, WatchAssumption DEF Ticks
    <2>8. \A s \in Subjects : Announced(l)[s] = c(s)
        BY DEF Announced, c
    <2>9. Announced(after) = [Announced(l) EXCEPT ![x] = @ + 1]
        BY <1>1, <2>4, <2>5, <2>7, <2>8 DEF Announced
    <2>10. k <= Target
        BY <1>1, WatchAssumption DEF Ticks
    <2> QED BY <1>1, <2>2, <2>4, <2>8, <2>9, <2>10 DEF after
<1> QED BY <1>4, <1>5

LEMMA ClockStep == WatchInv /\ [Next]_vars => [Clock!Next]_announced
<1> SUFFICES ASSUME WatchInv, [Next]_vars PROVE Clock!Next \/ announced' = announced
    OBVIOUS
<1>1. announced = Announced(log) /\ announced' = Announced(log')
    BY AnnouncedIsCount DEF announced, Announced, At, Arrived, HasArrived
<1>2. CASE log' = log
    BY <1>1, <1>2
<1>3. ASSUME NEW s \in Subjects, Handle(s) PROVE Clock!Next \/ announced' = announced
    <2> DEFINE m == Head(up[s])
    <2>1. m \in WatchMsg /\ Backed(log, m) /\ log' = Append(log, m)
        BY <1>3, HandleGood DEF Handle
    <2>2. log \in Seq(WatchMsg) /\ AllBacked(log, log)
        BY DEF WatchInv
    <2> HIDE DEF m
    <2>3. \/ Announced(log') = Announced(log)
          \/ \E t \in Subjects :
                /\ Announced(log)[t] <= Target
                /\ \A u \in Subjects : Announced(log)[u] >= Announced(log)[t]
                /\ Announced(log') = [Announced(log) EXCEPT ![t] = @ + 1]
        BY <2>1, <2>2, AnnouncementCounts
    <2> QED BY <1>1, <2>3 DEF Clock!Next, Clock!Arrive
<1>4. log' = log \/ \E s \in Subjects : Handle(s)
    BY DEF Next, Page, Receive, Start, DoNextTick, Timeout, Pause, Resume, Reload, StartReplay,
           EndReplay, vars
<1> QED BY <1>2, <1>3, <1>4

(***************************************************************************)
(* The stop watch implements the abstract clock: whatever is lost with a   *)
(* page that is reloaded and whoever pauses, the log announces a tick once *)
(* for everybody and never ahead of anybody.                               *)
(***************************************************************************)
THEOREM WatchIsClock == Spec => IsClock
<1>1. Init => Clock!Init
    <2> SUFFICES ASSUME Init PROVE Clock!Init
        OBVIOUS
    <2>1. \A s : At(<< >>, s) = {}
        BY DEF At, Arrived
    <2>2. Announced(<< >>) = [s \in Subjects |-> 0]
        BY <2>1, FS_EmptySet DEF Announced
    <2> QED BY <2>2, AnnouncedIsCount DEF Init, Clock!Init
<1> QED BY <1>1, ClockStep, WatchInductive, PTL DEF Spec, IsClock, Clock!Spec

ClockFacts == INSTANCE BarrierClockProofs WITH arrived <- announced

(***************************************************************************)
(* So, through pauses and reloads, the router is never told of one watch   *)
(* more than one tick further than of another.                             *)
(***************************************************************************)
THEOREM WatchesNeverApart == Spec => []ClockFacts!NeverApart
<1>1. IsClock => ClockFacts!Spec
    BY DEF IsClock, Clock!Spec, Clock!Init, Clock!Next, Clock!Arrive,
           ClockFacts!Spec, ClockFacts!Init, ClockFacts!Next, ClockFacts!Arrive
<1> QED BY <1>1, WatchIsClock, ClockFacts!ClockKeepsTogether, PTL
=============================================================================
