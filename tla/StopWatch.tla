----------------------------- MODULE StopWatch ------------------------------
(***************************************************************************)
(* The synchronised stop watch (synchronizedStopWatch.js) in the browsers  *)
(* of one group in one period, with the barriers of redwoodSubject.js and  *)
(* the replay of the log after a reload.  Everybody has got through the    *)
(* _on_load barrier of the period, so messaging is enabled for all.  The   *)
(* log is what all of them are sent, in the same order.                    *)
(***************************************************************************)
EXTENDS ClientCore, FiniteSets

CONSTANTS
    Target,         \* tickTarget: duration times frequency, at least one tick
    Starters,       \* the subjects whose script calls start() when the page has loaded
    Reloaders,      \* the subjects who reload the page; they are starters
    Pausers,        \* the subjects whose script pauses the watch and resumes it
    MaxReloads,     \* bound on reloads
    MaxPauses       \* bound on pauses

ASSUME WatchAssumption ==
    /\ Target \in Nat \ {0}
    /\ Starters \subseteq Subjects
    /\ Reloaders \subseteq Starters
    /\ Pausers \subseteq Subjects
    /\ MaxReloads \in Nat
    /\ MaxPauses \in Nat

VARIABLES
    log,            \* the messages of the watch, as the router has logged them
    up,             \* from every page to Route, in order
    seen,           \* how much of the log each page has handled
    backlog,        \* how long the log was when the replay to a page began
    open,           \* which pages are connected
    watch,          \* the watch of every page
    reloads,        \* how often pages have been reloaded
    pauses          \* how often watches have been paused

vars == <<log, up, seen, backlog, open, watch, reloads, pauses>>

Ticks == 0 .. Target

Period == 1

-----------------------------------------------------------------------------
(* One watch                                                               *)

(***************************************************************************)
(* started says that start() has been called, tick and executing are the   *)
(* variables of that name, timer that timeout is set, stop is the argument *)
(* of executeTick.  gate is the promise resume, and wait says whether      *)
(* executeTick waits for it, or for one that pause has replaced ("lost").  *)
(* atBarrier and received are the barrier of the present tick and of all.  *)
(***************************************************************************)
FreshWatch ==
    [sync |-> FALSE, isReload |-> TRUE, period |-> Period, queue |-> <<>>, out |-> <<>>,
     started |-> FALSE, tick |-> 0, executing |-> FALSE, timer |-> FALSE, stop |-> FALSE,
     gate |-> "open", wait |-> "no", atBarrier |-> FALSE,
     received |-> [k \in Ticks |-> {}]]

Watch(me, key, value) == Message(key, me, Period, 1, FALSE, value)

(***************************************************************************)
(* The call of synchronizationBarrier.                                     *)
(***************************************************************************)
Arrive(w, me) ==
    Send([w EXCEPT !.atBarrier = TRUE, !.wait = "no"], me, Watch(me, "_at_barrier", w.tick))

\* Mutant: the timeout is not cancelled.
ExecuteTickTwice(w, me, stop) ==
    IF w.executing \/ w.gate # "open" THEN w
    ELSE Arrive([w EXCEPT !.executing = TRUE, !.stop = stop], me)

ExecuteTick(w, me, stop) ==
    LET now == [w EXCEPT !.executing = TRUE, !.timer = FALSE, !.stop = stop]
    IN  IF w.executing THEN w
        ELSE IF w.gate = "open" THEN Arrive(now, me)
        ELSE [now EXCEPT !.wait = "gate"]

\* Mutant: a replay waits for the time between two ticks as well.
PassTimed(w, me) ==
    [w EXCEPT !.executing = FALSE, !.atBarrier = FALSE, !.tick = @ + 1,
              !.received[w.tick] = {}, !.timer = ~(w.tick = Target \/ w.stop)]

(***************************************************************************)
(* Everybody is at the barrier: onTick, or onComplete, and the next tick,  *)
(* at once in a replay and otherwise after a while.                        *)
(***************************************************************************)
Pass(w, me) ==
    LET next == [w EXCEPT !.executing = FALSE, !.atBarrier = FALSE, !.tick = @ + 1,
                          !.received[w.tick] = {}]
    IN  IF w.tick = Target \/ w.stop THEN next
        ELSE IF w.sync THEN ExecuteTick(next, me, FALSE)
        ELSE [next EXCEPT !.timer = TRUE]

\* Mutant: the barrier is passed when anybody has arrived.
IsFullWithOne(w) == w.received[w.tick] # {}

IsFull(w) == Subjects \subseteq w.received[w.tick]

(***************************************************************************)
(* The barrier's listener and then the watch's own, which goes along when  *)
(* somebody else has come to the present tick.  What waits for the barrier *)
(* is called after both.                                                   *)
(***************************************************************************)
OnBarrier(w, me, m) ==
    LET counted == [w EXCEPT !.received[m.value] = @ \cup {m.sender}]
        follows == ~w.sync /\ m.sender # me /\ m.value = w.tick
        along == IF follows THEN ExecuteTick(counted, me, FALSE) ELSE counted
    IN  IF w.atBarrier /\ m.value = w.tick /\ IsFull(counted) THEN Pass(along, me) ELSE along

OnPause(w) ==
    [w EXCEPT !.gate = "closed", !.wait = IF @ = "gate" THEN "lost" ELSE @]

\* Mutant: whoever waits for resume is not woken.
OnResumeSilent(w, me) == [w EXCEPT !.gate = "open"]

OnResume(w, me) ==
    LET opened == [w EXCEPT !.gate = "open"]
    IN  IF w.wait = "gate" THEN Arrive(opened, me) ELSE opened

HandleMsg(w, me, m) ==
    CASE m.key = "_at_barrier" -> OnBarrier(w, me, m)
      [] m.key = "_pause_" /\ m.sender = me -> OnPause(w)
      [] m.key = "_resume_" /\ m.sender = me -> OnResume(w, me)
      [] OTHER -> w

OnMessage(w, me, m) == HandleMsg(Deduplicate(w, m), me, m)

(***************************************************************************)
(* start, with the first tick in the same digest.                          *)
(***************************************************************************)
StartWatch(w, me) ==
    LET s == [w EXCEPT !.started = TRUE]
    IN  IF w.timer \/ w.executing \/ w.tick >= Target THEN s
        ELSE IF w.tick = 0 THEN ExecuteTick(s, me, FALSE)
        ELSE IF w.sync THEN ExecuteTick(s, me, FALSE)
        ELSE [s EXCEPT !.timer = TRUE]

-----------------------------------------------------------------------------
Show(s, w) ==
    /\ watch' = [watch EXCEPT ![s] = [w EXCEPT !.out = <<>>]]
    /\ up' = [up EXCEPT ![s] = @ \o w.out]

Handle(s) ==
    /\ up[s] # <<>>
    /\ log' = Append(log, Head(up[s]))
    /\ up' = [up EXCEPT ![s] = Tail(@)]
    /\ UNCHANGED <<seen, backlog, open, watch, reloads, pauses>>

(***************************************************************************)
(* A page is sent what was logged when its replay began, then              *)
(* __queue_end__, and then what has been logged since.                     *)
(***************************************************************************)
Receive(s) ==
    /\ open[s]
    /\ seen[s] < IF watch[s].sync THEN backlog[s] ELSE Len(log)
    /\ Show(s, OnMessage(watch[s], s, log[seen[s] + 1]))
    /\ seen' = [seen EXCEPT ![s] = @ + 1]
    /\ UNCHANGED <<log, backlog, open, reloads, pauses>>

Start(s) ==
    /\ open[s]
    /\ s \in Starters
    /\ ~watch[s].started
    /\ Show(s, StartWatch(watch[s], s))
    /\ UNCHANGED <<log, seen, backlog, open, reloads, pauses>>

DoNextTick(s) ==
    LET w == watch[s] IN
    /\ open[s]
    /\ s \notin Starters
    /\ ~w.timer /\ ~w.executing /\ w.tick < Target
    /\ Show(s, ExecuteTick(w, s, TRUE))
    /\ UNCHANGED <<log, seen, backlog, open, reloads, pauses>>

Timeout(s) ==
    /\ open[s]
    /\ watch[s].timer
    /\ Show(s, ExecuteTick(watch[s], s, FALSE))
    /\ UNCHANGED <<log, seen, backlog, open, reloads, pauses>>

(***************************************************************************)
(* Scripts pause and resume in turn: what they have sent, wherever it is,  *)
(* ends with the other of the two.                                         *)
(***************************************************************************)
Is(m, s, key) == m.sender = s /\ m.key = key

EndsPaused(q, s) ==
    \E i \in DOMAIN q : /\ Is(q[i], s, "_pause_")
                        /\ \A j \in DOMAIN q : j > i => ~Is(q[j], s, "_resume_")

IsPaused(s) == EndsPaused(log \o up[s], s)

Pause(s) ==
    /\ open[s]
    /\ ~watch[s].sync
    /\ s \in Pausers
    /\ ~IsPaused(s)
    /\ pauses < MaxPauses
    /\ pauses' = pauses + 1
    /\ Show(s, Send(watch[s], s, Watch(s, "_pause_", 0)))
    /\ UNCHANGED <<log, seen, backlog, open, reloads>>

Resume(s) ==
    /\ open[s]
    /\ ~watch[s].sync
    /\ IsPaused(s)
    /\ Show(s, Send(watch[s], s, Watch(s, "_resume_", 0)))
    /\ UNCHANGED <<log, seen, backlog, open, reloads, pauses>>

(***************************************************************************)
(* The page is gone, and with it the end of what it has sent.              *)
(***************************************************************************)
Reload(s) ==
    /\ open[s]
    /\ s \in Reloaders
    /\ reloads < MaxReloads
    /\ reloads' = reloads + 1
    /\ open' = [open EXCEPT ![s] = FALSE]
    /\ watch' = [watch EXCEPT ![s] = FreshWatch]
    /\ \E n \in 0 .. Len(up[s]) : up' = [up EXCEPT ![s] = SubSeq(@, 1, n)]
    /\ UNCHANGED <<log, seen, backlog, pauses>>

(***************************************************************************)
(* The page is back and the replay begins.  The script starts the watch    *)
(* when the _on_load barrier has been passed once more, before the first   *)
(* message of the watch.                                                   *)
(***************************************************************************)
StartReplay(s) ==
    /\ ~open[s]
    /\ open' = [open EXCEPT ![s] = TRUE]
    /\ seen' = [seen EXCEPT ![s] = 0]
    /\ backlog' = [backlog EXCEPT ![s] = Len(log)]
    /\ Show(s, StartWatch(QueueStart(FreshWatch), s))
    /\ UNCHANGED <<log, reloads, pauses>>

EndReplay(s) ==
    /\ open[s]
    /\ watch[s].sync
    /\ seen[s] = backlog[s]
    /\ Show(s, QueueEnd(watch[s], s))
    /\ UNCHANGED <<log, seen, backlog, open, reloads, pauses>>

Init ==
    /\ log = <<>>
    /\ up = [s \in Subjects |-> <<>>]
    /\ seen = [s \in Subjects |-> 0]
    /\ backlog = [s \in Subjects |-> 0]
    /\ open = [s \in Subjects |-> TRUE]
    /\ watch = [s \in Subjects |-> FreshWatch]
    /\ reloads = 0
    /\ pauses = 0

Page(s) ==
    \/ Receive(s) \/ Start(s) \/ Timeout(s) \/ Resume(s)
    \/ StartReplay(s) \/ EndReplay(s)

Next ==
    \E s \in Subjects :
        Handle(s) \/ Page(s) \/ DoNextTick(s) \/ Pause(s) \/ Reload(s)

Spec == Init /\ [][Next]_vars

(***************************************************************************)
(* The router and the browsers run, starters start and who has paused      *)
(* resumes: what a page can always do, it has done again and again.  (The  *)
(* log is finite, so this is weak fairness of the actions of the page.)    *)
(* Nobody has to step, to pause or to reload.                              *)
(***************************************************************************)
UpToDate(s) ==
    /\ open[s]
    /\ ~watch[s].sync
    /\ seen[s] = Len(log)
    /\ ~watch[s].timer
    /\ s \in Starters => watch[s].started
    /\ ~IsPaused(s)

Fairness == \A s \in Subjects : WF_vars(Handle(s)) /\ []<>UpToDate(s)

FairSpec == Spec /\ Fairness

-----------------------------------------------------------------------------
(* Properties                                                              *)

TypeOK ==
    /\ \A i \in DOMAIN log : log[i].key \in {"_at_barrier", "_pause_", "_resume_"}
    /\ backlog \in [Subjects -> 0 .. Len(log)]
    /\ seen \in [Subjects -> 0 .. Len(log)]
    /\ \A s \in Subjects :
          /\ watch[s].tick \in 0 .. Target + 1
          /\ watch[s].out = <<>>
          /\ ~(watch[s].timer /\ watch[s].executing)
          /\ watch[s].wait # "no" => watch[s].executing /\ ~watch[s].atBarrier

HasArrived(s, k) ==
    \E i \in DOMAIN log : log[i].key = "_at_barrier" /\ log[i].sender = s /\ log[i].value = k

announced == [s \in Subjects |-> Cardinality({k \in Ticks : HasArrived(s, k)})]

(***************************************************************************)
(* onTick is called for a tick when everybody has arrived at it and never  *)
(* before (the barrier in executeTick).                                    *)
(***************************************************************************)
TicksTogether ==
    \A s, t \in Subjects : \A k \in 0 .. watch[s].tick - 1 : HasArrived(t, k)

(***************************************************************************)
(* A page that has handled the log is at the tick that the log says, also  *)
(* when it has been reloaded and has gone through the log once more.       *)
(***************************************************************************)
IsInPlace ==
    \A s \in Subjects :
        (open[s] /\ seen[s] = Len(log)) =>
            /\ \A t \in Subjects : watch[s].tick <= announced[t]
            /\ \E t \in Subjects : watch[s].tick = announced[t]

(***************************************************************************)
(* Through pauses and reloads the announcements in the log are those of a  *)
(* clock that nobody can run ahead of.                                     *)
(***************************************************************************)
Clock == INSTANCE BarrierClock WITH arrived <- announced

IsClock == Clock!Spec

(***************************************************************************)
(* A watch that has been started comes to its end everywhere: nobody waits *)
(* for ever at a barrier or for a resume.                                  *)
(***************************************************************************)
Completes == <>(\A s \in Subjects : watch[s].tick = Target + 1)
=============================================================================
