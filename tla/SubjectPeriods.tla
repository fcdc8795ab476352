--------------------------- MODULE SubjectPeriods ---------------------------
(***************************************************************************)
(* The subjects' browsers (redwoodCore.js, redwoodSubject.js), the admin's *)
(* (redwoodAdmin.js, default_admin_page.js) and the router between them,   *)
(* from the start of a session to its last page: how periods begin, pause  *)
(* and end, and how a page that is loaded again finds its place by the     *)
(* replay of the log.                                                      *)
(*                                                                         *)
(* The router is what Router shows it to be: a log, the period of every    *)
(* subject, the page that Django serves, and in-order delivery of what     *)
(* match lets through.  All subjects have registered and are in group 1,   *)
(* the admin has clicked on start and there is one router epoch.  What was *)
(* under way from a page that is gone is handled before what its successor *)
(* sends, or lost.                                                         *)
(***************************************************************************)
EXTENDS ClientCore, FiniteSets

CONSTANTS
    Rows,           \* how many rows the config has: periods 1 .. Rows are played
    Paused,         \* the periods with "pause" in the config
    Reloaders,      \* the subjects who reload a page themselves
    AnyTime,        \* may they do so while they are Changing, too?
    MaxReloads      \* bound on these reloads

ASSUME PeriodsAssumption ==
    /\ IsFiniteSet(Subjects)
    /\ Rows \in Nat
    /\ Paused \subseteq 1 .. Rows
    /\ Reloaders \subseteq Subjects
    /\ AnyTime \in BOOLEAN
    /\ MaxReloads \in Nat

VARIABLES
    log,            \* the log of the session, without what can match nobody any more
    scope,          \* the Subject objects of the router
    served,         \* the page of every subject in Redis
    up,             \* from every client to Route, in order
    replay,         \* what is left of the log that Sync sends to a page, in order
    down,           \* what Route sends to every subject's page, in order
    conn,           \* how far a subject's browser is with its page: see ConnStates
    page,           \* the page in a subject's browser
    admin,          \* the admin's page
    reloads,        \* how often users have reloaded
    played          \* history: the periods that each subject has had on the right page

router == <<log, scope, served>>
browsers == <<conn, page, played>>
vars == <<router, up, replay, down, browsers, admin, reloads>>

Periods == 0 .. Rows + 1

Group == 1

PageFor(period) ==
    IF period = 0 THEN "Wait" ELSE IF period <= Rows THEN "Start" ELSE "Finish"

\* Mutant: the stored page is served in period 0 too.
PageStored(s) == served[s]

(***************************************************************************)
(* session_experiment: period 0, or none, is the page Wait.                *)
(***************************************************************************)
PageServed(s) == IF scope[s].period = 0 THEN "Wait" ELSE served[s]

(***************************************************************************)
(* The messages of q that are in K, in their order: SelectSeq for a set,   *)
(* as a recursive function that proofs can expand.                         *)
(***************************************************************************)
Only(q, K) ==
    LET f[n \in 0 .. Len(q)] ==
            IF n = 0 THEN <<>>
            ELSE IF q[n] \in K THEN Append(f[n - 1], q[n]) ELSE f[n - 1]
    IN  f[Len(q)]

-----------------------------------------------------------------------------
(* RedwoodSubject: the state of a script and its handlers                  *)

(***************************************************************************)
(* A page as its scripts leave it before the connection is open.  held is  *)
(* rs._send_queue, enabled rs._messaging_enabled, broken says that         *)
(* rs._enable_messaging has been overwritten, deferred the periods whose   *)
(* _on_load barrier has a promise, received who is at which of them,       *)
(* pause rs._pause, ranAt the period in which the on_load callbacks were   *)
(* called, timer that next_period's timeout is set, asked that the script  *)
(* has called next_period.                                                 *)
(***************************************************************************)
FreshPage(name) ==
    [name |-> name, sync |-> FALSE, reloading |-> FALSE, isReload |-> FALSE,
     period |-> Undefined, periods |-> [s \in Subjects |-> Undefined],
     queue |-> <<>>, out |-> <<>>,
     held |-> <<>>, enabled |-> FALSE, broken |-> FALSE, loaded |-> {},
     deferred |-> {}, received |-> [q \in Periods |-> {}], pause |-> {},
     ranAt |-> Undefined, timer |-> FALSE, asked |-> FALSE]

(***************************************************************************)
(* rs._send: held back until everybody has loaded the page.                *)
(***************************************************************************)
ScriptSend(p, me, m) ==
    IF p.enabled THEN Send(p, me, m) ELSE [p EXCEPT !.held = Append(@, m)]

\* Mutant: messaging is enabled without sending what has been held back.
EnableOnly(p, me) == [p EXCEPT !.enabled = TRUE]

(***************************************************************************)
(* rs._enable_messaging, before it is overwritten.                         *)
(***************************************************************************)
EnableMessaging(p, me) ==
    LET enabled == [p EXCEPT !.enabled = TRUE, !.held = <<>>]
        queueable == {m \in ToSet(p.held) : IsQueueable(p, me, m)}
    IN  IF p.sync
        THEN [enabled EXCEPT !.queue = @ \o Only(p.held, queueable)]
        ELSE [enabled EXCEPT !.out = @ \o [i \in DOMAIN p.held |-> OnWire(p.held[i])]]

(***************************************************************************)
(* rs.next_period.  It means to hold messages back and instead overwrites  *)
(* the function _enable_messaging with false.                              *)
(***************************************************************************)
NextPeriod(p) == [p EXCEPT !.broken = TRUE, !.timer = TRUE, !.asked = TRUE]

(***************************************************************************)
(* rs._start_period: the on_load callbacks are called once.  That of the   *)
(* page Wait asks for the next period (default_wait_page.js).              *)
(***************************************************************************)
StartPeriod(p) ==
    IF p.ranAt # Undefined
    THEN p
    ELSE LET q == [p EXCEPT !.ranAt = p.period]
         IN  IF p.name = "Wait" THEN NextPeriod(q) ELSE q

\* Mutant: the pause flag is not looked at.
PassBarrierUnpaused(p, me) == StartPeriod(p)

(***************************************************************************)
(* The _on_load barrier is passed.                                         *)
(***************************************************************************)
PassBarrier(p, me) ==
    IF p.period \in p.pause
    THEN Send(p, me, Message("__paused__", me, p.period, Group, FALSE, p.period))
    ELSE StartPeriod(p)

\* Mutant: the barrier opens when somebody else has arrived.
CheckBarrierAny(p, me, q) ==
    IF q \in p.deferred /\ p.received[q] # {}
    THEN PassBarrier([p EXCEPT !.deferred = @ \ {q}, !.received[q] = {}], me)
    ELSE p

(***************************************************************************)
(* checkBarrier: whoever waits goes on when all subjects have arrived.     *)
(***************************************************************************)
CheckBarrier(p, me, q) ==
    IF q \in p.deferred /\ Subjects \subseteq p.received[q]
    THEN PassBarrier([p EXCEPT !.deferred = @ \ {q}, !.received[q] = {}], me)
    ELSE p

AtBarrier(p, me, m) ==
    CheckBarrier([p EXCEPT !.received[m.value] = @ \cup {m.sender}], me, m.value)

(***************************************************************************)
(* rs's listener to __set_period__ of its own subject.  The page it sets   *)
(* is named by the period that it is for.                                  *)
(***************************************************************************)
SetPeriod(p, me, m) ==
    LET core == CoreSetPeriod(p, me, m)
        paused == [core EXCEPT !.pause = IF m.value \in Paused THEN @ \cup {m.value} ELSE @]
    IN  IF m.sender # me
        THEN core
        ELSE Send(paused, me,
                  Message("__set_page__", me, m.value, 0, TRUE, m.value))

(***************************************************************************)
(* The listeners to __page_loaded__: messaging is enabled when everybody   *)
(* has loaded, which fails after next_period; and the page's own message   *)
(* sends it to the _on_load barrier, unless the one before has failed.     *)
(***************************************************************************)
PageLoaded(p, me, m) ==
    LET core == CorePageLoaded(p, me, m)
        known == m.period = p.periods[m.sender]
        counted == IF known THEN [core EXCEPT !.loaded = @ \cup {m.sender}] ELSE core
        all == known /\ counted.loaded = Subjects
        ready == IF all THEN EnableMessaging(counted, me) ELSE counted
        waiting == [ready EXCEPT !.deferred = @ \cup {p.period}]
    IN  IF all /\ p.broken
        THEN counted
        ELSE IF m.sender = me /\ m.period = p.period
             THEN ScriptSend(waiting, me,
                             Message("_at_barrier", me, p.period, Group, FALSE, p.period))
             ELSE ready

(***************************************************************************)
(* The script's own _next_period comes back.                               *)
(***************************************************************************)
OwnNextPeriod(p, me, m) ==
    IF m.sender = me /\ m.period = p.periods[me]
    THEN Send([p EXCEPT !.broken = TRUE], me,
              Message("__set_period__", me, p.period, 0, TRUE, p.period + 1))
    ELSE p

Resume(p, me, m) ==
    IF m.sender # me \/ m.value \notin p.pause
    THEN p
    ELSE LET q == [p EXCEPT !.pause = @ \ {m.value}]
         IN  IF p.period # m.value
             THEN q
             ELSE ScriptSend(StartPeriod(q), me,
                             Message("__resumed__", me, p.period, Group, FALSE, p.period))

(***************************************************************************)
(* onmessage and __handle_msg__.  A page that is about to be reloaded does *)
(* nothing more.                                                           *)
(***************************************************************************)
HandleMsg(p, me, m) ==
    CASE m.key = "__set_period__"  -> SetPeriod(p, me, m)
      [] m.key = "__set_page__"    -> CoreSetPage(p, me, m)
      [] m.key = "__page_loaded__" -> PageLoaded(p, me, m)
      [] m.key = "_at_barrier"     -> AtBarrier(p, me, m)
      [] m.key = "_next_period"    -> OwnNextPeriod(p, me, m)
      [] m.key = "__resume__"      -> Resume(p, me, m)
      [] OTHER                     -> p

OnMessage(p, me, m) ==
    IF p.reloading THEN p
    ELSE CASE m.key = "__queue_start__" -> QueueStart(p)
           [] m.key = "__queue_end__"   -> QueueEnd(p, me)
           [] OTHER                     -> HandleMsg(Deduplicate(p, m), me, m)

-----------------------------------------------------------------------------
(* The router and the page server                                          *)

(***************************************************************************)
(* What a page has no use for is left off its wire: it has listeners for   *)
(* what others do only if it is one of these three.                        *)
(***************************************************************************)
Interests(s, m) ==
    m.sender = s \/ m.key \in {"__set_period__", "__page_loaded__", "_at_barrier"}

(***************************************************************************)
(* The period in which a message matters to a page.  A __resume__ is sent  *)
(* to period 0 and names another.                                          *)
(***************************************************************************)
PeriodOf(m) == IF m.key = "__resume__" THEN m.value ELSE m.period

(***************************************************************************)
(* The log with m added, in a session with these Subject objects: without  *)
(* the state update that m replaces, which is not relevant any more, and   *)
(* without what belongs to a period that everybody has left.               *)
(***************************************************************************)
Logged(m, sc) ==
    LET replaced(x) == m.stateUpdate /\ x.key = m.key /\ x.sender = m.sender
        live(x) == \E s \in Subjects : sc[s].period <= PeriodOf(x)
    IN  Only(log, {x \in ToSet(log) : ~replaced(x) /\ live(x)})
            \o (IF live(m) THEN <<m>> ELSE <<>>)

Gets(s, sc, logged, m) ==
    /\ Interests(s, m)
    /\ match(s, sc[s], ToSet(logged), m)

-----------------------------------------------------------------------------
(* The admin's page                                                        *)

(***************************************************************************)
(* The listeners of Admin and of the default page to periods and pauses:   *)
(* the resume button is there when every subject is paused.                *)
(***************************************************************************)
AdminState(m) ==
    CASE m.key = "__set_period__" -> [admin EXCEPT !.periods[m.sender] = m.value]
      [] m.key = "__paused__" ->
            LET paused == admin.paused \cup {m.sender}
            IN  [admin EXCEPT !.paused = paused, !.resumable = @ \/ paused = Subjects]
      [] m.key = "__resumed__" -> [admin EXCEPT !.paused = @ \ {m.sender}]
      [] m.key = "resume" -> [admin EXCEPT !.resumable = FALSE]
      [] OTHER -> admin

(***************************************************************************)
(* ra.resume, in the name of every subject and for the period it is in.    *)
(***************************************************************************)
Resumes ==
    [i \in 1 .. Cardinality(Subjects) |->
        LET s == SetToSeq(Subjects)[i]
        IN  Message("__resume__", s, 0, Group, FALSE, admin.periods[s])]

ClickResume ==
    /\ admin.resumable
    /\ admin' = [admin EXCEPT !.resumable = FALSE]
    /\ up' = [up EXCEPT !["admin"] = Append(@, Message("resume", "admin", 0, 0, FALSE, 0))]
    /\ UNCHANGED <<router, replay, down, browsers, reloads>>

-----------------------------------------------------------------------------
(* The router and the page server                                          *)

(***************************************************************************)
(* Route handles the next message of n.  The period of a __set_period__ is *)
(* overwritten with the one it sets.  The admin's page reads it at once:   *)
(* all that it sends goes by what Route has handled before.                *)
(***************************************************************************)
Handle(n) ==
    /\ up[n] # <<>>
    /\ LET sent == Head(up[n])
           isPeriod == sent.key = "__set_period__"
           m == [sent EXCEPT !.period = IF isPeriod THEN sent.value ELSE @]
           sc == IF isPeriod THEN [scope EXCEPT ![m.sender].period = m.value] ELSE scope
           logged == Logged(m, sc)
           handled == [up EXCEPT ![n] = Tail(@)]
       IN  /\ scope' = sc
           /\ log' = logged
           /\ served' = IF m.key = "__set_page__" THEN [served EXCEPT ![m.sender] = PageFor(m.value)]
                                                  ELSE served
           /\ down' = [s \in Subjects |->
                  IF conn[s] \in {"registered", "open"} /\ Gets(s, sc, logged, m)
                  THEN Append(down[s], m)
                  ELSE down[s]]
           /\ admin' = AdminState(m)
           /\ up' = IF m.key = "resume" THEN [handled EXCEPT !["admin"] = @ \o Resumes]
                                        ELSE handled
    /\ UNCHANGED <<replay, browsers, reloads>>

(***************************************************************************)
(* A browser asks Django for the page, opens the websocket and is          *)
(* registered.                                                             *)
(***************************************************************************)
ConnStates == {"loading", "loaded", "registered", "open"}

Load(s) ==
    /\ conn[s] = "loading"
    /\ conn' = [conn EXCEPT ![s] = "loaded"]
    /\ page' = [page EXCEPT ![s] = FreshPage(PageServed(s))]
    /\ UNCHANGED <<router, up, replay, down, played, admin, reloads>>

Register(s) ==
    /\ conn[s] = "loaded"
    /\ conn' = [conn EXCEPT ![s] = "registered"]
    /\ UNCHANGED <<router, up, replay, down, page, played, admin, reloads>>

-----------------------------------------------------------------------------
(* What happens in the browsers                                            *)

(***************************************************************************)
(* The scripts of a page have started in the period that the page is for.  *)
(***************************************************************************)
Plays(p) == p.ranAt # Undefined /\ p.name = PageFor(p.ranAt)

(***************************************************************************)
(* A page comes out of a handler: what the handler has sent is on its way. *)
(***************************************************************************)
Show(s, p) ==
    /\ page' = [page EXCEPT ![s] = [p EXCEPT !.out = <<>>]]
    /\ up' = [up EXCEPT ![s] = @ \o p.out]
    /\ played' = [played EXCEPT ![s] = IF Plays(p) THEN @ \cup {p.ranAt} ELSE @]

(***************************************************************************)
(* The log is sent to the page between two marks.  What Route has handled  *)
(* since the registration comes afterwards, once more.                     *)
(***************************************************************************)
Mark(key) == Message(key, "server", 0, 0, FALSE, 0)

Sync(s) ==
    /\ conn[s] = "registered"
    /\ conn' = [conn EXCEPT ![s] = "open"]
    /\ replay' = [replay EXCEPT ![s] =
                     <<Mark("__queue_start__")>>
                     \o Only(log, {m \in ToSet(log) : Gets(s, scope, log, m)})
                     \o <<Mark("__queue_end__")>>]
    /\ UNCHANGED <<router, up, down, page, played, admin, reloads>>

Receive(s) ==
    /\ conn[s] = "open"
    /\ ~page[s].reloading
    /\ IF replay[s] # <<>>
       THEN /\ Show(s, OnMessage(page[s], s, Head(replay[s])))
            /\ replay' = [replay EXCEPT ![s] = Tail(@)]
            /\ UNCHANGED down
       ELSE /\ down[s] # <<>>
            /\ Show(s, OnMessage(page[s], s, Head(down[s])))
            /\ down' = [down EXCEPT ![s] = Tail(@)]
            /\ UNCHANGED replay
    /\ UNCHANGED <<router, conn, admin, reloads>>

(***************************************************************************)
(* The timeout of next_period, which waits for the end of a replay.        *)
(***************************************************************************)
Timer(s) ==
    LET p == page[s] IN
    /\ conn[s] = "open"
    /\ p.timer
    /\ ~p.sync
    /\ Show(s, Send([p EXCEPT !.timer = FALSE], s,
                    Message("_next_period", s, p.period, 0, FALSE, 0)))
    /\ UNCHANGED <<router, replay, down, conn, admin, reloads>>

(***************************************************************************)
(* The experiment's own script is done with the period.                    *)
(***************************************************************************)
Done(s) ==
    LET p == page[s] IN
    /\ conn[s] = "open"
    /\ p.name = "Start"
    /\ p.ranAt # Undefined
    /\ ~p.asked
    /\ ~p.reloading
    /\ Show(s, NextPeriod(p))
    /\ UNCHANGED <<router, replay, down, conn, admin, reloads>>

(***************************************************************************)
(* The period of s is changing; or its __paused__ is on its way, which a   *)
(* reload could send twice.                                                *)
(***************************************************************************)
Changing(s) ==
    \E m \in ToSet(up[s]) \cup ToSet(down[s]) :
        /\ m.sender = s
        /\ m.key \in {"_next_period", "__set_period__", "__set_page__", "__paused__"}

(***************************************************************************)
(* window.location.reload, because of a new page or by the user.  Of what  *)
(* is on its way to Route the end may be lost.                             *)
(***************************************************************************)
Leave(s) ==
    /\ conn' = [conn EXCEPT ![s] = "loading"]
    /\ \E n \in 0 .. Len(up[s]) : up' = [up EXCEPT ![s] = SubSeq(@, 1, n)]
    /\ replay' = [replay EXCEPT ![s] = <<>>]
    /\ down' = [down EXCEPT ![s] = <<>>]
    /\ page' = [page EXCEPT ![s] = FreshPage("Blank")]
    /\ UNCHANGED <<router, played, admin>>

Reload(s) ==
    /\ conn[s] = "open"
    /\ page[s].reloading
    /\ Leave(s)
    /\ UNCHANGED reloads

UserReload(s) ==
    /\ conn[s] = "open"
    /\ s \in Reloaders
    /\ reloads < MaxReloads
    /\ AnyTime \/ ~Changing(s)
    /\ reloads' = reloads + 1
    /\ Leave(s)

-----------------------------------------------------------------------------
(***************************************************************************)
(* Everybody has been waiting for the session to start, with a page that   *)
(* has announced itself when it had no period; the admin's start_session   *)
(* sets period 0 for everybody.                                            *)
(***************************************************************************)
Announced == [s \in Subjects |-> OnWire(Message("__page_loaded__", s, Undefined, 0, FALSE, 0))]

Starts ==
    [i \in 1 .. Cardinality(Subjects) |->
        Message("__set_period__", SetToSeq(Subjects)[i], 0, 0, TRUE, 0)]

Init ==
    /\ log = [i \in 1 .. Cardinality(Subjects) |-> Announced[SetToSeq(Subjects)[i]]]
    /\ scope = [s \in Subjects |-> [period |-> 0, group |-> Group]]
    /\ served = [s \in Subjects |-> "None"]
    /\ up = [n \in Subjects \cup {"admin"} |-> IF n = "admin" THEN Starts ELSE <<>>]
    /\ replay = [s \in Subjects |-> <<>>]
    /\ down = [s \in Subjects |-> <<>>]
    /\ conn = [s \in Subjects |-> "open"]
    /\ page = [s \in Subjects |-> FreshPage("Wait")]
    /\ admin = [periods |-> [s \in Subjects |-> Undefined], paused |-> {}, resumable |-> FALSE]
    /\ reloads = 0
    /\ played = [s \in Subjects |-> {}]

Browser(s) ==
    \/ Load(s)
    \/ Register(s)
    \/ Sync(s)
    \/ Receive(s)
    \/ Timer(s)
    \/ Done(s)
    \/ Reload(s)

Next ==
    \/ \E n \in Subjects \cup {"admin"} : Handle(n)
    \/ \E s \in Subjects : Browser(s) \/ UserReload(s)
    \/ ClickResume

Spec == Init /\ [][Next]_vars

-----------------------------------------------------------------------------
(* Properties                                                              *)

TypeOK ==
    /\ \A s \in Subjects : scope[s].period \in Periods /\ scope[s].group = Group
    /\ served \in [Subjects -> {"None", "Wait", "Start", "Finish"}]
    /\ conn \in [Subjects -> ConnStates]
    /\ \A s \in Subjects :
          /\ page[s].period \in Periods \cup {Undefined}
          /\ page[s].ranAt \in Periods \cup {Undefined}
          /\ page[s].out = <<>>
          /\ page[s].sync => conn[s] = "open" /\ replay[s] # <<>>
    /\ admin.paused \subseteq Subjects
    /\ reloads \in 0 .. MaxReloads
    /\ played \in [Subjects -> SUBSET Periods]

(***************************************************************************)
(* Nobody's scripts start a period before everybody's page is there: the   *)
(* on_load callbacks run behind a barrier that all subjects have reached   *)
(* (rs._start_period is called from the _on_load barrier).                 *)
(***************************************************************************)
HasArrived(t, p) ==
    \/ scope[t].period > p
    \/ \E m \in ToSet(log) : m.key = "_at_barrier" /\ m.sender = t /\ m.value = p

StartTogether ==
    \A s, t \in Subjects :
        (conn[s] = "open" /\ page[s].ranAt \notin Paused \cup {Undefined}) =>
            HasArrived(t, page[s].ranAt)

(***************************************************************************)
(* Nor does a resume start a period with "pause" before everybody is       *)
(* there: the admin's resume button waits for the __paused__ of every      *)
(* subject (ra.on_all_paused), which is sent from behind the same barrier. *)
(* With a single paused period this holds; a __paused__ that a reload has  *)
(* sent twice breaks it in the next one.                                   *)
(***************************************************************************)
ResumedTogether ==
    \A s, t \in Subjects :
        (conn[s] = "open" /\ page[s].ranAt \in Paused) => HasArrived(t, page[s].ranAt)

(***************************************************************************)
(* The scripts that start in a period are those of the period's page, so a *)
(* page never plays a part that is meant for another period.               *)
(***************************************************************************)
PageFitsPeriod ==
    \A s \in Subjects :
        (conn[s] = "open" /\ page[s].ranAt # Undefined) =>
            page[s].name = PageFor(page[s].ranAt)

(***************************************************************************)
(* A subject gets into a period only after its scripts have had the one    *)
(* before, reloads or not.                                                 *)
(***************************************************************************)
NoPeriodIsSkipped ==
    \A s \in Subjects : \A q \in 0 .. scope[s].period - 1 : q \in played[s]

(***************************************************************************)
(* A period with "pause" starts for nobody before the admin has resumed    *)
(* it: its __resume__ is in the log.                                       *)
(***************************************************************************)
PausedUntilResumed ==
    \A s \in Subjects :
        LET q == page[s].ranAt IN
        (conn[s] = "open" /\ q \in Paused /\ scope[s].period = q) =>
            \E m \in ToSet(log) : m.key = "__resume__" /\ m.sender = s /\ m.value = q

(***************************************************************************)
(* Whoever has started a period that everybody is in can send: what        *)
(* rs._send holds back has been let go by _enable_messaging.               *)
(***************************************************************************)
EverybodyCanSend ==
    \A s \in Subjects :
        LET q == page[s].ranAt IN
        (conn[s] = "open" /\ q # Undefined /\ \A t \in Subjects : scope[t].period = q) =>
            page[s].enabled /\ page[s].held = <<>>

(***************************************************************************)
(* Nobody is stuck: when no message is under way, no page is being loaded, *)
(* no timer is set, no script is at work and no button is waiting for the  *)
(* admin, everybody has started the last page.  So a page finds its place  *)
(* in the replay of the log, and no barrier waits for who has passed it.   *)
(***************************************************************************)
Quiet ==
    /\ \A n \in DOMAIN up : up[n] = <<>>
    /\ ~admin.resumable
    /\ \A s \in Subjects :
          /\ conn[s] = "open"
          /\ replay[s] = <<>>
          /\ down[s] = <<>>
          /\ ~page[s].reloading
          /\ ~page[s].timer
          /\ ~(page[s].name = "Start" /\ page[s].ranAt # Undefined /\ ~page[s].asked)

NobodyIsStuck ==
    Quiet => \A s \in Subjects : page[s].name = "Finish" /\ page[s].ranAt = Rows + 1
=============================================================================
