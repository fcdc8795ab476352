# Redwood in TLA+

Redwood runs economics experiments in web browsers. A Go process, the *router*,
relays messages between the browsers of one experiment session and keeps the
session in Redis; a Django application serves the pages and edits the
experiments; a JavaScript framework in the browsers gives experiments periods,
groups, synchronisation and replay after a reload. This directory holds the
specifications of that system, the TLC configurations that check them and the
proofs that TLAPS checks.

Paths below are relative to the repository; `router.go` and the like are in
`src/go/src/expecon-router/`, the framework in
`src/expecon/static/framework/js/`.

## 1. Inventory

| Component | State | Operations | What makes it correct |
|---|---|---|---|
| **Router** (`router.go`, `session.go`, `main.go`) | sessions: nonce, listeners, subjects, last state updates, last config; four channels | `Route` (one goroutine): answers subject requests, registers and removes listeners, handles messages; `Reset`, `Delete`; `NewRouter` restores from Redis | one log, one Subject and one registration per name; nothing of an old epoch survives a reset; memory is what Redis would restore |
| **Listener** (`listener.go`) | the `recv` channel, the websocket, the Subject | `Sync`, `SendLoop`, `ReceiveLoop`, `Send`, `match` | every client gets every message meant for it, in order; a dead listener is removed and hurts nobody |
| **Redis store** (`database.go`) | set of sessions, log, session objects, their values | save, fetch in blocks, delete, list the objects | what is deleted is gone; what is fetched is what was saved |
| **RedwoodCore** (`redwoodCore.js`) | connection, nonce, send queue, subjects, periods, groups, points, configs; all of it lives as long as one load of a page | connect, send, follow a replay, handle a message, reload | after a reload the script is where it was; what it sends again during the replay is not sent twice and changes nobody's state |
| **RedwoodSubject** (`redwoodSubject.js`) | period, pauses, barriers, messages held back, points and data | next_period, set_period and set_page, synchronizationBarrier, pause and resume, send, set, retrieve | scripts start a period together, on its page, after its resume; no period is skipped; nobody is left at a barrier or mute |
| **RedwoodAdmin** (`redwoodAdmin.js`, `default_admin_page.js`) | subjects, who is paused | start, pause, resume, refresh, reset, delete | every subject started and resumed once |
| **Call manager** (`asyncCallManagerService.js`) | a queue, batches of calls, a busy flag | call, execute, resolve, for four wrappers | executions never overlap; no caller is answered by a later execution than one who called after him, nor with an old result, and all are answered |
| **Stop watch** (`synchronizedStopWatch.js`) | tick, timeout, whether a tick is being executed, the promise to resume | start, doNextTick, pause, resume, tick | ticks are executed together; nobody waits for ever |
| **Page server** (`views.py`) | reads Redis and the database | session_experiment, upload, download, clone | shows the page the session is at |
| **Experiments** (`models.py`, `admin.py`) | experiments, pages, sessions | save, clone | unique names, complete experiments |
| **CSV export** (`to_csv.py`) | the log | convert | every field of every message once |
| Legacy client, helpers, plots, site configuration | | | not modelled, see section 8 |

How they interact:

* A browser opens a websocket; `HandleWebsocket` asks `Route` for a Subject
  (channel `requestSubject`), creates a Listener, has `Route` register it
  (`newListeners`, with an acknowledgement), replays the log to the browser
  (`Sync`, between `__queue_start__` and `__queue_end__`) and then runs
  `SendLoop` and `ReceiveLoop`.
* `ReceiveLoop` passes messages to `Route` (`messages`). `Route` stamps each
  with a time, changes Subjects, saves session objects and the message in Redis,
  and pushes it into `recv` of every listener whose filter `match` lets it
  through.
* When a client is gone, `SendLoop` fails to write and closes `recv`; the next
  push panics, and the recovery puts the listener on `removeListeners`, which
  `Route` itself reads.
* `__reset__` and `__delete__` give the session a new nonce and an empty log;
  browsers that hear of it reload. Messages with an old nonce are dropped.
* Django reads the keys `period:...` and `page:...` that the router writes, to
  decide which page to serve.
* In a browser, the replay calls the same handlers as live messages do. What
  scripts send during it is queued, compared with what is replayed, and sent at
  its end if it was not in the log; messages that change a subject's state are
  dropped, because the log has them.
* `__set_period__` makes the subject's browser send `__set_page__`, which makes it
  reload. A page announces itself with `__page_loaded__`; its echo sends it to the
  `_on_load` barrier, and behind the barrier the scripts start, or wait for the
  admin's `__resume__`.
* The stop watch agrees on each tick with a barrier of its own.

The hard behaviours, each a line of `hazards` in `PROJECT.json`: registration
against sync against handling; resets while any of that is under way; late
messages; late removals; crashes inside a reset; restoring from Redis; channels
at their capacity and goroutines waiting on each other; and, in the browsers,
replay after a reload, barriers, pauses and resumes that are replayed or
repeated.

## 2. Modules

| Module | Models | Proofs |
|---|---|---|
| `Messages` | `message.go`, `Listener.match` | |
| `Database` | `database.go` as a record and operations on it; `session_experiment`'s view of it | |
| `Router` | one session: `Route`, `HandleWebsocket`, `HandleMessage`, reset, delete, crash, `NewRouter`, the clients' messages | `RouterProofs` |
| `RouterChannels` | the goroutines and channels with their capacities, send by send | `ChannelProofs` |
| `SessionLog` | abstract: what a session's log is to those who read it; implemented by `Router` | in `RouterProofs` |
| `ClientCore` | `redwoodCore.js`: operations on the state of one page | |
| `SubjectPeriods` | the subjects' browsers, the admin's and the router between them, from the start of a session to its last page: `redwoodSubject.js`, `redwoodAdmin.js`, the default pages, on top of `ClientCore` | `SubjectProofs`, `ProgressProofs` |
| `StopWatch` | `synchronizedStopWatch.js` in every browser of a group, with the replay, on top of `ClientCore` | `StopWatchProofs`, `StopWatchPlaceProofs` |
| `BarrierClock` | abstract: the clock that a stop watch is; implemented by `StopWatch` | `BarrierClockProofs`; the refinement in `StopWatchProofs` |
| `AsyncCallManager` | `asyncCallManagerService.js` | `CallProofs` |
| `MCRouter`, `MCRouterChannels`, `MCSubjectPeriods`, `MCStopWatch`, `MCAsyncCallManager` | definitions for the configurations | |

`Router` extends `Database`, which extends `Messages`. `RouterChannels` stands
beside `Router`: it models what `Router` leaves out (bounded `recv` and
`removeListeners`, `Route` blocked in the middle of a delivery) and leaves out
what `Router` has (what messages say and whom they are for). `SubjectPeriods` and
`StopWatch` extend `ClientCore`, which extends `Messages`; the router in them is
what `Router` is shown to be, a log and ordered delivery.

### Router: state and actions

| Variable | Code |
|---|---|
| `status` | where `Route` is: its select, one of three points inside `Session.Reset`, or dead |
| `nonce`, `sid` | `session.nonce`; which Session object `router.sessions` has. Uuids are numbers in the order in which they are drawn |
| `subjects`, `attrs` | `session.subjects` and the Subject objects. A reset makes new objects while connections still hold the old ones, so an object is named by its name and the epoch in which it was made |
| `updates` | `last_state_update` of every Session object (a Sync may still hold a deleted one) |
| `lastCfg`, `listeners` | `last_cfg`, `listeners` |
| `messages`, `removals` | `Router.messages`, `Router.removeListeners` |
| `redis` | Redis, see `Database` |
| `conn`, `pending`, `recv`, `inbox` | per connection: the goroutine of `HandleWebsocket` and its Listener; the channel that `Database.Messages` fills; `Listener.recv`; what the client has received |
| `clock`, `logEpoch` | `time.Now()`; a history variable, the epoch of the log |

| Action | Code |
|---|---|
| `Connect`, `ServeSubjectRequest`, `RegisterListener` | `HandleWebsocket` up to the acknowledgement, with `Session.Subject` |
| `StartSync`, `CountQueue`, `FetchBlock`, `SyncMessage`, `FinishSync` | `Listener.Sync` and `Database.Messages`: one step per point where the goroutine meets Redis, the Session or the websocket |
| `SendLoop`, `Disconnect`, `ClientSend` | `SendLoop`, a client that goes away, `ReceiveLoop` with what the scripts send |
| `HandleStale`, `HandleUpdate` | `HandleMessage` of an old and of a current message |
| `BeginReset`, `ClearLog`, `ReplayConfig`, `AnswerReset` | `Session.Reset`, `Session.Delete` and the final `Receive`, cut where a Sync can read the nonce or the log in between |
| `RemoveListener` | the fourth case of `Route` |
| `RoutePanics`, `Crash`, `Restart` | an assignment through a nil Subject; a kill; `NewRouter` |

Abstractions of `Router`, all deliberate:

* One session. Sessions share nothing but `Route` and its channels.
* `HandleMessage` of an ordinary message is one step. What another goroutine
  could see in between is the log, the Subject and `last_state_update`; the steps
  of a Sync read one of them each.
* A connection has at most one request in `requestSubject` and `newListeners`, so
  these channels are part of `conn[c].st`. The way of a message from the script
  to `ReceiveLoop` is part of the channel `messages`; it has a capacity of its own.
* The websocket from `SendLoop` to the client is part of the step that writes: a
  message is written and received, or the write fails.
* A client sends only after its sync, which is what `__sync_send__` sees to. The
  period and group it sends are those it has been told. What a reload does to the
  client's script is not in here; a client that reloads is a new connection.
* A payload is a number. A config is a row number 0; a data message has no payload.
* Observers (`admin`, `listener`) never have a Subject in `session.subjects`.

### RouterChannels: state and actions

`route`, `left` and `target` are `Route`'s program counter in `Session.Receive`
and `Listener.Send`; `sender[c]` is that of `HandleWebsocket` and then
`SendLoop`, `receiver[c]` that of `ReceiveLoop`; `hand[c]` is the message
that `SendLoop` has taken and not yet written. `TakeMessage`, `TakeRemoval`,
`TakeListener` are cases of `Route`'s select; `NextListener`, `Push`, `Recover`,
`QueueRemoval`, `EndReceive` are the loop; `Take`, `Write`, `FailToWrite` are
`SendLoop`; `Decode`, `PassOn`, `GetPeriod`, `EndReceiveLoop` are `ReceiveLoop`
(with `__get_period__`, whose answer goes through `recv` like everything else);
`Stall`, `Resume`, `Leave` are the other end of the websocket. Every message is
for every listener.

### ClientCore and SubjectPeriods: state and actions

All that a browser knows lives as long as one load of a page, so a page is a
record and `ClientCore` has operations from records to records: `Send` with the
queue of a replay (`IsQueueable`, `SyncSend`, `Deduplicate`), `QueueStart` and
`QueueEnd`, and what `__handle_msg__` keeps. `out` is what the present handler has
given to the websocket.

| Variable | Code |
|---|---|
| `log`, `scope`, `served` | the log in Redis; the Subject objects of the router; the page of every subject in Redis |
| `up`, `down` | the way of messages to `Route` and to a page, each in order |
| `replay` | what is left of the log that `Sync` sends to a page, between its two marks |
| `conn`, `page` | how far a browser is with its page; the state of its scripts, see `FreshPage` |
| `admin` | `ra.periods`, who is paused, whether the resume button is enabled |
| `reloads`, `played` | a bound; a history variable, the periods that have been played on their page |

| Action | Code |
|---|---|
| `Handle` | `HandleMessage`, and the admin's handlers for what it sends on |
| `Load`, `Register`, `Sync` | `session_experiment`, `HandleWebsocket` to the acknowledgement, the reading of the log |
| `Receive` | `onmessage` with all listeners of `redwoodCore.js` and `redwoodSubject.js`, for the next message of the replay and, after it, of `down` |
| `Timer`, `Done` | the timeout of `next_period`; the experiment's script is done |
| `Reload`, `UserReload` | the reload that `__set_page__` asks for; F5, or the admin's "Recover Session" |
| `ClickResume` | the resume button |

Abstractions, all deliberate:

* `Sync` reads the log in one step and sends it in order, message by message; what
  is handled after the registration is in `down` and comes once more, behind the
  replay. A timer waits for the end of the replay.
* The log leaves out what is of no use to anybody any more: a state update that has
  been replaced, which `match` lets through to nobody, and what belongs to periods that
  everybody has left. Of the latter `match` does let through what was sent in period 0 or,
  like a `__resume__`, to period 0; but no handler does anything with it. With these
  messages left in the log TLC finds the properties of `periods` to hold as well: in one
  period with a reload, in one with `pause` and in two with `pause` without one.
* Subjects have registered and are in group 1, the start button has been clicked,
  and everybody is at the page Wait. A config is the set of its periods and of
  those with `pause`.
* A script plays a period and then calls `next_period`. What it sends besides, its
  points and its data, is not in here; what is held back for it is (`held`).
* The admin's page reads every message at once and is never reloaded.
* When a page goes away, a part of what it has sent may be lost, always the end.
  What is not lost is handled before what the next page sends.

### StopWatch: state and actions

`log`, `up`, `seen`, `open` are the log, the way to the router, how much of the log
each page has handled and whether it is there, `backlog` how long the log was when
the replay to a page began; `watch` has the variables of
`instance()` (`tick`, `executing`, `timer`), the promise `resume` (`gate`), what
`executeTick` waits for (`wait`, `atBarrier`) and the barrier's `received`.
`Receive` is `onmessage` with the listeners of the barrier and the watch, `Start`,
`DoNextTick`, `Pause`, `Resume` the calls of a script, `Timeout` the time between
two ticks. `Reload` is a page that goes, `StartReplay` and `EndReplay` are
`__queue_start__` and `__queue_end__` at its successor; in between `Receive` handles
what was in the log when the replay began, message by message, and what is logged
meanwhile comes after it. (The registration and the count of the log are one moment
here, so nothing comes twice; `Router` has the two apart.) A subject's script either starts the watch or steps it; who reloads starts it
again, as a script does in its on_load. Scripts resume what they have paused
before they pause again, and do neither during a replay.

`BarrierClock` keeps only how many ticks each subject has announced. The mapping
takes that from the log, counting an announcement that was sent twice once.

### AsyncCallManager: state and actions

Calls and executions of f are numbered. `Call` is the wrapper, `Timeout` closes a
batch, `Digest` is the `execute` given to `$evalAsync`, `Finish` the callback of
the promise of f with the next `execute`, `Fail` an f that rejects or throws. One
action serves all four wrappers (`kind`), which differ in what a call does, and in
whom a result answers and in which order: `Answered` is the sequence of the promises
that the callback resolves, `resolved` the sequence of all so far. That is one step,
because nothing else runs between them; the callbacks of the callers run afterwards.

## 3. Runs

| Run | Configuration | Properties | Shows |
|---|---|---|---|
| `sessions` | `MCSessions` | `NoGap`, `PeriodKnown`, `LogIsFresh`, `OneRegistration`, `MemoryIsStored`, `StaysRegistered` | joining, syncing, leaving and returning while periods and the config are set, messages flow and the session is reset or deleted; late messages and late removals |
| `restart` | `MCRestart` | `TypeOK`, `MemoryIsStored`, `IsSessionLog`, `SyncCompletes` | kills and panics anywhere, inside a reset too, and restarts; Redis holds a `SessionLog` all the time; every connection gets through its sync |
| `channels` | `MCChannels` | `TypeOK`, `Contiguous`, `RouteReturns`, `FailedIsRemoved`, `HandlerReturns` | order and completeness of delivery with full channels; unless a live client stops reading for ever, Route comes back to its select and goroutines end |
| `periods` | `MCPeriods` | `TypeOK`, `StartTogether`, `PageFitsPeriod`, `NoPeriodIsSkipped`, `PausedUntilResumed`, `EverybodyCanSend`, `NobodyIsStuck` | a session from Wait to Finish through a paused period, with a reload at any moment at which the period of that subject is not changing and no `__paused__` of it is on its way |
| `watch` | `MCWatch` | `TypeOK`, `TicksTogether`, `IsInPlace`, `IsClock`, `Completes` | a watch with pauses, steps and a reload implements `BarrierClock` and comes to its end |
| `calls` | `MCCalls` | `TypeOK`, `NoOverlap`, `InOrder`, `IsFresh`, `Answers` | the four wrappers: executions, the order in which promises are resolved, and that all are |
| `reset_stale_page` | `MCStalePage` | `CurrentPage` | *violated* |
| `restart_panic` | `MCRestartPanic` | `NoPanic` | *violated* |
| `lost_page` | `MCLostPage` | `PageFitsPeriod` | *violated* |
| `resumed_alone` | `MCResumedAlone` | `ResumedTogether` | *violated* |
| `reset_race` | `MCResetRace` | `OneSubjectObject` | *violated* |
| `self_deadlock` | `MCSelfDeadlock` | `FailedIsQueued` | *violated* |

The violated ones state what a comment of the code says; the counterexamples
are real disagreements:

1. **Stale page.** `DeleteSessionObjects` lists the objects to delete under the
   key of the log, which has just been deleted, so it deletes nothing but the list.
   After a reset the page server still finds the old period and page, and shows a
   subject that registers again a page that only the deleted run has set.
2. **Panic after a restart.** A subject that has registered but has no session
   object is not restored, though the log still announces it; when the admin
   sets its period, `HandleMessage` goes through a nil pointer, and Route dies.
3. **Two Subject objects.** A reset between the answer to `requestSubject` and the
   registration leaves a client with a Subject that the session has dropped; it
   is not told to reload, because it was not registered yet. What it sends then is
   accepted, and if it is a period, Route panics as in 2, without any crash: the session
   has no Subject of that name. (Replace the invariant of `MCResetRace` by `NoPanic`.)
4. **Self-deadlock.** `Route` sends on `removeListeners` and is its only receiver.
5. **Lost page.** Only a subject's own browser sets its page, when it hears of a
   new period. A browser that is refreshed just then (F5, or the button that should
   "recover by refreshing all subject browsers") hears of it in the replay, where
   `__is_queueable__` drops `__set_page__`: the page Wait then plays period 1, and
   as its script asks for the next period at once, period 1 is skipped.
6. **Resumed alone.** The admin's page keeps one flag per subject, set by its `__paused__`
   and cleared by its `__resumed__`, and enables the resume button when all are set. A
   page that is reloaded just after its `__paused__` was sent sends it again; handled after
   the resume, the second copy enables the button once more, and a second click resumes
   the subject who already is in the next paused period, before the other has come to its
   barrier. With three paused periods no such reload is needed: a `__resumed__` that is
   lost with a page, or held back on its successor because the others are a period ahead,
   leaves its flag set for the next pause, with the same end (directed executions of the
   model show that; it is not a run).

`PeriodKnown` does not survive a restart: `last_state_update` is not restored, so
the filter finds every state update in the log irrelevant, and a client that
reconnects is not told its period, though the router has it. `OneRegistration` does
not survive one either: NewRouter restores only the subjects that have a stored
period, group or page, so one that had none yet is forgotten while the log still
has its `__register__`, and it is registered again when it comes back. (Add `"crash"` to `Faults` in
`MCSessions` to see the second, and take `OneRegistration` out to see the first.
They go with finding 2: what NewRouter restores is not all that it should.)

More things the models show and no property forbids. What is handled between
a client's registration and the count of the log comes with the sync and once more
from `recv`, after later messages (the price of `NoGap`: registering later would
lose messages). A sender chooses the group of a message; group 0 reaches all. A subject that
reloads while another is already in the next period is not sent the other's
superseded `__set_period__`, so messaging is not enabled on its page until it
gets there itself (`EverybodyCanSend` is about periods that everybody is in). A
watch that is reloaded while it is paused announces its next tick all the same,
because the replay starts it before it comes to the pause. The argument of
`executeTick` that `doNextTick` gives has no effect on a tick that somebody else's
announcement has begun. After a failure of f a queue of the call manager is busy
for ever.

Read in the code and outside of the models: `__broadcast__` calls the listeners to
`*` for messages that somebody listens to as `__*__` (`redwoodCore.js:314`), and
fails if there are none; the message of `ra.pause` is handled by nobody.

### Bounds, and why they are enough

`Router` runs have two connections (one of them three) and one subject. Two connections
suffice for the pairs that matter: a client and its successor under the same
name, a client and an admin, a joining and a synced one; the properties speak of
one connection or of one name at a time. `BlockSize` is 1, so that a log is fetched in several blocks while it grows or is deleted. `MsgCap` is
1, enough for a late message behind a reset. The clients of `restart` set groups and the
config and reset; that a period comes back after a crash too is what the theorem
`MemoryStaysStored` adds, as `sessions` has periods and no crash. `MaxNonce` bounds uuids, and so
resets and restarts together: 3 allows a deletion (which takes two), two resets,
or a reset and a restart. `MaxTime` bounds ordinary messages only in the guard of
`HandleUpdate`: registrations and resets go on. Violation runs use the smallest
bounds that show the case. `reset_stale_page` has three connections, so that the run that
is deleted can set a page and the subject can come back.

`RouterChannels` has two connections and capacities of 1, so that each channel
(but `removeListeners`) is full after one message; `MaxSent` bounds the messages. In `channels`,
`RemoveCap` is 4, a place for every send that can fail with two listeners and three
messages: a listener only breaks after one message, so at most two messages
fail for each. That is the assumption under which Route is
safe, and `self_deadlock` shows what happens without it (the code's capacity is
100, and a single message to more than 100 broken listeners exceeds it).

`periods` has two subjects, one paused period between Wait and Finish (so two
changes of the period, a barrier in each of three periods, and one pause), and one
reload, by the first subject: the other is its mirror image. With two subjects
there is one who reloads and one whom it may block (6,294,754 states); a barrier with more opens at
the last of several arrivals, which are all alike to it. `AnyTime` FALSE leaves
out reloads during a change of the subject's period, which `lost_page` shows to go
wrong, and those while a `__paused__` of the subject is on its way, which
`resumed_alone` does. `resumed_alone` needs two paused periods, which are
more than a breadth-first search gets through: its specification `EagerSpec` has some of
the behaviours of `Spec` only (every step of `EagerNext` is one of `Next`), so what it
finds is a behaviour of `Spec`. With `Rows = 2` and `Paused = {}` in the configuration, which is an instance of the
theorems of `ProgressProofs`, the properties hold as well (904,588 states).
`watch` has two subjects, one who starts the watch and reloads, one who steps it,
two ticks and the end, one pause by either and one reload: enough for a pause between two announcements of one tick and a reload in that pause. `calls` has
five calls: a batch, its execution, calls during it and a batch after it.

Connections are interchangeable, so safety runs use symmetry. Runs with liveness
properties do not; `restart` has the constraint `FirstIsFirst` instead, which says which
of two connections is the first: of two behaviours in which they change places it keeps
one, whole.

`CHECK_DEADLOCK FALSE` in every configuration: a server whose clients have left,
or whose bounds are used up, waits for ever, which TLC would call a deadlock. The
deadlocks that matter are looked for by the liveness properties.

### Fairness

In `Router`: weak fairness for `Route`'s handling of the message it has, for a
connection's Sync and its SendLoop, because a goroutine that can run does; strong
fairness for the requests that wait for Route's select, which chooses at random
among the channels that are ready. Nothing is assumed of clients, crashes and
restarts. In `RouterChannels` weak fairness is enough within the bounds. Nothing is
assumed of clients: one that has stalled may stay so, since the router sets no write
deadline. Then `Route` may wait for ever in `Listener.Send`, and with it every session.
`RouteReturns`, `FailedIsRemoved` and `HandlerReturns` therefore have the hypothesis
`NobodyStallsForEver`; without it TLC finds each of them violated.

In `StopWatch` the router handles what it has (weak fairness of `Handle`), and each
page is again and again up to date: it has handled the log, started if it starts,
its timeout has fired, and it has resumed what it paused. As the log is finite
this says no more than weak fairness of the page's actions; nobody has to step,
pause or reload. In `AsyncCallManager` timeouts and digests happen and f does
something with its promise; nobody has to call.

`SubjectPeriods` states no fairness. `NobodyIsStuck` is about the states in which
nothing is under way and no button is to be clicked; as every run of the model
without reloads is finite, those are where a session comes to under any fair
scheduling, and they must have everybody on the last page.

## 4. Proofs

For every set of subjects and connections, every capacity and every bound:

| Theorem | Module | Says |
|---|---|---|
| `TypeCorrect` | `RouterProofs` | `Spec => []TypeOK` |
| `LogStaysFresh` | `RouterProofs` | `Spec => []LogIsFresh` |
| `MemoryStaysStored` | `RouterProofs` | `Spec => []MemoryIsStored` |
| `RouterKeepsALog` | `RouterProofs` | `Spec => IsSessionLog`: `Router` implements `SessionLog` |
| `NobodyHasAGap` | `RouterProofs` | `Spec => []NoGap` |
| `RegistrationLasts` | `RouterProofs` | `Spec => StaysRegistered` |
| `SubjectsAreRegisteredOnce` | `RouterProofs` | `Undisturbed => []OneRegistration` |
| `PeriodIsKnown` | `RouterProofs` | `Undisturbed => []PeriodKnown` |
| `ChannelTypes` | `ChannelProofs` | `Spec => []TypeOK` of `RouterChannels` |
| `NothingIsSkipped` | `ChannelProofs` | `Spec => []Contiguous`: what a client is written has no gap |
| `CallTypes` | `CallProofs` | `Spec => []TypeOK` of `AsyncCallManager` |
| `ExecutionsNeverOverlap` | `CallProofs` | `Spec => []NoOverlap` |
| `AnswersInOrder` | `CallProofs` | `Spec => []InOrder`: no later execution for an earlier call; promises are resolved in the order of the calls, a batch in the opposite order |
| `AnswersAreFresh` | `CallProofs` | `Spec => []IsFresh` |
| `ClockKeepsTogether` | `BarrierClockProofs` | `Spec => []NeverApart` of `BarrierClock`: nobody is more than a tick ahead |
| `WatchTypes` | `StopWatchProofs` | `Spec => []TypeOK` of `StopWatch` |
| `TicksAreTogether` | `StopWatchProofs` | `Spec => []TicksTogether` |
| `PagesAreInPlace` | `StopWatchPlaceProofs` | `Spec => []IsInPlace`: a page that has handled the log is at the tick the log says |
| `SubjectTypes` | `SubjectProofs` | `Spec => []TypeOK` of `SubjectPeriods`, if `~AnyTime`, as the four below |
| `PagesFitPeriods` | `SubjectProofs` | `Spec => []PageFitsPeriod`: scripts start on the page of their period |
| `PeriodsAreNotSkipped` | `SubjectProofs` | `Spec => []NoPeriodIsSkipped` |
| `SubjectsStartTogether` | `SubjectProofs` | `Spec => []StartTogether`: a period that is not paused starts behind its barrier |
| `PausesAreKept` | `SubjectProofs` | `Spec => []PausedUntilResumed` |
| `EverybodySends` | `ProgressProofs` | `Spec => []EverybodyCanSend`, if `~AnyTime` and `Paused = {}` |
| `NobodyGetsStuck` | `ProgressProofs` | `Spec => []NobodyIsStuck`, if `~AnyTime` and `Paused = {}` |
| `WatchIsClock` | `StopWatchProofs` | `Spec => IsClock`: `StopWatch` implements `BarrierClock` |
| `WatchesNeverApart` | `StopWatchProofs` | `Spec => []NeverApart`, of the announcements of a watch |

Assumptions: `NamesAssumption` (no subject is called admin or listener; the nil
message is not a message), `RouterAssumption`, `ChannelsAssumption`,
`ManagerAssumption`, `PeriodsAssumption` and `WatchAssumption` (types of the constants, capacities and
targets of at least one).
TLC evaluates them in every run of the module. No theorem assumes fairness.

`Undisturbed` is `Spec` without `Restart` steps. The process may still be killed,
and sessions are reset and deleted; but after a restart neither property holds,
because `NewRouter` restores neither `last_state_update` nor the Subjects that have
no session object (see section 3). Their runs, too, are without restarts.

The argument, `Router`:

* `TypeOK` is not inductive. A reset replays a config that must exist, answers the
  message at the head of the channel and, when it deletes, needs one more nonce;
  a restart reads numbers back from Redis that must have been written. `IInv`
  adds exactly that: `ResetUnderWay`, `ConfigIsConfig`, `ObjectsAreStored`.
* `LogIsFresh` needs that the nonce of the session is never older than the log.
  `LogSteps` shows that every step leaves the log alone, appends a message of the
  present epoch or empties it.
* `RouterKeepsALog` maps every step of `Router` to a `Write`, a `Reset` or a stutter
  of `SessionLog`. `EpochInv` adds to the above that no message in the log is of a
  later epoch than the session, so that what is written is never older than what
  is there, and that a reset has drawn its nonce before it empties the log, so that
  an empty log is a newer one.
* `MemoryIsStored` speaks of the moments between two messages. It survives the
  creation of a Subject because of `NothingForgotten` (a name without a Subject
  has no period or group in Redis either), and a reset because the config is
  in Redis again when Route goes on (`ConfigIsStored`, only then).
* `NoGap` is inductive relative to the types. `GapStep` follows a message from the
  log to the block, to `pending`, to the client, and `GapGrows` shows that what is
  logged later is put into `recv` in the same step because the listener has been
  registered before the log is counted.
* `StaysRegistered` follows from `RemovalInv`: only listeners whose connection is
  broken ever wait to be removed.
* `PeriodInv` has six parts, each of which needs the ones before it. `EpochsInv`: a
  Subject object is of the present epoch or of one that is over, and a connection
  with a present one is served from the present Session. `LinksInv`: nothing comes
  to a connection before it is registered, nor to its client before the replay.
  `SentInv`: what clients have sent is no registration and sets periods for all
  groups. `RegisterInv`: the log registers exactly the Subjects of the session, each
  once; that is `OneRegistration`. `RememberedInv`: `last_state_update` has a period
  of a subject exactly if the log does, and it is the Subject's. `InformedInv` says, for
  each stage of a connection, where the last `__set_period__` of its subject is: in
  the log from the position it has read to on, in the block that has been
  fetched, in what the client has, or behind all that in `recv`. What is in `recv`
  comes last for the client, so if anything there sets the period the last one
  decides; if not, the replay has it, and `match` lets it through because
  `last_state_update` still has it.

`RouterChannels`: `TypeOK` needs `Counted` (a message is with a `ReceiveLoop`, in the
channel or has been handled, so `handled` never exceeds `sent`). `RouteInv`: Route
keeps a list of listeners only between two visits to its select, and panics only
on a closed `recv`. `ConnInv`: a connection with an open `recv` is a listener.
`RunInv`: what was written, is in hand and is in `recv`, in this order, are all
the messages since the registration, one more once Route has got to that listener.

`AsyncCallManager`: `BusyGuards` says that `busy` is set whenever an execution is
scheduled or under way, and that it is never both; then only one of `Digest`
and `Finish` can begin an execution. For the other properties all four wrappers
are seen as one line of places (elements of the queue, or batches), through which the
calls go in their order (`LineInOrder`) into an execution and to their answer. Those
for whom an execution is under way called before it began and before all who
are still in the line (`RunInOrder`), and until f fails nobody is forgotten
(`NobodyForgotten`). `OrderInv` adds that batches and executions have their calls in
ascending order (`BatchesAscend`, `RunsAscend`), so that a result resolves a batch in
descending order and everything else in ascending order (`AnsweredInTurn`), behind all
that has been resolved before (`FinishOrder`).

`StopWatch`: in `WatchInv`, `Backed` says that whoever announces a tick, in the log, on
the way or in the queue of a replay, has seen everybody arrive at the one before;
`Sound` that what a watch counts has been logged, that it has been told of
everybody's arrival at all ticks before its own, and that it is at the
barrier only for the tick that it executes. From this `TicksTogether` is
immediate. As the log is backed by itself, the arrivals of a subject in it are those at
the ticks below their number (`ArrivalsAreCounted`), and a message that is logged either
repeats an arrival, a stutter of the clock, or adds the first that is missing, to
which everybody else has come near (`AnnouncementCounts`). What is proved of
`BarrierClock` alone then holds of watches.

`IsInPlace` needs more than `WatchInv`, because nothing in that says that a page gets
as far as it should. `PlaceInv` compares each page with the part of the log it has
handled (`InStep`): it has been told of every arrival there (`Follows`), is at a tick at
which somebody has not arrived (`Unmet`), and waits for a resume exactly if a pause of
its own is open there. The difficult page is one that is replayed the log, since it
must come to each tick it announced in its earlier lives and be at the barrier there
if it was, or it would announce the tick again or miss it. `Had` says when a
subject could have announced a tick: everybody had passed the one before and no pause
of its own was open. `LogOk` says that this was so, for every announcement in the log, in
the part of the log before it. So a replay passes through a state in which the page
announces again what it announced before, and the queue drops what has been
logged (`Replays`, `SentOk`). That the pauses and resumes of a subject take turns, in
the log and on their way to it (`InTurn`), makes one open pause the same as a closed
gate.

`SubjectPeriods`: the theorems have the hypothesis `~AnyTime`, that users do not
reload a page while its subject is changing periods or a `__paused__` of it is on its
way; without it the run `lost_page` refutes `PageFitsPeriod`, and the subject who lost a
page skips a period. They
hold for any subjects, rows and pauses and any number of reloads.

The inductive invariant `IInv` says of every subject at which of six stages
between two periods it is (`Stage`), from what is on its way from it, to it
and in the replay to it, its page, its period and page at the router, and the log.
`Told`: Route has not set its first period, and nothing but the announcement of its page
is known of it. `Greeted`: its first period is on its way to the page. `Settled`:
nothing is on its way that turns it, and the page is that of its period, or is being
loaded as such; if it is in a replay that has not told it its period, the rest of
the replay will. `Leaving`: its scripts are through with the period, and exactly one
message is on its way that takes it on, its `_next_period` to Route or back, or
its `__set_period__` to Route or back. `Turned`: the page knows the new period and
has asked for its page; exactly one `__set_page__` is on its way. `Reloading`: the
page is about to be reloaded, and Django has the page of the period. That the one
message is the only one is what keeps a period from being skipped, and it needs to
know what the log may have of a subject (`LogOf`): no period but its own, and no
end of the period that it is in, since both would be replayed and sent on. `Linked`
says how a page goes with its connection and its replay. For each handler there is a
lemma that says what it can do to a page, for each stage one that says to which stages a
message of it leads, and one per action that puts them together. A page that is
being reloaded at the wrong moment would leave the stages: here `~AnyTime` is needed
(`LeaveStays`).

`RInv` adds what a page knows of the others (`Seen`): whoever it has counted at a
barrier, or will count when it has received what is on its way or in the replay, has
arrived, the same for resumes, and its scripts have only started behind a complete
barrier or after a resume. What has arrived stays so when Route handles more,
because no state update replaces an arrival, and it leaves the log only when
everybody is past its period (`HappenedStays`).

`EverybodySends` and `NobodyGetsStuck` are about sessions without paused periods
(`Paused = {}`, a config without "pause"). With pauses the
arguments below break where the code does: a subject may be resumed by a flag that an
earlier pause has left (section 3), and then nobody knows that the others have been at
the barrier it leaves. `RInv` does not suffice for them, because it says only that what a
page has seen has happened, and not that it will see what has happened. `NInv` adds for
every subject (`Sure`):

* `Says`: what the subject has sent, queued, held back and got into the log is of
  no later period than its own and comes in the order in which a page counts it: who is
  in the log as being at a barrier is there as being counted.
* `HasAnnounced`: when its page has come out of the replay, its `__page_loaded__` is in
  the log after its period, or on its way. This must survive reloads: what the page
  had sent is either in the log, so that the queue of the reloaded page drops it, or
  was lost, so that it is sent again.
* `Scripts`: a page that can send holds nothing back, and one that plays its period can
  send unless somebody is ahead. `EverybodyCanSend` follows.
* `Waits`, while the scripts have not started: with all that is in the replay and behind
  it the page comes to know of every subject what the log says (`Follows`): that it is
  in the period, that its page is loaded, that it is at the barrier, each counted only
  after the one before. And it can still be let go (`Ready`): its messaging will be
  enabled by the last page that loads, its arrival is on its way as soon as its own page
  is counted, and somebody is missing at the barrier.
* `Passed`: everybody was at every barrier before the period of any subject, so the
  arrivals are in the log or everybody has left that period.

The lemmas about `Follows` (`FollowsNext`, `FollowsAdding`, `FollowsReplay`) are about
sequences only: what a page will know does not change when it handles the next message,
when Route logs one and sends it to the page, and when the page is loaded again and the
log is replayed. `match` is what makes the last two true (`FreshHas`, `LogGets`): all that
counts somebody in the subject's period passes it, and no other period of anybody does.

When all is quiet (`Quiet`), a subject has started the last page or is `AtRest`: it
waits, it is counted, it knows what the log says. Take the least period k in which
somebody is at rest. Then everybody has been at the barrier of k: by `Passed` if
somebody is further; by `RInv` if somebody in k has started the last page; and
otherwise all are at rest in k, each has counted all others, and so each has arrived. Who
is at rest in k knows this and cannot be missing somebody (`NobodyRests`).

Only model-checked: `EverybodyCanSend` and `NobodyIsStuck` with paused periods (run
`periods`); and all
liveness (`SyncCompletes`, `RouteReturns`, `FailedIsRemoved`, `HandlerReturns`,
`Completes`, `Answers`), which the prover does not reach. That a quiet state is reached
is not proved either: `NobodyIsStuck` says what such a state is like.

## 5. Plan

Done: the router and its channels, the log as an abstract specification, the core
of the client, periods and pauses, the stop watch, the call manager, and the proofs
about them, of progress without pauses too. In this order follow:

1. Paused periods in `EverybodySends` and `NobodyGetsStuck`, first with one of them, for
   which `ResumedTogether` holds in the bounds of `periods`.
2. `RouterRecovery`: Redis commands one by one, with a crash between any two and
   with failing commands (`database.go`, `router.go:182-221`).
3. `AdminReplay`: reloads and reconnections of the admin's page, several paused
   periods, and the groups it assigns.
4. Connections that are lost and retried without a reload; points, data and
   `retrieve`; `exclude` and `finish`.
5. `ExperimentStore` (models, clone, upload), `CsvExport`: pure operators against
   reference definitions.

## 6. How to run

    tlc -config MCSessions.cfg MCRouter
    tlc -config MCRestart.cfg MCRouter
    tlc -config MCChannels.cfg MCRouterChannels
    tlc -config MCPeriods.cfg MCSubjectPeriods
    tlc -config MCWatch.cfg MCStopWatch
    tlc -config MCCalls.cfg MCAsyncCallManager
    tlapm RouterProofs.tla
    tlapm ChannelProofs.tla
    tlapm CallProofs.tla
    tlapm StopWatchProofs.tla
    tlapm StopWatchPlaceProofs.tla
    tlapm SubjectProofs.tla
    tlapm ProgressProofs.tla
    tlapm BarrierClockProofs.tla

## 7. Mutants

A definition whose comment begins with "Mutant:" is not part of a specification.
It is the form that a plausible mistake in the code would give the definition that
follows it (`PROJECT.json`, `mutants`); with it in place the property named there
is violated under the run's own configuration.

## 8. Not modelled

Failing Redis commands and crashes inside one handler (planned); the content of the
answer to `__get_period__`; data races on Go maps (a Sync reads maps that Route
writes; the specification reads consistent values); several sessions at once. Of
the browsers: connections that are retried without a reload, the admin's page
after a reload, groups other than one, points, saved data and `retrieve`, `exclude`
and `finish` (planned); several stop watches, and watches and barriers for a part of
the subjects. The legacy client `redwood.js`, kept for old experiments; models and
views of the Django application other than `session_experiment`, and the CSV export
(planned last); matrix helpers, drawing, form widgets, settings and URL tables,
which have no state of the experiments.
