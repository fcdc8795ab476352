-------------------------- MODULE AsyncCallManager --------------------------
(***************************************************************************)
(* The call manager (asyncCallManagerService.js): one function f, which    *)
(* returns a promise, behind one of the four wrappers that keep its        *)
(* executions from overlapping.  "queue" is queueOverlappingCallsTo,       *)
(* "merge" mergeOverlappingCallsTo, "last" waitAndOnlyExecuteLastCallTo,   *)
(* "rate" limitCallRateTo; the last two collect calls in batches and queue *)
(* the batches.  Calls and executions of f are numbered as they come.      *)
(***************************************************************************)
EXTENDS Naturals, Sequences, SequencesExt

CONSTANTS
    Kinds,          \* the wrappers to look at
    MaxCalls,       \* bound on the calls of the wrapper
    MayFail         \* may f reject, or throw?

ASSUME ManagerAssumption ==
    /\ Kinds \subseteq {"queue", "merge", "last", "rate"}
    /\ MaxCalls \in Nat
    /\ MayFail \in BOOLEAN

VARIABLES
    kind,           \* the wrapper
    calls,          \* how often it has been called
    batches,        \* for "last" and "rate": the calls by batch; the last batch is open
    timer,          \* timeout is set
    queue,          \* what waits for an execution: calls, or batches as empty requests
    busy,           \* the variable of that name
    scheduled,      \* $evalAsync has been given execute
    running,        \* the executions of f under way, with the call or batch they are for
    runs,           \* how often f has been called
    failed,         \* f has failed
    answer,         \* by call: the execution whose result has resolved its promise, or 0
    resolved,       \* history: the calls whose promises have been resolved, in that order
    calledAt        \* history: by execution, how many calls there were when it began

vars == <<kind, calls, batches, timer, queue, busy, scheduled, running, runs,
          failed, answer, resolved, calledAt>>

Calls == 1 .. MaxCalls
Batching == kind \in {"last", "rate"}

\* What is queued for a batch: its calls are looked up when it is executed.
Batch == 0

Init ==
    /\ kind \in Kinds
    /\ calls = 0
    /\ batches = <<<<>>>>
    /\ timer = FALSE
    /\ queue = <<>>
    /\ busy = FALSE
    /\ scheduled = FALSE
    /\ running = {}
    /\ runs = 0
    /\ failed = FALSE
    /\ answer = [c \in Calls |-> 0]
    /\ resolved = <<>>
    /\ calledAt = [e \in Calls |-> 0]

\* Mutant: busy is left for execute to set.
EnqueueIdle(x) ==
    /\ queue' = Append(queue, x)
    /\ busy' = busy
    /\ scheduled' = (scheduled \/ ~busy)

\* Mutant: execute is scheduled for every call.
EnqueueAlways(x) ==
    /\ queue' = Append(queue, x)
    /\ busy' = TRUE
    /\ scheduled' = TRUE

\* Mutant: what comes last is first in the queue.
EnqueueInFront(x) ==
    /\ queue' = <<x>> \o queue
    /\ busy' = TRUE
    /\ scheduled' = (scheduled \/ ~busy)

(***************************************************************************)
(* The inner wrapper: a deferred for x waits, and execute is scheduled for *)
(* the present digest if nothing is going on.                              *)
(***************************************************************************)
Enqueue(x) ==
    /\ queue' = Append(queue, x)
    /\ busy' = TRUE
    /\ scheduled' = (scheduled \/ ~busy)

(***************************************************************************)
(* The script calls the wrapper.  With "last" the timeout begins anew, with*)
(* "rate" the one that runs goes on.                                       *)
(***************************************************************************)
Call ==
    /\ calls < MaxCalls
    /\ calls' = calls + 1
    /\ IF Batching
       THEN /\ batches' = [batches EXCEPT ![Len(batches)] = Append(@, calls + 1)]
            /\ timer' = TRUE
            /\ UNCHANGED <<queue, busy, scheduled>>
       ELSE /\ Enqueue(calls + 1)
            /\ UNCHANGED <<batches, timer>>
    /\ UNCHANGED <<kind, running, runs, failed, answer, resolved, calledAt>>

(***************************************************************************)
(* The timeout: the batch is closed and waits for its execution.           *)
(***************************************************************************)
Timeout ==
    /\ timer
    /\ timer' = FALSE
    /\ batches' = Append(batches, <<>>)
    /\ Enqueue(Batch)
    /\ UNCHANGED <<kind, calls, running, runs, failed, answer, resolved, calledAt>>

(***************************************************************************)
(* execute: f is called for the head of the queue.                         *)
(***************************************************************************)
Execute(waiting) ==
    /\ queue' = Tail(waiting)
    /\ runs' = runs + 1
    /\ calledAt' = [calledAt EXCEPT ![runs + 1] = calls]
    /\ batches' = IF Batching THEN Tail(batches) ELSE batches

For(waiting) == IF Batching THEN Head(batches) ELSE <<Head(waiting)>>

Digest ==
    /\ scheduled
    /\ scheduled' = FALSE
    /\ Execute(queue)
    /\ running' = running \cup {[run |-> runs + 1, for |-> For(queue)]}
    /\ busy' = TRUE
    /\ UNCHANGED <<kind, calls, timer, failed, answer, resolved>>

\* Mutant: every result is for those who wait as well.
AnsweredMerging(r) == IF Batching THEN Reverse(r.for) ELSE r.for \o queue

(***************************************************************************)
(* The calls that the result of r resolves, in the order in which it does: *)
(* a batch from its end (batch.pop), merged calls from the front of the    *)
(* queue.  Waiting is what the queue is then.                              *)
(***************************************************************************)
Answered(r) ==
    IF Batching THEN Reverse(r.for)
    ELSE r.for \o (IF kind = "merge" THEN queue ELSE <<>>)

Waiting == IF kind = "merge" THEN <<>> ELSE queue

Resolve(r) ==
    /\ answer' = [c \in Calls |-> IF c \in ToSet(Answered(r)) THEN r.run ELSE answer[c]]
    /\ resolved' = resolved \o Answered(r)

\* Mutant: the queue is looked at once, when f is called for the first time.
FinishAndStop(r) ==
    /\ r \in running
    /\ Resolve(r)
    /\ queue' = Waiting
    /\ running' = running \ {r}
    /\ busy' = FALSE
    /\ UNCHANGED <<kind, calls, batches, timer, scheduled, runs, failed, calledAt>>

(***************************************************************************)
(* The promise that f returned is resolved: so are the promises of the     *)
(* callers, one after the other in the same turn of the script, and f is   *)
(* called for the next in the queue.                                       *)
(***************************************************************************)
Finish(r) ==
    /\ r \in running
    /\ Resolve(r)
    /\ IF Waiting # <<>>
       THEN /\ Execute(Waiting)
            /\ running' = (running \ {r}) \cup {[run |-> runs + 1, for |-> For(Waiting)]}
            /\ busy' = TRUE
       ELSE /\ running' = running \ {r}
            /\ queue' = Waiting
            /\ busy' = FALSE
            /\ UNCHANGED <<batches, runs, calledAt>>
    /\ UNCHANGED <<kind, calls, timer, scheduled, failed>>

(***************************************************************************)
(* f rejects its promise or throws: nobody looks.                          *)
(***************************************************************************)
Fail(r) ==
    /\ MayFail
    /\ r \in running
    /\ running' = running \ {r}
    /\ failed' = TRUE
    /\ UNCHANGED <<kind, calls, batches, timer, queue, busy, scheduled, runs, answer,
                   resolved, calledAt>>

Running(r) == Finish(r) \/ Fail(r)

Next == Call \/ Timeout \/ Digest \/ \E r \in running : Running(r)

Spec == Init /\ [][Next]_vars

(***************************************************************************)
(* Timeouts and digests happen, and f does one or the other with its       *)
(* promise.  Nobody has to call.                                           *)
(***************************************************************************)
Fairness ==
    /\ WF_vars(Timeout)
    /\ WF_vars(Digest)
    /\ WF_vars(\E r \in running : Running(r))

FairSpec == Spec /\ Fairness

-----------------------------------------------------------------------------
(* Properties                                                              *)

TypeOK ==
    /\ calls \in 0 .. MaxCalls
    /\ runs \in 0 .. calls
    /\ answer \in [Calls -> 0 .. runs]
    /\ resolved \in Seq(Calls)
    /\ calledAt \in [Calls -> 0 .. calls]
    /\ Batching => batches # <<>>
    /\ ~Batching => batches = <<<<>>>> /\ ~timer
    /\ scheduled => busy /\ queue # <<>>

(***************************************************************************)
(* Executions of f never overlap, whatever the wrapper: that is what the   *)
(* service is for.                                                         *)
(***************************************************************************)
NoOverlap == \A r, q \in running : r = q

(***************************************************************************)
(* A call is answered by no later execution than one that was made after   *)
(* it.  And promises are resolved in the order of the calls, each at most  *)
(* once, but those of one batch in the opposite order: the last caller of  *)
(* waitAndOnlyExecuteLastCallTo or limitCallRateTo hears first.            *)
(***************************************************************************)
NoLaterRun ==
    \A c, d \in Calls : (c < d /\ answer[d] # 0) => answer[c] \in 1 .. answer[d]

OneBatch(c, d) == Batching /\ answer[c] = answer[d]

InTurn ==
    \A i, j \in DOMAIN resolved :
        i < j => IF OneBatch(resolved[i], resolved[j]) THEN resolved[j] < resolved[i]
                                                       ELSE resolved[i] < resolved[j]

InOrder == NoLaterRun /\ InTurn

(***************************************************************************)
(* Nobody gets a result that is older than his call: the execution that    *)
(* answers it had not begun yet.  A merged call may get the result of an   *)
(* execution that was under way.                                           *)
(***************************************************************************)
IsFresh ==
    kind # "merge" => \A c \in Calls : answer[c] # 0 => calledAt[answer[c]] >= c

(***************************************************************************)
(* Whoever calls is answered, unless f fails.  After a failure busy stays  *)
(* set and nobody is answered any more.                                    *)
(***************************************************************************)
Answers == \A c \in Calls : calls >= c ~> (answer[c] # 0 \/ failed)
=============================================================================
