----------------------------- MODULE CallProofs -----------------------------
(***************************************************************************)
(* Theorems about AsyncCallManager, for every wrapper, every number of     *)
(* calls and every way in which f may fail: executions of f never overlap, *)
(* promises are resolved in the order of the calls, those of a batch in    *)
(* the opposite order, and, unless calls are merged, with results that are *)
(* not older than the call.                                                *)
(*                                                                         *)
(* All wrappers are one line of places.  With "queue" and "merge" a place  *)
(* is an element of the queue and holds one call; with "last" and "rate"   *)
(* it is a batch, the last of which is still open.  A call is in the line, *)
(* then in an execution, and then answered, in the order of the calls.     *)
(***************************************************************************)
EXTENDS AsyncCallManager, SequenceTheorems, TLAPS

(***************************************************************************)
(* busy is set from the moment that execute is scheduled to the moment     *)
(* that the queue is empty, and between the two there is either a digest   *)
(* to come or one execution, never both.                                   *)
(***************************************************************************)
BusyGuards ==
    /\ busy \in BOOLEAN
    /\ scheduled \in BOOLEAN
    /\ scheduled => busy /\ running = {}
    /\ running # {} => busy

GuardInv == BusyGuards /\ NoOverlap

LEMMA EnqueueGuards ==
    ASSUME GuardInv, NEW x, Enqueue(x), UNCHANGED running
    PROVE  GuardInv'
BY DEF GuardInv, BusyGuards, NoOverlap, Enqueue

LEMMA StepGuards == GuardInv /\ [Next]_vars => GuardInv'
<1> SUFFICES ASSUME GuardInv, [Next]_vars PROVE GuardInv'
  OBVIOUS
<1>1. CASE Call
  <2>1. CASE Batching
    BY <1>1, <2>1 DEF Call, GuardInv, BusyGuards, NoOverlap
  <2>2. CASE ~Batching
    BY <1>1, <2>2, EnqueueGuards DEF Call
  <2> QED
    BY <2>1, <2>2
<1>2. CASE Timeout
  BY <1>2, EnqueueGuards DEF Timeout
<1>3. CASE Digest
  <2>1. running' = {[run |-> runs + 1, for |-> For(queue)]}
    BY <1>3 DEF Digest, GuardInv, BusyGuards
  <2> QED
    BY <1>3, <2>1 DEF Digest, GuardInv, BusyGuards, NoOverlap
<1>4. ASSUME NEW r \in running, Finish(r) PROVE GuardInv'
  <2>1. running \ {r} = {}
    BY <1>4 DEF GuardInv, NoOverlap
  <2>2. busy /\ ~scheduled
    BY <1>4 DEF GuardInv, BusyGuards
  <2>3. ~scheduled' /\ scheduled' \in BOOLEAN
    BY <1>4, <2>2 DEF Finish, GuardInv, BusyGuards
  <2>4. CASE Waiting # <<>>
    <3>1. running' = {[run |-> runs + 1, for |-> For(Waiting)]} /\ busy' = TRUE
      BY <1>4, <2>1, <2>4 DEF Finish
    <3> QED
      BY <2>3, <3>1 DEF GuardInv, BusyGuards, NoOverlap
  <2>5. CASE Waiting = <<>>
    <3>1. running' = {} /\ busy' = FALSE
      BY <1>4, <2>1, <2>5 DEF Finish
    <3> QED
      BY <2>3, <3>1 DEF GuardInv, BusyGuards, NoOverlap
  <2> QED
    BY <2>4, <2>5
<1>5. ASSUME NEW r \in running, Fail(r) PROVE GuardInv'
  <2>1. running' = {}
    BY <1>5 DEF Fail, GuardInv, NoOverlap
  <2> QED
    BY <1>5, <2>1 DEF Fail, GuardInv, BusyGuards, NoOverlap
<1>6. CASE UNCHANGED vars
  BY <1>6 DEF vars, GuardInv, BusyGuards, NoOverlap
<1> QED
  BY <1>1, <1>2, <1>3, <1>4, <1>5, <1>6 DEF Next, Running

-----------------------------------------------------------------------------
(* The line                                                                *)

Line == IF Batching THEN [i \in 1 .. Len(batches) |-> ToSet(batches[i])]
        ELSE [i \in 1 .. Len(queue) |-> {queue[i]}]

Has(line, i, c) == i \in DOMAIN line /\ c \in line[i]

\* The calls that the execution under way is for.
Served == UNION {ToSet(r.for) : r \in running}

(***************************************************************************)
(* Every execution has a place of the line, and every place a call of its  *)
(* own, so there are not more executions than calls.                       *)
(***************************************************************************)
TypeInv ==
    /\ kind \in Kinds
    /\ calls \in 0 .. MaxCalls
    /\ runs \in Nat
    /\ answer \in [Calls -> 0 .. runs]
    /\ calledAt \in [Calls -> 0 .. calls]
    /\ timer \in BOOLEAN
    /\ queue \in Seq(Nat)
    /\ batches \in Seq(Seq(Nat))
    /\ Batching => Len(batches) = Len(queue) + 1
    /\ ~Batching => batches = <<<<>>>> /\ ~timer
    /\ scheduled => queue # <<>>
    /\ runs + Len(queue) + (IF timer THEN 1 ELSE 0) <= calls
    /\ \A r \in running : r.run = runs /\ runs \in Calls /\ r.for \in Seq(Nat)

\* Who is before in the line has called before, and has not been answered.
LineInOrder ==
    /\ \A i, j, c, d \in Nat : Has(Line, i, c) /\ Has(Line, j, d) /\ i < j => c < d
    /\ \A i, c \in Nat : Has(Line, i, c) => c \in 1 .. calls /\ answer[c] = 0

\* An execution is for calls that have come before it and before those in the line.
RunInOrder ==
    \A c \in Nat :
        c \in Served => /\ c \in 1 .. calls
                    /\ answer[c] = 0
                    /\ calledAt[runs] >= c
                    /\ \A i, d \in Nat : Has(Line, i, d) => c < d

\* Until f fails nobody is forgotten; after that nothing happens to anybody.
NobodyForgotten ==
    /\ ~failed => \A c \in 1 .. calls :
                      answer[c] # 0 \/ c \in Served \/ \E i \in Nat : Has(Line, i, c)
    /\ failed => running = {} /\ ~scheduled /\ busy

AnswersAreOld == \A c \in Calls : answer[c] # 0 => c <= calls

LineInv ==
    /\ LineInOrder
    /\ RunInOrder
    /\ NobodyForgotten
    /\ AnswersAreOld

IInv == GuardInv /\ TypeInv /\ LineInv /\ NoLaterRun /\ IsFresh

-----------------------------------------------------------------------------
(* What the actions do to the line                                         *)

LEMMA SetOfSeq ==
    ASSUME NEW S, NEW s \in Seq(S)
    PROVE  /\ ToSet(s) = {s[i] : i \in 1 .. Len(s)}
           /\ ToSet(s) \subseteq S
           /\ \A e \in S : ToSet(Append(s, e)) = ToSet(s) \cup {e}
<1>1. ToSet(s) = {s[i] : i \in 1 .. Len(s)} /\ ToSet(s) \subseteq S
  BY DEF ToSet
<1>2. ASSUME NEW e \in S PROVE ToSet(Append(s, e)) = ToSet(s) \cup {e}
  <2>1. ToSet(Append(s, e)) = {Append(s, e)[i] : i \in 1 .. Len(s) + 1}
    BY AppendProperties DEF ToSet
  <2>2. /\ \A i \in 1 .. Len(s) : Append(s, e)[i] = s[i] /\ i \in 1 .. Len(s) + 1
        /\ Append(s, e)[Len(s) + 1] = e /\ Len(s) \in Nat /\ Len(s) + 1 \in 1 .. Len(s) + 1
    BY AppendProperties, LenProperties
  <2>3. \A i \in 1 .. Len(s) + 1 : i \in 1 .. Len(s) \/ i = Len(s) + 1
    BY <2>2
  <2> QED
    BY <1>1, <2>1, <2>2, <2>3
<1> QED
  BY <1>1, <1>2

LineGrows(c) ==
    \E k \in Nat :
        /\ \A i, d \in Nat : Has(Line', i, d) <=> Has(Line, i, d) \/ (i = k /\ d = c)
        /\ \A i, d \in Nat : Has(Line, i, d) => i <= k

LEMMA CallLine ==
    ASSUME TypeInv, Call
    PROVE  LineGrows(calls + 1)
<1>0. /\ queue \in Seq(Nat) /\ batches \in Seq(Seq(Nat)) /\ calls + 1 \in Nat /\ kind' = kind
      /\ Len(queue) \in Nat /\ Len(batches) \in Nat
  BY DEF TypeInv, Call
<1>1. CASE Batching
  <2> DEFINE k == Len(batches)
             last == Append(batches[k], calls + 1)
  <2>1. k \in 1 .. Len(batches) /\ batches' = [batches EXCEPT ![k] = last]
    BY <1>0, <1>1 DEF TypeInv, Call
  <2>2. batches[k] \in Seq(Nat) /\ last \in Seq(Nat)
    BY <1>0, <2>1
  <2>3. ToSet(last) = ToSet(batches[k]) \cup {calls + 1}
    <3>1. \A s \in Seq(Nat) : \A e \in Nat : ToSet(Append(s, e)) = ToSet(s) \cup {e}
      BY SetOfSeq
    <3> QED
      BY <1>0, <2>2, <3>1
  <2>4. /\ Len(batches') = Len(batches) /\ batches'[k] = last
        /\ \A i \in 1 .. Len(batches) : i # k => batches'[i] = batches[i]
    BY <1>0, <2>1, <2>2, ExceptSeq
  <2>5. Batching'
    BY <1>0, <1>1 DEF Batching
  <2> HIDE DEF last
  <2>6. \A i, d \in Nat : Has(Line', i, d) <=> Has(Line, i, d) \/ (i = k /\ d = calls + 1)
    BY <1>0, <1>1, <2>1, <2>3, <2>4, <2>5 DEF Has, Line
  <2>7. \A i, d \in Nat : Has(Line, i, d) => i <= k
    BY <1>1 DEF Has, Line
  <2> QED
    BY <1>0, <2>6, <2>7 DEF LineGrows
<1>2. CASE ~Batching
  <2> DEFINE k == Len(queue) + 1
  <2>1. queue' = Append(queue, calls + 1)
    BY <1>2 DEF Call, Enqueue
  <2>2. ~Batching'
    BY <1>0, <1>2 DEF Batching
  <2>3. /\ Len(queue') = k /\ queue'[k] = calls + 1
        /\ \A i \in 1 .. Len(queue) : queue'[i] = queue[i]
    BY <1>0, <2>1
  <2>4. \A i, d \in Nat : Has(Line', i, d) <=> Has(Line, i, d) \/ (i = k /\ d = calls + 1)
    BY <1>0, <1>2, <2>2, <2>3 DEF Has, Line
  <2>5. \A i, d \in Nat : Has(Line, i, d) => i <= k
    BY <1>0, <1>2 DEF Has, Line
  <2>6. k \in Nat
    BY <1>0
  <2> HIDE DEF k
  <2> QED
    BY <2>4, <2>5, <2>6 DEF LineGrows
<1> QED
  BY <1>1, <1>2

LEMMA TimeoutLine ==
    ASSUME TypeInv, Timeout
    PROVE  \A i, d \in Nat : Has(Line', i, d) <=> Has(Line, i, d)
<1>0. /\ batches \in Seq(Seq(Nat)) /\ kind' = kind /\ Batching /\ Len(batches) \in Nat
      /\ batches' = Append(batches, <<>>) /\ <<>> \in Seq(Nat)
  BY DEF TypeInv, Timeout
<1>1. /\ Len(batches') = Len(batches) + 1 /\ batches'[Len(batches) + 1] = <<>>
      /\ \A i \in 1 .. Len(batches) : batches'[i] = batches[i]
  BY <1>0
<1>2. ToSet(<<>>) = {}
  BY DEF ToSet
<1>3. Batching'
  BY <1>0 DEF Batching
<1> QED
  BY <1>0, <1>1, <1>2, <1>3 DEF Has, Line

LEMMA ExecuteLine ==
    ASSUME TypeInv, queue # <<>>, Execute(queue), kind' = kind
    PROVE  /\ \A i, d \in Nat : Has(Line', i, d) <=> i >= 1 /\ Has(Line, i + 1, d)
           /\ \A d \in Nat : d \in ToSet(For(queue)) <=> Has(Line, 1, d)
           /\ For(queue) \in Seq(Nat)
<1>0. /\ queue \in Seq(Nat) /\ batches \in Seq(Seq(Nat))
      /\ Len(queue) \in Nat \ {0} /\ Len(batches) \in Nat
      /\ queue' = Tail(queue)
  BY DEF TypeInv, Execute
<1>1. CASE Batching
  <2>1. Len(batches) > 1 /\ batches # <<>> /\ batches' = Tail(batches) /\ Batching'
    BY <1>0, <1>1 DEF TypeInv, Execute, Batching
  <2>2. /\ Len(batches') = Len(batches) - 1
        /\ \A i \in 1 .. Len(batches) - 1 : batches'[i] = batches[i + 1]
        /\ Head(batches) = batches[1] /\ Head(batches) \in Seq(Nat)
    BY <1>0, <2>1
  <2>3. For(queue) = batches[1]
    BY <1>1, <2>2 DEF For
  <2>4. \A i, d \in Nat : Has(Line', i, d) <=> i >= 1 /\ Has(Line, i + 1, d)
    BY <1>0, <1>1, <2>1, <2>2 DEF Has, Line
  <2>5. \A d \in Nat : d \in ToSet(For(queue)) <=> Has(Line, 1, d)
    BY <1>0, <1>1, <2>1, <2>3 DEF Has, Line
  <2> QED
    BY <2>2, <2>3, <2>4, <2>5
<1>2. CASE ~Batching
  <2>1. ~Batching'
    BY <1>2 DEF Batching
  <2>2. /\ Len(queue') = Len(queue) - 1
        /\ \A i \in 1 .. Len(queue) - 1 : queue'[i] = queue[i + 1]
        /\ Head(queue) = queue[1] /\ Head(queue) \in Nat
    BY <1>0
  <2>3. For(queue) = <<queue[1]>> /\ ToSet(<<queue[1]>>) = {queue[1]}
    BY <1>2, <2>2 DEF For, ToSet
  <2>4. \A i, d \in Nat : Has(Line', i, d) <=> i >= 1 /\ Has(Line, i + 1, d)
    BY <1>0, <1>2, <2>1, <2>2 DEF Has, Line
  <2>5. \A d \in Nat : d \in ToSet(For(queue)) <=> Has(Line, 1, d)
    <3>1. Line = [i \in 1 .. Len(queue) |-> {queue[i]}] /\ 1 \in 1 .. Len(queue)
      BY <1>0, <1>2 DEF Line
    <3>2. \A d \in Nat : Has(Line, 1, d) <=> d = queue[1]
      BY <3>1 DEF Has
    <3> QED
      BY <2>3, <3>2
  <2> QED
    BY <2>2, <2>3, <2>4, <2>5
<1> QED
  BY <1>1, <1>2

-----------------------------------------------------------------------------
(* Types                                                                   *)

LEMMA WaitingIsQueue ==
    /\ Waiting # <<>> => Waiting = queue /\ kind # "merge"
    /\ Waiting = <<>> => queue = <<>> \/ kind = "merge"
BY DEF Waiting

LEMMA EnqueueTypes ==
    ASSUME TypeInv, NEW x \in Nat, Enqueue(x)
    PROVE  /\ queue' \in Seq(Nat) /\ Len(queue') = Len(queue) + 1
           /\ scheduled' => queue' # <<>>
<1>1. queue \in Seq(Nat) /\ queue' = Append(queue, x)
  BY DEF TypeInv, Enqueue
<1>2. queue' \in Seq(Nat) /\ Len(queue') = Len(queue) + 1 /\ Len(queue) \in Nat
  BY <1>1, AppendProperties
<1> QED
  BY <1>2

LEMMA ExecuteTypes ==
    ASSUME TypeInv, queue # <<>>, Execute(queue), UNCHANGED <<kind, calls, timer>>
    PROVE  /\ queue' \in Seq(Nat) /\ batches' \in Seq(Seq(Nat))
           /\ runs' = runs + 1 /\ runs' \in Calls
           /\ runs' + Len(queue') + (IF timer' THEN 1 ELSE 0) <= calls'
           /\ Batching => Len(batches') = Len(queue') + 1
           /\ ~Batching => batches' = <<<<>>>>
           /\ calledAt' \in [Calls -> 0 .. calls]
           /\ calledAt'[runs'] = calls
           /\ \A e \in 0 .. runs : calledAt'[e] = calledAt[e]
<1>0. /\ queue \in Seq(Nat) /\ Len(queue) \in Nat \ {0} /\ queue' = Tail(queue)
      /\ runs \in Nat /\ calls \in 0 .. MaxCalls /\ MaxCalls \in Nat
      /\ runs + Len(queue) + (IF timer THEN 1 ELSE 0) <= calls
  BY ManagerAssumption DEF TypeInv, Execute
<1>1. runs + 1 \in Calls /\ runs' = runs + 1
  BY <1>0 DEF Calls, Execute
<1>2. queue' \in Seq(Nat) /\ Len(queue') = Len(queue) - 1
  BY <1>0
<1>3. runs' + Len(queue') + (IF timer' THEN 1 ELSE 0) <= calls'
  BY <1>0, <1>1, <1>2
<1>4. /\ batches' \in Seq(Seq(Nat))
      /\ Batching => Len(batches') = Len(queue') + 1
      /\ ~Batching => batches' = <<<<>>>>
  <2>1. CASE Batching
    <3>1. batches \in Seq(Seq(Nat)) /\ Len(batches) = Len(queue) + 1 /\ batches' = Tail(batches)
      BY <2>1 DEF TypeInv, Execute
    <3>2. batches # <<>>
      BY <1>0, <3>1
    <3> QED
      BY <1>0, <1>2, <2>1, <3>1, <3>2
  <2>2. CASE ~Batching
    BY <2>2 DEF TypeInv, Execute
  <2> QED
    BY <2>1, <2>2
<1>5. /\ calledAt' \in [Calls -> 0 .. calls]
      /\ calledAt'[runs'] = calls
      /\ \A e \in 0 .. runs : calledAt'[e] = calledAt[e]
  <2>1. calledAt' = [calledAt EXCEPT ![runs + 1] = calls] /\ calledAt \in [Calls -> 0 .. calls]
    BY DEF TypeInv, Execute
  <2> QED
    BY <1>0, <1>1, <2>1
<1> QED
  BY <1>1, <1>2, <1>3, <1>4, <1>5

(***************************************************************************)
(* Whom a result is for, whatever the order.                               *)
(***************************************************************************)
AnsweredSet(r) == ToSet(r.for) \cup (IF kind = "merge" THEN ToSet(queue) ELSE {})

LEMMA ReverseIs ==
    ASSUME NEW S, NEW s \in Seq(S)
    PROVE  /\ Reverse(s) \in Seq(S) /\ Len(Reverse(s)) = Len(s)
           /\ \A i \in 1 .. Len(s) : Reverse(s)[i] = s[(Len(s) - i) + 1]
           /\ ToSet(Reverse(s)) = ToSet(s)
<1>1. Len(s) \in Nat /\ \A i \in 1 .. Len(s) : s[i] \in S
  OBVIOUS
<1>2. \A i \in 1 .. Len(s) : (Len(s) - i) + 1 \in 1 .. Len(s)
                          /\ (Len(s) - ((Len(s) - i) + 1)) + 1 = i
  BY <1>1
<1>3. Reverse(s) = [i \in 1 .. Len(s) |-> s[(Len(s) - i) + 1]]
  BY DEF Reverse
<1>4. \A i \in 1 .. Len(s) : s[(Len(s) - i) + 1] \in S
  BY <1>1, <1>2
<1>5. Reverse(s) \in [1 .. Len(s) -> S]
  BY <1>3, <1>4
<1>6. Reverse(s) \in Seq(S) /\ Len(Reverse(s)) = Len(s)
  BY <1>1, <1>5
<1>7. \A i \in 1 .. Len(s) : Reverse(s)[i] = s[(Len(s) - i) + 1]
  BY <1>3
<1>8. ToSet(Reverse(s)) = {Reverse(s)[i] : i \in 1 .. Len(s)} /\ ToSet(s) = {s[i] : i \in 1 .. Len(s)}
  BY <1>6, SetOfSeq
<1>9. \A x : x \in ToSet(Reverse(s)) <=> x \in ToSet(s)
  <2>1. ASSUME NEW x \in ToSet(Reverse(s)) PROVE x \in ToSet(s)
    BY <1>2, <1>7, <1>8
  <2>2. ASSUME NEW x \in ToSet(s) PROVE x \in ToSet(Reverse(s))
    <3>1. PICK i \in 1 .. Len(s) : x = s[i]
      BY <1>8
    <3>2. Reverse(s)[(Len(s) - i) + 1] = x
      BY <1>2, <1>7, <3>1
    <3> QED
      BY <1>2, <1>8, <3>2
  <2> QED
    BY <2>1, <2>2
<1> QED
  BY <1>6, <1>7, <1>9

LEMMA ConcatIs ==
    ASSUME NEW S, NEW s \in Seq(S), NEW t \in Seq(S)
    PROVE  /\ s \o t \in Seq(S) /\ Len(s \o t) = Len(s) + Len(t)
           /\ \A i \in 1 .. Len(s) : (s \o t)[i] = s[i]
           /\ \A i \in 1 .. Len(t) : (s \o t)[Len(s) + i] = t[i]
           /\ \A i \in 1 .. Len(s \o t) :
                  i \in 1 .. Len(s) \/ (i - Len(s) \in 1 .. Len(t) /\ (s \o t)[i] = t[i - Len(s)])
           /\ ToSet(s \o t) = ToSet(s) \cup ToSet(t)
<1>1. Len(s) \in Nat /\ Len(t) \in Nat
  OBVIOUS
<1>2. s \o t \in Seq(S) /\ Len(s \o t) = Len(s) + Len(t)
  OBVIOUS
<1>3. \A i \in 1 .. Len(s) : (s \o t)[i] = s[i]
  BY <1>1
<1>4. \A i \in 1 .. Len(t) : (s \o t)[Len(s) + i] = t[i]
  BY <1>1
<1>5. \A i \in 1 .. Len(s \o t) :
          i \in 1 .. Len(s) \/ (i - Len(s) \in 1 .. Len(t) /\ (s \o t)[i] = t[i - Len(s)])
  <2> SUFFICES ASSUME NEW i \in 1 .. Len(s \o t), i \notin 1 .. Len(s)
               PROVE  i - Len(s) \in 1 .. Len(t) /\ (s \o t)[i] = t[i - Len(s)]
    OBVIOUS
  <2>1. i - Len(s) \in 1 .. Len(t) /\ Len(s) + (i - Len(s)) = i
    BY <1>1, <1>2
  <2> QED
    BY <1>4, <2>1
<1>6. /\ ToSet(s \o t) = {(s \o t)[i] : i \in 1 .. Len(s \o t)}
      /\ ToSet(s) = {s[i] : i \in 1 .. Len(s)} /\ ToSet(t) = {t[i] : i \in 1 .. Len(t)}
  BY <1>2, SetOfSeq
<1>7. ASSUME NEW x \in ToSet(s \o t) PROVE x \in ToSet(s) \cup ToSet(t)
  <2>1. PICK i \in 1 .. Len(s \o t) : x = (s \o t)[i]
    BY <1>6
  <2> QED
    BY <1>3, <1>5, <1>6, <2>1
<1>8. ASSUME NEW x \in ToSet(s) \cup ToSet(t) PROVE x \in ToSet(s \o t)
  <2>1. CASE x \in ToSet(s)
    <3>1. PICK i \in 1 .. Len(s) : x = s[i]
      BY <1>6, <2>1
    <3>2. i \in 1 .. Len(s \o t)
      BY <1>1, <1>2
    <3> QED
      BY <1>3, <1>6, <3>1, <3>2
  <2>2. CASE x \in ToSet(t)
    <3>1. PICK i \in 1 .. Len(t) : x = t[i]
      BY <1>6, <2>2
    <3>2. Len(s) + i \in 1 .. Len(s \o t)
      BY <1>1, <1>2
    <3> QED
      BY <1>4, <1>6, <3>1, <3>2
  <2> QED
    BY <1>8, <2>1, <2>2
<1> QED
  BY <1>2, <1>3, <1>4, <1>5, <1>7, <1>8

LEMMA AnsweredIs ==
    ASSUME TypeInv, NEW r \in running
    PROVE  Answered(r) \in Seq(Nat) /\ ToSet(Answered(r)) = AnsweredSet(r)
<1>0. r.for \in Seq(Nat) /\ queue \in Seq(Nat) /\ <<>> \in Seq(Nat)
  BY DEF TypeInv
<1>1. CASE Batching
  <2>1. Answered(r) = Reverse(r.for) /\ AnsweredSet(r) = ToSet(r.for)
    BY <1>1 DEF Answered, AnsweredSet, Batching
  <2> QED
    BY <1>0, <2>1, ReverseIs
<1>2. CASE ~Batching /\ kind = "merge"
  <2>1. Answered(r) = r.for \o queue /\ AnsweredSet(r) = ToSet(r.for) \cup ToSet(queue)
    BY <1>2 DEF Answered, AnsweredSet
  <2> QED
    BY <1>0, <2>1, ConcatIs
<1>3. CASE ~Batching /\ kind # "merge"
  <2>1. Answered(r) = r.for \o <<>> /\ AnsweredSet(r) = ToSet(r.for)
    BY <1>3 DEF Answered, AnsweredSet
  <2>2. r.for \o <<>> = r.for
    BY <1>0
  <2> QED
    BY <1>0, <2>1, <2>2
<1> QED
  BY <1>1, <1>2, <1>3

LEMMA AnswerTypes ==
    ASSUME TypeInv, NEW r \in running, Finish(r)
    PROVE  /\ answer' \in [Calls -> 0 .. runs]
           /\ \A c \in Calls : answer'[c] = IF c \in AnsweredSet(r) THEN runs ELSE answer[c]
<1>1. r.run = runs /\ runs \in 0 .. runs /\ answer \in [Calls -> 0 .. runs]
  BY DEF TypeInv
<1>2. answer' = [c \in Calls |-> IF c \in AnsweredSet(r) THEN r.run ELSE answer[c]]
  BY AnsweredIs DEF Finish, Resolve
<1> QED
  BY <1>1, <1>2

LEMMA TypeStep ==
    ASSUME TypeInv, GuardInv, [Next]_vars
    PROVE  TypeInv'
<1>0. /\ Batching' <=> kind' \in {"last", "rate"}
      /\ Batching <=> kind \in {"last", "rate"}
      /\ kind' = kind
      /\ \A r \in running : running \ {r} = {}
      /\ MaxCalls \in Nat /\ Len(queue) \in Nat
      /\ kind' = kind => Batching' = Batching
  BY ManagerAssumption
  DEF Batching, Next, Running, Call, Timeout, Digest, Finish, Fail, vars, GuardInv, NoOverlap,
      TypeInv
<1>1. CASE Call
  <2>1. calls + 1 \in 0 .. MaxCalls /\ calls' = calls + 1 /\ calls \in Nat /\ calls + 1 \in Nat
    BY <1>0, <1>1 DEF TypeInv, Call
  <2>2. calledAt' \in [Calls -> 0 .. calls']
    BY <1>1, <2>1 DEF TypeInv, Call
  <2>3. CASE Batching
    <3>1. batches' \in Seq(Seq(Nat)) /\ Len(batches') = Len(batches)
      <4> DEFINE k == Len(batches)
      <4>1. k \in 1 .. Len(batches) /\ batches \in Seq(Seq(Nat))
        BY <1>0, <2>3 DEF TypeInv
      <4>2. Append(batches[k], calls + 1) \in Seq(Nat)
        BY <2>1, <4>1
      <4>3. batches' = [batches EXCEPT ![k] = Append(batches[k], calls + 1)]
        BY <1>1, <2>3 DEF Call
      <4> HIDE DEF k
      <4> QED
        BY <4>1, <4>2, <4>3, ExceptSeq
    <3> QED
      BY <1>0, <1>1, <2>1, <2>2, <2>3, <3>1 DEF TypeInv, Call
  <2>4. CASE ~Batching
    <3>1. /\ queue' \in Seq(Nat) /\ Len(queue') = Len(queue) + 1
          /\ scheduled' => queue' # <<>>
      BY <1>1, <2>1, <2>4, EnqueueTypes DEF Call
    <3> QED
      BY <1>0, <1>1, <2>1, <2>2, <2>4, <3>1 DEF TypeInv, Call
  <2> QED
    BY <2>3, <2>4
<1>2. CASE Timeout
  <2>1. /\ queue' \in Seq(Nat) /\ Len(queue') = Len(queue) + 1
        /\ scheduled' => queue' # <<>>
    BY <1>2, EnqueueTypes DEF Timeout, Batch
  <2>2. Batching
    BY <1>2 DEF Timeout, TypeInv
  <2>3. batches' \in Seq(Seq(Nat)) /\ Len(batches') = Len(batches) + 1
    BY <1>2 DEF Timeout, TypeInv
  <2>4. runs + Len(queue') + (IF timer' THEN 1 ELSE 0) <= calls'
    BY <1>0, <1>2, <2>1 DEF TypeInv, Timeout
  <2> QED
    BY <1>0, <1>2, <2>1, <2>2, <2>3, <2>4 DEF TypeInv, Timeout
<1>3. CASE Digest
  <2>1. queue # <<>> /\ Execute(queue) /\ UNCHANGED <<kind, calls, timer, answer>>
    BY <1>3 DEF Digest, TypeInv
  <2>2. For(queue) \in Seq(Nat)
    BY <2>1, ExecuteLine
  <2>3. running' = {[run |-> runs + 1, for |-> For(queue)]} /\ ~scheduled'
    BY <1>3 DEF Digest, GuardInv, BusyGuards
  <2>4. \A r \in running' : r.run = runs + 1 /\ r.for \in Seq(Nat)
    BY <2>2, <2>3
  <2>5. answer' \in [Calls -> 0 .. runs + 1]
    BY <2>1 DEF TypeInv
  <2> QED
    BY <1>0, <2>1, <2>3, <2>4, <2>5, ExecuteTypes, SMTT(30) DEF TypeInv
<1>4. ASSUME NEW r \in running, Finish(r) PROVE TypeInv'
  <2>0. UNCHANGED <<kind, calls, timer, scheduled>> /\ ~scheduled
    BY <1>4 DEF Finish, GuardInv, BusyGuards
  <2>1. answer' \in [Calls -> 0 .. runs]
    BY <1>4, AnswerTypes
  <2>2. CASE Waiting # <<>>
    <3>1. queue # <<>> /\ Execute(queue) /\ Waiting = queue
      BY <1>4, <2>2, WaitingIsQueue DEF Finish
    <3>2. For(queue) \in Seq(Nat)
      BY <2>0, <3>1, ExecuteLine
    <3>3. running' = {[run |-> runs + 1, for |-> For(queue)]}
      BY <1>0, <1>4, <2>2, <3>1 DEF Finish
    <3>4. \A q \in running' : q.run = runs + 1 /\ q.for \in Seq(Nat)
      BY <3>2, <3>3
    <3>5. /\ queue' \in Seq(Nat) /\ batches' \in Seq(Seq(Nat))
          /\ runs' = runs + 1 /\ runs' \in Calls
          /\ runs' + Len(queue') + (IF timer' THEN 1 ELSE 0) <= calls'
          /\ Batching => Len(batches') = Len(queue') + 1
          /\ ~Batching => batches' = <<<<>>>>
          /\ calledAt' \in [Calls -> 0 .. calls]
      <4>1. TypeInv /\ queue # <<>> /\ Execute(queue) /\ UNCHANGED <<kind, calls, timer>>
        BY <2>0, <3>1
      <4> QED
        BY <4>1, ExecuteTypes
    <3>6. answer' \in [Calls -> 0 .. runs + 1]
      BY <2>1 DEF TypeInv
    <3>7. timer' \in BOOLEAN /\ calls' \in 0 .. MaxCalls /\ kind' \in Kinds /\ runs' \in Nat
      BY <1>0, <2>0, <3>5 DEF TypeInv
    <3>8. ~Batching => ~timer'
      BY <2>0 DEF TypeInv
    <3> QED
      BY <1>0, <2>0, <3>4, <3>5, <3>6, <3>7, <3>8 DEF TypeInv
  <2>3. CASE Waiting = <<>>
    <3>1. queue' = <<>> /\ running' = {} /\ UNCHANGED <<batches, runs, calledAt>>
      BY <1>0, <1>4, <2>3 DEF Finish
    <3>2. queue = <<>> \/ ~Batching
      BY <1>0, <2>3, WaitingIsQueue
    <3>3. queue' \in Seq(Nat) /\ Len(queue') = 0 /\ (Batching => Len(queue) = 0)
      BY <1>0, <3>1, <3>2
    <3>4. runs' + Len(queue') + (IF timer' THEN 1 ELSE 0) <= calls'
      BY <1>0, <2>0, <3>1, <3>3 DEF TypeInv
    <3> QED
      BY <1>0, <2>0, <2>1, <3>1, <3>3, <3>4 DEF TypeInv
  <2> QED
    BY <2>2, <2>3
<1>5. ASSUME NEW r \in running, Fail(r) PROVE TypeInv'
  BY <1>0, <1>5 DEF TypeInv, Fail
<1>6. CASE UNCHANGED vars
  BY <1>0, <1>6 DEF TypeInv, vars
<1> QED
  BY <1>1, <1>2, <1>3, <1>4, <1>5, <1>6 DEF Next, Running

-----------------------------------------------------------------------------
(* The line moves on                                                       *)

LEMMA CallKeeps ==
    ASSUME IInv, Call
    PROVE  LineInv' /\ NoLaterRun' /\ IsFresh'
<1>0. /\ calls \in Nat /\ calls' = calls + 1 /\ calls + 1 \in Calls
      /\ answer' = answer /\ calledAt' = calledAt /\ runs' = runs /\ kind' = kind
      /\ Served' = Served /\ running' = running /\ failed' = failed
  BY ManagerAssumption DEF IInv, TypeInv, Call, Calls, Served
<1>1. PICK k \in Nat :
         /\ \A i, d \in Nat : Has(Line', i, d) <=> Has(Line, i, d) \/ (i = k /\ d = calls + 1)
         /\ \A i, d \in Nat : Has(Line, i, d) => i <= k
  BY CallLine DEF IInv, LineGrows
<1>2. answer[calls + 1] = 0
  BY <1>0 DEF IInv, LineInv, AnswersAreOld
<1>3. LineInOrder'
  BY <1>0, <1>1, <1>2 DEF IInv, LineInv, LineInOrder
<1>4. RunInOrder'
  BY <1>0, <1>1 DEF IInv, LineInv, RunInOrder
<1>5. NobodyForgotten'
  <2>1. \A c \in 1 .. calls' : c \in 1 .. calls \/ c = calls + 1
    BY <1>0
  <2>2. ~failed => \A c \in 1 .. calls' :
                      answer[c] # 0 \/ c \in Served \/ \E i \in Nat : Has(Line', i, c)
    BY <1>0, <1>1, <2>1 DEF IInv, LineInv, NobodyForgotten
  <2>3. failed => running' = {} /\ ~scheduled' /\ busy'
    <3>1. CASE Batching
      BY <1>0, <3>1 DEF IInv, LineInv, NobodyForgotten, Call
    <3>2. CASE ~Batching
      BY <1>0, <3>2 DEF IInv, LineInv, NobodyForgotten, Call, Enqueue
    <3> QED
      BY <3>1, <3>2
  <2> QED
    BY <1>0, <2>2, <2>3 DEF NobodyForgotten
<1>6. AnswersAreOld'
  BY <1>0 DEF IInv, LineInv, AnswersAreOld, Calls
<1>7. NoLaterRun' /\ IsFresh'
  BY <1>0 DEF IInv, NoLaterRun, IsFresh
<1> QED
  BY <1>3, <1>4, <1>5, <1>6, <1>7 DEF LineInv

LEMMA TimeoutKeeps ==
    ASSUME IInv, Timeout
    PROVE  LineInv' /\ NoLaterRun' /\ IsFresh'
<1>0. /\ UNCHANGED <<calls, answer, calledAt, runs, kind, running, failed>>
      /\ Served' = Served
  BY DEF Timeout, Served
<1>1. \A i, d \in Nat : Has(Line', i, d) <=> Has(Line, i, d)
  BY TimeoutLine DEF IInv
<1>2. failed => ~scheduled' /\ busy'
  BY DEF IInv, LineInv, NobodyForgotten, Timeout, Enqueue
<1>3. calls \in Nat
  BY DEF IInv, TypeInv
<1>4. LineInOrder'
  BY <1>0, <1>1 DEF IInv, LineInv, LineInOrder
<1>5. RunInOrder'
  BY <1>0, <1>1 DEF IInv, LineInv, RunInOrder
<1>6. NobodyForgotten'
  BY <1>0, <1>1, <1>2, <1>3 DEF IInv, LineInv, NobodyForgotten
<1>7. AnswersAreOld' /\ NoLaterRun' /\ IsFresh'
  BY <1>0 DEF IInv, LineInv, AnswersAreOld, NoLaterRun, IsFresh
<1> QED
  BY <1>4, <1>5, <1>6, <1>7 DEF LineInv

(***************************************************************************)
(* The first in the line get an execution.                                 *)
(***************************************************************************)
LEMMA DigestKeeps ==
    ASSUME IInv, Digest
    PROVE  LineInv' /\ NoLaterRun' /\ IsFresh'
<1>0. /\ TypeInv /\ queue # <<>> /\ Execute(queue) /\ calls \in Nat /\ runs \in Nat
      /\ UNCHANGED <<calls, answer, kind, failed, timer>>
      /\ answer \in [Calls -> 0 .. runs] /\ Batching' = Batching
  BY DEF IInv, TypeInv, Digest, Batching
<1>1. running = {} /\ ~failed /\ Served = {}
  BY DEF IInv, GuardInv, BusyGuards, LineInv, NobodyForgotten, Digest, Served
<1>2. Served' = ToSet(For(queue))
  <2>1. running' = {[run |-> runs + 1, for |-> For(queue)]}
    BY <1>1 DEF Digest
  <2> QED
    BY <2>1 DEF Served
<1>3. /\ \A i, d \in Nat : Has(Line', i, d) <=> i >= 1 /\ Has(Line, i + 1, d)
      /\ \A d \in Nat : d \in Served' <=> Has(Line, 1, d)
  BY <1>0, <1>2, ExecuteLine
<1>4. /\ calledAt'[runs'] = calls
      /\ \A e \in 0 .. runs : calledAt'[e] = calledAt[e]
  BY <1>0, ExecuteTypes
<1>5. LineInOrder'
  BY <1>0, <1>3 DEF IInv, LineInv, LineInOrder
<1>6. RunInOrder'
  <2>1. \A c \in Nat : c \in Served' => c \in 1 .. calls /\ answer[c] = 0
    BY <1>3 DEF IInv, LineInv, LineInOrder
  <2>2. \A c, i, d \in Nat : c \in Served' /\ Has(Line', i, d) => c < d
    <3>1. \A i \in Nat : i >= 1 => i + 1 \in Nat /\ 1 < i + 1
      OBVIOUS
    <3> QED
      BY <1>3, <3>1 DEF IInv, LineInv, LineInOrder
  <2> QED
    BY <1>0, <1>4, <2>1, <2>2 DEF RunInOrder
<1>7. NobodyForgotten'
  <2>1. ASSUME NEW c \in 1 .. calls, answer[c] = 0
        PROVE  c \in Served' \/ \E i \in Nat : Has(Line', i, c)
    <3>1. PICK i \in Nat : Has(Line, i, c)
      BY <1>1, <2>1 DEF IInv, LineInv, NobodyForgotten
    <3>2. i >= 1
      BY <1>0, <3>1 DEF Has, Line, TypeInv
    <3>3. i = 1 \/ (i - 1 \in Nat /\ i - 1 >= 1 /\ (i - 1) + 1 = i)
      BY <3>2
    <3> QED
      BY <1>0, <1>3, <3>1, <3>3
  <2> QED
    BY <1>0, <1>1, <2>1 DEF NobodyForgotten
<1>8. AnswersAreOld' /\ NoLaterRun'
  BY <1>0 DEF IInv, LineInv, AnswersAreOld, NoLaterRun
<1>9. IsFresh'
  <2>1. \A c \in Calls : answer[c] \in 0 .. runs
    BY <1>0
  <2> QED
    BY <1>0, <1>4, <2>1 DEF IInv, IsFresh
<1> QED
  BY <1>5, <1>6, <1>7, <1>8, <1>9 DEF LineInv

LEMMA CallNumbers ==
    ASSUME TypeInv
    PROVE  calls \in Nat /\ MaxCalls \in Nat /\ 1 .. calls \subseteq Calls
<1>1. MaxCalls \in Nat /\ calls \in 0 .. MaxCalls
  BY ManagerAssumption DEF TypeInv
<1> QED
  BY <1>1 DEF Calls

(***************************************************************************)
(* The result of the only execution: who is answered has been before all   *)
(* who are in the line, and whoever has called before has an answer.       *)
(***************************************************************************)
LEMMA FinishAnswers ==
    ASSUME IInv, NEW r \in running, Finish(r)
    PROVE  /\ \A c \in Nat : c \in Served <=> c \in ToSet(r.for)
           /\ kind # "merge" => AnsweredSet(r) = ToSet(r.for)
           /\ kind = "merge" => \A c \in Nat :
                  c \in AnsweredSet(r) <=> c \in Served \/ \E i \in Nat : Has(Line, i, c)
           /\ \A c \in Calls : answer'[c] = IF c \in AnsweredSet(r) THEN runs ELSE answer[c]
           /\ \A c \in AnsweredSet(r) : c \in 1 .. calls /\ answer[c] = 0
           /\ AnswersAreOld' /\ NoLaterRun'
<1>0. /\ TypeInv /\ queue \in Seq(Nat) /\ running = {r} /\ r.for \in Seq(Nat)
      /\ calls \in Nat /\ runs \in Calls /\ calls' = calls /\ MaxCalls \in Nat
      /\ answer \in [Calls -> 0 .. runs] /\ 1 .. calls \subseteq Calls
  <2>1. running = {r} /\ calls' = calls
    BY DEF IInv, GuardInv, NoOverlap, Finish
  <2>2. TypeInv
    BY DEF IInv
  <2>3. /\ queue \in Seq(Nat) /\ r.for \in Seq(Nat) /\ runs \in Calls
        /\ answer \in [Calls -> 0 .. runs]
    BY <2>2 DEF TypeInv
  <2> QED
    BY <2>1, <2>2, <2>3, CallNumbers
<1>1. Served = ToSet(r.for) /\ ToSet(r.for) \subseteq Nat
  <2>1. ToSet(r.for) \subseteq Nat
    BY <1>0, SetOfSeq
  <2> QED
    BY <1>0, <2>1 DEF Served
<1>2. kind # "merge" => AnsweredSet(r) = ToSet(r.for)
  BY DEF AnsweredSet
<1>3. ASSUME kind = "merge"
      PROVE  \A c \in Nat : c \in AnsweredSet(r) <=> c \in Served \/ \E i \in Nat : Has(Line, i, c)
  <2>1. ToSet(queue) = {queue[i] : i \in 1 .. Len(queue)}
    BY <1>0, SetOfSeq
  <2>2. Line = [i \in 1 .. Len(queue) |-> {queue[i]}]
    BY <1>3 DEF Line, Batching
  <2>3. \A c, i \in Nat : Has(Line, i, c) <=> i \in 1 .. Len(queue) /\ queue[i] = c
    BY <2>2 DEF Has
  <2>4. \A c \in Nat : c \in ToSet(queue) <=> \E i \in Nat : Has(Line, i, c)
    <3>1. \A i \in 1 .. Len(queue) : i \in Nat
      BY <1>0
    <3> QED
      BY <2>1, <2>3, <3>1
  <2> QED
    BY <1>1, <1>3, <2>4 DEF AnsweredSet
<1>4. AnsweredSet(r) \subseteq Nat
  <2>1. ToSet(queue) \subseteq Nat
    BY <1>0, SetOfSeq
  <2> QED
    BY <1>1, <2>1 DEF AnsweredSet
<1>5. \A c \in Calls : answer'[c] = IF c \in AnsweredSet(r) THEN runs ELSE answer[c]
  BY <1>0, AnswerTypes
<1>6. \A c \in AnsweredSet(r) : c \in 1 .. calls /\ answer[c] = 0
  BY <1>1, <1>2, <1>3, <1>4 DEF IInv, LineInv, RunInOrder, LineInOrder
<1>7. AnswersAreOld'
  BY <1>0, <1>5, <1>6 DEF IInv, LineInv, AnswersAreOld, Calls
<1>8. ASSUME NEW c \in Calls, NEW d \in Calls, c < d, answer'[d] # 0
      PROVE  answer'[c] \in 1 .. answer'[d]
  <2>0. c \in Nat /\ d \in Nat /\ runs \in 1 .. runs /\ answer[c] \in 0 .. runs
    BY <1>0 DEF Calls
  <2>1. CASE d \in AnsweredSet(r)
    <3>1. CASE c \in AnsweredSet(r)
      BY <1>5, <2>0, <2>1, <3>1
    <3>2. CASE c \notin AnsweredSet(r)
      <4>1. c \in 1 .. calls /\ ~failed
        <5>1. d \in 1 .. calls /\ ~failed
          BY <1>0, <1>6, <2>1 DEF IInv, LineInv, NobodyForgotten
        <5> QED
          BY <1>0, <1>8, <2>0, <5>1 DEF Calls
      <4>2. answer[c] # 0 \/ c \in Served \/ \E i \in Nat : Has(Line, i, c)
        BY <4>1 DEF IInv, LineInv, NobodyForgotten
      <4>3. c \notin Served
        BY <1>1, <3>2 DEF AnsweredSet
      <4>4. ~ \E i \in Nat : Has(Line, i, c)
        <5>1. CASE kind = "merge"
          BY <1>3, <2>0, <3>2, <5>1
        <5>2. CASE kind # "merge"
          BY <1>1, <1>2, <1>8, <2>0, <2>1, <5>2 DEF IInv, LineInv, RunInOrder
        <5> QED
          BY <5>1, <5>2
      <4>5. answer[c] # 0
        BY <4>2, <4>3, <4>4
      <4> QED
        BY <1>5, <2>0, <2>1, <3>2, <4>5
    <3> QED
      BY <3>1, <3>2
  <2>2. CASE d \notin AnsweredSet(r)
    <3>1. answer'[d] = answer[d] /\ answer[c] \in 1 .. answer[d]
      BY <1>5, <1>8, <2>2 DEF IInv, NoLaterRun
    <3>2. c \notin AnsweredSet(r)
      BY <1>6, <3>1
    <3> QED
      BY <1>5, <3>1, <3>2
  <2> QED
    BY <2>1, <2>2
<1>9. NoLaterRun'
  BY <1>8 DEF NoLaterRun
<1> QED
  BY <1>1, <1>2, <1>3, <1>5, <1>6, <1>7, <1>9

LEMMA FinishKeeps ==
    ASSUME IInv, NEW r \in running, Finish(r)
    PROVE  LineInv' /\ NoLaterRun' /\ IsFresh'
<1>0. /\ TypeInv /\ running = {r} /\ calls \in Nat /\ runs \in Calls
      /\ UNCHANGED <<calls, kind, failed, scheduled, timer>> /\ Batching' = Batching
      /\ answer \in [Calls -> 0 .. runs] /\ queue \in Seq(Nat) /\ Len(queue) \in Nat
      /\ ~failed /\ 1 .. calls \subseteq Calls /\ runs \in Nat /\ runs # 0
  <2>1. running = {r}
    BY DEF IInv, GuardInv, NoOverlap
  <2>2. UNCHANGED <<calls, kind, failed, scheduled, timer>> /\ Batching' = Batching
    BY DEF Finish, Batching
  <2>3. ~failed
    BY DEF IInv, LineInv, NobodyForgotten
  <2>4. TypeInv
    BY DEF IInv
  <2>5. /\ queue \in Seq(Nat) /\ runs \in Calls /\ answer \in [Calls -> 0 .. runs]
    BY <2>4 DEF TypeInv
  <2>6. runs \in Nat /\ runs # 0
    BY <2>5 DEF Calls
  <2> QED
    BY <2>1, <2>2, <2>3, <2>4, <2>5, <2>6, CallNumbers
<1>1. /\ \A c \in Calls : answer'[c] = IF c \in AnsweredSet(r) THEN runs ELSE answer[c]
      /\ \A c \in Nat : c \in Served <=> c \in ToSet(r.for)
      /\ ToSet(r.for) \subseteq AnsweredSet(r)
  BY FinishAnswers DEF AnsweredSet
<1>2. \A e \in 0 .. runs : calledAt'[e] = calledAt[e]
  <2>1. CASE Waiting = <<>>
    BY <2>1 DEF Finish
  <2>2. CASE Waiting # <<>>
    <3>1. calledAt' = [calledAt EXCEPT ![runs + 1] = calls]
      BY <2>2 DEF Finish, Execute
    <3> QED
      BY <1>0, <3>1 DEF TypeInv
  <2> QED
    BY <2>1, <2>2
<1>3. IsFresh'
  <2> SUFFICES ASSUME kind # "merge", NEW c \in Calls, answer'[c] # 0
               PROVE  calledAt'[answer'[c]] >= c
    BY <1>0 DEF IsFresh
  <2>1. CASE c \in AnsweredSet(r)
    <3>1. c \in Nat /\ c \in Served
      BY <1>1, <2>1, FinishAnswers DEF Calls
    <3>2. calledAt[runs] >= c
      BY <3>1 DEF IInv, LineInv, RunInOrder
    <3> QED
      BY <1>0, <1>1, <1>2, <2>1, <3>2
  <2>2. CASE c \notin AnsweredSet(r)
    <3>1. answer'[c] = answer[c] /\ answer[c] \in 0 .. runs
      BY <1>0, <1>1, <2>2
    <3> QED
      BY <1>2, <3>1 DEF IInv, IsFresh
  <2> QED
    BY <2>1, <2>2
<1>4. CASE Waiting # <<>>
  <2>1. queue # <<>> /\ Execute(queue) /\ Waiting = queue /\ kind # "merge"
    BY <1>4, WaitingIsQueue DEF Finish
  <2>2. Served' = ToSet(For(queue))
    <3>1. running' = {[run |-> runs + 1, for |-> For(queue)]}
      BY <1>0, <1>4, <2>1 DEF Finish
    <3> QED
      BY <3>1 DEF Served
  <2>3. /\ \A i, d \in Nat : Has(Line', i, d) <=> i >= 1 /\ Has(Line, i + 1, d)
        /\ \A d \in Nat : d \in Served' <=> Has(Line, 1, d)
    BY <1>0, <2>1, <2>2, ExecuteLine
  <2>4. calledAt'[runs'] = calls
    BY <1>0, <2>1, ExecuteTypes
  <2>5. \A i, d \in Nat : Has(Line, i, d) => d \in Calls /\ answer'[d] = 0
    <3> SUFFICES ASSUME NEW i \in Nat, NEW d \in Nat, Has(Line, i, d)
                 PROVE  d \in Calls /\ answer'[d] = 0
      OBVIOUS
    <3>1. d \in Calls /\ answer[d] = 0
      BY <1>0 DEF IInv, LineInv, LineInOrder
    <3>2. d \notin Served
      BY DEF IInv, LineInv, RunInOrder
    <3>3. d \notin AnsweredSet(r)
      BY <1>1, <2>1, <3>2, FinishAnswers
    <3> QED
      BY <1>1, <3>1, <3>3
  <2>6. LineInOrder'
    BY <1>0, <2>3, <2>5, SMTT(30) DEF IInv, LineInv, LineInOrder
  <2>7. RunInOrder'
    <3>1. \A c \in Nat : c \in Served' => c \in 1 .. calls /\ answer'[c] = 0
      BY <2>3, <2>5 DEF IInv, LineInv, LineInOrder
    <3>2. \A c, i, d \in Nat : c \in Served' /\ Has(Line', i, d) => c < d
      <4>1. \A i \in Nat : i >= 1 => i + 1 \in Nat /\ 1 < i + 1
        OBVIOUS
      <4> QED
        BY <2>3, <4>1 DEF IInv, LineInv, LineInOrder
    <3> QED
      BY <1>0, <2>4, <3>1, <3>2 DEF RunInOrder
  <2>8. NobodyForgotten'
    <3>1. ASSUME NEW c \in 1 .. calls, answer'[c] = 0
          PROVE  c \in Served' \/ \E i \in Nat : Has(Line', i, c)
      <4>1. c \notin AnsweredSet(r) /\ answer[c] = 0
        BY <1>0, <1>1, <3>1
      <4>2. c \notin Served
        BY <1>1, <4>1
      <4>3. PICK i \in Nat : Has(Line, i, c)
        BY <1>0, <4>1, <4>2 DEF IInv, LineInv, NobodyForgotten
      <4>4. i >= 1
        BY <1>0, <4>3 DEF Has, Line, TypeInv
      <4>5. i = 1 \/ (i - 1 \in Nat /\ i - 1 >= 1 /\ (i - 1) + 1 = i)
        BY <4>4
      <4>6. CASE i = 1
        BY <1>0, <2>3, <4>3, <4>6
      <4>7. CASE i - 1 \in Nat /\ i - 1 >= 1 /\ (i - 1) + 1 = i
        <5>1. Has(Line', i - 1, c)
          BY <2>3, <4>3, <4>7
        <5> QED
          BY <4>7, <5>1
      <4> QED
        BY <4>5, <4>6, <4>7
    <3> QED
      BY <1>0, <3>1 DEF NobodyForgotten
  <2> QED
    BY <1>3, <2>6, <2>7, <2>8, FinishAnswers DEF LineInv
<1>5. CASE Waiting = <<>>
  <2>1. queue' = <<>> /\ running' = {} /\ UNCHANGED <<batches, runs, calledAt>>
    BY <1>0, <1>5 DEF Finish
  <2>2. Served' = {}
    BY <2>1 DEF Served
  <2>3. \A i, d \in Nat : Has(Line', i, d) => Has(Line, i, d) /\ Batching
    BY <1>0, <2>1 DEF Has, Line
  <2>4. \A c \in 1 .. calls : answer'[c] = 0 => \E i \in Nat : Has(Line', i, c)
    <3> SUFFICES ASSUME NEW c \in 1 .. calls, answer'[c] = 0
                 PROVE  \E i \in Nat : Has(Line', i, c)
      OBVIOUS
    <3>1. c \notin AnsweredSet(r) /\ answer[c] = 0
      BY <1>0, <1>1
    <3>2. c \notin Served
      BY <1>1, <3>1
    <3>3. PICK i \in Nat : Has(Line, i, c)
      BY <1>0, <3>1, <3>2 DEF IInv, LineInv, NobodyForgotten
    <3>4. kind # "merge"
      BY <3>1, <3>3, FinishAnswers
    <3>5. queue = <<>>
      BY <1>5, <3>4, WaitingIsQueue
    <3>6. Line' = Line
      BY <1>0, <2>1, <3>5 DEF Line
    <3> QED
      BY <3>3, <3>6
  <2>5. \A i, d \in Nat : Has(Line', i, d) => d \in 1 .. calls /\ answer'[d] = 0
    <3> SUFFICES ASSUME NEW i \in Nat, NEW d \in Nat, Has(Line', i, d)
                 PROVE  d \in 1 .. calls /\ answer'[d] = 0
      OBVIOUS
    <3>1. d \in 1 .. calls /\ answer[d] = 0 /\ d \notin Served
      BY <2>3 DEF IInv, LineInv, LineInOrder, RunInOrder
    <3>2. kind # "merge"
      BY <2>3 DEF Batching
    <3>3. d \notin AnsweredSet(r)
      BY <1>1, <3>1, <3>2, FinishAnswers
    <3> QED
      BY <1>0, <1>1, <3>1, <3>3
  <2>6. LineInOrder'
    BY <1>0, <2>3, <2>5, SMTT(30) DEF IInv, LineInv, LineInOrder
  <2>7. RunInOrder' /\ NobodyForgotten'
    BY <1>0, <2>2, <2>4 DEF RunInOrder, NobodyForgotten
  <2> QED
    BY <1>3, <2>6, <2>7, FinishAnswers DEF LineInv
<1> QED
  BY <1>4, <1>5

LEMMA FailKeeps ==
    ASSUME IInv, NEW r \in running, Fail(r)
    PROVE  LineInv' /\ NoLaterRun' /\ IsFresh'
<1>1. /\ running' = {} /\ failed' = TRUE /\ Served' = {} /\ Line' = Line
      /\ UNCHANGED <<calls, answer, calledAt, kind>>
      /\ ~scheduled' /\ busy'
  BY DEF IInv, GuardInv, BusyGuards, NoOverlap, Fail, Served, Line, Batching
<1>2. LineInOrder' /\ RunInOrder' /\ NobodyForgotten' /\ AnswersAreOld'
  BY <1>1 DEF IInv, LineInv, LineInOrder, RunInOrder, NobodyForgotten, AnswersAreOld
<1>3. NoLaterRun' /\ IsFresh'
  BY <1>1 DEF IInv, NoLaterRun, IsFresh
<1> QED
  BY <1>2, <1>3 DEF LineInv

LEMMA IInvStep == IInv /\ [Next]_vars => IInv'
<1> SUFFICES ASSUME IInv, [Next]_vars PROVE IInv'
  OBVIOUS
<1>1. GuardInv' /\ TypeInv'
  BY StepGuards, TypeStep DEF IInv
<1>2. CASE UNCHANGED vars
  <2>1. Line' = Line /\ Served' = Served
    BY <1>2 DEF vars, Line, Served, Batching
  <2> QED
    BY <1>1, <1>2, <2>1
    DEF vars, IInv, LineInv, LineInOrder, RunInOrder, NobodyForgotten, AnswersAreOld, NoLaterRun,
        IsFresh
<1>3. CASE Next
  BY <1>1, <1>3, CallKeeps, TimeoutKeeps, DigestKeeps, FinishKeeps, FailKeeps
  DEF Next, Running, IInv
<1> QED
  BY <1>2, <1>3

LEMMA IInvInit == Init => IInv
<1> SUFFICES ASSUME Init PROVE IInv
  OBVIOUS
<1>1. GuardInv
  BY DEF Init, GuardInv, BusyGuards, NoOverlap
<1>2. /\ <<>> \in Seq(Nat) /\ <<<<>>>> \in Seq(Seq(Nat)) /\ Len(<<<<>>>>) = 1
      /\ MaxCalls \in Nat /\ Len(<<>>) = 0
  BY ManagerAssumption
<1>3. TypeInv
  <2>1. /\ kind \in Kinds /\ calls \in 0 .. MaxCalls /\ runs \in Nat /\ timer = FALSE
        /\ queue = <<>> /\ batches = <<<<>>>> /\ running = {} /\ calls = 0 /\ runs = 0
        /\ scheduled = FALSE
    BY <1>2 DEF Init
  <2>2. answer \in [Calls -> 0 .. runs] /\ calledAt \in [Calls -> 0 .. calls]
    BY DEF Init, Calls
  <2>3. runs + Len(queue) + (IF timer THEN 1 ELSE 0) <= calls
    BY <1>2, <2>1
  <2>4. /\ queue \in Seq(Nat) /\ batches \in Seq(Seq(Nat)) /\ Len(batches) = Len(queue) + 1
        /\ timer \in BOOLEAN
    <3>1. Len(batches) = 1 /\ Len(queue) = 0 /\ batches \in Seq(Seq(Nat))
      BY <1>2, <2>1
    <3>2. timer \in BOOLEAN
      BY <2>1
    <3>3. queue \in Seq(Nat)
      BY <1>2, <2>1, Zenon
    <3> QED
      BY <3>1, <3>2, <3>3
  <2> QED
    BY <2>1, <2>2, <2>3, <2>4 DEF TypeInv
<1>4. Served = {} /\ \A i, d \in Nat : ~Has(Line, i, d)
  <2>1. ToSet(<<>>) = {}
    BY DEF ToSet
  <2> QED
    BY <2>1 DEF Init, Served, Has, Line
<1>5. LineInv
  BY <1>4 DEF Init, LineInv, LineInOrder, RunInOrder, NobodyForgotten, AnswersAreOld
<1>6. NoLaterRun /\ IsFresh
  BY DEF Init, NoLaterRun, IsFresh
<1> QED
  BY <1>1, <1>3, <1>5, <1>6 DEF IInv

-----------------------------------------------------------------------------
(* The order of the promises                                               *)

Ascending(s) == \A i, j \in 1 .. Len(s) : i < j => s[i] < s[j]

BatchesAscend == \A i \in 1 .. Len(batches) : Ascending(batches[i])

\* The execution under way is for calls in their order, and the next to answer.
RunsAscend ==
    \A r \in running : Ascending(r.for) /\ \A c \in Calls : answer[c] < r.run

ResolvedIsAnswered ==
    /\ resolved \in Seq(Calls)
    /\ \A i \in 1 .. Len(resolved) : answer[resolved[i]] # 0

OrderInv == BatchesAscend /\ RunsAscend /\ ResolvedIsAnswered /\ InTurn

LEMMA CallAscends ==
    ASSUME IInv, BatchesAscend, Call
    PROVE  BatchesAscend'
<1>0. batches \in Seq(Seq(Nat)) /\ calls \in Nat /\ Len(batches) \in Nat
  BY DEF IInv, TypeInv
<1>1. CASE ~Batching
  BY <1>1 DEF Call, BatchesAscend
<1>2. CASE Batching
  <2> DEFINE k == Len(batches)
             old == batches[k]
             last == Append(old, calls + 1)
  <2>1. k \in 1 .. Len(batches) /\ batches' = [batches EXCEPT ![k] = last]
    BY <1>0, <1>2 DEF IInv, TypeInv, Call
  <2>2. old \in Seq(Nat) /\ Len(old) \in Nat /\ Ascending(old)
    BY <1>0, <2>1 DEF BatchesAscend
  <2>3. \A i \in 1 .. Len(old) : old[i] \in Nat /\ old[i] < calls + 1
    <3>1. \A i \in 1 .. Len(old) : old[i] \in Nat /\ old[i] \in ToSet(old)
      BY <2>2 DEF ToSet
    <3>2. \A d \in Nat : d \in ToSet(old) => Has(Line, k, d)
      BY <1>0, <1>2, <2>1 DEF Has, Line
    <3>3. \A d \in Nat : Has(Line, k, d) => d \in 1 .. calls
      BY <1>0 DEF IInv, LineInv, LineInOrder
    <3> QED
      BY <1>0, <3>1, <3>2, <3>3
  <2>4. /\ last \in Seq(Nat) /\ Len(last) = Len(old) + 1 /\ last[Len(old) + 1] = calls + 1
        /\ \A i \in 1 .. Len(old) : last[i] = old[i]
    BY <1>0, <2>2
  <2> HIDE DEF last, old
  <2>5. Ascending(last)
    <3> SUFFICES ASSUME NEW i \in 1 .. Len(last), NEW j \in 1 .. Len(last), i < j
                 PROVE  last[i] < last[j]
      BY DEF Ascending
    <3>1. i \in 1 .. Len(old) /\ (j \in 1 .. Len(old) \/ j = Len(old) + 1)
      BY <2>2, <2>4
    <3> QED
      BY <2>2, <2>3, <2>4, <3>1 DEF Ascending
  <2>6. /\ Len(batches') = Len(batches) /\ batches'[k] = last
        /\ \A i \in 1 .. Len(batches) : i # k => batches'[i] = batches[i]
    BY <1>0, <2>1, <2>4, ExceptSeq
  <2> HIDE DEF k
  <2> QED
    BY <2>5, <2>6 DEF BatchesAscend
<1> QED
  BY <1>1, <1>2

(***************************************************************************)
(* An execution is for the first batch, or a single call.                  *)
(***************************************************************************)
LEMMA ExecuteAscends ==
    ASSUME TypeInv, BatchesAscend, queue # <<>>, Execute(queue)
    PROVE  BatchesAscend' /\ Ascending(For(queue))
<1>0. batches \in Seq(Seq(Nat)) /\ Len(batches) \in Nat /\ Len(queue) \in Nat \ {0}
  BY DEF TypeInv
<1>1. CASE Batching
  <2>1. batches # <<>> /\ Len(batches) > 1 /\ batches' = Tail(batches) /\ For(queue) = Head(batches)
    BY <1>0, <1>1 DEF TypeInv, Execute, For
  <2>2. /\ Len(batches') = Len(batches) - 1 /\ Head(batches) = batches[1]
        /\ \A i \in 1 .. Len(batches) - 1 : batches'[i] = batches[i + 1]
                                         /\ i + 1 \in 1 .. Len(batches)
    BY <1>0, <2>1
  <2>3. 1 \in 1 .. Len(batches)
    BY <1>0, <2>1
  <2> QED
    BY <2>1, <2>2, <2>3 DEF BatchesAscend
<1>2. CASE ~Batching
  <2>1. batches' = batches /\ For(queue) = <<Head(queue)>>
    BY <1>2 DEF Execute, For
  <2>2. Len(<<Head(queue)>>) = 1 /\ \A i, j \in 1 .. 1 : ~(i < j)
    OBVIOUS
  <2> QED
    BY <2>1, <2>2 DEF BatchesAscend, Ascending
<1> QED
  BY <1>1, <1>2

(***************************************************************************)
(* The order within one result: down in a batch, else up.                  *)
(***************************************************************************)
LEMMA AnsweredInTurn ==
    ASSUME IInv, RunsAscend, NEW r \in running
    PROVE  \A i, j \in 1 .. Len(Answered(r)) :
               i < j => IF Batching THEN Answered(r)[j] < Answered(r)[i]
                                    ELSE Answered(r)[i] < Answered(r)[j]
<1>0. /\ TypeInv /\ r.for \in Seq(Nat) /\ Len(r.for) \in Nat /\ Ascending(r.for)
      /\ queue \in Seq(Nat) /\ Len(queue) \in Nat
  BY DEF IInv, TypeInv, RunsAscend
<1>1. CASE Batching
  <2>1. Answered(r) = Reverse(r.for)
    BY <1>1 DEF Answered
  <2>2. /\ Len(Answered(r)) = Len(r.for)
        /\ \A i \in 1 .. Len(r.for) : Answered(r)[i] = r.for[(Len(r.for) - i) + 1]
    BY <1>0, <2>1, ReverseIs
  <2>3. \A i, j \in 1 .. Len(r.for) :
            i < j => /\ (Len(r.for) - i) + 1 \in 1 .. Len(r.for)
                     /\ (Len(r.for) - j) + 1 \in 1 .. Len(r.for)
                     /\ (Len(r.for) - j) + 1 < (Len(r.for) - i) + 1
    BY <1>0
  <2> QED
    BY <1>0, <1>1, <2>2, <2>3 DEF Ascending
<1>2. CASE ~Batching /\ kind = "merge"
  <2>1. Answered(r) = r.for \o queue
    BY <1>2 DEF Answered
  <2>2. Line = [i \in 1 .. Len(queue) |-> {queue[i]}]
    BY <1>2 DEF Line
  <2>3. \A i \in 1 .. Len(queue) : i \in Nat /\ queue[i] \in Nat /\ Has(Line, i, queue[i])
    BY <1>0, <2>2 DEF Has
  <2>4. \A i, j \in 1 .. Len(queue) : i < j => queue[i] < queue[j]
    BY <2>3 DEF IInv, LineInv, LineInOrder
  <2>5. \A i \in 1 .. Len(r.for) : \A j \in 1 .. Len(queue) : r.for[i] < queue[j]
    <3>1. \A i \in 1 .. Len(r.for) : r.for[i] \in Nat /\ r.for[i] \in Served
      BY <1>0 DEF Served, ToSet
    <3> QED
      BY <2>3, <3>1 DEF IInv, LineInv, RunInOrder
  <2> DEFINE all == r.for \o queue
  <2>6. /\ \A i \in 1 .. Len(r.for) : all[i] = r.for[i]
        /\ \A i \in 1 .. Len(all) :
               i \in 1 .. Len(r.for) \/ (i - Len(r.for) \in 1 .. Len(queue) /\ all[i] = queue[i - Len(r.for)])
    BY <1>0, ConcatIs
  <2> HIDE DEF all
  <2>7. ASSUME NEW i \in 1 .. Len(all), NEW j \in 1 .. Len(all), i < j
        PROVE  all[i] < all[j]
    <3>1. CASE i \in 1 .. Len(r.for) /\ j \in 1 .. Len(r.for)
      BY <1>0, <2>6, <2>7, <3>1 DEF Ascending
    <3>2. CASE i \in 1 .. Len(r.for) /\ j \notin 1 .. Len(r.for)
      BY <2>5, <2>6, <3>2
    <3>3. CASE i \notin 1 .. Len(r.for)
      <4>1. j \notin 1 .. Len(r.for) /\ i - Len(r.for) < j - Len(r.for)
        BY <1>0, <2>7, <3>3
      <4> QED
        BY <2>4, <2>6, <3>3, <4>1
    <3> QED
      BY <3>1, <3>2, <3>3
  <2>8. Answered(r) = all
    BY <2>1 DEF all
  <2> QED
    BY <1>2, <2>7, <2>8
<1>3. CASE ~Batching /\ kind # "merge"
  <2>1. Answered(r) = r.for
    BY <1>0, <1>3 DEF Answered
  <2> QED
    BY <1>0, <1>3, <2>1 DEF Ascending
<1> QED
  BY <1>1, <1>2, <1>3

LEMMA FinishOrder ==
    ASSUME IInv, OrderInv, NEW r \in running, Finish(r)
    PROVE  ResolvedIsAnswered' /\ InTurn'
<1> DEFINE new == Answered(r)
           n == Len(resolved)
<1>0. /\ TypeInv /\ runs \in Nat /\ r.run = runs /\ answer \in [Calls -> 0 .. runs]
      /\ 1 .. calls \subseteq Calls /\ resolved \in Seq(Calls) /\ n \in Nat
      /\ Batching' = Batching /\ resolved' = resolved \o new /\ runs # 0
  <2>1. TypeInv /\ Batching' = Batching /\ resolved' = resolved \o new
    BY DEF IInv, Finish, Resolve, Batching
  <2>2. runs \in Nat /\ r.run = runs /\ answer \in [Calls -> 0 .. runs] /\ runs # 0
    BY <2>1 DEF TypeInv, Calls
  <2>3. resolved \in Seq(Calls) /\ n \in Nat
    BY DEF OrderInv, ResolvedIsAnswered
  <2> QED
    BY <2>1, <2>2, <2>3, CallNumbers
<1>1. /\ \A c \in Calls : answer'[c] = IF c \in AnsweredSet(r) THEN runs ELSE answer[c]
      /\ \A c \in AnsweredSet(r) : c \in Calls /\ answer[c] = 0
  BY <1>0, FinishAnswers
<1>2. new \in Seq(Calls) /\ \A i \in 1 .. Len(new) : new[i] \in AnsweredSet(r)
  <2>1. new \in Seq(Nat) /\ ToSet(new) = AnsweredSet(r)
    BY <1>0, AnsweredIs
  <2>2. \A i \in 1 .. Len(new) : new[i] \in ToSet(new)
    BY <2>1 DEF ToSet
  <2>3. \A i \in 1 .. Len(new) : new[i] \in Calls
    BY <1>1, <2>1, <2>2
  <2> QED
    BY <2>1, <2>2, <2>3
<1>3. /\ resolved' \in Seq(Calls)
      /\ \A i \in 1 .. n : resolved'[i] = resolved[i]
      /\ \A i \in 1 .. Len(resolved') :
             i \in 1 .. n \/ (i - n \in 1 .. Len(new) /\ resolved'[i] = new[i - n])
  BY <1>0, <1>2, ConcatIs
<1>4. \A i \in 1 .. n : /\ resolved[i] \in Calls /\ answer[resolved[i]] # 0
                        /\ answer[resolved[i]] < runs
                        /\ answer'[resolved[i]] = answer[resolved[i]]
  <2>1. \A i \in 1 .. n : resolved[i] \in Calls /\ answer[resolved[i]] # 0
    BY <1>0 DEF OrderInv, ResolvedIsAnswered
  <2>2. \A c \in Calls : answer[c] < runs
    BY <1>0 DEF OrderInv, RunsAscend
  <2> QED
    BY <1>1, <2>1, <2>2
<1>5. \A i \in 1 .. Len(new) : /\ new[i] \in Calls /\ answer[new[i]] = 0 /\ answer'[new[i]] = runs
  BY <1>1, <1>2
<1>6. ASSUME NEW i \in 1 .. Len(new), NEW j \in 1 .. Len(new), i < j
      PROVE  IF Batching THEN new[j] < new[i] ELSE new[i] < new[j]
  BY <1>6, AnsweredInTurn DEF OrderInv
<1>7. \A i \in 1 .. n, j \in 1 .. Len(new) : resolved[i] < new[j]
  <2> SUFFICES ASSUME NEW i \in 1 .. n, NEW j \in 1 .. Len(new) PROVE resolved[i] < new[j]
    OBVIOUS
  <2>1. resolved[i] \in Nat /\ new[j] \in Nat /\ resolved[i] # new[j]
    BY <1>4, <1>5 DEF Calls
  <2>2. new[j] < resolved[i] => answer[new[j]] \in 1 .. answer[resolved[i]]
    BY <1>4, <1>5 DEF IInv, NoLaterRun
  <2>3. ~(new[j] < resolved[i])
    BY <1>5, <2>2
  <2> QED
    BY <2>1, <2>3
<1> HIDE DEF new, n
<1>8. ResolvedIsAnswered'
  <2>1. ASSUME NEW i \in 1 .. Len(resolved') PROVE answer'[resolved'[i]] # 0
    <3>1. CASE i \in 1 .. n
      BY <1>3, <1>4, <3>1
    <3>2. CASE i \notin 1 .. n
      <4>1. i - n \in 1 .. Len(new) /\ resolved'[i] = new[i - n]
        BY <1>3, <3>2
      <4> QED
        BY <1>0, <1>5, <4>1
    <3> QED
      BY <3>1, <3>2
  <2> QED
    BY <1>3, <2>1 DEF ResolvedIsAnswered
<1>9. InTurn'
  <2> SUFFICES ASSUME NEW i \in 1 .. Len(resolved'), NEW j \in 1 .. Len(resolved'), i < j
               PROVE  IF Batching /\ answer'[resolved'[i]] = answer'[resolved'[j]]
                      THEN resolved'[j] < resolved'[i] ELSE resolved'[i] < resolved'[j]
    <3>1. DOMAIN resolved' = 1 .. Len(resolved')
      BY <1>3
    <3>2. (\A i, j \in DOMAIN resolved' :
              i < j => IF Batching' /\ answer'[resolved'[i]] = answer'[resolved'[j]]
                       THEN resolved'[j] < resolved'[i] ELSE resolved'[i] < resolved'[j])
             => InTurn'
      BY DEF InTurn, OneBatch
    <3>3. Batching' = Batching
      BY <1>0
    <3> QED
      BY <3>1, <3>2, <3>3
  <2>1. CASE i \in 1 .. n /\ j \in 1 .. n
    <3>1. IF Batching /\ answer[resolved[i]] = answer[resolved[j]]
          THEN resolved[j] < resolved[i] ELSE resolved[i] < resolved[j]
      <4>1. DOMAIN resolved = 1 .. n
        BY <1>0 DEF n
      <4> QED
        BY <2>1, <4>1 DEF OrderInv, InTurn, OneBatch
    <3> QED
      BY <1>3, <1>4, <2>1, <3>1
  <2>2. CASE i \in 1 .. n /\ j \notin 1 .. n
    <3>1. j - n \in 1 .. Len(new) /\ resolved'[j] = new[j - n] /\ resolved'[i] = resolved[i]
      BY <1>3, <2>2
    <3>2. answer'[resolved'[i]] # answer'[resolved'[j]]
      <4>1. answer'[resolved'[i]] = answer[resolved[i]] /\ answer[resolved[i]] < runs
        BY <1>4, <2>2, <3>1
      <4>2. answer[resolved[i]] \in Nat
        BY <1>0, <1>4, <2>2
      <4>3. answer'[resolved'[j]] = runs
        BY <1>5, <3>1
      <4> QED
        BY <1>0, <4>1, <4>2, <4>3
    <3> QED
      BY <1>7, <2>2, <3>1, <3>2
  <2>3. CASE i \notin 1 .. n
    <3>1. j \notin 1 .. n
      BY <1>0, <2>3
    <3>2. /\ i - n \in 1 .. Len(new) /\ resolved'[i] = new[i - n]
          /\ j - n \in 1 .. Len(new) /\ resolved'[j] = new[j - n]
          /\ i - n < j - n
      BY <1>0, <1>3, <2>3, <3>1
    <3>3. answer'[resolved'[i]] = answer'[resolved'[j]]
      BY <1>5, <3>2
    <3> QED
      BY <1>6, <3>2, <3>3
  <2> QED
    BY <2>1, <2>2, <2>3
<1> QED
  BY <1>8, <1>9

LEMMA OrderStep ==
    ASSUME IInv, OrderInv, [Next]_vars
    PROVE  OrderInv'
<1>0. /\ TypeInv /\ runs \in Nat /\ answer \in [Calls -> 0 .. runs]
      /\ \A r \in running : r.run = runs
  BY DEF IInv, TypeInv
<1>1. CASE Call
  <2>1. UNCHANGED <<kind, running, answer, resolved>>
    BY <1>1 DEF Call
  <2> QED
    BY <1>1, <2>1, CallAscends
    DEF OrderInv, RunsAscend, ResolvedIsAnswered, InTurn, OneBatch, Batching
<1>2. CASE Timeout
  <2>1. UNCHANGED <<kind, running, answer, resolved>> /\ batches' = Append(batches, <<>>)
    BY <1>2 DEF Timeout
  <2>2. batches \in Seq(Seq(Nat)) /\ Len(batches) \in Nat /\ <<>> \in Seq(Nat)
    BY <1>0 DEF TypeInv
  <2>3. /\ Len(batches') = Len(batches) + 1 /\ batches'[Len(batches) + 1] = <<>>
        /\ \A i \in 1 .. Len(batches) : batches'[i] = batches[i]
    BY <2>1, <2>2
  <2>4. Ascending(<<>>)
    BY DEF Ascending
  <2>5. \A i \in 1 .. Len(batches) + 1 : i \in 1 .. Len(batches) \/ i = Len(batches) + 1
    BY <2>2
  <2>6. BatchesAscend'
    BY <2>3, <2>4, <2>5 DEF OrderInv, BatchesAscend
  <2> QED
    BY <2>1, <2>6 DEF OrderInv, RunsAscend, ResolvedIsAnswered, InTurn, OneBatch, Batching
<1>3. CASE Digest
  <2>1. /\ UNCHANGED <<kind, answer, resolved>> /\ Execute(queue) /\ queue # <<>>
        /\ running' = {[run |-> runs + 1, for |-> For(queue)]}
    BY <1>0, <1>3 DEF Digest, TypeInv, IInv, GuardInv, BusyGuards
  <2>2. BatchesAscend' /\ Ascending(For(queue))
    BY <1>0, <2>1, ExecuteAscends DEF OrderInv
  <2>3. RunsAscend'
    BY <1>0, <2>1, <2>2 DEF RunsAscend
  <2> QED
    BY <2>1, <2>2, <2>3 DEF OrderInv, ResolvedIsAnswered, InTurn, OneBatch, Batching
<1>4. ASSUME NEW r \in running, Finish(r) PROVE OrderInv'
  <2>1. ResolvedIsAnswered' /\ InTurn'
    BY <1>4, FinishOrder
  <2>2. running \ {r} = {}
    BY DEF IInv, GuardInv, NoOverlap
  <2>3. answer' \in [Calls -> 0 .. runs]
    BY <1>0, <1>4, AnswerTypes
  <2>4. CASE Waiting # <<>>
    <3>1. /\ Waiting = queue /\ queue # <<>> /\ Execute(queue)
          /\ running' = {[run |-> runs + 1, for |-> For(queue)]}
      BY <1>4, <2>2, <2>4, WaitingIsQueue DEF Finish
    <3>2. BatchesAscend' /\ Ascending(For(queue))
      BY <1>0, <3>1, ExecuteAscends DEF OrderInv
    <3>3. RunsAscend'
      BY <1>0, <2>3, <3>1, <3>2 DEF RunsAscend
    <3> QED
      BY <2>1, <3>2, <3>3 DEF OrderInv
  <2>5. CASE Waiting = <<>>
    <3>1. running' = {} /\ batches' = batches
      BY <1>4, <2>2, <2>5 DEF Finish
    <3> QED
      BY <2>1, <3>1 DEF OrderInv, BatchesAscend, RunsAscend
  <2> QED
    BY <2>4, <2>5
<1>5. ASSUME NEW r \in running, Fail(r) PROVE OrderInv'
  <2>1. UNCHANGED <<kind, batches, answer, resolved>> /\ running' \subseteq running
    BY <1>5 DEF Fail
  <2> QED
    BY <2>1
    DEF OrderInv, BatchesAscend, RunsAscend, ResolvedIsAnswered, InTurn, OneBatch, Batching
<1>6. CASE UNCHANGED vars
  BY <1>6
  DEF vars, OrderInv, BatchesAscend, RunsAscend, ResolvedIsAnswered, InTurn, OneBatch, Batching
<1> QED
  BY <1>1, <1>2, <1>3, <1>4, <1>5, <1>6 DEF Next, Running

LEMMA OrderInit == Init => OrderInv
<1> SUFFICES ASSUME Init PROVE OrderInv
  OBVIOUS
<1>1. /\ resolved = <<>> /\ running = {} /\ batches = <<<<>>>>
  BY DEF Init
<1>2. /\ Len(<<>>) = 0 /\ Len(<<<<>>>>) = 1 /\ <<<<>>>>[1] = <<>> /\ <<>> \in Seq(Calls)
      /\ 1 .. 0 = {} /\ 1 .. 1 = {1}
  OBVIOUS
<1>3. BatchesAscend
  BY <1>1, <1>2 DEF BatchesAscend, Ascending
<1>4. RunsAscend /\ ResolvedIsAnswered /\ InTurn
  BY <1>1, <1>2 DEF RunsAscend, ResolvedIsAnswered, InTurn
<1> QED
  BY <1>3, <1>4 DEF OrderInv

THEOREM Inductive == Spec => [](IInv /\ OrderInv)
<1>1. IInv /\ OrderInv /\ [Next]_vars => IInv' /\ OrderInv'
  BY IInvStep, OrderStep
<1> QED
  BY <1>1, IInvInit, OrderInit, PTL DEF Spec

(***************************************************************************)
(* Every variable of the call manager keeps its type.  In particular f is  *)
(* never called more often than the wrapper, and execute, when it is       *)
(* scheduled, finds something in the queue (asyncCallManagerService.js).   *)
(***************************************************************************)
THEOREM CallTypes == Spec => []TypeOK
<1>1. IInv /\ OrderInv => TypeOK
  <2> SUFFICES ASSUME IInv, OrderInv PROVE TypeOK
    OBVIOUS
  <2>1. Len(queue) \in Nat /\ (queue = <<>> \/ Len(queue) > 0)
    BY DEF IInv, TypeInv
  <2>2. runs \in 0 .. calls
    BY <2>1, ManagerAssumption DEF IInv, TypeInv
  <2>3. Batching => batches # <<>>
    BY <2>1 DEF IInv, TypeInv
  <2> QED
    BY <2>2, <2>3 DEF IInv, TypeInv, GuardInv, BusyGuards, OrderInv, ResolvedIsAnswered, TypeOK
<1> QED
  BY <1>1, Inductive, PTL

(***************************************************************************)
(* Executions of f never overlap, whatever the wrapper and however often   *)
(* and whenever it is called (asyncCallManagerService.js).                 *)
(***************************************************************************)
THEOREM ExecutionsNeverOverlap == Spec => []NoOverlap
BY Inductive, PTL DEF IInv, GuardInv

(***************************************************************************)
(* A call is answered by no later execution than one made after it, and    *)
(* promises are resolved once and in the order of the calls, but within a  *)
(* batch in the opposite order (batch.pop in asyncCallManagerService.js).  *)
(***************************************************************************)
THEOREM AnswersInOrder == Spec => []InOrder
BY Inductive, PTL DEF IInv, OrderInv, InOrder

(***************************************************************************)
(* Unless calls are merged, the execution that answers a call had not      *)
(* begun when the call was made.                                           *)
(***************************************************************************)
THEOREM AnswersAreFresh == Spec => []IsFresh
BY Inductive, PTL DEF IInv
=============================================================================
