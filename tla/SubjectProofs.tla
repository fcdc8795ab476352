--------------------------- MODULE SubjectProofs ----------------------------
(***************************************************************************)
(* Theorems about SubjectPeriods, for any subjects, rows, pauses and       *)
(* number of reloads, with users who do not reload while their period      *)
(* changes or their __paused__ is on its way (~AnyTime).                   *)
(*                                                                         *)
(* First what Only, the handlers of a page, and what is on its way in      *)
(* order are like.  Then the inductive invariant, which says for every     *)
(* subject at which of six stages between two periods it is, and that each *)
(* step of Route and of a browser takes it from stage to stage.  Last what *)
(* a page knows of the others, for the barrier and the pauses.             *)
(***************************************************************************)
EXTENDS SubjectPeriods, SequenceTheorems, FiniteSetTheorems, WellFoundedInduction, TLAPS

(***************************************************************************)
(* A set of natural numbers has a least one: what does not hold of every   *)
(* number fails first at one, so it holds of the number before.            *)
(***************************************************************************)
LEMMA Least ==
    ASSUME NEW T \in SUBSET Nat, T # {}
    PROVE  \E n \in T : \A m \in T : n <= m
<1> DEFINE R == {p \in Nat \X Nat : p[1] < p[2]}
<1>1. IsWellFoundedOn(R, Nat)
    BY NatLessThanWellFounded DEF OpToRel
<1>2. PICK n \in T : \A m \in T : <<m, n>> \notin R
    BY <1>1, WFMin, Zenon
<1>3. ASSUME NEW m \in T PROVE n <= m
    <2>1. m \in Nat /\ n \in Nat
        OBVIOUS
    <2>2. ~(m < n)
        BY <1>2, <2>1
    <2> QED BY <2>1, <2>2
<1> QED BY <1>3

(***************************************************************************)
(* Only(q, K) is the end of a function that is defined from the front of q *)
(* on. That it exists is shown by its least length without one.            *)
(***************************************************************************)
LEMMA OnlyIs ==
    ASSUME NEW q, Len(q) \in Nat, NEW K
    PROVE  \E f : /\ f = [n \in 0 .. Len(q) |->
                            IF n = 0 THEN <<>>
                            ELSE IF q[n] \in K THEN Append(f[n - 1], q[n]) ELSE f[n - 1]]
                  /\ Only(q, K) = f[Len(q)]
<1> DEFINE Body(N, f) == [n \in 0 .. N |->
                            IF n = 0 THEN <<>>
                            ELSE IF q[n] \in K THEN Append(f[n - 1], q[n]) ELSE f[n - 1]]
           g == CHOOSE f : f = Body(Len(q), f)
           T == {N \in Nat : ~\E f : f = Body(N, f)}
<1>1. T = {}
    <2>1. SUFFICES ASSUME T # {} PROVE FALSE
        OBVIOUS
    <2>2. PICK N \in T : \A M \in T : N <= M
        BY <2>1, Least, Zenon
    <2>3. N # 0
        <3>1. [n \in 0 .. 0 |-> <<>>] = Body(0, [n \in 0 .. 0 |-> <<>>])
            OBVIOUS
        <3> QED BY <3>1, <2>2
    <2>4. N - 1 \in Nat /\ N - 1 \notin T
        <3>1. N \in Nat /\ N - 1 \in Nat
            BY <2>2, <2>3
        <3>2. ~(N <= N - 1)
            BY <3>1
        <3> HIDE DEF T
        <3> QED BY <2>2, <3>1, <3>2
    <2>5. PICK h : h = Body(N - 1, h)
        BY <2>4
    <2> DEFINE k == [n \in 0 .. N |-> IF n < N THEN h[n]
                                     ELSE IF q[n] \in K THEN Append(h[n - 1], q[n]) ELSE h[n - 1]]
    <2>6. k = Body(N, k)
        <3>1. ASSUME NEW n \in 0 .. N
              PROVE  k[n] = IF n = 0 THEN <<>>
                            ELSE IF q[n] \in K THEN Append(k[n - 1], q[n]) ELSE k[n - 1]
            <4>1. CASE n < N
                <5>1. n \in 0 .. N - 1 /\ (n # 0 => n - 1 \in 0 .. N /\ n - 1 < N)
                    BY <4>1, <2>2
                <5>2. h[n] = IF n = 0 THEN <<>>
                            ELSE IF q[n] \in K THEN Append(h[n - 1], q[n]) ELSE h[n - 1]
                    BY <2>5, <5>1
                <5> QED BY <5>1, <5>2, <4>1
            <4>2. CASE n = N
                <5>1. n - 1 \in 0 .. N /\ n - 1 < N /\ n # 0 /\ ~(n < N)
                    BY <4>2, <2>2, <2>3
                <5> QED BY <5>1
            <4> QED BY <4>1, <4>2, <2>2
        <3> QED BY <3>1
    <2> QED BY <2>6, <2>2
<1>2. \E f : f = Body(Len(q), f)
    BY <1>1
<1>3. g = Body(Len(q), g)
    BY <1>2, Zenon
<1>4. Only(q, K) = g[Len(q)]
    BY DEF Only
<1> QED BY <1>3, <1>4

(***************************************************************************)
(* Only(q, K) is q read along a strictly increasing h, which goes through  *)
(* the places of q that are in K.                                          *)
(***************************************************************************)
Picks(q, K, r, h) ==
    /\ \A i \in 1 .. Len(r) : h[i] \in DOMAIN q /\ q[h[i]] \in K /\ r[i] = q[h[i]]
    /\ \A i, j \in 1 .. Len(r) : i < j => h[i] < h[j]
    /\ \A n \in DOMAIN q : q[n] \in K => \E i \in 1 .. Len(r) : h[i] = n

\* Only takes places of q in their order, all those whose element is in K.
LEMMA OnlyPicks ==
    ASSUME NEW S, NEW q \in Seq(S), NEW K
    PROVE  /\ Only(q, K) \in Seq(S)
           /\ \E h : Picks(q, K, Only(q, K), h)
<1> DEFINE N == Len(q)
           Goes(n, r) == /\ r \in Seq(S)
                         /\ \E h : /\ \A i \in 1 .. Len(r) : h[i] \in 1 .. n /\ q[h[i]] \in K /\ r[i] = q[h[i]]
                                   /\ \A i, j \in 1 .. Len(r) : i < j => h[i] < h[j]
                                   /\ \A k \in 1 .. n : q[k] \in K => \E i \in 1 .. Len(r) : h[i] = k
<1>1. N \in Nat /\ DOMAIN q = 1 .. N /\ \A n \in 1 .. N : q[n] \in S
    BY LenProperties, ElementOfSeq
<1>2. PICK f : /\ f = [n \in 0 .. N |->
                            IF n = 0 THEN <<>>
                            ELSE IF q[n] \in K THEN Append(f[n - 1], q[n]) ELSE f[n - 1]]
               /\ Only(q, K) = f[N]
    BY <1>1, OnlyIs
<1>3. f[0] = <<>>
    BY <1>1, <1>2
<1>4. ASSUME NEW n \in 1 .. N
      PROVE  f[n] = IF q[n] \in K THEN Append(f[n - 1], q[n]) ELSE f[n - 1]
    <2>1. n \in 0 .. N /\ n # 0
        BY <1>1
    <2> QED BY <1>2, <2>1
<1> HIDE DEF N
<1>5. Goes(0, f[0])
    <2>1. <<>> \in Seq(S) /\ Len(<<>>) = 0
        BY EmptySeq
    <2> QED BY <1>3, <2>1
<1>6. ASSUME NEW n \in 1 .. N, Goes(n - 1, f[n - 1])
      PROVE  Goes(n, f[n])
    <2> DEFINE r == f[n - 1]
    <2>1. r \in Seq(S)
        BY <1>6
    <2>2. PICK h : /\ \A i \in 1 .. Len(r) : h[i] \in 1 .. n - 1 /\ q[h[i]] \in K /\ r[i] = q[h[i]]
                   /\ \A i, j \in 1 .. Len(r) : i < j => h[i] < h[j]
                   /\ \A k \in 1 .. n - 1 : q[k] \in K => \E i \in 1 .. Len(r) : h[i] = k
        BY <1>6
    <2> HIDE DEF r
    <2>3. Len(r) \in Nat /\ n \in Nat
        BY <2>1, LenProperties, <1>1
    <2>4. CASE q[n] \notin K
        <3>1. f[n] = r
            BY <1>4, <2>4 DEF r
        <3>2. \A i \in 1 .. Len(r) : h[i] \in 1 .. n
            BY <2>2, <2>3
        <3>3. \A k \in 1 .. n : q[k] \in K => k \in 1 .. n - 1
            BY <2>4, <2>3
        <3> QED BY <3>1, <3>2, <3>3, <2>1, <2>2
    <2>5. CASE q[n] \in K
        <3> DEFINE t == f[n]
                   g == [i \in 1 .. Len(r) + 1 |-> IF i <= Len(r) THEN h[i] ELSE n]
        <3>1. /\ t = Append(r, q[n]) /\ t \in Seq(S) /\ Len(t) = Len(r) + 1
              /\ \A i \in 1 .. Len(r) : t[i] = r[i]
              /\ t[Len(r) + 1] = q[n]
            <4>1. t = Append(r, q[n]) /\ q[n] \in S
                BY <1>1, <1>4, <2>5 DEF r
            <4> HIDE DEF t
            <4> QED BY <4>1, <2>1, AppendProperties
        <3>2. /\ \A i \in 1 .. Len(r) : g[i] = h[i]
              /\ g[Len(r) + 1] = n
            BY <2>3
        <3> HIDE DEF t, g
        <3>3. ASSUME NEW i \in 1 .. Len(t) PROVE g[i] \in 1 .. n /\ q[g[i]] \in K /\ t[i] = q[g[i]]
            <4>1. CASE i \in 1 .. Len(r)
                BY <4>1, <3>1, <3>2, <2>2, <2>3
            <4>2. CASE i = Len(r) + 1
                BY <4>2, <3>1, <3>2, <2>5, <2>3
            <4> QED BY <4>1, <4>2, <3>1, <2>3
        <3>4. ASSUME NEW i \in 1 .. Len(t), NEW j \in 1 .. Len(t), i < j PROVE g[i] < g[j]
            <4>1. i \in 1 .. Len(r) /\ g[i] = h[i] /\ h[i] \in 1 .. n - 1
                BY <3>4, <3>1, <3>2, <2>2, <2>3
            <4>2. CASE j \in 1 .. Len(r)
                BY <4>1, <4>2, <3>2, <2>2, <3>4
            <4>3. CASE j = Len(r) + 1
                BY <4>1, <4>3, <3>2, <2>3
            <4> QED BY <4>2, <4>3, <3>1, <2>3
        <3>5. ASSUME NEW k \in 1 .. n, q[k] \in K PROVE \E i \in 1 .. Len(t) : g[i] = k
            <4>1. CASE k = n
                BY <4>1, <3>1, <3>2, <2>3
            <4>2. CASE k \in 1 .. n - 1
                <5>1. PICK i \in 1 .. Len(r) : h[i] = k
                    BY <4>2, <3>5, <2>2
                <5> QED BY <5>1, <3>1, <3>2, <2>3
            <4> QED BY <4>1, <4>2, <2>3
        <3>6. t \in Seq(S)
            BY <3>1
        <3>7. Goes(n, t)
            BY <3>3, <3>4, <3>5, <3>6
        <3> QED BY <3>7 DEF t
    <2> QED BY <2>4, <2>5
<1> HIDE DEF Goes
<1>7. Goes(N, f[N])
    <2> DEFINE T == {n \in 0 .. N : ~Goes(n, f[n])}
    <2>1. SUFFICES ASSUME T # {} PROVE FALSE
        BY <1>1
    <2>2. PICK n \in T : \A m \in T : n <= m
        <3>1. T \in SUBSET Nat
            BY <1>1
        <3> HIDE DEF T
        <3> QED BY <2>1, <3>1, Least, Zenon
    <2>3. n \in 0 .. N /\ ~Goes(n, f[n])
        BY <2>2
    <2>4. n # 0
        BY <2>3, <1>5
    <2>5. n \in 1 .. N /\ n - 1 \in 0 .. N /\ ~(n <= n - 1)
        BY <2>3, <2>4, <1>1
    <2>6. n - 1 \notin T
        BY <2>2, <2>5
    <2>7. Goes(n - 1, f[n - 1])
        BY <2>5, <2>6
    <2> QED BY <1>6, <2>3, <2>5, <2>7
<1>8. Goes(N, Only(q, K))
    BY <1>2, <1>7
<1> QED BY <1>1, <1>8 DEF Picks, Goes

(***************************************************************************)
(* Only keeps exactly what is in K.                                        *)
(***************************************************************************)
LEMMA OnlyKeeps ==
    ASSUME NEW S, NEW q \in Seq(S), NEW K
    PROVE  /\ Only(q, K) \in Seq(S)
           /\ \A i \in DOMAIN Only(q, K) : \E n \in DOMAIN q : q[n] \in K /\ Only(q, K)[i] = q[n]
           /\ \A n \in DOMAIN q : q[n] \in K => \E i \in DOMAIN Only(q, K) : Only(q, K)[i] = q[n]
<1> DEFINE r == Only(q, K)
<1>1. r \in Seq(S) /\ DOMAIN r = 1 .. Len(r)
    BY OnlyPicks, LenProperties
<1>2. PICK h : Picks(q, K, r, h)
    BY OnlyPicks
<1> HIDE DEF r
<1>3. \A i \in DOMAIN r : \E n \in DOMAIN q : q[n] \in K /\ r[i] = q[n]
    BY <1>1, <1>2 DEF Picks
<1>4. \A n \in DOMAIN q : q[n] \in K => \E i \in DOMAIN r : r[i] = q[n]
    BY <1>1, <1>2 DEF Picks
<1> QED BY <1>1, <1>3, <1>4 DEF r

(***************************************************************************)
(* Only keeps the order: if every x comes before every y in q, it does so  *)
(* in what is left of q.                                                   *)
(***************************************************************************)
Before(q, x, y) ==
    \A i \in DOMAIN q : \A j \in DOMAIN q : (q[i] = x /\ q[j] = y) => i < j

\* What comes before y in q comes before y in what Only picks.
LEMMA OnlyInOrder ==
    ASSUME NEW S, NEW q \in Seq(S), NEW K, NEW x, NEW y, x # y, Before(q, x, y)
    PROVE  Before(Only(q, K), x, y)
<1> DEFINE r == Only(q, K)
<1>1. r \in Seq(S) /\ DOMAIN r = 1 .. Len(r) /\ Len(r) \in Nat /\ Len(q) \in Nat /\ DOMAIN q = 1 .. Len(q)
    BY OnlyPicks, LenProperties
<1>2. PICK h : Picks(q, K, r, h)
    BY OnlyPicks
<1> HIDE DEF r
<1>3. ASSUME NEW i \in DOMAIN r, NEW j \in DOMAIN r, r[i] = x, r[j] = y
      PROVE  i < j
    <2>1. /\ h[i] \in DOMAIN q /\ h[j] \in DOMAIN q /\ q[h[i]] = x /\ q[h[j]] = y
        BY <1>1, <1>2, <1>3 DEF Picks
    <2>2. h[i] < h[j]
        BY <2>1 DEF Before
    <2>3. ~(j < i)
        <3>1. j < i => h[j] < h[i]
            BY <1>1, <1>2 DEF Picks
        <3> QED BY <3>1, <2>1, <2>2, <1>1
    <2>4. i # j
        BY <1>3
    <2> QED BY <2>3, <2>4, <1>1
<1>4. Before(r, x, y)
    BY <1>3 DEF Before
<1> QED BY <1>4 DEF r

-----------------------------------------------------------------------------
(* The types                                                               *)

Change == {"_next_period", "__set_period__", "__set_page__"}

PlainKeys == {"__page_loaded__", "_at_barrier", "__paused__", "__resumed__"}

PageNames == {"None", "Blank", "Wait", "Start", "Finish"}

\* What Route has handled, or will.
Routed ==
    {m \in [key: Change \cup PlainKeys \cup {"__resume__", "resume"}, sender: Subjects \cup {"admin"},
            nonce: {1}, period: Periods, group: {0, Group}, stateUpdate: BOOLEAN, time: {0},
            value: Periods \cup {Undefined}] :
        /\ m.key = "_at_barrier" => m.value = m.period
        /\ m.key # "__resume__" => m.value \in Periods
        /\ m.stateUpdate => m.key \in Change
        /\ m.key # "resume" => m.sender \in Subjects}

\* What the page of s sends: what turns it to another period, and the rest.
Plain(s) == {m \in Routed : m.sender = s /\ m.key \in PlainKeys}

Sent(s) == {m \in Routed : m.sender = s /\ m.key \in PlainKeys \cup Change}

\* A page of s that has sent nothing but plain messages.
PageOf(s) ==
    [name: PageNames, sync: BOOLEAN, reloading: BOOLEAN, isReload: BOOLEAN,
     period: Periods \cup {Undefined}, periods: [Subjects -> Periods \cup {Undefined}],
     queue: Seq(Plain(s)), out: Seq(Plain(s)), held: Seq(Plain(s)),
     enabled: BOOLEAN, broken: BOOLEAN, loaded: SUBSET Subjects,
     deferred: SUBSET Periods, received: [Periods -> SUBSET Subjects], pause: SUBSET Paused,
     ranAt: Periods \cup {Undefined}, timer: BOOLEAN, asked: BOOLEAN]

\* The periods and the names.
LEMMA Basics ==
    /\ Rows \in Nat /\ Periods \subseteq Nat /\ Undefined \notin Periods /\ 0 \in Periods
    /\ Paused \subseteq Periods /\ 0 \notin Paused /\ "admin" \notin Subjects
BY PeriodsAssumption, NamesAssumption DEF Periods, Undefined, Observers

-----------------------------------------------------------------------------
(* The handlers of a page                                                  *)

\* Nothing but the mail of the page changes.
Steady(p, r) ==
    /\ r.name = p.name /\ r.sync = p.sync /\ r.reloading = p.reloading /\ r.isReload = p.isReload
    /\ r.period = p.period /\ r.periods = p.periods /\ r.deferred = p.deferred
    /\ r.received = p.received /\ r.pause = p.pause
    /\ r.ranAt = p.ranAt /\ r.timer = p.timer /\ r.asked = p.asked

\* What a page sends in a period goes over the wire as it is.
LEMMA PlainOnWire ==
    ASSUME NEW s, NEW m \in Plain(s)
    PROVE  OnWire(m) = m
BY Basics DEF Plain, Routed, OnWire

(***************************************************************************)
(* rs.send and rw.send put a message in the queue or on its way, and       *)
(* change nothing else.                                                    *)
(***************************************************************************)
LEMMA SendPlain ==
    ASSUME NEW s, NEW p \in PageOf(s), NEW m \in Plain(s)
    PROVE  LET r == Send(p, s, m)
           IN  /\ r \in PageOf(s) /\ Steady(p, r) /\ r.held = p.held
               /\ p.sync => r.out = p.out
               /\ ~p.sync => r.queue = p.queue
<1>1. OnWire(m) = m
    BY PlainOnWire
<1>2. Append(p.out, m) \in Seq(Plain(s)) /\ Append(p.queue, m) \in Seq(Plain(s))
    BY AppendProperties DEF PageOf
<1> QED BY <1>1, <1>2 DEF Send, SyncSend, DefaultSend, PageOf, Steady

\* So does rs._send, or it holds the message back.
LEMMA ScriptSendPlain ==
    ASSUME NEW s, NEW p \in PageOf(s), NEW m \in Plain(s)
    PROVE  LET r == ScriptSend(p, s, m)
           IN  r \in PageOf(s) /\ Steady(p, r)
<1>1. Append(p.held, m) \in Seq(Plain(s))
    BY AppendProperties DEF PageOf
<1>2. CASE p.enabled
    BY <1>2, SendPlain DEF ScriptSend
<1>3. CASE ~p.enabled
    BY <1>1, <1>3 DEF ScriptSend, PageOf, Steady
<1> QED BY <1>2, <1>3

\* rs._enable_messaging sends what has been held back, if anything.
LEMMA EnableMessagingPlain ==
    ASSUME NEW s, NEW p \in PageOf(s)
    PROVE  LET r == EnableMessaging(p, s)
           IN  /\ r \in PageOf(s) /\ Steady(p, r)
               /\ p.held = <<>> => r.held = <<>> /\ r.out = p.out /\ r.queue = p.queue
<1> DEFINE sent == [i \in DOMAIN p.held |-> OnWire(p.held[i])]
           queueable == {m \in ToSet(p.held) : IsQueueable(p, s, m)}
           kept == Only(p.held, queueable)
<1>1. p.held \in Seq(Plain(s)) /\ DOMAIN p.held = 1 .. Len(p.held) /\ Len(p.held) \in Nat
    BY LenProperties DEF PageOf
<1>2. \A i \in DOMAIN p.held : p.held[i] \in Plain(s) /\ OnWire(p.held[i]) = p.held[i]
    BY <1>1, ElementOfSeq, PlainOnWire
<1>3. sent = [i \in DOMAIN p.held |-> p.held[i]]
    BY <1>2
<1>4. sent = p.held
    BY <1>1, <1>3
<1>5. kept \in Seq(Plain(s))
    BY <1>1, OnlyKeeps
<1>6. p.held = <<>> => kept = <<>>
    <2>1. SUFFICES ASSUME p.held = <<>> PROVE kept = <<>>
        OBVIOUS
    <2>2. DOMAIN p.held = {}
        BY <2>1, EmptySeq, <1>1
    <2> HIDE DEF queueable
    <2>3. DOMAIN kept = {}
        BY <2>2, <1>1, OnlyKeeps
    <2> HIDE DEF kept
    <2>4. Len(kept) \in Nat /\ DOMAIN kept = 1 .. Len(kept)
        BY <1>5, LenProperties
    <2>5. Len(kept) = 0
        BY <2>3, <2>4
    <2> QED BY <2>5, <1>5, EmptySeq
<1>7. /\ p.queue \o kept \in Seq(Plain(s)) /\ p.out \o p.held \in Seq(Plain(s))
      /\ <<>> \in Seq(Plain(s))
    BY <1>1, <1>5, ConcatProperties, EmptySeq DEF PageOf
<1>8. p.held = <<>> => p.queue \o kept = p.queue /\ p.out \o p.held = p.out
    BY <1>6, ConcatEmptySeq DEF PageOf
<1> DEFINE e == [p EXCEPT !.enabled = TRUE, !.held = <<>>]
<1>9. EnableMessaging(p, s) = IF p.sync THEN [e EXCEPT !.queue = @ \o kept]
                                        ELSE [e EXCEPT !.out = @ \o p.held]
    <2>1. EnableMessaging(p, s) = IF p.sync THEN [e EXCEPT !.queue = @ \o kept]
                                           ELSE [e EXCEPT !.out = @ \o sent]
        BY DEF EnableMessaging
    <2> HIDE DEF kept, sent, e
    <2> QED BY <1>4, <2>1
<1> HIDE DEF kept, sent
<1>10. /\ e \in PageOf(s) /\ Steady(p, e) /\ e.held = <<>> /\ e.out = p.out /\ e.queue = p.queue
    BY <1>7 DEF PageOf, Steady
<1> HIDE DEF e
<1>11. CASE p.sync
    <2> DEFINE k == p.queue \o kept
               r == [e EXCEPT !.queue = k]
    <2>1. EnableMessaging(p, s) = r
        BY <1>9, <1>10, <1>11
    <2>2. k \in Seq(Plain(s)) /\ (p.held = <<>> => k = p.queue)
        BY <1>7, <1>8
    <2> HIDE DEF k
    <2>3. r \in PageOf(s)
        BY <1>10, <2>2 DEF PageOf
    <2>4. Steady(e, r) /\ r.held = e.held /\ r.out = e.out /\ r.queue = k
        BY <1>10 DEF PageOf, Steady
    <2> HIDE DEF r
    <2>5. Steady(p, r)
        BY <1>10, <2>4 DEF Steady
    <2> QED BY <1>10, <2>1, <2>2, <2>3, <2>4, <2>5
<1>12. CASE ~p.sync
    <2> DEFINE k == p.out \o p.held
               r == [e EXCEPT !.out = k]
    <2>1. EnableMessaging(p, s) = r
        BY <1>9, <1>10, <1>12
    <2>2. k \in Seq(Plain(s)) /\ (p.held = <<>> => k = p.out)
        BY <1>7, <1>8
    <2> HIDE DEF k
    <2>3. r \in PageOf(s)
        BY <1>10, <2>2 DEF PageOf
    <2>4. Steady(e, r) /\ r.held = e.held /\ r.out = k /\ r.queue = e.queue
        BY <1>10 DEF PageOf, Steady
    <2> HIDE DEF r
    <2>5. Steady(p, r)
        BY <1>10, <2>4 DEF Steady
    <2> QED BY <1>10, <2>1, <2>2, <2>3, <2>4, <2>5
<1> QED BY <1>11, <1>12

(***************************************************************************)
(* What StartPeriod does to a page: nothing when the scripts have started, *)
(* and otherwise they start in the page's period.                          *)
(***************************************************************************)
Apart(p, r) ==
    /\ r.name = p.name /\ r.sync = p.sync /\ r.reloading = p.reloading
    /\ r.period = p.period /\ r.periods = p.periods

SameRun(p, r) == r.ranAt = p.ranAt /\ r.timer = p.timer /\ r.asked = p.asked

Started(p, r) ==
    /\ p.ranAt = Undefined /\ p.period \in Periods /\ r.ranAt = p.period
    /\ r.timer = (p.timer \/ p.name = "Wait") /\ r.asked = (p.asked \/ p.name = "Wait")

\* rs._start_period starts the scripts in the period of the page, once.
LEMMA StartPeriodIs ==
    ASSUME NEW s, NEW p \in PageOf(s), p.period \in Periods
    PROVE  LET r == StartPeriod(p)
           IN  /\ r \in PageOf(s) /\ Apart(p, r) /\ r.isReload = p.isReload
               /\ r.deferred = p.deferred /\ r.received = p.received /\ r.pause = p.pause
               /\ r.out = p.out /\ r.queue = p.queue /\ r.held = p.held
               /\ SameRun(p, r) \/ Started(p, r)
<1>1. CASE p.ranAt # Undefined
    BY <1>1 DEF StartPeriod, Apart, SameRun
<1>2. CASE p.ranAt = Undefined /\ p.name = "Wait"
    BY <1>2 DEF StartPeriod, NextPeriod, Apart, Started, PageOf
<1>3. CASE p.ranAt = Undefined /\ p.name # "Wait"
    BY <1>3 DEF StartPeriod, Apart, Started, PageOf
<1> QED BY <1>1, <1>2, <1>3

\* Behind the barrier the scripts start, unless the period is paused.
LEMMA PassBarrierIs ==
    ASSUME NEW s \in Subjects, NEW p \in PageOf(s), p.period \in Periods
    PROVE  LET r == PassBarrier(p, s)
           IN  /\ r \in PageOf(s) /\ Apart(p, r) /\ r.isReload = p.isReload
               /\ r.deferred = p.deferred /\ r.received = p.received /\ r.pause = p.pause
               /\ SameRun(p, r) \/ (Started(p, r) /\ p.period \notin p.pause)
<1>1. CASE p.period \in p.pause
    <2> DEFINE paused == Message("__paused__", s, p.period, Group, FALSE, p.period)
               r == Send(p, s, paused)
    <2>1. paused \in Plain(s)
        BY Basics DEF Message, Plain, Routed, PlainKeys, Change, Group
    <2>2. PassBarrier(p, s) = r
        BY <1>1 DEF PassBarrier
    <2> HIDE DEF paused
    <2>3. r \in PageOf(s) /\ Steady(p, r)
        BY <2>1, SendPlain
    <2> HIDE DEF r
    <2> QED BY <2>2, <2>3 DEF Steady, Apart, SameRun
<1>2. CASE p.period \notin p.pause
    BY <1>2, StartPeriodIs DEF PassBarrier
<1> QED BY <1>1, <1>2

(***************************************************************************)
(* The _on_load barrier opens for a page at the arrival of the last.       *)
(***************************************************************************)
Opens(p, m) ==
    /\ m.key = "_at_barrier" /\ m.value = p.period /\ p.period \in p.deferred
    /\ p.period \notin p.pause
    /\ \A t \in Subjects : t = m.sender \/ t \in p.received[p.period]

(***************************************************************************)
(* An _at_barrier is counted for its sender and its period, and starts the *)
(* scripts only if the barrier of the page's period opens.                 *)
(***************************************************************************)
LEMMA AtBarrierIs ==
    ASSUME NEW s \in Subjects, NEW p \in PageOf(s), NEW m \in Routed, m.key = "_at_barrier",
           p.ranAt = Undefined => p.deferred \subseteq {p.period}
    PROVE  LET r == AtBarrier(p, s, m)
           IN  /\ r \in PageOf(s) /\ Apart(p, r) /\ r.isReload = p.isReload
               /\ r.deferred \subseteq p.deferred /\ r.pause = p.pause
               /\ \A k \in Periods : \A t \in r.received[k] :
                      t \in p.received[k] \/ (t = m.sender /\ k = m.value)
               /\ SameRun(p, r) \/ (Started(p, r) /\ Opens(p, m))
               /\ p.deferred = {} => r = [p EXCEPT !.received[m.value] = @ \cup {m.sender}]
<1> DEFINE a == [p EXCEPT !.received[m.value] = @ \cup {m.sender}]
           b == [a EXCEPT !.deferred = @ \ {m.value}, !.received[m.value] = {}]
<1>1. m.value \in Periods /\ m.sender \in Subjects
    BY DEF Routed
<1>2. /\ a \in PageOf(s) /\ Apart(p, a) /\ a.isReload = p.isReload
      /\ a.deferred = p.deferred /\ a.pause = p.pause /\ SameRun(p, a)
      /\ \A k \in Periods : a.received[k] = IF k = m.value THEN p.received[k] \cup {m.sender} ELSE p.received[k]
    BY <1>1 DEF PageOf, Apart, SameRun
<1>3. AtBarrier(p, s, m) = IF m.value \in a.deferred /\ Subjects \subseteq a.received[m.value]
                           THEN PassBarrier(b, s) ELSE a
    BY DEF AtBarrier, CheckBarrier
<1>4. CASE ~(m.value \in a.deferred /\ Subjects \subseteq a.received[m.value])
    <2>1. AtBarrier(p, s, m) = a
        BY <1>3, <1>4
    <2> HIDE DEF b
    <2>2. \A k \in Periods : \A t \in a.received[k] : t \in p.received[k] \/ (t = m.sender /\ k = m.value)
        BY <1>2
    <2> QED BY <1>2, <2>1, <2>2
<1>5. CASE m.value \in a.deferred /\ Subjects \subseteq a.received[m.value]
    <2>1. /\ b \in PageOf(s) /\ Apart(a, b) /\ b.isReload = a.isReload
          /\ b.deferred \subseteq a.deferred /\ b.pause = a.pause /\ SameRun(a, b)
          /\ \A k \in Periods : b.received[k] \subseteq a.received[k]
        <3> HIDE DEF a
        <3> QED BY <1>1, <1>2 DEF PageOf, Apart, SameRun
    <2>2. AtBarrier(p, s, m) = PassBarrier(b, s)
        BY <1>3, <1>5
    <2> HIDE DEF a, b
    <2>3. /\ p.deferred # {} /\ m.value \in p.deferred
          /\ \A t \in Subjects : t = m.sender \/ t \in p.received[m.value]
        BY <1>1, <1>2, <1>5
    <2>4. \A k \in Periods : \A t \in b.received[k] : t \in p.received[k] \/ (t = m.sender /\ k = m.value)
        BY <1>2, <2>1
    <2>5. CASE p.ranAt = Undefined
        <3>1. p.period = m.value /\ b.period \in Periods
            BY <1>1, <1>2, <2>1, <2>3, <2>5 DEF Apart
        <3> DEFINE r == PassBarrier(b, s)
        <3>2. /\ r \in PageOf(s) /\ Apart(b, r) /\ r.isReload = b.isReload
              /\ r.deferred = b.deferred /\ r.received = b.received /\ r.pause = b.pause
              /\ SameRun(b, r) \/ (Started(b, r) /\ b.period \notin b.pause)
            BY <2>1, <3>1, PassBarrierIs
        <3> HIDE DEF r
        <3>3. SameRun(p, r) \/ (Started(p, r) /\ p.period \notin p.pause)
            BY <1>2, <2>1, <3>2 DEF Apart, SameRun, Started
        <3>4. Started(p, r) /\ p.period \notin p.pause => Opens(p, m)
            BY <2>3, <3>1, <1>1 DEF Opens
        <3>5. Apart(p, r) /\ r.isReload = p.isReload /\ r.deferred \subseteq p.deferred /\ r.pause = p.pause
            BY <1>2, <2>1, <3>2 DEF Apart
        <3> QED BY <2>2, <2>3, <2>4, <3>2, <3>3, <3>4, <3>5 DEF r
    <2>6. CASE p.ranAt # Undefined
        <3> DEFINE r == PassBarrier(b, s)
        <3>1. /\ r \in PageOf(s) /\ Apart(b, r) /\ r.isReload = b.isReload
              /\ r.deferred = b.deferred /\ r.received = b.received /\ r.pause = b.pause
              /\ SameRun(b, r)
            <4>1. CASE b.period \in Periods
                BY <4>1, <2>1, <1>2, <2>6, PassBarrierIs DEF Started, SameRun
            <4>2. CASE b.period \notin Periods
                <5>1. b.period \notin b.pause
                    BY <4>2, <2>1, Basics DEF PageOf
                <5>2. b.ranAt # Undefined
                    BY <1>2, <2>1, <2>6 DEF SameRun
                <5>3. r = b
                    BY <5>1, <5>2 DEF PassBarrier, StartPeriod
                <5> QED BY <5>3, <2>1 DEF Apart, SameRun
            <4> QED BY <4>1, <4>2
        <3> HIDE DEF r
        <3>2. /\ Apart(p, r) /\ r.isReload = p.isReload /\ r.deferred \subseteq p.deferred /\ r.pause = p.pause
              /\ SameRun(p, r)
            BY <1>2, <2>1, <3>1 DEF Apart, SameRun
        <3> QED BY <2>2, <2>3, <2>4, <3>1, <3>2 DEF r
    <2> QED BY <2>5, <2>6
<1> QED BY <1>4, <1>5

(***************************************************************************)
(* A __page_loaded__ starts nothing; only the page's own, for its own      *)
(* period, takes it to a barrier.                                          *)
(***************************************************************************)
LEMMA PageLoadedIs ==
    ASSUME NEW s \in Subjects, NEW p \in PageOf(s), NEW m \in Routed, m.key = "__page_loaded__"
    PROVE  LET r == PageLoaded(p, s, m)
           IN  /\ r \in PageOf(s) /\ Apart(p, r) /\ SameRun(p, r)
               /\ r.received = p.received /\ r.pause = p.pause
               /\ r.isReload = (p.isReload \/ (p.sync /\ m.sender = s /\ p.period \in {Undefined, m.period}))
               /\ r.deferred \subseteq p.deferred \cup {p.period}
               /\ (m.sender # s \/ m.period # p.period) =>
                     /\ r.deferred = p.deferred
                     /\ p.held = <<>> => r.held = <<>> /\ r.out = p.out /\ r.queue = p.queue
<1> DEFINE core == CorePageLoaded(p, s, m)
           known == m.period = p.periods[m.sender]
           counted == IF known THEN [core EXCEPT !.loaded = @ \cup {m.sender}] ELSE core
           all == known /\ counted.loaded = Subjects
           ready == IF all THEN EnableMessaging(counted, s) ELSE counted
           waiting == [ready EXCEPT !.deferred = @ \cup {p.period}]
           arrival == Message("_at_barrier", s, p.period, Group, FALSE, p.period)
<1>1. m.sender \in Subjects /\ m.period \in Periods
    BY DEF Routed
<1>2. /\ core \in PageOf(s) /\ Steady([p EXCEPT !.isReload = core.isReload], core)
      /\ core.isReload = (p.isReload \/ (p.sync /\ m.sender = s /\ p.period \in {Undefined, m.period}))
      /\ core.out = p.out /\ core.queue = p.queue /\ core.held = p.held
    BY DEF CorePageLoaded, PageOf, Steady
<1>3. /\ Apart(p, core) /\ SameRun(p, core) /\ core.received = p.received /\ core.pause = p.pause
      /\ core.deferred = p.deferred
    BY <1>2 DEF PageOf, Steady, Apart, SameRun
<1> HIDE DEF core
<1>4. /\ counted \in PageOf(s) /\ Steady(core, counted)
      /\ counted.out = core.out /\ counted.queue = core.queue /\ counted.held = core.held
    BY <1>1, <1>2 DEF PageOf, Steady
<1>5. PageLoaded(p, s, m) = IF all /\ p.broken THEN counted
                            ELSE IF m.sender = s /\ m.period = p.period
                                 THEN ScriptSend(waiting, s, arrival) ELSE ready
    BY DEF PageLoaded, core
<1> HIDE DEF known, counted
<1>6. /\ ready \in PageOf(s) /\ Steady(counted, ready)
      /\ counted.held = <<>> => ready.held = <<>> /\ ready.out = counted.out /\ ready.queue = counted.queue
    <2>1. CASE all
        <3>1. ready = EnableMessaging(counted, s)
            BY <2>1
        <3> HIDE DEF ready
        <3> QED BY <3>1, <1>4, EnableMessagingPlain
    <2>2. CASE ~all
        BY <2>2, <1>4 DEF Steady
    <2> QED BY <2>1, <2>2
<1> HIDE DEF all, ready, waiting, arrival
<1>7. CASE all /\ p.broken
    <2>1. PageLoaded(p, s, m) = counted
        BY <1>5, <1>7
    <2> QED BY <2>1, <1>2, <1>3, <1>4 DEF Steady, Apart, SameRun
<1>8. CASE ~(all /\ p.broken) /\ ~(m.sender = s /\ m.period = p.period)
    <2>1. PageLoaded(p, s, m) = ready
        BY <1>5, <1>8
    <2> QED BY <2>1, <1>2, <1>3, <1>4, <1>6 DEF Steady, Apart, SameRun
<1>9. CASE ~(all /\ p.broken) /\ m.sender = s /\ m.period = p.period
    <2>1. PageLoaded(p, s, m) = ScriptSend(waiting, s, arrival)
        BY <1>5, <1>9
    <2>2. arrival \in Plain(s)
        BY <1>1, <1>9, Basics DEF arrival, Message, Plain, Routed, PlainKeys, Change, Group
    <2>3. /\ waiting \in PageOf(s) /\ waiting.deferred = ready.deferred \cup {p.period}
          /\ Apart(ready, waiting) /\ SameRun(ready, waiting)
          /\ waiting.received = ready.received /\ waiting.pause = ready.pause
          /\ waiting.isReload = ready.isReload
        BY <1>1, <1>6, <1>9 DEF waiting, PageOf, Apart, SameRun
    <2> DEFINE r == ScriptSend(waiting, s, arrival)
    <2>4. r \in PageOf(s) /\ Steady(waiting, r)
        BY <2>2, <2>3, ScriptSendPlain
    <2> HIDE DEF r
    <2>5. /\ Apart(p, r) /\ SameRun(p, r) /\ r.received = p.received /\ r.pause = p.pause
          /\ r.isReload = core.isReload /\ r.deferred = p.deferred \cup {p.period}
        BY <1>3, <1>4, <1>6, <2>3, <2>4 DEF Steady, Apart, SameRun
    <2> QED BY <2>1, <2>4, <2>5, <1>2, <1>9 DEF r
<1> QED BY <1>7, <1>8, <1>9

(***************************************************************************)
(* A __resume__ ends the pause of its period and starts the scripts only   *)
(* if that is the period of the page.                                      *)
(***************************************************************************)
LEMMA ResumeIs ==
    ASSUME NEW s \in Subjects, NEW p \in PageOf(s), NEW m \in Routed, m.key = "__resume__"
    PROVE  LET r == Resume(p, s, m)
           IN  /\ r \in PageOf(s) /\ Apart(p, r) /\ r.isReload = p.isReload
               /\ r.deferred = p.deferred /\ r.received = p.received
               /\ r.pause \subseteq p.pause
               /\ \A v \in p.pause : v \notin r.pause => m.sender = s /\ m.value = v
               /\ SameRun(p, r) \/ (Started(p, r) /\ m.sender = s /\ m.value = p.period /\ p.period \in p.pause)
               /\ p.period \notin Paused => r.out = p.out /\ r.queue = p.queue /\ r.held = p.held
<1> DEFINE q == [p EXCEPT !.pause = @ \ {m.value}]
           resumed == Message("__resumed__", s, p.period, Group, FALSE, p.period)
<1>1. CASE m.sender # s \/ m.value \notin p.pause
    BY <1>1 DEF Resume, Apart, SameRun
<1>2. CASE m.sender = s /\ m.value \in p.pause
    <2>1. /\ q \in PageOf(s) /\ Apart(p, q) /\ SameRun(p, q) /\ q.isReload = p.isReload
          /\ q.deferred = p.deferred /\ q.received = p.received /\ q.pause = p.pause \ {m.value}
          /\ q.out = p.out /\ q.queue = p.queue /\ q.held = p.held
        BY DEF PageOf, Apart, SameRun
    <2>2. Resume(p, s, m) = IF p.period # m.value THEN q ELSE ScriptSend(StartPeriod(q), s, resumed)
        BY <1>2 DEF Resume
    <2> HIDE DEF q, resumed
    <2>3. CASE p.period # m.value
        BY <1>2, <2>1, <2>2, <2>3
    <2>4. CASE p.period = m.value
        <3>1. p.period \in Periods /\ p.period \in Paused /\ q.period = p.period
            BY <1>2, <2>1, <2>4, Basics DEF PageOf, Apart
        <3>2. resumed \in Plain(s)
            BY <3>1, Basics DEF resumed, Message, Plain, Routed, PlainKeys, Change, Group
        <3> DEFINE t == StartPeriod(q)
        <3>3. /\ t \in PageOf(s) /\ Apart(q, t) /\ t.isReload = q.isReload
              /\ t.deferred = q.deferred /\ t.received = q.received /\ t.pause = q.pause
              /\ SameRun(q, t) \/ Started(q, t)
            BY <2>1, <3>1, StartPeriodIs
        <3> HIDE DEF t
        <3> DEFINE r == ScriptSend(t, s, resumed)
        <3>4. r \in PageOf(s) /\ Steady(t, r)
            BY <3>2, <3>3, ScriptSendPlain
        <3>5. Resume(p, s, m) = r
            BY <2>2, <2>4 DEF t
        <3> HIDE DEF r
        <3>6. SameRun(p, r) \/ Started(p, r)
            BY <2>1, <3>3, <3>4 DEF Steady, Apart, SameRun, Started
        <3>7. /\ Apart(p, r) /\ r.isReload = p.isReload
              /\ r.deferred = p.deferred /\ r.received = p.received /\ r.pause = p.pause \ {m.value}
            BY <2>1, <3>3, <3>4 DEF Steady, Apart
        <3> QED BY <1>2, <2>4, <3>1, <3>4, <3>5, <3>6, <3>7
    <2> QED BY <2>3, <2>4
<1> QED BY <1>1, <1>2

\* What Deduplicate leaves of the queue q.
Without(q, m) == RemoveFirstMatch(q, LAMBDA e : SameMsgId(e, m))

\* The queue without the message that a replay has brought back.
LEMMA WithoutIs ==
    ASSUME NEW S, NEW q \in Seq(S), NEW m
    PROVE  Without(q, m) \in Seq(S) /\ (q = <<>> => Without(q, m) = <<>>)
<1> DEFINE I == {i \in 1 .. Len(q) : SameMsgId(q[i], m)}
           r == Without(q, m)
<1>1. Len(q) \in Nat /\ (q = <<>> => Len(q) = 0) /\ \A i \in 1 .. Len(q) : q[i] \in S
    BY LenProperties, EmptySeq, ElementOfSeq
<1>2. CASE I = {}
    BY <1>2 DEF Without, RemoveFirstMatch
<1>3. CASE I # {}
    <2>1. r = SubSeq(q, 1, Min(I) - 1) \o SubSeq(q, Min(I) + 1, Len(q))
        BY <1>3 DEF Without, RemoveFirstMatch, RemoveAt, SelectInSeq
    <2>2. Min(I) \in I
        <3>1. I \in SUBSET Nat
            OBVIOUS
        <3> HIDE DEF I
        <3>2. \E x \in I : \A y \in I : x <= y
            BY <1>3, <3>1, Least, Zenon
        <3> QED BY <3>2 DEF Min
    <2>3. Min(I) \in 1 .. Len(q)
        BY <2>2
    <2> HIDE DEF I
    <2>4. /\ \A i \in 1 .. Min(I) - 1 : q[i] \in S
          /\ \A i \in Min(I) + 1 .. Len(q) : q[i] \in S
        BY <1>1, <2>3
    <2>5. SubSeq(q, 1, Min(I) - 1) \in Seq(S) /\ SubSeq(q, Min(I) + 1, Len(q)) \in Seq(S)
        BY <1>1, <2>3, <2>4, SubSeqProperties
    <2>6. r \in Seq(S)
        BY <2>1, <2>5, ConcatProperties
    <2> QED BY <1>1, <2>3, <2>6
<1> QED BY <1>2, <1>3

\* Deduplicating takes messages from the queue during a replay only.
LEMMA DeduplicateIs ==
    ASSUME NEW s, NEW p \in PageOf(s), NEW m
    PROVE  LET r == Deduplicate(p, m)
           IN  /\ r \in PageOf(s) /\ Steady(p, r) /\ r.out = p.out /\ r.held = p.held
               /\ p.queue = <<>> => r.queue = <<>>
               /\ ~p.sync => r = p
<1>1. Deduplicate(p, m) = IF p.sync THEN [p EXCEPT !.queue = Without(p.queue, m)] ELSE p
    BY DEF Deduplicate, Without
<1>2. Without(p.queue, m) \in Seq(Plain(s)) /\ (p.queue = <<>> => Without(p.queue, m) = <<>>)
    BY WithoutIs DEF PageOf
<1>3. CASE p.sync
    BY <1>1, <1>2, <1>3 DEF PageOf, Steady
<1>4. CASE ~p.sync
    BY <1>1, <1>4 DEF Steady
<1> QED BY <1>3, <1>4

\* m takes s to another period, or is part of it.
Turning(m, s) == m.sender = s /\ m.key \in Change

(***************************************************************************)
(* What a message that does not turn the page of s does to it: the scripts *)
(* may start in the page's period, behind the barrier or by a resume.      *)
(***************************************************************************)
Resumes1(s, p, m) ==
    m.key = "__resume__" /\ m.sender = s /\ m.value = p.period /\ p.period \in p.pause

Calm(s, p, m, r) ==
    /\ r \in PageOf(s)
    /\ r.name = p.name /\ r.sync = p.sync /\ r.reloading = p.reloading
    /\ r.period = p.period /\ r.periods[s] = p.periods[s]
    /\ SameRun(p, r) \/ (Started(p, r) /\ (Opens(p, m) \/ Resumes1(s, p, m)))
    /\ r.deferred \subseteq p.deferred \cup {p.period}
    /\ \A k \in Periods : \A t \in r.received[k] :
          t \in p.received[k] \/ (m.key = "_at_barrier" /\ t = m.sender /\ k = m.value)
    /\ r.pause \subseteq p.pause
    /\ \A v \in p.pause : v \notin r.pause => m.key = "__resume__" /\ m.sender = s /\ m.value = v

(***************************************************************************)
(* Every listener leaves the page in its period, for a message that does   *)
(* not turn it.                                                            *)
(***************************************************************************)
LEMMA HandleCalm ==
    ASSUME NEW s \in Subjects, NEW p \in PageOf(s), NEW m \in Routed, ~Turning(m, s),
           p.ranAt = Undefined => p.deferred \subseteq {p.period}
    PROVE  Calm(s, p, m, HandleMsg(p, s, m))
<1> DEFINE r == HandleMsg(p, s, m)
<1> HIDE DEF r
<1>1. CASE m.key = "__page_loaded__"
    <2>1. r = PageLoaded(p, s, m)
        BY <1>1 DEF r, HandleMsg
    <2>2. Calm(s, p, m, r)
        BY <1>1, <2>1, PageLoadedIs DEF Calm, Apart
    <2> QED BY <2>2 DEF r
<1>2. CASE m.key = "_at_barrier"
    <2>1. r = AtBarrier(p, s, m)
        BY <1>2 DEF r, HandleMsg
    <2>2. Calm(s, p, m, r)
        BY <1>2, <2>1, AtBarrierIs DEF Calm, Apart
    <2> QED BY <2>2 DEF r
<1>3. CASE m.key = "__resume__"
    <2>1. r = Resume(p, s, m)
        BY <1>3 DEF r, HandleMsg
    <2>2. Calm(s, p, m, r)
        BY <1>3, <2>1, ResumeIs DEF Calm, Apart, Resumes1
    <2> QED BY <2>2 DEF r
<1>4. CASE m.key = "__set_period__"
    <2>1. r = CoreSetPeriod(p, s, m) /\ m.sender # s /\ m.sender \in Subjects /\ m.value \in Periods
        BY <1>4 DEF r, HandleMsg, SetPeriod, Turning, Change, Routed
    <2>2. Calm(s, p, m, r)
        BY <2>1 DEF Calm, CoreSetPeriod, PageOf, SameRun
    <2> QED BY <2>2 DEF r
<1>5. CASE m.key \in {"__set_page__", "_next_period", "__paused__", "__resumed__", "resume"}
    <2>1. m.key \in Change => m.sender # s
        BY DEF Turning
    <2>2. r = p \/ r = [p EXCEPT !.reloading = @ \/ FALSE]
        BY <1>5, <2>1 DEF r, HandleMsg, OwnNextPeriod, CoreSetPage, Change
    <2>3. r = p
        BY <2>2 DEF PageOf
    <2>4. Calm(s, p, m, r)
        BY <2>3 DEF Calm, SameRun
    <2> QED BY <2>4 DEF r
<1> QED BY <1>1, <1>2, <1>3, <1>4, <1>5 DEF Routed, Change, PlainKeys

\* So does onmessage.
LEMMA MessageCalm ==
    ASSUME NEW s \in Subjects, NEW p \in PageOf(s), NEW m \in Routed, ~Turning(m, s), ~p.reloading,
           p.ranAt = Undefined => p.deferred \subseteq {p.period}
    PROVE  Calm(s, p, m, OnMessage(p, s, m))
<1> DEFINE d == Deduplicate(p, m)
           r == HandleMsg(d, s, m)
<1>1. d \in PageOf(s) /\ Steady(p, d)
    BY DeduplicateIs
<1>2. OnMessage(p, s, m) = r
    BY DEF OnMessage, Routed, Change, PlainKeys
<1> HIDE DEF d
<1>3. Calm(s, d, m, r)
    BY <1>1, HandleCalm DEF Steady
<1> HIDE DEF r
<1>4. Calm(s, p, m, r)
    BY <1>1, <1>3 DEF Calm, Steady, SameRun, Started, Opens, Resumes1
<1> QED BY <1>2, <1>4

(***************************************************************************)
(* A page whose scripts have nothing to do yet and that has sent nothing.  *)
(***************************************************************************)
Idle(p) == p.ranAt = Undefined /\ ~p.timer /\ ~p.asked

Unused(p, s) ==
    /\ Idle(p) /\ p.deferred = {} /\ p.held = <<>> /\ p.queue = <<>> /\ p.out = <<>>
    /\ ~p.reloading /\ s \notin p.received[0]

\* The announcement of a page that was opened before the session started.
Announcement(s) == Message("__page_loaded__", s, 0, 0, FALSE, 0)

\* m says what s has done.
Mine(m, s) == m.sender = s /\ m.key # "__resume__"

(***************************************************************************)
(* A page that nothing has been asked of stays so while its own messages   *)
(* do not reach it.                                                        *)
(***************************************************************************)
LEMMA UnusedStays ==
    ASSUME NEW s \in Subjects, NEW p \in PageOf(s), NEW m \in Routed, Unused(p, s),
           p.period \in {Undefined, 0}, p.periods[s] = p.period,
           ~Mine(m, s) \/ (m = Announcement(s) /\ p.period = Undefined)
    PROVE  LET r == OnMessage(p, s, m)
           IN  /\ Unused(r, s) /\ r.periods[s] = r.period /\ r.period = p.period
               /\ r.name = p.name /\ r.sync = p.sync /\ r \in PageOf(s)
               /\ r.isReload = (p.isReload \/ (p.sync /\ m = Announcement(s)))
<1> DEFINE d == Deduplicate(p, m)
           r == HandleMsg(d, s, m)
           Fits(t) == /\ Unused(t, s) /\ t.periods[s] = t.period /\ t.period = p.period
                      /\ t.name = p.name /\ t.sync = p.sync /\ t \in PageOf(s)
                      /\ t.isReload = (p.isReload \/ (p.sync /\ m = Announcement(s)))
<1>1. /\ d \in PageOf(s) /\ Steady(p, d) /\ d.out = <<>> /\ d.held = <<>> /\ d.queue = <<>>
    BY DeduplicateIs DEF Unused
<1>2. OnMessage(p, s, m) = r
    BY DEF OnMessage, Routed, Change, PlainKeys, Unused
<1>3. m.key = "__page_loaded__" => m.sender # s \/ m.period # p.period
    BY Basics DEF Mine, Announcement, Message
<1>4. m.key # "__page_loaded__" => m # Announcement(s)
    BY DEF Announcement, Message
<1>5. m.key # "__resume__" => m.sender # s \/ m = Announcement(s)
    BY DEF Mine
<1> HIDE DEF d, r
<1>6. /\ d.deferred = {} /\ d.ranAt = Undefined /\ ~d.timer /\ ~d.asked /\ ~d.reloading
      /\ d.received = p.received /\ d.period = p.period /\ d.periods[s] = p.period
      /\ s \notin d.received[0] /\ d.name = p.name /\ d.sync = p.sync /\ d.isReload = p.isReload
      /\ d.period \notin Paused /\ p.isReload \in BOOLEAN
    <2>1. p.isReload \in BOOLEAN
        BY DEF PageOf
    <2> QED BY <1>1, <2>1, Basics DEF Steady, Unused, Idle
<1>7. ASSUME m.key = "__page_loaded__"
      PROVE  Fits(r)
    <2>1. r = PageLoaded(d, s, m)
        BY <1>7 DEF r, HandleMsg
    <2>2. /\ r \in PageOf(s) /\ Apart(d, r) /\ SameRun(d, r)
          /\ r.received = d.received
          /\ r.isReload = (d.isReload \/ (d.sync /\ m.sender = s /\ d.period \in {Undefined, m.period}))
          /\ r.deferred = d.deferred /\ r.held = <<>> /\ r.out = d.out /\ r.queue = d.queue
        BY <1>1, <1>3, <1>6, <1>7, <2>1, PageLoadedIs
    <2>3. (m.sender = s /\ d.period \in {Undefined, m.period}) <=> m = Announcement(s)
        BY <1>3, <1>5, <1>6, <1>7 DEF Announcement, Message
    <2>4. Unused(r, s)
        BY <1>1, <1>6, <2>2 DEF Unused, Idle, Apart, SameRun
    <2> QED BY <1>6, <2>2, <2>3, <2>4 DEF Apart
<1>8. ASSUME m.key = "_at_barrier"
      PROVE  Fits(r)
    <2>1. /\ r = [d EXCEPT !.received[m.value] = @ \cup {m.sender}]
          /\ r \in PageOf(s)
        BY <1>1, <1>6, <1>8, AtBarrierIs DEF r, HandleMsg
    <2>2. m.sender # s
        BY <1>4, <1>5, <1>8
    <2>3. /\ s \notin r.received[0]
        BY <1>1, <1>6, <2>1, <2>2, Basics DEF PageOf
    <2>4. Unused(r, s)
        BY <1>1, <1>6, <2>1, <2>3 DEF Unused, Idle, PageOf
    <2>5. r.periods = d.periods /\ r.period = d.period /\ r.name = d.name /\ r.sync = d.sync /\ r.isReload = d.isReload
        BY <1>1, <2>1 DEF PageOf
    <2> QED BY <1>4, <1>6, <1>8, <2>1, <2>4, <2>5
<1>9. ASSUME m.key = "__resume__"
      PROVE  Fits(r)
    <2>1. r = Resume(d, s, m)
        BY <1>9 DEF r, HandleMsg
    <2>2. /\ r \in PageOf(s) /\ Apart(d, r) /\ r.isReload = d.isReload
          /\ r.deferred = d.deferred /\ r.received = d.received
          /\ SameRun(d, r)
          /\ r.out = d.out /\ r.queue = d.queue /\ r.held = d.held
        <3>1. d.pause \subseteq Paused
            BY <1>1 DEF PageOf
        <3> QED BY <1>1, <1>6, <1>9, <2>1, <3>1, ResumeIs
    <2>4. Unused(r, s)
        BY <1>1, <1>6, <2>2 DEF Unused, Idle, Apart, SameRun
    <2> QED BY <1>4, <1>6, <1>9, <2>2, <2>4 DEF Apart
<1>10. ASSUME m.key \in Change \cup {"__paused__", "__resumed__", "resume"}
      PROVE  Fits(r)
    <2>1. m.sender # s
        BY <1>4, <1>5, <1>10 DEF Change
    <2>2. r = IF m.key = "__set_period__" THEN CoreSetPeriod(d, s, m)
              ELSE IF m.key = "__set_page__" THEN CoreSetPage(d, s, m) ELSE d
        BY <1>10, <2>1 DEF r, HandleMsg, SetPeriod, OwnNextPeriod, Change
    <2>3. m.key = "__set_period__" => m.sender \in Subjects /\ m.value \in Periods
        BY DEF Routed
    <2>4. /\ r \in PageOf(s) /\ Steady([d EXCEPT !.periods = r.periods], r) /\ r.periods[s] = d.periods[s]
          /\ r.out = d.out /\ r.queue = d.queue /\ r.held = d.held
        <3>1. CASE m.key = "__set_period__"
            <4>1. r = [d EXCEPT !.periods = [d.periods EXCEPT ![m.sender] = m.value]]
                BY <1>1, <2>1, <2>2, <3>1 DEF CoreSetPeriod, PageOf
            <4>2. [d.periods EXCEPT ![m.sender] = m.value] \in [Subjects -> Periods \cup {Undefined}]
                BY <1>1, <2>3, <3>1 DEF PageOf
            <4> QED BY <1>1, <2>1, <2>3, <3>1, <4>1, <4>2 DEF PageOf, Steady
        <3>2. CASE m.key # "__set_period__"
            <4>1. r = d
                BY <1>1, <2>1, <2>2, <3>2 DEF CoreSetPage, PageOf
            <4> QED BY <1>1, <4>1 DEF PageOf, Steady
        <3> QED BY <3>1, <3>2
    <2>5. /\ Unused(r, s) /\ r.period = d.period /\ r.name = d.name /\ r.sync = d.sync /\ r.isReload = d.isReload
        BY <1>1, <1>6, <2>4 DEF Unused, Idle, Steady, PageOf
    <2>6. m # Announcement(s)
        BY <2>1 DEF Announcement, Message
    <2> QED BY <1>6, <2>4, <2>5, <2>6
<1>11. Fits(r)
    BY <1>7, <1>8, <1>9, <1>10 DEF Routed, PlainKeys
<1> QED BY <1>2, <1>11

-----------------------------------------------------------------------------
(* Sequences                                                               *)

Has(q, m) == \E i \in DOMAIN q : q[i] = m

\* A sequence of one.
LEMMA OfOne ==
    ASSUME NEW S, NEW m \in S
    PROVE  <<m>> \in Seq(S) /\ Head(<<m>>) = m /\ Tail(<<m>>) = <<>> /\ Len(<<m>>) = 1 /\ <<m>>[1] = m
<1>1. <<m>> \in Seq(S) /\ Len(<<m>>) = 1 /\ <<m>>[1] = m
    OBVIOUS
<1>2. <<m>> = Append(<<>>, m) /\ <<>> \in Seq(S)
    OBVIOUS
<1>3. Head(<<m>>) = m /\ Tail(<<m>>) = <<>>
    BY <1>2, HeadTailAppend
<1> QED BY <1>1, <1>3

\* A sequence over a set is one over a larger set.
LEMMA Wider ==
    ASSUME NEW A, NEW B, A \subseteq B, NEW q \in Seq(A)
    PROVE  q \in Seq(B)
BY SeqMonotonic

\* The head of a concatenation is that of its first part.
LEMMA HeadOfConcat ==
    ASSUME NEW S, NEW a \in Seq(S), NEW b \in Seq(S), a # <<>>
    PROVE  Head(a \o b) = Head(a) /\ Tail(a \o b) = Tail(a) \o b /\ a \o b # <<>>
<1>1. /\ a \o b \in Seq(S) /\ Len(a \o b) = Len(a) + Len(b) /\ Len(a) \in Nat \ {0} /\ Len(b) \in Nat
      /\ \A i \in 1 .. Len(a) + Len(b) : (a \o b)[i] = IF i <= Len(a) THEN a[i] ELSE b[i - Len(a)]
    BY ConcatProperties, EmptySeq, LenProperties
<1>2. a \o b # <<>>
    BY <1>1, EmptySeq
<1>3. /\ Tail(a \o b) \in Seq(S) /\ Len(Tail(a \o b)) = Len(a) + Len(b) - 1
      /\ \A i \in 1 .. Len(a) + Len(b) - 1 : Tail(a \o b)[i] = (a \o b)[i + 1]
    BY <1>1, <1>2, HeadTailProperties
<1>4. /\ Tail(a) \in Seq(S) /\ Len(Tail(a)) = Len(a) - 1
      /\ \A i \in 1 .. Len(a) - 1 : Tail(a)[i] = a[i + 1]
    BY <1>1, HeadTailProperties
<1>5. /\ Tail(a) \o b \in Seq(S) /\ Len(Tail(a) \o b) = Len(a) - 1 + Len(b)
      /\ \A i \in 1 .. Len(a) - 1 + Len(b) :
            (Tail(a) \o b)[i] = IF i <= Len(a) - 1 THEN Tail(a)[i] ELSE b[i - (Len(a) - 1)]
    BY <1>4, ConcatProperties
<1>6. ASSUME NEW i \in 1 .. Len(a) + Len(b) - 1 PROVE Tail(a \o b)[i] = (Tail(a) \o b)[i]
    <2>1. i + 1 \in 1 .. Len(a) + Len(b) /\ i \in 1 .. Len(a) - 1 + Len(b) /\ i + 1 - Len(a) = i - (Len(a) - 1)
        BY <1>1
    <2>2. Tail(a \o b)[i] = IF i + 1 <= Len(a) THEN a[i + 1] ELSE b[i + 1 - Len(a)]
        BY <1>1, <1>3, <2>1
    <2>3. CASE i + 1 <= Len(a)
        <3>1. i \in 1 .. Len(a) - 1
            BY <2>3, <1>1
        <3> QED BY <2>1, <2>2, <2>3, <3>1, <1>4, <1>5
    <2>4. CASE ~(i + 1 <= Len(a))
        <3>1. ~(i <= Len(a) - 1)
            BY <2>4, <1>1
        <3> QED BY <2>1, <2>2, <2>4, <3>1, <1>5
    <2> QED BY <2>3, <2>4
<1>7. Tail(a \o b) = Tail(a) \o b
    <2>1. Len(Tail(a \o b)) = Len(Tail(a) \o b) /\ Len(Tail(a \o b)) = Len(a) + Len(b) - 1
        BY <1>1, <1>3, <1>5
    <2> QED BY <1>3, <1>5, <1>6, <2>1, SeqEqual
<1>8. Head(a \o b) = (a \o b)[1] /\ Head(a) = a[1]
    OBVIOUS
<1>9. (a \o b)[1] = a[1]
    BY <1>1
<1> QED BY <1>2, <1>7, <1>8, <1>9

\* What a concatenation has.
LEMMA HasConcat ==
    ASSUME NEW S, NEW a \in Seq(S), NEW b \in Seq(S), NEW m
    PROVE  Has(a \o b, m) <=> Has(a, m) \/ Has(b, m)
<1>1. Len(a) \in Nat /\ Len(b) \in Nat /\ DOMAIN a = 1 .. Len(a) /\ DOMAIN b = 1 .. Len(b)
    BY LenProperties
<1>2. /\ DOMAIN (a \o b) = 1 .. Len(a) + Len(b)
      /\ \A i \in 1 .. Len(a) + Len(b) : (a \o b)[i] = IF i <= Len(a) THEN a[i] ELSE b[i - Len(a)]
    BY ConcatProperties, LenProperties
<1>3. ASSUME NEW i \in DOMAIN (a \o b), (a \o b)[i] = m PROVE Has(a, m) \/ Has(b, m)
    <2>1. CASE i <= Len(a)
        <3>1. i \in DOMAIN a /\ a[i] = m
            BY <2>1, <1>1, <1>2, <1>3
        <3> QED BY <3>1 DEF Has
    <2>2. CASE ~(i <= Len(a))
        <3>1. i - Len(a) \in DOMAIN b /\ b[i - Len(a)] = m
            BY <2>2, <1>1, <1>2, <1>3
        <3> QED BY <3>1 DEF Has
    <2> QED BY <2>1, <2>2
<1>4. ASSUME NEW i \in DOMAIN a, a[i] = m PROVE Has(a \o b, m)
    <2>1. i \in DOMAIN (a \o b) /\ (a \o b)[i] = m
        BY <1>1, <1>2, <1>4
    <2> QED BY <2>1 DEF Has
<1>5. ASSUME NEW i \in DOMAIN b, b[i] = m PROVE Has(a \o b, m)
    <2>1. i + Len(a) \in DOMAIN (a \o b) /\ ~(i + Len(a) <= Len(a)) /\ i + Len(a) - Len(a) = i
        BY <1>1, <1>2
    <2>2. (a \o b)[i + Len(a)] = m
        BY <1>1, <1>2, <1>5, <2>1
    <2> QED BY <2>1, <2>2 DEF Has
<1> QED BY <1>3, <1>4, <1>5 DEF Has

\* What a sequence of one has, and the empty one.
LEMMA HasOne ==
    ASSUME NEW x, NEW m
    PROVE  (Has(<<x>>, m) <=> m = x) /\ ~Has(<<>>, m)
<1>1. DOMAIN <<x>> = {1} /\ <<x>>[1] = x /\ DOMAIN <<>> = {}
    OBVIOUS
<1> QED BY <1>1 DEF Has

\* What a longer sequence has.
LEMMA HasAppend ==
    ASSUME NEW S, NEW q \in Seq(S), NEW x \in S, NEW m
    PROVE  Has(Append(q, x), m) <=> Has(q, m) \/ m = x
<1>1. Append(q, x) = q \o <<x>> /\ <<x>> \in Seq(S)
    BY AppendIsConcat, OfOne
<1> QED BY <1>1, HasConcat, HasOne

\* What a sequence has is its head, or in its tail.
LEMMA HasHeadTail ==
    ASSUME NEW S, NEW q \in Seq(S), q # <<>>, NEW m
    PROVE  Has(q, m) <=> (m = Head(q) \/ Has(Tail(q), m))
<1>1. /\ Head(q) \in S /\ Tail(q) \in Seq(S) /\ Len(Tail(q)) = Len(q) - 1 /\ Len(q) \in Nat \ {0}
      /\ \A i \in 1 .. Len(Tail(q)) : Tail(q)[i] = q[i + 1]
      /\ Head(q) = q[1] /\ DOMAIN q = 1 .. Len(q)
    BY HeadTailProperties, EmptySeq, LenProperties
<1>2. DOMAIN Tail(q) = 1 .. Len(q) - 1
    BY <1>1, LenProperties
<1>3. ASSUME NEW i \in DOMAIN q, q[i] = m, i # 1 PROVE Has(Tail(q), m)
    <2>1. i - 1 \in DOMAIN Tail(q) /\ i - 1 + 1 = i
        BY <1>1, <1>2, <1>3
    <2>2. Tail(q)[i - 1] = m
        BY <1>1, <1>2, <1>3, <2>1
    <2> QED BY <2>1, <2>2 DEF Has
<1>4. ASSUME NEW i \in DOMAIN Tail(q), Tail(q)[i] = m PROVE Has(q, m)
    <2>1. i + 1 \in DOMAIN q /\ q[i + 1] = m
        BY <1>1, <1>2, <1>4
    <2> QED BY <2>1 DEF Has
<1>5. 1 \in DOMAIN q
    BY <1>1
<1> QED BY <1>1, <1>3, <1>4, <1>5 DEF Has

(***************************************************************************)
(* q has m once, with messages of A before it and messages of B after it.  *)
(***************************************************************************)
One(q, m, A, B) == \E a \in Seq(A) : \E b \in Seq(B) : q = a \o (<<m>> \o b)

\* The one message stays the only one when others are added behind it.
LEMMA OneConcat ==
    ASSUME NEW A, NEW B, NEW m, NEW q, One(q, m, A, B), NEW e \in Seq(B)
    PROVE  One(q \o e, m, A, B)
<1> DEFINE S == A \cup B \cup {m}
<1>1. PICK a \in Seq(A), b \in Seq(B) : q = a \o (<<m>> \o b)
    BY DEF One
<1>2. a \in Seq(S) /\ b \in Seq(S) /\ e \in Seq(S) /\ <<m>> \in Seq(S)
    BY Wider, OfOne
<1> HIDE DEF S
<1>3. <<m>> \o b \in Seq(S) /\ b \o e \in Seq(B)
    BY <1>2, ConcatProperties
<1>4. q \o e = a \o ((<<m>> \o b) \o e)
    BY <1>1, <1>2, <1>3, ConcatAssociative
<1>5. (<<m>> \o b) \o e = <<m>> \o (b \o e)
    BY <1>2, ConcatAssociative
<1> QED BY <1>3, <1>4, <1>5 DEF One

\* The same for one more.
LEMMA OneAppend ==
    ASSUME NEW A, NEW B, NEW m, NEW q, One(q, m, A, B), NEW x \in B
    PROVE  One(Append(q, x), m, A, B)
<1> DEFINE S == A \cup B \cup {m}
<1>1. PICK a \in Seq(A), b \in Seq(B) : q = a \o (<<m>> \o b)
    BY DEF One
<1>2. a \in Seq(S) /\ b \in Seq(S) /\ x \in S /\ <<m>> \in Seq(S)
    BY <1>1, Wider, OfOne
<1> HIDE DEF S
<1>3. q \in Seq(S)
    BY <1>1, <1>2, ConcatProperties
<1>4. Append(q, x) = q \o <<x>> /\ <<x>> \in Seq(B)
    BY <1>2, <1>3, AppendIsConcat, OfOne
<1> QED BY <1>4, OneConcat

\* The one message is added behind the others.
LEMMA OneNew ==
    ASSUME NEW A, NEW B, NEW m, NEW q \in Seq(A)
    PROVE  One(q \o <<m>>, m, A, B) /\ One(Append(q, m), m, A, B)
<1> DEFINE S == A \cup {m}
<1>1. q \in Seq(S) /\ <<m>> \in Seq(S) /\ m \in S
    BY Wider, OfOne
<1> HIDE DEF S
<1>2. Append(q, m) = q \o <<m>> /\ <<m>> = <<m>> \o <<>> /\ <<>> \in Seq(B)
    BY <1>1, AppendIsConcat, ConcatEmptySeq, EmptySeq
<1> QED BY <1>2 DEF One

\* The head is the one message, or one of those before it.
LEMMA OneHead ==
    ASSUME NEW A, NEW B, NEW m, NEW q, One(q, m, A, B)
    PROVE  /\ q # <<>>
           /\ \/ Head(q) = m /\ Tail(q) \in Seq(B)
              \/ Head(q) \in A /\ One(Tail(q), m, A, B)
<1> DEFINE S == A \cup B \cup {m}
<1>1. PICK a \in Seq(A), b \in Seq(B) : q = a \o (<<m>> \o b)
    BY DEF One
<1>2. a \in Seq(S) /\ b \in Seq(S) /\ <<m>> \in Seq(S) /\ m \in S
    BY <1>1, Wider, OfOne
<1> HIDE DEF S
<1>3. <<m>> \o b \in Seq(S) /\ <<m>> # <<>> /\ Head(<<m>>) = m /\ Tail(<<m>>) = <<>> /\ <<>> \o b = b
    BY <1>2, ConcatProperties, OfOne, ConcatEmptySeq, EmptySeq
<1>4. CASE a = <<>>
    <2>1. q = <<m>> \o b
        BY <1>1, <1>3, <1>4, ConcatEmptySeq
    <2>2. Head(q) = m /\ Tail(q) = b /\ q # <<>>
        BY <1>2, <1>3, <2>1, HeadOfConcat
    <2> QED BY <2>2, <1>1
<1>5. CASE a # <<>>
    <2>1. Head(q) = Head(a) /\ Tail(q) = Tail(a) \o (<<m>> \o b) /\ q # <<>>
        BY <1>1, <1>2, <1>3, <1>5, HeadOfConcat
    <2>2. Head(a) \in A /\ Tail(a) \in Seq(A)
        BY <1>5, HeadTailProperties
    <2> QED BY <2>1, <2>2, <1>1 DEF One
<1> QED BY <1>4, <1>5

\* A sequence has its one message.
LEMMA OneHas ==
    ASSUME NEW A, NEW B, NEW m, NEW q, One(q, m, A, B)
    PROVE  Has(q, m) /\ \A S : (A \subseteq S /\ B \subseteq S /\ m \in S) => q \in Seq(S)
<1>1. PICK a \in Seq(A), b \in Seq(B) : q = a \o (<<m>> \o b)
    BY DEF One
<1>2. ASSUME NEW S, A \subseteq S, B \subseteq S, m \in S
      PROVE  q \in Seq(S) /\ Has(q, m)
    <2>1. a \in Seq(S) /\ b \in Seq(S) /\ <<m>> \in Seq(S)
        BY <1>2, Wider, OfOne
    <2>2. <<m>> \o b \in Seq(S)
        BY <2>1, ConcatProperties
    <2>3. q \in Seq(S)
        BY <1>1, <2>1, <2>2, ConcatProperties
    <2>4. Has(<<m>> \o b, m)
        BY <2>1, HasConcat, HasOne
    <2>5. Has(q, m)
        BY <1>1, <2>1, <2>2, <2>4, HasConcat
    <2> QED BY <2>3, <2>5
<1>3. Has(q, m)
    <2>1. /\ A \subseteq A \cup B \cup {m} /\ B \subseteq A \cup B \cup {m} /\ m \in A \cup B \cup {m}
        OBVIOUS
    <2> QED BY <1>2, <2>1
<1> QED BY <1>2, <1>3

\* The others may be more.
LEMMA OneWider ==
    ASSUME NEW A, NEW B, NEW C, NEW D, A \subseteq C, B \subseteq D, NEW m, NEW q, One(q, m, A, B)
    PROVE  One(q, m, C, D)
<1>1. PICK a \in Seq(A), b \in Seq(B) : q = a \o (<<m>> \o b)
    BY DEF One
<1>2. a \in Seq(C) /\ b \in Seq(D)
    BY Wider
<1> QED BY <1>1, <1>2 DEF One

(***************************************************************************)
(* r is what is left of a replay when x is what is left of the log.        *)
(***************************************************************************)
Begin == Mark("__queue_start__")

End == Mark("__queue_end__")

Replays(r, sync, x) == r = (IF sync THEN x \o <<End>> ELSE <<Begin>> \o x \o <<End>>)

(***************************************************************************)
(* A replay begins with its first mark, goes on with the log, and ends     *)
(* with the other mark.                                                    *)
(***************************************************************************)
LEMMA ReplayHead ==
    ASSUME NEW S, NEW x \in Seq(S), NEW r, NEW sync \in BOOLEAN, Replays(r, sync, x)
    PROVE  /\ r # <<>>
           /\ ~sync => Head(r) = Begin /\ Replays(Tail(r), TRUE, x)
           /\ sync /\ x = <<>> => Head(r) = End /\ Tail(r) = <<>>
           /\ sync /\ x # <<>> => /\ Head(r) = Head(x) /\ Head(x) \in S /\ Tail(x) \in Seq(S)
                                  /\ Replays(Tail(r), TRUE, Tail(x))
<1> DEFINE T == S \cup {Begin, End}
<1>1. /\ x \in Seq(T) /\ <<Begin>> \in Seq(T) /\ <<End>> \in Seq(T)
    BY Wider, OfOne
<1>2. /\ <<Begin>> # <<>> /\ Head(<<Begin>>) = Begin /\ Tail(<<Begin>>) = <<>>
      /\ <<End>> # <<>> /\ Head(<<End>>) = End /\ Tail(<<End>>) = <<>>
    BY OfOne, EmptySeq
<1> HIDE DEF T
<1>3. x \o <<End>> \in Seq(T)
    BY <1>1, ConcatProperties
<1>4. CASE ~sync
    <2>1. r = <<Begin>> \o (x \o <<End>>)
        BY <1>1, <1>4, ConcatAssociative DEF Replays
    <2>2. Head(r) = Begin /\ Tail(r) = <<>> \o (x \o <<End>>) /\ r # <<>>
        BY <1>1, <1>2, <1>3, <2>1, HeadOfConcat
    <2>3. Tail(r) = x \o <<End>>
        BY <1>3, <2>2, ConcatEmptySeq
    <2> QED BY <1>4, <2>2, <2>3 DEF Replays
<1>5. CASE sync /\ x = <<>>
    <2>1. r = <<End>>
        BY <1>1, <1>5, ConcatEmptySeq DEF Replays
    <2> QED BY <1>2, <1>5, <2>1
<1>6. CASE sync /\ x # <<>>
    <2>1. r = x \o <<End>>
        BY <1>6 DEF Replays
    <2>2. Head(r) = Head(x) /\ Tail(r) = Tail(x) \o <<End>> /\ r # <<>>
        BY <1>1, <1>6, <2>1, HeadOfConcat
    <2>3. Head(x) \in S /\ Tail(x) \in Seq(S)
        BY <1>6, HeadTailProperties
    <2> QED BY <1>6, <2>2, <2>3 DEF Replays
<1> QED BY <1>4, <1>5, <1>6

-----------------------------------------------------------------------------
(* The log                                                                 *)

\* m replaces x.
Replaces(m, x) == m.stateUpdate /\ x.key = m.key /\ x.sender = m.sender

\* Somebody may still need x, in a session with these Subject objects.
Needed(sc, x) == \E s \in Subjects : sc[s].period <= PeriodOf(x)

\* The log l with m added.
Adding(l, m, sc) ==
    Only(l, {x \in ToSet(l) : ~Replaces(m, x) /\ Needed(sc, x)})
        \o (IF Needed(sc, m) THEN <<m>> ELSE <<>>)

\* Logged says of the log what Adding says of any.
LEMMA LoggedIsAdding ==
    ASSUME NEW m, NEW sc
    PROVE  Logged(m, sc) = Adding(log, m, sc)
BY DEF Logged, Adding, Replaces, Needed

\* What Adding keeps and what it adds.
LEMMA AddingIs ==
    ASSUME NEW S, NEW l \in Seq(S), NEW m \in S, NEW sc
    PROVE  /\ Adding(l, m, sc) \in Seq(S)
           /\ \A x : Has(l, x) /\ ~Replaces(m, x) /\ Needed(sc, x) => Has(Adding(l, m, sc), x)
           /\ Needed(sc, m) => Has(Adding(l, m, sc), m)
           /\ \A x : Has(Adding(l, m, sc), x) => x = m \/ (Has(l, x) /\ ~Replaces(m, x))
<1> DEFINE K == {x \in ToSet(l) : ~Replaces(m, x) /\ Needed(sc, x)}
           k == Only(l, K)
           e == IF Needed(sc, m) THEN <<m>> ELSE <<>>
<1>1. /\ k \in Seq(S)
      /\ \A i \in DOMAIN k : \E n \in DOMAIN l : l[n] \in K /\ k[i] = l[n]
      /\ \A n \in DOMAIN l : l[n] \in K => \E i \in DOMAIN k : k[i] = l[n]
    <2> HIDE DEF K
    <2> QED BY OnlyKeeps
<1>2. e \in Seq(S)
    BY OfOne, EmptySeq
<1>3. Adding(l, m, sc) = k \o e
    BY DEF Adding
<1>4. \A x : Has(k, x) <=> Has(l, x) /\ ~Replaces(m, x) /\ Needed(sc, x)
    <2>1. ToSet(l) = {l[i] : i \in DOMAIN l}
        BY DEF ToSet
    <2>2. \A x : x \in K <=> Has(l, x) /\ ~Replaces(m, x) /\ Needed(sc, x)
        BY <2>1 DEF Has
    <2> HIDE DEF K, k
    <2> QED BY <1>1, <2>2 DEF Has
<1>5. \A x : Has(e, x) <=> Needed(sc, m) /\ x = m
    BY HasOne
<1> HIDE DEF k, e
<1>6. k \o e \in Seq(S) /\ \A x : Has(k \o e, x) <=> Has(k, x) \/ Has(e, x)
    BY <1>1, <1>2, ConcatProperties, HasConcat
<1> QED BY <1>3, <1>4, <1>5, <1>6

\* Adding keeps the order of the log.
LEMMA AddingInOrder ==
    ASSUME NEW S, NEW l \in Seq(S), NEW m \in S, NEW sc, NEW x, NEW y, x # y, m # x, Before(l, x, y)
    PROVE  Before(Adding(l, m, sc), x, y)
<1> DEFINE K == {z \in ToSet(l) : ~Replaces(m, z) /\ Needed(sc, z)}
           k == Only(l, K)
           e == IF Needed(sc, m) THEN <<m>> ELSE <<>>
<1>1. k \in Seq(S) /\ Before(k, x, y)
    <2> HIDE DEF K
    <2> QED BY OnlyKeeps, OnlyInOrder
<1>2. e \in Seq(S) /\ \A i \in DOMAIN e : e[i] = m
    BY OfOne, EmptySeq
<1>3. Adding(l, m, sc) = k \o e
    BY DEF Adding
<1> HIDE DEF k, e
<1>4. /\ Len(k) \in Nat /\ Len(e) \in Nat /\ DOMAIN k = 1 .. Len(k) /\ DOMAIN e = 1 .. Len(e)
      /\ DOMAIN (k \o e) = 1 .. Len(k) + Len(e)
      /\ \A i \in 1 .. Len(k) + Len(e) : (k \o e)[i] = IF i <= Len(k) THEN k[i] ELSE e[i - Len(k)]
    BY <1>1, <1>2, ConcatProperties, LenProperties
<1>5. ASSUME NEW i \in DOMAIN (k \o e), NEW j \in DOMAIN (k \o e), (k \o e)[i] = x, (k \o e)[j] = y
      PROVE  i < j
    <2>1. i \in DOMAIN k /\ k[i] = x
        <3>1. CASE i <= Len(k)
            BY <3>1, <1>4, <1>5
        <3>2. CASE ~(i <= Len(k))
            <4>1. i - Len(k) \in DOMAIN e /\ e[i - Len(k)] = x
                BY <3>2, <1>4, <1>5
            <4> QED BY <4>1, <1>2
        <3> QED BY <3>1, <3>2
    <2>2. CASE j <= Len(k)
        <3>1. j \in DOMAIN k /\ k[j] = y
            BY <2>2, <1>4, <1>5
        <3> QED BY <2>1, <3>1, <1>1 DEF Before
    <2>3. CASE ~(j <= Len(k))
        BY <2>1, <2>3, <1>4
    <2> QED BY <2>2, <2>3
<1>6. Before(k \o e, x, y)
    BY <1>5 DEF Before
<1> QED BY <1>3, <1>6

\* What is received in order: whoever is before y is gone when y is the head.
LEMMA BeforeTail ==
    ASSUME NEW S, NEW q \in Seq(S), q # <<>>, NEW x, NEW y, x # y, Before(q, x, y)
    PROVE  Before(Tail(q), x, y) /\ (Head(q) = y => ~Has(q, x))
<1>1. /\ Tail(q) \in Seq(S) /\ Len(Tail(q)) = Len(q) - 1 /\ Len(q) \in Nat \ {0}
      /\ \A i \in 1 .. Len(Tail(q)) : Tail(q)[i] = q[i + 1]
      /\ Head(q) = q[1] /\ DOMAIN q = 1 .. Len(q)
    BY HeadTailProperties, EmptySeq, LenProperties
<1>2. DOMAIN Tail(q) = 1 .. Len(q) - 1
    BY <1>1, LenProperties
<1>3. ASSUME NEW i \in DOMAIN Tail(q), NEW j \in DOMAIN Tail(q), Tail(q)[i] = x, Tail(q)[j] = y
      PROVE  i < j
    <2>1. i + 1 \in DOMAIN q /\ j + 1 \in DOMAIN q /\ q[i + 1] = x /\ q[j + 1] = y
        BY <1>1, <1>2, <1>3
    <2>2. i + 1 < j + 1
        BY <2>1 DEF Before
    <2> QED BY <2>2, <1>1, <1>2
<1>4. ASSUME Head(q) = y, NEW i \in DOMAIN q, q[i] = x PROVE FALSE
    <2>1. 1 \in DOMAIN q /\ q[1] = y
        BY <1>1, <1>4
    <2>2. i < 1
        BY <2>1, <1>4 DEF Before
    <2> QED BY <2>2, <1>1
<1> QED BY <1>3, <1>4 DEF Before, Has

\* A sequence is one over any set that has its elements.
LEMMA SeqOfElements ==
    ASSUME NEW S, NEW q \in Seq(S), NEW A, \A x : Has(q, x) => x \in A
    PROVE  q \in Seq(A)
<1>1. Len(q) \in Nat /\ DOMAIN q = 1 .. Len(q) /\ q = [i \in 1 .. Len(q) |-> q[i]]
    BY LenProperties
<1>2. \A i \in 1 .. Len(q) : q[i] \in A
    BY <1>1 DEF Has
<1>3. q \in [1 .. Len(q) -> A]
    BY <1>1, <1>2
<1> QED BY <1>1, <1>3, SeqDef

\* The elements of a sequence over S are in S.
LEMMA ElementsOfSeq ==
    ASSUME NEW S, NEW q \in Seq(S), NEW x, Has(q, x)
    PROVE  x \in S
BY ElementOfSeq, LenProperties DEF Has

-----------------------------------------------------------------------------
(* The inductive invariant                                                 *)

(***************************************************************************)
(* The messages by which a subject gets from period k to the next: its     *)
(* script is done, its page asks for the next period, Route has set it,    *)
(* its page has asked for the page of period k.                            *)
(***************************************************************************)
NextOf(s, k) == Message("_next_period", s, k, 0, FALSE, 0)

AskedOf(s, k) == Message("__set_period__", s, k, 0, TRUE, k + 1)

PeriodIs(s, k) == Message("__set_period__", s, k, 0, TRUE, k)

PageIs(s, k) == Message("__set_page__", s, k, 0, TRUE, k)

Others(s) == {m \in Routed : ~Mine(m, s)}

Still(s) == {m \in Routed : ~Turning(m, s)}

\* No arrival of s at the first barrier.
Early(s, q) == {m \in Still(s) : q = 0 => ~(m.sender = s /\ m.key = "_at_barrier")}

EarlyPlain(s, q) == {m \in Plain(s) : q = 0 => m.key # "_at_barrier"}

(***************************************************************************)
(* What the log may have when s is in period q: no other period of s, and  *)
(* no end of a period of s from k on.                                      *)
(***************************************************************************)
Upto(s, q, k) ==
    {m \in Routed : m.sender = s =>
        /\ m.key = "__set_period__" => m = PeriodIs(s, q)
        /\ m.key = "_next_period" => m.period < k}

LogOf(s, l, q, k) == l \in Seq(Upto(s, q, k)) /\ Has(l, PeriodIs(s, q))

(***************************************************************************)
(* Where a subject s is between two periods.  u, d and r are what is on    *)
(* its way from s, to s, and in the replay to s; p is its page, c its      *)
(* connection, q its period at the router, v its page in Redis, l the log  *)
(* and a what is on its way from the admin.                                *)
(*                                                                         *)
(* Before Route has set the first period of s, only the announcement of    *)
(* its page is known of it.                                                *)
(***************************************************************************)
Told(s, u, d, r, p, c, q, l, a) ==
    /\ Has(a, PeriodIs(s, 0)) /\ q = 0 /\ u = <<>>
    /\ d \in Seq(Others(s))
    /\ l \in Seq(Others(s) \cup {Announcement(s)}) /\ Has(l, Announcement(s))
    /\ r # <<>> =>
          \E x \in Seq(Others(s) \cup {Announcement(s)}) :
             /\ Replays(r, p.sync, x)
             /\ (p.sync /\ p.isReload) \/ Has(x, Announcement(s))
    /\ Unused(p, s) /\ p.period = Undefined
    /\ c # "loading" => p.name = "Wait"

(***************************************************************************)
(* The first period is on its way to the page.                             *)
(***************************************************************************)
Greeted(s, u, d, r, p, c, q, l, a) ==
    /\ ~Has(a, PeriodIs(s, 0)) /\ q = 0 /\ c \in {"registered", "open"}
    /\ u \in Seq({Announcement(s)})
    /\ One(d, PeriodIs(s, 0), Others(s), Others(s) \cup {Announcement(s)})
    /\ l \in Seq(Others(s) \cup {Announcement(s), PeriodIs(s, 0)}) /\ Has(l, PeriodIs(s, 0))
    /\ c = "registered" => u = <<>> /\ Before(l, Announcement(s), PeriodIs(s, 0))
    /\ r # <<>> =>
          \E x \in Seq(Others(s) \cup {Announcement(s), PeriodIs(s, 0)}) :
             /\ Replays(r, p.sync, x)
             /\ Before(x, Announcement(s), PeriodIs(s, 0))
             /\ p.period = 0 => ~Has(x, Announcement(s))
    /\ Unused(p, s) /\ p.period \in {Undefined, 0} /\ p.name = "Wait"

(***************************************************************************)
(* Nothing is on its way that turns s to another period: its page is that  *)
(* of the period, or about to be.                                          *)
(***************************************************************************)
Settled(s, u, d, r, p, c, q, v, l, a) ==
    /\ ~Has(a, PeriodIs(s, 0))
    /\ u \in Seq(Plain(s)) /\ d \in Seq(Still(s)) /\ LogOf(s, l, q, q)
    /\ c # "loading" => p.name = PageFor(q)
    /\ q >= 1 => v = PageFor(q)
    /\ ~p.reloading /\ p.period \in {Undefined, q} /\ p.ranAt \in {Undefined, p.period}
    /\ p.timer <=> p.asked
    /\ p.asked => p.ranAt = q /\ q <= Rows
    /\ c = "open" /\ r = <<>> => p.period = q
    /\ r # <<>> =>
          \E x \in Seq(Upto(s, q, q)) :
             Replays(r, p.sync, x) /\ (p.period = q \/ Has(x, PeriodIs(s, q)))

(***************************************************************************)
(* The page is through with period q and has asked for the next; then one  *)
(* message is on its way that says so.                                     *)
(***************************************************************************)
Through(p, c, r, q) ==
    /\ c = "open" /\ r = <<>> /\ ~p.reloading
    /\ p.period = q /\ p.ranAt = q /\ q <= Rows /\ ~p.timer /\ p.asked /\ p.name = PageFor(q)

Leaving(s, u, d, r, p, c, q, l, a) ==
    /\ ~Has(a, PeriodIs(s, 0))
    /\ \/ /\ Through(p, c, r, q) /\ LogOf(s, l, q, q + 1)
          /\ \/ One(u, NextOf(s, q), Plain(s), Plain(s)) /\ d \in Seq(Still(s))
             \/ u \in Seq(Plain(s)) /\ One(d, NextOf(s, q), Still(s), Still(s))
             \/ One(u, AskedOf(s, q), Plain(s), Plain(s)) /\ d \in Seq(Still(s))
       \/ /\ q >= 1 /\ Through(p, c, r, q - 1) /\ LogOf(s, l, q, q)
          /\ u \in Seq(Plain(s)) /\ One(d, PeriodIs(s, q), Still(s), Still(s))

(***************************************************************************)
(* The page knows its new period q and still is that of the one before; in *)
(* period 0 it is not at the barrier before it is reloaded.                *)
(***************************************************************************)
Stale(s, p, c, r, q) ==
    /\ c = "open" /\ r = <<>> /\ p.period = q /\ ~p.timer
    /\ q >= 1 => p.ranAt = q - 1 /\ p.asked /\ p.name = PageFor(q - 1)
    /\ q = 0 => Idle(p) /\ s \notin p.received[0]

Turned(s, u, d, r, p, c, q, v, l, a) ==
    /\ ~Has(a, PeriodIs(s, 0)) /\ Stale(s, p, c, r, q) /\ ~p.reloading /\ LogOf(s, l, q, q)
    /\ \/ One(u, PageIs(s, q), EarlyPlain(s, q), Plain(s)) /\ d \in Seq(Early(s, q))
       \/ /\ u \in Seq(Plain(s)) /\ One(d, PageIs(s, q), Early(s, q), Still(s))
          /\ v = PageFor(q)

Reloading(s, u, d, r, p, c, q, v, l, a) ==
    /\ ~Has(a, PeriodIs(s, 0)) /\ c = "open" /\ r = <<>> /\ ~p.timer /\ p.reloading /\ LogOf(s, l, q, q)
    /\ p.ranAt # Undefined => p.name = PageFor(p.ranAt)
    /\ u \in Seq(Plain(s)) /\ d \in Seq(Still(s)) /\ v = PageFor(q)

Stage(s, u, d, r, p, c, q, v, l, a) ==
    \/ Told(s, u, d, r, p, c, q, l, a)
    \/ Greeted(s, u, d, r, p, c, q, l, a)
    \/ Settled(s, u, d, r, p, c, q, v, l, a)
    \/ Leaving(s, u, d, r, p, c, q, l, a)
    \/ Turned(s, u, d, r, p, c, q, v, l, a)
    \/ Reloading(s, u, d, r, p, c, q, v, l, a)

(***************************************************************************)
(* How a page goes with its connection.                                    *)
(***************************************************************************)
Linked(s, d, r, p, c) ==
    /\ p \in PageOf(s) /\ p.out = <<>>
    /\ c # "open" => r = <<>>
    /\ c \in {"loading", "loaded"} => d = <<>>
    /\ (c # "open" \/ (r # <<>> /\ ~p.sync)) => p = FreshPage(p.name)
    /\ p.sync => r # <<>>
    /\ p.ranAt = Undefined => p.deferred \subseteq {p.period}
    /\ p.periods[s] = p.period

\* The messages of a subject are of these kinds.
LEMMA MessagesAre ==
    ASSUME NEW s \in Subjects, NEW k \in Periods
    PROVE  /\ NextOf(s, k) \in Routed /\ PeriodIs(s, k) \in Routed /\ PageIs(s, k) \in Routed
           /\ k <= Rows => AskedOf(s, k) \in Routed
           /\ Announcement(s) \in Plain(s)
           /\ Plain(s) \subseteq Still(s) /\ Others(s) \subseteq Still(s) /\ Still(s) \subseteq Routed
           /\ Plain(s) \subseteq Sent(s) /\ Sent(s) \subseteq Routed
           /\ Early(s, k) \subseteq Still(s) /\ EarlyPlain(s, k) \subseteq Early(s, k)
           /\ EarlyPlain(s, k) \subseteq Plain(s) /\ Others(s) \subseteq Early(s, k)
           /\ Announcement(s) \in EarlyPlain(s, k)
<1>1. /\ NextOf(s, k) \in Routed /\ PeriodIs(s, k) \in Routed /\ PageIs(s, k) \in Routed
      /\ k <= Rows => AskedOf(s, k) \in Routed
    BY Basics DEF NextOf, PeriodIs, PageIs, AskedOf, Message, Routed, Change, Group, Periods
<1>2. Announcement(s) \in Plain(s)
    BY Basics DEF Announcement, Message, Plain, Routed, PlainKeys, Change, Group
<1>3. Plain(s) \subseteq Still(s) /\ Others(s) \subseteq Still(s) /\ Still(s) \subseteq Routed
    BY DEF Plain, Still, Others, Turning, Mine, PlainKeys, Change
<1>4. Plain(s) \subseteq Sent(s) /\ Sent(s) \subseteq Routed
    BY DEF Plain, Sent
<1>5. /\ Early(s, k) \subseteq Still(s) /\ EarlyPlain(s, k) \subseteq Plain(s)
    BY DEF Early, EarlyPlain
<1>6. EarlyPlain(s, k) \subseteq Early(s, k)
    BY <1>3 DEF Early, EarlyPlain
<1>7. Others(s) \subseteq Early(s, k)
    BY <1>3 DEF Others, Early, Mine
<1>8. Announcement(s) \in EarlyPlain(s, k)
    BY <1>2 DEF EarlyPlain, Announcement, Message
<1> QED BY <1>1, <1>2, <1>3, <1>4, <1>5, <1>6, <1>7, <1>8

-----------------------------------------------------------------------------
(* What turns a page                                                       *)

\* The page after a handler, when what it has sent is on its way.
Emptied(p) == [p EXCEPT !.out = <<>>]

\* Taking what is sent off a page leaves the rest of it.
LEMMA EmptiedIs ==
    ASSUME NEW s, NEW p \in PageOf(s)
    PROVE  /\ Emptied(p) \in PageOf(s) /\ Emptied(p).out = <<>>
           /\ Emptied(p).queue = p.queue /\ Emptied(p).held = p.held
           /\ Steady(p, Emptied(p))
           /\ p.out = <<>> => Emptied(p) = p
<1>1. <<>> \in Seq(Plain(s))
    BY EmptySeq
<1> QED BY <1>1 DEF Emptied, PageOf, Steady

(***************************************************************************)
(* A page that hears of its new period asks for the page of it, unless it  *)
(* is in a replay.                                                         *)
(***************************************************************************)
LEMMA OwnPeriod ==
    ASSUME NEW s \in Subjects, NEW p \in PageOf(s), p.out = <<>>, ~p.reloading, NEW k \in Periods
    PROVE  LET r == OnMessage(p, s, PeriodIs(s, k))
               w == Emptied(r)
           IN  /\ p.sync => r.out = <<>>
               /\ ~p.sync => r.out = <<PageIs(s, k)>>
               /\ w \in PageOf(s) /\ w.out = <<>> /\ w.name = p.name /\ w.sync = p.sync /\ ~w.reloading
               /\ w.period = k /\ w.periods[s] = k
               /\ w.deferred = p.deferred /\ w.received = p.received /\ SameRun(p, w)
               /\ p.pause \subseteq w.pause /\ w.pause \subseteq p.pause \cup {k} /\ (k \in Paused => k \in w.pause)
               /\ p.queue = <<>> => w.queue = <<>>
               /\ w.held = p.held
               /\ Plays(r) <=> Plays(w)
               /\ r.ranAt = w.ranAt
<1> DEFINE m == PeriodIs(s, k)
           g == PageIs(s, k)
           d == Deduplicate(p, m)
           core == CoreSetPeriod(d, s, m)
           paused == [core EXCEPT !.pause = IF k \in Paused THEN @ \cup {k} ELSE @]
<1>1. d \in PageOf(s) /\ Steady(p, d) /\ d.out = <<>> /\ d.held = p.held /\ (p.queue = <<>> => d.queue = <<>>)
    BY DeduplicateIs
<1>2. m.key = "__set_period__" /\ m.sender = s /\ m.value = k
    BY DEF PeriodIs, Message
<1>3. g = Message("__set_page__", s, k, 0, TRUE, k) /\ g.key = "__set_page__" /\ OnWire(g) = g
    BY Basics DEF PageIs, Message, OnWire
<1>4. OnMessage(p, s, m) = Send(paused, s, g)
    <2>1. OnMessage(p, s, m) = SetPeriod(d, s, m)
        BY <1>2 DEF OnMessage, HandleMsg
    <2>2. SetPeriod(d, s, m) = Send(paused, s, g)
        BY <1>2 DEF SetPeriod, PageIs
    <2> QED BY <2>1, <2>2
<1> HIDE DEF m, g, d
<1>5. /\ core \in PageOf(s) /\ core.name = d.name /\ core.sync = d.sync /\ core.reloading = d.reloading
      /\ core.period = k /\ core.periods[s] = k
      /\ core.deferred = d.deferred /\ core.received = d.received /\ SameRun(d, core)
      /\ core.pause = d.pause /\ core.queue = d.queue /\ core.held = d.held /\ core.out = <<>>
    <2> DEFINE z == [d.periods EXCEPT ![s] = k]
               b == IF d.sync THEN FALSE ELSE d.isReload
    <2>1. core = [d EXCEPT !.periods = z, !.period = k, !.isReload = b]
        BY <1>1, <1>2 DEF CoreSetPeriod, PageOf
    <2>2. z \in [Subjects -> Periods \cup {Undefined}] /\ z[s] = k /\ b \in BOOLEAN
        BY <1>1 DEF PageOf
    <2> HIDE DEF z, b, core
    <2> QED BY <1>1, <2>1, <2>2 DEF PageOf, SameRun
<1> HIDE DEF core
<1>6. /\ paused \in PageOf(s) /\ paused.name = core.name /\ paused.sync = core.sync
      /\ paused.reloading = core.reloading /\ paused.period = k /\ paused.periods[s] = k
      /\ paused.deferred = core.deferred /\ paused.received = core.received /\ SameRun(core, paused)
      /\ paused.pause = (IF k \in Paused THEN core.pause \cup {k} ELSE core.pause)
      /\ paused.queue = core.queue /\ paused.held = core.held /\ paused.out = <<>>
    BY <1>5 DEF PageOf, SameRun
<1> HIDE DEF paused
<1>7. Send(paused, s, g) = IF p.sync THEN paused ELSE [paused EXCEPT !.out = <<g>>]
    <2>1. paused.sync = p.sync
        BY <1>1, <1>5, <1>6 DEF Steady
    <2>2. ~IsQueueable(paused, s, g)
        BY <1>3 DEF IsQueueable, StateKeys
    <2>3. Append(paused.out, g) = <<g>>
        BY <1>6
    <2> QED BY <1>3, <2>1, <2>2, <2>3 DEF Send, SyncSend, DefaultSend
<1> DEFINE r == Send(paused, s, g)
           w == Emptied(r)
<1>8. r.out = (IF p.sync THEN <<>> ELSE <<g>>) /\ w = paused /\ r.name = w.name /\ r.ranAt = w.ranAt
    <2>1. CASE p.sync
        BY <1>6, <1>7, <2>1, EmptiedIs
    <2>2. CASE ~p.sync
        BY <1>6, <1>7, <2>2 DEF Emptied, PageOf
    <2> QED BY <2>1, <2>2
<1> HIDE DEF r, w
<1>9. Plays(r) <=> Plays(w)
    BY <1>8 DEF Plays
<1>10. /\ w.name = p.name /\ w.sync = p.sync /\ ~w.reloading
       /\ w.deferred = p.deferred /\ w.received = p.received /\ SameRun(p, w)
       /\ p.pause \subseteq w.pause /\ w.pause \subseteq p.pause \cup {k} /\ (k \in Paused => k \in w.pause)
    BY <1>1, <1>5, <1>6, <1>8 DEF Steady, SameRun
<1>11. OnMessage(p, s, PeriodIs(s, k)) = r /\ g = PageIs(s, k)
    BY <1>4 DEF r, m, g
<1> QED BY <1>1, <1>5, <1>6, <1>8, <1>9, <1>10, <1>11 DEF w

(***************************************************************************)
(* A page that gets its _next_period back asks for the next period, if it  *)
(* still is in the one that has ended.                                     *)
(***************************************************************************)
LEMMA OwnNext ==
    ASSUME NEW s \in Subjects, NEW p \in PageOf(s), p.out = <<>>, ~p.reloading,
           NEW m \in Routed, m.sender = s, m.key = "_next_period"
    PROVE  LET r == OnMessage(p, s, m)
               w == Emptied(r)
           IN  /\ m.period # p.periods[s] =>
                    r = w /\ w \in PageOf(s) /\ Steady(p, w) /\ w.out = <<>>
               /\ m.period = p.periods[s] /\ p.period = m.period /\ ~p.sync =>
                    /\ r.out = <<AskedOf(s, p.period)>>
                    /\ w \in PageOf(s) /\ Steady(p, w) /\ w.out = <<>>
                    /\ r.name = w.name /\ r.ranAt = w.ranAt
<1> DEFINE d == Deduplicate(p, m)
<1>1. d \in PageOf(s) /\ Steady(p, d) /\ d.out = <<>> /\ (~p.sync => d = p)
    BY DeduplicateIs
<1>2. OnMessage(p, s, m) = OwnNextPeriod(d, s, m)
    BY DEF OnMessage, HandleMsg
<1> HIDE DEF d
<1>3. CASE m.period # p.periods[s]
    <2>1. OnMessage(p, s, m) = d
        BY <1>1, <1>2, <1>3 DEF OwnNextPeriod, Steady
    <2>2. Emptied(d) = d
        BY <1>1, EmptiedIs
    <2> QED BY <1>1, <1>3, <2>1, <2>2
<1>4. CASE m.period = p.periods[s] /\ p.period = m.period /\ ~p.sync
    <2> DEFINE a == AskedOf(s, p.period)
               b == [p EXCEPT !.broken = TRUE]
               r == [b EXCEPT !.out = <<a>>]
    <2>1. p.period \in Periods
        BY <1>4 DEF Routed
    <2>2. a = Message("__set_period__", s, p.period, 0, TRUE, p.period + 1) /\ OnWire(a) = a
        BY <2>1, Basics DEF AskedOf, Message, OnWire
    <2>3. OnMessage(p, s, m) = Send(b, s, a)
        BY <1>1, <1>2, <1>4, <2>2 DEF OwnNextPeriod
    <2> HIDE DEF a
    <2>4. b \in PageOf(s) /\ Steady(p, b) /\ b.out = <<>> /\ ~b.sync
        BY <1>4 DEF PageOf, Steady
    <2> HIDE DEF b
    <2>5. Append(b.out, a) = <<a>>
        BY <2>4
    <2>6. Send(b, s, a) = r
        BY <2>2, <2>4, <2>5 DEF Send, DefaultSend
    <2>7. Emptied(r) = b /\ r.out = <<a>> /\ r.name = b.name /\ r.ranAt = b.ranAt
        BY <2>4 DEF Emptied, PageOf
    <2> HIDE DEF r
    <2> QED BY <1>4, <2>3, <2>4, <2>6, <2>7 DEF a
<1> QED BY <1>3, <1>4

\* A __set_page__ makes a page reload, unless it is in a replay.
LEMMA OwnPage ==
    ASSUME NEW s \in Subjects, NEW p \in PageOf(s), p.out = <<>>, ~p.reloading,
           NEW m \in Routed, m.sender = s, m.key = "__set_page__"
    PROVE  LET r == OnMessage(p, s, m)
           IN  /\ r \in PageOf(s) /\ r.out = <<>> /\ r.reloading = ~p.sync /\ Emptied(r) = r
               /\ Steady(p, [r EXCEPT !.reloading = FALSE])
<1> DEFINE d == Deduplicate(p, m)
           r == CoreSetPage(d, s, m)
<1>1. d \in PageOf(s) /\ Steady(p, d) /\ d.out = <<>>
    BY DeduplicateIs
<1>2. OnMessage(p, s, m) = r
    BY DEF OnMessage, HandleMsg
<1> HIDE DEF d
<1>3. r = [d EXCEPT !.reloading = ~p.sync]
    BY <1>1 DEF CoreSetPage, Steady, PageOf
<1> HIDE DEF r
<1>4. p.reloading = FALSE /\ p.sync \in BOOLEAN
    BY DEF PageOf
<1>5. r \in PageOf(s) /\ r.out = <<>> /\ r.reloading = ~p.sync
    BY <1>1, <1>3, <1>4 DEF PageOf
<1>6. Steady(p, [r EXCEPT !.reloading = FALSE])
    BY <1>1, <1>3, <1>4 DEF PageOf, Steady
<1>7. Emptied(r) = r
    BY <1>5, EmptiedIs
<1> QED BY <1>2, <1>5, <1>6, <1>7

\* The first mark begins the replay.
LEMMA OwnBegin ==
    ASSUME NEW s, NEW p \in PageOf(s), p.out = <<>>, ~p.reloading
    PROVE  LET r == OnMessage(p, s, Begin)
           IN  /\ r \in PageOf(s) /\ r.out = <<>> /\ r.sync /\ r.queue = <<>> /\ r.held = p.held
               /\ Emptied(r) = r
               /\ Steady(p, [r EXCEPT !.sync = p.sync])
<1> DEFINE r == [p EXCEPT !.sync = TRUE, !.queue = <<>>]
<1>1. OnMessage(p, s, Begin) = r
    BY DEF OnMessage, Begin, Mark, Message, QueueStart
<1>2. <<>> \in Seq(Plain(s))
    BY EmptySeq
<1>3. r \in PageOf(s) /\ r.out = <<>> /\ r.sync /\ r.queue = <<>> /\ r.held = p.held
    BY <1>2 DEF PageOf
<1>4. Steady(p, [r EXCEPT !.sync = p.sync])
    BY DEF PageOf, Steady
<1> HIDE DEF r
<1>5. Emptied(r) = r
    BY <1>3, EmptiedIs
<1> QED BY <1>1, <1>3, <1>4, <1>5

(***************************************************************************)
(* The last mark ends it: the page announces itself, unless it has seen    *)
(* its announcement for this period, and sends its queue.                  *)
(***************************************************************************)
LEMMA OwnEnd ==
    ASSUME NEW s \in Subjects, NEW p \in PageOf(s), p.out = <<>>, ~p.reloading
    PROVE  LET r == OnMessage(p, s, End)
               w == Emptied(r)
               loaded == Message("__page_loaded__", s, IF p.period = Undefined THEN 0 ELSE p.period, 0, FALSE, 0)
           IN  /\ r \in PageOf(s) /\ loaded \in Plain(s)
               /\ r.out = (IF p.isReload THEN <<>> ELSE <<loaded>>) \o p.queue
               /\ w \in PageOf(s) /\ w.out = <<>> /\ ~w.sync /\ w.queue = p.queue /\ w.held = p.held
               /\ Steady(p, [w EXCEPT !.sync = p.sync, !.isReload = p.isReload])
               /\ r.name = w.name /\ r.ranAt = w.ranAt
<1> DEFINE sent == Message("__page_loaded__", s, p.period, 0, FALSE, 0)
           loaded == Message("__page_loaded__", s, IF p.period = Undefined THEN 0 ELSE p.period, 0, FALSE, 0)
           e == IF p.isReload THEN <<>> ELSE <<loaded>>
           r == [p EXCEPT !.sync = FALSE, !.isReload = FALSE, !.out = e \o p.queue]
           announced == IF p.isReload THEN p ELSE DefaultSend(p, sent)
<1>1. OnWire(sent) = loaded /\ loaded \in Plain(s)
    <2>1. p.period \in Periods \cup {Undefined}
        BY DEF PageOf
    <2>2. OnWire(sent) = loaded
        <3>1. CASE p.period = Undefined
            <4>1. loaded = Message("__page_loaded__", s, 0, 0, FALSE, 0)
                BY <3>1
            <4>2. sent = Message("__page_loaded__", s, Undefined, 0, FALSE, 0)
                BY <3>1
            <4> HIDE DEF sent, loaded
            <4>3. sent.period = Undefined
                BY <4>2 DEF Message
            <4>4. OnWire(sent) = [sent EXCEPT !.period = 0]
                BY <4>3 DEF OnWire
            <4> QED BY <4>4, <4>1, <4>2 DEF Message
        <3>2. CASE p.period # Undefined
            BY <3>2 DEF OnWire, Message
        <3> QED BY <3>1, <3>2
    <2>3. loaded \in Plain(s)
        BY <2>1, Basics DEF Message, Plain, Routed, PlainKeys, Change, Group
    <2> QED BY <2>2, <2>3
<1>2. OnMessage(p, s, End) = [[announced EXCEPT !.sync = FALSE, !.isReload = FALSE] EXCEPT !.out = @ \o p.queue]
    BY DEF OnMessage, End, Mark, Message, QueueEnd
<1> HIDE DEF sent, loaded
<1>3. announced = [p EXCEPT !.out = e]
    <2>1. CASE p.isReload
        BY <2>1 DEF PageOf
    <2>2. CASE ~p.isReload
        <3>1. Append(p.out, loaded) = <<loaded>>
            OBVIOUS
        <3> QED BY <1>1, <2>2, <3>1 DEF DefaultSend
    <2> QED BY <2>1, <2>2
<1>4. e \in Seq(Plain(s)) /\ p.queue \in Seq(Plain(s)) /\ <<>> \in Seq(Plain(s))
    BY <1>1, OfOne, EmptySeq DEF PageOf
<1>5. e \o p.queue \in Seq(Plain(s))
    BY <1>4, ConcatProperties
<1> HIDE DEF e
<1>6. OnMessage(p, s, End) = r
    BY <1>2, <1>3 DEF PageOf
<1>7. r \in PageOf(s) /\ r.out = e \o p.queue
    BY <1>5 DEF PageOf
<1> DEFINE w == Emptied(r)
<1>8. /\ w \in PageOf(s) /\ w.out = <<>> /\ ~w.sync /\ w.queue = p.queue /\ w.held = p.held
      /\ Steady(p, [w EXCEPT !.sync = p.sync, !.isReload = p.isReload])
      /\ r.name = w.name /\ r.ranAt = w.ranAt
    BY <1>4, <1>5 DEF Emptied, PageOf, Steady
<1> HIDE DEF r
<1> QED BY <1>1, <1>6, <1>7, <1>8 DEF e, loaded

-----------------------------------------------------------------------------
(* What Route does                                                         *)

\* What the log may have of a subject that has not ended its period.
LEMMA UptoIs ==
    ASSUME NEW s \in Subjects, NEW q \in Periods, NEW k \in Nat
    PROVE  /\ Upto(s, q, k) \subseteq Routed
           /\ Still(s) \subseteq Upto(s, q, k) /\ Plain(s) \subseteq Upto(s, q, k)
           /\ Others(s) \subseteq Upto(s, q, k)
           /\ Announcement(s) \in Upto(s, q, k)
           /\ PeriodIs(s, q) \in Upto(s, q, k) /\ PageIs(s, q) \in Upto(s, q, k)
           /\ Upto(s, q, k) \subseteq Upto(s, q, k + 1)
           /\ q < k => NextOf(s, q) \in Upto(s, q, k)
<1>1. Upto(s, q, k) \subseteq Routed
    BY DEF Upto
<1>2. Still(s) \subseteq Upto(s, q, k)
    BY DEF Still, Turning, Change, Upto
<1>3. Plain(s) \subseteq Upto(s, q, k) /\ Others(s) \subseteq Upto(s, q, k) /\ Announcement(s) \in Upto(s, q, k)
    BY <1>2, MessagesAre
<1>4. PeriodIs(s, q) \in Upto(s, q, k) /\ PageIs(s, q) \in Upto(s, q, k)
    <2>1. PeriodIs(s, q).key = "__set_period__" /\ PageIs(s, q).key = "__set_page__"
        BY DEF PeriodIs, PageIs, Message
    <2> QED BY <2>1, MessagesAre DEF Upto
<1>5. Upto(s, q, k) \subseteq Upto(s, q, k + 1)
    <2>1. ASSUME NEW m \in Upto(s, q, k) PROVE m \in Upto(s, q, k + 1)
        <3>1. m \in Routed /\ m.period \in Nat
            BY Basics DEF Upto, Routed
        <3> QED BY <3>1 DEF Upto
    <2> QED BY <2>1
<1>6. q < k => NextOf(s, q) \in Upto(s, q, k)
    <2>1. NextOf(s, q).key = "_next_period" /\ NextOf(s, q).period = q
        BY DEF NextOf, Message
    <2> QED BY <2>1, MessagesAre DEF Upto
<1> QED BY <1>1, <1>2, <1>3, <1>4, <1>5, <1>6

\* The log keeps the period of s, and gets nothing that it may not have.
LEMMA LogStays ==
    ASSUME NEW s \in Subjects, NEW q \in Periods, NEW k \in Nat, NEW l, LogOf(s, l, q, k),
           NEW m \in Upto(s, q, k), m.key # "__set_period__" \/ m.sender # s,
           NEW sc, sc[s].period = q
    PROVE  LogOf(s, Adding(l, m, sc), q, k)
<1> DEFINE x == PeriodIs(s, q)
<1>1. x.key = "__set_period__" /\ x.sender = s /\ x.period = q
    BY DEF PeriodIs, Message
<1>2. ~Replaces(m, x) /\ Needed(sc, x)
    BY <1>1, Basics DEF Replaces, Needed, PeriodOf
<1> HIDE DEF x
<1>3. Adding(l, m, sc) \in Seq(Upto(s, q, k)) /\ Has(Adding(l, m, sc), x)
    <2>1. l \in Seq(Upto(s, q, k)) /\ Has(l, x)
        BY DEF LogOf, x
    <2> QED BY <1>2, <2>1, AddingIs
<1> QED BY <1>3 DEF LogOf, x

(***************************************************************************)
(* What is not about s leaves s where it is: m goes to the end of what is  *)
(* on its way to s, or not to s at all.                                    *)
(***************************************************************************)
Reaches(d, m, c) == IF c \in {"registered", "open"} THEN {d, Append(d, m)} ELSE {d}

\* What Route handles of others keeps s where it is.
LEMMA OthersStay ==
    ASSUME NEW s \in Subjects, NEW u, NEW d, NEW r, NEW p, NEW c, NEW q \in Periods, NEW v, NEW l, NEW a,
           Stage(s, u, d, r, p, c, q, v, l, a),
           NEW m \in Others(s), NEW sc, sc[s].period = q, NEW d2 \in Reaches(d, m, c),
           NEW a2, Has(a2, PeriodIs(s, 0)) <=> Has(a, PeriodIs(s, 0))
    PROVE  Stage(s, u, d2, r, p, c, q, v, Adding(l, m, sc), a2)
<1> DEFINE l2 == Adding(l, m, sc)
<1>1. d2 = d \/ d2 = Append(d, m)
    BY DEF Reaches
<1>2. m \in Still(s) /\ m \in Early(s, q) /\ m \in Routed
    BY MessagesAre DEF Others
<1>3. \A k \in Nat : LogOf(s, l, q, k) => LogOf(s, l2, q, k)
    <2>1. m.key # "__set_period__" \/ m.sender # s
        BY DEF Others, Mine
    <2>2. SUFFICES ASSUME NEW k \in Nat, LogOf(s, l, q, k) PROVE LogOf(s, l2, q, k)
        OBVIOUS
    <2>3. m \in Upto(s, q, k)
        BY <1>2, UptoIs
    <2> QED BY <2>1, <2>2, <2>3, LogStays
<1>4. \A A : d \in Seq(A) /\ m \in A => d2 \in Seq(A)
    BY <1>1, AppendProperties
<1>5. \A A, B, x : One(d, x, A, B) /\ m \in B => One(d2, x, A, B)
    BY <1>1, OneAppend
<1>6. CASE Told(s, u, d, r, p, c, q, l, a)
    <2> DEFINE S == Others(s) \cup {Announcement(s)}
               x == Announcement(s)
    <2>1. x.key = "__page_loaded__" /\ x.period = 0
        BY DEF Announcement, Message
    <2>2. ~Replaces(m, x)
        BY <1>2, <2>1 DEF Replaces, Routed, Change
    <2>3. Needed(sc, x)
        BY <1>6, <2>1, Basics DEF Needed, PeriodOf, Told
    <2>4. l \in Seq(S) /\ Has(l, x) /\ m \in S
        BY <1>6 DEF Told
    <2> HIDE DEF x, S
    <2>5. l2 \in Seq(S) /\ Has(l2, x)
        BY <2>2, <2>3, <2>4, AddingIs
    <2>6. d2 \in Seq(Others(s))
        BY <1>4, <1>6 DEF Told
    <2> HIDE DEF l2
    <2>7. Told(s, u, d2, r, p, c, q, l2, a2)
        BY <1>6, <2>5, <2>6 DEF Told, S, x
    <2> QED BY <2>7 DEF Stage, l2
<1>7. CASE Greeted(s, u, d, r, p, c, q, l, a)
    <2> DEFINE S == Others(s) \cup {Announcement(s), PeriodIs(s, 0)}
               y == Announcement(s)
               x == PeriodIs(s, 0)
    <2>1. x.key = "__set_period__" /\ x.sender = s /\ x.period = 0 /\ y.key = "__page_loaded__" /\ y.sender = s
        BY DEF PeriodIs, Announcement, Message
    <2>2. ~Replaces(m, x) /\ Needed(sc, x) /\ m # y /\ x # y
        <3>1. m.sender = s => m.key = "__resume__"
            BY DEF Others, Mine
        <3> HIDE DEF x, y
        <3> QED BY <2>1, <3>1, <1>7, Basics DEF Greeted, Replaces, Needed, PeriodOf
    <2>3. l \in Seq(S) /\ Has(l, x) /\ m \in S
        BY <1>7 DEF Greeted
    <2>4. One(d2, x, Others(s), Others(s) \cup {y})
        BY <1>5, <1>7 DEF Greeted
    <2>5. c = "registered" => u = <<>> /\ Before(l, y, x)
        BY <1>7 DEF Greeted
    <2> HIDE DEF x, y, S
    <2>6. l2 \in Seq(S) /\ Has(l2, x)
        BY <2>2, <2>3, AddingIs
    <2>7. c = "registered" => Before(l2, y, x)
        BY <2>2, <2>3, <2>5, AddingInOrder
    <2> HIDE DEF l2
    <2>8. Greeted(s, u, d2, r, p, c, q, l2, a2)
        BY <1>7, <2>4, <2>5, <2>6, <2>7 DEF Greeted, x, y, S
    <2> QED BY <2>8 DEF Stage, l2
<1> HIDE DEF l2
<1>8. CASE Settled(s, u, d, r, p, c, q, v, l, a)
    <2>1. d2 \in Seq(Still(s)) /\ LogOf(s, l2, q, q)
        BY <1>2, <1>3, <1>4, <1>8, Basics DEF Settled
    <2>2. Settled(s, u, d2, r, p, c, q, v, l2, a2)
        BY <1>8, <2>1 DEF Settled
    <2> QED BY <2>2 DEF Stage, l2
<1>9. CASE Leaving(s, u, d, r, p, c, q, l, a)
    <2>1. /\ LogOf(s, l, q, q + 1) => LogOf(s, l2, q, q + 1)
          /\ LogOf(s, l, q, q) => LogOf(s, l2, q, q)
        BY <1>3, Basics
    <2>2. /\ d \in Seq(Still(s)) => d2 \in Seq(Still(s))
          /\ One(d, NextOf(s, q), Still(s), Still(s)) => One(d2, NextOf(s, q), Still(s), Still(s))
          /\ One(d, PeriodIs(s, q), Still(s), Still(s)) => One(d2, PeriodIs(s, q), Still(s), Still(s))
        BY <1>2, <1>4, <1>5
    <2>3. Leaving(s, u, d2, r, p, c, q, l2, a2)
        BY <1>9, <2>1, <2>2 DEF Leaving
    <2> QED BY <2>3 DEF Stage, l2
<1>10. CASE Turned(s, u, d, r, p, c, q, v, l, a)
    <2>1. LogOf(s, l, q, q) => LogOf(s, l2, q, q)
        BY <1>3, Basics
    <2>2. /\ d \in Seq(Early(s, q)) => d2 \in Seq(Early(s, q))
          /\ One(d, PageIs(s, q), Early(s, q), Still(s)) => One(d2, PageIs(s, q), Early(s, q), Still(s))
        BY <1>2, <1>4, <1>5
    <2>3. Turned(s, u, d2, r, p, c, q, v, l2, a2)
        BY <1>10, <2>1, <2>2 DEF Turned
    <2> QED BY <2>3 DEF Stage, l2
<1>11. CASE Reloading(s, u, d, r, p, c, q, v, l, a)
    <2>1. d2 \in Seq(Still(s)) /\ LogOf(s, l2, q, q)
        BY <1>2, <1>3, <1>4, <1>11, Basics DEF Reloading
    <2>2. Reloading(s, u, d2, r, p, c, q, v, l2, a2)
        BY <1>11, <2>1 DEF Reloading
    <2> QED BY <2>2 DEF Stage, l2
<1> QED BY <1>6, <1>7, <1>8, <1>9, <1>10, <1>11 DEF Stage

\* What reaches a page does not change how it goes with its connection.
LEMMA LinkedReaches ==
    ASSUME NEW s, NEW d, NEW r, NEW p, NEW c, Linked(s, d, r, p, c), NEW m, NEW d2 \in Reaches(d, m, c)
    PROVE  Linked(s, d2, r, p, c)
BY DEF Linked, Reaches

(***************************************************************************)
(* A page that is open gets what it has said itself.                       *)
(***************************************************************************)
LEMMA GetsOwn ==
    ASSUME NEW s \in Subjects, NEW sc, NEW l, NEW m \in Routed, m.sender = s,
           m.period \in {0, sc[s].period}, m.group = 0,
           m.stateUpdate => m \in Msg /\ Has(l, m)
    PROVE  Gets(s, sc, l, m)
<1>1. m.stateUpdate => \E x \in ToSet(l) : IdenticalTo(m, x)
    <2>1. SUFFICES ASSUME m.stateUpdate PROVE \E x \in ToSet(l) : IdenticalTo(m, x)
        OBVIOUS
    <2>2. m \in ToSet(l)
        BY <2>1 DEF Has, ToSet
    <2>3. m # NoMsg
        BY <2>1, NamesAssumption
    <2> QED BY <2>2, <2>3 DEF IdenticalTo
<1> QED BY <1>1 DEF Gets, Interests, match

\* The two state updates are messages of the wire.
LEMMA UpdatesAreMsg ==
    ASSUME NEW s \in Subjects, NEW k \in Periods
    PROVE  PeriodIs(s, k) \in Msg /\ PageIs(s, k) \in Msg
BY Basics DEF PeriodIs, PageIs, Message, Msg, Keys, StateKeys, Names

(***************************************************************************)
(* What Route does with a message of s that does not turn s.               *)
(***************************************************************************)
LEMMA OwnPlainStays ==
    ASSUME NEW s \in Subjects, NEW u, NEW d, NEW r, NEW p, NEW c, NEW q \in Periods, NEW v, NEW l, NEW a,
           Stage(s, u, d, r, p, c, q, v, l, a), u # <<>>,
           NEW m \in Plain(s), m = Head(u), NEW sc, sc[s].period = q, NEW d2 \in Reaches(d, m, c)
    PROVE  Stage(s, Tail(u), d2, r, p, c, q, v, Adding(l, m, sc), a)
<1> DEFINE l2 == Adding(l, m, sc)
<1>1. d2 = d \/ d2 = Append(d, m)
    BY DEF Reaches
<1>2. m \in Still(s) /\ m \in Routed /\ m.key \in PlainKeys
    BY MessagesAre DEF Plain
<1>3. \A k \in Nat : LogOf(s, l, q, k) => LogOf(s, l2, q, k)
    <2>1. m.key # "__set_period__"
        BY <1>2 DEF PlainKeys
    <2>2. SUFFICES ASSUME NEW k \in Nat, LogOf(s, l, q, k) PROVE LogOf(s, l2, q, k)
        OBVIOUS
    <2>3. m \in Upto(s, q, k)
        BY UptoIs
    <2> QED BY <2>1, <2>2, <2>3, LogStays
<1>4. \A A : d \in Seq(A) /\ m \in A => d2 \in Seq(A)
    BY <1>1, AppendProperties
<1>5. \A A, B, x : One(d, x, A, B) /\ m \in B => One(d2, x, A, B)
    BY <1>1, OneAppend
<1>6. \A A : u \in Seq(A) => Tail(u) \in Seq(A) /\ m \in A
    BY HeadTailProperties
<1>7. CASE Told(s, u, d, r, p, c, q, l, a)
    BY <1>7 DEF Told
<1>8. CASE Greeted(s, u, d, r, p, c, q, l, a)
    <2> DEFINE S == Others(s) \cup {Announcement(s), PeriodIs(s, 0)}
               x == PeriodIs(s, 0)
    <2>1. x.key = "__set_period__" /\ x.sender = s /\ x.period = 0
        BY DEF PeriodIs, Message
    <2>2. m = Announcement(s) /\ Tail(u) \in Seq({Announcement(s)}) /\ c # "registered"
        <3>1. u \in Seq({Announcement(s)}) /\ (c = "registered" => u = <<>>)
            BY <1>8 DEF Greeted
        <3> QED BY <1>6, <3>1
    <2>3. ~Replaces(m, x) /\ Needed(sc, x)
        BY <1>2, <1>8, <2>1, Basics DEF Greeted, Replaces, Needed, PeriodOf, PlainKeys
    <2>4. l \in Seq(S) /\ Has(l, x) /\ m \in S
        BY <1>8, <2>2 DEF Greeted
    <2>5. One(d2, x, Others(s), Others(s) \cup {Announcement(s)})
        BY <1>5, <1>8, <2>2 DEF Greeted
    <2> HIDE DEF x, S
    <2>6. l2 \in Seq(S) /\ Has(l2, x)
        BY <2>3, <2>4, AddingIs
    <2> HIDE DEF l2
    <2>7. Greeted(s, Tail(u), d2, r, p, c, q, l2, a)
        BY <1>8, <2>2, <2>5, <2>6 DEF Greeted, x, S
    <2> QED BY <2>7 DEF Stage, l2
<1> HIDE DEF l2
<1>9. CASE Settled(s, u, d, r, p, c, q, v, l, a)
    <2>1. d2 \in Seq(Still(s)) /\ LogOf(s, l2, q, q) /\ Tail(u) \in Seq(Plain(s))
        BY <1>2, <1>3, <1>4, <1>6, <1>9, Basics DEF Settled
    <2>2. Settled(s, Tail(u), d2, r, p, c, q, v, l2, a)
        BY <1>9, <2>1 DEF Settled
    <2> QED BY <2>2 DEF Stage, l2
<1>10. CASE Leaving(s, u, d, r, p, c, q, l, a)
    <2>1. /\ LogOf(s, l, q, q + 1) => LogOf(s, l2, q, q + 1)
          /\ LogOf(s, l, q, q) => LogOf(s, l2, q, q)
        BY <1>3, Basics
    <2>2. /\ d \in Seq(Still(s)) => d2 \in Seq(Still(s))
          /\ One(d, NextOf(s, q), Still(s), Still(s)) => One(d2, NextOf(s, q), Still(s), Still(s))
          /\ One(d, PeriodIs(s, q), Still(s), Still(s)) => One(d2, PeriodIs(s, q), Still(s), Still(s))
        BY <1>2, <1>4, <1>5
    <2>3. /\ u \in Seq(Plain(s)) => Tail(u) \in Seq(Plain(s))
          /\ One(u, NextOf(s, q), Plain(s), Plain(s)) => One(Tail(u), NextOf(s, q), Plain(s), Plain(s))
          /\ One(u, AskedOf(s, q), Plain(s), Plain(s)) => One(Tail(u), AskedOf(s, q), Plain(s), Plain(s))
        <3>1. m # NextOf(s, q) /\ m # AskedOf(s, q)
            BY <1>2 DEF NextOf, AskedOf, Message, PlainKeys
        <3> QED BY <1>6, <3>1, OneHead
    <2>4. Leaving(s, Tail(u), d2, r, p, c, q, l2, a)
        BY <1>10, <2>1, <2>2, <2>3 DEF Leaving
    <2> QED BY <2>4 DEF Stage, l2
<1>11. CASE Turned(s, u, d, r, p, c, q, v, l, a)
    <2>1. LogOf(s, l2, q, q)
        BY <1>3, <1>11, Basics DEF Turned
    <2>2. CASE One(u, PageIs(s, q), EarlyPlain(s, q), Plain(s)) /\ d \in Seq(Early(s, q))
        <3>1. m # PageIs(s, q)
            BY <1>2 DEF PageIs, Message, PlainKeys
        <3>2. m \in EarlyPlain(s, q) /\ One(Tail(u), PageIs(s, q), EarlyPlain(s, q), Plain(s))
            BY <2>2, <3>1, OneHead
        <3>3. d2 \in Seq(Early(s, q))
            BY <1>4, <2>2, <3>2, MessagesAre
        <3>4. Turned(s, Tail(u), d2, r, p, c, q, v, l2, a)
            BY <1>11, <2>1, <3>2, <3>3 DEF Turned
        <3> QED BY <3>4 DEF Stage, l2
    <2>3. CASE u \in Seq(Plain(s)) /\ One(d, PageIs(s, q), Early(s, q), Still(s)) /\ v = PageFor(q)
        <3>1. Tail(u) \in Seq(Plain(s)) /\ One(d2, PageIs(s, q), Early(s, q), Still(s))
            BY <1>2, <1>5, <1>6, <2>3
        <3>2. Turned(s, Tail(u), d2, r, p, c, q, v, l2, a)
            BY <1>11, <2>1, <2>3, <3>1 DEF Turned
        <3> QED BY <3>2 DEF Stage, l2
    <2> QED BY <1>11, <2>2, <2>3 DEF Turned
<1>12. CASE Reloading(s, u, d, r, p, c, q, v, l, a)
    <2>1. d2 \in Seq(Still(s)) /\ LogOf(s, l2, q, q) /\ Tail(u) \in Seq(Plain(s))
        BY <1>2, <1>3, <1>4, <1>6, <1>12, Basics DEF Reloading
    <2>2. Reloading(s, Tail(u), d2, r, p, c, q, v, l2, a)
        BY <1>12, <2>1 DEF Reloading
    <2> QED BY <2>2 DEF Stage, l2
<1> QED BY <1>7, <1>8, <1>9, <1>10, <1>11, <1>12 DEF Stage

(***************************************************************************)
(* The message as Route handles it, and what of it the page gets.          *)
(***************************************************************************)
Taken(m) == [m EXCEPT !.period = IF m.key = "__set_period__" THEN m.value ELSE @]

Reached(s, d, m, c, sc, l) ==
    IF c \in {"registered", "open"} /\ Gets(s, sc, l, m) THEN Append(d, m) ELSE d

\* A page gets the message or not.
LEMMA ReachedReaches ==
    ASSUME NEW s, NEW d, NEW m, NEW c, NEW sc, NEW l
    PROVE  Reached(s, d, m, c, sc, l) \in Reaches(d, m, c)
BY DEF Reached, Reaches

\* What overwriting the period of a message does.
LEMMA InPeriod ==
    ASSUME NEW key, NEW t, NEW k, NEW group, NEW update, NEW value, NEW j
    PROVE  [Message(key, t, k, group, update, value) EXCEPT !.period = j]
               = Message(key, t, j, group, update, value)
BY DEF Message

\* What Route makes of each kind of message.
LEMMA TakenIs ==
    ASSUME NEW s \in Subjects, NEW k \in Periods
    PROVE  /\ Taken(NextOf(s, k)) = NextOf(s, k) /\ Taken(PageIs(s, k)) = PageIs(s, k)
           /\ Taken(PeriodIs(s, k)) = PeriodIs(s, k)
           /\ Taken(AskedOf(s, k)) = PeriodIs(s, k + 1)
           /\ \A m \in Plain(s) : Taken(m) = m
           /\ \A m \in Routed : m.key # "__set_period__" => Taken(m) = m
<1>1. \A m \in Routed : m.key # "__set_period__" => Taken(m) = m
    BY DEF Taken, Routed
<1>2. \A m \in Plain(s) : Taken(m) = m
    BY <1>1 DEF Plain, PlainKeys
<1>3. Taken(NextOf(s, k)) = NextOf(s, k) /\ Taken(PageIs(s, k)) = PageIs(s, k)
    BY DEF Taken, NextOf, PageIs, Message
<1>4. Taken(PeriodIs(s, k)) = PeriodIs(s, k) /\ Taken(AskedOf(s, k)) = PeriodIs(s, k + 1)
    <2> DEFINE x == PeriodIs(s, k)
               y == AskedOf(s, k)
    <2>1. x.key = "__set_period__" /\ x.value = k /\ y.key = "__set_period__" /\ y.value = k + 1
        BY DEF PeriodIs, AskedOf, Message
    <2> DEFINE yes == TRUE
    <2>2. /\ x = Message("__set_period__", s, k, 0, yes, k)
          /\ y = Message("__set_period__", s, k, 0, yes, k + 1)
          /\ PeriodIs(s, k + 1) = Message("__set_period__", s, k + 1, 0, yes, k + 1)
        BY DEF PeriodIs, AskedOf
    <2> HIDE DEF x, y, yes
    <2>4. [x EXCEPT !.period = k] = x
        BY <2>2, InPeriod
    <2>5. [y EXCEPT !.period = k + 1] = PeriodIs(s, k + 1)
        BY <2>2, InPeriod
    <2>3. Taken(x) = [x EXCEPT !.period = k] /\ Taken(y) = [y EXCEPT !.period = k + 1]
        BY <2>1 DEF Taken
    <2> QED BY <2>3, <2>4, <2>5 DEF x, y
<1> QED BY <1>1, <1>2, <1>3, <1>4

(***************************************************************************)
(* What Route does with the messages of s that turn s.                     *)
(***************************************************************************)
LEMMA NextIsHandled ==
    ASSUME NEW s \in Subjects, NEW u, NEW d, NEW r, NEW p, NEW c, NEW q \in Periods, NEW l, NEW a,
           ~Has(a, PeriodIs(s, 0)), Through(p, c, r, q), LogOf(s, l, q, q + 1), d \in Seq(Still(s)),
           u # <<>>, Head(u) = NextOf(s, q), Tail(u) \in Seq(Plain(s)), NEW sc, sc[s].period = q
    PROVE  LET m == NextOf(s, q)
               l2 == Adding(l, m, sc)
           IN  Leaving(s, Tail(u), Reached(s, d, m, c, sc, l2), r, p, c, q, l2, a)
<1> DEFINE m == NextOf(s, q)
           l2 == Adding(l, m, sc)
           d2 == Reached(s, d, m, c, sc, l2)
<1>1. m.key = "_next_period" /\ m.sender = s /\ m.period = q /\ m.group = 0 /\ ~m.stateUpdate /\ m \in Routed
    BY MessagesAre DEF NextOf, Message
<1>2. m \in Upto(s, q, q + 1)
    BY UptoIs, Basics
<1> HIDE DEF m
<1>3. LogOf(s, l2, q, q + 1)
    BY <1>1, <1>2, LogStays, Basics
<1>4. Gets(s, sc, l2, m)
    BY <1>1, GetsOwn
<1>5. c = "open"
    BY DEF Through
<1> HIDE DEF l2
<1>6. d2 = Append(d, m)
    BY <1>4, <1>5 DEF Reached
<1>7. One(d2, m, Still(s), Still(s))
    BY <1>6, OneNew
<1> HIDE DEF d2
<1>8. Leaving(s, Tail(u), d2, r, p, c, q, l2, a)
    BY <1>3, <1>7 DEF Leaving, m
<1> QED BY <1>8 DEF d2, l2, m

\* Route sets the next period: s is leaving the one before.
LEMMA AskedIsHandled ==
    ASSUME NEW s \in Subjects, NEW u, NEW d, NEW r, NEW p, NEW c, NEW q \in Periods, NEW l, NEW a,
           ~Has(a, PeriodIs(s, 0)), Through(p, c, r, q), LogOf(s, l, q, q + 1), d \in Seq(Still(s)),
           Tail(u) \in Seq(Plain(s)), NEW sc, sc[s].period = q + 1
    PROVE  LET m == PeriodIs(s, q + 1)
               l2 == Adding(l, m, sc)
           IN  Leaving(s, Tail(u), Reached(s, d, m, c, sc, l2), r, p, c, q + 1, l2, a)
<1> DEFINE k == q + 1
           m == PeriodIs(s, k)
           l2 == Adding(l, m, sc)
           d2 == Reached(s, d, m, c, sc, l2)
<1>1. k \in Periods /\ k \in Nat /\ k >= 1 /\ k - 1 = q
    BY Basics DEF Through, Periods
<1> HIDE DEF k
<1>2. m.key = "__set_period__" /\ m.sender = s /\ m.period = k /\ m.group = 0 /\ m.stateUpdate
    BY DEF PeriodIs, Message
<1>3. m \in Routed /\ m \in Msg
    BY <1>1, MessagesAre, UpdatesAreMsg
<1>4. l \in Seq(Upto(s, q, k)) /\ l \in Seq(Routed)
    BY Wider, UptoIs, <1>1 DEF LogOf, k
<1>5. Needed(sc, m)
    BY <1>1, <1>2 DEF Needed, PeriodOf, k
<1>6. /\ l2 \in Seq(Routed) /\ Has(l2, m)
      /\ \A x : Has(l2, x) => x = m \/ (Has(l, x) /\ ~Replaces(m, x))
    <2> HIDE DEF m
    <2> QED BY <1>3, <1>4, <1>5, AddingIs
<1> HIDE DEF l2
<1>7. ASSUME NEW x, Has(l2, x) PROVE x \in Upto(s, k, k)
    <2>1. CASE x = m
        BY <2>1, <1>1, UptoIs
    <2>2. CASE Has(l, x) /\ ~Replaces(m, x)
        <3>1. x \in Upto(s, q, k)
            BY <1>4, <2>2, ElementsOfSeq
        <3> HIDE DEF m
        <3> QED BY <2>2, <3>1, <1>2 DEF Upto, Replaces
    <2> QED BY <2>1, <2>2, <1>6, <1>7
<1>8. LogOf(s, l2, k, k)
    BY <1>6, <1>7, SeqOfElements DEF LogOf
<1>9. Gets(s, sc, l2, m)
    <2> HIDE DEF m
    <2> QED BY <1>2, <1>3, <1>6, GetsOwn DEF k
<1>10. c = "open"
    BY DEF Through
<1>11. d2 = Append(d, m)
    BY <1>9, <1>10 DEF Reached
<1>12. One(d2, m, Still(s), Still(s))
    BY <1>11, OneNew
<1> HIDE DEF d2
<1>13. Leaving(s, Tail(u), d2, r, p, c, k, l2, a)
    BY <1>1, <1>8, <1>12 DEF Leaving
<1> QED BY <1>13 DEF d2, l2, k

\* Route passes on the page that s has asked for.
LEMMA PageIsHandled ==
    ASSUME NEW s \in Subjects, NEW u, NEW d, NEW r, NEW p, NEW c, NEW q \in Periods, NEW l, NEW a,
           ~Has(a, PeriodIs(s, 0)), Stale(s, p, c, r, q), ~p.reloading, LogOf(s, l, q, q),
           d \in Seq(Early(s, q)), Tail(u) \in Seq(Plain(s)), NEW sc, sc[s].period = q
    PROVE  LET m == PageIs(s, q)
               l2 == Adding(l, m, sc)
           IN  Turned(s, Tail(u), Reached(s, d, m, c, sc, l2), r, p, c, q, PageFor(q), l2, a)
<1> DEFINE m == PageIs(s, q)
           l2 == Adding(l, m, sc)
           d2 == Reached(s, d, m, c, sc, l2)
<1>1. m.key = "__set_page__" /\ m.sender = s /\ m.period = q /\ m.group = 0 /\ m.stateUpdate
    BY DEF PageIs, Message
<1>2. m \in Routed /\ m \in Msg /\ m \in Upto(s, q, q) /\ q \in Nat
    BY MessagesAre, UpdatesAreMsg, UptoIs, Basics
<1> HIDE DEF m
<1>3. LogOf(s, l2, q, q)
    BY <1>1, <1>2, LogStays
<1>4. Has(l2, m)
    <2>1. Needed(sc, m)
        BY <1>1, <1>2 DEF Needed, PeriodOf
    <2> QED BY <1>2, <2>1, AddingIs DEF LogOf
<1> HIDE DEF l2
<1>5. Gets(s, sc, l2, m)
    BY <1>1, <1>2, <1>4, GetsOwn
<1>6. c = "open"
    BY DEF Stale
<1>7. d2 = Append(d, m)
    BY <1>5, <1>6 DEF Reached
<1>8. One(d2, m, Early(s, q), Still(s))
    <2>1. One(Append(d, m), m, Early(s, q), Still(s))
        BY OneNew
    <2> QED BY <1>7, <2>1
<1> HIDE DEF d2
<1>9. Turned(s, Tail(u), d2, r, p, c, q, PageFor(q), l2, a)
    BY <1>3, <1>8 DEF Turned, m
<1> QED BY <1>9 DEF d2, l2, m

\* The fields of the messages that turn s.
LEMMA PartsAre ==
    ASSUME NEW s, NEW k
    PROVE  /\ NextOf(s, k).key = "_next_period" /\ NextOf(s, k).sender = s /\ NextOf(s, k).period = k
           /\ AskedOf(s, k).key = "__set_period__" /\ AskedOf(s, k).sender = s
           /\ PeriodIs(s, k).key = "__set_period__" /\ PeriodIs(s, k).sender = s
           /\ PeriodIs(s, k).period = k /\ PeriodIs(s, k).value = k
           /\ PageIs(s, k).key = "__set_page__" /\ PageIs(s, k).sender = s /\ PageIs(s, k).value = k
BY DEF NextOf, AskedOf, PeriodIs, PageIs, Message

\* Route takes m from u: the subject is in period q2 then, and v2 is its page in Redis.
Takes(u, q, v, m, q2, v2) ==
    /\ u # <<>> /\ m = Taken(Head(u))
    /\ q2 = IF m.key = "__set_period__" THEN m.value ELSE q
    /\ v2 = IF m.key = "__set_page__" THEN PageFor(m.value) ELSE v

(***************************************************************************)
(* Whatever Route handles of s takes s from stage to stage; its period     *)
(* goes up by one at most, and then its scripts have had the one before.   *)
(***************************************************************************)
LEMMA OwnHandled ==
    ASSUME NEW s \in Subjects, NEW u, NEW d, NEW r, NEW p, NEW c, NEW q \in Periods, NEW v, NEW l, NEW a,
           Stage(s, u, d, r, p, c, q, v, l, a),
           NEW m, NEW q2, NEW v2, Takes(u, q, v, m, q2, v2), NEW sc, sc[s].period = q2
    PROVE  LET l2 == Adding(l, m, sc)
           IN  /\ Stage(s, Tail(u), Reached(s, d, m, c, sc, l2), r, p, c, q2, v2, l2, a)
               /\ q2 \in Periods /\ (q2 = q \/ (q2 = q + 1 /\ p.ranAt = q))
               /\ Head(u) \in Sent(s)
<1>0. /\ u # <<>> /\ m = Taken(Head(u))
      /\ q2 = IF m.key = "__set_period__" THEN m.value ELSE q
      /\ v2 = IF m.key = "__set_page__" THEN PageFor(m.value) ELSE v
    BY DEF Takes
<1> DEFINE x == Head(u)
           l2 == Adding(l, m, sc)
           d2 == Reached(s, d, m, c, sc, l2)
           Goal == /\ Stage(s, Tail(u), d2, r, p, c, q2, v2, l2, a)
                   /\ q2 \in Periods /\ (q2 = q \/ (q2 = q + 1 /\ p.ranAt = q))
                   /\ x \in Sent(s)
<1>1. ASSUME x \in Plain(s) PROVE Goal
    <2>1. m = x /\ m.key \in PlainKeys /\ m.key # "__set_period__" /\ m.key # "__set_page__"
        BY <1>0, <1>1, TakenIs DEF Plain, PlainKeys
    <2>2. q2 = q /\ v2 = v
        BY <1>0, <2>1
    <2>3. d2 \in Reaches(d, m, c)
        BY ReachedReaches
    <2>4. Stage(s, Tail(u), d2, r, p, c, q, v, l2, a)
        BY <1>0, <1>1, <2>1, <2>2, <2>3, OwnPlainStays
    <2>5. x \in Sent(s)
        BY <1>1 DEF Plain, Sent
    <2> QED BY <2>2, <2>4, <2>5
<1>2. ASSUME NEW A, u \in Seq(A) PROVE x \in A
    BY <1>0, <1>2, HeadTailProperties
<1>3. CASE Told(s, u, d, r, p, c, q, l, a)
    BY <1>0, <1>3 DEF Told
<1>4. CASE Greeted(s, u, d, r, p, c, q, l, a)
    <2>1. x \in {Announcement(s)}
        BY <1>2, <1>4 DEF Greeted
    <2> QED BY <1>1, <2>1, MessagesAre
<1>5. CASE Settled(s, u, d, r, p, c, q, v, l, a) \/ Reloading(s, u, d, r, p, c, q, v, l, a)
    BY <1>1, <1>2, <1>5 DEF Settled, Reloading
<1>6. CASE Leaving(s, u, d, r, p, c, q, l, a)
    <2>1. CASE u \in Seq(Plain(s))
        BY <1>1, <1>2, <2>1
    <2>2. CASE /\ Through(p, c, r, q) /\ LogOf(s, l, q, q + 1) /\ ~Has(a, PeriodIs(s, 0))
               /\ One(u, NextOf(s, q), Plain(s), Plain(s)) /\ d \in Seq(Still(s))
        <3>1. CASE x \in Plain(s)
            BY <1>1, <3>1
        <3>2. CASE x = NextOf(s, q) /\ Tail(u) \in Seq(Plain(s))
            <4>1. m = NextOf(s, q) /\ m.key = "_next_period"
                BY <1>0, <3>2, TakenIs, PartsAre
            <4>2. q2 = q /\ v2 = v
                BY <1>0, <4>1
            <4>3. Leaving(s, Tail(u), d2, r, p, c, q, l2, a)
                BY <2>2, <3>2, <4>1, <4>2, NextIsHandled
            <4>4. x \in Sent(s)
                BY <3>2, MessagesAre, PartsAre DEF Sent, Change
            <4> QED BY <4>2, <4>3, <4>4 DEF Stage
        <3> QED BY <2>2, <3>1, <3>2, OneHead
    <2>3. CASE /\ Through(p, c, r, q) /\ LogOf(s, l, q, q + 1) /\ ~Has(a, PeriodIs(s, 0))
               /\ One(u, AskedOf(s, q), Plain(s), Plain(s)) /\ d \in Seq(Still(s))
        <3>1. CASE x \in Plain(s)
            BY <1>1, <3>1
        <3>2. CASE x = AskedOf(s, q) /\ Tail(u) \in Seq(Plain(s))
            <4>1. m = PeriodIs(s, q + 1) /\ m.key = "__set_period__" /\ m.value = q + 1
                BY <1>0, <3>2, TakenIs, PartsAre
            <4>2. q2 = q + 1 /\ v2 = v
                BY <1>0, <4>1
            <4>3. Leaving(s, Tail(u), d2, r, p, c, q + 1, l2, a)
                BY <2>3, <3>2, <4>1, <4>2, AskedIsHandled
            <4>4. q <= Rows /\ q \in Nat /\ p.ranAt = q /\ q + 1 \in Periods
                BY <2>3, Basics DEF Through, Periods
            <4>5. x \in Sent(s)
                BY <3>2, <4>4, MessagesAre, PartsAre DEF Sent, Change
            <4> QED BY <4>2, <4>3, <4>4, <4>5 DEF Stage
        <3> QED BY <2>3, <3>1, <3>2, OneHead
    <2> QED BY <1>6, <2>1, <2>2, <2>3 DEF Leaving
<1>7. CASE Turned(s, u, d, r, p, c, q, v, l, a)
    <2>1. CASE u \in Seq(Plain(s))
        BY <1>1, <1>2, <2>1
    <2>2. CASE One(u, PageIs(s, q), EarlyPlain(s, q), Plain(s)) /\ d \in Seq(Early(s, q))
        <3>1. CASE x \in EarlyPlain(s, q)
            BY <1>1, <3>1, MessagesAre
        <3>2. CASE x = PageIs(s, q) /\ Tail(u) \in Seq(Plain(s))
            <4>1. m = PageIs(s, q) /\ m.key = "__set_page__" /\ m.value = q
                BY <1>0, <3>2, TakenIs, PartsAre
            <4>2. q2 = q /\ v2 = PageFor(q)
                BY <1>0, <4>1
            <4>3. Turned(s, Tail(u), d2, r, p, c, q, PageFor(q), l2, a)
                BY <1>7, <2>2, <3>2, <4>1, <4>2, PageIsHandled DEF Turned
            <4>4. x \in Sent(s)
                BY <3>2, MessagesAre, PartsAre DEF Sent, Change
            <4> QED BY <4>2, <4>3, <4>4 DEF Stage
        <3> QED BY <2>2, <3>1, <3>2, OneHead
    <2> QED BY <1>7, <2>1, <2>2 DEF Turned
<1>8. Goal
    BY <1>3, <1>4, <1>5, <1>6, <1>7 DEF Stage
<1> QED BY <1>8

(***************************************************************************)
(* The admin's start_session, for one subject.                             *)
(***************************************************************************)
LEMMA StartIsHandled ==
    ASSUME NEW s \in Subjects, NEW u, NEW d, NEW r, NEW p, NEW c \in ConnStates, NEW q \in Periods,
           NEW v, NEW l, NEW a, Stage(s, u, d, r, p, c, q, v, l, a), Linked(s, d, r, p, c),
           Has(a, PeriodIs(s, 0)), NEW a2, ~Has(a2, PeriodIs(s, 0)), NEW sc, sc[s].period = 0
    PROVE  LET m == PeriodIs(s, 0)
               l2 == Adding(l, m, sc)
           IN  q = 0 /\ Stage(s, u, Reached(s, d, m, c, sc, l2), r, p, c, q, v, l2, a2)
<1> DEFINE m == PeriodIs(s, 0)
           y == Announcement(s)
           l2 == Adding(l, m, sc)
           d2 == Reached(s, d, m, c, sc, l2)
           S == Others(s) \cup {y, m}
<1>1. Told(s, u, d, r, p, c, q, l, a) /\ q = 0
    <2>1. Told(s, u, d, r, p, c, q, l, a)
        BY DEF Stage, Greeted, Settled, Leaving, Turned, Reloading
    <2> QED BY <2>1 DEF Told
<1>2. /\ m.key = "__set_period__" /\ m.sender = s /\ m.period = 0 /\ m.group = 0 /\ m.stateUpdate
      /\ m \in Routed /\ m \in Msg
      /\ y.key = "__page_loaded__" /\ y.sender = s
    BY MessagesAre, UpdatesAreMsg, Basics DEF PeriodIs, Announcement, Message
<1>3. m \notin Others(s) \cup {y} /\ m # y
    BY <1>2 DEF Others, Mine
<1>4. l \in Seq(Others(s) \cup {y}) /\ ~Has(l, m)
    BY <1>1, <1>3, ElementsOfSeq DEF Told
<1> HIDE DEF m, y
<1>5. l2 \in Seq(S) /\ Has(l2, m)
    <2>1. l \in Seq(S)
        BY <1>4, Wider
    <2>2. Needed(sc, m)
        BY <1>2 DEF Needed, PeriodOf
    <2> QED BY <2>1, <2>2, AddingIs
<1>6. Before(l2, y, m)
    <2>1. Before(l, y, m)
        BY <1>4 DEF Before, Has
    <2>2. l \in Seq(S) /\ m \in S
        BY <1>4, Wider
    <2> HIDE DEF S
    <2> QED BY <1>3, <2>1, <2>2, AddingInOrder DEF l2
<1> HIDE DEF l2
<1>7. S \subseteq Upto(s, 0, 0)
    BY UptoIs, Basics DEF m, y
<1>8. CASE c \in {"registered", "open"}
    <2>1. Gets(s, sc, l2, m)
        BY <1>2, <1>5, GetsOwn
    <2>2. d2 = Append(d, m)
        BY <1>8, <2>1 DEF Reached
    <2>3. One(d2, m, Others(s), Others(s) \cup {y})
        <3>1. d \in Seq(Others(s))
            BY <1>1 DEF Told
        <3> QED BY <2>2, <3>1, OneNew, OneWider
    <2>4. u = <<>> /\ u \in Seq({y}) /\ Unused(p, s) /\ p.period = Undefined /\ p.name = "Wait"
        BY <1>1, <1>8, EmptySeq DEF Told
    <2>5. r # <<>> => \E x \in Seq(S) :
                         /\ Replays(r, p.sync, x) /\ Before(x, y, m)
                         /\ p.period = 0 => ~Has(x, y)
        <3>1. SUFFICES ASSUME r # <<>>
                       PROVE  \E x \in Seq(S) : /\ Replays(r, p.sync, x) /\ Before(x, y, m)
                                                /\ p.period = 0 => ~Has(x, y)
            OBVIOUS
        <3>2. PICK x \in Seq(Others(s) \cup {y}) : Replays(r, p.sync, x)
            BY <1>1, <3>1 DEF Told, y
        <3>3. x \in Seq(S)
            BY Wider
        <3>4. ~Has(x, m)
            BY <1>3, ElementsOfSeq
        <3>5. Before(x, y, m)
            BY <3>4 DEF Before, Has
        <3>6. p.period # 0
            BY <2>4, Basics
        <3> QED BY <3>2, <3>3, <3>5, <3>6
    <2> HIDE DEF d2
    <2>6. Greeted(s, u, d2, r, p, c, q, l2, a2)
        BY <1>1, <1>5, <1>6, <1>8, <2>3, <2>4, <2>5 DEF Greeted, m, y
    <2> QED BY <1>1, <2>6 DEF Stage, d2, l2, m
<1>9. CASE c \in {"loading", "loaded"}
    <2>1. d2 = d /\ d = <<>> /\ r = <<>> /\ p = FreshPage(p.name)
        BY <1>9 DEF Reached, Linked
    <2>2. u \in Seq(Plain(s)) /\ d2 \in Seq(Still(s))
        BY <1>1, <2>1, EmptySeq DEF Told
    <2>3. LogOf(s, l2, 0, 0)
        BY <1>5, <1>7, Wider DEF LogOf, m
    <2>4. PageFor(0) = "Wait"
        BY DEF PageFor
    <2>5. Unused(p, s) /\ p.period = Undefined /\ (c # "loading" => p.name = "Wait")
        BY <1>1 DEF Told
    <2> HIDE DEF d2
    <2>6. Settled(s, u, d2, r, p, c, q, v, l2, a2)
        BY <1>1, <1>9, <2>1, <2>2, <2>3, <2>4, <2>5 DEF Settled, Unused, Idle, m
    <2> QED BY <1>1, <2>6 DEF Stage, d2, l2, m
<1> QED BY <1>8, <1>9 DEF ConnStates

-----------------------------------------------------------------------------
(* What a page receives                                                    *)

\* A replay that has not begun.
LEMMA ReplayFirst ==
    ASSUME NEW S, NEW x \in Seq(S), NEW r, Replays(r, FALSE, x)
    PROVE  r # <<>> /\ Head(r) = Begin /\ Replays(Tail(r), TRUE, x)
BY ReplayHead

\* What is left of a replay that has.
LEMMA ReplayRest ==
    ASSUME NEW S, NEW x \in Seq(S), NEW r, Replays(r, TRUE, x)
    PROVE  /\ r # <<>>
           /\ x = <<>> => Head(r) = End /\ Tail(r) = <<>>
           /\ x # <<>> => /\ Head(r) = Head(x) /\ Head(x) \in S /\ Tail(x) \in Seq(S)
                         /\ Replays(Tail(r), TRUE, Tail(x))
BY ReplayHead

\* The scripts of the page are where they were.
SameScript(p, r) ==
    /\ r.name = p.name /\ r.period = p.period /\ r.periods = p.periods
    /\ r.deferred = p.deferred /\ r.received = p.received /\ r.pause = p.pause
    /\ SameRun(p, r)

\* What the first mark does, in terms of the stages.
LEMMA BeginIs ==
    ASSUME NEW s, NEW p \in PageOf(s), p.out = <<>>, ~p.reloading
    PROVE  LET o == OnMessage(p, s, Begin)
           IN  /\ o \in PageOf(s) /\ o.out = <<>> /\ Emptied(o) = o /\ SameScript(p, o)
               /\ o.sync /\ ~o.reloading /\ o.isReload = p.isReload /\ o.queue = <<>> /\ o.held = p.held
<1> DEFINE o == OnMessage(p, s, Begin)
           e == [o EXCEPT !.sync = p.sync]
<1>1. /\ o \in PageOf(s) /\ o.out = <<>> /\ o.sync /\ o.queue = <<>> /\ o.held = p.held
      /\ Emptied(o) = o /\ Steady(p, e)
    BY OwnBegin
<1> HIDE DEF o
<1>2. /\ e.name = o.name /\ e.reloading = o.reloading /\ e.isReload = o.isReload
      /\ e.period = o.period /\ e.periods = o.periods /\ e.deferred = o.deferred
      /\ e.received = o.received /\ e.pause = o.pause
      /\ e.ranAt = o.ranAt /\ e.timer = o.timer /\ e.asked = o.asked
    BY <1>1 DEF PageOf
<1> HIDE DEF e
<1>3. SameScript(p, o) /\ ~o.reloading /\ o.isReload = p.isReload
    BY <1>1, <1>2 DEF Steady, SameScript, SameRun
<1> QED BY <1>1, <1>3 DEF o

\* What the last mark does, in terms of the stages.
LEMMA EndIs ==
    ASSUME NEW s \in Subjects, NEW p \in PageOf(s), p.out = <<>>, ~p.reloading
    PROVE  LET o == OnMessage(p, s, End)
               w == Emptied(o)
               loaded == Message("__page_loaded__", s, IF p.period = Undefined THEN 0 ELSE p.period, 0, FALSE, 0)
           IN  /\ o.out = (IF p.isReload THEN <<>> ELSE <<loaded>>) \o p.queue
               /\ o.out \in Seq(Plain(s))
               /\ w \in PageOf(s) /\ w.out = <<>> /\ SameScript(p, w)
               /\ ~w.sync /\ ~w.reloading /\ w.queue = p.queue /\ w.held = p.held
               /\ o.ranAt = w.ranAt /\ o.name = w.name
<1> DEFINE o == OnMessage(p, s, End)
           w == Emptied(o)
           e == [w EXCEPT !.sync = p.sync, !.isReload = p.isReload]
           loaded == Message("__page_loaded__", s, IF p.period = Undefined THEN 0 ELSE p.period, 0, FALSE, 0)
<1>1. /\ o \in PageOf(s) /\ o.out = (IF p.isReload THEN <<>> ELSE <<loaded>>) \o p.queue
      /\ w \in PageOf(s) /\ w.out = <<>> /\ ~w.sync /\ w.queue = p.queue /\ w.held = p.held
      /\ Steady(p, e) /\ o.ranAt = w.ranAt /\ o.name = w.name
    BY OwnEnd
<1>2. o.out \in Seq(Plain(s))
    BY <1>1 DEF PageOf
<1> HIDE DEF o, w, loaded
<1>3. /\ e.name = w.name /\ e.reloading = w.reloading
      /\ e.period = w.period /\ e.periods = w.periods /\ e.deferred = w.deferred
      /\ e.received = w.received /\ e.pause = w.pause
      /\ e.ranAt = w.ranAt /\ e.timer = w.timer /\ e.asked = w.asked
    BY <1>1 DEF PageOf
<1> HIDE DEF e
<1>4. SameScript(p, w) /\ ~w.reloading
    BY <1>1, <1>3 DEF Steady, SameScript, SameRun
<1> QED BY <1>1, <1>2, <1>4 DEF o, w, loaded

\* What a __set_page__ does, in terms of the stages.
LEMMA PageIsTurned ==
    ASSUME NEW s \in Subjects, NEW p \in PageOf(s), p.out = <<>>, ~p.reloading,
           NEW m \in Routed, m.sender = s, m.key = "__set_page__"
    PROVE  LET o == OnMessage(p, s, m)
           IN  /\ o \in PageOf(s) /\ o.out = <<>> /\ Emptied(o) = o /\ SameScript(p, o)
               /\ o.reloading = ~p.sync /\ o.sync = p.sync
<1> DEFINE o == OnMessage(p, s, m)
           e == [o EXCEPT !.reloading = FALSE]
<1>1. /\ o \in PageOf(s) /\ o.out = <<>> /\ o.reloading = ~p.sync /\ Emptied(o) = o /\ Steady(p, e)
    BY OwnPage
<1> HIDE DEF o
<1>2. /\ e.name = o.name /\ e.sync = o.sync
      /\ e.period = o.period /\ e.periods = o.periods /\ e.deferred = o.deferred
      /\ e.received = o.received /\ e.pause = o.pause
      /\ e.ranAt = o.ranAt /\ e.timer = o.timer /\ e.asked = o.asked
    BY <1>1 DEF PageOf
<1> HIDE DEF e
<1>3. SameScript(p, o) /\ o.sync = p.sync
    BY <1>1, <1>2 DEF Steady, SameScript, SameRun
<1> QED BY <1>1, <1>3 DEF o

(***************************************************************************)
(* The page p of s becomes o, and what o has sent is on its way.           *)
(***************************************************************************)
Becomes(s, u, d, r, p, o, c, q, v, l, a) ==
    /\ Linked(s, d, r, Emptied(o), c)
    /\ Stage(s, u \o o.out, d, r, Emptied(o), c, q, v, l, a)
    /\ Emptied(o).ranAt = o.ranAt
    /\ o.ranAt = p.ranAt \/ Plays(o)

\* A page that says nothing and starts nothing has only to fit its stage.
LEMMA Silently ==
    ASSUME NEW s, NEW u, NEW d, NEW r, NEW p, NEW o \in PageOf(s), NEW c, NEW q, NEW v, NEW l, NEW a,
           NEW S, u \in Seq(S), o.out = <<>>, o.ranAt = p.ranAt,
           Linked(s, d, r, o, c), Stage(s, u, d, r, o, c, q, v, l, a)
    PROVE  Becomes(s, u, d, r, p, o, c, q, v, l, a)
<1>1. Emptied(o) = o
    BY EmptiedIs
<1>2. u \o <<>> = u
    BY ConcatEmptySeq
<1> QED BY <1>1, <1>2 DEF Becomes

\* Everything that is on its way is of a known kind.
LEMMA StageSends ==
    ASSUME NEW s \in Subjects, NEW u, NEW d, NEW r, NEW p, NEW c, NEW q \in Periods, NEW v, NEW l, NEW a,
           Stage(s, u, d, r, p, c, q, v, l, a)
    PROVE  u \in Seq(Routed) /\ d \in Seq(Routed) /\ l \in Seq(Routed)
<1>1. Plain(s) \subseteq Routed /\ Still(s) \subseteq Routed /\ Others(s) \subseteq Routed
    BY MessagesAre
<1>2. /\ Announcement(s) \in Routed /\ PeriodIs(s, 0) \in Routed /\ Early(s, q) \subseteq Routed
      /\ EarlyPlain(s, q) \subseteq Routed
      /\ NextOf(s, q) \in Routed /\ PeriodIs(s, q) \in Routed /\ PageIs(s, q) \in Routed
      /\ q <= Rows => AskedOf(s, q) \in Routed
    BY <1>1, MessagesAre, Basics
<1>3. \A k \in Nat : LogOf(s, l, q, k) => l \in Seq(Routed)
    BY Wider DEF LogOf, Upto
<1>4. CASE Told(s, u, d, r, p, c, q, l, a)
    <2>1. Others(s) \cup {Announcement(s)} \subseteq Routed
        BY <1>1, <1>2
    <2> QED BY <1>1, <1>4, <2>1, Wider, EmptySeq DEF Told
<1>5. CASE Greeted(s, u, d, r, p, c, q, l, a)
    <2>1. /\ {Announcement(s)} \subseteq Routed /\ Others(s) \cup {Announcement(s)} \subseteq Routed
          /\ Others(s) \cup {Announcement(s), PeriodIs(s, 0)} \subseteq Routed
        BY <1>1, <1>2
    <2>2. u \in Seq(Routed) /\ l \in Seq(Routed)
        BY <1>5, <2>1, Wider DEF Greeted
    <2>3. d \in Seq(Routed)
        BY <1>1, <1>2, <1>5, <2>1, OneHas DEF Greeted
    <2> QED BY <2>2, <2>3
<1>6. CASE Settled(s, u, d, r, p, c, q, v, l, a) \/ Reloading(s, u, d, r, p, c, q, v, l, a)
    BY <1>1, <1>3, <1>6, Wider, Basics DEF Settled, Reloading
<1>7. CASE Leaving(s, u, d, r, p, c, q, l, a)
    <2>1. l \in Seq(Routed)
        BY <1>3, <1>7, Basics DEF Leaving
    <2>2. d \in Seq(Routed)
        BY <1>1, <1>2, <1>7, Wider, OneHas DEF Leaving
    <2>3. One(u, AskedOf(s, q), Plain(s), Plain(s)) /\ q <= Rows => u \in Seq(Routed)
        BY <1>1, <1>2, OneHas
    <2>4. u \in Seq(Routed)
        BY <1>1, <1>2, <1>7, <2>3, Wider, OneHas DEF Leaving, Through
    <2> QED BY <2>1, <2>2, <2>4
<1>8. CASE Turned(s, u, d, r, p, c, q, v, l, a)
    <2>1. l \in Seq(Routed)
        BY <1>3, <1>8, Basics DEF Turned
    <2>2. d \in Seq(Routed)
        BY <1>1, <1>2, <1>8, Wider, OneHas DEF Turned
    <2>3. u \in Seq(Routed)
        BY <1>1, <1>2, <1>8, Wider, OneHas DEF Turned
    <2> QED BY <2>1, <2>2, <2>3
<1> QED BY <1>4, <1>5, <1>6, <1>7, <1>8 DEF Stage

\* A replay before the first period.
LEMMA ToldReplayed ==
    ASSUME NEW s \in Subjects, NEW u, NEW d, NEW r, NEW p, NEW q \in Periods, NEW v, NEW l, NEW a,
           Told(s, u, d, r, p, "open", q, l, a), Linked(s, d, r, p, "open"), r # <<>>
    PROVE  Becomes(s, u, d, Tail(r), p, OnMessage(p, s, Head(r)), "open", q, v, l, a)
<1> DEFINE y == Announcement(s)
           S == Others(s) \cup {y}
           o == OnMessage(p, s, Head(r))
<1>1. /\ p \in PageOf(s) /\ p.out = <<>> /\ Unused(p, s) /\ p.period = Undefined /\ ~p.reloading
      /\ p.periods[s] = p.period /\ p.sync \in BOOLEAN /\ p.name = "Wait"
    BY DEF Linked, Told, Unused, PageOf
<1>2. PICK x \in Seq(S) : Replays(r, p.sync, x) /\ ((p.sync /\ p.isReload) \/ Has(x, y))
    BY DEF Told
<1>3. y \in Routed /\ S \subseteq Routed
    BY MessagesAre
<1>4. u \in Seq(Routed) /\ u = <<>>
    BY EmptySeq DEF Told
<1> HIDE DEF y, S
<1>5. ASSUME NEW o2 \in PageOf(s), o2.sync, Unused(o2, s), o2.period = Undefined,
             o2.periods[s] = o2.period, o2.name = p.name,
             NEW r2, NEW x2 \in Seq(S), Replays(r2, TRUE, x2), o2.isReload \/ Has(x2, y)
      PROVE  Becomes(s, u, d, r2, p, o2, "open", q, v, l, a)
    <2>1. r2 # <<>> /\ o2.sync = TRUE
        BY <1>5, ReplayRest DEF PageOf
    <2>2. o2.out = <<>> /\ o2.ranAt = p.ranAt /\ o2.deferred = {}
        BY <1>1, <1>5 DEF Unused, Idle
    <2>3. Linked(s, d, r2, o2, "open")
        BY <1>5, <2>1, <2>2 DEF Linked
    <2>4. Told(s, u, d, r2, o2, "open", q, l, a)
        BY <1>1, <1>5, <2>1 DEF Told, S, y
    <2> QED BY <1>4, <2>2, <2>3, <2>4, Silently DEF Stage
<1>6. CASE ~p.sync
    <2>1. Head(r) = Begin /\ Replays(Tail(r), TRUE, x)
        <3>1. p.sync = FALSE
            BY <1>1, <1>6
        <3>2. Replays(r, FALSE, x)
            BY <1>2, <3>1
        <3> QED BY <3>2, ReplayFirst
    <2>2. /\ o \in PageOf(s) /\ o.out = <<>> /\ SameScript(p, o)
          /\ o.sync /\ ~o.reloading /\ o.queue = <<>> /\ o.held = p.held
        BY <1>1, <2>1, BeginIs
    <2> HIDE DEF o
    <2>3. Unused(o, s) /\ o.period = Undefined /\ o.periods[s] = o.period /\ o.name = p.name
        BY <1>1, <2>2 DEF SameScript, SameRun, Unused, Idle
    <2> QED BY <1>2, <1>5, <1>6, <2>1, <2>2, <2>3 DEF o
<1>7. CASE p.sync /\ x = <<>>
    <2>1. Head(r) = End /\ Tail(r) = <<>> /\ p.isReload
        <3>1. p.sync = TRUE
            BY <1>1, <1>7
        <3>2. Replays(r, TRUE, x)
            BY <1>2, <3>1
        <3> QED BY <1>2, <1>7, <3>2, ReplayRest, HasOne
    <2>2. p.queue = <<>> /\ <<>> \o <<>> = <<>>
        BY <1>1, ConcatEmptySeq, EmptySeq DEF Unused
    <2> DEFINE w == Emptied(o)
    <2>3. o.out = <<>>
        <3> DEFINE loaded == Message("__page_loaded__", s, IF p.period = Undefined THEN 0 ELSE p.period, 0, FALSE, 0)
        <3>1. o.out = (IF p.isReload THEN <<>> ELSE <<loaded>>) \o p.queue
            BY <1>1, <2>1, EndIs
        <3> HIDE DEF loaded, o
        <3> QED BY <2>1, <2>2, <3>1
    <2>4. /\ w \in PageOf(s) /\ w.out = <<>> /\ SameScript(p, w)
          /\ ~w.sync /\ ~w.reloading /\ w.queue = p.queue /\ w.held = p.held
          /\ o.ranAt = w.ranAt
        BY <1>1, <2>1, EndIs
    <2> HIDE DEF w, o
    <2>5. Unused(w, s) /\ w.period = Undefined /\ w.periods[s] = w.period /\ w.name = p.name /\ w.ranAt = p.ranAt
          /\ w.deferred = {}
        BY <1>1, <2>4 DEF SameScript, SameRun, Unused, Idle
    <2>6. Linked(s, d, Tail(r), w, "open")
        BY <2>1, <2>4, <2>5 DEF Linked
    <2>7. Told(s, u, d, Tail(r), w, "open", q, l, a)
        BY <1>1, <2>1, <2>4, <2>5 DEF Told
    <2>8. u \o o.out = u
        BY <1>4, <2>3, ConcatEmptySeq
    <2> QED BY <2>4, <2>5, <2>6, <2>7, <2>8 DEF Becomes, Stage, w, o
<1>8. CASE p.sync /\ x # <<>>
    <2>1. /\ Head(r) = Head(x) /\ Head(x) \in S /\ Tail(x) \in Seq(S) /\ Replays(Tail(r), TRUE, Tail(x))
        <3>1. p.sync = TRUE
            BY <1>1, <1>8
        <3>2. Replays(r, TRUE, x)
            BY <1>2, <3>1
        <3> QED BY <1>8, <3>2, ReplayRest
    <2> DEFINE m == Head(r)
    <2>2. m \in Routed /\ (~Mine(m, s) \/ m = y)
        BY <1>3, <2>1 DEF S, Others
    <2>3. /\ o \in PageOf(s) /\ Unused(o, s) /\ o.periods[s] = o.period /\ o.period = p.period
          /\ o.name = p.name /\ o.sync = p.sync
          /\ o.isReload = (p.isReload \/ (p.sync /\ m = y))
        BY <1>1, <2>2, UnusedStays DEF y
    <2>4. p.isReload \/ m = y \/ Has(Tail(x), y)
        BY <1>2, <1>8, <2>1, HasHeadTail
    <2> HIDE DEF o, m
    <2>5. o.isReload \/ Has(Tail(x), y)
        BY <1>8, <2>3, <2>4
    <2> QED BY <1>1, <1>5, <1>8, <2>1, <2>3, <2>5 DEF o
<1> QED BY <1>6, <1>7, <1>8

\* A replay when the first period is on its way.
LEMMA GreetedReplayed ==
    ASSUME NEW s \in Subjects, NEW u, NEW d, NEW r, NEW p, NEW q \in Periods, NEW v, NEW l, NEW a,
           Greeted(s, u, d, r, p, "open", q, l, a), Linked(s, d, r, p, "open"), r # <<>>
    PROVE  Becomes(s, u, d, Tail(r), p, OnMessage(p, s, Head(r)), "open", q, v, l, a)
<1> DEFINE y == Announcement(s)
           z == PeriodIs(s, 0)
           S == Others(s) \cup {y, z}
           o == OnMessage(p, s, Head(r))
<1>1. /\ p \in PageOf(s) /\ p.out = <<>> /\ Unused(p, s) /\ p.period \in {Undefined, 0} /\ ~p.reloading
      /\ p.periods[s] = p.period /\ p.sync \in BOOLEAN /\ p.name = "Wait"
    BY DEF Linked, Greeted, Unused, PageOf
<1>2. PICK x \in Seq(S) : /\ Replays(r, p.sync, x) /\ Before(x, y, z)
                          /\ p.period = 0 => ~Has(x, y)
    BY DEF Greeted
<1>3. /\ y \in Routed /\ z \in Routed /\ S \subseteq Routed /\ y # z
      /\ z.key = "__set_period__" /\ z.sender = s
    <2>1. y \in Routed /\ z \in Routed /\ S \subseteq Routed
        BY MessagesAre, Basics
    <2>2. z.key = "__set_period__" /\ z.sender = s /\ y.key = "__page_loaded__"
        BY PartsAre DEF Announcement, Message
    <2> HIDE DEF y, z
    <2> QED BY <2>1, <2>2
<1>4. u \in Seq({y})
    BY DEF Greeted
<1> HIDE DEF y, z, S
<1>5. ASSUME NEW o2 \in PageOf(s), Unused(o2, s), o2.period \in {Undefined, 0},
             o2.periods[s] = o2.period, o2.name = p.name,
             NEW u2 \in Seq({y}), NEW r2, o2.sync => r2 # <<>>, ~o2.sync => r2 = <<>>,
             r2 # <<>> =>
                \E x2 \in Seq(S) : /\ Replays(r2, o2.sync, x2) /\ Before(x2, y, z)
                                   /\ o2.period = 0 => ~Has(x2, y)
      PROVE  /\ Linked(s, d, r2, o2, "open") /\ Stage(s, u2, d, r2, o2, "open", q, v, l, a)
             /\ o2.out = <<>> /\ o2.ranAt = p.ranAt
    <2>1. o2.out = <<>> /\ o2.ranAt = p.ranAt /\ o2.deferred = {}
        BY <1>1, <1>5 DEF Unused, Idle
    <2>2. Linked(s, d, r2, o2, "open")
        BY <1>5, <2>1 DEF Linked
    <2>3. Greeted(s, u2, d, r2, o2, "open", q, l, a)
        <3>2. o2.name = "Wait"
            BY <1>1, <1>5
        <3> QED BY <1>5, <3>2 DEF Greeted, S, y, z
    <2> QED BY <2>1, <2>2, <2>3 DEF Stage
<1>6. ASSUME NEW o2 \in PageOf(s), o2.sync, Unused(o2, s), o2.period \in {Undefined, 0},
             o2.periods[s] = o2.period, o2.name = p.name,
             NEW r2, NEW x2 \in Seq(S), Replays(r2, TRUE, x2), Before(x2, y, z), o2.period = 0 => ~Has(x2, y)
      PROVE  Becomes(s, u, d, r2, p, o2, "open", q, v, l, a)
    <2>1. r2 # <<>> /\ o2.sync = TRUE
        BY <1>6, ReplayRest DEF PageOf
    <2>2. /\ Linked(s, d, r2, o2, "open") /\ Stage(s, u, d, r2, o2, "open", q, v, l, a)
          /\ o2.out = <<>> /\ o2.ranAt = p.ranAt
        BY <1>4, <1>5, <1>6, <2>1
    <2> QED BY <1>4, <2>2, Silently
<1>7. CASE ~p.sync
    <2>1. Head(r) = Begin /\ Replays(Tail(r), TRUE, x)
        <3>1. p.sync = FALSE
            BY <1>1, <1>7
        <3>2. Replays(r, FALSE, x)
            BY <1>2, <3>1
        <3> QED BY <3>2, ReplayFirst
    <2>2. /\ o \in PageOf(s) /\ o.out = <<>> /\ SameScript(p, o)
          /\ o.sync /\ ~o.reloading /\ o.queue = <<>> /\ o.held = p.held
        BY <1>1, <2>1, BeginIs
    <2> HIDE DEF o
    <2>3. Unused(o, s) /\ o.period = p.period /\ o.periods[s] = o.period /\ o.name = p.name
        BY <1>1, <2>2 DEF SameScript, SameRun, Unused, Idle
    <2> QED BY <1>1, <1>2, <1>6, <2>1, <2>2, <2>3 DEF o
<1>8. CASE p.sync /\ x = <<>>
    <2>1. Head(r) = End /\ Tail(r) = <<>>
        <3>1. p.sync = TRUE
            BY <1>1, <1>8
        <3>2. Replays(r, TRUE, x)
            BY <1>2, <3>1
        <3> QED BY <1>8, <3>2, ReplayRest
    <2> DEFINE w == Emptied(o)
               loaded == Message("__page_loaded__", s, IF p.period = Undefined THEN 0 ELSE p.period, 0, FALSE, 0)
               e == IF p.isReload THEN <<>> ELSE <<loaded>>
    <2>2. /\ o.out = e \o p.queue
          /\ w \in PageOf(s) /\ w.out = <<>> /\ SameScript(p, w)
          /\ ~w.sync /\ ~w.reloading /\ w.queue = p.queue /\ w.held = p.held
          /\ o.ranAt = w.ranAt
        BY <1>1, <2>1, EndIs
    <2>3. loaded = y
        BY <1>1 DEF y, Announcement
    <2>4. e \in Seq({y})
        BY <2>3, OfOne, EmptySeq
    <2> HIDE DEF w, o, e
    <2>5. o.out = e
        BY <1>1, <2>2, <2>4, ConcatEmptySeq DEF Unused
    <2>6. u \o o.out \in Seq({y})
        BY <1>4, <2>4, <2>5, ConcatProperties
    <2>7. Unused(w, s) /\ w.period \in {Undefined, 0} /\ w.periods[s] = w.period /\ w.name = p.name /\ w.ranAt = p.ranAt
        BY <1>1, <2>2 DEF SameScript, SameRun, Unused, Idle
    <2>8. Linked(s, d, Tail(r), w, "open") /\ Stage(s, u \o o.out, d, Tail(r), w, "open", q, v, l, a)
        BY <1>5, <2>1, <2>2, <2>6, <2>7
    <2> QED BY <2>2, <2>7, <2>8 DEF Becomes, w, o
<1>9. CASE p.sync /\ x # <<>>
    <2>1. /\ Head(r) = Head(x) /\ Head(x) \in S /\ Tail(x) \in Seq(S) /\ Replays(Tail(r), TRUE, Tail(x))
        <3>1. p.sync = TRUE
            BY <1>1, <1>9
        <3>2. Replays(r, TRUE, x)
            BY <1>2, <3>1
        <3> QED BY <1>9, <3>2, ReplayRest
    <2>2. Before(Tail(x), y, z) /\ (Head(x) = z => ~Has(x, y)) /\ (Has(Tail(x), y) => Has(x, y))
          /\ Has(x, Head(x))
        BY <1>2, <1>3, <1>9, BeforeTail, HasHeadTail
    <2>3. CASE Head(r) = z
        <3> DEFINE w == Emptied(o)
        <3>0. Head(r) = PeriodIs(s, 0) /\ p.sync = TRUE
            BY <1>1, <1>9, <2>3 DEF z
        <3>1. /\ o.out = <<>>
              /\ w \in PageOf(s) /\ w.out = <<>> /\ w.name = p.name /\ w.sync = p.sync /\ ~w.reloading
              /\ w.period = 0 /\ w.periods[s] = 0
              /\ w.deferred = p.deferred /\ w.received = p.received /\ SameRun(p, w)
              /\ (p.queue = <<>> => w.queue = <<>>) /\ w.held = p.held /\ o.ranAt = w.ranAt
            <4> DEFINE g == OnMessage(p, s, PeriodIs(s, 0))
                       h == Emptied(g)
            <4>1. o = g /\ w = h /\ 0 \in Periods
                BY <3>0, Basics
            <4> HIDE DEF o, w
            <4>2. /\ g.out = <<>>
                  /\ h \in PageOf(s) /\ h.out = <<>> /\ h.name = p.name /\ h.sync = p.sync /\ ~h.reloading
                  /\ h.period = 0 /\ h.periods[s] = 0
                  /\ h.deferred = p.deferred /\ h.received = p.received /\ SameRun(p, h)
                  /\ (p.queue = <<>> => h.queue = <<>>) /\ h.held = p.held /\ g.ranAt = h.ranAt
                BY <1>1, <3>0, <4>1, OwnPeriod
            <4> HIDE DEF g, h
            <4> QED BY <3>0, <4>1, <4>2
        <3> HIDE DEF o, w
        <3>2. Unused(w, s)
            BY <1>1, <3>1 DEF SameRun, Unused, Idle
        <3>3. Tail(r) # <<>> /\ w.sync = TRUE
            BY <1>9, <2>1, <3>1, ReplayHead DEF PageOf
        <3>4. Replays(Tail(r), w.sync, Tail(x)) /\ ~Has(Tail(x), y)
            BY <2>1, <2>2, <2>3, <3>3
        <3>5. u \o o.out = u
            BY <1>4, <3>1, ConcatEmptySeq
        <3>6. /\ Linked(s, d, Tail(r), w, "open") /\ Stage(s, u, d, Tail(r), w, "open", q, v, l, a)
              /\ w.ranAt = p.ranAt
            BY <1>4, <1>5, <2>1, <2>2, <3>1, <3>2, <3>3, <3>4
        <3> QED BY <3>1, <3>5, <3>6 DEF Becomes, o, w
    <2>4. CASE Head(r) # z
        <3> DEFINE m == Head(r)
        <3>1. m \in Routed /\ (~Mine(m, s) \/ m = y)
            BY <1>3, <2>1, <2>4 DEF S, Others
        <3>2. m = y => p.period = Undefined
            BY <1>1, <1>2, <2>1, <2>2
        <3>3. /\ o \in PageOf(s) /\ Unused(o, s) /\ o.periods[s] = o.period /\ o.period = p.period
              /\ o.name = p.name /\ o.sync = p.sync
            BY <1>1, <3>1, <3>2, UnusedStays DEF y
        <3>4. p.period = 0 => ~Has(Tail(x), y)
            BY <1>2, <2>2
        <3> HIDE DEF o, m
        <3> QED BY <1>1, <1>6, <1>9, <2>1, <2>2, <3>3, <3>4 DEF o
    <2> QED BY <2>3, <2>4
<1> QED BY <1>7, <1>8, <1>9

\* A message that does not turn the page leaves it linked.
LEMMA CalmIs ==
    ASSUME NEW s \in Subjects, NEW d, NEW r, NEW p, Linked(s, d, r, p, "open"), ~p.reloading,
           NEW m \in Routed, ~Turning(m, s)
    PROVE  LET o == OnMessage(p, s, m)
               w == Emptied(o)
           IN  /\ w \in PageOf(s) /\ w.out = <<>> /\ o.out \in Seq(Plain(s)) /\ Calm(s, p, m, w)
               /\ w.ranAt = o.ranAt /\ o.name = w.name
               /\ \A d2, r2 : (p.sync => r2 # <<>>) /\ (~p.sync => r2 = <<>>) => Linked(s, d2, r2, w, "open")
<1> DEFINE o == OnMessage(p, s, m)
           w == Emptied(o)
<1>1. /\ p \in PageOf(s) /\ p.out = <<>> /\ p.periods[s] = p.period
      /\ p.ranAt = Undefined => p.deferred \subseteq {p.period}
    BY DEF Linked
<1>2. Calm(s, p, m, o)
    BY <1>1, MessageCalm
<1> HIDE DEF o
<1>3. o \in PageOf(s) /\ o.out \in Seq(Plain(s))
    BY <1>2 DEF Calm, PageOf
<1>4. w \in PageOf(s) /\ w.out = <<>> /\ Steady(o, w)
    BY <1>3, EmptiedIs
<1> HIDE DEF w
<1>5. Calm(s, p, m, w)
    BY <1>2, <1>4 DEF Calm, Steady, SameRun, Started
<1>6. w.ranAt = Undefined => p.ranAt = Undefined
    BY <1>5, Basics DEF Calm, SameRun, Started
<1>7. w.period = p.period /\ w.periods[s] = p.period /\ w.deferred \subseteq p.deferred \cup {p.period}
      /\ w.sync = p.sync
    BY <1>1, <1>5 DEF Calm
<1>8. w.ranAt = Undefined => w.deferred \subseteq {w.period}
    BY <1>1, <1>6, <1>7
<1>9. ASSUME NEW d2, NEW r2, p.sync => r2 # <<>>, ~p.sync => r2 = <<>>
      PROVE  Linked(s, d2, r2, w, "open")
    BY <1>4, <1>7, <1>8, <1>9 DEF Linked
<1> QED BY <1>3, <1>4, <1>5, <1>9 DEF Steady, o, w

\* What Settled says of a page that has one.
InItsPeriod(p, q) ==
    /\ p.name = PageFor(q)
    /\ ~p.reloading /\ p.period \in {Undefined, q} /\ p.ranAt \in {Undefined, p.period}
    /\ p.timer <=> p.asked
    /\ p.asked => p.ranAt = q /\ q <= Rows

\* And leaves it in its period, where its scripts may start.
LEMMA CalmSettles ==
    ASSUME NEW s \in Subjects, NEW p \in PageOf(s), NEW m, NEW w \in PageOf(s), Calm(s, p, m, w),
           NEW q \in Periods, InItsPeriod(p, q)
    PROVE  InItsPeriod(w, q) /\ (w.ranAt = p.ranAt \/ Plays(w)) /\ w.period = p.period
<1>1. w.name = p.name /\ ~w.reloading /\ w.period = p.period
    BY DEF Calm, InItsPeriod
<1>2. CASE SameRun(p, w)
    BY <1>1, <1>2 DEF InItsPeriod, SameRun
<1>3. CASE Started(p, w)
    <2>1. /\ p.ranAt = Undefined /\ p.period = q /\ w.ranAt = q
          /\ w.timer = (p.timer \/ p.name = "Wait") /\ w.asked = (p.asked \/ p.name = "Wait")
        BY <1>3, Basics DEF Started, InItsPeriod
    <2>2. ~p.asked /\ ~p.timer
        BY <2>1, Basics DEF InItsPeriod
    <2>3. p.name = "Wait" => q <= Rows
        BY Basics DEF InItsPeriod, PageFor
    <2>4. InItsPeriod(w, q)
        BY <1>1, <2>1, <2>2, <2>3 DEF InItsPeriod
    <2>5. Plays(w)
        BY <1>1, <2>1, Basics DEF Plays, InItsPeriod
    <2> QED BY <1>1, <2>4, <2>5
<1> QED BY <1>2, <1>3 DEF Calm

\* A replay brings a page to its period, or keeps it there.
LEMMA SettledReplayed ==
    ASSUME NEW s \in Subjects, NEW u, NEW d, NEW r, NEW p, NEW q \in Periods, NEW v, NEW l, NEW a,
           Settled(s, u, d, r, p, "open", q, v, l, a), Linked(s, d, r, p, "open"), r # <<>>
    PROVE  Becomes(s, u, d, Tail(r), p, OnMessage(p, s, Head(r)), "open", q, v, l, a)
<1> DEFINE z == PeriodIs(s, q)
           S == Upto(s, q, q)
           o == OnMessage(p, s, Head(r))
           w == Emptied(o)
<1>1. /\ p \in PageOf(s) /\ p.out = <<>> /\ ~p.reloading /\ p.periods[s] = p.period /\ p.sync \in BOOLEAN
      /\ p.ranAt = Undefined => p.deferred \subseteq {p.period}
      /\ InItsPeriod(p, q) /\ p.queue \in Seq(Plain(s)) /\ q \in Nat
    BY Basics DEF Linked, Settled, InItsPeriod, PageOf
<1>2. PICK x \in Seq(S) : Replays(r, p.sync, x) /\ (p.period = q \/ Has(x, z))
    BY DEF Settled
<1>3. u \in Seq(Plain(s)) /\ S \subseteq Routed
    BY UptoIs, <1>1 DEF Settled
<1> HIDE DEF o, z, w
<1>4. ASSUME NEW w2 \in PageOf(s), InItsPeriod(w2, q), NEW u2 \in Seq(Plain(s)), NEW r2,
             r2 = <<>> => w2.period = q,
             r2 # <<>> => \E x2 \in Seq(S) : Replays(r2, w2.sync, x2) /\ (w2.period = q \/ Has(x2, z))
      PROVE  Stage(s, u2, d, r2, w2, "open", q, v, l, a)
    <2>1. Settled(s, u2, d, r2, w2, "open", q, v, l, a)
        BY <1>4 DEF Settled, InItsPeriod, S, z
    <2> QED BY <2>1 DEF Stage
<1>5. ASSUME p.sync, w \in PageOf(s), w.out = <<>>, w.sync = p.sync, InItsPeriod(w, q),
             w.ranAt = Undefined => w.deferred \subseteq {w.period}, w.periods[s] = w.period,
             o.out \in Seq(Plain(s)), w.ranAt = o.ranAt, o.ranAt = p.ranAt \/ Plays(o),
             NEW x2 \in Seq(S), Replays(Tail(r), TRUE, x2), w.period = q \/ Has(x2, z)
      PROVE  Becomes(s, u, d, Tail(r), p, o, "open", q, v, l, a)
    <2>1. Tail(r) # <<>> /\ w.sync = TRUE
        BY <1>1, <1>5, ReplayRest
    <2>2. Replays(Tail(r), w.sync, x2)
        BY <1>5, <2>1
    <2>3. u \o o.out \in Seq(Plain(s))
        BY <1>3, <1>5, ConcatProperties
    <2>4. Stage(s, u \o o.out, d, Tail(r), w, "open", q, v, l, a)
        BY <1>4, <1>5, <2>1, <2>2, <2>3
    <2>5. Linked(s, d, Tail(r), w, "open")
        BY <1>5, <2>1 DEF Linked
    <2> QED BY <1>5, <2>4, <2>5 DEF Becomes, w
<1>6. CASE ~p.sync
    <2>1. Head(r) = Begin /\ Replays(Tail(r), TRUE, x)
        <3>1. p.sync = FALSE
            BY <1>1, <1>6
        <3>2. Replays(r, FALSE, x)
            BY <1>2, <3>1
        <3> QED BY <3>2, ReplayFirst
    <2>2. /\ o \in PageOf(s) /\ o.out = <<>> /\ SameScript(p, o) /\ Emptied(o) = o
          /\ o.sync /\ ~o.reloading
        BY <1>1, <2>1, BeginIs DEF o
    <2>3. Tail(r) # <<>> /\ o.sync = TRUE
        BY <2>1, <2>2, ReplayRest DEF PageOf
    <2>4. /\ InItsPeriod(o, q) /\ o.period = p.period /\ o.periods[s] = o.period /\ o.ranAt = p.ranAt
          /\ o.ranAt = Undefined => o.deferred \subseteq {o.period}
        BY <1>1, <2>2 DEF SameScript, SameRun, InItsPeriod
    <2>5. Replays(Tail(r), o.sync, x) /\ (o.period = q \/ Has(x, z))
        BY <1>2, <2>1, <2>3, <2>4
    <2> HIDE DEF S
    <2>6. Stage(s, u, d, Tail(r), o, "open", q, v, l, a)
        BY <1>3, <1>4, <2>2, <2>3, <2>4, <2>5
    <2>7. Linked(s, d, Tail(r), o, "open")
        BY <2>2, <2>3, <2>4 DEF Linked
    <2> QED BY <1>3, <2>2, <2>4, <2>6, <2>7, Silently DEF o
<1>7. CASE p.sync /\ x = <<>>
    <2>1. Head(r) = End /\ Tail(r) = <<>> /\ p.period = q
        <3>1. p.sync = TRUE
            BY <1>1, <1>7
        <3>2. Replays(r, TRUE, x)
            BY <1>2, <3>1
        <3> QED BY <1>2, <1>7, <3>2, ReplayRest, HasOne
    <2>2. /\ o.out \in Seq(Plain(s))
          /\ w \in PageOf(s) /\ w.out = <<>> /\ SameScript(p, w)
          /\ ~w.sync /\ ~w.reloading /\ o.ranAt = w.ranAt
        BY <1>1, <2>1, EndIs DEF o, w
    <2>3. u \o o.out \in Seq(Plain(s))
        BY <1>3, <2>2, ConcatProperties
    <2> HIDE DEF S
    <2>4. /\ InItsPeriod(w, q) /\ w.period = q /\ w.periods[s] = w.period /\ w.ranAt = p.ranAt
          /\ w.ranAt = Undefined => w.deferred \subseteq {w.period}
        BY <1>1, <2>1, <2>2 DEF SameScript, SameRun, InItsPeriod
    <2>5. Stage(s, u \o o.out, d, Tail(r), w, "open", q, v, l, a)
        BY <1>4, <2>1, <2>2, <2>3, <2>4
    <2>6. Linked(s, d, Tail(r), w, "open")
        BY <2>1, <2>2, <2>4 DEF Linked
    <2> QED BY <2>2, <2>4, <2>5, <2>6 DEF Becomes, w, o
<1>8. CASE p.sync /\ x # <<>>
    <2>1. p.sync = TRUE /\ Head(r) = Head(x) /\ Head(x) \in S /\ Tail(x) \in Seq(S) /\ Replays(Tail(r), TRUE, Tail(x))
        <3>1. p.sync = TRUE
            BY <1>1, <1>8
        <3>2. Replays(r, TRUE, x)
            BY <1>2, <3>1
        <3> QED BY <1>8, <3>1, <3>2, ReplayRest
    <2> DEFINE m == Head(r)
    <2>2. m \in S /\ m \in Routed /\ (p.period = q \/ m = z \/ Has(Tail(x), z))
        BY <1>2, <1>3, <1>8, <2>1, HasHeadTail
    <2>3. CASE ~Turning(m, s)
        <3>1. /\ w \in PageOf(s) /\ w.out = <<>> /\ o.out \in Seq(Plain(s)) /\ Calm(s, p, m, w)
              /\ w.ranAt = o.ranAt /\ o.name = w.name /\ Linked(s, d, r, w, "open")
            <4>1. r # <<>>
                OBVIOUS
            <4> QED BY <1>1, <2>1, <2>2, <2>3, <4>1, CalmIs DEF o, w
        <3>2. InItsPeriod(w, q) /\ (w.ranAt = p.ranAt \/ Plays(w)) /\ w.period = p.period
            BY <1>1, <3>1, CalmSettles
        <3>3. m # z
            BY <2>3, PartsAre DEF z, Turning, Change
        <3> HIDE DEF m, S
        <3>4. w.sync = p.sync /\ (w.ranAt = Undefined => w.deferred \subseteq {w.period}) /\ w.periods[s] = w.period
            BY <3>1 DEF Calm, Linked
        <3>5. o.ranAt = p.ranAt \/ Plays(o)
            BY <3>1, <3>2 DEF Plays
        <3>6. w.period = q \/ Has(Tail(x), z)
            BY <2>2, <3>2, <3>3
        <3> QED BY <1>5, <1>8, <2>1, <3>1, <3>2, <3>4, <3>5, <3>6 DEF o
    <2>4. CASE Turning(m, s) /\ m.key = "__set_period__"
        <3>1. m = PeriodIs(s, q)
            BY <2>2, <2>4 DEF Upto, Turning
        <3>2. /\ o.out = <<>>
              /\ w \in PageOf(s) /\ w.out = <<>> /\ w.name = p.name /\ w.sync = p.sync /\ ~w.reloading
              /\ w.period = q /\ w.periods[s] = q
              /\ w.deferred = p.deferred /\ SameRun(p, w) /\ o.ranAt = w.ranAt
            BY <1>1, <2>1, <3>1, OwnPeriod DEF o, w
        <3> HIDE DEF m, S
        <3>3. p.ranAt = Undefined \/ p.period = q
            BY <1>1 DEF InItsPeriod
        <3>4. InItsPeriod(w, q) /\ w.ranAt = p.ranAt
            BY <1>1, <3>2, <3>3 DEF SameRun, InItsPeriod
        <3>5. o.out \in Seq(Plain(s))
            BY <3>2, EmptySeq
        <3>6. ASSUME w.ranAt = Undefined PROVE w.deferred \subseteq {w.period}
            <4>1. p.deferred \subseteq {p.period} /\ p.deferred \subseteq Periods
                BY <1>1, <3>2, <3>6 DEF SameRun, PageOf
            <4>2. p.period \in Periods => p.period = q
                BY <1>1, Basics DEF InItsPeriod
            <4> QED BY <3>2, <4>1, <4>2
        <3> QED BY <1>5, <1>8, <2>1, <3>2, <3>4, <3>5, <3>6 DEF o
    <2>5. CASE Turning(m, s) /\ m.key = "_next_period"
        <3>1. m.sender = s /\ m.period < q
            BY <2>2, <2>5 DEF Upto, Turning
        <3>2. m.period # p.periods[s]
            <4>1. m.period \in Periods /\ m.period \in Nat
                BY <2>2, Basics DEF Routed
            <4> QED BY <1>1, <3>1, <4>1, Basics DEF InItsPeriod
        <3>3. o = w /\ w \in PageOf(s) /\ Steady(p, w) /\ w.out = <<>>
            BY <1>1, <2>2, <2>5, <3>1, <3>2, OwnNext DEF o, w
        <3> HIDE DEF m, S
        <3>4. /\ InItsPeriod(w, q) /\ w.ranAt = p.ranAt /\ w.sync = p.sync /\ w.periods[s] = w.period
              /\ w.ranAt = Undefined => w.deferred \subseteq {w.period}
              /\ w.period = p.period
            BY <1>1, <3>3 DEF Steady, InItsPeriod
        <3>5. o.out \in Seq(Plain(s)) /\ o.ranAt = w.ranAt
            BY <3>3, EmptySeq
        <3>6. m # z
            BY <2>5, PartsAre DEF z
        <3>7. w.period = q \/ Has(Tail(x), z)
            BY <2>2, <3>4, <3>6
        <3> QED BY <1>5, <1>8, <2>1, <3>3, <3>4, <3>5, <3>7 DEF o
    <2>6. CASE Turning(m, s) /\ m.key = "__set_page__"
        <3>1. /\ o \in PageOf(s) /\ o.out = <<>> /\ w = o /\ SameScript(p, o)
              /\ o.reloading = ~p.sync /\ o.sync = p.sync
            BY <1>1, <2>2, <2>6, PageIsTurned DEF o, w, Turning
        <3> HIDE DEF m, S
        <3>2. ~o.reloading
            BY <2>1, <3>1
        <3>3. /\ InItsPeriod(w, q) /\ w.ranAt = p.ranAt /\ w.periods[s] = w.period
              /\ w.ranAt = Undefined => w.deferred \subseteq {w.period}
              /\ w.period = p.period
            BY <1>1, <3>1, <3>2 DEF SameScript, SameRun, InItsPeriod
        <3>4. o.out \in Seq(Plain(s)) /\ o.ranAt = w.ranAt
            BY <3>1, EmptySeq
        <3>5. m # z
            BY <2>6, PartsAre DEF z
        <3>6. w.period = q \/ Has(Tail(x), z)
            BY <2>2, <3>3, <3>5
        <3> QED BY <1>5, <1>8, <2>1, <3>1, <3>3, <3>4, <3>6 DEF o
    <2> QED BY <2>3, <2>4, <2>5, <2>6 DEF Turning, Change
<1> QED BY <1>6, <1>7, <1>8

\* Before the first period a page gets only messages of others.
LEMMA ToldGets ==
    ASSUME NEW s \in Subjects, NEW u, NEW d, NEW p, NEW q \in Periods, NEW v, NEW l, NEW a,
           Told(s, u, d, <<>>, p, "open", q, l, a), Linked(s, d, <<>>, p, "open"), d # <<>>
    PROVE  Becomes(s, u, Tail(d), <<>>, p, OnMessage(p, s, Head(d)), "open", q, v, l, a)
<1> DEFINE m == Head(d)
           o == OnMessage(p, s, m)
<1>1. /\ p \in PageOf(s) /\ p.out = <<>> /\ Unused(p, s) /\ p.period = Undefined /\ p.name = "Wait"
      /\ p.periods[s] = p.period /\ p.sync = FALSE
    BY DEF Linked, Told, PageOf
<1>2. m \in Others(s) /\ Tail(d) \in Seq(Others(s)) /\ u \in Seq(Routed)
    BY HeadTailProperties, EmptySeq DEF Told
<1>3. m \in Routed /\ ~Mine(m, s)
    BY <1>2 DEF Others
<1>4. /\ o \in PageOf(s) /\ Unused(o, s) /\ o.periods[s] = o.period /\ o.period = p.period
      /\ o.name = p.name /\ o.sync = p.sync
    BY <1>1, <1>3, UnusedStays
<1> HIDE DEF o, m
<1>5. o.out = <<>> /\ o.ranAt = p.ranAt /\ o.deferred = {} /\ o.sync = FALSE
    BY <1>1, <1>4 DEF Unused, Idle
<1>6. Linked(s, Tail(d), <<>>, o, "open")
    BY <1>4, <1>5 DEF Linked
<1>7. Told(s, u, Tail(d), <<>>, o, "open", q, l, a)
    BY <1>1, <1>2, <1>4 DEF Told
<1> QED BY <1>2, <1>4, <1>5, <1>6, <1>7, Silently DEF Stage, o, m

\* The page gets its first period and asks for its page.
LEMMA GreetedGets ==
    ASSUME NEW s \in Subjects, NEW u, NEW d, NEW p, NEW q \in Periods, NEW v, NEW l, NEW a,
           Greeted(s, u, d, <<>>, p, "open", q, l, a), Linked(s, d, <<>>, p, "open"), d # <<>>
    PROVE  Becomes(s, u, Tail(d), <<>>, p, OnMessage(p, s, Head(d)), "open", q, v, l, a)
<1> DEFINE m == Head(d)
           o == OnMessage(p, s, m)
           w == Emptied(o)
           y == Announcement(s)
           z == PeriodIs(s, 0)
<1>1. /\ p \in PageOf(s) /\ p.out = <<>> /\ Unused(p, s) /\ p.period \in {Undefined, 0} /\ p.name = "Wait"
      /\ p.periods[s] = p.period /\ p.sync = FALSE /\ ~p.reloading
    BY DEF Linked, Greeted, PageOf, Unused
<1>2. \/ m = z /\ Tail(d) \in Seq(Others(s) \cup {y})
      \/ m \in Others(s) /\ One(Tail(d), z, Others(s), Others(s) \cup {y})
    BY OneHead DEF Greeted
<1>3. q = 0 /\ u \in Seq({y}) /\ ~Has(a, z) /\ l \in Seq(Others(s) \cup {y, z}) /\ Has(l, z)
    BY DEF Greeted
<1>4. CASE m \in Others(s) /\ One(Tail(d), z, Others(s), Others(s) \cup {y})
    <2>1. m \in Routed /\ ~Mine(m, s)
        BY <1>4 DEF Others
    <2>2. /\ o \in PageOf(s) /\ Unused(o, s) /\ o.periods[s] = o.period /\ o.period = p.period
          /\ o.name = p.name /\ o.sync = p.sync
        BY <1>1, <2>1, UnusedStays
    <2> HIDE DEF o, m
    <2>3. o.out = <<>> /\ o.ranAt = p.ranAt /\ o.deferred = {} /\ o.sync = FALSE
        BY <1>1, <2>2 DEF Unused, Idle
    <2>4. Linked(s, Tail(d), <<>>, o, "open")
        BY <2>2, <2>3 DEF Linked
    <2>5. Greeted(s, u, Tail(d), <<>>, o, "open", q, l, a)
        BY <1>1, <1>4, <2>2 DEF Greeted
    <2> QED BY <1>3, <2>2, <2>3, <2>4, <2>5, Silently DEF Stage, o, m
<1>5. CASE m = z /\ Tail(d) \in Seq(Others(s) \cup {y})
    <2>1. /\ o.out = <<PageIs(s, 0)>>
          /\ w \in PageOf(s) /\ w.out = <<>> /\ w.name = p.name /\ w.sync = p.sync /\ ~w.reloading
          /\ w.period = 0 /\ w.periods[s] = 0
          /\ w.deferred = p.deferred /\ w.received = p.received /\ SameRun(p, w) /\ o.ranAt = w.ranAt
        BY <1>1, <1>5, OwnPeriod, Basics
    <2>2. y \in EarlyPlain(s, 0) /\ y \in Early(s, 0) /\ Others(s) \subseteq Early(s, 0)
        BY MessagesAre, Basics
    <2>3. z \in Upto(s, 0, 0) /\ y \in Upto(s, 0, 0) /\ Others(s) \subseteq Upto(s, 0, 0)
        BY UptoIs, Basics
    <2> HIDE DEF o, w, m, y
    <2>4. u \in Seq(EarlyPlain(s, 0))
        <3>1. {y} \subseteq EarlyPlain(s, 0)
            BY <2>2
        <3> QED BY <1>3, <3>1, Wider
    <2>5. One(u \o o.out, PageIs(s, 0), EarlyPlain(s, 0), Plain(s))
        BY <2>1, <2>4, OneNew, OneWider, MessagesAre, Basics
    <2>6. Tail(d) \in Seq(Early(s, 0))
        <3>1. Others(s) \cup {y} \subseteq Early(s, 0)
            BY <2>2
        <3> QED BY <1>5, <3>1, Wider
    <2>7. LogOf(s, l, 0, 0)
        <3>1. Others(s) \cup {y, z} \subseteq Upto(s, 0, 0)
            BY <2>3
        <3> QED BY <1>3, <3>1, Wider DEF LogOf
    <2>8. Idle(w) /\ s \notin w.received[0] /\ w.deferred = {} /\ w.ranAt = p.ranAt
        BY <1>1, <2>1 DEF Unused, Idle, SameRun
    <2>9. Stale(s, w, "open", <<>>, 0)
        BY <2>1, <2>8 DEF Stale, Idle
    <2>10. Turned(s, u \o o.out, Tail(d), <<>>, w, "open", 0, v, l, a)
        BY <1>3, <2>1, <2>5, <2>6, <2>7, <2>9 DEF Turned
    <2>11. Linked(s, Tail(d), <<>>, w, "open")
        BY <1>1, <2>1, <2>8 DEF Linked
    <2> QED BY <1>3, <2>1, <2>8, <2>10, <2>11 DEF Becomes, Stage, w, o, m
<1> QED BY <1>2, <1>4, <1>5

\* A page in its period gets what does not turn it.
LEMMA SettledGets ==
    ASSUME NEW s \in Subjects, NEW u, NEW d, NEW p, NEW q \in Periods, NEW v, NEW l, NEW a,
           Settled(s, u, d, <<>>, p, "open", q, v, l, a), Linked(s, d, <<>>, p, "open"), d # <<>>
    PROVE  Becomes(s, u, Tail(d), <<>>, p, OnMessage(p, s, Head(d)), "open", q, v, l, a)
<1> DEFINE m == Head(d)
           o == OnMessage(p, s, m)
           w == Emptied(o)
<1>1. InItsPeriod(p, q) /\ p.period = q /\ p.sync = FALSE /\ ~p.reloading /\ p \in PageOf(s)
    BY DEF Linked, Settled, InItsPeriod, PageOf
<1>2. m \in Routed /\ ~Turning(m, s) /\ Tail(d) \in Seq(Still(s))
    <2>1. m \in Still(s) /\ Tail(d) \in Seq(Still(s))
        BY HeadTailProperties DEF Settled
    <2> QED BY <2>1 DEF Still
<1>3. /\ w \in PageOf(s) /\ w.out = <<>> /\ o.out \in Seq(Plain(s)) /\ Calm(s, p, m, w)
      /\ w.ranAt = o.ranAt /\ o.name = w.name
      /\ Linked(s, Tail(d), <<>>, w, "open")
    BY <1>1, <1>2, CalmIs
<1> HIDE DEF w, o, m
<1>4. InItsPeriod(w, q) /\ (w.ranAt = p.ranAt \/ Plays(w)) /\ w.period = p.period
    BY <1>1, <1>3, CalmSettles
<1>5. u \o o.out \in Seq(Plain(s))
    BY <1>3, ConcatProperties DEF Settled
<1>6. Settled(s, u \o o.out, Tail(d), <<>>, w, "open", q, v, l, a)
    BY <1>1, <1>2, <1>4, <1>5 DEF Settled, InItsPeriod
<1>7. o.ranAt = p.ranAt \/ Plays(o)
    BY <1>3, <1>4 DEF Plays
<1> QED BY <1>3, <1>6, <1>7 DEF Becomes, Stage, w, o, m

\* A page that is through with its period stays so.
LEMMA ThroughStays ==
    ASSUME NEW s \in Subjects, NEW p, NEW q \in Periods, Through(p, "open", <<>>, q), NEW m, NEW w,
           Calm(s, p, m, w)
    PROVE  Through(w, "open", <<>>, q) /\ w.ranAt = p.ranAt
<1>1. SameRun(p, w)
    BY Basics DEF Through, Calm, Started
<1> QED BY <1>1 DEF Through, Calm, SameRun

(***************************************************************************)
(* A page that is leaving gets its _next_period, and asks for the next     *)
(* period, or gets the new one, and asks for its page.                     *)
(***************************************************************************)
LEMMA LeavingGets ==
    ASSUME NEW s \in Subjects, NEW u, NEW d, NEW p, NEW q \in Periods, NEW v, NEW l, NEW a,
           Leaving(s, u, d, <<>>, p, "open", q, l, a), Linked(s, d, <<>>, p, "open"), d # <<>>
    PROVE  Becomes(s, u, Tail(d), <<>>, p, OnMessage(p, s, Head(d)), "open", q, v, l, a)
<1> DEFINE m == Head(d)
           o == OnMessage(p, s, m)
           w == Emptied(o)
<1>1. /\ p \in PageOf(s) /\ p.out = <<>> /\ p.periods[s] = p.period /\ p.sync = FALSE /\ ~p.reloading
      /\ p.ranAt = Undefined => p.deferred \subseteq {p.period}
    BY DEF Linked, Leaving, Through, PageOf
<1>2. ~Has(a, PeriodIs(s, 0))
    BY DEF Leaving
<1>3. \A A : d \in Seq(A) => m \in A /\ Tail(d) \in Seq(A)
    BY HeadTailProperties
<1>4. CASE m \in Still(s)
    <2>1. m \in Routed /\ ~Turning(m, s)
        BY <1>4 DEF Still
    <2>2. /\ w \in PageOf(s) /\ w.out = <<>> /\ o.out \in Seq(Plain(s)) /\ Calm(s, p, m, w)
          /\ w.ranAt = o.ranAt
          /\ Linked(s, Tail(d), <<>>, w, "open")
        BY <1>1, <2>1, CalmIs
    <2>3. m # NextOf(s, q) /\ m # PeriodIs(s, q)
        <3> HIDE DEF m
        <3> QED BY <2>1, PartsAre DEF Turning, Change
    <2>4. /\ d \in Seq(Still(s)) => Tail(d) \in Seq(Still(s))
          /\ One(d, NextOf(s, q), Still(s), Still(s)) => One(Tail(d), NextOf(s, q), Still(s), Still(s))
          /\ One(d, PeriodIs(s, q), Still(s), Still(s)) => One(Tail(d), PeriodIs(s, q), Still(s), Still(s))
        BY <1>3, <2>3, OneHead
    <2> HIDE DEF o, w, m
    <2>5. /\ u \in Seq(Plain(s)) => u \o o.out \in Seq(Plain(s))
          /\ One(u, NextOf(s, q), Plain(s), Plain(s)) => One(u \o o.out, NextOf(s, q), Plain(s), Plain(s))
          /\ One(u, AskedOf(s, q), Plain(s), Plain(s)) => One(u \o o.out, AskedOf(s, q), Plain(s), Plain(s))
        BY <2>2, ConcatProperties, OneConcat
    <2>6. /\ Through(p, "open", <<>>, q) => Through(w, "open", <<>>, q) /\ w.ranAt = p.ranAt
          /\ q >= 1 /\ Through(p, "open", <<>>, q - 1) => Through(w, "open", <<>>, q - 1) /\ w.ranAt = p.ranAt
        <3>1. q >= 1 => q - 1 \in Periods
            BY Basics DEF Periods
        <3> QED BY <2>2, <3>1, ThroughStays
    <2>7. Leaving(s, u \o o.out, Tail(d), <<>>, w, "open", q, l, a) /\ w.ranAt = p.ranAt
        BY <1>2, <2>4, <2>5, <2>6 DEF Leaving
    <2> QED BY <2>2, <2>7 DEF Becomes, Stage, w, o, m
<1>5. CASE /\ m = NextOf(s, q) /\ Tail(d) \in Seq(Still(s)) /\ u \in Seq(Plain(s))
           /\ Through(p, "open", <<>>, q) /\ LogOf(s, l, q, q + 1)
    <2>1. m \in Routed /\ m.sender = s /\ m.key = "_next_period" /\ m.period = q
        BY <1>5, MessagesAre, PartsAre
    <2>2. p.period = q /\ p.ranAt = q /\ q <= Rows
        BY <1>5 DEF Through
    <2>3. /\ o.out = <<AskedOf(s, q)>>
          /\ w \in PageOf(s) /\ Steady(p, w) /\ w.out = <<>> /\ o.ranAt = w.ranAt
        BY <1>1, <2>1, <2>2, OwnNext
    <2> HIDE DEF o, w, m
    <2>4. One(u \o o.out, AskedOf(s, q), Plain(s), Plain(s))
        BY <1>5, <2>3, OneNew
    <2>5. Through(w, "open", <<>>, q) /\ w.ranAt = p.ranAt
        BY <1>5, <2>3 DEF Through, Steady
    <2>6. Leaving(s, u \o o.out, Tail(d), <<>>, w, "open", q, l, a)
        BY <1>2, <1>5, <2>4, <2>5 DEF Leaving
    <2>7. Linked(s, Tail(d), <<>>, w, "open")
        BY <1>1, <2>3 DEF Steady, Linked
    <2> QED BY <2>3, <2>5, <2>6, <2>7 DEF Becomes, Stage, w, o, m
<1>6. CASE /\ m = PeriodIs(s, q) /\ Tail(d) \in Seq(Still(s)) /\ u \in Seq(Plain(s))
           /\ q >= 1 /\ Through(p, "open", <<>>, q - 1) /\ LogOf(s, l, q, q)
    <2>1. /\ o.out = <<PageIs(s, q)>>
          /\ w \in PageOf(s) /\ w.out = <<>> /\ w.name = p.name /\ w.sync = p.sync /\ ~w.reloading
          /\ w.period = q /\ w.periods[s] = q /\ SameRun(p, w) /\ o.ranAt = w.ranAt
        BY <1>1, <1>6, OwnPeriod
    <2>2. q # 0 /\ q \in Nat /\ Undefined # q - 1
        BY <1>6, Basics DEF Undefined
    <2>3. EarlyPlain(s, q) = Plain(s) /\ Early(s, q) = Still(s)
        BY <2>2 DEF EarlyPlain, Early
    <2> HIDE DEF o, w, m
    <2>4. One(u \o o.out, PageIs(s, q), EarlyPlain(s, q), Plain(s)) /\ Tail(d) \in Seq(Early(s, q))
        BY <1>6, <2>1, <2>3, OneNew
    <2>5. /\ w.ranAt = q - 1 /\ w.asked /\ ~w.timer /\ w.name = PageFor(q - 1) /\ w.ranAt = p.ranAt
        BY <1>6, <2>1 DEF Through, SameRun
    <2>6. Stale(s, w, "open", <<>>, q)
        BY <2>1, <2>2, <2>5 DEF Stale
    <2>7. Turned(s, u \o o.out, Tail(d), <<>>, w, "open", q, v, l, a)
        BY <1>2, <1>6, <2>1, <2>4, <2>6 DEF Turned
    <2>8. Linked(s, Tail(d), <<>>, w, "open")
        BY <1>1, <2>1, <2>2, <2>5 DEF Linked
    <2> QED BY <2>1, <2>5, <2>7, <2>8 DEF Becomes, Stage, w, o, m
<1>7. d \in Seq(Still(s)) => m \in Still(s)
    BY <1>3
<1> QED BY <1>4, <1>5, <1>6, <1>7, OneHead DEF Leaving

\* A page that has its new period gets the page of it, and reloads.
LEMMA TurnedGets ==
    ASSUME NEW s \in Subjects, NEW u, NEW d, NEW p, NEW q \in Periods, NEW v, NEW l, NEW a,
           Turned(s, u, d, <<>>, p, "open", q, v, l, a), Linked(s, d, <<>>, p, "open"), d # <<>>
    PROVE  Becomes(s, u, Tail(d), <<>>, p, OnMessage(p, s, Head(d)), "open", q, v, l, a)
<1> DEFINE m == Head(d)
           o == OnMessage(p, s, m)
           w == Emptied(o)
<1>1. /\ p \in PageOf(s) /\ p.out = <<>> /\ p.periods[s] = p.period /\ p.sync = FALSE /\ ~p.reloading
      /\ p.ranAt = Undefined => p.deferred \subseteq {p.period}
      /\ Stale(s, p, "open", <<>>, q) /\ ~Has(a, PeriodIs(s, 0)) /\ LogOf(s, l, q, q)
    BY DEF Linked, Turned, PageOf
<1>2. \A A : d \in Seq(A) => m \in A /\ Tail(d) \in Seq(A)
    BY HeadTailProperties
<1>3. CASE m \in Early(s, q)
    <2>1. m \in Routed /\ ~Turning(m, s) /\ (q = 0 => ~(m.sender = s /\ m.key = "_at_barrier"))
        BY <1>3 DEF Early, Still
    <2>2. /\ w \in PageOf(s) /\ w.out = <<>> /\ o.out \in Seq(Plain(s)) /\ Calm(s, p, m, w)
          /\ w.ranAt = o.ranAt
          /\ Linked(s, Tail(d), <<>>, w, "open")
        BY <1>1, <2>1, CalmIs
    <2>3. m # PageIs(s, q)
        <3> HIDE DEF m
        <3> QED BY <2>1, PartsAre DEF Turning, Change
    <2>4. /\ d \in Seq(Early(s, q)) => Tail(d) \in Seq(Early(s, q))
          /\ One(d, PageIs(s, q), Early(s, q), Still(s)) => One(Tail(d), PageIs(s, q), Early(s, q), Still(s))
        BY <1>2, <2>3, OneHead
    <2> HIDE DEF o, w, m
    <2>5. /\ u \in Seq(Plain(s)) => u \o o.out \in Seq(Plain(s))
          /\ One(u, PageIs(s, q), EarlyPlain(s, q), Plain(s)) =>
                One(u \o o.out, PageIs(s, q), EarlyPlain(s, q), Plain(s))
        BY <2>2, ConcatProperties, OneConcat
    <2>6. SameRun(p, w)
        <3>1. CASE q >= 1
            BY <1>1, <2>2, <3>1, Basics DEF Stale, Calm, Started, Undefined
        <3>2. CASE q = 0
            <4>1. p.period = 0 /\ s \notin p.received[0]
                BY <1>1, <3>2 DEF Stale
            <4>2. ~Opens(p, m)
                BY <2>1, <3>2, <4>1 DEF Opens
            <4>3. ~Resumes1(s, p, m)
                BY <1>1, <4>1, Basics DEF Resumes1, PageOf
            <4> QED BY <2>2, <4>2, <4>3 DEF Calm
        <3> QED BY <3>1, <3>2, Basics
    <2>7. Stale(s, w, "open", <<>>, q) /\ ~w.reloading
        <3>1. q = 0 => s \notin w.received[0]
            BY <1>1, <2>1, <2>2, Basics DEF Stale, Calm
        <3> QED BY <1>1, <2>2, <2>6, <3>1 DEF Stale, Calm, SameRun, Idle
    <2>8. Turned(s, u \o o.out, Tail(d), <<>>, w, "open", q, v, l, a)
        BY <1>1, <2>4, <2>5, <2>7 DEF Turned
    <2> QED BY <2>2, <2>6, <2>8 DEF Becomes, Stage, SameRun, w, o, m
<1>4. CASE m = PageIs(s, q) /\ Tail(d) \in Seq(Still(s)) /\ u \in Seq(Plain(s)) /\ v = PageFor(q)
    <2>1. m \in Routed /\ m.sender = s /\ m.key = "__set_page__"
        BY <1>4, MessagesAre, PartsAre
    <2>2. /\ o \in PageOf(s) /\ o.out = <<>> /\ SameScript(p, o) /\ o.reloading = ~p.sync /\ o.sync = p.sync
        BY <1>1, <2>1, PageIsTurned
    <2> HIDE DEF o, w, m
    <2>3. o.reloading /\ o.ranAt = p.ranAt /\ ~o.timer /\ o.name = p.name
        BY <1>1, <2>2 DEF SameScript, SameRun, Stale
    <2>4. p.ranAt # Undefined => p.name = PageFor(p.ranAt)
        BY <1>1, Basics DEF Stale, Idle
    <2>5. Reloading(s, u, Tail(d), <<>>, o, "open", q, v, l, a)
        BY <1>1, <1>4, <2>3, <2>4 DEF Reloading
    <2>6. Linked(s, Tail(d), <<>>, o, "open")
        BY <1>1, <2>2 DEF SameScript, SameRun, Linked
    <2> QED BY <1>4, <2>2, <2>3, <2>5, <2>6, Silently DEF Stage, o, m
<1>5. d \in Seq(Early(s, q)) => m \in Early(s, q)
    BY <1>2
<1> QED BY <1>3, <1>4, <1>5, OneHead DEF Turned

\* Whatever a page receives takes its subject from stage to stage.
LEMMA Received ==
    ASSUME NEW s \in Subjects, NEW u, NEW d, NEW r, NEW p, NEW q \in Periods, NEW v, NEW l, NEW a,
           Stage(s, u, d, r, p, "open", q, v, l, a), Linked(s, d, r, p, "open"), ~p.reloading
    PROVE  /\ r # <<>> => Becomes(s, u, d, Tail(r), p, OnMessage(p, s, Head(r)), "open", q, v, l, a)
           /\ r = <<>> /\ d # <<>> =>
                Becomes(s, u, Tail(d), <<>>, p, OnMessage(p, s, Head(d)), "open", q, v, l, a)
<1>1. ASSUME r # <<>>
      PROVE  Becomes(s, u, d, Tail(r), p, OnMessage(p, s, Head(r)), "open", q, v, l, a)
    <2>1. \/ Told(s, u, d, r, p, "open", q, l, a)
          \/ Greeted(s, u, d, r, p, "open", q, l, a)
          \/ Settled(s, u, d, r, p, "open", q, v, l, a)
        BY <1>1 DEF Stage, Leaving, Turned, Reloading, Through, Stale
    <2> QED BY <1>1, <2>1, ToldReplayed, GreetedReplayed, SettledReplayed
<1>2. ASSUME r = <<>>, d # <<>>
      PROVE  Becomes(s, u, Tail(d), <<>>, p, OnMessage(p, s, Head(d)), "open", q, v, l, a)
    <2>1. /\ Linked(s, d, <<>>, p, "open")
          /\ \/ Told(s, u, d, <<>>, p, "open", q, l, a)
             \/ Greeted(s, u, d, <<>>, p, "open", q, l, a)
             \/ Settled(s, u, d, <<>>, p, "open", q, v, l, a)
             \/ Leaving(s, u, d, <<>>, p, "open", q, l, a)
             \/ Turned(s, u, d, <<>>, p, "open", q, v, l, a)
        BY <1>2 DEF Stage, Reloading
    <2> QED BY <1>2, <2>1, ToldGets, GreetedGets, SettledGets, LeavingGets, TurnedGets
<1> QED BY <1>1, <1>2

-----------------------------------------------------------------------------
(* How a page comes and goes                                               *)

\* What a page is like before it is connected.
LEMMA FreshIs ==
    ASSUME NEW s \in Subjects, NEW n \in PageNames
    PROVE  LET p == FreshPage(n)
           IN  /\ p \in PageOf(s) /\ p.name = n /\ p.out = <<>> /\ p.sync = FALSE /\ ~p.reloading
               /\ p.period = Undefined /\ p.periods[s] = Undefined /\ Unused(p, s)
               /\ \A k \in Periods : p.received[k] = {}
               /\ p.pause = {}
               /\ p = FreshPage(p.name)
<1> DEFINE p == FreshPage(n)
<1>1. <<>> \in Seq(Plain(s)) /\ 0 \in Periods
    BY EmptySeq, Basics
<1>2. p.name = n
    BY DEF FreshPage
<1>3. p \in PageOf(s)
    BY <1>1 DEF FreshPage, PageOf
<1>4. Unused(p, s) /\ p.out = <<>> /\ p.sync = FALSE /\ ~p.reloading
    BY <1>1 DEF FreshPage, Unused, Idle
<1>5. p.period = Undefined /\ p.periods[s] = Undefined /\ p.pause = {} /\ \A k \in Periods : p.received[k] = {}
    BY DEF FreshPage
<1> QED BY <1>2, <1>3, <1>4, <1>5

\* The page that Django serves is that of the period.
LEMMA Loads ==
    ASSUME NEW s \in Subjects, NEW u, NEW d, NEW r, NEW p, NEW q \in Periods,
           NEW v \in {"None", "Wait", "Start", "Finish"}, NEW l, NEW a,
           Stage(s, u, d, r, p, "loading", q, v, l, a), Linked(s, d, r, p, "loading"),
           NEW n, n = IF q = 0 THEN "Wait" ELSE v
    PROVE  Stage(s, u, d, r, FreshPage(n), "loaded", q, v, l, a) /\ Linked(s, d, r, FreshPage(n), "loaded")
<1> DEFINE w == FreshPage(n)
<1>1. n \in PageNames
    BY DEF PageNames
<1>2. /\ w \in PageOf(s) /\ w.name = n /\ w.out = <<>> /\ w.sync = FALSE /\ ~w.reloading
      /\ w.period = Undefined /\ w.periods[s] = Undefined /\ Unused(w, s) /\ w = FreshPage(w.name)
    BY <1>1, FreshIs
<1> HIDE DEF w
<1>3. d = <<>> /\ r = <<>>
    BY DEF Linked
<1>4. Linked(s, d, r, w, "loaded")
    BY <1>2, <1>3 DEF Linked, Unused
<1>5. CASE Told(s, u, d, r, p, "loading", q, l, a)
    <2>1. Told(s, u, d, r, w, "loaded", q, l, a)
        BY <1>2, <1>3, <1>5 DEF Told
    <2> QED BY <1>4, <2>1 DEF Stage, w
<1>6. CASE Settled(s, u, d, r, p, "loading", q, v, l, a)
    <2>1. n = PageFor(q)
        BY <1>6, Basics DEF Settled, PageFor
    <2>2. Settled(s, u, d, r, w, "loaded", q, v, l, a)
        BY <1>2, <1>3, <1>6, <2>1 DEF Settled, Unused, Idle
    <2> QED BY <1>4, <2>2 DEF Stage, w
<1> QED BY <1>5, <1>6 DEF Stage, Greeted, Leaving, Turned, Reloading, Through, Stale

\* A registration changes nothing of a stage.
LEMMA Registers ==
    ASSUME NEW s \in Subjects, NEW u, NEW d, NEW r, NEW p, NEW q \in Periods, NEW v, NEW l, NEW a,
           Stage(s, u, d, r, p, "loaded", q, v, l, a), Linked(s, d, r, p, "loaded")
    PROVE  Stage(s, u, d, r, p, "registered", q, v, l, a) /\ Linked(s, d, r, p, "registered")
<1>1. d = <<>> /\ r = <<>>
    BY DEF Linked
<1>2. Linked(s, d, r, p, "registered")
    BY <1>1 DEF Linked
<1>3. CASE Told(s, u, d, r, p, "loaded", q, l, a)
    <2>1. Told(s, u, d, r, p, "registered", q, l, a)
        BY <1>1, <1>3 DEF Told
    <2> QED BY <1>2, <2>1 DEF Stage
<1>4. CASE Settled(s, u, d, r, p, "loaded", q, v, l, a)
    <2>1. Settled(s, u, d, r, p, "registered", q, v, l, a)
        BY <1>1, <1>4 DEF Settled
    <2> QED BY <1>2, <2>1 DEF Stage
<1> QED BY <1>3, <1>4 DEF Stage, Greeted, Leaving, Turned, Reloading, Through, Stale

\* What of the log l is replayed to s.
Replayed(s, l, sc) == Only(l, {m \in ToSet(l) : Gets(s, sc, l, m)})

\* What of the log is replayed, and in which order.
LEMMA ReplayedIs ==
    ASSUME NEW s \in Subjects, NEW S, NEW l \in Seq(S), NEW sc
    PROVE  /\ Replayed(s, l, sc) \in Seq(S)
           /\ \A m : Has(l, m) /\ Gets(s, sc, l, m) => Has(Replayed(s, l, sc), m)
           /\ \A m : Has(Replayed(s, l, sc), m) => Has(l, m)
           /\ \A x, y : x # y /\ Before(l, x, y) => Before(Replayed(s, l, sc), x, y)
<1> DEFINE K == {m \in ToSet(l) : Gets(s, sc, l, m)}
<1>1. /\ Only(l, K) \in Seq(S)
      /\ \A i \in DOMAIN Only(l, K) : \E n \in DOMAIN l : l[n] \in K /\ Only(l, K)[i] = l[n]
      /\ \A n \in DOMAIN l : l[n] \in K => \E i \in DOMAIN Only(l, K) : Only(l, K)[i] = l[n]
    <2> HIDE DEF K
    <2> QED BY OnlyKeeps
<1>2. \A x, y : x # y /\ Before(l, x, y) => Before(Only(l, K), x, y)
    <2> HIDE DEF K
    <2> QED BY OnlyInOrder
<1>3. \A m : Has(l, m) /\ Gets(s, sc, l, m) => m \in K
    BY DEF Has, ToSet
<1> HIDE DEF K
<1>4. \A m : Has(l, m) /\ m \in K => Has(Only(l, K), m)
    BY <1>1 DEF Has
<1>5. \A m : Has(Only(l, K), m) => Has(l, m)
    BY <1>1 DEF Has
<1> QED BY <1>1, <1>2, <1>3, <1>4, <1>5 DEF Replayed, K

\* The replay has what its subject's stage needs.
LEMMA Syncs ==
    ASSUME NEW s \in Subjects, NEW u, NEW d, NEW r, NEW p, NEW q \in Periods, NEW v, NEW l, NEW a,
           Stage(s, u, d, r, p, "registered", q, v, l, a), Linked(s, d, r, p, "registered"),
           NEW sc, sc[s].period = q,
           NEW r2, Replays(r2, FALSE, Replayed(s, l, sc))
    PROVE  Stage(s, u, d, r2, p, "open", q, v, l, a) /\ Linked(s, d, r2, p, "open")
<1> DEFINE x == Replayed(s, l, sc)
<1>0. r2 = <<Begin>> \o x \o <<End>>
    BY DEF Replays
<1>1. l \in Seq(Routed)
    BY StageSends
<1>2. \A S : l \in Seq(S) => x \in Seq(S)
    BY ReplayedIs
<1>3. /\ \A m : Has(l, m) /\ Gets(s, sc, l, m) => Has(x, m)
      /\ \A y, z : y # z /\ Before(l, y, z) => Before(x, y, z)
    BY <1>1, ReplayedIs
<1> HIDE DEF x
<1>4. p.sync = FALSE /\ p.period = Undefined /\ p = FreshPage(p.name) /\ p.periods[s] = Undefined
    <2>1. p = FreshPage(p.name) /\ p.name \in PageNames
        BY DEF Linked, PageOf
    <2> HIDE DEF FreshPage
    <2>2. FreshPage(p.name).sync = FALSE /\ FreshPage(p.name).period = Undefined /\ FreshPage(p.name).periods[s] = Undefined
        BY <2>1, FreshIs
    <2> QED BY <2>1, <2>2
<1>5. Replays(r2, FALSE, x) /\ Replays(r2, p.sync, x)
    BY <1>4 DEF Replays, x
<1>6. r2 # <<>>
    BY <1>1, <1>2, <1>5, ReplayFirst
<1>7. Linked(s, d, r2, p, "open")
    BY <1>4, <1>6 DEF Linked
<1>8. CASE Told(s, u, d, r, p, "registered", q, l, a)
    <2> DEFINE y == Announcement(s)
    <2>1. y \in Routed /\ y.sender = s /\ y.period = 0 /\ y.group = 0 /\ ~y.stateUpdate
        BY MessagesAre DEF Announcement, Message
    <2> HIDE DEF y
    <2>2. Gets(s, sc, l, y)
        BY <2>1, GetsOwn
    <2>3. Has(x, y) /\ x \in Seq(Others(s) \cup {y})
        BY <1>2, <1>3, <1>8, <2>2 DEF Told, y
    <2>4. Told(s, u, d, r2, p, "open", q, l, a)
        BY <1>5, <1>8, <2>3 DEF Told, y
    <2> QED BY <1>7, <2>4 DEF Stage
<1>9. CASE Greeted(s, u, d, r, p, "registered", q, l, a)
    <2> DEFINE y == Announcement(s)
               z == PeriodIs(s, 0)
    <2>1. y # z
        BY PartsAre DEF Announcement, Message
    <2>2. Before(l, y, z) /\ l \in Seq(Others(s) \cup {y, z})
        BY <1>9 DEF Greeted
    <2> HIDE DEF y, z
    <2>3. Before(x, y, z) /\ x \in Seq(Others(s) \cup {y, z})
        BY <1>2, <1>3, <2>1, <2>2
    <2>4. p.period # 0
        BY <1>4, Basics
    <2>5. Greeted(s, u, d, r2, p, "open", q, l, a)
        BY <1>5, <1>9, <2>3, <2>4 DEF Greeted, y, z
    <2> QED BY <1>7, <2>5 DEF Stage
<1>10. CASE Settled(s, u, d, r, p, "registered", q, v, l, a)
    <2> DEFINE z == PeriodIs(s, q)
    <2>1. z \in Routed /\ z \in Msg /\ z.sender = s /\ z.period = q /\ z.group = 0
        BY MessagesAre, UpdatesAreMsg DEF PeriodIs, Message
    <2>2. l \in Seq(Upto(s, q, q)) /\ Has(l, z)
        BY <1>10 DEF Settled, LogOf
    <2> HIDE DEF z
    <2>3. Gets(s, sc, l, z)
        BY <2>1, <2>2, GetsOwn
    <2>4. Has(x, z) /\ x \in Seq(Upto(s, q, q))
        BY <1>2, <1>3, <2>2, <2>3
    <2>5. Settled(s, u, d, r2, p, "open", q, v, l, a)
        BY <1>5, <1>6, <1>10, <2>4 DEF Settled, z
    <2> QED BY <1>7, <2>5 DEF Stage
<1> QED BY <1>8, <1>9, <1>10 DEF Stage, Leaving, Turned, Reloading, Through, Stale

\* A page that the scripts have started is not waiting for the replay to begin.
LEMMA RunsAfterReplay ==
    ASSUME NEW s \in Subjects, NEW d, NEW r, NEW p, Linked(s, d, r, p, "open"), p.timer \/ p.ranAt # Undefined
    PROVE  r # <<>> => p.sync
<1>1. p.name \in PageNames
    BY DEF Linked, PageOf
<1>2. ~FreshPage(p.name).timer /\ FreshPage(p.name).ranAt = Undefined
    BY <1>1, FreshIs DEF Unused, Idle
<1> QED BY <1>2 DEF Linked

\* The timeout of next_period sends the message that a subject leaves with.
LEMMA TimerIs ==
    ASSUME NEW s \in Subjects, NEW u, NEW d, NEW r, NEW p, NEW q \in Periods, NEW v, NEW l, NEW a,
           Stage(s, u, d, r, p, "open", q, v, l, a), Linked(s, d, r, p, "open"), p.timer, ~p.sync
    PROVE  Becomes(s, u, d, r, p,
                   Send([p EXCEPT !.timer = FALSE], s, Message("_next_period", s, p.period, 0, FALSE, 0)),
                   "open", q, v, l, a)
<1> DEFINE b == [p EXCEPT !.timer = FALSE]
           m == Message("_next_period", s, p.period, 0, FALSE, 0)
           o == Send(b, s, m)
           w == Emptied(o)
<1>1. Settled(s, u, d, r, p, "open", q, v, l, a)
    BY DEF Stage, Told, Greeted, Leaving, Turned, Reloading, Through, Stale, Unused, Idle
<1>2. r = <<>>
    BY RunsAfterReplay
<1>3. /\ p \in PageOf(s) /\ p.out = <<>> /\ p.sync = FALSE /\ p.asked /\ p.ranAt = q /\ q <= Rows /\ p.period = q
      /\ p.periods[s] = q /\ p.name = PageFor(q) /\ ~p.reloading
    BY <1>1, <1>2 DEF Settled, Linked, PageOf
<1>4. m = NextOf(s, q) /\ OnWire(m) = m
    <2>1. m = NextOf(s, q) /\ m.period = q /\ q # Undefined
        BY <1>3, Basics DEF NextOf, Message
    <2>2. NextOf(s, q) \in Routed
        BY MessagesAre
    <2> HIDE DEF m
    <2> QED BY <2>1, <2>2 DEF OnWire, Routed
<1>5. /\ b \in PageOf(s) /\ b.out = <<>> /\ b.sync = FALSE /\ b.asked /\ b.ranAt = q /\ b.period = q /\ ~b.timer
      /\ b.periods[s] = q /\ b.name = p.name /\ ~b.reloading /\ b.deferred = p.deferred
    BY <1>3 DEF PageOf
<1> HIDE DEF b, m
<1>6. o = [b EXCEPT !.out = <<m>>]
    <2>1. Append(b.out, m) = <<m>>
        BY <1>5
    <2> QED BY <1>4, <1>5, <2>1 DEF Send, DefaultSend
<1>7. o.out = <<m>> /\ w = b /\ o.ranAt = b.ranAt
    BY <1>5, <1>6 DEF Emptied, PageOf
<1> HIDE DEF o, w
<1>8. One(u \o o.out, NextOf(s, q), Plain(s), Plain(s))
    BY <1>1, <1>4, <1>7, OneNew DEF Settled
<1>9. LogOf(s, l, q, q + 1)
    BY <1>1, UptoIs, Wider, Basics DEF Settled, LogOf
<1>10. Through(w, "open", r, q)
    BY <1>2, <1>3, <1>5, <1>7 DEF Through
<1>11. Leaving(s, u \o o.out, d, r, w, "open", q, l, a)
    BY <1>1, <1>8, <1>9, <1>10 DEF Leaving, Settled
<1>12. Linked(s, d, r, w, "open")
    BY <1>2, <1>3, <1>5, <1>7, Basics DEF Linked
<1> QED BY <1>3, <1>5, <1>7, <1>11, <1>12 DEF Becomes, Stage, o, w, b, m

\* The script's call of next_period sets the timeout.
LEMMA DoneIs ==
    ASSUME NEW s \in Subjects, NEW u, NEW d, NEW r, NEW p, NEW q \in Periods, NEW v, NEW l, NEW a,
           Stage(s, u, d, r, p, "open", q, v, l, a), Linked(s, d, r, p, "open"),
           p.name = "Start", p.ranAt # Undefined, ~p.asked, ~p.reloading
    PROVE  Becomes(s, u, d, r, p, NextPeriod(p), "open", q, v, l, a)
<1> DEFINE o == NextPeriod(p)
<1>1. p \in PageOf(s) /\ p.out = <<>> /\ p.periods[s] = p.period
    BY DEF Linked
<1>2. Settled(s, u, d, r, p, "open", q, v, l, a)
    BY Basics DEF Stage, Told, Greeted, Leaving, Turned, Reloading, Through, Stale, Unused, Idle
<1>3. r # <<>> => p.sync
    BY RunsAfterReplay
<1>4. p.ranAt = q /\ q <= Rows /\ p.period = q
    BY <1>2, Basics DEF Settled, PageFor
<1>5. o = [p EXCEPT !.broken = TRUE, !.timer = TRUE, !.asked = TRUE]
    BY DEF NextPeriod
<1>6. /\ o \in PageOf(s) /\ o.out = <<>> /\ o.ranAt = p.ranAt /\ o.timer /\ o.asked /\ o.name = p.name
      /\ o.period = p.period /\ o.periods = p.periods /\ o.sync = p.sync /\ o.reloading = p.reloading
    BY <1>1, <1>5 DEF PageOf
<1> HIDE DEF o
<1>7. Linked(s, d, r, o, "open")
    BY <1>1, <1>3, <1>4, <1>6, Basics DEF Linked
<1>8. Settled(s, u, d, r, o, "open", q, v, l, a)
    BY <1>2, <1>4, <1>6 DEF Settled
<1>9. u \in Seq(Plain(s))
    BY <1>2 DEF Settled
<1> QED BY <1>6, <1>7, <1>8, <1>9, Silently DEF Stage, o

(***************************************************************************)
(* A page goes: by itself when it has been told so, by its user when the   *)
(* period of s is not changing.                                            *)
(***************************************************************************)
LEMMA Leaves ==
    ASSUME NEW s \in Subjects, NEW u, NEW d, NEW r, NEW p, NEW q \in Periods, NEW v, NEW l, NEW a,
           Stage(s, u, d, r, p, "open", q, v, l, a), Linked(s, d, r, p, "open"),
           p.reloading \/ (\A m : (Has(u, m) \/ Has(d, m)) => ~Turning(m, s)),
           NEW n \in 0 .. Len(u)
    PROVE  LET w == FreshPage("Blank")
               u2 == SubSeq(u, 1, n)
           IN  Stage(s, u2, <<>>, <<>>, w, "loading", q, v, l, a) /\ Linked(s, <<>>, <<>>, w, "loading")
<1> DEFINE w == FreshPage("Blank")
           u2 == SubSeq(u, 1, n)
<1>1. /\ w \in PageOf(s) /\ w.name = "Blank" /\ w.out = <<>> /\ w.sync = FALSE /\ ~w.reloading
      /\ w.period = Undefined /\ w.periods[s] = Undefined /\ Unused(w, s) /\ w = FreshPage(w.name)
    BY FreshIs DEF PageNames
<1> HIDE DEF w
<1>2. Linked(s, <<>>, <<>>, w, "loading")
    BY <1>1 DEF Linked, Unused
<1>3. ASSUME NEW A, u \in Seq(A) PROVE u2 \in Seq(A)
    <2>1. Len(u) \in Nat /\ \A i \in 1 .. n : u[i] \in A
        BY <1>3, LenProperties, ElementOfSeq
    <2> QED BY <1>3, <2>1, SubSeqProperties
<1>4. u = <<>> => u2 = <<>>
    <2>1. SUFFICES ASSUME u = <<>> PROVE u2 = <<>>
        OBVIOUS
    <2>2. u2 \in Seq({})
        BY <1>3, <2>1, EmptySeq
    <2>3. Len(u2) = 0
        BY <2>2, ElementOfSeq, LenProperties
    <2> QED BY <2>2, <2>3, EmptySeq
<1> HIDE DEF u2
<1>5. CASE Told(s, u, d, r, p, "open", q, l, a)
    <2>1. Told(s, u2, <<>>, <<>>, w, "loading", q, l, a)
        BY <1>1, <1>4, <1>5, EmptySeq DEF Told
    <2> QED BY <1>2, <2>1 DEF Stage, w, u2
<1>6. CASE Settled(s, u, d, r, p, "open", q, v, l, a) \/ Reloading(s, u, d, r, p, "open", q, v, l, a)
    <2>1. /\ ~Has(a, PeriodIs(s, 0)) /\ u \in Seq(Plain(s)) /\ LogOf(s, l, q, q)
          /\ q >= 1 => v = PageFor(q)
        BY <1>6 DEF Settled, Reloading
    <2>2. Settled(s, u2, <<>>, <<>>, w, "loading", q, v, l, a)
        BY <1>1, <1>3, <2>1, EmptySeq DEF Settled, Unused, Idle
    <2> QED BY <1>2, <2>2 DEF Stage, w, u2
<1>7. /\ Turning(PeriodIs(s, 0), s) /\ Turning(NextOf(s, q), s) /\ Turning(AskedOf(s, q), s)
      /\ Turning(PeriodIs(s, q), s) /\ Turning(PageIs(s, q), s)
    BY PartsAre DEF Turning, Change
<1>8. CASE Greeted(s, u, d, r, p, "open", q, l, a)
    BY <1>7, <1>8, OneHas DEF Greeted, Unused
<1>9. CASE Leaving(s, u, d, r, p, "open", q, l, a)
    BY <1>7, <1>9, OneHas DEF Leaving, Through
<1>10. CASE Turned(s, u, d, r, p, "open", q, v, l, a)
    BY <1>7, <1>10, OneHas DEF Turned
<1> QED BY <1>5, <1>6, <1>8, <1>9, <1>10 DEF Stage

-----------------------------------------------------------------------------
(* The invariant of the specification                                      *)

\* What is on its way from the admin's page.
FromAdmin ==
    {m \in Routed : \/ m.key = "__resume__"
                    \/ m.key = "resume" /\ m.sender = "admin"
                    \/ \E s \in Subjects : m = PeriodIs(s, 0)}

\* Nobody is told to start twice.
StartsOnce(q) ==
    \A i \in DOMAIN q : \A j \in DOMAIN q : (q[i].key = "__set_period__" /\ q[i] = q[j]) => i = j

TypeInv ==
    /\ log \in Seq(Routed)
    /\ scope \in [Subjects -> [period: Periods, group: {Group}]]
    /\ served \in [Subjects -> {"None", "Wait", "Start", "Finish"}]
    /\ up \in [Subjects \cup {"admin"} -> Seq(Routed)]
    /\ up["admin"] \in Seq(FromAdmin) /\ StartsOnce(up["admin"])
    /\ down \in [Subjects -> Seq(Routed)]
    /\ replay = [s \in Subjects |-> replay[s]]
    /\ conn \in [Subjects -> ConnStates]
    /\ page = [s \in Subjects |-> page[s]]
    /\ admin \in [periods: [Subjects -> Periods \cup {Undefined}], paused: SUBSET Subjects,
                  resumable: BOOLEAN]
    /\ reloads \in 0 .. MaxReloads
    /\ played \in [Subjects -> SUBSET Periods]

(***************************************************************************)
(* s is at one of the stages, with a page that goes with its connection,   *)
(* and h has the periods it has been through and the one it plays.         *)
(***************************************************************************)
Fits(s, u, d, r, p, c, q, v, l, a, h) ==
    /\ Linked(s, d, r, p, c) /\ Stage(s, u, d, r, p, c, q, v, l, a)
    /\ \A k \in 0 .. q - 1 : k \in h
    /\ p.ranAt # Undefined => p.ranAt \in h

IInv ==
    /\ TypeInv
    /\ \A s \in Subjects :
          Fits(s, up[s], down[s], replay[s], page[s], conn[s], scope[s].period, served[s], log,
               up["admin"], played[s])

\* The subjects have numbers (SetToSeq).
LEMMA Numbered ==
    LET f == SetToSeq(Subjects)
    IN  /\ Cardinality(Subjects) \in Nat
        /\ f \in [1 .. Cardinality(Subjects) -> Subjects]
        /\ \A i, j \in 1 .. Cardinality(Subjects) : f[i] = f[j] => i = j
        /\ \A s \in Subjects : \E i \in 1 .. Cardinality(Subjects) : f[i] = s
<1> DEFINE n == Cardinality(Subjects)
           f == SetToSeq(Subjects)
<1>1. IsFiniteSet(Subjects) /\ n \in Nat /\ ExistsBijection(1 .. n, Subjects)
    BY PeriodsAssumption, FS_CardinalityType
<1>2. \E g \in [1 .. n -> Subjects] : IsInjective(g)
    BY <1>1 DEF ExistsBijection, Bijection, Injection
<1>3. f \in [1 .. n -> Subjects] /\ IsInjective(f)
    BY <1>2 DEF SetToSeq
<1>4. f \in Injection(1 .. n, Subjects)
    BY <1>3 DEF Injection
<1>5. Cardinality(1 .. n) = n
    BY <1>1, FS_Interval
<1>6. f \in Surjection(1 .. n, Subjects)
    BY <1>1, <1>4, <1>5, FS_Injection
<1> QED BY <1>1, <1>3, <1>6 DEF IsInjective, Surjection

\* What is on its way from the admin starts every subject once at most.
LEMMA StartsOnceStays ==
    ASSUME NEW q \in Seq(Routed), StartsOnce(q)
    PROVE  /\ q # <<>> => /\ Tail(q) \in Seq(Routed) /\ StartsOnce(Tail(q))
                          /\ Head(q).key = "__set_period__" => ~Has(Tail(q), Head(q))
           /\ \A e \in Seq(Routed) : (\A x : Has(e, x) => x.key # "__set_period__") =>
                 q \o e \in Seq(Routed) /\ StartsOnce(q \o e)
<1>1. ASSUME q # <<>>
      PROVE  /\ Tail(q) \in Seq(Routed) /\ StartsOnce(Tail(q))
             /\ Head(q).key = "__set_period__" => ~Has(Tail(q), Head(q))
    <2>1. /\ Tail(q) \in Seq(Routed) /\ Len(Tail(q)) = Len(q) - 1 /\ Len(q) \in Nat \ {0}
          /\ \A i \in 1 .. Len(Tail(q)) : Tail(q)[i] = q[i + 1]
          /\ Head(q) = q[1] /\ DOMAIN q = 1 .. Len(q)
        BY <1>1, HeadTailProperties, EmptySeq, LenProperties
    <2>2. DOMAIN Tail(q) = 1 .. Len(q) - 1
        BY <2>1, LenProperties
    <2>3. ASSUME NEW i \in DOMAIN Tail(q), NEW j \in DOMAIN Tail(q),
                 Tail(q)[i].key = "__set_period__", Tail(q)[i] = Tail(q)[j]
          PROVE  i = j
        <3>1. /\ i + 1 \in DOMAIN q /\ j + 1 \in DOMAIN q /\ q[i + 1].key = "__set_period__"
              /\ q[i + 1] = q[j + 1]
            BY <2>1, <2>2, <2>3
        <3>2. i + 1 = j + 1
            BY <3>1 DEF StartsOnce
        <3> QED BY <3>2, <2>1, <2>2
    <2>4. ASSUME Head(q).key = "__set_period__", NEW i \in DOMAIN Tail(q), Tail(q)[i] = Head(q) PROVE FALSE
        <3>1. 1 \in DOMAIN q /\ i + 1 \in DOMAIN q /\ q[1].key = "__set_period__" /\ q[1] = q[i + 1]
            BY <2>1, <2>2, <2>4
        <3>2. 1 = i + 1
            BY <3>1 DEF StartsOnce
        <3> QED BY <3>2, <2>1, <2>2
    <2> QED BY <2>1, <2>3, <2>4 DEF StartsOnce, Has
<1>2. ASSUME NEW e \in Seq(Routed), \A x : Has(e, x) => x.key # "__set_period__"
      PROVE  q \o e \in Seq(Routed) /\ StartsOnce(q \o e)
    <2>1. /\ q \o e \in Seq(Routed) /\ Len(q \o e) = Len(q) + Len(e) /\ Len(q) \in Nat /\ Len(e) \in Nat
          /\ \A i \in 1 .. Len(q) + Len(e) :
                (q \o e)[i] = IF i <= Len(q) THEN q[i] ELSE e[i - Len(q)]
          /\ DOMAIN q = 1 .. Len(q) /\ DOMAIN e = 1 .. Len(e)
        BY ConcatProperties, LenProperties
    <2>2. DOMAIN (q \o e) = 1 .. Len(q) + Len(e)
        BY <2>1, LenProperties
    <2>3. ASSUME NEW i \in DOMAIN (q \o e), (q \o e)[i].key = "__set_period__"
          PROVE  i \in DOMAIN q /\ (q \o e)[i] = q[i]
        <3>1. CASE i <= Len(q)
            BY <2>1, <2>2, <3>1
        <3>2. CASE i > Len(q)
            <4>1. i - Len(q) \in DOMAIN e /\ (q \o e)[i] = e[i - Len(q)]
                BY <2>1, <2>2, <3>2
            <4> QED BY <1>2, <2>3, <4>1 DEF Has
        <3> QED BY <3>1, <3>2, <2>1, <2>2
    <2> QED BY <2>1, <2>3 DEF StartsOnce
<1> QED BY <1>1, <1>2

\* What Route makes of a message is one that it handles.
LEMMA TakenRouted ==
    ASSUME NEW m \in Routed
    PROVE  /\ Taken(m) \in Routed /\ Taken(m).key = m.key /\ Taken(m).sender = m.sender
           /\ Taken(m).value = m.value
BY DEF Taken, Routed

\* What the admin sends.
LEMMA FromAdminIs ==
    /\ FromAdmin \subseteq Routed
    /\ \A s \in Subjects : PeriodIs(s, 0) \in FromAdmin
    /\ Message("resume", "admin", 0, 0, FALSE, 0) \in FromAdmin
    /\ \A s \in Subjects : \A k \in Periods \cup {Undefined} :
          Message("__resume__", s, 0, Group, FALSE, k) \in FromAdmin
<1>1. \A s \in Subjects : PeriodIs(s, 0) \in FromAdmin
    BY Basics, MessagesAre DEF FromAdmin
<1>2. Message("resume", "admin", 0, 0, FALSE, 0) \in FromAdmin
    BY Basics DEF FromAdmin, Message, Routed, Group, Change, PlainKeys
<1>3. ASSUME NEW s \in Subjects, NEW k \in Periods \cup {Undefined}
      PROVE  Message("__resume__", s, 0, Group, FALSE, k) \in FromAdmin
    BY Basics DEF FromAdmin, Message, Routed, Group, Change, PlainKeys
<1> QED BY <1>1, <1>2, <1>3 DEF FromAdmin

-----------------------------------------------------------------------------
(* The start                                                               *)

\* The announcements that the session begins with.
LEMMA AnnouncementsAre ==
    ASSUME NEW s \in Subjects
    PROVE  Announced[s] = Announcement(s)
BY Basics DEF Announced, Announcement, OnWire, Message

\* The invariant holds when the session starts.
LEMMA InitFits == Init => IInv
<1> SUFFICES ASSUME Init PROVE IInv
    OBVIOUS
<1> DEFINE n == Cardinality(Subjects)
           f == SetToSeq(Subjects)
<1>1. /\ n \in Nat /\ f \in [1 .. n -> Subjects]
      /\ \A i, j \in 1 .. n : f[i] = f[j] => i = j
      /\ \A s \in Subjects : \E i \in 1 .. n : f[i] = s
    BY Numbered
<1>2. Starts = [i \in 1 .. n |-> PeriodIs(f[i], 0)]
    BY DEF Starts, PeriodIs
<1>3. log = [i \in 1 .. n |-> Announced[f[i]]]
    BY DEF Init
<1> HIDE DEF n, f
<1>4. log = [i \in 1 .. n |-> Announcement(f[i])]
    BY <1>1, <1>3, AnnouncementsAre
<1>5. \A s \in Subjects : Announcement(s) \in Routed /\ Announcement(s) \in Plain(s)
    BY MessagesAre, Basics
<1>6. log \in Seq(Routed) /\ DOMAIN log = 1 .. n
    <2>1. log \in [1 .. n -> Routed]
        BY <1>1, <1>4, <1>5
    <2> QED BY <2>1, <1>1, SeqDef
<1>7. Starts \in Seq(FromAdmin) /\ DOMAIN Starts = 1 .. n
    <2>1. Starts \in [1 .. n -> FromAdmin]
        BY <1>1, <1>2, FromAdminIs
    <2> QED BY <2>1, <1>1, SeqDef
<1>8. StartsOnce(Starts)
    <2>1. ASSUME NEW i \in DOMAIN Starts, NEW j \in DOMAIN Starts, Starts[i] = Starts[j] PROVE i = j
        <3>1. PeriodIs(f[i], 0) = PeriodIs(f[j], 0) /\ i \in 1 .. n /\ j \in 1 .. n
            BY <2>1, <1>7, <1>2
        <3>2. f[i] = f[j]
            BY <3>1, PartsAre
        <3> QED BY <3>1, <3>2, <1>1
    <2> QED BY <2>1 DEF StartsOnce
<1>9. ASSUME NEW s \in Subjects PROVE Has(Starts, PeriodIs(s, 0)) /\ Has(log, Announcement(s))
    <2>1. PICK i \in 1 .. n : f[i] = s
        BY <1>1
    <2> QED BY <1>2, <1>4, <1>6, <1>7, <2>1 DEF Has
<1>10. ASSUME NEW s \in Subjects PROVE log \in Seq(Others(s) \cup {Announcement(s)})
    <2>1. ASSUME NEW x, Has(log, x) PROVE x \in Others(s) \cup {Announcement(s)}
        <3>1. PICK i \in 1 .. n : x = Announcement(f[i])
            BY <2>1, <1>4, <1>6 DEF Has
        <3>2. f[i] \in Subjects /\ x \in Routed /\ x.sender = f[i]
            BY <3>1, <1>1, <1>5 DEF Plain
        <3>3. CASE f[i] = s
            BY <3>1, <3>3
        <3>4. CASE f[i] # s
            BY <3>2, <3>4 DEF Others, Mine
        <3> QED BY <3>3, <3>4
    <2> QED BY <2>1, <1>6, SeqOfElements
<1>11. "admin" \notin Subjects
    BY Basics
<1>12. /\ up["admin"] = Starts /\ \A s \in Subjects : up[s] = <<>>
       /\ \A s \in Subjects : down[s] = <<>> /\ replay[s] = <<>> /\ page[s] = FreshPage("Wait") /\ conn[s] = "open"
       /\ \A s \in Subjects : scope[s].period = 0 /\ served[s] = "None" /\ played[s] = {}
    BY <1>11 DEF Init
<1>13. TypeInv
    <2>1. Starts \in Seq(Routed)
        BY <1>7, FromAdminIs, Wider
    <2>2. up \in [Subjects \cup {"admin"} -> Seq(Routed)]
        BY <2>1, EmptySeq DEF Init
    <2>3. scope \in [Subjects -> [period: Periods, group: {Group}]]
        BY Basics DEF Init
    <2>4. /\ down \in [Subjects -> Seq(Routed)] /\ replay = [s \in Subjects |-> replay[s]]
          /\ page = [s \in Subjects |-> page[s]]
        BY EmptySeq DEF Init
    <2>5. conn \in [Subjects -> ConnStates] /\ served \in [Subjects -> {"None", "Wait", "Start", "Finish"}]
          /\ played \in [Subjects -> SUBSET Periods]
        BY DEF Init, ConnStates
    <2>6. /\ admin \in [periods: [Subjects -> Periods \cup {Undefined}], paused: SUBSET Subjects,
                        resumable: BOOLEAN]
          /\ reloads \in 0 .. MaxReloads
        BY PeriodsAssumption DEF Init
    <2> QED BY <1>6, <1>7, <1>8, <1>12, <2>1, <2>2, <2>3, <2>4, <2>5, <2>6 DEF TypeInv
<1>14. ASSUME NEW s \in Subjects
       PROVE  Fits(s, up[s], down[s], replay[s], page[s], conn[s], scope[s].period, served[s], log,
                   up["admin"], played[s])
    <2> DEFINE p == FreshPage("Wait")
    <2>1. /\ p \in PageOf(s) /\ p.name = "Wait" /\ p.out = <<>> /\ p.sync = FALSE /\ ~p.reloading
          /\ p.period = Undefined /\ p.periods[s] = Undefined /\ Unused(p, s) /\ p.ranAt = Undefined
          /\ p.deferred = {}
        BY FreshIs DEF PageNames, Unused, Idle
    <2> HIDE DEF p
    <2>2. Linked(s, <<>>, <<>>, p, "open")
        BY <2>1 DEF Linked
    <2>3. Told(s, <<>>, <<>>, <<>>, p, "open", 0, log, Starts)
        BY <2>1, <1>9, <1>10, EmptySeq DEF Told
    <2>4. Fits(s, <<>>, <<>>, <<>>, p, "open", 0, "None", log, Starts, {})
        BY <2>1, <2>2, <2>3 DEF Fits, Stage
    <2> QED BY <2>4, <1>12 DEF p
<1> QED BY <1>13, <1>14 DEF IInv

-----------------------------------------------------------------------------
(* The steps of Route                                                      *)

\* Route handles what s has sent, what another has, and that s is to start.
LEMMA OwnFits ==
    ASSUME NEW s \in Subjects, NEW u, NEW d, NEW r, NEW p, NEW c, NEW q \in Periods, NEW v, NEW l, NEW a, NEW h,
           Fits(s, u, d, r, p, c, q, v, l, a, h),
           NEW m, NEW q2, NEW v2, Takes(u, q, v, m, q2, v2), NEW sc, sc[s].period = q2
    PROVE  LET l2 == Adding(l, m, sc)
           IN  /\ Fits(s, Tail(u), Reached(s, d, m, c, sc, l2), r, p, c, q2, v2, l2, a, h)
               /\ q2 \in Periods /\ q2 >= q /\ Head(u) \in Sent(s)
<1> DEFINE l2 == Adding(l, m, sc)
           d2 == Reached(s, d, m, c, sc, l2)
<1>1. Stage(s, u, d, r, p, c, q, v, l, a) /\ Linked(s, d, r, p, c)
    BY DEF Fits
<1>2. /\ Stage(s, Tail(u), d2, r, p, c, q2, v2, l2, a)
      /\ q2 \in Periods /\ (q2 = q \/ (q2 = q + 1 /\ p.ranAt = q))
      /\ Head(u) \in Sent(s)
    BY <1>1, OwnHandled
<1>3. Linked(s, d2, r, p, c)
    BY <1>1, LinkedReaches, ReachedReaches
<1> HIDE DEF d2
<1>4. q \in Nat /\ Undefined # q
    BY Basics
<1>5. ASSUME NEW k \in 0 .. q2 - 1 PROVE k \in h
    <2>1. k \in 0 .. q - 1 \/ (k = q /\ p.ranAt = q)
        BY <1>2, <1>4, <1>5
    <2> QED BY <1>4, <2>1 DEF Fits
<1>6. p.ranAt # Undefined => p.ranAt \in h
    BY DEF Fits
<1>7. q2 >= q
    BY <1>2, <1>4
<1> QED BY <1>2, <1>3, <1>5, <1>6, <1>7 DEF Fits, d2

\* What Route handles of others, or of the admin, keeps s where it is.
LEMMA OtherFits ==
    ASSUME NEW s \in Subjects, NEW u, NEW d, NEW r, NEW p, NEW c, NEW q \in Periods, NEW v, NEW l, NEW a, NEW h,
           Fits(s, u, d, r, p, c, q, v, l, a, h),
           NEW m \in Others(s), NEW sc, sc[s].period = q,
           NEW a2, Has(a2, PeriodIs(s, 0)) <=> Has(a, PeriodIs(s, 0))
    PROVE  LET l2 == Adding(l, m, sc)
           IN  Fits(s, u, Reached(s, d, m, c, sc, l2), r, p, c, q, v, l2, a2, h)
<1> DEFINE l2 == Adding(l, m, sc)
           d2 == Reached(s, d, m, c, sc, l2)
<1>1. Stage(s, u, d, r, p, c, q, v, l, a) /\ Linked(s, d, r, p, c)
    BY DEF Fits
<1>2. d2 \in Reaches(d, m, c)
    BY ReachedReaches
<1> HIDE DEF d2
<1>3. Stage(s, u, d2, r, p, c, q, v, l2, a2)
    BY <1>1, <1>2, OthersStay
<1>4. Linked(s, d2, r, p, c)
    BY <1>1, <1>2, LinkedReaches
<1> QED BY <1>3, <1>4 DEF Fits, d2

\* Route handles the start of s: its first period is on its way.
LEMMA StartFits ==
    ASSUME NEW s \in Subjects, NEW u, NEW d, NEW r, NEW p, NEW c \in ConnStates, NEW q \in Periods,
           NEW v, NEW l, NEW a, NEW h, Fits(s, u, d, r, p, c, q, v, l, a, h),
           Has(a, PeriodIs(s, 0)), NEW a2, ~Has(a2, PeriodIs(s, 0)), NEW sc, sc[s].period = 0
    PROVE  LET m == PeriodIs(s, 0)
               l2 == Adding(l, m, sc)
           IN  q = 0 /\ Fits(s, u, Reached(s, d, m, c, sc, l2), r, p, c, q, v, l2, a2, h)
<1> DEFINE m == PeriodIs(s, 0)
           l2 == Adding(l, m, sc)
           d2 == Reached(s, d, m, c, sc, l2)
<1>1. Stage(s, u, d, r, p, c, q, v, l, a) /\ Linked(s, d, r, p, c)
    BY DEF Fits
<1>2. q = 0 /\ Stage(s, u, d2, r, p, c, q, v, l2, a2)
    BY <1>1, StartIsHandled
<1>3. Linked(s, d2, r, p, c)
    BY <1>1, LinkedReaches, ReachedReaches
<1> QED BY <1>2, <1>3 DEF Fits

(***************************************************************************)
(* What Route handles of n reaches the pages: the log and what is on its   *)
(* way to them.                                                            *)
(***************************************************************************)
LEMMA HandleTypes ==
    ASSUME TypeInv, NEW n \in Subjects \cup {"admin"}, Handle(n)
    PROVE  LET m == Taken(Head(up[n]))
           IN  /\ up[n] # <<>> /\ Head(up[n]) \in Routed /\ Tail(up[n]) \in Seq(Routed) /\ m \in Routed
               /\ scope' = IF m.key = "__set_period__" THEN [scope EXCEPT ![m.sender].period = m.value]
                                                      ELSE scope
               /\ log' = Adding(log, m, scope')
               /\ served' = IF m.key = "__set_page__" THEN [served EXCEPT ![m.sender] = PageFor(m.value)]
                                                     ELSE served
               /\ down' = [s \in Subjects |-> Reached(s, down[s], m, conn[s], scope', log')]
               /\ admin' = AdminState(m)
               /\ m.key # "resume" => up' = [up EXCEPT ![n] = Tail(@)]
               /\ m.key = "resume" => up' = [[up EXCEPT ![n] = Tail(@)] EXCEPT !["admin"] = @ \o Resumes]
               /\ UNCHANGED <<replay, browsers, reloads>>
<1> DEFINE sent == Head(up[n])
           m == Taken(sent)
<1>1. up[n] # <<>> /\ up[n] \in Seq(Routed)
    BY DEF TypeInv, Handle
<1>2. sent \in Routed /\ Tail(up[n]) \in Seq(Routed)
    BY <1>1, HeadTailProperties
<1>3. m \in Routed /\ m.key = sent.key /\ m.sender = sent.sender /\ m.value = sent.value
    BY <1>2, TakenRouted
<1> DEFINE sc == IF sent.key = "__set_period__" THEN [scope EXCEPT ![m.sender].period = m.value] ELSE scope
<1>5. /\ scope' = sc /\ log' = Logged(m, sc)
      /\ served' = IF m.key = "__set_page__" THEN [served EXCEPT ![m.sender] = PageFor(m.value)] ELSE served
      /\ down' = [s \in Subjects |->
             IF conn[s] \in {"registered", "open"} /\ Gets(s, sc, Logged(m, sc), m)
             THEN Append(down[s], m) ELSE down[s]]
      /\ admin' = AdminState(m)
      /\ up' = IF m.key = "resume" THEN [[up EXCEPT ![n] = Tail(@)] EXCEPT !["admin"] = @ \o Resumes]
                                   ELSE [up EXCEPT ![n] = Tail(@)]
      /\ UNCHANGED <<replay, browsers, reloads>>
    BY DEF Handle, Taken
<1> HIDE DEF sent, m, sc
<1>6. /\ scope' = IF m.key = "__set_period__" THEN [scope EXCEPT ![m.sender].period = m.value] ELSE scope
      /\ log' = Adding(log, m, sc)
    BY <1>3, <1>5, LoggedIsAdding DEF sc
<1>7. down' = [s \in Subjects |-> Reached(s, down[s], m, conn[s], sc, Logged(m, sc))]
    BY <1>5 DEF Reached
<1> QED BY <1>1, <1>2, <1>3, <1>5, <1>6, <1>7 DEF sent, m

\* ra.resume sends resumes.
LEMMA ResumesAre ==
    ASSUME TypeInv
    PROVE  /\ Resumes \in Seq(FromAdmin)
           /\ \A x : Has(Resumes, x) => x.key = "__resume__"
<1> DEFINE n == Cardinality(Subjects)
           f == SetToSeq(Subjects)
<1>1. n \in Nat /\ f \in [1 .. n -> Subjects]
    BY Numbered
<1>2. Resumes = [i \in 1 .. n |-> Message("__resume__", f[i], 0, Group, FALSE, admin.periods[f[i]])]
    BY DEF Resumes
<1> HIDE DEF n, f
<1>3. \A i \in 1 .. n : f[i] \in Subjects /\ admin.periods[f[i]] \in Periods \cup {Undefined}
    BY <1>1 DEF TypeInv
<1>4. \A i \in 1 .. n : Resumes[i] \in FromAdmin /\ Resumes[i].key = "__resume__"
    BY <1>2, <1>3, FromAdminIs DEF Message
<1>5. Resumes \in [1 .. n -> FromAdmin]
    BY <1>2, <1>4
<1>6. Resumes \in Seq(FromAdmin) /\ DOMAIN Resumes = 1 .. n
    BY <1>1, <1>5, SeqDef
<1> QED BY <1>4, <1>6 DEF Has

\* The admin's page stays a page of the admin.
LEMMA AdminTypes ==
    ASSUME TypeInv, NEW m \in Routed
    PROVE  AdminState(m) \in [periods: [Subjects -> Periods \cup {Undefined}], paused: SUBSET Subjects,
                              resumable: BOOLEAN]
<1> DEFINE T == [periods: [Subjects -> Periods \cup {Undefined}], paused: SUBSET Subjects,
                 resumable: BOOLEAN]
<1>1. admin \in T
    BY DEF TypeInv
<1>2. CASE m.key = "__set_period__"
    <2>1. m.sender \in Subjects /\ m.value \in Periods
        BY <1>2 DEF Routed
    <2> QED BY <1>1, <1>2, <2>1 DEF AdminState
<1>3. CASE m.key = "__paused__"
    <2> DEFINE paused == admin.paused \cup {m.sender}
               able == admin.resumable \/ paused = Subjects
    <2>1. paused \in SUBSET Subjects /\ able \in BOOLEAN
        BY <1>1, <1>3 DEF Routed
    <2>2. AdminState(m) = [admin EXCEPT !.paused = paused, !.resumable = able]
        BY <1>3 DEF AdminState
    <2> QED BY <1>1, <2>1, <2>2
<1>4. CASE m.key \notin {"__set_period__", "__paused__"}
    BY <1>1, <1>4 DEF AdminState
<1> QED BY <1>2, <1>3, <1>4

\* Route keeps the types.
LEMMA RouterTypes ==
    ASSUME TypeInv, NEW n \in Subjects \cup {"admin"}, Handle(n)
    PROVE  TypeInv'
<1> DEFINE m == Taken(Head(up[n]))
           handled == [up EXCEPT ![n] = Tail(@)]
<1>1. /\ up[n] # <<>> /\ Head(up[n]) \in Routed /\ Tail(up[n]) \in Seq(Routed) /\ m \in Routed
      /\ scope' = IF m.key = "__set_period__" THEN [scope EXCEPT ![m.sender].period = m.value] ELSE scope
      /\ log' = Adding(log, m, scope')
      /\ served' = IF m.key = "__set_page__" THEN [served EXCEPT ![m.sender] = PageFor(m.value)] ELSE served
      /\ down' = [s \in Subjects |-> Reached(s, down[s], m, conn[s], scope', log')]
      /\ admin' = AdminState(m)
      /\ m.key # "resume" => up' = handled
      /\ m.key = "resume" => up' = [handled EXCEPT !["admin"] = @ \o Resumes]
      /\ UNCHANGED <<replay, browsers, reloads>>
    BY HandleTypes
<1> HIDE DEF m
<1>2. log' \in Seq(Routed)
    BY <1>1, AddingIs DEF TypeInv
<1>3. scope' \in [Subjects -> [period: Periods, group: {Group}]]
    <2>1. CASE m.key = "__set_period__"
        <3>1. m.sender \in Subjects /\ m.value \in Periods
            BY <1>1, <2>1 DEF Routed
        <3>2. scope[m.sender] \in [period: Periods, group: {Group}]
            BY <3>1 DEF TypeInv
        <3>3. [scope[m.sender] EXCEPT !.period = m.value] \in [period: Periods, group: {Group}]
            BY <3>1, <3>2
        <3>4. scope' = [scope EXCEPT ![m.sender] = [scope[m.sender] EXCEPT !.period = m.value]]
            BY <1>1, <2>1
        <3> QED BY <3>1, <3>3, <3>4 DEF TypeInv
    <2> QED BY <1>1, <2>1 DEF TypeInv
<1>4. served' \in [Subjects -> {"None", "Wait", "Start", "Finish"}]
    BY <1>1 DEF TypeInv, PageFor
<1>5. down' \in [Subjects -> Seq(Routed)]
    <2>1. ASSUME NEW s \in Subjects PROVE Reached(s, down[s], m, conn[s], scope', log') \in Seq(Routed)
        <3>1. down[s] \in Seq(Routed) /\ Append(down[s], m) \in Seq(Routed)
            BY <1>1, AppendProperties DEF TypeInv
        <3> QED BY <3>1 DEF Reached
    <2> QED BY <1>1, <2>1
<1>6. admin' \in [periods: [Subjects -> Periods \cup {Undefined}], paused: SUBSET Subjects, resumable: BOOLEAN]
    BY <1>1, AdminTypes
<1> DEFINE a == handled["admin"]
<1>7. handled \in [Subjects \cup {"admin"} -> Seq(Routed)] /\ a \in Seq(FromAdmin) /\ StartsOnce(a)
    <2>1. CASE n = "admin"
        <3>1. a = Tail(up["admin"]) /\ up["admin"] # <<>>
            BY <1>1, <2>1 DEF TypeInv
        <3>2. a \in Seq(FromAdmin)
            BY <3>1, HeadTailProperties DEF TypeInv
        <3> QED BY <1>1, <3>1, <3>2, StartsOnceStays DEF TypeInv
    <2>2. CASE n # "admin"
        BY <1>1, <2>2 DEF TypeInv
    <2> QED BY <2>1, <2>2
<1> HIDE DEF handled
<1>8. /\ up' \in [Subjects \cup {"admin"} -> Seq(Routed)]
      /\ up'["admin"] \in Seq(FromAdmin) /\ StartsOnce(up'["admin"])
    <2>1. CASE m.key = "resume"
        <3>1. /\ a \o Resumes \in Seq(FromAdmin) /\ a \in Seq(Routed)
              /\ Resumes \in Seq(Routed) /\ \A x : Has(Resumes, x) => x.key # "__set_period__"
            BY <1>7, ResumesAre, FromAdminIs, Wider, ConcatProperties
        <3>2. a \o Resumes \in Seq(Routed) /\ StartsOnce(a \o Resumes)
            BY <1>7, <3>1, StartsOnceStays
        <3> QED BY <1>1, <1>7, <2>1, <3>1, <3>2
    <2> QED BY <1>1, <1>7, <2>1
<1>9. replay' = [s \in Subjects |-> replay'[s]] /\ page' = [s \in Subjects |-> page'[s]]
    BY <1>1 DEF TypeInv, browsers
<1>10. /\ conn' \in [Subjects -> ConnStates] /\ reloads' \in 0 .. MaxReloads
       /\ played' \in [Subjects -> SUBSET Periods]
    BY <1>1 DEF TypeInv, browsers
<1> QED BY <1>2, <1>3, <1>4, <1>5, <1>6, <1>8, <1>9, <1>10 DEF TypeInv

(***************************************************************************)
(* Route handles a message of a subject: all subjects fit, and no period   *)
(* goes down.                                                              *)
(***************************************************************************)
LEMMA SubjectIsHandled ==
    ASSUME IInv, NEW n \in Subjects, Handle(n)
    PROVE  \A s \in Subjects :
              /\ Fits(s, up'[s], down'[s], replay'[s], page'[s], conn'[s], scope'[s].period, served'[s], log',
                      up'["admin"], played'[s])
              /\ scope'[s].period >= scope[s].period
<1> DEFINE m == Taken(Head(up[n]))
           q2 == IF m.key = "__set_period__" THEN m.value ELSE scope[n].period
           v2 == IF m.key = "__set_page__" THEN PageFor(m.value) ELSE served[n]
           sn == [scope EXCEPT ![n].period = q2]
<1>1. /\ up[n] # <<>> /\ Head(up[n]) \in Routed /\ Tail(up[n]) \in Seq(Routed) /\ m \in Routed
      /\ scope' = IF m.key = "__set_period__" THEN [scope EXCEPT ![m.sender].period = m.value] ELSE scope
      /\ log' = Adding(log, m, scope')
      /\ served' = IF m.key = "__set_page__" THEN [served EXCEPT ![m.sender] = PageFor(m.value)] ELSE served
      /\ down' = [s \in Subjects |-> Reached(s, down[s], m, conn[s], scope', log')]
      /\ m.key # "resume" => up' = [up EXCEPT ![n] = Tail(@)]
      /\ UNCHANGED <<replay, browsers, reloads>>
    BY HandleTypes DEF IInv
<1>2. /\ scope \in [Subjects -> [period: Periods, group: {Group}]]
      /\ served \in [Subjects -> {"None", "Wait", "Start", "Finish"}]
      /\ up \in [Subjects \cup {"admin"} -> Seq(Routed)]
      /\ "admin" \notin Subjects
    BY Basics DEF IInv, TypeInv
<1>3. \A s \in Subjects :
         /\ scope[s].period \in Periods
         /\ Fits(s, up[s], down[s], replay[s], page[s], conn[s], scope[s].period, served[s], log,
                 up["admin"], played[s])
    BY <1>2 DEF IInv
<1>4. sn[n].period = q2
    BY <1>2
<1>5. Takes(up[n], scope[n].period, served[n], m, q2, v2) /\ m = Taken(Head(up[n]))
    BY <1>1 DEF Takes
<1>6. /\ m.key = "__set_period__" => q2 = m.value
      /\ m.key # "__set_period__" => q2 = scope[n].period
      /\ v2 = IF m.key = "__set_page__" THEN PageFor(m.value) ELSE served[n]
    OBVIOUS
<1> HIDE DEF m, q2, v2, sn
<1>7. Head(up[n]) \in Sent(n) /\ q2 >= scope[n].period
    BY <1>3, <1>4, <1>5, OwnFits
<1>8. m.sender = n /\ m.key # "resume"
    BY <1>1, <1>5, <1>7, TakenRouted DEF Sent, Change, PlainKeys
<1>9. scope'[n].period = q2 /\ served'[n] = v2
    BY <1>1, <1>2, <1>6, <1>8
<1>10. \A t \in Subjects \ {n} : scope'[t] = scope[t] /\ served'[t] = served[t] /\ up'[t] = up[t]
    BY <1>1, <1>2, <1>8
<1>11. up'[n] = Tail(up[n]) /\ up'["admin"] = up["admin"]
    BY <1>1, <1>2, <1>8
<1>12. \A s \in Subjects : /\ down'[s] = Reached(s, down[s], m, conn[s], scope', log')
                           /\ replay'[s] = replay[s] /\ page'[s] = page[s] /\ conn'[s] = conn[s]
                           /\ played'[s] = played[s]
    BY <1>1 DEF browsers
<1>13. Fits(n, up'[n], down'[n], replay'[n], page'[n], conn'[n], scope'[n].period, served'[n], log',
            up'["admin"], played'[n])
    <2>1. Fits(n, Tail(up[n]), Reached(n, down[n], m, conn[n], scope', Adding(log, m, scope')), replay[n],
               page[n], conn[n], q2, v2, Adding(log, m, scope'), up["admin"], played[n])
        BY <1>3, <1>5, <1>9, OwnFits
    <2> QED BY <2>1, <1>1, <1>9, <1>11, <1>12
<1>14. ASSUME NEW t \in Subjects \ {n}
       PROVE  Fits(t, up'[t], down'[t], replay'[t], page'[t], conn'[t], scope'[t].period, served'[t], log',
                   up'["admin"], played'[t])
    <2>1. m \in Others(t)
        BY <1>1, <1>8 DEF Others, Mine
    <2>2. Fits(t, up[t], Reached(t, down[t], m, conn[t], scope', Adding(log, m, scope')), replay[t],
               page[t], conn[t], scope[t].period, served[t], Adding(log, m, scope'), up["admin"], played[t])
        BY <1>3, <1>10, <2>1, OtherFits
    <2> QED BY <2>2, <1>1, <1>10, <1>11, <1>12
<1>15. \A s \in Subjects : scope'[s].period >= scope[s].period
    <2>1. scope'[n].period >= scope[n].period
        BY <1>7, <1>9
    <2>2. ASSUME NEW t \in Subjects \ {n} PROVE scope'[t].period >= scope[t].period
        <3>1. scope[t].period \in Nat
            BY <1>3, Basics
        <3> QED BY <1>10, <3>1
    <2> QED BY <2>1, <2>2
<1> QED BY <1>13, <1>14, <1>15

\* Route handles a message of the admin: the same.
LEMMA AdminIsHandled ==
    ASSUME IInv, Handle("admin")
    PROVE  \A s \in Subjects :
              /\ Fits(s, up'[s], down'[s], replay'[s], page'[s], conn'[s], scope'[s].period, served'[s], log',
                      up'["admin"], played'[s])
              /\ scope'[s].period >= scope[s].period
<1> DEFINE x == Head(up["admin"])
           a == up["admin"]
<1>1. /\ a # <<>> /\ a \in Seq(FromAdmin) /\ StartsOnce(a) /\ a \in Seq(Routed)
      /\ x \in Routed /\ Tail(a) \in Seq(Routed)
    BY HandleTypes, FromAdminIs, Wider DEF IInv, TypeInv
<1>2. x \in FromAdmin
    BY <1>1, HeadTailProperties
<1>3. /\ scope \in [Subjects -> [period: Periods, group: {Group}]]
      /\ up \in [Subjects \cup {"admin"} -> Seq(Routed)]
      /\ conn \in [Subjects -> ConnStates]
      /\ "admin" \notin Subjects
    BY Basics DEF IInv, TypeInv
<1>4. \A s \in Subjects :
         /\ scope[s].period \in Periods
         /\ Fits(s, up[s], down[s], replay[s], page[s], conn[s], scope[s].period, served[s], log, a, played[s])
    BY <1>3 DEF IInv
<1>5. \A s \in Subjects : PeriodIs(s, 0).key = "__set_period__" /\ PeriodIs(s, 0).sender = s /\ PeriodIs(s, 0).value = 0
    BY PartsAre DEF PeriodIs, Message
<1>6. Taken(x) = x
    <2>1. \A s \in Subjects : Taken(PeriodIs(s, 0)) = PeriodIs(s, 0)
        BY TakenIs, Basics
    <2>2. x.key # "__set_period__" => Taken(x) = x
        BY <1>1, TakenRouted DEF Taken, Routed
    <2> QED BY <1>2, <2>1, <2>2 DEF FromAdmin
<1>7. /\ scope' = IF x.key = "__set_period__" THEN [scope EXCEPT ![x.sender].period = x.value] ELSE scope
      /\ log' = Adding(log, x, scope')
      /\ served' = IF x.key = "__set_page__" THEN [served EXCEPT ![x.sender] = PageFor(x.value)] ELSE served
      /\ down' = [s \in Subjects |-> Reached(s, down[s], x, conn[s], scope', log')]
      /\ x.key # "resume" => up' = [up EXCEPT !["admin"] = Tail(@)]
      /\ x.key = "resume" => up' = [[up EXCEPT !["admin"] = Tail(@)] EXCEPT !["admin"] = @ \o Resumes]
      /\ UNCHANGED <<replay, browsers, reloads>>
    BY <1>6, HandleTypes DEF IInv
<1>8. /\ \A s \in Subjects : /\ down'[s] = Reached(s, down[s], x, conn[s], scope', log')
                             /\ replay'[s] = replay[s] /\ page'[s] = page[s] /\ conn'[s] = conn[s]
                             /\ played'[s] = played[s] /\ up'[s] = up[s]
      /\ up'["admin"] = Tail(a) \/ (x.key = "resume" /\ up'["admin"] = Tail(a) \o Resumes)
    BY <1>3, <1>7 DEF browsers
<1>9. served' = served
    BY <1>2, <1>5, <1>7 DEF FromAdmin
<1>10. ASSUME NEW s \in Subjects, x # PeriodIs(s, 0)
       PROVE  Has(up'["admin"], PeriodIs(s, 0)) <=> Has(a, PeriodIs(s, 0))
    <2>1. Has(Tail(a), PeriodIs(s, 0)) <=> Has(a, PeriodIs(s, 0))
        BY <1>1, <1>10, HasHeadTail
    <2>2. Resumes \in Seq(Routed) /\ ~Has(Resumes, PeriodIs(s, 0))
        BY <1>5, ResumesAre, FromAdminIs, Wider DEF IInv
    <2>3. Has(Tail(a) \o Resumes, PeriodIs(s, 0)) <=> Has(Tail(a), PeriodIs(s, 0))
        BY <1>1, <2>2, HasConcat
    <2> QED BY <1>8, <2>1, <2>3
<1> HIDE DEF x, a
<1>11. ASSUME NEW s \in Subjects, x \in Others(s), x # PeriodIs(s, 0), scope'[s].period = scope[s].period
       PROVE  Fits(s, up'[s], down'[s], replay'[s], page'[s], conn'[s], scope'[s].period, served'[s], log',
                   up'["admin"], played'[s])
    <2>1. Fits(s, up[s], Reached(s, down[s], x, conn[s], scope', Adding(log, x, scope')), replay[s],
               page[s], conn[s], scope[s].period, served[s], Adding(log, x, scope'), up'["admin"], played[s])
        BY <1>4, <1>10, <1>11, OtherFits
    <2> QED BY <2>1, <1>7, <1>8, <1>9, <1>11
<1>12. CASE x.key = "__resume__" \/ (x.key = "resume" /\ x.sender = "admin")
    <2>1. ASSUME NEW s \in Subjects PROVE x \in Others(s) /\ x # PeriodIs(s, 0)
        BY <1>1, <1>3, <1>5, <1>12 DEF Others, Mine, x, a
    <2>2. scope' = scope
        BY <1>7, <1>12
    <2>3. \A s \in Subjects : scope'[s].period >= scope[s].period
        <3>1. \A s \in Subjects : scope[s].period \in Nat
            BY <1>4, Basics
        <3> QED BY <2>2, <3>1
    <2> QED BY <1>11, <2>1, <2>2, <2>3
<1>13. ASSUME NEW t \in Subjects, x = PeriodIs(t, 0)
       PROVE  \A s \in Subjects :
                 /\ Fits(s, up'[s], down'[s], replay'[s], page'[s], conn'[s], scope'[s].period, served'[s], log',
                         up'["admin"], played'[s])
                 /\ scope'[s].period >= scope[s].period
    <2>1. x.key = "__set_period__" /\ x.sender = t /\ x.value = 0 /\ up'["admin"] = Tail(a)
        BY <1>5, <1>8, <1>13
    <2>2. scope'[t].period = 0 /\ \A s \in Subjects \ {t} : scope'[s] = scope[s]
        BY <1>3, <1>7, <2>1
    <2>3. Has(a, PeriodIs(t, 0)) /\ ~Has(Tail(a), PeriodIs(t, 0))
        <3>1. Has(a, Head(a))
            BY <1>1, HasHeadTail
        <3>2. Head(a).key = "__set_period__" => ~Has(Tail(a), Head(a))
            BY <1>1, StartsOnceStays
        <3>3. Head(a) = PeriodIs(t, 0) /\ Head(a).key = "__set_period__"
            BY <1>13, <2>1 DEF x, a
        <3> QED BY <3>1, <3>2, <3>3
    <2>4. conn[t] \in ConnStates
        BY <1>3
    <2>5. /\ scope[t].period = 0
          /\ Fits(t, up[t], Reached(t, down[t], x, conn[t], scope', Adding(log, x, scope')), replay[t],
                  page[t], conn[t], scope[t].period, served[t], Adding(log, x, scope'), Tail(a), played[t])
        <3> DEFINE z == PeriodIs(t, 0)
        <3>1. /\ scope[t].period = 0
              /\ Fits(t, up[t], Reached(t, down[t], z, conn[t], scope', Adding(log, z, scope')), replay[t],
                      page[t], conn[t], scope[t].period, served[t], Adding(log, z, scope'), Tail(a), played[t])
            BY <1>4, <2>2, <2>3, <2>4, StartFits
        <3> QED BY <3>1, <1>13
    <2>6. Fits(t, up'[t], down'[t], replay'[t], page'[t], conn'[t], scope'[t].period, served'[t], log',
               up'["admin"], played'[t])
        BY <2>1, <2>2, <2>5, <1>7, <1>8, <1>9
    <2>7. ASSUME NEW s \in Subjects \ {t} PROVE x \in Others(s) /\ x # PeriodIs(s, 0)
        BY <1>1, <1>5, <2>1 DEF Others, Mine, x
    <2>8. \A s \in Subjects \ {t} :
             Fits(s, up'[s], down'[s], replay'[s], page'[s], conn'[s], scope'[s].period, served'[s], log',
                  up'["admin"], played'[s])
        BY <1>11, <2>2, <2>7
    <2>9. \A s \in Subjects : scope'[s].period >= scope[s].period
        <3>1. \A s \in Subjects : scope[s].period \in Nat
            BY <1>4, Basics
        <3> QED BY <2>2, <2>5, <3>1
    <2> QED BY <2>6, <2>8, <2>9
<1> QED BY <1>2, <1>12, <1>13 DEF FromAdmin, x, a

\* Route keeps the invariant.
LEMMA HandleStays ==
    ASSUME IInv, NEW n \in Subjects \cup {"admin"}, Handle(n)
    PROVE  IInv'
<1>1. TypeInv'
    BY RouterTypes DEF IInv
<1>2. \A s \in Subjects :
         Fits(s, up'[s], down'[s], replay'[s], page'[s], conn'[s], scope'[s].period, served'[s], log',
              up'["admin"], played'[s])
    BY SubjectIsHandled, AdminIsHandled
<1> QED BY <1>1, <1>2 DEF IInv

-----------------------------------------------------------------------------
(* The steps of the browsers                                               *)

(***************************************************************************)
(* A step of the browser of s keeps the invariant when s fits afterwards.  *)
(***************************************************************************)
LEMMA BrowserStays ==
    ASSUME IInv, NEW s \in Subjects, UNCHANGED <<router, admin>>, reloads' \in 0 .. MaxReloads,
           NEW u, NEW d, NEW r, NEW p, NEW c \in ConnStates, NEW h \in SUBSET Periods,
           Fits(s, u, d, r, p, c, scope[s].period, served[s], log, up["admin"], h),
           up' = [up EXCEPT ![s] = u], down' = [down EXCEPT ![s] = d], replay' = [replay EXCEPT ![s] = r],
           page' = [page EXCEPT ![s] = p], conn' = [conn EXCEPT ![s] = c], played' = [played EXCEPT ![s] = h]
    PROVE  IInv'
<1>1. /\ log' = log /\ scope' = scope /\ served' = served /\ admin' = admin
    BY DEF router
<1>2. TypeInv /\ "admin" \notin Subjects
    BY Basics DEF IInv
<1>3. u \in Seq(Routed) /\ d \in Seq(Routed)
    <2>1. scope[s].period \in Periods
        BY <1>2 DEF TypeInv
    <2>2. Stage(s, u, d, r, p, c, scope[s].period, served[s], log, up["admin"])
        BY DEF Fits
    <2> QED BY <2>1, <2>2, StageSends
<1>4. TypeInv'
    <2>1. up' \in [Subjects \cup {"admin"} -> Seq(Routed)] /\ up'["admin"] = up["admin"]
        BY <1>2, <1>3 DEF TypeInv
    <2>2. down' \in [Subjects -> Seq(Routed)]
        BY <1>2, <1>3 DEF TypeInv
    <2>3. replay' = [t \in Subjects |-> replay'[t]] /\ page' = [t \in Subjects |-> page'[t]]
        BY <1>2 DEF TypeInv
    <2>4. conn' \in [Subjects -> ConnStates] /\ played' \in [Subjects -> SUBSET Periods]
        BY <1>2 DEF TypeInv
    <2> QED BY <1>1, <1>2, <2>1, <2>2, <2>3, <2>4 DEF TypeInv
<1>5. /\ up'[s] = u /\ down'[s] = d /\ replay'[s] = r /\ page'[s] = p /\ conn'[s] = c /\ played'[s] = h
      /\ up'["admin"] = up["admin"]
      /\ \A t \in Subjects \ {s} : /\ up'[t] = up[t] /\ down'[t] = down[t] /\ replay'[t] = replay[t]
                                   /\ page'[t] = page[t] /\ conn'[t] = conn[t] /\ played'[t] = played[t]
    BY <1>2 DEF TypeInv
<1>6. Fits(s, up'[s], down'[s], replay'[s], page'[s], conn'[s], scope'[s].period, served'[s], log',
           up'["admin"], played'[s])
    BY <1>1, <1>5
<1>7. ASSUME NEW t \in Subjects \ {s}
      PROVE  Fits(t, up'[t], down'[t], replay'[t], page'[t], conn'[t], scope'[t].period, served'[t], log',
                  up'["admin"], played'[t])
    BY <1>1, <1>5 DEF IInv
<1> QED BY <1>4, <1>6, <1>7 DEF IInv

\* What s has in the invariant.
LEMMA SubjectFits ==
    ASSUME IInv, NEW s \in Subjects
    PROVE  /\ scope[s].period \in Periods /\ conn[s] \in ConnStates /\ played[s] \in SUBSET Periods
           /\ served[s] \in {"None", "Wait", "Start", "Finish"}
           /\ Linked(s, down[s], replay[s], page[s], conn[s])
           /\ Stage(s, up[s], down[s], replay[s], page[s], conn[s], scope[s].period, served[s], log, up["admin"])
           /\ \A k \in 0 .. scope[s].period - 1 : k \in played[s]
           /\ page[s].ranAt # Undefined => page[s].ranAt \in played[s]
           /\ reloads \in 0 .. MaxReloads
           /\ [up EXCEPT ![s] = up[s]] = up /\ [down EXCEPT ![s] = down[s]] = down
           /\ [replay EXCEPT ![s] = replay[s]] = replay /\ [page EXCEPT ![s] = page[s]] = page
           /\ [conn EXCEPT ![s] = conn[s]] = conn /\ [played EXCEPT ![s] = played[s]] = played
<1>1. TypeInv
    BY DEF IInv
<1>2. /\ scope[s].period \in Periods /\ conn[s] \in ConnStates /\ played[s] \in SUBSET Periods
      /\ served[s] \in {"None", "Wait", "Start", "Finish"} /\ reloads \in 0 .. MaxReloads
    BY <1>1 DEF TypeInv
<1>3. [up EXCEPT ![s] = up[s]] = up /\ [down EXCEPT ![s] = down[s]] = down
    BY <1>1 DEF TypeInv
<1>4. [replay EXCEPT ![s] = replay[s]] = replay /\ [page EXCEPT ![s] = page[s]] = page
    BY <1>1 DEF TypeInv
<1>5. [conn EXCEPT ![s] = conn[s]] = conn /\ [played EXCEPT ![s] = played[s]] = played
    BY <1>1 DEF TypeInv
<1>6. Fits(s, up[s], down[s], replay[s], page[s], conn[s], scope[s].period, served[s], log,
           up["admin"], played[s])
    BY DEF IInv
<1> QED BY <1>2, <1>3, <1>4, <1>5, <1>6 DEF Fits

(***************************************************************************)
(* A handler of the page has come back with o.                             *)
(***************************************************************************)
LEMMA ShowStays ==
    ASSUME IInv, NEW s \in Subjects, NEW o, Show(s, o), conn[s] = "open",
           NEW d, NEW r, down' = [down EXCEPT ![s] = d], replay' = [replay EXCEPT ![s] = r],
           UNCHANGED <<router, conn, admin, reloads>>,
           Becomes(s, up[s], d, r, page[s], o, "open", scope[s].period, served[s], log, up["admin"])
    PROVE  IInv'
<1> DEFINE h == IF Plays(o) THEN played[s] \cup {o.ranAt} ELSE played[s]
           w == Emptied(o)
           u == up[s] \o o.out
<1>1. /\ scope[s].period \in Periods /\ conn[s] \in ConnStates /\ played[s] \in SUBSET Periods
      /\ \A k \in 0 .. scope[s].period - 1 : k \in played[s]
      /\ page[s].ranAt # Undefined => page[s].ranAt \in played[s]
      /\ reloads \in 0 .. MaxReloads
      /\ [conn EXCEPT ![s] = conn[s]] = conn
    BY SubjectFits
<1>2. /\ Linked(s, d, r, w, "open") /\ w.ranAt = o.ranAt /\ (o.ranAt = page[s].ranAt \/ Plays(o))
      /\ Stage(s, u, d, r, w, "open", scope[s].period, served[s], log, up["admin"])
    BY DEF Becomes
<1>3. up' = [up EXCEPT ![s] = u] /\ page' = [page EXCEPT ![s] = w] /\ played' = [played EXCEPT ![s] = h]
    BY DEF Show, Emptied
<1>4. w.ranAt \in Periods \cup {Undefined}
    BY <1>2 DEF Linked, PageOf
<1>5. Plays(o) => o.ranAt # Undefined
    BY DEF Plays
<1> HIDE DEF w, u
<1>6. h \in SUBSET Periods /\ played[s] \subseteq h /\ (w.ranAt # Undefined => w.ranAt \in h)
    BY <1>1, <1>2, <1>4, <1>5
<1> HIDE DEF h
<1>7. Fits(s, u, d, r, w, "open", scope[s].period, served[s], log, up["admin"], h)
    BY <1>1, <1>2, <1>6 DEF Fits
<1>8. conn' = [conn EXCEPT ![s] = "open"] /\ "open" \in ConnStates /\ reloads' \in 0 .. MaxReloads
    BY <1>1 DEF ConnStates
<1> QED BY <1>3, <1>6, <1>7, <1>8, BrowserStays

\* So does a browser that loads its page,
LEMMA LoadStays ==
    ASSUME IInv, NEW s \in Subjects, Load(s)
    PROVE  IInv'
<1> DEFINE p == FreshPage(PageServed(s))
<1>1. /\ scope[s].period \in Periods /\ played[s] \in SUBSET Periods
      /\ served[s] \in {"None", "Wait", "Start", "Finish"}
      /\ Linked(s, down[s], replay[s], page[s], conn[s])
      /\ Stage(s, up[s], down[s], replay[s], page[s], conn[s], scope[s].period, served[s], log, up["admin"])
      /\ \A k \in 0 .. scope[s].period - 1 : k \in played[s]
      /\ reloads \in 0 .. MaxReloads
      /\ [up EXCEPT ![s] = up[s]] = up /\ [down EXCEPT ![s] = down[s]] = down
      /\ [replay EXCEPT ![s] = replay[s]] = replay /\ [played EXCEPT ![s] = played[s]] = played
    BY SubjectFits
<1>2. PageServed(s) = IF scope[s].period = 0 THEN "Wait" ELSE served[s]
    BY DEF PageServed
<1>3. conn[s] = "loading"
    BY DEF Load
<1>4. PageServed(s) \in PageNames
    BY <1>1, <1>2 DEF PageNames
<1>5. p.ranAt = Undefined
    BY <1>4, FreshIs DEF Unused, Idle
<1> HIDE DEF p
<1>6. /\ Stage(s, up[s], down[s], replay[s], p, "loaded", scope[s].period, served[s], log, up["admin"])
      /\ Linked(s, down[s], replay[s], p, "loaded")
    BY <1>1, <1>2, <1>3, Loads DEF p
<1>7. Fits(s, up[s], down[s], replay[s], p, "loaded", scope[s].period, served[s], log, up["admin"], played[s])
    BY <1>1, <1>5, <1>6 DEF Fits
<1>8. /\ UNCHANGED <<router, admin>> /\ reloads' \in 0 .. MaxReloads
      /\ up' = [up EXCEPT ![s] = up[s]] /\ down' = [down EXCEPT ![s] = down[s]]
      /\ replay' = [replay EXCEPT ![s] = replay[s]] /\ played' = [played EXCEPT ![s] = played[s]]
      /\ page' = [page EXCEPT ![s] = p] /\ conn' = [conn EXCEPT ![s] = "loaded"]
      /\ "loaded" \in ConnStates
    BY <1>1 DEF Load, ConnStates, p
<1> QED BY <1>1, <1>7, <1>8, BrowserStays

\* one that is registered,
LEMMA RegisterStays ==
    ASSUME IInv, NEW s \in Subjects, Register(s)
    PROVE  IInv'
<1>1. /\ scope[s].period \in Periods /\ played[s] \in SUBSET Periods
      /\ Linked(s, down[s], replay[s], page[s], conn[s])
      /\ Stage(s, up[s], down[s], replay[s], page[s], conn[s], scope[s].period, served[s], log, up["admin"])
      /\ \A k \in 0 .. scope[s].period - 1 : k \in played[s]
      /\ page[s].ranAt # Undefined => page[s].ranAt \in played[s]
      /\ reloads \in 0 .. MaxReloads
      /\ [up EXCEPT ![s] = up[s]] = up /\ [down EXCEPT ![s] = down[s]] = down
      /\ [replay EXCEPT ![s] = replay[s]] = replay /\ [page EXCEPT ![s] = page[s]] = page
      /\ [played EXCEPT ![s] = played[s]] = played
    BY SubjectFits
<1>2. conn[s] = "loaded"
    BY DEF Register
<1>3. /\ Stage(s, up[s], down[s], replay[s], page[s], "registered", scope[s].period, served[s], log, up["admin"])
      /\ Linked(s, down[s], replay[s], page[s], "registered")
    BY <1>1, <1>2, Registers
<1>4. Fits(s, up[s], down[s], replay[s], page[s], "registered", scope[s].period, served[s], log, up["admin"],
           played[s])
    BY <1>1, <1>3 DEF Fits
<1>5. /\ UNCHANGED <<router, admin>> /\ reloads' \in 0 .. MaxReloads
      /\ up' = [up EXCEPT ![s] = up[s]] /\ down' = [down EXCEPT ![s] = down[s]]
      /\ replay' = [replay EXCEPT ![s] = replay[s]] /\ played' = [played EXCEPT ![s] = played[s]]
      /\ page' = [page EXCEPT ![s] = page[s]] /\ conn' = [conn EXCEPT ![s] = "registered"]
      /\ "registered" \in ConnStates
    BY <1>1 DEF Register, ConnStates
<1> QED BY <1>1, <1>4, <1>5, BrowserStays

\* one that is sent the replay,
LEMMA SyncStays ==
    ASSUME IInv, NEW s \in Subjects, Sync(s)
    PROVE  IInv'
<1> DEFINE r == <<Begin>> \o Replayed(s, log, scope) \o <<End>>
<1>1. /\ scope[s].period \in Periods /\ played[s] \in SUBSET Periods
      /\ Linked(s, down[s], replay[s], page[s], conn[s])
      /\ Stage(s, up[s], down[s], replay[s], page[s], conn[s], scope[s].period, served[s], log, up["admin"])
      /\ \A k \in 0 .. scope[s].period - 1 : k \in played[s]
      /\ page[s].ranAt # Undefined => page[s].ranAt \in played[s]
      /\ reloads \in 0 .. MaxReloads
      /\ [up EXCEPT ![s] = up[s]] = up /\ [down EXCEPT ![s] = down[s]] = down
      /\ [page EXCEPT ![s] = page[s]] = page /\ [played EXCEPT ![s] = played[s]] = played
    BY SubjectFits
<1>2. conn[s] = "registered" /\ replay' = [replay EXCEPT ![s] = r]
    BY DEF Sync, Replayed, Begin, End
<1>6. /\ Replays(r, FALSE, Replayed(s, log, scope))
      /\ Linked(s, down[s], replay[s], page[s], "registered")
      /\ Stage(s, up[s], down[s], replay[s], page[s], "registered", scope[s].period, served[s], log, up["admin"])
    BY <1>1, <1>2 DEF Replays
<1> HIDE DEF r
<1>3. /\ Stage(s, up[s], down[s], r, page[s], "open", scope[s].period, served[s], log, up["admin"])
      /\ Linked(s, down[s], r, page[s], "open")
    BY <1>1, <1>6, Syncs
<1>4. Fits(s, up[s], down[s], r, page[s], "open", scope[s].period, served[s], log, up["admin"], played[s])
    BY <1>1, <1>3 DEF Fits
<1>5. /\ UNCHANGED <<router, admin>> /\ reloads' \in 0 .. MaxReloads
      /\ up' = [up EXCEPT ![s] = up[s]] /\ down' = [down EXCEPT ![s] = down[s]]
      /\ played' = [played EXCEPT ![s] = played[s]]
      /\ page' = [page EXCEPT ![s] = page[s]] /\ conn' = [conn EXCEPT ![s] = "open"]
      /\ "open" \in ConnStates
    BY <1>1 DEF Sync, ConnStates
<1> QED BY <1>1, <1>2, <1>4, <1>5, BrowserStays

\* one whose page receives a message,
LEMMA ReceiveStays ==
    ASSUME IInv, NEW s \in Subjects, Receive(s)
    PROVE  IInv'
<1>1. /\ scope[s].period \in Periods
      /\ Linked(s, down[s], replay[s], page[s], "open") /\ conn[s] = "open" /\ ~page[s].reloading
      /\ Stage(s, up[s], down[s], replay[s], page[s], "open", scope[s].period, served[s], log, up["admin"])
      /\ [down EXCEPT ![s] = down[s]] = down /\ [replay EXCEPT ![s] = replay[s]] = replay
    BY SubjectFits DEF Receive
<1>2. UNCHANGED <<router, conn, admin, reloads>>
    BY DEF Receive
<1>3. CASE replay[s] # <<>>
    <2> DEFINE o == OnMessage(page[s], s, Head(replay[s]))
    <2>1. Show(s, o) /\ replay' = [replay EXCEPT ![s] = Tail(replay[s])] /\ down' = [down EXCEPT ![s] = down[s]]
        BY <1>1, <1>3 DEF Receive
    <2>2. Becomes(s, up[s], down[s], Tail(replay[s]), page[s], o, "open", scope[s].period, served[s], log, up["admin"])
        BY <1>1, <1>3, Received
    <2> HIDE DEF o
    <2> QED BY <1>1, <1>2, <2>1, <2>2, ShowStays
<1>4. CASE replay[s] = <<>>
    <2> DEFINE o == OnMessage(page[s], s, Head(down[s]))
    <2>1. /\ Show(s, o) /\ down' = [down EXCEPT ![s] = Tail(down[s])] /\ replay' = [replay EXCEPT ![s] = <<>>]
          /\ down[s] # <<>>
        BY <1>1, <1>4 DEF Receive
    <2>2. Becomes(s, up[s], Tail(down[s]), <<>>, page[s], o, "open", scope[s].period, served[s], log, up["admin"])
        BY <1>1, <1>4, <2>1, Received
    <2> HIDE DEF o
    <2> QED BY <1>1, <1>2, <2>1, <2>2, ShowStays
<1> QED BY <1>3, <1>4

\* one whose timeout ends,
LEMMA TimerStays ==
    ASSUME IInv, NEW s \in Subjects, Timer(s)
    PROVE  IInv'
<1> DEFINE p == page[s]
           o == Send([p EXCEPT !.timer = FALSE], s, Message("_next_period", s, p.period, 0, FALSE, 0))
<1>1. /\ scope[s].period \in Periods
      /\ Linked(s, down[s], replay[s], p, "open") /\ conn[s] = "open" /\ p.timer /\ ~p.sync
      /\ Stage(s, up[s], down[s], replay[s], p, "open", scope[s].period, served[s], log, up["admin"])
      /\ [down EXCEPT ![s] = down[s]] = down /\ [replay EXCEPT ![s] = replay[s]] = replay
    BY SubjectFits DEF Timer
<1>2. /\ Show(s, o) /\ UNCHANGED <<router, conn, admin, reloads>>
      /\ replay' = [replay EXCEPT ![s] = replay[s]] /\ down' = [down EXCEPT ![s] = down[s]]
    BY <1>1 DEF Timer
<1>3. Becomes(s, up[s], down[s], replay[s], p, o, "open", scope[s].period, served[s], log, up["admin"])
    BY <1>1, TimerIs
<1> HIDE DEF o
<1> QED BY <1>1, <1>2, <1>3, ShowStays

\* and one whose script is done.
LEMMA DoneStays ==
    ASSUME IInv, NEW s \in Subjects, Done(s)
    PROVE  IInv'
<1> DEFINE p == page[s]
           o == NextPeriod(p)
<1>1. /\ scope[s].period \in Periods
      /\ Linked(s, down[s], replay[s], p, "open") /\ conn[s] = "open"
      /\ p.name = "Start" /\ p.ranAt # Undefined /\ ~p.asked /\ ~p.reloading
      /\ Stage(s, up[s], down[s], replay[s], p, "open", scope[s].period, served[s], log, up["admin"])
      /\ [down EXCEPT ![s] = down[s]] = down /\ [replay EXCEPT ![s] = replay[s]] = replay
    BY SubjectFits DEF Done
<1>2. /\ Show(s, o) /\ UNCHANGED <<router, conn, admin, reloads>>
      /\ replay' = [replay EXCEPT ![s] = replay[s]] /\ down' = [down EXCEPT ![s] = down[s]]
    BY <1>1 DEF Done
<1>3. Becomes(s, up[s], down[s], replay[s], p, o, "open", scope[s].period, served[s], log, up["admin"])
    BY <1>1, DoneIs
<1> HIDE DEF o
<1> QED BY <1>1, <1>2, <1>3, ShowStays

(***************************************************************************)
(* A page is left when it is reloading, or when nothing is on its way that *)
(* turns it.                                                               *)
(***************************************************************************)
LEMMA LeaveStays ==
    ASSUME IInv, NEW s \in Subjects, Leave(s), conn[s] = "open", reloads' \in 0 .. MaxReloads,
           page[s].reloading \/ (\A m : (Has(up[s], m) \/ Has(down[s], m)) => ~Turning(m, s))
    PROVE  IInv'
<1> DEFINE w == FreshPage("Blank")
<1>1. /\ scope[s].period \in Periods /\ played[s] \in SUBSET Periods
      /\ Linked(s, down[s], replay[s], page[s], "open")
      /\ Stage(s, up[s], down[s], replay[s], page[s], "open", scope[s].period, served[s], log, up["admin"])
      /\ \A k \in 0 .. scope[s].period - 1 : k \in played[s]
      /\ [played EXCEPT ![s] = played[s]] = played
    BY SubjectFits
<1>2. w.ranAt = Undefined
    BY FreshIs DEF Unused, Idle, PageNames
<1>3. PICK n \in 0 .. Len(up[s]) : up' = [up EXCEPT ![s] = SubSeq(up[s], 1, n)]
    BY DEF Leave
<1> DEFINE u == SubSeq(up[s], 1, n)
<1>4. /\ Stage(s, u, <<>>, <<>>, w, "loading", scope[s].period, served[s], log, up["admin"])
      /\ Linked(s, <<>>, <<>>, w, "loading")
    BY <1>1, <1>3, Leaves
<1>5. /\ UNCHANGED <<router, admin>> /\ conn' = [conn EXCEPT ![s] = "loading"]
      /\ replay' = [replay EXCEPT ![s] = <<>>] /\ down' = [down EXCEPT ![s] = <<>>]
      /\ page' = [page EXCEPT ![s] = w] /\ played' = [played EXCEPT ![s] = played[s]]
      /\ up' = [up EXCEPT ![s] = u] /\ "loading" \in ConnStates
    BY <1>1, <1>3 DEF Leave, ConnStates
<1> HIDE DEF w, u
<1>6. Fits(s, u, <<>>, <<>>, w, "loading", scope[s].period, served[s], log, up["admin"], played[s])
    BY <1>1, <1>2, <1>4 DEF Fits
<1> QED BY <1>1, <1>5, <1>6, BrowserStays

\* A page that is turned is left.
LEMMA ReloadStays ==
    ASSUME IInv, NEW s \in Subjects, Reload(s)
    PROVE  IInv'
<1>1. Leave(s) /\ conn[s] = "open" /\ page[s].reloading /\ reloads' = reloads /\ reloads \in 0 .. MaxReloads
    BY SubjectFits DEF Reload
<1> QED BY <1>1, LeaveStays

\* A user does not reload while the period changes.
LEMMA UserReloadStays ==
    ASSUME IInv, ~AnyTime, NEW s \in Subjects, UserReload(s)
    PROVE  IInv'
<1>1. Leave(s) /\ conn[s] = "open" /\ reloads < MaxReloads /\ reloads' = reloads + 1 /\ ~Changing(s)
    BY DEF UserReload
<1>2. reloads' \in 0 .. MaxReloads
    BY <1>1, SubjectFits, PeriodsAssumption
<1>3. ASSUME NEW m, Has(up[s], m) \/ Has(down[s], m) PROVE ~Turning(m, s)
    <2>1. m \in ToSet(up[s]) \cup ToSet(down[s])
        BY <1>3 DEF Has, ToSet
    <2> QED BY <1>1, <2>1 DEF Changing, Turning, Change
<1> QED BY <1>1, <1>2, <1>3, LeaveStays

\* What else is on its way from the admin does not matter.
LEMMA OtherAdmin ==
    ASSUME NEW s, NEW u, NEW d, NEW r, NEW p, NEW c, NEW q, NEW v, NEW l, NEW a, NEW h,
           Fits(s, u, d, r, p, c, q, v, l, a, h), NEW a2, Has(a2, PeriodIs(s, 0)) <=> Has(a, PeriodIs(s, 0))
    PROVE  Fits(s, u, d, r, p, c, q, v, l, a2, h)
<1>1. Told(s, u, d, r, p, c, q, l, a) => Told(s, u, d, r, p, c, q, l, a2)
    BY DEF Told
<1>2. Greeted(s, u, d, r, p, c, q, l, a) => Greeted(s, u, d, r, p, c, q, l, a2)
    BY DEF Greeted
<1>3. Settled(s, u, d, r, p, c, q, v, l, a) => Settled(s, u, d, r, p, c, q, v, l, a2)
    BY DEF Settled
<1>4. Leaving(s, u, d, r, p, c, q, l, a) => Leaving(s, u, d, r, p, c, q, l, a2)
    BY DEF Leaving
<1>5. Turned(s, u, d, r, p, c, q, v, l, a) => Turned(s, u, d, r, p, c, q, v, l, a2)
    BY DEF Turned
<1>6. Reloading(s, u, d, r, p, c, q, v, l, a) => Reloading(s, u, d, r, p, c, q, v, l, a2)
    BY DEF Reloading
<1> QED BY <1>1, <1>2, <1>3, <1>4, <1>5, <1>6 DEF Fits, Stage

\* The admin's click keeps the invariant.
LEMMA ClickResumeStays ==
    ASSUME IInv, ClickResume
    PROVE  IInv'
<1> DEFINE x == Message("resume", "admin", 0, 0, FALSE, 0)
           a == up["admin"]
<1>1. /\ TypeInv /\ "admin" \notin Subjects /\ x \in FromAdmin /\ x \in Routed
    BY Basics, FromAdminIs DEF IInv
<1>2. a \in Seq(FromAdmin) /\ a \in Seq(Routed) /\ StartsOnce(a)
    BY <1>1, FromAdminIs, Wider DEF TypeInv
<1>3. x.key = "resume" /\ \A s \in Subjects : x # PeriodIs(s, 0)
    BY PartsAre DEF Message
<1>4. /\ up' = [up EXCEPT !["admin"] = Append(a, x)] /\ admin' = [admin EXCEPT !.resumable = FALSE]
      /\ UNCHANGED <<router, replay, down, browsers, reloads>>
    BY DEF ClickResume
<1> HIDE DEF x
<1>5. Append(a, x) \in Seq(FromAdmin) /\ Append(a, x) \in Seq(Routed) /\ StartsOnce(Append(a, x))
    <2>1. Append(a, x) = a \o <<x>> /\ <<x>> \in Seq(Routed)
        BY <1>1, <1>2, AppendIsConcat, OfOne
    <2>2. \A y : Has(<<x>>, y) => y.key # "__set_period__"
        BY <1>3, HasOne
    <2>3. StartsOnce(a \o <<x>>)
        BY <1>2, <2>1, <2>2, StartsOnceStays
    <2> QED BY <1>1, <1>2, <2>1, <2>3, AppendProperties
<1>6. \A s \in Subjects : Has(Append(a, x), PeriodIs(s, 0)) <=> Has(a, PeriodIs(s, 0))
    <2>1. ASSUME NEW s \in Subjects PROVE Has(Append(a, x), PeriodIs(s, 0)) <=> Has(a, PeriodIs(s, 0))
        <3> DEFINE y == PeriodIs(s, 0)
        <3>1. x \in Routed /\ y # x
            BY <1>1, <1>3
        <3> HIDE DEF y
        <3>2. Has(Append(a, x), y) <=> Has(a, y) \/ y = x
            BY <1>2, <3>1, HasAppend
        <3> QED BY <3>1, <3>2 DEF y
    <2> QED BY <2>1
<1>7. up'["admin"] = Append(a, x) /\ \A s \in Subjects : up'[s] = up[s]
    BY <1>1, <1>4 DEF TypeInv
<1>8. TypeInv'
    <2>1. up' \in [Subjects \cup {"admin"} -> Seq(Routed)]
        BY <1>1, <1>4, <1>5 DEF TypeInv
    <2>2. admin' \in [periods: [Subjects -> Periods \cup {Undefined}], paused: SUBSET Subjects,
                      resumable: BOOLEAN]
        BY <1>1, <1>4 DEF TypeInv
    <2> QED BY <1>1, <1>4, <1>5, <1>7, <2>1, <2>2 DEF TypeInv, router, browsers
<1>9. ASSUME NEW s \in Subjects
      PROVE  Fits(s, up'[s], down'[s], replay'[s], page'[s], conn'[s], scope'[s].period, served'[s], log',
                  up'["admin"], played'[s])
    <2>1. Fits(s, up[s], down[s], replay[s], page[s], conn[s], scope[s].period, served[s], log, a, played[s])
        BY DEF IInv
    <2>2. Fits(s, up[s], down[s], replay[s], page[s], conn[s], scope[s].period, served[s], log, Append(a, x), played[s])
        BY <1>6, <2>1, OtherAdmin
    <2> QED BY <1>4, <1>7, <2>2 DEF router, browsers
<1> QED BY <1>8, <1>9 DEF IInv

\* Every step keeps the invariant.
LEMMA NextStays ==
    ASSUME ~AnyTime, IInv, [Next]_vars
    PROVE  IInv'
<1>1. CASE \E n \in Subjects \cup {"admin"} : Handle(n)
    BY <1>1, HandleStays
<1>2. CASE \E s \in Subjects : Browser(s) \/ UserReload(s)
    <2>1. PICK s \in Subjects : Browser(s) \/ UserReload(s)
        BY <1>2
    <2>2. CASE Load(s)
        BY <2>2, LoadStays
    <2>3. CASE Register(s)
        BY <2>3, RegisterStays
    <2>4. CASE Sync(s)
        BY <2>4, SyncStays
    <2>5. CASE Receive(s)
        BY <2>5, ReceiveStays
    <2>6. CASE Timer(s)
        BY <2>6, TimerStays
    <2>7. CASE Done(s)
        BY <2>7, DoneStays
    <2>8. CASE Reload(s)
        BY <2>8, ReloadStays
    <2>9. CASE UserReload(s)
        BY <2>9, UserReloadStays
    <2> QED BY <2>1, <2>2, <2>3, <2>4, <2>5, <2>6, <2>7, <2>8, <2>9 DEF Browser
<1>3. CASE ClickResume
    BY <1>3, ClickResumeStays
<1>4. CASE UNCHANGED vars
    <2>1. /\ log' = log /\ scope' = scope /\ served' = served /\ up' = up /\ replay' = replay /\ down' = down
          /\ conn' = conn /\ page' = page /\ played' = played /\ admin' = admin /\ reloads' = reloads
        BY <1>4 DEF vars, router, browsers
    <2>2. TypeInv'
        BY <2>1 DEF IInv, TypeInv
    <2>3. \A s \in Subjects :
             Fits(s, up'[s], down'[s], replay'[s], page'[s], conn'[s], scope'[s].period, served'[s], log',
                  up'["admin"], played'[s])
        BY <2>1 DEF IInv
    <2> QED BY <2>2, <2>3 DEF IInv
<1> QED BY <1>1, <1>2, <1>3, <1>4 DEF Next

(***************************************************************************)
(* The inductive invariant: every subject is at one of the six stages      *)
(* between two periods, its page goes with its connection, and its scripts *)
(* have had every period before its own.                                   *)
(***************************************************************************)
THEOREM SubjectsInvariant ==
    ASSUME ~AnyTime
    PROVE  Spec => []IInv
<1>1. Init => IInv
    BY InitFits
<1>2. IInv /\ [Next]_vars => IInv'
    BY NextStays
<1> QED BY <1>1, <1>2, PTL DEF Spec

(***************************************************************************)
(* The state of browsers, router and admin has its type (TypeOK), and a    *)
(* page is in a replay only while marks and log are still being sent to    *)
(* it.                                                                     *)
(***************************************************************************)
THEOREM SubjectTypes ==
    ASSUME ~AnyTime
    PROVE  Spec => []TypeOK
<1>1. ASSUME IInv PROVE TypeOK
    <2>1. /\ scope \in [Subjects -> [period: Periods, group: {Group}]]
          /\ served \in [Subjects -> {"None", "Wait", "Start", "Finish"}]
          /\ conn \in [Subjects -> ConnStates] /\ admin.paused \subseteq Subjects
          /\ reloads \in 0 .. MaxReloads /\ played \in [Subjects -> SUBSET Periods]
        BY <1>1 DEF IInv, TypeInv
    <2>2. ASSUME NEW s \in Subjects
          PROVE  /\ page[s].period \in Periods \cup {Undefined}
                 /\ page[s].ranAt \in Periods \cup {Undefined}
                 /\ page[s].out = <<>>
                 /\ page[s].sync => conn[s] = "open" /\ replay[s] # <<>>
        <3>1. Linked(s, down[s], replay[s], page[s], conn[s])
            BY <1>1, SubjectFits
        <3> QED BY <3>1 DEF Linked, PageOf
    <2> QED BY <2>1, <2>2 DEF TypeOK
<1> QED BY <1>1, SubjectsInvariant, PTL

(***************************************************************************)
(* Scripts that have started in a period are those of the period's page    *)
(* (PageFitsPeriod): a page that hears of a new period                     *)
(* (redwoodSubject.js:112) is reloaded before it is at the barrier of that *)
(* period, and Django serves the page of the period that Route has set.    *)
(* Without reloads while a period changes.                                 *)
(***************************************************************************)
THEOREM PagesFitPeriods ==
    ASSUME ~AnyTime
    PROVE  Spec => []PageFitsPeriod
<1>1. ASSUME IInv PROVE PageFitsPeriod
    <2> SUFFICES ASSUME NEW s \in Subjects, conn[s] = "open", page[s].ranAt # Undefined
                 PROVE  page[s].name = PageFor(page[s].ranAt)
        BY DEF PageFitsPeriod
    <2>1. Stage(s, up[s], down[s], replay[s], page[s], "open", scope[s].period, served[s], log, up["admin"])
        BY <1>1, SubjectFits
    <2>2. scope[s].period \in Nat
        BY <1>1, SubjectFits, Basics
    <2> QED BY <2>1, <2>2 DEF Stage, Told, Greeted, Settled, Leaving, Turned, Reloading, Through, Stale, Unused, Idle
<1> QED BY <1>1, SubjectsInvariant, PTL

(***************************************************************************)
(* A subject gets into a period only after its scripts have had every      *)
(* period before it (NoPeriodIsSkipped), although a reloaded page handles  *)
(* its old _next_period again in the replay (redwoodSubject.js:233).       *)
(***************************************************************************)
THEOREM PeriodsAreNotSkipped ==
    ASSUME ~AnyTime
    PROVE  Spec => []NoPeriodIsSkipped
<1>1. ASSUME IInv PROVE NoPeriodIsSkipped
    BY <1>1, SubjectFits DEF NoPeriodIsSkipped
<1> QED BY <1>1, SubjectsInvariant, PTL

-----------------------------------------------------------------------------
(* Who has arrived and who has been resumed                                *)

Arrived(t, k, sc, l) ==
    \/ sc[t].period > k
    \/ \E m : Has(l, m) /\ m.key = "_at_barrier" /\ m.sender = t /\ m.value = k

Resumed(s, k, sc, l) ==
    \/ sc[s].period > k
    \/ \E m : Has(l, m) /\ m.key = "__resume__" /\ m.sender = s /\ m.value = k

\* m is true of the session.
Tells(s, m, sc, l) ==
    /\ m.key = "_at_barrier" => Arrived(m.sender, m.value, sc, l)
    /\ m.key = "__resume__" /\ m.sender = s => Resumed(s, m.value, sc, l)

(***************************************************************************)
(* What the page of s has seen, and will see, has happened; and its        *)
(* scripts have started only when they may.                                *)
(***************************************************************************)
Knows(s, p, sc, l) ==
    /\ \A k \in Periods : \A t \in p.received[k] : Arrived(t, k, sc, l)
    /\ p.period \in Paused => p.period \in p.pause \/ Resumed(s, p.period, sc, l)
    /\ p.ranAt \notin Paused \cup {Undefined} => \A t \in Subjects : Arrived(t, p.ranAt, sc, l)
    /\ p.ranAt \in Paused => Resumed(s, p.ranAt, sc, l)

Seen(s, d, r, p, sc, l) ==
    /\ r \in Seq(Routed \cup {Begin, End})
    /\ \A m : Has(d, m) \/ Has(r, m) => Tells(s, m, sc, l)
    /\ Knows(s, p, sc, l)

RInv ==
    /\ IInv
    /\ \A s \in Subjects : Seen(s, down[s], replay[s], page[s], scope, log)

-----------------------------------------------------------------------------
(* What has happened has happened                                          *)

(***************************************************************************)
(* Arrivals and resumes stay in the log as long as anybody needs them: no  *)
(* state update replaces them.                                             *)
(***************************************************************************)
LEMMA LoggedStays ==
    ASSUME NEW l \in Seq(Routed), NEW m \in Routed, NEW x, Has(l, x),
           x.key \in {"_at_barrier", "__resume__"}, NEW sc, Needed(sc, x)
    PROVE  Has(Adding(l, m, sc), x)
<1>1. ~Replaces(m, x)
    BY DEF Replaces, Routed, Change
<1> QED BY <1>1, AddingIs

(***************************************************************************)
(* Who has arrived has arrived, and who has been resumed has been resumed, *)
(* whatever Route handles then.                                            *)
(***************************************************************************)
LEMMA HappenedStays ==
    ASSUME NEW l \in Seq(Routed), NEW m \in Routed,
           NEW sc, NEW sc2, \A s \in Subjects : sc[s].period \in Nat /\ sc2[s].period \in Nat
                                               /\ sc2[s].period >= sc[s].period
    PROVE  LET l2 == Adding(l, m, sc2)
           IN  /\ \A t \in Subjects : \A k \in Int : Arrived(t, k, sc, l) => Arrived(t, k, sc2, l2)
               /\ \A s \in Subjects : \A k \in Int : Resumed(s, k, sc, l) => Resumed(s, k, sc2, l2)
<1> DEFINE l2 == Adding(l, m, sc2)
<1>1. ASSUME NEW t \in Subjects, NEW k \in Int, Arrived(t, k, sc, l)
      PROVE  Arrived(t, k, sc2, l2)
    <2>1. CASE sc2[t].period > k
        BY <2>1 DEF Arrived
    <2>2. CASE sc2[t].period <= k
        <3>1. PICK x : Has(l, x) /\ x.key = "_at_barrier" /\ x.sender = t /\ x.value = k
            BY <1>1, <2>2 DEF Arrived
        <3>2. x \in Routed
            BY <3>1, ElementsOfSeq
        <3>3. PeriodOf(x) = k
            BY <3>1, <3>2 DEF PeriodOf, Routed
        <3>4. Needed(sc2, x)
            BY <2>2, <3>3 DEF Needed
        <3>5. Has(l2, x)
            BY <3>1, <3>4, LoggedStays
        <3> QED BY <3>1, <3>5 DEF Arrived
    <2> QED BY <2>1, <2>2
<1>2. ASSUME NEW s \in Subjects, NEW k \in Int, Resumed(s, k, sc, l)
      PROVE  Resumed(s, k, sc2, l2)
    <2>1. CASE sc2[s].period > k
        BY <2>1 DEF Resumed
    <2>2. CASE sc2[s].period <= k
        <3>1. PICK x : Has(l, x) /\ x.key = "__resume__" /\ x.sender = s /\ x.value = k
            BY <1>2, <2>2 DEF Resumed
        <3>2. PeriodOf(x) = k
            BY <3>1 DEF PeriodOf
        <3>3. Needed(sc2, x)
            BY <2>2, <3>2 DEF Needed
        <3>4. Has(l2, x)
            BY <3>1, <3>3, LoggedStays
        <3> QED BY <3>1, <3>4 DEF Resumed
    <2> QED BY <2>1, <2>2
<1> QED BY <1>1, <1>2

\* Arrivals and resumes name the period in which they matter.
LEMMA ValuesAre ==
    ASSUME NEW m \in Routed
    PROVE  /\ m.value \in Int
           /\ m.key = "_at_barrier" => m.sender \in Subjects /\ PeriodOf(m) = m.value
           /\ m.key = "__resume__" => PeriodOf(m) = m.value
<1>1. m.value \in Periods \cup {Undefined}
    BY DEF Routed
<1>2. m.value \in Int
    <2>1. Periods \subseteq Int
        BY Basics
    <2>2. Undefined \in Int
        BY DEF Undefined
    <2> QED BY <1>1, <2>1, <2>2
<1>3. m.key = "_at_barrier" => m.sender \in Subjects /\ m.value = m.period
    BY DEF Routed
<1> QED BY <1>2, <1>3 DEF PeriodOf

\* What Route handles has happened then.
LEMMA HandledHappens ==
    ASSUME NEW l \in Seq(Routed), NEW m \in Routed, NEW s \in Subjects,
           NEW sc, \A t \in Subjects : sc[t].period \in Nat
    PROVE  Tells(s, m, sc, Adding(l, m, sc))
<1> DEFINE l2 == Adding(l, m, sc)
<1>1. ASSUME m.key = "_at_barrier" PROVE Arrived(m.sender, m.value, sc, l2)
    <2>1. m.sender \in Subjects /\ PeriodOf(m) = m.value /\ m.value \in Int
        BY <1>1, ValuesAre
    <2>2. CASE sc[m.sender].period > m.value
        BY <2>2 DEF Arrived
    <2>3. CASE sc[m.sender].period <= m.value
        <3>1. Needed(sc, m)
            BY <2>1, <2>3 DEF Needed
        <3>2. Has(l2, m)
            BY <3>1, AddingIs
        <3> QED BY <1>1, <3>2 DEF Arrived
    <2> QED BY <2>1, <2>2, <2>3
<1>2. ASSUME m.key = "__resume__", m.sender = s PROVE Resumed(s, m.value, sc, l2)
    <2>1. PeriodOf(m) = m.value /\ m.value \in Int
        BY <1>2, ValuesAre
    <2>2. CASE sc[s].period > m.value
        BY <2>2 DEF Resumed
    <2>3. CASE sc[s].period <= m.value
        <3>1. Needed(sc, m)
            BY <2>1, <2>3 DEF Needed
        <3>2. Has(l2, m)
            BY <3>1, AddingIs
        <3> QED BY <1>2, <3>2 DEF Resumed
    <2> QED BY <2>1, <2>2, <2>3
<1> QED BY <1>1, <1>2 DEF Tells

\* What Route handles keeps what a page knows.
LEMMA SeenStays ==
    ASSUME NEW s \in Subjects, NEW d \in Seq(Routed), NEW r, NEW p \in PageOf(s), NEW l \in Seq(Routed), NEW m \in Routed,
           NEW sc, NEW sc2, \A t \in Subjects : sc[t].period \in Nat /\ sc2[t].period \in Nat
                                               /\ sc2[t].period >= sc[t].period,
           Seen(s, d, r, p, sc, l), NEW c
    PROVE  LET l2 == Adding(l, m, sc2)
           IN  Seen(s, Reached(s, d, m, c, sc2, l2), r, p, sc2, l2)
<1> DEFINE l2 == Adding(l, m, sc2)
           d2 == Reached(s, d, m, c, sc2, l2)
<1>1. /\ \A t \in Subjects : \A k \in Int : Arrived(t, k, sc, l) => Arrived(t, k, sc2, l2)
      /\ \A t \in Subjects : \A k \in Int : Resumed(t, k, sc, l) => Resumed(t, k, sc2, l2)
    BY HappenedStays
<1>2. Tells(s, m, sc2, l2)
    BY HandledHappens
<1>3. d2 \in {d, Append(d, m)}
    BY DEF Reached
<1> HIDE DEF l2, d2
<1>4. /\ r \in Seq(Routed \cup {Begin, End})
      /\ \A x : Has(d, x) \/ Has(r, x) => Tells(s, x, sc, l)
      /\ Knows(s, p, sc, l)
    BY DEF Seen
<1>5. ASSUME NEW x, x \in Routed \cup {Begin, End}, Tells(s, x, sc, l) PROVE Tells(s, x, sc2, l2)
    <2>1. CASE x \in Routed
        <3>1. x.value \in Int /\ (x.key = "_at_barrier" => x.sender \in Subjects)
            BY <2>1, ValuesAre
        <3> QED BY <1>1, <1>5, <3>1 DEF Tells
    <2>2. CASE x \in {Begin, End}
        BY <2>2 DEF Tells, Begin, End, Mark, Message
    <2> QED BY <1>5, <2>1, <2>2
<1>6. ASSUME NEW x, Has(d2, x) \/ Has(r, x) PROVE Tells(s, x, sc2, l2)
    <2>1. Has(d2, x) => Has(d, x) \/ x = m
        BY <1>3, HasAppend
    <2>2. x = m \/ (x \in Routed \cup {Begin, End} /\ (Has(d, x) \/ Has(r, x)))
        BY <1>4, <1>6, <2>1, ElementsOfSeq
    <2> QED BY <1>2, <1>4, <1>5, <2>2
<1>7. Knows(s, p, sc2, l2)
    <2>1. Periods \subseteq Int /\ Paused \subseteq Int
        BY Basics
    <2>2. ASSUME NEW k \in Periods, NEW t \in p.received[k] PROVE Arrived(t, k, sc2, l2)
        <3>1. t \in Subjects
            BY <2>2 DEF PageOf
        <3> QED BY <1>1, <1>4, <2>1, <2>2, <3>1 DEF Knows
    <2>3. p.period \in Paused => p.period \in p.pause \/ Resumed(s, p.period, sc2, l2)
        BY <1>1, <1>4, <2>1 DEF Knows
    <2>4. p.ranAt \in Paused => Resumed(s, p.ranAt, sc2, l2)
        BY <1>1, <1>4, <2>1 DEF Knows
    <2>5. p.ranAt \notin Paused \cup {Undefined} => \A t \in Subjects : Arrived(t, p.ranAt, sc2, l2)
        <3>1. p.ranAt \notin Paused \cup {Undefined} => p.ranAt \in Int
            BY <2>1 DEF PageOf
        <3> QED BY <1>1, <1>4, <3>1 DEF Knows
    <2> QED BY <2>2, <2>3, <2>4, <2>5 DEF Knows
<1> QED BY <1>4, <1>6, <1>7 DEF Seen, d2, l2

-----------------------------------------------------------------------------
(* What a handler of the page makes of it                                  *)

\* What turns a page does not start its scripts and forgets no pause.
LEMMA TurningKeeps ==
    ASSUME NEW s \in Subjects, NEW p \in PageOf(s), p.out = <<>>, ~p.reloading,
           NEW m \in Routed, Turning(m, s)
    PROVE  LET o == OnMessage(p, s, m)
           IN  /\ o.received = p.received /\ o.ranAt = p.ranAt
               /\ p.pause \subseteq o.pause
               /\ o.period = p.period \/ (o.period \in Paused => o.period \in o.pause)
<1> DEFINE d == Deduplicate(p, m)
           o == OnMessage(p, s, m)
<1>1. d \in PageOf(s) /\ Steady(p, d)
    BY DeduplicateIs
<1>2. m.key \in Change /\ m.sender = s
    BY DEF Turning
<1>3. o = HandleMsg(d, s, m)
    BY <1>2 DEF OnMessage, Change
<1> HIDE DEF d, o
<1>4. CASE m.key = "__set_page__"
    <2>1. o = CoreSetPage(d, s, m)
        BY <1>3, <1>4 DEF HandleMsg
    <2> QED BY <1>1, <2>1 DEF CoreSetPage, Steady, PageOf, o
<1>5. CASE m.key = "_next_period"
    <2> DEFINE b == [d EXCEPT !.broken = TRUE]
    <2>1. o = OwnNextPeriod(d, s, m)
        BY <1>3, <1>5 DEF HandleMsg
    <2>2. o = d \/ o = Send(b, s, Message("__set_period__", s, d.period, 0, TRUE, d.period + 1))
        BY <2>1 DEF OwnNextPeriod
    <2>3. b.received = d.received /\ b.ranAt = d.ranAt /\ b.pause = d.pause /\ b.period = d.period /\ b = [b EXCEPT !.broken = TRUE]
        BY <1>1 DEF PageOf
    <2>4. /\ o.received = d.received /\ o.ranAt = d.ranAt /\ o.pause = d.pause /\ o.period = d.period
        BY <1>1, <2>2 DEF Send, SyncSend, DefaultSend, PageOf
    <2> QED BY <1>1, <2>4 DEF Steady, o
<1>6. CASE m.key = "__set_period__"
    <2> DEFINE core == CoreSetPeriod(d, s, m)
               new == IF m.value \in Paused THEN core.pause \cup {m.value} ELSE core.pause
               paused == [core EXCEPT !.pause = new]
    <2>1. o = SetPeriod(d, s, m)
        BY <1>3, <1>6 DEF HandleMsg
    <2>2. o = Send(paused, s, Message("__set_page__", s, m.value, 0, TRUE, m.value))
        BY <1>2, <2>1 DEF SetPeriod
    <2>3. /\ core.received = d.received /\ core.ranAt = d.ranAt /\ core.pause = d.pause /\ core.period = m.value
          /\ DOMAIN core = DOMAIN d
        BY <1>1, <1>2 DEF CoreSetPeriod, PageOf
    <2>4. /\ paused.received = d.received /\ paused.ranAt = d.ranAt /\ paused.pause = new /\ paused.period = m.value
          /\ DOMAIN paused = DOMAIN d
        BY <1>1, <2>3 DEF PageOf
    <2>5. d.pause \subseteq new /\ (m.value \in Paused => m.value \in new)
        BY <2>3
    <2> HIDE DEF core, new, paused
    <2>6. o.received = paused.received /\ o.ranAt = paused.ranAt /\ o.pause = paused.pause /\ o.period = paused.period
        BY <1>1, <2>2, <2>4 DEF Send, SyncSend, DefaultSend, PageOf
    <2> QED BY <1>1, <2>4, <2>5, <2>6 DEF Steady, o
<1> QED BY <1>2, <1>4, <1>5, <1>6 DEF Change

\* Everything that a page may receive.
LEMMA ReceivedKnows ==
    ASSUME NEW s \in Subjects, NEW p \in PageOf(s), p.out = <<>>, ~p.reloading,
           p.ranAt = Undefined => p.deferred \subseteq {p.period},
           NEW m \in Routed \cup {Begin, End}, NEW sc, NEW l, Tells(s, m, sc, l), Knows(s, p, sc, l)
    PROVE  Knows(s, Emptied(OnMessage(p, s, m)), sc, l)
<1> DEFINE o == OnMessage(p, s, m)
           w == Emptied(o)
<1>1. ASSUME w.received = p.received, w.ranAt = p.ranAt, p.pause \subseteq w.pause,
             w.period = p.period \/ (w.period \in Paused => w.period \in w.pause)
      PROVE  Knows(s, w, sc, l)
    BY <1>1 DEF Knows
<1>2. CASE m = Begin
    <2>1. o \in PageOf(s) /\ w = o /\ SameScript(p, o)
        BY <1>2, BeginIs
    <2> QED BY <1>1, <2>1 DEF SameScript, SameRun
<1>3. CASE m = End
    <2>1. SameScript(p, w)
        BY <1>3, EndIs
    <2> QED BY <1>1, <2>1 DEF SameScript, SameRun
<1>4. CASE m \in Routed /\ Turning(m, s)
    <2>1. /\ o.received = p.received /\ o.ranAt = p.ranAt
          /\ p.pause \subseteq o.pause
          /\ o.period = p.period \/ (o.period \in Paused => o.period \in o.pause)
        BY <1>4, TurningKeeps
    <2> HIDE DEF o
    <2>2. w.received = o.received /\ w.ranAt = o.ranAt /\ w.pause = o.pause /\ w.period = o.period
        BY DEF Emptied
    <2> HIDE DEF w
    <2> QED BY <1>1, <2>1, <2>2 DEF w, o
<1>5. CASE m \in Routed /\ ~Turning(m, s)
    <2>1. Calm(s, p, m, o)
        BY <1>5, MessageCalm
    <2> HIDE DEF o
    <2>2. /\ w.received = o.received /\ w.ranAt = o.ranAt /\ w.pause = o.pause /\ w.period = p.period
        BY <2>1, EmptiedIs DEF Calm, Steady
    <2> HIDE DEF w
    <2>3. ASSUME NEW k \in Periods, NEW t \in w.received[k] PROVE Arrived(t, k, sc, l)
        <3>1. t \in p.received[k] \/ (m.key = "_at_barrier" /\ t = m.sender /\ k = m.value)
            BY <2>1, <2>2, <2>3 DEF Calm
        <3> QED BY <3>1 DEF Knows, Tells
    <2>4. p.period \in Paused => p.period \in w.pause \/ Resumed(s, p.period, sc, l)
        <3>1. p.period \in p.pause /\ p.period \notin w.pause => Resumed(s, p.period, sc, l)
            BY <2>1, <2>2 DEF Calm, Tells
        <3> QED BY <3>1 DEF Knows
    <2>5. CASE w.ranAt = p.ranAt
        BY <2>2, <2>3, <2>4, <2>5 DEF Knows, w, o
    <2>6. CASE Started(p, o) /\ Opens(p, m)
        <3>1. w.ranAt = p.period /\ p.period \in Periods /\ p.period \notin p.pause
            BY <2>2, <2>6 DEF Started, Opens
        <3>2. \A t \in Subjects : Arrived(t, p.period, sc, l)
            BY <2>6, <3>1 DEF Opens, Tells, Knows
        <3>3. p.period \in Paused => Resumed(s, p.period, sc, l)
            BY <3>1 DEF Knows
        <3>4. Knows(s, w, sc, l)
            BY <2>2, <2>3, <2>4, <3>1, <3>2, <3>3 DEF Knows
        <3> QED BY <3>4 DEF w, o
    <2>7. CASE Started(p, o) /\ Resumes1(s, p, m)
        <3>1. w.ranAt = p.period /\ p.period \in p.pause
            BY <2>2, <2>7 DEF Started, Resumes1
        <3>2. p.period \in Paused
            BY <3>1 DEF PageOf
        <3>3. Resumed(s, p.period, sc, l)
            BY <2>7 DEF Resumes1, Tells
        <3>4. Knows(s, w, sc, l)
            BY <2>2, <2>3, <2>4, <3>1, <3>2, <3>3 DEF Knows
        <3> QED BY <3>4 DEF w, o
    <2> QED BY <2>1, <2>2, <2>5, <2>6, <2>7 DEF Calm, SameRun
<1> QED BY <1>2, <1>3, <1>4, <1>5

\* Route keeps the invariant of the barrier.
LEMMA HandleSeen ==
    ASSUME RInv, NEW n \in Subjects \cup {"admin"}, Handle(n), NEW s \in Subjects
    PROVE  Seen(s, down'[s], replay'[s], page'[s], scope', log')
<1> DEFINE m == Taken(Head(up[n]))
<1>1. IInv /\ TypeInv /\ Seen(s, down[s], replay[s], page[s], scope, log)
    BY DEF RInv, IInv
<1>2. /\ m \in Routed /\ log' = Adding(log, m, scope')
      /\ down' = [t \in Subjects |-> Reached(t, down[t], m, conn[t], scope', log')]
      /\ UNCHANGED <<replay, browsers, reloads>>
    BY <1>1, HandleTypes
<1> HIDE DEF m
<1>3. \A t \in Subjects : scope'[t].period >= scope[t].period
    BY <1>1, SubjectIsHandled, AdminIsHandled
<1>4. IInv'
    BY <1>1, HandleStays
<1>5. \A t \in Subjects : scope[t].period \in Periods /\ scope'[t].period \in Periods
    BY <1>1, <1>4 DEF IInv, TypeInv
<1>6. \A t \in Subjects : scope[t].period \in Nat /\ scope'[t].period \in Nat
    BY <1>5, Basics
<1>7. down[s] \in Seq(Routed) /\ log \in Seq(Routed)
    BY <1>1 DEF TypeInv
<1>8. page[s] \in PageOf(s)
    BY <1>1, SubjectFits DEF Linked
<1>9. Seen(s, Reached(s, down[s], m, conn[s], scope', Adding(log, m, scope')), replay[s], page[s], scope',
           Adding(log, m, scope'))
    BY <1>1, <1>2, <1>3, <1>6, <1>7, <1>8, SeenStays
<1>10. down'[s] = Reached(s, down[s], m, conn[s], scope', log') /\ replay'[s] = replay[s] /\ page'[s] = page[s]
    BY <1>2 DEF browsers
<1> QED BY <1>2, <1>9, <1>10

\* A fresh page has seen nothing.
LEMMA FreshKnows ==
    ASSUME NEW s \in Subjects, NEW n \in PageNames, NEW sc, NEW l
    PROVE  Knows(s, FreshPage(n), sc, l)
<1> DEFINE p == FreshPage(n)
<1>1. p.period = Undefined /\ p.ranAt = Undefined /\ \A k \in Periods : p.received[k] = {}
    BY FreshIs DEF Unused, Idle
<1>2. Undefined \notin Paused
    BY Basics
<1> HIDE DEF p
<1>3. Knows(s, p, sc, l)
    BY <1>1, <1>2 DEF Knows
<1> QED BY <1>3 DEF p

(***************************************************************************)
(* A step of a browser changes what that browser has, and what another     *)
(* sends is not yet known.                                                 *)
(***************************************************************************)
LEMMA BrowserSeen ==
    ASSUME RInv, NEW s \in Subjects, UNCHANGED router,
           NEW d, NEW r, NEW p, Seen(s, d, r, p, scope, log),
           down' = [down EXCEPT ![s] = d], replay' = [replay EXCEPT ![s] = r], page' = [page EXCEPT ![s] = p]
    PROVE  \A t \in Subjects : Seen(t, down'[t], replay'[t], page'[t], scope', log')
<1>1. TypeInv /\ \A t \in Subjects : Seen(t, down[t], replay[t], page[t], scope, log)
    BY DEF RInv, IInv
<1>2. scope' = scope /\ log' = log
    BY DEF router
<1>3. down'[s] = d /\ replay'[s] = r /\ page'[s] = p
    BY <1>1 DEF TypeInv
<1>4. \A t \in Subjects \ {s} : down'[t] = down[t] /\ replay'[t] = replay[t] /\ page'[t] = page[t]
    BY <1>1 DEF TypeInv
<1>5. Seen(s, down'[s], replay'[s], page'[s], scope', log')
    BY <1>2, <1>3
<1>6. \A t \in Subjects \ {s} : Seen(t, down'[t], replay'[t], page'[t], scope', log')
    BY <1>1, <1>2, <1>4
<1> QED BY <1>5, <1>6

\* What of it is the same for every step of s.
LEMMA SubjectSees ==
    ASSUME RInv, NEW s \in Subjects
    PROVE  /\ IInv /\ Linked(s, down[s], replay[s], page[s], conn[s]) /\ page[s] \in PageOf(s)
           /\ down[s] \in Seq(Routed) /\ log \in Seq(Routed)
           /\ replay[s] \in Seq(Routed \cup {Begin, End})
           /\ \A m : Has(down[s], m) \/ Has(replay[s], m) => Tells(s, m, scope, log)
           /\ Knows(s, page[s], scope, log)
           /\ [down EXCEPT ![s] = down[s]] = down /\ [replay EXCEPT ![s] = replay[s]] = replay
           /\ [page EXCEPT ![s] = page[s]] = page
<1>1. IInv /\ TypeInv /\ Seen(s, down[s], replay[s], page[s], scope, log)
    BY DEF RInv, IInv
<1>2. down[s] \in Seq(Routed) /\ log \in Seq(Routed)
    BY <1>1 DEF TypeInv
<1>3. /\ Linked(s, down[s], replay[s], page[s], conn[s])
      /\ [down EXCEPT ![s] = down[s]] = down /\ [replay EXCEPT ![s] = replay[s]] = replay
      /\ [page EXCEPT ![s] = page[s]] = page
    BY <1>1, SubjectFits
<1> QED BY <1>1, <1>2, <1>3 DEF Seen, Linked

\* So does a browser that loads its page,
LEMMA LoadSeen ==
    ASSUME RInv, NEW s \in Subjects, Load(s)
    PROVE  \A t \in Subjects : Seen(t, down'[t], replay'[t], page'[t], scope', log')
<1> DEFINE n == PageServed(s)
<1>1. n \in PageNames
    BY SubjectFits DEF PageServed, PageNames, RInv
<1>2. Knows(s, FreshPage(n), scope, log)
    BY <1>1, FreshKnows
<1> HIDE DEF n
<1>3. Seen(s, down[s], replay[s], FreshPage(n), scope, log)
    BY <1>2 DEF RInv, Seen
<1>4. /\ UNCHANGED router /\ down' = [down EXCEPT ![s] = down[s]] /\ replay' = [replay EXCEPT ![s] = replay[s]]
      /\ page' = [page EXCEPT ![s] = FreshPage(n)]
    BY SubjectSees DEF Load, n
<1> QED BY <1>3, <1>4, BrowserSeen

\* one that is registered,
LEMMA RegisterSeen ==
    ASSUME RInv, NEW s \in Subjects, Register(s)
    PROVE  \A t \in Subjects : Seen(t, down'[t], replay'[t], page'[t], scope', log')
<1>1. Seen(s, down[s], replay[s], page[s], scope, log)
    BY DEF RInv
<1>2. /\ UNCHANGED router /\ down' = [down EXCEPT ![s] = down[s]] /\ replay' = [replay EXCEPT ![s] = replay[s]]
      /\ page' = [page EXCEPT ![s] = page[s]]
    BY SubjectSees DEF Register
<1> QED BY <1>1, <1>2, BrowserSeen

\* What is in the log has happened.
LEMMA SyncSeen ==
    ASSUME RInv, NEW s \in Subjects, Sync(s)
    PROVE  \A t \in Subjects : Seen(t, down'[t], replay'[t], page'[t], scope', log')
<1> DEFINE x == Replayed(s, log, scope)
           r == <<Begin>> \o x \o <<End>>
           R == Routed \cup {Begin, End}
<1>1. /\ \A m : Has(down[s], m) => Tells(s, m, scope, log)
      /\ Knows(s, page[s], scope, log)
      /\ log \in Seq(Routed)
    BY SubjectSees
<1>2. /\ UNCHANGED router /\ down' = [down EXCEPT ![s] = down[s]] /\ replay' = [replay EXCEPT ![s] = r]
      /\ page' = [page EXCEPT ![s] = page[s]]
    BY SubjectSees DEF Sync, Replayed, Begin, End
<1>3. x \in Seq(Routed) /\ \A m : Has(x, m) => Has(log, m)
    BY <1>1, ReplayedIs
<1> HIDE DEF x
<1>4. x \in Seq(R) /\ <<Begin>> \in Seq(R) /\ <<End>> \in Seq(R) /\ <<Begin>> \o x \in Seq(R)
    BY <1>3, Wider, OfOne, ConcatProperties
<1>5. r \in Seq(R)
    BY <1>4, ConcatProperties
<1>6. ASSUME NEW m, Has(r, m) PROVE Tells(s, m, scope, log)
    <2> HIDE DEF R
    <2>1. Has(x, m) \/ m = Begin \/ m = End
        <3> DEFINE b == <<Begin>> \o x
        <3>1. Has(b, m) <=> Has(<<Begin>>, m) \/ Has(x, m)
            BY <1>4, HasConcat
        <3>2. b \in Seq(R) /\ r = b \o <<End>>
            BY <1>4
        <3> HIDE DEF b
        <3>3. Has(r, m) <=> Has(b, m) \/ Has(<<End>>, m)
            BY <1>4, <3>2, HasConcat
        <3> QED BY <1>6, <3>1, <3>3, HasOne
    <2>2. CASE m = Begin \/ m = End
        BY <2>2 DEF Tells, Begin, End, Mark, Message
    <2>3. CASE Has(x, m)
        BY <1>3, <2>3 DEF Tells, Arrived, Resumed
    <2> QED BY <2>1, <2>2, <2>3
<1> HIDE DEF r
<1>7. Seen(s, down[s], r, page[s], scope, log)
    BY <1>1, <1>5, <1>6 DEF Seen
<1> QED BY <1>2, <1>7, BrowserSeen

\* one whose page receives a message,
LEMMA ReceiveSeen ==
    ASSUME RInv, NEW s \in Subjects, Receive(s)
    PROVE  \A t \in Subjects : Seen(t, down'[t], replay'[t], page'[t], scope', log')
<1>1. /\ page[s] \in PageOf(s) /\ page[s].out = <<>> /\ ~page[s].reloading
      /\ page[s].ranAt = Undefined => page[s].deferred \subseteq {page[s].period}
      /\ UNCHANGED router
    BY SubjectSees DEF Linked, Receive
<1>2. /\ down[s] \in Seq(Routed) /\ replay[s] \in Seq(Routed \cup {Begin, End})
      /\ \A m : Has(down[s], m) \/ Has(replay[s], m) => Tells(s, m, scope, log)
      /\ Knows(s, page[s], scope, log)
      /\ [down EXCEPT ![s] = down[s]] = down /\ [replay EXCEPT ![s] = replay[s]] = replay
    BY SubjectSees
<1>3. CASE replay[s] # <<>>
    <2> DEFINE m == Head(replay[s])
               w == Emptied(OnMessage(page[s], s, m))
    <2>1. /\ page' = [page EXCEPT ![s] = w] /\ replay' = [replay EXCEPT ![s] = Tail(replay[s])]
          /\ down' = [down EXCEPT ![s] = down[s]]
        BY <1>2, <1>3 DEF Receive, Show, Emptied
    <2>2. /\ m \in Routed \cup {Begin, End} /\ Tail(replay[s]) \in Seq(Routed \cup {Begin, End})
          /\ \A y : Has(replay[s], y) <=> (y = m \/ Has(Tail(replay[s]), y))
        BY <1>2, <1>3, HeadTailProperties, HasHeadTail
    <2> HIDE DEF m
    <2>3. Knows(s, w, scope, log)
        BY <1>1, <1>2, <2>2, ReceivedKnows
    <2> HIDE DEF w
    <2>4. Seen(s, down[s], Tail(replay[s]), w, scope, log)
        BY <1>2, <2>2, <2>3 DEF Seen
    <2> QED BY <1>1, <2>1, <2>4, BrowserSeen
<1>4. CASE replay[s] = <<>>
    <2> DEFINE m == Head(down[s])
               w == Emptied(OnMessage(page[s], s, m))
    <2>1. /\ page' = [page EXCEPT ![s] = w] /\ down' = [down EXCEPT ![s] = Tail(down[s])]
          /\ replay' = [replay EXCEPT ![s] = replay[s]] /\ down[s] # <<>>
        BY <1>2, <1>4 DEF Receive, Show, Emptied
    <2>2. /\ m \in Routed /\ Tail(down[s]) \in Seq(Routed)
          /\ \A y : Has(down[s], y) <=> (y = m \/ Has(Tail(down[s]), y))
        BY <1>2, <2>1, HeadTailProperties, HasHeadTail
    <2> HIDE DEF m
    <2>3. Knows(s, w, scope, log)
        BY <1>1, <1>2, <2>2, ReceivedKnows
    <2> HIDE DEF w
    <2>4. Seen(s, Tail(down[s]), replay[s], w, scope, log)
        BY <1>2, <2>2, <2>3 DEF Seen
    <2> QED BY <1>1, <2>1, <2>4, BrowserSeen
<1> QED BY <1>3, <1>4

\* The timeout and the script's own end leave alone what the page knows.
LEMMA ScriptSeen ==
    ASSUME RInv, NEW s \in Subjects, Timer(s) \/ Done(s)
    PROVE  \A t \in Subjects : Seen(t, down'[t], replay'[t], page'[t], scope', log')
<1> DEFINE p == page[s]
           off == [p EXCEPT !.timer = FALSE]
           o == IF Timer(s) THEN Send(off, s, Message("_next_period", s, p.period, 0, FALSE, 0)) ELSE NextPeriod(p)
           w == Emptied(o)
<1>1. /\ p \in PageOf(s) /\ Knows(s, p, scope, log) /\ Seen(s, down[s], replay[s], p, scope, log)
      /\ [down EXCEPT ![s] = down[s]] = down /\ [replay EXCEPT ![s] = replay[s]] = replay
    BY SubjectSees DEF RInv
<1>2. /\ UNCHANGED router /\ page' = [page EXCEPT ![s] = w]
      /\ down' = [down EXCEPT ![s] = down[s]] /\ replay' = [replay EXCEPT ![s] = replay[s]]
    BY <1>1 DEF Timer, Done, Show, Emptied
<1>3. w.received = p.received /\ w.ranAt = p.ranAt /\ w.pause = p.pause /\ w.period = p.period
    BY <1>1 DEF Send, SyncSend, DefaultSend, NextPeriod, Emptied, PageOf
<1> HIDE DEF w, p
<1>4. Seen(s, down[s], replay[s], w, scope, log)
    BY <1>1, <1>3 DEF Seen, Knows
<1> QED BY <1>2, <1>4, BrowserSeen

\* and one that leaves its page.
LEMMA LeaveSeen ==
    ASSUME RInv, NEW s \in Subjects, Leave(s)
    PROVE  \A t \in Subjects : Seen(t, down'[t], replay'[t], page'[t], scope', log')
<1>1. Knows(s, FreshPage("Blank"), scope, log)
    BY FreshKnows DEF PageNames
<1>2. /\ UNCHANGED router /\ down' = [down EXCEPT ![s] = <<>>] /\ replay' = [replay EXCEPT ![s] = <<>>]
      /\ page' = [page EXCEPT ![s] = FreshPage("Blank")]
    BY DEF Leave
<1>3. Seen(s, <<>>, <<>>, FreshPage("Blank"), scope, log)
    BY <1>1, EmptySeq, HasOne DEF Seen
<1> QED BY <1>2, <1>3, BrowserSeen

\* Every step keeps it.
LEMMA SeenSteps ==
    ASSUME RInv, [Next]_vars
    PROVE  \A t \in Subjects : Seen(t, down'[t], replay'[t], page'[t], scope', log')
<1>1. CASE \E n \in Subjects \cup {"admin"} : Handle(n)
    BY <1>1, HandleSeen
<1>2. CASE \E s \in Subjects : Browser(s) \/ UserReload(s)
    <2>1. PICK s \in Subjects : Browser(s) \/ UserReload(s)
        BY <1>2
    <2>2. CASE Load(s)
        BY <2>2, LoadSeen
    <2>3. CASE Register(s)
        BY <2>3, RegisterSeen
    <2>4. CASE Sync(s)
        BY <2>4, SyncSeen
    <2>5. CASE Receive(s)
        BY <2>5, ReceiveSeen
    <2>6. CASE Timer(s) \/ Done(s)
        BY <2>6, ScriptSeen
    <2>7. CASE Leave(s)
        BY <2>7, LeaveSeen
    <2> QED BY <2>1, <2>2, <2>3, <2>4, <2>5, <2>6, <2>7 DEF Browser, Reload, UserReload
<1>3. CASE ClickResume \/ UNCHANGED vars
    <2>1. down' = down /\ replay' = replay /\ page' = page /\ scope' = scope /\ log' = log
        BY <1>3 DEF ClickResume, vars, router, browsers
    <2> QED BY <2>1 DEF RInv
<1> QED BY <1>1, <1>2, <1>3 DEF Next

\* It holds when the session starts.
LEMMA InitSeen ==
    ASSUME Init
    PROVE  RInv
<1>1. IInv
    BY InitFits
<1>2. ASSUME NEW s \in Subjects PROVE Seen(s, down[s], replay[s], page[s], scope, log)
    <2>1. down[s] = <<>> /\ replay[s] = <<>> /\ page[s] = FreshPage("Wait")
        BY DEF Init
    <2>2. Knows(s, FreshPage("Wait"), scope, log)
        BY FreshKnows DEF PageNames
    <2>3. Seen(s, <<>>, <<>>, FreshPage("Wait"), scope, log)
        BY <2>2, EmptySeq, HasOne DEF Seen
    <2> QED BY <2>1, <2>3
<1> QED BY <1>1, <1>2 DEF RInv

(***************************************************************************)
(* What a page has counted at its barriers, or will count, has happened;   *)
(* scripts have started in a period only when everybody had arrived, or    *)
(* when the pause had been ended.                                          *)
(***************************************************************************)
LEMMA BarrierInvariant ==
    ASSUME ~AnyTime
    PROVE  Spec => []RInv
<1>1. Init => RInv
    BY InitSeen
<1>2. RInv /\ [Next]_vars => RInv'
    <2>1. SUFFICES ASSUME RInv, [Next]_vars PROVE RInv'
        OBVIOUS
    <2>2. IInv'
        BY <2>1, NextStays DEF RInv
    <2>3. \A t \in Subjects : Seen(t, down'[t], replay'[t], page'[t], scope', log')
        BY <2>1, SeenSteps
    <2> QED BY <2>2, <2>3 DEF RInv
<1> QED BY <1>1, <1>2, PTL DEF Spec

-----------------------------------------------------------------------------
(* The barrier and the pause                                               *)

\* Arrived says of the log what HasArrived says.
LEMMA ArrivedIs ==
    ASSUME log \in Seq(Routed), NEW t \in Subjects, NEW k, Arrived(t, k, scope, log)
    PROVE  HasArrived(t, k)
<1>1. CASE scope[t].period > k
    BY <1>1 DEF HasArrived
<1>2. CASE \E m : Has(log, m) /\ m.key = "_at_barrier" /\ m.sender = t /\ m.value = k
    <2>1. PICK m : Has(log, m) /\ m.key = "_at_barrier" /\ m.sender = t /\ m.value = k
        BY <1>2
    <2>2. m \in ToSet(log)
        BY <2>1 DEF Has, ToSet
    <2> QED BY <2>1, <2>2 DEF HasArrived
<1> QED BY <1>1, <1>2 DEF Arrived

(***************************************************************************)
(* Nobody's scripts start a period without "pause" before every subject    *)
(* has been at its barrier (StartTogether; checkBarrier in                 *)
(* redwoodSubject.js:379), for any number of subjects, rows and reloads.   *)
(***************************************************************************)
THEOREM SubjectsStartTogether ==
    ASSUME ~AnyTime
    PROVE  Spec => []StartTogether
<1>1. RInv => StartTogether
    <2>1. SUFFICES ASSUME RInv, NEW s \in Subjects, NEW t \in Subjects,
                          page[s].ranAt \notin Paused \cup {Undefined}
                   PROVE  HasArrived(t, page[s].ranAt)
        BY DEF StartTogether
    <2>2. Arrived(t, page[s].ranAt, scope, log)
        BY <2>1 DEF RInv, Seen, Knows
    <2>3. log \in Seq(Routed)
        BY <2>1 DEF RInv, IInv, TypeInv
    <2> QED BY <2>2, <2>3, ArrivedIs
<1>2. Spec => []RInv
    BY BarrierInvariant
<1> QED BY <1>1, <1>2, PTL

(***************************************************************************)
(* Nobody's scripts start a period with "pause" before the admin's resume  *)
(* for it (PausedUntilResumed; redwoodSubject.js:441), although resumes    *)
(* are replayed.                                                           *)
(***************************************************************************)
THEOREM PausesAreKept ==
    ASSUME ~AnyTime
    PROVE  Spec => []PausedUntilResumed
<1>1. RInv => PausedUntilResumed
    <2>1. SUFFICES ASSUME RInv, NEW s \in Subjects, page[s].ranAt \in Paused,
                          scope[s].period = page[s].ranAt
                   PROVE  \E m \in ToSet(log) : m.key = "__resume__" /\ m.sender = s
                                                /\ m.value = page[s].ranAt
        BY DEF PausedUntilResumed
    <2>2. Resumed(s, page[s].ranAt, scope, log)
        BY <2>1 DEF RInv, Seen, Knows
    <2>3. page[s].ranAt \in Nat
        <3>1. Paused \subseteq 1 .. Rows
            BY PeriodsAssumption
        <3>2. page[s].ranAt \in 1 .. Rows
            BY <2>1, <3>1
        <3> QED BY <3>2
    <2>4. PICK m : Has(log, m) /\ m.key = "__resume__" /\ m.sender = s /\ m.value = page[s].ranAt
        BY <2>1, <2>2, <2>3 DEF Resumed
    <2>5. log \in Seq(Routed)
        BY <2>1 DEF RInv, IInv, TypeInv
    <2>6. m \in ToSet(log)
        BY <2>4 DEF Has, ToSet
    <2> QED BY <2>4, <2>6
<1>2. Spec => []RInv
    BY BarrierInvariant
<1> QED BY <1>1, <1>2, PTL
=============================================================================
