--------------------------- MODULE ProgressProofs ---------------------------
(***************************************************************************)
(* That the subjects get on, for any number of subjects, rows and reloads, *)
(* in a session without paused periods in which nobody reloads a page      *)
(* while its period changes: everybody can send in a period that           *)
(* everybody is in, and when nothing is under way everybody has started    *)
(* the last page.                                                          *)
(*                                                                         *)
(* SubjectProofs knows in which stage of its period a subject is, and what *)
(* a page has seen has happened.  The converse is proved here: a page that *)
(* waits, with what is still on its way to it, comes to know what the log  *)
(* says of everybody (Follows), it sends or has sent what the others wait  *)
(* for (Says, HasAnnounced, Ready), and nobody leaves a barrier behind     *)
(* that somebody has not been at (Passed).  Whoever waits then is either   *)
(* let go or waits for somebody who is behind, and nobody is behind the    *)
(* last one (NobodyRests).                                                 *)
(***************************************************************************)
EXTENDS SubjectProofs

-----------------------------------------------------------------------------
(* Who counts for whom                                                     *)

\* The three messages by which a page counts t in period k.
Enters(m, t, k) == m.key = "__set_period__" /\ m.sender = t /\ m.value = k

Loaded(m, t, k) == m.key = "__page_loaded__" /\ m.sender = t /\ m.period = k

Arrives(m, t, k) == m.key = "_at_barrier" /\ m.sender = t /\ m.value = k

\* q has one of them.
Entry(q, t, k) == \E i \in DOMAIN q : Enters(q[i], t, k)

Loading(q, t, k) == \E i \in DOMAIN q : Loaded(q[i], t, k)

Arrival(q, t, k) == \E i \in DOMAIN q : Arrives(q[i], t, k)

(***************************************************************************)
(* Whoever believes t in period v and hears q up to n counts t among those *)
(* who have loaded the page of period k.                                   *)
(***************************************************************************)
CountsBefore(v, q, n, t, k) ==
    \E j \in DOMAIN q :
        /\ j < n /\ Loaded(q[j], t, k)
        /\ v = k \/ \E i \in DOMAIN q : i < j /\ Enters(q[i], t, k)

Counts(v, q, t, k) ==
    \E j \in DOMAIN q :
        /\ Loaded(q[j], t, k)
        /\ v = k \/ \E i \in DOMAIN q : i < j /\ Enters(q[i], t, k)

(***************************************************************************)
(* t is counted, if it is not in e already, before it is at the barrier.    *)
(***************************************************************************)
Orderly(v, e, q, t, k) ==
    \A n \in DOMAIN q : Arrives(q[n], t, k) => t \in e \/ CountsBefore(v, q, n, t, k)

(***************************************************************************)
(* Once t is in period k, q does not say that it is in another one.        *)
(***************************************************************************)
NoBack(v, q, t, k) ==
    \A j \in DOMAIN q :
        (q[j].key = "__set_period__" /\ q[j].sender = t /\ q[j].value # k) =>
            v # k /\ \A i \in DOMAIN q : i < j => ~Enters(q[i], t, k)

(***************************************************************************)
(* A page in period k knows of t what the log l says, when it has heard w: *)
(* it believes t in period v, has counted those in e and seen those in b   *)
(* at the barrier.                                                         *)
(***************************************************************************)
Follows(v, e, b, w, l, t, k) ==
    /\ NoBack(v, w, t, k)
    /\ Arrival(l, t, k) => t \in b \/ Arrival(w, t, k)
    /\ Entry(l, t, k) =>
          /\ v = k \/ Entry(w, t, k)
          /\ Counts(Undefined, l, t, k) => t \in e \/ Counts(v, w, t, k)
          /\ Orderly(v, e, w, t, k)
          /\ t \in b => t \in e

\* What a page believes of t after x.
Learns(v, x, t, v2) == v2 = IF x.key = "__set_period__" /\ x.sender = t THEN x.value ELSE v

\* The rest of a sequence.
LEMMA TailIs ==
    ASSUME NEW S, NEW q \in Seq(S), q # <<>>
    PROVE  /\ Len(q) \in Nat /\ Len(q) >= 1 /\ DOMAIN q = 1 .. Len(q) /\ Head(q) = q[1]
           /\ Tail(q) \in Seq(S) /\ DOMAIN Tail(q) = 1 .. Len(q) - 1
           /\ \A i \in 1 .. Len(q) - 1 : Tail(q)[i] = q[i + 1]
BY HeadTailProperties, LenProperties, EmptySeq

(***************************************************************************)
(* What a page comes to know by the first message of q and the rest is     *)
(* what it comes to know by q.                                             *)
(***************************************************************************)
LEMMA CountsTail ==
    ASSUME NEW S, NEW q \in Seq(S), q # <<>>, NEW v, NEW v2, NEW t, NEW k, Learns(v, Head(q), t, v2)
    PROVE  /\ Counts(v2, Tail(q), t, k) => Counts(v, q, t, k)
           /\ NoBack(v, q, t, k) =>
                /\ NoBack(v2, Tail(q), t, k)
                /\ Counts(v, q, t, k) => (v = k /\ Loaded(Head(q), t, k)) \/ Counts(v2, Tail(q), t, k)
<1> DEFINE N == Len(q)
           T == Tail(q)
           x == Head(q)
<1>1. /\ N \in Nat /\ N >= 1 /\ DOMAIN q = 1 .. N /\ x = q[1]
      /\ DOMAIN T = 1 .. N - 1 /\ \A i \in 1 .. N - 1 : T[i] = q[i + 1]
    BY TailIs
<1> HIDE DEF N, T, x
<1>2. v2 = IF x.key = "__set_period__" /\ x.sender = t THEN x.value ELSE v
    BY DEF Learns, x
<1>3. ASSUME Counts(v2, T, t, k) PROVE Counts(v, q, t, k)
    <2>1. PICK j \in 1 .. N - 1 : /\ Loaded(T[j], t, k)
                                  /\ v2 = k \/ \E i \in 1 .. N - 1 : i < j /\ Enters(T[i], t, k)
        BY <1>1, <1>3 DEF Counts
    <2>2. j + 1 \in 1 .. N /\ Loaded(q[j + 1], t, k)
        BY <1>1, <2>1
    <2>3. CASE v2 = k
        <3>1. v = k \/ Enters(q[1], t, k)
            BY <1>1, <1>2, <2>3 DEF Enters
        <3>2. 1 \in 1 .. N /\ 1 < j + 1
            BY <1>1, <2>1
        <3> QED BY <1>1, <2>2, <3>1, <3>2 DEF Counts
    <2>4. CASE \E i \in 1 .. N - 1 : i < j /\ Enters(T[i], t, k)
        <3>1. PICK i \in 1 .. N - 1 : i < j /\ Enters(T[i], t, k)
            BY <2>4
        <3>2. i + 1 \in 1 .. N /\ i + 1 < j + 1 /\ Enters(q[i + 1], t, k)
            BY <1>1, <2>1, <3>1
        <3> QED BY <1>1, <2>2, <3>2 DEF Counts
    <2> QED BY <2>1, <2>3, <2>4
<1>4. ASSUME NoBack(v, q, t, k) PROVE NoBack(v2, T, t, k)
    <2>1. SUFFICES ASSUME NEW j \in 1 .. N - 1,
                          T[j].key = "__set_period__", T[j].sender = t, T[j].value # k
                   PROVE  v2 # k /\ \A i \in 1 .. N - 1 : i < j => ~Enters(T[i], t, k)
        BY <1>1 DEF NoBack
    <2>2. j + 1 \in 1 .. N /\ q[j + 1] = T[j]
        BY <1>1
    <2>3. v # k /\ \A i \in 1 .. N : i < j + 1 => ~Enters(q[i], t, k)
        BY <1>1, <1>4, <2>1, <2>2 DEF NoBack
    <2>4. 1 \in 1 .. N /\ 1 < j + 1
        BY <1>1
    <2>5. ~Enters(x, t, k)
        BY <1>1, <2>3, <2>4
    <2>6. v2 # k
        BY <1>2, <2>3, <2>5 DEF Enters
    <2>7. ASSUME NEW i \in 1 .. N - 1, i < j PROVE ~Enters(T[i], t, k)
        <3>1. i + 1 \in 1 .. N /\ i + 1 < j + 1
            BY <1>1, <2>7
        <3> QED BY <1>1, <2>3, <3>1
    <2> QED BY <2>6, <2>7
<1>5. ASSUME NoBack(v, q, t, k), Counts(v, q, t, k)
      PROVE  (v = k /\ Loaded(x, t, k)) \/ Counts(v2, T, t, k)
    <2>1. PICK j \in 1 .. N : /\ Loaded(q[j], t, k)
                              /\ v = k \/ \E i \in 1 .. N : i < j /\ Enters(q[i], t, k)
        BY <1>1, <1>5 DEF Counts
    <2>2. CASE j = 1
        <3>1. ~\E i \in 1 .. N : i < j
            BY <2>2
        <3> QED BY <1>1, <2>1, <2>2, <3>1
    <2>3. CASE j # 1
        <3>1. j - 1 \in 1 .. N - 1 /\ Loaded(T[j - 1], t, k)
            <4>1. j - 1 \in 1 .. N - 1 /\ (j - 1) + 1 = j
                BY <1>1, <2>3
            <4> QED BY <1>1, <2>1, <4>1
        <3>2. CASE v = k
            <4>1. v2 = k
                <5>1. 1 \in 1 .. N
                    BY <1>1
                <5> QED BY <1>1, <1>2, <1>5, <3>2, <5>1 DEF NoBack
            <4> QED BY <1>1, <3>1, <4>1 DEF Counts
        <3>3. CASE \E i \in 1 .. N : i < j /\ Enters(q[i], t, k)
            <4>1. PICK i \in 1 .. N : i < j /\ Enters(q[i], t, k)
                BY <3>3
            <4>2. CASE i = 1
                <5>1. v2 = k
                    BY <1>1, <1>2, <4>1, <4>2 DEF Enters
                <5> QED BY <1>1, <3>1, <5>1 DEF Counts
            <4>3. CASE i # 1
                <5>1. i - 1 \in 1 .. N - 1 /\ (i - 1) + 1 = i /\ i - 1 < j - 1
                    BY <1>1, <4>1, <4>3
                <5>2. Enters(T[i - 1], t, k)
                    BY <1>1, <4>1, <5>1
                <5> QED BY <1>1, <3>1, <5>1, <5>2 DEF Counts
            <4> QED BY <4>2, <4>3
        <3> QED BY <2>1, <3>2, <3>3
    <2> QED BY <2>2, <2>3
<1> QED BY <1>3, <1>4, <1>5 DEF T, x

\* So it is with the order in which it does.
LEMMA OrderlyTail ==
    ASSUME NEW S, NEW q \in Seq(S), q # <<>>, NEW v, NEW v2, NEW t, NEW k, Learns(v, Head(q), t, v2),
           NoBack(v, q, t, k), NEW e, Orderly(v, e, q, t, k),
           NEW e2, t \in e => t \in e2, v = k /\ Loaded(Head(q), t, k) => t \in e2
    PROVE  Orderly(v2, e2, Tail(q), t, k) /\ (Arrives(Head(q), t, k) => t \in e)
<1> DEFINE N == Len(q)
           T == Tail(q)
           x == Head(q)
<1>1. /\ N \in Nat /\ N >= 1 /\ DOMAIN q = 1 .. N /\ x = q[1]
      /\ DOMAIN T = 1 .. N - 1 /\ \A i \in 1 .. N - 1 : T[i] = q[i + 1]
    BY TailIs
<1> HIDE DEF N, T, x
<1>2. v2 = IF x.key = "__set_period__" /\ x.sender = t THEN x.value ELSE v
    BY DEF Learns, x
<1>3. v = k /\ Loaded(x, t, k) => t \in e2
    BY DEF x
<1>4. ASSUME NEW n \in 1 .. N - 1, Arrives(T[n], t, k), t \notin e2
      PROVE  CountsBefore(v2, T, n, t, k)
    <2>1. n + 1 \in 1 .. N /\ q[n + 1] = T[n]
        BY <1>1
    <2>2. CountsBefore(v, q, n + 1, t, k)
        BY <1>1, <1>4, <2>1 DEF Orderly
    <2>3. PICK j \in 1 .. N : /\ j < n + 1 /\ Loaded(q[j], t, k)
                              /\ v = k \/ \E i \in 1 .. N : i < j /\ Enters(q[i], t, k)
        BY <1>1, <2>2 DEF CountsBefore
    <2>4. j # 1
        <3>1. SUFFICES ASSUME j = 1 PROVE FALSE
            OBVIOUS
        <3>2. ~\E i \in 1 .. N : i < j
            BY <3>1
        <3> QED BY <1>1, <1>3, <1>4, <2>3, <3>1, <3>2
    <2>5. j - 1 \in 1 .. N - 1 /\ (j - 1) + 1 = j /\ j - 1 < n
        BY <1>1, <2>3, <2>4
    <2>6. Loaded(T[j - 1], t, k)
        BY <1>1, <2>3, <2>5
    <2>7. CASE v = k
        <3>1. v2 = k
            <4>1. 1 \in 1 .. N
                BY <1>1
            <4> QED BY <1>1, <1>2, <2>7, <4>1 DEF NoBack
        <3> QED BY <1>1, <2>5, <2>6, <3>1 DEF CountsBefore
    <2>8. CASE \E i \in 1 .. N : i < j /\ Enters(q[i], t, k)
        <3>1. PICK i \in 1 .. N : i < j /\ Enters(q[i], t, k)
            BY <2>8
        <3>2. CASE i = 1
            <4>1. v2 = k
                BY <1>1, <1>2, <3>1, <3>2 DEF Enters
            <4> QED BY <1>1, <2>5, <2>6, <4>1 DEF CountsBefore
        <3>3. CASE i # 1
            <4>1. i - 1 \in 1 .. N - 1 /\ (i - 1) + 1 = i /\ i - 1 < j - 1
                BY <1>1, <3>1, <3>3
            <4>2. Enters(T[i - 1], t, k)
                BY <1>1, <3>1, <4>1
            <4> QED BY <1>1, <2>5, <2>6, <4>1, <4>2 DEF CountsBefore
        <3> QED BY <3>2, <3>3
    <2> QED BY <2>3, <2>7, <2>8
<1>5. ASSUME Arrives(x, t, k) PROVE t \in e
    <2>1. 1 \in 1 .. N /\ ~\E j \in 1 .. N : j < 1
        BY <1>1
    <2> QED BY <1>1, <1>5, <2>1 DEF Orderly, CountsBefore
<1> QED BY <1>1, <1>4, <1>5 DEF Orderly, T, x

\* Two sequences one behind the other.
LEMMA ConcatIs ==
    ASSUME NEW S, NEW a \in Seq(S), NEW b \in Seq(S)
    PROVE  /\ Len(a) \in Nat /\ Len(b) \in Nat /\ DOMAIN a = 1 .. Len(a) /\ DOMAIN b = 1 .. Len(b)
           /\ a \o b \in Seq(S) /\ DOMAIN (a \o b) = 1 .. Len(a) + Len(b)
           /\ \A i \in 1 .. Len(a) : (a \o b)[i] = a[i]
           /\ \A i \in 1 .. Len(b) : (a \o b)[Len(a) + i] = b[i]
<1>1. /\ a \o b \in Seq(S) /\ Len(a \o b) = Len(a) + Len(b)
      /\ \A i \in 1 .. Len(a) + Len(b) : (a \o b)[i] = IF i <= Len(a) THEN a[i] ELSE b[i - Len(a)]
    BY ConcatProperties
<1>2. /\ Len(a) \in Nat /\ Len(b) \in Nat /\ DOMAIN a = 1 .. Len(a) /\ DOMAIN b = 1 .. Len(b)
      /\ DOMAIN (a \o b) = 1 .. Len(a \o b)
    BY <1>1, LenProperties
<1>3. ASSUME NEW i \in 1 .. Len(a) PROVE (a \o b)[i] = a[i]
    BY <1>1, <1>2
<1>4. ASSUME NEW i \in 1 .. Len(b) PROVE (a \o b)[Len(a) + i] = b[i]
    <2>1. Len(a) + i \in 1 .. Len(a) + Len(b) /\ ~(Len(a) + i <= Len(a)) /\ (Len(a) + i) - Len(a) = i
        BY <1>2
    <2> QED BY <1>1, <2>1
<1> QED BY <1>1, <1>2, <1>3, <1>4

\* The same in terms of what a sequence has.
LEMMA EntryHas ==
    ASSUME NEW q, NEW t, NEW k
    PROVE  /\ Arrival(q, t, k) <=> \E x : Has(q, x) /\ Arrives(x, t, k)
           /\ Entry(q, t, k) <=> \E x : Has(q, x) /\ Enters(x, t, k)
           /\ Loading(q, t, k) <=> \E x : Has(q, x) /\ Loaded(x, t, k)
BY DEF Arrival, Entry, Loading, Has

\* A sequence has what its parts have.
LEMMA PartsHave ==
    ASSUME NEW S, NEW a \in Seq(S), NEW b \in Seq(S), NEW t, NEW k
    PROVE  /\ Entry(a \o b, t, k) <=> Entry(a, t, k) \/ Entry(b, t, k)
           /\ Loading(a \o b, t, k) <=> Loading(a, t, k) \/ Loading(b, t, k)
           /\ Arrival(a \o b, t, k) <=> Arrival(a, t, k) \/ Arrival(b, t, k)
<1> DEFINE c == a \o b
<1>1. \A x : Has(c, x) <=> Has(a, x) \/ Has(b, x)
    BY HasConcat
<1> HIDE DEF c
<1>2. Entry(c, t, k) <=> Entry(a, t, k) \/ Entry(b, t, k)
    BY <1>1, EntryHas
<1>3. Loading(c, t, k) <=> Loading(a, t, k) \/ Loading(b, t, k)
    BY <1>1, EntryHas
<1>4. Arrival(c, t, k) <=> Arrival(a, t, k) \/ Arrival(b, t, k)
    BY <1>1, EntryHas
<1> QED BY <1>2, <1>3, <1>4 DEF c

\* And one more message.
LEMMA OneHave ==
    ASSUME NEW x, NEW t, NEW k
    PROVE  /\ Entry(<<x>>, t, k) <=> Enters(x, t, k)
           /\ Loading(<<x>>, t, k) <=> Loaded(x, t, k)
           /\ Arrival(<<x>>, t, k) <=> Arrives(x, t, k)
           /\ ~Entry(<<>>, t, k) /\ ~Loading(<<>>, t, k) /\ ~Arrival(<<>>, t, k)
           /\ \A v : ~Counts(v, <<>>, t, k)
BY DEF Entry, Loading, Arrival, Counts

\* What is appended is had.
LEMMA AppendHave ==
    ASSUME NEW S, NEW q \in Seq(S), NEW x \in S, NEW t, NEW k
    PROVE  /\ Entry(Append(q, x), t, k) <=> Entry(q, t, k) \/ Enters(x, t, k)
           /\ Loading(Append(q, x), t, k) <=> Loading(q, t, k) \/ Loaded(x, t, k)
           /\ Arrival(Append(q, x), t, k) <=> Arrival(q, t, k) \/ Arrives(x, t, k)
<1>1. Append(q, x) = q \o <<x>> /\ <<x>> \in Seq(S)
    BY AppendIsConcat, OfOne
<1> DEFINE one == <<x>>
<1>2. /\ Entry(one, t, k) <=> Enters(x, t, k)
      /\ Loading(one, t, k) <=> Loaded(x, t, k)
      /\ Arrival(one, t, k) <=> Arrives(x, t, k)
    BY OneHave
<1>3. Append(q, x) = q \o one /\ one \in Seq(S)
    BY <1>1
<1> HIDE DEF one
<1>4. /\ Entry(q \o one, t, k) <=> Entry(q, t, k) \/ Entry(one, t, k)
      /\ Loading(q \o one, t, k) <=> Loading(q, t, k) \/ Loading(one, t, k)
      /\ Arrival(q \o one, t, k) <=> Arrival(q, t, k) \/ Arrival(one, t, k)
    BY <1>3, PartsHave
<1> QED BY <1>2, <1>3, <1>4

\* What is heard first or not at all.
LEMMA HeadTailHave ==
    ASSUME NEW S, NEW q \in Seq(S), q # <<>>, NEW t, NEW k
    PROVE  /\ Entry(q, t, k) <=> Enters(Head(q), t, k) \/ Entry(Tail(q), t, k)
           /\ Loading(q, t, k) <=> Loaded(Head(q), t, k) \/ Loading(Tail(q), t, k)
           /\ Arrival(q, t, k) <=> Arrives(Head(q), t, k) \/ Arrival(Tail(q), t, k)
<1> DEFINE N == Len(q)
           T == Tail(q)
<1>1. /\ N \in Nat /\ N >= 1 /\ DOMAIN q = 1 .. N /\ Head(q) = q[1]
      /\ DOMAIN T = 1 .. N - 1 /\ \A i \in 1 .. N - 1 : T[i] = q[i + 1]
    BY TailIs
<1> HIDE DEF N, T
<1>2. \A i \in 1 .. N : i = 1 \/ (i - 1 \in 1 .. N - 1 /\ (i - 1) + 1 = i)
    BY <1>1
<1>3. 1 \in 1 .. N /\ \A i \in 1 .. N - 1 : i + 1 \in 1 .. N
    BY <1>1
<1>4. Entry(q, t, k) <=> Enters(Head(q), t, k) \/ Entry(T, t, k)
    BY <1>1, <1>2, <1>3 DEF Entry
<1>5. Loading(q, t, k) <=> Loaded(Head(q), t, k) \/ Loading(T, t, k)
    BY <1>1, <1>2, <1>3 DEF Loading
<1>6. Arrival(q, t, k) <=> Arrives(Head(q), t, k) \/ Arrival(T, t, k)
    BY <1>1, <1>2, <1>3 DEF Arrival
<1> QED BY <1>4, <1>5, <1>6 DEF T

(***************************************************************************)
(* What b adds to what a says.                                             *)
(***************************************************************************)
LEMMA CountsConcat ==
    ASSUME NEW S, NEW a \in Seq(S), NEW b \in Seq(S), NEW v, NEW t, NEW k
    PROVE  /\ Counts(v, a, t, k) => Counts(v, a \o b, t, k)
           /\ \A e : Orderly(v, e, a, t, k) /\ (Arrival(b, t, k) => t \in e \/ Counts(v, a, t, k))
                       => Orderly(v, e, a \o b, t, k)
<1> DEFINE c == a \o b
           A == Len(a)
           B == Len(b)
<1>1. /\ A \in Nat /\ B \in Nat /\ DOMAIN a = 1 .. A /\ DOMAIN b = 1 .. B /\ DOMAIN c = 1 .. A + B
      /\ \A i \in 1 .. A : c[i] = a[i]
      /\ \A i \in 1 .. B : c[A + i] = b[i]
    BY ConcatIs
<1> HIDE DEF c, A, B
<1>2. \A i \in 1 .. A + B : i \in 1 .. A \/ (i - A \in 1 .. B /\ A + (i - A) = i)
    BY <1>1
<1>3. (\A i \in 1 .. A : i \in 1 .. A + B) /\ (\A i \in 1 .. B : A + i \in 1 .. A + B)
    BY <1>1
<1>4. Counts(v, a, t, k) => Counts(v, c, t, k)
    BY <1>1, <1>3 DEF Counts
<1>5. ASSUME NEW e, Orderly(v, e, a, t, k), Arrival(b, t, k) => t \in e \/ Counts(v, a, t, k)
      PROVE  Orderly(v, e, c, t, k)
    <2>1. SUFFICES ASSUME NEW n \in 1 .. A + B, Arrives(c[n], t, k), t \notin e
                   PROVE  CountsBefore(v, c, n, t, k)
        BY <1>1 DEF Orderly
    <2>2. CASE n \in 1 .. A
        <3>1. CountsBefore(v, a, n, t, k)
            BY <1>1, <1>5, <2>1, <2>2 DEF Orderly
        <3> QED BY <1>1, <1>3, <3>1 DEF CountsBefore
    <2>3. CASE n \notin 1 .. A
        <3>1. n - A \in 1 .. B /\ A + (n - A) = n
            BY <1>2, <2>3
        <3>2. Arrives(b[n - A], t, k)
            BY <1>1, <2>1, <3>1
        <3>3. Counts(v, a, t, k)
            BY <1>1, <1>5, <2>1, <3>1, <3>2 DEF Arrival
        <3>4. PICK j \in 1 .. A : /\ Loaded(a[j], t, k)
                                  /\ v = k \/ \E i \in 1 .. A : i < j /\ Enters(a[i], t, k)
            BY <1>1, <3>3 DEF Counts
        <3>5. j < n
            BY <1>1, <3>1, <3>4
        <3> QED BY <1>1, <1>3, <3>4, <3>5 DEF CountsBefore
    <2> QED BY <2>2, <2>3
<1> QED BY <1>4, <1>5 DEF c

\* And counts, if it comes after the period.
LEMMA CountsAppend ==
    ASSUME NEW S, NEW q \in Seq(S), NEW x \in S, NEW v, NEW t, NEW k
    PROVE  LET c == Append(q, x) IN
           /\ Counts(v, q, t, k) => Counts(v, c, t, k)
           /\ Counts(v, c, t, k) <=> Counts(v, q, t, k) \/ (Loaded(x, t, k) /\ (v = k \/ Entry(q, t, k)))
           /\ \A e : Orderly(v, e, q, t, k) /\ (Arrives(x, t, k) => t \in e \/ Counts(v, q, t, k))
                       => Orderly(v, e, c, t, k)
           /\ NoBack(v, q, t, k) /\ (x.key = "__set_period__" /\ x.sender = t => x.value = k)
                       => NoBack(v, c, t, k)
<1> DEFINE c == Append(q, x)
           A == Len(q)
<1>1. c = q \o <<x>> /\ <<x>> \in Seq(S)
    BY AppendIsConcat, OfOne
<1>2. /\ A \in Nat /\ DOMAIN q = 1 .. A /\ DOMAIN c = 1 .. A + 1
      /\ (\A i \in 1 .. A : c[i] = q[i]) /\ c[A + 1] = x
    BY AppendProperties, LenProperties
<1>3. Counts(v, q, t, k) => Counts(v, c, t, k)
    BY <1>1, CountsConcat
<1>4. \A e : Orderly(v, e, q, t, k) /\ (Arrives(x, t, k) => t \in e \/ Counts(v, q, t, k)) => Orderly(v, e, c, t, k)
    BY <1>1, CountsConcat, OneHave
<1> HIDE DEF c, A
<1>5. \A i \in 1 .. A + 1 : i \in 1 .. A \/ i = A + 1
    BY <1>2
<1>6. (\A i \in 1 .. A : i \in 1 .. A + 1 /\ i < A + 1) /\ A + 1 \in 1 .. A + 1
    BY <1>2
<1>7. ASSUME Loaded(x, t, k), v = k \/ Entry(q, t, k) PROVE Counts(v, c, t, k)
    BY <1>2, <1>6, <1>7 DEF Counts, Entry
<1>8. ASSUME Counts(v, c, t, k) PROVE Counts(v, q, t, k) \/ (Loaded(x, t, k) /\ (v = k \/ Entry(q, t, k)))
    <2>1. PICK j \in 1 .. A + 1 : /\ Loaded(c[j], t, k)
                                  /\ v = k \/ \E i \in 1 .. A + 1 : i < j /\ Enters(c[i], t, k)
        BY <1>2, <1>8 DEF Counts
    <2>2. v = k \/ \E i \in 1 .. A : i < j /\ Enters(q[i], t, k)
        <3>1. ASSUME NEW i \in 1 .. A + 1, i < j, Enters(c[i], t, k)
              PROVE  i \in 1 .. A /\ Enters(q[i], t, k)
            BY <1>2, <3>1
        <3> QED BY <2>1, <3>1
    <2>3. CASE j \in 1 .. A
        BY <1>2, <2>1, <2>2, <2>3 DEF Counts
    <2>4. CASE j = A + 1
        BY <1>2, <2>1, <2>2, <2>4 DEF Entry
    <2> QED BY <1>5, <2>3, <2>4
<1>9. ASSUME NoBack(v, q, t, k), x.key = "__set_period__" /\ x.sender = t => x.value = k
      PROVE  NoBack(v, c, t, k)
    <2>1. SUFFICES ASSUME NEW j \in 1 .. A + 1, c[j].key = "__set_period__", c[j].sender = t, c[j].value # k
                   PROVE  v # k /\ \A i \in 1 .. A + 1 : i < j => ~Enters(c[i], t, k)
        BY <1>2 DEF NoBack
    <2>2. j \in 1 .. A
        BY <1>2, <1>5, <1>9, <2>1
    <2>3. v # k /\ \A i \in 1 .. A : i < j => ~Enters(q[i], t, k)
        BY <1>2, <1>9, <2>1, <2>2 DEF NoBack
    <2>4. ASSUME NEW i \in 1 .. A + 1, i < j PROVE ~Enters(c[i], t, k)
        <3>1. i \in 1 .. A
            BY <1>2, <2>2, <2>4
        <3> QED BY <1>2, <2>3, <2>4, <3>1
    <2> QED BY <2>3, <2>4
<1> QED BY <1>3, <1>4, <1>7, <1>8, <1>9 DEF c

(***************************************************************************)
(* What Only picks from q says what q says, if the messages that count are *)
(* picked.                                                                 *)
(***************************************************************************)
Keeps(q, K, t, k) == \A i \in DOMAIN q : Enters(q[i], t, k) \/ Loaded(q[i], t, k) => q[i] \in K

\* What is picked counts no more, and as much if nothing that counts is left out.
LEMMA OnlyCounts ==
    ASSUME NEW S, NEW q \in Seq(S), NEW K, NEW v, NEW t, NEW k
    PROVE  LET r == Only(q, K) IN
           /\ Counts(v, r, t, k) => Counts(v, q, t, k)
           /\ Keeps(q, K, t, k) /\ Counts(v, q, t, k) => Counts(v, r, t, k)
           /\ \A e : Keeps(q, K, t, k) /\ Orderly(v, e, q, t, k) => Orderly(v, e, r, t, k)
<1> DEFINE r == Only(q, K)
<1>1. r \in Seq(S)
    BY OnlyPicks
<1>2. PICK h : Picks(q, K, r, h)
    BY OnlyPicks
<1> DEFINE R == Len(r)
<1>3. DOMAIN r = 1 .. R /\ R \in Nat /\ Len(q) \in Nat /\ DOMAIN q = 1 .. Len(q)
    BY <1>1, LenProperties
<1>4. /\ \A i \in 1 .. R : h[i] \in DOMAIN q /\ q[h[i]] \in K /\ r[i] = q[h[i]]
      /\ \A i, j \in 1 .. R : i < j => h[i] < h[j]
      /\ \A n \in DOMAIN q : q[n] \in K => \E i \in 1 .. R : h[i] = n
    BY <1>2 DEF Picks
<1> HIDE DEF r, R
<1>5. \A i, j \in 1 .. R : h[i] < h[j] => i < j
    <2>1. SUFFICES ASSUME NEW i \in 1 .. R, NEW j \in 1 .. R, h[i] < h[j], ~(i < j) PROVE FALSE
        OBVIOUS
    <2>2. h[i] \in Nat /\ h[j] \in Nat
        BY <1>3, <1>4
    <2>3. i = j \/ j < i
        BY <2>1, <1>3
    <2>4. i = j \/ h[j] < h[i]
        BY <2>3, <1>4
    <2> QED BY <2>1, <2>2, <2>4
<1>6. ASSUME Counts(v, r, t, k) PROVE Counts(v, q, t, k)
    <2>1. PICK j \in 1 .. R : /\ Loaded(r[j], t, k)
                              /\ v = k \/ \E i \in 1 .. R : i < j /\ Enters(r[i], t, k)
        BY <1>3, <1>6 DEF Counts
    <2>2. h[j] \in DOMAIN q /\ Loaded(q[h[j]], t, k)
        BY <1>4, <2>1
    <2>3. v = k \/ \E i \in DOMAIN q : i < h[j] /\ Enters(q[i], t, k)
        BY <1>4, <2>1
    <2> QED BY <2>2, <2>3 DEF Counts
<1>7. ASSUME Keeps(q, K, t, k), NEW n \in DOMAIN q, Enters(q[n], t, k) \/ Loaded(q[n], t, k)
      PROVE  \E i \in 1 .. R : h[i] = n /\ r[i] = q[n]
    <2>1. q[n] \in K
        BY <1>7 DEF Keeps
    <2> QED BY <1>4, <2>1
<1>8. ASSUME Keeps(q, K, t, k), NEW j \in DOMAIN q, Loaded(q[j], t, k),
             v = k \/ \E i \in DOMAIN q : i < j /\ Enters(q[i], t, k)
      PROVE  \E y \in 1 .. R : /\ h[y] = j /\ Loaded(r[y], t, k)
                               /\ v = k \/ \E i \in 1 .. R : i < y /\ Enters(r[i], t, k)
    <2>1. PICK y \in 1 .. R : h[y] = j /\ r[y] = q[j]
        BY <1>7, <1>8
    <2>2. CASE \E i \in DOMAIN q : i < j /\ Enters(q[i], t, k)
        <3>1. PICK i \in DOMAIN q : i < j /\ Enters(q[i], t, k)
            BY <2>2
        <3>2. PICK z \in 1 .. R : h[z] = i /\ r[z] = q[i]
            BY <1>7, <1>8, <3>1
        <3>3. z < y
            BY <1>5, <2>1, <3>1, <3>2
        <3> QED BY <1>8, <2>1, <3>1, <3>2, <3>3
    <2> QED BY <1>8, <2>1, <2>2
<1>9. ASSUME Keeps(q, K, t, k), Counts(v, q, t, k) PROVE Counts(v, r, t, k)
    <2>1. PICK j \in DOMAIN q : /\ Loaded(q[j], t, k)
                                /\ v = k \/ \E i \in DOMAIN q : i < j /\ Enters(q[i], t, k)
        BY <1>9 DEF Counts
    <2>2. PICK y \in 1 .. R : /\ h[y] = j /\ Loaded(r[y], t, k)
                              /\ v = k \/ \E i \in 1 .. R : i < y /\ Enters(r[i], t, k)
        BY <1>8, <1>9, <2>1
    <2> QED BY <1>3, <2>2 DEF Counts
<1>10. ASSUME NEW e, Keeps(q, K, t, k), Orderly(v, e, q, t, k) PROVE Orderly(v, e, r, t, k)
    <2>1. SUFFICES ASSUME NEW n \in 1 .. R, Arrives(r[n], t, k), t \notin e
                   PROVE  CountsBefore(v, r, n, t, k)
        BY <1>3 DEF Orderly
    <2>2. CountsBefore(v, q, h[n], t, k)
        BY <1>4, <1>10, <2>1 DEF Orderly
    <2>3. PICK j \in DOMAIN q : /\ j < h[n] /\ Loaded(q[j], t, k)
                                /\ v = k \/ \E i \in DOMAIN q : i < j /\ Enters(q[i], t, k)
        BY <2>2 DEF CountsBefore
    <2>4. PICK y \in 1 .. R : /\ h[y] = j /\ Loaded(r[y], t, k)
                              /\ v = k \/ \E i \in 1 .. R : i < y /\ Enters(r[i], t, k)
        BY <1>8, <1>10, <2>3
    <2>5. y < n
        BY <1>5, <2>3, <2>4
    <2> QED BY <1>3, <2>4, <2>5 DEF CountsBefore
<1> QED BY <1>6, <1>9, <1>10 DEF r

\* The log says in which period it puts a subject.
Dated(l) == \A m : Has(l, m) /\ m.key = "__set_period__" => m.period = m.value

\* m is the end of t's last period.
Ends(m, t) == m.key = "__set_period__" /\ m.sender = t

(***************************************************************************)
(* Route adds m to the log l, and somebody is in period k or before.       *)
(***************************************************************************)
LEMMA AddingCounts ==
    ASSUME NEW l \in Seq(Routed), Dated(l), NEW m \in Routed, Dated(<<m>>), NEW sc, NEW u \in Subjects,
           NEW k, sc[u].period <= k, NEW t
    PROVE  LET l2 == Adding(l, m, sc) IN
           /\ Entry(l2, t, k) => Entry(l, t, k) \/ Enters(m, t, k)
           /\ Enters(m, t, k) => Entry(l2, t, k)
           /\ Arrival(l2, t, k) <=> Arrival(l, t, k) \/ Arrives(m, t, k)
           /\ Counts(Undefined, l2, t, k) => Counts(Undefined, l, t, k) \/ (Loaded(m, t, k) /\ (Undefined = k \/ Entry(l, t, k)))
           /\ ~Ends(m, t) =>
                /\ Entry(l2, t, k) <=> Entry(l, t, k)
                /\ Counts(Undefined, l, t, k) => Counts(Undefined, l2, t, k)
                /\ Loaded(m, t, k) /\ Entry(l, t, k) => Counts(Undefined, l2, t, k)
                /\ Orderly(Undefined, {}, l, t, k) /\ (Arrives(m, t, k) => Counts(Undefined, l, t, k))
                      => Orderly(Undefined, {}, l2, t, k)
<1> DEFINE K == {x \in ToSet(l) : ~Replaces(m, x) /\ Needed(sc, x)}
           a == Only(l, K)
           l2 == Adding(l, m, sc)
<1>1. Adding(l, m, sc) = a \o (IF Needed(sc, m) THEN <<m>> ELSE <<>>)
    BY DEF Adding
<1> HIDE DEF K
<1>2. a \in Seq(Routed)
    BY OnlyKeeps
<1>3. /\ \A i \in DOMAIN a : \E n \in DOMAIN l : l[n] \in K /\ a[i] = l[n]
      /\ \A n \in DOMAIN l : l[n] \in K => \E i \in DOMAIN a : a[i] = l[n]
    BY OnlyKeeps
<1>4. /\ Counts(Undefined, a, t, k) => Counts(Undefined, l, t, k)
      /\ Keeps(l, K, t, k) /\ Counts(Undefined, l, t, k) => Counts(Undefined, a, t, k)
      /\ Keeps(l, K, t, k) /\ Orderly(Undefined, {}, l, t, k) => Orderly(Undefined, {}, a, t, k)
    BY OnlyCounts
<1> HIDE DEF a
<1>5. ASSUME NEW x, Enters(x, t, k) \/ Loaded(x, t, k) \/ Arrives(x, t, k),
             x.key = "__set_period__" => x.period = x.value, x \in Routed
      PROVE  Needed(sc, x)
    <2>1. PeriodOf(x) = k
        BY <1>5 DEF Enters, Loaded, Arrives, PeriodOf, Routed
    <2> QED BY <2>1 DEF Needed
<1>6. \A n \in DOMAIN l : l[n] \in Routed /\ l[n] \in ToSet(l) /\ (l[n].key = "__set_period__" => l[n].period = l[n].value)
    <2>1. ASSUME NEW n \in DOMAIN l PROVE l[n] \in Routed /\ l[n] \in ToSet(l) /\ Has(l, l[n])
        BY <2>1, ElementOfSeq, LenProperties DEF ToSet, Has
    <2> QED BY <2>1 DEF Dated
<1>7. \A n \in DOMAIN l : Arrives(l[n], t, k) \/ Loaded(l[n], t, k) => l[n] \in K
    <2>1. ASSUME NEW n \in DOMAIN l, Arrives(l[n], t, k) \/ Loaded(l[n], t, k) PROVE l[n] \in K
        <3>1. Needed(sc, l[n])
            BY <1>5, <1>6, <2>1
        <3>2. ~Replaces(m, l[n])
            <4>1. l[n].key \notin Change
                BY <2>1 DEF Arrives, Loaded, Change
            <4> QED BY <4>1 DEF Replaces, Routed
        <3> QED BY <1>6, <3>1, <3>2 DEF K
    <2> QED BY <2>1
<1>8. ~Ends(m, t) => \A n \in DOMAIN l : Enters(l[n], t, k) => l[n] \in K
    <2>1. ASSUME ~Ends(m, t), NEW n \in DOMAIN l, Enters(l[n], t, k) PROVE l[n] \in K
        <3>1. Needed(sc, l[n])
            BY <1>5, <1>6, <2>1
        <3>2. ~Replaces(m, l[n])
            BY <2>1 DEF Replaces, Enters, Ends
        <3> QED BY <1>6, <3>1, <3>2 DEF K
    <2> QED BY <2>1
<1>9. ~Ends(m, t) => Keeps(l, K, t, k)
    BY <1>7, <1>8 DEF Keeps
<1>10. Enters(m, t, k) \/ Loaded(m, t, k) \/ Arrives(m, t, k) => Needed(sc, m)
    <2>1. m.key = "__set_period__" => m.period = m.value
        BY HasOne DEF Dated
    <2> QED BY <1>5, <2>1
<1>11. (Entry(a, t, k) => Entry(l, t, k)) /\ (Arrival(a, t, k) => Arrival(l, t, k))
    BY <1>3 DEF Entry, Arrival
<1>12. Arrival(l, t, k) => Arrival(a, t, k)
    BY <1>3, <1>7 DEF Arrival
<1>13. ~Ends(m, t) /\ Entry(l, t, k) => Entry(a, t, k)
    BY <1>3, <1>8 DEF Entry
<1>14. CASE Needed(sc, m)
    <2>1. l2 = Append(a, m)
        BY <1>1, <1>2, <1>14, AppendIsConcat
    <2>2. /\ Entry(l2, t, k) <=> Entry(a, t, k) \/ Enters(m, t, k)
          /\ Arrival(l2, t, k) <=> Arrival(a, t, k) \/ Arrives(m, t, k)
        BY <1>2, <2>1, AppendHave
    <2>3. /\ Counts(Undefined, a, t, k) => Counts(Undefined, l2, t, k)
          /\ Counts(Undefined, l2, t, k) <=> Counts(Undefined, a, t, k) \/ (Loaded(m, t, k) /\ (Undefined = k \/ Entry(a, t, k)))
          /\ Orderly(Undefined, {}, a, t, k) /\ (Arrives(m, t, k) => Counts(Undefined, a, t, k)) => Orderly(Undefined, {}, l2, t, k)
        BY <1>2, <2>1, CountsAppend
    <2>4. Enters(m, t, k) => Ends(m, t)
        BY DEF Enters, Ends
    <2> HIDE DEF l2
    <2> QED BY <1>4, <1>9, <1>11, <1>12, <1>13, <2>2, <2>3, <2>4 DEF l2
<1>15. CASE ~Needed(sc, m)
    <2>1. l2 = a
        <3>1. l2 = a \o <<>>
            BY <1>1, <1>15
        <3> QED BY <1>2, <3>1, ConcatEmptySeq
    <2>2. ~Enters(m, t, k) /\ ~Loaded(m, t, k) /\ ~Arrives(m, t, k)
        BY <1>10, <1>15
    <2> HIDE DEF l2
    <2> QED BY <1>4, <1>9, <1>11, <1>12, <1>13, <2>1, <2>2 DEF l2
<1> QED BY <1>14, <1>15

\* Who is counted by the log has been in the period.
LEMMA CountsEntered ==
    ASSUME NEW q, NEW v, NEW t, NEW k, v # k, Counts(v, q, t, k)
    PROVE  Entry(q, t, k)
BY DEF Counts, Entry

(***************************************************************************)
(* A page that handles the first message of what it is going to hear still *)
(* knows what the log says.                                                *)
(***************************************************************************)
LEMMA FollowsNext ==
    ASSUME NEW S, NEW w \in Seq(S), w # <<>>, NEW v, NEW v2, NEW t, NEW k, Learns(v, Head(w), t, v2),
           NEW e, NEW b, NEW l, Follows(v, e, b, w, l, t, k),
           NEW e2, t \in e => t \in e2, v = k /\ Loaded(Head(w), t, k) => t \in e2,
           NEW b2, t \in b2 <=> t \in b \/ Arrives(Head(w), t, k)
    PROVE  Follows(v2, e2, b2, Tail(w), l, t, k)
<1> DEFINE T == Tail(w)
           x == Head(w)
<1>1. /\ NoBack(v, w, t, k)
      /\ Arrival(l, t, k) => t \in b \/ Arrival(w, t, k)
      /\ Entry(l, t, k) =>
            /\ v = k \/ Entry(w, t, k)
            /\ Counts(Undefined, l, t, k) => t \in e \/ Counts(v, w, t, k)
            /\ Orderly(v, e, w, t, k)
            /\ t \in b => t \in e
    BY DEF Follows
<1>2. /\ NoBack(v2, T, t, k)
      /\ Counts(v, w, t, k) => (v = k /\ Loaded(x, t, k)) \/ Counts(v2, T, t, k)
    BY <1>1, CountsTail
<1>3. /\ Entry(w, t, k) <=> Enters(x, t, k) \/ Entry(T, t, k)
      /\ Arrival(w, t, k) <=> Arrives(x, t, k) \/ Arrival(T, t, k)
    BY HeadTailHave
<1>4. Entry(l, t, k) => Orderly(v2, e2, T, t, k) /\ (Arrives(x, t, k) => t \in e)
    BY <1>1, OrderlyTail
<1>5. Enters(x, t, k) => v2 = k
    BY DEF Learns, Enters
<1>6. v = k => v2 = k
    <2>1. 1 \in DOMAIN w /\ x = w[1]
        BY TailIs
    <2> QED BY <1>1, <2>1 DEF NoBack, Learns
<1> HIDE DEF T, x
<1>7. Arrives(x, t, k) => t \in b2
    BY DEF x
<1>8. v = k /\ Loaded(x, t, k) => t \in e2
    BY DEF x
<1>9. t \in b2 => t \in b \/ Arrives(x, t, k)
    BY DEF x
<1>10. Follows(v2, e2, b2, T, l, t, k)
    BY <1>1, <1>2, <1>3, <1>4, <1>5, <1>6, <1>7, <1>8, <1>9 DEF Follows
<1> QED BY <1>10 DEF T

(***************************************************************************)
(* It does so when Route adds m to the log and sends m to it, if m matters *)
(* to it.                                                                  *)
(***************************************************************************)
LEMMA FollowsAdding ==
    ASSUME NEW S, NEW w \in Seq(S), NEW l \in Seq(Routed), Dated(l), NEW m \in Routed, m \in S, Dated(<<m>>),
           NEW sc, NEW u \in Subjects, NEW k, k # Undefined, sc[u].period <= k, NEW t,
           NEW v, NEW e, NEW b, Follows(v, e, b, w, l, t, k),
           NEW w2, w2 = w \/ w2 = Append(w, m),
           Enters(m, t, k) \/ Loaded(m, t, k) \/ Arrives(m, t, k) => w2 = Append(w, m),
           Ends(m, t) /\ m.value # k => w2 = w,
           Arrives(m, t, k) /\ Entry(l, t, k) => Counts(Undefined, l, t, k),
           Enters(m, t, k) /\ ~Entry(l, t, k) => t \notin b /\ ~Arrival(w, t, k)
    PROVE  Follows(v, e, b, w2, Adding(l, m, sc), t, k)
<1> DEFINE l2 == Adding(l, m, sc)
<1>1. /\ NoBack(v, w, t, k)
      /\ Arrival(l, t, k) => t \in b \/ Arrival(w, t, k)
      /\ Entry(l, t, k) =>
            /\ v = k \/ Entry(w, t, k)
            /\ Counts(Undefined, l, t, k) => t \in e \/ Counts(v, w, t, k)
            /\ Orderly(v, e, w, t, k)
            /\ t \in b => t \in e
    BY DEF Follows
<1>2. /\ Entry(l2, t, k) => Entry(l, t, k) \/ Enters(m, t, k)
      /\ Arrival(l2, t, k) <=> Arrival(l, t, k) \/ Arrives(m, t, k)
      /\ Counts(Undefined, l2, t, k) => Counts(Undefined, l, t, k) \/ (Loaded(m, t, k) /\ Entry(l, t, k))
    BY AddingCounts
<1> HIDE DEF l2
<1>3. Enters(m, t, k) => ~Loaded(m, t, k) /\ ~Arrives(m, t, k)
    BY DEF Enters, Loaded, Arrives
<1>4. ~Entry(l, t, k) => ~Counts(Undefined, l, t, k)
    BY CountsEntered
<1>5. CASE w2 = w
    <2>1. ~Enters(m, t, k) /\ ~Loaded(m, t, k) /\ ~Arrives(m, t, k)
        <3>1. w # Append(w, m)
            BY AppendProperties, LenProperties
        <3> QED BY <1>5, <3>1
    <2> QED BY <1>1, <1>2, <1>5, <2>1 DEF Follows, l2
<1>6. CASE w2 = Append(w, m)
    <2>1. /\ Entry(w2, t, k) <=> Entry(w, t, k) \/ Enters(m, t, k)
          /\ Arrival(w2, t, k) <=> Arrival(w, t, k) \/ Arrives(m, t, k)
        BY <1>6, AppendHave
    <2>2. /\ Counts(v, w, t, k) => Counts(v, w2, t, k)
          /\ Counts(v, w2, t, k) <=> Counts(v, w, t, k) \/ (Loaded(m, t, k) /\ (v = k \/ Entry(w, t, k)))
          /\ Orderly(v, e, w, t, k) /\ (Arrives(m, t, k) => t \in e \/ Counts(v, w, t, k)) => Orderly(v, e, w2, t, k)
          /\ NoBack(v, w, t, k) /\ (m.key = "__set_period__" /\ m.sender = t => m.value = k) => NoBack(v, w2, t, k)
        BY <1>6, CountsAppend
    <2>3. m.key = "__set_period__" /\ m.sender = t => m.value = k
        <3>1. w # Append(w, m)
            BY AppendProperties, LenProperties
        <3> QED BY <1>6, <3>1 DEF Ends
    <2>4. CASE Entry(l, t, k)
        BY <1>1, <1>2, <2>1, <2>2, <2>3, <2>4 DEF Follows, l2
    <2>5. CASE ~Entry(l, t, k) /\ Enters(m, t, k)
        <3>1. ~Arrival(w2, t, k) /\ t \notin b
            BY <1>3, <2>1, <2>5
        <3>2. Orderly(v, e, w2, t, k)
            BY <3>1 DEF Orderly, Arrival
        <3>3. ~Counts(Undefined, l2, t, k)
            BY <1>2, <1>4, <2>5
        <3> QED BY <1>1, <1>2, <1>3, <2>1, <2>2, <2>3, <2>5, <3>1, <3>2, <3>3 DEF Follows, l2
    <2>6. CASE ~Entry(l, t, k) /\ ~Enters(m, t, k)
        <3>1. ~Entry(l2, t, k)
            BY <1>2, <2>6
        <3> QED BY <1>1, <1>2, <2>1, <2>2, <2>3, <3>1 DEF Follows, l2
    <2> QED BY <2>4, <2>5, <2>6
<1> QED BY <1>5, <1>6

\* A mark before a sequence says nothing.
LEMMA MarkBefore ==
    ASSUME NEW S, NEW q \in Seq(S), q # <<>>, Head(q).key = "__queue_start__", NEW v, NEW t, NEW k
    PROVE  /\ Counts(v, Tail(q), t, k) => Counts(v, q, t, k)
           /\ \A e : Orderly(v, e, Tail(q), t, k) => Orderly(v, e, q, t, k)
           /\ Entry(q, t, k) <=> Entry(Tail(q), t, k)
           /\ Arrival(q, t, k) <=> Arrival(Tail(q), t, k)
<1> DEFINE N == Len(q)
           T == Tail(q)
<1>1. /\ N \in Nat /\ N >= 1 /\ DOMAIN q = 1 .. N /\ Head(q) = q[1]
      /\ DOMAIN T = 1 .. N - 1 /\ \A i \in 1 .. N - 1 : T[i] = q[i + 1]
    BY TailIs
<1>2. Learns(v, Head(q), t, v)
    BY DEF Learns
<1>3. Counts(v, T, t, k) => Counts(v, q, t, k)
    BY <1>2, CountsTail
<1>4. ~Enters(Head(q), t, k) /\ ~Arrives(Head(q), t, k)
    BY DEF Enters, Arrives
<1>5. /\ Entry(q, t, k) <=> Entry(T, t, k)
      /\ Arrival(q, t, k) <=> Arrival(T, t, k)
    BY <1>4, HeadTailHave
<1> HIDE DEF N, T
<1>6. ASSUME NEW e, Orderly(v, e, T, t, k) PROVE Orderly(v, e, q, t, k)
    <2>1. SUFFICES ASSUME NEW n \in 1 .. N, Arrives(q[n], t, k), t \notin e
                   PROVE  CountsBefore(v, q, n, t, k)
        BY <1>1 DEF Orderly
    <2>2. n - 1 \in 1 .. N - 1 /\ (n - 1) + 1 = n
        <3>1. n # 1
            BY <1>1, <1>4, <2>1
        <3> QED BY <1>1, <3>1
    <2>3. Arrives(T[n - 1], t, k)
        BY <1>1, <2>1, <2>2
    <2>4. CountsBefore(v, T, n - 1, t, k)
        BY <1>1, <1>6, <2>1, <2>2, <2>3 DEF Orderly
    <2>5. PICK j \in 1 .. N - 1 : /\ j < n - 1 /\ Loaded(T[j], t, k)
                                  /\ v = k \/ \E i \in 1 .. N - 1 : i < j /\ Enters(T[i], t, k)
        BY <1>1, <2>4 DEF CountsBefore
    <2>6. j + 1 \in 1 .. N /\ j + 1 < n /\ Loaded(q[j + 1], t, k)
        BY <1>1, <2>2, <2>5
    <2>7. v = k \/ \E i \in 1 .. N : i < j + 1 /\ Enters(q[i], t, k)
        <3>1. ASSUME NEW i \in 1 .. N - 1, i < j, Enters(T[i], t, k)
              PROVE  i + 1 \in 1 .. N /\ i + 1 < j + 1 /\ Enters(q[i + 1], t, k)
            BY <1>1, <2>5, <3>1
        <3> QED BY <2>5, <3>1
    <2> QED BY <1>1, <2>6, <2>7 DEF CountsBefore
<1> QED BY <1>3, <1>5, <1>6 DEF T

(***************************************************************************)
(* What puts t in one period, and then what puts it in period k, does not  *)
(* take it back.                                                           *)
(***************************************************************************)
LEMMA NoBackConcat ==
    ASSUME NEW S, NEW a \in Seq(S), NEW b \in Seq(S), NEW v, NEW t, NEW k, v # k,
           NEW j, \A m : Has(a, m) /\ Ends(m, t) => m.value = j,
           \A m : Has(b, m) /\ Ends(m, t) => m.value = k
    PROVE  NoBack(v, a \o b, t, k)
<1> DEFINE c == a \o b
           A == Len(a)
           B == Len(b)
<1>1. /\ A \in Nat /\ B \in Nat /\ DOMAIN a = 1 .. A /\ DOMAIN b = 1 .. B /\ DOMAIN c = 1 .. A + B
      /\ \A i \in 1 .. A : c[i] = a[i]
      /\ \A i \in 1 .. B : c[A + i] = b[i]
    BY ConcatIs
<1> HIDE DEF c, A, B
<1>2. \A i \in 1 .. A + B : i \in 1 .. A \/ (i - A \in 1 .. B /\ A + (i - A) = i)
    BY <1>1
<1>3. SUFFICES ASSUME NEW n \in 1 .. A + B, Ends(c[n], t), c[n].value # k,
                      NEW i \in 1 .. A + B, i < n, Enters(c[i], t, k)
               PROVE  FALSE
    BY <1>1 DEF NoBack, Ends, c
<1>4. n \in 1 .. A
    <2>1. SUFFICES ASSUME n \notin 1 .. A PROVE FALSE
        OBVIOUS
    <2>2. n - A \in 1 .. B /\ c[n] = b[n - A]
        BY <1>1, <1>2, <2>1
    <2>3. Has(b, c[n])
        BY <1>1, <2>2 DEF Has
    <2> QED BY <1>3, <2>3
<1>5. i \in 1 .. A
    BY <1>1, <1>3, <1>4
<1>6. Has(a, c[n]) /\ Has(a, c[i])
    BY <1>1, <1>4, <1>5 DEF Has
<1>7. c[n].value = j /\ c[i].value = j
    BY <1>3, <1>6 DEF Enters, Ends
<1> QED BY <1>3, <1>7 DEF Enters

\* What counts is picked.
LEMMA OnlyHas ==
    ASSUME NEW S, NEW q \in Seq(S), NEW K, NEW t, NEW k, Keeps(q, K, t, k),
           \A i \in DOMAIN q : Arrives(q[i], t, k) => q[i] \in K
    PROVE  /\ Only(q, K) \in Seq(S) /\ (\A m : Has(Only(q, K), m) => Has(q, m))
           /\ Entry(q, t, k) => Entry(Only(q, K), t, k)
           /\ Arrival(q, t, k) => Arrival(Only(q, K), t, k)
<1> DEFINE r == Only(q, K)
<1>1. PICK h : Picks(q, K, r, h)
    BY OnlyPicks
<1>2. r \in Seq(S) /\ DOMAIN r = 1 .. Len(r)
    BY OnlyPicks, LenProperties
<1> HIDE DEF r
<1>3. /\ \A i \in DOMAIN r : h[i] \in DOMAIN q /\ r[i] = q[h[i]]
      /\ \A n \in DOMAIN q : q[n] \in K => \E i \in DOMAIN r : h[i] = n
    BY <1>1, <1>2 DEF Picks
<1>4. \A m : Has(r, m) => Has(q, m)
    BY <1>3 DEF Has
<1>5. ASSUME Entry(q, t, k) PROVE Entry(r, t, k)
    <2>1. PICK n \in DOMAIN q : Enters(q[n], t, k)
        BY <1>5 DEF Entry
    <2>2. PICK i \in DOMAIN r : h[i] = n
        BY <1>3, <2>1 DEF Keeps
    <2> QED BY <1>3, <2>1, <2>2 DEF Entry
<1>6. ASSUME Arrival(q, t, k) PROVE Arrival(r, t, k)
    <2>1. PICK n \in DOMAIN q : Arrives(q[n], t, k)
        BY <1>6 DEF Arrival
    <2>2. PICK i \in DOMAIN r : h[i] = n
        BY <1>3, <2>1
    <2> QED BY <1>3, <2>1, <2>2 DEF Arrival
<1> QED BY <1>2, <1>4, <1>5, <1>6 DEF r

(***************************************************************************)
(* The replay of the log l, and then d, tells a page what l says.          *)
(***************************************************************************)
LEMMA FollowsReplay ==
    ASSUME NEW l \in Seq(Routed), NEW K, NEW t, NEW k, k # Undefined, Keeps(l, K, t, k),
           \A i \in DOMAIN l : Arrives(l[i], t, k) => l[i] \in K,
           NEW j, \A m : Has(l, m) /\ Ends(m, t) => m.value = j,
           Entry(l, t, k) => Orderly(Undefined, {}, l, t, k),
           NEW d \in Seq(Routed), \A m : Has(d, m) /\ m.key = "__set_period__" => m.value = k,
           Arrival(d, t, k) /\ Entry(l, t, k) => Counts(Undefined, l, t, k),
           NEW r, Replays(r, FALSE, Only(l, K))
    PROVE  Follows(Undefined, {}, {}, r \o d, l, t, k)
<1> DEFINE x == Only(l, K)
           S == Routed \cup {Begin, End}
           y == x \o <<End>>
           z == y \o d
<1>1. /\ x \in Seq(Routed) /\ (\A m : Has(x, m) => Has(l, m))
      /\ Entry(l, t, k) => Entry(x, t, k)
      /\ Arrival(l, t, k) => Arrival(x, t, k)
    BY OnlyHas
<1>2. /\ Counts(Undefined, l, t, k) => Counts(Undefined, x, t, k)
      /\ Entry(l, t, k) => Orderly(Undefined, {}, x, t, k)
    BY OnlyCounts
<1> HIDE DEF x
<1>5. x \in Seq(S) /\ d \in Seq(S) /\ <<End>> \in Seq(S) /\ <<Begin>> \in Seq(S)
    <2>1. Routed \subseteq S /\ Begin \in S /\ End \in S
        OBVIOUS
    <2> QED BY <1>1, <2>1, Wider, OfOne
<1>6. End.key = "__queue_end__" /\ Begin.key = "__queue_start__"
    BY DEF Begin, End, Mark, Message
<1> HIDE DEF S
<1>7. y \in Seq(S) /\ z \in Seq(S)
    BY <1>5, ConcatProperties
<1>8. r = <<Begin>> \o y
    <2>1. r = <<Begin>> \o x \o <<End>>
        BY DEF Replays, x
    <2> QED BY <1>5, <2>1, ConcatAssociative
<1>9. /\ Counts(Undefined, x, t, k) => Counts(Undefined, y, t, k)
      /\ Entry(l, t, k) => Orderly(Undefined, {}, y, t, k)
      /\ Entry(x, t, k) => Entry(y, t, k)
      /\ Arrival(x, t, k) => Arrival(y, t, k)
    <2>1. ~Arrival(<<End>>, t, k)
        BY <1>6, OneHave DEF Arrives
    <2>2. /\ Entry(x, t, k) => Entry(y, t, k)
          /\ Arrival(x, t, k) => Arrival(y, t, k)
        BY <1>5, PartsHave
    <2>3. Counts(Undefined, x, t, k) => Counts(Undefined, y, t, k)
        BY <1>5, CountsConcat
    <2>4. Orderly(Undefined, {}, x, t, k) => Orderly(Undefined, {}, y, t, k)
        BY <1>5, <2>1, CountsConcat
    <2> QED BY <1>2, <2>2, <2>3, <2>4
<1> HIDE DEF y
<1>10. r \o d = <<Begin>> \o z /\ r \in Seq(S) /\ <<Begin>> \o z \in Seq(S)
    BY <1>5, <1>7, <1>8, ConcatAssociative, ConcatProperties
<1>11. NoBack(Undefined, r \o d, t, k)
    <2>1. \A m : Has(r, m) /\ Ends(m, t) => m.value = j
        <3>1. SUFFICES ASSUME NEW m, Has(r, m), Ends(m, t) PROVE m.value = j
            OBVIOUS
        <3>2. m = Begin \/ Has(y, m)
            <4>1. Has(r, m) <=> Has(<<Begin>>, m) \/ Has(y, m)
                BY <1>5, <1>7, <1>8, HasConcat
            <4>2. Has(<<Begin>>, m) <=> m = Begin
                BY HasOne
            <4> QED BY <3>1, <4>1, <4>2
        <3>3. Has(y, m) => Has(x, m) \/ m = End
            <4>1. Has(y, m) <=> Has(x, m) \/ Has(<<End>>, m)
                BY <1>5, HasConcat DEF y
            <4>2. Has(<<End>>, m) <=> m = End
                BY HasOne
            <4> QED BY <4>1, <4>2
        <3>4. Has(x, m)
            BY <1>6, <3>1, <3>2, <3>3 DEF Ends
        <3> QED BY <1>1, <3>1, <3>4
    <2>2. \A m : Has(d, m) /\ Ends(m, t) => m.value = k
        BY DEF Ends
    <2> QED BY <1>5, <1>10, <2>1, <2>2, NoBackConcat
<1>12. /\ Counts(Undefined, y, t, k) => Counts(Undefined, z, t, k)
       /\ Entry(l, t, k) => Orderly(Undefined, {}, z, t, k)
       /\ Entry(y, t, k) => Entry(z, t, k)
       /\ Arrival(y, t, k) => Arrival(z, t, k)
    BY <1>2, <1>5, <1>7, <1>9, CountsConcat, PartsHave
<1> DEFINE w == <<Begin>> \o z
<1>13. w # <<>> /\ Head(w) = Begin /\ Tail(w) = z
    <2>1. Head(<<Begin>>) = Begin /\ Tail(<<Begin>>) = <<>> /\ <<Begin>> # <<>>
        OBVIOUS
    <2>2. w # <<>> /\ Head(w) = Head(<<Begin>>) /\ Tail(w) = Tail(<<Begin>>) \o z
        BY <1>5, <1>7, <2>1, HeadOfConcat
    <2> QED BY <1>7, <2>1, <2>2, ConcatEmptySeq
<1> HIDE DEF w, z
<1>14. w \in Seq(S)
    BY <1>10 DEF w
<1>15. /\ Counts(Undefined, z, t, k) => Counts(Undefined, w, t, k)
       /\ Orderly(Undefined, {}, z, t, k) => Orderly(Undefined, {}, w, t, k)
       /\ Entry(z, t, k) => Entry(w, t, k)
       /\ Arrival(z, t, k) => Arrival(w, t, k)
    BY <1>6, <1>13, <1>14, MarkBefore
<1>16. r \o d = w
    BY <1>10 DEF w
<1> HIDE DEF x
<1>17. NoBack(Undefined, w, t, k)
    BY <1>11, <1>16
<1>18. Follows(Undefined, {}, {}, w, l, t, k)
    BY <1>1, <1>2, <1>9, <1>12, <1>15, <1>17 DEF Follows
<1> QED BY <1>16, <1>18

-----------------------------------------------------------------------------
(* What the handlers do to the mail of a page                              *)

\* Only keeps what is in K.
LEMMA OnlyElements ==
    ASSUME NEW S, NEW q \in Seq(S), NEW K
    PROVE  Only(q, K) \in Seq(S) /\ \A x : Has(Only(q, K), x) <=> Has(q, x) /\ x \in K
<1> DEFINE r == Only(q, K)
<1>1. /\ r \in Seq(S)
      /\ \A i \in DOMAIN r : \E n \in DOMAIN q : q[n] \in K /\ r[i] = q[n]
      /\ \A n \in DOMAIN q : q[n] \in K => \E i \in DOMAIN r : r[i] = q[n]
    BY OnlyKeeps
<1> HIDE DEF r
<1>2. \A x : Has(r, x) <=> Has(q, x) /\ x \in K
    BY <1>1 DEF Has
<1> QED BY <1>1, <1>2 DEF r

\* The page has x to send; it will, unless it has kept it outside a replay.
Mail(p, x) == Has(p.queue, x) \/ Has(p.held, x) \/ Has(p.out, x)

\* It sends x, or will at the end of the replay.
Posts(p, x) == (p.sync /\ Has(p.queue, x)) \/ Has(p.held, x) \/ Has(p.out, x)

ArrivalOf(s, k) == Message("_at_barrier", s, k, Group, FALSE, k)

\* The arrival at a barrier may be queued.
LEMMA ArrivalIs ==
    ASSUME NEW s \in Subjects, NEW p, p.period \in Periods
    PROVE  LET x == ArrivalOf(s, p.period) IN
           /\ x \in Plain(s) /\ Arrives(x, s, p.period) /\ IsQueueable(p, s, x)
           /\ \A y \in Plain(s) : Arrives(y, s, p.period) => IsQueueable(p, s, y)
<1>1. ArrivalOf(s, p.period) \in Plain(s)
    BY Basics DEF ArrivalOf, Message, Plain, Routed, PlainKeys, Change, Group
<1>2. Arrives(ArrivalOf(s, p.period), s, p.period)
    BY DEF ArrivalOf, Message, Arrives
<1>3. \A y \in Plain(s) : Arrives(y, s, p.period) => IsQueueable(p, s, y)
    BY DEF Arrives, IsQueueable, StateKeys, Plain, Routed
<1> QED BY <1>1, <1>2, <1>3

\* Send puts a message at the end of the queue or on its way.
LEMMA SendMail ==
    ASSUME NEW s \in Subjects, NEW p \in PageOf(s), NEW m \in Plain(s)
    PROVE  LET r == Send(p, s, m) IN
           /\ r.loaded = p.loaded /\ r.enabled = p.enabled /\ r.broken = p.broken /\ r.held = p.held
           /\ r.sync = p.sync
           /\ \A x : Mail(r, x) => Mail(p, x) \/ x = m
           /\ \A x : Posts(p, x) => Posts(r, x)
           /\ IsQueueable(p, s, m) => Posts(r, m)
<1>1. OnWire(m) = m
    BY PlainOnWire
<1>2. p.out \in Seq(Plain(s)) /\ p.queue \in Seq(Plain(s))
    BY DEF PageOf
<1>3. /\ \A x : Has(Append(p.out, m), x) <=> Has(p.out, x) \/ x = m
      /\ \A x : Has(Append(p.queue, m), x) <=> Has(p.queue, x) \/ x = m
    BY <1>2, HasAppend
<1> DEFINE r == Send(p, s, m)
<1>4. CASE p.sync /\ IsQueueable(p, s, m)
    <2>1. r = [p EXCEPT !.queue = Append(@, m)]
        BY <1>4 DEF Send, SyncSend
    <2>2. /\ r.queue = Append(p.queue, m) /\ r.out = p.out /\ r.held = p.held /\ r.sync = p.sync
          /\ r.loaded = p.loaded /\ r.enabled = p.enabled /\ r.broken = p.broken
        BY <2>1 DEF PageOf
    <2> HIDE DEF r
    <2>3. /\ \A x : Mail(r, x) => Mail(p, x) \/ x = m
          /\ \A x : Posts(p, x) => Posts(r, x)
          /\ Posts(r, m)
        BY <1>3, <1>4, <2>2 DEF Mail, Posts
    <2> QED BY <2>2, <2>3 DEF r
<1>5. CASE p.sync /\ ~IsQueueable(p, s, m)
    <2>1. r = p
        BY <1>5 DEF Send, SyncSend
    <2> QED BY <1>5, <2>1
<1>6. CASE ~p.sync
    <2>1. r = [p EXCEPT !.out = Append(@, m)]
        BY <1>1, <1>6 DEF Send, DefaultSend
    <2>2. /\ r.out = Append(p.out, m) /\ r.queue = p.queue /\ r.held = p.held /\ r.sync = p.sync
          /\ r.loaded = p.loaded /\ r.enabled = p.enabled /\ r.broken = p.broken
        BY <2>1 DEF PageOf
    <2> HIDE DEF r
    <2>3. /\ \A x : Mail(r, x) => Mail(p, x) \/ x = m
          /\ \A x : Posts(p, x) => Posts(r, x)
          /\ Posts(r, m)
        BY <1>3, <1>6, <2>2 DEF Mail, Posts
    <2> QED BY <2>2, <2>3 DEF r
<1> QED BY <1>4, <1>5, <1>6

\* rs._send may hold it back.
LEMMA ScriptSendMail ==
    ASSUME NEW s \in Subjects, NEW p \in PageOf(s), NEW m \in Plain(s)
    PROVE  LET r == ScriptSend(p, s, m) IN
           /\ r.loaded = p.loaded /\ r.enabled = p.enabled /\ r.broken = p.broken
           /\ (p.enabled => p.held = <<>>) => (r.enabled => r.held = <<>>)
           /\ r.sync = p.sync
           /\ \A x : Mail(r, x) => Mail(p, x) \/ x = m
           /\ \A x : Posts(p, x) => Posts(r, x)
           /\ IsQueueable(p, s, m) => Posts(r, m)
<1> DEFINE r == ScriptSend(p, s, m)
<1>1. CASE p.enabled
    <2>1. r = Send(p, s, m)
        BY <1>1 DEF ScriptSend
    <2> HIDE DEF r
    <2>2. /\ r.loaded = p.loaded /\ r.enabled = p.enabled /\ r.broken = p.broken /\ r.held = p.held
          /\ r.sync = p.sync
          /\ \A x : Mail(r, x) => Mail(p, x) \/ x = m
          /\ \A x : Posts(p, x) => Posts(r, x)
          /\ IsQueueable(p, s, m) => Posts(r, m)
        BY <2>1, SendMail
    <2> QED BY <2>2 DEF r
<1>2. CASE ~p.enabled
    <2>1. r = [p EXCEPT !.held = Append(@, m)]
        BY <1>2 DEF ScriptSend
    <2>2. /\ r.held = Append(p.held, m) /\ r.queue = p.queue /\ r.out = p.out /\ r.sync = p.sync
          /\ r.loaded = p.loaded /\ r.enabled = p.enabled /\ r.broken = p.broken
        BY <2>1 DEF PageOf
    <2>3. p.held \in Seq(Plain(s))
        BY DEF PageOf
    <2>4. \A x : Has(Append(p.held, m), x) <=> Has(p.held, x) \/ x = m
        BY <2>3, HasAppend
    <2> HIDE DEF r
    <2>5. /\ \A x : Mail(r, x) => Mail(p, x) \/ x = m
          /\ \A x : Posts(p, x) => Posts(r, x)
          /\ Posts(r, m)
        BY <2>2, <2>4 DEF Mail, Posts
    <2> QED BY <1>2, <2>2, <2>5 DEF r
<1> QED BY <1>1, <1>2

\* What has been held back goes out, but for what a replay does not allow.
LEMMA EnableMail ==
    ASSUME NEW s \in Subjects, NEW p \in PageOf(s)
    PROVE  LET r == EnableMessaging(p, s) IN
           /\ r.loaded = p.loaded /\ r.enabled /\ r.broken = p.broken /\ r.held = <<>> /\ r.sync = p.sync
           /\ \A x : Mail(r, x) => Mail(p, x)
           /\ \A x : Posts(p, x) /\ IsQueueable(p, s, x) => Posts(r, x)
<1> DEFINE sent == [i \in DOMAIN p.held |-> OnWire(p.held[i])]
           queueable == {m \in ToSet(p.held) : IsQueueable(p, s, m)}
           kept == Only(p.held, queueable)
           r == EnableMessaging(p, s)
<1>1. p.held \in Seq(Plain(s)) /\ DOMAIN p.held = 1 .. Len(p.held) /\ Len(p.held) \in Nat
    BY LenProperties DEF PageOf
<1>2. \A i \in DOMAIN p.held : p.held[i] \in Plain(s) /\ OnWire(p.held[i]) = p.held[i]
    BY <1>1, ElementOfSeq, PlainOnWire
<1>3. sent = p.held
    <2>1. sent = [i \in DOMAIN p.held |-> p.held[i]]
        BY <1>2
    <2> QED BY <1>1, <2>1
<1> HIDE DEF queueable
<1>4. kept \in Seq(Plain(s)) /\ \A x : Has(kept, x) <=> Has(p.held, x) /\ x \in queueable
    BY <1>1, OnlyElements
<1>5. r = IF p.sync THEN [[p EXCEPT !.enabled = TRUE, !.held = <<>>] EXCEPT !.queue = @ \o kept]
                    ELSE [[p EXCEPT !.enabled = TRUE, !.held = <<>>] EXCEPT !.out = @ \o sent]
    BY DEF EnableMessaging, queueable
<1> HIDE DEF kept, sent
<1>6. /\ \A x : Has(kept, x) => Has(p.held, x)
      /\ \A x : Has(p.held, x) /\ IsQueueable(p, s, x) => Has(kept, x)
    <2>1. \A x : Has(p.held, x) /\ IsQueueable(p, s, x) => x \in queueable
        BY DEF Has, queueable, ToSet
    <2> QED BY <1>4, <2>1
<1>7. /\ \A x : Has(p.queue \o kept, x) <=> Has(p.queue, x) \/ Has(kept, x)
      /\ \A x : Has(p.out \o p.held, x) <=> Has(p.out, x) \/ Has(p.held, x)
    <2>1. p.queue \in Seq(Plain(s)) /\ p.out \in Seq(Plain(s))
        BY DEF PageOf
    <2> QED BY <1>1, <1>4, <2>1, HasConcat
<1>8. \A x : ~Has(<<>>, x)
    BY HasOne
<1>9. CASE p.sync
    <2>1. /\ r.queue = p.queue \o kept /\ r.out = p.out /\ r.held = <<>> /\ r.sync = p.sync
          /\ r.loaded = p.loaded /\ r.enabled /\ r.broken = p.broken
        BY <1>5, <1>9 DEF PageOf
    <2> HIDE DEF r
    <2>2. \A x : Mail(r, x) => Mail(p, x)
        BY <1>6, <1>7, <1>8, <2>1 DEF Mail
    <2>3. \A x : Posts(p, x) /\ IsQueueable(p, s, x) => Posts(r, x)
        BY <1>6, <1>7, <1>9, <2>1 DEF Posts
    <2> QED BY <2>1, <2>2, <2>3 DEF r
<1>10. CASE ~p.sync
    <2>1. /\ r.out = p.out \o p.held /\ r.queue = p.queue /\ r.held = <<>> /\ r.sync = p.sync
          /\ r.loaded = p.loaded /\ r.enabled /\ r.broken = p.broken
        BY <1>3, <1>5, <1>10 DEF PageOf
    <2> HIDE DEF r
    <2>2. \A x : Mail(r, x) => Mail(p, x)
        BY <1>7, <1>8, <2>1 DEF Mail
    <2>3. \A x : Posts(p, x) /\ IsQueueable(p, s, x) => Posts(r, x)
        BY <1>7, <1>10, <2>1 DEF Posts
    <2> QED BY <2>1, <2>2, <2>3 DEF r
<1> QED BY <1>9, <1>10

\* A place in a sequence is the last one or has another behind it.
LEMMA Within ==
    ASSUME NEW n \in Nat, NEW j \in 1 .. n
    PROVE  j \in Int /\ j <= n /\ (j + 1 <= n \/ j = n)
OBVIOUS

\* What the replay has brought back is not sent again.
LEMMA DeduplicateMail ==
    ASSUME NEW s \in Subjects, NEW p \in PageOf(s), NEW m
    PROVE  LET r == Deduplicate(p, m) IN
           /\ r.loaded = p.loaded /\ r.enabled = p.enabled /\ r.broken = p.broken /\ r.held = p.held
           /\ r.sync = p.sync
           /\ \A x : Mail(r, x) => Mail(p, x)
           /\ \A x : Posts(p, x) => Posts(r, x) \/ (p.sync /\ SameMsgId(x, m))
<1> DEFINE q == p.queue
           I == {i \in 1 .. Len(q) : SameMsgId(q[i], m)}
           w == Without(q, m)
           r == Deduplicate(p, m)
<1>1. q \in Seq(Plain(s)) /\ Len(q) \in Nat /\ DOMAIN q = 1 .. Len(q)
    BY LenProperties DEF PageOf
<1>2. r = IF p.sync THEN [p EXCEPT !.queue = w] ELSE p
    BY DEF Deduplicate, Without
<1>3. /\ \A x : Has(w, x) => Has(q, x)
      /\ \A x : Has(q, x) => Has(w, x) \/ SameMsgId(x, m)
    <2>1. CASE I = {}
        BY <2>1 DEF Without, RemoveFirstMatch
    <2>2. CASE I # {}
        <3>1. w = SubSeq(q, 1, Min(I) - 1) \o SubSeq(q, Min(I) + 1, Len(q))
            BY <2>2 DEF Without, RemoveFirstMatch, RemoveAt, SelectInSeq
        <3>2. Min(I) \in I
            <4>1. I \in SUBSET Nat
                OBVIOUS
            <4> HIDE DEF I
            <4>2. \E x \in I : \A y \in I : x <= y
                BY <2>2, <4>1, Least, Zenon
            <4> QED BY <4>2 DEF Min
        <3> DEFINE j == Min(I)
                   a == SubSeq(q, 1, j - 1)
                   b == SubSeq(q, j + 1, Len(q))
        <3>3. j \in 1 .. Len(q) /\ SameMsgId(q[j], m)
            BY <3>2
        <3> HIDE DEF I, j, q
        <3>0. Len(q) \in Nat
            BY <1>1
        <3>4. /\ \A i \in 1 .. j - 1 : q[i] \in Plain(s)
              /\ \A i \in j + 1 .. Len(q) : q[i] \in Plain(s)
            BY <1>1, <3>3, ElementOfSeq
        <3>5. /\ a \in Seq(Plain(s)) /\ Len(a) = j - 1 /\ \A i \in 1 .. j - 1 : a[i] = q[i]
            BY <1>1, <3>3, <3>4, SubSeqProperties
        <3>6. /\ b \in Seq(Plain(s)) /\ Len(b) = Len(q) - j /\ \A i \in 1 .. Len(q) - j : b[i] = q[j + i]
            <4>1. j + 1 \in Int /\ Len(q) \in Int /\ Len(q) - (j + 1) + 1 = Len(q) - j
                BY <1>1, <3>3
            <4>2. /\ b \in Seq(Plain(s))
                  /\ Len(b) = IF j + 1 <= Len(q) THEN Len(q) - (j + 1) + 1 ELSE 0
                  /\ \A i \in 1 .. Len(q) - (j + 1) + 1 : b[i] = q[(j + 1) + i - 1]
                BY <3>4, <4>1, SubSeqProperties
            <4>3. \A i \in 1 .. Len(q) - j : (j + 1) + i - 1 = j + i
                BY <1>1, <3>3
            <4>4. Len(b) = Len(q) - j
                <5>1. j \in Int /\ j <= Len(q) /\ (j + 1 <= Len(q) \/ j = Len(q))
                    BY <3>3, <3>0, Within
                <5>2. CASE j + 1 <= Len(q)
                    BY <4>1, <4>2, <5>2
                <5>3. CASE j = Len(q)
                    <6>1. ~(j + 1 <= Len(q)) /\ Len(q) - j = 0
                        BY <1>1, <5>3
                    <6> QED BY <4>2, <6>1
                <5> QED BY <5>1, <5>2, <5>3
            <4> QED BY <4>1, <4>2, <4>3, <4>4
        <3>7. w = a \o b
            BY <3>1 DEF j
        <3> HIDE DEF a, b, w
        <3>8. DOMAIN a = 1 .. j - 1 /\ DOMAIN b = 1 .. Len(q) - j
            BY <3>5, <3>6, LenProperties
        <3>9. \A x : Has(w, x) <=> Has(a, x) \/ Has(b, x)
            BY <3>5, <3>6, <3>7, HasConcat
        <3>10. /\ \A i \in 1 .. j - 1 : i \in 1 .. Len(q)
               /\ \A i \in 1 .. Len(q) - j : j + i \in 1 .. Len(q)
               /\ \A i \in 1 .. Len(q) : i \in 1 .. j - 1 \/ i = j \/ (i - j \in 1 .. Len(q) - j /\ j + (i - j) = i)
            BY <1>1, <3>3
        <3>11. \A x : Has(a, x) \/ Has(b, x) => Has(q, x)
            BY <1>1, <3>5, <3>6, <3>8, <3>10 DEF Has
        <3>12. ASSUME NEW x, Has(q, x) PROVE Has(w, x) \/ SameMsgId(x, m)
            <4>1. PICK i \in 1 .. Len(q) : q[i] = x
                BY <1>1, <3>12 DEF Has
            <4>2. CASE i \in 1 .. j - 1
                BY <3>5, <3>8, <3>9, <4>1, <4>2 DEF Has
            <4>3. CASE i = j
                BY <3>3, <4>1, <4>3
            <4>4. CASE i - j \in 1 .. Len(q) - j /\ j + (i - j) = i
                <5>1. b[i - j] = x
                    BY <3>6, <4>1, <4>4
                <5> QED BY <3>8, <3>9, <4>4, <5>1 DEF Has
            <4> QED BY <3>10, <4>2, <4>3, <4>4
        <3> QED BY <3>9, <3>11, <3>12 DEF w
    <2> QED BY <2>1, <2>2
<1> HIDE DEF w
<1>4. CASE p.sync
    <2>1. /\ r.queue = w /\ r.out = p.out /\ r.held = p.held /\ r.sync = p.sync
          /\ r.loaded = p.loaded /\ r.enabled = p.enabled /\ r.broken = p.broken
        BY <1>2, <1>4 DEF PageOf
    <2> HIDE DEF r
    <2>2. \A x : Mail(r, x) => Mail(p, x)
        BY <1>3, <2>1 DEF Mail
    <2>3. \A x : Posts(p, x) => Posts(r, x) \/ (p.sync /\ SameMsgId(x, m))
        BY <1>3, <1>4, <2>1 DEF Posts
    <2> QED BY <2>1, <2>2, <2>3 DEF r
<1>5. CASE ~p.sync
    <2>1. r = p
        BY <1>2, <1>5
    <2> QED BY <2>1
<1> QED BY <1>4, <1>5

-----------------------------------------------------------------------------
(* What a page makes of a message, for the barrier                         *)

\* Whom the page has counted, and whether it lets its messages go.
Counting(p, m, o) ==
    /\ p.enabled => o.enabled
    /\ o.enabled => o.held = <<>>
    /\ ~p.broken /\ (p.loaded = Subjects => p.enabled) => (o.loaded = Subjects => o.enabled)
    /\ \A t \in Subjects : t \in p.loaded \/ Loaded(m, t, p.periods[t]) => t \in o.loaded
    /\ \A t \in Subjects : t \in o.loaded => t \in p.loaded \/ Loaded(m, t, p.periods[t])

\* What the page of s has to send, and that its arrival is not lost.
Posting(s, p, m, o) ==
    /\ \A x : Mail(o, x) =>
          \/ Mail(p, x) \/ x.key \in Change
          \/ x = ArrivalOf(s, p.period) /\ Loaded(m, s, p.period)
          \/ m = End /\ x.key = "__page_loaded__" /\ x.period \in {0, p.period}
    /\ \A x : Arrives(x, s, p.period) /\ Posts(p, x) =>
          Posts(o, x) \/ (p.sync /\ Arrives(m, s, p.period))
    /\ ~p.broken /\ p.period \in Periods /\ p.periods[s] = p.period /\ Loaded(m, s, p.period) =>
          p.period \in o.deferred /\ Posts(o, ArrivalOf(s, p.period))

\* The page's own _next_period, of the period that it is in.
Asks(s, p, m) == m.key = "_next_period" /\ m.sender = s /\ m.period = p.periods[s]

\* Who is at the barriers of a page whose scripts have not started.
Barring(s, p, m, o) ==
    o.ranAt = Undefined =>
        /\ p.ranAt = Undefined
        /\ ~p.broken /\ ~Asks(s, p, m) => ~o.broken
        /\ p.deferred \subseteq o.deferred
        /\ \A k \in Periods : \A t \in Subjects : t \in o.received[k] <=> t \in p.received[k] \/ Arrives(m, t, k)
        /\ \A k \in Periods : m.key = "_at_barrier" /\ m.value = k /\ k \in p.deferred =>
              \E t \in Subjects : t \notin o.received[k]

\* What has nothing to do with the barrier.
Aside(s, p, m, o) ==
    /\ m.key \notin {"__page_loaded__", "_at_barrier"}
    /\ o.loaded = p.loaded /\ o.enabled = p.enabled /\ o.held = p.held /\ o.queue = p.queue /\ o.sync = p.sync
    /\ o.deferred = p.deferred /\ o.received = p.received /\ o.ranAt = p.ranAt
    /\ o.broken = p.broken \/ Asks(s, p, m)
    /\ o.out = p.out \/ \E x : x.key \in Change /\ o.out = Append(p.out, x)

\* A handler that leaves the barrier aside.
LEMMA AsideHeeds ==
    ASSUME NEW s \in Subjects, NEW p \in PageOf(s), NEW m \in Routed, NEW o, Aside(s, p, m, o),
           p.enabled => p.held = <<>>
    PROVE  Counting(p, m, o) /\ Posting(s, p, m, o) /\ Barring(s, p, m, o)
<1>1. \A t, k : ~Loaded(m, t, k) /\ ~Arrives(m, t, k)
    BY DEF Aside, Loaded, Arrives
<1>2. Counting(p, m, o)
    BY <1>1 DEF Aside, Counting
<1>3. \A x : Has(o.out, x) => Has(p.out, x) \/ x.key \in Change
    <2>1. CASE o.out = p.out
        BY <2>1
    <2>2. ASSUME NEW y, y.key \in Change, o.out = Append(p.out, y)
          PROVE  \A x : Has(o.out, x) => Has(p.out, x) \/ x.key \in Change
        <3>1. p.out \in Seq(Plain(s) \cup {y}) /\ y \in Plain(s) \cup {y}
            <4>1. p.out \in Seq(Plain(s)) /\ Plain(s) \subseteq Plain(s) \cup {y}
                BY DEF PageOf
            <4> QED BY <4>1, Wider
        <3> QED BY <2>2, <3>1, HasAppend
    <2> QED BY <2>1, <2>2 DEF Aside
<1>4. \A x : Has(p.out, x) => Has(o.out, x)
    <2>1. CASE o.out = p.out
        BY <2>1
    <2>2. ASSUME NEW y, y.key \in Change, o.out = Append(p.out, y)
          PROVE  \A x : Has(p.out, x) => Has(o.out, x)
        <3>1. p.out \in Seq(Plain(s) \cup {y}) /\ y \in Plain(s) \cup {y}
            <4>1. p.out \in Seq(Plain(s)) /\ Plain(s) \subseteq Plain(s) \cup {y}
                BY DEF PageOf
            <4> QED BY <4>1, Wider
        <3> QED BY <2>2, <3>1, HasAppend
    <2> QED BY <2>1, <2>2 DEF Aside
<1>5. o.queue = p.queue /\ o.held = p.held /\ o.sync = p.sync
    BY DEF Aside
<1>6. Posting(s, p, m, o)
    BY <1>1, <1>3, <1>4, <1>5 DEF Posting, Mail, Posts
<1>7. Barring(s, p, m, o)
    BY <1>1 DEF Aside, Barring
<1> QED BY <1>2, <1>6, <1>7

(***************************************************************************)
(* An arrival is noted; if it opens the barrier of the page's period, the  *)
(* scripts start.                                                          *)
(***************************************************************************)
LEMMA ArrivalHeeds ==
    ASSUME Paused = {}, NEW s \in Subjects, NEW p \in PageOf(s), NEW m \in Routed, m.key = "_at_barrier",
           p.ranAt = Undefined => p.deferred \subseteq {p.period}, p.enabled => p.held = <<>>
    PROVE  LET o == AtBarrier(p, s, m)
           IN  Counting(p, m, o) /\ Posting(s, p, m, o) /\ Barring(s, p, m, o)
<1> DEFINE a == [p EXCEPT !.received[m.value] = @ \cup {m.sender}]
           b == [a EXCEPT !.deferred = @ \ {m.value}, !.received[m.value] = {}]
           o == AtBarrier(p, s, m)
           Same(q) == /\ q.loaded = p.loaded /\ q.enabled = p.enabled /\ q.held = p.held /\ q.queue = p.queue
                      /\ q.sync = p.sync /\ q.out = p.out
<1>1. m.value \in Periods /\ m.sender \in Subjects
    BY DEF Routed
<1>2. /\ Same(a) /\ a.deferred = p.deferred /\ a.broken = p.broken /\ a.ranAt = p.ranAt
      /\ \A k \in Periods : a.received[k] = IF k = m.value THEN p.received[k] \cup {m.sender} ELSE p.received[k]
    BY <1>1 DEF PageOf
<1>3. o = IF m.value \in a.deferred /\ Subjects \subseteq a.received[m.value] THEN PassBarrier(b, s) ELSE a
    BY DEF AtBarrier, CheckBarrier
<1>4. ASSUME Same(o) PROVE Counting(p, m, o) /\ Posting(s, p, m, o)
    <2> HIDE DEF o
    <2>1. \A t, k : ~Loaded(m, t, k)
        BY DEF Loaded
    <2>2. Counting(p, m, o)
        BY <1>4, <2>1 DEF Counting
    <2>3. Posting(s, p, m, o)
        BY <1>4, <2>1 DEF Posting, Mail, Posts
    <2> QED BY <2>2, <2>3
<1>5. CASE ~(m.value \in a.deferred /\ Subjects \subseteq a.received[m.value])
    <2>1. o = a
        BY <1>3, <1>5
    <2> HIDE DEF a, o
    <2>2. Barring(s, p, m, a)
        <3>1. \A k \in Periods : \A t \in Subjects : t \in a.received[k] <=> t \in p.received[k] \/ Arrives(m, t, k)
            BY <1>1, <1>2 DEF Arrives
        <3> QED BY <1>2, <1>5, <3>1 DEF Barring
    <2>3. Same(o) /\ Barring(s, p, m, o)
        BY <1>2, <2>1, <2>2
    <2> QED BY <1>4, <2>3 DEF o
<1>6. CASE m.value \in a.deferred /\ Subjects \subseteq a.received[m.value]
    <2>1. o = PassBarrier(b, s)
        BY <1>3, <1>6
    <2>2. /\ Same(b) /\ b.pause = {} /\ b.ranAt = p.ranAt /\ b.period = p.period
        BY <1>1, <1>2 DEF PageOf
    <2> HIDE DEF b
    <2>3. o = StartPeriod(b)
        BY <2>1, <2>2 DEF PassBarrier
    <2>4. Same(o) /\ o.ranAt = IF p.ranAt = Undefined THEN p.period ELSE p.ranAt
        <3>1. b \in PageOf(s)
            <4>1. a \in PageOf(s)
                BY <1>1 DEF PageOf
            <4> HIDE DEF a
            <4> QED BY <1>1, <4>1 DEF PageOf, b
        <3>2. /\ [b EXCEPT !.ranAt = b.period] \in PageOf(s) /\ Same([b EXCEPT !.ranAt = b.period])
              /\ [b EXCEPT !.ranAt = b.period].ranAt = b.period
            BY <2>2, <3>1 DEF PageOf
        <3> QED BY <2>2, <2>3, <3>1, <3>2 DEF StartPeriod, NextPeriod, PageOf
    <2>5. o.ranAt # Undefined
        BY <1>1, <1>2, <1>6, <2>4, Basics
    <2> HIDE DEF o
    <2>6. Barring(s, p, m, o)
        BY <2>5 DEF Barring
    <2> QED BY <1>4, <2>4, <2>6 DEF o
<1> QED BY <1>5, <1>6

(***************************************************************************)
(* A subject is counted when its page is that of its period; the last one  *)
(* enables messaging, and the page's own takes it to the barrier.          *)
(***************************************************************************)
LEMMA LoadedHeeds ==
    ASSUME NEW s \in Subjects, NEW p \in PageOf(s), NEW m \in Routed, m.key = "__page_loaded__",
           p.enabled => p.held = <<>>
    PROVE  LET o == PageLoaded(p, s, m)
           IN  Counting(p, m, o) /\ Posting(s, p, m, o) /\ Barring(s, p, m, o)
<1> DEFINE core == CorePageLoaded(p, s, m)
           known == m.period = p.periods[m.sender]
           counted == IF known THEN [core EXCEPT !.loaded = @ \cup {m.sender}] ELSE core
           all == known /\ counted.loaded = Subjects
           ready == IF all THEN EnableMessaging(counted, s) ELSE counted
           waiting == [ready EXCEPT !.deferred = @ \cup {p.period}]
           arrival == Message("_at_barrier", s, p.period, Group, FALSE, p.period)
           o == PageLoaded(p, s, m)
           Set(q) == q.deferred = p.deferred /\ q.received = p.received /\ q.ranAt = p.ranAt /\ q.period = p.period
           Mails(q) == /\ \A x : Mail(q, x) => Mail(p, x)
                       /\ \A x : Arrives(x, s, p.period) /\ Posts(p, x) => Posts(q, x)
<1>1. m.sender \in Subjects /\ m.period \in Periods
    BY DEF Routed
<1>2. /\ core \in PageOf(s) /\ core.loaded = p.loaded /\ core.enabled = p.enabled /\ core.broken = p.broken
      /\ core.held = p.held /\ core.out = p.out /\ core.queue = p.queue /\ core.sync = p.sync /\ Set(core)
    BY DEF CorePageLoaded, PageOf
<1> HIDE DEF core
<1>3. /\ counted \in PageOf(s)
      /\ counted.loaded = IF known THEN p.loaded \cup {m.sender} ELSE p.loaded
      /\ counted.enabled = p.enabled /\ counted.broken = p.broken
      /\ counted.held = p.held /\ counted.out = p.out /\ counted.queue = p.queue /\ counted.sync = p.sync
      /\ Set(counted)
    BY <1>1, <1>2 DEF PageOf
<1>4. o = IF all /\ p.broken THEN counted
          ELSE IF m.sender = s /\ m.period = p.period
               THEN ScriptSend(waiting, s, arrival) ELSE ready
    BY DEF PageLoaded, core
<1>5. \A t \in Subjects : Loaded(m, t, p.periods[t]) <=> known /\ t = m.sender
    BY DEF Loaded
<1>6. \A t, k : ~Arrives(m, t, k)
    BY DEF Arrives
<1> HIDE DEF counted, known
<1>7. \A t \in Subjects : t \in counted.loaded <=> t \in p.loaded \/ Loaded(m, t, p.periods[t])
    BY <1>1, <1>3, <1>5
<1>8. Mails(counted)
    BY <1>3 DEF Mail, Posts
<1>9. /\ ready \in PageOf(s) /\ ready.loaded = counted.loaded /\ ready.broken = p.broken /\ ready.sync = p.sync
      /\ (p.enabled => ready.enabled) /\ (ready.enabled => ready.held = <<>>) /\ (all => ready.enabled)
      /\ Set(ready) /\ Mails(ready)
    <2>1. CASE all
        <3>1. ready = EnableMessaging(counted, s)
            BY <2>1
        <3>2. EnableMessaging(counted, s) \in PageOf(s) /\ Steady(counted, EnableMessaging(counted, s))
            BY <1>3, EnableMessagingPlain
        <3> HIDE DEF ready
        <3>3. /\ ready.loaded = counted.loaded /\ ready.enabled /\ ready.broken = counted.broken
              /\ ready.held = <<>> /\ ready.sync = counted.sync
              /\ \A x : Mail(ready, x) => Mail(counted, x)
              /\ \A x : Posts(counted, x) /\ IsQueueable(counted, s, x) => Posts(ready, x)
            BY <1>3, <3>1, EnableMail
        <3>4. Set(ready)
            BY <1>3, <3>1, <3>2 DEF Steady
        <3>5. \A x : Mail(ready, x) => Mail(p, x)
            BY <1>8, <3>3
        <3>6. ASSUME NEW x, Arrives(x, s, p.period), Posts(p, x) PROVE Posts(ready, x)
            <4>1. Posts(counted, x)
                BY <1>8, <3>6
            <4>2. x \in Plain(s)
                <5>1. /\ counted.queue \in Seq(Plain(s)) /\ counted.held \in Seq(Plain(s))
                      /\ counted.out \in Seq(Plain(s))
                    BY <1>3 DEF PageOf
                <5>2. Has(counted.queue, x) \/ Has(counted.held, x) \/ Has(counted.out, x)
                    BY <4>1 DEF Posts
                <5> QED BY <5>1, <5>2, ElementsOfSeq
            <4>3. x.key \notin StateKeys /\ x.key = "_at_barrier" /\ x.period = p.period /\ x.sender = s
                BY <3>6, <4>2 DEF Arrives, Plain, Routed, StateKeys
            <4>4. IsQueueable(counted, s, x)
                BY <1>3, <4>3 DEF IsQueueable, StateKeys
            <4> QED BY <3>3, <4>1, <4>4
        <3> QED BY <1>3, <2>1, <3>1, <3>2, <3>3, <3>4, <3>5, <3>6
    <2>2. CASE ~all
        <3>1. ready = counted
            BY <2>2
        <3> HIDE DEF ready, all
        <3> QED BY <1>3, <1>8, <2>2, <3>1
    <2> QED BY <2>1, <2>2
<1>10. counted.loaded = Subjects /\ ~all => ~known /\ p.loaded = Subjects
    BY <1>3
<1>11. ASSUME p.loaded = Subjects => p.enabled, ready.loaded = Subjects PROVE ready.enabled
    BY <1>9, <1>10, <1>11
<1> HIDE DEF ready, all, o
<1>12. CASE all /\ p.broken
    <2>1. o = counted
        BY <1>4, <1>12
    <2>2. Counting(p, m, counted)
        BY <1>3, <1>7, <1>12 DEF Counting
    <2>3. Posting(s, p, m, counted)
        BY <1>6, <1>8, <1>12 DEF Posting
    <2>4. Barring(s, p, m, counted)
        BY <1>3, <1>6, <1>12 DEF Barring
    <2> QED BY <2>1, <2>2, <2>3, <2>4 DEF o
<1>13. CASE ~(all /\ p.broken) /\ ~(m.sender = s /\ m.period = p.period)
    <2>1. o = ready
        BY <1>4, <1>13
    <2>2. Counting(p, m, ready)
        BY <1>7, <1>9, <1>11 DEF Counting
    <2>3. ~Loaded(m, s, p.period)
        BY <1>13 DEF Loaded
    <2>4. Posting(s, p, m, ready)
        BY <1>6, <1>9, <2>3 DEF Posting
    <2>5. Barring(s, p, m, ready)
        BY <1>6, <1>9 DEF Barring
    <2> QED BY <2>1, <2>2, <2>4, <2>5 DEF o
<1>14. CASE ~(all /\ p.broken) /\ m.sender = s /\ m.period = p.period
    <2>1. o = ScriptSend(waiting, s, arrival)
        BY <1>4, <1>14
    <2>2. p.period \in Periods /\ Loaded(m, s, p.period)
        BY <1>1, <1>14 DEF Loaded
    <2>3. arrival = ArrivalOf(s, p.period) /\ arrival \in Plain(s)
        BY <2>2, ArrivalIs DEF ArrivalOf
    <2>4. /\ waiting \in PageOf(s) /\ waiting.deferred = p.deferred \cup {p.period}
          /\ waiting.received = p.received /\ waiting.ranAt = p.ranAt /\ waiting.period = p.period
          /\ waiting.loaded = ready.loaded /\ waiting.enabled = ready.enabled /\ waiting.broken = p.broken
          /\ waiting.held = ready.held /\ waiting.out = ready.out /\ waiting.queue = ready.queue
          /\ waiting.sync = p.sync
        BY <1>9, <2>2 DEF PageOf
    <2> HIDE DEF waiting, arrival
    <2>5. /\ \A x : Mail(waiting, x) <=> Mail(ready, x)
          /\ \A x : Posts(waiting, x) <=> Posts(ready, x)
        BY <1>9, <2>4 DEF Mail, Posts
    <2>6. o \in PageOf(s) /\ Steady(waiting, o)
        BY <2>1, <2>3, <2>4, ScriptSendPlain
    <2>7. /\ o.loaded = waiting.loaded /\ o.enabled = waiting.enabled /\ o.broken = waiting.broken
          /\ (waiting.enabled => waiting.held = <<>>) => (o.enabled => o.held = <<>>)
          /\ o.sync = waiting.sync
          /\ \A x : Mail(o, x) => Mail(waiting, x) \/ x = arrival
          /\ \A x : Posts(waiting, x) => Posts(o, x)
          /\ IsQueueable(waiting, s, arrival) => Posts(o, arrival)
        BY <2>1, <2>3, <2>4, ScriptSendMail
    <2>8. IsQueueable(waiting, s, arrival)
        BY <2>2, <2>3, <2>4, ArrivalIs
    <2>9. o.deferred = p.deferred \cup {p.period} /\ o.received = p.received /\ o.ranAt = p.ranAt
        BY <2>4, <2>6 DEF Steady
    <2>10. Counting(p, m, o)
        BY <1>7, <1>9, <1>11, <2>4, <2>7 DEF Counting
    <2>11. Posting(s, p, m, o)
        BY <1>6, <1>9, <2>2, <2>3, <2>5, <2>7, <2>8, <2>9 DEF Posting
    <2>12. Barring(s, p, m, o)
        BY <1>6, <2>4, <2>7, <2>9 DEF Barring
    <2> QED BY <2>10, <2>11, <2>12 DEF o
<1> QED BY <1>12, <1>13, <1>14

\* What the page of s makes of who is where, and that it goes with its period.
Learning(s, p, m, o) ==
    /\ \A t \in Subjects : Learns(p.periods[t], m, t, o.periods[t])
    /\ o.name = p.name
    /\ o.sync /\ o.isReload =>
          /\ p.sync /\ ~Ends(m, s)
          /\ p.isReload \/ (m.key = "__page_loaded__" /\ m.sender = s /\ p.period \in {Undefined, m.period})
    /\ m.key = "__set_page__" /\ m.sender = s /\ ~p.sync => o.reloading
    /\ Ends(m, s) /\ ~p.sync => \E x : Has(o.out, x) /\ Turning(x, s)

\* A page that handles m heeds all of it.
Heeds(s, p, m, o) ==
    Counting(p, m, o) /\ Posting(s, p, m, o) /\ Barring(s, p, m, o) /\ Learning(s, p, m, o)

\* The listener to __set_period__.
LEMMA PeriodHeeds ==
    ASSUME Paused = {}, NEW s \in Subjects, NEW p \in PageOf(s), NEW m \in Routed, m.key = "__set_period__",
           p.enabled => p.held = <<>>
    PROVE  Heeds(s, p, m, SetPeriod(p, s, m))
<1> DEFINE core == CoreSetPeriod(p, s, m)
           paused == [core EXCEPT !.pause = IF m.value \in Paused THEN @ \cup {m.value} ELSE @]
           new == Message("__set_page__", s, m.value, 0, TRUE, m.value)
           o == SetPeriod(p, s, m)
           Same(q) == /\ q.loaded = p.loaded /\ q.enabled = p.enabled /\ q.held = p.held /\ q.queue = p.queue
                      /\ q.sync = p.sync /\ q.deferred = p.deferred /\ q.received = p.received
                      /\ q.ranAt = p.ranAt /\ q.broken = p.broken /\ q.name = p.name
                      /\ q.periods = [p.periods EXCEPT ![m.sender] = m.value]
                      /\ q.isReload = IF p.sync /\ m.sender = s THEN FALSE ELSE p.isReload
<1>1. m.value \in Periods /\ m.sender \in Subjects
    BY DEF Routed
<1>2. Same(core) /\ core.out = p.out
    BY DEF CoreSetPeriod, PageOf
<1>3. ASSUME Same(o), o.out = p.out \/ \E x : x.key \in Change /\ o.out = Append(p.out, x),
             Ends(m, s) /\ ~p.sync => \E x : Has(o.out, x) /\ Turning(x, s)
      PROVE  Heeds(s, p, m, o)
    <2> HIDE DEF o
    <2>1. Aside(s, p, m, o)
        BY <1>3 DEF Aside
    <2>2. Counting(p, m, o) /\ Posting(s, p, m, o) /\ Barring(s, p, m, o)
        BY <2>1, AsideHeeds
    <2>3. \A t \in Subjects : o.periods[t] = IF m.sender = t THEN m.value ELSE p.periods[t]
        BY <1>1, <1>3 DEF PageOf
    <2>4. \A t \in Subjects : Learns(p.periods[t], m, t, o.periods[t])
        BY <2>3 DEF Learns
    <2>5. Learning(s, p, m, o)
        BY <1>3, <2>4 DEF Learning, Ends
    <2> QED BY <2>2, <2>5 DEF Heeds
<1>4. CASE m.sender # s
    <2>1. o = core
        BY <1>4 DEF SetPeriod
    <2> HIDE DEF core, o
    <2>2. Same(o) /\ o.out = p.out /\ ~Ends(m, s)
        BY <1>2, <1>4, <2>1 DEF Ends
    <2> QED BY <1>3, <2>2 DEF o
<1>5. CASE m.sender = s
    <2>1. o = Send(paused, s, new)
        BY <1>5 DEF SetPeriod
    <2>2. paused = core
        <3>1. core.pause = p.pause /\ core = [core EXCEPT !.pause = core.pause]
            BY DEF CoreSetPeriod, PageOf
        <3> HIDE DEF core
        <3> QED BY <3>1
    <2>3. new \in Routed /\ new.key = "__set_page__" /\ new.sender = s /\ OnWire(new) = new
        <3>1. new = PageIs(s, m.value)
            BY DEF PageIs
        <3>2. new \in Routed
            BY <1>1, <3>1, MessagesAre
        <3>3. new.period = m.value /\ new.key = "__set_page__" /\ new.sender = s
            BY DEF Message
        <3>4. [new EXCEPT !.period = new.period] = new
            BY DEF Message
        <3>5. m.value # Undefined
            BY <1>1, Basics
        <3> QED BY <3>2, <3>3, <3>4, <3>5 DEF OnWire
    <2> HIDE DEF new, core, paused
    <2>4. CASE p.sync
        <3>1. o = core
            BY <1>2, <2>1, <2>2, <2>3, <2>4 DEF Send, SyncSend, IsQueueable, StateKeys
        <3> HIDE DEF o
        <3> QED BY <1>2, <1>3, <2>4, <3>1 DEF o
    <2>5. CASE ~p.sync
        <3>1. o = [core EXCEPT !.out = Append(@, new)]
            BY <1>2, <2>1, <2>2, <2>3, <2>5 DEF Send, DefaultSend
        <3>2. Same([core EXCEPT !.out = Append(@, new)]) /\ [core EXCEPT !.out = Append(@, new)].out = Append(p.out, new)
            BY DEF core, CoreSetPeriod, PageOf
        <3> HIDE DEF o
        <3>3. Same(o) /\ o.out = Append(p.out, new)
            BY <3>1, <3>2
        <3>4. Has(o.out, new)
            <4>1. p.out \in Seq(Routed)
                <5>1. p.out \in Seq(Plain(s)) /\ Plain(s) \subseteq Routed
                    BY DEF PageOf, Plain
                <5> QED BY <5>1, Wider
            <4> QED BY <2>3, <3>3, <4>1, HasAppend
        <3>5. Turning(new, s) /\ new.key \in Change
            BY <2>3 DEF Turning, Change
        <3> QED BY <1>3, <2>3, <3>3, <3>4, <3>5 DEF o
    <2> QED BY <2>4, <2>5
<1> QED BY <1>4, <1>5

\* Every handler.
LEMMA HandleHeeds ==
    ASSUME Paused = {}, NEW s \in Subjects, NEW p \in PageOf(s), NEW m \in Routed,
           p.ranAt = Undefined => p.deferred \subseteq {p.period}, p.enabled => p.held = <<>>
    PROVE  Heeds(s, p, m, HandleMsg(p, s, m))
<1> DEFINE o == HandleMsg(p, s, m)
<1>1. CASE m.key = "__set_period__"
    <2>1. o = SetPeriod(p, s, m)
        BY <1>1 DEF HandleMsg
    <2> QED BY <1>1, <2>1, PeriodHeeds
<1>2. CASE m.key = "__page_loaded__"
    <2>1. o = PageLoaded(p, s, m)
        BY <1>2 DEF HandleMsg
    <2> HIDE DEF o
    <2>2. Counting(p, m, o) /\ Posting(s, p, m, o) /\ Barring(s, p, m, o)
        BY <1>2, <2>1, LoadedHeeds
    <2>3. /\ o.periods = p.periods /\ o.name = p.name /\ o.sync = p.sync
          /\ o.isReload = (p.isReload \/ (p.sync /\ m.sender = s /\ p.period \in {Undefined, m.period}))
        BY <1>2, <2>1, PageLoadedIs DEF Apart
    <2>4. Learning(s, p, m, o)
        BY <1>2, <2>3 DEF Learning, Learns, Ends
    <2> QED BY <2>2, <2>4 DEF Heeds, o
<1>3. CASE m.key = "_at_barrier"
    <2>1. o = AtBarrier(p, s, m)
        BY <1>3 DEF HandleMsg
    <2> HIDE DEF o
    <2>2. Counting(p, m, o) /\ Posting(s, p, m, o) /\ Barring(s, p, m, o)
        BY <1>3, <2>1, ArrivalHeeds
    <2>3. o.periods = p.periods /\ o.name = p.name /\ o.sync = p.sync /\ o.isReload = p.isReload
        BY <1>3, <2>1, AtBarrierIs DEF Apart
    <2>4. Learning(s, p, m, o)
        BY <1>3, <2>3 DEF Learning, Learns, Ends
    <2> QED BY <2>2, <2>4 DEF Heeds, o
<1>4. ASSUME m.key \notin {"__set_period__", "__page_loaded__", "_at_barrier"}, Aside(s, p, m, o),
             o.periods = p.periods, o.name = p.name, o.sync = p.sync, o.isReload = p.isReload,
             m.key = "__set_page__" /\ m.sender = s /\ ~p.sync => o.reloading
      PROVE  Heeds(s, p, m, o)
    <2> HIDE DEF o
    <2>1. Counting(p, m, o) /\ Posting(s, p, m, o) /\ Barring(s, p, m, o)
        BY <1>4, AsideHeeds
    <2>2. Learning(s, p, m, o)
        BY <1>4 DEF Learning, Learns, Ends
    <2> QED BY <2>1, <2>2 DEF Heeds
<1>5. CASE m.key = "__set_page__"
    <2>1. o = [p EXCEPT !.reloading = @ \/ (~p.sync /\ m.sender = s)]
        BY <1>5 DEF HandleMsg, CoreSetPage
    <2>2. /\ o.loaded = p.loaded /\ o.enabled = p.enabled /\ o.held = p.held /\ o.queue = p.queue
          /\ o.sync = p.sync /\ o.deferred = p.deferred /\ o.received = p.received /\ o.ranAt = p.ranAt
          /\ o.broken = p.broken /\ o.out = p.out
          /\ o.periods = p.periods /\ o.name = p.name /\ o.isReload = p.isReload
          /\ (m.sender = s /\ ~p.sync => o.reloading)
        BY <2>1 DEF PageOf
    <2> HIDE DEF o
    <2>3. Aside(s, p, m, o)
        BY <1>5, <2>2 DEF Aside
    <2> QED BY <1>4, <1>5, <2>2, <2>3 DEF o
<1>6. CASE m.key = "_next_period"
    <2> DEFINE q == [p EXCEPT !.broken = TRUE]
               new == Message("__set_period__", s, p.period, 0, TRUE, p.period + 1)
    <2>1. o = IF Asks(s, p, m) THEN Send(q, s, new) ELSE p
        BY <1>6 DEF HandleMsg, OwnNextPeriod, Asks
    <2>2. CASE ~Asks(s, p, m)
        <3>1. o = p
            BY <2>1, <2>2
        <3> HIDE DEF o
        <3>2. Aside(s, p, m, o)
            BY <1>6, <3>1 DEF Aside
        <3> QED BY <1>4, <1>6, <3>1, <3>2 DEF o
    <2>3. CASE Asks(s, p, m)
        <3>1. /\ q.loaded = p.loaded /\ q.enabled = p.enabled /\ q.held = p.held /\ q.queue = p.queue
              /\ q.sync = p.sync /\ q.deferred = p.deferred /\ q.received = p.received /\ q.ranAt = p.ranAt
              /\ q.out = p.out /\ q.periods = p.periods /\ q.name = p.name /\ q.isReload = p.isReload
            BY DEF PageOf
        <3>2. CASE p.sync
            <4>1. o = q
                BY <2>1, <2>3, <3>1, <3>2 DEF Send, SyncSend, IsQueueable, StateKeys, Message
            <4> HIDE DEF o, q
            <4>2. Aside(s, p, m, o)
                BY <1>6, <2>3, <3>1, <4>1 DEF Aside
            <4> QED BY <1>4, <1>6, <3>1, <4>1, <4>2 DEF o
        <3>3. CASE ~p.sync
            <4>1. o = [q EXCEPT !.out = Append(@, OnWire(new))]
                BY <2>1, <2>3, <3>1, <3>3 DEF Send, DefaultSend
            <4>2. /\ o.loaded = p.loaded /\ o.enabled = p.enabled /\ o.held = p.held /\ o.queue = p.queue
                  /\ o.sync = p.sync /\ o.deferred = p.deferred /\ o.received = p.received /\ o.ranAt = p.ranAt
                  /\ o.out = Append(p.out, OnWire(new))
                  /\ o.periods = p.periods /\ o.name = p.name /\ o.isReload = p.isReload
                BY <4>1 DEF PageOf
            <4> HIDE DEF o, q
            <4>3. OnWire(new).key \in Change
                BY DEF OnWire, Message, Change
            <4>4. Aside(s, p, m, o)
                BY <1>6, <2>3, <4>2, <4>3 DEF Aside
            <4> QED BY <1>4, <1>6, <4>2, <4>4 DEF o
        <3> QED BY <3>2, <3>3
    <2> QED BY <2>2, <2>3
<1>7. CASE m.key \notin {"__set_period__", "__page_loaded__", "_at_barrier", "__set_page__", "_next_period"}
    <2>1. p.pause = {}
        BY DEF PageOf
    <2>2. o = p
        BY <1>7, <2>1 DEF HandleMsg, Resume
    <2> HIDE DEF o
    <2>3. Aside(s, p, m, o)
        BY <1>7, <2>2 DEF Aside
    <2> QED BY <1>4, <1>7, <2>2, <2>3 DEF o
<1> QED BY <1>1, <1>2, <1>3, <1>5, <1>6, <1>7

\* And with the removal of what is sent again.
LEMMA MessageHeeds ==
    ASSUME Paused = {}, NEW s \in Subjects, NEW p \in PageOf(s), ~p.reloading, NEW m \in Routed,
           p.ranAt = Undefined => p.deferred \subseteq {p.period}, p.enabled => p.held = <<>>
    PROVE  Heeds(s, p, m, OnMessage(p, s, m))
<1> DEFINE q == Deduplicate(p, m)
           o == OnMessage(p, s, m)
<1>1. o = HandleMsg(q, s, m)
    BY DEF OnMessage, Routed, Change, PlainKeys
<1>2. q \in PageOf(s) /\ Steady(p, q) /\ q.out = p.out /\ q.held = p.held
    BY DeduplicateIs
<1>3. /\ q.loaded = p.loaded /\ q.enabled = p.enabled /\ q.broken = p.broken
      /\ \A x : Mail(q, x) => Mail(p, x)
      /\ \A x : Posts(p, x) => Posts(q, x) \/ (p.sync /\ SameMsgId(x, m))
    BY DeduplicateMail
<1> HIDE DEF q, o
<1>4. Heeds(s, q, m, o)
    BY <1>1, <1>2, <1>3, HandleHeeds DEF Steady
<1>5. q.periods = p.periods /\ q.period = p.period /\ q.sync = p.sync /\ q.name = p.name /\ q.isReload = p.isReload
      /\ q.ranAt = p.ranAt /\ q.deferred = p.deferred /\ q.received = p.received
    BY <1>2 DEF Steady
<1>6. Counting(p, m, o)
    BY <1>3, <1>4, <1>5 DEF Heeds, Counting
<1>7. \A x : Arrives(x, s, p.period) /\ SameMsgId(x, m) => Arrives(m, s, p.period)
    BY DEF Arrives, SameMsgId
<1>8. Posting(s, p, m, o)
    BY <1>3, <1>4, <1>5, <1>7 DEF Heeds, Posting
<1>9. Barring(s, p, m, o)
    BY <1>3, <1>4, <1>5 DEF Heeds, Barring, Asks
<1>10. Learning(s, p, m, o)
    BY <1>4, <1>5 DEF Heeds, Learning
<1> QED BY <1>6, <1>8, <1>9, <1>10 DEF Heeds, o

\* The marks tell nothing of anybody.
LEMMA MarksAre ==
    /\ Begin.key = "__queue_start__" /\ End.key = "__queue_end__" /\ Begin # End
    /\ \A m \in {Begin, End} : /\ m.key # "_next_period" /\ m.key # "__set_period__" /\ m.key # "__set_page__"
                               /\ m.key # "__page_loaded__" /\ m.key # "_at_barrier"
    /\ \A m \in {Begin, End} : \A t, k : ~Enters(m, t, k) /\ ~Loaded(m, t, k) /\ ~Arrives(m, t, k) /\ ~Ends(m, t)
    /\ Begin \notin Routed /\ End \notin Routed
BY DEF Begin, End, Mark, Message, Enters, Loaded, Arrives, Ends, Routed, Change, PlainKeys

\* The mark before the replay.
LEMMA BeginHeeds ==
    ASSUME NEW s \in Subjects, NEW p \in PageOf(s), ~p.reloading, ~p.sync, ~p.isReload,
           p.enabled => p.held = <<>>
    PROVE  Heeds(s, p, Begin, OnMessage(p, s, Begin))
<1> DEFINE o == OnMessage(p, s, Begin)
<1>1. o = [p EXCEPT !.sync = TRUE, !.queue = <<>>]
    BY DEF OnMessage, QueueStart, Begin, Mark, Message
<1>2. /\ o.loaded = p.loaded /\ o.enabled = p.enabled /\ o.broken = p.broken /\ o.held = p.held /\ o.out = p.out
      /\ o.deferred = p.deferred /\ o.received = p.received /\ o.ranAt = p.ranAt /\ o.name = p.name
      /\ o.periods = p.periods /\ o.isReload = p.isReload /\ o.queue = <<>>
    BY <1>1 DEF PageOf
<1> HIDE DEF o
<1>3. \A t, k : ~Loaded(Begin, t, k) /\ ~Arrives(Begin, t, k) /\ ~Ends(Begin, t)
    BY MarksAre
<1>4. \A x : ~Has(<<>>, x)
    BY HasOne
<1>5. Counting(p, Begin, o)
    BY <1>2, <1>3 DEF Counting
<1>6. Posting(s, p, Begin, o)
    BY <1>2, <1>3, <1>4 DEF Posting, Mail, Posts
<1>7. Barring(s, p, Begin, o)
    BY <1>2, <1>3, MarksAre DEF Barring
<1>8. Learning(s, p, Begin, o)
    BY <1>2, <1>3, MarksAre DEF Learning, Learns
<1> QED BY <1>5, <1>6, <1>7, <1>8 DEF Heeds, o

\* The mark behind it, at which the queue is sent.
LEMMA EndHeeds ==
    ASSUME NEW s \in Subjects, NEW p \in PageOf(s), p.out = <<>>, ~p.reloading, p.enabled => p.held = <<>>, p.sync
    PROVE  Heeds(s, p, End, OnMessage(p, s, End))
<1> DEFINE o == OnMessage(p, s, End)
           w == Message("__page_loaded__", s, p.period, 0, FALSE, 0)
           v == Message("__page_loaded__", s, IF p.period = Undefined THEN 0 ELSE p.period, 0, FALSE, 0)
           b == IF p.isReload THEN p ELSE DefaultSend(p, w)
<1>1. o = [[b EXCEPT !.sync = FALSE, !.isReload = FALSE] EXCEPT !.out = @ \o p.queue]
    BY DEF OnMessage, QueueEnd, End, Mark, Message
<1>2. /\ b.loaded = p.loaded /\ b.enabled = p.enabled /\ b.broken = p.broken /\ b.held = p.held
      /\ b.deferred = p.deferred /\ b.received = p.received /\ b.ranAt = p.ranAt /\ b.name = p.name
      /\ b.periods = p.periods /\ b.queue = p.queue
    BY DEF DefaultSend, PageOf
<1>3. /\ o.loaded = p.loaded /\ o.enabled = p.enabled /\ o.broken = p.broken /\ o.held = p.held
      /\ o.deferred = p.deferred /\ o.received = p.received /\ o.ranAt = p.ranAt /\ o.name = p.name
      /\ o.periods = p.periods /\ o.queue = p.queue /\ ~o.sync
    BY <1>1 DEF DefaultSend, PageOf
<1>4. o.out = (IF p.isReload THEN <<>> ELSE <<v>>) \o p.queue /\ v \in Plain(s)
    BY OwnEnd
<1>5. v.key = "__page_loaded__" /\ v.period \in {0, p.period}
    BY DEF Message
<1> HIDE DEF o, v
<1>6. \A t, k : ~Loaded(End, t, k) /\ ~Arrives(End, t, k) /\ ~Ends(End, t)
    BY MarksAre
<1>7. /\ \A x : Has(o.out, x) => x = v \/ Has(p.queue, x)
      /\ \A x : Has(p.queue, x) => Has(o.out, x)
    <2>1. p.queue \in Seq(Plain(s)) /\ <<v>> \in Seq(Plain(s)) /\ <<>> \in Seq(Plain(s))
        BY <1>4, OfOne DEF PageOf
    <2>2. \A x : (Has(<<v>>, x) <=> x = v) /\ ~Has(<<>>, x)
        BY HasOne
    <2>3. /\ \A x : Has(<<v>> \o p.queue, x) <=> Has(<<v>>, x) \/ Has(p.queue, x)
          /\ \A x : Has(<<>> \o p.queue, x) <=> Has(<<>>, x) \/ Has(p.queue, x)
        BY <2>1, HasConcat
    <2>4. CASE p.isReload
        BY <1>4, <2>2, <2>3, <2>4
    <2>5. CASE ~p.isReload
        BY <1>4, <2>2, <2>3, <2>5
    <2> QED BY <2>4, <2>5
<1>8. Counting(p, End, o)
    BY <1>3, <1>6 DEF Counting
<1>9. \A x : ~Has(p.out, x)
    BY HasOne
<1>10. Posting(s, p, End, o)
    <2>1. \A x : Mail(o, x) => Mail(p, x) \/ (x.key = "__page_loaded__" /\ x.period \in {0, p.period})
        BY <1>3, <1>5, <1>7 DEF Mail
    <2>2. \A x : Posts(p, x) => Posts(o, x)
        BY <1>3, <1>7, <1>9 DEF Posts
    <2> QED BY <1>6, <2>1, <2>2 DEF Posting
<1>11. Barring(s, p, End, o)
    BY <1>3, <1>6, MarksAre DEF Barring
<1>12. Learning(s, p, End, o)
    BY <1>3, <1>6, MarksAre DEF Learning, Learns
<1> QED BY <1>8, <1>10, <1>11, <1>12 DEF Heeds, o

-----------------------------------------------------------------------------
(* What the stages say                                                     *)

\* A replay has the marks and the log.
LEMMA ReplayHas ==
    ASSUME NEW S, NEW x \in Seq(S), NEW r, NEW sync \in BOOLEAN, Replays(r, sync, x)
    PROVE  /\ r \in Seq(S \cup {Begin, End})
           /\ \A m : Has(r, m) => m \in {Begin, End} \/ Has(x, m)
<1> DEFINE T == S \cup {Begin, End}
<1>1. x \in Seq(T) /\ <<Begin>> \in Seq(T) /\ <<End>> \in Seq(T)
    BY Wider, OfOne
<1> HIDE DEF T
<1>2. x \o <<End>> \in Seq(T) /\ <<Begin>> \o x \in Seq(T)
    BY <1>1, ConcatProperties
<1>3. (<<Begin>> \o x) \o <<End>> \in Seq(T)
    BY <1>1, <1>2, ConcatProperties
<1>4. /\ \A m : Has(x \o <<End>>, m) <=> Has(x, m) \/ Has(<<End>>, m)
      /\ \A m : Has(<<Begin>> \o x, m) <=> Has(<<Begin>>, m) \/ Has(x, m)
    BY <1>1, HasConcat
<1>5. \A m : Has((<<Begin>> \o x) \o <<End>>, m) <=> Has(<<Begin>> \o x, m) \/ Has(<<End>>, m)
    BY <1>1, <1>2, HasConcat
<1>6. \A m : (Has(<<Begin>>, m) <=> m = Begin) /\ (Has(<<End>>, m) <=> m = End)
    BY HasOne
<1>7. CASE sync
    <2>1. r = x \o <<End>>
        BY <1>7 DEF Replays
    <2> QED BY <1>2, <1>4, <1>6, <2>1 DEF T
<1>8. CASE ~sync
    <2>1. r = (<<Begin>> \o x) \o <<End>>
        BY <1>8 DEF Replays
    <2> QED BY <1>3, <1>4, <1>5, <1>6, <2>1 DEF T
<1> QED BY <1>7, <1>8

(***************************************************************************)
(* s has not been told that the session starts: none of these messages is  *)
(* on its way.                                                             *)
(***************************************************************************)
Unaware(m, s) == ~Ends(m, s) /\ ~(m.sender = s /\ m.key = "_at_barrier")

\* Nor has it said anything of its own.
Unstarted(s, u, d, r, p, q, l) ==
    /\ q = 0 /\ u = <<>> /\ p.queue = <<>> /\ p.held = <<>> /\ p.period = Undefined /\ p.ranAt = Undefined
    /\ s \notin p.received[0]
    /\ \A m : Has(d, m) \/ Has(r, m) \/ Has(l, m) => Unaware(m, s)
    /\ \A m : Has(d, m) => ~(m.sender = s /\ m.key = "__page_loaded__")

\* In the stage Told nothing has been said.
LEMMA ToldIs ==
    ASSUME NEW s \in Subjects, NEW u, NEW d, NEW r, NEW p, NEW c, NEW q, NEW l, NEW a,
           Told(s, u, d, r, p, c, q, l, a), p.sync \in BOOLEAN
    PROVE  Unstarted(s, u, d, r, p, q, l)
<1> DEFINE A == Others(s) \cup {Announcement(s)}
<1>1. /\ q = 0 /\ u = <<>> /\ p.queue = <<>> /\ p.held = <<>> /\ p.period = Undefined /\ p.ranAt = Undefined
      /\ s \notin p.received[0]
    BY DEF Told, Unused, Idle
<1>2. \A m \in A : Unaware(m, s)
    BY DEF Unaware, Others, Mine, Ends, Announcement, Message
<1>3. \A m \in Others(s) : ~(m.sender = s /\ m.key = "__page_loaded__")
    BY DEF Others, Mine
<1>4. d \in Seq(Others(s)) /\ l \in Seq(A)
    BY DEF Told
<1>5. \A m : (Has(d, m) => m \in Others(s)) /\ (Has(l, m) => m \in A)
    BY <1>4, ElementsOfSeq
<1>6. ASSUME NEW m, Has(r, m) PROVE Unaware(m, s)
    <2>1. r # <<>>
        BY <1>6, HasOne
    <2>2. PICK x \in Seq(A) : Replays(r, p.sync, x)
        BY <2>1 DEF Told
    <2> HIDE DEF A
    <2>3. m \in {Begin, End} \/ Has(x, m)
        BY <1>6, <2>2, ReplayHas
    <2>4. Has(x, m) => m \in A
        BY <2>2, ElementsOfSeq
    <2>5. m \in {Begin, End} => Unaware(m, s)
        BY MarksAre DEF Unaware
    <2> QED BY <1>2, <2>3, <2>4, <2>5
<1> QED BY <1>1, <1>2, <1>3, <1>5, <1>6 DEF Unstarted

\* The period of a page, when it knows one.
LEMMA PeriodOfPage ==
    ASSUME NEW s \in Subjects, NEW u, NEW d, NEW r, NEW p, NEW c, NEW q \in Periods, NEW v, NEW l, NEW a,
           Stage(s, u, d, r, p, c, q, v, l, a), p \in PageOf(s)
    PROVE  /\ p.period # Undefined /\ ~p.reloading => p.period <= q
           /\ p.ranAt = Undefined /\ ~p.reloading => p.period \in {Undefined, q}
           /\ p.timer => p.ranAt # Undefined
<1>1. q \in Nat /\ Undefined \notin Periods
    BY Basics
<1>2. CASE Told(s, u, d, r, p, c, q, l, a)
    BY <1>2 DEF Told, Unused, Idle
<1>3. CASE Greeted(s, u, d, r, p, c, q, l, a)
    BY <1>1, <1>3 DEF Greeted, Unused, Idle
<1>4. CASE Settled(s, u, d, r, p, c, q, v, l, a)
    BY <1>1, <1>4 DEF Settled
<1>5. CASE Leaving(s, u, d, r, p, c, q, l, a)
    BY <1>1, <1>5 DEF Leaving, Through, Undefined
<1>6. CASE Turned(s, u, d, r, p, c, q, v, l, a)
    BY <1>1, <1>6 DEF Turned, Stale
<1>7. CASE Reloading(s, u, d, r, p, c, q, v, l, a)
    BY <1>1, <1>7 DEF Reloading
<1> QED BY <1>2, <1>3, <1>4, <1>5, <1>6, <1>7 DEF Stage
(***************************************************************************)
(* Either s has not been told, or the log has its period and no other.     *)
(***************************************************************************)
LEMMA LogSays ==
    ASSUME NEW s \in Subjects, NEW u, NEW d, NEW r, NEW p, NEW c, NEW q \in Periods, NEW v, NEW l, NEW a,
           Stage(s, u, d, r, p, c, q, v, l, a), p \in PageOf(s)
    PROVE  /\ Unstarted(s, u, d, r, p, q, l) \/ Entry(l, s, q)
           /\ \A m : Has(l, m) /\ Ends(m, s) => m = PeriodIs(s, q)
           /\ ~Has(a, PeriodIs(s, 0)) => Entry(l, s, q)
<1>1. Has(l, PeriodIs(s, q)) => Entry(l, s, q)
    BY PartsAre DEF Has, Entry, Enters
<1>2. CASE Told(s, u, d, r, p, c, q, l, a)
    <2>1. Unstarted(s, u, d, r, p, q, l)
        BY <1>2, ToldIs DEF PageOf
    <2>2. Has(a, PeriodIs(s, 0))
        BY <1>2 DEF Told
    <2> QED BY <2>1, <2>2 DEF Unstarted, Unaware
<1>3. CASE Greeted(s, u, d, r, p, c, q, l, a)
    <2>1. q = 0 /\ l \in Seq(Others(s) \cup {Announcement(s), PeriodIs(s, 0)}) /\ Has(l, PeriodIs(s, 0))
        BY <1>3 DEF Greeted
    <2>2. \A m \in Others(s) \cup {Announcement(s), PeriodIs(s, 0)} : Ends(m, s) => m = PeriodIs(s, 0)
        BY DEF Others, Mine, Announcement, Message, Ends
    <2>3. \A m : Has(l, m) => m \in Others(s) \cup {Announcement(s), PeriodIs(s, 0)}
        BY <2>1, ElementsOfSeq
    <2> QED BY <1>1, <2>1, <2>2, <2>3
<1>4. ASSUME NEW k, LogOf(s, l, q, k) PROVE Entry(l, s, q) /\ \A m : Has(l, m) /\ Ends(m, s) => m = PeriodIs(s, q)
    <2>1. l \in Seq(Upto(s, q, k)) /\ Has(l, PeriodIs(s, q))
        BY <1>4 DEF LogOf
    <2>2. \A m \in Upto(s, q, k) : Ends(m, s) => m = PeriodIs(s, q)
        BY DEF Upto, Ends
    <2>3. \A m : Has(l, m) => m \in Upto(s, q, k)
        BY <2>1, ElementsOfSeq
    <2> QED BY <1>1, <2>1, <2>2, <2>3
<1>5. CASE Settled(s, u, d, r, p, c, q, v, l, a)
    BY <1>4, <1>5 DEF Settled
<1>6. CASE Leaving(s, u, d, r, p, c, q, l, a)
    BY <1>4, <1>6 DEF Leaving
<1>7. CASE Turned(s, u, d, r, p, c, q, v, l, a)
    BY <1>4, <1>7 DEF Turned
<1>8. CASE Reloading(s, u, d, r, p, c, q, v, l, a)
    BY <1>4, <1>8 DEF Reloading
<1> QED BY <1>2, <1>3, <1>5, <1>6, <1>7, <1>8 DEF Stage

\* How a replay goes on; when it ends, the page knows its period.
LEMMA ReplayGoes ==
    ASSUME NEW s \in Subjects, NEW u, NEW d, NEW r, NEW p, NEW c, NEW q \in Periods, NEW v, NEW l, NEW a,
           Stage(s, u, d, r, p, c, q, v, l, a), p \in PageOf(s), r # <<>>
    PROVE  /\ Head(r) \in Routed \cup {Begin, End}
           /\ Head(r) = Begin <=> ~p.sync
           /\ Tail(r) = <<>> => Head(r) = End
           /\ ~p.reloading
           /\ Head(r) = End /\ ~Has(a, PeriodIs(s, 0)) /\ (\A m : Has(d, m) => ~Turning(m, s)) => p.period = q
<1>1. p.sync \in BOOLEAN
    BY DEF PageOf
<1>2. ASSUME NEW S, S \subseteq Routed, NEW x \in Seq(S), Replays(r, p.sync, x)
      PROVE  /\ Head(r) \in Routed \cup {Begin, End}
             /\ Head(r) = Begin <=> ~p.sync
             /\ Tail(r) = <<>> => Head(r) = End
             /\ Head(r) = End => x = <<>>
    <2>1. CASE ~p.sync
        <3>1. Replays(r, FALSE, x)
            BY <1>1, <1>2, <2>1
        <3>2. Head(r) = Begin /\ Replays(Tail(r), TRUE, x)
            BY <1>2, <3>1, ReplayFirst
        <3>3. Tail(r) # <<>>
            BY <1>2, <3>2, ReplayRest
        <3> QED BY <2>1, <3>2, <3>3, MarksAre
    <2>2. CASE p.sync
        <3>1. Replays(r, TRUE, x)
            BY <1>1, <1>2, <2>2
        <3>2. /\ x = <<>> => Head(r) = End /\ Tail(r) = <<>>
              /\ x # <<>> => Head(r) = Head(x) /\ Head(x) \in S /\ Tail(x) \in Seq(S) /\ Replays(Tail(r), TRUE, Tail(x))
            BY <1>2, <3>1, ReplayRest
        <3>3. x # <<>> => Tail(r) # <<>>
            BY <3>2, ReplayRest
        <3> QED BY <1>2, <2>2, <3>2, <3>3, MarksAre
    <2> QED BY <2>1, <2>2
<1>3. /\ Others(s) \cup {Announcement(s)} \subseteq Routed /\ Upto(s, q, q) \subseteq Routed
      /\ Others(s) \cup {Announcement(s), PeriodIs(s, 0)} \subseteq Routed
    <2>1. 0 \in Periods /\ Periods \subseteq Nat
        BY Basics
    <2>2. Others(s) \subseteq Routed /\ Announcement(s) \in Routed /\ PeriodIs(s, 0) \in Routed
        BY <2>1, MessagesAre DEF Others, Plain
    <2>3. Upto(s, q, q) \subseteq Routed
        BY DEF Upto
    <2> QED BY <2>2, <2>3
<1>4. CASE Told(s, u, d, r, p, c, q, l, a)
    <2>1. PICK x \in Seq(Others(s) \cup {Announcement(s)}) : Replays(r, p.sync, x)
        BY <1>4 DEF Told
    <2>2. ~p.reloading /\ Has(a, PeriodIs(s, 0))
        BY <1>4 DEF Told, Unused
    <2> QED BY <1>2, <1>3, <2>1, <2>2
<1>5. CASE Greeted(s, u, d, r, p, c, q, l, a)
    <2>1. PICK x \in Seq(Others(s) \cup {Announcement(s), PeriodIs(s, 0)}) : Replays(r, p.sync, x)
        BY <1>5 DEF Greeted
    <2>2. ~p.reloading /\ Has(d, PeriodIs(s, 0))
        BY <1>5, OneHas DEF Greeted, Unused
    <2>3. Turning(PeriodIs(s, 0), s)
        BY PartsAre DEF Turning, Change
    <2> QED BY <1>2, <1>3, <2>1, <2>2, <2>3
<1>6. CASE Settled(s, u, d, r, p, c, q, v, l, a)
    <2>1. PICK x \in Seq(Upto(s, q, q)) : Replays(r, p.sync, x) /\ (p.period = q \/ Has(x, PeriodIs(s, q)))
        BY <1>6 DEF Settled
    <2>2. ~p.reloading
        BY <1>6 DEF Settled
    <2>3. ~Has(<<>>, PeriodIs(s, q))
        BY HasOne
    <2> QED BY <1>2, <1>3, <2>1, <2>2, <2>3
<1>7. CASE Leaving(s, u, d, r, p, c, q, l, a)
    BY <1>7 DEF Leaving, Through
<1>8. CASE Turned(s, u, d, r, p, c, q, v, l, a)
    BY <1>8 DEF Turned, Stale
<1>9. CASE Reloading(s, u, d, r, p, c, q, v, l, a)
    BY <1>9 DEF Reloading
<1> QED BY <1>4, <1>5, <1>6, <1>7, <1>8, <1>9 DEF Stage

(***************************************************************************)
(* While the scripts have not started, nobody asks for the next period and *)
(* only the page of the period is asked for.                               *)
(***************************************************************************)
LEMMA WaitingSays ==
    ASSUME NEW s \in Subjects, NEW u, NEW d, NEW r, NEW p, NEW c, NEW q \in Periods, NEW v, NEW l, NEW a,
           Stage(s, u, d, r, p, c, q, v, l, a), p \in PageOf(s), p.periods[s] = p.period,
           p.ranAt = Undefined, ~p.reloading
    PROVE  /\ \A m : Has(d, m) \/ Has(r, m) => ~Asks(s, p, m)
           /\ \A m : Has(u, m) => m \in Plain(s) \/ m = PageIs(s, q)
           /\ r # <<>> => u \in Seq(Plain(s))
<1>1. q \in Nat /\ Undefined \notin Periods
    BY Basics
<1>2. \A S, x, m : x \in Seq(S) /\ Has(x, m) => m \in S
    BY ElementsOfSeq
<1>3. p.sync \in BOOLEAN
    BY DEF PageOf
<1>4. Announcement(s) \in Plain(s)
    BY <1>1, MessagesAre
<1>5. \A m \in Still(s) : ~Asks(s, p, m)
    BY DEF Still, Turning, Change, Asks
<1>6. \A m \in Others(s) \cup {Announcement(s), PeriodIs(s, 0), PeriodIs(s, q), PageIs(s, q)} : ~Asks(s, p, m)
    BY PartsAre DEF Others, Mine, Asks, Announcement, Message
<1>7. ASSUME NEW S, NEW x \in Seq(S), Replays(r, p.sync, x), \A m \in S : ~Asks(s, p, m)
      PROVE  \A m : Has(r, m) => ~Asks(s, p, m)
    <2>1. \A m : Has(r, m) => m \in {Begin, End} \/ Has(x, m)
        BY <1>3, <1>7, ReplayHas
    <2>2. \A m \in {Begin, End} : ~Asks(s, p, m)
        BY MarksAre DEF Asks
    <2> QED BY <1>2, <1>7, <2>1, <2>2
<1>8. \A m : ~Has(<<>>, m)
    BY HasOne
<1>9. CASE Told(s, u, d, r, p, c, q, l, a)
    <2>1. u = <<>> /\ d \in Seq(Others(s)) /\ <<>> \in Seq(Plain(s))
        BY <1>9 DEF Told
    <2>2. ASSUME r # <<>> PROVE \A m : Has(r, m) => ~Asks(s, p, m)
        <3>1. PICK x \in Seq(Others(s) \cup {Announcement(s)}) : Replays(r, p.sync, x)
            BY <1>9, <2>2 DEF Told
        <3>2. \A m \in Others(s) \cup {Announcement(s)} : ~Asks(s, p, m)
            BY <1>6
        <3> QED BY <1>7, <3>1, <3>2
    <2>3. \A m : Has(d, m) => ~Asks(s, p, m)
        BY <1>2, <1>6, <2>1
    <2> QED BY <1>8, <2>1, <2>2, <2>3
<1>10. CASE Greeted(s, u, d, r, p, c, q, l, a)
    <2>1. u \in Seq({Announcement(s)}) /\ One(d, PeriodIs(s, 0), Others(s), Others(s) \cup {Announcement(s)})
        BY <1>10 DEF Greeted
    <2>2. ASSUME r # <<>> PROVE \A m : Has(r, m) => ~Asks(s, p, m)
        <3>1. PICK x \in Seq(Others(s) \cup {Announcement(s), PeriodIs(s, 0)}) : Replays(r, p.sync, x)
            BY <1>10, <2>2 DEF Greeted
        <3>2. \A m \in Others(s) \cup {Announcement(s), PeriodIs(s, 0)} : ~Asks(s, p, m)
            BY <1>6
        <3> QED BY <1>7, <3>1, <3>2
    <2>3. d \in Seq(Others(s) \cup {Announcement(s), PeriodIs(s, 0)})
        BY <2>1, OneHas
    <2>4. \A m : Has(d, m) => ~Asks(s, p, m)
        BY <1>2, <1>6, <2>3
    <2>5. u \in Seq(Plain(s))
        <3>1. {Announcement(s)} \subseteq Plain(s)
            BY <1>4
        <3> QED BY <2>1, <3>1, Wider
    <2> QED BY <1>2, <1>8, <2>2, <2>4, <2>5
<1>11. CASE Settled(s, u, d, r, p, c, q, v, l, a)
    <2>1. u \in Seq(Plain(s)) /\ d \in Seq(Still(s)) /\ p.period \in {Undefined, q}
        BY <1>11 DEF Settled
    <2>2. ASSUME r # <<>> PROVE \A m : Has(r, m) => ~Asks(s, p, m)
        <3>1. PICK x \in Seq(Upto(s, q, q)) : Replays(r, p.sync, x)
            BY <1>11, <2>2 DEF Settled
        <3>2. \A m \in Upto(s, q, q) : ~Asks(s, p, m)
            BY <1>1, <2>1 DEF Upto, Asks, Routed
        <3> QED BY <1>7, <3>1, <3>2
    <2> QED BY <1>2, <1>5, <1>8, <2>1, <2>2
<1>12. CASE Leaving(s, u, d, r, p, c, q, l, a)
    <2>1. p.ranAt \in {q, q - 1} /\ (p.ranAt = q - 1 => q >= 1 \/ p.ranAt = q)
        BY <1>1, <1>12 DEF Leaving, Through
    <2> QED BY <1>1, <2>1 DEF Undefined
<1>13. CASE Turned(s, u, d, r, p, c, q, v, l, a)
    <2>1. r = <<>>
        BY <1>13 DEF Turned, Stale
    <2>2. d \in Seq(Still(s) \cup {PageIs(s, q)}) /\ u \in Seq(Plain(s) \cup {PageIs(s, q)})
        <3>1. CASE One(u, PageIs(s, q), EarlyPlain(s, q), Plain(s)) /\ d \in Seq(Early(s, q))
            <4>1. /\ Early(s, q) \subseteq Still(s) \cup {PageIs(s, q)} /\ EarlyPlain(s, q) \subseteq Plain(s) \cup {PageIs(s, q)}
                  /\ Plain(s) \subseteq Plain(s) \cup {PageIs(s, q)}
                BY MessagesAre
            <4>2. d \in Seq(Still(s) \cup {PageIs(s, q)})
                BY <3>1, <4>1, Wider
            <4> QED BY <3>1, <4>1, <4>2, OneHas
        <3>2. CASE u \in Seq(Plain(s)) /\ One(d, PageIs(s, q), Early(s, q), Still(s))
            <4>1. /\ Early(s, q) \subseteq Still(s) \cup {PageIs(s, q)} /\ Still(s) \subseteq Still(s) \cup {PageIs(s, q)}
                  /\ Plain(s) \subseteq Plain(s) \cup {PageIs(s, q)}
                BY MessagesAre
            <4>2. u \in Seq(Plain(s) \cup {PageIs(s, q)})
                BY <3>2, <4>1, Wider
            <4> QED BY <3>2, <4>1, <4>2, OneHas
        <3> QED BY <1>13, <3>1, <3>2 DEF Turned
    <2>3. \A m : Has(d, m) => ~Asks(s, p, m)
        BY <1>2, <1>5, <1>6, <2>2
    <2> QED BY <1>2, <1>8, <2>1, <2>2, <2>3
<1> QED BY <1>9, <1>10, <1>11, <1>12, <1>13 DEF Stage, Reloading

-----------------------------------------------------------------------------
(* What a page waits for                                                   *)

\* The scripts of a page that is there have not started.
Waiting(p, c) == c \in {"registered", "open"} /\ ~p.reloading /\ p.ranAt = Undefined

\* The arrival of s is in the log or under way to it.
OnTheWay(s, u, p, k, l) ==
    Arrival(u, s, k) \/ Arrival(l, s, k) \/ \E x : Arrives(x, s, k) /\ Posts(p, x)

(***************************************************************************)
(* The page of s, whose period is k, can still be let go: its messaging    *)
(* can be enabled, it comes to the barrier when it has been counted, and   *)
(* somebody is not there yet.                                              *)
(***************************************************************************)
Ready(s, u, p, k, l) ==
    /\ ~p.broken
    /\ p.loaded = Subjects => p.enabled
    /\ s \in p.loaded => p.period = k /\ k \in p.deferred /\ OnTheWay(s, u, p, k, l)
    /\ \E t \in Subjects : t \notin p.received[k]

\* It hears w, and then knows of everybody what the log says.
Attends(w, p, k, l) ==
    \A t \in Subjects : Follows(p.periods[t], p.loaded, p.received[k], w, l, t, k)

\* It waits for the others, and hears of them in the replay and after it.
Waits(s, u, d, r, p, c, k, l) ==
    /\ Ready(s, u, p, k, l)
    /\ c = "registered" => \A m : Has(d, m) /\ m.key = "__set_period__" => m.value = k
    /\ c = "open" => Attends(r \o d, p, k, l)

\* A page that handles a message still comes to know what the log says.
LEMMA ReceivedAttends ==
    ASSUME NEW w \in Seq(Routed \cup {Begin, End}), w # <<>>, NEW s, NEW p, NEW o, Heeds(s, p, Head(w), o),
           o.ranAt = Undefined, NEW k \in Periods, NEW l, Attends(w, p, k, l)
    PROVE  Attends(Tail(w), o, k, l)
<1> SUFFICES ASSUME NEW t \in Subjects
             PROVE  Follows(o.periods[t], o.loaded, o.received[k], Tail(w), l, t, k)
    BY DEF Attends
<1> DEFINE v == p.periods[t]
           v2 == o.periods[t]
           e == p.loaded
           e2 == o.loaded
           b == p.received[k]
           b2 == o.received[k]
<1>1. Follows(v, e, b, w, l, t, k)
    BY DEF Attends
<1>2. Learns(v, Head(w), t, v2)
    BY DEF Heeds, Learning
<1>3. (t \in e => t \in e2) /\ (Loaded(Head(w), t, v) => t \in e2)
    BY DEF Heeds, Counting
<1>4. t \in b2 <=> t \in b \/ Arrives(Head(w), t, k)
    BY DEF Heeds, Barring
<1> HIDE DEF v, v2, e, e2, b, b2
<1>5. v = k /\ Loaded(Head(w), t, k) => t \in e2
    BY <1>3
<1>6. Follows(v2, e2, b2, Tail(w), l, t, k)
    BY <1>1, <1>2, <1>3, <1>4, <1>5, FollowsNext
<1> QED BY <1>6 DEF v2, e2, b2

\* A page and what is left of it when its messages are on their way.
Shed(o, z) ==
    /\ z.name = o.name /\ z.sync = o.sync /\ z.reloading = o.reloading /\ z.isReload = o.isReload
    /\ z.period = o.period /\ z.periods = o.periods /\ z.queue = o.queue /\ z.held = o.held
    /\ z.enabled = o.enabled /\ z.broken = o.broken /\ z.loaded = o.loaded /\ z.deferred = o.deferred
    /\ z.received = o.received /\ z.ranAt = o.ranAt /\ z.timer = o.timer /\ z.asked = o.asked
    /\ z.out = <<>>

\* What leaves a page is its out.
LEMMA EmptiedSheds ==
    ASSUME NEW s, NEW o, Emptied(o) \in PageOf(s)
    PROVE  Shed(o, Emptied(o))
<1>1. DOMAIN Emptied(o) = DOMAIN o
    BY DEF Emptied
<1>2. {"name", "sync", "reloading", "isReload", "period", "periods", "queue", "held", "out",
       "enabled", "broken", "loaded", "deferred", "received", "ranAt", "timer", "asked"} \subseteq DOMAIN Emptied(o)
    BY DEF PageOf
<1>3. \A f \in DOMAIN o : Emptied(o)[f] = IF f = "out" THEN <<>> ELSE o[f]
    BY DEF Emptied
<1> QED BY <1>1, <1>2, <1>3 DEF Shed

\* And it can still be let go, unless its scripts start.
LEMMA ReceivedReady ==
    ASSUME NEW w \in Seq(Routed \cup {Begin, End}), w # <<>>, NEW s \in Subjects, NEW p \in PageOf(s), NEW o,
           NEW m, m = Head(w), Heeds(s, p, m, o),
           o.ranAt = Undefined, NEW k \in Periods, NEW l, Attends(w, p, k, l),
           NEW u \in Seq(Routed), o.out \in Seq(Routed), Ready(s, u, p, k, l),
           Emptied(o) \in PageOf(s),
           p.deferred \subseteq {p.period}, p.periods[s] = p.period, o.periods[s] = o.period,
           p.period \in {Undefined, k}, ~Asks(s, p, m),
           Entry(l, s, k) \/ (s \notin p.received[k] /\ ~Arrives(m, s, k)),
           p.sync /\ Arrives(m, s, k) => Arrival(l, s, k)
    PROVE  Ready(s, u \o o.out, Emptied(o), k, l)
<1> DEFINE z == Emptied(o)
<1>1. /\ z.broken = o.broken /\ z.loaded = o.loaded /\ z.enabled = o.enabled /\ z.period = o.period
      /\ z.deferred = o.deferred /\ z.received = o.received /\ z.sync = o.sync /\ z.queue = o.queue
      /\ z.held = o.held /\ z.out = <<>>
    BY EmptiedSheds DEF Shed
<1> HIDE DEF z
<1>2. p.ranAt = Undefined /\ ~o.broken /\ p.deferred \subseteq o.deferred
    BY DEF Heeds, Barring, Ready
<1>3. o.loaded = Subjects => o.enabled
    BY DEF Heeds, Counting, Ready
<1>4. Follows(p.periods[s], p.loaded, p.received[k], w, l, s, k)
    BY DEF Attends
<1>5. /\ NoBack(p.periods[s], w, s, k)
      /\ Entry(l, s, k) => Orderly(p.periods[s], p.loaded, w, s, k) /\ (s \in p.received[k] => s \in p.loaded)
    BY <1>4 DEF Follows
<1>6. Entry(l, s, k) /\ Arrives(m, s, k) => s \in p.loaded
    <2> DEFINE v == p.periods[s]
               v2 == o.periods[s]
               e == p.loaded
    <2>1. Learns(v, Head(w), s, v2)
        BY DEF Heeds, Learning
    <2>2. NoBack(v, w, s, k) /\ (Entry(l, s, k) => Orderly(v, e, w, s, k))
        BY <1>5
    <2> HIDE DEF v, v2, e
    <2>3. ASSUME Entry(l, s, k) PROVE Arrives(Head(w), s, k) => s \in e
        <3>1. (s \in e => s \in e \cup {s}) /\ (v = k /\ Loaded(Head(w), s, k) => s \in e \cup {s})
            OBVIOUS
        <3> DEFINE e2 == e \cup {s}
        <3> HIDE DEF e2
        <3>2. (s \in e => s \in e2) /\ (v = k /\ Loaded(Head(w), s, k) => s \in e2)
            BY <3>1 DEF e2
        <3>3. Orderly(v, e, w, s, k)
            BY <2>2, <2>3
        <3> QED BY <2>1, <2>2, <3>2, <3>3, OrderlyTail
    <2> QED BY <2>3 DEF e
<1>7. s \in p.loaded => o.period = k
    <2>1. ASSUME s \in p.loaded PROVE o.periods[s] = k
        <3>1. p.periods[s] = k
            BY <2>1 DEF Ready
        <3>2. ASSUME Ends(m, s), m.value # k PROVE FALSE
            <4>1. 1 \in DOMAIN w /\ w[1] = m
                BY TailIs
            <4> QED BY <1>5, <3>1, <3>2, <4>1 DEF NoBack, Ends
        <3>3. Learns(p.periods[s], m, s, o.periods[s])
            BY DEF Heeds, Learning
        <3> QED BY <3>1, <3>2, <3>3 DEF Learns, Ends
    <2> QED BY <2>1
<1>8. /\ Arrival(u \o o.out, s, k) <=> Arrival(u, s, k) \/ Arrival(o.out, s, k)
      /\ Arrival(o.out, s, k) <=> \E x : Has(o.out, x) /\ Arrives(x, s, k)
    BY PartsHave, EntryHas
<1>9. ASSUME NEW x, Arrives(x, s, k), Posts(o, x) PROVE OnTheWay(s, u \o o.out, z, k, l)
    <2>1. Has(o.out, x) \/ Posts(z, x)
        BY <1>1, <1>9 DEF Posts
    <2> QED BY <1>8, <1>9, <2>1 DEF OnTheWay
<1>10. ASSUME s \in p.loaded PROVE o.period = k /\ k \in o.deferred /\ OnTheWay(s, u \o o.out, z, k, l)
    <2>1. p.period = k /\ k \in p.deferred /\ OnTheWay(s, u, p, k, l)
        BY <1>10 DEF Ready
    <2>2. CASE Arrival(u, s, k) \/ Arrival(l, s, k)
        BY <1>2, <1>7, <1>8, <1>10, <2>1, <2>2 DEF OnTheWay
    <2>3. ASSUME NEW x, Arrives(x, s, k), Posts(p, x) PROVE OnTheWay(s, u \o o.out, z, k, l)
        <3>1. Posts(o, x) \/ (p.sync /\ Arrives(m, s, k))
            BY <2>1, <2>3 DEF Heeds, Posting
        <3>2. CASE Posts(o, x)
            BY <1>9, <2>3, <3>2
        <3>3. CASE p.sync /\ Arrives(m, s, k)
            BY <3>3 DEF OnTheWay
        <3> QED BY <3>1, <3>2, <3>3
    <2> QED BY <1>2, <1>7, <1>10, <2>1, <2>2, <2>3 DEF OnTheWay
<1>11. ASSUME s \in o.loaded, s \notin p.loaded
       PROVE  o.period = k /\ k \in o.deferred /\ OnTheWay(s, u \o o.out, z, k, l)
    <2>1. Loaded(m, s, p.period)
        BY <1>11 DEF Heeds, Counting
    <2>2. m.period \in Periods
        <3>1. m \in Routed \cup {Begin, End}
            BY HeadTailProperties
        <3> QED BY <2>1, <3>1, MarksAre DEF Loaded, Routed
    <2>3. p.period = k
        BY <2>1, <2>2, Basics DEF Loaded
    <2>4. k \in o.deferred /\ Posts(o, ArrivalOf(s, k))
        BY <2>1, <2>3 DEF Heeds, Posting, Ready
    <2>5. Arrives(ArrivalOf(s, k), s, k)
        BY DEF Arrives, ArrivalOf, Message
    <2>6. OnTheWay(s, u \o o.out, z, k, l)
        BY <1>9, <2>4, <2>5
    <2>7. o.period = k
        <3>1. Learns(p.periods[s], m, s, o.periods[s])
            BY DEF Heeds, Learning
        <3> QED BY <2>1, <2>3, <3>1 DEF Learns, Loaded
    <2> QED BY <2>4, <2>6, <2>7
<1>12. \E t \in Subjects : t \notin o.received[k]
    <2>1. PICK t \in Subjects : t \notin p.received[k]
        BY DEF Ready
    <2>2. t \in o.received[k] <=> t \in p.received[k] \/ Arrives(m, t, k)
        BY DEF Heeds, Barring
    <2>3. CASE t \in o.received[k]
        <3>1. Arrives(m, t, k)
            BY <2>1, <2>2, <2>3
        <3>2. CASE k \in p.deferred
            BY <3>1, <3>2 DEF Heeds, Barring, Arrives
        <3>3. CASE k \notin p.deferred
            <4>1. s \notin p.loaded
                BY <3>3 DEF Ready
            <4>2. s \notin p.received[k] /\ ~Arrives(m, s, k)
                BY <1>5, <1>6, <4>1
            <4>3. s \notin o.received[k]
                BY <4>2 DEF Heeds, Barring
            <4> QED BY <4>3
        <3> QED BY <3>2, <3>3
    <2> QED BY <2>3
<1>13. z.period = o.period /\ z.deferred = o.deferred /\ z.received = o.received
    BY <1>1
<1>14. Ready(s, u \o o.out, z, k, l)
    BY <1>1, <1>2, <1>3, <1>10, <1>11, <1>12 DEF Ready
<1> QED BY <1>14 DEF z

-----------------------------------------------------------------------------
(* What a subject has said                                                 *)

\* s says that it has loaded its page, or is at a barrier.
Said(m, s) == m.sender = s /\ m.key \in {"__page_loaded__", "_at_barrier"}

\* s has said nothing of a period after q.
Bounded(s, u, d, p, q, l) ==
    \A m : (Has(u, m) \/ Has(d, m) \/ Has(l, m) \/ Mail(p, m)) /\ Said(m, s) => m.period <= q

(***************************************************************************)
(* s is coming to the barrier of period q, or has been told that its page  *)
(* is there.                                                               *)
(***************************************************************************)
Coming(s, u, d, r, p, q) ==
    \/ \E x : Arrives(x, s, q) /\ (Has(u, x) \/ Mail(p, x))
    \/ Loading(d, s, q)
    \/ Counts(p.period, r, s, q)
    \/ p.sync /\ p.isReload /\ p.period = q

(***************************************************************************)
(* s comes to the barrier of its period q only when the log counts it      *)
(* there.                                                                  *)
(***************************************************************************)
Says(s, u, d, r, p, q, l) ==
    /\ Bounded(s, u, d, p, q, l)
    /\ Coming(s, u, d, r, p, q) => Counts(Undefined, l, s, q)
    /\ Orderly(Undefined, {}, l, s, q)

\* The period of s is changing.
Turns(s, u, d, p, a) ==
    \/ p.reloading \/ Has(a, PeriodIs(s, 0))
    \/ \E m : (Has(u, m) \/ Has(d, m)) /\ Turning(m, s)

(***************************************************************************)
(* A page that has come out of the replay has announced itself.            *)
(***************************************************************************)
HasAnnounced(s, u, d, r, p, c, q, l, a) ==
    (c = "open" /\ r = <<>> /\ p.ranAt = Undefined /\ ~Turns(s, u, d, p, a)) =>
        Loading(u, s, q) \/ Counts(Undefined, l, s, q)

(***************************************************************************)
(* The scripts of a page in period q: they can send unless somebody is     *)
(* ahead.                                                                  *)
(***************************************************************************)
Scripts(p, q, sc) ==
    /\ p.enabled => p.held = <<>>
    /\ p.name = "Wait" /\ p.ranAt # Undefined => p.asked
    /\ p.ranAt = q => p.enabled \/ \E t \in Subjects : sc[t].period > q

\* Before period q everybody has been at every barrier.
Passed(q, sc, l) ==
    \A t \in Subjects : \A j \in 0 .. q - 1 : (\A x \in Subjects : sc[x].period > j) \/ Arrival(l, t, j)

-----------------------------------------------------------------------------
(* What a page receives                                                    *)

\* m is the next message of a page, before d2 and r2.
Next1(d, r, m, d2, r2) ==
    \/ r # <<>> /\ m = Head(r) /\ r2 = Tail(r) /\ d2 = d
    \/ r = <<>> /\ d # <<>> /\ m = Head(d) /\ r2 = <<>> /\ d2 = Tail(d)

\* What s has said, when its page has handled m.
LEMMA SaysReceived ==
    ASSUME NEW s \in Subjects, NEW u \in Seq(Routed), NEW d \in Seq(Routed),
           NEW r \in Seq(Routed \cup {Begin, End}), NEW p \in PageOf(s), NEW q \in Periods, NEW l,
           NEW m, NEW d2, NEW r2, Next1(d, r, m, d2, r2),
           NEW o, o.out \in Seq(Routed), Emptied(o) \in PageOf(s), Heeds(s, p, m, o), p.periods[s] = p.period, o.periods[s] = o.period,
           p.period <= q, Says(s, u, d, r, p, q, l)
    PROVE  Says(s, u \o o.out, d2, r2, Emptied(o), q, l)
<1>1. q \in Nat /\ q # Undefined /\ p.period \in Int
    <2>1. p.period \in Periods \cup {Undefined}
        BY DEF PageOf
    <2>4. q \in Nat /\ q # Undefined
        BY Basics
    <2>5. p.period \in Int
        <3>1. p.period \in Periods \/ p.period = Undefined
            BY <2>1
        <3>2. p.period \in Periods => p.period \in Nat
            BY Basics
        <3>3. p.period = Undefined => p.period = -1
            BY DEF Undefined
        <3> QED BY <3>1, <3>2, <3>3
    <2> QED BY <2>4, <2>5
<1>2. \A x : Has(u \o o.out, x) <=> Has(u, x) \/ Has(o.out, x)
    BY HasConcat
<1> DEFINE z == Emptied(o)
<1>3. /\ z.period = o.period /\ z.sync = o.sync /\ z.isReload = o.isReload
      /\ \A x : Mail(z, x) => Mail(o, x)
    <2>1. z.period = o.period /\ z.sync = o.sync /\ z.isReload = o.isReload /\ z.queue = o.queue /\ z.held = o.held
          /\ z.out = <<>>
        BY EmptiedSheds DEF Shed
    <2>2. \A x : ~Has(<<>>, x)
        BY HasOne
    <2> QED BY <2>1, <2>2 DEF Mail
<1> HIDE DEF z
<1>4. \A x : Mail(o, x) =>
          \/ Mail(p, x) \/ x.key \in Change
          \/ x = ArrivalOf(s, p.period) /\ Loaded(m, s, p.period)
          \/ m = End /\ x.key = "__page_loaded__" /\ x.period \in {0, p.period}
    BY DEF Heeds, Posting
<1>5. \A x : Has(o.out, x) \/ Mail(z, x) => Mail(o, x)
    BY <1>3 DEF Mail
<1>6. \A x : Has(d2, x) => Has(d, x)
    <2>1. d # <<>> => \A x : Has(Tail(d), x) => Has(d, x)
        BY HasHeadTail
    <2> QED BY <2>1 DEF Next1
<1>7. Loaded(m, s, q) /\ p.period \in {Undefined, q} =>
          Loading(d, s, q) \/ (p.period = q => Counts(p.period, r, s, q))
    <2>1. CASE r # <<>> /\ m = Head(r)
        <3>1. 1 \in DOMAIN r /\ r[1] = m
            BY <2>1, TailIs
        <3> QED BY <3>1 DEF Counts
    <2>2. CASE r = <<>> /\ d # <<>> /\ m = Head(d)
        <3>1. 1 \in DOMAIN d /\ d[1] = m
            BY <2>2, TailIs
        <3> QED BY <3>1 DEF Loading
    <2> QED BY <2>1, <2>2 DEF Next1
<1>8. Bounded(s, u \o o.out, d2, z, q, l)
    <2> SUFFICES ASSUME NEW x, Has(u \o o.out, x) \/ Has(d2, x) \/ Has(l, x) \/ Mail(z, x), Said(x, s)
                 PROVE  x.period <= q
        BY DEF Bounded
    <2>1. CASE Has(u, x) \/ Has(d, x) \/ Has(l, x) \/ Mail(p, x)
        BY <2>1 DEF Says, Bounded
    <2>2. x.key \notin Change
        BY DEF Said, Change
    <2>3. CASE x = ArrivalOf(s, p.period)
        BY <2>3 DEF ArrivalOf, Message
    <2>4. CASE x.period \in {0, p.period}
        BY <1>1, <2>4
    <2> QED BY <1>2, <1>4, <1>5, <1>6, <2>1, <2>2, <2>3, <2>4
<1>9. Learns(p.period, m, s, o.period)
    BY DEF Heeds, Learning
<1>10. Coming(s, u \o o.out, d2, r2, z, q) => Coming(s, u, d, r, p, q)
    <2>1. ASSUME NEW x, Arrives(x, s, q), Has(u \o o.out, x) \/ Mail(z, x) PROVE Coming(s, u, d, r, p, q)
        <3>1. CASE Has(u, x) \/ Mail(p, x)
            BY <2>1, <3>1 DEF Coming
        <3>2. x.key \notin Change /\ x.key # "__page_loaded__"
            BY <2>1 DEF Arrives, Change
        <3>3. CASE x = ArrivalOf(s, p.period) /\ Loaded(m, s, p.period)
            <4>1. p.period = q
                BY <2>1, <3>3 DEF Arrives, ArrivalOf, Message
            <4> QED BY <1>7, <3>3, <4>1 DEF Coming
        <3> QED BY <1>2, <1>4, <1>5, <2>1, <3>1, <3>2, <3>3
    <2>2. ASSUME Loading(d2, s, q) PROVE Coming(s, u, d, r, p, q)
        <3>1. Loading(d, s, q)
            BY <1>6, <2>2, EntryHas
        <3> QED BY <3>1 DEF Coming
    <2>3. ASSUME Counts(o.period, r2, s, q) PROVE Coming(s, u, d, r, p, q)
        <3>1. CASE r # <<>> /\ m = Head(r) /\ r2 = Tail(r)
            <4> DEFINE v == p.period
                       v2 == o.period
            <4>1. Learns(v, Head(r), s, v2) /\ Counts(v2, Tail(r), s, q)
                BY <1>9, <2>3, <3>1
            <4> HIDE DEF v, v2
            <4>2. Counts(v, r, s, q)
                BY <3>1, <4>1, CountsTail
            <4>3. Counts(p.period, r, s, q)
                BY <4>2 DEF v
            <4> QED BY <4>3 DEF Coming
        <3>2. CASE r2 = <<>>
            BY <2>3, <3>2, OneHave
        <3> QED BY <3>1, <3>2 DEF Next1
    <2>4. ASSUME o.sync, o.isReload, o.period = q PROVE Coming(s, u, d, r, p, q)
        <3>1. /\ p.sync /\ ~Ends(m, s)
              /\ p.isReload \/ (m.key = "__page_loaded__" /\ m.sender = s /\ p.period \in {Undefined, m.period})
            BY <2>4 DEF Heeds, Learning
        <3>2. p.period = q
            BY <1>9, <2>4, <3>1 DEF Learns, Ends
        <3>3. CASE p.isReload
            BY <3>1, <3>2, <3>3 DEF Coming
        <3>4. CASE m.key = "__page_loaded__" /\ m.sender = s /\ p.period \in {Undefined, m.period}
            BY <1>1, <1>7, <3>2, <3>4 DEF Coming, Loaded
        <3> QED BY <3>1, <3>3, <3>4
    <2> QED BY <1>3, <2>1, <2>2, <2>3, <2>4 DEF Coming
<1>11. Says(s, u \o o.out, d2, r2, z, q, l)
    BY <1>8, <1>10 DEF Says
<1> QED BY <1>11 DEF z

(***************************************************************************)
(* While the scripts have not started, the page is turned only by the      *)
(* first period and its page.                                              *)
(***************************************************************************)
LEMMA WaitingTurns ==
    ASSUME NEW s \in Subjects, NEW u, NEW d, NEW r, NEW p, NEW c, NEW q \in Periods, NEW v, NEW l, NEW a,
           Stage(s, u, d, r, p, c, q, v, l, a), p.ranAt = Undefined, ~p.reloading
    PROVE  \A m : Has(d, m) /\ Turning(m, s) => m.key # "_next_period"
<1>1. q \in Nat /\ Undefined \notin Periods
    BY Basics
<1>2. \A S, x, m : x \in Seq(S) /\ Has(x, m) => m \in S
    BY ElementsOfSeq
<1> DEFINE S == Still(s) \cup {PeriodIs(s, 0), PageIs(s, q)}
<1>3. \A m \in S : Turning(m, s) => m.key # "_next_period"
    BY PartsAre DEF Still
<1>4. Still(s) \subseteq S /\ Others(s) \subseteq S /\ Announcement(s) \in S /\ Early(s, q) \subseteq S
    BY <1>1, MessagesAre
<1>5. PeriodIs(s, 0) \in S /\ PageIs(s, q) \in S
    OBVIOUS
<1> HIDE DEF S
<1>6. CASE Told(s, u, d, r, p, c, q, l, a)
    <2>1. d \in Seq(S)
        BY <1>4, <1>6, Wider DEF Told
    <2> QED BY <1>2, <1>3, <2>1
<1>7. CASE Greeted(s, u, d, r, p, c, q, l, a)
    <2>1. Others(s) \cup {Announcement(s)} \subseteq S
        BY <1>4
    <2>2. One(d, PeriodIs(s, 0), Others(s), Others(s) \cup {Announcement(s)})
        BY <1>7 DEF Greeted
    <2>3. d \in Seq(S)
        BY <1>4, <1>5, <2>1, <2>2, OneHas
    <2> QED BY <1>2, <1>3, <2>3
<1>8. CASE Settled(s, u, d, r, p, c, q, v, l, a)
    <2>1. d \in Seq(S)
        BY <1>4, <1>8, Wider DEF Settled
    <2> QED BY <1>2, <1>3, <2>1
<1>9. CASE Leaving(s, u, d, r, p, c, q, l, a)
    <2>1. p.ranAt \in {q, q - 1} /\ (p.ranAt = q - 1 => q >= 1 \/ p.ranAt = q)
        BY <1>1, <1>9 DEF Leaving, Through
    <2> QED BY <1>1, <2>1 DEF Undefined
<1>10. CASE Turned(s, u, d, r, p, c, q, v, l, a)
    <2>1. d \in Seq(S)
        <3>1. CASE d \in Seq(Early(s, q))
            BY <1>4, <3>1, Wider
        <3>2. CASE One(d, PageIs(s, q), Early(s, q), Still(s))
            BY <1>4, <1>5, <3>2, OneHas
        <3> QED BY <1>10, <3>1, <3>2 DEF Turned
    <2> QED BY <1>2, <1>3, <2>1
<1> QED BY <1>6, <1>7, <1>8, <1>9, <1>10 DEF Stage, Reloading

\* A page still has announced itself, or will, when it has handled m.
LEMMA AnnouncedReceived ==
    ASSUME NEW s \in Subjects, NEW u \in Seq(Routed), NEW d \in Seq(Routed),
           NEW r \in Seq(Routed \cup {Begin, End}), NEW p \in PageOf(s), NEW q \in Periods, NEW v, NEW l, NEW a,
           Stage(s, u, d, r, p, "open", q, v, l, a), Linked(s, d, r, p, "open"), ~p.reloading,
           NEW m, NEW d2, NEW r2, Next1(d, r, m, d2, r2),
           NEW o, o.out \in Seq(Routed), Emptied(o) \in PageOf(s), Heeds(s, p, m, o), o = OnMessage(p, s, m),
           Coming(s, u, d, r, p, q) => Counts(Undefined, l, s, q),
           HasAnnounced(s, u, d, r, p, "open", q, l, a)
    PROVE  HasAnnounced(s, u \o o.out, d2, r2, Emptied(o), "open", q, l, a)
<1>1. \A x : Has(u \o o.out, x) <=> Has(u, x) \/ Has(o.out, x)
    BY HasConcat
<1> DEFINE z == Emptied(o)
<1>2. Shed(o, z)
    BY EmptiedSheds
<1> HIDE DEF z
<1>3. SUFFICES ASSUME r2 = <<>>, z.ranAt = Undefined, ~Turns(s, u \o o.out, d2, z, a)
               PROVE  Loading(u \o o.out, s, q) \/ Counts(Undefined, l, s, q)
    BY DEF HasAnnounced, z
<1>4. /\ ~o.reloading /\ ~Has(a, PeriodIs(s, 0)) /\ o.ranAt = Undefined
      /\ \A x : Has(u, x) \/ Has(o.out, x) \/ Has(d2, x) => ~Turning(x, s)
    BY <1>1, <1>2, <1>3 DEF Turns, Shed
<1>5. p.ranAt = Undefined
    BY <1>4 DEF Heeds, Barring
<1>6. Loading(u \o o.out, s, q) <=> Loading(u, s, q) \/ Loading(o.out, s, q)
    BY PartsHave
<1>7. CASE r = <<>>
    <2>1. d # <<>> /\ m = Head(d) /\ d2 = Tail(d) /\ ~p.sync
        BY <1>7 DEF Next1, Linked
    <2>2. Has(d, m) /\ \A x : Has(d, x) => x = m \/ Has(d2, x)
        BY <2>1, HasHeadTail
    <2>3. ~Turning(m, s)
        <3>1. Turning(m, s) => m.key # "_next_period"
            BY <1>5, <2>2, WaitingTurns
        <3>2. Ends(m, s) => FALSE
            BY <1>4, <2>1 DEF Heeds, Learning
        <3>3. m.key = "__set_page__" /\ m.sender = s => FALSE
            BY <1>4, <2>1 DEF Heeds, Learning
        <3> QED BY <3>1, <3>2, <3>3 DEF Turning, Change, Ends
    <2>4. ~Turns(s, u, d, p, a)
        BY <1>4, <2>2, <2>3 DEF Turns
    <2> QED BY <1>5, <1>6, <1>7, <2>4 DEF HasAnnounced
<1>8. CASE r # <<>>
    <2>1. m = Head(r) /\ Tail(r) = <<>> /\ d2 = d
        BY <1>3, <1>8 DEF Next1
    <2>2. m = End /\ (m = Begin <=> ~p.sync)
        BY <1>8, <2>1, ReplayGoes
    <2>3. p.sync
        BY <2>2, MarksAre DEF PageOf
    <2>4. \A x : Has(d, x) => ~Turning(x, s)
        BY <1>4, <2>1
    <2>5. p.period = q
        BY <1>4, <1>8, <2>1, <2>2, <2>4, ReplayGoes
    <2>6. CASE p.isReload
        BY <2>3, <2>5, <2>6 DEF Coming
    <2>7. CASE ~p.isReload
        <3> DEFINE y == Message("__page_loaded__", s, q, 0, FALSE, 0)
        <3>1. q # Undefined
            BY Basics
        <3>2. o.out = <<y>> \o p.queue
            <4>1. p.out = <<>>
                BY DEF Linked
            <4>2. o.out = (IF p.isReload THEN <<>> ELSE <<Message("__page_loaded__", s, IF p.period = Undefined THEN 0 ELSE p.period, 0, FALSE, 0)>>) \o p.queue
                BY <2>2, <4>1, EndIs
            <4> QED BY <2>5, <2>7, <3>1, <4>2
        <3>3. Loaded(y, s, q)
            BY DEF Loaded, Message
        <3> HIDE DEF y
        <3> DEFINE S == Plain(s) \cup {y}
                   e == p.queue
                   f == <<y>>
        <3>4. e \in Seq(S) /\ f \in Seq(S)
            <4>1. p.queue \in Seq(Plain(s)) /\ Plain(s) \subseteq Plain(s) \cup {y}
                BY DEF PageOf
            <4> QED BY <4>1, Wider
        <3> HIDE DEF S, e, f
        <3>7. Loading(f \o e, s, q) <=> Loading(f, s, q) \/ Loading(e, s, q)
            BY <3>4, PartsHave
        <3>5. Loading(o.out, s, q) <=> Loading(<<y>>, s, q) \/ Loading(p.queue, s, q)
            BY <3>2, <3>7 DEF e, f
        <3>6. Loading(<<y>>, s, q)
            BY <3>3, OneHave
        <3> QED BY <1>6, <3>5, <3>6
    <2> QED BY <2>6, <2>7
<1> QED BY <1>7, <1>8

\* What turns a page leaves its scripts alone.
LEMMA TurningRuns ==
    ASSUME NEW s \in Subjects, NEW p \in PageOf(s), p.out = <<>>, ~p.reloading,
           NEW m \in Routed, Turning(m, s)
    PROVE  LET o == OnMessage(p, s, m)
           IN  SameRun(p, o)
<1> DEFINE d == Deduplicate(p, m)
           o == OnMessage(p, s, m)
<1>1. d \in PageOf(s) /\ Steady(p, d)
    BY DeduplicateIs
<1>2. m.key \in Change /\ m.sender = s
    BY DEF Turning
<1>3. o = HandleMsg(d, s, m)
    BY <1>2 DEF OnMessage, Change
<1> HIDE DEF d, o
<1>4. CASE m.key = "__set_page__"
    <2>1. o = CoreSetPage(d, s, m)
        BY <1>3, <1>4 DEF HandleMsg
    <2> QED BY <1>1, <2>1 DEF CoreSetPage, Steady, SameRun, PageOf, o
<1>5. CASE m.key = "_next_period"
    <2> DEFINE b == [d EXCEPT !.broken = TRUE]
    <2>1. o = OwnNextPeriod(d, s, m)
        BY <1>3, <1>5 DEF HandleMsg
    <2>2. o = d \/ o = Send(b, s, Message("__set_period__", s, d.period, 0, TRUE, d.period + 1))
        BY <2>1 DEF OwnNextPeriod
    <2>3. SameRun(d, o)
        BY <1>1, <2>2 DEF Send, SyncSend, DefaultSend, PageOf, SameRun
    <2> QED BY <1>1, <2>3 DEF Steady, SameRun, o
<1>6. CASE m.key = "__set_period__"
    <2> DEFINE core == CoreSetPeriod(d, s, m)
               new == IF m.value \in Paused THEN core.pause \cup {m.value} ELSE core.pause
               paused == [core EXCEPT !.pause = new]
    <2>1. o = SetPeriod(d, s, m)
        BY <1>3, <1>6 DEF HandleMsg
    <2>2. o = Send(paused, s, Message("__set_page__", s, m.value, 0, TRUE, m.value))
        BY <1>2, <2>1 DEF SetPeriod
    <2>3. SameRun(d, core) /\ DOMAIN core = DOMAIN d
        BY <1>1, <1>2 DEF CoreSetPeriod, PageOf, SameRun
    <2>4. SameRun(d, paused) /\ DOMAIN paused = DOMAIN d
        BY <1>1, <2>3 DEF PageOf, SameRun
    <2> HIDE DEF core, new, paused
    <2>5. SameRun(paused, o)
        BY <1>1, <2>2, <2>4 DEF Send, SyncSend, DefaultSend, PageOf, SameRun
    <2> QED BY <1>1, <2>4, <2>5 DEF Steady, SameRun, o
<1> QED BY <1>2, <1>4, <1>5, <1>6 DEF Change

\* The scripts start when the barrier opens, and never otherwise.
LEMMA ReceivedStarts ==
    ASSUME Paused = {}, NEW s \in Subjects, NEW p \in PageOf(s), p.out = <<>>, ~p.reloading,
           p.ranAt = Undefined => p.deferred \subseteq {p.period},
           NEW m \in Routed \cup {Begin, End}, NEW o, o = OnMessage(p, s, m), Emptied(o) \in PageOf(s)
    PROVE  SameRun(p, o) \/ (Started(p, o) /\ Opens(p, m))
<1>1. CASE m = Begin
    BY <1>1, BeginIs DEF SameScript
<1>2. CASE m = End
    <2>1. SameScript(p, Emptied(o))
        BY <1>2, EndIs
    <2>2. Shed(o, Emptied(o))
        BY EmptiedSheds
    <2> QED BY <2>1, <2>2 DEF SameScript, SameRun, Shed
<1>3. CASE m \in Routed /\ ~Turning(m, s)
    <2>1. Calm(s, p, m, o)
        BY <1>3, MessageCalm
    <2>2. p.pause = {}
        BY DEF PageOf
    <2> QED BY <2>1, <2>2 DEF Calm, Resumes1
<1>4. CASE m \in Routed /\ Turning(m, s)
    BY <1>4, TurningRuns
<1> QED BY <1>1, <1>2, <1>3, <1>4

\* Whose arrival the log has has been in the period, and in no later one.
LEMMA ArrivalSays ==
    ASSUME NEW t \in Subjects, NEW u, NEW d, NEW r, NEW p, NEW c, NEW q \in Periods, NEW v, NEW l, NEW a,
           Stage(t, u, d, r, p, c, q, v, l, a), p \in PageOf(t), l \in Seq(Routed), Bounded(t, u, d, p, q, l),
           NEW k, Arrival(l, t, k)
    PROVE  k <= q /\ k \in Periods /\ Entry(l, t, q)
<1>1. PICK x : Has(l, x) /\ Arrives(x, t, k)
    BY EntryHas
<1>2. x \in Routed
    BY <1>1, ElementsOfSeq
<1>3. x.value = x.period /\ x.period \in Periods
    BY <1>1, <1>2 DEF Arrives, Routed
<1>4. x.period <= q
    BY <1>1 DEF Bounded, Said, Arrives
<1>5. ~Unstarted(t, u, d, r, p, q, l)
    BY <1>1 DEF Unstarted, Unaware, Arrives
<1> QED BY <1>1, <1>3, <1>4, <1>5, LogSays DEF Arrives

(***************************************************************************)
(* When the last arrival starts the scripts, all have been counted, so the *)
(* page can send.                                                          *)
(***************************************************************************)
LEMMA ScriptsReceived ==
    ASSUME NEW s \in Subjects, NEW p, NEW m, NEW o, Heeds(s, p, m, o), NEW q \in Periods, NEW sc, NEW l,
           SameRun(p, o) \/ (Started(p, o) /\ Opens(p, m)), Scripts(p, q, sc),
           \A t \in Subjects : Arrived(t, q, sc, l) => sc[t].period > q \/ Entry(l, t, q),
           \A t \in p.received[q] : Arrived(t, q, sc, l),
           m.key = "_at_barrier" => Arrived(m.sender, m.value, sc, l),
           NEW w \in Seq(Routed \cup {Begin, End}), w # <<>>, Head(w) = m,
           p.ranAt = Undefined => Attends(w, p, q, l) /\ (p.loaded = Subjects => p.enabled),
           p.loaded \in SUBSET Subjects
    PROVE  Scripts(o, q, sc)
<1> DEFINE S == Routed \cup {Begin, End}
<1>w. w \in Seq(S)
    OBVIOUS
<1> HIDE DEF S
<1>1. (o.enabled => o.held = <<>>) /\ (p.enabled => o.enabled) /\ o.name = p.name
    BY DEF Heeds, Counting, Learning
<1>2. CASE SameRun(p, o)
    BY <1>1, <1>2 DEF SameRun, Scripts
<1>3. CASE Started(p, o) /\ Opens(p, m)
    <2>1. p.ranAt = Undefined /\ o.ranAt = p.period /\ (p.name = "Wait" => o.asked)
        BY <1>3 DEF Started
    <2>2. ASSUME p.period = q, \A t \in Subjects : ~(sc[t].period > q) PROVE p.enabled
        <3> SUFFICES ASSUME NEW t \in Subjects PROVE t \in p.loaded
            BY <2>1
        <3>1. t = m.sender \/ t \in p.received[q]
            BY <1>3, <2>2 DEF Opens
        <3>2. m.key = "_at_barrier" /\ m.value = q
            BY <1>3, <2>2 DEF Opens
        <3>3. Entry(l, t, q)
            BY <2>2, <3>1, <3>2
        <3> DEFINE x == p.periods[t]
                   x2 == o.periods[t]
                   e == p.loaded
                   b == p.received[q]
        <3>4. Follows(x, e, b, w, l, t, q)
            BY <2>1 DEF Attends
        <3>5. Learns(x, Head(w), t, x2)
            BY DEF Heeds, Learning
        <3>6. t \in b \/ Arrives(Head(w), t, q)
            BY <3>1, <3>2 DEF Arrives
        <3> HIDE DEF x, x2, e, b
        <3>7. NoBack(x, w, t, q) /\ Orderly(x, e, w, t, q) /\ (t \in b => t \in e)
            BY <3>3, <3>4 DEF Follows
        <3> DEFINE e2 == e \cup {t}
        <3>8. (t \in e => t \in e2) /\ (x = q /\ Loaded(Head(w), t, q) => t \in e2)
            OBVIOUS
        <3> HIDE DEF e2
        <3>9. Arrives(Head(w), t, q) => t \in e
            BY <1>w, <3>5, <3>7, <3>8, OrderlyTail
        <3> QED BY <3>6, <3>7, <3>9 DEF e
    <2> QED BY <1>1, <2>1, <2>2 DEF Scripts
<1> QED BY <1>2, <1>3

\* What a handler sends is a sequence of messages.
LEMMA ReceivedSends ==
    ASSUME NEW s \in Subjects, NEW p \in PageOf(s), p.out = <<>>, ~p.reloading, p.periods[s] = p.period,
           p.ranAt = Undefined => p.deferred \subseteq {p.period},
           NEW m \in Routed \cup {Begin, End}, NEW o, o = OnMessage(p, s, m)
    PROVE  o.out \in Seq(Routed \cup {AskedOf(s, p.period)})
<1> DEFINE S == Routed \cup {AskedOf(s, p.period)}
<1>1. \A q : q \in Seq(Plain(s)) => q \in Seq(S)
    <2>1. Plain(s) \subseteq S
        BY DEF Plain
    <2> HIDE DEF S
    <2> QED BY <2>1, Wider
<1>2. <<>> \in Seq(S)
    OBVIOUS
<1> SUFFICES o.out \in Seq(S)
    OBVIOUS
<1> HIDE DEF S
<1>3. CASE m = Begin
    <2>1. o = OnMessage(p, s, Begin)
        BY <1>3
    <2>2. o.out = <<>>
        BY <2>1, BeginIs
    <2> QED BY <1>2, <2>2
<1>4. CASE m = End
    BY <1>1, <1>4, EndIs
<1>5. CASE m \in Routed /\ ~Turning(m, s)
    <2>1. o \in PageOf(s)
        BY <1>5, MessageCalm DEF Calm
    <2>2. o.out \in Seq(Plain(s))
        BY <2>1 DEF PageOf
    <2> QED BY <1>1, <2>2
<1>6. CASE m \in Routed /\ Turning(m, s)
    <2>1. CASE m.key = "__set_page__"
        BY <1>2, <1>6, <2>1, PageIsTurned DEF Turning
    <2>2. CASE m.key = "_next_period"
        <3>1. CASE m.period # p.periods[s]
            <4>1. o = Emptied(o) /\ Emptied(o).out = <<>>
                BY <1>6, <2>2, <3>1, OwnNext DEF Turning
            <4> QED BY <1>2, <4>1
        <3>2. CASE m.period = p.periods[s] /\ ~p.sync
            <4>1. o.out = <<AskedOf(s, p.period)>>
                BY <1>6, <2>2, <3>2, OwnNext DEF Turning
            <4> QED BY <4>1 DEF S
        <3>3. CASE m.period = p.periods[s] /\ p.sync
            <4> DEFINE d == Deduplicate(p, m)
                       b == [d EXCEPT !.broken = TRUE]
                       y == Message("__set_period__", s, d.period, 0, TRUE, d.period + 1)
            <4>1. d \in PageOf(s) /\ Steady(p, d) /\ d.out = <<>>
                BY DeduplicateIs
            <4>2. o = OwnNextPeriod(d, s, m)
                BY <2>2 DEF OnMessage, HandleMsg
            <4> HIDE DEF d
            <4>3. o = d \/ o = Send(b, s, y)
                BY <4>2 DEF OwnNextPeriod
            <4>4. b.sync /\ b.out = <<>>
                BY <3>3, <4>1 DEF Steady, PageOf
            <4>5. Send(b, s, y) = b
                BY <4>4 DEF Send, SyncSend, IsQueueable, StateKeys, Message
            <4> QED BY <1>2, <4>1, <4>3, <4>4, <4>5
        <3> QED BY <3>1, <3>2, <3>3
    <2>3. CASE m.key = "__set_period__"
        <3> DEFINE d == Deduplicate(p, m)
                   core == CoreSetPeriod(d, s, m)
                   paused == [core EXCEPT !.pause = IF m.value \in Paused THEN @ \cup {m.value} ELSE @]
                   y == Message("__set_page__", s, m.value, 0, TRUE, m.value)
        <3>1. d \in PageOf(s) /\ d.out = <<>>
            BY DeduplicateIs
        <3>2. o = SetPeriod(d, s, m)
            BY <2>3 DEF OnMessage, HandleMsg
        <3> HIDE DEF d
        <3>3. o = Send(paused, s, y)
            BY <1>6, <3>2 DEF SetPeriod, Turning
        <3>4. paused.out = <<>> /\ DOMAIN paused = DOMAIN d
            BY <3>1 DEF CoreSetPeriod, PageOf
        <3>5. y = PageIs(s, m.value) /\ m.value \in Periods
            BY <1>6, <2>3 DEF PageIs, Routed
        <3>6. y \in Routed /\ OnWire(y) = y
            <4>1. y \in Routed
                BY <3>5, MessagesAre
            <4>2. y.period = m.value /\ [y EXCEPT !.period = y.period] = y
                BY DEF Message
            <4> QED BY <3>5, <4>1, <4>2, Basics DEF OnWire
        <3> HIDE DEF paused, y
        <3>7. o.out = <<>> \/ o.out = Append(<<>>, y)
            BY <3>1, <3>3, <3>4, <3>6 DEF Send, SyncSend, DefaultSend, PageOf
        <3>8. Append(<<>>, y) \in Seq(S)
            BY <3>6 DEF S
        <3> QED BY <1>2, <3>7, <3>8
    <2> QED BY <1>6, <2>1, <2>2, <2>3 DEF Turning, Change
<1> QED BY <1>3, <1>4, <1>5, <1>6

(***************************************************************************)
(* What is sure of a subject: what it has said, that it announces itself,  *)
(* that its scripts can send, and that its page can still be let go.       *)
(***************************************************************************)
Sure(s, u, d, r, p, c, l, a, sc) ==
    /\ Says(s, u, d, r, p, sc[s].period, l)
    /\ HasAnnounced(s, u, d, r, p, c, sc[s].period, l, a)
    /\ Scripts(p, sc[s].period, sc)
    /\ Passed(sc[s].period, sc, l)
    /\ Waiting(p, c) => Waits(s, u, d, r, p, c, sc[s].period, l)

\* What is sure of s is sure when its page has handled m.
LEMMA SureReceived ==
    ASSUME Paused = {}, NEW s \in Subjects, NEW u \in Seq(Routed), NEW d \in Seq(Routed),
           NEW r \in Seq(Routed \cup {Begin, End}), NEW p \in PageOf(s), NEW v, NEW l, NEW a,
           NEW sc, sc[s].period \in Periods,
           Stage(s, u, d, r, p, "open", sc[s].period, v, l, a), Linked(s, d, r, p, "open"), ~p.reloading,
           NEW m, NEW d2, NEW r2, Next1(d, r, m, d2, r2),
           NEW o, o = OnMessage(p, s, m), Becomes(s, u, d2, r2, p, o, "open", sc[s].period, v, l, a),
           \A x : Has(d, x) \/ Has(r, x) => Tells(s, x, sc, l), Knows(s, p, sc, l),
           \A t \in Subjects : Arrived(t, sc[s].period, sc, l) =>
               sc[t].period > sc[s].period \/ (Entry(l, t, sc[s].period) /\ Arrival(l, t, sc[s].period)),
           Sure(s, u, d, r, p, "open", l, a, sc)
    PROVE  Sure(s, u \o o.out, d2, r2, Emptied(o), "open", l, a, sc)
<1> DEFINE q == sc[s].period
           z == Emptied(o)
<1>1. q \in Periods /\ q # Undefined /\ q \in Nat
    BY Basics
<1> HIDE DEF q
<1>2. Stage(s, u, d, r, p, "open", q, v, l, a) /\ Becomes(s, u, d2, r2, p, o, "open", q, v, l, a)
    BY DEF q
<1>3. z \in PageOf(s) /\ z.periods[s] = z.period /\ Shed(o, z)
    <2>1. Linked(s, d2, r2, z, "open")
        BY <1>2 DEF Becomes
    <2> QED BY <2>1, EmptiedSheds DEF Linked
<1>4. p.out = <<>> /\ (p.ranAt = Undefined => p.deferred \subseteq {p.period}) /\ p.periods[s] = p.period
    BY DEF Linked
<1>5. p.enabled => p.held = <<>>
    BY DEF Sure, Scripts
<1>6. /\ r # <<>> => r \in Seq(Routed \cup {Begin, End}) /\ m = Head(r) /\ r2 = Tail(r) /\ d2 = d
                     /\ Head(r) \in Routed \cup {Begin, End} /\ (Head(r) = Begin <=> ~p.sync)
                     /\ Has(r, m)
      /\ r = <<>> => d # <<>> /\ m = Head(d) /\ r2 = <<>> /\ d2 = Tail(d) /\ m \in Routed /\ Has(d, m)
    <2>1. CASE r # <<>>
        <3>1. Head(r) \in Routed \cup {Begin, End} /\ (Head(r) = Begin <=> ~p.sync)
            BY <1>1, <1>2, <2>1, ReplayGoes
        <3>2. Has(r, Head(r))
            BY <2>1, HasHeadTail
        <3> QED BY <2>1, <3>1, <3>2 DEF Next1
    <2>2. CASE r = <<>>
        <3>1. d # <<>>
            BY <2>2 DEF Next1
        <3>2. Has(d, Head(d)) /\ Head(d) \in Routed
            BY <3>1, HasHeadTail, HeadTailProperties
        <3> QED BY <2>2, <3>1, <3>2 DEF Next1
    <2> QED BY <2>1, <2>2
<1>7. m \in Routed \cup {Begin, End}
    BY <1>6
<1>8. Heeds(s, p, m, o)
    <2>1. CASE m \in Routed
        BY <1>4, <1>5, <2>1, MessageHeeds
    <2>2. CASE m = Begin
        <3>1. r # <<>>
            BY <1>6, <2>2, MarksAre
        <3>2. ~p.sync
            BY <1>6, <2>2, <3>1
        <3>3. ~p.isReload
            <4>1. p = FreshPage(p.name)
                BY <3>1, <3>2 DEF Linked
            <4> QED BY <4>1 DEF FreshPage
        <3> QED BY <1>5, <2>2, <3>2, <3>3, BeginHeeds
    <2>3. CASE m = End
        <3>1. r # <<>>
            BY <1>6, <2>3, MarksAre
        <3>2. p.sync
            BY <1>6, <2>3, <3>1, MarksAre
        <3> QED BY <1>4, <1>5, <2>3, <3>2, EndHeeds
    <2> QED BY <1>7, <2>1, <2>2, <2>3
<1>9. o.out \in Seq(Routed)
    <2> DEFINE S == Routed \cup {AskedOf(s, p.period)}
               e == o.out
    <2>1. e \in Seq(S)
        BY <1>4, <1>7, ReceivedSends
    <2>2. u \in Seq(S)
        <3>1. Routed \subseteq S
            OBVIOUS
        <3> QED BY <3>1, Wider
    <2>3. u \o e \in Seq(Routed)
        <3>1. Stage(s, u \o o.out, d2, r2, z, "open", q, v, l, a)
            BY <1>2 DEF Becomes
        <3> HIDE DEF z
        <3> QED BY <1>1, <3>1, StageSends
    <2> HIDE DEF S, e
    <2>4. \A x : Has(e, x) => Has(u \o e, x)
        BY <2>1, <2>2, HasConcat
    <2>5. \A x : Has(e, x) => x \in Routed
        BY <2>3, <2>4, ElementsOfSeq
    <2> QED BY <2>1, <2>5, SeqOfElements DEF e
<1> HIDE DEF z
<1>10. /\ p.period <= q
       /\ p.ranAt = Undefined => p.period \in {Undefined, q}
    <2>1. /\ p.period # Undefined => p.period <= q
          /\ p.ranAt = Undefined => p.period \in {Undefined, q}
        BY <1>1, <1>2, PeriodOfPage
    <2>2. p.period = Undefined => p.period <= q
        BY <1>1 DEF Undefined
    <2> QED BY <2>1, <2>2
<1>11. /\ Says(s, u, d, r, p, q, l) /\ HasAnnounced(s, u, d, r, p, "open", q, l, a) /\ Scripts(p, q, sc)
       /\ Passed(q, sc, l) /\ (Waiting(p, "open") => Waits(s, u, d, r, p, "open", q, l))
    BY DEF Sure, q
<1>12. Says(s, u \o o.out, d2, r2, z, q, l)
    <2>1. o.periods[s] = o.period
        BY <1>3 DEF Shed
    <2> QED BY <1>1, <1>3, <1>4, <1>8, <1>9, <1>10, <1>11, <2>1, SaysReceived DEF z
<1>13. HasAnnounced(s, u \o o.out, d2, r2, z, "open", q, l, a)
    BY <1>1, <1>2, <1>3, <1>8, <1>9, <1>11, AnnouncedReceived DEF z, Says
<1> DEFINE w == r \o d
           S == Routed \cup {Begin, End}
<1>14. w \in Seq(S) /\ w # <<>> /\ Head(w) = m /\ Tail(w) = r2 \o d2
    <2>1. r \in Seq(S) /\ d \in Seq(S)
        <3>1. Routed \subseteq S
            OBVIOUS
        <3> QED BY <3>1, Wider
    <2> HIDE DEF S
    <2>2. w \in Seq(S)
        BY <2>1, ConcatIs
    <2>3. CASE r # <<>>
        BY <1>6, <2>1, <2>2, <2>3, HeadOfConcat
    <2>4. CASE r = <<>>
        <3>1. w = d /\ Tail(d) \in Seq(Routed)
            BY <1>6, <2>4
        <3>2. r2 \o d2 = d2
            BY <1>6, <2>4, <3>1
        <3> QED BY <1>6, <2>2, <2>4, <3>1, <3>2
    <2> QED BY <2>3, <2>4
<1>15. p.ranAt = Undefined => Ready(s, u, p, q, l) /\ Attends(w, p, q, l)
    BY <1>11 DEF Waiting, Waits
<1> HIDE DEF w
<1>16. Scripts(z, q, sc)
    <2>1. Scripts(o, q, sc)
        <3>1. SameRun(p, o) \/ (Started(p, o) /\ Opens(p, m))
            BY <1>3, <1>4, <1>7, ReceivedStarts DEF z
        <3>2. \A t \in p.received[q] : Arrived(t, q, sc, l)
            BY <1>1 DEF Knows
        <3>3. m.key = "_at_barrier" => Arrived(m.sender, m.value, sc, l)
            BY <1>6 DEF Tells
        <3>4. \A t \in Subjects : Arrived(t, q, sc, l) => sc[t].period > q \/ Entry(l, t, q)
            BY DEF q
        <3>5. p.ranAt = Undefined => Attends(w, p, q, l) /\ (p.loaded = Subjects => p.enabled)
            BY <1>15 DEF Ready
        <3>6. p.loaded \in SUBSET Subjects
            BY DEF PageOf
        <3>7. w \in Seq(Routed \cup {Begin, End}) /\ w # <<>> /\ Head(w) = m
            BY <1>14
        <3>8. Heeds(s, p, m, o) /\ Scripts(p, q, sc) /\ q \in Periods
            BY <1>1, <1>8, <1>11
        <3> QED BY <3>7, <3>8, <3>1, <3>2, <3>3, <3>4, <3>5, <3>6, ScriptsReceived
    <2> QED BY <1>3, <2>1 DEF Shed, Scripts
<1>17. ASSUME Waiting(z, "open") PROVE Waits(s, u \o o.out, d2, r2, z, "open", q, l)
    <2>1. o.ranAt = Undefined
        BY <1>3, <1>17 DEF Waiting, Shed
    <2>2. p.ranAt = Undefined
        BY <1>8, <2>1 DEF Heeds, Barring
    <2>3. Ready(s, u, p, q, l) /\ Attends(w, p, q, l)
        BY <1>15, <2>2
    <2>4. ~Asks(s, p, m)
        BY <1>1, <1>2, <1>4, <1>6, <2>2, WaitingSays
    <2>5. Attends(Tail(w), o, q, l)
        <3>1. Heeds(s, p, Head(w), o)
            BY <1>8, <1>14
        <3> QED BY <1>1, <1>14, <2>1, <2>3, <3>1, ReceivedAttends
    <2>6. Attends(r2 \o d2, z, q, l)
        BY <1>3, <1>14, <2>5 DEF Attends, Shed
    <2>7. Entry(l, s, q) \/ (s \notin p.received[q] /\ ~Arrives(m, s, q))
        <3>1. CASE Unstarted(s, u, d, r, p, q, l)
            BY <1>6, <3>1 DEF Unstarted, Unaware, Arrives
        <3> QED BY <1>1, <1>2, <3>1, LogSays
    <2>8. p.sync /\ Arrives(m, s, q) => Arrival(l, s, q)
        <3>1. ASSUME Arrives(m, s, q) PROVE Arrived(s, q, sc, l)
            BY <1>6, <3>1 DEF Tells, Arrives
        <3>2. ~(sc[s].period > q)
            BY <1>1 DEF q
        <3> QED BY <3>1, <3>2 DEF q
    <2>9. Ready(s, u \o o.out, z, q, l)
        <3>1. p.deferred \subseteq {p.period} /\ o.periods[s] = o.period
            BY <1>3, <1>4, <2>2 DEF Shed
        <3>2. m = Head(w)
            BY <1>14
        <3>3. Emptied(o) \in PageOf(s)
            BY <1>3 DEF z
        <3>4. p.period \in {Undefined, q}
            BY <1>10, <2>2
        <3>5. Ready(s, u \o o.out, Emptied(o), q, l)
            BY <1>1, <1>4, <1>8, <1>9, <1>14, <2>1, <2>3, <2>4, <2>7, <2>8, <3>1, <3>2, <3>3, <3>4, ReceivedReady
        <3> QED BY <3>5 DEF z
    <2> QED BY <2>6, <2>9 DEF Waits
<1>18. Sure(s, u \o o.out, d2, r2, z, "open", l, a, sc)
    BY <1>11, <1>12, <1>13, <1>16, <1>17 DEF Sure, q
<1> QED BY <1>18 DEF z

-----------------------------------------------------------------------------
(* What Route handles, for what is sure of a subject                       *)

(***************************************************************************)
(* What Route takes of s itself: a message that leaves s in its period, or *)
(* its next period, when the scripts of its page have had the one before.  *)
(***************************************************************************)
LEMMA OwnIs ==
    ASSUME NEW s \in Subjects, NEW u, NEW d, NEW r, NEW p, NEW c, NEW q \in Periods, NEW v, NEW l, NEW a,
           Stage(s, u, d, r, p, c, q, v, l, a),
           NEW m, NEW q2, NEW v2, Takes(u, q, v, m, q2, v2)
    PROVE  /\ Tail(u) \in Seq(Routed) /\ (\A x : Has(u, x) <=> x = Head(u) \/ Has(Tail(u), x))
           /\ \/ q2 = q /\ m = Head(u) /\ m.sender = s /\ m.key # "__set_period__"
              \/ q2 = q + 1 /\ m = PeriodIs(s, q + 1) /\ r = <<>> /\ p.ranAt = q /\ ~Said(Head(u), s) /\ Head(u).key # "_at_barrier"
<1> DEFINE x == Head(u)
           Same == q2 = q /\ m = x /\ m.sender = s /\ m.key # "__set_period__"
           Goal == Same \/ (q2 = q + 1 /\ m = PeriodIs(s, q + 1) /\ r = <<>> /\ p.ranAt = q /\ ~Said(x, s) /\ x.key # "_at_barrier")
<1>0. /\ u # <<>> /\ m = Taken(x)
      /\ q2 = IF m.key = "__set_period__" THEN m.value ELSE q
    BY DEF Takes
<1>1. u \in Seq(Routed)
    BY StageSends
<1>2. Tail(u) \in Seq(Routed) /\ (\A y : Has(u, y) <=> y = x \/ Has(Tail(u), y))
    BY <1>0, <1>1, HasHeadTail
<1>3. ASSUME NEW A, u \in Seq(A) PROVE x \in A
    BY <1>0, <1>3, HeadTailProperties
<1> SUFFICES Goal
    BY <1>2
<1> HIDE DEF x
<1>4. ASSUME x \in Plain(s) PROVE Same
    <2>1. m = x /\ x.sender = s /\ x.key # "__set_period__"
        BY <1>0, <1>4, TakenIs DEF Plain, PlainKeys
    <2> QED BY <1>0, <2>1
<1>5. CASE Told(s, u, d, r, p, c, q, l, a)
    BY <1>0, <1>5 DEF Told
<1>6. CASE Greeted(s, u, d, r, p, c, q, l, a)
    <2>1. x \in {Announcement(s)}
        BY <1>3, <1>6 DEF Greeted
    <2> QED BY <1>4, <2>1, MessagesAre
<1>7. CASE Settled(s, u, d, r, p, c, q, v, l, a) \/ Reloading(s, u, d, r, p, c, q, v, l, a)
    BY <1>3, <1>4, <1>7 DEF Settled, Reloading
<1>8. CASE Leaving(s, u, d, r, p, c, q, l, a)
    <2>1. CASE u \in Seq(Plain(s))
        BY <1>3, <1>4, <2>1
    <2>2. CASE One(u, NextOf(s, q), Plain(s), Plain(s))
        <3>1. CASE x \in Plain(s)
            BY <1>4, <3>1
        <3>2. CASE x = NextOf(s, q)
            BY <1>0, <3>2, TakenIs, PartsAre
        <3> QED BY <2>2, <3>1, <3>2, OneHead DEF x
    <2>3. CASE Through(p, c, r, q) /\ One(u, AskedOf(s, q), Plain(s), Plain(s))
        <3>1. CASE x \in Plain(s)
            BY <1>4, <3>1
        <3>2. CASE x = AskedOf(s, q)
            <4>1. m = PeriodIs(s, q + 1) /\ m.key = "__set_period__" /\ m.value = q + 1
                BY <1>0, <3>2, TakenIs, PartsAre
            <4>2. q2 = q + 1
                BY <1>0, <4>1
            <4>3. r = <<>> /\ p.ranAt = q
                BY <2>3 DEF Through
            <4>4. x.key = "__set_period__"
                BY <3>2, PartsAre
            <4> QED BY <4>1, <4>2, <4>3, <4>4 DEF Said
        <3> QED BY <2>3, <3>1, <3>2, OneHead DEF x
    <2> QED BY <1>8, <2>1, <2>2, <2>3 DEF Leaving
<1>9. CASE Turned(s, u, d, r, p, c, q, v, l, a)
    <2>1. CASE u \in Seq(Plain(s))
        BY <1>3, <1>4, <2>1
    <2>2. CASE One(u, PageIs(s, q), EarlyPlain(s, q), Plain(s))
        <3>1. CASE x \in EarlyPlain(s, q)
            BY <1>4, <3>1, MessagesAre
        <3>2. CASE x = PageIs(s, q)
            BY <1>0, <3>2, TakenIs, PartsAre
        <3> QED BY <2>2, <3>1, <3>2, OneHead DEF x
    <2> QED BY <1>9, <2>1, <2>2 DEF Turned
<1> QED BY <1>5, <1>6, <1>7, <1>8, <1>9 DEF Stage

(***************************************************************************)
(* How m, which Route handles, is about s: s has sent it and stays in its  *)
(* period; it is the next period of s; it is the first; it is not of s.    *)
(***************************************************************************)
Stays(s, u, u2, q, q2, m) ==
    /\ q2 = q /\ u # <<>> /\ m = Head(u) /\ u2 = Tail(u) /\ m.sender = s /\ m.key # "__set_period__"

Advances(s, u, u2, r, p, q, q2, m) ==
    /\ q2 = q + 1 /\ m = PeriodIs(s, q2) /\ u # <<>> /\ u2 = Tail(u)
    /\ r = <<>> /\ ~p.sync /\ p.ranAt = q /\ ~Said(Head(u), s)

Begins(s, u, u2, d, r, p, q, q2, l, a, m) ==
    /\ q2 = q /\ q = 0 /\ m = PeriodIs(s, 0) /\ u2 = u /\ Has(a, m) /\ Unstarted(s, u, d, r, p, q, l)

Passes(s, u, u2, q, q2, a, a2, m) ==
    /\ q2 = q /\ u2 = u /\ m \in Others(s) /\ (Has(a2, PeriodIs(s, 0)) <=> Has(a, PeriodIs(s, 0)))

About(s, u, u2, d, r, p, q, q2, l, a, a2, m) ==
    \/ Stays(s, u, u2, q, q2, m) /\ a2 = a
    \/ Advances(s, u, u2, r, p, q, q2, m) /\ a2 = a
    \/ Begins(s, u, u2, d, r, p, q, q2, l, a, m)
    \/ Passes(s, u, u2, q, q2, a, a2, m)

(***************************************************************************)
(* What s has said, when Route has handled m.                              *)
(***************************************************************************)
LEMMA SaysHandled ==
    ASSUME NEW s \in Subjects, NEW u \in Seq(Routed), NEW u2, NEW d \in Seq(Routed), NEW r, NEW p \in PageOf(s),
           p.out = <<>>, NEW c, NEW q \in Periods, NEW q2 \in Periods, NEW l \in Seq(Routed), NEW a, NEW a2,
           NEW m \in Routed, About(s, u, u2, d, r, p, q, q2, l, a, a2, m), Dated(l), Dated(<<m>>),
           NEW sc, sc[s].period = q2, NEW d2, d2 = d \/ d2 = Append(d, m),
           Unstarted(s, u, d, r, p, q, l) \/ Entry(l, s, q),
           Says(s, u, d, r, p, q, l)
    PROVE  Says(s, u2, d2, r, p, q2, Adding(l, m, sc))
<1> DEFINE l2 == Adding(l, m, sc)
<1>1. q \in Nat /\ q2 \in Nat /\ Undefined # q /\ Undefined # q2
    BY Basics
<1>2. \A x : Has(d2, x) => Has(d, x) \/ x = m
    BY HasAppend
<1>3. \A x : Has(l2, x) => Has(l, x) \/ x = m
    BY AddingIs
<1>4. \A x : Has(u2, x) => Has(u, x)
    BY HasHeadTail DEF About, Stays, Advances, Begins, Passes
<1>5. Said(m, s) => Stays(s, u, u2, q, q2, m) /\ Has(u, m)
    <2>1. Stays(s, u, u2, q, q2, m) => Has(u, m)
        BY HasHeadTail DEF Stays
    <2>2. m \in Others(s) => ~Said(m, s)
        BY DEF Others, Mine, Said
    <2>3. \A k : ~Said(PeriodIs(s, k), s)
        BY PartsAre DEF Said, PeriodIs, Message
    <2> QED BY <2>1, <2>2, <2>3 DEF About, Advances, Begins, Passes
<1>6. q <= q2
    BY <1>1 DEF About, Stays, Advances, Begins, Passes
<1>7. Bounded(s, u2, d2, p, q2, l2)
    <2>1. \A x : (Has(u2, x) \/ Has(d2, x) \/ Has(l2, x) \/ Mail(p, x)) /\ Said(x, s) => x.period <= q
        BY <1>2, <1>3, <1>4, <1>5 DEF Says, Bounded
    <2>2. ASSUME NEW x, (Has(u2, x) \/ Has(d2, x) \/ Has(l2, x) \/ Mail(p, x)), Said(x, s) PROVE x.period <= q2
        <3>1. x \in Routed
            <4>1. \A S, y, z : y \in Seq(S) /\ Has(y, z) => z \in S
                BY ElementsOfSeq
            <4>2. Plain(s) \subseteq Routed
                BY DEF Plain
            <4>3. p.queue \in Seq(Plain(s)) /\ p.held \in Seq(Plain(s)) /\ p.out \in Seq(Plain(s))
                BY DEF PageOf
            <4> QED BY <1>2, <1>3, <1>4, <2>2, <4>1, <4>2, <4>3 DEF Mail
        <3>2. x.period \in Nat
            <4>1. x.period \in Periods
                BY <3>1 DEF Routed
            <4> QED BY <4>1, Basics
        <3>3. x.period <= q
            BY <2>1, <2>2
        <3> QED BY <1>1, <1>6, <3>2, <3>3
    <2> QED BY <2>2 DEF Bounded
<1>8. /\ Entry(l2, s, q2) => Entry(l, s, q2) \/ Enters(m, s, q2)
      /\ Arrival(l2, s, q2) <=> Arrival(l, s, q2) \/ Arrives(m, s, q2)
      /\ ~Ends(m, s) =>
            /\ Counts(Undefined, l, s, q2) => Counts(Undefined, l2, s, q2)
            /\ Loaded(m, s, q2) /\ Entry(l, s, q2) => Counts(Undefined, l2, s, q2)
            /\ Orderly(Undefined, {}, l, s, q2) /\ (Arrives(m, s, q2) => Counts(Undefined, l, s, q2))
                  => Orderly(Undefined, {}, l2, s, q2)
    <2>1. sc[s].period <= q2
        BY <1>1
    <2> QED BY <2>1, AddingCounts
<1> HIDE DEF l2
<1>9. CASE q2 = q /\ ~Ends(m, s)
    <2>1. Says(s, u, d, r, p, q2, l)
        BY <1>9
    <2>2. Coming(s, u2, d2, r, p, q2) => Coming(s, u, d, r, p, q2) \/ Loaded(m, s, q2)
        BY <1>2, <1>4, EntryHas DEF Coming
    <2>3. Loaded(m, s, q2) => Counts(Undefined, l2, s, q2)
        <3>1. Loaded(m, s, q2) => Said(m, s)
            BY DEF Loaded, Said
        <3>2. Stays(s, u, u2, q, q2, m) => u # <<>>
            BY DEF Stays
        <3> QED BY <1>5, <1>8, <1>9, <3>1, <3>2 DEF Unstarted
    <2>4. Coming(s, u2, d2, r, p, q2) => Counts(Undefined, l2, s, q2)
        BY <1>8, <1>9, <2>1, <2>2, <2>3 DEF Says
    <2>5. Arrives(m, s, q2) => Counts(Undefined, l, s, q2)
        <3>1. Arrives(m, s, q2) => Said(m, s)
            BY DEF Arrives, Said
        <3> QED BY <1>5, <2>1, <3>1 DEF Says, Coming
    <2> QED BY <1>7, <1>8, <1>9, <2>1, <2>4, <2>5 DEF Says, l2
<1>10. CASE Advances(s, u, u2, r, p, q, q2, m)
    <2>0. q2 = q + 1 /\ m = PeriodIs(s, q2) /\ r = <<>> /\ ~p.sync
        BY <1>10 DEF Advances
    <2>1. \A x : (Has(u2, x) \/ Has(d2, x) \/ Has(l2, x) \/ Mail(p, x)) /\ Said(x, s) => x.period <= q
        BY <1>2, <1>3, <1>4, <1>5 DEF Says, Bounded
    <2>2. \A x : (Has(u2, x) \/ Has(d2, x) \/ Has(l2, x) \/ Mail(p, x)) => x \in Routed
        <4>1. \A S, y, z : y \in Seq(S) /\ Has(y, z) => z \in S
            BY ElementsOfSeq
        <4>2. Plain(s) \subseteq Routed
            BY DEF Plain
        <4>3. p.queue \in Seq(Plain(s)) /\ p.held \in Seq(Plain(s)) /\ p.out \in Seq(Plain(s))
            BY DEF PageOf
        <4> QED BY <1>2, <1>3, <1>4, <4>1, <4>2, <4>3 DEF Mail
    <2>3. ASSUME NEW x, Has(u2, x) \/ Has(d2, x) \/ Has(l2, x) \/ Mail(p, x)
          PROVE  ~Arrives(x, s, q2) /\ ~Loaded(x, s, q2)
        <3>1. SUFFICES ASSUME Arrives(x, s, q2) \/ Loaded(x, s, q2) PROVE FALSE
            OBVIOUS
        <3>2. Said(x, s) /\ x.period = q2
            BY <2>2, <2>3, <3>1 DEF Arrives, Loaded, Said, Routed
        <3>3. q2 <= q
            BY <2>1, <2>3, <3>2
        <3> QED BY <1>1, <2>0, <3>3
    <2>4. ~Counts(p.period, r, s, q2)
        BY <2>0, OneHave
    <2>5. ~Coming(s, u2, d2, r, p, q2)
        BY <2>0, <2>3, <2>4, EntryHas DEF Coming
    <2>6. Orderly(Undefined, {}, l2, s, q2)
        BY <2>3 DEF Orderly, Has
    <2> QED BY <1>7, <2>5, <2>6 DEF Says, l2
<1>11. CASE Begins(s, u, u2, d, r, p, q, q2, l, a, m)
    <2>0. q2 = 0 /\ m = PeriodIs(s, 0) /\ u2 = <<>> /\ Unstarted(s, u, d, r, p, 0, l)
        BY <1>11 DEF Begins, Unstarted
    <2>1. p.queue = <<>> /\ p.held = <<>> /\ p.period = Undefined
        BY <2>0 DEF Unstarted
    <2>2. \A x : ~Has(u2, x) /\ ~Mail(p, x)
        BY <2>0, <2>1, HasOne DEF Mail
    <2>3. \A x : Has(d2, x) => ~Loaded(x, s, 0)
        <3>1. ~Loaded(m, s, 0)
            BY <2>0, PartsAre DEF Loaded
        <3> QED BY <1>2, <2>0, <3>1 DEF Unstarted, Loaded
    <2>4. ~Counts(p.period, r, s, 0)
        <3>1. Counts(Undefined, r, s, 0) => Entry(r, s, 0)
            BY <1>1, <2>0, CountsEntered
        <3>2. ~Entry(r, s, 0)
            BY <2>0, EntryHas DEF Unstarted, Unaware, Enters, Ends
        <3> QED BY <2>1, <3>1, <3>2
    <2>5. ~Coming(s, u2, d2, r, p, q2)
        BY <1>1, <2>0, <2>1, <2>2, <2>3, <2>4, EntryHas DEF Coming
    <2>6. \A x : Has(l2, x) => ~Arrives(x, s, q2)
        <3>1. ~Arrives(m, s, 0)
            BY <2>0, PartsAre DEF Arrives
        <3> QED BY <1>3, <2>0, <3>1 DEF Unstarted, Unaware, Arrives
    <2>7. Orderly(Undefined, {}, l2, s, q2)
        BY <2>6 DEF Orderly, Has
    <2> QED BY <1>7, <2>5, <2>7 DEF Says, l2
<1>12. Stays(s, u, u2, q, q2, m) \/ Passes(s, u, u2, q, q2, a, a2, m) => q2 = q /\ ~Ends(m, s)
    BY DEF Stays, Passes, Others, Mine, Ends
<1> QED BY <1>9, <1>10, <1>11, <1>12 DEF About

\* What turns a page that waits reaches it.
LEMMA TurningReaches ==
    ASSUME NEW s \in Subjects, NEW k \in Periods, NEW m \in {PeriodIs(s, k), PageIs(s, k)}, NEW sc, sc[s].period = k,
           NEW l \in Seq(Routed), NEW d \in Seq(Routed), NEW d2, d2 = Reached(s, d, m, "open", sc, Adding(l, m, sc))
    PROVE  Has(d2, m) /\ Turning(m, s)
<1>1. m \in Routed /\ m \in Msg /\ m.sender = s /\ m.period = k /\ m.group = 0 /\ m.key \in Change
    <2>1. m \in Routed
        BY MessagesAre
    <2>2. m \in Msg
        BY UpdatesAreMsg
    <2>3. \A x \in {PeriodIs(s, k), PageIs(s, k)} : x.sender = s /\ x.period = k /\ x.group = 0 /\ x.key \in Change
        BY DEF PeriodIs, PageIs, Message, Change
    <2> QED BY <2>1, <2>2, <2>3
<1>2. Has(Adding(l, m, sc), m)
    <2>1. k <= PeriodOf(m)
        <3>1. PeriodOf(m) = k /\ k \in Nat
            BY <1>1, Basics DEF PeriodOf, Change
        <3> QED BY <3>1
    <2>2. Needed(sc, m)
        BY <2>1 DEF Needed
    <2> QED BY <1>1, <2>2, AddingIs
<1>3. Gets(s, sc, Adding(l, m, sc), m)
    BY <1>1, <1>2, GetsOwn
<1>4. d2 = Append(d, m)
    BY <1>3 DEF Reached
<1>5. Has(Append(d, m), m)
    BY <1>1, HasAppend
<1> QED BY <1>1, <1>4, <1>5 DEF Turning

(***************************************************************************)
(* That a page has announced itself stays true when Route handles m.       *)
(***************************************************************************)
LEMMA AnnouncedHandled ==
    ASSUME NEW s \in Subjects, NEW u \in Seq(Routed), NEW u2, NEW d \in Seq(Routed), NEW r, NEW p \in PageOf(s),
           p.periods[s] = p.period,
           NEW c, NEW q \in Periods, NEW q2 \in Periods, NEW v, NEW l \in Seq(Routed), NEW a, NEW a2,
           Stage(s, u, d, r, p, c, q, v, l, a),
           NEW m \in Routed, About(s, u, u2, d, r, p, q, q2, l, a, a2, m), Dated(l), Dated(<<m>>),
           NEW sc, sc[s].period = q2, NEW d2, d2 = Reached(s, d, m, c, sc, Adding(l, m, sc)),
           HasAnnounced(s, u, d, r, p, c, q, l, a)
    PROVE  HasAnnounced(s, u2, d2, r, p, c, q2, Adding(l, m, sc), a2)
<1> DEFINE l2 == Adding(l, m, sc)
<1> SUFFICES ASSUME c = "open", r = <<>>, p.ranAt = Undefined, ~Turns(s, u2, d2, p, a2)
             PROVE  Loading(u2, s, q2) \/ Counts(Undefined, l2, s, q2)
    BY DEF HasAnnounced
<1>1. q \in Nat /\ q2 \in Nat /\ Undefined # q
    BY Basics
<1>2. ~Advances(s, u, u2, r, p, q, q2, m)
    BY <1>1 DEF Advances
<1>3. q2 = q
    BY <1>2 DEF About, Stays, Begins, Passes
<1>4. \A x : Has(d, x) => Has(d2, x)
    BY HasAppend DEF Reached
<1>5. m \notin {PeriodIs(s, q), PageIs(s, q)}
    BY <1>3, TurningReaches DEF Turns
<1>6. ~Begins(s, u, u2, d, r, p, q, q2, l, a, m)
    BY <1>5 DEF Begins
<1>7. Has(a, PeriodIs(s, 0)) => Has(a2, PeriodIs(s, 0))
    BY <1>2, <1>6 DEF About, Passes
<1>8. ASSUME NEW x, Has(u, x), Turning(x, s) PROVE Has(u2, x)
    <2>1. CASE u2 = u
        BY <1>8, <2>1
    <2>2. CASE Stays(s, u, u2, q, q2, m)
        <3>1. x = m \/ Has(u2, x)
            BY <1>8, <2>2, HasHeadTail DEF Stays
        <3>2. ~p.reloading
            BY DEF Turns
        <3>3. x \in Plain(s) \/ x = PageIs(s, q)
            BY <1>8, <3>2, WaitingSays
        <3>4. x \notin Plain(s)
            BY <1>8 DEF Plain, PlainKeys, Turning, Change
        <3> QED BY <1>5, <3>1, <3>3, <3>4
    <2> QED BY <1>2, <1>6, <2>1, <2>2 DEF About, Passes
<1>9. ~Turns(s, u, d, p, a)
    BY <1>4, <1>7, <1>8 DEF Turns
<1>10. Loading(u, s, q) \/ Counts(Undefined, l, s, q)
    BY <1>9 DEF HasAnnounced
<1>11. ~Ends(m, s)
    BY <1>2, <1>6 DEF About, Stays, Passes, Others, Mine, Ends
<1>12. /\ Counts(Undefined, l, s, q) => Counts(Undefined, l2, s, q)
       /\ Loaded(m, s, q) /\ Entry(l, s, q) => Counts(Undefined, l2, s, q)
    <2>1. sc[s].period <= q
        BY <1>1, <1>3
    <2> QED BY <1>11, <2>1, AddingCounts
<1> HIDE DEF l2
<1>13. CASE Loading(u, s, q) /\ Stays(s, u, u2, q, q2, m)
    <2>1. Loaded(m, s, q) \/ Loading(u2, s, q)
        BY <1>13, HeadTailHave DEF Stays
    <2>2. u # <<>> /\ p \in PageOf(s)
        BY <1>13 DEF Stays
    <2>3. Entry(l, s, q)
        BY <2>2, LogSays DEF Unstarted
    <2> QED BY <1>3, <1>12, <2>1, <2>3
<1> QED BY <1>2, <1>3, <1>6, <1>10, <1>12, <1>13 DEF About, Passes

\* What scripts can do when Route handles m.
LEMMA ScriptsHandled ==
    ASSUME NEW s, NEW p, NEW q \in Periods, NEW q2, q2 = q \/ (q2 = q + 1 /\ p.ranAt = q), NEW sc, NEW sc2,
           \A t \in Subjects : sc[t].period \in Nat /\ sc2[t].period \in Nat /\ sc2[t].period >= sc[t].period,
           Scripts(p, q, sc)
    PROVE  Scripts(p, q2, sc2)
<1>1. q \in Nat
    BY Basics
<1>2. ASSUME p.ranAt = q2 PROVE p.enabled \/ \E t \in Subjects : sc2[t].period > q2
    <2>1. q2 = q
        BY <1>1, <1>2
    <2>2. CASE p.enabled
        BY <2>2
    <2>3. ASSUME NEW t \in Subjects, sc[t].period > q PROVE sc2[t].period > q2
        BY <1>1, <2>1, <2>3
    <2> QED BY <1>2, <2>1, <2>2, <2>3 DEF Scripts
<1> QED BY <1>2 DEF Scripts

(***************************************************************************)
(* The arrivals at a barrier stay in the log until everybody is in a later *)
(* period.                                                                 *)
(***************************************************************************)
LEMMA PassedHandled ==
    ASSUME NEW l \in Seq(Routed), Dated(l), NEW m \in Routed, Dated(<<m>>), NEW sc, NEW sc2,
           \A t \in Subjects : sc[t].period \in Nat /\ sc2[t].period \in Nat /\ sc2[t].period >= sc[t].period,
           \A t \in Subjects : Passed(sc[t].period, sc, l),
           NEW s \in Subjects, NEW q, q = sc[s].period, NEW q2,
           q2 = q \/ (q2 = q + 1 /\ \A t \in Subjects : Arrived(t, q, sc, l))
    PROVE  Passed(q2, sc2, Adding(l, m, sc2))
<1>1. SUFFICES ASSUME NEW t \in Subjects, NEW j \in 0 .. q2 - 1
               PROVE  (\A x \in Subjects : sc2[x].period > j) \/ Arrival(Adding(l, m, sc2), t, j)
    BY DEF Passed
<1>2. q \in Nat /\ j \in Nat /\ q2 \in Nat /\ (j \in 0 .. q - 1 \/ (j = q /\ q2 = q + 1))
    BY <1>1
<1>3. (\A x \in Subjects : sc[x].period > j) \/ Arrival(l, t, j)
    <2>1. CASE j \in 0 .. q - 1
        BY <2>1 DEF Passed
    <2>2. CASE j = q /\ q2 = q + 1
        <3>1. Arrived(t, j, sc, l)
            BY <2>2, <1>2
        <3>2. CASE sc[t].period > j
            <4>1. j \in 0 .. sc[t].period - 1
                BY <1>2, <3>2
            <4>2. Passed(sc[t].period, sc, l)
                OBVIOUS
            <4> QED BY <4>1, <4>2 DEF Passed
        <3>3. CASE Arrival(l, t, j)
            BY <3>3
        <3> QED BY <3>1, <3>2, <3>3, EntryHas DEF Arrived, Arrives
    <2> QED BY <1>2, <2>1, <2>2
<1>4. CASE \A x \in Subjects : sc[x].period > j
    <2>1. ASSUME NEW x \in Subjects PROVE sc2[x].period > j
        BY <1>2, <1>4, <2>1
    <2> QED BY <2>1
<1>5. ASSUME Arrival(l, t, j), NEW x \in Subjects, ~(sc2[x].period > j) PROVE Arrival(Adding(l, m, sc2), t, j)
    <2>1. sc2[x].period <= j
        BY <1>2, <1>5
    <2> QED BY <1>5, <2>1, AddingCounts
<1> QED BY <1>3, <1>4, <1>5

\* A period as Route sets it.
Proper(m) ==
    m.key = "__set_period__" =>
        m.sender \in Subjects /\ m.value \in Periods /\ m = PeriodIs(m.sender, m.value)

\* A message with its period.
LEMMA ProperIsDated ==
    ASSUME NEW m, Proper(m)
    PROVE  Dated(<<m>>)
<1>1. m.key = "__set_period__" => m.period = m.value
    BY PartsAre DEF Proper
<1> QED BY <1>1, HasOne DEF Dated

(***************************************************************************)
(* A page gets what counts somebody in its subject's period, and no other  *)
(* period than this one or the first.                                      *)
(***************************************************************************)
LEMMA GetsPeriod ==
    ASSUME NEW s \in Subjects, NEW k \in Periods, NEW sc, sc[s].period = k, sc[s].group = Group,
           NEW m \in Routed, Proper(m), NEW l \in Seq(Routed)
    PROVE  LET l2 == Adding(l, m, sc) IN
           /\ \A t : Enters(m, t, k) \/ Loaded(m, t, k) \/ Arrives(m, t, k) => Gets(s, sc, l2, m)
           /\ m.key = "__set_period__" /\ Gets(s, sc, l2, m) => m.value \in {0, k}
<1> DEFINE l2 == Adding(l, m, sc)
<1>1. m.key = "__set_period__" => m.period = m.value /\ m \in Msg
    BY PartsAre, UpdatesAreMsg DEF Proper
<1>2. ASSUME NEW t, Enters(m, t, k) \/ Loaded(m, t, k) \/ Arrives(m, t, k) PROVE Gets(s, sc, l2, m)
    <2>1. m.period = k /\ m.key \in {"__set_period__", "__page_loaded__", "_at_barrier"} /\ m.group \in {0, Group}
        BY <1>1, <1>2 DEF Enters, Loaded, Arrives, Routed
    <2>2. m.stateUpdate => m \in Msg /\ Has(l2, m)
        <3>1. m.stateUpdate => m.key = "__set_period__"
            BY <2>1 DEF Routed, Change
        <3>2. k \in Nat
            BY Basics
        <3>3. PeriodOf(m) = k
            BY <2>1 DEF PeriodOf
        <3>4. Needed(sc, m)
            BY <3>2, <3>3 DEF Needed
        <3> QED BY <1>1, <3>1, <3>4, AddingIs
    <2> HIDE DEF l2
    <2>3. m.stateUpdate => \E x \in ToSet(l2) : IdenticalTo(m, x)
        <3>1. SUFFICES ASSUME m.stateUpdate PROVE \E x \in ToSet(l2) : IdenticalTo(m, x)
            OBVIOUS
        <3>2. m \in ToSet(l2)
            BY <2>2, <3>1 DEF Has, ToSet
        <3>3. m # NoMsg
            BY <2>2, <3>1, NamesAssumption
        <3> QED BY <3>2, <3>3 DEF IdenticalTo
    <2> QED BY <2>1, <2>3 DEF Gets, Interests, match
<1>3. ASSUME m.key = "__set_period__", Gets(s, sc, l2, m) PROVE m.value \in {0, k}
    <2>1. s \notin Observers /\ m.key \notin ControlKeys
        BY <1>3, NamesAssumption DEF ControlKeys
    <2>2. m.period \in {0, k}
        BY <1>3, <2>1 DEF Gets, match
    <2> QED BY <1>1, <1>3, <2>2
<1> QED BY <1>2, <1>3

(***************************************************************************)
(* m can come to the log l: t has been counted before it is at the         *)
(* barrier, and enters a period before it is at the barrier there.         *)
(***************************************************************************)
Fitting(m, t, k, sc, l) ==
    /\ Arrives(m, t, k) /\ Entry(l, t, k) => Counts(Undefined, l, t, k)
    /\ Enters(m, t, k) => ~Arrived(t, k, sc, l)

\* What Route handles fits what has been said by everybody.
LEMMA FittingIs ==
    ASSUME NEW t \in Subjects, NEW u \in Seq(Routed), NEW u2, NEW d, NEW r, NEW p \in PageOf(t), NEW c,
           NEW q \in Periods, NEW q2, NEW v, NEW l \in Seq(Routed), NEW a, NEW a2,
           Stage(t, u, d, r, p, c, q, v, l, a), Says(t, u, d, r, p, q, l),
           NEW m \in Routed, About(t, u, u2, d, r, p, q, q2, l, a, a2, m),
           NEW sc, sc[t].period = q
    PROVE  /\ \A k \in Periods : Fitting(m, t, k, sc, l)
           /\ m.key = "__set_period__" /\ m.sender = t => Proper(m) /\ (m.value = 0 => q = 0 /\ ~Arrived(t, 0, sc, l))
<1>1. q \in Nat
    BY Basics
<1>2. ASSUME NEW k \in Periods, Arrives(m, t, k), Entry(l, t, k) PROVE Counts(Undefined, l, t, k)
    <2>1. Said(m, t)
        BY <1>2 DEF Arrives, Said
    <2>2. Has(u, m)
        <3>1. Stays(t, u, u2, q, q2, m) => Has(u, m)
            BY HasHeadTail DEF Stays
        <3>2. m \in Others(t) => ~Said(m, t)
            BY DEF Others, Mine, Said
        <3>3. \A j : ~Said(PeriodIs(t, j), t)
            BY PartsAre DEF Said, PeriodIs, Message
        <3> QED BY <2>1, <3>1, <3>2, <3>3 DEF About, Advances, Begins, Passes
    <2>3. k = q
        <3>1. PICK x : Has(l, x) /\ Enters(x, t, k)
            BY <1>2, EntryHas
        <3>2. x = PeriodIs(t, q)
            BY <3>1, LogSays DEF Enters, Ends
        <3> QED BY <3>1, <3>2, PartsAre DEF Enters
    <2> QED BY <1>2, <2>2, <2>3 DEF Says, Coming
<1>3. ~Ends(m, t) \/ Advances(t, u, u2, r, p, q, q2, m) \/ Begins(t, u, u2, d, r, p, q, q2, l, a, m)
    BY DEF About, Stays, Passes, Others, Mine, Ends
<1>4. CASE Advances(t, u, u2, r, p, q, q2, m)
    <2>1. q2 = q + 1 /\ m = PeriodIs(t, q2) /\ m.value = q2
        BY <1>4, PartsAre DEF Advances
    <2>2. ~Arrived(t, q2, sc, l)
        <3>1. SUFFICES ASSUME NEW x, Has(l, x), Arrives(x, t, q2) PROVE FALSE
            BY <1>1, <2>1 DEF Arrived, Arrives
        <3>2. x \in Routed
            BY <3>1, ElementsOfSeq
        <3>3. x.period = q2 /\ Said(x, t)
            BY <3>1, <3>2 DEF Routed, Arrives, Said
        <3>4. q2 <= q
            BY <3>1, <3>3 DEF Says, Bounded
        <3> QED BY <1>1, <2>1, <3>4
    <2>3. Proper(m)
        <3>1. m.sender = t /\ m.value \in Periods
            BY <2>1, PartsAre DEF Routed
        <3> QED BY <2>1, <3>1 DEF Proper
    <2>4. m.value # 0
        BY <1>1, <2>1
    <2>5. \A k \in Periods : Enters(m, t, k) => ~Arrived(t, k, sc, l)
        BY <2>1, <2>2 DEF Enters
    <2> QED BY <1>2, <2>3, <2>4, <2>5 DEF Fitting
<1>5. CASE Begins(t, u, u2, d, r, p, q, q2, l, a, m)
    <2>1. q = 0 /\ m = PeriodIs(t, 0) /\ m.value = 0 /\ m.sender = t
        BY <1>5, PartsAre DEF Begins
    <2>2. ~Arrived(t, 0, sc, l)
        BY <1>1, <1>5, <2>1 DEF Begins, Unstarted, Unaware, Arrived
    <2>3. Proper(m)
        BY <2>1, Basics DEF Proper
    <2>4. \A k \in Periods : Enters(m, t, k) => ~Arrived(t, k, sc, l)
        BY <2>1, <2>2 DEF Enters
    <2> QED BY <1>2, <2>1, <2>2, <2>3, <2>4 DEF Fitting
<1>6. CASE ~Ends(m, t)
    BY <1>2, <1>6 DEF Fitting, Enters, Ends
<1> QED BY <1>3, <1>4, <1>5, <1>6

(***************************************************************************)
(* A page that waits still does so when Route handles m.                   *)
(***************************************************************************)
LEMMA WaitsHandled ==
    ASSUME NEW s \in Subjects, NEW u \in Seq(Routed), NEW u2, NEW d \in Seq(Routed),
           NEW r \in Seq(Routed \cup {Begin, End}), NEW p \in PageOf(s), NEW c, c \in {"registered", "open"},
           NEW q \in Periods, NEW l \in Seq(Routed), Dated(l),
           NEW m \in Routed, Proper(m), Stays(s, u, u2, q, q, m) \/ u2 = u,
           NEW sc, NEW sc2, sc2[s].period = q, sc2[s].group = Group,
           NEW d2, d2 = Reached(s, d, m, c, sc2, Adding(l, m, sc2)),
           m.key = "__set_period__" /\ m.value = 0 => q = 0,
           \A t \in Subjects : Fitting(m, t, q, sc, l), Knows(s, p, sc, l),
           \A x : Has(d, x) \/ Has(r, x) => Tells(s, x, sc, l),
           Waits(s, u, d, r, p, c, q, l)
    PROVE  Waits(s, u2, d2, r, p, c, q, Adding(l, m, sc2))
<1> DEFINE l2 == Adding(l, m, sc2)
<1>1. q \in Nat /\ q # Undefined /\ sc2[s].period <= q /\ Dated(<<m>>)
    BY Basics, ProperIsDated
<1>2. \A t : Enters(m, t, q) \/ Loaded(m, t, q) \/ Arrives(m, t, q) => d2 = Append(d, m)
    BY GetsPeriod DEF Reached
<1>3. m.key = "__set_period__" /\ m.value # q => d2 = d
    BY GetsPeriod DEF Reached
<1>4. d2 \in {d, Append(d, m)}
    BY DEF Reached
<1>5. Arrival(l2, s, q) <=> Arrival(l, s, q) \/ Arrives(m, s, q)
    BY <1>1, AddingCounts
<1>6. OnTheWay(s, u, p, q, l) => OnTheWay(s, u2, p, q, l2)
    <2>1. CASE u2 = u
        BY <1>5, <2>1 DEF OnTheWay
    <2>2. CASE Stays(s, u, u2, q, q, m)
        <3>1. Arrival(u, s, q) <=> Arrives(m, s, q) \/ Arrival(u2, s, q)
            BY <2>2, HeadTailHave DEF Stays
        <3> QED BY <1>5, <3>1 DEF OnTheWay
    <2> QED BY <2>1, <2>2
<1>7. Ready(s, u2, p, q, l2)
    BY <1>6 DEF Waits, Ready
<1>8. ASSUME c = "registered", NEW x, Has(d2, x), x.key = "__set_period__" PROVE x.value = q
    <2>1. Has(d, x) \/ (x = m /\ d2 # d)
        <3>1. CASE d2 = d
            BY <1>8, <3>1
        <3>2. CASE d2 = Append(d, m) /\ d2 # d
            <4>1. Has(Append(d, m), x)
                BY <1>8, <3>2
            <4> QED BY <3>2, <4>1, HasAppend
        <3> QED BY <1>4, <3>1, <3>2
    <2> QED BY <1>3, <1>8, <2>1 DEF Waits
<1>9. ASSUME c = "open", NEW t \in Subjects
      PROVE  Follows(p.periods[t], p.loaded, p.received[q], r \o d2, l2, t, q)
    <2> DEFINE S == Routed \cup {Begin, End}
               w == r \o d
               w2 == r \o d2
               x == p.periods[t]
               e == p.loaded
               b == p.received[q]
    <2>1. Follows(x, e, b, w, l, t, q)
        BY <1>9 DEF Waits, Attends
    <2>2. r \in Seq(S) /\ d \in Seq(S) /\ m \in S
        <3>1. Routed \subseteq S
            OBVIOUS
        <3> QED BY <3>1, Wider
    <2> HIDE DEF S
    <2>3. w \in Seq(S)
        BY <2>2, ConcatIs
    <2>4. r \o Append(d, m) = Append(w, m)
        <3>1. Append(d, m) = d \o <<m>> /\ <<m>> \in Seq(S)
            BY <2>2, AppendIsConcat
        <3>2. Append(w, m) = w \o <<m>>
            BY <2>2, <2>3, AppendIsConcat
        <3>3. r \o (d \o <<m>>) = (r \o d) \o <<m>>
            BY <2>2, <3>1, ConcatAssociative
        <3> QED BY <3>1, <3>2, <3>3
    <2>5. w2 = w \/ w2 = Append(w, m)
        BY <1>4, <2>4
    <2>6. Enters(m, t, q) \/ Loaded(m, t, q) \/ Arrives(m, t, q) => w2 = Append(w, m)
        BY <1>2, <2>4
    <2>7. Ends(m, t) /\ m.value # q => w2 = w
        BY <1>3 DEF Ends
    <2>8. Arrives(m, t, q) /\ Entry(l, t, q) => Counts(Undefined, l, t, q)
        BY DEF Fitting
    <2>9. Enters(m, t, q) => t \notin b /\ ~Arrival(w, t, q)
        <3>1. ASSUME Enters(m, t, q) PROVE ~Arrived(t, q, sc, l)
            BY <3>1 DEF Fitting
        <3>2. t \in b => Arrived(t, q, sc, l)
            BY DEF Knows
        <3>3. ASSUME Arrival(w, t, q) PROVE Arrived(t, q, sc, l)
            <4>1. PICK y : Has(w, y) /\ Arrives(y, t, q)
                BY <3>3, EntryHas
            <4>2. Has(r, y) \/ Has(d, y)
                BY <2>2, <4>1, HasConcat
            <4> QED BY <4>1, <4>2 DEF Tells, Arrives
        <3> QED BY <3>1, <3>2, <3>3
    <2> HIDE DEF w, w2, x, e, b
    <2>10. Follows(x, e, b, w2, l2, t, q)
        BY <1>1, <2>1, <2>2, <2>3, <2>5, <2>6, <2>7, <2>8, <2>9, FollowsAdding
    <2> QED BY <2>10 DEF x, e, b, w2
<1> QED BY <1>7, <1>8, <1>9 DEF Waits, Attends

\* What is sure of s stays so when Route handles m.
LEMMA SureHandled ==
    ASSUME Paused = {}, NEW s \in Subjects, NEW u \in Seq(Routed), NEW u2, NEW d \in Seq(Routed),
           NEW r \in Seq(Routed \cup {Begin, End}), NEW p \in PageOf(s), p.out = <<>>, p.periods[s] = p.period,
           NEW c, NEW v, NEW l \in Seq(Routed), Dated(l), NEW a, NEW a2,
           NEW m \in Routed, Proper(m), NEW sc, NEW sc2, sc2[s].group = Group,
           \A t \in Subjects : sc[t].period \in Nat /\ sc2[t].period \in Nat /\ sc2[t].period >= sc[t].period,
           sc[s].period \in Periods, sc2[s].period \in Periods,
           Stage(s, u, d, r, p, c, sc[s].period, v, l, a),
           About(s, u, u2, d, r, p, sc[s].period, sc2[s].period, l, a, a2, m),
           NEW d2, d2 = Reached(s, d, m, c, sc2, Adding(l, m, sc2)),
           m.key = "__set_period__" /\ m.value = 0 => ~Arrived(m.sender, 0, sc, l),
           \A t \in Subjects : \A k \in Periods : Fitting(m, t, k, sc, l), Knows(s, p, sc, l),
           \A x : Has(d, x) \/ Has(r, x) => Tells(s, x, sc, l),
           \A t \in Subjects : Passed(sc[t].period, sc, l),
           Sure(s, u, d, r, p, c, l, a, sc)
    PROVE  Sure(s, u2, d2, r, p, c, Adding(l, m, sc2), a2, sc2)
<1> DEFINE q == sc[s].period
           q2 == sc2[s].period
           l2 == Adding(l, m, sc2)
<1>1. q \in Periods /\ q2 \in Periods /\ q \in Nat /\ q2 \in Nat /\ q # Undefined
    BY Basics
<1>2. sc2[s].period = q2 /\ sc[s].period = q
    OBVIOUS
<1>3. Stage(s, u, d, r, p, c, q, v, l, a) /\ About(s, u, u2, d, r, p, q, q2, l, a, a2, m)
    OBVIOUS
<1>4. /\ Says(s, u, d, r, p, q, l) /\ HasAnnounced(s, u, d, r, p, c, q, l, a) /\ Scripts(p, q, sc)
      /\ Passed(q, sc, l) /\ (Waiting(p, c) => Waits(s, u, d, r, p, c, q, l))
    BY DEF Sure
<1> HIDE DEF q, q2
<1>5. Dated(<<m>>) /\ d2 \in {d, Append(d, m)}
    BY ProperIsDated DEF Reached
<1>6. Says(s, u2, d2, r, p, q2, l2)
    <2>1. Unstarted(s, u, d, r, p, q, l) \/ Entry(l, s, q)
        BY <1>1, <1>3, LogSays
    <2>2. /\ About(s, u, u2, d, r, p, q, q2, l, a, a2, m) /\ Says(s, u, d, r, p, q, l) /\ Dated(<<m>>)
          /\ sc2[s].period = q2 /\ (d2 = d \/ d2 = Append(d, m)) /\ q \in Periods /\ q2 \in Periods
        BY <1>1, <1>2, <1>3, <1>4, <1>5
    <2>4. u \in Seq(Routed) /\ d \in Seq(Routed) /\ l \in Seq(Routed) /\ Dated(l) /\ p.out = <<>> /\ p \in PageOf(s) /\ s \in Subjects /\ m \in Routed
        OBVIOUS
    <2> HIDE DEF l2
    <2>3. Says(s, u2, d2, r, p, q2, Adding(l, m, sc2))
        BY <2>1, <2>2, <2>4, SaysHandled
    <2> QED BY <2>3 DEF l2
<1>7. HasAnnounced(s, u2, d2, r, p, c, q2, l2, a2)
    BY <1>1, <1>2, <1>3, <1>4, <1>5, AnnouncedHandled
<1>8. q2 = q \/ (q2 = q + 1 /\ p.ranAt = q)
    BY <1>3 DEF About, Stays, Advances, Begins, Passes
<1>9. Scripts(p, q2, sc2)
    BY <1>1, <1>4, <1>8, ScriptsHandled
<1>10. Passed(q2, sc2, l2)
    <2>1. p.ranAt = q => \A t \in Subjects : Arrived(t, q, sc, l)
        BY <1>1 DEF Knows
    <2>2. q2 = q \/ (q2 = q + 1 /\ \A t \in Subjects : Arrived(t, q, sc, l))
        BY <1>8, <2>1
    <2>3. q = sc[s].period
        BY DEF q
    <2> QED BY <1>5, <2>2, <2>3, PassedHandled
<1>11. ASSUME Waiting(p, c) PROVE Waits(s, u2, d2, r, p, c, q2, l2)
    <2>1. c \in {"registered", "open"} /\ p.ranAt = Undefined
        BY <1>11 DEF Waiting
    <2>2. q2 = q /\ (Stays(s, u, u2, q, q, m) \/ u2 = u)
        BY <1>1, <1>3, <2>1 DEF About, Stays, Advances, Begins, Passes
    <2>3. ASSUME m.key = "__set_period__", m.value = 0 PROVE q = 0
        <3>1. m.sender \in Subjects /\ ~Arrived(m.sender, 0, sc, l)
            BY <2>3 DEF Proper
        <3>2. SUFFICES ASSUME q # 0 PROVE FALSE
            OBVIOUS
        <3>3. 0 \in 0 .. q - 1
            BY <1>1, <3>2
        <3>4. (\A x \in Subjects : sc[x].period > 0) \/ Arrival(l, m.sender, 0)
            BY <1>4, <3>1, <3>3 DEF Passed
        <3> QED BY <3>1, <3>4, EntryHas DEF Arrived, Arrives
    <2>4. \A t \in Subjects : Fitting(m, t, q, sc, l)
        BY <1>1
    <2>5. sc2[s].period = q /\ Waits(s, u, d, r, p, c, q, l)
        BY <1>2, <1>4, <1>11, <2>2
    <2>6. Waits(s, u2, d2, r, p, c, q, l2)
        BY <1>1, <2>1, <2>2, <2>3, <2>4, <2>5, WaitsHandled
    <2> QED BY <2>2, <2>6
<1>12. Sure(s, u2, d2, r, p, c, l2, a2, sc2)
    BY <1>6, <1>7, <1>9, <1>10, <1>11 DEF Sure, q2
<1> QED BY <1>12

(***************************************************************************)
(* What is sure of every subject.                                          *)
(***************************************************************************)
NInv ==
    /\ RInv
    /\ \A s \in Subjects :
          Sure(s, up[s], down[s], replay[s], page[s], conn[s], log, up["admin"], scope)

\* What Route takes of s itself is about s, and has s for its sender.
LEMMA OwnAbout ==
    ASSUME NEW s \in Subjects, NEW u, NEW d, NEW r, NEW p, NEW c, NEW q \in Periods, NEW v, NEW l, NEW a,
           Stage(s, u, d, r, p, c, q, v, l, a), Linked(s, d, r, p, c), u # <<>>,
           NEW m, NEW q2, NEW v2, Takes(u, q, v, m, q2, v2)
    PROVE  /\ m.sender = s /\ m.key # "resume"
           /\ About(s, u, Tail(u), d, r, p, q, q2, l, a, a, m)
<1> DEFINE sc == [t \in {s} |-> [period |-> q2]]
<1>1. sc[s].period = q2
    OBVIOUS
<1> HIDE DEF sc
<1> DEFINE l2 == Adding(l, m, sc)
           d2 == Reached(s, d, m, c, sc, l2)
<1>2. /\ Stage(s, Tail(u), d2, r, p, c, q2, v2, l2, a)
      /\ q2 \in Periods /\ (q2 = q \/ (q2 = q + 1 /\ p.ranAt = q))
      /\ Head(u) \in Sent(s)
    BY <1>1, OwnHandled
<1>3. /\ Tail(u) \in Seq(Routed) /\ (\A x : Has(u, x) <=> x = Head(u) \/ Has(Tail(u), x))
      /\ \/ q2 = q /\ m = Head(u) /\ m.sender = s /\ m.key # "__set_period__"
         \/ q2 = q + 1 /\ m = PeriodIs(s, q + 1) /\ r = <<>> /\ p.ranAt = q /\ ~Said(Head(u), s) /\ Head(u).key # "_at_barrier"
    BY OwnIs
<1>4. CASE q2 = q /\ m = Head(u) /\ m.sender = s /\ m.key # "__set_period__"
    <2>1. Stays(s, u, Tail(u), q, q2, m)
        BY <1>4 DEF Stays
    <2>2. m.key # "resume"
        BY <1>2, <1>4, PartsAre DEF Sent, Change, PlainKeys
    <2> QED BY <1>4, <2>1, <2>2 DEF About
<1>5. CASE q2 = q + 1 /\ m = PeriodIs(s, q + 1) /\ r = <<>> /\ p.ranAt = q /\ ~Said(Head(u), s)
    <2>1. m.sender = s /\ m.key # "resume"
        BY <1>5, PartsAre
    <2>2. ~p.sync
        BY <1>5 DEF Linked
    <2>3. Advances(s, u, Tail(u), r, p, q, q2, m)
        BY <1>5, <2>2 DEF Advances
    <2> QED BY <2>1, <2>3 DEF About
<1> QED BY <1>3, <1>4, <1>5

\* Who is still to be started has not been told.
LEMMA StartIs ==
    ASSUME NEW s \in Subjects, NEW u, NEW d, NEW r, NEW p, NEW c, NEW q \in Periods, NEW v, NEW l, NEW a,
           Stage(s, u, d, r, p, c, q, v, l, a), p \in PageOf(s), Has(a, PeriodIs(s, 0))
    PROVE  q = 0 /\ Unstarted(s, u, d, r, p, q, l)
<1>1. Told(s, u, d, r, p, c, q, l, a)
    BY DEF Stage, Greeted, Settled, Leaving, Turned, Reloading
<1>2. p.sync \in BOOLEAN
    BY DEF PageOf
<1> QED BY <1>1, <1>2, ToldIs DEF Told

(***************************************************************************)
(* What Route handles of the admin starts somebody, or is not about the    *)
(* subjects.                                                               *)
(***************************************************************************)
LEMMA AdminAbout ==
    ASSUME IInv, Handle("admin"), NEW s \in Subjects
    PROVE  About(s, up[s], up'[s], down[s], replay[s], page[s], scope[s].period, scope'[s].period, log,
                 up["admin"], up'["admin"], Taken(Head(up["admin"])))
<1> DEFINE x == Head(up["admin"])
           a == up["admin"]
<1>1. /\ a # <<>> /\ a \in Seq(FromAdmin) /\ a \in Seq(Routed)
      /\ x \in Routed /\ Tail(a) \in Seq(Routed)
    BY HandleTypes, FromAdminIs, Wider DEF IInv, TypeInv
<1>2. x \in FromAdmin
    BY <1>1, HeadTailProperties
<1>3. /\ scope \in [Subjects -> [period: Periods, group: {Group}]]
      /\ up \in [Subjects \cup {"admin"} -> Seq(Routed)]
      /\ "admin" \notin Subjects
    BY Basics DEF IInv, TypeInv
<1>4. /\ scope[s].period \in Periods /\ page[s] \in PageOf(s)
      /\ Stage(s, up[s], down[s], replay[s], page[s], conn[s], scope[s].period, served[s], log, a)
    BY SubjectFits DEF Linked
<1>5. \A t \in Subjects : PeriodIs(t, 0).key = "__set_period__" /\ PeriodIs(t, 0).sender = t /\ PeriodIs(t, 0).value = 0
    BY PartsAre DEF PeriodIs, Message
<1>6. Taken(x) = x
    <2>1. \A t \in Subjects : Taken(PeriodIs(t, 0)) = PeriodIs(t, 0)
        BY TakenIs, Basics
    <2>2. x.key # "__set_period__" => Taken(x) = x
        BY <1>1, TakenRouted DEF Taken, Routed
    <2> QED BY <1>2, <2>1, <2>2 DEF FromAdmin
<1>7. /\ scope' = IF x.key = "__set_period__" THEN [scope EXCEPT ![x.sender].period = x.value] ELSE scope
      /\ x.key # "resume" => up' = [up EXCEPT !["admin"] = Tail(@)]
      /\ x.key = "resume" => up' = [[up EXCEPT !["admin"] = Tail(@)] EXCEPT !["admin"] = @ \o Resumes]
    BY <1>6, HandleTypes DEF IInv
<1>8. /\ up'[s] = up[s]
      /\ up'["admin"] = Tail(a) \/ (x.key = "resume" /\ up'["admin"] = Tail(a) \o Resumes)
    BY <1>3, <1>7
<1>9. ASSUME x # PeriodIs(s, 0)
      PROVE  Has(up'["admin"], PeriodIs(s, 0)) <=> Has(a, PeriodIs(s, 0))
    <2>1. Has(Tail(a), PeriodIs(s, 0)) <=> Has(a, PeriodIs(s, 0))
        BY <1>1, <1>9, HasHeadTail
    <2>2. Resumes \in Seq(Routed) /\ ~Has(Resumes, PeriodIs(s, 0))
        BY <1>5, ResumesAre, FromAdminIs, Wider DEF IInv
    <2>3. Has(Tail(a) \o Resumes, PeriodIs(s, 0)) <=> Has(Tail(a), PeriodIs(s, 0))
        BY <1>1, <2>2, HasConcat
    <2> QED BY <1>8, <2>1, <2>3
<1> HIDE DEF x, a
<1>10. CASE x = PeriodIs(s, 0)
    <2>1. Has(a, PeriodIs(s, 0))
        <3>1. Has(a, Head(a))
            BY <1>1, HasHeadTail
        <3> QED BY <1>10, <3>1 DEF x, a
    <2>2. scope[s].period = 0 /\ Unstarted(s, up[s], down[s], replay[s], page[s], scope[s].period, log)
        BY <1>4, <2>1, StartIs
    <2>3. scope'[s].period = 0
        BY <1>3, <1>5, <1>7, <1>10
    <2>4. Begins(s, up[s], up'[s], down[s], replay[s], page[s], scope[s].period, scope'[s].period, log, a, x)
        BY <1>8, <1>10, <2>1, <2>2, <2>3 DEF Begins
    <2> QED BY <1>6, <2>4 DEF About, x, a
<1>11. CASE x # PeriodIs(s, 0)
    <2>1. x \in Others(s) /\ scope'[s] = scope[s]
        <3>1. CASE x.key = "__resume__" \/ (x.key = "resume" /\ x.sender = "admin")
            BY <1>1, <1>3, <1>7, <3>1 DEF Others, Mine, x
        <3>2. ASSUME NEW t \in Subjects, x = PeriodIs(t, 0)
              PROVE  x \in Others(s) /\ scope'[s] = scope[s]
            <4>1. x.sender = t /\ t # s /\ x.key = "__set_period__"
                BY <1>5, <1>11, <3>2
            <4> QED BY <1>1, <1>3, <1>7, <4>1 DEF Others, Mine, x
        <3> QED BY <1>2, <3>1, <3>2 DEF FromAdmin
    <2>2. Passes(s, up[s], up'[s], scope[s].period, scope'[s].period, a, up'["admin"], x)
        BY <1>8, <1>9, <1>11, <2>1 DEF Passes
    <2> QED BY <1>6, <2>2 DEF About, x, a
<1> QED BY <1>10, <1>11

\* What Route handles of a subject is about it, and about nobody else.
LEMMA SubjectAbout ==
    ASSUME IInv, NEW n \in Subjects, Handle(n), NEW s \in Subjects
    PROVE  About(s, up[s], up'[s], down[s], replay[s], page[s], scope[s].period, scope'[s].period, log,
                 up["admin"], up'["admin"], Taken(Head(up[n])))
<1> DEFINE m == Taken(Head(up[n]))
           u == up[n]
           d == down[n]
           r == replay[n]
           p == page[n]
           c == conn[n]
           q == scope[n].period
           v == served[n]
           l == log
           a == up["admin"]
           q2 == IF m.key = "__set_period__" THEN m.value ELSE q
           v2 == IF m.key = "__set_page__" THEN PageFor(m.value) ELSE v
<1>1. /\ u # <<>> /\ m \in Routed
      /\ scope' = IF m.key = "__set_period__" THEN [scope EXCEPT ![m.sender].period = m.value] ELSE scope
      /\ m.key # "resume" => up' = [up EXCEPT ![n] = Tail(@)]
    BY HandleTypes DEF IInv
<1>2. /\ scope \in [Subjects -> [period: Periods, group: {Group}]]
      /\ up \in [Subjects \cup {"admin"} -> Seq(Routed)]
      /\ "admin" \notin Subjects
    BY Basics DEF IInv, TypeInv
<1>3. q \in Periods /\ Stage(n, u, d, r, p, c, q, v, l, a) /\ Linked(n, d, r, p, c)
    BY SubjectFits
<1>4. Takes(u, q, v, m, q2, v2)
    BY <1>1 DEF Takes
<1>5. (m.key = "__set_period__" => q2 = m.value) /\ (m.key # "__set_period__" => q2 = q)
    OBVIOUS
<1>6. u = up[n] /\ d = down[n] /\ r = replay[n] /\ p = page[n] /\ q = scope[n].period /\ l = log
      /\ a = up["admin"] /\ m = Taken(Head(up[n]))
    OBVIOUS
<1> HIDE DEF m, u, d, r, p, c, q, v, l, a, q2, v2
<1>7. m.sender = n /\ m.key # "resume" /\ About(n, u, Tail(u), d, r, p, q, q2, l, a, a, m)
    <2>1. /\ m.sender = n /\ m.key # "resume"
          /\ About(n, u, Tail(u), d, r, p, q, q2, l, a, a, m)
        BY <1>1, <1>3, <1>4, OwnAbout
    <2> QED BY <2>1
<1>8. up'["admin"] = a /\ up'[n] = Tail(u) /\ scope'[n].period = q2
    BY <1>1, <1>2, <1>5, <1>6, <1>7
<1>9. CASE s = n
    BY <1>6, <1>7, <1>8, <1>9
<1>10. CASE s # n
    <2>1. m \in Others(s)
        BY <1>1, <1>7, <1>10 DEF Others, Mine
    <2>2. scope'[s] = scope[s] /\ up'[s] = up[s]
        BY <1>1, <1>2, <1>7, <1>10
    <2>3. Passes(s, up[s], up'[s], scope[s].period, scope'[s].period, a, up'["admin"], m)
        BY <1>8, <2>1, <2>2 DEF Passes
    <2> QED BY <1>6, <2>3 DEF About
<1> QED BY <1>9, <1>10

\* What is true of s in the invariant.
LEMMA SubjectSure ==
    ASSUME NInv, NEW s \in Subjects
    PROVE  /\ RInv /\ IInv /\ up[s] \in Seq(Routed) /\ down[s] \in Seq(Routed) /\ log \in Seq(Routed)
           /\ replay[s] \in Seq(Routed \cup {Begin, End}) /\ page[s] \in PageOf(s)
           /\ page[s].out = <<>> /\ page[s].periods[s] = page[s].period
           /\ scope[s].period \in Periods /\ scope[s].period \in Nat /\ scope[s].group = Group
           /\ conn[s] \in ConnStates
           /\ Linked(s, down[s], replay[s], page[s], conn[s])
           /\ Stage(s, up[s], down[s], replay[s], page[s], conn[s], scope[s].period, served[s], log, up["admin"])
           /\ \A x : Has(down[s], x) \/ Has(replay[s], x) => Tells(s, x, scope, log)
           /\ Knows(s, page[s], scope, log)
           /\ Sure(s, up[s], down[s], replay[s], page[s], conn[s], log, up["admin"], scope)
<1>1. RInv /\ IInv /\ TypeInv
    BY DEF NInv, RInv, IInv
<1>2. up[s] \in Seq(Routed) /\ scope[s].group = Group /\ conn[s] \in ConnStates
    BY <1>1 DEF TypeInv
<1>3. /\ scope[s].period \in Periods
      /\ Stage(s, up[s], down[s], replay[s], page[s], conn[s], scope[s].period, served[s], log, up["admin"])
    BY <1>1, SubjectFits
<1>4. scope[s].period \in Nat
    BY <1>3, Basics
<1>5. page[s].out = <<>> /\ page[s].periods[s] = page[s].period
    BY <1>1, SubjectSees DEF Linked
<1>6. Sure(s, up[s], down[s], replay[s], page[s], conn[s], log, up["admin"], scope)
    BY DEF NInv
<1> QED BY <1>1, <1>2, <1>3, <1>4, <1>5, <1>6, SubjectSees

\* The log has the periods of the subjects.
LEMMA LogDated ==
    ASSUME IInv
    PROVE  /\ Dated(log)
           /\ \A t \in Subjects : \A m : Has(log, m) /\ Ends(m, t) => m = PeriodIs(t, scope[t].period)
<1>1. ASSUME NEW t \in Subjects, NEW m, Has(log, m), Ends(m, t) PROVE m = PeriodIs(t, scope[t].period)
    <2> DEFINE u == up[t]
               d == down[t]
               r == replay[t]
               p == page[t]
               c == conn[t]
               q == scope[t].period
               v == served[t]
               l == log
               a == up["admin"]
    <2>1. q \in Periods /\ Stage(t, u, d, r, p, c, q, v, l, a) /\ p \in PageOf(t)
        BY SubjectFits DEF Linked
    <2>2. Has(l, m)
        BY <1>1
    <2> HIDE DEF u, d, r, p, c, q, v, l, a
    <2>3. \A x : Has(l, x) /\ Ends(x, t) => x = PeriodIs(t, q)
        BY <2>1, LogSays
    <2> QED BY <1>1, <2>2, <2>3 DEF q
<1>2. ASSUME NEW m, Has(log, m), m.key = "__set_period__" PROVE m.period = m.value
    <2>1. m \in Routed
        BY <1>2 DEF IInv, TypeInv, Has
    <2>2. m.sender \in Subjects
        BY <1>2, <2>1 DEF Routed
    <2>3. m = PeriodIs(m.sender, scope[m.sender].period)
        BY <1>1, <1>2, <2>2 DEF Ends
    <2> QED BY <2>3, PartsAre
<1> QED BY <1>1, <1>2 DEF Dated

\* Route handles nothing that does not fit the log.
LEMMA HandleFits ==
    ASSUME NInv, NEW n \in Subjects \cup {"admin"}, Handle(n), NEW t \in Subjects
    PROVE  LET m == Taken(Head(up[n]))
           IN  /\ \A k \in Periods : Fitting(m, t, k, scope, log)
               /\ m.key = "__set_period__" /\ m.sender = t => Proper(m) /\ (m.value = 0 => ~Arrived(t, 0, scope, log))
<1> DEFINE m == Taken(Head(up[n]))
           u == up[t]
           u2 == up'[t]
           d == down[t]
           r == replay[t]
           p == page[t]
           c == conn[t]
           q == scope[t].period
           q2 == scope'[t].period
           v == served[t]
           l == log
           a == up["admin"]
           a2 == up'["admin"]
           sc == scope
<1>1. IInv
    BY DEF NInv, RInv
<1>2. m \in Routed
    BY <1>1, HandleTypes DEF IInv
<1>3. About(t, u, u2, d, r, p, q, q2, l, a, a2, m)
    BY <1>1, SubjectAbout, AdminAbout
<1>4. /\ u \in Seq(Routed) /\ p \in PageOf(t) /\ q \in Periods /\ l \in Seq(Routed) /\ sc[t].period = q
      /\ Stage(t, u, d, r, p, c, q, v, l, a)
    BY SubjectSure
<1>5. Says(t, u, d, r, p, q, l)
    BY SubjectSure DEF Sure
<1> HIDE DEF m, u, u2, d, r, p, c, q, q2, v, l, a, a2, sc
<1>6. /\ \A k \in Periods : Fitting(m, t, k, sc, l)
      /\ m.key = "__set_period__" /\ m.sender = t => Proper(m) /\ (m.value = 0 => q = 0 /\ ~Arrived(t, 0, sc, l))
    BY <1>2, <1>3, <1>4, <1>5, FittingIs
<1> QED BY <1>6 DEF m, sc, l

\* What Route handles keeps what is sure of every subject.
LEMMA HandleSure ==
    ASSUME Paused = {}, NInv, NEW n \in Subjects \cup {"admin"}, Handle(n), NEW s \in Subjects
    PROVE  Sure(s, up'[s], down'[s], replay'[s], page'[s], conn'[s], log', up'["admin"], scope')
<1> DEFINE m == Taken(Head(up[n]))
           u == up[s]
           u2 == up'[s]
           d == down[s]
           d2 == down'[s]
           r == replay[s]
           p == page[s]
           c == conn[s]
           v == served[s]
           l == log
           a == up["admin"]
           a2 == up'["admin"]
           sc == scope
           sc2 == scope'
<1>1. IInv
    BY DEF NInv, RInv
<1>2. /\ m \in Routed /\ log' = Adding(log, m, scope')
      /\ down' = [t \in Subjects |-> Reached(t, down[t], m, conn[t], scope', log')]
      /\ UNCHANGED <<replay, browsers, reloads>>
    BY <1>1, HandleTypes DEF IInv
<1>3. replay'[s] = replay[s] /\ page'[s] = page[s] /\ conn'[s] = conn[s]
    BY <1>2 DEF browsers
<1>4. d2 = Reached(s, d, m, c, sc2, Adding(l, m, sc2))
    BY <1>2
<1>5. About(s, u, u2, d, r, p, sc[s].period, sc2[s].period, l, a, a2, m)
    BY <1>1, SubjectAbout, AdminAbout
<1>6. \A t \in Subjects : sc[t].period \in Nat /\ sc2[t].period \in Nat /\ sc2[t].period >= sc[t].period
    <2>1. \A t \in Subjects : scope'[t].period >= scope[t].period
        BY <1>1, SubjectIsHandled, AdminIsHandled
    <2>2. IInv'
        BY <1>1, HandleStays
    <2>3. \A t \in Subjects : scope[t].period \in Periods /\ scope'[t].period \in Periods
        BY <1>1, <2>2 DEF IInv, TypeInv
    <2> QED BY <2>1, <2>3, Basics
<1>7. sc2[s].group = Group /\ sc[s].period \in Periods /\ sc2[s].period \in Periods
    <2>1. IInv'
        BY <1>1, HandleStays
    <2> QED BY <1>1, <2>1 DEF IInv, TypeInv
<1>8. \A t \in Subjects : \A k \in Periods : Fitting(m, t, k, sc, l)
    BY HandleFits
<1>9. Proper(m) /\ (m.key = "__set_period__" /\ m.value = 0 => ~Arrived(m.sender, 0, sc, l))
    <2>1. m.key = "__set_period__" => m.sender \in Subjects
        BY <1>2 DEF Routed
    <2>2. m.key = "__set_period__" => Proper(m) /\ (m.value = 0 => ~Arrived(m.sender, 0, sc, l))
        BY <2>1, HandleFits
    <2> QED BY <2>2 DEF Proper
<1>10. /\ u \in Seq(Routed) /\ d \in Seq(Routed) /\ r \in Seq(Routed \cup {Begin, End}) /\ p \in PageOf(s)
       /\ p.out = <<>> /\ p.periods[s] = p.period /\ l \in Seq(Routed) /\ Dated(l)
       /\ Stage(s, u, d, r, p, c, sc[s].period, v, l, a) /\ Knows(s, p, sc, l)
       /\ Sure(s, u, d, r, p, c, l, a, sc)
    BY <1>1, SubjectSure, LogDated
<1>11. \A x : Has(d, x) \/ Has(r, x) => Tells(s, x, sc, l)
    BY SubjectSure
<1>12. \A t \in Subjects : Passed(sc[t].period, sc, l)
    BY DEF NInv, Sure
<1>13. /\ log' = Adding(l, m, sc2) /\ up'[s] = u2 /\ down'[s] = d2 /\ replay'[s] = r /\ page'[s] = p
       /\ conn'[s] = c /\ up'["admin"] = a2 /\ scope' = sc2
    BY <1>2, <1>3
<1> HIDE DEF m, u, u2, d, d2, r, p, c, v, l, a, a2, sc, sc2
<1>14. Sure(s, u2, d2, r, p, c, Adding(l, m, sc2), a2, sc2)
    BY <1>2, <1>4, <1>5, <1>6, <1>7, <1>8, <1>9, <1>10, <1>11, <1>12, SureHandled
<1> QED BY <1>13, <1>14

(***************************************************************************)
(* A step of the browser of s changes what is sure of s only.              *)
(***************************************************************************)
LEMMA BrowserSure ==
    ASSUME NInv, NEW s \in Subjects, UNCHANGED router,
           NEW u, NEW d, NEW r, NEW p, NEW c, Sure(s, u, d, r, p, c, log, up["admin"], scope),
           up' = [up EXCEPT ![s] = u], down' = [down EXCEPT ![s] = d], replay' = [replay EXCEPT ![s] = r],
           page' = [page EXCEPT ![s] = p], conn' = [conn EXCEPT ![s] = c]
    PROVE  \A t \in Subjects :
               Sure(t, up'[t], down'[t], replay'[t], page'[t], conn'[t], log', up'["admin"], scope')
<1>1. TypeInv /\ "admin" \notin Subjects
    BY Basics DEF NInv, RInv, IInv
<1>2. \A t \in Subjects : Sure(t, up[t], down[t], replay[t], page[t], conn[t], log, up["admin"], scope)
    BY DEF NInv
<1>3. scope' = scope /\ log' = log
    BY DEF router
<1>4. up'[s] = u /\ down'[s] = d /\ replay'[s] = r /\ page'[s] = p /\ conn'[s] = c /\ up'["admin"] = up["admin"]
    BY <1>1 DEF TypeInv
<1>5. \A t \in Subjects \ {s} :
         /\ up'[t] = up[t] /\ down'[t] = down[t] /\ replay'[t] = replay[t]
         /\ page'[t] = page[t] /\ conn'[t] = conn[t]
    BY <1>1 DEF TypeInv
<1>6. Sure(s, up'[s], down'[s], replay'[s], page'[s], conn'[s], log', up'["admin"], scope')
    BY <1>3, <1>4
<1>7. \A t \in Subjects \ {s} :
         Sure(t, up'[t], down'[t], replay'[t], page'[t], conn'[t], log', up'["admin"], scope')
    BY <1>2, <1>3, <1>4, <1>5
<1> QED BY <1>6, <1>7

\* Who has arrived at the barrier of period k is still there, or in a later period.
LEMMA ArrivedSays ==
    ASSUME NInv, NEW k \in Periods, NEW t \in Subjects, Arrived(t, k, scope, log)
    PROVE  scope[t].period > k \/ (Entry(log, t, k) /\ Arrival(log, t, k))
<1> DEFINE u == up[t]
           d == down[t]
           r == replay[t]
           p == page[t]
           c == conn[t]
           q == scope[t].period
           v == served[t]
           l == log
           a == up["admin"]
<1>1. /\ p \in PageOf(t) /\ q \in Periods /\ l \in Seq(Routed) /\ q \in Nat
      /\ Stage(t, u, d, r, p, c, q, v, l, a)
    BY SubjectSure
<1>2. Bounded(t, u, d, p, q, l)
    BY SubjectSure DEF Sure, Says
<1>3. q > k \/ Arrival(l, t, k)
    BY EntryHas DEF Arrived, Arrives
<1>4. k \in Nat
    BY Basics
<1> HIDE DEF u, d, r, p, c, q, v, l, a
<1>5. ASSUME Arrival(l, t, k) PROVE k <= q /\ Entry(l, t, q)
    BY <1>1, <1>2, <1>5, ArrivalSays
<1>6. q > k \/ (Arrival(l, t, k) /\ Entry(l, t, k))
    BY <1>1, <1>3, <1>4, <1>5
<1> QED BY <1>6 DEF q, l

\* A page that receives a message keeps what is sure.
LEMMA ReceiveSure ==
    ASSUME Paused = {}, NInv, NEW s \in Subjects, Receive(s)
    PROVE  \A t \in Subjects :
               Sure(t, up'[t], down'[t], replay'[t], page'[t], conn'[t], log', up'["admin"], scope')
<1> DEFINE u == up[s]
           d == down[s]
           r == replay[s]
           p == page[s]
           v == served[s]
           l == log
           a == up["admin"]
           sc == scope
           q == sc[s].period
           m == IF r # <<>> THEN Head(r) ELSE Head(d)
           d2 == IF r # <<>> THEN d ELSE Tail(d)
           r2 == IF r # <<>> THEN Tail(r) ELSE <<>>
           o == OnMessage(p, s, m)
<1>1. conn[s] = "open" /\ ~p.reloading /\ UNCHANGED router /\ conn' = conn
    BY DEF Receive
<1>2. /\ RInv /\ IInv /\ TypeInv /\ [replay EXCEPT ![s] = r] = replay
      /\ [down EXCEPT ![s] = d] = down /\ [conn EXCEPT ![s] = conn[s]] = conn
    BY SubjectFits DEF NInv, RInv, IInv
<1>3. /\ up' = [up EXCEPT ![s] = u \o o.out] /\ page' = [page EXCEPT ![s] = Emptied(o)]
      /\ down' = [down EXCEPT ![s] = d2] /\ replay' = [replay EXCEPT ![s] = r2]
      /\ conn' = [conn EXCEPT ![s] = "open"] /\ (r = <<>> => d # <<>>)
    <2>1. CASE r # <<>>
        BY <1>1, <1>2, <2>1 DEF Receive, Show, Emptied
    <2>2. CASE r = <<>>
        BY <1>1, <1>2, <2>2 DEF Receive, Show, Emptied
    <2> QED BY <2>1, <2>2
<1>4. /\ u \in Seq(Routed) /\ d \in Seq(Routed) /\ r \in Seq(Routed \cup {Begin, End}) /\ p \in PageOf(s)
      /\ q \in Periods /\ sc[s].period \in Periods /\ Linked(s, d, r, p, "open")
      /\ Stage(s, u, d, r, p, "open", sc[s].period, v, l, a)
      /\ Knows(s, p, sc, l) /\ Sure(s, u, d, r, p, "open", l, a, sc)
    BY <1>1, SubjectSure
<1>5. \A x : Has(d, x) \/ Has(r, x) => Tells(s, x, sc, l)
    BY SubjectSure
<1>6. Next1(d, r, m, d2, r2)
    BY <1>3 DEF Next1
<1>7. \A t \in Subjects : Arrived(t, sc[s].period, sc, l) =>
          sc[t].period > sc[s].period \/ (Entry(l, t, sc[s].period) /\ Arrival(l, t, sc[s].period))
    BY <1>4, ArrivedSays
<1>8. Becomes(s, u, d2, r2, p, o, "open", sc[s].period, v, l, a)
    <2>1. CASE r # <<>>
        <3>1. Becomes(s, u, d, Tail(r), p, OnMessage(p, s, Head(r)), "open", sc[s].period, v, l, a)
            BY <1>1, <1>4, <2>1, Received
        <3> QED BY <2>1, <3>1
    <2>2. CASE r = <<>>
        <3>1. Becomes(s, u, Tail(d), <<>>, p, OnMessage(p, s, Head(d)), "open", sc[s].period, v, l, a)
            BY <1>1, <1>3, <1>4, <2>2, Received
        <3> QED BY <2>2, <3>1
    <2> QED BY <2>1, <2>2
<1>9. o = OnMessage(p, s, m) /\ l = log /\ a = up["admin"] /\ sc = scope
    OBVIOUS
<1> HIDE DEF u, d, r, p, v, l, a, sc, q, m, d2, r2, o
<1>10. Sure(s, u \o o.out, d2, r2, Emptied(o), "open", l, a, sc)
    BY <1>1, <1>4, <1>5, <1>6, <1>7, <1>8, <1>9, SureReceived
<1> DEFINE u2 == u \o o.out
           p2 == Emptied(o)
           c2 == "open"
<1>11. Sure(s, u2, d2, r2, p2, c2, log, up["admin"], scope)
    BY <1>9, <1>10
<1>12. /\ up' = [up EXCEPT ![s] = u2] /\ page' = [page EXCEPT ![s] = p2] /\ conn' = [conn EXCEPT ![s] = c2]
       /\ down' = [down EXCEPT ![s] = d2] /\ replay' = [replay EXCEPT ![s] = r2]
    BY <1>3
<1> HIDE DEF u2, p2, c2
<1> QED BY <1>1, <1>11, <1>12, BrowserSure

\* A page gets what counts somebody in its subject's period from the log.
LEMMA LogGets ==
    ASSUME NEW s \in Subjects, NEW k \in Periods, NEW sc, sc[s].period = k, sc[s].group = Group,
           NEW l \in Seq(Routed), NEW m, Has(l, m), Proper(m), NEW t,
           Enters(m, t, k) \/ Loaded(m, t, k) \/ Arrives(m, t, k)
    PROVE  m \in ToSet(l) /\ Gets(s, sc, l, m)
<1>1. m \in Routed /\ m \in ToSet(l)
    BY DEF Has, ToSet
<1>2. m.key = "__set_period__" => m.period = m.value
    BY PartsAre DEF Proper
<1>3. m.period = k /\ m.key \in {"__set_period__", "__page_loaded__", "_at_barrier"} /\ m.group \in {0, Group}
    BY <1>1, <1>2 DEF Enters, Loaded, Arrives, Routed
<1>4. m.key = "__set_period__" => \E x \in ToSet(l) : IdenticalTo(m, x)
    <2>1. SUFFICES ASSUME m.key = "__set_period__" PROVE \E x \in ToSet(l) : IdenticalTo(m, x)
        OBVIOUS
    <2>2. m \in Msg
        BY <2>1, UpdatesAreMsg DEF Proper
    <2>3. m # NoMsg
        BY <2>2, NamesAssumption
    <2> QED BY <1>1, <2>3 DEF IdenticalTo
<1>5. m.stateUpdate => m.key = "__set_period__"
    BY <1>1, <1>3 DEF Routed, Change
<1> QED BY <1>1, <1>3, <1>4, <1>5 DEF Gets, Interests, match

\* The first mark counts nobody.
LEMMA MarkAfter ==
    ASSUME NEW S, NEW q \in Seq(S), q # <<>>, Head(q).key = "__queue_start__", NEW v, NEW t, NEW k,
           Counts(v, q, t, k)
    PROVE  Counts(v, Tail(q), t, k)
<1> DEFINE x == Tail(q)
<1>1. /\ Len(q) \in Nat /\ Len(q) >= 1 /\ DOMAIN q = 1 .. Len(q) /\ Head(q) = q[1]
      /\ x \in Seq(S) /\ DOMAIN x = 1 .. Len(q) - 1
      /\ \A i \in 1 .. Len(q) - 1 : x[i] = q[i + 1]
    BY TailIs
<1> HIDE DEF x
<1>2. ~Enters(q[1], t, k) /\ ~Loaded(q[1], t, k)
    BY <1>1 DEF Enters, Loaded
<1>3. ASSUME NEW i \in DOMAIN q, Enters(q[i], t, k) \/ Loaded(q[i], t, k)
      PROVE  i - 1 \in DOMAIN x /\ x[i - 1] = q[i]
    <2>1. i # 1
        BY <1>2, <1>3
    <2>2. i - 1 \in 1 .. Len(q) - 1 /\ (i - 1) + 1 = i
        BY <1>1, <2>1
    <2> QED BY <1>1, <2>2
<1>4. PICK j \in DOMAIN q : Loaded(q[j], t, k) /\ (v = k \/ \E i \in DOMAIN q : i < j /\ Enters(q[i], t, k))
    BY DEF Counts
<1>5. j - 1 \in DOMAIN x /\ Loaded(x[j - 1], t, k)
    BY <1>3, <1>4
<1>6. v = k \/ \E i \in DOMAIN x : i < j - 1 /\ Enters(x[i], t, k)
    <2>1. SUFFICES ASSUME NEW i \in DOMAIN q, i < j, Enters(q[i], t, k)
                   PROVE  \E i1 \in DOMAIN x : i1 < j - 1 /\ Enters(x[i1], t, k)
        BY <1>4
    <2>2. i - 1 \in DOMAIN x /\ Enters(x[i - 1], t, k)
        BY <1>3, <2>1
    <2>3. i - 1 < j - 1
        BY <1>1, <1>4, <2>1
    <2> QED BY <2>2, <2>3
<1>7. Counts(v, x, t, k)
    BY <1>5, <1>6 DEF Counts
<1> QED BY <1>7 DEF x

\* The replay counts nobody whom the log does not count.
LEMMA ReplayCounts ==
    ASSUME NEW l \in Seq(Routed), NEW K, NEW r, Replays(r, FALSE, Only(l, K)), NEW v, NEW t, NEW k,
           Counts(v, r, t, k)
    PROVE  Counts(v, l, t, k)
<1> DEFINE x == Only(l, K)
           S == Routed \cup {Begin, End}
           y == Append(x, End)
<1>1. x \in Seq(Routed) /\ (Counts(v, x, t, k) => Counts(v, l, t, k))
    BY OnlyPicks, OnlyCounts
<1>2. r = <<Begin>> \o x \o <<End>>
    BY DEF Replays
<1> HIDE DEF x
<1>3. Routed \subseteq S /\ Begin \in S /\ End \in S
    OBVIOUS
<1> HIDE DEF S
<1>4. x \in Seq(S) /\ <<Begin>> \in Seq(S) /\ <<End>> \in Seq(S) /\ x \o <<End>> = y
    BY <1>1, <1>3, Wider, OfOne, AppendIsConcat
<1>5. y \in Seq(S) /\ r = <<Begin>> \o y
    <2>1. x \o <<End>> \in Seq(S)
        BY <1>4, ConcatProperties
    <2>2. r = <<Begin>> \o (x \o <<End>>)
        BY <1>2, <1>4, ConcatAssociative
    <2> QED BY <1>4, <2>1, <2>2
<1>6. Counts(v, y, t, k) => Counts(v, x, t, k)
    <2>1. ~Loaded(End, t, k)
        BY DEF Loaded, End, Mark, Message
    <2>2. Counts(v, Append(x, End), t, k) <=> Counts(v, x, t, k) \/ (Loaded(End, t, k) /\ (v = k \/ Entry(x, t, k)))
        BY <1>3, <1>4, CountsAppend
    <2> QED BY <2>1, <2>2
<1> HIDE DEF y
<1>7. r # <<>> /\ Head(r) = Begin /\ Tail(r) = y /\ r \in Seq(S)
    <2>1. Head(<<Begin>>) = Begin /\ Tail(<<Begin>>) = <<>> /\ <<Begin>> # <<>>
        OBVIOUS
    <2>2. r # <<>> /\ Head(r) = Head(<<Begin>>) /\ Tail(r) = Tail(<<Begin>>) \o y
        BY <1>4, <1>5, <2>1, HeadOfConcat
    <2> QED BY <1>4, <1>5, <2>1, <2>2, ConcatEmptySeq, ConcatProperties
<1>8. Begin.key = "__queue_start__"
    BY DEF Begin, Mark, Message
<1>9. Counts(v, y, t, k)
    BY <1>7, <1>8, MarkAfter
<1> QED BY <1>1, <1>6, <1>9

\* A fresh page, which hears what there is to know.
LEMMA FreshHas ==
    ASSUME NEW n
    PROVE  LET p == FreshPage(n)
           IN  /\ p.period = Undefined /\ p.ranAt = Undefined /\ ~p.reloading /\ ~p.sync /\ ~p.isReload
               /\ \A k \in Periods : p.received[k] = {}
               /\ p.loaded = {} /\ \A t \in Subjects : p.periods[t] = Undefined
               /\ p.held = <<>> /\ p.queue = <<>> /\ ~p.broken /\ ~p.enabled /\ p.name = n
BY DEF FreshPage

\* The replay of the log tells a fresh page what the log says.
LEMMA SyncSure ==
    ASSUME NInv, NEW s \in Subjects, Sync(s)
    PROVE  \A t \in Subjects :
               Sure(t, up'[t], down'[t], replay'[t], page'[t], conn'[t], log', up'["admin"], scope')
<1> DEFINE u == up[s]
           d == down[s]
           p == page[s]
           l == log
           a == up["admin"]
           sc == scope
           q == sc[s].period
           K == {m \in ToSet(l) : Gets(s, sc, l, m)}
           r2 == <<Begin>> \o Only(l, K) \o <<End>>
           c2 == "open"
<1>1. conn[s] = "registered" /\ UNCHANGED router
      /\ up' = [up EXCEPT ![s] = u] /\ down' = [down EXCEPT ![s] = d] /\ replay' = [replay EXCEPT ![s] = r2]
      /\ page' = [page EXCEPT ![s] = p] /\ conn' = [conn EXCEPT ![s] = c2]
    BY SubjectFits DEF Sync, Begin, End, NInv, RInv
<1>2. /\ d \in Seq(Routed) /\ l \in Seq(Routed) /\ q \in Periods /\ p \in PageOf(s)
      /\ sc[s].group = Group /\ q # Undefined /\ sc[s].period = q
      /\ Linked(s, d, replay[s], p, "registered")
    BY <1>1, SubjectSure, Basics
<1>3. replay[s] = <<>> /\ p.period = Undefined /\ p.ranAt = Undefined /\ ~p.reloading /\ ~p.sync
      /\ p.received[q] = {} /\ p.loaded = {} /\ \A t \in Subjects : p.periods[t] = Undefined
    <2>1. replay[s] = <<>> /\ p = FreshPage(p.name) /\ p.name \in PageNames
        BY <1>2 DEF Linked, PageOf
    <2> HIDE DEF p, q
    <2> QED BY <1>2, <2>1, FreshHas
<1>4. Sure(s, u, d, <<>>, p, "registered", l, a, sc)
    BY <1>1, <1>3, SubjectSure
<1>5. \A x : Has(d, x) => Tells(s, x, sc, l)
    BY SubjectSure
<1>6. /\ Says(s, u, d, <<>>, p, q, l) /\ Scripts(p, q, sc) /\ Passed(q, sc, l)
      /\ Waits(s, u, d, <<>>, p, "registered", q, l)
    BY <1>3, <1>4 DEF Sure, Waiting
<1>7. IInv
    BY DEF NInv, RInv
<1>8. \A t \in Subjects : \A m : Has(l, m) /\ Ends(m, t) => m = PeriodIs(t, sc[t].period)
    BY <1>7, LogDated
<1>9. \A m : Has(l, m) => Proper(m)
    <2>1. SUFFICES ASSUME NEW m, Has(l, m), m.key = "__set_period__"
                   PROVE  m.sender \in Subjects /\ m.value \in Periods /\ m = PeriodIs(m.sender, m.value)
        BY DEF Proper
    <2>2. m \in Routed
        BY <1>2, <2>1 DEF Has
    <2>3. m.sender \in Subjects /\ m.value \in Periods
        BY <2>1, <2>2 DEF Routed
    <2>4. m = PeriodIs(m.sender, sc[m.sender].period)
        BY <1>8, <2>1, <2>3 DEF Ends
    <2>5. m.value = sc[m.sender].period
        BY <2>4, PartsAre
    <2> QED BY <2>3, <2>4, <2>5
<1>10. \A t \in Subjects : \A k \in Periods : Arrived(t, k, sc, l) => sc[t].period > k \/ (Entry(l, t, k) /\ Arrival(l, t, k))
    BY ArrivedSays
<1>11. \A t \in Subjects : Orderly(Undefined, {}, l, t, sc[t].period) /\ sc[t].period \in Nat
    BY SubjectSure DEF Sure, Says
<1>12. Replays(r2, FALSE, Only(l, K)) /\ r2 # <<>>
    <2>1. Replays(r2, FALSE, Only(l, K))
        BY DEF Replays
    <2>2. Only(l, K) \in Seq(Routed)
        BY <1>2, OnlyPicks
    <2> HIDE DEF K
    <2> DEFINE x == Only(l, K)
    <2>3. x \in Seq(Routed \cup {Begin, End}) /\ <<Begin>> \in Seq(Routed \cup {Begin, End}) /\ <<End>> \in Seq(Routed \cup {Begin, End})
        BY <2>2, Wider, OfOne
    <2> HIDE DEF x
    <2>4. <<Begin>> # <<>> /\ <<Begin>> \o x # <<>> /\ <<Begin>> \o x \in Seq(Routed \cup {Begin, End})
        BY <2>3, HeadOfConcat, ConcatProperties
    <2>5. (<<Begin>> \o x) \o <<End>> # <<>>
        BY <2>3, <2>4, HeadOfConcat
    <2> QED BY <2>1, <2>5 DEF x
<1>13. q \in Nat /\ \A m, t : Has(l, m) /\ (Enters(m, t, q) \/ Loaded(m, t, q) \/ Arrives(m, t, q)) => m \in K
    BY <1>2, <1>9, LogGets, Basics
<1>14. r2 = <<Begin>> \o Only(l, K) \o <<End>> /\ c2 = "open" /\ l = log /\ a = up["admin"] /\ sc = scope
    OBVIOUS
<1> HIDE DEF u, d, p, l, a, sc, q, K, r2, c2
<1>15. Attends(r2 \o d, p, q, l)
    <2>1. SUFFICES ASSUME NEW t \in Subjects PROVE Follows(p.periods[t], p.loaded, p.received[q], r2 \o d, l, t, q)
        BY DEF Attends
    <2> DEFINE j == sc[t].period
    <2>2. Keeps(l, K, t, q) /\ \A i \in DOMAIN l : Arrives(l[i], t, q) => l[i] \in K
        BY <1>13 DEF Keeps, Has
    <2>3. \A m : Has(l, m) /\ Ends(m, t) => m.value = j
        BY <1>8, PartsAre
    <2>4. Entry(l, t, q) => j = q
        BY <2>3, EntryHas DEF Enters, Ends
    <2>5. Entry(l, t, q) => Orderly(Undefined, {}, l, t, q)
        BY <1>11, <2>4
    <2>6. \A m : Has(d, m) /\ m.key = "__set_period__" => m.value = q
        BY <1>6 DEF Waits
    <2>7. ASSUME Arrival(d, t, q), Entry(l, t, q) PROVE Counts(Undefined, l, t, q)
        <3>1. PICK x : Has(d, x) /\ Arrives(x, t, q)
            BY <2>7, EntryHas
        <3>2. Arrived(t, q, sc, l)
            BY <1>5, <3>1 DEF Tells, Arrives
        <3>3. Arrival(l, t, q)
            BY <1>2, <1>10, <1>13, <2>4, <2>7, <3>2
        <3>4. Orderly(Undefined, {}, l, t, q)
            BY <2>5, <2>7
        <3> QED BY <3>3, <3>4 DEF Arrival, Orderly, CountsBefore, Counts
    <2> HIDE DEF j
    <2>8. Follows(Undefined, {}, {}, r2 \o d, l, t, q)
        BY <1>2, <1>12, <2>2, <2>3, <2>5, <2>6, <2>7, FollowsReplay
    <2> QED BY <1>3, <2>8
<1>16. Waits(s, u, d, r2, p, c2, q, l)
    BY <1>6, <1>14, <1>15 DEF Waits
<1>17. Says(s, u, d, r2, p, q, l)
    <2>1. Counts(p.period, r2, s, q) => Counts(Undefined, l, s, q)
        BY <1>2, <1>3, <1>12, ReplayCounts
    <2> QED BY <1>3, <1>6, <2>1 DEF Says, Coming
<1>18. Sure(s, u, d, r2, p, c2, l, a, sc)
    BY <1>6, <1>12, <1>16, <1>17 DEF Sure, HasAnnounced, q
<1>19. Sure(s, u, d, r2, p, c2, log, up["admin"], scope)
    BY <1>14, <1>18
<1> QED BY <1>1, <1>19, BrowserSure

(***************************************************************************)
(* Of a page that is not open little is to be sure.                        *)
(***************************************************************************)
LEMMA FreshSure ==
    ASSUME NEW s \in Subjects, NEW u, NEW d, NEW r, NEW p, NEW c, NEW l, NEW a, NEW sc, sc[s].period \in Periods,
           Sure(s, u, d, r, p, c, l, a, sc),
           NEW u2, \A m : Has(u2, m) => Has(u, m),
           NEW n, NEW w, w = FreshPage(n), w.out = <<>>,
           NEW c2, c2 # "open",
           c2 = "registered" => Waits(s, u2, <<>>, <<>>, w, c2, sc[s].period, l)
    PROVE  Sure(s, u2, <<>>, <<>>, w, c2, l, a, sc)
<1> DEFINE q == sc[s].period
<1>1. /\ w.period = Undefined /\ w.ranAt = Undefined /\ ~w.sync /\ w.held = <<>> /\ w.queue = <<>>
    BY FreshHas
<1>2. q # Undefined /\ Says(s, u, d, r, p, q, l) /\ Passed(q, sc, l)
    BY Basics DEF Sure
<1> HIDE DEF q
<1>3. \A x : ~Mail(w, x)
    BY <1>1, HasOne DEF Mail
<1>4. Bounded(s, u2, <<>>, w, q, l)
    BY <1>2, <1>3, HasOne DEF Says, Bounded
<1>5. Coming(s, u2, <<>>, <<>>, w, q) => Coming(s, u, d, r, p, q)
    BY <1>1, <1>3, OneHave DEF Coming
<1>6. Says(s, u2, <<>>, <<>>, w, q, l)
    BY <1>2, <1>4, <1>5 DEF Says
<1>7. Scripts(w, q, sc)
    BY <1>1, <1>2 DEF Scripts
<1>8. HasAnnounced(s, u2, <<>>, <<>>, w, c2, q, l, a)
    BY DEF HasAnnounced
<1>9. Waiting(w, c2) => Waits(s, u2, <<>>, <<>>, w, c2, q, l)
    BY DEF Waiting, q
<1> QED BY <1>2, <1>6, <1>7, <1>8, <1>9 DEF Sure, q

\* A page that is loaded,
LEMMA LoadSure ==
    ASSUME NInv, NEW s \in Subjects, Load(s)
    PROVE  \A t \in Subjects :
               Sure(t, up'[t], down'[t], replay'[t], page'[t], conn'[t], log', up'["admin"], scope')
<1> DEFINE u == up[s]
           n == PageServed(s)
           w == FreshPage(n)
           e == <<>>
           c2 == "loaded"
<1>1. RInv /\ IInv /\ conn[s] = "loading" /\ UNCHANGED router
    BY DEF NInv, RInv, Load
<1>2. replay[s] = e /\ down[s] = e
    BY <1>1, SubjectFits DEF Linked
<1>3. /\ up' = [up EXCEPT ![s] = u] /\ down' = [down EXCEPT ![s] = e] /\ replay' = [replay EXCEPT ![s] = e]
      /\ page' = [page EXCEPT ![s] = w] /\ conn' = [conn EXCEPT ![s] = c2]
    BY <1>1, <1>2, SubjectFits DEF Load
<1>4. /\ Sure(s, u, e, e, page[s], conn[s], log, up["admin"], scope) /\ scope[s].period \in Periods
    BY <1>2, SubjectSure
<1>5. w.out = <<>>
    BY DEF FreshPage
<1>6. c2 # "open" /\ c2 # "registered" /\ e = <<>>
    OBVIOUS
<1> HIDE DEF u, n, c2, e
<1>7. w = FreshPage(n)
    OBVIOUS
<1> HIDE DEF w
<1>8. Sure(s, u, <<>>, <<>>, w, c2, log, up["admin"], scope)
    BY <1>4, <1>5, <1>6, <1>7, FreshSure
<1>9. Sure(s, u, e, e, w, c2, log, up["admin"], scope)
    BY <1>6, <1>8
<1> QED BY <1>1, <1>3, <1>9, BrowserSure

\* one that is registered, and
LEMMA RegisterSure ==
    ASSUME NInv, NEW s \in Subjects, Register(s)
    PROVE  \A t \in Subjects :
               Sure(t, up'[t], down'[t], replay'[t], page'[t], conn'[t], log', up'["admin"], scope')
<1> DEFINE u == up[s]
           w == page[s]
           n == w.name
           q == scope[s].period
           e == <<>>
           c2 == "registered"
<1>1. RInv /\ IInv /\ conn[s] = "loaded" /\ UNCHANGED router /\ q \in Periods
    BY SubjectSure DEF Register
<1>2. replay[s] = e /\ down[s] = e /\ w = FreshPage(n)
    BY <1>1, SubjectFits DEF Linked
<1>3. /\ up' = [up EXCEPT ![s] = u] /\ down' = [down EXCEPT ![s] = e] /\ replay' = [replay EXCEPT ![s] = e]
      /\ page' = [page EXCEPT ![s] = w] /\ conn' = [conn EXCEPT ![s] = c2]
    BY <1>1, <1>2, SubjectFits DEF Register
<1>4. Sure(s, u, e, e, w, conn[s], log, up["admin"], scope) /\ scope[s].period \in Periods
    BY <1>2, SubjectSure
<1>5. w.out = <<>>
    BY SubjectSure
<1>6. c2 = "registered" /\ c2 # "open" /\ e = <<>> /\ scope[s].period = q
    OBVIOUS
<1> HIDE DEF u, n, w, c2, e, q
<1>7. Waits(s, u, <<>>, <<>>, w, c2, q, log)
    <2>1. ~w.broken /\ w.loaded = {} /\ w.received[q] = {}
        BY <1>1, <1>2, FreshHas
    <2>2. Ready(s, u, w, q, log)
        BY <2>1 DEF Ready
    <2> QED BY <1>6, <2>2, HasOne DEF Waits
<1>8. Sure(s, u, <<>>, <<>>, w, c2, log, up["admin"], scope)
    BY <1>2, <1>4, <1>5, <1>6, <1>7, FreshSure
<1>9. Sure(s, u, e, e, w, c2, log, up["admin"], scope)
    BY <1>6, <1>8
<1> QED BY <1>1, <1>3, <1>9, BrowserSure

\* one that is left keep what is sure.
LEMMA LeaveSure ==
    ASSUME NInv, NEW s \in Subjects, Leave(s)
    PROVE  \A t \in Subjects :
               Sure(t, up'[t], down'[t], replay'[t], page'[t], conn'[t], log', up'["admin"], scope')
<1> DEFINE u == up[s]
           n == "Blank"
           w == FreshPage(n)
           e == <<>>
           c2 == "loading"
<1>1. PICK k \in 0 .. Len(u) : up' = [up EXCEPT ![s] = SubSeq(u, 1, k)]
    BY DEF Leave
<1> DEFINE u2 == SubSeq(u, 1, k)
<1>2. /\ UNCHANGED router
      /\ up' = [up EXCEPT ![s] = u2] /\ down' = [down EXCEPT ![s] = e] /\ replay' = [replay EXCEPT ![s] = e]
      /\ page' = [page EXCEPT ![s] = w] /\ conn' = [conn EXCEPT ![s] = c2]
    BY <1>1 DEF Leave
<1>3. /\ Sure(s, u, down[s], replay[s], page[s], conn[s], log, up["admin"], scope)
      /\ scope[s].period \in Periods /\ u \in Seq(Routed)
    BY SubjectSure
<1>4. \A m : Has(u2, m) => Has(u, m)
    <2>1. Len(u) \in Nat /\ DOMAIN u = 1 .. Len(u) /\ \A i \in 1 .. k : u[i] \in Routed
        BY <1>3, LenProperties, ElementOfSeq
    <2>2. DOMAIN u2 = 1 .. k /\ \A i \in 1 .. k : u2[i] = u[i]
        BY <1>1, <1>3, <2>1, SubSeqProperties, LenProperties
    <2> QED BY <1>1, <2>1, <2>2 DEF Has
<1>5. w.out = <<>>
    BY DEF FreshPage
<1>6. c2 # "open" /\ c2 # "registered" /\ e = <<>> /\ w = FreshPage(n)
    OBVIOUS
<1> HIDE DEF u, n, w, c2, e, u2
<1>7. Sure(s, u2, <<>>, <<>>, w, c2, log, up["admin"], scope)
    BY <1>3, <1>4, <1>5, <1>6, FreshSure
<1>8. Sure(s, u2, e, e, w, c2, log, up["admin"], scope)
    BY <1>6, <1>7
<1> QED BY <1>2, <1>8, BrowserSure

(***************************************************************************)
(* A page that goes on with its scripts, and sends x at most, keeps what   *)
(* is sure.                                                                *)
(***************************************************************************)
LEMMA ScriptSure ==
    ASSUME NEW s \in Subjects, NEW u \in Seq(Routed), NEW d, NEW r, NEW p, NEW c, NEW l, NEW a, NEW sc,
           Sure(s, u, d, r, p, c, l, a, sc), p.ranAt # Undefined,
           NEW w, w.name = p.name, w.sync = p.sync, w.isReload = p.isReload, w.period = p.period,
           w.queue = p.queue, w.held = p.held, w.out = p.out, w.enabled = p.enabled, w.ranAt = p.ranAt,
           p.asked => w.asked,
           NEW x, ~Said(x, s), NEW u2, \A m : Has(u2, m) => Has(u, m) \/ m = x
    PROVE  Sure(s, u2, d, r, w, c, l, a, sc)
<1> DEFINE q == sc[s].period
<1>1. Says(s, u, d, r, p, q, l) /\ Scripts(p, q, sc) /\ Passed(q, sc, l)
    BY DEF Sure
<1> HIDE DEF q
<1>2. \A y : Mail(w, y) => Mail(p, y)
    BY DEF Mail
<1>3. Bounded(s, u2, d, w, q, l)
    BY <1>1, <1>2 DEF Says, Bounded
<1>4. Coming(s, u2, d, r, w, q) => Coming(s, u, d, r, p, q)
    <2>1. \A y : Arrives(y, s, q) => Said(y, s)
        BY DEF Arrives, Said
    <2> QED BY <1>2, <2>1 DEF Coming
<1>5. Says(s, u2, d, r, w, q, l)
    BY <1>1, <1>3, <1>4 DEF Says
<1>6. Scripts(w, q, sc)
    BY <1>1 DEF Scripts
<1>7. HasAnnounced(s, u2, d, r, w, c, q, l, a)
    BY DEF HasAnnounced
<1>8. ~Waiting(w, c)
    BY DEF Waiting
<1> QED BY <1>1, <1>5, <1>6, <1>7, <1>8 DEF Sure, q

\* A timeout sends what says nothing of a barrier.
LEMMA TimerSure ==
    ASSUME NInv, NEW s \in Subjects, Timer(s)
    PROVE  \A t \in Subjects :
               Sure(t, up'[t], down'[t], replay'[t], page'[t], conn'[t], log', up'["admin"], scope')
<1> DEFINE u == up[s]
           d == down[s]
           r == replay[s]
           p == page[s]
           c == conn[s]
           q == scope[s].period
           v == served[s]
           l == log
           a == up["admin"]
           m == Message("_next_period", s, p.period, 0, FALSE, 0)
           x == OnWire(m)
           u2 == Append(u, x)
           w == [p EXCEPT !.timer = FALSE]
<1>1. /\ IInv /\ p \in PageOf(s) /\ p.out = <<>> /\ u \in Seq(Routed) /\ q \in Periods
      /\ Stage(s, u, d, r, p, c, q, v, l, a) /\ Sure(s, u, d, r, p, c, l, a, scope)
    BY SubjectSure
<1>2. p.timer /\ ~p.sync /\ UNCHANGED router
    BY DEF Timer
<1>3. x.key = "_next_period"
    BY DEF OnWire, Message
<1>4. /\ up' = [up EXCEPT ![s] = u \o <<x>>] /\ page' = [page EXCEPT ![s] = w]
      /\ down' = [down EXCEPT ![s] = d] /\ replay' = [replay EXCEPT ![s] = r] /\ conn' = [conn EXCEPT ![s] = c]
    <2>1. Send(w, s, m) = [w EXCEPT !.out = <<x>>]
        <3>1. w.out = <<>> /\ ~w.sync
            BY <1>1, <1>2 DEF PageOf
        <3> HIDE DEF w
        <3>2. Send(w, s, m) = [w EXCEPT !.out = Append(w.out, x)]
            BY <3>1 DEF Send, DefaultSend
        <3> HIDE DEF x
        <3>3. Append(w.out, x) = <<x>>
            BY <3>1
        <3> QED BY <3>2, <3>3
    <2>2. [Send(w, s, m) EXCEPT !.out = <<>>] = w /\ Send(w, s, m).out = <<x>>
        BY <1>1, <2>1 DEF PageOf
    <2>3. Show(s, Send(w, s, m)) /\ UNCHANGED <<router, replay, down, conn, admin, reloads>>
        BY DEF Timer
    <2> HIDE DEF w, m, x
    <2>4. up' = [up EXCEPT ![s] = u \o <<x>>] /\ page' = [page EXCEPT ![s] = w]
        BY <2>2, <2>3 DEF Show
    <2> QED BY <1>1, <2>3, <2>4, SubjectFits
<1>5. w.name = p.name /\ w.sync = p.sync /\ w.isReload = p.isReload /\ w.period = p.period
      /\ w.queue = p.queue /\ w.held = p.held /\ w.out = p.out /\ w.enabled = p.enabled /\ w.ranAt = p.ranAt
      /\ (p.asked => w.asked)
    BY <1>1 DEF PageOf
<1> HIDE DEF u, d, r, p, c, q, v, m, x, w, l, a
<1>6. p.ranAt # Undefined
    BY <1>1, <1>2, PeriodOfPage
<1>7. ~Said(x, s)
    BY <1>3 DEF Said
<1> DEFINE u3 == u \o <<x>>
<1>8. \A y : Has(u3, y) => Has(u, y) \/ y = x
    <2> DEFINE S == Routed \cup {x}
    <2>1. u \in Seq(S) /\ <<x>> \in Seq(S)
        <3>1. Routed \subseteq S /\ x \in S
            OBVIOUS
        <3> QED BY <1>1, <3>1, Wider, OfOne
    <2> HIDE DEF S
    <2>2. \A y : Has(u \o <<x>>, y) <=> Has(u, y) \/ Has(<<x>>, y)
        BY <2>1, HasConcat
    <2> QED BY <2>2, HasOne
<1>9. up' = [up EXCEPT ![s] = u3]
    BY <1>4
<1> HIDE DEF u3
<1>10. Sure(s, u3, d, r, w, c, l, a, scope)
    BY <1>1, <1>5, <1>6, <1>7, <1>8, ScriptSure
<1>11. Sure(s, u3, d, r, w, c, log, up["admin"], scope)
    BY <1>10 DEF l, a
<1> QED BY <1>2, <1>4, <1>9, <1>11, BrowserSure

\* The end of the script sends nothing.
LEMMA DoneSure ==
    ASSUME NInv, NEW s \in Subjects, Done(s)
    PROVE  \A t \in Subjects :
               Sure(t, up'[t], down'[t], replay'[t], page'[t], conn'[t], log', up'["admin"], scope')
<1> DEFINE u == up[s]
           d == down[s]
           r == replay[s]
           p == page[s]
           c == conn[s]
           l == log
           a == up["admin"]
           x == Begin
           w == NextPeriod(p)
<1>1. /\ IInv /\ p \in PageOf(s) /\ p.out = <<>> /\ u \in Seq(Routed)
      /\ Sure(s, u, d, r, p, c, l, a, scope)
    BY SubjectSure
<1>2. p.ranAt # Undefined /\ UNCHANGED router
    BY DEF Done
<1>3. w.name = p.name /\ w.sync = p.sync /\ w.isReload = p.isReload /\ w.period = p.period
      /\ w.queue = p.queue /\ w.held = p.held /\ w.out = p.out /\ w.enabled = p.enabled /\ w.ranAt = p.ranAt
      /\ (p.asked => w.asked)
    BY <1>1 DEF NextPeriod, PageOf
<1>4. [w EXCEPT !.out = <<>>] = w
    BY <1>1, <1>3 DEF NextPeriod, PageOf
<1>5. /\ up' = [up EXCEPT ![s] = u] /\ page' = [page EXCEPT ![s] = w]
      /\ down' = [down EXCEPT ![s] = d] /\ replay' = [replay EXCEPT ![s] = r] /\ conn' = [conn EXCEPT ![s] = c]
    <2>1. Show(s, w) /\ UNCHANGED <<router, replay, down, conn, admin, reloads>>
        BY DEF Done
    <2>2. u \o w.out = u
        BY <1>1, <1>3, ConcatEmptySeq
    <2> HIDE DEF w
    <2>3. up' = [up EXCEPT ![s] = u] /\ page' = [page EXCEPT ![s] = w]
        BY <1>4, <2>1, <2>2 DEF Show
    <2> QED BY <1>1, <2>1, <2>3, SubjectFits
<1>6. ~Said(x, s)
    BY DEF Said, Begin, Mark, Message
<1> HIDE DEF u, d, r, p, c, l, a, x, w
<1>7. \A y : Has(u, y) => Has(u, y) \/ y = x
    OBVIOUS
<1>8. Sure(s, u, d, r, w, c, l, a, scope)
    BY <1>1, <1>2, <1>3, <1>6, <1>7, ScriptSure
<1>9. Sure(s, u, d, r, w, c, log, up["admin"], scope)
    BY <1>8 DEF l, a
<1> QED BY <1>2, <1>5, <1>9, BrowserSure

\* The click on "Resume" says nothing of the subjects.
LEMMA ClickSure ==
    ASSUME NInv, ClickResume, NEW s \in Subjects
    PROVE  Sure(s, up'[s], down'[s], replay'[s], page'[s], conn'[s], log', up'["admin"], scope')
<1> DEFINE x == Message("resume", "admin", 0, 0, FALSE, 0)
           a == up["admin"]
<1>1. /\ TypeInv /\ "admin" \notin Subjects /\ x \in Routed
      /\ Sure(s, up[s], down[s], replay[s], page[s], conn[s], log, a, scope)
    BY Basics, FromAdminIs DEF NInv, RInv, IInv
<1>2. a \in Seq(Routed)
    BY <1>1 DEF TypeInv
<1>3. x # PeriodIs(s, 0)
    BY PartsAre DEF Message
<1>4. up' = [up EXCEPT !["admin"] = Append(a, x)] /\ UNCHANGED <<router, replay, down, browsers, reloads>>
    BY DEF ClickResume
<1> HIDE DEF x
<1>5. up'["admin"] = Append(a, x) /\ up'[s] = up[s]
    BY <1>1, <1>4 DEF TypeInv
<1>6. Has(Append(a, x), PeriodIs(s, 0)) <=> Has(a, PeriodIs(s, 0))
    BY <1>1, <1>2, <1>3, HasAppend
<1>7. Sure(s, up[s], down[s], replay[s], page[s], conn[s], log, Append(a, x), scope)
    BY <1>1, <1>6 DEF Sure, HasAnnounced, Turns
<1>8. /\ down'[s] = down[s] /\ replay'[s] = replay[s] /\ page'[s] = page[s] /\ conn'[s] = conn[s]
      /\ log' = log /\ scope' = scope
    BY <1>4 DEF router, browsers
<1> QED BY <1>5, <1>7, <1>8

\* When the session starts everybody waits at the first barrier.
LEMMA InitSure ==
    ASSUME Init
    PROVE  NInv
<1> DEFINE n == Cardinality(Subjects)
           f == SetToSeq(Subjects)
           w == FreshPage("Wait")
           a == up["admin"]
<1>1. RInv /\ IInv
    BY InitSeen DEF RInv
<1>2. /\ n \in Nat /\ f \in [1 .. n -> Subjects] /\ \A s \in Subjects : \E i \in 1 .. n : f[i] = s
    BY Numbered
<1>3. Starts = [i \in 1 .. n |-> PeriodIs(f[i], 0)] /\ log = [i \in 1 .. n |-> Announced[f[i]]]
    BY DEF Init, Starts, PeriodIs
<1>4. a = Starts /\ \A s \in Subjects : up[s] = <<>>
    BY Basics DEF Init
<1>5. \A s \in Subjects : /\ down[s] = <<>> /\ replay[s] = <<>> /\ page[s] = w /\ conn[s] = "open"
                          /\ scope[s].period = 0
    BY DEF Init
<1> HIDE DEF n, f, w, a
<1>6. \A m : Has(log, m) => m.key = "__page_loaded__" /\ m.period = 0
    <2>1. SUFFICES ASSUME NEW m, Has(log, m) PROVE m.key = "__page_loaded__" /\ m.period = 0
        OBVIOUS
    <2>2. DOMAIN log = 1 .. n
        BY <1>3
    <2>3. PICK i \in 1 .. n : m = Announced[f[i]]
        BY <1>3, <2>1, <2>2 DEF Has
    <2>4. f[i] \in Subjects
        BY <1>2
    <2> DEFINE s == f[i]
    <2>5. s \in Subjects /\ m = Announced[s]
        BY <2>3, <2>4
    <2> HIDE DEF s
    <2>6. m = Announcement(s)
        BY <2>5, AnnouncementsAre
    <2> QED BY <2>6 DEF Announcement, Message
<1>7. \A s \in Subjects : Has(a, PeriodIs(s, 0))
    <2>1. SUFFICES ASSUME NEW s \in Subjects PROVE Has(Starts, PeriodIs(s, 0))
        BY <1>4
    <2>2. PICK i \in 1 .. n : f[i] = s
        BY <1>2
    <2>3. DOMAIN Starts = 1 .. n /\ Starts[i] = PeriodIs(f[i], 0)
        BY <1>3
    <2> QED BY <2>2, <2>3 DEF Has
<1>8. \A t, k : ~Entry(log, t, k) /\ ~Arrival(log, t, k)
    BY <1>6, EntryHas DEF Enters, Arrives
<1>9. /\ w.period = Undefined /\ w.ranAt = Undefined /\ ~w.reloading /\ ~w.sync
      /\ w.received[0] = {} /\ w.loaded = {} /\ \A t \in Subjects : w.periods[t] = Undefined
      /\ w.held = <<>> /\ w.queue = <<>> /\ ~w.broken /\ w.out = <<>>
    <2>1. 0 \in Periods
        BY Basics
    <2>2. w.out = <<>>
        BY DEF w, FreshPage
    <2> QED BY <2>1, <2>2, FreshHas DEF w
<1>10. ASSUME NEW s \in Subjects PROVE Sure(s, <<>>, <<>>, <<>>, w, "open", log, a, scope)
    <2>1. \A x : ~Mail(w, x)
        BY <1>9, HasOne DEF Mail
    <2>2. Bounded(s, <<>>, <<>>, w, 0, log)
        <3>1. \A m : ~Has(<<>>, m)
            BY HasOne
        <3>2. \A m : Has(log, m) => m.period <= 0
            BY <1>6
        <3> QED BY <2>1, <3>1, <3>2 DEF Bounded
    <2>3. ~Coming(s, <<>>, <<>>, <<>>, w, 0)
        BY <1>9, <2>1, HasOne, OneHave DEF Coming
    <2>4. Orderly(Undefined, {}, log, s, 0)
        BY <1>8 DEF Orderly, Arrival
    <2>5. Says(s, <<>>, <<>>, <<>>, w, 0, log)
        BY <2>2, <2>3, <2>4 DEF Says
    <2>6. HasAnnounced(s, <<>>, <<>>, <<>>, w, "open", 0, log, a)
        BY <1>7 DEF HasAnnounced, Turns
    <2>7. Undefined # 0
        BY Basics
    <2>8. Scripts(w, 0, scope)
        BY <1>9, <2>7 DEF Scripts
    <2>9. Passed(0, scope, log)
        BY DEF Passed
    <2>10. Ready(s, <<>>, w, 0, log)
        BY <1>9 DEF Ready
    <2>11. ASSUME NEW t \in Subjects PROVE Follows(w.periods[t], w.loaded, w.received[0], <<>> \o <<>>, log, t, 0)
        <3>1. <<>> \o <<>> = <<>> /\ DOMAIN <<>> = {}
            OBVIOUS
        <3>2. NoBack(w.periods[t], <<>>, t, 0)
            BY <3>1 DEF NoBack
        <3> QED BY <1>8, <3>1, <3>2 DEF Follows
    <2>12. Waits(s, <<>>, <<>>, <<>>, w, "open", 0, log)
        BY <2>10, <2>11 DEF Waits, Attends
    <2>13. scope[s].period = 0
        BY <1>5
    <2> QED BY <2>5, <2>6, <2>8, <2>9, <2>12, <2>13 DEF Sure
<1> QED BY <1>1, <1>4, <1>5, <1>10 DEF NInv, a

\* Every step keeps what is sure.
LEMMA SureSteps ==
    ASSUME Paused = {}, NInv, [Next]_vars, NEW t \in Subjects
    PROVE  Sure(t, up'[t], down'[t], replay'[t], page'[t], conn'[t], log', up'["admin"], scope')
<1>1. CASE \E n \in Subjects \cup {"admin"} : Handle(n)
    BY <1>1, HandleSure
<1>2. CASE \E s \in Subjects : Browser(s) \/ UserReload(s)
    <2>1. PICK s \in Subjects : Browser(s) \/ UserReload(s)
        BY <1>2
    <2>2. CASE Load(s)
        BY <2>2, LoadSure
    <2>3. CASE Register(s)
        BY <2>3, RegisterSure
    <2>4. CASE Sync(s)
        BY <2>4, SyncSure
    <2>5. CASE Receive(s)
        BY <2>5, ReceiveSure
    <2>6. CASE Timer(s)
        BY <2>6, TimerSure
    <2>7. CASE Done(s)
        BY <2>7, DoneSure
    <2>8. CASE Leave(s)
        BY <2>8, LeaveSure
    <2> QED BY <2>1, <2>2, <2>3, <2>4, <2>5, <2>6, <2>7, <2>8 DEF Browser, Reload, UserReload
<1>3. CASE ClickResume
    BY <1>3, ClickSure
<1>4. CASE UNCHANGED vars
    <2>1. /\ up' = up /\ down' = down /\ replay' = replay /\ page' = page /\ conn' = conn /\ scope' = scope
          /\ log' = log
        BY <1>4 DEF vars, router, browsers
    <2> QED BY <2>1 DEF NInv
<1> QED BY <1>1, <1>2, <1>3, <1>4 DEF Next

(***************************************************************************)
(* Without pauses, what is sure of every subject stays sure.               *)
(***************************************************************************)
LEMMA SureInvariant ==
    ASSUME ~AnyTime, Paused = {}
    PROVE  Spec => []NInv
<1>1. Init => NInv
    BY InitSure
<1>2. NInv /\ [Next]_vars => NInv'
    <2>1. SUFFICES ASSUME NInv, [Next]_vars PROVE NInv'
        OBVIOUS
    <2>2. RInv'
        <3>1. RInv
            BY <2>1 DEF NInv
        <3>2. IInv'
            BY <2>1, <3>1, NextStays DEF RInv
        <3>3. \A t \in Subjects : Seen(t, down'[t], replay'[t], page'[t], scope', log')
            BY <2>1, <3>1, SeenSteps
        <3> QED BY <3>2, <3>3 DEF RInv
    <2>3. \A t \in Subjects : Sure(t, up'[t], down'[t], replay'[t], page'[t], conn'[t], log', up'["admin"], scope')
        BY <2>1, SureSteps
    <2> QED BY <2>2, <2>3 DEF NInv
<1> QED BY <1>1, <1>2, PTL DEF Spec

-----------------------------------------------------------------------------
(* Everybody can send, and nobody is stuck                                 *)

(***************************************************************************)
(* What the scripts of a page hold back is let go in any period that       *)
(* everybody is in (EverybodyCanSend; _enable_messaging in                 *)
(* redwoodSubject.js:369), for any number of subjects, rows and reloads,   *)
(* if no period is paused.                                                 *)
(***************************************************************************)
THEOREM EverybodySends ==
    ASSUME ~AnyTime, Paused = {}
    PROVE  Spec => []EverybodyCanSend
<1>1. NInv => EverybodyCanSend
    <2>1. SUFFICES ASSUME NInv, NEW s \in Subjects, page[s].ranAt # Undefined,
                          \A t \in Subjects : scope[t].period = page[s].ranAt
                   PROVE  page[s].enabled /\ page[s].held = <<>>
        BY DEF EverybodyCanSend
    <2>2. scope[s].period = page[s].ranAt /\ scope[s].period \in Nat
        BY <2>1, SubjectSure
    <2>3. Scripts(page[s], scope[s].period, scope)
        BY <2>1, SubjectSure DEF Sure
    <2> DEFINE q == scope[s].period
    <2>4. \A t \in Subjects : ~(scope[t].period > q)
        <3>1. q \in Nat /\ \A t \in Subjects : scope[t].period = q
            BY <2>1, <2>2
        <3> HIDE DEF q
        <3>2. ASSUME NEW t \in Subjects PROVE ~(scope[t].period > q)
            <4>1. scope[t].period = q /\ q \in Nat
                BY <3>1
            <4> QED BY <4>1
        <3> QED BY <3>2
    <2> QED BY <2>2, <2>3, <2>4 DEF Scripts
<1>2. Spec => []NInv
    BY SureInvariant
<1> QED BY <1>1, <1>2, PTL

\* With nothing under way a subject is settled.
LEMMA QuietSettles ==
    ASSUME NEW s \in Subjects, NEW p, NEW q \in Periods, NEW v, NEW l,
           Stage(s, <<>>, <<>>, <<>>, p, "open", q, v, l, <<>>), ~p.reloading
    PROVE  p.name = PageFor(q) /\ p.period = q /\ p.ranAt \in {Undefined, q} /\ (p.timer <=> p.asked)
<1>1. \A m, A, B : ~One(<<>>, m, A, B)
    BY OneHead
<1>2. \A m : ~Has(<<>>, m)
    BY HasOne
<1>3. Settled(s, <<>>, <<>>, <<>>, p, "open", q, v, l, <<>>)
    BY <1>1, <1>2 DEF Stage, Told, Greeted, Leaving, Turned, Reloading
<1> QED BY <1>3 DEF Settled

(***************************************************************************)
(* What is sure of a subject when nothing is under way: it has started the *)
(* last page, or it waits, is counted, and is at the barrier as soon as    *)
(* its page has counted everybody.                                         *)
(***************************************************************************)
AtRest(s, p, q, l) ==
    /\ p.ranAt = Undefined /\ Counts(Undefined, l, s, q)
    /\ \A t \in Subjects : Follows(p.periods[t], p.loaded, p.received[q], <<>>, l, t, q)
    /\ \E t \in Subjects : t \notin p.received[q]
    /\ p.loaded = Subjects => Arrival(l, s, q)

\* A subject that nothing is on its way from or to is at rest or on the last page.
LEMMA QuietRests ==
    ASSUME NEW s \in Subjects, NEW p, NEW q \in Periods, NEW v, NEW l, NEW sc, sc[s].period = q,
           Stage(s, <<>>, <<>>, <<>>, p, "open", q, v, l, <<>>), Linked(s, <<>>, <<>>, p, "open"),
           ~p.reloading, ~p.timer, ~(p.name = "Start" /\ p.ranAt # Undefined /\ ~p.asked),
           Sure(s, <<>>, <<>>, <<>>, p, "open", l, <<>>, sc)
    PROVE  \/ p.ranAt = q /\ q = Rows + 1 /\ p.name = "Finish"
           \/ AtRest(s, p, q, l)
<1>1. p.name = PageFor(q) /\ p.period = q /\ p.ranAt \in {Undefined, q} /\ ~p.asked
    BY QuietSettles
<1>2. q \in Nat /\ q # Undefined /\ q <= Rows + 1 /\ Rows \in Nat
    BY Basics, PeriodsAssumption DEF Periods
<1>3. /\ HasAnnounced(s, <<>>, <<>>, <<>>, p, "open", q, l, <<>>) /\ Scripts(p, q, sc)
      /\ Waiting(p, "open") => Waits(s, <<>>, <<>>, <<>>, p, "open", q, l)
    BY DEF Sure
<1>4. CASE p.ranAt = q
    <2>1. p.name # "Wait" /\ p.name # "Start"
        BY <1>1, <1>2, <1>3, <1>4 DEF Scripts
    <2> QED BY <1>1, <1>2, <1>4, <2>1 DEF PageFor
<1>5. CASE p.ranAt = Undefined
    <2>1. ~Turns(s, <<>>, <<>>, p, <<>>)
        BY HasOne DEF Turns
    <2>2. Counts(Undefined, l, s, q)
        BY <1>3, <1>5, <2>1, OneHave DEF HasAnnounced
    <2>3. Waits(s, <<>>, <<>>, <<>>, p, "open", q, l)
        BY <1>3, <1>5 DEF Waiting
    <2>4. Ready(s, <<>>, p, q, l) /\ Attends(<<>> \o <<>>, p, q, l)
        BY <2>3 DEF Waits
    <2>5. <<>> \o <<>> = <<>>
        OBVIOUS
    <2>6. ASSUME p.loaded = Subjects PROVE Arrival(l, s, q)
        <3>1. p.enabled /\ OnTheWay(s, <<>>, p, q, l)
            BY <2>4, <2>6 DEF Ready
        <3>2. p.held = <<>> /\ p.out = <<>> /\ ~p.sync
            BY <1>3, <3>1 DEF Scripts, Linked
        <3>3. \A x : ~Posts(p, x)
            BY <3>2, HasOne DEF Posts
        <3> QED BY <3>1, <3>3, OneHave DEF OnTheWay
    <2>7. \A t \in Subjects : Follows(p.periods[t], p.loaded, p.received[q], <<>>, l, t, q)
        BY <2>4, <2>5 DEF Attends
    <2> QED BY <1>5, <2>2, <2>4, <2>6, <2>7 DEF AtRest, Ready
<1> QED BY <1>1, <1>4, <1>5

\* When all is quiet, this is true of every subject.
LEMMA QuietSubject ==
    ASSUME NInv, Quiet, NEW s \in Subjects
    PROVE  LET p == page[s]
               q == scope[s].period
           IN  /\ p.loaded \subseteq Subjects /\ q \in Periods /\ q \in Nat
               /\ Passed(q, scope, log)
               /\ \/ /\ p.ranAt = q /\ q = Rows + 1 /\ p.name = "Finish"
                     /\ \A t \in Subjects : Arrived(t, q, scope, log)
                  \/ AtRest(s, p, q, log)
<1> DEFINE u == up[s]
           d == down[s]
           r == replay[s]
           p == page[s]
           c == conn[s]
           q == scope[s].period
           v == served[s]
           a == up["admin"]
<1>1. u = <<>> /\ d = <<>> /\ r = <<>> /\ c = "open" /\ a = <<>>
    <2>1. DOMAIN up = Subjects \cup {"admin"}
        BY SubjectSure DEF IInv, TypeInv
    <2> QED BY <2>1 DEF Quiet
<1>2. /\ p \in PageOf(s) /\ q \in Periods /\ q \in Nat /\ Linked(s, d, r, p, c)
      /\ Stage(s, u, d, r, p, c, q, v, log, a) /\ Knows(s, p, scope, log)
      /\ Sure(s, u, d, r, p, c, log, a, scope)
    BY SubjectSure
<1>3. ~p.reloading /\ ~p.timer /\ ~(p.name = "Start" /\ p.ranAt # Undefined /\ ~p.asked)
    BY DEF Quiet
<1>4. Passed(q, scope, log)
    BY <1>2 DEF Sure
<1>5. p.loaded \subseteq Subjects
    BY <1>2 DEF PageOf
<1>6. scope[s].period = q
    OBVIOUS
<1> HIDE DEF u, d, r, p, c, q, v, a
<1>7. /\ Stage(s, <<>>, <<>>, <<>>, p, "open", q, v, log, <<>>) /\ Linked(s, <<>>, <<>>, p, "open")
      /\ Sure(s, <<>>, <<>>, <<>>, p, "open", log, <<>>, scope)
    BY <1>1, <1>2
<1>8. (p.ranAt = q /\ q = Rows + 1 /\ p.name = "Finish") \/ AtRest(s, p, q, log)
    BY <1>2, <1>3, <1>6, <1>7, QuietRests
<1>9. ASSUME p.ranAt = q, q = Rows + 1
      PROVE  \A t \in Subjects : Arrived(t, q, scope, log)
    <2>1. q \notin Paused /\ q # Undefined
        <3>1. Rows \in Nat /\ Rows + 1 \notin 1 .. Rows
            BY PeriodsAssumption
        <3> QED BY <1>2, <1>9, <3>1, PeriodsAssumption, Basics
    <2> QED BY <1>2, <1>9, <2>1 DEF Knows
<1>10. /\ p.loaded \subseteq Subjects /\ q \in Periods /\ q \in Nat
       /\ Passed(q, scope, log)
       /\ \/ /\ p.ranAt = q /\ q = Rows + 1 /\ p.name = "Finish"
             /\ \A t \in Subjects : Arrived(t, q, scope, log)
          \/ AtRest(s, p, q, log)
    BY <1>2, <1>4, <1>5, <1>8, <1>9
<1> QED BY <1>10 DEF p, q

\* Who waits with everybody knows that everybody is at the barrier.
LEMMA AtRestTogether ==
    ASSUME NEW p \in [Subjects -> {page[t] : t \in Subjects}], NEW k, k # Undefined, NEW l,
           \A t \in Subjects : AtRest(t, p[t], k, l) /\ p[t].loaded \subseteq Subjects
    PROVE  \A t \in Subjects : Arrival(l, t, k)
<1>1. ASSUME NEW s \in Subjects PROVE Arrival(l, s, k)
    <2>1. ASSUME NEW t \in Subjects PROVE t \in p[s].loaded
        <3> DEFINE v == p[s].periods[t]
                   e == p[s].loaded
                   b == p[s].received[k]
        <3>1. Counts(Undefined, l, t, k)
            BY DEF AtRest
        <3>2. Entry(l, t, k)
            BY <3>1, CountsEntered
        <3>3. Follows(v, e, b, <<>>, l, t, k)
            BY DEF AtRest
        <3> HIDE DEF v, e, b
        <3>4. t \in e \/ Counts(v, <<>>, t, k)
            BY <3>1, <3>2, <3>3 DEF Follows
        <3> QED BY <3>4, OneHave DEF e
    <2>2. p[s].loaded = Subjects
        BY <2>1
    <2> QED BY <2>2 DEF AtRest
<1> QED BY <1>1

(***************************************************************************)
(* If some subject is at rest, take the least period that one is in.       *)
(* Everybody has been at its barrier: who is further has passed it, who    *)
(* has started the last page knows that everybody was there, and if all    *)
(* are at rest in that period they have counted each other.  But then the  *)
(* barrier is open.                                                        *)
(***************************************************************************)
LEMMA NobodyRests ==
    ASSUME NInv, Quiet, NEW s \in Subjects
    PROVE  ~AtRest(s, page[s], scope[s].period, log)
<1>1. SUFFICES ASSUME AtRest(s, page[s], scope[s].period, log) PROVE FALSE
    OBVIOUS
<1> DEFINE Q(t) == scope[t].period
           R(t) == AtRest(t, page[t], Q(t), log)
           T == {Q(t) : t \in {x \in Subjects : R(x)}}
<1>2. \A t \in Subjects : Q(t) \in Nat /\ Q(t) \in Periods
    BY QuietSubject
<1>3. T \in SUBSET Nat /\ T # {}
    BY <1>1, <1>2
<1>4. PICK k \in T : \A j \in T : k <= j
    BY <1>3, Least
<1>5. PICK x \in Subjects : R(x) /\ Q(x) = k
    BY <1>4
<1>6. k \in Nat /\ k \in Periods /\ k # Undefined
    BY <1>2, <1>5, Basics
<1>7. ASSUME NEW t \in Subjects, Q(t) < k
      PROVE  FALSE
    <2>1. ~R(t)
        <3>1. R(t) => Q(t) \in T
            OBVIOUS
        <3> QED BY <1>2, <1>4, <1>6, <1>7, <3>1
    <2>2. Q(t) = Rows + 1
        BY <2>1, QuietSubject
    <2>3. k <= Rows + 1 /\ Rows \in Nat
        BY <1>6, PeriodsAssumption DEF Periods
    <2> QED BY <1>6, <1>7, <2>2, <2>3
<1>8. \A t \in Subjects : Arrival(log, t, k)
    <2>1. CASE \E t \in Subjects : Q(t) > k
        <3>1. PICK t \in Subjects : Q(t) > k
            BY <2>1
        <3>2. Passed(Q(t), scope, log)
            BY QuietSubject
        <3>3. k \in 0 .. Q(t) - 1
            BY <1>2, <1>6, <3>1
        <3>4. ~(Q(x) > k)
            BY <1>5, <1>6
        <3>5. ~(\A y \in Subjects : scope[y].period > k)
            BY <3>4
        <3> QED BY <3>2, <3>3, <3>5 DEF Passed
    <2>2. CASE \A t \in Subjects : ~(Q(t) > k)
        <3>1. \A t \in Subjects : Q(t) = k
            <4>1. ASSUME NEW t \in Subjects PROVE Q(t) = k
                <5>1. ~(Q(t) < k) /\ ~(Q(t) > k) /\ Q(t) \in Nat
                    BY <1>2, <1>7, <2>2
                <5> HIDE DEF Q
                <5> QED BY <1>6, <5>1
            <4> QED BY <4>1
        <3>2. CASE \E t \in Subjects : ~R(t)
            <4>1. PICK t \in Subjects : ~R(t)
                BY <3>2
            <4>2. \A y \in Subjects : Arrived(y, Q(t), scope, log)
                BY <4>1, QuietSubject
            <4>3. \A y \in Subjects : Arrived(y, k, scope, log)
                BY <3>1, <4>2
            <4>4. \A y \in Subjects : ~(scope[y].period > k)
                BY <2>2
            <4> QED BY <1>6, <4>3, <4>4, ArrivedSays
        <3>3. CASE \A t \in Subjects : R(t)
            <4> DEFINE p == [t \in Subjects |-> page[t]]
            <4>1. p \in [Subjects -> {page[t] : t \in Subjects}]
                OBVIOUS
            <4>2. \A t \in Subjects : AtRest(t, page[t], k, log)
                BY <3>1, <3>3
            <4>3. \A t \in Subjects : page[t].loaded \subseteq Subjects
                BY QuietSubject
            <4>4. \A t \in Subjects : p[t] = page[t]
                OBVIOUS
            <4> HIDE DEF p
            <4>5. \A t \in Subjects : AtRest(t, p[t], k, log) /\ p[t].loaded \subseteq Subjects
                BY <4>2, <4>3, <4>4
            <4> QED BY <1>6, <4>1, <4>5, AtRestTogether
        <3> QED BY <3>2, <3>3
    <2> QED BY <2>1, <2>2
<1>9. AtRest(x, page[x], k, log)
    BY <1>5
<1>10. ASSUME NEW t \in Subjects PROVE t \in page[x].received[k]
    <2> DEFINE v == page[x].periods[t]
               e == page[x].loaded
               b == page[x].received[k]
    <2>1. Follows(v, e, b, <<>>, log, t, k)
        BY <1>9 DEF AtRest
    <2> HIDE DEF v, e, b
    <2>2. t \in b \/ Arrival(<<>>, t, k)
        BY <1>8, <2>1 DEF Follows
    <2> QED BY <2>2, OneHave DEF b
<1> QED BY <1>9, <1>10 DEF AtRest

(***************************************************************************)
(* When nothing is under way and nobody has anything to do, everybody has  *)
(* started the last page (NobodyIsStuck): no barrier waits for who has     *)
(* passed it, and the replay of the log brings every page to its place;    *)
(* for any number of subjects, rows and reloads, if no period is paused.   *)
(***************************************************************************)
THEOREM NobodyGetsStuck ==
    ASSUME ~AnyTime, Paused = {}
    PROVE  Spec => []NobodyIsStuck
<1>1. ASSUME NInv, Quiet, NEW s \in Subjects
      PROVE  page[s].name = "Finish" /\ page[s].ranAt = Rows + 1
    BY <1>1, QuietSubject, NobodyRests
<1>2. NInv => NobodyIsStuck
    BY <1>1 DEF NobodyIsStuck
<1>3. Spec => []NInv
    BY SureInvariant
<1> QED BY <1>2, <1>3, PTL
=============================================================================
