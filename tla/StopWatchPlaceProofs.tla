------------------------ MODULE StopWatchPlaceProofs ------------------------
(***************************************************************************)
(* That a page of StopWatch which has handled the log is at the tick that  *)
(* the log says, for any number of subjects and ticks, through pauses and  *)
(* reloads.                                                                *)
(*                                                                         *)
(* Every page is compared with the part of the log that it has handled.    *)
(* The delicate page is one whose log is replayed to it: it must come to   *)
(* every tick that it announced in its earlier lives by the end of the     *)
(* replay, and be at the barrier again if it was.  It does, because        *)
(* whoever announces a tick does so with everybody past the tick before    *)
(* and no pause of its own open, in a part of the log that is replayed.    *)
(***************************************************************************)
EXTENDS StopWatchProofs

-----------------------------------------------------------------------------
(* The first messages of the log                                           *)

\* The first n messages of l.
Part(l, n) == SubSeq(l, 1, n)

LEMMA PartIs ==
    ASSUME NEW l \in Seq(WatchMsg), NEW n \in 0 .. Len(l)
    PROVE  /\ Part(l, n) \in Seq(WatchMsg) /\ Len(Part(l, n)) = n /\ DOMAIN Part(l, n) = 1 .. n
           /\ \A i \in 1 .. n : Part(l, n)[i] = l[i]
<1>1. \A i \in 1 .. n : l[i] \in WatchMsg
    BY ElementOfSeq
<1>2. /\ Part(l, n) \in Seq(WatchMsg)
      /\ Len(Part(l, n)) = IF 1 <= n THEN n - 1 + 1 ELSE 0
      /\ \A i \in 1 .. n - 1 + 1 : Part(l, n)[i] = l[1 + i - 1]
    BY <1>1, SubSeqProperties DEF Part
<1>3. Len(Part(l, n)) = n
    BY <1>2
<1>4. ASSUME NEW i \in 1 .. n PROVE Part(l, n)[i] = l[i]
    <2>1. i \in 1 .. n - 1 + 1 /\ 1 + i - 1 = i
        OBVIOUS
    <2> QED BY <1>2, <2>1
<1> QED BY <1>2, <1>3, <1>4, LenProperties

LEMMA PartIsAll ==
    ASSUME NEW l \in Seq(WatchMsg)
    PROVE  Part(l, Len(l)) = l /\ Len(l) \in Nat
BY SubSeqFull, LenProperties DEF Part

LEMMA PartOfAppend ==
    ASSUME NEW l \in Seq(WatchMsg), NEW m \in WatchMsg, NEW n \in 0 .. Len(l)
    PROVE  Part(Append(l, m), n) = Part(l, n)
<1>1. /\ Append(l, m) \in Seq(WatchMsg) /\ Len(Append(l, m)) = Len(l) + 1 /\ Len(l) \in Nat
      /\ \A i \in 1 .. Len(l) : Append(l, m)[i] = l[i]
    BY AppendProperties, LenProperties
<1>2. n \in 0 .. Len(Append(l, m))
    BY <1>1
<1>3. /\ Part(Append(l, m), n) \in Seq(WatchMsg) /\ Len(Part(Append(l, m), n)) = n
      /\ \A i \in 1 .. n : Part(Append(l, m), n)[i] = Append(l, m)[i]
    BY <1>1, <1>2, PartIs
<1>4. /\ Part(l, n) \in Seq(WatchMsg) /\ Len(Part(l, n)) = n
      /\ \A i \in 1 .. n : Part(l, n)[i] = l[i]
    BY PartIs
<1>5. \A i \in 1 .. n : Append(l, m)[i] = l[i]
    BY <1>1
<1> HIDE DEF Part
<1> QED BY <1>3, <1>4, <1>5, SeqEqual

LEMMA PartOfPart ==
    ASSUME NEW l \in Seq(WatchMsg), NEW b \in 0 .. Len(l), NEW a \in 0 .. b
    PROVE  Part(Part(l, b), a) = Part(l, a)
<1>1. /\ Part(l, b) \in Seq(WatchMsg) /\ Len(Part(l, b)) = b
      /\ \A i \in 1 .. b : Part(l, b)[i] = l[i]
    BY PartIs
<1>2. /\ Part(Part(l, b), a) \in Seq(WatchMsg) /\ Len(Part(Part(l, b), a)) = a
      /\ \A i \in 1 .. a : Part(Part(l, b), a)[i] = Part(l, b)[i]
    BY <1>1, PartIs
<1>3. a \in 0 .. Len(l)
    BY LenProperties
<1>4. /\ Part(l, a) \in Seq(WatchMsg) /\ Len(Part(l, a)) = a
      /\ \A i \in 1 .. a : Part(l, a)[i] = l[i]
    BY <1>3, PartIs
<1>5. \A i \in 1 .. a : Part(l, b)[i] = l[i]
    BY <1>1
<1> QED BY <1>2, <1>4, <1>5, SeqEqual

LEMMA PartNext ==
    ASSUME NEW l \in Seq(WatchMsg), NEW n \in 0 .. Len(l) - 1
    PROVE  /\ Part(l, n + 1) = Append(Part(l, n), l[n + 1]) /\ l[n + 1] \in WatchMsg
           /\ n + 1 \in DOMAIN l /\ n \in 0 .. Len(l) /\ n + 1 \in 0 .. Len(l)
<1>1. Len(l) \in Nat /\ DOMAIN l = 1 .. Len(l)
    BY LenProperties
<1>2. n + 1 \in DOMAIN l /\ n \in 0 .. Len(l) /\ n + 1 \in 0 .. Len(l)
    BY <1>1
<1>3. l[n + 1] \in WatchMsg
    BY <1>1, <1>2, ElementOfSeq
<1> DEFINE m == l[n + 1]
           p == Part(l, n)
<1>4. p \in Seq(WatchMsg) /\ Len(p) = n /\ \A i \in 1 .. n : p[i] = l[i]
    BY <1>2, PartIs
<1>5. /\ Part(l, n + 1) \in Seq(WatchMsg) /\ Len(Part(l, n + 1)) = n + 1
      /\ \A i \in 1 .. n + 1 : Part(l, n + 1)[i] = l[i]
    BY <1>2, PartIs
<1> HIDE DEF p
<1>6. /\ Append(p, m) \in Seq(WatchMsg) /\ Len(Append(p, m)) = n + 1
      /\ Append(p, m)[n + 1] = m /\ \A i \in 1 .. n : Append(p, m)[i] = p[i]
    BY <1>3, <1>4, AppendProperties
<1>7. ASSUME NEW i \in 1 .. n + 1 PROVE Append(p, m)[i] = l[i]
    <2>1. i \in 1 .. n \/ i = n + 1
        OBVIOUS
    <2> QED BY <1>4, <1>6, <2>1
<1>8. Part(l, n + 1) = Append(p, m)
    BY <1>5, <1>6, <1>7, SeqEqual
<1> QED BY <1>2, <1>3, <1>8 DEF p

LEMMA ArrivedPart ==
    ASSUME NEW l \in Seq(WatchMsg), NEW n \in 0 .. Len(l)
    PROVE  /\ \A s, k : Arrived(Part(l, n), s, k) => Arrived(l, s, k)
           /\ \A k : Reached(Part(l, n), k) => Reached(l, k)
<1>1. /\ DOMAIN Part(l, n) = 1 .. n /\ DOMAIN l = 1 .. Len(l) /\ Len(l) \in Nat
      /\ \A i \in 1 .. n : Part(l, n)[i] = l[i]
    BY PartIs, LenProperties
<1>2. \A i \in 1 .. n : i \in 1 .. Len(l)
    BY <1>1
<1>3. \A s, k : Arrived(Part(l, n), s, k) => Arrived(l, s, k)
    BY <1>1, <1>2 DEF Arrived
<1> QED BY <1>3 DEF Reached

\* Whoever has paused in q has not resumed since.
LEMMA PauseGrows ==
    ASSUME NEW q \in Seq(WatchMsg), NEW m \in WatchMsg, NEW s
    PROVE  EndsPaused(Append(q, m), s) <=>
               Is(m, s, "_pause_") \/ (EndsPaused(q, s) /\ ~Is(m, s, "_resume_"))
<1> DEFINE r == Append(q, m)
           P(x) == Is(x, s, "_pause_")
           R(x) == Is(x, s, "_resume_")
<1>1. /\ Len(q) \in Nat /\ DOMAIN q = 1 .. Len(q) /\ DOMAIN r = 1 .. Len(q) + 1
      /\ r[Len(q) + 1] = m /\ \A i \in 1 .. Len(q) : r[i] = q[i]
    BY AppendProperties, LenProperties
<1>2. \A i : i \in 1 .. Len(q) + 1 <=> i \in 1 .. Len(q) \/ i = Len(q) + 1
    BY <1>1
<1>3. EndsPaused(q, s) <=> \E i \in 1 .. Len(q) : P(q[i]) /\ \A j \in 1 .. Len(q) : j > i => ~R(q[j])
    BY <1>1 DEF EndsPaused
<1>4. EndsPaused(r, s) <=> \E i \in 1 .. Len(q) + 1 : P(r[i]) /\ \A j \in 1 .. Len(q) + 1 : j > i => ~R(r[j])
    BY <1>1 DEF EndsPaused
<1>5. \A i \in 1 .. Len(q) : Len(q) + 1 > i
    BY <1>1
<1>6. \A j \in 1 .. Len(q) + 1 : ~(j > Len(q) + 1)
    BY <1>1
<1> HIDE DEF r, P, R
<1>7. P(m) => EndsPaused(r, s)
    BY <1>1, <1>2, <1>4, <1>6
<1>8. EndsPaused(q, s) /\ ~R(m) => EndsPaused(r, s)
    <2> SUFFICES ASSUME EndsPaused(q, s), ~R(m) PROVE EndsPaused(r, s)
        OBVIOUS
    <2>1. PICK i \in 1 .. Len(q) : P(q[i]) /\ \A j \in 1 .. Len(q) : j > i => ~R(q[j])
        BY <1>3
    <2>2. i \in 1 .. Len(q) + 1 /\ P(r[i])
        BY <1>1, <1>2, <2>1
    <2>3. \A j \in 1 .. Len(q) + 1 : j > i => ~R(r[j])
        BY <1>1, <1>2, <2>1
    <2> QED BY <1>4, <2>2, <2>3
<1>9. EndsPaused(r, s) => P(m) \/ (EndsPaused(q, s) /\ ~R(m))
    <2> SUFFICES ASSUME EndsPaused(r, s), ~P(m) PROVE EndsPaused(q, s) /\ ~R(m)
        OBVIOUS
    <2>1. PICK i \in 1 .. Len(q) + 1 : P(r[i]) /\ \A j \in 1 .. Len(q) + 1 : j > i => ~R(r[j])
        BY <1>4
    <2>2. i \in 1 .. Len(q) /\ P(q[i])
        BY <1>1, <1>2, <2>1
    <2>3. ~R(m)
        BY <1>1, <1>2, <1>5, <2>1, <2>2
    <2>4. \A j \in 1 .. Len(q) : j > i => ~R(q[j])
        BY <1>1, <1>2, <2>1
    <2> QED BY <1>3, <2>2, <2>3, <2>4
<1> QED BY <1>7, <1>8, <1>9 DEF r, P, R

(***************************************************************************)
(* At some time in l everybody had arrived at every tick before k, and s   *)
(* was not paused: s could have announced k then.                          *)
(***************************************************************************)
Had(l, s, k) ==
    \E n \in 0 .. Len(l) : Reached(Part(l, n), k) /\ ~EndsPaused(Part(l, n), s)

LEMMA HadNow ==
    ASSUME NEW l \in Seq(WatchMsg), NEW s, NEW k
    PROVE  /\ Reached(l, k) /\ ~EndsPaused(l, s) => Had(l, s, k)
           /\ Had(l, s, k) => Reached(l, k)
<1>1. Part(l, Len(l)) = l /\ Len(l) \in 0 .. Len(l)
    BY PartIsAll
<1>2. \A n \in 0 .. Len(l) : Reached(Part(l, n), k) => Reached(l, k)
    BY ArrivedPart
<1> QED BY <1>1, <1>2 DEF Had

LEMMA HadGrows ==
    ASSUME NEW l \in Seq(WatchMsg), NEW m \in WatchMsg, NEW s, NEW k
    PROVE  /\ Had(l, s, k) => Had(Append(l, m), s, k)
           /\ Had(Append(l, m), s, k) =>
                 Had(l, s, k) \/ (Reached(Append(l, m), k) /\ ~EndsPaused(Append(l, m), s))
<1> DEFINE r == Append(l, m)
<1>1. r \in Seq(WatchMsg) /\ Len(r) = Len(l) + 1 /\ Len(l) \in Nat
    BY AppendProperties, LenProperties
<1>2. \A n \in 0 .. Len(l) : Part(r, n) = Part(l, n)
    BY PartOfAppend
<1>3. Part(r, Len(r)) = r
    BY <1>1, PartIsAll
<1> HIDE DEF r
<1>4. \A n \in 0 .. Len(l) : n \in 0 .. Len(r)
    BY <1>1
<1>5. \A n \in 0 .. Len(r) : n \in 0 .. Len(l) \/ n = Len(r)
    BY <1>1
<1>6. Had(l, s, k) => Had(r, s, k)
    BY <1>2, <1>4 DEF Had
<1>7. Had(r, s, k) => Had(l, s, k) \/ (Reached(r, k) /\ ~EndsPaused(r, s))
    BY <1>2, <1>3, <1>5 DEF Had
<1> QED BY <1>6, <1>7 DEF r

LEMMA HadLater ==
    ASSUME NEW l \in Seq(WatchMsg), NEW b \in 0 .. Len(l), NEW a \in 0 .. b, NEW s, NEW k,
           Had(Part(l, a), s, k)
    PROVE  Had(Part(l, b), s, k) /\ Had(l, s, k)
<1>1. a \in 0 .. Len(l) /\ Len(l) \in Nat
    BY LenProperties
<1>2. Len(Part(l, a)) = a /\ Len(Part(l, b)) = b
    BY <1>1, PartIs
<1>3. PICK n \in 0 .. a : /\ Reached(Part(Part(l, a), n), k)
                          /\ ~EndsPaused(Part(Part(l, a), n), s)
    BY <1>2 DEF Had
<1>4. n \in 0 .. b /\ n \in 0 .. Len(l)
    BY <1>1
<1>5. Part(Part(l, a), n) = Part(l, n) /\ Part(Part(l, b), n) = Part(l, n)
    BY <1>1, <1>4, PartOfPart
<1> QED BY <1>2, <1>3, <1>4, <1>5 DEF Had

-----------------------------------------------------------------------------
(* What a sequence has in it                                               *)

LEMMA RangeOfAppend ==
    ASSUME NEW q \in Seq(WatchMsg), NEW m \in WatchMsg
    PROVE  Range(Append(q, m)) = Range(q) \cup {m}
<1>1. /\ Len(q) \in Nat /\ DOMAIN q = 1 .. Len(q) /\ DOMAIN Append(q, m) = 1 .. Len(q) + 1
      /\ Append(q, m)[Len(q) + 1] = m /\ \A i \in 1 .. Len(q) : Append(q, m)[i] = q[i]
    BY AppendProperties, LenProperties
<1>2. \A i : i \in 1 .. Len(q) + 1 <=> i \in 1 .. Len(q) \/ i = Len(q) + 1
    BY <1>1
<1> QED BY <1>1, <1>2 DEF Range

LEMMA RangeOfPart ==
    ASSUME NEW q \in Seq(WatchMsg), NEW a \in 1 .. Len(q) + 1, NEW b \in 0 .. Len(q)
    PROVE  SubSeq(q, a, b) \in Seq(WatchMsg) /\ Range(SubSeq(q, a, b)) \subseteq Range(q)
<1>1. \A j \in a .. b : j \in DOMAIN q /\ q[j] \in WatchMsg
    OBVIOUS
<1>2. /\ SubSeq(q, a, b) \in Seq(WatchMsg)
      /\ DOMAIN SubSeq(q, a, b) = 1 .. (IF a <= b THEN b - a + 1 ELSE 0)
      /\ \A j \in 1 .. b - a + 1 : SubSeq(q, a, b)[j] = q[a + j - 1]
    BY <1>1, SubSeqProperties
<1>3. \A j \in DOMAIN SubSeq(q, a, b) : j \in 1 .. b - a + 1 /\ a + j - 1 \in DOMAIN q
    BY <1>2
<1> QED BY <1>2, <1>3 DEF Range

LEMMA RangeOfRemoval ==
    ASSUME NEW q \in Seq(WatchMsg), NEW m
    PROVE  Range(Without(q, m)) \subseteq Range(q)
<1> DEFINE S == {i \in 1 .. Len(q) : SameMsgId(q[i], m)}
           r == Without(q, m)
<1>1. CASE S = {}
    <2>1. r = q
        BY <1>1 DEF Without, RemoveFirstMatch
    <2> QED BY <2>1
<1>2. CASE S # {}
    <2>1. r = SubSeq(q, 1, Min(S) - 1) \o SubSeq(q, Min(S) + 1, Len(q))
        BY <1>2 DEF Without, RemoveFirstMatch, RemoveAt, SelectInSeq
    <2>2. Min(S) \in S
        <3>1. S \in SUBSET Nat
            OBVIOUS
        <3> HIDE DEF S
        <3> QED BY <1>2, <3>1, FirstNumber
    <2>3. Min(S) - 1 \in 0 .. Len(q) /\ Min(S) + 1 \in 1 .. Len(q) + 1
          /\ 1 \in 1 .. Len(q) + 1 /\ Len(q) \in 0 .. Len(q)
        BY <2>2
    <2> HIDE DEF S
    <2> DEFINE a == SubSeq(q, 1, Min(S) - 1)
               b == SubSeq(q, Min(S) + 1, Len(q))
    <2>4. a \in Seq(WatchMsg) /\ Range(a) \subseteq Range(q)
        BY <2>3, RangeOfPart
    <2>5. b \in Seq(WatchMsg) /\ Range(b) \subseteq Range(q)
        BY <2>3, RangeOfPart
    <2> HIDE DEF a, b, r
    <2>6. r = a \o b
        BY <2>1 DEF a, b
    <2> QED BY <2>4, <2>5, <2>6, RangeConcatenation DEF r
<1> QED BY <1>1, <1>2

-----------------------------------------------------------------------------
(* Pauses and resumes in turn                                              *)

\* Between two pauses of s there is a resume.
InTurn(q, s) ==
    \A i, j \in DOMAIN q :
        i < j /\ Is(q[i], s, "_pause_") /\ Is(q[j], s, "_pause_") =>
            \E k \in DOMAIN q : i < k /\ k < j /\ Is(q[k], s, "_resume_")

\* The first of the pauses and resumes of s is a pause.
Begins(q, s) ==
    \E i \in DOMAIN q : /\ Is(q[i], s, "_pause_")
                        /\ \A j \in DOMAIN q : j < i => ~Is(q[j], s, "_resume_")

LEMMA TurnAppend ==
    ASSUME NEW q \in Seq(WatchMsg), NEW m \in WatchMsg, NEW s
    PROVE  /\ InTurn(q, s) /\ (Is(m, s, "_pause_") => ~EndsPaused(q, s)) => InTurn(Append(q, m), s)
           /\ Begins(Append(q, m), s) =>
                 \/ Begins(q, s)
                 \/ Is(m, s, "_pause_") /\ \A x \in Range(q) : ~Is(x, s, "_resume_")
<1> DEFINE r == Append(q, m)
           P(x) == Is(x, s, "_pause_")
           R(x) == Is(x, s, "_resume_")
<1>1. /\ Len(q) \in Nat /\ DOMAIN q = 1 .. Len(q) /\ DOMAIN r = 1 .. Len(q) + 1
      /\ r[Len(q) + 1] = m /\ \A i \in 1 .. Len(q) : r[i] = q[i]
    BY AppendProperties, LenProperties
<1>2. \A i : i \in 1 .. Len(q) + 1 <=> i \in 1 .. Len(q) \/ i = Len(q) + 1
    BY <1>1
<1>3. /\ InTurn(q, s) <=> \A i, j \in 1 .. Len(q) : i < j /\ P(q[i]) /\ P(q[j]) =>
                              \E k \in 1 .. Len(q) : i < k /\ k < j /\ R(q[k])
      /\ InTurn(r, s) <=> \A i, j \in 1 .. Len(q) + 1 : i < j /\ P(r[i]) /\ P(r[j]) =>
                              \E k \in 1 .. Len(q) + 1 : i < k /\ k < j /\ R(r[k])
    BY <1>1 DEF InTurn
<1>4. /\ Begins(q, s) <=> \E i \in 1 .. Len(q) : P(q[i]) /\ \A j \in 1 .. Len(q) : j < i => ~R(q[j])
      /\ Begins(r, s) <=> \E i \in 1 .. Len(q) + 1 : P(r[i]) /\ \A j \in 1 .. Len(q) + 1 : j < i => ~R(r[j])
      /\ EndsPaused(q, s) <=> \E i \in 1 .. Len(q) : P(q[i]) /\ \A j \in 1 .. Len(q) : j > i => ~R(q[j])
    BY <1>1 DEF Begins, EndsPaused
<1>5. \A i \in 1 .. Len(q) : i < Len(q) + 1 /\ ~(Len(q) + 1 < i)
    BY <1>1
<1>6. \A x \in Range(q) : \E i \in 1 .. Len(q) : x = q[i]
    BY <1>1 DEF Range
<1> HIDE DEF r, P, R
<1>7. ASSUME InTurn(q, s), P(m) => ~EndsPaused(q, s) PROVE InTurn(r, s)
    <2> SUFFICES ASSUME NEW i \in 1 .. Len(q) + 1, NEW j \in 1 .. Len(q) + 1, i < j, P(r[i]), P(r[j])
                 PROVE  \E k \in 1 .. Len(q) + 1 : i < k /\ k < j /\ R(r[k])
        BY <1>3
    <2>1. i \in 1 .. Len(q)
        BY <1>1
    <2>2. CASE j \in 1 .. Len(q)
        <3>1. PICK k \in 1 .. Len(q) : i < k /\ k < j /\ R(q[k])
            BY <1>1, <1>3, <1>7, <2>1, <2>2
        <3> QED BY <1>1, <1>2, <3>1
    <2>3. CASE j = Len(q) + 1
        <3>1. ~EndsPaused(q, s) /\ P(q[i])
            BY <1>1, <1>7, <2>1, <2>3
        <3>2. PICK k \in 1 .. Len(q) : k > i /\ R(q[k])
            BY <1>4, <2>1, <3>1
        <3>3. k < j /\ i < k /\ k \in 1 .. Len(q) + 1 /\ R(r[k])
            BY <1>1, <2>3, <3>2
        <3> QED BY <3>3
    <2> QED BY <1>2, <2>2, <2>3
<1>8. ASSUME Begins(r, s) PROVE Begins(q, s) \/ (P(m) /\ \A x \in Range(q) : ~R(x))
    <2>1. PICK i \in 1 .. Len(q) + 1 : P(r[i]) /\ \A j \in 1 .. Len(q) + 1 : j < i => ~R(r[j])
        BY <1>4, <1>8
    <2>2. \A j \in 1 .. Len(q) : j < i => ~R(q[j])
        BY <1>1, <1>2, <2>1
    <2>3. CASE i \in 1 .. Len(q)
        BY <1>1, <1>4, <2>1, <2>2, <2>3
    <2>4. CASE i = Len(q) + 1
        BY <1>1, <1>5, <1>6, <2>1, <2>2, <2>4
    <2> QED BY <1>2, <2>3, <2>4
<1> QED BY <1>7, <1>8 DEF r, P, R

LEMMA TurnPart ==
    ASSUME NEW q \in Seq(WatchMsg), NEW n \in 0 .. Len(q), NEW s
    PROVE  /\ InTurn(q, s) => InTurn(Part(q, n), s)
           /\ Begins(Part(q, n), s) => Begins(q, s)
<1>1. /\ DOMAIN Part(q, n) = 1 .. n /\ DOMAIN q = 1 .. Len(q) /\ Len(q) \in Nat
      /\ \A i \in 1 .. n : Part(q, n)[i] = q[i]
    BY PartIs, LenProperties
<1>2. \A i \in 1 .. n : i \in 1 .. Len(q)
    BY <1>1
<1>3. \A j \in 1 .. n : \A k \in 1 .. Len(q) : k < j => k \in 1 .. n
    BY <1>1
<1>4. InTurn(q, s) => InTurn(Part(q, n), s)
    BY <1>1, <1>2, <1>3 DEF InTurn
<1>5. Begins(Part(q, n), s) => Begins(q, s)
    BY <1>1, <1>2, <1>3 DEF Begins
<1> QED BY <1>4, <1>5

LEMMA TurnTail ==
    ASSUME NEW q \in Seq(WatchMsg), q # << >>, NEW s, InTurn(q, s)
    PROVE  /\ InTurn(Tail(q), s)
           /\ Is(Head(q), s, "_pause_") => Begins(q, s) /\ ~Begins(Tail(q), s)
           /\ Begins(Tail(q), s) => Begins(q, s) \/ Is(Head(q), s, "_resume_")
<1> DEFINE r == Tail(q)
           P(x) == Is(x, s, "_pause_")
           R(x) == Is(x, s, "_resume_")
           N == Len(q)
<1>1. /\ N \in Nat \ {0} /\ DOMAIN q = 1 .. N /\ DOMAIN r = 1 .. N - 1 /\ Head(q) = q[1]
      /\ \A i \in 1 .. N - 1 : r[i] = q[i + 1]
    BY HeadTailProperties, LenProperties, EmptySeq
<1>2. /\ \A i \in 1 .. N - 1 : i + 1 \in 1 .. N /\ 1 < i + 1
      /\ \A j \in 1 .. N : j = 1 \/ (j - 1 \in 1 .. N - 1 /\ (j - 1) + 1 = j)
      /\ 1 \in 1 .. N /\ \A j \in 1 .. N : ~(j < 1)
    BY <1>1
<1>3. InTurn(r, s) <=> \A i, j \in 1 .. N - 1 : i < j /\ P(r[i]) /\ P(r[j]) =>
                              \E k \in 1 .. N - 1 : i < k /\ k < j /\ R(r[k])
    BY <1>1 DEF InTurn
<1>4. \A i, j \in 1 .. N : i < j /\ P(q[i]) /\ P(q[j]) => \E k \in 1 .. N : i < k /\ k < j /\ R(q[k])
    BY <1>1 DEF InTurn
<1>5. /\ Begins(q, s) <=> \E i \in 1 .. N : P(q[i]) /\ \A j \in 1 .. N : j < i => ~R(q[j])
      /\ Begins(r, s) <=> \E i \in 1 .. N - 1 : P(r[i]) /\ \A j \in 1 .. N - 1 : j < i => ~R(r[j])
    BY <1>1 DEF Begins
<1> HIDE DEF r, P, R, N
<1>6. InTurn(r, s)
    <2> SUFFICES ASSUME NEW i \in 1 .. N - 1, NEW j \in 1 .. N - 1, i < j, P(r[i]), P(r[j])
                 PROVE  \E k \in 1 .. N - 1 : i < k /\ k < j /\ R(r[k])
        BY <1>3
    <2>1. i + 1 < j + 1 /\ P(q[i + 1]) /\ P(q[j + 1]) /\ i + 1 \in 1 .. N /\ j + 1 \in 1 .. N
        BY <1>1, <1>2
    <2>2. PICK k \in 1 .. N : i + 1 < k /\ k < j + 1 /\ R(q[k])
        BY <1>4, <2>1
    <2>3. k - 1 \in 1 .. N - 1 /\ (k - 1) + 1 = k /\ i < k - 1 /\ k - 1 < j
        BY <1>1, <2>2
    <2>4. R(r[k - 1])
        BY <1>1, <2>2, <2>3
    <2> QED BY <2>3, <2>4
<1>7. P(Head(q)) => Begins(q, s)
    BY <1>1, <1>2, <1>5
<1>8. ASSUME P(Head(q)), Begins(r, s) PROVE FALSE
    <2>1. PICK i \in 1 .. N - 1 : P(r[i]) /\ \A j \in 1 .. N - 1 : j < i => ~R(r[j])
        BY <1>5, <1>8
    <2>2. P(q[1]) /\ P(q[i + 1]) /\ i + 1 \in 1 .. N /\ 1 < i + 1
        BY <1>1, <1>2, <1>8, <2>1
    <2>3. PICK k \in 1 .. N : 1 < k /\ k < i + 1 /\ R(q[k])
        BY <1>2, <1>4, <2>2
    <2>4. k - 1 \in 1 .. N - 1 /\ (k - 1) + 1 = k /\ k - 1 < i
        BY <1>1, <2>3
    <2>5. R(r[k - 1])
        BY <1>1, <2>3, <2>4
    <2> QED BY <2>1, <2>4, <2>5
<1>9. ASSUME Begins(r, s), ~R(Head(q)) PROVE Begins(q, s)
    <2>1. PICK i \in 1 .. N - 1 : P(r[i]) /\ \A j \in 1 .. N - 1 : j < i => ~R(r[j])
        BY <1>5, <1>9
    <2>2. P(q[i + 1]) /\ i + 1 \in 1 .. N
        BY <1>1, <1>2, <2>1
    <2>3. ASSUME NEW j \in 1 .. N, j < i + 1 PROVE ~R(q[j])
        <3>1. CASE j = 1
            BY <1>1, <1>9, <3>1
        <3>2. CASE j - 1 \in 1 .. N - 1 /\ (j - 1) + 1 = j
            <4>1. j - 1 < i
                BY <2>3
            <4>2. r[j - 1] = q[j]
                BY <1>1, <3>2
            <4> QED BY <2>1, <3>2, <4>1, <4>2
        <3> QED BY <1>2, <3>1, <3>2
    <2> QED BY <1>5, <2>2, <2>3
<1> QED BY <1>6, <1>7, <1>8, <1>9 DEF r, P, R

\* In a log with the pauses in turn, who pauses has resumed before.
LEMMA TurnHere ==
    ASSUME NEW l \in Seq(WatchMsg), NEW n \in 0 .. Len(l) - 1, NEW s, InTurn(l, s),
           Is(l[n + 1], s, "_pause_")
    PROVE  ~EndsPaused(Part(l, n), s)
<1>1. Len(l) \in Nat /\ DOMAIN l = 1 .. Len(l) /\ n + 1 \in 1 .. Len(l) /\ n \in 0 .. Len(l)
    BY LenProperties
<1>2. DOMAIN Part(l, n) = 1 .. n /\ \A i \in 1 .. n : Part(l, n)[i] = l[i]
    BY <1>1, PartIs
<1> SUFFICES ASSUME NEW i \in 1 .. n, Is(l[i], s, "_pause_"),
                    \A j \in 1 .. n : j > i => ~Is(l[j], s, "_resume_")
             PROVE  FALSE
    BY <1>2 DEF EndsPaused
<1>3. i \in 1 .. Len(l) /\ i < n + 1
    BY <1>1
<1>4. PICK k \in 1 .. Len(l) : i < k /\ k < n + 1 /\ Is(l[k], s, "_resume_")
    BY <1>1, <1>3 DEF InTurn
<1>5. k \in 1 .. n /\ k > i
    BY <1>4
<1> QED BY <1>4, <1>5

LEMMA PauseConcat ==
    ASSUME NEW l \in Seq(WatchMsg), NEW q \in Seq(WatchMsg), NEW s
    PROVE  /\ EndsPaused(q, s) => EndsPaused(l \o q, s)
           /\ EndsPaused(l, s) /\ (\A x \in Range(q) : ~Is(x, s, "_resume_")) => EndsPaused(l \o q, s)
<1> DEFINE r == l \o q
           P(x) == Is(x, s, "_pause_")
           R(x) == Is(x, s, "_resume_")
<1>1. /\ Len(l) \in Nat /\ Len(q) \in Nat /\ DOMAIN l = 1 .. Len(l) /\ DOMAIN q = 1 .. Len(q)
      /\ DOMAIN r = 1 .. Len(l) + Len(q)
      /\ \A i \in 1 .. Len(l) + Len(q) : r[i] = IF i <= Len(l) THEN l[i] ELSE q[i - Len(l)]
    BY ConcatProperties, LenProperties
<1>2. /\ \A i \in 1 .. Len(l) : i \in 1 .. Len(l) + Len(q) /\ r[i] = l[i]
      /\ \A i \in 1 .. Len(q) : Len(l) + i \in 1 .. Len(l) + Len(q) /\ r[Len(l) + i] = q[i]
      /\ \A i \in 1 .. Len(l) + Len(q) :
            i \in 1 .. Len(l) \/ (i - Len(l) \in 1 .. Len(q) /\ r[i] = q[i - Len(l)])
    <2>1. \A i \in 1 .. Len(l) : i \in 1 .. Len(l) + Len(q) /\ r[i] = l[i]
        BY <1>1
    <2>2. ASSUME NEW i \in 1 .. Len(q)
          PROVE  Len(l) + i \in 1 .. Len(l) + Len(q) /\ r[Len(l) + i] = q[i]
        <3>1. Len(l) + i \in 1 .. Len(l) + Len(q) /\ ~(Len(l) + i <= Len(l)) /\ Len(l) + i - Len(l) = i
            BY <1>1
        <3> QED BY <1>1, <3>1
    <2>3. ASSUME NEW i \in 1 .. Len(l) + Len(q), i \notin 1 .. Len(l)
          PROVE  i - Len(l) \in 1 .. Len(q) /\ r[i] = q[i - Len(l)]
        BY <1>1, <2>3
    <2> QED BY <2>1, <2>2, <2>3
<1>3. /\ EndsPaused(q, s) <=> \E i \in 1 .. Len(q) : P(q[i]) /\ \A j \in 1 .. Len(q) : j > i => ~R(q[j])
      /\ EndsPaused(l, s) <=> \E i \in 1 .. Len(l) : P(l[i]) /\ \A j \in 1 .. Len(l) : j > i => ~R(l[j])
      /\ EndsPaused(r, s) <=> \E i \in 1 .. Len(l) + Len(q) :
             P(r[i]) /\ \A j \in 1 .. Len(l) + Len(q) : j > i => ~R(r[j])
    BY <1>1 DEF EndsPaused
<1>4. \A i \in 1 .. Len(q) : q[i] \in Range(q)
    BY <1>1 DEF Range
<1> HIDE DEF r, P, R
<1>5. ASSUME EndsPaused(q, s) PROVE EndsPaused(r, s)
    <2>1. PICK i \in 1 .. Len(q) : P(q[i]) /\ \A j \in 1 .. Len(q) : j > i => ~R(q[j])
        BY <1>3, <1>5
    <2>2. ASSUME NEW j \in 1 .. Len(l) + Len(q), j > Len(l) + i PROVE ~R(r[j])
        <3>1. j \notin 1 .. Len(l) /\ j - Len(l) > i
            BY <1>1, <2>2
        <3> QED BY <1>2, <2>1, <3>1
    <2>3. Len(l) + i \in 1 .. Len(l) + Len(q) /\ P(r[Len(l) + i])
        BY <1>2, <2>1
    <2> QED BY <1>3, <2>2, <2>3
<1>6. ASSUME EndsPaused(l, s), \A x \in Range(q) : ~R(x) PROVE EndsPaused(r, s)
    <2>1. PICK i \in 1 .. Len(l) : P(l[i]) /\ \A j \in 1 .. Len(l) : j > i => ~R(l[j])
        BY <1>3, <1>6
    <2>2. ASSUME NEW j \in 1 .. Len(l) + Len(q), j > i PROVE ~R(r[j])
        BY <1>2, <1>4, <1>6, <2>1, <2>2
    <2>3. i \in 1 .. Len(l) + Len(q) /\ P(r[i])
        BY <1>2, <2>1
    <2> QED BY <1>3, <2>2, <2>3
<1> QED BY <1>5, <1>6 DEF r, P, R

\* Messages that are no pauses do not disturb the turns.
LEMMA TurnConcat ==
    ASSUME NEW q \in Seq(WatchMsg), NEW o \in Seq(WatchMsg), NEW s,
           \A x \in Range(o) : ~Is(x, s, "_pause_")
    PROVE  /\ InTurn(q, s) => InTurn(q \o o, s)
           /\ Begins(q \o o, s) => Begins(q, s)
<1> DEFINE r == q \o o
           P(x) == Is(x, s, "_pause_")
           R(x) == Is(x, s, "_resume_")
<1>1. /\ Len(o) \in Nat /\ Len(q) \in Nat /\ DOMAIN o = 1 .. Len(o) /\ DOMAIN q = 1 .. Len(q)
      /\ DOMAIN r = 1 .. Len(q) + Len(o)
      /\ \A i \in 1 .. Len(q) + Len(o) : r[i] = IF i <= Len(q) THEN q[i] ELSE o[i - Len(q)]
    BY ConcatProperties, LenProperties
<1>2. \A i \in 1 .. Len(o) : o[i] \in Range(o)
    BY <1>1 DEF Range
<1>3. \A i \in 1 .. Len(q) : i \in 1 .. Len(q) + Len(o) /\ r[i] = q[i]
    BY <1>1
<1>4. ASSUME NEW i \in 1 .. Len(q) + Len(o), P(r[i]) PROVE i \in 1 .. Len(q)
    <2> SUFFICES ASSUME i \notin 1 .. Len(q) PROVE FALSE
        OBVIOUS
    <2>1. ~(i <= Len(q)) /\ i - Len(q) \in 1 .. Len(o)
        BY <1>1
    <2>2. r[i] \in Range(o)
        BY <1>1, <1>2, <2>1
    <2> QED BY <1>4, <2>2
<1> HIDE DEF r
<1>5. InTurn(q, s) => InTurn(r, s)
    <2> SUFFICES ASSUME InTurn(q, s), NEW i \in 1 .. Len(q) + Len(o), NEW j \in 1 .. Len(q) + Len(o),
                        i < j, P(r[i]), P(r[j])
                 PROVE  \E k \in 1 .. Len(q) + Len(o) : i < k /\ k < j /\ R(r[k])
        BY <1>1 DEF InTurn
    <2>1. i \in 1 .. Len(q) /\ j \in 1 .. Len(q) /\ P(q[i]) /\ P(q[j])
        BY <1>3, <1>4
    <2>2. PICK k \in 1 .. Len(q) : i < k /\ k < j /\ R(q[k])
        BY <1>1, <2>1 DEF InTurn
    <2> QED BY <1>3, <2>2
<1>6. ASSUME Begins(r, s) PROVE Begins(q, s)
    <2>1. PICK i \in 1 .. Len(q) + Len(o) : P(r[i]) /\ \A j \in 1 .. Len(q) + Len(o) : j < i => ~R(r[j])
        BY <1>1, <1>6 DEF Begins
    <2>2. i \in 1 .. Len(q) /\ P(q[i])
        BY <1>3, <1>4, <2>1
    <2>3. \A j \in 1 .. Len(q) : j < i => ~R(q[j])
        BY <1>3, <2>1
    <2> QED BY <1>1, <2>2, <2>3 DEF Begins
<1> QED BY <1>5, <1>6 DEF r

-----------------------------------------------------------------------------
(* The place of a page                                                     *)

Announces(m, s) == m.key = "_at_barrier" /\ m.sender = s

\* What a page that does not send it any more has announced.
Past(w, m) == m.value < w.tick \/ (m.value = w.tick /\ w.atBarrier)

Sends(w) == Range(w.queue) \cup Range(w.out)

(***************************************************************************)
(* What a page of s that has handled p knows of p, and that it has said    *)
(* nothing that it would have to say once more.                            *)
(***************************************************************************)
Follows(p, s, w) ==
    /\ Good(p, w)
    /\ \A k \in Ticks : k >= w.tick => \A t \in Subjects : Arrived(p, t, k) => t \in w.received[k]
    /\ w.gate = "closed" <=> EndsPaused(p, s)
    /\ s \in Starters => ~w.stop
    /\ \A m \in Sends(w) : Announces(m, s) /\ Past(w, m) /\ Had(p, s, m.value)

\* Somebody has not arrived yet.
Unmet(p, k) == k \in Ticks => \E t \in Subjects : ~Arrived(p, t, k)

(***************************************************************************)
(* In a replay the watch always executes a tick.  It is not at the barrier *)
(* only when it has not yet come to where it could have been there.        *)
(***************************************************************************)
Replays(p, s, w) ==
    w.sync => /\ w.started /\ s \in Reloaders
              /\ w.tick \in Ticks =>
                    /\ w.executing
                    /\ ~w.atBarrier => w.wait = "gate" /\ w.gate = "closed" /\ ~Had(p, s, w.tick)

InStep(p, s, w) == Follows(p, s, w) /\ Unmet(p, w.tick) /\ Replays(p, s, w)

\* The watch v is where w was or further.
Ahead(w, v) == v.tick > w.tick \/ (v.tick = w.tick /\ (w.atBarrier => v.atBarrier))

LEMMA PastStays ==
    ASSUME NEW w, w.tick \in Nat, NEW v, v.tick \in Nat, Ahead(w, v),
           NEW m, m.value \in Nat, Past(w, m)
    PROVE  Past(v, m)
BY DEF Past, Ahead

LEMMA SendIs ==
    ASSUME NEW w \in WatchType, NEW me, NEW m \in WatchMsg
    PROVE  LET v == Send(w, me, m)
           IN  /\ v.sync = w.sync /\ v.started = w.started /\ v.tick = w.tick
               /\ v.executing = w.executing /\ v.timer = w.timer /\ v.stop = w.stop
               /\ v.gate = w.gate /\ v.wait = w.wait /\ v.atBarrier = w.atBarrier
               /\ v.received = w.received
               /\ \A x \in Sends(v) : x \in Sends(w) \/ x = m
<1>1. w.queue \in Seq(WatchMsg) /\ w.out \in Seq(WatchMsg)
    BY DEF WatchType
<1>2. OnWire(m) = m
    BY DEF OnWire, WatchMsg, Undefined, Period
<1>3. /\ Range(Append(w.queue, m)) = Range(w.queue) \cup {m}
      /\ Range(Append(w.out, m)) = Range(w.out) \cup {m}
    BY <1>1, RangeOfAppend
<1>4. \/ Send(w, me, m) = w
      \/ Send(w, me, m) = [w EXCEPT !.queue = Append(w.queue, m)]
      \/ Send(w, me, m) = [w EXCEPT !.out = Append(w.out, m)]
    BY <1>2 DEF Send, SyncSend, DefaultSend
<1>5. CASE Send(w, me, m) = w
    BY <1>5 DEF Sends
<1>6. CASE Send(w, me, m) = [w EXCEPT !.queue = Append(w.queue, m)]
    <2> DEFINE v == [w EXCEPT !.queue = Append(w.queue, m)]
    <2>1. /\ v.sync = w.sync /\ v.started = w.started /\ v.tick = w.tick
          /\ v.executing = w.executing /\ v.timer = w.timer /\ v.stop = w.stop
          /\ v.gate = w.gate /\ v.wait = w.wait /\ v.atBarrier = w.atBarrier
          /\ v.received = w.received /\ v.out = w.out /\ v.queue = Append(w.queue, m)
        BY DEF WatchType
    <2> HIDE DEF v
    <2> QED BY <1>3, <1>6, <2>1 DEF Sends, v
<1>7. CASE Send(w, me, m) = [w EXCEPT !.out = Append(w.out, m)]
    <2> DEFINE v == [w EXCEPT !.out = Append(w.out, m)]
    <2>1. /\ v.sync = w.sync /\ v.started = w.started /\ v.tick = w.tick
          /\ v.executing = w.executing /\ v.timer = w.timer /\ v.stop = w.stop
          /\ v.gate = w.gate /\ v.wait = w.wait /\ v.atBarrier = w.atBarrier
          /\ v.received = w.received /\ v.queue = w.queue /\ v.out = Append(w.out, m)
        BY DEF WatchType
    <2> HIDE DEF v
    <2> QED BY <1>3, <1>7, <2>1 DEF Sends, v
<1> QED BY <1>4, <1>5, <1>6, <1>7

LEMMA ArriveIs ==
    ASSUME NEW w \in WatchType, w.tick \in Ticks, NEW me \in Subjects
    PROVE  LET v == Arrive(w, me)
           IN  /\ v.sync = w.sync /\ v.started = w.started /\ v.tick = w.tick
               /\ v.executing = w.executing /\ v.stop = w.stop
               /\ v.gate = w.gate /\ v.atBarrier /\ v.received = w.received
               /\ \A x \in Sends(v) : x \in Sends(w) \/ (Announces(x, me) /\ x.value = w.tick)
<1> DEFINE u == [w EXCEPT !.atBarrier = TRUE, !.wait = "no"]
           m == Watch(me, "_at_barrier", w.tick)
<1>1. u \in WatchType /\ u.sync = w.sync /\ u.started = w.started /\ u.tick = w.tick
      /\ u.executing = w.executing /\ u.stop = w.stop
      /\ u.gate = w.gate /\ u.atBarrier /\ u.received = w.received
      /\ u.queue = w.queue /\ u.out = w.out
    BY DEF WatchType
<1>2. m \in WatchMsg /\ m.key = "_at_barrier" /\ m.value = w.tick
    BY WatchIsMsg
<1>3. m.sender = me
    BY DEF Watch, Message
<1>4. Arrive(w, me) = Send(u, me, m)
    BY DEF Arrive
<1>5. Sends(u) = Sends(w)
    BY <1>1 DEF Sends
<1> HIDE DEF u, m
<1> QED BY <1>1, <1>2, <1>3, <1>4, <1>5, SendIs DEF Announces

LEMMA ExecuteTickIs ==
    ASSUME NEW w \in WatchType, w.tick \in Ticks, NEW me \in Subjects, NEW stop \in BOOLEAN
    PROVE  LET v == ExecuteTick(w, me, stop)
           IN  /\ v.sync = w.sync /\ v.started = w.started /\ v.tick = w.tick
               /\ v.executing /\ v.gate = w.gate /\ v.received = w.received
               /\ w.atBarrier => v.atBarrier
               /\ v.stop = w.stop \/ v.stop = stop
               /\ ~w.executing /\ w.gate = "open" => v.atBarrier
               /\ ~w.executing /\ w.gate = "closed" => v.wait = "gate"
               /\ \A x \in Sends(v) :
                     \/ x \in Sends(w)
                     \/ /\ Announces(x, me) /\ x.value = w.tick
                        /\ v.atBarrier /\ w.gate = "open"
<1> DEFINE now == [w EXCEPT !.executing = TRUE, !.timer = FALSE, !.stop = stop]
           wait == [now EXCEPT !.wait = "gate"]
<1>1. now \in WatchType /\ now.sync = w.sync /\ now.started = w.started /\ now.tick = w.tick
      /\ now.executing /\ now.stop = stop
      /\ now.gate = w.gate /\ now.atBarrier = w.atBarrier /\ now.received = w.received
      /\ now.queue = w.queue /\ now.out = w.out
    BY DEF WatchType
<1>2. wait.sync = w.sync /\ wait.started = w.started /\ wait.tick = w.tick
      /\ wait.executing /\ wait.stop = stop /\ wait.wait = "gate"
      /\ wait.gate = w.gate /\ wait.atBarrier = w.atBarrier /\ wait.received = w.received
      /\ wait.queue = w.queue /\ wait.out = w.out
    <2> HIDE DEF now
    <2> QED BY <1>1 DEF WatchType
<1>3. Sends(now) = Sends(w) /\ Sends(wait) = Sends(w)
    <2> HIDE DEF now, wait
    <2> QED BY <1>1, <1>2 DEF Sends
<1>4. w.gate \in {"open", "closed"}
    BY DEF WatchType
<1>5. ExecuteTick(w, me, stop) = IF w.executing THEN w
                                 ELSE IF w.gate = "open" THEN Arrive(now, me) ELSE wait
    BY DEF ExecuteTick
<1> HIDE DEF now, wait
<1>6. CASE w.executing
    BY <1>5, <1>6
<1>7. CASE ~w.executing /\ w.gate = "open"
    BY <1>1, <1>3, <1>5, <1>7, ArriveIs
<1>8. CASE ~w.executing /\ w.gate = "closed"
    BY <1>2, <1>3, <1>5, <1>8
<1> QED BY <1>4, <1>6, <1>7, <1>8

LEMMA ExecuteFollows ==
    ASSUME NEW p \in Seq(WatchMsg), NEW s \in Subjects, NEW w, Follows(p, s, w), w.tick \in Ticks,
           NEW stop \in BOOLEAN, s \in Starters => ~stop
    PROVE  LET v == ExecuteTick(w, s, stop) IN Follows(p, s, v) /\ Ahead(w, v)
<1> DEFINE v == ExecuteTick(w, s, stop)
<1>1. w \in WatchType /\ Good(p, w) /\ Reached(p, w.tick)
    BY DEF Follows, Good, Sound
<1>2. /\ v.sync = w.sync /\ v.started = w.started /\ v.tick = w.tick
      /\ v.executing /\ v.gate = w.gate /\ v.received = w.received
      /\ w.atBarrier => v.atBarrier
      /\ v.stop = w.stop \/ v.stop = stop
      /\ \A x \in Sends(v) :
            \/ x \in Sends(w)
            \/ /\ Announces(x, s) /\ x.value = w.tick
               /\ v.atBarrier /\ w.gate = "open"
    BY <1>1, ExecuteTickIs
<1>3. Good(p, v)
    BY <1>1, ExecuteTickGood
<1> HIDE DEF v
<1>4. Ahead(w, v)
    BY <1>2 DEF Ahead
<1>5. w.gate = "open" => ~EndsPaused(p, s)
    BY DEF Follows
<1>6. ASSUME NEW x \in Sends(v) PROVE Announces(x, s) /\ Past(v, x) /\ Had(p, s, x.value)
    <2>1. CASE x \in Sends(w)
        BY <1>2, <2>1 DEF Follows, Past
    <2>2. CASE Announces(x, s) /\ x.value = w.tick /\ v.atBarrier /\ w.gate = "open"
        <3>1. Had(p, s, w.tick)
            BY <1>1, <1>5, <2>2, HadNow
        <3> QED BY <1>2, <2>2, <3>1 DEF Past
    <2> QED BY <1>2, <2>1, <2>2
<1> QED BY <1>2, <1>3, <1>4, <1>6 DEF Follows, v

LEMMA StartFollows ==
    ASSUME NEW p \in Seq(WatchMsg), NEW s \in Subjects, NEW w, Follows(p, s, w)
    PROVE  LET v == StartWatch(w, s)
           IN  /\ Follows(p, s, v) /\ Ahead(w, v)
               /\ v.sync = w.sync /\ v.started /\ v.tick = w.tick
               /\ w.tick = 0 /\ ~w.executing /\ ~w.timer /\ w.gate = "open" => v.executing /\ v.atBarrier
<1> DEFINE u == [w EXCEPT !.started = TRUE]
           x == [u EXCEPT !.timer = TRUE]
           e == ExecuteTick(u, s, FALSE)
<1>1. w \in WatchType /\ Good(p, w) /\ w.tick \in 0 .. Target + 1
    BY DEF Follows, Good, WatchType
<1>2. /\ u \in WatchType /\ u.sync = w.sync /\ u.started /\ u.tick = w.tick /\ u.executing = w.executing
      /\ u.gate = w.gate /\ u.atBarrier = w.atBarrier /\ u.received = w.received
      /\ u.queue = w.queue /\ u.out = w.out /\ u.stop = w.stop
    BY <1>1 DEF WatchType
<1>3. Good(p, u)
    BY <1>1 DEF Good, WatchType, Sound
<1> HIDE DEF u
<1>4. /\ x.sync = w.sync /\ x.started /\ x.tick = w.tick
      /\ x.gate = w.gate /\ x.atBarrier = w.atBarrier /\ x.received = w.received
      /\ x.queue = w.queue /\ x.out = w.out /\ x.stop = w.stop
    BY <1>2 DEF WatchType
<1>5. Good(p, StartWatch(w, s))
    BY <1>1, StartWatchGood
<1>6. Follows(p, s, u)
    BY <1>2, <1>3 DEF Follows, Past, Sends
<1>7. u.tick \in Ticks =>
          /\ Follows(p, s, e) /\ Ahead(u, e) /\ e.sync = u.sync /\ e.started = u.started /\ e.tick = u.tick
          /\ ~u.executing /\ u.gate = "open" => e.executing /\ e.atBarrier
    BY <1>2, <1>6, ExecuteFollows, ExecuteTickIs
<1>8. /\ w.tick < Target => w.tick \in Ticks
      /\ w.tick = 0 => w.tick \in Ticks /\ ~(w.tick >= Target)
      /\ ~(w.tick >= Target) => w.tick < Target
    BY <1>1, WatchAssumption DEF Ticks
<1>9. StartWatch(w, s) = IF w.timer \/ w.executing \/ w.tick >= Target THEN u
                         ELSE IF w.tick = 0 THEN e ELSE IF w.sync THEN e ELSE x
    BY DEF StartWatch, u
<1> HIDE DEF x, e
<1>10. CASE StartWatch(w, s) = u /\ (w.timer \/ w.executing \/ w.tick >= Target)
    BY <1>2, <1>6, <1>8, <1>10 DEF Ahead
<1>11. CASE StartWatch(w, s) = e /\ w.tick \in Ticks
    BY <1>2, <1>7, <1>11 DEF Ahead
<1>12. CASE StartWatch(w, s) = x /\ w.tick # 0
    <2>1. Good(p, x)
        BY <1>5, <1>12
    <2>2. Follows(p, s, x)
        BY <1>4, <2>1 DEF Follows, Past, Sends
    <2> QED BY <1>4, <1>12, <2>2 DEF Ahead
<1>13. \/ StartWatch(w, s) = u /\ (w.timer \/ w.executing \/ w.tick >= Target)
       \/ StartWatch(w, s) = e /\ w.tick \in Ticks
       \/ StartWatch(w, s) = x /\ w.tick # 0
    BY <1>8, <1>9
<1> QED BY <1>10, <1>11, <1>12, <1>13

LEMMA PassFollows ==
    ASSUME NEW p \in Seq(WatchMsg), NEW s \in Subjects, NEW w, Follows(p, s, w),
           w.atBarrier, IsFull(w)
    PROVE  LET v == Pass(w, s)
           IN  /\ Follows(p, s, v) /\ v.tick = w.tick + 1
               /\ v.sync = w.sync /\ v.started = w.started /\ v.gate = w.gate
               /\ w.sync /\ ~w.stop /\ v.tick \in Ticks =>
                     v.executing /\ (~v.atBarrier => v.wait = "gate" /\ v.gate = "closed")
<1> DEFINE next == Passed(w)
           e == ExecuteTick(next, s, FALSE)
           x == [next EXCEPT !.timer = TRUE]
<1>1. w \in WatchType /\ Good(p, w)
    BY DEF Follows, Good
<1>2. /\ Good(p, next) /\ w.tick \in Ticks
      /\ next.tick = w.tick + 1 /\ ~next.executing /\ ~next.atBarrier
      /\ next.queue = w.queue /\ next.out = w.out /\ next.gate = w.gate
      /\ next.sync = w.sync /\ next.started = w.started /\ next.stop = w.stop
      /\ \A k \in Ticks : k # w.tick => next.received[k] = w.received[k]
    BY <1>1, PassedGood
<1>3. next \in WatchType /\ next.gate \in {"open", "closed"}
    BY <1>2 DEF Good, WatchType
<1>4. w.tick \in Nat /\ \A k \in Ticks : k >= w.tick + 1 => k >= w.tick /\ k # w.tick
    BY <1>2, WatchAssumption DEF Ticks
<1> HIDE DEF next
<1>5. Follows(p, s, next)
    <2>1. \A k \in Ticks : k >= next.tick => \A t \in Subjects : Arrived(p, t, k) => t \in next.received[k]
        BY <1>2, <1>4 DEF Follows
    <2>2. ASSUME NEW m \in Sends(w) PROVE Past(next, m)
        <3>1. Past(w, m) /\ m \in WatchMsg
            <4>1. w.queue \in Seq(WatchMsg) /\ w.out \in Seq(WatchMsg)
                BY <1>1 DEF WatchType
            <4> QED BY <4>1, RangeOfSeq DEF Follows, Sends
        <3>2. m.value \in Nat
            BY <3>1, WatchAssumption DEF WatchMsg, Ticks
        <3> QED BY <1>2, <1>4, <3>1, <3>2 DEF Past
    <2>3. Sends(next) = Sends(w)
        BY <1>2 DEF Sends
    <2> QED BY <1>2, <2>1, <2>2, <2>3 DEF Follows
<1>6. Pass(w, s) = IF w.tick = Target \/ w.stop THEN next ELSE IF w.sync THEN e ELSE x
    BY DEF Pass, next, Passed
<1>7. CASE w.tick = Target \/ w.stop
    <2>1. w.tick = Target => next.tick \notin Ticks
        BY <1>2, WatchAssumption DEF Ticks
    <2> QED BY <1>2, <1>5, <1>6, <1>7, <2>1
<1>8. CASE ~(w.tick = Target \/ w.stop) /\ w.sync
    <2>1. next.tick \in Ticks
        BY <1>2, <1>8, WatchAssumption DEF Ticks
    <2>2. /\ e.sync = next.sync /\ e.started = next.started /\ e.tick = next.tick
          /\ e.executing /\ e.gate = next.gate
          /\ next.gate = "open" => e.atBarrier
          /\ next.gate = "closed" => e.wait = "gate"
        <3>1. /\ e.sync = next.sync /\ e.started = next.started /\ e.tick = next.tick
              /\ e.executing /\ e.gate = next.gate
              /\ ~next.executing /\ next.gate = "open" => e.atBarrier
              /\ ~next.executing /\ next.gate = "closed" => e.wait = "gate"
            BY <1>3, <2>1, ExecuteTickIs
        <3> HIDE DEF e
        <3> QED BY <1>2, <3>1
    <2>3. Follows(p, s, e)
        BY <1>5, <2>1, ExecuteFollows
    <2> HIDE DEF e
    <2> QED BY <1>2, <1>3, <1>6, <1>8, <2>2, <2>3
<1>9. CASE ~(w.tick = Target \/ w.stop) /\ ~w.sync
    <2>1. Good(p, x)
        <3>1. Good(p, Pass(w, s))
            BY <1>1, PassGood
        <3>2. Pass(w, s) = x
            BY <1>6, <1>9
        <3> QED BY <3>1, <3>2
    <2>2. /\ x.sync = next.sync /\ x.started = next.started /\ x.tick = next.tick
          /\ x.gate = next.gate /\ x.atBarrier = next.atBarrier /\ x.received = next.received
          /\ x.queue = next.queue /\ x.out = next.out /\ x.stop = next.stop
        BY <1>3 DEF WatchType
    <2> HIDE DEF x
    <2>3. Follows(p, s, x)
        BY <1>5, <2>1, <2>2 DEF Follows, Past, Sends
    <2> QED BY <1>2, <1>6, <1>9, <2>2, <2>3
<1> QED BY <1>7, <1>8, <1>9

LEMMA CountedFollows ==
    ASSUME NEW p \in Seq(WatchMsg), NEW m \in WatchMsg, m.key = "_at_barrier",
           NEW s \in Subjects, NEW w, Follows(p, s, w)
    PROVE  Follows(Append(p, m), s, Counted(w, m))
<1> DEFINE r == Append(p, m)
           c == Counted(w, m)
<1>1. \A t, k : Arrived(r, t, k) <=> Arrived(p, t, k) \/ (m.sender = t /\ m.value = k)
    BY ArrivedGrows
<1>2. Good(r, w)
    BY GoodGrows DEF Follows, Good
<1>3. /\ Good(r, c)
      /\ c.atBarrier = w.atBarrier /\ c.tick = w.tick /\ c.gate = w.gate /\ c.stop = w.stop
      /\ c.queue = w.queue /\ c.out = w.out
      /\ \A k \in Ticks : w.received[k] \subseteq c.received[k]
      /\ m.sender \in c.received[m.value]
    BY <1>1, <1>2, CountedGood
<1>4. EndsPaused(r, s) <=> EndsPaused(p, s)
    BY PauseGrows DEF Is
<1>5. \A k : Had(p, s, k) => Had(r, s, k)
    BY HadGrows
<1> HIDE DEF r, c
<1>6. ASSUME NEW k \in Ticks, k >= c.tick, NEW t \in Subjects, Arrived(r, t, k)
      PROVE  t \in c.received[k]
    <2>1. CASE Arrived(p, t, k)
        BY <1>3, <1>6, <2>1 DEF Follows
    <2>2. CASE m.sender = t /\ m.value = k
        BY <1>3, <2>2
    <2> QED BY <1>1, <1>6, <2>1, <2>2
<1>7. \A x \in Sends(c) : Announces(x, s) /\ Past(c, x) /\ Had(r, s, x.value)
    BY <1>3, <1>5 DEF Follows, Past, Sends
<1> QED BY <1>3, <1>4, <1>6, <1>7 DEF Follows, r, c

LEMMA OnBarrierInStep ==
    ASSUME NEW p \in Seq(WatchMsg), AllBacked(p, p), NEW m \in WatchMsg, m.key = "_at_barrier",
           NEW s \in Subjects, NEW w, InStep(p, s, w),
           w.tick \in Ticks /\ Arrived(Append(p, m), s, w.tick) => w.atBarrier
    PROVE  LET v == OnBarrier(w, s, m) IN InStep(Append(p, m), s, v) /\ Ahead(w, v) /\ v.sync = w.sync
<1> DEFINE r == Append(p, m)
           c == Counted(w, m)
           v == OnBarrier(w, s, m)
           follows == ~w.sync /\ m.sender # s /\ m.value = w.tick
           along == IF follows THEN ExecuteTick(c, s, FALSE) ELSE c
           passes == w.atBarrier /\ m.value = w.tick /\ IsFull(c)
<1>1. \A t, k : Arrived(r, t, k) <=> Arrived(p, t, k) \/ (m.sender = t /\ m.value = k)
    BY ArrivedGrows
<1>2. r \in Seq(WatchMsg)
    BY AppendProperties
<1>3. Follows(r, s, c) /\ Follows(p, s, w) /\ Unmet(p, w.tick) /\ Replays(p, s, w)
    BY CountedFollows DEF InStep
<1>4. Good(p, w) /\ Good(r, c) /\ w.tick \in Nat
    BY <1>3, WatchAssumption DEF Follows, Good, WatchType
<1>5. /\ c.atBarrier = w.atBarrier /\ c.tick = w.tick /\ c.gate = w.gate /\ c.stop = w.stop
      /\ c.sync = w.sync /\ c.started = w.started /\ c.executing = w.executing /\ c.wait = w.wait
    <2>1. Good(r, w)
        BY GoodGrows, <1>4 DEF Good
    <2> QED BY <1>1, <2>1, CountedGood
<1>6. m.value \in Ticks
    BY DEF WatchMsg
<1>7. \A k : Had(r, s, k) => Had(p, s, k) \/ (Reached(r, k) /\ ~EndsPaused(r, s))
    BY HadGrows
<1>8. v = IF passes THEN Pass(along, s) ELSE along
    BY DEF OnBarrier, Counted
<1> HIDE DEF r, c, v
<1>9. c.gate = "closed" <=> EndsPaused(r, s)
    BY <1>3 DEF Follows
<1>10. CASE passes
    <2>1. c.executing
        BY <1>4, <1>5, <1>10 DEF Good, Sound
    <2>2. along = c
        BY <2>1 DEF ExecuteTick
    <2>3. v = Pass(c, s)
        BY <1>8, <1>10, <2>2
    <2>4. /\ Follows(r, s, v) /\ v.tick = w.tick + 1
          /\ v.sync = w.sync /\ v.started = w.started /\ v.gate = w.gate
          /\ w.sync /\ ~w.stop /\ v.tick \in Ticks =>
                v.executing /\ (~v.atBarrier => v.wait = "gate" /\ v.gate = "closed")
        <3> DEFINE x == Pass(c, s)
        <3>1. /\ Follows(r, s, x) /\ x.tick = c.tick + 1
              /\ x.sync = c.sync /\ x.started = c.started /\ x.gate = c.gate
              /\ c.sync /\ ~c.stop /\ x.tick \in Ticks =>
                    x.executing /\ (~x.atBarrier => x.wait = "gate" /\ x.gate = "closed")
            BY <1>2, <1>3, <1>5, <1>10, PassFollows
        <3> HIDE DEF x
        <3>2. v = x
            BY <2>3 DEF x
        <3> QED BY <1>5, <3>1, <3>2
    <2>5. w.tick \in Ticks
        BY <1>6, <1>10
    <2>6. ~Reached(p, w.tick + 1)
        <3>1. PICK t \in Subjects : ~Arrived(p, t, w.tick)
            BY <1>3, <2>5 DEF Unmet
        <3>2. w.tick \in 0 .. (w.tick + 1) - 1
            BY <1>4
        <3> QED BY <3>1, <3>2 DEF Reached
    <2>7. ~Arrived(r, s, w.tick + 1)
        <3> SUFFICES ASSUME Arrived(r, s, w.tick + 1) PROVE FALSE
            OBVIOUS
        <3>1. m.value # w.tick + 1
            BY <1>4, <1>10
        <3>2. Arrived(p, s, w.tick + 1)
            BY <1>1, <3>1
        <3> QED BY <2>6, <3>2 DEF Arrived, AllBacked, Backed
    <2>8. Unmet(r, v.tick)
        BY <2>4, <2>7 DEF Unmet
    <2>9. Replays(r, s, v)
        <3> SUFFICES ASSUME w.sync
                     PROVE  /\ v.started /\ s \in Reloaders
                            /\ v.tick \in Ticks =>
                                 /\ v.executing
                                 /\ ~v.atBarrier => v.wait = "gate" /\ v.gate = "closed" /\ ~Had(r, s, v.tick)
            BY <2>4 DEF Replays
        <3>1. w.started /\ s \in Reloaders
            BY <1>3 DEF Replays
        <3>2. ~w.stop
            BY <1>3, <3>1, WatchAssumption DEF Follows
        <3>3. v.gate = "closed" => ~Had(r, s, v.tick)
            <4>1. ~Had(p, s, w.tick + 1)
                BY <2>6, HadNow
            <4> QED BY <1>5, <1>7, <1>9, <2>4, <4>1
        <3> QED BY <2>4, <3>1, <3>2, <3>3
    <2>10. Ahead(w, v)
        BY <1>4, <2>4 DEF Ahead
    <2> QED BY <2>4, <2>8, <2>9, <2>10 DEF InStep, r, v
<1>11. CASE ~passes
    <2>1. v = along
        BY <1>8, <1>11
    <2>2. /\ Follows(r, s, v) /\ Ahead(w, v) /\ v.tick = w.tick /\ v.sync = w.sync
        <3>1. CASE follows
            <4>1. c.tick \in Ticks /\ c \in WatchType
                BY <1>4, <1>5, <1>6, <3>1 DEF Good
            <4>2. Follows(r, s, ExecuteTick(c, s, FALSE)) /\ Ahead(c, ExecuteTick(c, s, FALSE))
                BY <1>2, <1>3, <4>1, ExecuteFollows
            <4>3. ExecuteTick(c, s, FALSE).tick = c.tick /\ ExecuteTick(c, s, FALSE).sync = c.sync
                BY <4>1, ExecuteTickIs
            <4> QED BY <1>5, <2>1, <3>1, <4>2, <4>3 DEF Ahead
        <3>2. CASE ~follows
            BY <1>3, <1>5, <2>1, <3>2 DEF Ahead
        <3> QED BY <3>1, <3>2
    <2>3. Unmet(r, v.tick)
        <3> SUFFICES ASSUME w.tick \in Ticks, \A t \in Subjects : Arrived(r, t, w.tick) PROVE FALSE
            BY <2>2 DEF Unmet
        <3>1. w.atBarrier
            BY DEF r
        <3>2. w.tick >= w.tick
            BY <1>4
        <3>3. IsFull(c)
            BY <1>3, <1>5, <3>2 DEF Follows, IsFull
        <3>4. m.value = w.tick
            BY <1>1, <1>3 DEF Unmet
        <3> QED BY <1>11, <3>1, <3>3, <3>4
    <2>4. Replays(r, s, v)
        <3> SUFFICES ASSUME w.sync PROVE Replays(r, s, v)
            BY <2>2 DEF Replays
        <3>1. v = c
            BY <2>1
        <3> QED BY <1>3, <1>5, <1>7, <1>9, <3>1 DEF Replays
    <2> QED BY <2>2, <2>3, <2>4 DEF InStep, r, v
<1> QED BY <1>10, <1>11

\* A message that is nobody's arrival changes the pauses only.
LEMMA QuietGrows ==
    ASSUME NEW p \in Seq(WatchMsg), NEW m \in WatchMsg, m.key # "_at_barrier", NEW s
    PROVE  /\ Append(p, m) \in Seq(WatchMsg)
           /\ \A t, k : Arrived(Append(p, m), t, k) <=> Arrived(p, t, k)
           /\ \A k : Unmet(p, k) => Unmet(Append(p, m), k)
           /\ \A w : Good(p, w) => Good(Append(p, m), w)
           /\ \A k : Had(p, s, k) => Had(Append(p, m), s, k)
           /\ \A k : Had(Append(p, m), s, k) => Had(p, s, k) \/ ~EndsPaused(Append(p, m), s)
           /\ EndsPaused(Append(p, m), s) <=>
                 Is(m, s, "_pause_") \/ (EndsPaused(p, s) /\ ~Is(m, s, "_resume_"))
<1> DEFINE r == Append(p, m)
<1>1. \A t, k : Arrived(r, t, k) <=> Arrived(p, t, k)
    BY ArrivedGrows
<1>2. \A w : Good(p, w) => Good(r, w)
    BY GoodGrows DEF Good
<1>3. \A k : /\ Had(p, s, k) => Had(r, s, k)
             /\ Had(r, s, k) => Had(p, s, k) \/ ~EndsPaused(r, s)
    BY HadGrows
<1>4. r \in Seq(WatchMsg)
    BY AppendProperties
<1>5. EndsPaused(r, s) <=> Is(m, s, "_pause_") \/ (EndsPaused(p, s) /\ ~Is(m, s, "_resume_"))
    BY PauseGrows
<1> HIDE DEF r
<1>6. \A k : Unmet(p, k) => Unmet(r, k)
    BY <1>1 DEF Unmet
<1> QED BY <1>1, <1>2, <1>3, <1>4, <1>5, <1>6 DEF r

LEMMA OtherInStep ==
    ASSUME NEW p \in Seq(WatchMsg), NEW m \in WatchMsg, m.key # "_at_barrier",
           NEW s \in Subjects, m.sender # s, NEW w, InStep(p, s, w)
    PROVE  InStep(Append(p, m), s, w) /\ Ahead(w, w)
<1> DEFINE r == Append(p, m)
<1>1. /\ r \in Seq(WatchMsg)
      /\ \A t, k : Arrived(r, t, k) <=> Arrived(p, t, k)
      /\ Unmet(p, w.tick) => Unmet(r, w.tick)
      /\ Good(p, w) => Good(r, w)
      /\ \A k : Had(p, s, k) => Had(r, s, k)
      /\ \A k : Had(r, s, k) => Had(p, s, k) \/ ~EndsPaused(r, s)
      /\ EndsPaused(r, s) <=> EndsPaused(p, s)
    BY QuietGrows DEF Is
<1> HIDE DEF r
<1>2. Follows(r, s, w)
    BY <1>1 DEF InStep, Follows
<1>3. Replays(r, s, w)
    BY <1>1 DEF InStep, Follows, Replays
<1> QED BY <1>1, <1>2, <1>3 DEF InStep, Ahead, r

LEMMA PauseInStep ==
    ASSUME NEW p \in Seq(WatchMsg), NEW m \in WatchMsg, NEW s \in Subjects, Is(m, s, "_pause_"),
           ~EndsPaused(p, s), NEW w, InStep(p, s, w)
    PROVE  LET v == OnPause(w) IN InStep(Append(p, m), s, v) /\ Ahead(w, v) /\ v.sync = w.sync
<1> DEFINE r == Append(p, m)
           v == OnPause(w)
<1>1. /\ r \in Seq(WatchMsg)
      /\ \A t, k : Arrived(r, t, k) <=> Arrived(p, t, k)
      /\ Unmet(p, w.tick) => Unmet(r, w.tick)
      /\ Good(p, w) => Good(r, w)
      /\ \A k : Had(p, s, k) => Had(r, s, k)
      /\ EndsPaused(r, s)
    BY QuietGrows DEF Is
<1> HIDE DEF r
<1>2. w \in WatchType /\ Good(r, w) /\ Follows(p, s, w) /\ w.gate # "closed"
    BY <1>1 DEF InStep, Follows, Good
<1>3. /\ v.sync = w.sync /\ v.started = w.started /\ v.tick = w.tick /\ v.executing = w.executing
      /\ v.gate = "closed" /\ v.atBarrier = w.atBarrier /\ v.received = w.received
      /\ v.queue = w.queue /\ v.out = w.out /\ v.stop = w.stop
    BY <1>2 DEF OnPause, WatchType
<1>4. Good(r, v)
    BY <1>2 DEF OnPause, Good, WatchType, Sound
<1> HIDE DEF v
<1>5. Follows(r, s, v)
    BY <1>1, <1>2, <1>3, <1>4 DEF Follows, Past, Sends
<1>6. Replays(r, s, v)
    BY <1>2, <1>3 DEF InStep, Replays
<1> QED BY <1>1, <1>3, <1>5, <1>6 DEF InStep, Ahead, r, v

LEMMA ResumeInStep ==
    ASSUME NEW p \in Seq(WatchMsg), NEW m \in WatchMsg, NEW s \in Subjects, Is(m, s, "_resume_"),
           NEW w, InStep(p, s, w)
    PROVE  LET v == OnResume(w, s) IN InStep(Append(p, m), s, v) /\ Ahead(w, v) /\ v.sync = w.sync
<1> DEFINE r == Append(p, m)
           u == [w EXCEPT !.gate = "open"]
           v == OnResume(w, s)
<1>1. /\ r \in Seq(WatchMsg)
      /\ \A t, k : Arrived(r, t, k) <=> Arrived(p, t, k)
      /\ Unmet(p, w.tick) => Unmet(r, w.tick)
      /\ Good(p, w) => Good(r, w)
      /\ \A k : Had(p, s, k) => Had(r, s, k)
      /\ ~EndsPaused(r, s)
    BY QuietGrows DEF Is
<1> HIDE DEF r
<1>2. w \in WatchType /\ Good(r, w) /\ Follows(p, s, w) /\ Replays(p, s, w)
    BY <1>1 DEF InStep, Follows, Good
<1>3. /\ u.sync = w.sync /\ u.started = w.started /\ u.tick = w.tick /\ u.executing = w.executing
      /\ u.gate = "open" /\ u.atBarrier = w.atBarrier /\ u.received = w.received
      /\ u.queue = w.queue /\ u.out = w.out /\ u.stop = w.stop /\ u.wait = w.wait
    BY <1>2 DEF WatchType
<1>4. Good(r, u)
    BY <1>2 DEF Good, WatchType, Sound
<1>5. v = IF w.wait = "gate" THEN Arrive(u, s) ELSE u
    BY DEF OnResume
<1> HIDE DEF u, v
<1>6. CASE w.wait # "gate"
    <2>1. Follows(r, s, u)
        BY <1>1, <1>2, <1>3, <1>4 DEF Follows, Past, Sends
    <2>2. Replays(r, s, u)
        BY <1>2, <1>3, <1>6 DEF Replays
    <2> QED BY <1>1, <1>3, <1>5, <1>6, <2>1, <2>2 DEF InStep, Ahead, r, v
<1>7. CASE w.wait = "gate"
    <2>1. u \in WatchType /\ u.tick \in Ticks /\ u.executing /\ Reached(r, u.tick)
        BY <1>2, <1>3, <1>4, <1>7 DEF Good, Sound
    <2>2. v = Arrive(u, s)
        BY <1>5, <1>7
    <2>3. /\ v.sync = u.sync /\ v.started = u.started /\ v.tick = u.tick
          /\ v.executing = u.executing /\ v.stop = u.stop
          /\ v.gate = u.gate /\ v.atBarrier /\ v.received = u.received
          /\ \A x \in Sends(v) : x \in Sends(u) \/ (Announces(x, s) /\ x.value = u.tick)
        <3> DEFINE a == Arrive(u, s)
        <3>1. /\ a.sync = u.sync /\ a.started = u.started /\ a.tick = u.tick
              /\ a.executing = u.executing /\ a.stop = u.stop
              /\ a.gate = u.gate /\ a.atBarrier /\ a.received = u.received
              /\ \A x \in Sends(a) : x \in Sends(u) \/ (Announces(x, s) /\ x.value = u.tick)
            BY <2>1, ArriveIs
        <3> HIDE DEF a
        <3>2. v = a
            BY <2>2 DEF a
        <3> QED BY <3>1, <3>2
    <2>4. Good(r, v)
        BY <1>4, <2>1, <2>2, ArriveGood
    <2>5. Had(r, s, u.tick)
        BY <1>1, <2>1, HadNow
    <2>6. ASSUME NEW x \in Sends(v) PROVE Announces(x, s) /\ Past(v, x) /\ Had(r, s, x.value)
        <3>1. CASE x \in Sends(u)
            <4>1. x \in Sends(w)
                BY <1>3, <3>1 DEF Sends
            <4>2. Announces(x, s) /\ Past(w, x) /\ Had(p, s, x.value)
                BY <1>2, <4>1 DEF Follows
            <4> QED BY <1>1, <1>3, <2>3, <4>2 DEF Past
        <3>2. CASE Announces(x, s) /\ x.value = u.tick
            BY <2>3, <2>5, <3>2 DEF Past
        <3> QED BY <2>3, <3>1, <3>2
    <2>7. Follows(r, s, v)
        BY <1>1, <1>2, <1>3, <2>3, <2>4, <2>6 DEF Follows
    <2>8. Replays(r, s, v)
        BY <1>2, <1>3, <2>1, <2>3 DEF Replays
    <2> QED BY <1>1, <1>3, <2>3, <2>7, <2>8 DEF InStep, Ahead, r, v
<1> QED BY <1>6, <1>7

LEMMA DeduplicateInStep ==
    ASSUME NEW p \in Seq(WatchMsg), NEW s \in Subjects, NEW w, InStep(p, s, w), NEW m
    PROVE  LET v == Deduplicate(w, m)
           IN  /\ InStep(p, s, v)
               /\ v.tick = w.tick /\ v.atBarrier = w.atBarrier /\ v.sync = w.sync
<1> DEFINE v == Deduplicate(w, m)
           q == Without(w.queue, m)
<1>1. w \in WatchType /\ Good(p, w) /\ w.queue \in Seq(WatchMsg)
    BY DEF InStep, Follows, Good, WatchType
<1>2. Good(p, v)
    BY <1>1, DeduplicateGood
<1>3. Range(q) \subseteq Range(w.queue)
    BY <1>1, RangeOfRemoval
<1>4. v = IF w.sync THEN [w EXCEPT !.queue = q] ELSE w
    BY DEF Deduplicate, Without
<1> HIDE DEF v, q
<1>5. CASE w.sync
    <2>1. /\ v.sync = w.sync /\ v.started = w.started /\ v.tick = w.tick /\ v.executing = w.executing
          /\ v.gate = w.gate /\ v.atBarrier = w.atBarrier /\ v.received = w.received
          /\ v.queue = q /\ v.out = w.out /\ v.stop = w.stop /\ v.wait = w.wait
        BY <1>1, <1>4, <1>5 DEF WatchType
    <2>2. \A x \in Sends(v) : x \in Sends(w)
        BY <1>3, <2>1 DEF Sends
    <2>3. Follows(p, s, v)
        BY <1>2, <2>1, <2>2 DEF InStep, Follows, Past
    <2>4. Replays(p, s, v)
        BY <2>1 DEF InStep, Replays
    <2> QED BY <2>1, <2>3, <2>4 DEF InStep, v
<1>6. CASE ~w.sync
    BY <1>4, <1>6 DEF v
<1> QED BY <1>5, <1>6

LEMMA OnMessageInStep ==
    ASSUME NEW p \in Seq(WatchMsg), AllBacked(p, p), NEW m \in WatchMsg,
           NEW s \in Subjects, NEW w, InStep(p, s, w),
           w.tick \in Ticks /\ Arrived(Append(p, m), s, w.tick) => w.atBarrier,
           Is(m, s, "_pause_") => ~EndsPaused(p, s)
    PROVE  LET v == OnMessage(w, s, m)
           IN  InStep(Append(p, m), s, v) /\ Ahead(w, v) /\ v.sync = w.sync
<1> DEFINE d == Deduplicate(w, m)
           v == HandleMsg(d, s, m)
<1>1. InStep(p, s, d) /\ d.tick = w.tick /\ d.atBarrier = w.atBarrier /\ d.sync = w.sync
    BY DeduplicateInStep
<1>2. m.key \in {"_at_barrier", "_pause_", "_resume_"}
    BY DEF WatchMsg
<1> HIDE DEF d
<1>3. CASE m.key = "_at_barrier"
    <2>1. v = OnBarrier(d, s, m)
        BY <1>3 DEF HandleMsg
    <2>2. InStep(Append(p, m), s, v) /\ Ahead(d, v) /\ v.sync = d.sync
        BY <1>1, <1>3, <2>1, OnBarrierInStep
    <2> QED BY <1>1, <2>2 DEF Ahead, OnMessage, d
<1>4. CASE Is(m, s, "_pause_")
    <2>1. v = OnPause(d)
        BY <1>4 DEF HandleMsg, Is
    <2>2. InStep(Append(p, m), s, v) /\ Ahead(d, v) /\ v.sync = d.sync
        BY <1>1, <1>4, <2>1, PauseInStep
    <2> QED BY <1>1, <2>2 DEF Ahead, OnMessage, d
<1>5. CASE Is(m, s, "_resume_")
    <2>1. v = OnResume(d, s)
        BY <1>5 DEF HandleMsg, Is
    <2>2. InStep(Append(p, m), s, v) /\ Ahead(d, v) /\ v.sync = d.sync
        BY <1>1, <1>5, <2>1, ResumeInStep
    <2> QED BY <1>1, <2>2 DEF Ahead, OnMessage, d
<1>6. CASE m.key # "_at_barrier" /\ m.sender # s
    <2>1. v = d
        BY <1>6 DEF HandleMsg
    <2>2. InStep(Append(p, m), s, v) /\ Ahead(d, v) /\ v.sync = d.sync
        BY <1>1, <1>6, <2>1, OtherInStep
    <2> QED BY <1>1, <2>2 DEF Ahead, OnMessage, d
<1> QED BY <1>2, <1>3, <1>4, <1>5, <1>6 DEF Is

LEMMA QueueEndInStep ==
    ASSUME NEW p \in Seq(WatchMsg), NEW s \in Subjects, NEW w, InStep(p, s, w), w.sync
    PROVE  LET v == QueueEnd(w, s)
           IN  InStep(p, s, v) /\ ~v.sync /\ v.tick = w.tick /\ v.atBarrier = w.atBarrier
<1> DEFINE v == QueueEnd(w, s)
           o == w.out \o w.queue
<1>1. w \in WatchType /\ Good(p, w) /\ w.queue \in Seq(WatchMsg) /\ w.out \in Seq(WatchMsg) /\ w.isReload
    BY DEF InStep, Follows, Good, WatchType, Sound
<1>2. Good(p, v)
    BY <1>1, QueueEndGood
<1>3. Range(o) = Range(w.out) \cup Range(w.queue)
    BY <1>1, RangeConcatenation
<1>4. v = [w EXCEPT !.sync = FALSE, !.isReload = FALSE, !.out = o]
    BY <1>1 DEF QueueEnd, WatchType
<1> HIDE DEF v, o
<1>5. /\ ~v.sync /\ v.tick = w.tick
      /\ v.gate = w.gate /\ v.atBarrier = w.atBarrier /\ v.received = w.received
      /\ v.queue = w.queue /\ v.out = o /\ v.stop = w.stop
    BY <1>1, <1>4 DEF WatchType
<1>6. Sends(v) = Sends(w)
    BY <1>3, <1>5 DEF Sends
<1>7. Follows(p, s, v)
    BY <1>2, <1>5, <1>6 DEF InStep, Follows, Past
<1>8. Replays(p, s, v)
    BY <1>5 DEF Replays
<1> QED BY <1>5, <1>7, <1>8 DEF InStep, v

LEMMA FreshInStep ==
    ASSUME NEW s \in Subjects
    PROVE  /\ InStep(<< >>, s, FreshWatch)
           /\ s \in Reloaders =>
                 LET v == StartWatch(QueueStart(FreshWatch), s)
                 IN  InStep(<< >>, s, v) /\ v.sync
<1>1. << >> \in Seq(WatchMsg) /\ DOMAIN << >> = {} /\ Range(<< >>) = {}
    BY DEF Range
<1>2. /\ \A t, k : ~Arrived(<< >>, t, k)
      /\ ~EndsPaused(<< >>, s)
    BY <1>1 DEF Arrived, EndsPaused
<1>3. \A k : Unmet(<< >>, k)
    BY <1>2 DEF Unmet
<1> DEFINE w == FreshWatch
           u == QueueStart(w)
           v == StartWatch(u, s)
<1>4. /\ ~w.sync /\ w.tick = 0 /\ ~w.executing /\ ~w.timer /\ w.gate = "open" /\ ~w.stop
      /\ w.queue = << >> /\ w.out = << >>
    BY DEF FreshWatch
<1>5. /\ u.sync /\ u.tick = 0 /\ ~u.executing /\ ~u.timer /\ u.gate = "open" /\ ~u.stop
      /\ u.queue = << >> /\ u.out = << >>
    BY DEF FreshWatch, QueueStart
<1>6. Good(<< >>, w) /\ Good(<< >>, u)
    BY FreshWatchGood
<1> HIDE DEF w, u
<1>7. Follows(<< >>, s, w) /\ Follows(<< >>, s, u)
    BY <1>1, <1>2, <1>4, <1>5, <1>6 DEF Follows, Sends
<1>8. InStep(<< >>, s, w)
    BY <1>3, <1>4, <1>7 DEF InStep, Replays
<1>9. /\ Follows(<< >>, s, v) /\ v.sync = u.sync /\ v.started /\ v.executing /\ v.atBarrier
    <2>1. /\ Follows(<< >>, s, v) /\ v.sync = u.sync /\ v.started
          /\ u.tick = 0 /\ ~u.executing /\ ~u.timer /\ u.gate = "open" => v.executing /\ v.atBarrier
        BY <1>1, <1>7, StartFollows
    <2> QED BY <1>5, <2>1
<1> HIDE DEF v
<1>10. s \in Reloaders => InStep(<< >>, s, v) /\ v.sync
    BY <1>3, <1>5, <1>9 DEF InStep, Replays
<1> QED BY <1>8, <1>10 DEF u, w, v

-----------------------------------------------------------------------------
(* The inductive invariant for the places                                  *)

(***************************************************************************)
(* Who has announced a tick had once come to it, not paused, in what had   *)
(* been logged by then.                                                    *)
(***************************************************************************)
LogOk(l) ==
    \A i \in DOMAIN l : l[i].key = "_at_barrier" => Had(Part(l, i - 1), l[i].sender, l[i].value)

(***************************************************************************)
(* What s has sent, in the log l and on the way in q: a page in which the  *)
(* watch runs is past it, and a replay of the first b messages will bring  *)
(* the watch to it.  Pauses and resumes take turns.                        *)
(***************************************************************************)
SentOk(l, q, n, b, o, s, w) ==
    /\ \A m \in Range(q) : m.sender = s /\ (m.key = "_at_barrier" => Had(l, s, m.value))
    /\ o /\ ~w.sync => \A m \in Range(l) \cup Range(q) : Announces(m, s) => Past(w, m)
    /\ o /\ w.sync => /\ n <= b
                      /\ \A m \in Range(l) \cup Range(q) :
                            Announces(m, s) => Had(Part(l, b), s, m.value)
    /\ InTurn(l, s) /\ InTurn(q, s) /\ ~(EndsPaused(l, s) /\ Begins(q, s))

\* A page is in step with what it has handled; those that are gone are back one day.
PageOk(l, n, o, s, w) == IF o THEN InStep(Part(l, n), s, w) ELSE s \in Reloaders

PlaceInv ==
    /\ WatchInv
    /\ LogOk(log)
    /\ \A s \in Subjects : /\ PageOk(log, seen[s], open[s], s, watch[s])
                           /\ SentOk(log, up[s], seen[s], backlog[s], open[s], s, watch[s])

LEMMA LogBacked ==
    ASSUME NEW l \in Seq(WatchMsg), LogOk(l), NEW n \in 0 .. Len(l)
    PROVE  AllBacked(Part(l, n), Part(l, n))
<1>1. /\ Part(l, n) \in Seq(WatchMsg) /\ DOMAIN Part(l, n) = 1 .. n /\ DOMAIN l = 1 .. Len(l)
      /\ Len(l) \in Nat /\ \A i \in 1 .. n : Part(l, n)[i] = l[i]
    BY PartIs, LenProperties
<1> SUFFICES ASSUME NEW i \in 1 .. n, l[i].key = "_at_barrier" PROVE Reached(Part(l, n), l[i].value)
    BY <1>1 DEF AllBacked, Backed
<1>2. i \in DOMAIN l /\ i - 1 \in 0 .. n
    BY <1>1
<1>3. Had(Part(l, i - 1), l[i].sender, l[i].value)
    BY <1>2 DEF LogOk
<1>4. Had(Part(l, n), l[i].sender, l[i].value)
    BY <1>2, <1>3, HadLater
<1> QED BY <1>1, <1>4, HadNow

\* What the log has of s could have been announced before.
LEMMA LoggedHad ==
    ASSUME NEW l \in Seq(WatchMsg), LogOk(l), NEW n \in 0 .. Len(l) - 1, NEW s, NEW k,
           Arrived(Part(l, n + 1), s, k)
    PROVE  Had(Part(l, n), s, k)
<1>1. /\ DOMAIN Part(l, n + 1) = 1 .. n + 1 /\ DOMAIN l = 1 .. Len(l) /\ Len(l) \in Nat
      /\ n \in 0 .. Len(l) /\ \A i \in 1 .. n + 1 : Part(l, n + 1)[i] = l[i]
    <2>1. n + 1 \in 0 .. Len(l) /\ n \in 0 .. Len(l) /\ Len(l) \in Nat
        BY LenProperties
    <2> QED BY <2>1, PartIs, LenProperties
<1>2. PICK i \in 1 .. n + 1 : l[i].key = "_at_barrier" /\ l[i].sender = s /\ l[i].value = k
    BY <1>1 DEF Arrived
<1>3. i \in DOMAIN l /\ i - 1 \in 0 .. n
    BY <1>1
<1>4. Had(Part(l, i - 1), s, k)
    BY <1>2, <1>3 DEF LogOk
<1> QED BY <1>1, <1>3, <1>4, HadLater

LEMMA AllHad ==
    ASSUME NEW l \in Seq(WatchMsg), LogOk(l), NEW m \in Range(l), m.key = "_at_barrier"
    PROVE  Had(l, m.sender, m.value)
<1>1. DOMAIN l = 1 .. Len(l) /\ Len(l) \in Nat
    BY LenProperties
<1>2. PICK i \in 1 .. Len(l) : l[i] = m
    BY <1>1 DEF Range
<1>3. i - 1 \in 0 .. Len(l) /\ Len(l) \in 0 .. Len(l)
    BY <1>1
<1>4. Had(Part(l, i - 1), m.sender, m.value)
    BY <1>1, <1>2 DEF LogOk
<1> QED BY <1>3, <1>4, HadLater

-----------------------------------------------------------------------------
(* The steps                                                               *)

LEMMA SentByPage ==
    ASSUME NEW l \in Seq(WatchMsg), NEW q \in Seq(WatchMsg), NEW n \in 0 .. Len(l), NEW b \in 0 .. Len(l),
           NEW s \in Subjects, NEW w, InStep(Part(l, n), s, w),
           \A m \in Range(q) : m.sender = s /\ (m.key = "_at_barrier" => Had(l, s, m.value)),
           InTurn(l, s) /\ InTurn(q, s) /\ ~(EndsPaused(l, s) /\ Begins(q, s)),
           ~w.sync => \A m \in Range(l) \cup Range(q) : Announces(m, s) => Past(w, m),
           w.sync => n <= b /\ \A m \in Range(l) \cup Range(q) :
                                   Announces(m, s) => Had(Part(l, b), s, m.value)
    PROVE  LET v == [w EXCEPT !.out = << >>]
           IN  InStep(Part(l, n), s, v) /\ SentOk(l, q \o w.out, n, b, TRUE, s, v)
<1> DEFINE v == [w EXCEPT !.out = << >>]
           p == Part(l, n)
           o == q \o w.out
<1>1. w \in WatchType /\ Good(p, w) /\ w.out \in Seq(WatchMsg) /\ w.sync \in BOOLEAN
    BY DEF InStep, Follows, Good, WatchType
<1>2. /\ v.sync = w.sync /\ v.started = w.started /\ v.tick = w.tick /\ v.executing = w.executing
      /\ v.gate = w.gate /\ v.atBarrier = w.atBarrier /\ v.received = w.received
      /\ v.queue = w.queue /\ v.out = << >> /\ v.stop = w.stop /\ v.wait = w.wait
    BY <1>1 DEF WatchType
<1>3. AllBacked(p, << >>) /\ << >> \in Seq(WatchMsg) /\ Range(<< >>) = {}
    BY DEF AllBacked, Range
<1>4. Good(p, v)
    BY <1>1, <1>3 DEF Good, Sound, WatchType
<1>5. \A m \in Range(w.out) : Announces(m, s) /\ Past(w, m) /\ Had(p, s, m.value)
    BY DEF InStep, Follows, Sends
<1>6. Range(o) = Range(q) \cup Range(w.out)
    BY <1>1, RangeConcatenation
<1>7. \A k : Had(p, s, k) => Had(l, s, k) /\ (n <= b => Had(Part(l, b), s, k))
    <2> SUFFICES ASSUME NEW k, Had(p, s, k) PROVE Had(l, s, k) /\ (n <= b => Had(Part(l, b), s, k))
        OBVIOUS
    <2>1. n \in 0 .. n /\ (n <= b => n \in 0 .. b)
        OBVIOUS
    <2> QED BY <2>1, HadLater
<1>8. /\ InTurn(q, s) => InTurn(o, s)
      /\ Begins(o, s) => Begins(q, s)
    <2>1. \A m \in Range(w.out) : ~Is(m, s, "_pause_")
        BY <1>5 DEF Announces, Is
    <2> QED BY <1>1, <2>1, TurnConcat
<1> HIDE DEF v, p, o
<1>9. InStep(p, s, v)
    <2>1. \A m \in Sends(v) : m \in Sends(w)
        BY <1>2, <1>3 DEF Sends
    <2>2. Follows(p, s, v)
        BY <1>2, <1>4, <2>1 DEF InStep, Follows, Past, p
    <2>3. Replays(p, s, v) /\ Unmet(p, v.tick)
        BY <1>2 DEF InStep, Replays, p
    <2> QED BY <2>2, <2>3 DEF InStep
<1>10. \A m \in Range(o) : m.sender = s /\ (m.key = "_at_barrier" => Had(l, s, m.value))
    BY <1>5, <1>6, <1>7 DEF Announces
<1>11. ~v.sync => \A m \in Range(l) \cup Range(o) : Announces(m, s) => Past(v, m)
    BY <1>2, <1>5, <1>6 DEF Past
<1>12. v.sync => n <= b /\ \A m \in Range(l) \cup Range(o) : Announces(m, s) => Had(Part(l, b), s, m.value)
    BY <1>2, <1>5, <1>6, <1>7
<1> QED BY <1>8, <1>9, <1>10, <1>11, <1>12 DEF SentOk, v, p, o

LEMMA PageStep ==
    ASSUME PlaceInv, WatchInv', NEW s \in Subjects, NEW w, Show(s, w), log' = log,
           NEW n \in 0 .. Len(log), seen' = [seen EXCEPT ![s] = n],
           NEW b \in 0 .. Len(log), backlog' = [backlog EXCEPT ![s] = b],
           open' = [open EXCEPT ![s] = TRUE],
           InStep(Part(log, n), s, w),
           ~w.sync => \A m \in Range(log) \cup Range(up[s]) : Announces(m, s) => Past(w, m),
           w.sync => n <= b /\ \A m \in Range(log) \cup Range(up[s]) :
                                   Announces(m, s) => Had(Part(log, b), s, m.value)
    PROVE  PlaceInv'
<1>1. /\ log \in Seq(WatchMsg) /\ up \in [Subjects -> Seq(WatchMsg)] /\ DOMAIN seen = Subjects
      /\ DOMAIN backlog = Subjects /\ DOMAIN open = Subjects /\ DOMAIN watch = Subjects
    BY DEF PlaceInv, WatchInv
<1>2. SentOk(log, up[s], seen[s], backlog[s], open[s], s, watch[s])
    BY DEF PlaceInv
<1> DEFINE v == [w EXCEPT !.out = << >>]
<1>3. InStep(Part(log, n), s, v) /\ SentOk(log, up[s] \o w.out, n, b, TRUE, s, v)
    <2>1. /\ up[s] \in Seq(WatchMsg)
          /\ \A m \in Range(up[s]) : m.sender = s /\ (m.key = "_at_barrier" => Had(log, s, m.value))
          /\ InTurn(log, s) /\ InTurn(up[s], s) /\ ~(EndsPaused(log, s) /\ Begins(up[s], s))
        BY <1>1, <1>2 DEF SentOk
    <2> QED BY <1>1, <2>1, SentByPage
<1>4. watch' = [watch EXCEPT ![s] = v] /\ up' = [up EXCEPT ![s] = up[s] \o w.out]
    BY DEF Show
<1> HIDE DEF v
<1>5. ASSUME NEW t \in Subjects
      PROVE  /\ PageOk(log, seen'[t], open'[t], t, watch'[t])
             /\ SentOk(log, up'[t], seen'[t], backlog'[t], open'[t], t, watch'[t])
    <2>1. CASE t = s
        <3>1. seen'[t] = n /\ open'[t] = TRUE /\ watch'[t] = v /\ backlog'[t] = b /\ up'[t] = up[s] \o w.out
            BY <1>1, <1>4, <2>1
        <3> QED BY <1>3, <2>1, <3>1 DEF PageOk
    <2>2. CASE t # s
        <3>1. seen'[t] = seen[t] /\ open'[t] = open[t] /\ watch'[t] = watch[t]
              /\ backlog'[t] = backlog[t] /\ up'[t] = up[t]
            BY <1>1, <1>4, <2>2
        <3> QED BY <3>1 DEF PlaceInv
    <2> QED BY <2>1, <2>2
<1>6. LogOk(log)
    BY DEF PlaceInv
<1>7. ASSUME NEW t \in Subjects
      PROVE  /\ PageOk(log', seen'[t], open'[t], t, watch'[t])
             /\ SentOk(log', up'[t], seen'[t], backlog'[t], open'[t], t, watch'[t])
    BY <1>5
<1> QED BY <1>6, <1>7 DEF PlaceInv

LEMMA LogGrows ==
    ASSUME NEW l \in Seq(WatchMsg), LogOk(l), NEW m \in WatchMsg,
           m.key = "_at_barrier" => Had(l, m.sender, m.value)
    PROVE  LogOk(Append(l, m))
<1> DEFINE r == Append(l, m)
<1>1. /\ Len(l) \in Nat /\ DOMAIN l = 1 .. Len(l) /\ DOMAIN r = 1 .. Len(l) + 1
      /\ r[Len(l) + 1] = m /\ \A i \in 1 .. Len(l) : r[i] = l[i]
    BY AppendProperties, LenProperties
<1>2. \A n \in 0 .. Len(l) : Part(r, n) = Part(l, n)
    BY PartOfAppend
<1>3. Part(l, Len(l)) = l
    BY PartIsAll
<1> HIDE DEF r
<1> SUFFICES ASSUME NEW i \in 1 .. Len(l) + 1, r[i].key = "_at_barrier"
             PROVE  Had(Part(r, i - 1), r[i].sender, r[i].value)
    BY <1>1 DEF LogOk, r
<1>4. CASE i \in 1 .. Len(l)
    <2>1. i - 1 \in 0 .. Len(l)
        BY <1>1
    <2>2. Had(Part(l, i - 1), l[i].sender, l[i].value)
        BY <1>1, <1>4 DEF LogOk
    <2> QED BY <1>1, <1>2, <1>4, <2>1, <2>2
<1>5. CASE i = Len(l) + 1
    <2>1. i - 1 = Len(l) /\ Len(l) \in 0 .. Len(l)
        BY <1>1, <1>5
    <2> QED BY <1>1, <1>2, <1>3, <1>5, <2>1
<1> QED BY <1>4, <1>5

\* What the router logs of another page leaves a page as it is.
LEMMA OthersSent ==
    ASSUME NEW l \in Seq(WatchMsg), NEW q \in Seq(WatchMsg), NEW n, NEW b \in 0 .. Len(l), NEW o, NEW w,
           NEW s, SentOk(l, q, n, b, o, s, w), NEW m \in WatchMsg, m.sender # s
    PROVE  SentOk(Append(l, m), q, n, b, o, s, w)
<1> DEFINE r == Append(l, m)
<1>1. /\ Range(r) = Range(l) \cup {m}
      /\ \A k : Had(l, s, k) => Had(r, s, k)
      /\ Part(r, b) = Part(l, b)
      /\ InTurn(l, s) => InTurn(r, s)
      /\ EndsPaused(r, s) => EndsPaused(l, s)
    BY RangeOfAppend, HadGrows, PartOfAppend, TurnAppend, PauseGrows DEF Is
<1>2. ~Announces(m, s)
    BY DEF Announces
<1> HIDE DEF r
<1>3. SentOk(r, q, n, b, o, s, w)
    BY <1>1, <1>2 DEF SentOk
<1> QED BY <1>3 DEF r

LEMMA OwnSent ==
    ASSUME NEW l \in Seq(WatchMsg), NEW q \in Seq(WatchMsg), q # << >>, NEW n, NEW b \in 0 .. Len(l),
           NEW o, NEW w, NEW s, SentOk(l, q, n, b, o, s, w)
    PROVE  SentOk(Append(l, Head(q)), Tail(q), n, b, o, s, w)
<1> DEFINE m == Head(q)
           r == Append(l, m)
           z == Tail(q)
<1>1. m \in WatchMsg /\ m \in Range(q) /\ z \in Seq(WatchMsg) /\ Range(z) \subseteq Range(q)
    <2>1. m \in WatchMsg /\ z \in Seq(WatchMsg) /\ m = q[1] /\ 1 \in DOMAIN q
          /\ 2 \in 1 .. Len(q) + 1 /\ Len(q) \in 0 .. Len(q) /\ z = SubSeq(q, 2, Len(q))
        BY EmptySeq, LenProperties
    <2>2. Range(z) \subseteq Range(q)
        BY <2>1, RangeOfPart
    <2> QED BY <2>1, <2>2 DEF Range
<1>2. /\ InTurn(l, s) /\ InTurn(q, s) /\ ~(EndsPaused(l, s) /\ Begins(q, s))
    BY DEF SentOk
<1>3. /\ InTurn(z, s)
      /\ Is(m, s, "_pause_") => Begins(q, s) /\ ~Begins(z, s)
      /\ Begins(z, s) => Begins(q, s) \/ Is(m, s, "_resume_")
    BY <1>2, TurnTail
<1> HIDE DEF m, z
<1>4. /\ Range(r) = Range(l) \cup {m}
      /\ \A k : Had(l, s, k) => Had(r, s, k)
      /\ Part(r, b) = Part(l, b)
    BY <1>1, RangeOfAppend, HadGrows, PartOfAppend
<1>5. /\ InTurn(l, s) /\ (Is(m, s, "_pause_") => ~EndsPaused(l, s)) => InTurn(r, s)
      /\ EndsPaused(r, s) => Is(m, s, "_pause_") \/ (EndsPaused(l, s) /\ ~Is(m, s, "_resume_"))
    BY <1>1, TurnAppend, PauseGrows
<1> HIDE DEF r
<1>6. InTurn(r, s) /\ InTurn(z, s) /\ ~(EndsPaused(r, s) /\ Begins(z, s))
    BY <1>2, <1>3, <1>5
<1>7. \A x \in Range(z) : x.sender = s /\ (x.key = "_at_barrier" => Had(r, s, x.value))
    BY <1>1, <1>4 DEF SentOk
<1>8. \A x \in Range(r) \cup Range(z) : x \in Range(l) \cup Range(q)
    BY <1>1, <1>4
<1>9. SentOk(r, z, n, b, o, s, w)
    BY <1>4, <1>6, <1>7, <1>8 DEF SentOk
<1> QED BY <1>9 DEF r, z, m

LEMMA HandlePlace ==
    ASSUME PlaceInv, WatchInv', NEW s \in Subjects, Handle(s)
    PROVE  PlaceInv'
<1> DEFINE m == Head(up[s])
<1>1. /\ log \in Seq(WatchMsg) /\ up \in [Subjects -> Seq(WatchMsg)]
      /\ seen \in [Subjects -> 0 .. Len(log)] /\ backlog \in [Subjects -> 0 .. Len(log)]
    BY DEF PlaceInv, WatchInv
<1>2. /\ up[s] # << >> /\ log' = Append(log, m) /\ up' = [up EXCEPT ![s] = Tail(up[s])]
      /\ UNCHANGED <<seen, backlog, open, watch>>
    BY DEF Handle
<1>3. m \in WatchMsg /\ m \in Range(up[s])
    <2>1. up[s] \in Seq(WatchMsg)
        BY <1>1
    <2>2. m \in WatchMsg /\ m = up[s][1] /\ 1 \in DOMAIN up[s]
        BY <1>2, <2>1, EmptySeq, LenProperties
    <2> QED BY <2>2 DEF Range
<1>4. \A t \in Subjects : /\ PageOk(log, seen[t], open[t], t, watch[t])
                          /\ SentOk(log, up[t], seen[t], backlog[t], open[t], t, watch[t])
    BY DEF PlaceInv
<1>5. m.sender = s /\ (m.key = "_at_barrier" => Had(log, s, m.value))
    BY <1>3, <1>4 DEF SentOk
<1> DEFINE r == Append(log, m)
<1>6. LogOk(r)
    BY <1>1, <1>3, <1>5, LogGrows DEF PlaceInv
<1>7. ASSUME NEW t \in Subjects
      PROVE  /\ PageOk(r, seen[t], open[t], t, watch[t])
             /\ SentOk(r, up'[t], seen[t], backlog[t], open[t], t, watch[t])
    <2>1. Part(r, seen[t]) = Part(log, seen[t])
        BY <1>1, <1>3, PartOfAppend
    <2>2. PageOk(r, seen[t], open[t], t, watch[t])
        BY <1>4, <2>1 DEF PageOk
    <2>3. CASE t = s
        <3>1. up'[t] = Tail(up[s])
            BY <1>1, <1>2, <2>3
        <3>2. up[s] \in Seq(WatchMsg) /\ up[s] # << >> /\ backlog[s] \in 0 .. Len(log)
            BY <1>1, <1>2
        <3>3. SentOk(r, Tail(up[s]), seen[s], backlog[s], open[s], s, watch[s])
            BY <1>1, <1>4, <3>2, OwnSent
        <3> QED BY <2>2, <2>3, <3>1, <3>3
    <2>4. CASE t # s
        <3>1. up'[t] = up[t] /\ up[t] \in Seq(WatchMsg) /\ backlog[t] \in 0 .. Len(log)
            BY <1>1, <1>2, <2>4
        <3>2. m.sender # t
            BY <1>5, <2>4
        <3> HIDE DEF m
        <3>3. SentOk(r, up[t], seen[t], backlog[t], open[t], t, watch[t])
            BY <1>1, <1>3, <1>4, <3>1, <3>2, OthersSent
        <3> QED BY <2>2, <3>1, <3>3
    <2> QED BY <2>3, <2>4
<1> HIDE DEF r
<1>8. log' = r
    BY <1>2 DEF r
<1>9. LogOk(log)'
    BY <1>6, <1>8
<1>10. ASSUME NEW t \in Subjects
       PROVE  /\ PageOk(log', seen'[t], open'[t], t, watch'[t])
              /\ SentOk(log', up'[t], seen'[t], backlog'[t], open'[t], t, watch'[t])
    BY <1>2, <1>7, <1>8
<1> QED BY <1>9, <1>10 DEF PlaceInv

LEMMA PlaceStart == Init => PlaceInv
<1> SUFFICES ASSUME Init PROVE PlaceInv
    OBVIOUS
<1>1. << >> \in Seq(WatchMsg) /\ DOMAIN << >> = {} /\ Range(<< >>) = {} /\ Len(<< >>) = 0
    BY DEF Range
<1>2. LogOk(<< >>)
    BY <1>1 DEF LogOk
<1>3. Part(<< >>, 0) = << >>
    BY <1>1, PartIsAll
<1>4. ASSUME NEW s \in Subjects
      PROVE  /\ PageOk(<< >>, 0, TRUE, s, FreshWatch)
             /\ SentOk(<< >>, << >>, 0, 0, TRUE, s, FreshWatch)
    <2>1. InStep(<< >>, s, FreshWatch) /\ ~FreshWatch.sync
        BY FreshInStep DEF FreshWatch
    <2>2. InTurn(<< >>, s) /\ ~EndsPaused(<< >>, s)
        BY <1>1 DEF InTurn, EndsPaused
    <2> HIDE DEF FreshWatch
    <2> QED BY <1>1, <1>3, <2>1, <2>2 DEF PageOk, SentOk
<1>5. log = << >> /\ \A s \in Subjects :
          up[s] = << >> /\ seen[s] = 0 /\ backlog[s] = 0 /\ open[s] = TRUE /\ watch[s] = FreshWatch
    BY DEF Init
<1>6. WatchInv
    BY WatchStart
<1> HIDE DEF FreshWatch
<1> QED BY <1>2, <1>4, <1>5, <1>6 DEF PlaceInv

LEMMA PageFacts ==
    ASSUME PlaceInv, NEW s \in Subjects
    PROVE  /\ log \in Seq(WatchMsg) /\ LogOk(log) /\ Len(log) \in Nat
           /\ up[s] \in Seq(WatchMsg) /\ Range(log) \subseteq WatchMsg /\ Range(up[s]) \subseteq WatchMsg
           /\ seen[s] \in 0 .. Len(log) /\ backlog[s] \in 0 .. Len(log) /\ open[s] \in BOOLEAN
           /\ DOMAIN seen = Subjects /\ DOMAIN backlog = Subjects /\ DOMAIN open = Subjects
           /\ DOMAIN watch = Subjects /\ DOMAIN up = Subjects
           /\ Part(log, seen[s]) \in Seq(WatchMsg)
           /\ PageOk(log, seen[s], open[s], s, watch[s])
           /\ SentOk(log, up[s], seen[s], backlog[s], open[s], s, watch[s])
           /\ open[s] => InStep(Part(log, seen[s]), s, watch[s])
           /\ watch[s] \in WatchType /\ watch[s].tick \in Nat /\ watch[s].out = << >>
<1>1. /\ log \in Seq(WatchMsg) /\ up[s] \in Seq(WatchMsg) /\ open[s] \in BOOLEAN
      /\ seen[s] \in 0 .. Len(log) /\ backlog[s] \in 0 .. Len(log)
      /\ DOMAIN seen = Subjects /\ DOMAIN backlog = Subjects /\ DOMAIN open = Subjects
      /\ DOMAIN watch = Subjects /\ DOMAIN up = Subjects
      /\ watch[s] \in WatchType /\ watch[s].out = << >>
    BY DEF PlaceInv, WatchInv
<1>2. Range(log) \subseteq WatchMsg /\ Range(up[s]) \subseteq WatchMsg
    BY <1>1, RangeOfSeq
<1>3. Len(log) \in Nat /\ Part(log, seen[s]) \in Seq(WatchMsg)
    BY <1>1, LenProperties, PartIs
<1>4. /\ LogOk(log)
      /\ PageOk(log, seen[s], open[s], s, watch[s])
      /\ SentOk(log, up[s], seen[s], backlog[s], open[s], s, watch[s])
    BY DEF PlaceInv
<1>5. open[s] => InStep(Part(log, seen[s]), s, watch[s])
    BY <1>4 DEF PageOk
<1>6. watch[s].tick \in Nat
    BY <1>1, WatchAssumption DEF WatchType
<1> QED BY <1>1, <1>2, <1>3, <1>4, <1>5, <1>6

\* Who goes on in the watch that runs is still past what it has announced.
LEMMA PastAll ==
    ASSUME PlaceInv, NEW s \in Subjects, open[s], ~watch[s].sync, NEW v, v.tick \in Nat,
           Ahead(watch[s], v), NEW m \in Range(log) \cup Range(up[s]), Announces(m, s)
    PROVE  Past(v, m)
<1>1. Past(watch[s], m) /\ m \in WatchMsg /\ watch[s].tick \in Nat
    BY PageFacts DEF SentOk
<1>2. m.value \in Nat
    BY <1>1, WatchAssumption DEF WatchMsg, Ticks
<1> QED BY <1>1, <1>2, PastStays

\* An operation in a watch that runs, with nothing read from the log.
LEMMA RunStep ==
    ASSUME PlaceInv, WatchInv', NEW s \in Subjects, open[s], ~watch[s].sync,
           NEW w, Follows(Part(log, seen[s]), s, w), Ahead(watch[s], w),
           w.tick = watch[s].tick, w.sync = watch[s].sync,
           Show(s, w), UNCHANGED <<log, seen, backlog, open>>
    PROVE  PlaceInv'
<1>1. InStep(Part(log, seen[s]), s, w)
    BY PageFacts DEF InStep, Replays
<1>2. \A m \in Range(log) \cup Range(up[s]) : Announces(m, s) => Past(w, m)
    BY PastAll, PageFacts
<1>3. /\ seen[s] \in 0 .. Len(log) /\ seen' = [seen EXCEPT ![s] = seen[s]]
      /\ backlog[s] \in 0 .. Len(log) /\ backlog' = [backlog EXCEPT ![s] = backlog[s]]
      /\ open' = [open EXCEPT ![s] = TRUE]
    BY PageFacts DEF PlaceInv, WatchInv
<1> QED BY <1>1, <1>2, <1>3, PageStep

LEMMA ReceivePlace ==
    ASSUME PlaceInv, WatchInv', NEW s \in Subjects, Receive(s)
    PROVE  PlaceInv'
<1> DEFINE n == seen[s]
           m == log[n + 1]
           p == Part(log, n)
           v == OnMessage(watch[s], s, m)
<1>1. /\ open[s] /\ n < IF watch[s].sync THEN backlog[s] ELSE Len(log)
      /\ Show(s, v) /\ seen' = [seen EXCEPT ![s] = n + 1]
      /\ log' = log /\ UNCHANGED <<backlog, open>>
    BY DEF Receive
<1>2. /\ log \in Seq(WatchMsg) /\ LogOk(log) /\ n \in 0 .. Len(log) - 1 /\ Len(log) \in Nat
      /\ p \in Seq(WatchMsg) /\ InStep(p, s, watch[s]) /\ backlog[s] \in 0 .. Len(log)
      /\ watch[s].tick \in Nat /\ n \in 0 .. Len(log)
    BY <1>1, PageFacts
<1>3. SentOk(log, up[s], seen[s], backlog[s], open[s], s, watch[s])
    BY PageFacts
<1> HIDE DEF n
<1>4. m \in WatchMsg /\ Part(log, n + 1) = Append(p, m) /\ n + 1 \in 0 .. Len(log)
    BY <1>2, PartNext
<1>5. AllBacked(p, p)
    BY <1>2, LogBacked
<1>6. ASSUME watch[s].tick \in Ticks, Arrived(Append(p, m), s, watch[s].tick) PROVE watch[s].atBarrier
    <2>1. Arrived(Part(log, n + 1), s, watch[s].tick)
        BY <1>4, <1>6
    <2>2. CASE watch[s].sync
        <3>1. Had(p, s, watch[s].tick)
            BY <1>2, <2>1, LoggedHad
        <3> QED BY <1>2, <1>6, <2>2, <3>1 DEF InStep, Replays
    <2>3. CASE ~watch[s].sync
        <3>1. Arrived(log, s, watch[s].tick)
            BY <1>2, <1>4, <2>1, ArrivedPart
        <3>2. PICK x \in Range(log) : Announces(x, s) /\ x.value = watch[s].tick
            BY <3>1 DEF Arrived, Announces, Range
        <3>3. Past(watch[s], x)
            BY <1>1, <1>3, <2>3, <3>2 DEF SentOk
        <3> QED BY <1>2, <3>2, <3>3 DEF Past
    <2> QED BY <2>2, <2>3
<1>7. Is(m, s, "_pause_") => ~EndsPaused(p, s)
    BY <1>2, <1>3, TurnHere DEF SentOk
<1>8. InStep(Part(log, n + 1), s, v) /\ Ahead(watch[s], v) /\ v.sync = watch[s].sync
    <2> HIDE DEF m, p
    <2>1. InStep(Append(p, m), s, v) /\ Ahead(watch[s], v) /\ v.sync = watch[s].sync
        BY <1>2, <1>4, <1>5, <1>6, <1>7, OnMessageInStep
    <2> QED BY <1>4, <2>1
<1>9. v.tick \in Nat
    BY <1>8, WatchAssumption DEF InStep, Follows, Good, WatchType
<1> HIDE DEF v, m, p
<1>10. ~v.sync => \A x \in Range(log) \cup Range(up[s]) : Announces(x, s) => Past(v, x)
    BY <1>1, <1>8, <1>9, PastAll
<1>11. v.sync => n + 1 <= backlog[s] /\ \A x \in Range(log) \cup Range(up[s]) :
                    Announces(x, s) => Had(Part(log, backlog[s]), s, x.value)
    <2>1. v.sync => n + 1 <= backlog[s]
        BY <1>1, <1>2, <1>8
    <2> QED BY <1>1, <1>3, <1>8, <2>1 DEF SentOk
<1>12. /\ backlog' = [backlog EXCEPT ![s] = backlog[s]]
       /\ open' = [open EXCEPT ![s] = TRUE]
    BY <1>1 DEF PlaceInv, WatchInv
<1> QED BY <1>1, <1>2, <1>4, <1>8, <1>10, <1>11, <1>12, PageStep

\* A script that pauses or resumes leaves its watch as it is.
LEMMA ScriptStep ==
    ASSUME PlaceInv, WatchInv', NEW s \in Subjects, open[s], ~watch[s].sync,
           NEW m \in WatchMsg, m.sender = s, m.key # "_at_barrier",
           Is(m, s, "_pause_") => ~IsPaused(s),
           Show(s, Send(watch[s], s, m)), UNCHANGED <<log, seen, backlog, open>>
    PROVE  PlaceInv'
<1> DEFINE w == watch[s]
           q == up[s]
<1>1. /\ log \in Seq(WatchMsg) /\ q \in Seq(WatchMsg) /\ w \in WatchType /\ w.out = << >>
      /\ DOMAIN watch = Subjects /\ DOMAIN up = Subjects
      /\ SentOk(log, q, seen[s], backlog[s], open[s], s, w)
    BY PageFacts
<1>2. OnWire(m) = m
    BY DEF OnWire, WatchMsg, Undefined, Period
<1>3. Send(w, s, m) = [w EXCEPT !.out = << m >>]
    <2>1. Append(<< >>, m) = << m >>
        OBVIOUS
    <2> QED BY <1>1, <1>2, <2>1 DEF Send, DefaultSend
<1> DEFINE x == [w EXCEPT !.out = << m >>]
<1>4. x.out = << m >> /\ [x EXCEPT !.out = << >>] = w
    BY <1>1 DEF WatchType
<1> HIDE DEF x
<1>5. Append(q, m) = q \o << m >>
    BY <1>1, AppendIsConcat
<1>6. watch' = watch /\ up' = [up EXCEPT ![s] = Append(q, m)]
    <2>1. Show(s, x)
        BY <1>3 DEF x
    <2>2. watch' = [watch EXCEPT ![s] = w]
        BY <1>4, <2>1 DEF Show
    <2>3. up' = [up EXCEPT ![s] = Append(q, m)]
        BY <1>4, <1>5, <2>1 DEF Show
    <2>4. watch \in [Subjects -> WatchType]
        BY DEF PlaceInv, WatchInv
    <2> QED BY <2>2, <2>3, <2>4
<1> HIDE DEF w, q
<1>7. SentOk(log, Append(q, m), seen[s], backlog[s], open[s], s, w)
    <2>1. Range(Append(q, m)) = Range(q) \cup {m}
        BY <1>1, RangeOfAppend
    <2>2. ~Announces(m, s)
        BY DEF Announces
    <2>3. /\ InTurn(log, s) /\ InTurn(q, s) /\ ~(EndsPaused(log, s) /\ Begins(q, s))
        BY <1>1 DEF SentOk
    <2>4. /\ Is(m, s, "_pause_") => ~EndsPaused(q, s)
          /\ Is(m, s, "_pause_") /\ EndsPaused(log, s) => ~\A y \in Range(q) : ~Is(y, s, "_resume_")
        <3>1. Is(m, s, "_pause_") => ~EndsPaused(log \o q, s)
            BY DEF IsPaused, q
        <3> QED BY <1>1, <3>1, PauseConcat
    <2>5. InTurn(Append(q, m), s)
        BY <1>1, <2>3, <2>4, TurnAppend
    <2>6. ~(EndsPaused(log, s) /\ Begins(Append(q, m), s))
        BY <1>1, <2>3, <2>4, TurnAppend
    <2> QED BY <1>1, <2>1, <2>2, <2>3, <2>5, <2>6 DEF SentOk
<1>8. ASSUME NEW t \in Subjects
      PROVE  /\ PageOk(log', seen'[t], open'[t], t, watch'[t])
             /\ SentOk(log', up'[t], seen'[t], backlog'[t], open'[t], t, watch'[t])
    <2>1. /\ PageOk(log, seen[t], open[t], t, watch[t])
          /\ SentOk(log, up[t], seen[t], backlog[t], open[t], t, watch[t])
        BY DEF PlaceInv
    <2>2. CASE t = s
        <3>1. up'[t] = Append(q, m)
            BY <1>1, <1>6, <2>2
        <3> QED BY <1>6, <1>7, <2>1, <2>2, <3>1 DEF w
    <2>3. CASE t # s
        <3>1. up'[t] = up[t]
            BY <1>1, <1>6, <2>3
        <3> QED BY <1>6, <2>1, <3>1
    <2> QED BY <2>2, <2>3
<1>9. LogOk(log)'
    BY DEF PlaceInv
<1> QED BY <1>8, <1>9 DEF PlaceInv

LEMMA ReloadPlace ==
    ASSUME PlaceInv, WatchInv', NEW s \in Subjects, Reload(s)
    PROVE  PlaceInv'
<1>1. PICK n \in 0 .. Len(up[s]) : up' = [up EXCEPT ![s] = SubSeq(up[s], 1, n)]
    BY DEF Reload
<1>2. /\ s \in Reloaders /\ open' = [open EXCEPT ![s] = FALSE]
      /\ watch' = [watch EXCEPT ![s] = FreshWatch] /\ UNCHANGED <<log, seen, backlog>>
    BY DEF Reload
<1> DEFINE q == Part(up[s], n)
<1>3. /\ up[s] \in Seq(WatchMsg)
      /\ DOMAIN watch = Subjects /\ DOMAIN up = Subjects /\ DOMAIN open = Subjects
      /\ SentOk(log, up[s], seen[s], backlog[s], open[s], s, watch[s])
    BY PageFacts
<1>4. Range(q) \subseteq Range(up[s])
    <2>1. n \in 0 .. Len(up[s]) /\ 1 \in 1 .. Len(up[s]) + 1
        BY <1>3, LenProperties
    <2> QED BY <1>3, <2>1, RangeOfPart DEF Part
<1>5. /\ InTurn(up[s], s) => InTurn(q, s)
      /\ Begins(q, s) => Begins(up[s], s)
    BY <1>3, TurnPart
<1>6. up' = [up EXCEPT ![s] = q]
    BY <1>1 DEF Part
<1> HIDE DEF q, FreshWatch
<1>7. SentOk(log, q, seen[s], backlog[s], FALSE, s, FreshWatch)
    BY <1>3, <1>4, <1>5 DEF SentOk
<1>8. ASSUME NEW t \in Subjects
      PROVE  /\ PageOk(log', seen'[t], open'[t], t, watch'[t])
             /\ SentOk(log', up'[t], seen'[t], backlog'[t], open'[t], t, watch'[t])
    <2>1. /\ PageOk(log, seen[t], open[t], t, watch[t])
          /\ SentOk(log, up[t], seen[t], backlog[t], open[t], t, watch[t])
        BY DEF PlaceInv
    <2>2. CASE t = s
        <3>1. up'[t] = q /\ open'[t] = FALSE /\ watch'[t] = FreshWatch
            BY <1>2, <1>3, <1>6, <2>2
        <3> QED BY <1>2, <1>7, <2>2, <3>1 DEF PageOk
    <2>3. CASE t # s
        <3>1. up'[t] = up[t] /\ open'[t] = open[t] /\ watch'[t] = watch[t]
            BY <1>2, <1>3, <1>6, <2>3
        <3> QED BY <1>2, <2>1, <3>1
    <2> QED BY <2>2, <2>3
<1>9. LogOk(log)'
    BY <1>2 DEF PlaceInv
<1> QED BY <1>8, <1>9 DEF PlaceInv

LEMMA StartReplayPlace ==
    ASSUME PlaceInv, WatchInv', NEW s \in Subjects, StartReplay(s)
    PROVE  PlaceInv'
<1> DEFINE v == StartWatch(QueueStart(FreshWatch), s)
<1>1. /\ ~open[s] /\ open' = [open EXCEPT ![s] = TRUE] /\ seen' = [seen EXCEPT ![s] = 0]
      /\ backlog' = [backlog EXCEPT ![s] = Len(log)] /\ Show(s, v) /\ log' = log
    BY DEF StartReplay
<1>2. /\ log \in Seq(WatchMsg) /\ LogOk(log) /\ Len(log) \in Nat
      /\ PageOk(log, seen[s], open[s], s, watch[s])
      /\ SentOk(log, up[s], seen[s], backlog[s], open[s], s, watch[s])
    BY PageFacts
<1>3. s \in Reloaders
    BY <1>1, <1>2 DEF PageOk
<1>4. InStep(<< >>, s, v) /\ v.sync
    BY <1>3, FreshInStep
<1>5. Part(log, 0) = << >> /\ 0 \in 0 .. Len(log) /\ Len(log) \in 0 .. Len(log)
    BY <1>2, SubSeqEmpty DEF Part
<1>6. Part(log, Len(log)) = log
    BY <1>2, PartIsAll
<1> HIDE DEF v
<1>7. ASSUME NEW m \in Range(log) \cup Range(up[s]), Announces(m, s)
      PROVE  Had(Part(log, Len(log)), s, m.value)
    <2>1. CASE m \in Range(log)
        BY <1>2, <1>6, <1>7, <2>1, AllHad DEF Announces
    <2>2. CASE m \in Range(up[s])
        BY <1>2, <1>6, <1>7, <2>2 DEF Announces, SentOk
    <2> QED BY <2>1, <2>2
<1>8. 0 <= Len(log)
    BY <1>2
<1>9. InStep(Part(log, 0), s, v)
    BY <1>4, <1>5
<1> QED BY <1>1, <1>4, <1>5, <1>7, <1>8, <1>9, PageStep

(***************************************************************************)
(* At the end of a replay the watch has come to every tick that s had      *)
(* announced before, and is at the barrier if it was there.                *)
(***************************************************************************)
LEMMA EndReplayPlace ==
    ASSUME PlaceInv, WatchInv', NEW s \in Subjects, EndReplay(s)
    PROVE  PlaceInv'
<1> DEFINE w == watch[s]
           n == seen[s]
           p == Part(log, n)
           v == QueueEnd(w, s)
<1>1. open[s] /\ w.sync /\ n = backlog[s] /\ Show(s, v) /\ UNCHANGED <<log, seen, backlog, open>>
    BY DEF EndReplay
<1>2. /\ log \in Seq(WatchMsg) /\ n \in 0 .. Len(log) /\ backlog[s] \in 0 .. Len(log)
      /\ p \in Seq(WatchMsg) /\ InStep(p, s, w) /\ w \in WatchType /\ w.tick \in Nat
      /\ SentOk(log, up[s], n, backlog[s], open[s], s, w)
      /\ Range(log) \subseteq WatchMsg /\ Range(up[s]) \subseteq WatchMsg
    BY <1>1, PageFacts
<1>3. /\ seen' = [seen EXCEPT ![s] = n] /\ backlog' = [backlog EXCEPT ![s] = backlog[s]]
      /\ open' = [open EXCEPT ![s] = TRUE]
    BY <1>1 DEF PlaceInv, WatchInv
<1> HIDE DEF w, n
<1>4. InStep(p, s, v) /\ ~v.sync /\ v.tick = w.tick /\ v.atBarrier = w.atBarrier
    BY <1>1, <1>2, QueueEndInStep
<1> HIDE DEF v
<1>5. ASSUME NEW m \in Range(log) \cup Range(up[s]), Announces(m, s) PROVE Past(v, m)
    <2>1. Had(p, s, m.value)
        BY <1>1, <1>2, <1>5 DEF SentOk
    <2>2. m.value \in Ticks
        BY <1>2 DEF WatchMsg
    <2>3. m.value \in Nat /\ (w.tick <= m.value => w.tick \in Ticks)
        BY <1>2, <2>2, WatchAssumption DEF Ticks
    <2>4. Reached(p, m.value)
        BY <1>2, <2>1, HadNow
    <2>5. ~(w.tick < m.value)
        <3> SUFFICES ASSUME w.tick < m.value PROVE FALSE
            OBVIOUS
        <3>1. w.tick \in Ticks /\ w.tick \in 0 .. m.value - 1
            BY <1>2, <2>3
        <3>2. \A t \in Subjects : Arrived(p, t, w.tick)
            BY <2>4, <3>1 DEF Reached
        <3> QED BY <1>2, <3>1, <3>2 DEF InStep, Unmet
    <2>6. CASE m.value = w.tick
        <3>1. w.atBarrier
            BY <1>1, <1>2, <2>1, <2>2, <2>6 DEF InStep, Replays
        <3> QED BY <1>4, <2>6, <3>1 DEF Past
    <2>7. CASE m.value < w.tick
        BY <1>4, <2>7 DEF Past
    <2> QED BY <1>2, <2>3, <2>5, <2>6, <2>7
<1> HIDE DEF p
<1>6. InStep(Part(log, n), s, v)
    BY <1>4 DEF p
<1> QED BY <1>1, <1>2, <1>3, <1>4, <1>5, <1>6, PageStep

LEMMA PlaceStep == PlaceInv /\ [Next]_vars => PlaceInv'
<1> SUFFICES ASSUME PlaceInv, [Next]_vars PROVE PlaceInv'
    OBVIOUS
<1>1. WatchInv'
    BY WatchStep DEF PlaceInv
<1>2. CASE UNCHANGED vars
    <2>1. /\ log' = log /\ up' = up /\ seen' = seen /\ backlog' = backlog /\ open' = open /\ watch' = watch
        BY <1>2 DEF vars
    <2>2. ASSUME NEW t \in Subjects
          PROVE  /\ PageOk(log', seen'[t], open'[t], t, watch'[t])
                 /\ SentOk(log', up'[t], seen'[t], backlog'[t], open'[t], t, watch'[t])
        BY <2>1 DEF PlaceInv
    <2>3. LogOk(log)'
        BY <2>1 DEF PlaceInv
    <2> QED BY <1>1, <2>2, <2>3 DEF PlaceInv
<1>3. ASSUME NEW s \in Subjects, open[s], ~watch[s].sync
      PROVE  /\ Follows(Part(log, seen[s]), s, watch[s]) /\ Part(log, seen[s]) \in Seq(WatchMsg)
             /\ watch[s] \in WatchType /\ watch[s].tick \in Nat
    BY <1>3, PageFacts DEF InStep
<1>4. ASSUME NEW s \in Subjects, Start(s) PROVE PlaceInv'
    <2>1. /\ open[s] /\ ~watch[s].started /\ Show(s, StartWatch(watch[s], s))
          /\ UNCHANGED <<log, seen, backlog, open>>
        BY <1>4 DEF Start
    <2>2. ~watch[s].sync
        BY <2>1, PageFacts DEF InStep, Replays
    <2> DEFINE v == StartWatch(watch[s], s)
    <2>3. /\ Follows(Part(log, seen[s]), s, v) /\ Ahead(watch[s], v)
          /\ v.sync = watch[s].sync /\ v.tick = watch[s].tick
        BY <1>3, <2>1, <2>2, StartFollows
    <2> HIDE DEF v
    <2>4. Show(s, v)
        BY <2>1 DEF v
    <2> QED BY <1>1, <2>1, <2>2, <2>3, <2>4, RunStep
<1>5. ASSUME NEW s \in Subjects, open[s], ~watch[s].sync, watch[s].tick \in Ticks,
             NEW stop \in BOOLEAN, s \in Starters => ~stop, Show(s, ExecuteTick(watch[s], s, stop)),
             UNCHANGED <<log, seen, backlog, open>>
      PROVE  PlaceInv'
    <2> DEFINE v == ExecuteTick(watch[s], s, stop)
    <2>1. Follows(Part(log, seen[s]), s, v) /\ Ahead(watch[s], v)
        BY <1>3, <1>5, ExecuteFollows
    <2>2. v.sync = watch[s].sync /\ v.tick = watch[s].tick
        BY <1>3, <1>5, ExecuteTickIs
    <2> HIDE DEF v
    <2>3. Show(s, v)
        BY <1>5 DEF v
    <2> QED BY <1>1, <1>5, <2>1, <2>2, <2>3, RunStep
<1>6. ASSUME NEW s \in Subjects, DoNextTick(s) PROVE PlaceInv'
    <2>1. /\ open[s] /\ s \notin Starters /\ watch[s].tick < Target
          /\ Show(s, ExecuteTick(watch[s], s, TRUE)) /\ UNCHANGED <<log, seen, backlog, open>>
        BY <1>6 DEF DoNextTick
    <2>2. ~watch[s].sync
        BY <2>1, PageFacts, WatchAssumption DEF InStep, Replays
    <2>3. watch[s].tick \in Ticks
        BY <1>3, <2>1, <2>2, WatchAssumption DEF Ticks
    <2> QED BY <1>5, <2>1, <2>2, <2>3
<1>7. ASSUME NEW s \in Subjects, Timeout(s) PROVE PlaceInv'
    <2>1. /\ open[s] /\ watch[s].timer
          /\ Show(s, ExecuteTick(watch[s], s, FALSE)) /\ UNCHANGED <<log, seen, backlog, open>>
        BY <1>7 DEF Timeout
    <2>2. InStep(Part(log, seen[s]), s, watch[s])
        BY <2>1, PageFacts
    <2>3. watch[s].tick \in Ticks /\ ~watch[s].executing
        BY <2>1, <2>2 DEF InStep, Follows, Good, Sound
    <2>4. ~watch[s].sync
        BY <2>2, <2>3 DEF InStep, Replays
    <2> QED BY <1>5, <2>1, <2>3, <2>4
<1>8. ASSUME NEW s \in Subjects, NEW key \in {"_pause_", "_resume_"}
      PROVE  /\ Watch(s, key, 0) \in WatchMsg /\ Watch(s, key, 0).sender = s
             /\ Watch(s, key, 0).key = key
    <2>1. 0 \in Ticks
        BY WatchAssumption DEF Ticks
    <2> QED BY <2>1, WatchIsMsg DEF Watch, Message
<1>9. ASSUME NEW s \in Subjects, Pause(s) PROVE PlaceInv'
    <2> DEFINE m == Watch(s, "_pause_", 0)
    <2>1. /\ open[s] /\ ~watch[s].sync /\ ~IsPaused(s)
          /\ Show(s, Send(watch[s], s, m)) /\ UNCHANGED <<log, seen, backlog, open>>
        BY <1>9 DEF Pause
    <2>2. m \in WatchMsg /\ m.sender = s /\ m.key # "_at_barrier"
        BY <1>8
    <2> HIDE DEF m
    <2> QED BY <1>1, <2>1, <2>2, ScriptStep
<1>10. ASSUME NEW s \in Subjects, Resume(s) PROVE PlaceInv'
    <2> DEFINE m == Watch(s, "_resume_", 0)
    <2>1. /\ open[s] /\ ~watch[s].sync
          /\ Show(s, Send(watch[s], s, m)) /\ UNCHANGED <<log, seen, backlog, open>>
        BY <1>10 DEF Resume
    <2>2. m \in WatchMsg /\ m.sender = s /\ m.key # "_at_barrier" /\ ~Is(m, s, "_pause_")
        BY <1>8 DEF Is
    <2> HIDE DEF m
    <2> QED BY <1>1, <2>1, <2>2, ScriptStep
<1> QED BY <1>1, <1>2, <1>4, <1>6, <1>7, <1>9, <1>10, HandlePlace, ReceivePlace, ReloadPlace,
           StartReplayPlace, EndReplayPlace DEF Next, Page

(***************************************************************************)
(* Every page keeps in step with the part of the log that it has handled.  *)
(***************************************************************************)
THEOREM PlaceInductive == Spec => []PlaceInv
BY PlaceStart, PlaceStep, PTL DEF Spec

(***************************************************************************)
(* A page that has handled the log is at the first tick that not everybody *)
(* has announced, whatever was paused or reloaded on the way there.        *)
(***************************************************************************)
THEOREM PagesAreInPlace == Spec => []IsInPlace
<1>1. ASSUME PlaceInv PROVE IsInPlace
    <2> SUFFICES ASSUME NEW s \in Subjects, open[s], seen[s] = Len(log)
                 PROVE  /\ \A t \in Subjects : watch[s].tick <= announced[t]
                        /\ \E t \in Subjects : watch[s].tick = announced[t]
        BY DEF IsInPlace
    <2> DEFINE k == watch[s].tick
               c(t) == Cardinality(At(log, t))
    <2>1. log \in Seq(WatchMsg) /\ AllBacked(log, log) /\ InStep(Part(log, seen[s]), s, watch[s])
        BY <1>1, PageFacts DEF PlaceInv, WatchInv
    <2>2. InStep(log, s, watch[s])
        BY <2>1, PartIsAll
    <2>3. k \in 0 .. Target + 1 /\ Reached(log, k) /\ Unmet(log, k)
        BY <2>2 DEF InStep, Follows, Good, Sound, WatchType
    <2>4. \A t \in Subjects : c(t) \in 0 .. Target + 1 /\ At(log, t) = 0 .. c(t) - 1
        BY <2>1, ArrivalsAreCounted
    <2>5. \A t \in Subjects : announced[t] = c(t)
        BY AnnouncedIsCount DEF Announced
    <2> HIDE DEF c, k
    <2>6. ASSUME NEW t \in Subjects PROVE k <= c(t)
        <3>1. \A j \in 0 .. k - 1 : j \in At(log, t)
            BY <2>3, WatchAssumption DEF Reached, At, Ticks
        <3>2. k = 0 \/ k - 1 \in 0 .. k - 1
            BY <2>3, WatchAssumption
        <3>3. k = 0 \/ k - 1 \in 0 .. c(t) - 1
            BY <2>4, <3>1, <3>2
        <3> QED BY <2>3, <2>4, <3>3, WatchAssumption
    <2>7. \E t \in Subjects : k = c(t)
        <3>1. CASE k \in Ticks
            <4>1. PICK t \in Subjects : ~Arrived(log, t, k)
                BY <2>3, <3>1 DEF Unmet
            <4>2. k \notin 0 .. c(t) - 1
                BY <2>4, <4>1 DEF At
            <4>3. k = c(t)
                BY <2>3, <2>4, <2>6, <4>2, WatchAssumption
            <4> QED BY <4>3
        <3>2. CASE k \notin Ticks
            <4>1. k = Target + 1
                BY <2>3, <3>2, WatchAssumption DEF Ticks
            <4>2. c(s) = Target + 1
                BY <2>4, <2>6, <4>1, WatchAssumption
            <4> QED BY <4>1, <4>2
        <3> QED BY <3>1, <3>2
    <2> QED BY <2>5, <2>6, <2>7 DEF k
<1> QED BY <1>1, PlaceInductive, PTL
=============================================================================
