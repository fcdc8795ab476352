--------------------------- MODULE ChannelProofs ---------------------------
(***************************************************************************)
(* Proofs about RouterChannels, for any number of connections and any      *)
(* capacities: what a client receives has no gap, whoever stalls, leaves   *)
(* or is removed meanwhile.                                                *)
(***************************************************************************)
EXTENDS RouterChannels, SequenceTheorems, FiniteSetTheorems, TLAPS

(***************************************************************************)
(* The inductive invariant.  A message counts once, as long as ReceiveLoop *)
(* holds it, Router.messages does or Route has taken it: that bounds       *)
(* handled.                                                                *)
(***************************************************************************)
Sending == {c \in Conns : receiver[c] = "sending"}

Counted ==
    /\ IsFiniteSet(Sending)
    /\ handled + messages + Cardinality(Sending) <= sent

Items == Nat \cup {Answer}

TypeInv ==
    /\ route \in {"select", "receive", "send", "recovering"}
    /\ left \subseteq listeners /\ listeners \subseteq Conns
    /\ target \in Conns \cup {None}
    /\ handled \in Nat /\ messages \in 0 .. MsgCap /\ sent \in 0 .. MaxSent
    /\ removals \in Seq(Conns) /\ Len(removals) <= RemoveCap
    /\ sender \in [Conns -> Senders]
    /\ receiver \in [Conns -> Receivers]
    /\ client \in [Conns -> Clients]
    /\ since \in [Conns -> Nat]
    /\ recv \in [Conns -> Seq(Items)]
    /\ hand \in [Conns -> Seq(Items)]
    /\ written \in [Conns -> Seq(Items)]

(***************************************************************************)
(* Route holds on to a listener until it is in its select again, and only  *)
(* a listener whose recv is closed gets into removeListeners.              *)
(***************************************************************************)
RouteInv ==
    /\ route = "select" => left = {}
    /\ route \in {"send", "recovering"} => target \in listeners \ left
    /\ route = "recovering" => sender[target] = "closed"
    /\ \A i \in DOMAIN removals : sender[removals[i]] = "closed"

(***************************************************************************)
(* A connection is a listener from the end of "joining" for as long as its *)
(* recv is open, and nothing reaches it before.                            *)
(***************************************************************************)
ConnInv ==
    \A c \in Conns :
        /\ client[c] = "none" => sender[c] = "off"
        /\ sender[c] \in {"off", "joining"} =>
               c \notin listeners /\ written[c] = << >> /\ recv[c] = << >>
        /\ sender[c] \in {"off", "joining", "syncing"} => receiver[c] = "off"
        /\ sender[c] \in {"syncing", "waiting", "writing"} => c \in listeners
        /\ IF sender[c] = "writing" THEN Len(hand[c]) = 1 ELSE hand[c] = << >>
        /\ Len(recv[c]) <= RecvCap

(***************************************************************************)
(* What has been sent to a listener whose recv is open.                    *)
(***************************************************************************)
HasRun(s, n, m) ==
    /\ ToSet(s) \ {Answer} = n + 1 .. m
    /\ \A i, j \in DOMAIN s : (i < j /\ Answer \notin {s[i], s[j]}) => s[i] < s[j]

RunInv ==
    \A c \in Conns :
        /\ since[c] <= handled
        /\ (c \in left \/ (route = "send" /\ target = c)) => since[c] < handled
        /\ sender[c] # "closed" =>
               HasRun(written[c] \o hand[c] \o recv[c], since[c],
                      IF c \notin listeners THEN since[c]
                      ELSE IF c \in left \/ (route = "send" /\ target = c) THEN handled - 1
                      ELSE handled)

IInv == TypeInv /\ Counted /\ RouteInv /\ ConnInv /\ RunInv

-----------------------------------------------------------------------------
(* Runs of messages                                                        *)

LEMMA RunOfOneMore ==
    ASSUME NEW s \in Seq(Items), NEW n \in Nat, NEW m \in Nat, n <= m, HasRun(s, n, m)
    PROVE  HasRun(Append(s, m + 1), n, m + 1)
<1> DEFINE t == Append(s, m + 1)
<1>1. /\ Len(s) \in Nat /\ DOMAIN s = 1 .. Len(s) /\ DOMAIN t = 1 .. Len(s) + 1
      /\ t[Len(s) + 1] = m + 1
      /\ \A i \in DOMAIN s : t[i] = s[i] /\ s[i] \in Items
  <2>1. m + 1 \in Items
    BY DEF Items
  <2> QED
    BY <2>1, AppendProperties
<1> HIDE DEF t
<1>2. \A i \in DOMAIN s : s[i] # Answer => s[i] \in n + 1 .. m
  BY DEF HasRun, ToSet
<1>3. m + 1 # Answer
  BY ChannelsAssumption
<1>4. ToSet(t) \ {Answer} = n + 1 .. m + 1
  <2>1. ToSet(t) = ToSet(s) \cup {m + 1}
    BY <1>1 DEF ToSet
  <2>2. n + 1 .. m + 1 = (n + 1 .. m) \cup {m + 1}
    OBVIOUS
  <2> QED
    BY <1>3, <2>1, <2>2 DEF HasRun
<1>5. ASSUME NEW i \in DOMAIN t, NEW j \in DOMAIN t, i < j, Answer \notin {t[i], t[j]}
      PROVE  t[i] < t[j]
  <2>1. i \in DOMAIN s /\ t[i] = s[i]
    BY <1>1, <1>5
  <2>2. CASE j \in DOMAIN s
    BY <1>1, <1>5, <2>1, <2>2 DEF HasRun
  <2>3. CASE j = Len(s) + 1
    BY <1>1, <1>2, <1>5, <2>1, <2>3
  <2> QED
    BY <1>1, <1>5, <2>2, <2>3
<1> QED
  BY <1>4, <1>5 DEF HasRun, t

LEMMA RunAndAnAnswer ==
    ASSUME NEW s \in Seq(Items), NEW n \in Nat, NEW m \in Nat, HasRun(s, n, m)
    PROVE  HasRun(Append(s, Answer), n, m)
<1> DEFINE t == Append(s, Answer)
<1>1. /\ Len(s) \in Nat /\ DOMAIN s = 1 .. Len(s) /\ DOMAIN t = 1 .. Len(s) + 1
      /\ t[Len(s) + 1] = Answer
      /\ \A i \in DOMAIN s : t[i] = s[i]
  <2>1. Answer \in Items
    BY DEF Items
  <2> QED
    BY <2>1, AppendProperties
<1> HIDE DEF t
<1>2. ToSet(t) = ToSet(s) \cup {Answer}
  BY <1>1 DEF ToSet
<1>3. \A i \in DOMAIN t : t[i] # Answer => i \in DOMAIN s
  BY <1>1
<1> QED
  BY <1>1, <1>2, <1>3 DEF HasRun, t

LEMMA EmptyRun == \A n \in Nat : HasRun(<< >> \o << >> \o << >>, n, n)
<1>1. << >> \o << >> \o << >> = << >>
  OBVIOUS
<1>2. ToSet(<< >>) = {} /\ DOMAIN << >> = {}
  BY DEF ToSet
<1> QED
  BY <1>1, <1>2 DEF HasRun

-----------------------------------------------------------------------------
(* What passes through hand                                                *)

LEMMA TakenIsNotLost ==
    ASSUME NEW w \in Seq(Items), NEW r \in Seq(Items), r # << >>
    PROVE  w \o <<Head(r)>> \o Tail(r) = w \o << >> \o r
<1>1. <<Head(r)>> \o Tail(r) = r /\ <<Head(r)>> \in Seq(Items) /\ Tail(r) \in Seq(Items)
  BY HeadTailProperties
<1>2. w \o << >> = w
  OBVIOUS
<1>3. (w \o <<Head(r)>>) \o Tail(r) = w \o (<<Head(r)>> \o Tail(r))
  BY <1>1, ConcatAssociative
<1> QED
  BY <1>1, <1>2, <1>3

LEMMA WrittenIsNotLost ==
    ASSUME NEW w \in Seq(Items), NEW h \in Seq(Items), NEW r \in Seq(Items)
    PROVE  (w \o h) \o << >> \o r = w \o h \o r
OBVIOUS

LEMMA ClosedFirst ==
    ASSUME TypeInv, RouteInv, removals # << >>
    PROVE  sender[Head(removals)] = "closed"
<1>1. removals \in Seq(Conns) /\ 1 \in DOMAIN removals /\ Head(removals) = removals[1]
  BY DEF TypeInv
<1> QED
  BY <1>1 DEF RouteInv

LEMMA AppendedLast ==
    ASSUME NEW w \in Seq(Items), NEW h \in Seq(Items), NEW r \in Seq(Items), NEW x \in Items
    PROVE  /\ w \o h \o Append(r, x) = Append(w \o h \o r, x)
           /\ w \o h \o r \in Seq(Items)
OBVIOUS

-----------------------------------------------------------------------------
(* Types                                                                   *)

LEMMA TypeStep == TypeInv /\ RouteInv /\ ConnInv /\ [Next]_vars => TypeInv'
<1> SUFFICES ASSUME TypeInv, RouteInv, ConnInv, [Next]_vars PROVE TypeInv'
  OBVIOUS
<1> USE ChannelsAssumption DEF TypeInv
<1>1. CASE TakeMessage
  BY <1>1 DEF TakeMessage, sendVars
<1>2. CASE NextListener
  BY <1>2 DEF NextListener, sendVars
<1>3. CASE EndReceive
  BY <1>3 DEF EndReceive, sendVars
<1>4. CASE Push
  <2>1. handled \in Items /\ target \in Conns
    BY <1>4 DEF Items, RouteInv, Push
  <2>2. Append(recv[target], handled) \in Seq(Items)
    BY <2>1
  <2> QED
    BY <1>4, <2>2 DEF Push
<1>5. CASE Recover
  BY <1>5 DEF Recover, sendVars
<1>6. CASE QueueRemoval
  <2>1. target \in Conns
    BY <1>6 DEF RouteInv, QueueRemoval
  <2>2. removals' \in Seq(Conns) /\ Len(removals') <= RemoveCap
    BY <1>6, <2>1 DEF QueueRemoval
  <2> QED
    BY <1>6, <2>2 DEF QueueRemoval, sendVars
<1>7. CASE TakeRemoval
  <2>1. removals' \in Seq(Conns) /\ Len(removals') <= RemoveCap
    BY <1>7, HeadTailProperties DEF TakeRemoval
  <2>2. left' = {}
    BY <1>7 DEF TakeRemoval, RouteInv, routeVars
  <2> QED
    BY <1>7, <2>1, <2>2 DEF TakeRemoval, sendVars, routeVars
<1>8. ASSUME NEW c \in Conns, TakeListener(c) PROVE TypeInv'
  BY <1>8 DEF TakeListener, sendVars, routeVars, Senders
<1>9. ASSUME NEW c \in Conns, EndSync(c) PROVE TypeInv'
  BY <1>9 DEF EndSync, sendVars, routeVars, Senders, Receivers
<1>10. ASSUME NEW c \in Conns, Take(c) PROVE TypeInv'
  <2>1. <<Head(recv[c])>> \in Seq(Items) /\ Tail(recv[c]) \in Seq(Items)
    BY <1>10, HeadTailProperties DEF Take
  <2> QED
    BY <1>10, <2>1 DEF Take, routeVars, Senders
<1>11. ASSUME NEW c \in Conns, Write(c) PROVE TypeInv'
  <2>1. << >> \in Seq(Items) /\ written[c] \o hand[c] \in Seq(Items)
    OBVIOUS
  <2> QED
    BY <1>11, <2>1 DEF Write, routeVars, Senders
<1>12. ASSUME NEW c \in Conns, FailToWrite(c) PROVE TypeInv'
  <2>1. << >> \in Seq(Items)
    OBVIOUS
  <2> QED
    BY <1>12, <2>1 DEF FailToWrite, routeVars, Senders
<1>13. ASSUME NEW c \in Conns, PassOn(c) PROVE TypeInv'
  BY <1>13, SMTT(30) DEF PassOn, routeVars, sendVars, Receivers
<1>14. ASSUME NEW c \in Conns, GetPeriod(c) PROVE TypeInv'
  <2>1. Append(recv[c], Answer) \in Seq(Items)
    BY DEF Items
  <2> QED
    <3>1. receiver' \in [Conns -> Receivers]
      BY <1>14 DEF GetPeriod, Receivers
    <3>2. recv' \in [Conns -> Seq(Items)]
      BY <1>14, <2>1 DEF GetPeriod
    <3> QED
      BY <1>14, <3>1, <3>2 DEF GetPeriod, routeVars
<1>15. ASSUME NEW c \in Conns, EndReceiveLoop(c) PROVE TypeInv'
  BY <1>15 DEF EndReceiveLoop, routeVars, sendVars, Receivers
<1>16. ASSUME NEW c \in Conns, Connect(c) PROVE TypeInv'
  BY <1>16 DEF Connect, routeVars, sendVars, Senders, Clients
<1>17. ASSUME NEW c \in Conns, Decode(c) PROVE TypeInv'
  <2>1. sent' \in 0 .. MaxSent
    BY <1>17 DEF Decode
  <2> QED
    BY <1>17, <2>1 DEF Decode, routeVars, sendVars, Receivers
<1>18. ASSUME NEW c \in Conns, Stall(c) \/ Resume(c) \/ Leave(c) PROVE TypeInv'
  BY <1>18 DEF Stall, Resume, Leave, routeVars, sendVars, Clients
<1>19. CASE UNCHANGED vars
  BY <1>19 DEF vars, routeVars, sendVars
<1> QED
  BY <1>1, <1>2, <1>3, <1>4, <1>5, <1>6, <1>7, <1>8, <1>9, <1>10, <1>11, <1>12, <1>13, <1>14,
     <1>15, <1>16, <1>17, <1>18, <1>19 DEF Next, Receive, SendLoop, ReceiveLoop, Client

(***************************************************************************)
(* Only Decode adds to the messages on their way, and counts in sent.      *)
(***************************************************************************)
LEMMA CountStep == TypeInv /\ Counted /\ ConnInv /\ [Next]_vars => Counted'
<1> SUFFICES ASSUME TypeInv, Counted, ConnInv, [Next]_vars PROVE Counted'
  OBVIOUS
<1> DEFINE size == Cardinality(Sending)
<1>0. size \in Nat /\ IsFiniteSet(Sending) /\ handled + messages + size <= sent
      /\ handled \in Nat /\ messages \in Nat /\ sent \in Nat
  BY FS_CardinalityType, ChannelsAssumption DEF Counted, TypeInv
<1>1. CASE TakeMessage
  <2>1. Sending' = Sending
    BY <1>1 DEF TakeMessage, Sending
  <2> QED
    BY <1>0, <1>1, <2>1 DEF TakeMessage, Counted
<1>2. ASSUME UNCHANGED <<handled, messages, sent, receiver>> PROVE Counted'
  <2>1. Sending' = Sending
    BY <1>2 DEF Sending
  <2> QED
    BY <1>0, <1>2, <2>1 DEF Counted
<1>3. ASSUME NEW c \in Conns, EndSync(c) \/ GetPeriod(c) \/ EndReceiveLoop(c) PROVE Counted'
  <2>1. Sending' = Sending
    BY <1>3 DEF EndSync, GetPeriod, EndReceiveLoop, Sending, TypeInv, ConnInv
  <2> QED
    BY <1>0, <1>3, <2>1 DEF EndSync, GetPeriod, EndReceiveLoop, Counted, routeVars
<1>4. ASSUME NEW c \in Conns, PassOn(c) PROVE Counted'
  <2>1. Sending' = Sending \ {c} /\ c \in Sending
    BY <1>4 DEF PassOn, Sending, TypeInv
  <2>2. IsFiniteSet(Sending') /\ Cardinality(Sending') = size - 1
    BY <1>0, <2>1, FS_RemoveElement
  <2> QED
    BY <1>0, <1>4, <2>2 DEF PassOn, Counted, routeVars
<1>5. ASSUME NEW c \in Conns, Decode(c) PROVE Counted'
  <2>1. CASE receiver' = [receiver EXCEPT ![c] = "sending"]
    <3>1. Sending' = Sending \cup {c} /\ c \notin Sending
      BY <1>5, <2>1 DEF Decode, Sending, TypeInv
    <3>2. IsFiniteSet(Sending') /\ Cardinality(Sending') = size + 1
      BY <1>0, <3>1, FS_AddElement
    <3> QED
      BY <1>0, <1>5, <3>2 DEF Decode, Counted, routeVars
  <2>2. CASE receiver' = [receiver EXCEPT ![c] = "answering"]
    <3>1. Sending' = Sending
      BY <1>5, <2>2 DEF Decode, Sending, TypeInv
    <3> QED
      BY <1>0, <1>5, <3>1 DEF Decode, Counted, routeVars
  <2> QED
    BY <1>5, <2>1, <2>2 DEF Decode
<1>6. CASE NextListener \/ EndReceive \/ Push \/ Recover \/ QueueRemoval \/ TakeRemoval
  BY <1>2, <1>6 DEF NextListener, EndReceive, Push, Recover, QueueRemoval, TakeRemoval, routeVars
<1>7. ASSUME NEW c \in Conns,
             TakeListener(c) \/ SendLoop(c) \/ Connect(c) \/ Stall(c) \/ Resume(c) \/ Leave(c)
      PROVE  Counted'
  BY <1>2, <1>7 DEF TakeListener, SendLoop, Take, Write, FailToWrite, Connect, Stall, Resume,
                    Leave, routeVars
<1>8. CASE UNCHANGED vars
  BY <1>2, <1>8 DEF vars, routeVars
<1> QED
  BY <1>1, <1>3, <1>4, <1>5, <1>6, <1>7, <1>8 DEF Next, Receive, ReceiveLoop, Client

-----------------------------------------------------------------------------
(* Route and the listeners                                                 *)

LEMMA RouteStep == TypeInv /\ RouteInv /\ ConnInv /\ [Next]_vars => RouteInv'
<1> SUFFICES ASSUME TypeInv, RouteInv, ConnInv, [Next]_vars PROVE RouteInv'
  OBVIOUS
<1> USE DEF TypeInv
<1>0. /\ Len(removals) \in Nat /\ DOMAIN removals = 1 .. Len(removals)
      /\ \A i \in DOMAIN removals : removals[i] \in Conns
  OBVIOUS
<1>1. CASE TakeMessage
  BY <1>1 DEF TakeMessage, RouteInv
<1>2. CASE NextListener
  BY <1>2 DEF NextListener, RouteInv
<1>3. CASE EndReceive \/ Push
  BY <1>3 DEF EndReceive, Push, RouteInv
<1>4. CASE Recover
  BY <1>4 DEF Recover, RouteInv, Closed
<1>5. CASE QueueRemoval
  <2>1. target \in Conns /\ sender[target] = "closed"
    BY <1>5 DEF QueueRemoval, RouteInv
  <2>2. \A i \in DOMAIN removals' : \/ i \in DOMAIN removals /\ removals'[i] = removals[i]
                                \/ removals'[i] = target
    <3>1. removals' = Append(removals, target)
      BY <1>5 DEF QueueRemoval
    <3>2. DOMAIN removals' = 1 .. Len(removals) + 1
      BY <2>1, <3>1
    <3>3. /\ \A i \in 1 .. Len(removals) : removals'[i] = removals[i]
          /\ removals'[Len(removals) + 1] = target
      BY <2>1, <3>1
    <3>4. \A i \in 1 .. Len(removals) + 1 : i \in 1 .. Len(removals) \/ i = Len(removals) + 1
      BY <1>0
    <3> QED
      BY <1>0, <3>2, <3>3, <3>4
  <2> QED
    BY <1>5, <2>1, <2>2 DEF QueueRemoval, RouteInv
<1>6. CASE TakeRemoval
  <2>1. \A i \in DOMAIN removals' : i + 1 \in DOMAIN removals /\ removals'[i] = removals[i + 1]
    <3>1. removals' = Tail(removals) /\ removals # << >> /\ removals \in Seq(Conns)
      BY <1>6 DEF TakeRemoval
    <3>2. DOMAIN removals' = 1 .. Len(removals) - 1
      BY <3>1, HeadTailProperties
    <3>3. \A i \in 1 .. Len(removals) - 1 : removals'[i] = removals[i + 1]
      BY <3>1, HeadTailProperties
    <3>4. \A i \in 1 .. Len(removals) - 1 : i + 1 \in DOMAIN removals
      BY <1>0
    <3> QED
      BY <3>2, <3>3, <3>4
  <2> QED
    BY <1>6, <2>1 DEF TakeRemoval, RouteInv, routeVars
<1>7. ASSUME UNCHANGED <<routeVars, removals>>, listeners \subseteq listeners',
             \A c \in Conns : sender[c] = "closed" => sender'[c] = "closed"
      PROVE  RouteInv'
  BY <1>0, <1>7 DEF RouteInv, routeVars
<1>8. ASSUME NEW c \in Conns, TakeListener(c) \/ EndSync(c) \/ SendLoop(c)
      PROVE  RouteInv'
  <2>1. UNCHANGED <<routeVars, removals>> /\ listeners \subseteq listeners'
    BY <1>8 DEF TakeListener, EndSync, SendLoop, Take, Write, FailToWrite
  <2>2. \A d \in Conns : sender[d] = "closed" => sender'[d] = "closed"
    BY <1>8 DEF TakeListener, EndSync, SendLoop, Take, Write, FailToWrite
  <2> QED
    BY <1>7, <2>1, <2>2
<1>9. ASSUME NEW c \in Conns, Connect(c) PROVE RouteInv'
  <2>1. \A d \in Conns : sender[d] = "closed" => sender'[d] = "closed"
    BY <1>9 DEF Connect, ConnInv
  <2> QED
    BY <1>7, <1>9, <2>1 DEF Connect
<1>10. ASSUME NEW c \in Conns,
              ReceiveLoop(c) \/ Decode(c) \/ Stall(c) \/ Resume(c) \/ Leave(c)
       PROVE  RouteInv'
  BY <1>7, <1>10 DEF ReceiveLoop, PassOn, GetPeriod, EndReceiveLoop, Decode, Stall, Resume, Leave
<1>11. CASE UNCHANGED vars
  BY <1>7, <1>11 DEF vars
<1> QED
  BY <1>1, <1>2, <1>3, <1>4, <1>5, <1>6, <1>8, <1>9, <1>10, <1>11
  DEF Next, Receive, Client

(***************************************************************************)
(* No connection is used twice, and no listener is taken off the session   *)
(* before its recv is closed.                                              *)
(***************************************************************************)
LEMMA ConnStep == TypeInv /\ RouteInv /\ ConnInv /\ [Next]_vars => ConnInv'
<1> SUFFICES ASSUME TypeInv, RouteInv, ConnInv, [Next]_vars, NEW d \in Conns
             PROVE  ConnInv!(d)'
  BY DEF ConnInv
<1> USE DEF TypeInv, ConnInv
<1>1. CASE TakeMessage \/ NextListener \/ EndReceive \/ Recover \/ QueueRemoval
  BY <1>1 DEF TakeMessage, NextListener, EndReceive, Recover, QueueRemoval, sendVars
<1>2. CASE Push
  <2>1. target \in listeners /\ target \in Conns /\ Len(recv[target]) < RecvCap
    BY <1>2 DEF Push, RouteInv
  <2>2. Len(Append(recv[target], handled)) <= RecvCap
    BY <2>1, ChannelsAssumption, AppendProperties DEF Items
  <2> QED
    BY <1>2, <2>1, <2>2 DEF Push
<1>3. CASE TakeRemoval
  <2>1. sender[Head(removals)] = "closed"
    BY <1>3, ClosedFirst DEF TakeRemoval
  <2> QED
    BY <1>3, <2>1 DEF TakeRemoval, sendVars
<1>4. ASSUME NEW c \in Conns, TakeListener(c) \/ EndSync(c) \/ Connect(c) PROVE ConnInv!(d)'
  BY <1>4 DEF TakeListener, EndSync, Connect, sendVars
<1>5. ASSUME NEW c \in Conns, Take(c) PROVE ConnInv!(d)'
  <2>1. Len(Tail(recv[c])) <= RecvCap /\ Len(<<Head(recv[c])>>) = 1
    BY <1>5, ChannelsAssumption, HeadTailProperties DEF Take
  <2> QED
    BY <1>5, <2>1 DEF Take
<1>6. ASSUME NEW c \in Conns, Write(c) \/ FailToWrite(c) PROVE ConnInv!(d)'
  BY <1>6 DEF Write, FailToWrite
<1>7. ASSUME NEW c \in Conns, GetPeriod(c) PROVE ConnInv!(d)'
  <2>1. CASE Len(recv[c]) < RecvCap /\ ~Closed(c) /\ recv' = [recv EXCEPT ![c] = Append(@, Answer)]
    <3>1. Len(Append(recv[c], Answer)) <= RecvCap
      BY <2>1, ChannelsAssumption, AppendProperties DEF Items
    <3> QED
      BY <1>7, <2>1, <3>1 DEF GetPeriod
  <2>2. CASE UNCHANGED recv
    BY <1>7, <2>2 DEF GetPeriod
  <2> QED
    BY <1>7, <2>1, <2>2 DEF GetPeriod
<1>8. ASSUME NEW c \in Conns, PassOn(c) \/ EndReceiveLoop(c) \/ Decode(c) PROVE ConnInv!(d)'
  BY <1>8 DEF PassOn, EndReceiveLoop, Decode, sendVars
<1>9. ASSUME NEW c \in Conns, Stall(c) \/ Resume(c) \/ Leave(c) PROVE ConnInv!(d)'
  BY <1>9 DEF Stall, Resume, Leave, Reading, sendVars
<1>10. CASE UNCHANGED vars
  BY <1>10 DEF vars, sendVars
<1> QED
  BY <1>1, <1>2, <1>3, <1>4, <1>5, <1>6, <1>7, <1>8, <1>9, <1>10
  DEF Next, Receive, SendLoop, ReceiveLoop, Client

-----------------------------------------------------------------------------
(* What is sent to a listener                                              *)

(***************************************************************************)
(* Push: the listener Route is sending to gets the next message.           *)
(***************************************************************************)
LEMMA PushKeepsRuns == TypeInv /\ RouteInv /\ ConnInv /\ RunInv /\ Push => RunInv'
<1> SUFFICES ASSUME TypeInv, RouteInv, ConnInv, RunInv, Push, NEW d \in Conns
             PROVE  RunInv!(d)'
  BY DEF RunInv
<1> USE DEF TypeInv
<1>1. /\ target \in Conns /\ target \in listeners /\ target \notin left
      /\ sender[target] # "closed" /\ route = "send" /\ route' = "receive"
      /\ recv' = [recv EXCEPT ![target] = Append(@, handled)]
      /\ UNCHANGED <<left, handled, listeners, sender, hand, written, since>>
  BY DEF Push, RouteInv, Closed
<1>2. CASE d # target
  <2>1. recv'[d] = recv[d]
    BY <1>1, <1>2
  <2> QED
    BY <1>1, <1>2, <2>1 DEF RunInv
<1>3. CASE d = target
  <2> DEFINE s == written[d] \o hand[d] \o recv[d]
  <2>1. since[d] \in Nat /\ handled \in Nat /\ since[d] < handled
    BY <1>1, <1>3 DEF RunInv
  <2>2. HasRun(s, since[d], handled - 1)
    BY <1>1, <1>3 DEF RunInv
  <2>3. /\ written[d] \o hand[d] \o Append(recv[d], handled) = Append(s, handled)
        /\ s \in Seq(Items)
    <3>1. handled \in Items
      BY <2>1 DEF Items
    <3>2. written[d] \in Seq(Items) /\ hand[d] \in Seq(Items) /\ recv[d] \in Seq(Items)
      OBVIOUS
    <3> HIDE DEF TypeInv
    <3> QED
      BY <3>1, <3>2, AppendedLast
  <2> HIDE DEF s
  <2>4. HasRun(Append(s, handled), since[d], handled)
    <3>1. handled - 1 \in Nat /\ since[d] <= handled - 1 /\ (handled - 1) + 1 = handled
      BY <2>1
    <3>2. \A m \in Nat : since[d] <= m /\ HasRun(s, since[d], m)
                          => HasRun(Append(s, m + 1), since[d], m + 1)
      BY <2>1, <2>3, RunOfOneMore
    <3> QED
      BY <2>2, <3>1, <3>2
  <2>5. recv'[d] = Append(recv[d], handled)
    BY <1>1, <1>3
  <2>6. HasRun(written'[d] \o hand'[d] \o recv'[d], since'[d], handled')
    BY <1>1, <2>3, <2>4, <2>5
  <2> QED
    BY <1>1, <1>3, <2>1, <2>6
<1> QED
  BY <1>2, <1>3

(***************************************************************************)
(* The loop of Receive and the channels: nothing is written to recv.       *)
(***************************************************************************)
LEMMA RouteKeepsRuns ==
    TypeInv /\ RouteInv /\ ConnInv /\ RunInv /\ [Next]_vars /\ UNCHANGED <<sendVars, sender, since>>
    => RunInv'
<1> SUFFICES ASSUME TypeInv, RouteInv, ConnInv, RunInv, [Next]_vars,
                    UNCHANGED <<sendVars, sender, since>>, NEW d \in Conns
             PROVE  RunInv!(d)'
  BY DEF RunInv
<1> USE DEF TypeInv
<1>1. UNCHANGED <<recv, hand, written, sender, since>>
  BY DEF sendVars
<1>2. since[d] \in Nat /\ handled \in Nat /\ since[d] <= handled
  BY DEF RunInv
<1>3. CASE TakeMessage
  <2>1. /\ handled' = handled + 1 /\ (handled + 1) - 1 = handled /\ listeners' = listeners
        /\ left' = listeners /\ left = {} /\ route = "select" /\ route' = "receive"
    BY <1>2, <1>3 DEF TakeMessage, RouteInv
  <2> QED
    BY <1>1, <1>2, <2>1 DEF RunInv
<1>4. CASE NextListener
  BY <1>1, <1>4 DEF NextListener, RunInv
<1>5. CASE EndReceive
  BY <1>1, <1>5 DEF EndReceive, RunInv
<1>6. CASE Recover
  BY <1>1, <1>6 DEF Recover, RunInv, RouteInv, Closed
<1>7. CASE QueueRemoval
  BY <1>1, <1>7 DEF QueueRemoval, RunInv, RouteInv
<1>8. CASE TakeRemoval
  <2>1. sender[Head(removals)] = "closed"
    BY <1>8, ClosedFirst DEF TakeRemoval
  <2> QED
    BY <1>1, <1>8, <2>1 DEF TakeRemoval, RunInv, routeVars
<1>9. ASSUME UNCHANGED <<routeVars, listeners>> PROVE RunInv!(d)'
  BY <1>1, <1>9 DEF RunInv, routeVars
<1>10. CASE Push
  BY <1>10, PushKeepsRuns DEF RunInv
<1>11. ASSUME NEW c \in Conns, TakeListener(c) PROVE FALSE
  BY <1>1, <1>11 DEF TakeListener, Senders
<1>12. ASSUME NEW c \in Conns, EndSync(c) \/ SendLoop(c) \/ ReceiveLoop(c) \/ Client(c)
       PROVE  RunInv!(d)'
  BY <1>9, <1>12 DEF EndSync, SendLoop, Take, Write, FailToWrite, ReceiveLoop, PassOn, GetPeriod,
                     EndReceiveLoop, Client, Connect, Decode, Stall, Resume, Leave
<1>13. CASE UNCHANGED vars
  BY <1>9, <1>13 DEF vars
<1> QED
  BY <1>3, <1>4, <1>5, <1>6, <1>7, <1>8, <1>10, <1>11, <1>12, <1>13 DEF Next, Receive

(***************************************************************************)
(* The goroutines of a connection change what is sent to it alone, and the *)
(* stream only by appending to recv.                                       *)
(***************************************************************************)
LEMMA ConnKeepsRuns ==
    ASSUME TypeInv, ConnInv, RouteInv, RunInv, NEW c \in Conns,
           TakeListener(c) \/ EndSync(c) \/ SendLoop(c) \/ GetPeriod(c) \/ Connect(c)
    PROVE  RunInv'
<1> SUFFICES ASSUME NEW d \in Conns PROVE RunInv!(d)'
  BY DEF RunInv
<1> USE DEF TypeInv
<1>1. since[d] \in Nat /\ handled \in Nat /\ since[d] <= handled
  BY DEF RunInv
<1>2. CASE TakeListener(c)
  <2>1. CASE c = d
    <3>1. /\ d \notin listeners /\ written[d] = << >> /\ recv[d] = << >> /\ hand[d] = << >>
          /\ d \in listeners' /\ since'[d] = handled /\ left' = {} /\ route' = "select"
          /\ UNCHANGED <<handled, written, hand, recv>>
      BY <1>2, <2>1 DEF TakeListener, ConnInv, RouteInv, routeVars, sendVars
    <3>2. HasRun(<< >> \o << >> \o << >>, handled, handled)
      BY <1>1, EmptyRun
    <3>3. HasRun(written'[d] \o hand'[d] \o recv'[d], since'[d], handled')
      BY <3>1, <3>2
    <3> QED
      BY <1>1, <3>1, <3>3
  <2>2. CASE c # d
    BY <1>2, <2>2 DEF TakeListener, RunInv, routeVars, sendVars
  <2> QED
    BY <2>1, <2>2
<1>3. CASE EndSync(c) \/ Connect(c)
  <2>1. /\ UNCHANGED <<routeVars, sendVars, listeners, since>>
        /\ sender'[d] = "closed" <=> sender[d] = "closed"
    BY <1>3 DEF EndSync, Connect, ConnInv
  <2> QED
    BY <2>1 DEF RunInv, routeVars, sendVars
<1>4. CASE SendLoop(c)
  <2>1. UNCHANGED <<routeVars, listeners, since>>
    BY <1>4 DEF SendLoop, Take, Write, FailToWrite
  <2>2. sender'[d] # "closed" =>
           /\ sender[d] # "closed"
           /\ written'[d] \o hand'[d] \o recv'[d] = written[d] \o hand[d] \o recv[d]
    <3>1. CASE c # d
      BY <1>4, <3>1 DEF SendLoop, Take, Write, FailToWrite
    <3>2. CASE c = d /\ Take(c)
      <4>1. /\ hand[d] = << >> /\ recv[d] # << >> /\ written'[d] = written[d]
            /\ hand'[d] = <<Head(recv[d])>> /\ recv'[d] = Tail(recv[d])
            /\ sender[d] = "waiting"
        BY <3>2 DEF Take, ConnInv
      <4>2. written[d] \o <<Head(recv[d])>> \o Tail(recv[d]) = written[d] \o << >> \o recv[d]
        BY <4>1, TakenIsNotLost
      <4> QED
        BY <4>1, <4>2
    <3>3. CASE c = d /\ Write(c)
      <4>1. /\ written'[d] = written[d] \o hand[d] /\ hand'[d] = << >> /\ recv'[d] = recv[d]
            /\ sender[d] = "writing"
        BY <3>3 DEF Write
      <4>2. (written[d] \o hand[d]) \o << >> \o recv[d] = written[d] \o hand[d] \o recv[d]
        BY WrittenIsNotLost
      <4> QED
        BY <4>1, <4>2
    <3>4. CASE c = d /\ FailToWrite(c)
      BY <3>4 DEF FailToWrite
    <3> QED
      BY <1>4, <3>1, <3>2, <3>3, <3>4 DEF SendLoop
  <2> QED
    BY <2>1, <2>2 DEF RunInv, routeVars
<1>5. CASE GetPeriod(c)
  <2>1. UNCHANGED <<routeVars, listeners, sender, since, written, hand>>
    BY <1>5 DEF GetPeriod
  <2>2. CASE recv'[d] = recv[d]
    BY <2>1, <2>2 DEF RunInv, routeVars
  <2>3. CASE recv'[d] = Append(recv[d], Answer)
    <3> DEFINE s == written[d] \o hand[d] \o recv[d]
    <3>1. /\ written'[d] \o hand'[d] \o recv'[d] = Append(s, Answer)
          /\ s \in Seq(Items)
      <4>1. Answer \in Items
        BY DEF Items
      <4>2. /\ written[d] \o hand[d] \o Append(recv[d], Answer) = Append(s, Answer)
            /\ s \in Seq(Items)
        BY <4>1, AppendedLast
      <4>3. written'[d] = written[d] /\ hand'[d] = hand[d]
        BY <2>1
      <4> QED
        BY <2>3, <4>2, <4>3
    <3>2. \A m \in Nat : HasRun(s, since[d], m) => HasRun(Append(s, Answer), since[d], m)
      BY <1>1, <3>1, RunAndAnAnswer
    <3> HIDE DEF s
    <3>3. ASSUME NEW m \in Nat, HasRun(s, since[d], m)
          PROVE  HasRun(written'[d] \o hand'[d] \o recv'[d], since'[d], m)
      BY <2>1, <3>1, <3>2, <3>3
    <3>4. (d \in left \/ (route = "send" /\ target = d)) => handled - 1 \in Nat
      BY <1>1 DEF RunInv
    <3> QED
      BY <1>1, <2>1, <3>3, <3>4 DEF RunInv, routeVars, s
  <2> QED
    BY <1>5, <2>2, <2>3 DEF GetPeriod
<1> QED
  BY <1>2, <1>3, <1>4, <1>5

LEMMA RunStep == TypeInv /\ RouteInv /\ ConnInv /\ RunInv /\ [Next]_vars => RunInv'
<1> SUFFICES ASSUME TypeInv, RouteInv, ConnInv, RunInv, [Next]_vars PROVE RunInv'
  OBVIOUS
<1>1. CASE UNCHANGED <<sendVars, sender, since>>
  BY <1>1, RouteKeepsRuns
<1>2. CASE Push
  BY <1>2, PushKeepsRuns
<1>3. CASE TakeMessage \/ NextListener \/ EndReceive \/ Recover \/ QueueRemoval \/ TakeRemoval
           \/ UNCHANGED vars
  BY <1>1, <1>3
  DEF TakeMessage, NextListener, EndReceive, Recover, QueueRemoval, TakeRemoval, vars
<1>4. ASSUME NEW c \in Conns,
             TakeListener(c) \/ EndSync(c) \/ SendLoop(c) \/ GetPeriod(c) \/ Connect(c)
      PROVE  RunInv'
  BY <1>4, ConnKeepsRuns
<1>5. ASSUME NEW c \in Conns,
             PassOn(c) \/ EndReceiveLoop(c) \/ Decode(c) \/ Stall(c) \/ Resume(c) \/ Leave(c)
      PROVE  RunInv'
  BY <1>1, <1>5 DEF PassOn, EndReceiveLoop, Decode, Stall, Resume, Leave
<1> QED
  BY <1>2, <1>3, <1>4, <1>5 DEF Next, Receive, ReceiveLoop, Client

-----------------------------------------------------------------------------
LEMMA IInvInit == Init => IInv
<1> SUFFICES ASSUME Init PROVE IInv
  OBVIOUS
<1>1. << >> \in Seq(Items) /\ << >> \in Seq(Conns) /\ Len(<< >>) = 0 /\ DOMAIN << >> = {}
  OBVIOUS
<1>2. TypeInv
  BY <1>1, ChannelsAssumption DEF Init, TypeInv, Senders, Receivers, Clients
<1>3. Counted
  <2>1. Sending = {}
    BY DEF Init, Sending
  <2> QED
    BY <2>1, FS_EmptySet DEF Init, Counted
<1>4. RouteInv
  BY <1>1 DEF Init, RouteInv
<1>5. ConnInv
  BY <1>1, ChannelsAssumption DEF Init, ConnInv
<1>6. RunInv
  <2>1. HasRun(<< >> \o << >> \o << >>, 0, 0)
    BY EmptyRun
  <2> QED
    BY <2>1 DEF Init, RunInv
<1> QED
  BY <1>2, <1>3, <1>4, <1>5, <1>6 DEF IInv

LEMMA IInvStep == IInv /\ [Next]_vars => IInv'
BY TypeStep, CountStep, RouteStep, ConnStep, RunStep DEF IInv

THEOREM Inductive == Spec => []IInv
BY IInvInit, IInvStep, PTL DEF Spec

(***************************************************************************)
(* No channel of the router ever holds more than its capacity, Route never *)
(* sends to one that is not a listener of the session, and no more         *)
(* messages are handled than clients have sent (router.go, listener.go).   *)
(***************************************************************************)
THEOREM ChannelTypes == Spec => []TypeOK
<1>1. IInv => TypeOK
  <2> SUFFICES ASSUME IInv PROVE TypeOK
    OBVIOUS
  <2> USE DEF IInv, TypeInv
  <2>1. handled \in 0 .. MaxSent
    BY FS_CardinalityType, ChannelsAssumption DEF Counted
  <2>2. since \in [Conns -> 0 .. MaxSent]
    <3>1. \A c \in Conns : since[c] \in 0 .. MaxSent
      BY <2>1, ChannelsAssumption DEF RunInv
    <3> QED
      BY <3>1
  <2>3. \A c \in Conns : Len(hand[c]) <= 1 /\ Len(recv[c]) <= RecvCap
    <3>1. Len(<< >>) = 0
      OBVIOUS
    <3> SUFFICES ASSUME NEW c \in Conns PROVE Len(hand[c]) <= 1 /\ Len(recv[c]) <= RecvCap
      OBVIOUS
    <3>2. Len(recv[c]) <= RecvCap /\ (hand[c] = << >> \/ Len(hand[c]) = 1)
      BY DEF ConnInv
    <3>3. Len(hand[c]) = 0 \/ Len(hand[c]) = 1
      BY <3>1, <3>2, Zenon
    <3>4. \A n \in {0, 1} : n <= 1
      OBVIOUS
    <3> QED
      BY <3>2, <3>3, <3>4, Zenon
  <2> QED
    BY <2>1, <2>2, <2>3 DEF TypeOK, Items
<1> QED
  BY <1>1, Inductive, PTL

(***************************************************************************)
(* A listener is sent every message that Route has handled since it was    *)
(* registered, once and in order, as long as its recv is open: no client   *)
(* that stalls or leaves, and no full channel, costs another a message     *)
(* (Session.Receive, Listener.Send, SendLoop).                             *)
(***************************************************************************)
THEOREM NothingIsSkipped == Spec => []Contiguous
<1>1. IInv => Contiguous
  BY DEF IInv, RunInv, HasRun, Contiguous, Routed, Stream, ComingTo, Reached, Closed
<1> QED
  BY <1>1, Inductive, PTL
=============================================================================
