------------------------ MODULE EngineSessionProofs ------------------------
(* Theorems about EngineSession, for any number of polling GETs and WebSockets, *)
(* any capacity of the channel and any number of packets.                       *)
EXTENDS EngineSession, SequenceTheorems, TLAPS

(***************************************************************************)
(* Packets and sequences of them.                                          *)
(***************************************************************************)
LEMMA PacketTypes == /\ \A i \in Nat : Message(i) \in Packet
                     /\ \A k \in {"ping", "pong", "probe"} : Control(k) \in Packet
  BY DEF Message, Control, Packet

\* The ids of packets are numbers.
LEMMA IdsAreNumbers == \A q \in Seq(Packet) : Ids(q) \subseteq Nat
<1> SUFFICES ASSUME NEW q \in Seq(Packet), NEW j \in DOMAIN q
             PROVE  q[j].id \in Nat
  BY DEF Ids
<1>1. q[j] \in Packet
  OBVIOUS
<1> QED
  BY <1>1 DEF Packet

\* Who waits behind the first is still waiting when the first is gone.
LEMMA TailKeeps ==
  ASSUME NEW S, NEW q \in Seq(S), q # <<>>, NEW i \in DOMAIN q, q[i] # Head(q)
  PROVE  \E j \in DOMAIN Tail(q) : Tail(q)[j] = q[i]
<1>1. i \in 1..Len(q) /\ i # 1
  OBVIOUS
<1>2. i - 1 \in 1..Len(Tail(q)) /\ Tail(q)[i - 1] = q[i]
  BY <1>1, HeadTailProperties
<1> QED
  BY <1>2, HeadTailProperties

\* Whoever joins the queue is in it, and nobody leaves it by that.
LEMMA AppendKeeps ==
  ASSUME NEW S, NEW q \in Seq(S), NEW e \in S
  PROVE  /\ \E j \in DOMAIN Append(q, e) : Append(q, e)[j] = e
         /\ \A i \in DOMAIN q : \E j \in DOMAIN Append(q, e) : Append(q, e)[j] = q[i]
  BY AppendProperties

\* The queue without its k-th place keeps the others.
LEMMA CutKeeps ==
  ASSUME NEW S, NEW q \in Seq(S), NEW k \in DOMAIN q
  PROVE  LET r == SubSeq(q, 1, k - 1) \o SubSeq(q, k + 1, Len(q))
         IN  /\ r \in Seq(S)
             /\ \A i \in DOMAIN q : i # k => \E j \in DOMAIN r : r[j] = q[i]
<1> DEFINE a == SubSeq(q, 1, k - 1)
           b == SubSeq(q, k + 1, Len(q))
<1>1. k \in 1..Len(q) /\ Len(q) \in Nat
  OBVIOUS
<1>2. /\ a \in Seq(S) /\ Len(a) = k - 1
      /\ \A i \in 1..(k - 1) : a[i] = q[i]
  <2>1. \A i \in 1..(k - 1) : q[i] \in S
    BY <1>1
  <2> QED
    BY <1>1, <2>1, SubSeqProperties
<1>3. /\ b \in Seq(S) /\ Len(b) = Len(q) - k
      /\ \A i \in 1..(Len(q) - k) : b[i] = q[k + i]
  <2>1. \A i \in (k + 1)..Len(q) : q[i] \in S
    BY <1>1
  <2>2. /\ b \in Seq(S)
        /\ Len(b) = IF k + 1 <= Len(q) THEN Len(q) - (k + 1) + 1 ELSE 0
        /\ \A i \in 1..(Len(q) - (k + 1) + 1) : b[i] = q[(k + 1) + i - 1]
    BY <1>1, <2>1, SubSeqProperties
  <2> QED
    BY <1>1, <2>2
<1> HIDE DEF a, b
<1>4. /\ a \o b \in Seq(S) /\ Len(a \o b) = Len(q) - 1
      /\ \A i \in 1..(Len(q) - 1) : (a \o b)[i] = IF i <= k - 1 THEN a[i] ELSE b[i - (k - 1)]
  <2>1. /\ a \o b \in Seq(S) /\ Len(a \o b) = Len(a) + Len(b)
        /\ \A i \in 1..(Len(a) + Len(b)) : (a \o b)[i] = IF i <= Len(a) THEN a[i] ELSE b[i - Len(a)]
    BY <1>2, <1>3, ConcatProperties, Zenon
  <2>2. Len(a) = k - 1 /\ Len(a) + Len(b) = Len(q) - 1
    BY <1>1, <1>2, <1>3
  <2> QED
    BY <2>1, <2>2, Zenon
<1>5. ASSUME NEW i \in DOMAIN q, i # k
      PROVE  \E j \in DOMAIN (a \o b) : (a \o b)[j] = q[i]
  <2>1. i \in 1..Len(q)
    OBVIOUS
  <2>2. CASE i < k
    <3>1. i \in 1..(Len(q) - 1) /\ i <= k - 1 /\ i \in 1..(k - 1)
      BY <1>1, <2>1, <2>2
    <3>2. (a \o b)[i] = q[i] /\ i \in DOMAIN (a \o b)
      BY <1>2, <1>4, <3>1
    <3> QED
      BY <3>2
  <2>3. CASE i > k
    <3>1. /\ i - 1 \in 1..(Len(q) - 1) /\ ~(i - 1 <= k - 1)
          /\ i - k \in 1..(Len(q) - k) /\ (i - 1) - (k - 1) = i - k /\ k + (i - k) = i
      BY <1>1, <2>1, <2>3
    <3>2. (a \o b)[i - 1] = b[i - k]
      BY <1>4, <3>1
    <3>3. b[i - k] = q[i]
      BY <1>3, <3>1
    <3>4. i - 1 \in DOMAIN (a \o b)
      BY <1>4, <3>1
    <3> QED
      BY <3>2, <3>3, <3>4
  <2> QED
    BY <1>1, <1>5, <2>1, <2>2, <2>3
<1> QED
  BY <1>4, <1>5 DEF a, b

(***************************************************************************)
(* The two places where the queue of waiting consumers loses one of them.  *)
(***************************************************************************)
LEMMA NotifyTypes ==
  ASSUME TypeOK, NotifyOne
  PROVE  /\ permit' \in BOOLEAN /\ waiters' \in Seq(Consumers)
         /\ pc' \in [Consumers -> {"idle", "arm", "wait", "drain", "pass", "dead"}]
<1>1. CASE waiters = <<>>
  BY <1>1 DEF NotifyOne, TypeOK
<1>2. CASE waiters # <<>>
  <2>1. Head(waiters) \in Consumers /\ Tail(waiters) \in Seq(Consumers)
    BY <1>2, HeadTailProperties DEF TypeOK
  <2> QED
    BY <1>2, <2>1 DEF NotifyOne, TypeOK
<1> QED
  BY <1>1, <1>2

LEMMA ForgetTypes ==
  ASSUME TypeOK, NEW c, Forget(c)
  PROVE  waiters' \in Seq(Consumers)
<1>1. PICK i \in DOMAIN waiters :
        waiters' = SubSeq(waiters, 1, i - 1) \o SubSeq(waiters, i + 1, Len(waiters))
  BY DEF Forget
<1>2. waiters \in Seq(Consumers)
  BY DEF TypeOK
<1> QED
  BY ONLY <1>1, <1>2, CutKeeps

(***************************************************************************)
(* The type invariant is inductive.                                        *)
(***************************************************************************)
LEMMA TypesInit == Init => TypeOK
<1> SUFFICES ASSUME Init PROVE TypeOK
  OBVIOUS
<1>1. <<>> \in Seq(Packet) /\ <<>> \in Seq(Consumers)
  OBVIOUS
<1>2. /\ pc \in [Consumers -> {"idle", "arm", "wait", "drain", "pass", "dead"}]
      /\ reader \in [Writers -> {"off", "open", "probe", "pong", "notify", "closed"}]
      /\ transport \in {"polling", "websocket"}
  BY DEF Init, Consumers
<1> QED
  BY <1>1, <1>2 DEF Init, TypeOK

LEMMA BreakTypes ==
  ASSUME TypeOK, Break(chan)
  PROVE  /\ loop' \in {"select", "push", "notify", "ping", "cleanup", "done"}
         /\ chan' \in Seq(Packet) /\ lost' \subseteq Nat
<1>1. Ids(chan) \subseteq Nat
  BY IdsAreNumbers DEF TypeOK
<1>2. <<>> \in Seq(Packet)
  OBVIOUS
<1> QED
  BY <1>1, <1>2 DEF Break, TypeOK

LEMMA TypesLoop ==
  ASSUME TypeOK, Loop
  PROVE  TypeOK'
<1>1. CASE LoopRecv
  <2>1. CASE open
    <3>1. Head(chan) \in Packet /\ Tail(chan) \in Seq(Packet)
      BY <1>1, HeadTailProperties DEF LoopRecv, TypeOK
    <3>2. <<Head(chan)>> \in Seq(Packet)
      BY <3>1
    <3> QED
      BY <1>1, <2>1, <3>1, <3>2 DEF LoopRecv, TypeOK
  <2>2. CASE ~open
    BY <1>1, <2>2, BreakTypes DEF LoopRecv, TypeOK
  <2> QED
    BY <2>1, <2>2
<1>2. CASE LoopTick
  <2>1. <<Control("ping")>> \in Seq(Packet)
    BY PacketTypes
  <2>2. carried' \in Seq(Packet)
    BY <1>2, <2>1 DEF LoopTick, TypeOK
  <2>3. loop' \in {"push", "ping"} /\ controls' = controls + 1
    BY <1>2 DEF LoopTick
  <2> QED
    BY <1>2, <2>2, <2>3 DEF LoopTick, TypeOK
<1>3. CASE LoopTickClosed
  BY <1>3, BreakTypes DEF LoopTickClosed, TypeOK
<1>4. CASE LoopTimeout
  BY <1>4 DEF LoopTimeout, TypeOK
<1>5. CASE LoopCleanupEnds
  BY <1>5, BreakTypes DEF LoopCleanupEnds, TypeOK
<1>6. CASE LoopPush
  <2>1. buffer \o carried \in Seq(Packet)
    BY ConcatProperties DEF TypeOK
  <2> QED
    BY <1>6, <2>1 DEF LoopPush, TypeOK
<1>7. CASE LoopNotify
  BY <1>7, NotifyTypes DEF LoopNotify, TypeOK
<1>8. CASE LoopPing
  <2>1. Append(chan, Control("ping")) \in Seq(Packet)
    BY PacketTypes, AppendProperties DEF TypeOK
  <2> QED
    BY <1>8, <2>1 DEF LoopPing, TypeOK
<1> QED
  BY <1>1, <1>2, <1>3, <1>4, <1>5, <1>6, <1>7, <1>8 DEF Loop

LEMMA TypesArmDrain ==
  ASSUME TypeOK, NEW c \in Consumers, Arm(c) \/ Drain(c)
  PROVE  TypeOK'
<1>1. CASE Arm(c)
  <2>1. Append(waiters, c) \in Seq(Consumers)
    BY AppendProperties DEF TypeOK
  <2> QED
    BY <1>1, <2>1 DEF Arm, TypeOK
<1>2. CASE Drain(c)
  BY <1>2 DEF Drain, TypeOK
<1> QED
  BY <1>1, <1>2

LEMMA TypesGet ==
  ASSUME TypeOK, NEW g \in Gets, Get(g)
  PROVE  TypeOK'
<1> g \in Consumers
  BY DEF Consumers
<1>1. CASE GetStart(g)
  BY <1>1 DEF GetStart, TypeOK
<1>2. CASE GetTimeout(g)
  BY <1>2, ForgetTypes DEF GetTimeout, TypeOK
<1>3. CASE GetRespond(g)
  <2>1. hand[g] \in Seq(Packet) /\ Ids(hand[g]) \subseteq Nat
    BY IdsAreNumbers DEF TypeOK
  <2>2. got[g] \o hand[g] \in Seq(Packet)
    BY <2>1, ConcatProperties DEF TypeOK
  <2>3. <<>> \in Seq(Packet)
    OBVIOUS
  <2>4. got' \in [Consumers -> Seq(Packet)]
    BY <1>3, <2>2 DEF GetRespond, TypeOK
  <2>5. lost' \subseteq Nat
    BY <1>3, <2>1 DEF GetRespond, TypeOK
  <2>6. hand' \in [Consumers -> Seq(Packet)]
    BY <1>3, <2>3 DEF GetRespond, TypeOK
  <2>7. pc' \in [Consumers -> {"idle", "arm", "wait", "drain", "pass", "dead"}]
    BY <1>3 DEF GetRespond, TypeOK
  <2> QED
    BY <1>3, <2>4, <2>5, <2>6, <2>7 DEF GetRespond, TypeOK
<1> QED
  BY <1>1, <1>2, <1>3, TypesArmDrain DEF Get

LEMMA TypesWriter ==
  ASSUME TypeOK, NEW w \in Writers, Writer(w)
  PROVE  TypeOK'
<1> w \in Consumers
  BY DEF Consumers
<1>0. hand[w] \in Seq(Packet) /\ got[w] \in Seq(Packet) /\ Ids(hand[w]) \subseteq Nat
  BY IdsAreNumbers DEF TypeOK
<1>1. CASE WsSend(w)
  <2>1. Head(hand[w]) \in Packet /\ Tail(hand[w]) \in Seq(Packet)
    BY <1>0, <1>1, HeadTailProperties DEF WsSend
  <2>2. Append(got[w], Head(hand[w])) \in Seq(Packet)
    BY <1>0, <2>1, AppendProperties
  <2> QED
    BY <1>1, <2>1, <2>2 DEF WsSend, TypeOK
<1>2. CASE WsSendFails(w)
  <2>1. lost' \subseteq Nat
    BY <1>0, <1>2 DEF WsSendFails, TypeOK
  <2>2. hand' \in [Consumers -> Seq(Packet)]
    <3>1. <<>> \in Seq(Packet)
      OBVIOUS
    <3> QED
      BY <1>2, <3>1 DEF WsSendFails, TypeOK
  <2> QED
    BY <1>2, <2>1, <2>2 DEF WsSendFails, TypeOK
<1>3. CASE WsAgain(w)
  BY <1>3 DEF WsAgain, TypeOK
<1> QED
  BY <1>1, <1>2, <1>3, TypesArmDrain DEF Writer

LEMMA TypesReader ==
  ASSUME TypeOK, NEW w \in Writers, Reader(w)
  PROVE  TypeOK'
<1> w \in Consumers
  BY DEF Consumers
<1>1. CASE WsOpen(w)
  BY <1>1 DEF WsOpen, TypeOK
<1>2. CASE ReadPush(w)
  <2>1. Control(reader[w]) \in Packet
    BY <1>2, PacketTypes DEF ReadPush
  <2>2. Append(buffer, Control(reader[w])) \in Seq(Packet)
    BY <2>1, AppendProperties DEF TypeOK
  <2> QED
    BY <1>2, <2>2 DEF ReadPush, TypeOK
<1>3. CASE ReadNotify(w)
  BY <1>3, NotifyTypes DEF ReadNotify, TypeOK
<1>4. CASE ReadUpgrade(w)
  BY <1>4 DEF ReadUpgrade, TypeOK
<1>5. CASE ReadEnd(w)
  <2>1. lost' \subseteq Nat
    <3>1. Ids(hand[w]) \subseteq Nat
      BY IdsAreNumbers DEF TypeOK
    <3> QED
      BY <1>5, <3>1 DEF ReadEnd, TypeOK
  <2>2. hand' \in [Consumers -> Seq(Packet)]
    <3>1. <<>> \in Seq(Packet)
      OBVIOUS
    <3> QED
      BY <1>5, <3>1 DEF ReadEnd, TypeOK
  <2>3. reader' \in [Writers -> {"off", "open", "probe", "pong", "notify", "closed"}]
    BY <1>5 DEF ReadEnd, TypeOK
  <2>4. /\ waiters' \in Seq(Consumers) /\ permit' \in BOOLEAN
        /\ pc' \in [Consumers -> {"idle", "arm", "wait", "drain", "pass", "dead"}]
    <3>1. CASE pc[w] = "drain" /\ waiters # <<>>
      <4>1. Head(waiters) \in Consumers /\ Tail(waiters) \in Seq(Consumers)
        BY <3>1, HeadTailProperties DEF TypeOK
      <4>2. /\ waiters' \in {Tail(waiters), waiters} /\ permit' = permit
            /\ \/ pc' = [pc EXCEPT ![w] = "dead", ![Head(waiters)] = "drain"]
               \/ pc' = [pc EXCEPT ![w] = "dead"]
        BY <1>5, <3>1 DEF ReadEnd
      <4> QED
        BY <4>1, <4>2 DEF TypeOK
    <3>2. CASE ~(pc[w] = "drain" /\ waiters # <<>>)
      <4>1. waiters' \in Seq(Consumers)
        BY <1>5, <3>2, ForgetTypes DEF ReadEnd, TypeOK
      <4>2. pc' = [pc EXCEPT ![w] = "dead"]
        BY <1>5, <3>2 DEF ReadEnd
      <4>3. permit' \in {permit, TRUE}
        BY <1>5, <3>2 DEF ReadEnd
      <4> QED
        BY <4>1, <4>2, <4>3 DEF TypeOK
    <3> QED
      BY <3>1, <3>2
  <2> QED
    BY <1>5, <2>1, <2>2, <2>3, <2>4 DEF ReadEnd, TypeOK
<1>6. CASE \E a \in {"probe", "pong"} : ReadPing(w, a)
  BY <1>6 DEF ReadPing, TypeOK
<1> QED
  BY <1>1, <1>2, <1>3, <1>4, <1>5, <1>6 DEF Reader

LEMMA TypesNext ==
  ASSUME TypeOK, [Next]_vars
  PROVE  TypeOK'
<1>1. CASE Send
  <2>1. Message(sent + 1) \in Packet /\ sent + 1 \in Nat
    BY PacketTypes DEF TypeOK
  <2>2. Append(chan, Message(sent + 1)) \in Seq(Packet)
    BY <2>1, AppendProperties DEF TypeOK
  <2> QED
    BY <1>1, <2>1, <2>2 DEF Send, TypeOK
<1>2. CASE PostClose
  BY <1>2 DEF PostClose, TypeOK
<1>3. CASE CleanedUp \/ RemoveSession
  BY <1>3 DEF CleanedUp, RemoveSession, TypeOK
<1>4. CASE UNCHANGED vars
  BY <1>4 DEF vars, TypeOK
<1> QED
  BY <1>1, <1>2, <1>3, <1>4, TypesLoop, TypesGet, TypesWriter, TypesReader DEF Next

\* The state of a session is well formed in every reachable state: the
\* channel, the buffer and the hands hold packets, and only consumers of this
\* session wait on its Notify.
THEOREM TypeInvariant == Spec => []TypeOK
<1>1. Init => TypeOK
  BY TypesInit
<1>2. TypeOK /\ [Next]_vars => TypeOK'
  BY TypesNext
<1> QED
  BY <1>1, <1>2, PTL DEF Spec

(***************************************************************************)
(* Nobody sleeps over data.  NoSleepOverData is not inductive: a notify    *)
(* that finds nobody waiting relies on the permit to wake the next one to  *)
(* come, a permit is only as good as the emptiness of the queue, and a     *)
(* notify reaches only those that are in the queue.                        *)
(***************************************************************************)

\* A stored permit means that nobody waits.
PermitMeansFree == permit => waiters = <<>>

\* Whoever sleeps is in the queue.
SleepersQueue ==
  \A c \in Consumers : pc[c] = "wait" => \E i \in DOMAIN waiters : waiters[i] = c

\* Packets in the buffer have been announced, or are about to be.
Announced == ~closing /\ buffer # <<>> => permit \/ Attended

Awake == PermitMeansFree /\ SleepersQueue /\ Announced

LEMMA AwakeSuffices == TypeOK /\ Awake => NoSleepOverData
<1> SUFFICES ASSUME TypeOK, Awake, ~closing, buffer # <<>>, ~Attended,
                    NEW c \in Consumers, pc[c] = "wait"
             PROVE  FALSE
  BY DEF NoSleepOverData
<1>1. waiters = <<>>
  BY DEF Awake, Announced, PermitMeansFree
<1>2. \E i \in DOMAIN waiters : waiters[i] = c
  BY DEF Awake, SleepersQueue
<1>3. DOMAIN waiters = {}
  BY <1>1
<1> QED
  BY <1>2, <1>3

LEMMA AwakeInit == Init => Awake
<1> SUFFICES ASSUME Init PROVE Awake
  OBVIOUS
<1>1. \A c \in Consumers : pc[c] # "wait"
  BY DEF Init
<1> QED
  BY <1>1 DEF Init, Awake, PermitMeansFree, SleepersQueue, Announced

\* notify_one leaves a permit or a consumer on its way to the buffer.
LEMMA NotifyAwake ==
  ASSUME TypeOK, Awake, NotifyOne
  PROVE  /\ PermitMeansFree' /\ SleepersQueue'
         /\ permit' \/ \E c \in Consumers : pc'[c] = "drain"
<1>0. waiters \in Seq(Consumers)
  BY DEF TypeOK
<1>1. CASE waiters = <<>>
  BY <1>1 DEF NotifyOne, Awake, PermitMeansFree, SleepersQueue
<1>2. CASE waiters # <<>>
  <2>1. Head(waiters) \in Consumers
    BY <1>0, <1>2, HeadTailProperties
  <2>2. /\ pc' = [pc EXCEPT ![Head(waiters)] = "drain"] /\ waiters' = Tail(waiters)
        /\ ~permit'
    BY <1>2 DEF NotifyOne, Awake, PermitMeansFree
  <2>3. pc'[Head(waiters)] = "drain"
    BY <2>1, <2>2 DEF TypeOK
  <2>4. ASSUME NEW c \in Consumers, pc'[c] = "wait"
        PROVE  \E j \in DOMAIN Tail(waiters) : Tail(waiters)[j] = c
    <3>1. c # Head(waiters) /\ pc[c] = "wait"
      BY <2>2, <2>3, <2>4 DEF TypeOK
    <3>2. PICK i \in DOMAIN waiters : waiters[i] = c
      BY <3>1 DEF Awake, SleepersQueue
    <3> QED
      BY <1>0, <1>2, <3>1, <3>2, TailKeeps
  <2> QED
    BY <2>1, <2>2, <2>3, <2>4 DEF PermitMeansFree, SleepersQueue
<1> QED
  BY <1>1, <1>2

\* A consumer that is woken otherwise leaves the queue, the others stay.
LEMMA ForgetAwake ==
  ASSUME TypeOK, Awake, NEW c \in Consumers, Forget(c), NEW l, l # "wait",
         pc' = [pc EXCEPT ![c] = l]
  PROVE  SleepersQueue' /\ waiters # <<>>
<1>0. waiters \in Seq(Consumers)
  BY DEF TypeOK
<1>1. PICK k \in DOMAIN waiters :
        /\ waiters[k] = c
        /\ waiters' = SubSeq(waiters, 1, k - 1) \o SubSeq(waiters, k + 1, Len(waiters))
  BY DEF Forget
<1>2. \A i \in DOMAIN waiters : i # k => \E j \in DOMAIN waiters' : waiters'[j] = waiters[i]
  BY ONLY <1>0, <1>1, CutKeeps
<1>3. ASSUME NEW d \in Consumers, pc'[d] = "wait"
      PROVE  \E j \in DOMAIN waiters' : waiters'[j] = d
  <2>1. d # c /\ pc[d] = "wait"
    BY <1>3 DEF TypeOK
  <2>2. PICK i \in DOMAIN waiters : waiters[i] = d
    BY <2>1 DEF Awake, SleepersQueue
  <2>3. i # k
    BY <1>1, <2>1, <2>2
  <2> QED
    BY <1>2, <2>2, <2>3
<1>4. waiters # <<>>
  <2>1. DOMAIN <<>> = {}
    OBVIOUS
  <2> QED
    BY <1>1, <2>1
<1> QED
  BY <1>3, <1>4 DEF SleepersQueue

(***************************************************************************)
(* A step that leaves the Notify alone, puts nobody to sleep and wakes     *)
(* nobody, and puts nothing new into the buffer.                           *)
(***************************************************************************)
LEMMA CalmAwake ==
  ASSUME Awake, permit' = permit, waiters' = waiters,
         \A c \in Consumers : pc'[c] = "wait" => pc[c] = "wait",
         closing' = FALSE => closing = FALSE /\ (Attended' \/ (~Attended /\ buffer' = buffer) \/ buffer' = <<>>),
         closing' \in BOOLEAN
  PROVE  Awake'
<1>1. PermitMeansFree' /\ SleepersQueue'
  BY DEF Awake, PermitMeansFree, SleepersQueue
<1>2. Announced'
  BY DEF Awake, Announced
<1> QED
  BY <1>1, <1>2 DEF Awake

LEMMA AwakeLoop ==
  ASSUME TypeOK, Awake, Loop
  PROVE  Awake'
<1>1. CASE LoopRecv
  <2>1. loop = "select" /\ loop' \in {"push", "done"}
    BY <1>1 DEF LoopRecv, Break
  <2> QED
    BY <1>1, <2>1, CalmAwake DEF LoopRecv, Attended, TypeOK
<1>2. CASE LoopTick
  <2>1. loop = "select" /\ loop' \in {"push", "ping"}
    BY <1>2 DEF LoopTick
  <2> QED
    BY <1>2, <2>1, CalmAwake DEF LoopTick, Attended, TypeOK
<1>3. CASE LoopTickClosed
  BY <1>3, CalmAwake DEF LoopTickClosed, Break, Attended, TypeOK
<1>4. CASE LoopTimeout
  BY <1>4, CalmAwake DEF LoopTimeout, Attended, TypeOK
<1>5. CASE LoopCleanupEnds
  BY <1>5, CalmAwake DEF LoopCleanupEnds, Break, Attended, TypeOK
<1>6. CASE LoopPush
  <2>1. Attended'
    BY <1>6 DEF LoopPush, Attended
  <2> QED
    BY <1>6, <2>1, CalmAwake DEF LoopPush, TypeOK
<1>7. CASE LoopNotify
  BY <1>7, NotifyAwake DEF LoopNotify, Awake, Announced, Attended
<1>8. CASE LoopPing
  BY <1>8, CalmAwake DEF LoopPing, Attended, TypeOK
<1> QED
  BY <1>1, <1>2, <1>3, <1>4, <1>5, <1>6, <1>7, <1>8 DEF Loop

\* The first poll takes the permit, or joins the queue when there is none.
LEMMA AwakeArm ==
  ASSUME TypeOK, Awake, NEW c \in Consumers, Arm(c)
  PROVE  Awake'
<1>0. waiters \in Seq(Consumers)
  BY DEF TypeOK
<1>1. CASE permit
  <2>1. pc' = [pc EXCEPT ![c] = "drain"] /\ ~permit' /\ waiters' = waiters
    BY <1>1 DEF Arm
  <2>2. pc'[c] = "drain"
    BY <2>1 DEF TypeOK
  <2>3. \A d \in Consumers : pc'[d] = "wait" => pc[d] = "wait"
    BY <2>1 DEF TypeOK
  <2> QED
    BY <2>1, <2>2, <2>3 DEF Awake, PermitMeansFree, SleepersQueue, Announced, Attended
<1>2. CASE ~permit
  <2>1. /\ pc' = [pc EXCEPT ![c] = "wait"] /\ permit' = permit
        /\ waiters' = Append(waiters, c) /\ pc[c] = "arm"
        /\ buffer' = buffer /\ closing' = closing /\ loop' = loop /\ reader' = reader
    BY <1>2 DEF Arm
  <2>2. SleepersQueue'
    <3> SUFFICES ASSUME NEW d \in Consumers, pc'[d] = "wait"
                 PROVE  \E j \in DOMAIN Append(waiters, c) : Append(waiters, c)[j] = d
      BY <2>1 DEF SleepersQueue
    <3>1. CASE d = c
      BY <1>0, <3>1, AppendKeeps
    <3>2. CASE d # c
      <4>1. PICK i \in DOMAIN waiters : waiters[i] = d
        BY <2>1, <3>2 DEF Awake, SleepersQueue, TypeOK
      <4>2. \E j \in DOMAIN Append(waiters, c) : Append(waiters, c)[j] = waiters[i]
        BY ONLY <1>0, c \in Consumers, i \in DOMAIN waiters, AppendKeeps
      <4> QED
        BY <4>1, <4>2
    <3> QED
      BY <3>1, <3>2
  <2>3. Attended => Attended'
    BY <2>1 DEF Attended, TypeOK
  <2> QED
    BY <1>2, <2>1, <2>2, <2>3 DEF Awake, PermitMeansFree, Announced
<1> QED
  BY <1>1, <1>2

\* Whoever empties the buffer leaves nothing to sleep over.
LEMMA AwakeDrain ==
  ASSUME TypeOK, Awake, NEW c \in Consumers, Drain(c)
  PROVE  Awake'
<1>1. \A d \in Consumers : pc'[d] = "wait" => pc[d] = "wait"
  BY DEF Drain, TypeOK
<1> QED
  BY <1>1, CalmAwake DEF Drain, TypeOK

\* A consumer moves on from a position that owes nothing to the buffer.
LEMMA MoveAwake ==
  ASSUME TypeOK, Awake, NEW c \in Consumers, NEW l \in {"idle", "arm", "dead"},
         pc[c] # "drain", pc' = [pc EXCEPT ![c] = l],
         UNCHANGED <<permit, waiters, buffer, closing, loop>>,
         \A v \in Writers : reader[v] = "notify" => reader'[v] = "notify"
  PROVE  Awake'
<1>1. \A d \in Consumers : /\ pc'[d] = "wait" => pc[d] = "wait"
                           /\ pc[d] = "drain" => pc'[d] = "drain"
  BY DEF TypeOK
<1>2. Attended => Attended'
  BY <1>1 DEF Attended
<1> QED
  BY <1>1, <1>2 DEF Awake, PermitMeansFree, SleepersQueue, Announced

LEMMA AwakeGet ==
  ASSUME TypeOK, Awake, NEW g \in Gets, Get(g)
  PROVE  Awake'
<1> g \in Consumers
  BY DEF Consumers
<1>1. CASE GetStart(g)
  BY <1>1, MoveAwake DEF GetStart
<1>2. CASE GetTimeout(g)
  <2>1. pc' = [pc EXCEPT ![g] = "drain"] /\ Forget(g) /\ permit' = permit
    BY <1>2 DEF GetTimeout
  <2>2. SleepersQueue' /\ waiters # <<>>
    BY <2>1, ForgetAwake
  <2>3. PermitMeansFree'
    BY <2>1, <2>2 DEF Awake, PermitMeansFree
  <2>4. Attended'
    BY <2>1 DEF Attended, TypeOK
  <2> QED
    BY <2>2, <2>3, <2>4 DEF Awake, Announced
<1>3. CASE GetRespond(g)
  BY <1>3, MoveAwake DEF GetRespond
<1> QED
  BY <1>1, <1>2, <1>3, AwakeArm, AwakeDrain DEF Get

LEMMA AwakeWriter ==
  ASSUME TypeOK, Awake, NEW w \in Writers, Writer(w)
  PROVE  Awake'
<1> w \in Consumers
  BY DEF Consumers
<1>1. CASE WsSend(w)
  BY <1>1, CalmAwake DEF WsSend, Attended, TypeOK, Awake, PermitMeansFree, SleepersQueue, Announced
<1>2. CASE WsSendFails(w)
  BY <1>2, MoveAwake DEF WsSendFails
<1>3. CASE WsAgain(w)
  BY <1>3, MoveAwake DEF WsAgain
<1> QED
  BY <1>1, <1>2, <1>3, AwakeArm, AwakeDrain DEF Writer

LEMMA AwakeReader ==
  ASSUME TypeOK, Awake, NEW w \in Writers, Reader(w)
  PROVE  Awake'
<1> w \in Consumers
  BY DEF Consumers
<1>1. CASE WsOpen(w)
  <2>1. \A v \in Writers : reader[v] = "notify" => reader'[v] = "notify"
    BY <1>1 DEF WsOpen, TypeOK
  <2> QED
    BY <1>1, <2>1, MoveAwake DEF WsOpen
<1>2. CASE ReadPush(w)
  <2>1. reader'[w] = "notify"
    BY <1>2 DEF ReadPush, TypeOK
  <2>2. Attended'
    BY <2>1 DEF Attended
  <2> QED
    BY <1>2, <2>2, CalmAwake DEF ReadPush, TypeOK
<1>3. CASE ReadNotify(w)
  BY <1>3, NotifyAwake DEF ReadNotify, Awake, Announced, Attended
<1>4. CASE ReadUpgrade(w)
  BY <1>4 DEF ReadUpgrade, Awake, PermitMeansFree, SleepersQueue, Announced, Attended
<1>5. CASE ReadEnd(w)
  <2>1. Announced'
    BY <1>5 DEF ReadEnd, Announced
  <2>2. PermitMeansFree' /\ SleepersQueue'
    <3>1. CASE pc[w] = "drain" /\ waiters # <<>>
      <4>0. waiters \in Seq(Consumers) /\ Head(waiters) \in Consumers
        BY <3>1, HeadTailProperties DEF TypeOK
      <4>1. CASE pc' = [pc EXCEPT ![w] = "dead"] /\ UNCHANGED <<waiters, permit>>
        BY <4>1 DEF Awake, PermitMeansFree, SleepersQueue, TypeOK
      <4>2. CASE /\ pc' = [pc EXCEPT ![w] = "dead", ![Head(waiters)] = "drain"]
                 /\ waiters' = Tail(waiters) /\ UNCHANGED permit
        <5>1. ASSUME NEW c \in Consumers, pc'[c] = "wait"
              PROVE  \E j \in DOMAIN Tail(waiters) : Tail(waiters)[j] = c
          <6>1. c # Head(waiters) /\ pc[c] = "wait"
            BY <4>0, <4>2, <5>1 DEF TypeOK
          <6>2. PICK i \in DOMAIN waiters : waiters[i] = c
            BY <6>1 DEF Awake, SleepersQueue
          <6> QED
            BY <3>1, <4>0, <6>1, <6>2, TailKeeps
        <5> QED
          BY <3>1, <4>2, <5>1 DEF Awake, PermitMeansFree, SleepersQueue
      <4> QED
        BY <1>5, <3>1, <4>1, <4>2 DEF ReadEnd
    <3>2. CASE pc[w] = "wait"
      <4>1. pc' = [pc EXCEPT ![w] = "dead"] /\ Forget(w) /\ permit' = permit
        BY <1>5, <3>2 DEF ReadEnd
      <4> QED
        BY <4>1, ForgetAwake DEF Awake, PermitMeansFree
    <3>3. CASE pc[w] # "wait" /\ ~(pc[w] = "drain" /\ waiters # <<>>)
      <4>1. /\ pc' = [pc EXCEPT ![w] = "dead"] /\ waiters' = waiters
            /\ pc[w] # "drain" => permit' = permit
        BY <1>5, <3>3 DEF ReadEnd
      <4>2. PermitMeansFree'
        BY <3>3, <4>1 DEF Awake, PermitMeansFree
      <4>3. SleepersQueue'
        BY <4>1 DEF Awake, SleepersQueue, TypeOK
      <4> QED
        BY <4>2, <4>3
    <3> QED
      BY <3>1, <3>2, <3>3
  <2> QED
    BY <2>1, <2>2 DEF Awake
<1>6. CASE \E a \in {"probe", "pong"} : ReadPing(w, a)
  <2>1. \A v \in Writers : reader[v] = "notify" => reader'[v] = "notify"
    BY <1>6 DEF ReadPing, TypeOK
  <2> QED
    BY <1>6, <2>1 DEF ReadPing, Awake, PermitMeansFree, SleepersQueue, Announced, Attended
<1> QED
  BY <1>1, <1>2, <1>3, <1>4, <1>5, <1>6 DEF Reader

LEMMA AwakeNext ==
  ASSUME TypeOK, Awake, [Next]_vars
  PROVE  Awake'
<1>1. CASE Send
  BY <1>1 DEF Send, Awake, PermitMeansFree, SleepersQueue, Announced, Attended
<1>2. CASE PostClose
  BY <1>2 DEF PostClose, Awake, PermitMeansFree, SleepersQueue, Announced
<1>3. CASE CleanedUp \/ RemoveSession
  BY <1>3 DEF CleanedUp, RemoveSession, Awake, PermitMeansFree, SleepersQueue, Announced, Attended
<1>4. CASE UNCHANGED vars
  BY <1>4 DEF vars, Awake, PermitMeansFree, SleepersQueue, Announced, Attended
<1> QED
  BY <1>1, <1>2, <1>3, <1>4, AwakeLoop, AwakeGet, AwakeWriter, AwakeReader DEF Next

\* No wake-up is lost: while the session lasts, no GET and no WebSocket
\* writer goes on sleeping over a buffer that has packets, however many of
\* them and of readers share the poll buffer and its Notify.
THEOREM NoLostWakeUp == Spec => []NoSleepOverData
<1>1. Init => TypeOK /\ Awake
  BY TypesInit, AwakeInit
<1>2. TypeOK /\ Awake /\ [Next]_vars => (TypeOK /\ Awake)'
  BY TypesNext, AwakeNext
<1>3. TypeOK /\ Awake => NoSleepOverData
  BY AwakeSuffices
<1> QED
  BY <1>1, <1>2, <1>3, PTL DEF Spec

(***************************************************************************)
(* A session implements PacketDelivery.  What a step can do to the order   *)
(* of the messages is told by the sets of messages in each place: those in *)
(* the hand and those delivered by one consumer are below those in the     *)
(* buffer, these below the one the loop carries, this below the channel's. *)
(***************************************************************************)
Made == {p \in Packet : p.kind = "message" <=> p.id # 0}

One(p) == {p.id} \ {0}

Ascending(q) == \A i, j \in DOMAIN q : i < j /\ q[j].id # 0 => q[i].id < q[j].id

Below(S, T) == \A x \in S, y \in T : x < y

\* B: in the buffer, R: carried, C: in the channel, H: in the hands,
\* G: delivered, L: lost, n: the last message sent.
Ranked(B, R, C, H, G, L, n) ==
  /\ Below(B, R \cup C) /\ Below(R, C)
  /\ \A c \in Consumers : Below(G[c] \cup H[c], B \cup R \cup C) /\ Below(G[c], H[c])
  /\ \A c, d \in Consumers : c # d => (G[c] \cup H[c]) \cap (G[d] \cup H[d]) = {}
  /\ L \cap (B \cup R \cup C) = {} /\ \A c \in Consumers : L \cap (G[c] \cup H[c]) = {}
  /\ B \cup R \cup C \cup L \subseteq 1..n /\ \A c \in Consumers : G[c] \cup H[c] \subseteq 1..n

LEMMA MadeMessages == /\ \A i \in Nat : i # 0 => Message(i) \in Made /\ One(Message(i)) = {i}
                      /\ \A k \in {"ping", "pong", "probe"} : Control(k) \in Made /\ One(Control(k)) = {}
                      /\ \A p \in Made : p.id \in Nat /\ One(p) \subseteq Nat /\ 0 \notin One(p)
  BY PacketTypes DEF Message, Control, Packet, Made, One

LEMMA IdsMade ==
  ASSUME NEW q \in Seq(Made)
  PROVE  /\ Ids(q) = {q[i].id : i \in DOMAIN q} \ {0}
         /\ Ids(q) \subseteq Nat \ {0}
         /\ \A i \in DOMAIN q : q[i] \in Made
<1>1. \A i \in DOMAIN q : q[i] \in Made
  OBVIOUS
<1>2. \A i \in DOMAIN q : q[i].id \in Nat /\ (q[i].kind = "message" <=> q[i].id # 0)
  BY <1>1 DEF Made, Packet
<1>3. Ids(q) = {q[i].id : i \in DOMAIN q} \ {0}
  BY <1>2 DEF Ids
<1> QED
  BY <1>1, <1>2, <1>3

LEMMA IdsEmpty == Ids(<<>>) = {} /\ Ascending(<<>>)
  BY DEF Ids, Ascending

LEMMA AppendOrder ==
  ASSUME NEW q \in Seq(Made), NEW p \in Made
  PROVE  /\ Append(q, p) \in Seq(Made) /\ Ids(Append(q, p)) = Ids(q) \cup One(p)
         /\ Ascending(q) /\ Below(Ids(q), One(p)) => Ascending(Append(q, p))
<1> DEFINE r == Append(q, p)
           l == Len(q)
<1>1. /\ l \in Nat /\ DOMAIN q = 1..l /\ r \in Seq(Made) /\ DOMAIN r = 1..l + 1 /\ r[l + 1] = p
      /\ \A i \in 1..l : r[i] = q[i]
  OBVIOUS
<1> HIDE DEF r, l
<1>2. l + 1 \in 1..l + 1 /\ \A i \in 1..l + 1 : i \in 1..l \/ i = l + 1
  BY <1>1
<1>3. \A i \in 1..l : i \in 1..l + 1
  BY <1>1
<1>4. Ids(q) = {q[i].id : i \in 1..l} \ {0} /\ Ids(r) = {r[i].id : i \in 1..l + 1} \ {0}
  BY <1>1, IdsMade
<1>5. Ids(r) = Ids(q) \cup One(p)
  BY <1>1, <1>2, <1>3, <1>4 DEF One
<1>6. ASSUME Ascending(q), Below(Ids(q), One(p)), NEW i \in 1..l + 1, NEW j \in 1..l + 1, i < j, r[j].id # 0
      PROVE  r[i].id < r[j].id
  <2>1. i \in 1..l
    BY <1>1, <1>6
  <2>2. CASE j \in 1..l
    BY <1>1, <1>6, <2>1, <2>2 DEF Ascending
  <2>3. CASE j = l + 1
    <3>1. r[j].id \in One(p) /\ r[j].id \in Nat
      BY <1>1, <1>6, <2>3, MadeMessages DEF One
    <3>2. CASE q[i].id = 0
      BY <1>1, <1>6, <2>1, <3>1, <3>2
    <3>3. CASE q[i].id # 0
      <4>1. q[i].id \in Ids(q)
        BY <1>4, <2>1, <3>3
      <4>2. q[i].id < r[j].id
        BY <1>6, <3>1, <4>1 DEF Below
      <4> QED
        BY <1>1, <2>1, <4>2
    <3> QED
      BY <3>2, <3>3
  <2> QED
    BY <1>2, <2>2, <2>3
<1>7. Ascending(q) /\ Below(Ids(q), One(p)) => Ascending(r)
  BY <1>1, <1>6 DEF Ascending
<1> QED
  BY <1>1, <1>5, <1>7 DEF r

LEMMA TailOrder ==
  ASSUME NEW q \in Seq(Made), q # <<>>
  PROVE  /\ Head(q) \in Made /\ Tail(q) \in Seq(Made) /\ Ids(q) = One(Head(q)) \cup Ids(Tail(q))
         /\ Ascending(q) => Ascending(Tail(q)) /\ Below(One(Head(q)), Ids(Tail(q)))
<1> DEFINE r == Tail(q)
           h == Head(q)
           l == Len(q)
<1>1. /\ l \in Nat /\ l >= 1 /\ DOMAIN q = 1..l /\ r \in Seq(Made) /\ DOMAIN r = 1..l - 1
      /\ h \in Made /\ h = q[1]
      /\ \A i \in 1..l - 1 : r[i] = q[i + 1]
  OBVIOUS
<1> HIDE DEF r, h, l
<1>2. /\ 1 \in 1..l
      /\ \A i \in 1..l - 1 : i + 1 \in 1..l /\ 1 < i + 1
      /\ \A i \in 1..l : i = 1 \/ (i - 1 \in 1..l - 1 /\ (i - 1) + 1 = i)
  BY <1>1
<1>3. Ids(q) = {q[i].id : i \in 1..l} \ {0} /\ Ids(r) = {r[i].id : i \in 1..l - 1} \ {0}
  BY <1>1, IdsMade
<1>4. Ids(q) = One(h) \cup Ids(r)
  <2>1. ASSUME NEW x \in Ids(q) PROVE x \in One(h) \cup Ids(r)
    <3>1. PICK i \in 1..l : x = q[i].id /\ x # 0
      BY <1>3
    <3>2. CASE i = 1
      BY <1>1, <3>1, <3>2 DEF One
    <3>3. CASE i - 1 \in 1..l - 1 /\ (i - 1) + 1 = i
      <4>1. r[i - 1].id = x
        BY <1>1, <3>1, <3>3
      <4> QED
        BY <1>3, <3>1, <3>3, <4>1
    <3> QED
      BY <1>2, <3>2, <3>3
  <2>2. One(h) \subseteq Ids(q)
    BY <1>1, <1>2, <1>3 DEF One
  <2>3. Ids(r) \subseteq Ids(q)
    BY <1>1, <1>2, <1>3
  <2> QED
    BY <2>1, <2>2, <2>3
<1>5. ASSUME Ascending(q)
      PROVE  Ascending(r) /\ Below(One(h), Ids(r))
  <2>1. ASSUME NEW i \in 1..l - 1, NEW j \in 1..l - 1, i < j, r[j].id # 0
        PROVE  r[i].id < r[j].id
    <3>1. i + 1 \in 1..l /\ j + 1 \in 1..l /\ i + 1 < j + 1
      BY <1>2, <2>1
    <3>2. r[i] = q[i + 1] /\ r[j] = q[j + 1]
      BY <1>1
    <3> QED
      BY <1>1, <1>5, <2>1, <3>1, <3>2 DEF Ascending
  <2>2. ASSUME NEW y \in Ids(r) PROVE h.id < y
    <3>1. PICK j \in 1..l - 1 : y = r[j].id /\ y # 0
      BY <1>3
    <3>2. j + 1 \in 1..l /\ 1 < j + 1 /\ 1 \in 1..l /\ q[j + 1].id = y
      BY <1>1, <1>2, <3>1
    <3> QED
      BY <1>1, <1>5, <3>1, <3>2 DEF Ascending
  <2>3. Ascending(r)
    BY <1>1, <2>1 DEF Ascending
  <2> QED
    BY <2>2, <2>3 DEF Below, One
<1> QED
  BY <1>1, <1>4, <1>5 DEF r, h

LEMMA ConcatOrder ==
  ASSUME NEW q \in Seq(Made), NEW s \in Seq(Made)
  PROVE  /\ q \o s \in Seq(Made) /\ Ids(q \o s) = Ids(q) \cup Ids(s)
         /\ Ascending(q) /\ Ascending(s) /\ Below(Ids(q), Ids(s)) => Ascending(q \o s)
<1> DEFINE r == q \o s
           l == Len(q)
           m == Len(s)
<1>1. /\ l \in Nat /\ m \in Nat /\ DOMAIN q = 1..l /\ DOMAIN s = 1..m
      /\ r \in Seq(Made) /\ DOMAIN r = 1..l + m
      /\ \A i \in 1..l + m : r[i] = IF i <= l THEN q[i] ELSE s[i - l]
  <2>1. l \in Nat /\ m \in Nat /\ DOMAIN q = 1..l /\ DOMAIN s = 1..m
    BY LenProperties
  <2>2. /\ r \in Seq(Made) /\ Len(r) = l + m
        /\ \A i \in 1..l + m : r[i] = IF i <= l THEN q[i] ELSE s[i - l]
    BY ONLY ConcatProperties
  <2> HIDE DEF r
  <2>3. DOMAIN r = 1..l + m
    BY <2>2, LenProperties
  <2> QED
    BY <2>1, <2>2, <2>3
<1> HIDE DEF r, l, m
<1>2. \A i \in 1..l + m : (i \in 1..l /\ r[i] = q[i]) \/ (i - l \in 1..m /\ i > l /\ r[i] = s[i - l])
  BY <1>1
<1>3. /\ \A i \in 1..l : i \in 1..l + m /\ r[i] = q[i]
      /\ \A i \in 1..m : i + l \in 1..l + m /\ r[i + l] = s[i]
  <2>1. \A i \in 1..m : i + l \in 1..l + m /\ ~(i + l <= l) /\ (i + l) - l = i
    BY <1>1
  <2> QED
    BY <1>1, <2>1
<1>4. /\ Ids(q) = {q[i].id : i \in 1..l} \ {0} /\ Ids(r) = {r[i].id : i \in 1..l + m} \ {0}
      /\ Ids(s) = {s[i].id : i \in 1..m} \ {0}
  BY <1>1, IdsMade
<1>5. Ids(r) = Ids(q) \cup Ids(s)
  <2>1. Ids(r) \subseteq Ids(q) \cup Ids(s)
    BY <1>2, <1>4
  <2>2. Ids(q) \subseteq Ids(r) /\ Ids(s) \subseteq Ids(r)
    BY <1>3, <1>4
  <2> QED
    BY <2>1, <2>2
<1>6. ASSUME Ascending(q), Ascending(s), Below(Ids(q), Ids(s)),
             NEW i \in 1..l + m, NEW j \in 1..l + m, i < j, r[j].id # 0
      PROVE  r[i].id < r[j].id
  <2>1. CASE i \in 1..l /\ j \in 1..l
    BY <1>1, <1>3, <1>6, <2>1 DEF Ascending
  <2>2. CASE i \in 1..l /\ j - l \in 1..m /\ r[j] = s[j - l]
    <3>1. r[j].id \in Ids(s) /\ r[j].id \in Nat /\ q[i] \in Made
      BY <1>1, <1>4, <1>6, <2>2, IdsMade, MadeMessages
    <3>2. r[i] = q[i] /\ q[i].id \in Nat
      BY <1>3, <2>2, <3>1, MadeMessages
    <3>3. CASE q[i].id = 0
      BY <1>6, <3>1, <3>2, <3>3
    <3>4. CASE q[i].id # 0
      <4>1. q[i].id \in Ids(q)
        BY <1>4, <2>2, <3>4
      <4> QED
        BY <1>6, <3>1, <3>2, <4>1 DEF Below
    <3> QED
      BY <3>3, <3>4
  <2>3. CASE i > l /\ i - l \in 1..m /\ r[i] = s[i - l] /\ j - l \in 1..m /\ r[j] = s[j - l]
    <3>1. i - l < j - l
      BY <1>1, <1>6
    <3> QED
      BY <1>1, <1>6, <2>3, <3>1 DEF Ascending
  <2> QED
    BY <1>1, <1>2, <1>6, <2>1, <2>2, <2>3
<1>7. Ascending(q) /\ Ascending(s) /\ Below(Ids(q), Ids(s)) => Ascending(r)
  BY <1>1, <1>6 DEF Ascending
<1> QED
  BY <1>1, <1>5, <1>7 DEF r

\* How the sets may change: a message is sent, taken by the loop, put into the
\* buffer; the buffer goes into an empty or forgotten hand; from a hand messages
\* are delivered; or messages are lost from a hand or from the channel.
LEMMA RankSteps ==
  ASSUME NEW B, NEW R, NEW C, NEW H, NEW G, NEW L, NEW n \in Nat, Ranked(B, R, C, H, G, L, n)
  PROVE  /\ Ranked(B, R, C \cup {n + 1}, H, G, L, n + 1)
         /\ \A S, T : S \cup T \subseteq C /\ Below(S, T) => Ranked(B, S, T, H, G, L, n)
         /\ Ranked(B, {}, C, H, G, L, n)
         /\ Ranked(B \cup R, {}, C, H, G, L, n)
         /\ Ranked(B, R, {}, H, G, L \cup C, n)
<1> DEFINE K == 1..n + 1
<1>1. 1..n \subseteq 1..n + 1 /\ n + 1 \in 1..n + 1 /\ \A x \in 1..n : x < n + 1
  OBVIOUS
<1>2. Ranked(B, R, C \cup {n + 1}, H, G, L, n + 1)
  <2>1. /\ B \cup R \cup C \cup L \subseteq 1..n /\ \A c \in Consumers : G[c] \cup H[c] \subseteq 1..n
        /\ n + 1 \notin 1..n
    BY DEF Ranked
  <2>2. Below(B, R \cup (C \cup {n + 1})) /\ Below(R, C \cup {n + 1})
    BY <1>1, <2>1 DEF Ranked, Below
  <2>3. \A c \in Consumers : Below(G[c] \cup H[c], B \cup R \cup (C \cup {n + 1})) /\ Below(G[c], H[c])
    BY <1>1, <2>1 DEF Ranked, Below
  <2>4. L \cap (B \cup R \cup (C \cup {n + 1})) = {}
    BY <2>1 DEF Ranked
  <2>5. /\ B \cup R \cup (C \cup {n + 1}) \cup L \subseteq 1..n + 1
        /\ \A c \in Consumers : G[c] \cup H[c] \subseteq 1..n + 1
    BY <1>1, <2>1
  <2> QED
    BY <2>2, <2>3, <2>4, <2>5 DEF Ranked
<1>3. ASSUME NEW S, NEW T, S \cup T \subseteq C, Below(S, T)
      PROVE  Ranked(B, S, T, H, G, L, n)
  BY <1>3 DEF Ranked, Below
<1>4. Ranked(B, {}, C, H, G, L, n)
  BY DEF Ranked, Below
<1>5. Ranked(B \cup R, {}, C, H, G, L, n)
  BY DEF Ranked, Below
<1>6. Ranked(B, R, {}, H, G, L \cup C, n)
  <2>1. \A c \in Consumers : C \cap (G[c] \cup H[c]) = {}
    <3>1. \A c \in Consumers : Below(G[c] \cup H[c], C) /\ G[c] \cup H[c] \subseteq 1..n
      BY DEF Ranked, Below
    <3> QED
      BY <3>1 DEF Below
  <2>2. C \cap (B \cup R) = {}
    <3>1. Below(B, C) /\ Below(R, C) /\ B \cup R \subseteq 1..n
      BY DEF Ranked, Below
    <3> QED
      BY <3>1 DEF Below
  <2>3. (L \cup C) \cap (B \cup R \cup {}) = {} /\ \A c \in Consumers : (L \cup C) \cap (G[c] \cup H[c]) = {}
    BY <2>1, <2>2 DEF Ranked
  <2>4. /\ Below(B, R \cup {}) /\ Below(R, {})
        /\ \A c \in Consumers : Below(G[c] \cup H[c], B \cup R \cup {}) /\ Below(G[c], H[c])
    BY DEF Ranked, Below
  <2>5. /\ \A c, d \in Consumers : c # d => (G[c] \cup H[c]) \cap (G[d] \cup H[d]) = {}
        /\ B \cup R \cup {} \cup (L \cup C) \subseteq 1..n /\ \A c \in Consumers : G[c] \cup H[c] \subseteq 1..n
    BY DEF Ranked
  <2> QED
    BY <2>3, <2>4, <2>5 DEF Ranked
<1> QED
  BY <1>2, <1>3, <1>4, <1>5, <1>6

LEMMA RankHands ==
  ASSUME NEW B, NEW R, NEW C, NEW H, NEW G, NEW L, NEW n \in Nat, Ranked(B, R, C, H, G, L, n), NEW c \in Consumers,
         NEW I, NEW J, \A d \in Consumers : d # c => I[d] = H[d] /\ J[d] = G[d]
  PROVE  /\ I[c] = B /\ J[c] = G[c] => Ranked({}, R, C, I, J, L, n)
         /\ I[c] \cup J[c] \subseteq G[c] \cup H[c] /\ Below(J[c], I[c]) => Ranked(B, R, C, I, J, L, n)
         /\ I[c] = {} /\ J[c] = G[c] => Ranked(B, R, C, I, J, L \cup H[c], n)
<1>1. ASSUME I[c] = B, J[c] = G[c]
      PROVE  Ranked({}, R, C, I, J, L, n)
  <2>1. Below(G[c], B) /\ Below(B, R \cup C) /\ Below(G[c], R \cup C)
    BY DEF Ranked, Below
  <2>2. ASSUME NEW d \in Consumers, d # c
        PROVE  (G[d] \cup H[d]) \cap (G[c] \cup B) = {}
    <3>1. Below(G[d] \cup H[d], B) /\ G[d] \cup H[d] \subseteq 1..n
      BY DEF Ranked, Below
    <3>2. (G[d] \cup H[d]) \cap B = {}
      BY <3>1 DEF Below
    <3>3. (G[d] \cup H[d]) \cap (G[c] \cup H[c]) = {}
      BY <2>2 DEF Ranked
    <3> QED
      BY <3>2, <3>3
  <2>3. \A d \in Consumers : Below(J[d] \cup I[d], {} \cup R \cup C) /\ Below(J[d], I[d])
    BY <1>1, <2>1 DEF Ranked, Below
  <2>4. \A d, e \in Consumers : d # e => (J[d] \cup I[d]) \cap (J[e] \cup I[e]) = {}
    <3> SUFFICES ASSUME NEW d \in Consumers, NEW e \in Consumers, d # e
                 PROVE  (J[d] \cup I[d]) \cap (J[e] \cup I[e]) = {}
      OBVIOUS
    <3>1. CASE d = c
      BY <1>1, <2>2, <3>1
    <3>2. CASE e = c
      BY <1>1, <2>2, <3>2
    <3>3. CASE d # c /\ e # c
      BY <3>3 DEF Ranked
    <3> QED
      BY <3>1, <3>2, <3>3
  <2>5. \A d \in Consumers : L \cap (J[d] \cup I[d]) = {} /\ J[d] \cup I[d] \subseteq 1..n
    BY <1>1 DEF Ranked
  <2>6. Below({}, R \cup C) /\ Below(R, C) /\ L \cap ({} \cup R \cup C) = {} /\ {} \cup R \cup C \cup L \subseteq 1..n
    BY DEF Ranked, Below
  <2> QED
    BY <2>3, <2>4, <2>5, <2>6 DEF Ranked
<1>2. ASSUME I[c] \cup J[c] \subseteq G[c] \cup H[c], Below(J[c], I[c])
      PROVE  Ranked(B, R, C, I, J, L, n)
  <2>1. \A d \in Consumers : J[d] \cup I[d] \subseteq G[d] \cup H[d] /\ Below(J[d], I[d])
    BY <1>2 DEF Ranked
  <2>2. \A d \in Consumers : Below(J[d] \cup I[d], B \cup R \cup C)
    BY <2>1 DEF Ranked, Below
  <2>3. \A d, e \in Consumers : d # e => (J[d] \cup I[d]) \cap (J[e] \cup I[e]) = {}
    <3> SUFFICES ASSUME NEW d \in Consumers, NEW e \in Consumers, d # e
                 PROVE  (J[d] \cup I[d]) \cap (J[e] \cup I[e]) = {}
      OBVIOUS
    <3>1. (G[d] \cup H[d]) \cap (G[e] \cup H[e]) = {}
      BY DEF Ranked
    <3> QED
      BY <2>1, <3>1
  <2>4. \A d \in Consumers : L \cap (J[d] \cup I[d]) = {} /\ J[d] \cup I[d] \subseteq 1..n
    BY <2>1 DEF Ranked
  <2>5. /\ Below(B, R \cup C) /\ Below(R, C) /\ L \cap (B \cup R \cup C) = {}
        /\ B \cup R \cup C \cup L \subseteq 1..n
    BY DEF Ranked
  <2> QED
    BY <2>1, <2>2, <2>3, <2>4, <2>5 DEF Ranked
<1>3. ASSUME I[c] = {}, J[c] = G[c]
      PROVE  Ranked(B, R, C, I, J, L \cup H[c], n)
  <2>1. I[c] \cup J[c] \subseteq G[c] \cup H[c] /\ Below(J[c], I[c])
    BY <1>3 DEF Below
  <2>2. Ranked(B, R, C, I, J, L, n)
    BY <1>2, <2>1
  <2>3. H[c] \cap (B \cup R \cup C) = {} /\ H[c] \cap G[c] = {} /\ H[c] \subseteq 1..n
    <3>1. Below(H[c], B \cup R \cup C) /\ Below(G[c], H[c]) /\ G[c] \cup H[c] \subseteq 1..n
      BY DEF Ranked, Below
    <3> QED
      BY <3>1 DEF Below
  <2>4. ASSUME NEW d \in Consumers
        PROVE  H[c] \cap (J[d] \cup I[d]) = {}
    <3>1. CASE d = c
      BY <1>3, <2>3, <3>1
    <3>2. CASE d # c
      <4>1. (G[c] \cup H[c]) \cap (G[d] \cup H[d]) = {}
        BY <3>2 DEF Ranked
      <4> QED
        BY <3>2, <4>1
    <3> QED
      BY <3>1, <3>2
  <2>5. (L \cup H[c]) \cap (B \cup R \cup C) = {} /\ \A d \in Consumers : (L \cup H[c]) \cap (J[d] \cup I[d]) = {}
    BY <2>2, <2>3, <2>4 DEF Ranked
  <2> QED
    BY <2>2, <2>3, <2>5 DEF Ranked
<1> QED
  BY <1>1, <1>2, <1>3

\* Where the messages are: in the channel, carried by the loop, in the buffer,
\* in the hands and delivered, lost; the last sent is the n-th.
Placed(ch, ca, bu, ha, go, lo, n) ==
  /\ n \in Nat
  /\ ch \in Seq(Made) /\ ca \in Seq(Made) /\ bu \in Seq(Made)
  /\ Ascending(ch) /\ Ascending(ca) /\ Ascending(bu)
  /\ ha \in [Consumers -> Seq(Made)] /\ go \in [Consumers -> Seq(Made)]
  /\ \A c \in Consumers : Ascending(ha[c]) /\ Ascending(go[c])
  /\ Ranked(Ids(bu), Ids(ca), Ids(ch), [c \in Consumers |-> Ids(ha[c])],
            [c \in Consumers |-> Ids(go[c])], lo, n)

Ordered == Placed(chan, carried, buffer, hand, got, lost, sent)

LEMMA OneOrder ==
  ASSUME NEW p \in Made
  PROVE  <<p>> \in Seq(Made) /\ Ids(<<p>>) = One(p) /\ Ascending(<<p>>)
<1>1. <<p>> \in Seq(Made) /\ DOMAIN <<p>> = {1} /\ <<p>>[1] = p
  OBVIOUS
<1> HIDE DEF One
<1>2. Ids(<<p>>) = {<<p>>[i].id : i \in DOMAIN <<p>>} \ {0}
  BY <1>1, IdsMade
<1>3. {<<p>>[i].id : i \in DOMAIN <<p>>} = {p.id}
  BY <1>1
<1>4. \A i, j \in DOMAIN <<p>> : ~(i < j)
  BY <1>1
<1> QED
  BY <1>1, <1>2, <1>3, <1>4 DEF One, Ascending

\* What the sender, the loop and a WebSocket's reader do.
LEMMA PlacedOn ==
  ASSUME NEW ch, NEW ca, NEW bu, NEW ha, NEW go, NEW lo, NEW n, Placed(ch, ca, bu, ha, go, lo, n)
  PROVE  /\ Placed(Append(ch, Message(n + 1)), ca, bu, ha, go, lo, n + 1)
         /\ ch # <<>> => Placed(Tail(ch), <<Head(ch)>>, bu, ha, go, lo, n)
         /\ Placed(<<>>, ca, bu, ha, go, lo \cup Ids(ch), n)
         /\ Placed(ch, <<>>, bu \o ca, ha, go, lo, n)
         /\ \A k \in {"ping", "pong", "probe"} :
              /\ Placed(ch, <<Control(k)>>, bu, ha, go, lo, n)
              /\ Placed(Append(ch, Control(k)), ca, bu, ha, go, lo, n)
              /\ Placed(ch, ca, Append(bu, Control(k)), ha, go, lo, n)
<1> DEFINE H == [c \in Consumers |-> Ids(ha[c])]
           G == [c \in Consumers |-> Ids(go[c])]
           B == Ids(bu)
           R == Ids(ca)
           C == Ids(ch)
<1>1. Ranked(B, R, C, H, G, lo, n) /\ n \in Nat
  BY DEF Placed
<1>2. /\ ch \in Seq(Made) /\ ca \in Seq(Made) /\ bu \in Seq(Made)
      /\ Ascending(ch) /\ Ascending(ca) /\ Ascending(bu)
      /\ <<>> \in Seq(Made)
  BY DEF Placed
<1>3. ASSUME NEW x, NEW y, NEW z, NEW l, NEW m \in Nat,
             x \in Seq(Made), y \in Seq(Made), z \in Seq(Made),
             Ascending(x), Ascending(y), Ascending(z),
             Ranked(Ids(z), Ids(y), Ids(x), H, G, l, m)
      PROVE  Placed(x, y, z, ha, go, l, m)
  BY <1>3 DEF Placed
<1> HIDE DEF H, G, B, R, C
<1>4. Placed(Append(ch, Message(n + 1)), ca, bu, ha, go, lo, n + 1)
  <2>1. n + 1 \in Nat /\ n + 1 # 0
    BY <1>1
  <2>2. Message(n + 1) \in Made /\ One(Message(n + 1)) = {n + 1}
    BY <2>1, MadeMessages
  <2>3. Below(C, {n + 1})
    BY <1>1 DEF Ranked, Below
  <2>4. /\ Append(ch, Message(n + 1)) \in Seq(Made) /\ Ascending(Append(ch, Message(n + 1)))
        /\ Ids(Append(ch, Message(n + 1))) = C \cup {n + 1}
    BY <1>2, <2>2, <2>3, AppendOrder DEF C
  <2>5. Ranked(B, R, C \cup {n + 1}, H, G, lo, n + 1)
    BY <1>1, RankSteps
  <2> QED
    BY <1>2, <1>3, <2>1, <2>4, <2>5 DEF B, R
<1>5. ASSUME ch # <<>>
      PROVE  Placed(Tail(ch), <<Head(ch)>>, bu, ha, go, lo, n)
  <2>1. /\ Head(ch) \in Made /\ Tail(ch) \in Seq(Made) /\ C = One(Head(ch)) \cup Ids(Tail(ch))
        /\ Ascending(Tail(ch)) /\ Below(One(Head(ch)), Ids(Tail(ch)))
    BY <1>2, <1>5, TailOrder DEF C
  <2>2. /\ <<Head(ch)>> \in Seq(Made) /\ Ids(<<Head(ch)>>) = One(Head(ch))
        /\ Ascending(<<Head(ch)>>)
    BY <2>1, OneOrder
  <2>3. Ranked(B, Ids(<<Head(ch)>>), Ids(Tail(ch)), H, G, lo, n)
    <3>1. \A S, T : S \cup T \subseteq C /\ Below(S, T) => Ranked(B, S, T, H, G, lo, n)
      BY <1>1, RankSteps, Zenon
    <3> QED
      BY <2>1, <2>2, <3>1, Zenon
  <2> QED
    BY <1>1, <1>2, <1>3, <2>1, <2>2, <2>3 DEF B
<1>6. Placed(<<>>, ca, bu, ha, go, lo \cup Ids(ch), n)
  <2>1. Ranked(B, R, {}, H, G, lo \cup C, n)
    BY <1>1, RankSteps
  <2> QED
    BY <1>1, <1>2, <1>3, <2>1, IdsEmpty DEF B, R, C
<1>7. Placed(ch, <<>>, bu \o ca, ha, go, lo, n)
  <2>1. Ranked(B \cup R, {}, C, H, G, lo, n) /\ Below(B, R)
    <3>1. Below(B, R)
      BY <1>1 DEF Ranked, Below
    <3> QED
      BY <1>1, <3>1, RankSteps
  <2>2. bu \o ca \in Seq(Made) /\ Ids(bu \o ca) = B \cup R /\ Ascending(bu \o ca)
    BY <1>2, <2>1, ConcatOrder DEF B, R
  <2> QED
    BY <1>1, <1>2, <1>3, <2>1, <2>2, IdsEmpty DEF C
<1>8. ASSUME NEW k \in {"ping", "pong", "probe"}
      PROVE  /\ Placed(ch, <<Control(k)>>, bu, ha, go, lo, n)
             /\ Placed(Append(ch, Control(k)), ca, bu, ha, go, lo, n)
             /\ Placed(ch, ca, Append(bu, Control(k)), ha, go, lo, n)
  <2>1. Control(k) \in Made /\ One(Control(k)) = {}
    BY MadeMessages
  <2>2. /\ <<Control(k)>> \in Seq(Made) /\ Ids(<<Control(k)>>) = {} /\ Ascending(<<Control(k)>>)
    BY <2>1, OneOrder
  <2>3. \A q \in Seq(Made) : Ascending(q) => /\ Append(q, Control(k)) \in Seq(Made)
                                             /\ Ids(Append(q, Control(k))) = Ids(q)
                                             /\ Ascending(Append(q, Control(k)))
    <3>1. \A S : Below(S, {})
      BY DEF Below
    <3> QED
      BY <2>1, <3>1, AppendOrder
  <2>4. Ranked(B, {}, C, H, G, lo, n)
    BY <1>1, RankSteps
  <2>5. Placed(ch, <<Control(k)>>, bu, ha, go, lo, n)
    BY <1>1, <1>2, <1>3, <2>2, <2>4 DEF B, C
  <2>6. Placed(Append(ch, Control(k)), ca, bu, ha, go, lo, n)
    BY <1>1, <1>2, <1>3, <2>3 DEF B, R, C
  <2>7. Placed(ch, ca, Append(bu, Control(k)), ha, go, lo, n)
    BY <1>1, <1>2, <1>3, <2>3 DEF B, R, C
  <2> QED
    BY <2>5, <2>6, <2>7
<1> QED
  BY <1>4, <1>5, <1>6, <1>7, <1>8

\* What a consumer does with its hand and with what it delivered.
LEMMA PlacedHands ==
  ASSUME NEW ch, NEW ca, NEW bu, NEW ha, NEW go, NEW lo, NEW n, Placed(ch, ca, bu, ha, go, lo, n),
         NEW c \in Consumers
  PROVE  /\ Placed(ch, ca, <<>>, [ha EXCEPT ![c] = bu], go, lo, n)
         /\ Placed(ch, ca, bu, [ha EXCEPT ![c] = <<>>], [go EXCEPT ![c] = @ \o ha[c]], lo, n)
         /\ Placed(ch, ca, bu, [ha EXCEPT ![c] = <<>>], go, lo \cup Ids(ha[c]), n)
         /\ ha[c] # <<>> => Placed(ch, ca, bu, [ha EXCEPT ![c] = Tail(@)],
                                   [go EXCEPT ![c] = Append(@, Head(ha[c]))], lo, n)
<1> DEFINE H == [d \in Consumers |-> Ids(ha[d])]
           G == [d \in Consumers |-> Ids(go[d])]
           B == Ids(bu)
           R == Ids(ca)
           C == Ids(ch)
           Turn(S, X, Y, l) ==
             \A I, J : (\A d \in Consumers : d # c => I[d] = H[d] /\ J[d] = G[d]) /\ I[c] = X /\ J[c] = Y
                         => Ranked(S, R, C, I, J, l, n)
<1>1. Ranked(B, R, C, H, G, lo, n) /\ n \in Nat
  BY DEF Placed
<1>2. /\ ch \in Seq(Made) /\ ca \in Seq(Made) /\ bu \in Seq(Made) /\ ha[c] \in Seq(Made) /\ go[c] \in Seq(Made)
      /\ Ascending(ch) /\ Ascending(ca) /\ Ascending(bu) /\ Ascending(ha[c]) /\ Ascending(go[c])
      /\ <<>> \in Seq(Made) /\ Ascending(<<>>) /\ Ids(<<>>) = {}
      /\ ha \in [Consumers -> Seq(Made)] /\ go \in [Consumers -> Seq(Made)]
  BY IdsEmpty DEF Placed
<1>3. Below(G[c], H[c]) /\ H[c] = Ids(ha[c]) /\ G[c] = Ids(go[c])
  BY <1>1 DEF Ranked
<1>4. ASSUME NEW z \in Seq(Made), Ascending(z), NEW q \in Seq(Made), NEW s \in Seq(Made), Ascending(q), Ascending(s),
             NEW l, Turn(Ids(z), Ids(q), Ids(s), l)
      PROVE  Placed(ch, ca, z, [ha EXCEPT ![c] = q], [go EXCEPT ![c] = s], l, n)
  <2> DEFINE x == [ha EXCEPT ![c] = q]
             y == [go EXCEPT ![c] = s]
             I == [d \in Consumers |-> Ids(x[d])]
             J == [d \in Consumers |-> Ids(y[d])]
  <2>1. x \in [Consumers -> Seq(Made)] /\ y \in [Consumers -> Seq(Made)]
    BY <1>2
  <2>2. x[c] = q /\ y[c] = s /\ \A d \in Consumers : d # c => x[d] = ha[d] /\ y[d] = go[d]
    BY <1>2
  <2>3. \A d \in Consumers : Ascending(x[d]) /\ Ascending(y[d])
    BY <1>4, <2>2 DEF Placed
  <2> HIDE DEF x, y
  <2>4. (\A d \in Consumers : d # c => I[d] = H[d] /\ J[d] = G[d]) /\ I[c] = Ids(q) /\ J[c] = Ids(s)
    BY <2>2
  <2>5. Ranked(Ids(z), R, C, I, J, l, n)
    BY <1>4, <2>4
  <2>6. Placed(ch, ca, z, x, y, l, n)
    BY <1>1, <1>2, <1>4, <2>1, <2>3, <2>5 DEF Placed
  <2> QED
    BY <2>6 DEF x, y
<1> HIDE DEF H, G, B, R, C, Turn
<1>5. ha = [ha EXCEPT ![c] = ha[c]] /\ go = [go EXCEPT ![c] = go[c]]
  BY <1>2
<1> DEFINE Others(I, J) == \A d \in Consumers : d # c => I[d] = H[d] /\ J[d] = G[d]
<1>11. ASSUME NEW I, NEW J, Others(I, J)
       PROVE  /\ I[c] = B /\ J[c] = G[c] => Ranked({}, R, C, I, J, lo, n)
              /\ I[c] \cup J[c] \subseteq G[c] \cup H[c] /\ Below(J[c], I[c]) => Ranked(B, R, C, I, J, lo, n)
              /\ I[c] = {} /\ J[c] = G[c] => Ranked(B, R, C, I, J, lo \cup H[c], n)
  BY <1>1, <1>11, RankHands, Zenon
<1> HIDE DEF Others
<1>6. Placed(ch, ca, <<>>, [ha EXCEPT ![c] = bu], go, lo, n)
  <2>1. Turn({}, B, G[c], lo)
    <3>1. ASSUME NEW I, NEW J, \A d \in Consumers : d # c => I[d] = H[d] /\ J[d] = G[d], I[c] = B, J[c] = G[c]
          PROVE  Ranked({}, R, C, I, J, lo, n)
      BY <1>11, <3>1 DEF Others
    <3> QED
      BY <3>1 DEF Turn
  <2>2. Placed(ch, ca, <<>>, [ha EXCEPT ![c] = bu], [go EXCEPT ![c] = go[c]], lo, n)
    BY <1>2, <1>3, <1>4, <2>1 DEF B
  <2> QED
    BY <1>5, <2>2
<1>7. ASSUME NEW q \in Seq(Made), NEW s \in Seq(Made), Ascending(q), Ascending(s),
             Ids(q) \cup Ids(s) \subseteq G[c] \cup H[c], Below(Ids(s), Ids(q))
      PROVE  Placed(ch, ca, bu, [ha EXCEPT ![c] = q], [go EXCEPT ![c] = s], lo, n)
  <2>1. Turn(B, Ids(q), Ids(s), lo)
    <3>1. ASSUME NEW I, NEW J, \A d \in Consumers : d # c => I[d] = H[d] /\ J[d] = G[d],
                 I[c] = Ids(q), J[c] = Ids(s)
          PROVE  Ranked(B, R, C, I, J, lo, n)
      BY <1>7, <1>11, <3>1 DEF Others
    <3> QED
      BY <3>1 DEF Turn
  <2> QED
    BY <1>2, <1>4, <1>7, <2>1 DEF B
<1>8. Placed(ch, ca, bu, [ha EXCEPT ![c] = <<>>], [go EXCEPT ![c] = go[c] \o ha[c]], lo, n)
  <2>1. /\ go[c] \o ha[c] \in Seq(Made) /\ Ids(go[c] \o ha[c]) = G[c] \cup H[c]
        /\ Ascending(go[c] \o ha[c])
    BY <1>2, <1>3, ConcatOrder
  <2>2. Below(G[c] \cup H[c], {})
    BY DEF Below
  <2> QED
    BY <1>2, <1>7, <2>1, <2>2
<1>9. Placed(ch, ca, bu, [ha EXCEPT ![c] = <<>>], go, lo \cup Ids(ha[c]), n)
  <2>1. Turn(B, {}, G[c], lo \cup H[c])
    BY <1>1, RankHands DEF Turn
  <2>2. Placed(ch, ca, bu, [ha EXCEPT ![c] = <<>>], [go EXCEPT ![c] = go[c]], lo \cup Ids(ha[c]), n)
    BY <1>2, <1>3, <1>4, <2>1 DEF B
  <2> QED
    BY <1>5, <2>2
<1>10. ASSUME ha[c] # <<>>
       PROVE  Placed(ch, ca, bu, [ha EXCEPT ![c] = Tail(ha[c])], [go EXCEPT ![c] = Append(go[c], Head(ha[c]))], lo, n)
  <2>1. /\ Head(ha[c]) \in Made /\ Tail(ha[c]) \in Seq(Made) /\ Ascending(Tail(ha[c]))
        /\ H[c] = One(Head(ha[c])) \cup Ids(Tail(ha[c]))
        /\ Below(One(Head(ha[c])), Ids(Tail(ha[c])))
    BY <1>2, <1>3, <1>10, TailOrder
  <2>2. Below(G[c], One(Head(ha[c])))
    BY <1>3, <2>1 DEF Below
  <2>3. /\ Append(go[c], Head(ha[c])) \in Seq(Made) /\ Ascending(Append(go[c], Head(ha[c])))
        /\ Ids(Append(go[c], Head(ha[c]))) = G[c] \cup One(Head(ha[c]))
    BY <1>2, <1>3, <2>1, <2>2, AppendOrder
  <2>4. Below(G[c] \cup One(Head(ha[c])), Ids(Tail(ha[c])))
    BY <1>3, <2>1 DEF Below
  <2> QED
    BY <1>7, <2>1, <2>3, <2>4
<1> QED
  BY <1>6, <1>8, <1>9, <1>10

LEMMA OrderedInit == Init => Ordered
<1> SUFFICES ASSUME Init PROVE Ordered
  OBVIOUS
<1> DEFINE E == [c \in Consumers |-> {}]
           N == [c \in Consumers |-> <<>>]
<1>1. /\ chan = <<>> /\ carried = <<>> /\ buffer = <<>> /\ hand = N /\ got = N /\ sent = 0 /\ lost = {}
  BY DEF Init
<1>2. Ranked({}, {}, {}, E, E, {}, 0)
  BY DEF Ranked, Below
<1>3. <<>> \in Seq(Made) /\ N \in [Consumers -> Seq(Made)] /\ \A c \in Consumers : N[c] = <<>>
  OBVIOUS
<1>4. [c \in Consumers |-> Ids(N[c])] = E
  BY IdsEmpty
<1> HIDE DEF N, E
<1> QED
  BY <1>1, <1>2, <1>3, <1>4, IdsEmpty DEF Ordered, Placed

LEMMA BreakOrdered ==
  ASSUME Ordered, Break(chan), UNCHANGED <<carried, buffer, hand, got, sent>>
  PROVE  Ordered'
<1>1. Placed(<<>>, carried, buffer, hand, got, lost \cup Ids(chan), sent)
  BY PlacedOn DEF Ordered
<1> QED
  BY <1>1 DEF Ordered, Break

LEMMA OrderedLoop ==
  ASSUME Ordered, Loop
  PROVE  Ordered'
<1>1. CASE LoopRecv
  <2>1. CASE open
    <3>1. Placed(Tail(chan), <<Head(chan)>>, buffer, hand, got, lost, sent)
      BY <1>1, <2>1, PlacedOn DEF Ordered, LoopRecv
    <3> QED
      BY <1>1, <2>1, <3>1 DEF Ordered, LoopRecv
  <2>2. CASE ~open
    BY <1>1, <2>2, BreakOrdered DEF LoopRecv
  <2> QED
    BY <2>1, <2>2
<1>2. CASE LoopTick
  <2>1. Placed(chan, <<Control("ping")>>, buffer, hand, got, lost, sent)
    BY PlacedOn DEF Ordered
  <2> QED
    BY <1>2, <2>1 DEF Ordered, LoopTick
<1>3. CASE LoopTickClosed
  BY <1>3, BreakOrdered DEF LoopTickClosed
<1>4. CASE LoopTimeout
  BY <1>4 DEF Ordered, LoopTimeout
<1>5. CASE LoopCleanupEnds
  BY <1>5, BreakOrdered DEF LoopCleanupEnds
<1>6. CASE LoopPush
  <2>1. Placed(chan, <<>>, buffer \o carried, hand, got, lost, sent)
    BY PlacedOn DEF Ordered
  <2> QED
    BY <1>6, <2>1 DEF Ordered, LoopPush
<1>7. CASE LoopNotify
  BY <1>7 DEF Ordered, LoopNotify
<1>8. CASE LoopPing
  <2>1. Placed(Append(chan, Control("ping")), carried, buffer, hand, got, lost, sent)
    BY PlacedOn DEF Ordered
  <2> QED
    BY <1>8, <2>1 DEF Ordered, LoopPing
<1> QED
  BY <1>1, <1>2, <1>3, <1>4, <1>5, <1>6, <1>7, <1>8 DEF Loop

LEMMA OrderedDrain ==
  ASSUME Ordered, NEW c \in Consumers, Arm(c) \/ Drain(c)
  PROVE  Ordered'
<1>1. Placed(chan, carried, <<>>, [hand EXCEPT ![c] = buffer], got, lost, sent)
  BY PlacedHands DEF Ordered
<1>2. CASE Drain(c)
  BY <1>1, <1>2 DEF Ordered, Drain
<1>3. CASE Arm(c)
  BY <1>3 DEF Ordered, Arm
<1> QED
  BY <1>2, <1>3

LEMMA OrderedGet ==
  ASSUME Ordered, NEW g \in Gets, Get(g)
  PROVE  Ordered'
<1>1. g \in Consumers
  BY DEF Consumers
<1>2. CASE GetStart(g) \/ GetTimeout(g)
  BY <1>2 DEF Ordered, GetStart, GetTimeout
<1>3. CASE GetRespond(g)
  <2>1. /\ Placed(chan, carried, buffer, [hand EXCEPT ![g] = <<>>], [got EXCEPT ![g] = @ \o hand[g]], lost, sent)
        /\ Placed(chan, carried, buffer, [hand EXCEPT ![g] = <<>>], got, lost \cup Ids(hand[g]), sent)
    BY <1>1, PlacedHands DEF Ordered
  <2> QED
    BY <1>3, <2>1 DEF Ordered, GetRespond
<1> QED
  BY <1>1, <1>2, <1>3, OrderedDrain DEF Get

LEMMA OrderedWriter ==
  ASSUME Ordered, NEW w \in Writers, Writer(w)
  PROVE  Ordered'
<1>1. w \in Consumers
  BY DEF Consumers
<1>2. /\ Placed(chan, carried, buffer, [hand EXCEPT ![w] = <<>>], got, lost \cup Ids(hand[w]), sent)
      /\ hand[w] # <<>> => Placed(chan, carried, buffer, [hand EXCEPT ![w] = Tail(@)],
                                  [got EXCEPT ![w] = Append(@, Head(hand[w]))], lost, sent)
  BY <1>1, PlacedHands DEF Ordered
<1>3. CASE WsSend(w)
  BY <1>2, <1>3 DEF Ordered, WsSend
<1>4. CASE WsSendFails(w)
  BY <1>2, <1>4 DEF Ordered, WsSendFails
<1>5. CASE WsAgain(w)
  BY <1>5 DEF Ordered, WsAgain
<1> QED
  BY <1>1, <1>3, <1>4, <1>5, OrderedDrain DEF Writer

LEMMA OrderedReader ==
  ASSUME Ordered, NEW w \in Writers, Reader(w)
  PROVE  Ordered'
<1>1. w \in Consumers
  BY DEF Consumers
<1>2. CASE WsOpen(w) \/ ReadNotify(w) \/ ReadUpgrade(w) \/ \E a \in {"probe", "pong"} : ReadPing(w, a)
  BY <1>2 DEF Ordered, WsOpen, ReadNotify, ReadUpgrade, ReadPing
<1>3. CASE ReadPush(w)
  <2>1. Placed(chan, carried, Append(buffer, Control(reader[w])), hand, got, lost, sent)
    BY <1>3, PlacedOn DEF Ordered, ReadPush
  <2> QED
    BY <1>3, <2>1 DEF Ordered, ReadPush
<1>4. CASE ReadEnd(w)
  <2>1. Placed(chan, carried, buffer, [hand EXCEPT ![w] = <<>>], got, lost \cup Ids(hand[w]), sent)
    BY <1>1, PlacedHands DEF Ordered
  <2> QED
    BY <1>4, <2>1 DEF Ordered, ReadEnd
<1> QED
  BY <1>2, <1>3, <1>4 DEF Reader

LEMMA OrderedNext == Ordered /\ [Next]_vars => Ordered'
<1> SUFFICES ASSUME Ordered, [Next]_vars PROVE Ordered'
  OBVIOUS
<1>1. CASE Send
  <2>1. Placed(Append(chan, Message(sent + 1)), carried, buffer, hand, got, lost, sent + 1)
    BY PlacedOn DEF Ordered
  <2> QED
    BY <1>1, <2>1 DEF Ordered, Send
<1>2. CASE PostClose \/ CleanedUp \/ RemoveSession \/ UNCHANGED vars
  BY <1>2 DEF Ordered, PostClose, CleanedUp, RemoveSession, vars
<1> QED
  BY <1>1, <1>2, OrderedLoop, OrderedGet, OrderedWriter, OrderedReader DEF Next

\* What PacketDelivery sees of the packets a connection delivered.
Told(q) == [k \in DOMAIN q |-> q[k].id]

LEMMA ToldPackets ==
  ASSUME NEW q \in Seq(Made)
  PROVE  /\ Told(q) \in Seq(Ids(q) \cup {0}) /\ Len(Told(q)) = Len(q) /\ DOMAIN Told(q) = DOMAIN q
         /\ \A k \in DOMAIN q : Told(q)[k] = q[k].id
         /\ Ascending(q) => Delivery!InOrder(Told(q))
<1>1. DOMAIN q = 1..Len(q) /\ Len(q) \in Nat
  OBVIOUS
<1>2. Ids(q) = {q[i].id : i \in DOMAIN q} \ {0}
  BY IdsMade
<1>3. DOMAIN Told(q) = 1..Len(q) /\ \A k \in 1..Len(q) : Told(q)[k] = q[k].id /\ q[k].id \in Ids(q) \cup {0}
  BY <1>1, <1>2 DEF Told
<1>4. Told(q) \in [1..Len(q) -> Ids(q) \cup {0}]
  BY <1>1, <1>3 DEF Told
<1>5. Told(q) \in Seq(Ids(q) \cup {0}) /\ Len(Told(q)) = Len(q)
  BY ONLY <1>1, <1>4, IsASeq, LenProperties
<1> QED
  BY <1>1, <1>3, <1>5 DEF Ascending, Delivery!InOrder

\* What is still in a hand or in the channel is neither delivered nor lost.
LEMMA StillOutstanding ==
  ASSUME Ordered
  PROVE  Ids(chan) \subseteq Delivery!Outstanding /\ \A c \in Consumers : Ids(hand[c]) \subseteq Delivery!Outstanding
<1> DEFINE H == [c \in Consumers |-> Ids(hand[c])]
           G == [c \in Consumers |-> Ids(got[c])]
<1>1. Ranked(Ids(buffer), Ids(carried), Ids(chan), H, G, lost, sent)
  BY DEF Ordered, Placed
<1>2. \A c \in Consumers : got[c] \in Seq(Made) /\ Ids(got[c]) = G[c] /\ Ids(hand[c]) = H[c]
  BY DEF Ordered, Placed
<1>3. ASSUME NEW i \in Delivery!Delivered
      PROVE  \E c \in Consumers : i \in G[c]
  <2>1. i \in 1..sent /\ \E c \in Consumers : \E k \in DOMAIN got[c] : got[c][k].id = i
    BY <1>3 DEF Delivery!Delivered
  <2>2. PICK c \in Consumers : \E k \in DOMAIN got[c] : got[c][k].id = i
    BY <2>1
  <2>3. Ids(got[c]) = {got[c][k].id : k \in DOMAIN got[c]} \ {0} /\ i # 0
    BY <1>2, <2>1, IdsMade
  <2> QED
    BY <1>2, <2>2, <2>3
<1> HIDE DEF H, G
<1>4. ASSUME NEW c \in Consumers
      PROVE  H[c] \subseteq Delivery!Outstanding
  <2>1. H[c] \cap G[c] = {}
    <3>1. Below(G[c], H[c]) /\ H[c] \subseteq 1..sent
      BY <1>1 DEF Ranked
    <3> QED
      BY <3>1 DEF Below
  <2>2. \A d \in Consumers : H[c] \cap G[d] = {}
    BY <1>1, <2>1 DEF Ranked
  <2>3. H[c] \subseteq 1..sent /\ H[c] \cap lost = {}
    BY <1>1 DEF Ranked
  <2> QED
    BY <1>3, <2>2, <2>3 DEF Delivery!Outstanding
<1>5. Ids(chan) \subseteq Delivery!Outstanding
  <2>1. \A d \in Consumers : Ids(chan) \cap G[d] = {}
    <3>1. Ids(chan) \subseteq 1..sent /\ \A d \in Consumers : Below(G[d], Ids(chan))
      BY <1>1 DEF Ranked, Below
    <3> QED
      BY <3>1 DEF Below
  <2>2. Ids(chan) \subseteq 1..sent /\ Ids(chan) \cap lost = {}
    BY <1>1 DEF Ranked
  <2> QED
    BY <1>3, <2>1, <2>2 DEF Delivery!Outstanding
<1> QED
  BY <1>2, <1>4, <1>5

LEMMA DeliverRefines ==
  ASSUME Ordered, Ordered', NEW c \in Consumers, NEW q \in Seq(Made), q # <<>>, Ids(q) \subseteq Ids(hand[c]),
         got' = [got EXCEPT ![c] = @ \o q], UNCHANGED <<sent, lost>>
  PROVE  Delivery!Deliver(c)
<1> PICK g : g = got'
  OBVIOUS
<1>1. /\ got \in [Consumers -> Seq(Made)] /\ g \in [Consumers -> Seq(Made)]
      /\ Ascending(g[c]) /\ Ids(g[c]) \subseteq 1..sent /\ sent \in Nat
  <2>1. got \in [Consumers -> Seq(Made)] /\ sent \in Nat
    BY DEF Ordered, Placed
  <2>2. /\ g \in [Consumers -> Seq(Made)] /\ Ascending(g[c])
        /\ Ranked(Ids(buffer'), Ids(carried'), Ids(chan'), [d \in Consumers |-> Ids(hand'[d])],
                  [d \in Consumers |-> Ids(g[d])], lost', sent)
    BY DEF Ordered, Placed
  <2> QED
    BY <2>1, <2>2 DEF Ranked
<1>2. /\ g[c] = got[c] \o q /\ \A d \in Consumers : d # c => g[d] = got[d]
      /\ got[c] \in Seq(Made)
  BY <1>1
<1> DEFINE l == Len(got[c])
           m == Len(q)
           D == [d \in Consumers |-> Told(got[d])]
           E == [d \in Consumers |-> Told(g[d])]
<1>3. /\ l \in Nat /\ m \in Nat /\ m # 0 /\ Len(g[c]) = l + m
      /\ DOMAIN got[c] = 1..l /\ DOMAIN g[c] = 1..l + m
      /\ \A i \in 1..l + m : g[c][i] = IF i <= l THEN got[c][i] ELSE q[i - l]
  <2>1. l \in Nat /\ m \in Nat /\ m # 0 /\ DOMAIN got[c] = 1..l
    BY <1>2, EmptySeq, LenProperties
  <2>2. /\ Len(g[c]) = l + m
        /\ \A i \in 1..l + m : g[c][i] = IF i <= l THEN got[c][i] ELSE q[i - l]
    BY ONLY <1>2, q \in Seq(Made), ConcatProperties
  <2>3. DOMAIN g[c] = 1..Len(g[c])
    BY <1>1, LenProperties
  <2> QED
    BY <2>1, <2>2, <2>3
<1>4. \A i \in 1..m : q[i].id \in Delivery!Outstanding \cup {0}
  <2>1. \A i \in DOMAIN q : q[i].id \in Ids(q) \cup {0}
    BY IdsMade
  <2>2. Ids(hand[c]) \subseteq Delivery!Outstanding /\ DOMAIN q = 1..m
    BY StillOutstanding, LenProperties
  <2> QED
    BY <2>1, <2>2
<1> HIDE DEF l, m
<1>5. /\ E[c] \in Seq(0..sent) /\ Len(D[c]) < Len(E[c])
      /\ DOMAIN D[c] = 1..l /\ DOMAIN E[c] = 1..l + m
      /\ Delivery!InOrder(E[c])
  <2>1. /\ Len(Told(got[c])) = Len(got[c]) /\ Len(Told(g[c])) = Len(g[c])
        /\ DOMAIN Told(got[c]) = 1..l /\ DOMAIN Told(g[c]) = 1..l + m
        /\ Delivery!InOrder(Told(g[c])) /\ Told(g[c]) \in Seq(Ids(g[c]) \cup {0})
    BY <1>1, <1>3, ToldPackets
  <2>2. Ids(g[c]) \cup {0} \subseteq 0..sent
    BY <1>1
  <2>3. Told(g[c]) \in Seq(0..sent)
    BY <2>1, <2>2, SeqMonotonic
  <2> QED
    BY <1>3, <2>1, <2>3 DEF l
<1>6. ASSUME NEW k \in 1..l + m
      PROVE  IF k \in 1..l THEN E[c][k] = D[c][k] ELSE E[c][k] \in Delivery!Outstanding \cup {0}
  <2>1. E[c][k] = g[c][k].id
    BY <1>1, <1>3, ToldPackets, ZenonT(30)
  <2>2. CASE k \in 1..l
    <3>1. k <= l /\ k \in DOMAIN got[c] /\ g[c][k] = got[c][k]
      BY <1>3, <2>2
    <3>2. D[c][k] = got[c][k].id
      BY <1>2, <3>1, ToldPackets
    <3> QED
      BY <2>1, <2>2, <3>1, <3>2
  <2>3. CASE k \notin 1..l
    <3>1. ~(k <= l) /\ k - l \in 1..m
      BY <1>3, <2>3
    <3>2. g[c][k] = q[k - l]
      BY <1>3, <3>1
    <3> QED
      BY <1>4, <2>1, <2>3, <3>1, <3>2
  <2> QED
    BY <2>2, <2>3
<1>7. E = [D EXCEPT ![c] = E[c]]
  <2>1. \A d \in Consumers : E[d] = IF d = c THEN E[c] ELSE D[d]
    BY <1>2
  <2>2. \A x, e : x = [d \in Consumers |-> x[d]]
                  => [x EXCEPT ![c] = e] = [d \in Consumers |-> IF d = c THEN e ELSE x[d]]
    OBVIOUS
  <2>3. E = [d \in Consumers |-> E[d]] /\ D = [d \in Consumers |-> D[d]]
    OBVIOUS
  <2> HIDE DEF D, E
  <2> QED
    BY <2>1, <2>2, <2>3
<1>8. /\ [d \in Consumers |-> [k \in DOMAIN got[d] |-> got[d][k].id]] = D
      /\ [d \in Consumers |-> [k \in DOMAIN got'[d] |-> got'[d][k].id]] = E
  BY DEF Told
<1> HIDE DEF D, E
<1> QED
  BY <1>5, <1>6, <1>7, <1>8, ZenonT(30) DEF Delivery!Deliver

LEMMA LoseRefines ==
  ASSUME Ordered, lost' \subseteq lost \cup Delivery!Outstanding, lost \subseteq lost', UNCHANGED <<sent, got>>
  PROVE  Delivery!Lose
  BY DEF Delivery!Lose

LEMMA BreakRefines ==
  ASSUME Ordered, Break(chan), UNCHANGED <<sent, got>>
  PROVE  Delivery!Lose
<1>1. lost' = lost \cup Ids(chan)
  BY DEF Break
<1> QED
  BY <1>1, StillOutstanding, LoseRefines

LEMMA HandLossRefines ==
  ASSUME Ordered, NEW c \in Consumers, lost' = lost \cup Ids(hand[c]), UNCHANGED <<sent, got>>
  PROVE  Delivery!Lose
  BY StillOutstanding, LoseRefines

LEMMA StutterRefines ==
  ASSUME UNCHANGED <<sent, got, lost>>
  PROVE  UNCHANGED Delivery!vars
  BY DEF Delivery!vars

LEMMA LoopRefines ==
  ASSUME Ordered, Loop
  PROVE  Delivery!Lose \/ UNCHANGED Delivery!vars
<1>1. CASE LoopRecv
  <2>1. CASE open
    BY <1>1, <2>1, StutterRefines DEF LoopRecv
  <2>2. CASE ~open
    BY <1>1, <2>2, BreakRefines DEF LoopRecv
  <2> QED
    BY <2>1, <2>2
<1>2. CASE LoopTickClosed \/ LoopCleanupEnds
  BY <1>2, BreakRefines DEF LoopTickClosed, LoopCleanupEnds
<1>3. CASE LoopTick \/ LoopTimeout \/ LoopPush \/ LoopNotify \/ LoopPing
  BY <1>3, StutterRefines DEF LoopTick, LoopTimeout, LoopPush, LoopNotify, LoopPing
<1> QED
  BY <1>1, <1>2, <1>3 DEF Loop

\* A response with packets delivers them, an empty one delivers nothing.
LEMMA GetRefines ==
  ASSUME Ordered, Ordered', NEW g \in Gets, Get(g)
  PROVE  Delivery!Lose \/ Delivery!Deliver(g) \/ UNCHANGED Delivery!vars
<1>1. g \in Consumers /\ hand[g] \in Seq(Made) /\ got \in [Consumers -> Seq(Made)]
  BY DEF Consumers, Ordered, Placed
<1>2. CASE GetStart(g) \/ Arm(g) \/ GetTimeout(g) \/ Drain(g)
  BY <1>2, StutterRefines DEF GetStart, Arm, GetTimeout, Drain
<1>3. CASE GetRespond(g)
  <2>1. CASE lost' = lost \cup Ids(hand[g]) /\ UNCHANGED got
    BY <1>1, <1>3, <2>1, HandLossRefines DEF GetRespond
  <2>2. CASE got' = [got EXCEPT ![g] = @ \o hand[g]] /\ UNCHANGED lost
    <3>1. UNCHANGED sent
      BY <1>3 DEF GetRespond
    <3>2. CASE hand[g] # <<>>
      BY <1>1, <2>2, <3>1, <3>2, DeliverRefines
    <3>3. CASE hand[g] = <<>>
      <4>1. got[g] \in Seq(Made)
        BY <1>1
      <4>2. got[g] \o <<>> = got[g]
        BY <4>1, ConcatEmptySeq
      <4>3. got' = got
        BY <1>1, <2>2, <3>3, <4>2
      <4> QED
        BY <2>2, <3>1, <4>3, StutterRefines
    <3> QED
      BY <3>2, <3>3
  <2> QED
    BY <1>3, <2>1, <2>2 DEF GetRespond
<1> QED
  BY <1>2, <1>3 DEF Get

LEMMA WriterRefines ==
  ASSUME Ordered, Ordered', NEW w \in Writers, Writer(w) \/ Reader(w)
  PROVE  Delivery!Lose \/ Delivery!Deliver(w) \/ UNCHANGED Delivery!vars
<1>1. w \in Consumers /\ hand[w] \in Seq(Made) /\ got \in [Consumers -> Seq(Made)]
  BY DEF Consumers, Ordered, Placed
<1>2. CASE \/ Arm(w) \/ Drain(w) \/ WsAgain(w) \/ WsOpen(w) \/ ReadPush(w) \/ ReadNotify(w) \/ ReadUpgrade(w)
           \/ \E a \in {"probe", "pong"} : ReadPing(w, a)
  BY <1>2, StutterRefines
     DEF Arm, Drain, WsAgain, WsOpen, ReadPush, ReadNotify, ReadUpgrade, ReadPing
<1>3. CASE WsSendFails(w) \/ ReadEnd(w)
  BY <1>1, <1>3, HandLossRefines DEF WsSendFails, ReadEnd
<1>4. CASE WsSend(w)
  <2> DEFINE p == Head(hand[w])
  <2>1. p \in Made /\ Ids(hand[w]) = One(p) \cup Ids(Tail(hand[w]))
    BY <1>1, <1>4, TailOrder DEF WsSend
  <2>2. <<p>> \in Seq(Made) /\ Ids(<<p>>) \subseteq Ids(hand[w]) /\ <<p>> # <<>>
    BY <2>1, OneOrder
  <2>3. Append(got[w], p) = got[w] \o <<p>>
    <3>1. got[w] \in Seq(Made)
      BY <1>1
    <3> HIDE DEF p
    <3> QED
      BY <2>1, <3>1, AppendIsConcat
  <2> HIDE DEF p
  <2>4. got' = [got EXCEPT ![w] = @ \o <<p>>] /\ UNCHANGED <<sent, lost>>
    BY <1>1, <1>4, <2>3 DEF WsSend, p
  <2> QED
    BY <1>1, <2>2, <2>4, DeliverRefines
<1> QED
  BY <1>2, <1>3, <1>4 DEF Writer, Reader

LEMMA StepRefines ==
  ASSUME Ordered, Ordered', [Next]_vars
  PROVE  Delivery!Next \/ UNCHANGED Delivery!vars
<1>1. CASE Send
  BY <1>1 DEF Send, Delivery!Send, Delivery!Next
<1>2. CASE PostClose \/ CleanedUp \/ RemoveSession \/ UNCHANGED vars
  BY <1>2, StutterRefines DEF PostClose, CleanedUp, RemoveSession, vars
<1>3. \A c \in Gets \cup Writers : c \in Consumers
  BY DEF Consumers
<1> QED
  BY <1>1, <1>2, <1>3, LoopRefines, GetRefines, WriterRefines DEF Next, Delivery!Next

\* A session implements PacketDelivery: through the channel, the loop, the poll
\* buffer and the hands of any number of polling GETs and WebSocket writers,
\* each message reaches the client at most once, over one connection, and never
\* behind a later one on the same connection; what is dropped never arrives.
THEOREM SessionImplementsDelivery == Spec => Implements
<1>1. Init => Delivery!Init
  <2> SUFFICES ASSUME Init PROVE Delivery!Init
    OBVIOUS
  <2>1. \A c \in Consumers : got[c] = <<>>
    BY DEF Init
  <2>2. [k \in DOMAIN <<>> |-> <<>>[k].id] = <<>>
    OBVIOUS
  <2> QED
    BY <2>1, <2>2 DEF Init, Delivery!Init
<1>2. Ordered /\ Ordered' /\ [Next]_vars => [Delivery!Next]_Delivery!vars
  BY StepRefines
<1> QED
  BY <1>1, <1>2, OrderedInit, OrderedNext, PTL DEF Spec, Implements, Delivery!Spec

=============================================================================
