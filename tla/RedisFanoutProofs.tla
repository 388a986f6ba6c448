-------------------------- MODULE RedisFanoutProofs --------------------------
(***************************************************************************)
(* Theorems about broadcasts over Redis for every number of instances,     *)
(* sockets, tasks and broadcasts, and every sequence of failures.          *)
(***************************************************************************)
EXTENDS RedisFanout, TLAPS

-----------------------------------------------------------------------------
(* Sequences of messages. *)

LEMMA MessageFields ==
  ASSUME NEW m \in Message
  PROVE  m.task \in Tasks /\ m.number \in DOMAIN Script[m.task] /\ m.number \in Nat
<1>1. PICK t \in Tasks : m \in [task : {t}, number : DOMAIN Script[t]]
  BY DEF Message
<1>2. Script[t] \in Seq([room : BOOLEAN, exclude : DOMAIN Sockets \cup {None}])
  BY ScriptAssumption
<1>3. DOMAIN Script[t] \subseteq Nat
  BY <1>2
<1>4. QED
  BY <1>1, <1>3

\* The messages of one task are in the order in which it made them.
InOrder(q) ==
  \A i, j \in DOMAIN q : i < j /\ q[i].task = q[j].task => q[i].number < q[j].number

\* All that q has of m's task is older.
Older(q, m) == \A i \in DOMAIN q : q[i].task = m.task => q[i].number < m.number

LEMMA Appended ==
  ASSUME NEW q \in Seq(Message), NEW m \in Message
  PROVE  /\ Append(q, m) \in Seq(Message)
         /\ DOMAIN Append(q, m) = DOMAIN q \cup {Len(q) + 1}
         /\ \A i \in DOMAIN q : Append(q, m)[i] = q[i] /\ i < Len(q) + 1
         /\ Append(q, m)[Len(q) + 1] = m
OBVIOUS

LEMMA InOrderAppended ==
  ASSUME NEW q \in Seq(Message), NEW m \in Message, InOrder(q), Older(q, m)
  PROVE  InOrder(Append(q, m))
<1> DEFINE r == Append(q, m)
           l == Len(q) + 1
<1>1. /\ DOMAIN r = DOMAIN q \cup {l} /\ r[l] = m /\ l \in Nat /\ DOMAIN q \subseteq Nat
      /\ \A i \in DOMAIN q : r[i] = q[i] /\ i < l
  BY Appended
<1> HIDE DEF r, l
<1>2. SUFFICES ASSUME NEW i \in DOMAIN r, NEW j \in DOMAIN r, i < j, r[i].task = r[j].task
               PROVE  r[i].number < r[j].number
  BY DEF InOrder, r
<1>3. i \in DOMAIN q
  BY <1>1, <1>2
<1>4. CASE j = l
  BY <1>1, <1>2, <1>3, <1>4 DEF Older
<1>5. CASE j \in DOMAIN q
  BY <1>1, <1>2, <1>3, <1>5 DEF InOrder
<1>6. QED
  BY <1>1, <1>2, <1>4, <1>5

LEMMA Tailed ==
  ASSUME NEW q \in Seq(Message), q # <<>>
  PROVE  /\ Tail(q) \in Seq(Message) /\ Head(q) \in Message /\ Head(q) = q[1] /\ 1 \in DOMAIN q
         /\ \A i \in DOMAIN Tail(q) : i + 1 \in DOMAIN q /\ Tail(q)[i] = q[i + 1] /\ i \in Nat /\ 1 < i + 1
OBVIOUS

LEMMA InOrderTailed ==
  ASSUME NEW q \in Seq(Message), q # <<>>, InOrder(q)
  PROVE  InOrder(Tail(q)) /\ \A j \in DOMAIN Tail(q) :
           Tail(q)[j].task = Head(q).task => Head(q).number < Tail(q)[j].number
<1> DEFINE r == Tail(q)
<1>1. /\ Head(q) = q[1] /\ 1 \in DOMAIN q
      /\ \A i \in DOMAIN r : i + 1 \in DOMAIN q /\ r[i] = q[i + 1] /\ i \in Nat /\ 1 < i + 1
  BY Tailed
<1> HIDE DEF r
<1>2. InOrder(r)
  <2>1. SUFFICES ASSUME NEW i \in DOMAIN r, NEW j \in DOMAIN r, i < j, r[i].task = r[j].task
                 PROVE  r[i].number < r[j].number
    BY DEF InOrder
  <2>2. i + 1 < j + 1
    BY <1>1, <2>1
  <2>3. QED
    BY <1>1, <2>1, <2>2 DEF InOrder
<1>3. \A j \in DOMAIN r : r[j].task = Head(q).task => Head(q).number < r[j].number
  BY <1>1 DEF InOrder
<1>4. QED
  BY <1>2, <1>3 DEF r

LEMMA Cut ==
  ASSUME NEW q \in Seq(Message), NEW k \in 0..Len(q)
  PROVE  /\ SubSeq(q, 1, k) \in Seq(Message)
         /\ \A i \in DOMAIN SubSeq(q, 1, k) : i \in DOMAIN q /\ SubSeq(q, 1, k)[i] = q[i]
OBVIOUS

-----------------------------------------------------------------------------
(* Types. *)

LEMMA InitTyped == Init => TypeOK
<1> SUFFICES ASSUME Init PROVE TypeOK
  OBVIOUS
<1>1. \A t \in Tasks : Len(Script[t]) \in Nat
  BY ScriptAssumption
<1>2. QED
  BY <1>1 DEF Init, TypeOK

LEMMA DeliveredTyped ==
  ASSUME TypeOK, NEW m \in Message, NEW n
  PROVE  DeliveredLocally(m, n) \in [DOMAIN Sockets -> Seq(Message)]
<1>1. \A s \in DOMAIN Sockets : got[s] \in Seq(Message) /\ Append(got[s], m) \in Seq(Message)
  BY DEF TypeOK
<1>2. QED
  BY <1>1 DEF DeliveredLocally

LEMMA BroadcastMessage ==
  ASSUME TypeOK, NEW t \in Tasks, Broadcast(t)
  PROVE  [task |-> t, number |-> made[t] + 1] \in Message /\ made[t] + 1 <= Len(Script[t])
<1>1. Script[t] \in Seq([room : BOOLEAN, exclude : DOMAIN Sockets \cup {None}])
  BY ScriptAssumption
<1>2. made[t] \in Nat /\ made[t] < Len(Script[t]) /\ Len(Script[t]) \in Nat
  BY <1>1 DEF Broadcast, TypeOK
<1>3. made[t] + 1 \in DOMAIN Script[t]
  BY <1>1, <1>2
<1>4. [task |-> t, number |-> made[t] + 1] \in [task : {t}, number : DOMAIN Script[t]]
  BY <1>3
<1>5. QED
  BY <1>2, <1>4 DEF Message

LEMMA TypedStep ==
  ASSUME TypeOK, [Next]_vars
  PROVE  TypeOK'
<1>0. /\ made \in [Tasks -> Nat] /\ current \in [Tasks -> SUBSET Message]
      /\ stream \in [Nodes -> Seq(Message)] /\ failures \in Nat
      /\ got \in [DOMAIN Sockets -> Seq(Message)]
      /\ todo \in [Nodes -> SUBSET (Message \X DOMAIN Sockets)] /\ lost \subseteq [node : Nodes, message : Message]
      /\ link \in [Nodes -> {"off", "connecting", "subscribed", "ending", "sleeping"}]
  BY DEF TypeOK
<1>1. ASSUME NEW t \in Tasks, Broadcast(t)
      PROVE  TypeOK'
  <2> DEFINE m == [task |-> t, number |-> made[t] + 1]
  <2>1. m \in Message /\ made[t] + 1 <= Len(Script[t])
    BY <1>1, BroadcastMessage
  <2>2. /\ current' = [current EXCEPT ![t] = {m}] /\ got' = DeliveredLocally(m, Home[t])
        /\ made' = [made EXCEPT ![t] = @ + 1] /\ UNCHANGED <<link, stream, todo, lost, failures>>
    BY <1>1 DEF Broadcast
  <2> HIDE DEF m
  <2>3. current' \in [Tasks -> SUBSET Message] /\ got' \in [DOMAIN Sockets -> Seq(Message)]
    BY <1>0, <2>1, <2>2, DeliveredTyped
  <2>4. made' \in [Tasks -> Nat] /\ \A u \in Tasks : made'[u] <= Len(Script[u])
    BY <1>0, <2>1, <2>2 DEF TypeOK
  <2>5. QED
    BY <1>0, <2>2, <2>3, <2>4 DEF TypeOK
<1>2. ASSUME NEW t \in Tasks, Publish(t)
      PROVE  TypeOK'
  <2>1. PICK m \in current[t] :
          stream' = [n \in Nodes |-> IF link[n] = "subscribed" THEN Append(stream[n], m) ELSE stream[n]]
    BY <1>2 DEF Publish
  <2>2. m \in Message
    BY <1>0
  <2>3. \A n \in Nodes : stream[n] \in Seq(Message) /\ Append(stream[n], m) \in Seq(Message)
    BY <1>0, <2>2
  <2>4. stream' \in [Nodes -> Seq(Message)]
    BY <2>1, <2>3
  <2>5. QED
    BY <1>2, <2>4 DEF Publish, TypeOK
<1>3. ASSUME NEW t \in Tasks, PublishFails(t)
      PROVE  TypeOK'
  BY <1>3 DEF PublishFails, Fails, TypeOK
<1>4. ASSUME NEW n \in Nodes, Receive(n)
      PROVE  TypeOK'
  <2>1. Head(stream[n]) \in Message /\ Tail(stream[n]) \in Seq(Message)
    BY <1>0, <1>4, Tailed DEF Receive
  <2>2. stream' \in [Nodes -> Seq(Message)]
    BY <1>0, <1>4, <2>1 DEF Receive
  <2>3. todo' \in [Nodes -> SUBSET (Message \X DOMAIN Sockets)]
    <3>1. Audience(Head(stream[n]), n) \subseteq DOMAIN Sockets
      BY SocketsAssumption DEF Audience
    <3>2. QED
      BY <1>0, <1>4, <2>1, <3>1 DEF Receive
  <2>4. QED
    BY <1>4, <2>2, <2>3 DEF Receive, TypeOK
<1>5. ASSUME NEW n \in Nodes, LinkLost(n)
      PROVE  TypeOK'
  <2>1. PICK k \in 0..Len(stream[n]) :
          /\ stream' = [stream EXCEPT ![n] = SubSeq(@, 1, k)]
          /\ lost' = lost \cup {[node |-> n, message |-> stream[n][i]] : i \in (k + 1)..Len(stream[n])}
    BY <1>5 DEF LinkLost
  <2>2. SubSeq(stream[n], 1, k) \in Seq(Message)
    BY <1>0, Cut
  <2>3. \A i \in (k + 1)..Len(stream[n]) : stream[n][i] \in Message
    BY <1>0
  <2>4. stream' \in [Nodes -> Seq(Message)] /\ lost' \subseteq [node : Nodes, message : Message]
    BY <1>0, <2>1, <2>2, <2>3
  <2>5. QED
    BY <1>5, <2>4 DEF LinkLost, Fails, TypeOK
<1>6. ASSUME NEW n \in Nodes, Subscribe(n) \/ SubscribeFails(n) \/ StreamEnds(n) \/ Wake(n)
      PROVE  TypeOK'
  <2>1. link' \in [Nodes -> {"off", "connecting", "subscribed", "ending", "sleeping"}] /\ failures' \in Nat
    <3>1. \E v \in {"connecting", "subscribed", "sleeping"} : link' = [link EXCEPT ![n] = v]
      BY <1>6, Zenon DEF Subscribe, SubscribeFails, StreamEnds, Wake
    <3>2. failures' = failures \/ failures' = failures + 1
      BY <1>6, Zenon DEF Subscribe, SubscribeFails, StreamEnds, Wake, Fails
    <3>3. QED
      BY <1>0, <3>1, <3>2
  <2>2. UNCHANGED <<made, current, stream, todo, got, lost>>
    BY <1>6 DEF Subscribe, SubscribeFails, StreamEnds, Wake
  <2>3. QED
    BY <2>1, <2>2 DEF TypeOK
<1>7. ASSUME NEW n \in Nodes, HandOver(n)
      PROVE  TypeOK'
  <2>1. PICK p \in todo[n] :
          /\ todo' = [todo EXCEPT ![n] = @ \ {p}]
          /\ got' = [got EXCEPT ![p[2]] = Append(@, p[1])]
    BY <1>7 DEF HandOver
  <2>2. p[1] \in Message /\ p[2] \in DOMAIN Sockets
    BY <1>0
  <2>3. got[p[2]] \in Seq(Message) /\ Append(got[p[2]], p[1]) \in Seq(Message)
    BY <1>0, <2>2
  <2>4. got' \in [DOMAIN Sockets -> Seq(Message)] /\ todo' \in [Nodes -> SUBSET (Message \X DOMAIN Sockets)]
    BY <1>0, <2>1, <2>2, <2>3
  <2>5. QED
    BY <1>7, <2>4 DEF HandOver, TypeOK
<1>8. CASE UNCHANGED vars
  BY <1>8 DEF vars, TypeOK
<1>9. QED
  BY <1>1, <1>2, <1>3, <1>4, <1>5, <1>6, <1>7, <1>8 DEF Next, Subscriber

-----------------------------------------------------------------------------
(* What a socket was sent, what its node's subscriber is delivering and has  *)
(* still to take, and what a task is about to publish follow one another.    *)

Sent(s) == InOrder(got[s]) /\ \A i \in DOMAIN got[s] : s \in Audience(got[s][i], Sockets[s])

\* The messages of tasks on other nodes; those of its own s gets at once.
Coming(s) ==
  \A j \in DOMAIN stream[Sockets[s]] :
    Home[stream[Sockets[s]][j].task] # Sockets[s] => Older(got[s], stream[Sockets[s]][j])

\* One message of another node, for sockets that have got what came before it.
Pending(n) ==
  /\ \A p, q \in todo[n] : p[1] = q[1]
  /\ \A p \in todo[n] :
       /\ p[2] \in Audience(p[1], n) /\ Home[p[1].task] # n
       /\ p[1].number <= made[p[1].task]
       /\ Older(got[p[2]], p[1])
       /\ \A j \in DOMAIN stream[n] : stream[n][j].task = p[1].task => p[1].number < stream[n][j].number

Unpublished(t) ==
  \A m \in current[t] :
    /\ m.task = t /\ m.number = made[t]
    /\ \A n \in Nodes : Older(stream[n], m) /\ \A p \in todo[n] : p[1].task = t => p[1].number < m.number
    /\ \A s \in DOMAIN Sockets : Home[t] # Sockets[s] => Older(got[s], m)

\* Nothing is known that was not made.
Made ==
  /\ \A s \in DOMAIN Sockets : \A i \in DOMAIN got[s] : got[s][i].number <= made[got[s][i].task]
  /\ \A n \in Nodes : \A i \in DOMAIN stream[n] : stream[n][i].number <= made[stream[n][i].task]

Line ==
  /\ \A s \in DOMAIN Sockets : Sent(s) /\ Coming(s)
  /\ \A n \in Nodes : InOrder(stream[n]) /\ Pending(n)
  /\ \A t \in Tasks : Unpublished(t)
  /\ Made

LEMMA InitLine == Init => Line
BY SocketsAssumption DEF Init, Line, Sent, Coming, InOrder, Older, Pending, Unpublished, Made

LEMMA OlderAppended ==
  ASSUME NEW q \in Seq(Message), NEW m \in Message, NEW x \in Message,
         Older(q, x), m.task = x.task => m.number < x.number
  PROVE  Older(Append(q, m), x)
<1> DEFINE r == Append(q, m)
           l == Len(q) + 1
<1>1. /\ DOMAIN r = DOMAIN q \cup {l} /\ r[l] = m
      /\ \A i \in DOMAIN q : r[i] = q[i]
  BY Appended
<1> HIDE DEF r, l
<1>2. Older(r, x)
  BY <1>1 DEF Older
<1>3. QED
  BY <1>2 DEF r

LEMMA BroadcastLine ==
  ASSUME TypeOK, Line, NEW t \in Tasks, Broadcast(t)
  PROVE  Line'
<1> DEFINE m == [task |-> t, number |-> made[t] + 1]
<1>1. /\ m \in Message /\ m.task = t /\ m.number = made[t] + 1 /\ made[t] \in Nat
      /\ \A n \in Nodes : stream[n] \in Seq(Message)
      /\ \A s \in DOMAIN Sockets : got[s] \in Seq(Message) /\ Sockets[s] \in Nodes
      /\ \A u \in Tasks : made[u] \in Nat
  BY BroadcastMessage, SocketsAssumption DEF TypeOK
<1>2. /\ current[t] = {} /\ current' = [current EXCEPT ![t] = {m}]
      /\ got' = DeliveredLocally(m, Home[t])
      /\ made' = [made EXCEPT ![t] = @ + 1] /\ stream' = stream /\ todo' = todo
  BY DEF Broadcast
<1>3. /\ current'[t] = {m} /\ made'[t] = made[t] + 1
      /\ \A u \in Tasks \ {t} : current'[u] = current[u] /\ made'[u] = made[u]
  BY <1>2 DEF TypeOK
<1> HIDE DEF m
<1>4. ASSUME NEW q \in Seq(Message), \A i \in DOMAIN q : q[i].number <= made[q[i].task]
      PROVE  Older(q, m)
  <2>1. \A i \in DOMAIN q : q[i] \in Message
    BY <1>4
  <2>2. \A i \in DOMAIN q : q[i].number \in Nat
    BY <2>1, MessageFields
  <2>3. QED
    BY <1>1, <1>4, <2>2 DEF Older
<1>5. /\ \A s \in DOMAIN Sockets : Older(got[s], m)
      /\ \A n \in Nodes : Older(stream[n], m)
  BY <1>1, <1>4 DEF Line, Made
<1>6. ASSUME NEW s \in DOMAIN Sockets
      PROVE  \/ got'[s] = got[s]
             \/ s \in Audience(m, Home[t]) /\ Sockets[s] = Home[t] /\ got'[s] = Append(got[s], m)
  BY <1>2 DEF DeliveredLocally, Audience
<1>7. ASSUME NEW s \in DOMAIN Sockets
      PROVE  (Sent(s) /\ Coming(s))'
  <2>1. CASE got'[s] = got[s]
    BY <1>2, <2>1 DEF Line, Sent, Coming
  <2>2. CASE s \in Audience(m, Home[t]) /\ Sockets[s] = Home[t] /\ got'[s] = Append(got[s], m)
    <3>1. InOrder(got'[s])
      BY <1>1, <1>5, <2>2, InOrderAppended DEF Line, Sent
    <3>2. \A i \in DOMAIN got'[s] : s \in Audience(got'[s][i], Sockets[s])
      BY <1>1, <2>2, Appended DEF Line, Sent
    <3>3. ASSUME NEW j \in DOMAIN stream[Sockets[s]], Home[stream[Sockets[s]][j].task] # Sockets[s]
          PROVE  Older(got'[s], stream[Sockets[s]][j])
      <4> DEFINE x == stream[Sockets[s]][j]
      <4>1. x \in Message /\ Older(got[s], x) /\ m.task # x.task
        BY <1>1, <2>2, <3>3 DEF Line, Coming
      <4> HIDE DEF x
      <4>2. Older(Append(got[s], m), x)
        BY <1>1, <4>1, OlderAppended
      <4>3. QED
        BY <2>2, <4>2 DEF x
    <3>4. QED
      BY <1>2, <3>1, <3>2, <3>3 DEF Sent, Coming
  <2>3. QED
    BY <1>6, <2>1, <2>2
<1>8. ASSUME NEW u \in Tasks
      PROVE  Unpublished(u)'
  <2>1. CASE u = t
    <3>1. \A s \in DOMAIN Sockets : Home[t] # Sockets[s] => Older(got'[s], m)
      BY <1>5, <1>6
    <3>2. ASSUME NEW n \in Nodes, NEW p \in todo[n], p[1].task = t
          PROVE  p[1].number < m.number
      <4>1. p[1] \in Message /\ p[1].number <= made[t]
        BY <3>2 DEF Line, Pending, TypeOK
      <4>2. QED
        BY <1>1, <4>1, MessageFields
    <3>3. QED
      BY <1>1, <1>2, <1>3, <1>5, <2>1, <3>1, <3>2 DEF Unpublished
  <2>2. CASE u # t
    <3>1. current'[u] = current[u] /\ made'[u] = made[u] /\ Unpublished(u) /\ current[u] \subseteq Message
      BY <1>3, <2>2 DEF Line, TypeOK
    <3>2. ASSUME NEW x \in current[u], NEW s \in DOMAIN Sockets, Home[u] # Sockets[s]
          PROVE  Older(got'[s], x)
      <4>1. Older(got[s], x) /\ x.task = u /\ x \in Message
        BY <3>1, <3>2 DEF Unpublished
      <4>2. Older(Append(got[s], m), x)
        BY <1>1, <2>2, <4>1, OlderAppended
      <4>3. QED
        BY <1>6, <4>1, <4>2
    <3>3. QED
      BY <1>2, <3>1, <3>2 DEF Unpublished
  <2>3. QED
    BY <2>1, <2>2
<1>9. Made'
  <2>1. ASSUME NEW q \in Seq(Message), \A i \in DOMAIN q : q[i].number <= made[q[i].task]
        PROVE  \A i \in DOMAIN q : q[i].number <= made'[q[i].task]
    <3>1. \A i \in DOMAIN q : q[i].number \in Nat /\ q[i].task \in Tasks
      BY <2>1, MessageFields
    <3>2. QED
      BY <1>1, <1>3, <2>1, <3>1
  <2>2. \A n \in Nodes : \A i \in DOMAIN stream'[n] : stream'[n][i].number <= made'[stream'[n][i].task]
    BY <1>1, <1>2, <2>1 DEF Line, Made
  <2>3. ASSUME NEW s \in DOMAIN Sockets
        PROVE  \A i \in DOMAIN got'[s] : got'[s][i].number <= made'[got'[s][i].task]
    <3>1. \A i \in DOMAIN got[s] : got[s][i].number <= made'[got[s][i].task]
      BY <1>1, <2>1 DEF Line, Made
    <3>2. CASE got'[s] = Append(got[s], m)
      <4>1. m.number <= made'[m.task]
        BY <1>1, <1>3
      <4>2. QED
        BY <1>1, <3>1, <3>2, <4>1, Appended
    <3>3. QED
      BY <1>6, <3>1, <3>2
  <2>4. QED
    BY <2>2, <2>3 DEF Made
<1>10. \A n \in Nodes : InOrder(stream'[n])
  BY <1>2 DEF Line
<1>11. ASSUME NEW n \in Nodes
       PROVE  Pending(n)'
  <2>1. Pending(n) /\ todo[n] \subseteq Message \X DOMAIN Sockets
    BY DEF Line, TypeOK
  <2>2. ASSUME NEW p \in todo[n]
        PROVE  p[1].number <= made'[p[1].task]
    <3>1. p[1] \in Message /\ p[1].number <= made[p[1].task]
      BY <2>1, <2>2 DEF Pending
    <3>2. p[1].task \in Tasks /\ p[1].number \in Nat
      BY <3>1, MessageFields
    <3>3. QED
      BY <1>1, <1>3, <3>1, <3>2
  <2>3. ASSUME NEW p \in todo[n]
        PROVE  Older(got'[p[2]], p[1])
    <3>1. /\ p[1] \in Message /\ p[2] \in DOMAIN Sockets /\ Sockets[p[2]] = n
          /\ Home[p[1].task] # n /\ Older(got[p[2]], p[1])
      BY <2>1, <2>3 DEF Pending, Audience
    <3>2. CASE got'[p[2]] = got[p[2]]
      BY <3>1, <3>2
    <3>3. CASE Sockets[p[2]] = Home[t] /\ got'[p[2]] = Append(got[p[2]], m)
      <4>1. m.task # p[1].task
        BY <1>1, <3>1, <3>3
      <4>2. Older(Append(got[p[2]], m), p[1])
        BY <1>1, <3>1, <4>1, OlderAppended
      <4>3. QED
        BY <3>3, <4>2
    <3>4. QED
      BY <1>6, <3>1, <3>2, <3>3
  <2>4. QED
    BY <1>2, <2>1, <2>2, <2>3 DEF Pending, Audience
<1>12. QED
  BY <1>7, <1>8, <1>9, <1>10, <1>11 DEF Line

LEMMA PublishLine ==
  ASSUME TypeOK, Line, NEW t \in Tasks, Publish(t)
  PROVE  Line'
<1>1. PICK m \in current[t] :
        stream' = [n \in Nodes |-> IF link[n] = "subscribed" THEN Append(stream[n], m) ELSE stream[n]]
  BY DEF Publish
<1>2. /\ m \in Message /\ m.task = t /\ m.number = made[t] /\ made[t] \in Nat
      /\ \A n \in Nodes : Older(stream[n], m) /\ stream[n] \in Seq(Message)
      /\ \A s \in DOMAIN Sockets : Home[t] # Sockets[s] => Older(got[s], m)
      /\ \A s \in DOMAIN Sockets : Sockets[s] \in Nodes /\ got[s] \in Seq(Message)
      /\ \A n \in Nodes : stream'[n] \in {stream[n], Append(stream[n], m)}
  BY <1>1, SocketsAssumption DEF Line, Unpublished, TypeOK
<1>3. /\ current'[t] = {} /\ \A u \in Tasks \ {t} : current'[u] = current[u]
      /\ made' = made /\ got' = got /\ todo' = todo
  BY DEF Publish, TypeOK
<1>4. \A n \in Nodes : InOrder(stream'[n])
  BY <1>2, InOrderAppended DEF Line
<1>5. ASSUME NEW s \in DOMAIN Sockets
      PROVE  (Sent(s) /\ Coming(s))'
  <2>1. Sent(s) /\ Coming(s) /\ Sockets[s] \in Nodes
    BY <1>2 DEF Line
  <2>2. CASE stream'[Sockets[s]] = stream[Sockets[s]]
    BY <1>3, <2>1, <2>2 DEF Sent, Coming
  <2>3. CASE stream'[Sockets[s]] = Append(stream[Sockets[s]], m)
    <3> DEFINE q == stream[Sockets[s]]
               r == Append(q, m)
    <3>1. /\ DOMAIN r = DOMAIN q \cup {Len(q) + 1} /\ r[Len(q) + 1] = m
          /\ \A i \in DOMAIN q : r[i] = q[i]
      BY <1>2, <2>1, Appended
    <3>2. \A j \in DOMAIN r : Home[r[j].task] # Sockets[s] => Older(got[s], r[j])
      BY <1>2, <2>1, <3>1 DEF Coming
    <3>3. QED
      BY <1>3, <2>1, <2>3, <3>2 DEF Sent, Coming
  <2>4. QED
    BY <1>2, <2>1, <2>2, <2>3
<1>6. ASSUME NEW u \in Tasks
      PROVE  Unpublished(u)'
  <2>1. CASE u = t
    BY <1>3, <2>1 DEF Unpublished
  <2>2. CASE u # t
    <3>1. current'[u] = current[u] /\ Unpublished(u) /\ current[u] \subseteq Message
      BY <1>3, <2>2 DEF Line, TypeOK
    <3>2. ASSUME NEW x \in current[u], NEW n \in Nodes
          PROVE  Older(stream'[n], x)
      <4>1. Older(stream[n], x) /\ x.task = u /\ x \in Message
        BY <3>1, <3>2 DEF Unpublished
      <4>2. Older(Append(stream[n], m), x)
        BY <1>2, <2>2, <4>1, OlderAppended
      <4>3. QED
        BY <1>2, <4>1, <4>2
    <3>3. QED
      BY <1>3, <3>1, <3>2 DEF Unpublished
  <2>3. QED
    BY <2>1, <2>2
<1>7. Made'
  <2>1. ASSUME NEW n \in Nodes
        PROVE  \A i \in DOMAIN stream'[n] : stream'[n][i].number <= made[stream'[n][i].task]
    <3>1. \A i \in DOMAIN stream[n] : stream[n][i].number <= made[stream[n][i].task]
      BY DEF Line, Made
    <3>2. CASE stream'[n] = Append(stream[n], m)
      BY <1>2, <3>1, <3>2, Appended
    <3>3. QED
      BY <1>2, <3>1, <3>2
  <2>2. QED
    BY <1>3, <2>1 DEF Line, Made
<1>8. ASSUME NEW n \in Nodes
      PROVE  Pending(n)'
  <2>1. Pending(n) /\ stream[n] \in Seq(Message)
    BY <1>2 DEF Line
  <2>2. CASE stream'[n] = stream[n]
    BY <1>3, <2>1, <2>2 DEF Pending, Audience
  <2>3. CASE stream'[n] = Append(stream[n], m)
    <3> DEFINE q == stream[n]
               r == Append(q, m)
    <3>1. /\ DOMAIN r = DOMAIN q \cup {Len(q) + 1} /\ r[Len(q) + 1] = m
          /\ \A i \in DOMAIN q : r[i] = q[i]
      BY <1>2, <2>1, Appended
    <3>2. \A p \in todo[n] : p[1].task = t => p[1].number < m.number
      BY <1>1 DEF Line, Unpublished
    <3>3. \A p \in todo[n] : \A j \in DOMAIN r : r[j].task = p[1].task => p[1].number < r[j].number
      BY <1>2, <2>1, <3>1, <3>2 DEF Pending
    <3> HIDE DEF r
    <3>4. stream'[n] = r
      BY <2>3 DEF r
    <3>5. QED
      BY <1>3, <2>1, <3>3, <3>4 DEF Pending, Audience
  <2>4. QED
    BY <1>2, <2>2, <2>3
<1>9. QED
  BY <1>4, <1>5, <1>6, <1>7, <1>8 DEF Line

LEMMA ReceiveLine ==
  ASSUME TypeOK, Line, NEW n \in Nodes, Receive(n)
  PROVE  Line'
<1> DEFINE q == stream[n]
           h == Head(q)
           r == Tail(q)
<1>1. /\ q \in Seq(Message) /\ q # <<>> /\ stream' = [stream EXCEPT ![n] = r] /\ todo[n] = {}
      /\ got' = got /\ current' = current /\ made' = made
      /\ \A s \in DOMAIN Sockets : Sockets[s] \in Nodes
  BY SocketsAssumption DEF Receive, TypeOK
<1>2. /\ h \in Message /\ h = q[1] /\ 1 \in DOMAIN q /\ r \in Seq(Message)
      /\ \A i \in DOMAIN r : i + 1 \in DOMAIN q /\ r[i] = q[i + 1]
  BY <1>1, Tailed
<1>3. InOrder(r) /\ \A j \in DOMAIN r : r[j].task = h.task => h.number < r[j].number
  BY <1>1, InOrderTailed DEF Line
<1>4. stream'[n] = r /\ \A o \in Nodes \ {n} : stream'[o] = stream[o] /\ todo'[o] = todo[o]
  BY <1>1 DEF Receive, TypeOK
<1>5. h.number <= made[h.task] /\ \A x : Older(q, x) => Older(r, x) /\ (x.task = h.task => h.number < x.number)
  BY <1>2 DEF Line, Made, Older
<1>6. todo'[n] = {} \/ (Home[h.task] # n /\ todo'[n] = {h} \X Audience(h, n))
  BY <1>1 DEF Receive, TypeOK
<1> HIDE DEF h, r
<1>7. ASSUME NEW s \in DOMAIN Sockets
      PROVE  (Sent(s) /\ Coming(s))'
  <2>0. Sent(s) /\ Coming(s)
    BY DEF Line
  <2>1. CASE Sockets[s] = n
    <3>1. \A j \in DOMAIN r : Home[r[j].task] # n => Older(got[s], r[j])
      BY <1>2, <2>0, <2>1 DEF Coming
    <3>2. Coming(s)'
      BY <1>1, <1>4, <2>1, <3>1 DEF Coming, Older
    <3>3. QED
      BY <1>1, <2>0, <3>2 DEF Sent, InOrder, Audience, Content
  <2>2. CASE Sockets[s] # n
    BY <1>1, <1>4, <2>0, <2>2 DEF Sent, Coming
  <2>3. QED
    BY <2>1, <2>2
<1>8. ASSUME NEW u \in Tasks
      PROVE  Unpublished(u)'
  <2>1. Unpublished(u) /\ current[u] \subseteq Message
    BY DEF Line, TypeOK
  <2>2. ASSUME NEW x \in current[u], NEW o \in Nodes
        PROVE  Older(stream'[o], x) /\ \A p \in todo'[o] : p[1].task = u => p[1].number < x.number
    <3>1. x.task = u /\ Older(stream[o], x) /\ \A p \in todo[o] : p[1].task = u => p[1].number < x.number
      BY <2>1, <2>2 DEF Unpublished
    <3>2. CASE o = n
      <4>1. Older(r, x) /\ (h.task = u => h.number < x.number)
        BY <1>5, <3>1, <3>2
      <4>2. \A p \in todo'[n] : p[1] = h
        BY <1>6
      <4>3. QED
        BY <1>4, <3>2, <4>1, <4>2
    <3>3. CASE o # n
      BY <1>4, <3>1, <3>3
    <3>4. QED
      BY <3>2, <3>3
  <2>3. QED
    BY <1>1, <2>1, <2>2 DEF Unpublished
<1>9. Made'
  <2>1. \A o \in Nodes : \A i \in DOMAIN stream'[o] : stream'[o][i].number <= made[stream'[o][i].task]
    BY <1>2, <1>4 DEF Line, Made
  <2>2. QED
    BY <1>1, <2>1 DEF Line, Made
<1>10. \A o \in Nodes : InOrder(stream'[o])
  BY <1>3, <1>4 DEF Line
<1>11. ASSUME NEW o \in Nodes
       PROVE  Pending(o)'
  <2>1. CASE o # n
    BY <1>1, <1>4, <2>1 DEF Line, Pending, Audience
  <2>2. CASE todo'[n] = {}
    BY <2>1, <2>2 DEF Pending
  <2>3. CASE Home[h.task] # n /\ todo'[n] = {h} \X Audience(h, n)
    <3>1. ASSUME NEW p \in todo'[n]
          PROVE  p[1] = h /\ p[2] \in Audience(h, n) /\ Older(got[p[2]], h)
      <4>1. p[1] = h /\ p[2] \in Audience(h, n)
        BY <2>3, <3>1
      <4>2. p[2] \in DOMAIN Sockets /\ Sockets[p[2]] = n
        BY <4>1, SocketsAssumption DEF Audience
      <4>3. Coming(p[2])
        BY <4>2 DEF Line
      <4>4. Older(got[p[2]], h)
        BY <1>2, <2>3, <4>2, <4>3 DEF Coming
      <4>5. QED
        BY <4>1, <4>4
    <3>2. Pending(n)'
      BY <1>1, <1>3, <1>4, <1>5, <2>3, <3>1 DEF Pending, Audience
    <3>3. QED
      BY <2>1, <3>2
  <2>4. QED
    BY <1>6, <2>1, <2>2, <2>3
<1>12. QED
  BY <1>7, <1>8, <1>9, <1>10, <1>11 DEF Line

LEMMA HandOverLine ==
  ASSUME TypeOK, Line, NEW n \in Nodes, HandOver(n)
  PROVE  Line'
<1>1. PICK p \in todo[n] : todo' = [todo EXCEPT ![n] = @ \ {p}] /\ got' = [got EXCEPT ![p[2]] = Append(@, p[1])]
  BY DEF HandOver
<1> DEFINE h == p[1]
           d == p[2]
<1>2. /\ h \in Message /\ d \in DOMAIN Sockets /\ Sockets[d] = n /\ d \in Audience(h, n)
      /\ Home[h.task] # n /\ h.number <= made[h.task] /\ Older(got[d], h)
      /\ \A j \in DOMAIN stream[n] : stream[n][j].task = h.task => h.number < stream[n][j].number
      /\ \A o \in todo[n] : o[1] = h
  BY SocketsAssumption DEF Line, Pending, TypeOK, Audience
<1>3. /\ got'[d] = Append(got[d], h) /\ \A s \in DOMAIN Sockets \ {d} : got'[s] = got[s]
      /\ todo'[n] = todo[n] \ {p} /\ \A o \in Nodes \ {n} : todo'[o] = todo[o]
      /\ UNCHANGED <<made, current, stream>>
      /\ \A s \in DOMAIN Sockets : Sockets[s] \in Nodes /\ got[s] \in Seq(Message)
      /\ \A o \in Nodes : stream[o] \in Seq(Message) /\ todo[o] \subseteq Message \X DOMAIN Sockets
  BY <1>1, <1>2, SocketsAssumption DEF HandOver, TypeOK
<1>4. ASSUME NEW q \in todo'[n]
      PROVE  q \in todo[n] /\ q[1] = h /\ q[2] # d /\ q[2] \in DOMAIN Sockets
  <2>1. q \in todo[n] /\ q # p /\ q[1] = h /\ q = <<q[1], q[2]>> /\ p = <<p[1], p[2]>> /\ q[2] \in DOMAIN Sockets
    BY <1>2, <1>3, <1>4
  <2>2. QED
    BY <2>1
<1> HIDE DEF h, d
<1> DEFINE g == got[d]
           l == Len(g) + 1
<1>5. /\ DOMAIN got'[d] = DOMAIN g \cup {l} /\ got'[d][l] = h
      /\ \A i \in DOMAIN g : got'[d][i] = g[i]
  BY <1>2, <1>3, Appended
<1> HIDE DEF g, l
<1>6. ASSUME NEW s \in DOMAIN Sockets
      PROVE  (Sent(s) /\ Coming(s))'
  <2>0. Sent(s) /\ Coming(s)
    BY DEF Line
  <2>1. CASE s # d
    BY <1>3, <2>0, <2>1 DEF Sent, Coming
  <2>2. CASE s = d
    <3>1. InOrder(got'[d])
      BY <1>2, <1>3, <2>0, <2>2, InOrderAppended DEF Sent
    <3>2. \A i \in DOMAIN got'[d] : d \in Audience(got'[d][i], Sockets[d])
      BY <1>2, <1>5, <2>0, <2>2 DEF Sent, g
    <3>3. ASSUME NEW j \in DOMAIN stream[n], Home[stream[n][j].task] # n
          PROVE  Older(got'[d], stream[n][j])
      <4>1. stream[n][j] \in Message
        BY <1>3, <1>2, <2>2
      <4>2. Older(got[d], stream[n][j])
        BY <1>2, <2>0, <2>2, <3>3 DEF Coming
      <4>3. h.task = stream[n][j].task => h.number < stream[n][j].number
        BY <1>2
      <4>4. Older(Append(got[d], h), stream[n][j])
        BY <1>2, <1>3, <4>1, <4>2, <4>3, OlderAppended
      <4>5. QED
        BY <1>3, <4>4
    <3>4. QED
      BY <1>2, <1>3, <2>2, <3>1, <3>2, <3>3 DEF Sent, Coming
  <2>3. QED
    BY <2>1, <2>2
<1>7. ASSUME NEW u \in Tasks
      PROVE  Unpublished(u)'
  <2>1. Unpublished(u) /\ current[u] \subseteq Message
    BY DEF Line, TypeOK
  <2>2. ASSUME NEW x \in current[u], NEW s \in DOMAIN Sockets, Home[u] # Sockets[s]
        PROVE  Older(got'[s], x)
    <3>1. /\ Older(got[s], x) /\ x \in Message /\ x.task = u
          /\ \A o \in todo[n] : o[1].task = u => o[1].number < x.number
      BY <2>1, <2>2 DEF Unpublished
    <3>2. h.task = x.task => h.number < x.number
      BY <3>1 DEF h
    <3>3. CASE s = d
      <4>1. Older(Append(got[d], h), x)
        BY <1>2, <1>3, <3>1, <3>2, <3>3, OlderAppended
      <4>2. QED
        BY <1>3, <3>3, <4>1
    <3>4. CASE s # d
      BY <1>3, <3>1, <3>4
    <3>5. QED
      BY <3>3, <3>4
  <2>3. \A o \in Nodes : todo'[o] \subseteq todo[o]
    BY <1>3
  <2>4. QED
    BY <1>3, <2>1, <2>2, <2>3 DEF Unpublished
<1>8. Made'
  <2>1. \A i \in DOMAIN got'[d] : got'[d][i].number <= made[got'[d][i].task]
    BY <1>2, <1>5 DEF Line, Made, g
  <2>2. QED
    BY <1>3, <2>1 DEF Line, Made
<1>9. \A o \in Nodes : InOrder(stream'[o])
  BY <1>3 DEF Line
<1>10. ASSUME NEW o \in Nodes
       PROVE  Pending(o)'
  <2>1. CASE o = n
    BY <1>3, <1>4, <2>1 DEF Line, Pending, Audience
  <2>2. CASE o # n
    <3>1. Pending(o) /\ todo'[o] = todo[o] /\ stream'[o] = stream[o] /\ made' = made
      BY <1>3, <2>2 DEF Line
    <3>2. \A q \in todo[o] : q[2] \in DOMAIN Sockets /\ Sockets[q[2]] = o
      BY <1>3, <3>1 DEF Pending, Audience
    <3>3. \A q \in todo[o] : got'[q[2]] = got[q[2]]
      BY <1>2, <1>3, <2>2, <3>2
    <3>4. QED
      BY <3>1, <3>3 DEF Pending, Audience
  <2>3. QED
    BY <2>1, <2>2
<1>11. QED
  BY <1>6, <1>7, <1>8, <1>9, <1>10 DEF Line

LEMMA LinkLostLine ==
  ASSUME TypeOK, Line, NEW n \in Nodes, LinkLost(n)
  PROVE  Line'
<1>1. PICK k \in 0..Len(stream[n]) : stream' = [stream EXCEPT ![n] = SubSeq(@, 1, k)]
  BY DEF LinkLost
<1>2. /\ current' = current /\ made' = made /\ got' = got /\ todo' = todo
      /\ \A s \in DOMAIN Sockets : Sockets[s] \in Nodes
  BY SocketsAssumption DEF LinkLost
<1>3. \A o \in Nodes : \A i \in DOMAIN stream'[o] : i \in DOMAIN stream[o] /\ stream'[o][i] = stream[o][i]
  <2>1. stream[n] \in Seq(Message) /\ stream'[n] = SubSeq(stream[n], 1, k)
    BY <1>1 DEF TypeOK
  <2>2. \A i \in DOMAIN stream'[n] : i \in DOMAIN stream[n] /\ stream'[n][i] = stream[n][i]
    BY <2>1, Cut
  <2>3. \A o \in Nodes \ {n} : stream'[o] = stream[o]
    BY <1>1 DEF TypeOK
  <2>4. QED
    BY <2>2, <2>3
<1>4. \A s \in DOMAIN Sockets : (Sent(s) /\ Coming(s))'
  BY <1>2, <1>3 DEF Line, Sent, Coming
<1>5. \A o \in Nodes : InOrder(stream'[o])
  BY <1>3 DEF Line, InOrder
<1>6. \A u \in Tasks : Unpublished(u)'
  BY <1>2, <1>3 DEF Line, Unpublished, Older
<1>7. Made'
  BY <1>2, <1>3 DEF Line, Made
<1>8. \A o \in Nodes : Pending(o)'
  BY <1>2, <1>3 DEF Line, Pending, Audience
<1>9. QED
  BY <1>4, <1>5, <1>6, <1>7, <1>8 DEF Line

LEMMA LineStep ==
  ASSUME TypeOK, Line, [Next]_vars
  PROVE  Line'
<1>1. ASSUME NEW t \in Tasks, PublishFails(t)
      PROVE  Line'
  <2>1. /\ current'[t] = {} /\ \A u \in Tasks \ {t} : current'[u] = current[u]
        /\ UNCHANGED <<made, stream, todo, got>>
    BY <1>1 DEF PublishFails, TypeOK
  <2>2. QED
    BY <2>1 DEF Line, Sent, Coming, Pending, Unpublished, Made
<1>2. CASE UNCHANGED <<made, current, stream, todo, got>>
  BY <1>2 DEF Line, Sent, Coming, Pending, Unpublished, Made
<1>3. QED
  BY <1>1, <1>2, BroadcastLine, PublishLine, ReceiveLine, HandOverLine, LinkLostLine
     DEF Next, Subscriber, Subscribe, SubscribeFails, StreamEnds, Wake, vars

\* What a node knows of the broadcasts and has of them for its sockets is well
\* formed in every run, and no task has made more than its script says.
THEOREM TypeInvariant == Spec => []TypeOK
BY InitTyped, TypedStep, PTL DEF Spec

\* Each socket is sent a broadcast at most once, in the order of the task that
\* made it, and only those for it: for any number of instances, whatever
\* publishes fail, connections break with what they hold, and subscribers come
\* back in between (redis_adapter.rs:83-152, 241-283).
THEOREM DeliveredOnceInOrder == Spec => []OnceInOrder
<1>1. Init => TypeOK /\ Line
  BY InitTyped, InitLine
<1>2. TypeOK /\ Line /\ [Next]_vars => (TypeOK /\ Line)'
  BY TypedStep, LineStep
<1>3. TypeOK /\ Line => OnceInOrder
  BY DEF TypeOK, Line, Sent, InOrder, OnceInOrder
<1>4. QED
  BY <1>1, <1>2, <1>3, PTL DEF Spec

=============================================================================
