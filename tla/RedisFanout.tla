----------------------------- MODULE RedisFanout -----------------------------
(***************************************************************************)
(* Broadcasts over several instances of the server: each delivers to its   *)
(* own sockets and publishes to Redis; a subscriber task on each hands the *)
(* broadcasts of the others to its own sockets, and connects again two     *)
(* seconds after it lost Redis.                                            *)
(*                                                                         *)
(* A subscriber awaits the delivery to its own sockets, one after the      *)
(* other, and nothing here says that it ends: Fanout models the locks and  *)
(* the channels that it waits for.  Redis hands a message to the           *)
(* connections that are subscribed when it is published, in one order; a   *)
(* connection that is lost takes the messages with it that it had not      *)
(* passed on.                                                              *)
(*                                                                         *)
(* Source: engine/src/core/socketio/{redis_adapter,mod}.rs.                *)
(***************************************************************************)
EXTENDS Naturals, SequencesExt

CONSTANTS
  Nodes,         \* the instances
  Listening,     \* those made by with_redis; set_adapter starts no subscriber
  Tasks,         \* tasks that broadcast, one broadcast after the other
  Home,          \* the node of each task
  Script,        \* what each task broadcasts: to the room or not, and the socket left out
  Sockets,       \* the node of each socket
  Room,          \* the sockets in the room; every socket is in the namespace
  None,          \* no socket is excluded
  MaxFailures     \* bound: failures of Redis and of connections to it

ASSUME NodesAssumption == Listening \subseteq Nodes /\ Home \in [Tasks -> Nodes]

ASSUME SocketsAssumption ==
  Sockets \in [DOMAIN Sockets -> Nodes] /\ Room \subseteq DOMAIN Sockets /\ None \notin DOMAIN Sockets

ASSUME ScriptAssumption ==
  /\ Script \in [Tasks -> Seq([room : BOOLEAN, exclude : DOMAIN Sockets \cup {None}])]
  /\ MaxFailures \in Nat

VARIABLES
  made,     \* how many broadcasts each task has made
  current,  \* the one it has delivered and not published yet, if any
  link,     \* of each node's subscriber: off, connecting, subscribed, ending, sleeping
  stream,   \* what its connection holds and the subscriber has not taken
  todo,     \* the message it is delivering, with each socket that has still to get it
  got,      \* what each socket was sent
  lost,     \* what connections took with them: node and broadcast
  failures

vars == <<made, current, link, stream, todo, got, lost, failures>>

\* BroadcastMessage; a broadcast is told apart by its task and number.
Message == UNION {[task : {t}, number : DOMAIN Script[t]] : t \in Tasks}

Content(m) == Script[m.task][m.number]

Audience(m, node) ==
  {s \in (IF Content(m).room THEN Room ELSE DOMAIN Sockets) : Sockets[s] = node /\ s # Content(m).exclude}

\* RoomManager's broadcast_room or broadcast_namespace.
DeliveredLocally(m, node) ==
  [s \in DOMAIN Sockets |-> IF s \in Audience(m, node) THEN Append(got[s], m) ELSE got[s]]

Init ==
  /\ made = [t \in Tasks |-> 0]
  /\ current = [t \in Tasks |-> {}]
  /\ link = [n \in Nodes |-> IF n \in Listening THEN "connecting" ELSE "off"]
  /\ stream = [n \in Nodes |-> <<>>]
  /\ todo = [n \in Nodes |-> {}]
  /\ got = [s \in DOMAIN Sockets |-> <<>>]
  /\ lost = {}
  /\ failures = 0

-----------------------------------------------------------------------------
(* RedisAdapter::broadcast_room, broadcast_namespace. *)

Broadcast(t) ==
  /\ current[t] = {} /\ made[t] < Len(Script[t])
  /\ made' = [made EXCEPT ![t] = @ + 1]
  /\ LET m == [task |-> t, number |-> made[t] + 1]
     IN current' = [current EXCEPT ![t] = {m}] /\ got' = DeliveredLocally(m, Home[t])
  /\ UNCHANGED <<link, stream, todo, lost, failures>>

Publish(t) ==
  /\ current[t] # {}
  /\ \E m \in current[t] :
       stream' = [n \in Nodes |-> IF link[n] = "subscribed" THEN Append(stream[n], m) ELSE stream[n]]
  /\ current' = [current EXCEPT ![t] = {}]
  /\ UNCHANGED <<made, link, todo, got, lost, failures>>

Fails == failures < MaxFailures /\ failures' = failures + 1

\* Logged, and no more said of it.
PublishFails(t) ==
  /\ current[t] # {} /\ Fails
  /\ current' = [current EXCEPT ![t] = {}]
  /\ UNCHANGED <<made, link, stream, todo, got, lost>>

-----------------------------------------------------------------------------
(* The subscriber: start_subscriber, run_subscriber. *)

Subscribe(n) ==
  /\ link[n] = "connecting"
  /\ link' = [link EXCEPT ![n] = "subscribed"]
  /\ UNCHANGED <<made, current, stream, todo, got, lost, failures>>

SubscribeFails(n) ==
  /\ link[n] = "connecting" /\ Fails
  /\ link' = [link EXCEPT ![n] = "sleeping"]
  /\ UNCHANGED <<made, current, stream, todo, got, lost>>

\* Mutation: a node does not know its own broadcasts again.
ReceiveEcho(n) ==
  /\ stream[n] # <<>> /\ todo[n] = {}
  /\ stream' = [stream EXCEPT ![n] = Tail(@)]
  /\ todo' = [todo EXCEPT ![n] = {Head(stream[n])} \X Audience(Head(stream[n]), n)]
  /\ UNCHANGED <<made, current, link, got, lost, failures>>

\* Its own broadcasts are dropped, the others handed to the RoomManager.
Receive(n) ==
  /\ stream[n] # <<>> /\ todo[n] = {}
  /\ stream' = [stream EXCEPT ![n] = Tail(@)]
  /\ todo' = IF Home[Head(stream[n]).task] = n THEN todo
             ELSE [todo EXCEPT ![n] = {Head(stream[n])} \X Audience(Head(stream[n]), n)]
  /\ UNCHANGED <<made, current, link, got, lost, failures>>

\* The subscriber's broadcast_room or broadcast_namespace comes to the next socket.
HandOver(n) ==
  /\ \E p \in todo[n] :
       /\ todo' = [todo EXCEPT ![n] = @ \ {p}]
       /\ got' = [got EXCEPT ![p[2]] = Append(@, p[1])]
  /\ UNCHANGED <<made, current, link, stream, lost, failures>>

\* The connection of the subscriber breaks; what it has read already stays.
LinkLost(n) ==
  /\ link[n] = "subscribed" /\ Fails
  /\ link' = [link EXCEPT ![n] = "ending"]
  /\ \E k \in 0..Len(stream[n]) :
       /\ stream' = [stream EXCEPT ![n] = SubSeq(@, 1, k)]
       /\ lost' = lost \cup {[node |-> n, message |-> stream[n][i]] : i \in (k + 1)..Len(stream[n])}
  /\ UNCHANGED <<made, current, todo, got>>

\* Mutation: the task ends with its stream.
StreamEndsForGood(n) ==
  /\ link[n] = "ending" /\ stream[n] = <<>> /\ todo[n] = {}
  /\ link' = [link EXCEPT ![n] = "off"]
  /\ UNCHANGED <<made, current, stream, todo, got, lost, failures>>

StreamEnds(n) ==
  /\ link[n] = "ending" /\ stream[n] = <<>> /\ todo[n] = {}
  /\ link' = [link EXCEPT ![n] = "sleeping"]
  /\ UNCHANGED <<made, current, stream, todo, got, lost, failures>>

Wake(n) ==
  /\ link[n] = "sleeping"
  /\ link' = [link EXCEPT ![n] = "connecting"]
  /\ UNCHANGED <<made, current, stream, todo, got, lost, failures>>

Subscriber(n) == Subscribe(n) \/ SubscribeFails(n) \/ Receive(n) \/ StreamEnds(n) \/ Wake(n)

Next ==
  \/ \E t \in Tasks : Broadcast(t) \/ Publish(t) \/ PublishFails(t)
  \/ \E n \in Nodes : Subscriber(n) \/ HandOver(n) \/ LinkLost(n)

Spec == Init /\ [][Next]_vars

\* The subscriber tasks run and their timers fire; a delivery may take for ever.
FairSpec == Spec /\ \A n \in Nodes : WF_vars(Subscriber(n))

-----------------------------------------------------------------------------
TypeOK ==
  /\ made \in [Tasks -> Nat]
  /\ \A t \in Tasks : made[t] <= Len(Script[t])
  /\ current \in [Tasks -> SUBSET Message]
  /\ link \in [Nodes -> {"off", "connecting", "subscribed", "ending", "sleeping"}]
  /\ stream \in [Nodes -> Seq(Message)]
  /\ todo \in [Nodes -> SUBSET (Message \X DOMAIN Sockets)]
  /\ got \in [DOMAIN Sockets -> Seq(Message)]
  /\ lost \subseteq [node : Nodes, message : Message]
  /\ failures \in Nat

\* A socket gets a broadcast at most once, from its own instance or through
\* Redis, and those of one task in the order in which the task made them, over
\* losses and new subscriptions too; and only those it is in the audience of
\* (redis_adapter.rs:124-152, 241-283).
OnceInOrder ==
  \A s \in DOMAIN got :
    /\ \A i, j \in DOMAIN got[s] :
         i < j /\ got[s][i].task = got[s][j].task => got[s][i].number < got[s][j].number
    /\ \A i \in DOMAIN got[s] : s \in Audience(got[s][i], Sockets[s])

\* A subscriber that lost Redis listens again, and a broadcast that Redis has
\* handed to its connection reaches the sockets of its node unless the connection
\* broke: on each instance whose own deliveries come to an end, whatever becomes
\* of them on the others (redis_adapter.rs:83-93, 107-156).
ReachesNodes ==
  \A n \in Listening : []<>(todo[n] = {}) =>
    /\ []<>(link[n] = "subscribed")
    /\ \A m \in Message :
         m \in ToSet(stream[n]) ~>
           \/ [node |-> n, message |-> m] \in lost
           \/ \A s \in Audience(m, n) : m \in ToSet(got[s])

=============================================================================
