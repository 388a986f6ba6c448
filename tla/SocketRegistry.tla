--------------------------- MODULE SocketRegistry ---------------------------
(***************************************************************************)
(* The server's registry of Socket.IO sockets: the maps that say which     *)
(* Engine.IO sessions are open, which sockets exist, which rooms they are  *)
(* in, which have a sender for broadcasts and which have handlers.         *)
(*                                                                         *)
(* No lock spans two of these maps.  A packet is handled by the tokio task *)
(* that read it (a polling POST, the reader of a WebSocket, the session    *)
(* loop when a pong is overdue); several of them may work for the same     *)
(* session, and each handler is a sequence of steps with one map access    *)
(* each, between which every other task may run.  `task[t]` holds the      *)
(* position and the local variables of task t.                             *)
(*                                                                         *)
(* Source: engine/src/core/socketio/{handler,socket,room,mod}.rs.          *)
(***************************************************************************)
EXTENDS Naturals, FiniteSets

CONSTANTS
  Tasks,       \* tokio tasks that handle packets
  Engines,     \* Engine.IO session ids, each handed out once
  Sockets,     \* Socket.IO socket ids, each handed out once
  Namespaces,  \* the namespaces a client may ask for
  Known,       \* those the application registered
  Guarded,     \* those with an auth handler
  Rooms,       \* rooms the application's handlers join and leave
  MaxMembers,  \* bound: how many sockets are in such rooms at one time
  None         \* no value

ASSUME NamespaceAssumption == Guarded \subseteq Known /\ Known \subseteq Namespaces

ASSUME NoneAssumption == None \notin Engines \cup Sockets \cup Namespaces \cup Rooms

VARIABLES
  sids,      \* the session ids handed out so far
  sessions,  \* EioSessionStore.sessions: the open sessions
  sockets,   \* RpressIoInner.sockets: the connected sockets
  engineOf,  \* Socket.engine_sid, None before the socket is created
  nsOf,      \* Socket.namespace
  rooms,     \* Socket.rooms: the rooms a socket believes it is in
  members,   \* RoomManager.rooms, as the relation namespace x room x socket
  senders,   \* RoomManager.senders: the sockets a broadcast can reach
  onEvent,   \* socket_handlers: the sockets with an event handler
  onDisc,    \* socket_handlers: the sockets with a disconnect handler
  discRuns,  \* how often the disconnect handler of a socket has been called
  abandoned, \* the sockets whose disconnect handler panicked
  task       \* the position and the locals of each task

ids == <<sids, engineOf, nsOf>>
stores == <<sessions, sockets>>
adapter == <<members, senders>>
handlers == <<onEvent, onDisc>>
history == <<discRuns, abandoned>>

maps == <<ids, stores, rooms, adapter, handlers, history>>
vars == <<maps, task>>

\* Every socket is in a room named after itself.
RoomNames == Rooms \cup Sockets

Positions == {"idle", "lookup", "auth", "register", "join", "publish", "greet",
              "find", "handler", "socket", "collect", "next", "read", "take",
              "call", "snapshot", "leaving", "leave_all", "unregister",
              "forget", "user"}

Task == [op    : {"none", "connect", "event", "disconnect", "close"},
         pc    : Positions,
         eng   : Engines \cup {None},      \* engine_sid
         ns    : Namespaces \cup {None},   \* namespace
         sock  : Sockets \cup {None},      \* socket_id
         todo  : SUBSET Sockets,           \* socket_ids still to clean up
         left  : SUBSET RoomNames,         \* rooms leave_all_rooms has to leave
         found : BOOLEAN,                  \* the lookup of a handler succeeded
         call  : {"none", "join", "leave"},\* Socket::join or leave, half done
         room  : RoomNames \cup {None}]    \* its room

Idle == [op |-> "none", pc |-> "idle", eng |-> None, ns |-> None,
         sock |-> None, todo |-> {}, left |-> {}, found |-> FALSE,
         call |-> "none", room |-> None]

Init ==
  /\ sids = {} /\ sessions = {} /\ sockets = {}
  /\ engineOf = [s \in Sockets |-> None]
  /\ nsOf = [s \in Sockets |-> None]
  /\ rooms = [s \in Sockets |-> {}]
  /\ members = {} /\ senders = {} /\ onEvent = {} /\ onDisc = {} /\ abandoned = {}
  /\ discRuns = [s \in Sockets |-> 0]
  /\ task = [t \in Tasks |-> Idle]

At(t, label) == task[t].pc = label

Set(t, locals) == task' = [task EXCEPT ![t] = locals]

Goto(t, label) == Set(t, [task[t] EXCEPT !.pc = label])

Return(t) == Set(t, Idle)

\* The sockets of one client in one namespace, of which a lookup picks any.
SocketsOf(e, n) == {s \in sockets : engineOf[s] = e /\ nsOf[s] = n}

-----------------------------------------------------------------------------
(* Sessions open; tasks pick up packets.                                   *)

\* create_session, for a polling handshake or a direct WebSocket connection.
Open(e) ==
  /\ e \notin sids
  /\ sids' = sids \cup {e}
  /\ sessions' = sessions \cup {e}
  /\ UNCHANGED <<engineOf, nsOf, sockets, rooms, adapter, handlers, history, task>>

\* process_sio_packet: a task starts on a CONNECT, an EVENT or a DISCONNECT.
\* The reader of a WebSocket outlives its session, so the sid may be stale.
Receive(t, e, n) ==
  /\ At(t, "idle") /\ e \in sids
  /\ \/ Set(t, [Idle EXCEPT !.op = "connect", !.pc = "lookup", !.eng = e, !.ns = n])
     \/ \E op \in {"event", "disconnect"} :
          Set(t, [Idle EXCEPT !.op = op, !.pc = "find", !.eng = e, !.ns = n])
  /\ UNCHANGED maps

\* handle_disconnect starts: an Engine.IO CLOSE, the end of a WebSocket, or the
\* session loop that finds the last pong too old.
Close(t, e) ==
  /\ At(t, "idle") /\ e \in sids
  /\ Set(t, [Idle EXCEPT !.op = "close", !.pc = "collect", !.eng = e])
  /\ UNCHANGED maps

-----------------------------------------------------------------------------
(* handle_sio_connect                                                      *)

\* The namespace and the session are looked up: an unknown namespace is
\* answered with a CONNECT_ERROR, a session that is gone not at all.
ConnectLookup(t) ==
  /\ At(t, "lookup")
  /\ IF task[t].eng \in sessions /\ task[t].ns \in Known
     THEN Goto(t, IF task[t].ns \in Guarded THEN "auth" ELSE "register")
     ELSE Return(t)
  /\ UNCHANGED maps

\* The application's auth handler is awaited; it accepts or rejects.
ConnectAuth(t) ==
  /\ At(t, "auth")
  /\ Goto(t, "register") \/ Return(t)
  /\ UNCHANGED maps

\* Mutation: the socket can be looked up before it is in its own room.
ConnectRegisterPublishes(t) ==
  /\ At(t, "register")
  /\ \E s \in Sockets :
       /\ engineOf[s] = None
       /\ engineOf' = [engineOf EXCEPT ![s] = task[t].eng]
       /\ nsOf' = [nsOf EXCEPT ![s] = task[t].ns]
       /\ rooms' = [rooms EXCEPT ![s] = {s}]
       /\ senders' = senders \cup {s}
       /\ sockets' = sockets \cup {s}
       /\ Set(t, [task[t] EXCEPT !.pc = "join", !.sock = s])
  /\ UNCHANGED <<sids, sessions, members, handlers, history>>

\* Socket::new with a fresh id, and register_sender.
ConnectRegister(t) ==
  /\ At(t, "register")
  /\ \E s \in Sockets :
       /\ engineOf[s] = None
       /\ engineOf' = [engineOf EXCEPT ![s] = task[t].eng]
       /\ nsOf' = [nsOf EXCEPT ![s] = task[t].ns]
       /\ rooms' = [rooms EXCEPT ![s] = {s}]
       /\ senders' = senders \cup {s}
       /\ Set(t, [task[t] EXCEPT !.pc = "join", !.sock = s])
  /\ UNCHANGED <<sids, stores, members, handlers, history>>

\* Bound: the socket ids are used up; the task gives up its packet.
OutOfIds(t) ==
  /\ At(t, "register") /\ \A s \in Sockets : engineOf[s] # None
  /\ Return(t)
  /\ UNCHANGED maps

\* Mutation: namespace and room change places in the call of join.
ConnectJoinSwapped(t) ==
  /\ At(t, "join")
  /\ members' = members \cup {<<task[t].sock, task[t].ns, task[t].sock>>}
  /\ Goto(t, "publish")
  /\ UNCHANGED <<ids, stores, rooms, senders, handlers, history>>

\* The adapter puts the socket into its own room.
ConnectJoin(t) ==
  /\ At(t, "join")
  /\ members' = members \cup {<<task[t].ns, task[t].sock, task[t].sock>>}
  /\ Goto(t, "publish")
  /\ UNCHANGED <<ids, stores, rooms, senders, handlers, history>>

\* The socket becomes visible to lookups.
ConnectPublish(t) ==
  /\ At(t, "publish")
  /\ sockets' = sockets \cup {task[t].sock}
  /\ Goto(t, "greet")
  /\ UNCHANGED <<ids, sessions, rooms, adapter, handlers, history>>

\* Mutation: the sender is registered only once CONNECT has been answered.
ConnectGreetRegisters(t) ==
  /\ At(t, "greet")
  /\ senders' = senders \cup {task[t].sock}
  /\ Goto(t, "user")
  /\ UNCHANGED <<ids, stores, rooms, members, handlers, history>>

\* CONNECT is answered; then the application's connection handler runs.
ConnectGreet(t) ==
  /\ At(t, "greet")
  /\ Goto(t, "user")
  /\ UNCHANGED maps

-----------------------------------------------------------------------------
(* handle_sio_event                                                        *)

\* EVENT and DISCONNECT look for a socket of this client in this namespace.
Find(t) ==
  /\ At(t, "find")
  /\ LET own == SocketsOf(task[t].eng, task[t].ns) IN
       IF own = {}
       THEN Return(t)
       ELSE \E s \in own :
              Set(t, [task[t] EXCEPT !.sock = s,
                        !.pc = IF task[t].op = "event" THEN "handler" ELSE "read"])
  /\ UNCHANGED maps

EventHandler(t) ==
  /\ At(t, "handler")
  /\ Set(t, [task[t] EXCEPT !.found = task[t].sock \in onEvent, !.pc = "socket"])
  /\ UNCHANGED maps

\* The handler runs if it was found and the socket is still connected.
EventSocket(t) ==
  /\ At(t, "socket")
  /\ IF task[t].found /\ task[t].sock \in sockets THEN Goto(t, "user") ELSE Return(t)
  /\ UNCHANGED maps

-----------------------------------------------------------------------------
(* handle_disconnect: every socket of the session, then the session        *)

CloseCollect(t) ==
  /\ At(t, "collect")
  /\ Set(t, [task[t] EXCEPT !.pc = "next",
                !.todo = {s \in sockets : engineOf[s] = task[t].eng}])
  /\ UNCHANGED maps

CloseNext(t) ==
  /\ At(t, "next")
  /\ \E s \in task[t].todo :
       Set(t, [task[t] EXCEPT !.pc = "read", !.sock = s, !.todo = @ \ {s}])
  /\ UNCHANGED maps

CloseSession(t) ==
  /\ At(t, "next") /\ task[t].todo = {}
  /\ sessions' = sessions \ {task[t].eng}
  /\ Return(t)
  /\ UNCHANGED <<ids, sockets, rooms, adapter, handlers, history>>

-----------------------------------------------------------------------------
(* cleanup_socket                                                          *)

CleanRead(t) ==
  /\ At(t, "read")
  /\ Set(t, [task[t] EXCEPT !.found = task[t].sock \in onDisc, !.pc = "take"])
  /\ UNCHANGED maps

\* Mutation: the handler is called whether or not the socket was still there.
AfterTakeUngated(t) == IF task[t].found THEN "call" ELSE "snapshot"

\* Of two cleanups of one socket only the first finds it.
AfterTake(t) == IF task[t].sock \notin sockets THEN "leave_all"
                ELSE IF task[t].found THEN "call" ELSE "snapshot"

\* Mutation: the socket is looked up, not removed.
CleanTakeKeeps(t) == At(t, "take") /\ Goto(t, AfterTake(t)) /\ UNCHANGED maps

\* sockets.remove.
CleanTake(t) ==
  /\ At(t, "take")
  /\ sockets' = sockets \ {task[t].sock}
  /\ Goto(t, AfterTake(t))
  /\ UNCHANGED <<ids, sessions, rooms, adapter, handlers, history>>

\* The disconnect handler is called; it may use the socket like any handler.
CleanCall(t) ==
  /\ At(t, "call")
  /\ discRuns' = [discRuns EXCEPT ![task[t].sock] = @ + 1]
  /\ Goto(t, "user")
  /\ UNCHANGED <<ids, stores, rooms, adapter, handlers, abandoned>>

\* leave_all_rooms copies the socket's rooms, leaves them one by one, and
\* clears what the socket believes.
CleanSnapshot(t) ==
  /\ At(t, "snapshot")
  /\ Set(t, [task[t] EXCEPT !.left = rooms[task[t].sock], !.pc = "leaving"])
  /\ UNCHANGED maps

CleanLeave(t) ==
  /\ At(t, "leaving")
  /\ \E r \in task[t].left :
       /\ members' = members \ {<<nsOf[task[t].sock], r, task[t].sock>>}
       /\ Set(t, [task[t] EXCEPT !.left = @ \ {r}])
  /\ UNCHANGED <<ids, stores, rooms, senders, handlers, history>>

CleanClear(t) ==
  /\ At(t, "leaving") /\ task[t].left = {}
  /\ rooms' = [rooms EXCEPT ![task[t].sock] = {}]
  /\ Goto(t, "leave_all")
  /\ UNCHANGED <<ids, stores, adapter, handlers, history>>

CleanLeaveAll(t) ==
  /\ At(t, "leave_all")
  /\ members' = {m \in members : m[3] # task[t].sock}
  /\ Goto(t, "unregister")
  /\ UNCHANGED <<ids, stores, rooms, senders, handlers, history>>

\* Mutation: the sender stays in the adapter.
CleanUnregisterSkipped(t) == At(t, "unregister") /\ Goto(t, "forget") /\ UNCHANGED maps

CleanUnregister(t) ==
  /\ At(t, "unregister")
  /\ senders' = senders \ {task[t].sock}
  /\ Goto(t, "forget")
  /\ UNCHANGED <<ids, stores, rooms, members, handlers, history>>

\* The handlers go, and handle_disconnect turns to its next socket.
CleanForget(t) ==
  /\ At(t, "forget")
  /\ onEvent' = onEvent \ {task[t].sock}
  /\ onDisc' = onDisc \ {task[t].sock}
  /\ IF task[t].op = "close" THEN Goto(t, "next") ELSE Return(t)
  /\ UNCHANGED <<ids, stores, rooms, adapter, history>>

-----------------------------------------------------------------------------
(* Application code: a connection, event or disconnect handler works on the *)
(* socket it was given, in any order and as often as it likes.              *)

Cleaning(t) == task[t].op \in {"disconnect", "close"}

InUser(t) == At(t, "user") /\ task[t].call = "none"

UserOn(t) ==
  /\ InUser(t)
  /\ onEvent' = onEvent \cup {task[t].sock}
  /\ UNCHANGED <<ids, stores, rooms, adapter, onDisc, history, task>>

UserOnDisconnect(t) ==
  /\ InUser(t)
  /\ onDisc' = onDisc \cup {task[t].sock}
  /\ UNCHANGED <<ids, stores, rooms, adapter, onEvent, history, task>>

\* Socket::join and Socket::leave change the socket's own set ...
UserJoin(t, r) ==
  /\ InUser(t)
  /\ Cardinality({s \in Sockets : rooms[s] \cap Rooms # {}} \cup {task[t].sock}) <= MaxMembers
  /\ rooms' = [rooms EXCEPT ![task[t].sock] = @ \cup {r}]
  /\ Set(t, [task[t] EXCEPT !.call = "join", !.room = r])
  /\ UNCHANGED <<ids, stores, adapter, handlers, history>>

UserLeave(t, r) ==
  /\ InUser(t)
  /\ rooms' = [rooms EXCEPT ![task[t].sock] = @ \ {r}]
  /\ Set(t, [task[t] EXCEPT !.call = "leave", !.room = r])
  /\ UNCHANGED <<ids, stores, adapter, handlers, history>>

\* ... and then, under another lock, the adapter's.
UserAdapter(t) ==
  /\ At(t, "user") /\ task[t].call # "none"
  /\ LET m == <<nsOf[task[t].sock], task[t].room, task[t].sock>> IN
       members' = IF task[t].call = "join" THEN members \cup {m} ELSE members \ {m}
  /\ Set(t, [task[t] EXCEPT !.call = "none", !.room = None])
  /\ UNCHANGED <<ids, stores, rooms, senders, handlers, history>>

\* The handler returns: to cleanup_socket, or to the end of the packet.
UserReturn(t) ==
  /\ InUser(t)
  /\ IF Cleaning(t) THEN Goto(t, "snapshot") ELSE Return(t)
  /\ UNCHANGED maps

\* A panic in application code ends the task where it stands.
UserPanic(t) ==
  /\ InUser(t) \/ At(t, "auth")
  /\ abandoned' = IF Cleaning(t) THEN abandoned \cup {task[t].sock} ELSE abandoned
  /\ Return(t)
  /\ UNCHANGED <<ids, stores, rooms, adapter, handlers, discRuns>>

-----------------------------------------------------------------------------
Connect(t) == ConnectLookup(t) \/ ConnectAuth(t) \/ ConnectRegister(t) \/ OutOfIds(t)
              \/ ConnectJoin(t) \/ ConnectPublish(t) \/ ConnectGreet(t)

Event(t) == Find(t) \/ EventHandler(t) \/ EventSocket(t)

CloseSteps(t) == CloseCollect(t) \/ CloseNext(t) \/ CloseSession(t)

Cleanup(t) == CleanRead(t) \/ CleanTake(t) \/ CleanCall(t) \/ CleanSnapshot(t)
              \/ CleanLeave(t) \/ CleanClear(t) \/ CleanLeaveAll(t)
              \/ CleanUnregister(t) \/ CleanForget(t)

\* What the server's own code does next in task t, once the packet is there.
Step(t) == Connect(t) \/ Event(t) \/ CloseSteps(t) \/ Cleanup(t) \/ UserAdapter(t)

User(t) == UserOn(t) \/ UserOnDisconnect(t) \/ UserReturn(t) \/ UserPanic(t)
           \/ \E r \in Rooms : UserJoin(t, r) \/ UserLeave(t, r)

Start(t) == \E e \in Engines : Close(t, e) \/ \E n \in Namespaces : Receive(t, e, n)

Next == (\E e \in Engines : Open(e)) \/ \E t \in Tasks : Start(t) \/ Step(t) \/ User(t)

Spec == Init /\ [][Next]_vars

-----------------------------------------------------------------------------
(* Derived state                                                           *)

Created == {s \in Sockets : engineOf[s] # None}

\* Task t is bringing socket s up: registered, not yet published.
Connecting(t, s) == task[t].pc \in {"join", "publish"} /\ task[t].sock = s

\* Task t is in cleanup_socket for s and has not come to unregister_sender.
Releasing(t, s) ==
  /\ Cleaning(t) /\ task[t].sock = s
  /\ task[t].pc \in {"call", "user", "snapshot", "leaving", "leave_all", "unregister"}

\* The life of a socket as the rest of the program sees it.
Phase(s) == IF s \notin Created THEN "new"
            ELSE IF s \in sockets THEN "open"
            ELSE IF \E t \in Tasks : Connecting(t, s) THEN "connecting"
            ELSE "closed"

AllIdle == \A t \in Tasks : task[t] = Idle

-----------------------------------------------------------------------------
(* Properties                                                              *)

TypeOK ==
  /\ sids \subseteq Engines /\ sessions \subseteq sids
  /\ sockets \subseteq Sockets /\ senders \subseteq Sockets
  /\ onEvent \subseteq Sockets /\ onDisc \subseteq Sockets /\ abandoned \subseteq Sockets
  /\ engineOf \in [Sockets -> Engines \cup {None}]
  /\ nsOf \in [Sockets -> Namespaces \cup {None}]
  /\ rooms \in [Sockets -> SUBSET RoomNames]
  /\ members \subseteq (Namespaces \X RoomNames \X Sockets)
  /\ discRuns \in [Sockets -> Nat]
  /\ task \in [Tasks -> Task]

\* The application's disconnect handler is called at most once for a socket,
\* however many DISCONNECT packets, CLOSE packets, pong timeouts and broken
\* connections race to clean the socket up (cleanup_socket).
DisconnectHandlerAtMostOnce == \A s \in Sockets : discRuns[s] <= 1

\* A broadcast reaches every connected socket: no cleanup that is late, or
\* that lost the race for the socket, takes a sender away from a live one.
ConnectedIsReachable == sockets \subseteq senders

\* Nothing is left reachable by accident: a sender that outlives its socket's
\* entry belongs to a task that is about to publish or about to unregister it.
\* The one exception is a disconnect handler that panicked.
SenderHasOwner ==
  \A s \in senders \ (sockets \cup abandoned) :
    \E t \in Tasks : Connecting(t, s) \/ Releasing(t, s)

\* Once a socket has been cleaned up, no straggler (a handler still running, a
\* second cleanup) brings it back or makes it reachable again.
NoResurrection ==
  [][\A s \in Created : /\ Phase(s) = "closed" => Phase(s)' = "closed"
                        /\ s \notin senders => s \notin senders']_vars

\* What the registry promises, and the mapping to it.
Lifecycle == INSTANCE SocketLifecycle WITH
  phase <- [s \in Sockets |-> Phase(s)],
  reachable <- senders,
  called <- discRuns

Implements == Lifecycle!Spec

-----------------------------------------------------------------------------
(* What comments of the source say and the code does not keep.             *)

\* handler.rs:412: handle_disconnect "removes all sockets for an Engine.IO
\* session".  Says: when no task is at work, every socket's session is open.
NoOrphans == AllIdle => \A s \in sockets : engineOf[s] \in sessions

=============================================================================
