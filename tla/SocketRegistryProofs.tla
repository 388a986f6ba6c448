------------------------ MODULE SocketRegistryProofs ------------------------
(* Theorems about SocketRegistry, for any number of tasks, sessions, sockets, *)
(* namespaces and rooms.                                                      *)
EXTENDS SocketRegistry, TLAPS

(***************************************************************************)
(* Well-formed maps and locals.  TypeOK is not inductive: that a step      *)
(* stores a socket, and not None, in a map follows from the position of    *)
(* its task.                                                               *)
(***************************************************************************)
ConnectPositions == {"lookup", "auth", "register", "join", "publish", "greet"}
SocketPositions == {"join", "publish", "greet", "handler", "socket", "read", "take",
                    "call", "snapshot", "leaving", "leave_all", "unregister",
                    "forget", "user"}
CleanupPositions == {"read", "take", "call", "snapshot", "leaving", "leave_all",
                     "unregister", "forget"}

\* The locals l of a task, where C is the set of sockets created so far.
LocalsOK(l, C) ==
  /\ l \in Task
  /\ l.pc \in ConnectPositions => l.op = "connect" /\ l.ns \in Namespaces /\ l.eng \in Engines
  /\ l.pc \in SocketPositions => l.sock \in C
  /\ l.sock \in C \cup {None}
  /\ l.pc \in CleanupPositions => l.op \in {"disconnect", "close"}
  /\ l.pc \in {"handler", "socket"} => l.op = "event"
  /\ l.pc = "find" => l.op \in {"event", "disconnect"}
  /\ l.pc \in {"collect", "next"} => l.op = "close"
  /\ l.call # "none" => l.room \in RoomNames
  /\ l.todo \subseteq C

MapsOK ==
  /\ sids \subseteq Engines /\ sessions \subseteq sids
  /\ sockets \subseteq Created /\ senders \subseteq Created
  /\ onEvent \subseteq Sockets /\ onDisc \subseteq Sockets /\ abandoned \subseteq Sockets
  /\ engineOf \in [Sockets -> Engines \cup {None}]
  /\ nsOf \in [Sockets -> Namespaces \cup {None}]
  /\ \A s \in Created : nsOf[s] \in Namespaces
  /\ rooms \in [Sockets -> SUBSET RoomNames]
  /\ members \subseteq (Namespaces \X RoomNames \X Sockets)
  /\ discRuns \in [Sockets -> Nat]

Shape ==
  /\ MapsOK
  /\ task \in [Tasks -> Task]
  /\ \A t \in Tasks : LocalsOK(task[t], Created)

LEMMA ShapeTypeOK == Shape => TypeOK
  BY DEF Shape, MapsOK, TypeOK, Created

LEMMA ShapeInit == Init => Shape
  BY DEF Init, Shape, MapsOK, LocalsOK, Idle, Task, Positions, Created,
         ConnectPositions, SocketPositions, CleanupPositions

(***************************************************************************)
(* A step of task t keeps the shape when its new locals are well formed,   *)
(* the maps are, and no socket is forgotten.                               *)
(***************************************************************************)
LEMMA SetShape ==
  ASSUME Shape, NEW t \in Tasks, NEW l, Set(t, l), LocalsOK(l, Created'),
         MapsOK', Created \subseteq Created'
  PROVE  Shape'
<1>1. l \in Task
  BY DEF LocalsOK
<1>2. task' \in [Tasks -> Task] /\ task'[t] = l /\ \A u \in Tasks \ {t} : task'[u] = task[u]
  BY <1>1 DEF Shape, Set
<1>3. ASSUME NEW u \in Tasks PROVE LocalsOK(task'[u], Created')
  <2>1. CASE u = t
    BY <1>2, <2>1
  <2>2. CASE u # t
    <3>1. LocalsOK(task[u], Created) /\ task'[u] = task[u]
      BY <1>2, <2>2 DEF Shape
    <3>2. LocalsOK(task[u], Created')
      BY <3>1 DEF LocalsOK
    <3> QED BY <3>1, <3>2
  <2> QED BY <2>1, <2>2
<1> QED BY <1>2, <1>3 DEF Shape

\* What a step of t that leaves the maps alone has to show.
LEMMA QuietShape ==
  ASSUME Shape, NEW t \in Tasks, NEW l, Set(t, l), LocalsOK(l, Created), UNCHANGED maps
  PROVE  Shape'
<1>1. Created' = Created /\ MapsOK'
  BY DEF Shape, MapsOK, Created, maps, ids, stores, adapter, handlers, history
<1> QED BY <1>1, SetShape

LEMMA IdleOK == ASSUME NEW C PROVE LocalsOK(Idle, C)
  BY DEF Idle, LocalsOK, Task, Positions, ConnectPositions, SocketPositions, CleanupPositions

\* A task moves on to a label that needs nothing its position did not need.
LEMMA GotoOK ==
  ASSUME NEW C, NEW l, LocalsOK(l, C), NEW label \in Positions,
         label \in ConnectPositions => l.pc \in ConnectPositions,
         label \in SocketPositions => l.pc \in SocketPositions,
         label \in CleanupPositions => l.op \in {"disconnect", "close"},
         label \in {"handler", "socket"} => l.op = "event",
         label = "find" => l.op \in {"event", "disconnect"},
         label \in {"collect", "next"} => l.op = "close"
  PROVE  LocalsOK([l EXCEPT !.pc = label], C)
  BY DEF LocalsOK, Task

\* A task that takes up a socket s that exists.
LEMMA SockOK ==
  ASSUME NEW C \in SUBSET Sockets, NEW l, LocalsOK(l, C), NEW s \in C, NEW label \in {"handler", "read"},
         label = "handler" => l.op = "event", label = "read" => l.op \in {"disconnect", "close"}
  PROVE  LocalsOK([l EXCEPT !.sock = s, !.pc = label], C)
<1> DEFINE m == [l EXCEPT !.sock = s, !.pc = label]
<1>1. m \in Task
  BY ZenonT(30) DEF LocalsOK, Task, Positions
<1>2. /\ m.pc = label /\ m.sock = s /\ m.op = l.op
      /\ m.call = l.call /\ m.room = l.room /\ m.todo = l.todo
  BY DEF LocalsOK, Task
<1> QED BY <1>1, <1>2 DEF LocalsOK, ConnectPositions, SocketPositions, CleanupPositions

\* A task that has looked for a handler of its socket.
LEMMA FoundOK ==
  ASSUME NEW C, NEW l, LocalsOK(l, C), NEW b \in BOOLEAN, NEW label \in {"socket", "take"},
         l.pc \in SocketPositions,
         label = "socket" => l.op = "event", label = "take" => l.op \in {"disconnect", "close"}
  PROVE  LocalsOK([l EXCEPT !.found = b, !.pc = label], C)
<1> DEFINE m == [l EXCEPT !.found = b, !.pc = label]
<1>1. m \in Task
  <2>1. l \in Task /\ label \in Positions
    BY DEF LocalsOK, Positions
  <2> QED BY <2>1 DEF Task
<1>2. /\ m.pc = label /\ m.sock = l.sock /\ m.op = l.op
      /\ m.call = l.call /\ m.room = l.room /\ m.todo = l.todo
  BY DEF LocalsOK, Task
<1> QED BY <1>1, <1>2 DEF LocalsOK, ConnectPositions, SocketPositions, CleanupPositions

\* A task in the middle of Socket::join or Socket::leave.
LEMMA CallOK ==
  ASSUME NEW C, NEW l, LocalsOK(l, C), NEW c \in {"join", "leave"}, NEW r \in RoomNames
  PROVE  LocalsOK([l EXCEPT !.call = c, !.room = r], C)
<1> DEFINE m == [l EXCEPT !.call = c, !.room = r]
<1>1. m \in Task
  BY DEF LocalsOK, Task
<1>2. /\ m.pc = l.pc /\ m.sock = l.sock /\ m.op = l.op /\ m.room = r
      /\ m.todo = l.todo /\ m.eng = l.eng /\ m.ns = l.ns
  BY DEF LocalsOK, Task
<1> QED BY <1>1, <1>2 DEF LocalsOK

LEMMA ReturnShape ==
  ASSUME Shape, NEW t \in Tasks, Return(t), UNCHANGED maps
  PROVE  Shape'
  BY IdleOK, QuietShape DEF Return

LEMMA GotoShape ==
  ASSUME Shape, NEW t \in Tasks, NEW label \in Positions, Goto(t, label), UNCHANGED maps,
         label \in ConnectPositions => task[t].pc \in ConnectPositions,
         label \in SocketPositions => task[t].pc \in SocketPositions,
         label \in CleanupPositions => task[t].op \in {"disconnect", "close"},
         label \in {"handler", "socket"} => task[t].op = "event",
         label = "find" => task[t].op \in {"event", "disconnect"},
         label \in {"collect", "next"} => task[t].op = "close"
  PROVE  Shape'
<1>1. LocalsOK(task[t], Created)
  BY DEF Shape
<1>2. LocalsOK([task[t] EXCEPT !.pc = label], Created)
  BY <1>1, GotoOK
<1> QED BY <1>2, QuietShape DEF Goto

(* The definitions a step of a task is made of.                             *)
USE DEF At, ConnectPositions, SocketPositions, CleanupPositions, Positions

LEMMA ShapeConnect ==
  ASSUME Shape, NEW t \in Tasks, Connect(t)
  PROVE  Shape'
<1>0. LocalsOK(task[t], Created) /\ task[t] \in Task
  BY DEF Shape, LocalsOK
<1>1. CASE ConnectLookup(t)
  <2>1. CASE Goto(t, "auth") BY <1>1, <2>1, GotoShape DEF ConnectLookup
  <2>2. CASE Goto(t, "register") BY <1>1, <2>2, GotoShape DEF ConnectLookup
  <2>3. CASE Return(t) BY <1>1, <2>3, ReturnShape DEF ConnectLookup
  <2> QED BY <1>1, <2>1, <2>2, <2>3 DEF ConnectLookup
<1>2. CASE ConnectAuth(t)
  BY <1>2, GotoShape, ReturnShape DEF ConnectAuth
<1>3. CASE ConnectRegister(t)
  <2>1. PICK s \in Sockets :
          /\ engineOf[s] = None
          /\ engineOf' = [engineOf EXCEPT ![s] = task[t].eng]
          /\ nsOf' = [nsOf EXCEPT ![s] = task[t].ns]
          /\ rooms' = [rooms EXCEPT ![s] = {s}]
          /\ senders' = senders \cup {s}
          /\ Set(t, [task[t] EXCEPT !.pc = "join", !.sock = s])
    BY <1>3 DEF ConnectRegister
  <2>2. task[t].eng \in Engines /\ task[t].ns \in Namespaces
    BY <1>0, <1>3 DEF LocalsOK, ConnectRegister
  <2>3. Created' = Created \cup {s}
    BY <2>1, <2>2, NoneAssumption DEF Created, Shape, MapsOK
  <2>4. MapsOK'
    BY <1>3, <2>1, <2>2, <2>3 DEF ConnectRegister, Shape, MapsOK, RoomNames, ids, stores, handlers, history
  <2>5. LocalsOK([task[t] EXCEPT !.pc = "join", !.sock = s], Created')
    <3> DEFINE m == [task[t] EXCEPT !.pc = "join", !.sock = s]
    <3>1. task[t].op = "connect" /\ At(t, "register")
      BY <1>0, <1>3 DEF LocalsOK, ConnectRegister
    <3>2. m \in Task
      BY <1>0 DEF Task
    <3>3. /\ m.pc = "join" /\ m.sock = s /\ m.op = "connect" /\ m.eng = task[t].eng
          /\ m.ns = task[t].ns /\ m.call = task[t].call /\ m.room = task[t].room
          /\ m.todo = task[t].todo
      BY <1>0, <3>1 DEF Task
    <3> QED BY <1>0, <2>2, <2>3, <3>2, <3>3 DEF LocalsOK
  <2> QED BY <2>1, <2>3, <2>4, <2>5, SetShape
<1>4. CASE OutOfIds(t)
  BY <1>4, ReturnShape DEF OutOfIds
<1>5. CASE ConnectJoin(t)
  <2>1. Created' = Created /\ MapsOK'
    BY <1>0, <1>5 DEF ConnectJoin, Shape, MapsOK, LocalsOK, Created, RoomNames, ids, stores, handlers, history
  <2>2. LocalsOK([task[t] EXCEPT !.pc = "publish"], Created')
    BY <1>0, <1>5, <2>1, GotoOK DEF ConnectJoin
  <2> QED BY <1>5, <2>1, <2>2, SetShape DEF ConnectJoin, Goto
<1>6. CASE ConnectPublish(t)
  <2>1. Created' = Created /\ MapsOK'
    BY <1>0, <1>6 DEF ConnectPublish, Shape, MapsOK, LocalsOK, Created, ids, adapter, handlers, history
  <2>2. LocalsOK([task[t] EXCEPT !.pc = "greet"], Created')
    BY <1>0, <1>6, <2>1, GotoOK DEF ConnectPublish
  <2> QED BY <1>6, <2>1, <2>2, SetShape DEF ConnectPublish, Goto
<1>7. CASE ConnectGreet(t)
  BY <1>7, GotoShape DEF ConnectGreet
<1> QED BY <1>1, <1>2, <1>3, <1>4, <1>5, <1>6, <1>7 DEF Connect

LEMMA ShapeEvent ==
  ASSUME Shape, NEW t \in Tasks, Event(t)
  PROVE  Shape'
<1>0. LocalsOK(task[t], Created)
  BY DEF Shape
<1>1. CASE Find(t)
  <2>1. CASE SocketsOf(task[t].eng, task[t].ns) = {}
    BY <1>1, <2>1, ReturnShape DEF Find
  <2>2. CASE SocketsOf(task[t].eng, task[t].ns) # {}
    <3> DEFINE label == IF task[t].op = "event" THEN "handler" ELSE "read"
    <3>1. PICK s \in SocketsOf(task[t].eng, task[t].ns) :
            Set(t, [task[t] EXCEPT !.sock = s, !.pc = label])
      BY <1>1, <2>2 DEF Find
    <3>2. s \in Created
      BY DEF SocketsOf, Shape, MapsOK
    <3>3. /\ label \in {"handler", "read"}
          /\ label = "read" => task[t].op = "disconnect"
          /\ label = "handler" => task[t].op = "event"
      BY <1>0, <1>1 DEF Find, LocalsOK
    <3> HIDE DEF label
    <3>4. LocalsOK([task[t] EXCEPT !.sock = s, !.pc = label], Created)
      BY <1>0, <3>2, <3>3, SockOK DEF Created
    <3> QED BY <1>1, <3>1, <3>4, QuietShape DEF Find
  <2> QED BY <2>1, <2>2
<1>2. CASE EventHandler(t)
  <2>1. (task[t].sock \in onEvent) \in BOOLEAN
    OBVIOUS
  <2>2. LocalsOK([task[t] EXCEPT !.found = task[t].sock \in onEvent, !.pc = "socket"], Created)
    <3>1. task[t].op = "event"
      BY <1>0, <1>2 DEF EventHandler, LocalsOK
    <3> QED BY <1>0, <1>2, <2>1, <3>1, FoundOK DEF EventHandler
  <2> QED BY <1>2, <2>2, QuietShape DEF EventHandler
<1>3. CASE EventSocket(t)
  <2>1. CASE Goto(t, "user") BY <1>3, <2>1, GotoShape DEF EventSocket
  <2>2. CASE Return(t) BY <1>3, <2>2, ReturnShape DEF EventSocket
  <2> QED BY <1>3, <2>1, <2>2 DEF EventSocket
<1> QED BY <1>1, <1>2, <1>3 DEF Event

LEMMA ShapeCloseSteps ==
  ASSUME Shape, NEW t \in Tasks, CloseSteps(t)
  PROVE  Shape'
<1>0. LocalsOK(task[t], Created)
  BY DEF Shape
<1>1. CASE CloseCollect(t)
  <2> DEFINE own == {s \in sockets : engineOf[s] = task[t].eng}
  <2>1. own \subseteq Created
    BY DEF Shape, MapsOK
  <2>2. LocalsOK([task[t] EXCEPT !.pc = "next", !.todo = own], Created)
    BY <1>0, <1>1, <2>1, ZenonT(30) DEF CloseCollect, LocalsOK, Task, Created
  <2> QED BY <1>1, <2>2, QuietShape DEF CloseCollect
<1>2. CASE CloseNext(t)
  <2>1. PICK s \in task[t].todo :
          Set(t, [task[t] EXCEPT !.pc = "read", !.sock = s, !.todo = @ \ {s}])
    BY <1>2 DEF CloseNext
  <2>2. LocalsOK([task[t] EXCEPT !.pc = "read", !.sock = s, !.todo = @ \ {s}], Created)
    BY <1>0, <1>2, ZenonT(30) DEF CloseNext, LocalsOK, Task, Created
  <2> QED BY <1>2, <2>1, <2>2, QuietShape DEF CloseNext
<1>3. CASE CloseSession(t)
  <2>1. Created' = Created /\ MapsOK'
    BY <1>3 DEF CloseSession, Shape, MapsOK, Created, ids, adapter, handlers, history
  <2> QED BY <1>3, <2>1, IdleOK, SetShape DEF CloseSession, Return
<1> QED BY <1>1, <1>2, <1>3 DEF CloseSteps

LEMMA ShapeCleanup ==
  ASSUME Shape, NEW t \in Tasks, Cleanup(t)
  PROVE  Shape'
<1>0. LocalsOK(task[t], Created)
  BY DEF Shape
<1>a. task[t].pc \in CleanupPositions => task[t].op \in {"disconnect", "close"}
  BY <1>0 DEF LocalsOK
<1>1. CASE CleanRead(t)
  <2>1. (task[t].sock \in onDisc) \in BOOLEAN
    OBVIOUS
  <2>2. LocalsOK([task[t] EXCEPT !.found = task[t].sock \in onDisc, !.pc = "take"], Created)
    BY <1>0, <1>a, <1>1, <2>1, FoundOK DEF CleanRead
  <2> QED BY <1>1, <2>2, QuietShape DEF CleanRead
<1>2. CASE CleanTake(t)
  <2>1. Created' = Created /\ MapsOK'
    BY <1>2 DEF CleanTake, Shape, MapsOK, Created, ids, adapter, handlers, history
  <2>2. AfterTake(t) \in {"leave_all", "call", "snapshot"}
    BY DEF AfterTake
  <2>3. LocalsOK([task[t] EXCEPT !.pc = AfterTake(t)], Created')
    BY <1>0, <1>a, <1>2, <2>1, <2>2, GotoOK DEF CleanTake
  <2> QED BY <1>2, <2>1, <2>3, SetShape DEF CleanTake, Goto
<1>3. CASE CleanCall(t)
  <2>0. discRuns' \in [Sockets -> Nat]
    <3>1. task[t].sock \in Sockets
      BY <1>0, <1>3 DEF CleanCall, LocalsOK, Created
    <3> QED BY <1>3, <3>1 DEF CleanCall, Shape, MapsOK
  <2>1. Created' = Created /\ MapsOK'
    BY <1>3, <2>0 DEF CleanCall, Shape, MapsOK, Created, ids, stores, adapter, handlers
  <2>2. LocalsOK([task[t] EXCEPT !.pc = "user"], Created')
    BY <1>0, <1>3, <2>1, GotoOK DEF CleanCall
  <2> QED BY <1>3, <2>1, <2>2, SetShape DEF CleanCall, Goto
<1>4. CASE CleanSnapshot(t)
  <2>1. rooms[task[t].sock] \subseteq RoomNames
    BY <1>0, <1>4 DEF CleanSnapshot, Shape, MapsOK, LocalsOK, Created
  <2>2. LocalsOK([task[t] EXCEPT !.left = rooms[task[t].sock], !.pc = "leaving"], Created)
    BY <1>0, <1>4, <2>1, ZenonT(30) DEF CleanSnapshot, LocalsOK, Task
  <2> QED BY <1>4, <2>2, QuietShape DEF CleanSnapshot
<1>5. CASE CleanLeave(t)
  <2>1. PICK r \in task[t].left :
          /\ members' = members \ {<<nsOf[task[t].sock], r, task[t].sock>>}
          /\ Set(t, [task[t] EXCEPT !.left = @ \ {r}])
    BY <1>5 DEF CleanLeave
  <2>2. Created' = Created /\ MapsOK'
    BY <1>5, <2>1 DEF CleanLeave, Shape, MapsOK, Created, ids, stores, handlers, history
  <2>3. LocalsOK([task[t] EXCEPT !.left = @ \ {r}], Created')
    BY <1>0, <1>5, <2>2 DEF CleanLeave, LocalsOK, Task
  <2> QED BY <2>1, <2>2, <2>3, SetShape
<1>6. CASE CleanClear(t)
  <2>1. Created' = Created /\ MapsOK'
    BY <1>6 DEF CleanClear, Shape, MapsOK, Created, ids, stores, adapter, handlers, history
  <2>2. LocalsOK([task[t] EXCEPT !.pc = "leave_all"], Created')
    BY <1>0, <1>a, <1>6, <2>1, GotoOK DEF CleanClear
  <2> QED BY <1>6, <2>1, <2>2, SetShape DEF CleanClear, Goto
<1>7. CASE CleanLeaveAll(t)
  <2>1. Created' = Created /\ MapsOK'
    BY <1>7 DEF CleanLeaveAll, Shape, MapsOK, Created, ids, stores, handlers, history
  <2>2. LocalsOK([task[t] EXCEPT !.pc = "unregister"], Created')
    BY <1>0, <1>a, <1>7, <2>1, GotoOK DEF CleanLeaveAll
  <2> QED BY <1>7, <2>1, <2>2, SetShape DEF CleanLeaveAll, Goto
<1>8. CASE CleanUnregister(t)
  <2>1. Created' = Created /\ MapsOK'
    BY <1>8 DEF CleanUnregister, Shape, MapsOK, Created, ids, stores, handlers, history
  <2>2. LocalsOK([task[t] EXCEPT !.pc = "forget"], Created')
    BY <1>0, <1>a, <1>8, <2>1, GotoOK DEF CleanUnregister
  <2> QED BY <1>8, <2>1, <2>2, SetShape DEF CleanUnregister, Goto
<1>9. CASE CleanForget(t)
  <2>1. Created' = Created /\ MapsOK'
    BY <1>9 DEF CleanForget, Shape, MapsOK, Created, ids, stores, adapter, history
  <2>2. CASE task[t].op = "close"
    <3>1. LocalsOK([task[t] EXCEPT !.pc = "next"], Created')
      BY <1>0, <2>1, <2>2, GotoOK
    <3> QED BY <1>9, <2>1, <2>2, <3>1, SetShape DEF CleanForget, Goto
  <2>3. CASE task[t].op # "close"
    BY <1>9, <2>1, <2>3, IdleOK, SetShape DEF CleanForget, Return
  <2> QED BY <2>2, <2>3
<1> QED BY <1>1, <1>2, <1>3, <1>4, <1>5, <1>6, <1>7, <1>8, <1>9 DEF Cleanup

LEMMA ShapeUserAdapter ==
  ASSUME Shape, NEW t \in Tasks, UserAdapter(t)
  PROVE  Shape'
<1>1. LocalsOK(task[t], Created)
  BY DEF Shape
<1>2. task[t].sock \in Created /\ task[t].room \in RoomNames /\ nsOf[task[t].sock] \in Namespaces
  BY <1>1 DEF UserAdapter, Shape, MapsOK, LocalsOK
<1>3. Created' = Created
  BY DEF UserAdapter, Created, ids
<1>4. members' \subseteq Namespaces \X RoomNames \X Sockets
  BY <1>2 DEF UserAdapter, Shape, MapsOK, Created
<1>5. MapsOK'
  BY <1>3, <1>4 DEF UserAdapter, Shape, MapsOK, ids, stores, handlers, history
<1>6. LocalsOK([task[t] EXCEPT !.call = "none", !.room = None], Created')
  BY <1>1, <1>3, ZenonT(30) DEF UserAdapter, LocalsOK, Task
<1> QED BY <1>3, <1>5, <1>6, SetShape DEF UserAdapter

LEMMA ShapeUser ==
  ASSUME Shape, NEW t \in Tasks, User(t)
  PROVE  Shape'
<1>0. LocalsOK(task[t], Created)
  BY DEF Shape
<1>1. InUser(t) => task[t].sock \in Created
  BY <1>0 DEF InUser, LocalsOK
<1>2. CASE UserOn(t) \/ UserOnDisconnect(t)
  <2>1. Created' = Created /\ task' = task
    BY <1>2 DEF UserOn, UserOnDisconnect, Created, ids
  <2>2. MapsOK'
    BY <1>1, <1>2, <2>1 DEF UserOn, UserOnDisconnect, Shape, MapsOK, Created,
                            ids, stores, adapter, history
  <2> QED BY <2>1, <2>2 DEF Shape
<1>3. ASSUME NEW r \in Rooms, UserJoin(t, r) \/ UserLeave(t, r)
      PROVE  Shape'
  <2>1. Created' = Created
    BY <1>3 DEF UserJoin, UserLeave, Created, ids
  <2>2. rooms' \in [Sockets -> SUBSET RoomNames]
    BY <1>1, <1>3 DEF UserJoin, UserLeave, Shape, MapsOK, Created, RoomNames
  <2>3. MapsOK'
    BY <1>3, <2>1, <2>2 DEF UserJoin, UserLeave, Shape, MapsOK, ids, stores, adapter,
                            handlers, history
  <2>4. r \in RoomNames
    BY DEF RoomNames
  <2>5. ASSUME NEW c \in {"join", "leave"}
        PROVE  LocalsOK([task[t] EXCEPT !.call = c, !.room = r], Created')
    BY <1>0, <2>1, <2>4, CallOK
  <2> QED BY <1>3, <2>1, <2>3, <2>5, SetShape DEF UserJoin, UserLeave
<1>4. CASE UserReturn(t)
  <2>1. CASE Goto(t, "snapshot") /\ Cleaning(t)
    BY <1>4, <2>1, GotoShape DEF UserReturn, InUser, Cleaning
  <2>2. CASE Return(t)
    BY <1>4, <2>2, ReturnShape DEF UserReturn
  <2> QED BY <1>4, <2>1, <2>2 DEF UserReturn
<1>5. CASE UserPanic(t)
  <2>0. abandoned' \subseteq Sockets
    BY <1>0, <1>5 DEF UserPanic, Cleaning, InUser, Shape, MapsOK, LocalsOK, Created
  <2>1. Created' = Created /\ MapsOK'
    BY <1>5, <2>0 DEF UserPanic, Shape, MapsOK, Created, ids, stores, adapter, handlers
  <2> QED BY <1>5, <2>1, IdleOK, SetShape DEF UserPanic, Return
<1> QED BY <1>2, <1>3, <1>4, <1>5 DEF User

LEMMA ShapeStart ==
  ASSUME Shape, NEW t \in Tasks, Start(t)
  PROVE  Shape'
<1>1. ASSUME NEW e \in Engines, Close(t, e)
      PROVE  Shape'
  <2>1. LocalsOK([Idle EXCEPT !.op = "close", !.pc = "collect", !.eng = e], Created)
    BY DEF LocalsOK, Idle, Task
  <2> QED BY <1>1, <2>1, QuietShape DEF Close
<1>2. ASSUME NEW e \in Engines, NEW n \in Namespaces, Receive(t, e, n)
      PROVE  Shape'
  <2>1. LocalsOK([Idle EXCEPT !.op = "connect", !.pc = "lookup", !.eng = e, !.ns = n], Created)
    BY DEF LocalsOK, Idle, Task
  <2>2. ASSUME NEW op \in {"event", "disconnect"}
        PROVE  LocalsOK([Idle EXCEPT !.op = op, !.pc = "find", !.eng = e, !.ns = n], Created)
    BY DEF LocalsOK, Idle, Task
  <2> QED BY <1>2, <2>1, <2>2, QuietShape DEF Receive
<1> QED BY <1>1, <1>2 DEF Start

LEMMA ShapeOpen ==
  ASSUME Shape, NEW e \in Engines, Open(e)
  PROVE  Shape'
  BY DEF Open, Shape, MapsOK, LocalsOK, Created, adapter, handlers, history

LEMMA ShapeNext == Shape /\ [Next]_vars => Shape'
<1> SUFFICES ASSUME Shape, [Next]_vars PROVE Shape'
  OBVIOUS
<1>1. CASE UNCHANGED vars
  BY <1>1 DEF vars, maps, ids, stores, adapter, handlers, history, Shape, MapsOK, Created
<1>2. ASSUME NEW e \in Engines, Open(e) PROVE Shape'
  BY <1>2, ShapeOpen
<1>3. ASSUME NEW t \in Tasks, Start(t) \/ Step(t) \/ User(t) PROVE Shape'
  BY <1>3, ShapeStart, ShapeConnect, ShapeEvent, ShapeCloseSteps, ShapeCleanup,
     ShapeUserAdapter, ShapeUser DEF Step
<1> QED BY <1>1, <1>2, <1>3 DEF Next

THEOREM ShapeInvariant == Spec => []Shape
  BY ShapeInit, ShapeNext, PTL DEF Spec

\* The maps and the locals of every task are well typed, in any run of the
\* registry: in particular no handler stores the socket it does not have yet.
THEOREM TypeInvariant == Spec => []TypeOK
  BY ShapeInvariant, ShapeTypeOK, PTL

-----------------------------------------------------------------------------
(***************************************************************************)
(* Who owns a socket.  A task that brings a socket up owns it alone until  *)
(* it publishes it; a published socket is owned by the registry; the task  *)
(* that takes it out owns its cleanup, and only that task may be about to  *)
(* call the disconnect handler.                                            *)
(***************************************************************************)
Connects(l) == l.pc \in {"join", "publish"}

Cleans(l) == \/ l.pc \in {"call", "snapshot", "leaving", "leave_all", "unregister", "forget"}
             \/ l.pc = "user" /\ l.op \in {"disconnect", "close"}

\* No other task has heard of the socket that task t brings up.
ConnectingIsPrivate ==
  \A t \in Tasks : Connects(task[t]) =>
    /\ task[t].sock \notin sockets /\ task[t].sock \in senders
    /\ discRuns[task[t].sock] = 0
    /\ \A u \in Tasks \ {t} : task[u].sock # task[t].sock /\ task[t].sock \notin task[u].todo

CleanedIsGone == \A t \in Tasks : Cleans(task[t]) => task[t].sock \notin sockets

CallerIsOnly ==
  \A t \in Tasks : task[t].pc = "call" =>
    /\ discRuns[task[t].sock] = 0
    /\ \A u \in Tasks \ {t} : task[u].pc = "call" => task[u].sock # task[t].sock

OpenIsWhole == \A s \in sockets : s \in senders /\ discRuns[s] = 0

RunsBounded == \A s \in Sockets : discRuns[s] <= 1 /\ (s \notin Created => discRuns[s] = 0)

Ownership == ConnectingIsPrivate /\ CleanedIsGone /\ CallerIsOnly /\ OpenIsWhole /\ RunsBounded

LEMMA OwnershipInit == Init => Ownership
  BY DEF Init, Ownership, ConnectingIsPrivate, CleanedIsGone, CallerIsOnly, OpenIsWhole,
         RunsBounded, Idle, Connects, Cleans

\* The facts of a step of task t to the locals l.
LEMMA SetTask ==
  ASSUME Shape, NEW t \in Tasks, NEW l, Set(t, l)
  PROVE  task'[t] = l /\ \A u \in Tasks \ {t} : task'[u] = task[u]
  BY DEF Shape, Set

\* A step that changes no ownership: t does not begin to connect, to clean or
\* to call, and any socket it takes up was already published or on its list.
LEMMA QuietOwnership ==
  ASSUME Shape, Ownership, NEW t \in Tasks, NEW l, Set(t, l),
         UNCHANGED <<sockets, senders, discRuns, engineOf>>,
         Connects(l) => Connects(task[t]) /\ l.sock = task[t].sock,
         Cleans(l) => Cleans(task[t]) /\ l.sock = task[t].sock,
         l.pc # "call",
         l.sock \in {task[t].sock, None} \cup sockets \cup task[t].todo,
         l.todo \subseteq task[t].todo \cup sockets
  PROVE  Ownership'
<1>1. task'[t] = l /\ \A u \in Tasks \ {t} : task'[u] = task[u]
  BY SetTask
<1>2. \A u \in Tasks : Connects(task[u]) => task[u].sock \in Created
  BY DEF Shape, LocalsOK, Connects
<1>3. ASSUME NEW u \in Tasks, Connects(task'[u])
      PROVE  Connects(task[u]) /\ task'[u].sock = task[u].sock
  BY <1>1, <1>3
<1>4. ASSUME NEW u \in Tasks, Connects(task'[u]), NEW v \in Tasks \ {u}
      PROVE  task'[v].sock # task'[u].sock /\ task'[u].sock \notin task'[v].todo
  <2>1. /\ task[u].sock \notin sockets /\ task[u].sock # None
        /\ task[v].sock # task[u].sock /\ task[u].sock \notin task[v].todo
    BY <1>2, <1>3, <1>4, NoneAssumption DEF Ownership, ConnectingIsPrivate, Created
  <2> QED BY <1>1, <1>3, <1>4, <2>1
<1>5. ConnectingIsPrivate'
  BY <1>3, <1>4 DEF Ownership, ConnectingIsPrivate
<1>6. CleanedIsGone'
  BY <1>1 DEF Ownership, CleanedIsGone
<1>7. CallerIsOnly'
  BY <1>1 DEF Ownership, CallerIsOnly
<1>8. OpenIsWhole' /\ RunsBounded'
  BY DEF Ownership, OpenIsWhole, RunsBounded, Created
<1> QED BY <1>5, <1>6, <1>7, <1>8 DEF Ownership

\* The same for a step that only moves t to another label.
LEMMA GotoOwnership ==
  ASSUME Shape, Ownership, NEW t \in Tasks, NEW label \in Positions \ {"call"}, Goto(t, label),
         UNCHANGED <<sockets, senders, discRuns, engineOf>>,
         label \in {"join", "publish"} => Connects(task[t]),
         Cleans([task[t] EXCEPT !.pc = label]) => Cleans(task[t])
  PROVE  Ownership'
<1> DEFINE l == [task[t] EXCEPT !.pc = label]
<1>1. l.pc = label /\ l.sock = task[t].sock /\ l.todo = task[t].todo
  BY DEF Shape, Task
<1> QED BY <1>1, QuietOwnership DEF Goto, Connects

LEMMA ReturnOwnership ==
  ASSUME Shape, Ownership, NEW t \in Tasks, Return(t),
         UNCHANGED <<sockets, senders, discRuns, engineOf>>
  PROVE  Ownership'
<1>1. Idle.pc = "idle" /\ Idle.sock = None /\ Idle.todo = {}
  BY DEF Idle
<1>2. ~Connects(Idle) /\ ~Cleans(Idle)
  BY <1>1 DEF Connects, Cleans
<1> QED BY <1>1, <1>2, QuietOwnership DEF Return

LEMMA OwnershipRegister ==
  ASSUME Shape, Ownership, NEW t \in Tasks, ConnectRegister(t)
  PROVE  Ownership'
<1> DEFINE l(s) == [task[t] EXCEPT !.pc = "join", !.sock = s]
<1>1. PICK s \in Sockets : /\ engineOf[s] = None
                           /\ engineOf' = [engineOf EXCEPT ![s] = task[t].eng]
                           /\ senders' = senders \cup {s}
                           /\ Set(t, l(s))
  BY DEF ConnectRegister
<1>2. UNCHANGED <<sockets, discRuns>>
  BY DEF ConnectRegister, stores, history
<1>3. l(s).pc = "join" /\ l(s).sock = s /\ l(s).todo = task[t].todo
  BY DEF Shape, Task
<1>4. task'[t] = l(s) /\ \A u \in Tasks \ {t} : task'[u] = task[u]
  BY <1>1, SetTask
<1> HIDE DEF l
<1>5. s \notin Created /\ s \notin sockets /\ discRuns[s] = 0
  BY <1>1 DEF Created, Shape, MapsOK, Ownership, RunsBounded
<1>6. \A u \in Tasks : task[u].sock # s /\ s \notin task[u].todo
  BY <1>5, NoneAssumption DEF Shape, LocalsOK
<1>7. Created' = Created \cup {s}
  <2>1. task[t].eng \in Engines
    BY DEF ConnectRegister, Shape, LocalsOK
  <2> QED BY <1>1, <2>1, NoneAssumption DEF Created, Shape, MapsOK
<1>8. ConnectingIsPrivate'
  <2>1. ASSUME NEW u \in Tasks, Connects(task'[u])
        PROVE  /\ task'[u].sock \notin sockets' /\ task'[u].sock \in senders'
               /\ discRuns'[task'[u].sock] = 0
    <3>1. CASE u = t
      BY <1>1, <1>2, <1>3, <1>4, <1>5, <3>1
    <3>2. CASE u # t
      BY <1>1, <1>2, <1>4, <2>1, <3>2 DEF Ownership, ConnectingIsPrivate
    <3> QED BY <3>1, <3>2
  <2>2. ASSUME NEW u \in Tasks, Connects(task'[u]), NEW v \in Tasks \ {u}
        PROVE  task'[v].sock # task'[u].sock /\ task'[u].sock \notin task'[v].todo
    <3>1. CASE u = t
      BY <1>3, <1>4, <1>6, <3>1
    <3>2. CASE u # t /\ v = t
      <4>1. task[u].sock # s /\ task[u].sock \notin task[t].todo
        BY <1>4, <1>6, <2>2, <3>2 DEF Ownership, ConnectingIsPrivate
      <4> QED BY <1>3, <1>4, <3>2, <4>1
    <3>3. CASE u # t /\ v # t
      BY <1>4, <2>2, <3>3 DEF Ownership, ConnectingIsPrivate
    <3> QED BY <3>1, <3>2, <3>3
  <2> QED BY <2>1, <2>2 DEF ConnectingIsPrivate
<1>9. CleanedIsGone' /\ CallerIsOnly'
  BY <1>2, <1>3, <1>4 DEF Ownership, CleanedIsGone, CallerIsOnly, Cleans
<1>10. OpenIsWhole' /\ RunsBounded'
  BY <1>1, <1>2, <1>7 DEF Ownership, OpenIsWhole, RunsBounded
<1> QED BY <1>8, <1>9, <1>10 DEF Ownership

LEMMA OwnershipPublish ==
  ASSUME Shape, Ownership, NEW t \in Tasks, ConnectPublish(t)
  PROVE  Ownership'
<1> DEFINE s == task[t].sock
           l == [task[t] EXCEPT !.pc = "greet"]
<1>1. sockets' = sockets \cup {s} /\ UNCHANGED <<senders, discRuns, engineOf>>
  BY DEF ConnectPublish, ids, adapter, history
<1>2. l.pc = "greet" /\ l.sock = s /\ l.todo = task[t].todo
  BY DEF Shape, Task
<1>3. task'[t] = l /\ \A u \in Tasks \ {t} : task'[u] = task[u]
  BY SetTask DEF ConnectPublish, Goto
<1> HIDE DEF l
<1>4. Connects(task[t])
  BY DEF ConnectPublish, Connects
<1>5. /\ s \in senders /\ discRuns[s] = 0
      /\ \A u \in Tasks \ {t} : task[u].sock # s
  BY <1>4 DEF Ownership, ConnectingIsPrivate
<1>6. ConnectingIsPrivate'
  <2>1. ASSUME NEW u \in Tasks, Connects(task'[u])
        PROVE  u # t /\ task'[u] = task[u]
    BY <1>2, <1>3, <2>1 DEF Connects
  <2>2. ASSUME NEW u \in Tasks, Connects(task'[u]), NEW v \in Tasks \ {u}
        PROVE  task'[v].sock # task'[u].sock /\ task'[u].sock \notin task'[v].todo
    BY <1>2, <1>3, <2>1, <2>2 DEF Ownership, ConnectingIsPrivate
  <2> QED BY <1>1, <1>5, <2>1, <2>2 DEF Ownership, ConnectingIsPrivate
<1>7. CleanedIsGone'
  BY <1>1, <1>2, <1>3, <1>5 DEF Ownership, CleanedIsGone, Cleans
<1>8. CallerIsOnly'
  BY <1>1, <1>2, <1>3 DEF Ownership, CallerIsOnly
<1>9. OpenIsWhole' /\ RunsBounded'
  BY <1>1, <1>5 DEF Ownership, OpenIsWhole, RunsBounded, Created
<1> QED BY <1>6, <1>7, <1>8, <1>9 DEF Ownership

\* Whoever takes the socket out is the only one that may go on to the call.
LEMMA OwnershipTake ==
  ASSUME Shape, Ownership, NEW t \in Tasks, CleanTake(t)
  PROVE  Ownership'
<1> DEFINE s == task[t].sock
           l == [task[t] EXCEPT !.pc = AfterTake(t)]
<1>1. sockets' = sockets \ {s} /\ UNCHANGED <<senders, discRuns, engineOf>>
  BY DEF CleanTake, ids, adapter, history
<1>2. /\ l.pc \in {"leave_all", "call", "snapshot"} /\ l.sock = s /\ l.todo = task[t].todo
      /\ l.pc = "call" => s \in sockets
  BY DEF Shape, Task, AfterTake
<1>3. task'[t] = l /\ \A u \in Tasks \ {t} : task'[u] = task[u]
  BY SetTask DEF CleanTake, Goto
<1> HIDE DEF l
<1>4. ConnectingIsPrivate'
  <2>1. ASSUME NEW u \in Tasks, Connects(task'[u])
        PROVE  u # t /\ task'[u] = task[u]
    BY <1>2, <1>3, <2>1 DEF Connects
  <2>2. ASSUME NEW u \in Tasks, Connects(task'[u]), NEW v \in Tasks \ {u}
        PROVE  task'[v].sock # task'[u].sock /\ task'[u].sock \notin task'[v].todo
    BY <1>2, <1>3, <2>1, <2>2 DEF Ownership, ConnectingIsPrivate
  <2> QED BY <1>1, <2>1, <2>2 DEF Ownership, ConnectingIsPrivate
<1>5. CleanedIsGone'
  BY <1>1, <1>2, <1>3 DEF Ownership, CleanedIsGone
<1>6. CallerIsOnly'
  <2>1. ASSUME s \in sockets
        PROVE  discRuns[s] = 0 /\ \A u \in Tasks : task[u].pc = "call" => task[u].sock # s
    BY <2>1 DEF Ownership, OpenIsWhole, CleanedIsGone, Cleans
  <2>2. ASSUME NEW u \in Tasks, task'[u].pc = "call"
        PROVE  discRuns[task'[u].sock] = 0
    BY <1>2, <1>3, <2>1, <2>2 DEF Ownership, CallerIsOnly
  <2>3. ASSUME NEW u \in Tasks, task'[u].pc = "call", NEW v \in Tasks \ {u}, task'[v].pc = "call"
        PROVE  task'[v].sock # task'[u].sock
    <3>1. CASE u # t /\ v # t
      BY <1>3, <2>3, <3>1 DEF Ownership, CallerIsOnly
    <3>2. CASE u = t
      BY <1>2, <1>3, <2>1, <2>3, <3>2
    <3>3. CASE v = t
      BY <1>2, <1>3, <2>1, <2>3, <3>3
    <3> QED BY <3>1, <3>2, <3>3
  <2> QED BY <1>1, <2>2, <2>3 DEF CallerIsOnly
<1>7. OpenIsWhole' /\ RunsBounded'
  BY <1>1 DEF Ownership, OpenIsWhole, RunsBounded, Created
<1> QED BY <1>4, <1>5, <1>6, <1>7 DEF Ownership

LEMMA OwnershipCall ==
  ASSUME Shape, Ownership, NEW t \in Tasks, CleanCall(t)
  PROVE  Ownership'
<1> DEFINE s == task[t].sock
           l == [task[t] EXCEPT !.pc = "user"]
<1>1. /\ UNCHANGED <<sockets, senders, engineOf>>
      /\ discRuns' = [discRuns EXCEPT ![s] = @ + 1]
  BY DEF CleanCall, ids, stores, adapter
<1>2. l.pc = "user" /\ l.sock = s /\ l.todo = task[t].todo
  BY DEF Shape, Task
<1>3. task'[t] = l /\ \A u \in Tasks \ {t} : task'[u] = task[u]
  BY SetTask DEF CleanCall, Goto
<1> HIDE DEF l
<1>4. /\ task[t].pc = "call" /\ Cleans(task[t]) /\ s \in Created /\ s \in Sockets
  BY DEF CleanCall, Cleans, Shape, LocalsOK, Created
<1>5. discRuns'[s] = 1 /\ \A x \in Sockets \ {s} : discRuns'[x] = discRuns[x]
  BY <1>1, <1>4 DEF Shape, MapsOK, Ownership, CallerIsOnly
<1>6. s \notin sockets /\ \A u \in Tasks \ {t} : Connects(task[u]) => task[u].sock # s
  BY <1>4 DEF Ownership, CleanedIsGone, ConnectingIsPrivate
<1>7. \A u \in Tasks : Connects(task[u]) \/ task[u].pc = "call" => task[u].sock \in Sockets
  BY DEF Shape, LocalsOK, Connects, Created
<1>8. ConnectingIsPrivate'
  <2>1. ASSUME NEW u \in Tasks, Connects(task'[u])
        PROVE  u # t /\ task'[u] = task[u]
    BY <1>2, <1>3, <2>1 DEF Connects
  <2>2. ASSUME NEW u \in Tasks, Connects(task'[u]), NEW v \in Tasks \ {u}
        PROVE  task'[v].sock # task'[u].sock /\ task'[u].sock \notin task'[v].todo
    BY <1>2, <1>3, <2>1, <2>2 DEF Ownership, ConnectingIsPrivate
  <2>3. ASSUME NEW u \in Tasks, Connects(task'[u])
        PROVE  discRuns'[task'[u].sock] = 0
    BY <1>5, <1>6, <1>7, <2>1, <2>3 DEF Ownership, ConnectingIsPrivate
  <2> QED BY <1>1, <2>1, <2>2, <2>3 DEF Ownership, ConnectingIsPrivate
<1>9. CleanedIsGone'
  BY <1>1, <1>2, <1>3, <1>4 DEF Ownership, CleanedIsGone
<1>10. CallerIsOnly'
  <2>1. ASSUME NEW u \in Tasks, task'[u].pc = "call"
        PROVE  u # t /\ task'[u] = task[u] /\ task[u].sock # s
    BY <1>2, <1>3, <1>4, <2>1 DEF Ownership, CallerIsOnly
  <2> QED BY <1>3, <1>5, <1>7, <2>1 DEF Ownership, CallerIsOnly
<1>11. OpenIsWhole' /\ RunsBounded'
  BY <1>1, <1>4, <1>5, <1>6 DEF Ownership, OpenIsWhole, RunsBounded, Shape, MapsOK, Created
<1> QED BY <1>8, <1>9, <1>10, <1>11 DEF Ownership

LEMMA OwnershipUnregister ==
  ASSUME Shape, Ownership, NEW t \in Tasks, CleanUnregister(t)
  PROVE  Ownership'
<1> DEFINE s == task[t].sock
           l == [task[t] EXCEPT !.pc = "forget"]
<1>1. UNCHANGED <<sockets, discRuns, engineOf>> /\ senders' = senders \ {s}
  BY DEF CleanUnregister, ids, stores, history
<1>2. l.pc = "forget" /\ l.sock = s /\ l.todo = task[t].todo
  BY DEF Shape, Task
<1>3. task'[t] = l /\ \A u \in Tasks \ {t} : task'[u] = task[u]
  BY SetTask DEF CleanUnregister, Goto
<1> HIDE DEF l
<1>4. Cleans(task[t]) /\ Cleans(l)
  BY <1>2 DEF CleanUnregister, Cleans
<1>5. s \notin sockets /\ \A u \in Tasks \ {t} : Connects(task[u]) => task[u].sock # s
  BY <1>4 DEF Ownership, CleanedIsGone, ConnectingIsPrivate
<1>6. ConnectingIsPrivate'
  <2>1. ASSUME NEW u \in Tasks, Connects(task'[u])
        PROVE  u # t /\ task'[u] = task[u]
    BY <1>2, <1>3, <2>1 DEF Connects
  <2>2. ASSUME NEW u \in Tasks, Connects(task'[u]), NEW v \in Tasks \ {u}
        PROVE  task'[v].sock # task'[u].sock /\ task'[u].sock \notin task'[v].todo
    BY <1>2, <1>3, <2>1, <2>2 DEF Ownership, ConnectingIsPrivate
  <2> QED BY <1>1, <1>5, <2>1, <2>2 DEF Ownership, ConnectingIsPrivate
<1>7. CleanedIsGone' /\ CallerIsOnly'
  BY <1>1, <1>2, <1>3, <1>4 DEF Ownership, CleanedIsGone, CallerIsOnly
<1>8. OpenIsWhole' /\ RunsBounded'
  BY <1>1, <1>5 DEF Ownership, OpenIsWhole, RunsBounded, Created
<1> QED BY <1>6, <1>7, <1>8 DEF Ownership

LEMMA OwnershipConnect ==
  ASSUME Shape, Ownership, NEW t \in Tasks, Connect(t)
  PROVE  Ownership'
<1>0. task[t].op = "connect" \/ task[t].pc \notin ConnectPositions
  BY DEF Shape, LocalsOK
<1> USE DEF maps, ids, stores, adapter, handlers, history
<1>1. CASE ConnectLookup(t)
  <2>1. UNCHANGED <<sockets, senders, discRuns, engineOf>>
    BY <1>1 DEF ConnectLookup
  <2>2. CASE Return(t)
    BY <2>1, <2>2, ReturnOwnership
  <2>3. ASSUME NEW label \in {"auth", "register"}, Goto(t, label)
        PROVE  Ownership'
    <3>1. ~Cleans([task[t] EXCEPT !.pc = label])
      BY DEF Cleans, Shape, Task
    <3> QED BY <2>1, <2>3, <3>1, GotoOwnership
  <2> QED BY <1>1, <2>2, <2>3 DEF ConnectLookup
<1>2. CASE ConnectAuth(t)
  <2>1. UNCHANGED <<sockets, senders, discRuns, engineOf>>
    BY <1>2 DEF ConnectAuth
  <2>2. ~Cleans([task[t] EXCEPT !.pc = "register"])
    BY DEF Cleans, Shape, Task
  <2> QED BY <1>2, <2>1, <2>2, GotoOwnership, ReturnOwnership DEF ConnectAuth
<1>3. CASE ConnectRegister(t)
  BY <1>3, OwnershipRegister
<1>4. CASE OutOfIds(t)
  BY <1>4, ReturnOwnership DEF OutOfIds
<1>5. CASE ConnectJoin(t)
  <2>1. ~Cleans([task[t] EXCEPT !.pc = "publish"]) /\ Connects(task[t])
    BY <1>5 DEF ConnectJoin, Cleans, Connects, Shape, Task
  <2> QED BY <1>5, <2>1, GotoOwnership DEF ConnectJoin
<1>6. CASE ConnectPublish(t)
  BY <1>6, OwnershipPublish
<1>7. CASE ConnectGreet(t)
  <2>1. ~Cleans([task[t] EXCEPT !.pc = "user"])
    BY <1>0, <1>7 DEF ConnectGreet, Cleans, Shape, Task
  <2> QED BY <1>7, <2>1, GotoOwnership DEF ConnectGreet
<1> QED BY <1>1, <1>2, <1>3, <1>4, <1>5, <1>6, <1>7 DEF Connect

LEMMA OwnershipEvent ==
  ASSUME Shape, Ownership, NEW t \in Tasks, Event(t)
  PROVE  Ownership'
<1> USE DEF maps, ids, stores, adapter, handlers, history
<1>1. CASE Find(t)
  <2>1. UNCHANGED <<sockets, senders, discRuns, engineOf>>
    BY <1>1 DEF Find
  <2>2. CASE Return(t)
    BY <2>1, <2>2, ReturnOwnership
  <2>3. ASSUME NEW s \in SocketsOf(task[t].eng, task[t].ns), NEW label \in {"handler", "read"},
               Set(t, [task[t] EXCEPT !.sock = s, !.pc = label])
        PROVE  Ownership'
    <3> DEFINE l == [task[t] EXCEPT !.sock = s, !.pc = label]
    <3>1. l.sock = s /\ l.pc = label /\ l.todo = task[t].todo /\ s \in sockets
      BY DEF Shape, Task, SocketsOf
    <3>2. ~Cleans(l) /\ ~Connects(l)
      BY <3>1 DEF Cleans, Connects
    <3> QED BY <2>1, <2>3, <3>1, <3>2, QuietOwnership
  <2> QED BY <1>1, <2>2, <2>3 DEF Find
<1>2. CASE EventHandler(t)
  <2> DEFINE l == [task[t] EXCEPT !.found = task[t].sock \in onEvent, !.pc = "socket"]
  <2>1. l.sock = task[t].sock /\ l.pc = "socket" /\ l.todo = task[t].todo
    BY DEF Shape, Task
  <2>2. ~Cleans(l) /\ ~Connects(l)
    BY <2>1 DEF Cleans, Connects
  <2>3. Set(t, l) /\ UNCHANGED <<sockets, senders, discRuns, engineOf>>
    BY <1>2 DEF EventHandler
  <2> HIDE DEF l
  <2> QED BY <2>1, <2>2, <2>3, QuietOwnership
<1>3. CASE EventSocket(t)
  <2>1. UNCHANGED <<sockets, senders, discRuns, engineOf>>
    BY <1>3 DEF EventSocket
  <2>2. ~Cleans([task[t] EXCEPT !.pc = "user"])
    BY <1>3 DEF EventSocket, Cleans, Shape, LocalsOK, Task
  <2> QED BY <1>3, <2>1, <2>2, GotoOwnership, ReturnOwnership DEF EventSocket
<1> QED BY <1>1, <1>2, <1>3 DEF Event

LEMMA OwnershipClose ==
  ASSUME Shape, Ownership, NEW t \in Tasks, CloseSteps(t)
  PROVE  Ownership'
<1> USE DEF maps, ids, stores, adapter, handlers, history
<1>1. CASE CloseCollect(t)
  <2> DEFINE own == {s \in sockets : engineOf[s] = task[t].eng}
             l == [task[t] EXCEPT !.pc = "next", !.todo = own]
  <2>1. l.sock = task[t].sock /\ l.pc = "next" /\ l.todo \subseteq sockets
    BY DEF Shape, Task
  <2>2. ~Cleans(l) /\ ~Connects(l)
    BY <2>1 DEF Cleans, Connects
  <2>3. Set(t, l) /\ UNCHANGED <<sockets, senders, discRuns, engineOf>>
    BY <1>1 DEF CloseCollect
  <2> HIDE DEF l
  <2> QED BY <2>1, <2>2, <2>3, QuietOwnership
<1>2. CASE CloseNext(t)
  <2>1. PICK s \in task[t].todo :
          Set(t, [task[t] EXCEPT !.pc = "read", !.sock = s, !.todo = @ \ {s}])
    BY <1>2 DEF CloseNext
  <2> DEFINE l == [task[t] EXCEPT !.pc = "read", !.sock = s, !.todo = @ \ {s}]
  <2>2. l.sock = s /\ l.pc = "read" /\ l.todo \subseteq task[t].todo
    BY DEF Shape, Task
  <2>3. ~Cleans(l) /\ ~Connects(l)
    BY <2>2 DEF Cleans, Connects
  <2>4. UNCHANGED <<sockets, senders, discRuns, engineOf>>
    BY <1>2 DEF CloseNext
  <2> HIDE DEF l
  <2> QED BY <2>1, <2>2, <2>3, <2>4, QuietOwnership DEF l
<1>3. CASE CloseSession(t)
  BY <1>3, ReturnOwnership DEF CloseSession
<1> QED BY <1>1, <1>2, <1>3 DEF CloseSteps

LEMMA OwnershipCleanup ==
  ASSUME Shape, Ownership, NEW t \in Tasks, Cleanup(t)
  PROVE  Ownership'
<1> USE DEF maps, ids, stores, adapter, handlers, history
<1>1. CASE CleanRead(t)
  <2> DEFINE l == [task[t] EXCEPT !.found = task[t].sock \in onDisc, !.pc = "take"]
  <2>1. l.sock = task[t].sock /\ l.pc = "take" /\ l.todo = task[t].todo
    BY DEF Shape, Task
  <2>2. ~Cleans(l) /\ ~Connects(l)
    BY <2>1 DEF Cleans, Connects
  <2>3. Set(t, l) /\ UNCHANGED <<sockets, senders, discRuns, engineOf>>
    BY <1>1 DEF CleanRead
  <2> HIDE DEF l
  <2> QED BY <2>1, <2>2, <2>3, QuietOwnership
<1>2. CASE CleanSnapshot(t)
  <2> DEFINE l == [task[t] EXCEPT !.left = rooms[task[t].sock], !.pc = "leaving"]
  <2>1. l.sock = task[t].sock /\ l.pc = "leaving" /\ l.todo = task[t].todo
    BY DEF Shape, Task
  <2>2. Cleans(task[t]) /\ ~Connects(l)
    BY <1>2, <2>1 DEF CleanSnapshot, Cleans, Connects
  <2>3. Set(t, l) /\ UNCHANGED <<sockets, senders, discRuns, engineOf>>
    BY <1>2 DEF CleanSnapshot
  <2> HIDE DEF l
  <2> QED BY <2>1, <2>2, <2>3, QuietOwnership
<1>3. CASE CleanLeave(t)
  <2>1. PICK r \in task[t].left : Set(t, [task[t] EXCEPT !.left = @ \ {r}])
    BY <1>3 DEF CleanLeave
  <2> DEFINE l == [task[t] EXCEPT !.left = @ \ {r}]
  <2>2. l.sock = task[t].sock /\ l.pc = "leaving" /\ l.todo = task[t].todo
    BY <1>3 DEF CleanLeave, Shape, Task
  <2>3. Cleans(task[t]) /\ ~Connects(l)
    BY <1>3, <2>2 DEF CleanLeave, Cleans, Connects
  <2>4. UNCHANGED <<sockets, senders, discRuns, engineOf>>
    BY <1>3 DEF CleanLeave
  <2> HIDE DEF l
  <2> QED BY <2>1, <2>2, <2>3, <2>4, QuietOwnership DEF l
<1>4. CASE CleanClear(t) \/ CleanLeaveAll(t)
  <2>1. Cleans(task[t])
    BY <1>4 DEF CleanClear, CleanLeaveAll, Cleans
  <2> QED BY <1>4, <2>1, GotoOwnership DEF CleanClear, CleanLeaveAll
<1>5. CASE CleanForget(t)
  <2>1. ~Cleans([task[t] EXCEPT !.pc = "next"])
    BY DEF Cleans, Shape, Task
  <2> QED BY <1>5, <2>1, GotoOwnership, ReturnOwnership DEF CleanForget
<1> QED BY <1>1, <1>2, <1>3, <1>4, <1>5, OwnershipTake, OwnershipCall, OwnershipUnregister
        DEF Cleanup

\* A step of t in application code: at most its half-done call changes.
LEMMA CallOwnership ==
  ASSUME Shape, Ownership, NEW t \in Tasks, At(t, "user"), NEW c, NEW r,
         Set(t, [task[t] EXCEPT !.call = c, !.room = r]),
         UNCHANGED <<sockets, senders, discRuns, engineOf>>
  PROVE  Ownership'
<1> DEFINE l == [task[t] EXCEPT !.call = c, !.room = r]
<1>1. l.pc = "user" /\ l.sock = task[t].sock /\ l.todo = task[t].todo /\ l.op = task[t].op
  BY DEF Shape, Task
<1>2. (Cleans(l) => Cleans(task[t])) /\ ~Connects(l)
  BY <1>1 DEF Cleans, Connects
<1> HIDE DEF l
<1> QED BY <1>1, <1>2, QuietOwnership DEF l

LEMMA OwnershipUser ==
  ASSUME Shape, Ownership, NEW t \in Tasks, User(t) \/ UserAdapter(t)
  PROVE  Ownership'
<1> USE DEF maps, ids, stores, adapter, handlers, history
<1>1. CASE UserOn(t) \/ UserOnDisconnect(t)
  BY <1>1 DEF UserOn, UserOnDisconnect, Ownership, ConnectingIsPrivate, CleanedIsGone,
              CallerIsOnly, OpenIsWhole, RunsBounded, Created
<1>2. ASSUME NEW r \in Rooms, UserJoin(t, r) \/ UserLeave(t, r)
      PROVE  Ownership'
  BY <1>2, CallOwnership DEF UserJoin, UserLeave, InUser
<1>3. CASE UserAdapter(t)
  BY <1>3, CallOwnership DEF UserAdapter
<1>4. CASE UserReturn(t)
  <2>1. Cleaning(t) => Cleans(task[t])
    BY <1>4 DEF UserReturn, InUser, Cleaning, Cleans
  <2> QED BY <1>4, <2>1, GotoOwnership, ReturnOwnership DEF UserReturn
<1>5. CASE UserPanic(t)
  BY <1>5, ReturnOwnership DEF UserPanic
<1> QED BY <1>1, <1>2, <1>3, <1>4, <1>5 DEF User

LEMMA OwnershipStart ==
  ASSUME Shape, Ownership, NEW t \in Tasks, Start(t)
  PROVE  Ownership'
<1> USE DEF maps, ids, stores, adapter, handlers, history
<1>1. ASSUME NEW e \in Engines, Close(t, e)
      PROVE  Ownership'
  <2> DEFINE l == [Idle EXCEPT !.op = "close", !.pc = "collect", !.eng = e]
  <2>1. l.pc = "collect" /\ l.sock = None /\ l.todo = {}
    BY DEF Idle
  <2>2. ~Cleans(l) /\ ~Connects(l)
    BY <2>1 DEF Cleans, Connects
  <2>3. Set(t, l) /\ UNCHANGED <<sockets, senders, discRuns, engineOf>>
    BY <1>1 DEF Close
  <2> HIDE DEF l
  <2> QED BY <2>1, <2>2, <2>3, QuietOwnership
<1>2. ASSUME NEW op, NEW e, NEW n, NEW label \in {"lookup", "find"},
             Set(t, [Idle EXCEPT !.op = op, !.pc = label, !.eng = e, !.ns = n]),
             UNCHANGED maps
      PROVE  Ownership'
  <2> DEFINE l == [Idle EXCEPT !.op = op, !.pc = label, !.eng = e, !.ns = n]
  <2>1. l.pc = label /\ l.sock = None /\ l.todo = {}
    BY DEF Idle
  <2>2. ~Cleans(l) /\ ~Connects(l)
    BY <2>1 DEF Cleans, Connects
  <2> HIDE DEF l
  <2> QED BY <1>2, <2>1, <2>2, QuietOwnership DEF l
<1>3. ASSUME NEW e \in Engines, NEW n \in Namespaces, Receive(t, e, n)
      PROVE  Ownership'
  BY <1>2, <1>3 DEF Receive
<1> QED BY <1>1, <1>3 DEF Start

LEMMA OwnershipNext == Shape /\ Ownership /\ [Next]_vars => Ownership'
<1> SUFFICES ASSUME Shape, Ownership, [Next]_vars PROVE Ownership'
  OBVIOUS
<1>1. CASE UNCHANGED <<sockets, senders, discRuns, engineOf, task>>
  BY <1>1 DEF Ownership, ConnectingIsPrivate, CleanedIsGone, CallerIsOnly, OpenIsWhole,
              RunsBounded, Created
<1>2. ASSUME NEW e \in Engines, Open(e) PROVE Ownership'
  BY <1>1, <1>2 DEF Open, adapter, history
<1>3. ASSUME NEW t \in Tasks, Start(t) \/ Step(t) \/ User(t) PROVE Ownership'
  BY <1>3, OwnershipStart, OwnershipConnect, OwnershipEvent, OwnershipClose,
     OwnershipCleanup, OwnershipUser DEF Step
<1> QED BY <1>1, <1>2, <1>3 DEF Next, vars, maps, ids, stores, adapter, history

THEOREM OwnershipInvariant == Spec => []Ownership
  BY ShapeInvariant, OwnershipInit, OwnershipNext, PTL DEF Spec

\* The application's disconnect handler runs at most once for a socket, for any
\* number of tasks that clean it up at the same time.
THEOREM DisconnectOnce == Spec => []DisconnectHandlerAtMostOnce
<1>1. Ownership => DisconnectHandlerAtMostOnce
  BY DEF Ownership, RunsBounded, DisconnectHandlerAtMostOnce
<1> QED BY <1>1, OwnershipInvariant, PTL

\* A published socket can be reached by broadcasts until it is taken out.
THEOREM ConnectedReachable == Spec => []ConnectedIsReachable
<1>1. Ownership => ConnectedIsReachable
  BY DEF Ownership, OpenIsWhole, ConnectedIsReachable
<1> QED BY <1>1, OwnershipInvariant, PTL

-----------------------------------------------------------------------------
(***************************************************************************)
(* Every sender has an owner.                                              *)
(***************************************************************************)

\* A task with locals l answers for the sender of socket s.
Owns(l, s) ==
  /\ l.sock = s
  /\ \/ Connects(l)
     \/ /\ l.op \in {"disconnect", "close"}
        /\ l.pc \in {"call", "user", "snapshot", "leaving", "leave_all", "unregister"}

LEMMA OwnsMeaning ==
  ASSUME NEW t \in Tasks, NEW s
  PROVE  Owns(task[t], s) <=> Connecting(t, s) \/ Releasing(t, s)
  BY DEF Owns, Connects, Connecting, Releasing, Cleaning

Unowned == senders \ (sockets \cup abandoned)

\* A step of t keeps the property if t answers for every sender without a socket
\* that it answered for before, or that has just lost its socket.
LEMMA OwnerStep ==
  ASSUME Shape, SenderHasOwner, NEW t \in Tasks, NEW l, Set(t, l),
         \A s \in Unowned' : Owns(l, s) \/ (s \in Unowned /\ ~Owns(task[t], s))
  PROVE  SenderHasOwner'
<1>1. task'[t] = l /\ \A u \in Tasks \ {t} : task'[u] = task[u]
  BY SetTask
<1>2. ASSUME NEW s \in Unowned'
      PROVE  \E u \in Tasks : Owns(task'[u], s)
  <2>1. CASE Owns(l, s)
    BY <1>1, <2>1
  <2>2. CASE s \in Unowned /\ ~Owns(task[t], s)
    <3>1. PICK u \in Tasks : Owns(task[u], s)
      BY <2>2, OwnsMeaning DEF SenderHasOwner, Unowned
    <3> QED BY <1>1, <2>2, <3>1
  <2> QED BY <1>2, <2>1, <2>2
<1>3. ASSUME NEW u \in Tasks, NEW s, Owns(task'[u], s)
      PROVE  (Connecting(u, s) \/ Releasing(u, s))'
  BY <1>3 DEF Owns, Connects, Connecting, Releasing, Cleaning
<1> QED BY <1>2, <1>3 DEF SenderHasOwner, Unowned

\* A step that touches neither senders nor sockets and passes on what t owns.
LEMMA QuietOwner ==
  ASSUME Shape, SenderHasOwner, NEW t \in Tasks, NEW l, Set(t, l),
         UNCHANGED <<senders, sockets>>, abandoned \subseteq abandoned',
         \A s \in Unowned \ abandoned' : Owns(task[t], s) => Owns(l, s)
  PROVE  SenderHasOwner'
<1>1. Unowned' \subseteq Unowned \ abandoned'
  BY DEF Unowned
<1> QED BY <1>1, OwnerStep

\* A task at one of these positions answers for no sender.
LEMMA OwnsNothing ==
  ASSUME NEW l, NEW s,
         \/ l.pc \notin {"join", "publish", "call", "user", "snapshot", "leaving",
                         "leave_all", "unregister"}
         \/ l.pc \notin {"join", "publish"} /\ l.op \notin {"disconnect", "close"}
  PROVE  ~Owns(l, s)
  BY DEF Owns, Connects

LEMMA OwnerConnect ==
  ASSUME Shape, SenderHasOwner, NEW t \in Tasks, Connect(t)
  PROVE  SenderHasOwner'
<1>0. task[t].op = "connect" \/ task[t].pc \notin ConnectPositions
  BY DEF Shape, LocalsOK
<1> USE DEF maps, ids, stores, adapter, handlers, history
<1>1. CASE ConnectLookup(t) \/ ConnectAuth(t) \/ OutOfIds(t) \/ ConnectGreet(t)
  <2>1. UNCHANGED <<senders, sockets, abandoned>>
    BY <1>1 DEF ConnectLookup, ConnectAuth, OutOfIds, ConnectGreet
  <2>2. \A s : ~Owns(task[t], s)
    BY <1>0, <1>1, OwnsNothing DEF ConnectLookup, ConnectAuth, OutOfIds, ConnectGreet
  <2>3. \E l : Set(t, l)
    BY <1>1 DEF ConnectLookup, ConnectAuth, OutOfIds, ConnectGreet, Goto, Return
  <2> QED BY <2>1, <2>2, <2>3, QuietOwner
<1>2. CASE ConnectRegister(t)
  <2>1. PICK s \in Sockets : senders' = senders \cup {s}
                             /\ Set(t, [task[t] EXCEPT !.pc = "join", !.sock = s])
    BY <1>2 DEF ConnectRegister
  <2> DEFINE l == [task[t] EXCEPT !.pc = "join", !.sock = s]
  <2>2. UNCHANGED <<sockets, abandoned>> /\ \A x : ~Owns(task[t], x)
    BY <1>2, OwnsNothing DEF ConnectRegister
  <2>3. Owns(l, s)
    BY DEF Owns, Connects, Shape, Task
  <2> HIDE DEF l
  <2>4. \A x \in Unowned' : x = s \/ x \in Unowned
    BY <2>1, <2>2 DEF Unowned
  <2> QED BY <2>1, <2>2, <2>3, <2>4, OwnerStep DEF l
<1>3. CASE ConnectJoin(t)
  <2> DEFINE l == [task[t] EXCEPT !.pc = "publish"]
  <2>1. \A s : Owns(task[t], s) => Owns(l, s)
    BY DEF Owns, Connects, Shape, Task
  <2>2. Set(t, l) /\ UNCHANGED <<senders, sockets, abandoned>>
    BY <1>3 DEF ConnectJoin, Goto
  <2> HIDE DEF l
  <2> QED BY <2>1, <2>2, QuietOwner
<1>4. CASE ConnectPublish(t)
  <2>1. Set(t, [task[t] EXCEPT !.pc = "greet"]) /\ UNCHANGED <<senders, abandoned>>
        /\ sockets' = sockets \cup {task[t].sock}
    BY <1>4 DEF ConnectPublish, Goto
  <2>2. \A s \in Unowned' : s \in Unowned /\ ~Owns(task[t], s)
    BY <2>1 DEF Unowned, Owns
  <2> QED BY <2>1, <2>2, OwnerStep
<1> QED BY <1>1, <1>2, <1>3, <1>4 DEF Connect

LEMMA OwnerEvent ==
  ASSUME Shape, SenderHasOwner, NEW t \in Tasks, Event(t) \/ CloseSteps(t) \/ CleanRead(t)
                                                 \/ CleanForget(t)
  PROVE  SenderHasOwner'
<1> USE DEF maps, ids, stores, adapter, handlers, history, Event, CloseSteps
<1>1. \A s : ~Owns(task[t], s)
  BY OwnsNothing DEF Find, EventHandler, EventSocket, CloseCollect, CloseNext, CloseSession,
                     CleanRead, CleanForget
<1>2. UNCHANGED <<senders, sockets, abandoned>>
  BY DEF Find, EventHandler, EventSocket, CloseCollect, CloseNext, CloseSession,
         CleanRead, CleanForget
<1>3. \E l : Set(t, l)
  BY DEF Find, EventHandler, EventSocket, CloseCollect, CloseNext, CloseSession,
         CleanRead, CleanForget, Goto, Return
<1> QED BY <1>1, <1>2, <1>3, QuietOwner

LEMMA OwnerCleanup ==
  ASSUME Shape, SenderHasOwner, NEW t \in Tasks, Cleanup(t)
  PROVE  SenderHasOwner'
<1>0. task[t].pc \in CleanupPositions => task[t].op \in {"disconnect", "close"}
  BY DEF Shape, LocalsOK
<1> USE DEF maps, ids, stores, adapter, handlers, history
<1>1. CASE CleanRead(t) \/ CleanForget(t)
  BY <1>1, OwnerEvent
<1>2. CASE CleanTake(t)
  <2> DEFINE l == [task[t] EXCEPT !.pc = AfterTake(t)]
  <2>1. sockets' = sockets \ {task[t].sock} /\ UNCHANGED <<senders, abandoned>> /\ Set(t, l)
    BY <1>2 DEF CleanTake, Goto
  <2>2. l.pc = AfterTake(t) /\ l.sock = task[t].sock /\ l.op = task[t].op
    BY DEF Shape, Task
  <2>3. Owns(l, task[t].sock) /\ \A s : ~Owns(task[t], s)
    BY <1>0, <1>2, <2>2, OwnsNothing DEF CleanTake, Owns, AfterTake
  <2> HIDE DEF l
  <2> QED BY <2>1, <2>3, OwnerStep DEF Unowned
<1>3. ASSUME NEW label \in {"user", "leave_all", "unregister"}, Goto(t, label),
             task[t].op \in {"disconnect", "close"},
             task[t].pc \notin {"join", "publish"},
             UNCHANGED <<senders, sockets, abandoned>>
      PROVE  SenderHasOwner'
  <2> DEFINE l == [task[t] EXCEPT !.pc = label]
  <2>1. l.pc = label /\ l.sock = task[t].sock /\ l.op = task[t].op
    BY DEF Shape, Task
  <2>2. \A s : Owns(task[t], s) => Owns(l, s)
    BY <1>3, <2>1 DEF Owns
  <2> HIDE DEF l
  <2> QED BY <1>3, <2>2, QuietOwner DEF Goto, l
<1>4. CASE CleanCall(t) \/ CleanClear(t) \/ CleanLeaveAll(t)
  BY <1>0, <1>3, <1>4 DEF CleanCall, CleanClear, CleanLeaveAll
<1>5. CASE CleanSnapshot(t)
  <2> DEFINE l == [task[t] EXCEPT !.left = rooms[task[t].sock], !.pc = "leaving"]
  <2>1. l.pc = "leaving" /\ l.sock = task[t].sock /\ l.op = task[t].op
    BY DEF Shape, Task
  <2>2. \A s : Owns(task[t], s) => Owns(l, s)
    BY <1>0, <1>5, <2>1 DEF CleanSnapshot, Owns
  <2>3. Set(t, l) /\ UNCHANGED <<senders, sockets, abandoned>>
    BY <1>5 DEF CleanSnapshot
  <2> HIDE DEF l
  <2> QED BY <2>2, <2>3, QuietOwner
<1>6. CASE CleanLeave(t)
  <2>1. PICK r \in task[t].left : Set(t, [task[t] EXCEPT !.left = @ \ {r}])
    BY <1>6 DEF CleanLeave
  <2> DEFINE l == [task[t] EXCEPT !.left = @ \ {r}]
  <2>2. l.pc = task[t].pc /\ l.sock = task[t].sock /\ l.op = task[t].op
    BY DEF Shape, Task
  <2>3. \A s : Owns(task[t], s) => Owns(l, s)
    BY <2>2 DEF Owns, Connects
  <2>4. UNCHANGED <<senders, sockets, abandoned>>
    BY <1>6 DEF CleanLeave
  <2> HIDE DEF l
  <2> QED BY <2>1, <2>3, <2>4, QuietOwner DEF l
<1>7. CASE CleanUnregister(t)
  <2>1. /\ Goto(t, "forget") /\ UNCHANGED <<sockets, abandoned>>
        /\ senders' = senders \ {task[t].sock}
    BY <1>7 DEF CleanUnregister
  <2>2. \A s \in Unowned' : s \in Unowned /\ ~Owns(task[t], s)
    BY <2>1 DEF Unowned, Owns
  <2> QED BY <2>1, <2>2, OwnerStep DEF Goto
<1> QED BY <1>1, <1>2, <1>4, <1>5, <1>6, <1>7 DEF Cleanup

LEMMA OwnerUser ==
  ASSUME Shape, SenderHasOwner, NEW t \in Tasks, User(t) \/ UserAdapter(t)
  PROVE  SenderHasOwner'
<1> USE DEF maps, ids, stores, adapter, handlers, history
<1>1. CASE UserOn(t) \/ UserOnDisconnect(t)
  BY <1>1 DEF UserOn, UserOnDisconnect, SenderHasOwner, Connecting, Releasing, Cleaning
<1>2. ASSUME NEW c, NEW r, Set(t, [task[t] EXCEPT !.call = c, !.room = r]),
             UNCHANGED <<senders, sockets, abandoned>>
      PROVE  SenderHasOwner'
  <2> DEFINE l == [task[t] EXCEPT !.call = c, !.room = r]
  <2>1. l.pc = task[t].pc /\ l.sock = task[t].sock /\ l.op = task[t].op
    BY DEF Shape, Task
  <2>2. \A s : Owns(task[t], s) => Owns(l, s)
    BY <2>1 DEF Owns, Connects
  <2> HIDE DEF l
  <2> QED BY <1>2, <2>2, QuietOwner DEF l
<1>3. ASSUME NEW r \in Rooms, UserJoin(t, r) \/ UserLeave(t, r)
      PROVE  SenderHasOwner'
  BY <1>2, <1>3 DEF UserJoin, UserLeave
<1>4. CASE UserAdapter(t)
  BY <1>2, <1>4 DEF UserAdapter
<1>5. CASE UserReturn(t)
  <2>1. UNCHANGED <<senders, sockets, abandoned>>
    BY <1>5 DEF UserReturn
  <2>2. CASE ~Cleaning(t)
    <3>1. \A s : ~Owns(task[t], s)
      BY <1>5, <2>2, OwnsNothing DEF UserReturn, InUser, Cleaning
    <3> QED BY <1>5, <2>1, <2>2, <3>1, QuietOwner DEF UserReturn, Return
  <2>3. CASE Cleaning(t)
    <3> DEFINE l == [task[t] EXCEPT !.pc = "snapshot"]
    <3>1. l.pc = "snapshot" /\ l.sock = task[t].sock /\ l.op = task[t].op
      BY DEF Shape, Task
    <3>2. \A s : Owns(task[t], s) => Owns(l, s)
      BY <1>5, <2>3, <3>1 DEF Owns, Cleaning
    <3> HIDE DEF l
    <3> QED BY <1>5, <2>1, <2>3, <3>2, QuietOwner DEF UserReturn, Goto, l
  <2> QED BY <2>2, <2>3
<1>6. CASE UserPanic(t)
  <2>1. UNCHANGED <<senders, sockets>> /\ abandoned \subseteq abandoned'
    BY <1>6 DEF UserPanic
  <2>2. \A s \in Unowned \ abandoned' : ~Owns(task[t], s)
    BY <1>6 DEF UserPanic, InUser, Owns, Connects, Cleaning
  <2> QED BY <1>6, <2>1, <2>2, QuietOwner DEF UserPanic, Return
<1> QED BY <1>1, <1>3, <1>4, <1>5, <1>6 DEF User

LEMMA OwnerNext == Shape /\ SenderHasOwner /\ [Next]_vars => SenderHasOwner'
<1> SUFFICES ASSUME Shape, SenderHasOwner, [Next]_vars PROVE SenderHasOwner'
  OBVIOUS
<1> USE DEF maps, ids, stores, adapter, handlers, history
<1>1. CASE UNCHANGED <<senders, sockets, abandoned, task>>
  BY <1>1 DEF SenderHasOwner, Connecting, Releasing, Cleaning
<1>2. ASSUME NEW e \in Engines, Open(e) PROVE SenderHasOwner'
  BY <1>1, <1>2 DEF Open
<1>3. ASSUME NEW t \in Tasks, Start(t) PROVE SenderHasOwner'
  <2>1. UNCHANGED <<senders, sockets, abandoned>> /\ \E l : Set(t, l)
    BY <1>3 DEF Start, Close, Receive
  <2>2. \A s : ~Owns(task[t], s)
    BY <1>3, OwnsNothing DEF Start, Close, Receive
  <2> QED BY <2>1, <2>2, QuietOwner
<1>4. ASSUME NEW t \in Tasks, Step(t) \/ User(t) PROVE SenderHasOwner'
  BY <1>4, OwnerConnect, OwnerEvent, OwnerCleanup, OwnerUser DEF Step
<1> QED BY <1>1, <1>2, <1>3, <1>4 DEF Next, vars

\* Every sender that outlives its socket's entry belongs to a task that will
\* unregister it or publish its socket, unless a disconnect handler panicked.
THEOREM SendersOwned == Spec => []SenderHasOwner
<1>1. Init => SenderHasOwner
  BY DEF Init, SenderHasOwner
<1> QED BY <1>1, ShapeInvariant, OwnerNext, PTL DEF Spec

-----------------------------------------------------------------------------
(***************************************************************************)
(* No resurrection.                                                        *)
(***************************************************************************)

\* A task that does not begin to connect does not start to.
KeepsOut(t) ==
  /\ \A u \in Tasks \ {t} : task'[u] = task[u]
  /\ Connects(task'[t]) => Connects(task[t]) /\ task'[t].sock = task[t].sock

\* Apart from Socket::new and register_sender, which are for a fresh id, no step
\* adds a sender, and only a task that is connecting publishes a socket.
LEMMA NoNewSender ==
  ASSUME Shape, NEW t \in Tasks, Start(t) \/ Step(t) \/ User(t), ~ConnectRegister(t)
  PROVE  /\ engineOf' = engineOf /\ senders' \subseteq senders
         /\ \A s \in sockets' : s \in sockets \/ Connecting(t, s)
         /\ KeepsOut(t)
<1> USE DEF maps, ids, stores, adapter, handlers, history
<1>1. ASSUME NEW l, Set(t, l), ~Connects(l)
      PROVE  KeepsOut(t)
  BY <1>1, SetTask DEF KeepsOut
<1>2. ~Connects(Idle) /\ (Return(t) => KeepsOut(t))
  BY <1>1 DEF Idle, Connects, Return
<1>3. ASSUME NEW label \in Positions \ {"join", "publish"}, Goto(t, label)
      PROVE  KeepsOut(t)
  <2>1. ~Connects([task[t] EXCEPT !.pc = label])
    BY DEF Connects, Shape, Task
  <2> QED BY <1>1, <1>3, <2>1 DEF Goto
<1>4. CASE Start(t)
  <2>1. \A e : ~Connects([Idle EXCEPT !.op = "close", !.pc = "collect", !.eng = e])
    BY DEF Idle, Connects
  <2>2. \A op, e, n : \A label \in {"lookup", "find"} :
          ~Connects([Idle EXCEPT !.op = op, !.pc = label, !.eng = e, !.ns = n])
    BY DEF Idle, Connects
  <2>3. KeepsOut(t)
    BY <1>1, <1>4, <2>1, <2>2 DEF Start, Close, Receive
  <2> QED BY <1>4, <2>3 DEF Start, Close, Receive
<1>5. CASE ConnectLookup(t) \/ ConnectAuth(t) \/ OutOfIds(t) \/ ConnectGreet(t)
  BY <1>2, <1>3, <1>5 DEF ConnectLookup, ConnectAuth, OutOfIds, ConnectGreet
<1>6. CASE ConnectJoin(t)
  <2> DEFINE l == [task[t] EXCEPT !.pc = "publish"]
  <2>1. l.sock = task[t].sock /\ Connects(task[t])
    BY <1>6 DEF ConnectJoin, Connects, Shape, Task
  <2>2. Set(t, l)
    BY <1>6 DEF ConnectJoin, Goto
  <2>3. KeepsOut(t)
    BY <2>1, <2>2, SetTask DEF KeepsOut
  <2> QED BY <1>6, <2>3 DEF ConnectJoin
<1>7. CASE ConnectPublish(t)
  BY <1>3, <1>7 DEF ConnectPublish, Connecting
<1>8. CASE Event(t) \/ CloseSteps(t)
  <2>1. CASE Find(t)
    <3>1. ASSUME NEW s, NEW label \in {"handler", "read"},
                 Set(t, [task[t] EXCEPT !.sock = s, !.pc = label])
          PROVE  KeepsOut(t)
      <4>1. ~Connects([task[t] EXCEPT !.sock = s, !.pc = label])
        BY DEF Connects, Shape, Task
      <4> QED BY <1>1, <3>1, <4>1
    <3> QED BY <1>2, <2>1, <3>1 DEF Find
  <2>2. CASE EventHandler(t)
    <3> DEFINE l == [task[t] EXCEPT !.found = task[t].sock \in onEvent, !.pc = "socket"]
    <3>1. ~Connects(l)
      BY DEF Connects, Shape, Task
    <3>2. Set(t, l)
      BY <2>2 DEF EventHandler
    <3> HIDE DEF l
    <3> QED BY <1>1, <2>2, <3>1, <3>2 DEF EventHandler
  <2>3. CASE EventSocket(t)
    BY <1>2, <1>3, <2>3 DEF EventSocket
  <2>4. CASE CloseCollect(t)
    <3>1. \E T : Set(t, [task[t] EXCEPT !.pc = "next", !.todo = T])
      BY <2>4 DEF CloseCollect
    <3>2. \A T : ~Connects([task[t] EXCEPT !.pc = "next", !.todo = T])
      BY DEF Connects, Shape, Task
    <3> QED BY <1>1, <2>4, <3>1, <3>2 DEF CloseCollect
  <2>5. CASE CloseNext(t)
    <3>1. \A s : ~Connects([task[t] EXCEPT !.pc = "read", !.sock = s, !.todo = @ \ {s}])
      BY DEF Connects, Shape, Task
    <3> QED BY <1>1, <2>5, <3>1 DEF CloseNext
  <2>6. CASE CloseSession(t)
    BY <1>2, <2>6 DEF CloseSession
  <2> QED BY <1>8, <2>1, <2>2, <2>3, <2>4, <2>5, <2>6 DEF Event, CloseSteps
<1>9. CASE Cleanup(t)
  <2>1. CASE CleanRead(t)
    <3> DEFINE l == [task[t] EXCEPT !.found = task[t].sock \in onDisc, !.pc = "take"]
    <3>1. ~Connects(l)
      BY DEF Connects, Shape, Task
    <3>2. Set(t, l)
      BY <2>1 DEF CleanRead
    <3> HIDE DEF l
    <3> QED BY <1>1, <2>1, <3>1, <3>2 DEF CleanRead
  <2>2. CASE CleanTake(t)
    <3>1. AfterTake(t) \in {"leave_all", "call", "snapshot"}
      BY DEF AfterTake
    <3> QED BY <1>3, <2>2, <3>1 DEF CleanTake
  <2>3. CASE CleanSnapshot(t)
    <3>1. \A T : ~Connects([task[t] EXCEPT !.left = T, !.pc = "leaving"])
      BY DEF Connects, Shape, Task
    <3> QED BY <1>1, <2>3, <3>1 DEF CleanSnapshot
  <2>4. CASE CleanLeave(t)
    <3>1. \A r : ~Connects([task[t] EXCEPT !.left = @ \ {r}])
      BY <2>4 DEF CleanLeave, Connects, Shape, Task
    <3> QED BY <1>1, <2>4, <3>1 DEF CleanLeave
  <2>5. CASE CleanCall(t) \/ CleanClear(t) \/ CleanLeaveAll(t) \/ CleanUnregister(t)
             \/ CleanForget(t)
    BY <1>2, <1>3, <2>5 DEF CleanCall, CleanClear, CleanLeaveAll, CleanUnregister, CleanForget
  <2> QED BY <1>9, <2>1, <2>2, <2>3, <2>4, <2>5 DEF Cleanup
<1>10. CASE User(t) \/ UserAdapter(t)
  <2>1. CASE UserOn(t) \/ UserOnDisconnect(t)
    BY <2>1 DEF UserOn, UserOnDisconnect, KeepsOut
  <2>2. ASSUME NEW c, NEW r, Set(t, [task[t] EXCEPT !.call = c, !.room = r]), At(t, "user")
        PROVE  KeepsOut(t)
    <3>1. ~Connects([task[t] EXCEPT !.call = c, !.room = r])
      BY <2>2 DEF Connects, Shape, Task
    <3> QED BY <1>1, <2>2, <3>1
  <2>3. ASSUME NEW r \in Rooms, UserJoin(t, r) \/ UserLeave(t, r)
        PROVE  KeepsOut(t) /\ UNCHANGED <<engineOf, senders, sockets>>
    BY <2>2, <2>3 DEF UserJoin, UserLeave, InUser
  <2>4. CASE UserAdapter(t)
    BY <2>2, <2>4 DEF UserAdapter
  <2>5. CASE UserReturn(t) \/ UserPanic(t)
    BY <1>2, <1>3, <2>5 DEF UserReturn, UserPanic
  <2> QED BY <1>10, <2>1, <2>3, <2>4, <2>5 DEF User
<1> QED BY <1>4, <1>5, <1>6, <1>7, <1>8, <1>9, <1>10 DEF Step, Connect

BeingConnected == {s \in Sockets : \E t \in Tasks : Connecting(t, s)}

\* For the sockets there are, senders only go away, only a connecting socket is
\* published, and none begins to connect.
Fades ==
  /\ Created \subseteq Created'
  /\ \A s \in Created : s \in senders' => s \in senders
  /\ \A s \in Created : s \in sockets' => s \in sockets \cup BeingConnected
  /\ \A s \in Created : s \in BeingConnected' => s \in BeingConnected

LEMMA RegisterFades ==
  ASSUME Shape, NEW t \in Tasks, ConnectRegister(t)
  PROVE  Fades
<1>1. PICK s \in Sockets : /\ engineOf[s] = None
                           /\ engineOf' = [engineOf EXCEPT ![s] = task[t].eng]
                           /\ senders' = senders \cup {s}
                           /\ Set(t, [task[t] EXCEPT !.pc = "join", !.sock = s])
  BY DEF ConnectRegister
<1> DEFINE l == [task[t] EXCEPT !.pc = "join", !.sock = s]
<1>2. s \notin Created /\ sockets' = sockets
  BY <1>1 DEF Created, ConnectRegister, stores
<1>3. task'[t] = l /\ \A u \in Tasks \ {t} : task'[u] = task[u]
  BY <1>1, SetTask
<1>4. l.sock = s
  BY DEF Shape, Task
<1> HIDE DEF l
<1>5. Created \subseteq Created'
  BY <1>1 DEF Created, Shape, MapsOK
<1>6. \A x \in Created : x \in BeingConnected' => x \in BeingConnected
  BY <1>2, <1>3, <1>4 DEF BeingConnected, Connecting
<1> QED BY <1>1, <1>2, <1>5, <1>6 DEF Fades

LEMMA NextFades == Shape /\ [Next]_vars => Fades
<1> SUFFICES ASSUME Shape, [Next]_vars PROVE Fades
  OBVIOUS
<1> USE DEF maps, ids, stores, adapter, handlers, history
<1>1. CASE UNCHANGED <<engineOf, senders, sockets, task>>
  BY <1>1 DEF Fades, Created, BeingConnected, Connecting
<1>2. ASSUME NEW e \in Engines, Open(e) PROVE Fades
  BY <1>1, <1>2 DEF Open
<1>3. ASSUME NEW t \in Tasks, Start(t) \/ Step(t) \/ User(t) PROVE Fades
  <2>1. CASE ConnectRegister(t)
    BY <2>1, RegisterFades
  <2>2. CASE ~ConnectRegister(t)
    <3>1. /\ engineOf' = engineOf /\ senders' \subseteq senders
          /\ \A s \in sockets' : s \in sockets \/ Connecting(t, s)
          /\ KeepsOut(t)
      BY <1>3, <2>2, NoNewSender
    <3>2. \A u \in Tasks : Connects(task'[u]) => Connects(task[u]) /\ task'[u].sock = task[u].sock
      BY <3>1 DEF KeepsOut
    <3>3. BeingConnected' \subseteq BeingConnected
      BY <3>2 DEF BeingConnected, Connecting, Connects
    <3> QED BY <3>1, <3>3 DEF Fades, Created, BeingConnected, Shape, MapsOK
  <2> QED BY <2>1, <2>2
<1> QED BY <1>1, <1>2, <1>3 DEF Next, vars

LEMMA FadesKeepsClosed ==
  ASSUME Shape, Fades
  PROVE  \A s \in Created : /\ Phase(s) = "closed" => Phase(s)' = "closed"
                            /\ s \notin senders => s \notin senders'
  BY DEF Fades, Phase, Created, BeingConnected

\* A socket that was cleaned up stays closed and stays out of the reach of
\* broadcasts, whatever handlers still run for it.
THEOREM ClosedStaysClosed == Spec => NoResurrection
  BY ShapeInvariant, NextFades, FadesKeepsClosed, PTL DEF Spec, NoResurrection

-----------------------------------------------------------------------------
(***************************************************************************)
(* The registry implements the life of a socket that SocketLifecycle       *)
(* promises.                                                               *)
(***************************************************************************)

\* The phases, as the mapping of SocketRegistry gives them to SocketLifecycle.
Phases == [s \in Sockets |-> Phase(s)]

LEMMA Initially == Init => Lifecycle!Init
<1> SUFFICES ASSUME Init PROVE Lifecycle!Init
  OBVIOUS
<1>1. \A s \in Sockets : Phase(s) = "new"
  BY DEF Init, Phase, Created, BeingConnected
<1> QED
  BY <1>1 DEF Init, Lifecycle!Init

(***************************************************************************)
(* Which sockets are being connected changes only when a socket is         *)
(* registered or published.                                                *)
(***************************************************************************)
LEMMA ConnectingStays ==
  ASSUME Shape, NEW t \in Tasks, Start(t) \/ Step(t) \/ User(t), Connects(task[t]),
         ~ConnectPublish(t)
  PROVE  Connects(task'[t]) /\ task'[t].sock = task[t].sock
<1>1. task[t].pc \in {"join", "publish"}
  BY DEF Connects
<1>2. ~Start(t)
  BY <1>1 DEF Start, Close, Receive, At
<1>3. ~Event(t) /\ ~CloseSteps(t)
  BY <1>1 DEF Event, Find, EventHandler, EventSocket, CloseSteps, CloseCollect, CloseNext,
              CloseSession, At
<1>4. ~Cleanup(t) /\ ~User(t) /\ ~UserAdapter(t)
  BY <1>1 DEF Cleanup, CleanRead, CleanTake, CleanCall, CleanSnapshot, CleanLeave, CleanClear,
              CleanLeaveAll, CleanUnregister, CleanForget, User, UserOn, UserOnDisconnect,
              UserReturn, UserPanic, UserJoin, UserLeave, UserAdapter, InUser, At
<1>5. ConnectJoin(t)
  BY <1>1, <1>2, <1>3, <1>4 DEF Step, Connect, ConnectLookup, ConnectAuth, ConnectRegister,
                                OutOfIds, ConnectGreet, At
<1> DEFINE l == [task[t] EXCEPT !.pc = "publish"]
<1>6. l.pc = "publish" /\ l.sock = task[t].sock
  BY DEF Shape, Task
<1>7. task'[t] = l
  BY <1>5, SetTask DEF ConnectJoin, Goto
<1> QED
  BY <1>6, <1>7 DEF Connects

LEMMA BeingConnectedSame ==
  ASSUME Shape, NEW t \in Tasks, Start(t) \/ Step(t) \/ User(t), ~ConnectRegister(t),
         ~ConnectPublish(t)
  PROVE  BeingConnected' = BeingConnected
<1>1. /\ \A u \in Tasks \ {t} : task'[u] = task[u]
      /\ Connects(task'[t]) => Connects(task[t]) /\ task'[t].sock = task[t].sock
  BY NoNewSender DEF KeepsOut
<1>2. Connects(task[t]) => Connects(task'[t]) /\ task'[t].sock = task[t].sock
  BY ConnectingStays
<1>3. \A u \in Tasks, s \in Sockets : Connecting(u, s)' <=> Connecting(u, s)
  BY <1>1, <1>2 DEF Connecting, Connects
<1> QED
  BY <1>3 DEF BeingConnected

\* A step that changes nothing of this is a stuttering step.
LEMMA SamePhases ==
  ASSUME engineOf' = engineOf, sockets' = sockets, BeingConnected' = BeingConnected
  PROVE  Phases' = Phases
  BY DEF Phases, Phase, Created, BeingConnected

LEMMA Stutters ==
  ASSUME engineOf' = engineOf, sockets' = sockets, BeingConnected' = BeingConnected,
         senders' = senders, discRuns' = discRuns
  PROVE  UNCHANGED Lifecycle!vars
  BY SamePhases DEF Phases, Lifecycle!vars

(***************************************************************************)
(* Socket::new with register_sender is the Accept of a fresh socket.       *)
(***************************************************************************)
LEMMA RegisterAccepts ==
  ASSUME Shape, NEW t \in Tasks, ConnectRegister(t)
  PROVE  Lifecycle!Next
<1>1. PICK s \in Sockets : /\ engineOf[s] = None
                           /\ engineOf' = [engineOf EXCEPT ![s] = task[t].eng]
                           /\ senders' = senders \cup {s}
                           /\ Set(t, [task[t] EXCEPT !.pc = "join", !.sock = s])
  BY DEF ConnectRegister
<1> DEFINE l == [task[t] EXCEPT !.pc = "join", !.sock = s]
<1>2. l.pc = "join" /\ l.sock = s
  BY DEF Shape, Task
<1>3. task'[t] = l /\ \A u \in Tasks \ {t} : task'[u] = task[u]
  BY <1>1, SetTask
<1> HIDE DEF l
<1>4. s \notin Created /\ s \notin sockets /\ sockets' = sockets /\ discRuns' = discRuns
  BY <1>1 DEF Created, ConnectRegister, stores, history, Shape, MapsOK
<1>5. task[t].pc = "register" /\ task[t].eng \in Engines
  BY DEF ConnectRegister, At, Shape, LocalsOK, ConnectPositions
<1>6. Created' = Created \cup {s}
  BY <1>1, <1>5, NoneAssumption DEF Created, Shape, MapsOK
<1>7. BeingConnected' = BeingConnected \cup {s}
  BY <1>2, <1>3, <1>5 DEF BeingConnected, Connecting
<1>8. Phase(s) = "new" /\ Phase(s)' = "connecting"
  BY <1>4, <1>6, <1>7 DEF Phase, BeingConnected
<1>9. \A x \in Sockets \ {s} : Phase(x)' = Phase(x)
  BY <1>4, <1>6, <1>7 DEF Phase, BeingConnected
<1>10. Phases[s] = "new" /\ Phases' = [Phases EXCEPT ![s] = "connecting"]
  BY <1>8, <1>9 DEF Phases
<1>11. Lifecycle!Accept(s)
  BY <1>1, <1>4, <1>10 DEF Lifecycle!Accept, Phases
<1> QED
  BY <1>11 DEF Lifecycle!Next

LEMMA PublishPublishes ==
  ASSUME Shape, Ownership, NEW t \in Tasks, ConnectPublish(t)
  PROVE  Lifecycle!Next
<1>1. task[t].pc = "publish" /\ Connects(task[t])
  BY DEF ConnectPublish, At, Connects
<1>2. PICK s \in Sockets : s = task[t].sock /\ s \in Created /\ s \notin sockets
  BY <1>1 DEF Shape, LocalsOK, SocketPositions, Ownership, ConnectingIsPrivate, Created
<1>3. /\ sockets' = sockets \cup {s} /\ Created' = Created
      /\ senders' = senders /\ discRuns' = discRuns
  BY <1>2 DEF ConnectPublish, ids, adapter, history, Created
<1> DEFINE l == [task[t] EXCEPT !.pc = "greet"]
<1>4. ~Connects(l)
  BY DEF Connects, Shape, Task
<1>5. task'[t] = l /\ \A u \in Tasks \ {t} : task'[u] = task[u]
  BY SetTask DEF ConnectPublish, Goto
<1> HIDE DEF l
<1>6. s \in BeingConnected
  BY <1>1, <1>2 DEF BeingConnected, Connecting
<1>7. \A x \in Sockets \ {s} : x \in BeingConnected' <=> x \in BeingConnected
  BY <1>2, <1>4, <1>5 DEF BeingConnected, Connecting, Connects
<1>8. Phase(s) = "connecting" /\ Phase(s)' = "open"
  BY <1>2, <1>3, <1>6 DEF Phase, BeingConnected
<1>9. \A x \in Sockets \ {s} : Phase(x)' = Phase(x)
  BY <1>3, <1>7 DEF Phase, BeingConnected
<1>10. Phases[s] = "connecting" /\ Phases' = [Phases EXCEPT ![s] = "open"]
  BY <1>2, <1>8, <1>9 DEF Phases
<1>11. Lifecycle!Publish(s)
  BY <1>3, <1>10 DEF Lifecycle!Publish, Phases
<1> QED
  BY <1>2, <1>11 DEF Lifecycle!Next

(***************************************************************************)
(* sockets.remove is the Close of a socket that was still there; a cleanup *)
(* that comes second changes nothing.                                      *)
(***************************************************************************)
LEMMA TakeCloses ==
  ASSUME Shape, Ownership, NEW t \in Tasks, CleanTake(t)
  PROVE  Lifecycle!Next \/ UNCHANGED Lifecycle!vars
<1>1. PICK s \in Sockets : s = task[t].sock /\ s \in Created
  BY DEF CleanTake, At, Shape, LocalsOK, SocketPositions, Created
<1>2. sockets' = sockets \ {s} /\ engineOf' = engineOf /\ senders' = senders /\ discRuns' = discRuns
  BY <1>1 DEF CleanTake, ids, adapter, history
<1>3. BeingConnected' = BeingConnected
  <2>1. ~ConnectRegister(t) /\ ~ConnectPublish(t)
    BY DEF CleanTake, ConnectRegister, ConnectPublish, At
  <2>2. Step(t)
    BY DEF Step, Cleanup
  <2> QED
    BY <2>1, <2>2, BeingConnectedSame
<1>4. CASE s \notin sockets
  BY <1>2, <1>3, <1>4, Stutters
<1>5. CASE s \in sockets
  <2>1. s \notin BeingConnected
    BY <1>5 DEF BeingConnected, Connecting, Ownership, ConnectingIsPrivate, Connects
  <2>2. Phase(s) = "open" /\ Phase(s)' = "closed"
    BY <1>1, <1>2, <1>3, <1>5, <2>1 DEF Phase, Created, BeingConnected
  <2>3. \A x \in Sockets \ {s} : Phase(x)' = Phase(x)
    BY <1>2, <1>3 DEF Phase, Created, BeingConnected
  <2>4. Phases[s] = "open" /\ Phases' = [Phases EXCEPT ![s] = "closed"]
    BY <1>1, <2>2, <2>3 DEF Phases
  <2>5. Lifecycle!Close(s)
    BY <1>2, <2>4 DEF Lifecycle!Close, Phases
  <2> QED
    BY <1>1, <2>5 DEF Lifecycle!Next
<1> QED
  BY <1>4, <1>5

\* A socket that a task cleans up is closed.
LEMMA CleanedIsClosed ==
  ASSUME Shape, Ownership, NEW t \in Tasks, Cleans(task[t])
  PROVE  task[t].sock \in Sockets /\ Phase(task[t].sock) = "closed"
<1> DEFINE s == task[t].sock
<1>1. s \in Created /\ s \in Sockets /\ s \notin sockets
  BY DEF Cleans, Shape, LocalsOK, SocketPositions, Ownership, CleanedIsGone, Created
<1>2. ~Connects(task[t])
  BY DEF Cleans, Connects
<1>3. \A u \in Tasks \ {t} : Connects(task[u]) => task[u].sock # s
  BY DEF Ownership, ConnectingIsPrivate
<1>4. s \notin BeingConnected
  BY <1>2, <1>3 DEF BeingConnected, Connecting, Connects
<1> QED
  BY <1>1, <1>4 DEF Phase, BeingConnected

LEMMA CallCalls ==
  ASSUME Shape, Ownership, NEW t \in Tasks, CleanCall(t)
  PROVE  Lifecycle!Next
<1> DEFINE s == task[t].sock
<1>1. task[t].pc = "call" /\ Cleans(task[t])
  BY DEF CleanCall, At, Cleans
<1>2. s \in Sockets /\ Phase(s) = "closed" /\ discRuns[s] = 0
  BY <1>1, CleanedIsClosed DEF Ownership, CallerIsOnly
<1>3. /\ discRuns' = [discRuns EXCEPT ![s] = @ + 1] /\ engineOf' = engineOf
      /\ sockets' = sockets /\ senders' = senders
  BY DEF CleanCall, ids, stores, adapter
<1>4. discRuns' = [discRuns EXCEPT ![s] = 1]
  BY <1>2, <1>3
<1>5. Phases' = Phases
  <2>1. ~ConnectRegister(t) /\ ~ConnectPublish(t)
    BY <1>1 DEF ConnectRegister, ConnectPublish, At
  <2>2. Step(t)
    BY DEF Step, Cleanup
  <2> QED
    BY <1>3, <2>1, <2>2, BeingConnectedSame, SamePhases
<1> HIDE DEF s
<1>6. Lifecycle!CallHandler(s)
  BY <1>2, <1>3, <1>4, <1>5 DEF Lifecycle!CallHandler, Phases
<1> QED
  BY <1>2, <1>6 DEF Lifecycle!Next

LEMMA UnregisterReleases ==
  ASSUME Shape, Ownership, NEW t \in Tasks, CleanUnregister(t)
  PROVE  Lifecycle!Next \/ UNCHANGED Lifecycle!vars
<1> DEFINE s == task[t].sock
<1>1. task[t].pc = "unregister" /\ Cleans(task[t])
  BY DEF CleanUnregister, At, Cleans
<1>2. s \in Sockets /\ Phase(s) = "closed"
  BY <1>1, CleanedIsClosed
<1>3. /\ senders' = senders \ {s} /\ engineOf' = engineOf
      /\ sockets' = sockets /\ discRuns' = discRuns
  BY DEF CleanUnregister, ids, stores, history
<1>4. BeingConnected' = BeingConnected
  <2>1. ~ConnectRegister(t) /\ ~ConnectPublish(t)
    BY <1>1 DEF ConnectRegister, ConnectPublish, At
  <2>2. Step(t)
    BY DEF Step, Cleanup
  <2> QED
    BY <2>1, <2>2, BeingConnectedSame
<1>5. Phases' = Phases
  BY <1>3, <1>4, SamePhases
<1>6. CASE s \notin senders
  BY <1>3, <1>4, <1>6, Stutters
<1>7. CASE s \in senders
  <2> HIDE DEF s
  <2>1. Lifecycle!Release(s)
    BY <1>2, <1>3, <1>5, <1>7 DEF Lifecycle!Release, Phases
  <2> QED
    BY <1>2, <2>1 DEF Lifecycle!Next
<1> QED
  BY <1>6, <1>7

(***************************************************************************)
(* Every other step of a task is a stuttering step.                        *)
(***************************************************************************)
LEMMA OthersStutter ==
  ASSUME Shape, NEW t \in Tasks, Start(t) \/ Step(t) \/ User(t),
         ~ConnectRegister(t), ~ConnectPublish(t), ~CleanTake(t), ~CleanCall(t),
         ~CleanUnregister(t)
  PROVE  UNCHANGED Lifecycle!vars
<1> USE DEF maps, ids, stores, adapter, handlers, history
<1>1. BeingConnected' = BeingConnected
  BY BeingConnectedSame
<1>2. CASE Start(t)
  BY <1>1, <1>2, Stutters DEF Start, Close, Receive
<1>3. CASE Connect(t)
  BY <1>1, <1>3, Stutters DEF Connect, ConnectLookup, ConnectAuth, OutOfIds, ConnectJoin,
                              ConnectGreet
<1>4. CASE Event(t) \/ CloseSteps(t)
  BY <1>1, <1>4, Stutters DEF Event, Find, EventHandler, EventSocket, CloseSteps, CloseCollect,
                              CloseNext, CloseSession
<1>5. CASE Cleanup(t)
  BY <1>1, <1>5, Stutters DEF Cleanup, CleanRead, CleanSnapshot, CleanLeave, CleanClear,
                              CleanLeaveAll, CleanForget
<1>6. CASE User(t) \/ UserAdapter(t)
  BY <1>1, <1>6, Stutters DEF User, UserOn, UserOnDisconnect, UserReturn, UserPanic, UserJoin,
                              UserLeave, UserAdapter
<1> QED
  BY <1>2, <1>3, <1>4, <1>5, <1>6 DEF Step

LEMMA StepRefines ==
  ASSUME Shape, Ownership, [Next]_vars
  PROVE  Lifecycle!Next \/ UNCHANGED Lifecycle!vars
<1>1. CASE UNCHANGED vars
  BY <1>1, Stutters DEF vars, maps, ids, stores, adapter, history, BeingConnected, Connecting
<1>2. ASSUME NEW e \in Engines, Open(e)
      PROVE  UNCHANGED Lifecycle!vars
  BY <1>2, Stutters DEF Open, adapter, history, BeingConnected, Connecting
<1>3. ASSUME NEW t \in Tasks, Start(t) \/ Step(t) \/ User(t)
      PROVE  Lifecycle!Next \/ UNCHANGED Lifecycle!vars
  BY <1>3, RegisterAccepts, PublishPublishes, TakeCloses, CallCalls, UnregisterReleases,
     OthersStutter
<1> QED
  BY <1>1, <1>2, <1>3 DEF Next

\* The registry implements SocketLifecycle: behind all its maps, locks and
\* racing tasks a socket goes through its life once and in one direction, is
\* reachable while it is open, and its disconnect handler runs at most once,
\* after it is closed.
THEOREM RegistryImplementsLifecycle == Spec => Implements
<1>1. Shape /\ Ownership /\ [Next]_vars => [Lifecycle!Next]_Lifecycle!vars
  BY StepRefines
<1> QED
  BY <1>1, Initially, ShapeInvariant, OwnershipInvariant, PTL DEF Spec, Implements, Lifecycle!Spec

=============================================================================
