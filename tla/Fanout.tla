------------------------------- MODULE Fanout -------------------------------
(***************************************************************************)
(* Broadcasts: RoomManager sends a packet into the bounded channel of each *)
(* member of a room or of the namespace, while sockets come, join, leave   *)
(* and go.                                                                 *)
(*                                                                         *)
(* Its two maps are behind tokio RwLocks, which are fair: requests are     *)
(* granted in the order they come, readers together, a writer alone.  A    *)
(* write is over before its task awaits anything; a broadcast holds its    *)
(* read locks while it waits for room in one channel after the other.      *)
(*                                                                         *)
(* Source: engine/src/core/socketio/{room,socket,handler}.rs.              *)
(***************************************************************************)
EXTENDS Naturals, Sequences, FiniteSets, SequencesExt

CONSTANTS
  Handlers,  \* tasks that broadcast for a socket, as its event handlers do
  Apps,      \* tasks that call RpressIo::emit
  Sockets,   \* sockets of one namespace, each of a session of its own
  WebSockets,\* those whose session is a WebSocket or on the way to be one
  Rooms,     \* rooms the application's handlers join and leave
  MaxRooms,  \* bound: how many rooms a broadcast names
  Cap,       \* capacity of a channel, 64 in create_session
  None       \* nobody is excluded

ASSUME CapAssumption == Cap \in Nat \ {0} /\ MaxRooms \in Nat

Emitters == Handlers \cup Apps

ASSUME AgentAssumption ==
  /\ Handlers \cap Apps = {} /\ Emitters \cap Sockets = {} /\ Rooms \cap Sockets = {}
  /\ None \notin Sockets /\ WebSockets \subseteq Sockets

RoomNames == Rooms \cup Sockets

Locks == {"rooms", "senders"}

VARIABLES
  members,   \* RoomManager.rooms: room x socket
  senders,   \* RoomManager.senders
  held,      \* the emitters that hold each lock for reading
  queue,     \* who waits for each lock: emitters to read, sockets to write
  pc,        \* position of each emitter, and of the task that works for a socket
  arg,       \* the room a socket's task joins or leaves
  job,       \* the broadcast an emitter is at
  todo,      \* the members it has still to send to
  chan,      \* how many packets are in the channel of each socket's session
  loop,      \* its session loop: receiving, waiting with a ping, in handle_disconnect, or gone
  copies,    \* history: how often a broadcast was sent to each socket so far
  owed       \* history: the memberships an emitter owes a packet, see Watch

locks == <<held, queue>>
emitting == <<job, todo>>
delivery == <<chan, loop, copies>>
vars == <<members, senders, locks, pc, arg, emitting, delivery, owed>>

\* The target of a broadcast: how many rooms it names, none for the namespace, and
\* those it has still to come to.
NoJob == [named |-> 0, excluded |-> None, goal |-> <<>>]

Init ==
  /\ members = {} /\ senders = {}
  /\ held = [l \in Locks |-> {}] /\ queue = [l \in Locks |-> <<>>]
  /\ pc = [a \in Emitters \cup Sockets |-> IF a \in Emitters THEN "idle" ELSE "new"]
  /\ arg = [s \in Sockets |-> None]
  /\ job = [e \in Emitters |-> NoJob]
  /\ todo = [e \in Emitters |-> {}]
  /\ chan = [s \in Sockets |-> 0]
  /\ loop = [s \in Sockets |-> "recv"]
  /\ copies = [e \in Emitters |-> [s \in Sockets |-> 0]]
  /\ owed = [e \in Emitters |-> {}]

-----------------------------------------------------------------------------
(* The locks                                                               *)

Ask(a, l) == queue' = [queue EXCEPT ![l] = Append(@, a)]

First(a, l) == queue[l] # <<>> /\ Head(queue[l]) = a

Granted(l) == queue' = [queue EXCEPT ![l] = Tail(@)]

\* A writer's turn; it is done with the lock in the same step.
MayWrite(s, l) == First(s, l) /\ held[l] = {}

-----------------------------------------------------------------------------
(* broadcast_room, broadcast_namespace                                     *)

\* RpressIo::emit and Socket::broadcast are for the namespace, Socket::to for one
\* room, and each BroadcastBuilder::to adds another, whichever; a socket excludes
\* itself.
Lists == SeqOf(RoomNames, MaxRooms)

Targets(e) == IF e \in Apps THEN {<< <<>>, None >>} ELSE Lists \X Sockets

Named(list, r) == list = <<>> \/ \E i \in DOMAIN list : list[i] = r

Audience(list) == {m[2] : m \in {n \in members : Named(list, n[1])}}

\* The sockets with a sender and a session loop.
Served == {s \in senders : loop[s] # "done"}

\* History: the memberships in a room that a broadcast names (any, if it is for
\* the namespace) that have lasted since it began, as has the member's session,
\* while nothing was sent to the member yet.
Watch ==
  owed' = [e \in Emitters |->
    {m \in owed[e] : pc'[e] # "idle" /\ m \in members' /\ m[2] \in Served' /\ copies'[e][m[2]] = 0}]

\* The sockets whose connection handler has been called.
Known(s) == pc[s] \notin {"new", "register"} /\ arg[s] # s

Start(e, list, excluded) ==
  /\ pc[e] = "idle"
  /\ excluded # None => Known(excluded)
  /\ \A i \in DOMAIN list : list[i] \in Sockets => Known(list[i])
  /\ job' = [job EXCEPT ![e] = [named |-> Len(list), excluded |-> excluded, goal |-> list]]
  /\ pc' = [pc EXCEPT ![e] = "members"]
  /\ Ask(e, "rooms")
  /\ owed' = [owed EXCEPT ![e] = {m \in members : Named(list, m[1]) /\ m[2] \in Served \ {excluded}}]
  /\ UNCHANGED <<members, senders, held, arg, todo, delivery>>

\* The members of the room are copied and the lock released; a broadcast to the
\* namespace keeps it.
ReadMembers(e) ==
  /\ pc[e] = "members" /\ First(e, "rooms")
  /\ IF job[e].named = 0
     THEN /\ todo' = [todo EXCEPT ![e] = Audience(<<>>)]
          /\ held' = [held EXCEPT !["rooms"] = @ \cup {e}]
          /\ UNCHANGED job
     ELSE /\ todo' = [todo EXCEPT ![e] = Audience(<<Head(job[e].goal)>>)]
          /\ job' = [job EXCEPT ![e].goal = Tail(@)]
          /\ UNCHANGED held
  /\ queue' = [queue EXCEPT !["rooms"] = Tail(@), !["senders"] = Append(@, e)]
  /\ pc' = [pc EXCEPT ![e] = "senders"]
  /\ UNCHANGED <<members, senders, arg, delivery>> /\ Watch

\* With the senders locked, those without one and the excluded one are skipped.
ReadSenders(e) ==
  /\ pc[e] = "senders" /\ First(e, "senders")
  /\ todo' = [todo EXCEPT ![e] = (@ \cap senders) \ {job[e].excluded}]
  /\ held' = [held EXCEPT !["senders"] = @ \cup {e}]
  /\ Granted("senders")
  /\ pc' = [pc EXCEPT ![e] = "send"]
  /\ UNCHANGED <<members, senders, arg, job, delivery>> /\ Watch

\* Mutation: a socket may be sent to again.
SendAgain(e, s) ==
  /\ pc[e] = "send" /\ s \in todo[e] /\ copies[e][s] < 2
  /\ loop[s] # "done" /\ chan[s] < Cap
  /\ chan' = [chan EXCEPT ![s] = @ + 1]
  /\ copies' = [copies EXCEPT ![e][s] = @ + 1]
  /\ todo' \in {todo, [todo EXCEPT ![e] = @ \ {s}]}
  /\ UNCHANGED <<members, senders, locks, pc, arg, job, loop>> /\ Watch

\* tx.send waits for room.
SendTo(e, s) ==
  /\ pc[e] = "send" /\ s \in todo[e]
  /\ loop[s] # "done" /\ chan[s] < Cap
  /\ chan' = [chan EXCEPT ![s] = @ + 1]
  /\ copies' = [copies EXCEPT ![e][s] = @ + 1]
  /\ todo' = [todo EXCEPT ![e] = @ \ {s}]
  /\ UNCHANGED <<members, senders, locks, pc, arg, job, loop>> /\ Watch

\* Mutation: the first failed send ends the broadcast.
SendFailsStops(e, s) ==
  /\ pc[e] = "send" /\ s \in todo[e] /\ loop[s] = "done"
  /\ todo' = [todo EXCEPT ![e] = {}]
  /\ UNCHANGED <<members, senders, locks, pc, arg, job, delivery>> /\ Watch

\* The receiver is gone: the error is ignored.
SendFails(e, s) ==
  /\ pc[e] = "send" /\ s \in todo[e] /\ loop[s] = "done"
  /\ todo' = [todo EXCEPT ![e] = @ \ {s}]
  /\ UNCHANGED <<members, senders, locks, pc, arg, job, delivery>> /\ Watch

\* Mutation: the senders are kept locked from one room to the next.
NextRoomKeeps(e) ==
  /\ pc[e] = "send" /\ todo[e] = {} /\ job[e].goal # <<>>
  /\ pc' = [pc EXCEPT ![e] = "members"]
  /\ Ask(e, "rooms")
  /\ UNCHANGED <<members, senders, held, arg, emitting, delivery>> /\ Watch

\* All members of a room are served: the lock is released, the next room is next.
NextRoom(e) ==
  /\ pc[e] = "send" /\ todo[e] = {} /\ job[e].goal # <<>>
  /\ held' = [held EXCEPT !["senders"] = @ \ {e}]
  /\ pc' = [pc EXCEPT ![e] = "members"]
  /\ Ask(e, "rooms")
  /\ UNCHANGED <<members, senders, arg, emitting, delivery>> /\ Watch

\* The broadcast is over.
Finish(e) ==
  /\ pc[e] = "send" /\ todo[e] = {} /\ job[e].goal = <<>>
  /\ held' = [l \in Locks |-> held[l] \ {e}]
  /\ job' = [job EXCEPT ![e] = NoJob]
  /\ copies' = [copies EXCEPT ![e] = [s \in Sockets |-> 0]]
  /\ pc' = [pc EXCEPT ![e] = "idle"]
  /\ UNCHANGED <<members, senders, queue, arg, todo, chan, loop>> /\ Watch

-----------------------------------------------------------------------------
(* A socket's task: CONNECT, then the application's joins and leaves, then  *)
(* cleanup_socket, by another task or by the session loop itself            *)

Work(s, from, to, l) == pc[s] = from /\ pc' = [pc EXCEPT ![s] = to] /\ Ask(s, l)

Connect(s) ==
  /\ Work(s, "new", "register", "senders")
  /\ UNCHANGED <<members, senders, held, arg, emitting, delivery>> /\ Watch

RegisterSender(s) ==
  /\ pc[s] = "register" /\ MayWrite(s, "senders")
  /\ senders' = senders \cup {s}
  /\ queue' = [queue EXCEPT !["senders"] = Tail(@), !["rooms"] = Append(@, s)]
  /\ pc' = [pc EXCEPT ![s] = "join"] /\ arg' = [arg EXCEPT ![s] = s]
  /\ UNCHANGED <<members, held, emitting, delivery>> /\ Watch

Join(s) ==
  /\ pc[s] = "join" /\ MayWrite(s, "rooms")
  /\ members' = members \cup {<<arg[s], s>>}
  /\ Granted("rooms")
  /\ pc' = [pc EXCEPT ![s] = "live"] /\ arg' = [arg EXCEPT ![s] = None]
  /\ UNCHANGED <<senders, held, emitting, delivery>> /\ Watch

Leave(s) ==
  /\ pc[s] = "leave" /\ MayWrite(s, "rooms")
  /\ members' = members \ {<<arg[s], s>>}
  /\ Granted("rooms")
  /\ pc' = [pc EXCEPT ![s] = "live"] /\ arg' = [arg EXCEPT ![s] = None]
  /\ UNCHANGED <<senders, held, emitting, delivery>> /\ Watch

AskJoin(s, r) ==
  /\ Work(s, "live", "join", "rooms") /\ arg' = [arg EXCEPT ![s] = r]
  /\ <<r, s>> \notin members
  /\ UNCHANGED <<members, senders, held, emitting, delivery>> /\ Watch

AskLeave(s, r) ==
  /\ Work(s, "live", "leave", "rooms") /\ arg' = [arg EXCEPT ![s] = r]
  /\ <<r, s>> \in members
  /\ UNCHANGED <<members, senders, held, emitting, delivery>> /\ Watch

\* Another task cleans up, while the session loop goes on to receive.
Close(s) ==
  /\ Work(s, "live", "leave_all", "rooms")
  /\ UNCHANGED <<members, senders, held, arg, emitting, delivery>> /\ Watch

\* The session loop finds the pong overdue and cleans up itself.
Timeout(s) ==
  /\ loop[s] = "recv" /\ Work(s, "live", "leave_all", "rooms")
  /\ loop' = [loop EXCEPT ![s] = "cleanup"]
  /\ UNCHANGED <<members, senders, held, arg, emitting, chan, copies>> /\ Watch

\* leave_all_rooms leaves the rooms the application joined, one after the other.
CleanLeave(s) ==
  /\ pc[s] = "leave_all" /\ MayWrite(s, "rooms")
  /\ \E r \in Rooms :
       /\ <<r, s>> \in members
       /\ members' = members \ {<<r, s>>}
  /\ queue' = [queue EXCEPT !["rooms"] = Append(Tail(@), s)]
  /\ UNCHANGED <<senders, held, pc, arg, emitting, delivery>> /\ Watch

\* leave_all takes it out of what is left, its own room.
CleanLeaveAll(s) ==
  /\ pc[s] = "leave_all" /\ MayWrite(s, "rooms")
  /\ \A r \in Rooms : <<r, s>> \notin members
  /\ members' = {m \in members : m[2] # s}
  /\ queue' = [queue EXCEPT !["rooms"] = Tail(@), !["senders"] = Append(@, s)]
  /\ pc' = [pc EXCEPT ![s] = "unregister"]
  /\ UNCHANGED <<senders, held, arg, emitting, delivery>> /\ Watch

CleanUnregister(s) ==
  /\ pc[s] = "unregister" /\ MayWrite(s, "senders")
  /\ senders' = senders \ {s}
  /\ Granted("senders")
  /\ pc' = [pc EXCEPT ![s] = "gone"]
  /\ UNCHANGED <<members, held, arg, emitting, delivery>> /\ Watch

-----------------------------------------------------------------------------
(* run_session_loop                                                        *)

LoopRecv(s) ==
  /\ loop[s] = "recv" /\ chan[s] > 0
  /\ chan' = [chan EXCEPT ![s] = @ - 1]
  /\ UNCHANGED <<members, senders, locks, pc, arg, emitting, loop, copies>> /\ Watch

\* A tick of a WebSocket's heartbeat: the loop sends a ping, through the channel
\* that only it receives from.  If that is full it waits, and so nobody receives.
LoopPing(s) ==
  /\ s \in WebSockets /\ loop[s] = "recv"
  /\ IF chan[s] < Cap
     THEN chan' = [chan EXCEPT ![s] = @ + 1] /\ UNCHANGED loop
     ELSE loop' = [loop EXCEPT ![s] = "ping"] /\ UNCHANGED chan
  /\ UNCHANGED <<members, senders, locks, pc, arg, emitting, copies>> /\ Watch

\* The sockets map has the socket between its CONNECT and its cleanup.
Listed(s) == pc[s] \in {"live", "leave"} \/ (pc[s] = "join" /\ arg[s] # s)

EndLoop(s) == loop' = [loop EXCEPT ![s] = "done"] /\ chan' = [chan EXCEPT ![s] = 0]

\* A task closes the session: the one that cleaned the socket up, or another one
\* that does not find it in the map and so removes the session at once.  The loop
\* ends, and the channel goes with what is in it.
SessionRemoved(s) ==
  /\ loop[s] = "recv" /\ pc[s] # "new" /\ ~Listed(s)
  /\ EndLoop(s)
  /\ UNCHANGED <<members, senders, locks, pc, arg, emitting, copies>> /\ Watch

\* The loop that cleaned up itself returns.
LoopReturns(s) ==
  /\ loop[s] = "cleanup" /\ pc[s] = "gone"
  /\ EndLoop(s)
  /\ UNCHANGED <<members, senders, locks, pc, arg, emitting, copies>> /\ Watch

-----------------------------------------------------------------------------
Broadcast(e) == \/ ReadMembers(e) \/ ReadSenders(e) \/ NextRoom(e) \/ Finish(e)
                \/ \E s \in Sockets : SendTo(e, s) \/ SendFails(e, s)

Granting(s) == RegisterSender(s) \/ Join(s) \/ Leave(s) \/ CleanLeave(s)
               \/ CleanLeaveAll(s) \/ CleanUnregister(s)

\* What the server does by itself.
Server == \/ \E e \in Emitters : Broadcast(e)
          \/ \E s \in Sockets : Granting(s) \/ LoopRecv(s) \/ LoopReturns(s)

Calls(s) == Connect(s) \/ Close(s) \/ Timeout(s) \/ LoopPing(s) \/ SessionRemoved(s)
            \/ \E r \in Rooms : AskJoin(s, r) \/ AskLeave(s, r)

Next ==
  \/ \E e \in Emitters : \E t \in Targets(e) : Start(e, t[1], t[2])
  \/ Server
  \/ \E s \in Sockets : Calls(s)

Spec == Init /\ [][Next]_vars

-----------------------------------------------------------------------------
(* Properties                                                              *)

Positions == {"idle", "members", "senders", "send", "new", "register", "join",
              "leave", "live", "leave_all", "unregister", "gone"}

TypeOK ==
  /\ members \subseteq RoomNames \X Sockets /\ senders \subseteq Sockets
  /\ held \in [Locks -> SUBSET Emitters]
  /\ queue \in [Locks -> Seq(Emitters \cup Sockets)]
  /\ pc \in [Emitters \cup Sockets -> Positions]
  /\ arg \in [Sockets -> RoomNames \cup {None}]
  /\ job \in [Emitters -> [named : Nat, excluded : Sockets \cup {None}, goal : Seq(RoomNames)]]
  /\ todo \in [Emitters -> SUBSET Sockets]
  /\ chan \in [Sockets -> 0..Cap]
  /\ loop \in [Sockets -> {"recv", "ping", "cleanup", "done"}]
  /\ copies \in [Emitters -> [Sockets -> Nat]]
  /\ owed \in [Emitters -> SUBSET (RoomNames \X Sockets)]

\* However many rooms a socket is in and however membership changes while the
\* broadcast goes on, it gets one copy, or one for each room named by to().
NoDuplicates ==
  \A e \in Emitters, s \in Sockets :
    copies[e][s] <= IF job[e].named = 0 THEN 1 ELSE job[e].named - Len(job[e].goal)

\* A broadcast that ends owes nobody a packet: it has reached everybody who was,
\* all the time, in one and the same of the rooms it names, whoever else came,
\* left, or went with its channel in the middle of it.
ReachesSteady ==
  [][\A e \in Emitters : pc[e] = "send" /\ pc'[e] = "idle" => owed[e] = {}]_vars

\* Work is under way: a broadcast, or a task that waits for a lock.
Busy == \/ \E e \in Emitters : pc[e] # "idle"
        \/ \E s \in Sockets : pc[s] \notin {"new", "live", "gone"}

\* A broadcast waits for a channel which nobody receives from: its session loop
\* waits for the same channel with a ping, or is busy with a cleanup of its own.
Blocked == \E e \in Emitters, s \in Sockets :
             pc[e] = "send" /\ s \in todo[e] /\ chan[s] = Cap /\ loop[s] \in {"ping", "cleanup"}

\* Somebody need not wait: for a lock, for a channel or for anything else.  A
\* broadcast need not if none of the channels it has still to send to is full:
\* then the order in which it comes to them does not matter.
MayGoOn ==
  \/ \E e \in Emitters :
       \/ pc[e] = "members" /\ First(e, "rooms")
       \/ pc[e] = "senders" /\ First(e, "senders")
       \/ pc[e] = "send" /\ \A s \in todo[e] : loop[s] = "done" \/ chan[s] < Cap
  \/ \E s \in Sockets :
       \/ pc[s] \in {"register", "unregister"} /\ MayWrite(s, "senders")
       \/ pc[s] \in {"join", "leave", "leave_all"} /\ MayWrite(s, "rooms")
       \/ loop[s] = "recv" /\ chan[s] > 0
       \/ loop[s] = "cleanup" /\ pc[s] = "gone"

\* Broadcasts, cleanups and session loops do not wait for each other in a circle,
\* through the two locks and the channels, whoever waits in whatever order; but for
\* the two circles of a channel that fills up while its own loop does not receive.
NoCircle == Busy => MayGoOn \/ Blocked

\* So the server comes to a standstill only in a broadcast that waits for such a
\* session loop (one case is below).
NoStandstill == NoCircle /\ (MayGoOn => ENABLED Server)

-----------------------------------------------------------------------------
(* What comments of the source say and the code does not keep.             *)

\* room.rs:20-21: each channel is registered "so that broadcasts can fan-out
\* packets to all members of a room efficiently".  Says: whatever the others do,
\* a broadcast that is under way can go on.
FansOut == Busy => ENABLED Server

=============================================================================
