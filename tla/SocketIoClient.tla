--------------------------- MODULE SocketIoClient ---------------------------
(***************************************************************************)
(* rpress-client: one SocketIoClient, from connect to its end.  A reader   *)
(* and a writer task sit between the WebSocket and two bounded channels;   *)
(* a dispatch task runs the event handlers one after the other and hands   *)
(* each acknowledgement to the call that waits for it.                     *)
(*                                                                         *)
(* The server is the environment: it answers, or does not, in any order,   *)
(* pings, disconnects and closes; the connection may be lost with what is  *)
(* under way.  It always reads what the client writes.                     *)
(*                                                                         *)
(* Source: rpress-client/src/{client,transport}.rs.                        *)
(***************************************************************************)
EXTENDS SioPacket, FiniteSets

CONSTANTS
  Namespace,     \* the namespace the client connects to
  Auth,          \* the authentication data it connects with, if any
  AppCalls,      \* emits of the application
  HandlerCalls,  \* emits of an event handler
  Acked,         \* those of them that wait for an acknowledgement
  Cap,           \* capacity of the channels, 64
  MaxEvents,     \* bound: events of the server
  MaxPings,      \* bound: pings of the server
  MaxFaults      \* bound: refusals, disconnects and closes of the server, losses of the link

Calls == AppCalls \cup HandlerCalls

ASSUME CallsAssumption == AppCalls \cap HandlerCalls = {} /\ Acked \subseteq Calls /\ IsFiniteSet(Acked)

ASSUME CapAssumption == Cap \in Nat \ {0} /\ {MaxEvents, MaxPings, MaxFaults} \subseteq Nat

VARIABLES
  phase,      \* of connect_inner: opening, connecting, joining, running, failed
  connected,
  counter,    \* ack_counter
  pending,    \* ack_pending: the call behind each id
  call,       \* each call: its position, its id, and the call whose answer it got
  leaving,    \* disconnect: its position
  dispatch,   \* dispatch_loop: no, run, handler, ended
  reader,     \* reader_task: no, run, ended
  writer,     \* writer_task
  incoming,   \* the channel of the reader and the dispatcher
  outgoing,   \* the channel into the writer
  listening,  \* the application has called on
  missed,     \* events dispatched before that
  handled,    \* the events handed to the handler
  link,       \* the connection: up, lost
  down,       \* what is under way to the client
  server      \* the other side: see ServerInit

heard   == <<listening, missed, handled>>
client  == <<phase, connected, counter, pending, call, leaving, dispatch, reader, writer, incoming, outgoing,
             heard>>
network == <<link, down>>
vars    == <<client, network, server>>

\* An Engine.IO packet.
Frame(type) == [type |-> type]

\* Calls are told apart by the names of their events.
Data(c) == IF c \in AppCalls THEN Json("number", 7) ELSE Array(<<>>)

CallPacket(c, id) == EventPacket(Namespace, c, Data(c), IF c \in Acked THEN {id} ELSE {})

News(n) == EventPacket(Namespace, "news", Json("number", n), {})

\* The handler of an event answers with its name.
Answer(c) == Json("string", c)

Packets ==
  {ConnectPacket(Namespace, Auth), DisconnectPacket(Namespace), ConnectOk(Namespace, "sid"), ConnectError(Namespace)}
    \cup {News(n) : n \in 1..MaxEvents}
    \cup {CallPacket(c, id) : c \in Calls, id \in 0..Cardinality(Acked)}
    \cup {AckPacket(Namespace, id, Answer(c)) : c \in Calls, id \in 0..Cardinality(Acked)}

\* What is read from the text of a packet.
Read == [p \in Packets |-> Decode(Encode(p))]

Message(p) == [type |-> "MESSAGE", data |-> Read[p]]

\* What the server did: its state of the socket; the calls it has received and
\* not answered; how many events and pings it sent, and pongs it received; how
\* many of the events came before the answer to CONNECT; how often it failed.
ServerInit == [socket |-> "no", asked |-> {}, events |-> 0, early |-> 0, pings |-> 0, pongs |-> 0, faults |-> 0]

Init ==
  /\ phase = "opening"
  /\ connected = FALSE
  /\ counter = 0
  /\ pending = <<>>
  /\ call = [c \in Calls |-> [at |-> "idle", id |-> 0, got |-> {}]]
  /\ leaving = "no"
  /\ dispatch = "no"
  /\ reader = "no"
  /\ writer = "no"
  /\ incoming = <<>>
  /\ outgoing = <<>>
  /\ listening = FALSE
  /\ missed = 0
  /\ handled = <<>>
  /\ link = "up"
  /\ down = <<Frame("OPEN")>>
  /\ server = ServerInit

\* connect returned an error, or dispatch_loop ended: nobody receives.
ReceiverGone == phase = "failed" \/ dispatch = "ended"

Room(chan) == Len(chan) < Cap

-----------------------------------------------------------------------------
(* connect_inner. *)

\* transport::connect, from the first frame on.
Open ==
  /\ phase = "opening"
  /\ \/ /\ down # <<>>
        /\ phase' = "connecting" /\ reader' = "run" /\ writer' = "run"
        /\ down' = Tail(down)
     \/ /\ down = <<>> /\ link = "lost"
        /\ phase' = "failed"
        /\ UNCHANGED <<reader, writer, down>>
  /\ UNCHANGED <<connected, counter, pending, call, leaving, dispatch, incoming, outgoing, heard, link, server>>

SendConnect ==
  /\ phase = "connecting"
  /\ \/ /\ writer = "run" /\ Room(outgoing)
        /\ phase' = "joining"
        /\ outgoing' = Append(outgoing, Message(ConnectPacket(Namespace, Auth)))
     \/ /\ writer = "ended"
        /\ phase' = "failed"
        /\ UNCHANGED outgoing
  /\ UNCHANGED <<connected, counter, pending, call, leaving, dispatch, reader, writer, incoming, heard,
                 network, server>>

\* wait_for_connect drops every other packet.
WaitForConnect ==
  /\ phase = "joining" /\ incoming # <<>>
  /\ incoming' = Tail(incoming)
  /\ LET type == Head(incoming).data.type
     IN /\ phase' = CASE type = "CONNECT" -> "running" [] type = "CONNECT_ERROR" -> "failed" [] OTHER -> phase
        /\ connected' = (type = "CONNECT")
        /\ dispatch' = IF type = "CONNECT" THEN "run" ELSE dispatch
  /\ UNCHANGED <<counter, pending, call, leaving, reader, writer, outgoing, heard, network, server>>

\* Five seconds went by, or the reader is gone.
ConnectFails ==
  /\ phase = "joining"
  /\ phase' = "failed"
  /\ UNCHANGED <<connected, counter, pending, call, leaving, dispatch, reader, writer, incoming, outgoing,
                 heard, network, server>>

-----------------------------------------------------------------------------
(* transport.rs: the two tasks on the WebSocket. *)

\* Mutation: the packet is dropped when the channel is full.
ReaderForwardsOrDrops ==
  /\ reader = "run" /\ down # <<>> /\ Head(down).type \notin {"PING", "CLOSE"}
  /\ down' = Tail(down)
  /\ reader' = IF ReceiverGone THEN "ended" ELSE "run"
  /\ incoming' = IF ~ReceiverGone /\ Room(incoming) THEN Append(incoming, Head(down)) ELSE incoming
  /\ UNCHANGED <<phase, connected, counter, pending, call, leaving, dispatch, writer, outgoing, heard, link, server>>

ReaderForwards ==
  /\ reader = "run" /\ down # <<>> /\ Head(down).type \notin {"PING", "CLOSE"}
  /\ \/ ReceiverGone /\ reader' = "ended" /\ UNCHANGED incoming
     \/ ~ReceiverGone /\ Room(incoming) /\ incoming' = Append(incoming, Head(down)) /\ UNCHANGED reader
  /\ down' = Tail(down)
  /\ UNCHANGED <<phase, connected, counter, pending, call, leaving, dispatch, writer, outgoing, heard, link, server>>

\* Mutation: a ping is dropped like a packet nobody knows.
ReaderLeavesPing ==
  /\ reader = "run" /\ down # <<>> /\ Head(down).type = "PING"
  /\ down' = Tail(down)
  /\ UNCHANGED <<client, link, server>>

\* The answer to a ping goes through the same channel as the client's packets.
ReaderPongs ==
  /\ reader = "run" /\ down # <<>> /\ Head(down).type = "PING"
  /\ \/ writer = "ended" /\ reader' = "ended" /\ UNCHANGED outgoing
     \/ writer = "run" /\ Room(outgoing) /\ outgoing' = Append(outgoing, Frame("PONG")) /\ UNCHANGED reader
  /\ down' = Tail(down)
  /\ UNCHANGED <<phase, connected, counter, pending, call, leaving, dispatch, writer, incoming, heard, link, server>>

\* A close of Engine.IO or of the WebSocket, or the connection lost.
ReaderEnds ==
  /\ reader = "run"
  /\ \/ down # <<>> /\ Head(down).type = "CLOSE" /\ down' = Tail(down)
     \/ down = <<>> /\ link = "lost" /\ UNCHANGED down
  /\ reader' = "ended"
  /\ UNCHANGED <<phase, connected, counter, pending, call, leaving, dispatch, writer, incoming, outgoing,
                 heard, link, server>>

\* What the server makes of a frame, whenever it acts on it.
Receives(s, frame) ==
  IF frame.type = "PONG" THEN [s EXCEPT !.pongs = @ + 1]
  ELSE LET p == frame.data
       IN CASE p.type = "CONNECT" -> [s EXCEPT !.socket = "joining"]
            [] p.type = "DISCONNECT" -> [s EXCEPT !.socket = "left"]
            [] OTHER -> IF p.id = {} THEN s ELSE [s EXCEPT !.asked = @ \cup {p}]

WriterWrites ==
  /\ writer = "run" /\ outgoing # <<>> /\ link = "up"
  /\ outgoing' = Tail(outgoing)
  /\ server' = IF server.socket = "closed" THEN server ELSE Receives(server, Head(outgoing))
  /\ UNCHANGED <<phase, connected, counter, pending, call, leaving, dispatch, reader, writer, incoming,
                 heard, network>>

\* Its receiver goes with it; or nobody is left to send, once connect has failed.
WriterEnds ==
  /\ writer = "run"
  /\ \/ outgoing # <<>> /\ link = "lost"
     \/ outgoing = <<>> /\ phase = "failed" /\ reader = "ended"
  /\ writer' = "ended"
  /\ outgoing' = <<>>
  /\ UNCHANGED <<phase, connected, counter, pending, call, leaving, dispatch, reader, incoming, heard,
                 network, server>>

-----------------------------------------------------------------------------
(* Calls: emit, emit_with_ack_timeout, disconnect. *)

Ended(c) == call[c].at \in {"done", "answered", "refused", "failed", "timed_out"}

MayStart(c) ==
  /\ call[c].at = "idle" /\ phase = "running"
  /\ c \in HandlerCalls => dispatch = "handler"

\* Mutation: the id is read and not moved on.
CallStartsUnnumbered(c) ==
  /\ MayStart(c)
  /\ IF ~connected
     THEN call' = [call EXCEPT ![c].at = "refused"] /\ UNCHANGED pending
     ELSE /\ call' = [call EXCEPT ![c] = [at |-> "sending", id |-> counter, got |-> {}]]
          /\ pending' = IF c \in Acked THEN [i \in DOMAIN pending \cup {counter} |-> IF i = counter THEN c ELSE pending[i]]
                        ELSE pending
  /\ UNCHANGED <<phase, connected, counter, leaving, dispatch, reader, writer, incoming, outgoing, heard,
                 network, server>>

CallStarts(c) ==
  /\ MayStart(c)
  /\ IF ~connected
     THEN call' = [call EXCEPT ![c].at = "refused"] /\ UNCHANGED <<counter, pending>>
     ELSE IF c \in Acked
     THEN /\ call' = [call EXCEPT ![c] = [at |-> "sending", id |-> counter, got |-> {}]]
          /\ pending' = [i \in DOMAIN pending \cup {counter} |-> IF i = counter THEN c ELSE pending[i]]
          /\ counter' = counter + 1
     ELSE call' = [call EXCEPT ![c].at = "sending"] /\ UNCHANGED <<counter, pending>>
  /\ UNCHANGED <<phase, connected, leaving, dispatch, reader, writer, incoming, outgoing, heard, network, server>>

\* Not under the timeout of the call.  A call that fails leaves its id in pending.
CallSends(c) ==
  /\ call[c].at = "sending"
  /\ \/ writer = "ended" /\ call' = [call EXCEPT ![c].at = "failed"] /\ UNCHANGED outgoing
     \/ /\ writer = "run" /\ Room(outgoing)
        /\ outgoing' = Append(outgoing, Message(CallPacket(c, call[c].id)))
        /\ call' = [call EXCEPT ![c].at = IF c \in Acked THEN "waiting" ELSE "done"]
  /\ UNCHANGED <<phase, connected, counter, pending, leaving, dispatch, reader, writer, incoming, heard,
                 network, server>>

\* Mutation: the acknowledgement is waited for without a timeout.
CallWaitsOn(c) == FALSE /\ UNCHANGED vars

\* So does one whose acknowledgement does not come in time.
CallTimesOut(c) ==
  /\ call[c].at = "waiting"
  /\ call' = [call EXCEPT ![c].at = "timed_out"]
  /\ UNCHANGED <<phase, connected, counter, pending, leaving, dispatch, reader, writer, incoming, outgoing,
                 heard, network, server>>

Leave ==
  /\ phase = "running" /\ connected /\ leaving = "no"
  /\ leaving' = "sending"
  /\ UNCHANGED <<phase, connected, counter, pending, call, dispatch, reader, writer, incoming, outgoing,
                 heard, network, server>>

\* The WebSocket and the tasks stay.
LeaveSends ==
  /\ leaving = "sending" /\ (writer = "ended" \/ Room(outgoing))
  /\ outgoing' = IF writer = "ended" THEN outgoing ELSE Append(outgoing, Message(DisconnectPacket(Namespace)))
  /\ leaving' = "done"
  /\ connected' = FALSE
  /\ UNCHANGED <<phase, counter, pending, call, dispatch, reader, writer, incoming, heard, network, server>>

-----------------------------------------------------------------------------
(* dispatch_loop. *)

\* The loop takes a message of one type.
Receive(type) ==
  /\ dispatch = "run" /\ incoming # <<>>
  /\ Head(incoming).data.type = type
  /\ incoming' = Tail(incoming)

\* The loop awaits the handler; what the handler awaits, it awaits.
DispatchEvent ==
  /\ Receive("EVENT")
  /\ listening /\ "news" \in EventName(Head(incoming).data)
  /\ handled' = Append(handled, CHOOSE args \in EventArgs(Head(incoming).data) : TRUE)
  /\ dispatch' = "handler"
  /\ UNCHANGED <<phase, connected, counter, pending, call, leaving, reader, writer, outgoing, listening,
                 missed, network, server>>

\* No handler has this name yet.
DispatchUnheard ==
  /\ Receive("EVENT")
  /\ ~listening
  /\ missed' = missed + 1
  /\ UNCHANGED <<phase, connected, counter, pending, call, leaving, dispatch, reader, writer, outgoing,
                 listening, handled, network, server>>

\* connect has to return before a handler can be registered.
On ==
  /\ phase = "running" /\ ~listening
  /\ listening' = TRUE
  /\ UNCHANGED <<phase, connected, counter, pending, call, leaving, dispatch, reader, writer, incoming,
                 outgoing, missed, handled, network, server>>

HandlerReturns ==
  /\ dispatch = "handler"
  /\ \A c \in HandlerCalls : call[c].at = "idle" \/ Ended(c)
  /\ dispatch' = "run"
  /\ UNCHANGED <<phase, connected, counter, pending, call, leaving, reader, writer, incoming, outgoing,
                 heard, network, server>>

\* An answer that nobody waits for any more is dropped with its id.
DispatchAck ==
  /\ Receive("ACK")
  /\ LET p   == Head(incoming).data
         ids == p.id \cap DOMAIN pending
     IN /\ pending' = [i \in DOMAIN pending \ ids |-> pending[i]]
        /\ call' = [c \in Calls |->
             IF c \in {pending[i] : i \in ids} /\ call[c].at \in {"sending", "waiting"}
             THEN [call[c] EXCEPT !.at = "answered", !.got = p.data]
             ELSE call[c]]
  /\ UNCHANGED <<phase, connected, counter, leaving, dispatch, reader, writer, outgoing, heard, network, server>>

DispatchEnds ==
  /\ \/ Receive("DISCONNECT")
     \/ dispatch = "run" /\ incoming = <<>> /\ reader = "ended" /\ UNCHANGED incoming
  /\ dispatch' = "ended"
  /\ connected' = FALSE
  /\ UNCHANGED <<phase, counter, pending, call, leaving, reader, writer, outgoing, heard, network, server>>

-----------------------------------------------------------------------------
(* The server and the connection. *)

Failed(s) == [s EXCEPT !.faults = @ + 1]

ServerAct(frame) ==
  /\ link = "up" /\ server.socket # "closed"
  /\ down' = Append(down, frame)
  /\ UNCHANGED <<client, link>>

ServerJoins ==
  /\ server.socket = "joining"
  /\ \/ ServerAct(Message(ConnectOk(Namespace, "sid"))) /\ server' = [server EXCEPT !.socket = "joined", !.early = server.events]
     \/ ServerAct(Message(ConnectError(Namespace))) /\ server' = Failed([server EXCEPT !.socket = "left"])

\* A broadcast may come before the answer to CONNECT (handler.rs:319-336).
ServerEmits ==
  /\ server.socket \in {"joining", "joined"} /\ server.events < MaxEvents
  /\ ServerAct(Message(News(server.events + 1)))
  /\ server' = [server EXCEPT !.events = @ + 1]

ServerAnswers(p) ==
  /\ p \in server.asked
  /\ \E c \in EventName(p), n \in p.id : ServerAct(Message(AckPacket(p.namespace, n, Answer(c))))
  /\ server' = [server EXCEPT !.asked = @ \ {p}]

ServerPings ==
  /\ server.pings < MaxPings
  /\ ServerAct(Frame("PING"))
  /\ server' = [server EXCEPT !.pings = @ + 1]

ServerDisconnects ==
  /\ server.socket = "joined"
  /\ ServerAct(Message(DisconnectPacket(Namespace)))
  /\ server.faults < MaxFaults
  /\ server' = Failed([server EXCEPT !.socket = "left"])

ServerCloses ==
  /\ server.faults < MaxFaults
  /\ ServerAct(Frame("CLOSE"))
  /\ server' = Failed([server EXCEPT !.socket = "closed"])

\* Whatever was under way may be lost, on the way to the server with what it would have done.
LinkLost ==
  /\ link = "up" /\ server.faults < MaxFaults
  /\ link' = "lost"
  /\ \E n \in 0..Len(down) : down' = SubSeq(down, 1, n)
  /\ server' = Failed(server)
  /\ UNCHANGED client

Environment ==
  \/ ServerJoins \/ ServerEmits \/ ServerPings \/ ServerDisconnects \/ ServerCloses \/ LinkLost
  \/ \E p \in server.asked : ServerAnswers(p)

ConnectNext == Open \/ SendConnect \/ WaitForConnect \/ ConnectFails

ReaderNext == ReaderForwards \/ ReaderPongs \/ ReaderEnds

WriterNext == WriterWrites \/ WriterEnds

DispatchNext == DispatchEvent \/ DispatchUnheard \/ HandlerReturns \/ DispatchAck \/ DispatchEnds

Next ==
  \/ ConnectNext \/ ReaderNext \/ WriterNext \/ DispatchNext \/ On \/ Leave \/ LeaveSends \/ Environment
  \/ \E c \in Calls : CallStarts(c) \/ CallSends(c) \/ CallTimesOut(c)

Spec == Init /\ [][Next]_vars

\* The tasks run, timers fire; the server and the network do as they please.
FairSpec ==
  /\ Spec
  /\ WF_vars(ConnectNext) /\ WF_vars(ReaderNext) /\ WF_vars(WriterNext) /\ WF_vars(DispatchNext)
  /\ WF_vars(LeaveSends)
  /\ \A c \in Calls : WF_vars(CallSends(c)) /\ WF_vars(CallTimesOut(c))

-----------------------------------------------------------------------------
TypeOK ==
  /\ phase \in {"opening", "connecting", "joining", "running", "failed"}
  /\ connected \in BOOLEAN /\ listening \in BOOLEAN
  /\ missed \in Nat
  /\ counter \in Nat
  /\ DOMAIN pending \subseteq Nat
  /\ \A i \in DOMAIN pending : pending[i] \in Acked
  /\ \A c \in Calls :
       /\ call[c].at \in {"idle", "sending", "waiting", "done", "answered", "refused", "failed", "timed_out"}
       /\ call[c].id \in Nat
       /\ call[c].got \subseteq {Array(<<Answer(d)>>) : d \in Calls}
  /\ leaving \in {"no", "sending", "done"}
  /\ dispatch \in {"no", "run", "handler", "ended"}
  /\ {reader, writer} \subseteq {"no", "run", "ended"}
  /\ \A chan \in {incoming, outgoing} : Len(chan) <= Cap
  /\ link \in {"up", "lost"}

\* Whoever waits for an acknowledgement gets that of its own event, and every id
\* is used once: calls that overlap, of the application and of a handler, or
\* that gave up before the answer came (client.rs:264-299).
AcksMatch ==
  /\ \A c \in Calls : call[c].at = "answered" => call[c].got = {Array(<<Answer(c)>>)}
  /\ \A c \in Acked : call[c].at \in {"sending", "waiting"} =>
       call[c].id \in DOMAIN pending /\ pending[call[c].id] = c

\* The handlers get the server's events in its order, none left out and none
\* twice, from the answer to CONNECT and the call of on; what came before is
\* dropped (client.rs:164-189, 204-212, transport.rs:122-170).
HandledInOrder ==
  handled = [i \in 1..Len(handled) |-> <<Json("number", server.early + missed + i)>>]

\* No call is left hanging by a silent server, a lost connection, a disconnect
\* or by standing in a handler, where its answer cannot reach it: the
\* dispatcher that would deliver it waits for the handler (client.rs:191-218).
CallsEnd == \A c \in Calls : call[c].at \in {"sending", "waiting"} ~> Ended(c)

\* Every ping is answered, whatever the handlers wait for and after a disconnect
\* too, unless the connection or the reader ended: else the server drops the
\* client (transport.rs:147-156).
PingsAnswered ==
  \A n \in 1..MaxPings :
    server.pings = n ~>
      \/ link = "lost" \/ server.socket = "closed" \/ reader = "ended"
      \/ server.pongs >= n

=============================================================================
