---------------------------- MODULE EngineSession ----------------------------
(***************************************************************************)
(* The way of a packet to one client: one Engine.IO session, from the      *)
(* bounded channel that sockets and broadcasts send into, through the      *)
(* session loop and the poll buffer, to a polling GET or the writer task   *)
(* of a WebSocket.                                                         *)
(*                                                                         *)
(* The poll buffer is announced with tokio's Notify: notify_one wakes the  *)
(* consumer that has waited longest, or leaves one permit for the next to  *)
(* come.  Polling GETs and WebSocket writers wait on the same Notify, and  *)
(* whoever is woken takes the whole buffer.                                *)
(*                                                                         *)
(* The session map is a DashMap.  The session loop and a WebSocket reader  *)
(* keep a reference into it across their awaits; whoever wants to change   *)
(* or remove the session waits for them.                                   *)
(*                                                                         *)
(* Source: engine/src/core/socketio/{handler,engine_io}.rs.                *)
(***************************************************************************)
EXTENDS Naturals, Sequences

CONSTANTS
  Gets,         \* polling GETs, one at a time in each slot
  Writers,      \* WebSocket connections of the session: its writer and reader
  Cap,          \* capacity of the channel, 64 in create_session
  MaxMessages,  \* bound: messages sent to the client
  MaxControls   \* bound: pings and pongs put into the buffer or the channel

ASSUME CapAssumption == Cap \in Nat \ {0}

ASSUME BoundsAssumption == MaxMessages \in Nat /\ MaxControls \in Nat

ASSUME ConsumersAssumption == Gets \cap Writers = {}

Consumers == Gets \cup Writers

\* A message is told apart by its place in the order of the sends.
Packet == [kind : {"message", "ping", "pong", "probe"}, id : Nat]

Message(i) == [kind |-> "message", id |-> i]

Control(kind) == [kind |-> kind, id |-> 0]

VARIABLES
  open,       \* the session is in the session store
  closing,    \* handle_disconnect is at work on the session
  removing,   \* one has come to remove_session
  transport,  \* EioSession.transport
  chan,       \* the channel: packets sent and not yet received by the loop
  loop,       \* position of the session loop
  carried,    \* the packet the session loop is putting into the buffer
  buffer,     \* poll_buffer
  permit,     \* poll_notify: a stored permit
  waiters,    \* poll_notify: the consumers that wait, longest first
  pc,         \* position of each consumer
  hand,       \* what a consumer took from the buffer and has not passed on
  got,        \* what each connection delivered to the client
  reader,     \* position of each WebSocket's reader
  sent,       \* how many messages were sent
  lost,       \* messages dropped on the way
  controls    \* how many pings and pongs were made

vars == <<open, closing, removing, transport, chan, loop, carried, buffer,
          permit, waiters, pc, hand, got, reader, sent, lost, controls>>

Init ==
  /\ open = TRUE /\ closing = FALSE /\ removing = FALSE
  /\ chan = <<>> /\ loop = "select" /\ carried = <<>>
  /\ buffer = <<>> /\ permit = FALSE /\ waiters = <<>>
  /\ hand = [c \in Consumers |-> <<>>]
  /\ got = [c \in Consumers |-> <<>>]
  /\ sent = 0 /\ lost = {} /\ controls = 0
  /\ \/ /\ transport = "polling"        \* handle_polling_handshake
        /\ pc = [c \in Consumers |-> "idle"]
        /\ reader = [w \in Writers |-> "off"]
     \/ \E w \in Writers :              \* a direct WebSocket connection
          /\ transport = "websocket"
          /\ pc = [c \in Consumers |-> IF c = w THEN "arm" ELSE "idle"]
          /\ reader = [v \in Writers |-> IF v = w THEN "open" ELSE "off"]

\* The messages among the packets of a sequence.
Ids(q) == {q[i].id : i \in {j \in DOMAIN q : q[j].kind = "message"}}

\* References into the session map, held across an await.
LoopHolds == loop \in {"push", "notify", "ping"}
ReaderHolds(w) == reader[w] \in {"pong", "probe", "notify"}
Referenced == LoopHolds \/ \E w \in Writers : ReaderHolds(w)

\* Notify::notify_one.
NotifyOne ==
  IF waiters = <<>>
  THEN permit' = TRUE /\ UNCHANGED <<waiters, pc>>
  ELSE /\ pc' = [pc EXCEPT ![Head(waiters)] = "drain"]
       /\ waiters' = Tail(waiters)
       /\ UNCHANGED permit

\* A consumer that waits is taken out of the queue.
Forget(c) ==
  \E i \in DOMAIN waiters :
    /\ waiters[i] = c
    /\ waiters' = SubSeq(waiters, 1, i - 1) \o SubSeq(waiters, i + 1, Len(waiters))

-----------------------------------------------------------------------------
(* Senders: Socket::emit, an ack, connect_ok, a broadcast                  *)

\* tx.send waits for room; once the loop has gone it fails and is ignored.
Send ==
  /\ sent < MaxMessages
  /\ loop # "done" /\ Len(chan) < Cap
  /\ sent' = sent + 1
  /\ chan' = Append(chan, Message(sent + 1))
  /\ UNCHANGED <<open, closing, removing, transport, loop, carried, buffer, permit,
                 waiters, pc, hand, got, reader, lost, controls>>

-----------------------------------------------------------------------------
(* run_session_loop                                                        *)

\* The loop ends: the receiver is dropped with what the channel still holds.
Break(packets) ==
  /\ loop' = "done"
  /\ chan' = <<>>
  /\ lost' = lost \cup Ids(packets)

\* The receive branch: whatever the transport, the packet is bound for the
\* poll buffer.
LoopRecv ==
  /\ loop = "select" /\ chan # <<>>
  /\ IF open
     THEN /\ carried' = <<Head(chan)>>
          /\ chan' = Tail(chan)
          /\ loop' = "push"
          /\ UNCHANGED lost
     ELSE Break(chan) /\ UNCHANGED carried
  /\ UNCHANGED <<open, closing, removing, transport, buffer, permit, waiters, pc, hand,
                 got, reader, sent, controls>>

\* The timer branch: a ping goes to the buffer for polling, into the session's
\* own channel for WebSocket.
LoopTick ==
  /\ loop = "select" /\ open /\ controls < MaxControls
  /\ controls' = controls + 1
  /\ IF transport = "polling"
     THEN loop' = "push" /\ carried' = <<Control("ping")>>
     ELSE loop' = "ping" /\ UNCHANGED carried
  /\ UNCHANGED <<open, closing, removing, transport, chan, buffer, permit, waiters, pc,
                 hand, got, reader, sent, lost>>

\* Mutation: the loop goes on to the next tick when the session is gone.
LoopTickClosedContinues ==
  /\ loop = "select" /\ ~open
  /\ UNCHANGED vars

\* The timer branch when the session is gone.
LoopTickClosed ==
  /\ loop = "select" /\ ~open
  /\ Break(chan)
  /\ UNCHANGED <<open, closing, removing, transport, carried, buffer, permit, waiters,
                 pc, hand, got, reader, sent, controls>>

\* The timer branch when the last pong is too old: the loop itself runs
\* handle_disconnect, and receives nothing any more.
LoopTimeout ==
  /\ loop = "select" /\ open
  /\ loop' = "cleanup"
  /\ closing' = TRUE
  /\ UNCHANGED <<open, removing, transport, chan, carried, buffer, permit, waiters, pc,
                 hand, got, reader, sent, lost, controls>>

LoopCleanupEnds ==
  /\ loop = "cleanup" /\ ~open
  /\ Break(chan)
  /\ UNCHANGED <<open, closing, removing, transport, carried, buffer, permit, waiters,
                 pc, hand, got, reader, sent, controls>>

\* Mutation: the packet is put in front of the buffer.
LoopPushFront ==
  /\ loop = "push"
  /\ buffer' = carried \o buffer
  /\ carried' = <<>>
  /\ loop' = "notify"
  /\ UNCHANGED <<open, closing, removing, transport, chan, permit, waiters, pc, hand,
                 got, reader, sent, lost, controls>>

\* Mutation: nobody is told about the packet.
LoopPushSilent ==
  /\ loop = "push"
  /\ buffer' = buffer \o carried
  /\ carried' = <<>>
  /\ loop' = "select"
  /\ UNCHANGED <<open, closing, removing, transport, chan, permit, waiters, pc, hand,
                 got, reader, sent, lost, controls>>

LoopPush ==
  /\ loop = "push"
  /\ buffer' = buffer \o carried
  /\ carried' = <<>>
  /\ loop' = "notify"
  /\ UNCHANGED <<open, closing, removing, transport, chan, permit, waiters, pc, hand,
                 got, reader, sent, lost, controls>>

\* Mutation: those that wait are woken, but no permit is kept (notify_waiters).
LoopNotifyWaiters ==
  /\ loop = "notify"
  /\ pc' = [c \in Consumers |-> IF pc[c] = "wait" THEN "drain" ELSE pc[c]]
  /\ waiters' = <<>>
  /\ loop' = "select"
  /\ UNCHANGED <<open, closing, removing, transport, chan, carried, buffer, permit, hand,
                 got, reader, sent, lost, controls>>

LoopNotify ==
  /\ loop = "notify"
  /\ NotifyOne
  /\ loop' = "select"
  /\ UNCHANGED <<open, closing, removing, transport, chan, carried, buffer, hand, got,
                 reader, sent, lost, controls>>

\* session.tx.send(ping).await, by the task that is the channel's receiver.
LoopPing ==
  /\ loop = "ping" /\ Len(chan) < Cap
  /\ chan' = Append(chan, Control("ping"))
  /\ loop' = "select"
  /\ UNCHANGED <<open, closing, removing, transport, carried, buffer, permit, waiters,
                 pc, hand, got, reader, sent, lost, controls>>

-----------------------------------------------------------------------------
(* handle_polling_get                                                      *)

GetStart(g) ==
  /\ pc[g] = "idle" /\ open
  /\ pc' = [pc EXCEPT ![g] = "arm"]
  /\ UNCHANGED <<open, closing, removing, transport, chan, loop, carried, buffer, permit,
                 waiters, hand, got, reader, sent, lost, controls>>

\* The first poll of notified(), by a GET or by a writer.
Arm(c) ==
  /\ pc[c] = "arm"
  /\ IF permit
     THEN /\ permit' = FALSE
          /\ pc' = [pc EXCEPT ![c] = "drain"]
          /\ UNCHANGED waiters
     ELSE /\ waiters' = Append(waiters, c)
          /\ pc' = [pc EXCEPT ![c] = "wait"]
          /\ UNCHANGED permit
  /\ UNCHANGED <<open, closing, removing, transport, chan, loop, carried, buffer, hand,
                 got, reader, sent, lost, controls>>

\* No data for ping_interval + ping_timeout: the GET stops waiting, and looks.
GetTimeout(g) ==
  /\ pc[g] = "wait"
  /\ Forget(g)
  /\ pc' = [pc EXCEPT ![g] = "drain"]
  /\ UNCHANGED <<open, closing, removing, transport, chan, loop, carried, buffer, permit,
                 hand, got, reader, sent, lost, controls>>

\* The buffer is emptied under its lock, by a GET or by a writer.
Drain(c) ==
  /\ pc[c] = "drain"
  /\ hand' = [hand EXCEPT ![c] = buffer]
  /\ buffer' = <<>>
  /\ pc' = [pc EXCEPT ![c] = "pass"]
  /\ UNCHANGED <<open, closing, removing, transport, chan, loop, carried, permit, waiters,
                 got, reader, sent, lost, controls>>

\* One response carries all packets, or a noop; if the connection is gone, none
\* of them arrives and nothing puts them back.
GetRespond(g) ==
  /\ pc[g] = "pass"
  /\ \/ got' = [got EXCEPT ![g] = @ \o hand[g]] /\ UNCHANGED lost
     \/ lost' = lost \cup Ids(hand[g]) /\ UNCHANGED got
  /\ hand' = [hand EXCEPT ![g] = <<>>]
  /\ pc' = [pc EXCEPT ![g] = "idle"]
  /\ UNCHANGED <<open, closing, removing, transport, chan, loop, carried, buffer, permit,
                 waiters, reader, sent, controls>>

-----------------------------------------------------------------------------
(* handle_websocket_connection: the writer task                            *)

\* A WebSocket for a session that exists: an upgrade from polling.
WsOpen(w) ==
  /\ pc[w] = "idle" /\ reader[w] = "off" /\ open
  /\ pc' = [pc EXCEPT ![w] = "arm"]
  /\ reader' = [reader EXCEPT ![w] = "open"]
  /\ UNCHANGED <<open, closing, removing, transport, chan, loop, carried, buffer, permit,
                 waiters, hand, got, sent, lost, controls>>

WsSend(w) ==
  /\ pc[w] = "pass" /\ hand[w] # <<>>
  /\ got' = [got EXCEPT ![w] = Append(@, Head(hand[w]))]
  /\ hand' = [hand EXCEPT ![w] = Tail(@)]
  /\ UNCHANGED <<open, closing, removing, transport, chan, loop, carried, buffer, permit,
                 waiters, pc, reader, sent, lost, controls>>

\* The writer gives up on the first failed send, with what it still has.
WsSendFails(w) ==
  /\ pc[w] = "pass" /\ hand[w] # <<>>
  /\ lost' = lost \cup Ids(hand[w])
  /\ hand' = [hand EXCEPT ![w] = <<>>]
  /\ pc' = [pc EXCEPT ![w] = "dead"]
  /\ UNCHANGED <<open, closing, removing, transport, chan, loop, carried, buffer, permit,
                 waiters, got, reader, sent, controls>>

WsAgain(w) ==
  /\ pc[w] = "pass" /\ hand[w] = <<>>
  /\ pc' = [pc EXCEPT ![w] = "arm"]
  /\ UNCHANGED <<open, closing, removing, transport, chan, loop, carried, buffer, permit,
                 waiters, hand, got, reader, sent, lost, controls>>

-----------------------------------------------------------------------------
(* handle_websocket_connection: the reader                                 *)

\* A probe ("2probe") or a WebSocket ping is answered through the poll buffer.
ReadPing(w, answer) ==
  /\ reader[w] = "open" /\ open /\ controls < MaxControls
  /\ answer \in {"probe", "pong"}
  /\ reader' = [reader EXCEPT ![w] = answer]
  /\ controls' = controls + 1
  /\ UNCHANGED <<open, closing, removing, transport, chan, loop, carried, buffer, permit,
                 waiters, pc, hand, got, sent, lost>>

ReadPush(w) ==
  /\ reader[w] \in {"probe", "pong"}
  /\ buffer' = Append(buffer, Control(reader[w]))
  /\ reader' = [reader EXCEPT ![w] = "notify"]
  /\ UNCHANGED <<open, closing, removing, transport, chan, loop, carried, permit, waiters,
                 pc, hand, got, sent, lost, controls>>

ReadNotify(w) ==
  /\ reader[w] = "notify"
  /\ NotifyOne
  /\ reader' = [reader EXCEPT ![w] = "open"]
  /\ UNCHANGED <<open, closing, removing, transport, chan, loop, carried, buffer, hand,
                 got, sent, lost, controls>>

\* Mutation: UPGRADE leaves the session half way, as TransportType::Upgrading.
ReadUpgradeHalf(w) ==
  /\ reader[w] = "open" /\ open /\ ~Referenced
  /\ transport' = "upgrading"
  /\ UNCHANGED <<open, closing, removing, chan, loop, carried, buffer, permit, waiters,
                 pc, hand, got, reader, sent, lost, controls>>

\* UPGRADE: set_transport waits until nobody else refers to the session.
ReadUpgrade(w) ==
  /\ reader[w] = "open" /\ open /\ ~Referenced
  /\ transport' = "websocket"
  /\ UNCHANGED <<open, closing, removing, chan, loop, carried, buffer, permit, waiters,
                 pc, hand, got, reader, sent, lost, controls>>

\* The WebSocket ends: its writer is aborted wherever it is, and
\* handle_disconnect starts.  A writer that had been woken passes its wake-up
\* on, unless it had already begun to wait for the buffer's lock.
ReadEnd(w) ==
  /\ reader[w] = "open"
  /\ reader' = [reader EXCEPT ![w] = "closed"]
  /\ closing' = TRUE
  /\ lost' = lost \cup Ids(hand[w])
  /\ hand' = [hand EXCEPT ![w] = <<>>]
  /\ IF pc[w] = "drain" /\ waiters # <<>>
     THEN \/ /\ pc' = [pc EXCEPT ![w] = "dead", ![Head(waiters)] = "drain"]
             /\ waiters' = Tail(waiters)
             /\ UNCHANGED permit
          \/ pc' = [pc EXCEPT ![w] = "dead"] /\ UNCHANGED <<waiters, permit>>
     ELSE /\ pc' = [pc EXCEPT ![w] = "dead"]
          /\ IF pc[w] = "wait" THEN Forget(w) ELSE UNCHANGED waiters
          /\ permit' \in IF pc[w] = "drain" THEN {permit, TRUE} ELSE {permit}
  /\ UNCHANGED <<open, removing, transport, chan, loop, carried, buffer, got, sent,
                 controls>>

-----------------------------------------------------------------------------
(* The end of the session                                                  *)

\* An Engine.IO CLOSE packet by polling POST.
PostClose ==
  /\ open /\ closing' = TRUE
  /\ UNCHANGED <<open, removing, transport, chan, loop, carried, buffer, permit, waiters,
                 pc, hand, got, reader, sent, lost, controls>>

\* cleanup_socket has returned for every socket of the session, which it may never
\* do: it calls the application and waits for the locks of the rooms.
CleanedUp ==
  /\ closing /\ ~removing
  /\ removing' = TRUE
  /\ UNCHANGED <<open, closing, transport, chan, loop, carried, buffer, permit,
                 waiters, pc, hand, got, reader, sent, lost, controls>>

\* remove_session, once nobody refers to the session.
RemoveSession ==
  /\ removing /\ open /\ ~Referenced
  /\ open' = FALSE
  /\ UNCHANGED <<closing, removing, transport, chan, loop, carried, buffer,
                 permit, waiters, pc, hand, got, reader, sent, lost, controls>>

-----------------------------------------------------------------------------
Loop == LoopRecv \/ LoopTick \/ LoopTickClosed \/ LoopTimeout \/ LoopCleanupEnds
        \/ LoopPush \/ LoopNotify \/ LoopPing

Get(g) == GetStart(g) \/ Arm(g) \/ GetTimeout(g) \/ Drain(g) \/ GetRespond(g)

Writer(w) == Arm(w) \/ Drain(w) \/ WsSend(w) \/ WsSendFails(w) \/ WsAgain(w)

Reader(w) == WsOpen(w) \/ ReadPush(w) \/ ReadNotify(w) \/ ReadUpgrade(w) \/ ReadEnd(w)
             \/ \E a \in {"probe", "pong"} : ReadPing(w, a)

Next == \/ Send \/ Loop \/ PostClose \/ CleanedUp \/ RemoveSession
        \/ \E g \in Gets : Get(g)
        \/ \E w \in Writers : Writer(w) \/ Reader(w)

Spec == Init /\ [][Next]_vars

\* The runtime polls every task that can go on; remove_session is not starved of
\* the map's lock; a client that polls does so again after each response.  The
\* server is owed no packet, no timeout and no end of the session, and nothing is
\* said of handle_disconnect before it comes to remove_session.
Fairness ==
  /\ WF_vars(LoopRecv \/ LoopTickClosed \/ LoopPush \/ LoopNotify \/ LoopPing)
  /\ SF_vars(RemoveSession)
  /\ \A g \in Gets : WF_vars(GetStart(g) \/ Arm(g) \/ Drain(g) \/ GetRespond(g))
  /\ \A w \in Writers : /\ WF_vars(Writer(w))
                        /\ WF_vars(ReadPush(w) \/ ReadNotify(w))

LiveSpec == Spec /\ Fairness

-----------------------------------------------------------------------------
(* Properties                                                              *)

TypeOK ==
  /\ {open, closing, removing, permit} \subseteq BOOLEAN
  /\ transport \in {"polling", "websocket"}
  /\ loop \in {"select", "push", "notify", "ping", "cleanup", "done"}
  /\ chan \in Seq(Packet) /\ carried \in Seq(Packet) /\ buffer \in Seq(Packet)
  /\ waiters \in Seq(Consumers)
  /\ pc \in [Consumers -> {"idle", "arm", "wait", "drain", "pass", "dead"}]
  /\ hand \in [Consumers -> Seq(Packet)] /\ got \in [Consumers -> Seq(Packet)]
  /\ reader \in [Writers -> {"off", "open", "probe", "pong", "notify", "closed"}]
  /\ sent \in Nat /\ controls \in Nat /\ lost \subseteq Nat

\* Somebody is about to empty the buffer, or about to announce it.
Attended == \/ \E c \in Consumers : pc[c] = "drain"
            \/ loop = "notify"
            \/ \E w \in Writers : reader[w] = "notify"

\* No wake-up is lost: while the session lasts, a GET or a writer never goes on
\* sleeping over a buffer that has packets, whatever the order in which the
\* session loop, several WebSocket readers, GETs that time out and consumers
\* woken too early come to the buffer and to the Notify.
NoSleepOverData ==
  ~closing /\ buffer # <<>> => Attended \/ \A c \in Consumers : pc[c] # "wait"

\* What the client may rely on; pings and pongs have the id 0.
Delivery == INSTANCE PacketDelivery WITH
  got <- [c \in Consumers |-> [k \in DOMAIN got[c] |-> got[c][k].id]]

Implements == Delivery!Spec

\* A message to a client that polls is passed on, unless the response fails or
\* the session ends.  A WebSocket session may come to a standstill: its loop
\* pings into the channel that it alone receives from (handler.rs:488).
EventuallyPassedOn ==
  \A i \in 1..MaxMessages :
    sent >= i ~> \/ closing \/ transport = "websocket" \/ i \in lost
                 \/ \E c \in Consumers : i \in Ids(got[c])

\* The session loop waits with a ping for its own channel; nobody else receives.
WaitsForItself == loop = "ping" /\ Len(chan) = Cap

\* Once a handle_disconnect has come to remove_session, the session goes whatever
\* its transport, and the loop with it unless it is in a cleanup of its own: the
\* references that readers and the loop hold across their awaits are given back, all
\* but the one of a loop that waits for itself (handler.rs:427, 466-519).
EventuallyRemoved ==
  removing ~> (~open /\ loop \in {"cleanup", "done"}) \/ WaitsForItself

=============================================================================
