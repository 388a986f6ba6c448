------------------------------- MODULE Server -------------------------------
(***************************************************************************)
(* The server's life: the accept loop with its connection limit and the    *)
(* rate limiter, the tasks it spawns, the heartbeat of the WebSockets      *)
(* among them, and the way down after Ctrl-C.                              *)
(*                                                                         *)
(* A slot is one TCP connection at a time, from the kernel's backlog to    *)
(* its end.  HTTP/1 is HttpConnection's subject; here it is a stage.       *)
(*                                                                         *)
(* Source: engine/src/lib.rs (run_server), engine/src/core/h2_handler.rs.  *)
(***************************************************************************)
EXTENDS RateLimiter, Heartbeat

CONSTANTS
  MaxConnections,  \* max_connections
  MaxStreams,      \* bound: HTTP/2 streams with a task at one time
  MaxArrivals      \* bound: connections that arrive

ASSUME ServerAssumption ==
  MaxConnections \in Nat /\ MaxStreams \in Nat /\ MaxArrivals \in Nat

ASSUME SlotsAssumption == IsFiniteSet(Sessions) /\ NoSession \notin Sessions

Slots == Sessions

VARIABLES
  tls,       \* the server has a TLS acceptor
  signalled, \* Ctrl-C was pressed
  loop,      \* position of the accept loop
  current,   \* the slot whose connection the loop works on
  conn,      \* stage of the connection in each slot
  peer,      \* its address
  permits,   \* of the semaphore
  cancelled, \* the cancel token
  streams,   \* tasks of HTTP/2 streams
  arrivals   \* connections so far

serverVars == <<tls, signalled, loop, current, conn, peer, permits, cancelled, streams, arrivals>>

vars == <<clock, limiterVars, beat, serverVars>>

Tracked == {"handshake", "h1", "h2", "ws"}  \* the connection has a task

\* Stages that neither look at the cancel token nor end by a timeout.
Deaf == {"handshake", "h2", "ws"}

\* Those for which a permit is out.
Holders == {c \in Slots : conn[c] \in Tracked} \cup (IF loop \in {"check", "refuse"} THEN {current} ELSE {})

Init ==
  /\ ClockInit /\ LimiterInit /\ HeartbeatInit
  /\ tls \in BOOLEAN
  /\ signalled = FALSE
  /\ loop = "select"
  /\ current = NoSession
  /\ conn = [c \in Slots |-> "none"]
  /\ peer = [c \in Slots |-> Absent]
  /\ permits = MaxConnections
  /\ cancelled = FALSE
  /\ streams = 0
  /\ arrivals = 0

\* The client and its kernel: until run_server drops the listener, connections
\* are taken into the backlog.
Arrive(c) ==
  /\ loop \notin {"stopped", "failed"}
  /\ conn[c] = "none"
  /\ arrivals < MaxArrivals
  /\ arrivals' = arrivals + 1
  /\ conn' = [conn EXCEPT ![c] = "backlog"]
  /\ \E k \in Keys : peer' = [peer EXCEPT ![c] = k]
  /\ UNCHANGED <<clock, limiterVars, beat, tls, signalled, loop, current, permits, cancelled, streams>>

Signal ==
  /\ ~signalled
  /\ signalled' = TRUE
  /\ UNCHANGED <<clock, limiterVars, beat, tls, loop, current, conn, peer, permits, cancelled, streams, arrivals>>

Accept(c) ==
  /\ loop = "select"
  /\ conn[c] = "backlog"
  /\ permits > 0
  /\ permits' = permits - 1
  /\ loop' = "check"
  /\ current' = c
  /\ conn' = [conn EXCEPT ![c] = "accepted"]
  /\ UNCHANGED <<clock, limiterVars, beat, tls, signalled, peer, cancelled, streams, arrivals>>

\* No permit: the socket is dropped without a word.
AcceptAtLimit(c) ==
  /\ loop = "select"
  /\ conn[c] = "backlog"
  /\ permits = 0
  /\ conn' = [conn EXCEPT ![c] = "none"]
  /\ peer' = [peer EXCEPT ![c] = Absent]
  /\ UNCHANGED <<clock, limiterVars, beat, tls, signalled, loop, current, permits, cancelled, streams, arrivals>>

\* accept() fails (file descriptors used up, a connection reset in the
\* backlog): run_server returns, with no connection told.
AcceptFails ==
  /\ loop = "select"
  /\ loop' = "failed"
  /\ UNCHANGED <<clock, limiterVars, beat, tls, signalled, current, conn, peer, permits, cancelled, streams, arrivals>>

\* Allowed: the connection gets a task, which owns the permit.
CheckAllows ==
  /\ loop = "check"
  /\ Check(peer[current])
  /\ admitted' # admitted
  /\ conn' = [conn EXCEPT ![current] = IF tls THEN "handshake" ELSE "h1"]
  /\ loop' = "select"
  /\ current' = NoSession
  /\ UNCHANGED <<beat, tls, signalled, peer, permits, cancelled, streams, arrivals>>

CheckRefuses ==
  /\ loop = "check"
  /\ Check(peer[current])
  /\ admitted' = admitted
  /\ loop' = "refuse"
  /\ UNCHANGED <<beat, tls, signalled, current, conn, peer, permits, cancelled, streams, arrivals>>

\* Mutation: the permit of a refused connection is lost.
RefuseForgets ==
  /\ loop = "refuse"
  /\ loop' = "select"
  /\ current' = NoSession
  /\ conn' = [conn EXCEPT ![current] = "none"]
  /\ peer' = [peer EXCEPT ![current] = Absent]
  /\ UNCHANGED <<clock, limiterVars, beat, tls, signalled, permits, cancelled, streams, arrivals>>

\* 429 is written; the permit is dropped with the iteration.
Refuse ==
  /\ loop = "refuse"
  /\ loop' = "select"
  /\ current' = NoSession
  /\ conn' = [conn EXCEPT ![current] = "none"]
  /\ peer' = [peer EXCEPT ![current] = Absent]
  /\ permits' = permits + 1
  /\ UNCHANGED <<clock, limiterVars, beat, tls, signalled, cancelled, streams, arrivals>>

Handshake(c) ==
  /\ conn[c] = "handshake"
  /\ \E p \in {"h1", "h2"} : conn' = [conn EXCEPT ![c] = p]
  /\ UNCHANGED <<clock, limiterVars, beat, tls, signalled, loop, current, peer, permits, cancelled, streams, arrivals>>

\* Socket.IO over WebSocket: the connection's task becomes its reader, and the
\* session's loop is spawned.
Upgrade(c) ==
  /\ conn[c] = "h1"
  /\ conn' = [conn EXCEPT ![c] = "ws"]
  /\ OpenSession(c)
  /\ UNCHANGED <<clock, limiterVars, tls, signalled, loop, current, peer, permits, cancelled, streams, arrivals>>

\* The task of a connection ends: closed by the client, timed out, cancelled,
\* failed or panicked.  With it go its permit and its session.
End(c) ==
  /\ conn[c] \in Tracked
  /\ conn' = [conn EXCEPT ![c] = "none"]
  /\ peer' = [peer EXCEPT ![c] = Absent]
  /\ permits' = permits + 1
  /\ CloseSession(c)
  /\ UNCHANGED <<clock, limiterVars, tls, signalled, loop, current, cancelled, streams, arrivals>>

\* Each stream of an HTTP/2 connection runs in a task of its own, which neither
\* the connection nor the tracker waits for.
StreamStart(c) ==
  /\ conn[c] = "h2"
  /\ streams < MaxStreams
  /\ streams' = streams + 1
  /\ UNCHANGED <<clock, limiterVars, beat, tls, signalled, loop, current, conn, peer, permits, cancelled, arrivals>>

StreamEnd ==
  /\ streams > 0
  /\ streams' = streams - 1
  /\ UNCHANGED <<clock, limiterVars, beat, tls, signalled, loop, current, conn, peer, permits, cancelled, arrivals>>

\* Mutation: the token is not cancelled.
ShutDownSilently ==
  /\ loop = "select"
  /\ signalled
  /\ loop' = "draining"
  /\ UNCHANGED <<clock, limiterVars, beat, tls, signalled, current, conn, peer, permits, cancelled, streams, arrivals>>

\* Ctrl-C is seen in the select only.
ShutDown ==
  /\ loop = "select"
  /\ signalled
  /\ loop' = "draining"
  /\ cancelled' = TRUE
  /\ UNCHANGED <<clock, limiterVars, beat, tls, signalled, current, conn, peer, permits, streams, arrivals>>

\* tracker.wait() returns: no connection has a task any more.
Stop ==
  /\ loop = "draining"
  /\ \A c \in Slots : conn[c] \notin Tracked
  /\ loop' = "stopped"
  /\ UNCHANGED <<clock, limiterVars, beat, tls, signalled, current, conn, peer, permits, cancelled, streams, arrivals>>

\* The loop of a session: its end leaves the WebSocket's reader waiting for a
\* client that is gone.
Heartbeats == HeartbeatNext /\ UNCHANGED <<clock, limiterVars, serverVars>>

Tick == Advance /\ MayAdvance /\ UNCHANGED <<limiterVars, beat, serverVars>>

Loop ==
  \/ \E c \in Slots : Accept(c) \/ AcceptAtLimit(c)
  \/ CheckAllows \/ CheckRefuses \/ Refuse \/ ShutDown \/ Stop

Next ==
  \/ Loop \/ AcceptFails
  \/ Signal \/ StreamEnd \/ Heartbeats \/ Tick
  \/ \E c \in Slots : Arrive(c) \/ Handshake(c) \/ Upgrade(c) \/ End(c) \/ StreamStart(c)

Spec == Init /\ [][Next]_vars

\* The accept loop goes on whenever it can; no connection is owed an end.
FairSpec == Spec /\ WF_vars(Loop)

-----------------------------------------------------------------------------
TypeOK ==
  /\ ClockTypeOK /\ LimiterTypeOK /\ HeartbeatTypeOK
  /\ tls \in BOOLEAN /\ signalled \in BOOLEAN /\ cancelled \in BOOLEAN
  /\ loop \in {"select", "check", "refuse", "draining", "stopped", "failed"}
  /\ current \in Slots \cup {NoSession}
  /\ conn \in [Slots -> {"none", "backlog", "accepted"} \cup Tracked]
  /\ peer \in [Slots -> Keys \cup {Absent}]
  /\ permits \in Nat /\ streams \in Nat /\ arrivals \in Nat

\* Every permit is free or held by one connection, whatever ends and in
\* whatever stage: the limit is neither exceeded nor eaten up by refusals,
\* failed handshakes and panics (lib.rs:1115-1145).
PermitsKept == permits + Cardinality(Holders) = MaxConnections

\* After Ctrl-C the server stops, if accept() never fails and the connections end:
\* no connection of HTTP/1 stays for ever once the token is cancelled, and those of
\* the other stages, in which nobody looks at it, end by themselves.  So run_server
\* waits for nothing else, and tells everybody who looks (README.md:919-925 of the
\* repository).
ShutdownEnds ==
  /\ <>[](loop # "failed")
  /\ \A c \in Slots : /\ []<>~(cancelled /\ conn[c] = "h1")
                      /\ <>[](conn[c] \notin Deaf)
  => (signalled ~> loop = "stopped")

=============================================================================
