----------------------------- MODULE Heartbeat -----------------------------
(***************************************************************************)
(* The heartbeat of the Engine.IO sessions.  The interval of a session's   *)
(* loop ticks every ping_interval.  A tick that finds the last pong older  *)
(* than ping_interval + ping_timeout drops the session, any other sends a  *)
(* ping.                                                                   *)
(*                                                                         *)
(* Ticks are Interval apart, so the pings sent and not yet answered are    *)
(* known from the oldest of them and the next tick.                        *)
(*                                                                         *)
(* Source: engine/src/core/socketio/{handler,engine_io}.rs.                *)
(***************************************************************************)
EXTENDS Clock

CONSTANTS
  Sessions,   \* Engine.IO sessions
  Interval,   \* EioConfig.ping_interval
  Timeout,    \* EioConfig.ping_timeout
  NoSession   \* no session there

\* tokio::time::interval panics on a period of zero.
ASSUME HeartbeatAssumption == Interval \in Nat \ {0} /\ Timeout \in Nat

VARIABLE beat  \* what the loop and the store know of each session

\* prompt says what the client is like: it answers each ping within Timeout.
Beating == [up : BOOLEAN, prompt : BOOLEAN, next : Nat, oldest : Nat, pong : Nat]

HeartbeatInit == beat = [s \in Sessions |-> NoSession]

Up(s) == beat[s] # NoSession /\ beat[s].up

Unanswered(s) == beat[s].oldest < beat[s].next

\* create_session sets last_pong; the loop lets the immediate tick pass.
OpenSession(s) ==
  \E prompt \in BOOLEAN :
    beat' = [beat EXCEPT ![s] =
      [up |-> TRUE, prompt |-> prompt,
       next |-> clock + Interval, oldest |-> clock + Interval, pong |-> clock]]

CloseSession(s) == beat' = [beat EXCEPT ![s] = NoSession]

Due(s) == Up(s) /\ clock = beat[s].next

\* Mutation: the limit itself is too late.
OverdueAtLimit(s) == clock - beat[s].pong >= Interval + Timeout

\* Mutation: the limit is doubled.
OverdueLate(s) == clock - beat[s].pong > 2 * (Interval + Timeout)

Overdue(s) == clock - beat[s].pong > Interval + Timeout

BeatDrops(s) ==
  /\ Due(s)
  /\ Overdue(s)
  /\ beat' = [beat EXCEPT ![s].up = FALSE]

BeatPings(s) ==
  /\ Due(s)
  /\ ~Overdue(s)
  /\ beat' = [beat EXCEPT ![s].next = @ + Interval]

\* mark_pong, when the reader gets to the client's answer to a ping.
MarkPong(s) ==
  /\ Up(s)
  /\ Unanswered(s)
  /\ beat' = [beat EXCEPT ![s].oldest = @ + Interval, ![s].pong = clock]

HeartbeatNext == \E s \in Sessions : BeatDrops(s) \/ BeatPings(s) \/ MarkPong(s)

\* Time does not pass a tick (the loop is not held up), nor the instant by
\* which the server has the answer of a prompt client.
MayAdvance ==
  \A s \in Sessions : Up(s) =>
    /\ clock < beat[s].next
    /\ beat[s].prompt /\ Unanswered(s) => clock < beat[s].oldest + Timeout

-----------------------------------------------------------------------------
HeartbeatTypeOK == beat \in [Sessions -> Beating \cup {NoSession}]

\* No session of a client that answers each ping within ping_timeout is ever
\* dropped, also when the timeout is longer than the interval and several
\* pings are under way (handler.rs:473).
PromptKept == \A s \in Sessions : beat[s] # NoSession /\ beat[s].prompt => beat[s].up

\* A client that is gone is noticed: no session stays up longer than two
\* intervals and the timeout after the last sign of life.
SilentDropped ==
  \A s \in Sessions : Up(s) => clock <= beat[s].pong + 2 * Interval + Timeout

=============================================================================
