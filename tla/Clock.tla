------------------------------- MODULE Clock -------------------------------
(***************************************************************************)
(* Instant::now(): the clock that the rate limiter and the heartbeat read. *)
(***************************************************************************)
EXTENDS Naturals

CONSTANT MaxTime  \* bound: the last instant

ASSUME ClockAssumption == MaxTime \in Nat

VARIABLE clock

ClockInit == clock = 0

Advance == clock < MaxTime /\ clock' = clock + 1

ClockTypeOK == clock \in 0..MaxTime

=============================================================================
