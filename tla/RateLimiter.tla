---------------------------- MODULE RateLimiter ----------------------------
(***************************************************************************)
(* InMemoryRateLimiter: one counter per client address with the instant    *)
(* its window began.  The accept loop asks it once per connection, one     *)
(* connection at a time, so a check is one step.                           *)
(*                                                                         *)
(* Source: engine/src/core/rate_limiter.rs, engine/src/lib.rs.             *)
(***************************************************************************)
EXTENDS Clock, FiniteSets

CONSTANTS
  Keys,         \* client addresses
  MaxRequests,  \* max_requests
  Window,       \* window_secs
  MapLimit,     \* the size from which old entries are removed, 10_000
  Modulus,      \* the counter is a u32: 2^32
  Absent,       \* no entry
  MaxCount      \* bound: checks per window

ASSUME LimiterAssumption ==
  MaxRequests \in Nat /\ Window \in Nat /\ MapLimit \in Nat

ASSUME CounterAssumption ==
  Modulus \in Nat /\ MaxCount \in Nat \ {0} /\ MaxCount < Modulus

VARIABLES
  store,    \* address -> counter and start of the window
  admitted  \* the checks answered "allowed" per address: each with its instant
            \* and how many came before it

limiterVars == <<store, admitted>>

Entry == [count : 0..(Modulus - 1), start : 0..MaxTime]

LimiterInit ==
  /\ store = [k \in Keys |-> Absent]
  /\ admitted = [k \in Keys |-> {}]

ASSUME AbsentAssumption == Absent \notin Entry

Expired(e) == e # Absent /\ clock - e.start > Window

Admit(k) == admitted' = [admitted EXCEPT ![k] = @ \cup {<<clock, Cardinality(@)>>}]

\* Mutation: all addresses are forgotten.
RetainNothing(m) ==
  IF Cardinality({k \in Keys : m[k] # Absent}) > MapLimit
  THEN [k \in Keys |-> Absent]
  ELSE m

\* More than MapLimit addresses: those whose window is over are forgotten.
Retain(m) ==
  IF Cardinality({k \in Keys : m[k] # Absent}) > MapLimit
  THEN [k \in Keys |-> IF Expired(m[k]) THEN Absent ELSE m[k]]
  ELSE m

\* The window is over: a new one begins with this request, which is allowed.
CheckRestart(k) ==
  /\ Expired(store[k])
  /\ store' = [store EXCEPT ![k] = [count |-> 1, start |-> clock]]
  /\ Admit(k)
  /\ UNCHANGED clock

\* Mutation: each request moves the window's start.
CheckCountTouches(k) ==
  /\ ~Expired(store[k])
  /\ LET old == IF store[k] = Absent THEN [count |-> 0, start |-> clock] ELSE store[k]
         new == [count |-> (old.count + 1) % Modulus, start |-> clock]
     IN /\ old.count < MaxCount
        /\ store' = Retain([store EXCEPT ![k] = new])
        /\ IF new.count <= MaxRequests THEN Admit(k) ELSE UNCHANGED admitted
  /\ UNCHANGED clock

\* Within the window, or for an address seen for the first time, it is counted.
CheckCount(k) ==
  /\ ~Expired(store[k])
  /\ LET old == IF store[k] = Absent THEN [count |-> 0, start |-> clock] ELSE store[k]
         new == [old EXCEPT !.count = (@ + 1) % Modulus]
     IN /\ old.count < MaxCount
        /\ store' = Retain([store EXCEPT ![k] = new])
        /\ IF new.count <= MaxRequests THEN Admit(k) ELSE UNCHANGED admitted
  /\ UNCHANGED clock

Check(k) == CheckRestart(k) \/ CheckCount(k)

-----------------------------------------------------------------------------
LimiterTypeOK ==
  /\ store \in [Keys -> Entry \cup {Absent}]
  /\ admitted \in [Keys -> SUBSET ((0..MaxTime) \X Nat)]
  /\ \A k \in Keys : IsFiniteSet(admitted[k])

\* How many requests of an address were admitted from one instant to another.
AdmittedIn(k, from, to) == Cardinality({a \in admitted[k] : from <= a[1] /\ a[1] <= to})

\* The bound the fixed windows do give: any interval of the window's length
\* meets two windows at most, whenever they began, and forgetting old entries
\* gives nobody a third.
AtMostTwoWindows ==
  \A k \in Keys, t \in 0..MaxTime :
    AdmittedIn(k, t, t + Window) <= 2 * (IF MaxRequests = 0 THEN 1 ELSE MaxRequests)

\* A request is refused only if the limit was used up within the last window:
\* neither an old counter nor another address's traffic refuses a client.
RefusedOnlyOverLimit ==
  [][\A k \in Keys :
       /\ store'[k] \notin {store[k], Absent}
       /\ admitted'[k] = admitted[k]
       => AdmittedIn(k, IF clock < Window THEN 0 ELSE clock - Window, clock) >= MaxRequests]_limiterVars

-----------------------------------------------------------------------------
(* What comments of the source say and the code does not keep.             *)

\* rate_limiter.rs:14,23: "max_requests is the maximum number of requests allowed
\* within window_secs seconds", counted "with sliding window".  Says: whenever one
\* begins to count, fewer than Window seconds see no more than MaxRequests.
SlidingWindow ==
  \A k \in Keys, t \in 0..MaxTime :
    Window > 0 => AdmittedIn(k, t, t + Window - 1) <= MaxRequests

=============================================================================
