-------------------------- MODULE SocketLifecycle --------------------------
(***************************************************************************)
(* What the rest of the program may rely on about a Socket.IO socket,      *)
(* whatever tasks race behind it: it goes through its life once and in one *)
(* direction, a broadcast can reach it all the time it is open, its        *)
(* disconnect handler runs at most once and only after it is closed, and   *)
(* a closed socket is made unreachable for good.                           *)
(***************************************************************************)
EXTENDS Naturals

CONSTANT Sockets

VARIABLES
  phase,      \* "new", "connecting", "open" or "closed"
  reachable,  \* the sockets broadcasts are delivered to
  called      \* how often the disconnect handler ran, per socket

vars == <<phase, reachable, called>>

Init == /\ phase = [s \in Sockets |-> "new"]
        /\ reachable = {}
        /\ called = [s \in Sockets |-> 0]

Accept(s) == /\ phase[s] = "new"
             /\ phase' = [phase EXCEPT ![s] = "connecting"]
             /\ reachable' = reachable \cup {s}
             /\ UNCHANGED called

Publish(s) == /\ phase[s] = "connecting"
              /\ phase' = [phase EXCEPT ![s] = "open"]
              /\ UNCHANGED <<reachable, called>>

Close(s) == /\ phase[s] = "open"
            /\ phase' = [phase EXCEPT ![s] = "closed"]
            /\ UNCHANGED <<reachable, called>>

\* A second cleanup may release the socket before the first calls the handler.
CallHandler(s) == /\ phase[s] = "closed" /\ called[s] = 0
                  /\ called' = [called EXCEPT ![s] = 1]
                  /\ UNCHANGED <<phase, reachable>>

Release(s) == /\ phase[s] = "closed" /\ s \in reachable
              /\ reachable' = reachable \ {s}
              /\ UNCHANGED <<phase, called>>

Next == \E s \in Sockets : \/ Accept(s) \/ Publish(s) \/ Close(s)
                           \/ CallHandler(s) \/ Release(s)

Spec == Init /\ [][Next]_vars

=============================================================================
