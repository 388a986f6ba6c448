--------------------------- MODULE PacketDelivery ---------------------------
(***************************************************************************)
(* What a client may rely on about the messages of its session: each is    *)
(* delivered at most once, over one of its connections, and no connection  *)
(* delivers a message after a later one.                                   *)
(***************************************************************************)
EXTENDS Naturals, Sequences

CONSTANT Consumers   \* the connections: polling GETs and WebSockets

VARIABLES
  sent,  \* how many messages were sent; message i is the i-th of them
  got,   \* what each connection delivered: messages, and 0 for any other packet
  lost   \* the messages that will not be delivered

vars == <<sent, got, lost>>

Delivered == {i \in 1..sent : \E c \in Consumers : \E k \in DOMAIN got[c] : got[c][k] = i}

Outstanding == 1..sent \ (Delivered \cup lost)

InOrder(q) == \A i, j \in DOMAIN q : i < j /\ q[j] # 0 => q[i] < q[j]

Init == /\ sent = 0
        /\ got = [c \in Consumers |-> <<>>]
        /\ lost = {}

Send == sent' = sent + 1 /\ UNCHANGED <<got, lost>>

\* A connection delivers a batch behind what it delivered before: outstanding
\* messages, each later than all before it, and packets that are none.
Deliver(c) ==
  /\ got'[c] \in Seq(0..sent) /\ Len(got[c]) < Len(got'[c])
  /\ \A k \in DOMAIN got'[c] : IF k \in DOMAIN got[c] THEN got'[c][k] = got[c][k]
                               ELSE got'[c][k] \in Outstanding \cup {0}
  /\ InOrder(got'[c])
  /\ got' = [got EXCEPT ![c] = got'[c]]
  /\ UNCHANGED <<sent, lost>>

Lose == /\ lost' \subseteq lost \cup Outstanding /\ lost \subseteq lost'
        /\ UNCHANGED <<sent, got>>

Next == Send \/ Lose \/ \E c \in Consumers : Deliver(c)

Spec == Init /\ [][Next]_vars

=============================================================================
