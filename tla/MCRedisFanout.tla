---------------------------- MODULE MCRedisFanout ----------------------------
(* An instance of RedisFanout for TLC: two instances that listen, one of them *)
(* with two sockets, and one that does not; tasks on the first and the third. *)
EXTENDS RedisFanout, TLC

CONSTANTS n1, n2, n3, t1, t2, s1, s2, s3, s4

MCHome == t1 :> n1 @@ t2 :> n3

MCSockets == s1 :> n1 @@ s2 :> n2 @@ s3 :> n3 @@ s4 :> n2

B(room, exclude) == [room |-> room, exclude |-> exclude]

MCScript == t1 :> <<B(FALSE, None), B(TRUE, s1)>> @@ t2 :> <<B(TRUE, None)>>

=============================================================================
