------------------------- MODULE HttpConnectionProofs -------------------------
(***************************************************************************)
(* Theorems about one HTTP/1.1 connection, for any requests, any limits    *)
(* and reads that end anywhere: its types, and, until it has lost its      *)
(* place in the client's stream, its answers and the bodies it hands on.   *)
(***************************************************************************)
EXTENDS HttpConnection, SequenceTheorems, WellFoundedInduction, TLAPS

-----------------------------------------------------------------------------
(* Numbers and sequences. *)

\* A set of numbers that is not empty has a smallest one, and if it is bounded
\* a largest one.
LEMMA Smallest ==
  ASSUME NEW T, T \subseteq Nat, T # {}
  PROVE  \E x \in T : \A y \in T : x <= y
<1> DEFINE R == OpToRel(<, Nat)
<1>1. IsWellFoundedOn(R, Nat)
  BY NatLessThanWellFounded
<1>2. PICK x \in T : \A y \in T : <<y, x>> \notin R
  BY <1>1, WFMin
<1>3. \A y \in T : ~(y < x)
  BY <1>2 DEF OpToRel
<1> HIDE DEF R
<1>4. x \in Nat /\ \A y \in T : y \in Nat
  BY <1>2
<1>5. QED
  BY <1>2, <1>3, <1>4

LEMMA Largest ==
  ASSUME NEW T, NEW k \in Nat, T \subseteq 0..k, T # {}
  PROVE  Max(T) \in T /\ \A y \in T : y <= Max(T)
<1> DEFINE M == {k - y : y \in T}
<1>1. M \subseteq Nat /\ M # {}
  <2>1. \A y \in T : k - y \in Nat
    BY SMT
  <2>2. QED
    BY <2>1
<1>2. PICK m \in M : \A z \in M : m <= z
  BY <1>1, Smallest
<1>3. PICK x \in T : m = k - x
  BY <1>2
<1>4. \A y \in T : k - y \in M /\ y \in 0..k
  OBVIOUS
<1> HIDE DEF M
<1>5. \A y \in T : x >= y
  BY <1>2, <1>3, <1>4
<1> DEFINE P(z) == \A y \in T : z >= y
<1> HIDE DEF P
<1>9. Max(T) = CHOOSE z \in T : P(z)
  BY DEF Max, P
<1>10. x \in T /\ P(x)
  BY <1>3, <1>5 DEF P
<1>6. Max(T) \in T /\ P(Max(T))
  BY <1>9, <1>10
<1>11. \A y \in T : Max(T) >= y
  BY <1>6 DEF P
<1>12. \A y \in T : y \in 0..k
  BY Zenon
<1>13. Max(T) \in 0..k
  BY <1>6, <1>12, Zenon
<1>7. \A y \in T : y \in Int /\ Max(T) \in Int
  BY <1>12, <1>13
<1>8. QED
  BY <1>6, <1>7, <1>11

\* A part of a sequence, and what follows it.
LEMMA Part ==
  ASSUME NEW S, NEW q \in Seq(S), NEW m \in Nat, NEW n \in Nat, n <= Len(q)
  PROVE  LET r == SubSeq(q, m + 1, n)
         IN  /\ r \in Seq(S) /\ Len(r) = IF m <= n THEN n - m ELSE 0
             /\ \A i \in 1..Len(r) : r[i] = q[m + i]
<1> DEFINE r == SubSeq(q, m + 1, n)
<1>1. Len(q) \in Nat /\ \A i \in m + 1..n : q[i] \in S
  OBVIOUS
<1>2. /\ r \in Seq(S) /\ Len(r) = IF m + 1 <= n THEN n - (m + 1) + 1 ELSE 0
      /\ \A i \in 1..n - (m + 1) + 1 : r[i] = q[(m + 1) + i - 1]
  BY <1>1, SubSeqProperties
<1> HIDE DEF r
<1>3. Len(r) = IF m <= n THEN n - m ELSE 0
  BY <1>2
<1>4. \A i \in 1..Len(r) : r[i] = q[m + i]
  BY <1>2, <1>3
<1>5. QED
  BY <1>2, <1>3, <1>4 DEF r

-----------------------------------------------------------------------------
(* Where the parser finds the ends of the first line and of the head. *)

LEMMA FirstLineFound ==
  ASSUME NEW S, NEW b \in Seq(S)
  PROVE  /\ FirstLineEnd(b) \in 0..Len(b)
         /\ FirstLineEnd(b) > 0 => /\ b[FirstLineEnd(b)].kind \notin {"line", "data"}
                                   /\ \A j \in 1..FirstLineEnd(b) - 1 : b[j].kind \in {"line", "data"}
         /\ FirstLineEnd(b) = 0 => \A i \in 1..Len(b) : b[i].kind \in {"line", "data"}
<1> DEFINE T == {i \in DOMAIN b : b[i].kind \notin {"line", "data"}}
           P(i) == b[i].kind \notin {"line", "data"} /\ \A j \in 1..(i - 1) : b[j].kind \in {"line", "data"}
<1>1. DOMAIN b = 1..Len(b) /\ Len(b) \in Nat
  OBVIOUS
<1>2. CASE T = {}
  <2>1. FirstLineEnd(b) = 0
    BY <1>2 DEF FirstLineEnd
  <2>2. QED
    BY <1>1, <1>2, <2>1
<1>3. CASE T # {}
  <2>9. T \subseteq Nat
    BY <1>1
  <2>1. PICK i \in T : \A y \in T : i <= y
    <3> HIDE DEF T
    <3>1. QED
      BY <1>3, <2>9, Smallest
  <2>2. \A j \in 1..i - 1 : j \in DOMAIN b /\ ~(i <= j)
    BY <1>1, <2>1
  <2>3. i \in DOMAIN b /\ P(i)
    BY <2>1, <2>2
  <2>4. FirstLineEnd(b) = CHOOSE k \in DOMAIN b : P(k)
    BY <2>3 DEF FirstLineEnd
  <2> HIDE DEF P
  <2>5. FirstLineEnd(b) \in DOMAIN b /\ P(FirstLineEnd(b))
    BY <2>3, <2>4
  <2>6. P(FirstLineEnd(b))
    BY <2>5
  <2>7. FirstLineEnd(b) \in 1..Len(b)
    BY <1>1, <2>5
  <2>8. QED
    BY <2>6, <2>7 DEF P
<1>4. QED
  BY <1>2, <1>3

LEMMA HeadFound ==
  ASSUME NEW S, NEW b \in Seq(S)
  PROVE  /\ HeadEnd(b) \in 0..Len(b)
         /\ HeadEnd(b) > 0 => b[HeadEnd(b)].kind \in Ends /\ \A j \in 1..HeadEnd(b) - 1 : b[j].kind \notin Ends
         /\ HeadEnd(b) = 0 => \A i \in 1..Len(b) : b[i].kind \notin Ends
<1> DEFINE T == {i \in DOMAIN b : b[i].kind \in Ends}
           P(i) == b[i].kind \in Ends /\ \A j \in 1..(i - 1) : b[j].kind \notin Ends
<1>1. DOMAIN b = 1..Len(b) /\ Len(b) \in Nat
  OBVIOUS
<1>2. CASE T = {}
  <2>1. HeadEnd(b) = 0
    BY <1>2 DEF HeadEnd
  <2>2. QED
    BY <1>1, <1>2, <2>1
<1>3. CASE T # {}
  <2>9. T \subseteq Nat
    BY <1>1
  <2>1. PICK i \in T : \A y \in T : i <= y
    <3> HIDE DEF T
    <3>1. QED
      BY <1>3, <2>9, Smallest
  <2>2. \A j \in 1..i - 1 : j \in DOMAIN b /\ ~(i <= j)
    BY <1>1, <2>1
  <2>3. i \in DOMAIN b /\ P(i)
    BY <2>1, <2>2
  <2>4. HeadEnd(b) = CHOOSE k \in DOMAIN b : P(k)
    BY <2>3 DEF HeadEnd
  <2> HIDE DEF P
  <2>5. HeadEnd(b) \in DOMAIN b /\ P(HeadEnd(b))
    BY <2>3, <2>4
  <2>6. P(HeadEnd(b))
    BY <2>5
  <2>7. HeadEnd(b) \in 1..Len(b)
    BY <1>1, <2>5
  <2>8. QED
    BY <2>6, <2>7 DEF P
<1>4. QED
  BY <1>2, <1>3

\* The whole chunks at the beginning of a buffer.
Chunks(b) == {n \in 0..Len(b) \div 2 : \A i \in 1..(2 * n) : b[i].kind = IF i % 2 = 1 THEN "size" ELSE "tail"}

LEMMA ChunksFound ==
  ASSUME NEW S, NEW b \in Seq(S)
  PROVE  /\ Max(Chunks(b)) \in Chunks(b) /\ \A n \in Chunks(b) : n <= Max(Chunks(b))
         /\ Max(Chunks(b)) \in Nat /\ 2 * Max(Chunks(b)) <= Len(b)
<1> DEFINE k == Len(b) \div 2
<1>1. k \in Nat /\ 2 * k <= Len(b) /\ Len(b) \in Nat
  OBVIOUS
<1> HIDE DEF k
<1>2. 0 \in Chunks(b) /\ Chunks(b) \subseteq 0..k
  BY <1>1 DEF Chunks, k
<1>3. Max(Chunks(b)) \in Chunks(b) /\ \A n \in Chunks(b) : n <= Max(Chunks(b))
  BY <1>1, <1>2, Largest
<1>4. QED
  BY <1>1, <1>2, <1>3

-----------------------------------------------------------------------------
(* Types: every byte under way or in the buffer is of a request that was   *)
(* sent, so the parser finds the length of what it parses.                 *)

PieceKinds == {"line", "rest", "head", "announce", "data", "size", "tail", "zero", "end"}

BytesOf(s) == [of : 1..Len(s), kind : PieceKinds]

Sane ==
  /\ TypeOK
  /\ wire \in Seq(BytesOf(sent)) /\ buffer \in Seq(BytesOf(sent))
  /\ parsed \in Seq([of : 1..Len(sent), body : Seq(Piece)])
  /\ pc = "stream" => stream.of \in 1..MaxRequests

\* The kinds of the pieces of a request.
LEMMA KindsTyped ==
  ASSUME NEW shape \in Shapes
  PROVE  /\ Kinds(shape) \in Seq(PieceKinds)
         /\ shape.length \in Nat
         /\ shape.kind = "chunked" =>
              /\ Len(Kinds(shape)) = 7
              /\ Kinds(shape)[1] = "line" /\ Kinds(shape)[2] = "rest" /\ Kinds(shape)[3] = "announce"
              /\ Kinds(shape)[4] = "size" /\ Kinds(shape)[5] = "tail"
              /\ Kinds(shape)[6] = "zero" /\ Kinds(shape)[7] = "end"
         /\ shape.kind # "chunked" =>
              /\ Len(Kinds(shape)) = 3 + shape.length
              /\ Kinds(shape)[1] = "line" /\ Kinds(shape)[2] = "rest" /\ Kinds(shape)[3] = "head"
              /\ \A i \in 4..3 + shape.length : Kinds(shape)[i] = "data"
<1>1. shape.length \in Nat
  <2>1. shape.length \in Lengths \/ shape.length = 0
    BY DEF Shapes
  <2>2. Lengths \subseteq Nat
    BY LimitsAssumption
  <2>3. 0 \in Nat
    OBVIOUS
  <2>4. QED
    BY <2>1, <2>2, <2>3, Zenon
<1>2. CASE shape.kind = "chunked"
  <2>1. Kinds(shape) = (<<"line", "rest", "announce">> \o <<"size", "tail">>) \o <<"zero", "end">>
    BY <1>2 DEF Kinds, Body
  <2> DEFINE q == <<"line", "rest", "announce">> \o <<"size", "tail">>
  <2>2. /\ q \in Seq(PieceKinds) /\ Len(q) = 5 /\ q[1] = "line" /\ q[2] = "rest"
        /\ q[3] = "announce" /\ q[4] = "size" /\ q[5] = "tail"
    BY DEF PieceKinds
  <2> DEFINE e == <<"zero", "end">>
  <2>3. e \in Seq(PieceKinds) /\ Len(e) = 2 /\ e[1] = "zero" /\ e[2] = "end"
    BY DEF PieceKinds
  <2>4. Kinds(shape) = q \o e
    BY <2>1
  <2> HIDE DEF q, e
  <2>8. /\ q \o e \in Seq(PieceKinds) /\ Len(q \o e) = Len(q) + Len(e)
        /\ \A i \in 1..Len(q) + Len(e) : (q \o e)[i] = IF i <= Len(q) THEN q[i] ELSE e[i - Len(q)]
    BY <2>2, <2>3, ConcatProperties
  <2>5. /\ q \o e \in Seq(PieceKinds) /\ Len(q \o e) = 7
        /\ (q \o e)[1] = q[1] /\ (q \o e)[2] = q[2] /\ (q \o e)[3] = q[3]
        /\ (q \o e)[4] = q[4] /\ (q \o e)[5] = q[5]
        /\ (q \o e)[6] = e[1] /\ (q \o e)[7] = e[2]
    BY <2>2, <2>3, <2>8
  <2>6. /\ Kinds(shape)[1] = "line" /\ Kinds(shape)[2] = "rest" /\ Kinds(shape)[3] = "announce"
        /\ Kinds(shape)[4] = "size" /\ Kinds(shape)[5] = "tail"
        /\ Kinds(shape)[6] = "zero" /\ Kinds(shape)[7] = "end"
    BY <2>2, <2>3, <2>4, <2>5
  <2>7. QED
    BY <1>1, <1>2, <2>4, <2>5, <2>6
<1>3. CASE shape.kind # "chunked"
  <2> DEFINE d == [i \in 1..shape.length |-> "data"]
  <2>1. d \in Seq(PieceKinds) /\ Len(d) = shape.length /\ \A i \in 1..shape.length : d[i] = "data"
    BY <1>1 DEF PieceKinds
  <2>2. Kinds(shape) = <<"line", "rest", "head">> \o d
    BY <1>3 DEF Kinds, Body
  <2>3. <<"line", "rest", "head">> \in Seq(PieceKinds)
    BY DEF PieceKinds
  <2> HIDE DEF d
  <2>4. Kinds(shape) \in Seq(PieceKinds) /\ Len(Kinds(shape)) = 3 + shape.length
    BY <1>1, <2>1, <2>2, <2>3
  <2>5. Kinds(shape)[1] = "line" /\ Kinds(shape)[2] = "rest" /\ Kinds(shape)[3] = "head"
    BY <1>1, <2>1, <2>2, <2>3
  <2>6. \A i \in 4..3 + shape.length : Kinds(shape)[i] = d[i - 3]
    BY <1>1, <2>1, <2>2, <2>3
  <2>7. \A i \in 4..3 + shape.length : i - 3 \in 1..shape.length
    BY <1>1
  <2>8. \A i \in 4..3 + shape.length : Kinds(shape)[i] = "data"
    BY <2>1, <2>6, <2>7
  <2>9. QED
    BY <1>1, <1>3, <2>4, <2>5, <2>8
<1>4. QED
  BY <1>2, <1>3

\* What the parser makes of a buffer.
LEMMA ParseTyped ==
  ASSUME sent \in Seq(Shapes), NEW b \in Seq(BytesOf(sent)), b # <<>>, NEW isChunk
  PROVE  LET p == Parse(b, isChunk)
         IN  /\ p.taken \in Nat /\ p.body \in Seq(BytesOf(sent))
             /\ p.result \in {"request", "error"} => p.of \in 1..Len(sent)
             /\ p.result \in {"none", "error"} => p.taken = 0
             /\ p.result = "request" => p.taken <= Len(b)
<1> DEFINE p == Parse(b, isChunk)
<1>1. /\ Len(b) \in Nat /\ b[1].of \in 1..Len(sent)
      /\ \A i \in 1..Len(b) : b[i].of \in 1..Len(sent)
  <2>1. Len(b) \in Nat /\ Len(b) >= 1
    OBVIOUS
  <2>2. \A i \in 1..Len(b) : b[i] \in BytesOf(sent)
    OBVIOUS
  <2>3. \A x \in BytesOf(sent) : x.of \in 1..Len(sent)
    BY DEF BytesOf
  <2>4. QED
    BY <2>1, <2>2, <2>3
<1>2. HeadEnd(b) \in 0..Len(b)
  BY HeadFound
<1>3. CASE ~HasRequestLine(b) /\ isChunk
  <2>1. 2 * Max(Chunks(b)) \in 0..Len(b)
    BY <1>1, ChunksFound
  <2>2. p = ChunkedBody(b)
    BY <1>3 DEF Parse
  <2> DEFINE w == Max(Chunks(b))
             last == 2 * w < Len(b) /\ b[2 * w + 1].kind = "zero"
  <2>3. p = [result |-> "payload", of |-> 0, body |-> SubSeq(b, 1, 2 * w),
             taken |-> 2 * w + (IF last THEN 2 ELSE 0)]
    BY <2>2 DEF ChunkedBody, Chunks
  <2> HIDE DEF w, p
  <2>4. SubSeq(b, 1, 2 * w) \in Seq(BytesOf(sent))
    BY <1>1, <2>1, Part DEF w
  <2>5. QED
    BY <2>1, <2>3, <2>4 DEF w, p
<1>4. CASE ~HasRequestLine(b) /\ ~isChunk
  <2>1. p = Refused(b)
    BY <1>4 DEF Parse
  <2>2. QED
    BY <1>1, <2>1 DEF Refused, Nothing
<1>5. CASE HasRequestLine(b)
  <2> DEFINE head == HeadOf(b)
             end == head.taken + sent[head.of].length
  <2>1. CASE head.result # "request"
    <3>1. p = head
      BY <1>5, <2>1 DEF Parse
    <3>2. head = Nothing \/ head = Refused(b)
      BY <2>1 DEF HeadOf
    <3>3. CASE head = Nothing
      BY <3>1, <3>3 DEF Nothing
    <3>4. CASE head = Refused(b)
      BY <1>1, <3>1, <3>4 DEF Refused, Nothing
    <3>5. QED
      BY <3>2, <3>3, <3>4
  <2>2. CASE head.result = "request"
    <3>1. /\ HeadEnd(b) \in 1..Len(b)
          /\ head = [result |-> "request", of |-> b[HeadEnd(b)].of, body |-> <<>>, taken |-> HeadEnd(b)]
      BY <1>2, <2>2 DEF HeadOf, Nothing, Refused
    <3>2. head.of \in 1..Len(sent) /\ sent[head.of] \in Shapes
      BY <1>1, <3>1
    <3>3. end \in Nat
      BY <3>1, <3>2, KindsTyped
    <3>4. CASE Len(b) < end
      <4>1. p = Nothing
        BY <1>5, <2>2, <3>4 DEF Parse
      <4>2. QED
        BY <4>1 DEF Nothing
    <3>5. CASE ~(Len(b) < end)
      <4>1. p = [head EXCEPT !.body = SubSeq(b, head.taken + 1, end), !.taken = end]
        BY <1>5, <2>2, <3>5 DEF Parse
      <4>2. SubSeq(b, head.taken + 1, end) \in Seq(BytesOf(sent))
        BY <1>1, <3>1, <3>3, <3>5, Part
      <4>3. end <= Len(b)
        BY <1>1, <3>3, <3>5
      <4> HIDE DEF end
      <4>4. p.result = "request"
        BY <3>1, <4>1
      <4>5. QED
        BY <3>1, <3>2, <3>3, <4>1, <4>2, <4>3, <4>4
    <3>6. QED
      BY <3>4, <3>5
  <2>3. QED
    BY <2>1, <2>2
<1>6. QED
  BY <1>3, <1>4, <1>5

LEMMA BytesArePieces ==
  ASSUME TypeOK
  PROVE  /\ BytesOf(sent) \subseteq Piece /\ Seq(BytesOf(sent)) \subseteq Seq(Piece)
         /\ 1..Len(sent) \subseteq 1..MaxRequests /\ 1..MaxRequests \subseteq 0..MaxRequests
         /\ MaxRequests \in Nat /\ ChannelCap \in Nat /\ ChannelCap >= 1
<1>1. MaxRequests \in Nat /\ ChannelCap \in Nat /\ ChannelCap >= 1
  BY LimitsAssumption
<1>2. Len(sent) \in Nat /\ Len(sent) <= MaxRequests
  BY DEF TypeOK
<1>3. 1..Len(sent) \subseteq 1..MaxRequests /\ 1..MaxRequests \subseteq 0..MaxRequests
  BY <1>1, <1>2
<1>4. BytesOf(sent) \subseteq Piece
  BY <1>3 DEF BytesOf, Piece, PieceKinds
<1>5. QED
  BY <1>1, <1>3, <1>4, SeqMonotonic

LEMMA SaneInit == Init => Sane
<1> SUFFICES ASSUME Init PROVE Sane
  OBVIOUS
<1>1. /\ sent \in Seq(Shapes) /\ Len(sent) = 0 /\ wire \in Seq(Piece) /\ buffer \in Seq(Piece)
      /\ wire \in Seq(BytesOf(sent)) /\ buffer \in Seq(BytesOf(sent))
      /\ parsed \in Seq([of : 1..MaxRequests, body : Seq(Piece)])
      /\ parsed \in Seq([of : 1..Len(sent), body : Seq(Piece)])
      /\ answers \in Seq(0..MaxRequests)
      /\ handled \in Seq([of : 1..MaxRequests, body : Seq(Piece), whole : BOOLEAN])
  BY DEF Init
<1>2. MaxRequests \in Nat /\ ChannelCap \in Nat
  BY LimitsAssumption
<1>3. /\ stream \in [of : 0..MaxRequests, left : Nat, channel : Seq(Seq(Piece)),
                     reader : {"none", "reads", "done"}, got : Seq(Piece)]
      /\ Len(stream.channel) = 0
  BY <1>2 DEF Init, Idle
<1>4. eof \in BOOLEAN /\ cancelled \in BOOLEAN /\ pc = "read" /\ chunked \in BOOLEAN
      /\ strayed \in BOOLEAN /\ writing \in BOOLEAN
  BY DEF Init
<1>5. pc \in Positions
  BY <1>4 DEF Positions
<1>6. Len(sent) <= MaxRequests /\ Len(stream.channel) <= ChannelCap
  BY <1>1, <1>2, <1>3
<1>7. QED
  BY <1>1, <1>3, <1>4, <1>5, <1>6 DEF Sane, TypeOK

\* Typing of the steps of the client.
LEMMA SaneClient ==
  ASSUME Sane, (\E shape \in Shapes : Send(shape)) \/ HangUp \/ Shutdown
  PROVE  Sane'
<1>1. TypeOK /\ Len(sent) \in Nat
  BY DEF Sane, TypeOK
<1>2. ASSUME NEW shape \in Shapes, Send(shape) PROVE Sane'
  <2> DEFINE more == Pieces(Len(sent) + 1, Kinds(shape))
  <2>1. /\ sent' \in Seq(Shapes) /\ Len(sent') = Len(sent) + 1 /\ Len(sent') <= MaxRequests
    <3>1. Len(sent) < MaxRequests /\ sent' = Append(sent, shape) /\ sent \in Seq(Shapes)
      BY <1>1, <1>2 DEF Send, TypeOK
    <3>2. MaxRequests \in Nat
      BY LimitsAssumption
    <3>3. QED
      BY <1>1, <3>1, <3>2
  <2>2. 1..Len(sent) \subseteq 1..Len(sent') /\ BytesOf(sent) \subseteq BytesOf(sent')
    BY <1>1, <2>1 DEF BytesOf
  <2>3. more \in Seq(BytesOf(sent'))
    <3>1. Kinds(shape) \in Seq(PieceKinds) /\ Len(sent) + 1 \in 1..Len(sent')
      BY <1>1, <2>1, KindsTyped
    <3>2. DOMAIN Kinds(shape) = 1..Len(Kinds(shape)) /\ Len(Kinds(shape)) \in Nat
      BY <3>1
    <3>3. \A i \in 1..Len(Kinds(shape)) : more[i] \in BytesOf(sent')
      BY <3>1, <3>2 DEF Pieces, BytesOf
    <3>4. more = [i \in 1..Len(Kinds(shape)) |-> more[i]]
      BY <3>2 DEF Pieces
    <3> HIDE DEF more
    <3>5. QED
      BY <3>2, <3>3, <3>4, IsASeq
  <2>4. /\ wire \in Seq(BytesOf(sent')) /\ buffer \in Seq(BytesOf(sent'))
    BY <2>2, SeqMonotonic DEF Sane
  <2>5. wire' \in Seq(BytesOf(sent'))
    BY <1>2, <2>3, <2>4 DEF Send
  <2>6. [of : 1..Len(sent), body : Seq(Piece)] \subseteq [of : 1..Len(sent'), body : Seq(Piece)]
    BY <2>2
  <2>7. parsed \in Seq([of : 1..Len(sent'), body : Seq(Piece)])
    BY <2>6, SeqMonotonic DEF Sane
  <2>8. UNCHANGED <<eof, cancelled, pc, buffer, parsed, chunked, stream, writing, answers, handled, strayed>>
    BY <1>2 DEF Send, history
  <2>9. Seq(BytesOf(sent')) \subseteq Seq(Piece)
    <3>1. MaxRequests \in Nat
      BY LimitsAssumption
    <3>2. BytesOf(sent') \subseteq Piece
      BY <1>1, <2>1, <3>1 DEF BytesOf, Piece, PieceKinds
    <3>3. QED
      BY <3>2, SeqMonotonic
  <2>10. TypeOK'
    BY <2>1, <2>5, <2>8, <2>9 DEF TypeOK, Sane
  <2>11. QED
    BY <2>4, <2>5, <2>7, <2>8, <2>10 DEF Sane
<1>3. ASSUME HangUp PROVE Sane'
  <2>1. PICK n \in 0..Len(wire) : wire' = SubSeq(wire, 1, n)
    BY <1>3 DEF HangUp
  <2>2. n \in 0..Len(wire) /\ Len(wire) \in Nat
    BY <2>1 DEF Sane
  <2>3. wire' \in Seq(BytesOf(sent))
    BY <2>1, <2>2, Part DEF Sane
  <2>4. wire' \in Seq(Piece)
    BY <1>1, <2>3, BytesArePieces
  <2>5. UNCHANGED <<sent, cancelled, pc, buffer, parsed, chunked, stream, writing, answers, handled, strayed>>
        /\ eof' = TRUE
    BY <1>3 DEF HangUp, history
  <2>6. TypeOK'
    BY <2>4, <2>5 DEF TypeOK, Sane
  <2>7. QED
    BY <2>3, <2>5, <2>6 DEF Sane
<1>4. CASE Shutdown
  BY <1>4 DEF Shutdown, Sane, TypeOK, client, history
<1>5. QED
  BY <1>2, <1>3, <1>4

\* Typing of what every step may set.
LEMMA FlagsTyped ==
  ASSUME Sane, [Next]_vars
  PROVE  strayed' \in BOOLEAN /\ writing' \in BOOLEAN
<1>1. strayed \in BOOLEAN /\ writing \in BOOLEAN
  BY DEF Sane, TypeOK
<1>2. CASE UNCHANGED vars
  BY <1>1, <1>2 DEF vars, history
<1>3. CASE (\E shape \in Shapes : Send(shape)) \/ HangUp \/ Shutdown \/ Written
  BY <1>1, <1>3 DEF Send, HangUp, Shutdown, Written, history
<1>4. ASSUME NEW n \in DOMAIN wire, Read(n) PROVE strayed' \in BOOLEAN /\ writing' \in BOOLEAN
  <2>1. \E b : Overflow(b) \/ StartStream(b) \/ StartParse(b)
    BY <1>4 DEF Read
  <2>2. QED
    BY <1>1, <2>1 DEF Overflow, StartStream, StartParse, Answer
<1>5. CASE ReadEnds \/ ReadTimeout \/ Dispatch \/ Upgrade \/ DispatchEnds
  BY <1>1, <1>5 DEF ReadEnds, ReadTimeout, Dispatch, Upgrade, DispatchEnds, Answer, history
<1>6. CASE ParseNext
  <2>1. UNCHANGED <<writing, strayed>> \/ \E r : Refuse(r)
    BY <1>6, Zenon DEF ParseNext
  <2>2. QED
    BY <1>1, <2>1 DEF Refuse, Answer
<1>7. CASE (\E n \in DOMAIN wire : StreamRead(n)) \/ StreamDropped \/ StreamJoined
  BY <1>1, <1>7 DEF StreamRead, StreamDropped, StreamJoined
<1>8. CASE StreamEnds \/ StreamCut \/ HandlerReceives \/ HandlerAnswers
  BY <1>1, <1>8 DEF StreamEnds, StreamCut, HandlerReceives, HandlerAnswers, Answer, history
<1>9. QED
  BY <1>2, <1>3, <1>4, <1>5, <1>6, <1>7, <1>8 DEF Next, Server

\* Typing of a read.
LEMMA SaneRead ==
  ASSUME Sane, NEW n \in DOMAIN wire, Read(n)
  PROVE  Sane'
<1> DEFINE b == buffer \o SubSeq(wire, 1, n)
<1>1. TypeOK /\ Len(wire) \in Nat /\ n \in 1..Len(wire) /\ sent \in Seq(Shapes)
  BY DEF Sane, TypeOK
<1>2. /\ wire' \in Seq(BytesOf(sent)) /\ b \in Seq(BytesOf(sent)) /\ Len(b) \in Nat /\ Len(b) >= 1
      /\ UNCHANGED <<sent, eof, cancelled, handled>> /\ strayed' \in BOOLEAN /\ writing' \in BOOLEAN
  <2>1. SubSeq(wire, 1, n) \in Seq(BytesOf(sent)) /\ Len(SubSeq(wire, 1, n)) = n
    BY <1>1, Part DEF Sane
  <2>2. SubSeq(wire, n + 1, Len(wire)) \in Seq(BytesOf(sent))
    BY <1>1, Part DEF Sane
  <2>3. buffer \in Seq(BytesOf(sent))
    BY DEF Sane
  <2>4. b \in Seq(BytesOf(sent)) /\ Len(b) = Len(buffer) + n
    BY <2>1, <2>3, ConcatProperties
  <2>5. strayed' \in BOOLEAN /\ writing' \in BOOLEAN
    BY FlagsTyped DEF Next, Server
  <2>6. QED
    BY <1>1, <2>2, <2>3, <2>4, <2>5, SMTT(30) DEF Read, client
<1>3. Overflow(b) \/ StartStream(b) \/ StartParse(b)
  BY DEF Read
<1>4. ShouldStream(b) => HeadOf(b).result = "request"
  BY DEF ShouldStream
<1>5. StartStream(b) => ShouldStream(b) \/ Overflow(b) \/ StartParse(b)
  BY DEF Read
<1> HIDE DEF b
<1>6. b[1].of \in 1..Len(sent) /\ \A i \in 1..Len(b) : b[i].of \in 1..Len(sent)
  <2>1. \A i \in 1..Len(b) : b[i] \in BytesOf(sent)
    BY <1>2
  <2>2. \A x \in BytesOf(sent) : x.of \in 1..Len(sent)
    BY DEF BytesOf
  <2>3. QED
    BY <1>2, <2>1, <2>2
<1>7. b \in Seq(Piece) /\ wire' \in Seq(Piece)
  BY <1>1, <1>2, BytesArePieces
<1>8. CASE Overflow(b)
  <2>1. /\ pc' = "closed" /\ buffer' = b /\ answers' = Append(answers, b[1].of)
        /\ UNCHANGED <<parsed, chunked, stream>>
    BY <1>8 DEF Overflow, Close, Answer
  <2>2. b[1].of \in 0..MaxRequests
    BY <1>1, <1>6, BytesArePieces
  <2>3. answers' \in Seq(0..MaxRequests)
    BY <1>1, <2>1, <2>2 DEF TypeOK
  <2>4. pc' \in Positions /\ pc' # "stream"
    BY <2>1 DEF Positions
  <2>5. TypeOK'
    BY <1>1, <1>2, <1>7, <2>1, <2>3, <2>4 DEF TypeOK
  <2>6. QED
    BY <1>2, <2>1, <2>4, <2>5 DEF Sane
<1>9. CASE StartParse(b)
  <2>1. /\ pc' = "parse" /\ buffer' = b /\ parsed' = <<>> /\ chunked' \in BOOLEAN
        /\ UNCHANGED <<answers, stream>>
    BY <1>9 DEF StartParse, ChunkedHeader
  <2>2. pc' \in Positions /\ pc' # "stream"
    BY <2>1 DEF Positions
  <2>3. parsed' \in Seq([of : 1..MaxRequests, body : Seq(Piece)])
        /\ parsed' \in Seq([of : 1..Len(sent), body : Seq(Piece)])
    BY <2>1
  <2>4. TypeOK'
    BY <1>1, <1>2, <1>7, <2>1, <2>2, <2>3 DEF TypeOK
  <2>5. QED
    BY <1>2, <2>1, <2>2, <2>3, <2>4 DEF Sane
<1>10. CASE StartStream(b) /\ ShouldStream(b)
  <2> DEFINE head == HeadOf(b)
             rest == SubSeq(b, head.taken + 1, Len(b))
             length == sent[head.of].length
  <2>1. /\ pc' = "stream" /\ buffer' = <<>> /\ UNCHANGED <<answers, parsed, chunked>>
        /\ stream' = [of |-> head.of,
                      left |-> IF Len(rest) < length THEN length - Len(rest) ELSE 0,
                      channel |-> FirstChunk(rest), reader |-> "reads", got |-> <<>>]
    BY <1>10 DEF StartStream
  <2>2. HeadEnd(b) \in 1..Len(b) /\ head.of = b[HeadEnd(b)].of /\ head.taken = HeadEnd(b)
    <3>1. HeadEnd(b) \in 0..Len(b)
      BY <1>2, HeadFound
    <3>2. QED
      BY <1>4, <1>10, <3>1 DEF HeadOf, Nothing, Refused
  <2>3. head.of \in 1..Len(sent) /\ head.of \in 1..MaxRequests /\ head.of \in 0..MaxRequests
    BY <1>1, <1>6, <2>2, BytesArePieces
  <2>4. length \in Nat
    <3>1. sent[head.of] \in Shapes
      BY <1>1, <2>3
    <3>2. QED
      BY <3>1, KindsTyped
  <2>5. rest \in Seq(Piece) /\ Len(rest) \in Nat
    BY <1>2, <1>7, <2>2, Part
  <2> HIDE DEF head, length, rest
  <2>6. FirstChunk(rest) \in Seq(Seq(Piece)) /\ Len(FirstChunk(rest)) <= 1
    BY <2>5 DEF FirstChunk
  <2>7. (IF Len(rest) < length THEN length - Len(rest) ELSE 0) \in Nat
    BY <2>4, <2>5
  <2>8. <<>> \in Seq(Piece)
    OBVIOUS
  <2>9. stream' \in [of : 0..MaxRequests, left : Nat, channel : Seq(Seq(Piece)),
                     reader : {"none", "reads", "done"}, got : Seq(Piece)]
    BY <2>1, <2>3, <2>6, <2>7, <2>8
  <2>10. Len(stream'.channel) <= ChannelCap /\ stream'.of \in 1..MaxRequests
    BY <1>1, <2>1, <2>3, <2>6, BytesArePieces
  <2>11. pc' \in Positions
    BY <2>1 DEF Positions
  <2>12. buffer' \in Seq(Piece) /\ buffer' \in Seq(BytesOf(sent))
    BY <2>1
  <2>13. TypeOK'
    BY <1>1, <1>2, <1>7, <2>1, <2>9, <2>10, <2>11, <2>12 DEF TypeOK
  <2>14. QED
    BY <1>2, <2>1, <2>10, <2>12, <2>13 DEF Sane
<1>11. QED
  BY <1>3, <1>5, <1>8, <1>9, <1>10

\* A payload is for the last request.
Grown(q, more) == [q EXCEPT ![Len(q)].body = @ \o more]

\* What a turn of the parse loop does with what the parser made of the buffer.
Turn(p) ==
  \/ p.result = "none" /\ pc' = "dispatch" /\ UNCHANGED <<buffer, parsed, answers, strayed>>
  \/ /\ p.result = "error" /\ pc' = "dispatch" /\ buffer' = <<>>
     /\ answers' = Append(answers, p.of) /\ parsed' = parsed
     /\ strayed' = (strayed \/ parsed # <<>> \/ buffer # Pieces(p.of, Kinds(sent[p.of])))
  \/ /\ p.result \notin {"none", "error", "request"} /\ p.taken > Len(buffer)
     /\ pc' = "panicked" /\ UNCHANGED <<buffer, parsed, answers, strayed>>
  \/ /\ p.result = "request" /\ p.taken <= Len(buffer)
     /\ buffer' = SubSeq(buffer, p.taken + 1, Len(buffer))
     /\ parsed' = Append(parsed, [of |-> p.of, body |-> p.body])
     /\ UNCHANGED <<pc, answers, strayed>>
  \/ /\ p.result \notin {"none", "error", "request"} /\ ~(p.taken > Len(buffer))
     /\ buffer' = SubSeq(buffer, p.taken + 1, Len(buffer))
     /\ parsed' = (IF parsed = <<>> THEN parsed
                   ELSE Grown(parsed, p.body))
     /\ UNCHANGED <<pc, answers, strayed>>

LEMMA ParseTurn ==
  ASSUME Sane, ParseNext, buffer # <<>>
  PROVE  LET isChunk == chunked \/ ChunkedHeader(buffer)
         IN  chunked' = isChunk /\ Turn(Parse(buffer, isChunk))
<1> DEFINE isChunk == chunked \/ ChunkedHeader(buffer)
<1>1. PICK c : c = isChunk
  OBVIOUS
<1>2. PICK p : p = Parse(buffer, c)
  OBVIOUS
<1>3. /\ chunked' = c
      /\ CASE p.result = "none" ->
                pc' = "dispatch" /\ UNCHANGED <<buffer, parsed, answers, writing, strayed>>
           [] p.result = "error" -> Refuse(p)
           [] p.taken > Len(buffer) ->
                pc' = "panicked" /\ UNCHANGED <<buffer, parsed, answers, writing, strayed>>
           [] p.result = "request" ->
                /\ buffer' = SubSeq(buffer, p.taken + 1, Len(buffer))
                /\ parsed' = Append(parsed, [of |-> p.of, body |-> p.body])
                /\ UNCHANGED <<pc, answers, writing, strayed>>
           [] OTHER ->
                /\ buffer' = SubSeq(buffer, p.taken + 1, Len(buffer))
                /\ parsed' = (IF parsed = <<>> THEN parsed
                              ELSE Grown(parsed, p.body))
                /\ UNCHANGED <<pc, answers, writing, strayed>>
  BY <1>1, <1>2, Zenon DEF ParseNext, Grown
<1>6. /\ p.result \in {"none", "error"} => p.taken = 0
      /\ p.result = "request" => p.taken <= Len(buffer)
      /\ p.taken \in Nat /\ Len(buffer) \in Nat
  <2>1. buffer \in Seq(BytesOf(sent)) /\ sent \in Seq(Shapes)
    BY DEF Sane, TypeOK
  <2>2. QED
    BY <1>2, <2>1, ParseTyped
<1>7. p.result \in {"none", "error", "request"} => ~(p.taken > Len(buffer))
  BY <1>6
<1> HIDE DEF isChunk
<1>4. Turn(p)
  <2>1. CASE p.result = "none"
    BY <1>3, <1>7, <2>1, Zenon DEF Turn
  <2>2. CASE p.result = "error"
    BY <1>3, <1>7, <2>2, Zenon DEF Turn, Refuse, Answer
  <2>3. CASE p.result \notin {"none", "error", "request"} /\ p.taken > Len(buffer)
    BY <1>3, <2>3, Zenon DEF Turn
  <2>4. CASE p.result = "request"
    BY <1>3, <1>6, <1>7, <2>4 DEF Turn
  <2>5. CASE p.result \notin {"none", "error", "request"} /\ ~(p.taken > Len(buffer))
    BY <1>3, <2>5, Zenon DEF Turn
  <2>6. QED
    BY <2>1, <2>2, <2>3, <2>4, <2>5
<1>5. QED
  BY <1>1, <1>2, <1>3, <1>4 DEF isChunk

LEMMA BodyGrows ==
  ASSUME NEW N, NEW S, NEW q \in Seq([of : N, body : Seq(S)]), q # <<>>, NEW more \in Seq(S)
  PROVE  LET last == q[Len(q)]
             r == Grown(q, more)
         IN  /\ r \in Seq([of : N, body : Seq(S)]) /\ Len(r) = Len(q)
             /\ Len(q) \in 1..Len(q) /\ last \in [of : N, body : Seq(S)]
             /\ \A i \in 1..Len(q) - 1 : r[i] = q[i]
             /\ r[Len(q)] = [of |-> last.of, body |-> last.body \o more]
<1> DEFINE R == [of : N, body : Seq(S)]
           last == q[Len(q)]
           r == Grown(q, more)
           e == [of |-> last.of, body |-> last.body \o more]
<1>1. q \in Seq(R)
  OBVIOUS
<1> HIDE DEF R
<1>2. Len(q) \in 1..Len(q) /\ DOMAIN q = 1..Len(q) /\ last \in R
  BY <1>1
<1>3. last.of \in N /\ last.body \in Seq(S) /\ last = [of |-> last.of, body |-> last.body]
  BY <1>2 DEF R
<1>4. last.body \o more \in Seq(S)
  BY <1>3, ConcatProperties
<1>5. e \in R /\ e = [last EXCEPT !.body = last.body \o more]
  <2>1. ASSUME NEW l, l \in [of : N, body : Seq(S)], NEW d \in Seq(S)
        PROVE  [l EXCEPT !.body = d] = [of |-> l.of, body |-> d]
    <3>1. PICK n \in N, b \in Seq(S) : l = [of |-> n, body |-> b]
      BY <2>1
    <3>2. QED
      BY <3>1
  <2>2. last \in [of : N, body : Seq(S)]
    BY <1>2 DEF R
  <2> HIDE DEF last
  <2>3. e = [last EXCEPT !.body = last.body \o more]
    BY <1>4, <2>1, <2>2
  <2>4. e \in R
    BY <1>3, <1>4 DEF R
  <2>5. QED
    BY <2>3, <2>4
<1>6. r = [q EXCEPT ![Len(q)] = [last EXCEPT !.body = last.body \o more]]
  BY DEF Grown
<1>7. r = [q EXCEPT ![Len(q)] = e]
  BY <1>5, <1>6
<1>8. PICK x : x = e
  OBVIOUS
<1> HIDE DEF last, e, r
<1>9. /\ r \in Seq(R) /\ Len(r) = Len(q) /\ r[Len(q)] = x
      /\ \A i \in 1..Len(q) - 1 : r[i] = q[i]
  BY <1>1, <1>2, <1>5, <1>7, <1>8
<1>10. QED
  BY <1>2, <1>8, <1>9 DEF R, last, e, r

\* Typing of a turn of the parse loop.
LEMMA SaneParse ==
  ASSUME Sane, ParseNext
  PROVE  Sane'
<1> DEFINE isChunk == chunked \/ ChunkedHeader(buffer)
           p == Parse(buffer, isChunk)
           R == [of : 1..Len(sent), body : Seq(Piece)]
<1>1. /\ TypeOK /\ sent \in Seq(Shapes) /\ Len(sent) \in Nat /\ Len(buffer) \in Nat
      /\ wire \in Seq(BytesOf(sent)) /\ buffer \in Seq(BytesOf(sent)) /\ parsed \in Seq(R)
  BY DEF Sane, TypeOK
<1>2. /\ UNCHANGED <<sent, eof, wire, cancelled, stream, handled>> /\ pc = "parse"
      /\ strayed' \in BOOLEAN /\ writing' \in BOOLEAN
  BY FlagsTyped DEF ParseNext, client, Next, Server
<1>3. isChunk \in BOOLEAN
  BY <1>1 DEF TypeOK, ChunkedHeader
<1>4. R \subseteq [of : 1..MaxRequests, body : Seq(Piece)]
  BY <1>1, BytesArePieces
<1>5. SUFFICES /\ pc' \in {"parse", "dispatch", "panicked"} /\ chunked' \in BOOLEAN
               /\ buffer' \in Seq(BytesOf(sent)) /\ parsed' \in Seq(R)
               /\ answers' \in Seq(0..MaxRequests)
  <2>1. pc' \in Positions /\ pc' # "stream"
    BY <1>5 DEF Positions
  <2>5. buffer' \in Seq(Piece)
    BY <1>1, <1>5, BytesArePieces
  <2>6. parsed' \in Seq([of : 1..MaxRequests, body : Seq(Piece)])
    <3> HIDE DEF R
    <3>1. QED
      BY <1>4, <1>5, SeqMonotonic
  <2>2. buffer' \in Seq(Piece) /\ parsed' \in Seq([of : 1..MaxRequests, body : Seq(Piece)])
    BY <2>5, <2>6
  <2>3. TypeOK'
    BY <1>1, <1>2, <1>5, <2>1, <2>2 DEF TypeOK
  <2>4. QED
    BY <1>1, <1>2, <1>5, <2>1, <2>3 DEF Sane
<1>6. CASE buffer = <<>>
  <2>1. pc' = "dispatch" /\ UNCHANGED <<buffer, parsed, chunked, answers>>
    BY <1>6 DEF ParseNext
  <2>2. QED
    BY <1>1, <2>1 DEF TypeOK
<1>7. CASE buffer # <<>>
  <2>1. /\ p.taken \in Nat /\ p.body \in Seq(BytesOf(sent))
        /\ p.result \in {"request", "error"} => p.of \in 1..Len(sent)
    BY <1>1, <1>7, ParseTyped
  <2>2. chunked' = isChunk /\ Turn(p)
    BY <1>7, ParseTurn
  <2>3. p.body \in Seq(Piece)
    BY <1>1, <2>1, BytesArePieces
  <2> HIDE DEF p, isChunk
  <2>4. ~(p.taken > Len(buffer)) \/ p.taken <= Len(buffer)
          => SubSeq(buffer, p.taken + 1, Len(buffer)) \in Seq(BytesOf(sent))
    BY <1>1, <2>1, Part
  <2>5. p.result = "error" => Append(answers, p.of) \in Seq(0..MaxRequests)
    <3>1. p.result = "error" => p.of \in 0..MaxRequests
      BY <1>1, <2>1, BytesArePieces
    <3>2. QED
      BY <1>1, <3>1 DEF TypeOK
  <2>6. p.result = "request" => Append(parsed, [of |-> p.of, body |-> p.body]) \in Seq(R)
    <3>1. p.result = "request" => [of |-> p.of, body |-> p.body] \in R
      BY <2>1, <2>3
    <3>2. QED
      BY <1>1, <3>1
  <2>7. parsed # <<>> => Grown(parsed, p.body) \in Seq(R)
    BY <1>1, <2>3, BodyGrows
  <2>8. CASE p.result = "none" /\ pc' = "dispatch" /\ UNCHANGED <<buffer, parsed, answers, strayed>>
    BY <1>1, <1>3, <2>2, <2>8 DEF TypeOK
  <2>9. CASE /\ p.result = "error" /\ pc' = "dispatch" /\ buffer' = <<>>
             /\ answers' = Append(answers, p.of) /\ parsed' = parsed
             /\ strayed' = (strayed \/ parsed # <<>> \/ buffer # Pieces(p.of, Kinds(sent[p.of])))
    BY <1>1, <1>3, <2>2, <2>5, <2>9
  <2>10. CASE /\ p.result \notin {"none", "error", "request"} /\ p.taken > Len(buffer)
              /\ pc' = "panicked" /\ UNCHANGED <<buffer, parsed, answers, strayed>>
    BY <1>1, <1>3, <2>2, <2>10 DEF TypeOK
  <2>11. CASE /\ p.result = "request" /\ p.taken <= Len(buffer)
              /\ buffer' = SubSeq(buffer, p.taken + 1, Len(buffer))
              /\ parsed' = Append(parsed, [of |-> p.of, body |-> p.body])
              /\ UNCHANGED <<pc, answers, strayed>>
    BY <1>1, <1>2, <1>3, <2>2, <2>4, <2>6, <2>11 DEF TypeOK
  <2>12. CASE /\ p.result \notin {"none", "error", "request"} /\ ~(p.taken > Len(buffer))
              /\ buffer' = SubSeq(buffer, p.taken + 1, Len(buffer))
              /\ parsed' = (IF parsed = <<>> THEN parsed
                            ELSE Grown(parsed, p.body))
              /\ UNCHANGED <<pc, answers, strayed>>
    BY <1>1, <1>2, <1>3, <2>2, <2>4, <2>7, <2>12 DEF TypeOK
  <2>13. QED
    BY <2>2, <2>8, <2>9, <2>10, <2>11, <2>12 DEF Turn
<1>8. QED
  BY <1>6, <1>7

\* Typing of the other steps with buffered requests.
LEMMA SaneBuffered ==
  ASSUME Sane, ReadEnds \/ ReadTimeout \/ Dispatch \/ Upgrade \/ DispatchEnds \/ Written
  PROVE  Sane'
<1> DEFINE R == [of : 1..Len(sent), body : Seq(Piece)]
           H == [of : 1..MaxRequests, body : Seq(Piece), whole : BOOLEAN]
<1>1. /\ TypeOK /\ parsed \in Seq(R) /\ answers \in Seq(0..MaxRequests) /\ 0 \in 0..MaxRequests
      /\ handled \in Seq(H)
  BY BytesArePieces DEF Sane, TypeOK
<1>2. UNCHANGED <<sent, eof, wire, cancelled, buffer, chunked, stream, strayed>>
  BY DEF ReadEnds, ReadTimeout, Dispatch, Upgrade, DispatchEnds, Written, client, history
<1>11. writing' \in BOOLEAN
  BY FlagsTyped DEF Next, Server
<1>3. R \subseteq [of : 1..MaxRequests, body : Seq(Piece)]
  BY <1>1, BytesArePieces
<1>4. SUFFICES /\ pc' \in Positions /\ (pc' = "stream" => pc = "stream") /\ parsed' \in Seq(R)
               /\ answers' \in Seq(0..MaxRequests) /\ handled' \in Seq(H)
  <2>2. parsed' \in Seq([of : 1..MaxRequests, body : Seq(Piece)])
    <3> HIDE DEF R
    <3>1. QED
      BY <1>3, <1>4, SeqMonotonic
  <2>3. TypeOK'
    BY <1>1, <1>2, <1>4, <1>11, <2>2 DEF TypeOK
  <2>4. QED
    BY <1>2, <1>4, <2>3 DEF Sane
<1>5. CASE ReadEnds \/ DispatchEnds
  BY <1>1, <1>5 DEF ReadEnds, DispatchEnds, Close, history, Positions
<1>6. CASE ReadTimeout
  BY <1>1, <1>6 DEF ReadTimeout, Close, Answer, Positions
<1>7. ASSUME parsed # <<>>
      PROVE  /\ Head(parsed) \in R /\ Tail(parsed) \in Seq(R) /\ Whole(Head(parsed)) \in H
             /\ Append(answers, Head(parsed).of) \in Seq(0..MaxRequests)
  <2>1. Head(parsed) \in R /\ Tail(parsed) \in Seq(R)
    <3> HIDE DEF R
    <3>1. QED
      BY <1>1, <1>7
  <2>2. /\ Head(parsed).of \in 1..MaxRequests /\ Head(parsed).of \in 0..MaxRequests
        /\ Head(parsed).body \in Seq(Piece)
    BY <1>1, <2>1, BytesArePieces
  <2>3. Whole(Head(parsed)) \in H
    BY <2>2 DEF Whole
  <2>4. QED
    BY <1>1, <2>1, <2>2, <2>3
<1>8. CASE Dispatch
  <2>1. /\ pc' = "dispatch" /\ parsed # <<>> /\ parsed' = Tail(parsed)
        /\ answers' = Append(answers, Head(parsed).of)
        /\ handled' = handled \/ handled' = Append(handled, Whole(Head(parsed)))
    BY <1>8 DEF Dispatch, Answer
  <2> HIDE DEF R, H
  <2>2. Whole(Head(parsed)) \in H
    BY <1>7, <2>1
  <2>5. Append(handled, Whole(Head(parsed))) \in Seq(H)
    BY <1>1, <2>2
  <2>3. handled' \in Seq(H)
    BY <1>1, <2>1, <2>5, Zenon
  <2>6. pc' \in Positions /\ pc' # "stream"
    BY <2>1 DEF Positions
  <2>4. QED
    BY <1>7, <2>1, <2>3, <2>6
<1>9. CASE Upgrade
  <2>1. /\ pc' = "websocket" /\ parsed # <<>> /\ parsed' = <<>> /\ handled' = handled
        /\ answers' = Append(answers, Head(parsed).of)
    BY <1>9 DEF Upgrade, Answer
  <2> HIDE DEF R, H
  <2>3. pc' \in Positions /\ pc' # "stream"
    BY <2>1 DEF Positions
  <2>2. QED
    BY <1>1, <1>7, <2>1, <2>3
<1>12. CASE Written
  BY <1>1, <1>12 DEF Written, history, Positions, TypeOK
<1>10. QED
  BY <1>5, <1>6, <1>8, <1>9, <1>12

\* Typing of the steps with a streamed body.
LEMMA SaneStream ==
  ASSUME Sane,
         \/ \E n \in DOMAIN wire : StreamRead(n)
         \/ StreamEnds \/ StreamCut \/ HandlerReceives \/ HandlerAnswers \/ StreamDropped \/ StreamJoined
  PROVE  Sane'
<1> DEFINE S == [of : 0..MaxRequests, left : Nat, channel : Seq(Seq(Piece)),
                 reader : {"none", "reads", "done"}, got : Seq(Piece)]
           H == [of : 1..MaxRequests, body : Seq(Piece), whole : BOOLEAN]
           Kept == /\ wire' \in Seq(BytesOf(sent)) /\ pc' \in {"read", "stream", "answered"}
                   /\ stream' \in S /\ Len(stream'.channel) <= ChannelCap
                   /\ pc' = "stream" => pc = "stream" /\ stream'.of = stream.of
                   /\ answers' \in Seq(0..MaxRequests) /\ handled' \in Seq(H)
<1>1. /\ TypeOK /\ stream \in S /\ answers \in Seq(0..MaxRequests) /\ handled \in Seq(H)
      /\ Len(stream.channel) <= ChannelCap /\ wire \in Seq(BytesOf(sent)) /\ Len(wire) \in Nat
      /\ ChannelCap \in Nat /\ MaxRequests \in Nat
  BY BytesArePieces DEF Sane, TypeOK
<1>2. UNCHANGED <<sent, eof, cancelled, buffer, parsed, chunked>>
  BY DEF StreamRead, StreamEnds, StreamCut, HandlerReceives, HandlerAnswers, StreamDropped,
         StreamJoined, client, history
<1>12. strayed' \in BOOLEAN /\ writing' \in BOOLEAN
  BY FlagsTyped DEF Next, Server
<1>3. SUFFICES Kept
  <2>1. pc' \in Positions
    BY <1>3 DEF Positions
  <2>2. wire' \in Seq(Piece)
    BY <1>1, <1>3, BytesArePieces
  <2>3. TypeOK'
    BY <1>1, <1>2, <1>3, <1>12, <2>1, <2>2 DEF TypeOK
  <2>4. QED
    BY <1>2, <1>3, <2>1, <2>3 DEF Sane
<1>4. ASSUME NEW n \in 0..Len(wire)
      PROVE  /\ SubSeq(wire, n + 1, Len(wire)) \in Seq(BytesOf(sent))
             /\ SubSeq(wire, 1, n) \in Seq(Piece)
  <2>1. SubSeq(wire, n + 1, Len(wire)) \in Seq(BytesOf(sent)) /\ SubSeq(wire, 1, n) \in Seq(BytesOf(sent))
    BY <1>1, Part
  <2>2. QED
    BY <1>1, <2>1, BytesArePieces
<1>5. ASSUME NEW n \in DOMAIN wire, StreamRead(n)
      PROVE  Kept
  <2> DEFINE take == IF n < stream.left THEN n ELSE stream.left
  <2>1. /\ n \in 0..Len(wire) /\ take \in 0..Len(wire) /\ stream.left - take \in Nat
    BY <1>1, SMTT(30)
  <2>2. /\ pc = "stream" /\ pc' = pc /\ wire' = SubSeq(wire, n + 1, Len(wire))
        /\ Len(stream.channel) < ChannelCap /\ UNCHANGED <<answers, handled>>
        /\ stream' = [stream EXCEPT !.left = stream.left - take,
                                    !.channel = Append(stream.channel, SubSeq(wire, 1, take))]
    BY <1>5 DEF StreamRead, history
  <2>3. SubSeq(wire, 1, take) \in Seq(Piece)
    BY <1>4, <2>1
  <2> HIDE DEF take
  <2>4. /\ Append(stream.channel, SubSeq(wire, 1, take)) \in Seq(Seq(Piece))
        /\ Len(Append(stream.channel, SubSeq(wire, 1, take))) <= ChannelCap
    BY <1>1, <2>2, <2>3, SMTT(30)
  <2>5. stream' \in S /\ Len(stream'.channel) <= ChannelCap /\ stream'.of = stream.of
    BY <1>1, <2>1, <2>2, <2>4
  <2> HIDE DEF S, H
  <2>6. QED
    BY <1>1, <1>4, <2>1, <2>2, <2>5 DEF TypeOK
<1>6. CASE StreamEnds \/ StreamCut
  <2>1. /\ pc = "stream" /\ pc' = pc /\ UNCHANGED <<wire, answers, handled, strayed>>
        /\ stream' = [stream EXCEPT !.reader = "done"]
    BY <1>6 DEF StreamEnds, StreamCut, history
  <2>2. stream' \in S /\ Len(stream'.channel) <= ChannelCap /\ stream'.of = stream.of
    BY <1>1, <2>1
  <2> HIDE DEF S, H
  <2>3. QED
    BY <1>1, <2>1, <2>2 DEF TypeOK
<1>7. CASE HandlerReceives
  <2>1. /\ pc = "stream" /\ pc' = pc /\ UNCHANGED <<wire, answers, handled, strayed>>
        /\ stream.channel # <<>>
        /\ stream' = [stream EXCEPT !.channel = Tail(stream.channel),
                                    !.got = stream.got \o Head(stream.channel)]
    BY <1>7 DEF HandlerReceives, history
  <2>2. /\ Tail(stream.channel) \in Seq(Seq(Piece)) /\ Len(Tail(stream.channel)) <= ChannelCap
        /\ Head(stream.channel) \in Seq(Piece)
    BY <1>1, <2>1
  <2>3. stream.got \o Head(stream.channel) \in Seq(Piece)
    BY <1>1, <2>2, ConcatProperties
  <2>4. stream' \in S /\ Len(stream'.channel) <= ChannelCap /\ stream'.of = stream.of
    BY <1>1, <2>1, <2>2, <2>3
  <2> HIDE DEF S, H
  <2>5. QED
    BY <1>1, <2>1, <2>4 DEF TypeOK
<1>8. CASE HandlerAnswers
  <2> DEFINE h == [of |-> stream.of, body |-> stream.got,
                   whole |-> stream.left = 0 /\ stream.channel = <<>>]
  <2>1. /\ pc = "stream" /\ pc' = "answered" /\ UNCHANGED <<wire, stream, strayed>>
        /\ answers' = Append(answers, stream.of) /\ handled' = Append(handled, h)
    BY <1>8 DEF HandlerAnswers, Answer
  <2>2. stream.of \in 1..MaxRequests /\ stream.of \in 0..MaxRequests
    BY <1>1, <2>1 DEF Sane
  <2>3. h \in H
    BY <1>1, <2>2
  <2> HIDE DEF S, H, h
  <2>4. QED
    BY <1>1, <2>1, <2>2, <2>3 DEF TypeOK
<1>9. CASE StreamDropped
  <2>1. PICK n \in 0..Len(wire) :
          /\ wire' = SubSeq(wire, n + 1, Len(wire))
          /\ stream' = [stream EXCEPT !.reader = "done",
                                      !.left = IF n < stream.left THEN stream.left - n ELSE 0]
    BY <1>9 DEF StreamDropped
  <2>2. pc = "answered" /\ pc' = pc /\ UNCHANGED <<answers, handled>>
    BY <1>9 DEF StreamDropped
  <2>3. (IF n < stream.left THEN stream.left - n ELSE 0) \in Nat
    BY <1>1
  <2>4. stream' \in S /\ Len(stream'.channel) <= ChannelCap
    BY <1>1, <2>1, <2>3
  <2> HIDE DEF S, H
  <2>6. QED
    BY <1>1, <1>4, <2>1, <2>2, <2>4
<1>10. CASE StreamJoined
  <2>1. /\ pc' = "read" /\ stream' = Idle /\ UNCHANGED <<wire, answers, handled>>
    BY <1>10 DEF StreamJoined
  <2>2. stream' \in S /\ Len(stream'.channel) <= ChannelCap
    BY <1>1, <2>1 DEF Idle
  <2> HIDE DEF S, H
  <2>4. QED
    BY <1>1, <2>1, <2>2
<1>11. QED
  BY <1>5, <1>6, <1>7, <1>8, <1>9, <1>10

LEMMA SaneNext ==
  ASSUME Sane, [Next]_vars
  PROVE  Sane'
<1>1. CASE Next
  BY <1>1, SaneClient, SaneRead, SaneParse, SaneBuffered, SaneStream DEF Next, Server
<1>2. CASE UNCHANGED vars
  BY <1>2 DEF vars, client, history, Sane, TypeOK
<1>3. QED
  BY <1>1, <1>2

\* The connection's state has its types: every byte in the buffer is of a request
\* that was sent, a body's channel never holds more than it may, and the reader
\* never counts more bytes than the body has.
THEOREM TypeInvariant == Spec => []TypeOK
<1>1. Sane => TypeOK
  BY DEF Sane
<1>2. QED
  BY <1>1, SaneInit, SaneNext, PTL DEF Spec

-----------------------------------------------------------------------------
(* Where the connection is in the client's stream.  The requests end at    *)
(* positions f[1], f[2], ... of the stream; what is in the buffer and what *)
(* is under way lie along it from some position on.  That is so until it  *)
(* has strayed, whatever the client sends and wherever a read ends.        *)

Offsets(f, s) ==
  /\ f \in [0..Len(s) -> Int]
  /\ \A n \in 1..Len(s) : f[n] = f[n - 1] + Len(Kinds(s[n]))
  /\ \A m, n \in 0..Len(s) : m <= n => f[m] <= f[n]

\* The piece e is the one at position p of the stream of s, and the pieces q are
\* those from position k on.
OnStream(e, p, f, s) ==
  /\ e.of \in 1..Len(s)
  /\ f[e.of - 1] < p /\ p <= f[e.of]
  /\ e.kind = Kinds(s[e.of])[p - f[e.of - 1]]

Along(q, k, f, s) == \A i \in 1..Len(q) : OnStream(q[i], k + i, f, s)

GoodEnds == {"rest", "head", "data", "end"}

EndsWell(q) == q # <<>> => q[Len(q)].kind \in GoodEnds

Lined(f, base) ==
  /\ Offsets(f, sent) /\ base \in Int
  /\ Along(buffer, base, f, sent) /\ Along(wire, base + Len(buffer), f, sent)
  /\ base + Len(buffer) + Len(wire) <= f[Len(sent)]
  /\ ~eof => base + Len(buffer) + Len(wire) = f[Len(sent)]
  /\ EndsWell(buffer)

WholeBody(s, n) == Pieces(n, Body(s[n]))

\* Between requests, or with the head of a chunked one parsed and its chunks in
\* the buffer.
Taken == Len(answers) + Len(parsed)

Midway(f, base) ==
  /\ pc = "parse" /\ parsed # <<>> /\ chunked /\ sent[Taken].kind = "chunked"
  /\ base = f[Taken] - 4 /\ Len(buffer) >= 4 /\ parsed[Len(parsed)].body = <<>>

Collecting(f, base) ==
  /\ pc \in {"read", "parse", "dispatch"} /\ Taken <= Len(sent)
  /\ base = f[Taken] \/ Midway(f, base)
  /\ \A j \in 1..Len(parsed) :
       /\ parsed[j].of = Len(answers) + j
       /\ (j = Len(parsed) => base = f[Taken]) => parsed[j].body = WholeBody(sent, Len(answers) + j)
  /\ pc = "read" => parsed = <<>>
  /\ pc # "parse" /\ Taken < Len(sent) => base + Len(buffer) < f[Taken + 1]

Datum(n) == [of |-> n, kind |-> "data"]

\* What the handler has got, what is in the channel and what is left to read make
\* up a body of so many pieces.
Counted(st, length) ==
  /\ \A i \in 1..Len(st.got) : st.got[i] = Datum(st.of)
  /\ \A c \in 1..Len(st.channel) : \A i \in 1..Len(st.channel[c]) :
       st.channel[c][i] = Datum(st.of)
  /\ \E g \in [0..Len(st.channel) -> Nat] :
       /\ g[0] = Len(st.got) /\ g[Len(st.channel)] + st.left = length
       /\ \A c \in 1..Len(st.channel) : g[c] = g[c - 1] + Len(st.channel[c])
       /\ \A c, e \in 0..Len(st.channel) : c <= e => g[c] <= g[e]

Streaming(f, base) ==
  /\ pc = "stream" /\ buffer = <<>> /\ parsed = <<>>
  /\ stream.of = Len(answers) + 1 /\ stream.of <= Len(sent) /\ Streamed(sent[stream.of])
  /\ base = f[stream.of] - stream.left
  /\ Counted(stream, sent[stream.of].length)

Served(f, base) ==
  /\ pc = "answered" /\ buffer = <<>> /\ parsed = <<>>
  /\ stream.of = Len(answers) /\ stream.of <= Len(sent)
  /\ base = f[stream.of] - stream.left

Numbered ==
  \A i \in 1..Len(answers) : \/ answers[i] = i
                             \/ answers[i] = 0 /\ i = Len(answers) /\ pc = "closed"

HandledWhole ==
  \A i \in 1..Len(handled) :
    /\ handled[i].of \in 1..Len(sent)
    /\ IF handled[i].whole THEN handled[i].body = WholeBody(sent, handled[i].of)
                           ELSE IsPrefix(handled[i].body, WholeBody(sent, handled[i].of))

At(f, base) == Lined(f, base) /\ (Collecting(f, base) \/ Streaming(f, base) \/ Served(f, base))

Running == \E f, base : At(f, base)

Fine == Numbered /\ HandledWhole /\ (pc \in {"closed", "websocket"} \/ Running)

InPlace == strayed \/ Fine

\* About the positions of requests.
LEMMA LastKind ==
  ASSUME NEW x \in Shapes
  PROVE  Kinds(x)[Len(Kinds(x))] \in GoodEnds
<1>1. CASE x.kind = "chunked"
  <2>1. Len(Kinds(x)) = 7 /\ Kinds(x)[7] = "end"
    BY <1>1, KindsTyped
  <2>2. QED
    BY <2>1 DEF GoodEnds
<1>2. CASE x.kind # "chunked"
  <2>1. /\ x.length \in Nat /\ Len(Kinds(x)) = 3 + x.length /\ Kinds(x)[3] = "head"
        /\ \A i \in 4..3 + x.length : Kinds(x)[i] = "data"
    BY <1>2, KindsTyped
  <2>2. Kinds(x)[3 + x.length] \in {"head", "data"}
    BY <2>1
  <2>3. QED
    BY <2>1, <2>2 DEF GoodEnds
<1>3. QED
  BY <1>1, <1>2

LEMMA OffsetsTyped ==
  ASSUME NEW s \in Seq(Shapes), NEW f, Offsets(f, s)
  PROVE  /\ Len(s) \in Nat /\ \A n \in 0..Len(s) : f[n] \in Int
         /\ \A n \in 1..Len(s) :
              /\ n - 1 \in 0..Len(s) /\ n \in 0..Len(s) /\ s[n] \in Shapes
              /\ Len(Kinds(s[n])) \in Nat /\ Len(Kinds(s[n])) >= 3
              /\ f[n] = f[n - 1] + Len(Kinds(s[n]))
         /\ \A m, n \in 0..Len(s) : m <= n => f[m] <= f[n]
<1>1. Len(s) \in Nat /\ \A n \in 1..Len(s) : s[n] \in Shapes
  OBVIOUS
<1>2. \A n \in 1..Len(s) : Len(Kinds(s[n])) \in Nat /\ Len(Kinds(s[n])) >= 3
  <2>1. ASSUME NEW x \in Shapes PROVE Len(Kinds(x)) \in Nat /\ Len(Kinds(x)) >= 3
    <3>1. x.length \in Nat
      BY KindsTyped
    <3>2. x.kind = "chunked" => Len(Kinds(x)) = 7
      BY KindsTyped
    <3>3. x.kind # "chunked" => Len(Kinds(x)) = 3 + x.length
      BY KindsTyped
    <3>4. CASE x.kind = "chunked"
      <4>1. Len(Kinds(x)) = 7
        BY <3>4, KindsTyped
      <4>2. 7 \in Nat /\ 7 >= 3
        OBVIOUS
      <4>3. QED
        BY <4>1, <4>2, Zenon
    <3>5. CASE x.kind # "chunked"
      BY <3>1, <3>3, <3>5
    <3>6. QED
      BY <3>4, <3>5
  <2>2. QED
    BY <1>1, <2>1
<1>3. \A n \in 1..Len(s) : n - 1 \in 0..Len(s) /\ n \in 0..Len(s)
  BY <1>1
<1>4. \A n \in 0..Len(s) : f[n] \in Int
  BY DEF Offsets
<1>5. QED
  BY <1>1, <1>2, <1>3, <1>4 DEF Offsets

LEMMA OneRequest ==
  ASSUME NEW s \in Seq(Shapes), NEW f, Offsets(f, s), NEW p \in Int,
         NEW m \in 1..Len(s), NEW n \in 1..Len(s),
         f[m - 1] < p, p <= f[m], f[n - 1] < p, p <= f[n]
  PROVE  m = n
<1>1. /\ m - 1 \in 0..Len(s) /\ m \in 0..Len(s) /\ n - 1 \in 0..Len(s) /\ n \in 0..Len(s)
      /\ f[m - 1] \in Int /\ f[m] \in Int /\ f[n - 1] \in Int /\ f[n] \in Int /\ Len(s) \in Nat
  BY OffsetsTyped
<1>2. m <= n - 1 => f[m] <= f[n - 1]
  BY <1>1 DEF Offsets
<1>3. n <= m - 1 => f[n] <= f[m - 1]
  BY <1>1 DEF Offsets
<1>4. QED
  BY <1>1, <1>2, <1>3

LEMMA AlongAt ==
  ASSUME NEW s \in Seq(Shapes), NEW f, Offsets(f, s), NEW q \in Seq(BytesOf(s)),
         NEW k \in Int, Along(q, k, f, s), NEW i \in 1..Len(q), NEW n \in 1..Len(s),
         f[n - 1] < k + i, k + i <= f[n]
  PROVE  q[i] = [of |-> n, kind |-> Kinds(s[n])[(k + i) - f[n - 1]]]
<1>1. /\ q[i].of \in 1..Len(s) /\ f[q[i].of - 1] < k + i /\ k + i <= f[q[i].of]
      /\ q[i].kind = Kinds(s[q[i].of])[(k + i) - f[q[i].of - 1]]
  BY DEF Along, OnStream
<1>2. k + i \in Int
  OBVIOUS
<1>3. q[i].of = n
  BY <1>1, <1>2, OneRequest
<1>4. q[i] = [of |-> q[i].of, kind |-> q[i].kind]
  <2>1. q[i] \in BytesOf(s)
    OBVIOUS
  <2>2. QED
    BY <2>1 DEF BytesOf
<1>5. QED
  BY <1>1, <1>3, <1>4

LEMMA AlongPart ==
  ASSUME NEW T, NEW q \in Seq(T), NEW k \in Int, NEW f, NEW s, Along(q, k, f, s),
         NEW m \in Nat, NEW n \in Nat, n <= Len(q)
  PROVE  Along(SubSeq(q, m + 1, n), k + m, f, s)
<1> DEFINE r == SubSeq(q, m + 1, n)
<1>1. /\ Len(r) = IF m <= n THEN n - m ELSE 0
      /\ \A i \in 1..Len(r) : r[i] = q[m + i]
  BY Part
<1> HIDE DEF r
<1>2. ASSUME NEW i \in 1..Len(r)
      PROVE  m + i \in 1..Len(q) /\ (k + m) + i = k + (m + i) /\ r[i] = q[m + i]
  BY <1>1
<1>3. QED
  BY <1>2 DEF Along, r

LEMMA AlongJoin ==
  ASSUME NEW T, NEW q \in Seq(T), NEW r \in Seq(T), NEW k \in Int, NEW f, NEW s,
         Along(q, k, f, s), Along(r, k + Len(q), f, s)
  PROVE  Along(q \o r, k, f, s) /\ Len(q \o r) = Len(q) + Len(r)
<1> DEFINE w == q \o r
<1>1. /\ Len(w) = Len(q) + Len(r) /\ Len(q) \in Nat /\ Len(r) \in Nat
      /\ \A i \in 1..Len(q) + Len(r) : w[i] = IF i <= Len(q) THEN q[i] ELSE r[i - Len(q)]
  BY ConcatProperties
<1> HIDE DEF w
<1>2. ASSUME NEW i \in 1..Len(w), i <= Len(q) PROVE i \in 1..Len(q) /\ w[i] = q[i]
  BY <1>1, <1>2
<1>3. ASSUME NEW i \in 1..Len(w), ~(i <= Len(q))
      PROVE  i - Len(q) \in 1..Len(r) /\ (k + Len(q)) + (i - Len(q)) = k + i /\ w[i] = r[i - Len(q)]
  BY <1>1, <1>3
<1>4. QED
  BY <1>1, <1>2, <1>3 DEF Along, w

\* When the client sends another request.
LEMMA AlongGrows ==
  ASSUME NEW s \in Seq(Shapes), NEW x \in Shapes, NEW f, Offsets(f, s)
  PROVE  \E g : /\ Offsets(g, Append(s, x)) /\ \A n \in 0..Len(s) : g[n] = f[n]
                /\ g[Len(s) + 1] = f[Len(s)] + Len(Kinds(x))
                /\ \A T, k : \A q \in Seq(T) : Along(q, k, f, s) => Along(q, k, g, Append(s, x))
<1> DEFINE t == Append(s, x)
           end == f[Len(s)] + Len(Kinds(x))
           g == [n \in 0..Len(s) + 1 |-> IF n = Len(s) + 1 THEN end ELSE f[n]]
<1>1. /\ t \in Seq(Shapes) /\ Len(t) = Len(s) + 1 /\ Len(s) \in Nat /\ t[Len(s) + 1] = x
      /\ \A n \in 1..Len(s) : t[n] = s[n]
  OBVIOUS
<1>2. Len(Kinds(x)) \in Nat
  BY KindsTyped
<1>3. \A n \in 0..Len(s) : f[n] \in Int
  BY OffsetsTyped
<1>4. end \in Int /\ f[Len(s)] <= end
  BY <1>1, <1>2, <1>3
<1>5. \A n \in 0..Len(s) : g[n] = f[n]
  BY <1>1
<1>6. g[Len(s) + 1] = end /\ g \in [0..Len(t) -> Int]
  BY <1>1, <1>3, <1>4
<1> HIDE DEF g, t
<1>7. \A n \in 1..Len(t) : g[n] = g[n - 1] + Len(Kinds(t[n]))
  <2>1. ASSUME NEW n \in 1..Len(s) PROVE g[n] = g[n - 1] + Len(Kinds(t[n]))
    <3>1. n \in 0..Len(s) /\ n - 1 \in 0..Len(s)
      BY <1>1
    <3>2. QED
      BY <1>1, <1>5, <3>1 DEF Offsets
  <2>2. g[Len(s) + 1] = g[(Len(s) + 1) - 1] + Len(Kinds(t[Len(s) + 1]))
    BY <1>1, <1>5, <1>6
  <2>3. \A n \in 1..Len(t) : n \in 1..Len(s) \/ n = Len(s) + 1
    BY <1>1
  <2>4. QED
    BY <2>1, <2>2, <2>3, Zenon
<1>8. \A m, n \in 0..Len(t) : m <= n => g[m] <= g[n]
  <2>1. ASSUME NEW m \in 0..Len(s), NEW n \in 0..Len(s), m <= n PROVE g[m] <= g[n]
    BY <1>5, <2>1 DEF Offsets
  <2>2. ASSUME NEW m \in 0..Len(s) PROVE g[m] <= g[Len(s) + 1]
    <3>1. f[m] <= f[Len(s)] /\ f[m] \in Int /\ f[Len(s)] \in Int
      BY <1>1, <1>3 DEF Offsets
    <3>2. QED
      BY <1>4, <1>5, <1>6, <3>1
  <2>3. g[Len(s) + 1] <= g[Len(s) + 1]
    BY <1>4, <1>6
  <2>4. QED
    BY <1>1, <2>1, <2>2, <2>3
<1>9. ASSUME NEW T, NEW k, NEW q \in Seq(T), Along(q, k, f, s) PROVE Along(q, k, g, t)
  <2>1. ASSUME NEW n \in 1..Len(s)
        PROVE  n \in 1..Len(t) /\ g[n] = f[n] /\ g[n - 1] = f[n - 1] /\ t[n] = s[n]
    <3>1. n \in 0..Len(s) /\ n - 1 \in 0..Len(s) /\ n \in 1..Len(t)
      BY <1>1
    <3>2. QED
      BY <1>1, <1>5, <3>1
  <2>2. QED
    BY <1>9, <2>1 DEF Along, OnStream
<1>10. Offsets(g, t)
  BY <1>6, <1>7, <1>8 DEF Offsets
<1>11. QED
  BY <1>5, <1>6, <1>9, <1>10 DEF t

LEMMA PiecesAlong ==
  ASSUME NEW s \in Seq(Shapes), NEW f, Offsets(f, s), NEW n \in 1..Len(s)
  PROVE  LET q == Pieces(n, Kinds(s[n]))
         IN  /\ Len(q) = Len(Kinds(s[n])) /\ Along(q, f[n - 1], f, s)
             /\ Len(q) >= 3 /\ q[Len(q)].kind \in GoodEnds
<1> DEFINE q == Pieces(n, Kinds(s[n]))
           x == s[n]
<1>1. x \in Shapes /\ Len(Kinds(x)) >= 3 /\ f[n] = f[n - 1] + Len(Kinds(x)) /\ f[n] \in Int /\ f[n - 1] \in Int
  BY OffsetsTyped
<1>2. Kinds(x) \in Seq(PieceKinds) /\ Len(Kinds(x)) \in Nat /\ DOMAIN Kinds(x) = 1..Len(Kinds(x))
  BY <1>1, KindsTyped
<1> HIDE DEF x
<1>3. /\ q = [i \in 1..Len(Kinds(x)) |-> [of |-> n, kind |-> Kinds(x)[i]]]
  BY <1>2 DEF Pieces, x
<1>4. Len(q) = Len(Kinds(x)) /\ \A i \in 1..Len(q) : q[i].of = n /\ q[i].kind = Kinds(x)[i]
  BY <1>2, <1>3
<1> HIDE DEF q
<1>5. \A i \in 1..Len(q) : f[n - 1] < f[n - 1] + i /\ f[n - 1] + i <= f[n] /\ (f[n - 1] + i) - f[n - 1] = i
  BY <1>1, <1>2, <1>4
<1>6. Along(q, f[n - 1], f, s)
  BY <1>4, <1>5 DEF Along, OnStream, x
<1>7. Kinds(x)[Len(Kinds(x))] \in GoodEnds
  BY <1>1, LastKind
<1>8. QED
  BY <1>1, <1>2, <1>4, <1>6, <1>7 DEF q, x

-----------------------------------------------------------------------------
(* What the parser makes of a buffer that lies along the stream.           *)

\* At the beginning of request n.
Begins(b, n, s) ==
  \A i \in 1..Len(b) : i <= Len(Kinds(s[n])) => b[i].of = n /\ b[i].kind = Kinds(s[n])[i]

LEMMA AtStart ==
  ASSUME NEW s \in Seq(Shapes), NEW f, Offsets(f, s), NEW a \in 0..Len(s),
         NEW b \in Seq(BytesOf(s)), b # <<>>, Along(b, f[a], f, s)
  PROVE  /\ a + 1 \in 1..Len(s) /\ b[1].of = a + 1
         /\ f[a] \in Int /\ f[a + 1] = f[a] + Len(Kinds(s[a + 1]))
         /\ Begins(b, a + 1, s)
<1>1. Len(b) \in Nat /\ Len(b) >= 1 /\ 1 \in 1..Len(b)
  OBVIOUS
<1>2. /\ Len(s) \in Nat /\ \A n \in 0..Len(s) : f[n] \in Int
      /\ \A m, n \in 0..Len(s) : m <= n => f[m] <= f[n]
  BY OffsetsTyped
<1>3. b[1].of \in 1..Len(s) /\ f[b[1].of - 1] < f[a] + 1 /\ f[a] + 1 <= f[b[1].of]
  BY <1>1 DEF Along, OnStream
<1>4. ~(b[1].of <= a)
  <2>1. b[1].of \in 0..Len(s)
    BY <1>2, <1>3
  <2>2. b[1].of <= a => f[b[1].of] <= f[a]
    BY <1>2, <2>1
  <2>3. QED
    BY <1>2, <1>3, <2>1, <2>2
<1>5. a + 1 \in 1..Len(s) /\ (a + 1) - 1 = a
  BY <1>2, <1>3, <1>4
<1>6. Len(Kinds(s[a + 1])) \in Nat /\ Len(Kinds(s[a + 1])) >= 3 /\ f[a + 1] = f[a] + Len(Kinds(s[a + 1]))
  BY <1>5, OffsetsTyped
<1>7. ASSUME NEW i \in 1..Len(b), i <= Len(Kinds(s[a + 1]))
      PROVE  b[i].of = a + 1 /\ b[i].kind = Kinds(s[a + 1])[i]
  <2>1. f[(a + 1) - 1] < f[a] + i /\ f[a] + i <= f[a + 1] /\ (f[a] + i) - f[(a + 1) - 1] = i
    BY <1>1, <1>2, <1>5, <1>6, <1>7
  <2>2. b[i] = [of |-> a + 1, kind |-> Kinds(s[a + 1])[(f[a] + i) - f[(a + 1) - 1]]]
    BY <1>2, <1>5, <2>1, AlongAt, ZenonT(30)
  <2>3. QED
    BY <2>1, <2>2
<1>8. b[1].of = a + 1
  BY <1>1, <1>6, <1>7
<1>9. QED
  BY <1>2, <1>5, <1>6, <1>7, <1>8 DEF Begins

\* What parse_head makes of a request that is there and one that is too long.
Found(n) == [result |-> "request", of |-> n, body |-> <<>>, taken |-> 3]
TooLong(n) == [result |-> "error", of |-> n, body |-> <<>>, taken |-> 0]

LEMMA Refusal ==
  ASSUME NEW n
  PROVE  [Nothing EXCEPT !.result = "error", !.of = n] = TooLong(n)
<1>1. ASSUME NEW e
      PROVE  [[result |-> "none", of |-> 0, body |-> e, taken |-> 0] EXCEPT !.result = "error", !.of = n]
               = [result |-> "error", of |-> n, body |-> e, taken |-> 0]
  <2>1. [[result |-> "none", of |-> 0, body |-> e, taken |-> 0] EXCEPT !.result = "error"]
          = [result |-> "error", of |-> 0, body |-> e, taken |-> 0]
    OBVIOUS
  <2>2. [[result |-> "error", of |-> 0, body |-> e, taken |-> 0] EXCEPT !.of = n]
          = [result |-> "error", of |-> n, body |-> e, taken |-> 0]
    OBVIOUS
  <2>3. QED
    BY <2>1, <2>2, Zenon
<1>2. QED
  BY <1>1, Zenon DEF Nothing, TooLong

LEMMA HeadAt ==
  ASSUME sent \in Seq(Shapes), NEW n \in 1..Len(sent),
         NEW b \in Seq(BytesOf(sent)), b # <<>>, Begins(b, n, sent)
  PROVE  /\ Len(b) \in Nat /\ Len(b) >= 1
         /\ Len(b) = 1 => ~HasRequestLine(b) /\ b[1].kind = "line"
         /\ Len(b) >= 2 => HasRequestLine(b)
         /\ Len(b) = 2 => HeadOf(b) = Nothing
         /\ Len(b) >= 3 => HeadOf(b) = IF sent[n].length > MaxParse THEN TooLong(n) ELSE Found(n)
<1> DEFINE x == sent[n]
<1>1. x \in Shapes /\ x.length \in Nat
  BY KindsTyped
<1>2. Len(b) \in Nat /\ Len(b) >= 1
  OBVIOUS
<1>3. /\ Kinds(x)[1] = "line" /\ Kinds(x)[2] = "rest" /\ Kinds(x)[3] \in {"head", "announce"}
      /\ Len(Kinds(x)) \in Nat /\ Len(Kinds(x)) >= 3
  <2>1. CASE x.kind = "chunked"
    <3>1. Len(Kinds(x)) = 7 /\ Kinds(x)[1] = "line" /\ Kinds(x)[2] = "rest" /\ Kinds(x)[3] = "announce"
      BY <1>1, <2>1, KindsTyped
    <3>2. QED
      BY <3>1
  <2>2. CASE x.kind # "chunked"
    <3>1. /\ Len(Kinds(x)) = 3 + x.length /\ Kinds(x)[1] = "line" /\ Kinds(x)[2] = "rest"
          /\ Kinds(x)[3] = "head"
      BY <1>1, <2>2, KindsTyped
    <3>2. QED
      BY <1>1, <3>1
  <2>3. QED
    BY <2>1, <2>2
<1> HIDE DEF x
<1>4. \A i \in 1..Len(b) : i <= Len(Kinds(x)) => b[i].of = n /\ b[i].kind = Kinds(x)[i]
  BY DEF x, Begins
<1>5. b[1].kind = "line" /\ b[1].of = n
  BY <1>2, <1>3, <1>4
<1>6. /\ Len(b) >= 2 => b[2].kind = "rest"
      /\ Len(b) >= 3 => b[3].kind \in {"head", "announce"} /\ b[3].of = n
  BY <1>2, <1>3, <1>4
<1> DEFINE l == FirstLineEnd(b)
<1>7. /\ l \in 0..Len(b)
      /\ l > 0 => b[l].kind \notin {"line", "data"} /\ \A j \in 1..l - 1 : b[j].kind \in {"line", "data"}
      /\ l = 0 => \A i \in 1..Len(b) : b[i].kind \in {"line", "data"}
  BY FirstLineFound
<1> HIDE DEF l
<1>8. l # 1
  BY <1>5, <1>7
<1>9. ASSUME Len(b) >= 2 PROVE l = 2
  <2>1. l # 0
    BY <1>2, <1>6, <1>7, <1>9
  <2>2. l > 2 => 2 \in 1..l - 1
    BY <1>7
  <2>3. ~(l > 2)
    BY <1>6, <1>7, <1>9, <2>1, <2>2
  <2>4. QED
    BY <1>7, <1>8, <2>1, <2>3
<1>10. Len(b) >= 2 => HasRequestLine(b)
  BY <1>6, <1>9 DEF HasRequestLine, l
<1>11. Len(b) = 1 => ~HasRequestLine(b)
  <2>1. Len(b) = 1 => l = 0
    BY <1>7, <1>8
  <2>2. QED
    BY <2>1 DEF HasRequestLine, l
<1> DEFINE e == HeadEnd(b)
<1>12. /\ e \in 0..Len(b)
       /\ e > 0 => b[e].kind \in Ends /\ \A j \in 1..e - 1 : b[j].kind \notin Ends
       /\ e = 0 => \A i \in 1..Len(b) : b[i].kind \notin Ends
  BY HeadFound
<1> HIDE DEF e
<1>13. e # 1 /\ (Len(b) >= 2 => e # 2)
  BY <1>5, <1>6, <1>12 DEF Ends
<1>14. Len(b) = 2 => HeadOf(b) = Nothing
  <2>1. Len(b) = 2 => e = 0
    BY <1>12, <1>13
  <2>2. QED
    BY <2>1 DEF HeadOf, e
<1>15. ASSUME Len(b) >= 3
       PROVE  HeadOf(b) = IF x.length > MaxParse THEN TooLong(n) ELSE Found(n)
  <2>1. 3 \in 1..Len(b) /\ b[3].kind \in Ends
    BY <1>2, <1>6, <1>15 DEF Ends
  <2>2. ~(e > 3)
    <3>1. e > 3 => 3 \in 1..e - 1
      BY <1>12
    <3>2. QED
      BY <1>12, <2>1, <3>1
  <2>3. e # 0
    BY <1>12, <2>1
  <2>4. e = 3
    BY <1>2, <1>12, <1>13, <1>15, <2>2, <2>3
  <2>5. HeadEnd(b) = 3 /\ b[HeadEnd(b)].of = n /\ FirstLineEnd(b) = 2
    BY <1>2, <1>6, <1>9, <1>15, <2>4 DEF e, l
  <2>6. sent[b[HeadEnd(b)].of].length = x.length
    BY <2>5 DEF x
  <2>7. Refused(b) = TooLong(n)
    BY <1>5, Refusal, Zenon DEF Refused
  <2>8. HeadOf(b) = IF x.length > MaxParse THEN Refused(b)
                    ELSE [result |-> "request", of |-> n, body |-> <<>>, taken |-> 3]
    BY <2>5, <2>6 DEF HeadOf
  <2>9. QED
    BY <2>7, <2>8 DEF Found
<1>16. QED
  BY <1>2, <1>5, <1>10, <1>11, <1>14, <1>15 DEF x

\* It ends where the parser can go on.
LEMMA HeadThere ==
  ASSUME sent \in Seq(Shapes), NEW n \in 1..Len(sent),
         NEW b \in Seq(BytesOf(sent)), b # <<>>, EndsWell(b), Begins(b, n, sent)
  PROVE  /\ HasRequestLine(b) /\ Len(b) \in Nat /\ Len(b) >= 2
         /\ Len(b) = 2 => HeadOf(b) = Nothing
         /\ Len(b) >= 3 => HeadOf(b) = IF sent[n].length > MaxParse THEN TooLong(n) ELSE Found(n)
         /\ sent[n].kind = "chunked" /\ Len(b) >= 3 => Len(b) >= 7 /\ b[3].kind = "announce"
<1> DEFINE x == sent[n]
<1>1. x \in Shapes
  OBVIOUS
<1> HIDE DEF x
<1>2. /\ Len(b) \in Nat /\ Len(b) >= 1
      /\ Len(b) = 1 => b[1].kind = "line"
      /\ Len(b) >= 2 => HasRequestLine(b)
      /\ Len(b) = 2 => HeadOf(b) = Nothing
      /\ Len(b) >= 3 => HeadOf(b) = IF sent[n].length > MaxParse THEN TooLong(n) ELSE Found(n)
  BY HeadAt
<1>4. \A i \in 1..Len(b) : i <= Len(Kinds(x)) => b[i].of = n /\ b[i].kind = Kinds(x)[i]
  BY DEF x, Begins
<1>6. Len(b) >= 2
  <2>1. b[Len(b)].kind \in GoodEnds
    BY DEF EndsWell
  <2>2. ASSUME ~(Len(b) >= 2) PROVE FALSE
    <3>3. \A k \in Nat : k >= 1 /\ ~(k >= 2) => k = 1
      OBVIOUS
    <3>1. Len(b) = 1
      BY <1>2, <2>2, <3>3, Zenon
    <3>2. QED
      BY <1>2, <2>1, <3>1 DEF GoodEnds
  <2>3. QED
    BY <2>2
<1>14. ASSUME x.kind = "chunked", Len(b) >= 3
       PROVE  Len(b) >= 7 /\ b[3].kind = "announce"
  <2>1. /\ Len(Kinds(x)) = 7 /\ Kinds(x)[3] = "announce" /\ Kinds(x)[4] = "size"
        /\ Kinds(x)[5] = "tail" /\ Kinds(x)[6] = "zero"
    BY <1>1, <1>14, KindsTyped
  <2>2. b[Len(b)].kind \in GoodEnds
    BY DEF EndsWell
  <2>3. ASSUME ~(Len(b) >= 7) PROVE FALSE
    <3>5. \A k \in Nat : k >= 3 /\ ~(k >= 7) => k \in 3..6
      OBVIOUS
    <3>1. Len(b) \in 3..6
      BY <1>2, <1>14, <2>3, <3>5, Zenon
    <3>2. b[Len(b)].kind = Kinds(x)[Len(b)]
      <4>1. \A k \in 3..6 : k \in 1..k /\ k <= 7
        OBVIOUS
      <4>2. Len(b) \in 1..Len(b) /\ Len(b) <= Len(Kinds(x))
        BY <2>1, <3>1, <4>1, Zenon
      <4>3. QED
        BY <1>4, <4>2, Zenon
    <3>3. \A i \in 3..6 : Kinds(x)[i] \notin GoodEnds
      <4>1. \A i \in 3..6 : i = 3 \/ i = 4 \/ i = 5 \/ i = 6
        OBVIOUS
      <4>2. QED
        BY <2>1, <4>1 DEF GoodEnds
    <3>4. QED
      BY <2>2, <3>1, <3>2, <3>3
  <2>5. Len(b) >= 7
    BY <2>3
  <2>6. QED
    BY <1>4, <2>1, <2>5, <1>2
<1>15. QED
  BY <1>2, <1>6, <1>14 DEF x

\* A request whose body came with it, or a part of it.
LEMMA ParsePlain ==
  ASSUME sent \in Seq(Shapes), NEW n \in 1..Len(sent), sent[n].kind # "chunked",
         NEW b \in Seq(BytesOf(sent)), b # <<>>, EndsWell(b), Begins(b, n, sent), NEW isChunk
  PROVE  /\ sent[n].length \in Nat /\ Len(Kinds(sent[n])) = 3 + sent[n].length
         /\ sent[n].length > MaxParse => \/ Len(b) = 2 /\ Parse(b, isChunk) = Nothing
                                         \/ Parse(b, isChunk) = TooLong(n)
         /\ ~(sent[n].length > MaxParse) /\ Len(b) < 3 + sent[n].length => Parse(b, isChunk) = Nothing
         /\ ~(sent[n].length > MaxParse) /\ ~(Len(b) < 3 + sent[n].length) =>
              Parse(b, isChunk) = [result |-> "request", of |-> n, body |-> WholeBody(sent, n),
                                   taken |-> 3 + sent[n].length]
<1>1. PICK length : length = sent[n].length
  OBVIOUS
<1>2. /\ length \in Nat /\ Len(Kinds(sent[n])) = 3 + length
      /\ \A i \in 4..3 + length : Kinds(sent[n])[i] = "data"
  <2>1. sent[n] \in Shapes
    OBVIOUS
  <2>2. QED
    BY <1>1, <2>1, KindsTyped
<1>3. /\ HasRequestLine(b) /\ Len(b) \in Nat /\ Len(b) >= 2
      /\ Len(b) = 2 => HeadOf(b) = Nothing
      /\ Len(b) >= 3 => HeadOf(b) = IF length > MaxParse THEN TooLong(n) ELSE Found(n)
  BY <1>1, HeadThere
<1>4. CASE Len(b) = 2
  <2>1. Parse(b, isChunk) = Nothing
    BY <1>3, <1>4 DEF Parse, Nothing
  <2>2. Len(b) < 3 + length
    BY <1>2, <1>4
  <2>3. QED
    BY <1>1, <1>2, <1>4, <2>1, <2>2
<1>8. CASE Len(b) >= 3 /\ length > MaxParse
  <2>1. PICK head : head = HeadOf(b)
    OBVIOUS
  <2>2. head = TooLong(n) /\ head.result = "error"
    BY <1>3, <1>8, <2>1 DEF TooLong
  <2>3. Parse(b, isChunk) = head
    BY <1>3, <2>1, <2>2 DEF Parse
  <2>4. QED
    BY <1>1, <1>2, <1>8, <2>2, <2>3
<1>5. CASE Len(b) >= 3 /\ ~(length > MaxParse)
  <2>1. HeadOf(b) = [result |-> "request", of |-> n, body |-> <<>>, taken |-> 3]
    BY <1>3, <1>5 DEF Found
  <2>2. PICK head : head = HeadOf(b)
    OBVIOUS
  <2>3. /\ head = [result |-> "request", of |-> n, body |-> <<>>, taken |-> 3]
        /\ head.taken + sent[head.of].length = 3 + length /\ head.result = "request" /\ head.taken = 3
    BY <1>1, <2>1, <2>2
  <2>4. Parse(b, isChunk) = IF Len(b) < 3 + length THEN Nothing
                            ELSE [head EXCEPT !.body = SubSeq(b, 3 + 1, 3 + length), !.taken = 3 + length]
    BY <1>3, <2>2, <2>3 DEF Parse
  <2>5. ASSUME ~(Len(b) < 3 + length)
        PROVE  SubSeq(b, 3 + 1, 3 + length) = WholeBody(sent, n)
    <3> DEFINE d == SubSeq(b, 3 + 1, 3 + length)
               w == WholeBody(sent, n)
    <3>1. d \in Seq(BytesOf(sent)) /\ Len(d) = length /\ \A i \in 1..Len(d) : d[i] = b[3 + i]
      <4>1. 3 + length <= Len(b) /\ 3 + length \in Nat /\ 3 <= 3 + length /\ (3 + length) - 3 = length
        BY <1>2, <1>3, <2>5
      <4>2. QED
        BY <4>1, Part
    <3>2. w = [i \in 1..length |-> [of |-> n, kind |-> "data"]]
      BY <1>1, <1>2 DEF WholeBody, Pieces, Body
    <3>3. w \in Seq([of : {n}, kind : {"data"}]) /\ Len(w) = length
      BY <1>2, <3>2
    <3> HIDE DEF d, w
    <3>4. ASSUME NEW i \in 1..length PROVE d[i] = w[i]
      <4>1. 3 + i \in 1..Len(b) /\ 3 + i <= Len(Kinds(sent[n])) /\ 3 + i \in 4..3 + length
        BY <1>2, <1>3, <2>5
      <4>2. b[3 + i].of = n /\ b[3 + i].kind = "data"
        BY <1>2, <4>1 DEF Begins
      <4>3. b[3 + i] = [of |-> b[3 + i].of, kind |-> b[3 + i].kind]
        <5>1. b[3 + i] \in BytesOf(sent)
          BY <4>1
        <5>2. QED
          BY <5>1 DEF BytesOf
      <4>4. d[i] = [of |-> n, kind |-> "data"]
        BY <3>1, <4>2, <4>3
      <4>5. QED
        BY <3>2, <4>4
    <3>5. d = [i \in 1..Len(d) |-> d[i]] /\ w = [i \in 1..Len(w) |-> w[i]]
      BY <3>1, <3>3
    <3>6. d = w
      BY <3>1, <3>3, <3>4, <3>5
    <3>7. QED
      BY <3>6 DEF d, w
  <2>6. ASSUME ~(Len(b) < 3 + length)
        PROVE  Parse(b, isChunk) = [result |-> "request", of |-> n, body |-> WholeBody(sent, n),
                                    taken |-> 3 + length]
    BY <2>3, <2>4, <2>5, <2>6
  <2>7. QED
    BY <1>1, <1>2, <1>5, <2>4, <2>6
<1>6. Len(b) = 2 \/ Len(b) >= 3
  <2>1. \A k \in Nat : k >= 2 => k = 2 \/ k >= 3
    OBVIOUS
  <2>2. QED
    BY <1>3, <2>1, Zenon
<1>7. QED
  BY <1>4, <1>5, <1>6, <1>8

\* The head of a chunked one.
LEMMA ParseAnnounced ==
  ASSUME sent \in Seq(Shapes), NEW n \in 1..Len(sent), sent[n].kind = "chunked",
         NEW b \in Seq(BytesOf(sent)), b # <<>>, EndsWell(b), Begins(b, n, sent), NEW isChunk
  PROVE  /\ Len(Kinds(sent[n])) = 7
         /\ \/ Len(b) = 2 /\ Parse(b, isChunk) = Nothing
            \/ /\ Len(b) >= 7 /\ ChunkedHeader(b)
               /\ Parse(b, isChunk) = [result |-> "request", of |-> n, body |-> <<>>, taken |-> 3]
<1>1. sent[n] \in Shapes
  OBVIOUS
<1>2. sent[n].length = 0
  BY <1>1 DEF Shapes
<1>3. /\ HasRequestLine(b) /\ Len(b) \in Nat /\ Len(b) >= 2
      /\ Len(b) = 2 => HeadOf(b) = Nothing
      /\ Len(b) >= 3 => /\ HeadOf(b) = [result |-> "request", of |-> n, body |-> <<>>, taken |-> 3]
                        /\ Len(b) >= 7 /\ b[3].kind = "announce"
  <2>1. ~(sent[n].length > MaxParse)
    BY <1>2, LimitsAssumption
  <2>2. QED
    BY <2>1, HeadThere DEF Found
<1>4. CASE Len(b) = 2
  <2>1. Parse(b, isChunk) = Nothing
    BY <1>3, <1>4 DEF Parse, Nothing
  <2>2. QED
    BY <1>1, <1>4, <2>1, KindsTyped
<1>5. CASE Len(b) >= 3
  <2>1. PICK head : head = HeadOf(b)
    OBVIOUS
  <2>2. /\ head = [result |-> "request", of |-> n, body |-> <<>>, taken |-> 3]
        /\ head.taken + sent[head.of].length = 3 /\ head.result = "request" /\ head.taken = 3
    BY <1>2, <1>3, <1>5, <2>1
  <2>3. ~(Len(b) < 3)
    BY <1>3, <1>5
  <2>4. Parse(b, isChunk) = [head EXCEPT !.body = SubSeq(b, 3 + 1, 3), !.taken = 3]
    BY <1>3, <2>1, <2>2, <2>3 DEF Parse
  <2>5. SubSeq(b, 3 + 1, 3) = <<>>
    <3>1. SubSeq(b, 3 + 1, 3) \in Seq(BytesOf(sent)) /\ Len(SubSeq(b, 3 + 1, 3)) = 0
      BY <1>3, <1>5, Part
    <3>2. QED
      BY <3>1
  <2>6. Parse(b, isChunk) = [result |-> "request", of |-> n, body |-> <<>>, taken |-> 3]
    BY <2>2, <2>4, <2>5
  <2>7. 3 \in DOMAIN b
    BY <1>3, <1>5
  <2>8. ChunkedHeader(b)
    BY <1>3, <1>5, <2>7 DEF ChunkedHeader
  <2>9. QED
    BY <1>1, <1>3, <1>5, <2>6, <2>8, KindsTyped
<1>6. Len(b) = 2 \/ Len(b) >= 3
  <2>1. \A k \in Nat : k >= 2 => k = 2 \/ k >= 3
    OBVIOUS
  <2>2. QED
    BY <1>3, <2>1, Zenon
<1>7. QED
  BY <1>4, <1>5, <1>6

\* The chunks of a chunked request, with the next request behind them or nothing.
LEMMA ParseChunks ==
  ASSUME NEW n, NEW b \in Seq(BytesOf(sent)), Len(b) >= 4,
         b[1] = [of |-> n, kind |-> "size"], b[2] = [of |-> n, kind |-> "tail"],
         b[3].kind = "zero"
  PROVE  Parse(b, TRUE) = [result |-> "payload", of |-> 0, taken |-> 4,
                           body |-> <<[of |-> n, kind |-> "size"], [of |-> n, kind |-> "tail"]>>]
<1>1. Len(b) \in Nat
  OBVIOUS
<1>2. ~HasRequestLine(b)
  <2> DEFINE e == FirstLineEnd(b)
  <2>1. /\ e \in 0..Len(b)
        /\ e > 0 => b[e].kind \notin {"line", "data"} /\ \A j \in 1..e - 1 : b[j].kind \in {"line", "data"}
        /\ e = 0 => \A i \in 1..Len(b) : b[i].kind \in {"line", "data"}
    BY FirstLineFound
  <2> HIDE DEF e
  <2>2. b[1].kind = "size"
    OBVIOUS
  <2>3. e > 1 => 1 \in 1..e - 1
    BY <1>1, <2>1
  <2>4. ~(e > 1)
    BY <2>1, <2>2, <2>3
  <2>5. e > 0 => e = 1
    BY <1>1, <2>1, <2>4
  <2>6. QED
    BY <2>2, <2>5 DEF HasRequestLine, e
<1>3. PICK m : m = Max(Chunks(b))
  OBVIOUS
<1>4. m \in Chunks(b) /\ m \in Nat /\ 2 * m <= Len(b) /\ \A k \in Chunks(b) : k <= m
  BY <1>3, ChunksFound
<1>5. 1 \in Chunks(b)
  <2>1. 1 \in 0..Len(b) \div 2
    BY <1>1
  <2>2. \A i \in 1..2 * 1 : i = 1 \/ i = 2
    OBVIOUS
  <2>3. b[1].kind = "size" /\ b[2].kind = "tail" /\ 1 % 2 = 1 /\ 2 % 2 = 0
    OBVIOUS
  <2>4. \A i \in 1..2 * 1 : b[i].kind = IF i % 2 = 1 THEN "size" ELSE "tail"
    BY <2>2, <2>3
  <2>5. QED
    BY <2>1, <2>4 DEF Chunks
<1>6. ~(m >= 2)
  <2>1. ASSUME m >= 2 PROVE FALSE
    <3>1. 3 \in 1..2 * m /\ 3 % 2 = 1
      BY <1>4, <2>1
    <3>2. b[3].kind = "size"
      BY <1>4, <3>1 DEF Chunks
    <3>3. QED
      BY <3>2
  <2>2. QED
    BY <2>1
<1>7. m = 1
  <2>1. 1 <= m
    BY <1>4, <1>5
  <2>2. QED
    BY <1>4, <1>6, <2>1
<1>8. ChunkedBody(b) = [result |-> "payload", of |-> 0, body |-> SubSeq(b, 1, 2 * m),
        taken |-> 2 * m + (IF 2 * m < Len(b) /\ b[2 * m + 1].kind = "zero" THEN 2 ELSE 0)]
  BY <1>3 DEF ChunkedBody, Chunks
<1>9. 2 * m = 2 /\ 2 * m + 1 = 3 /\ 2 * m < Len(b)
  BY <1>1, <1>7
<1>10. ChunkedBody(b) = [result |-> "payload", of |-> 0, body |-> SubSeq(b, 1, 2), taken |-> 4]
  <2> DEFINE last == IF 2 * m < Len(b) /\ b[2 * m + 1].kind = "zero" THEN 2 ELSE 0
  <2>1. last = 2
    BY <1>9
  <2>2. 2 * m + last = 4
    BY <1>9, <2>1
  <2>3. SubSeq(b, 1, 2 * m) = SubSeq(b, 1, 2)
    BY <1>9
  <2>4. ChunkedBody(b) = [result |-> "payload", of |-> 0, body |-> SubSeq(b, 1, 2 * m), taken |-> 2 * m + last]
    BY <1>8
  <2> HIDE DEF last
  <2>5. QED
    BY <2>2, <2>3, <2>4
<1>11. SubSeq(b, 1, 2) = <<b[1], b[2]>>
  <2> DEFINE r == SubSeq(b, 0 + 1, 2)
  <2>1. r \in Seq(BytesOf(sent)) /\ Len(r) = 2 /\ \A i \in 1..Len(r) : r[i] = b[0 + i]
    BY <1>1, Part
  <2>2. b[0 + 1] = b[1] /\ b[0 + 2] = b[2]
    OBVIOUS
  <2> HIDE DEF r
  <2>3. r = <<b[1], b[2]>>
    BY <2>1, <2>2
  <2>4. QED
    BY <2>3 DEF r
<1>12. Parse(b, TRUE) = ChunkedBody(b)
  BY <1>2 DEF Parse
<1>13. QED
  BY <1>10, <1>11, <1>12

-----------------------------------------------------------------------------
(* Taking bytes from the stream.                                           *)

\* The rest of a sequence of pieces.
LEMMA RestAlong ==
  ASSUME NEW T, NEW q \in Seq(T), NEW k \in Int, NEW f, NEW s, Along(q, k, f, s),
         NEW m \in 0..Len(q)
  PROVE  LET r == SubSeq(q, m + 1, Len(q))
         IN  /\ r \in Seq(T) /\ Len(r) = Len(q) - m /\ Along(r, k + m, f, s)
             /\ (EndsWell(q) => EndsWell(r))
             /\ \A i \in 1..Len(r) : r[i] = q[m + i]
<1> DEFINE r == SubSeq(q, m + 1, Len(q))
<1>1. Len(q) \in Nat /\ m \in Nat /\ m <= Len(q)
  OBVIOUS
<1>2. r \in Seq(T) /\ Len(r) = Len(q) - m /\ \A i \in 1..Len(r) : r[i] = q[m + i]
  BY <1>1, Part
<1>3. Along(r, k + m, f, s)
  BY <1>1, AlongPart
<1> HIDE DEF r
<1>4. ASSUME r # <<>> PROVE r[Len(r)] = q[Len(q)] /\ q # <<>>
  <2>1. Len(r) >= 1
    BY <1>2, <1>4
  <2>2. r[Len(r)] = q[m + Len(r)] /\ m + Len(r) = Len(q) /\ Len(q) >= 1
    BY <1>1, <1>2, <2>1
  <2>3. QED
    BY <2>2
<1>5. EndsWell(q) => EndsWell(r)
  BY <1>4 DEF EndsWell
<1>6. QED
  BY <1>2, <1>3, <1>5 DEF r

\* What the facts about the state say of the buffer and the wire.
LEMMA LinedTyped ==
  ASSUME Sane, NEW f, NEW base, Lined(f, base)
  PROVE  /\ sent \in Seq(Shapes) /\ Len(sent) \in Nat /\ base \in Int
         /\ wire \in Seq(BytesOf(sent)) /\ Len(wire) \in Nat
         /\ buffer \in Seq(BytesOf(sent)) /\ Len(buffer) \in Nat
         /\ \A n \in 0..Len(sent) : f[n] \in Int
         /\ f[Len(sent)] \in Int /\ Offsets(f, sent)
<1>1. sent \in Seq(Shapes) /\ Offsets(f, sent) /\ base \in Int
  BY DEF Sane, TypeOK, Lined
<1>2. Len(sent) \in Nat /\ \A n \in 0..Len(sent) : f[n] \in Int
  BY <1>1, OffsetsTyped
<1>3. wire \in Seq(BytesOf(sent)) /\ buffer \in Seq(BytesOf(sent))
  BY DEF Sane
<1>4. Len(wire) \in Nat /\ Len(buffer) \in Nat
  BY <1>3
<1>5. Len(sent) \in 0..Len(sent)
  BY <1>2
<1>6. QED
  BY <1>1, <1>2, <1>3, <1>4, <1>5

LEMMA ReadLined ==
  ASSUME Sane, NEW f, NEW base, Lined(f, base), NEW n \in 1..Len(wire)
  PROVE  LET b == buffer \o SubSeq(wire, 1, n)
             rest == SubSeq(wire, n + 1, Len(wire))
         IN  /\ b \in Seq(BytesOf(sent)) /\ Len(b) = Len(buffer) + n /\ b # <<>>
             /\ Along(b, base, f, sent)
             /\ rest \in Seq(BytesOf(sent)) /\ Len(rest) = Len(wire) - n
             /\ Along(rest, base + Len(b), f, sent)
<1> DEFINE part == SubSeq(wire, 0 + 1, n)
           b == buffer \o part
           rest == SubSeq(wire, n + 1, Len(wire))
<1>1. /\ sent \in Seq(Shapes) /\ base \in Int /\ wire \in Seq(BytesOf(sent)) /\ Len(wire) \in Nat
      /\ buffer \in Seq(BytesOf(sent)) /\ Len(buffer) \in Nat /\ Offsets(f, sent)
  BY LinedTyped
<1>2. /\ Along(buffer, base, f, sent) /\ Along(wire, base + Len(buffer), f, sent)
      /\ base + Len(buffer) \in Int
  BY <1>1 DEF Lined
<1>5. n \in Nat /\ n <= Len(wire) /\ 0 <= n /\ n - 0 = n /\ n \in 0..Len(wire) /\ n >= 1
  BY <1>1
<1>6. part \in Seq(BytesOf(sent)) /\ Len(part) = n /\ \A i \in 1..Len(part) : part[i] = wire[0 + i]
  BY <1>1, <1>5, Part
<1>7. Along(part, (base + Len(buffer)) + 0, f, sent)
  BY <1>1, <1>2, <1>5, AlongPart
<1>8. (base + Len(buffer)) + 0 = base + Len(buffer)
  BY <1>2
<1>9. rest \in Seq(BytesOf(sent)) /\ Len(rest) = Len(wire) - n
      /\ Along(rest, (base + Len(buffer)) + n, f, sent)
  BY <1>1, <1>2, <1>5, RestAlong
<1> HIDE DEF part, rest
<1>10. Along(b, base, f, sent) /\ Len(b) = Len(buffer) + n
  BY <1>1, <1>2, <1>6, <1>7, <1>8, AlongJoin
<1>11. /\ b \in Seq(BytesOf(sent))
       /\ \A i \in 1..Len(buffer) + Len(part) : b[i] = IF i <= Len(buffer) THEN buffer[i] ELSE part[i - Len(buffer)]
  BY <1>1, <1>6, ConcatProperties
<1> HIDE DEF b
<1>13. b # <<>>
  <2>1. Len(b) >= 1
    BY <1>1, <1>5, <1>10
  <2>2. QED
    BY <2>1
<1>14. (base + Len(buffer)) + n = base + Len(b)
  BY <1>1, <1>5, <1>10
<1>15. QED
  BY <1>9, <1>10, <1>11, <1>13, <1>14 DEF b, part, rest

-----------------------------------------------------------------------------
(* The answers and the calls of handlers.                                  *)

LEMMA NumberedStep ==
  ASSUME Sane, Numbered, pc # "closed",
         \/ answers' = answers
         \/ answers' = Append(answers, Len(answers) + 1)
         \/ answers' = Append(answers, 0) /\ pc' = "closed"
  PROVE  Numbered'
<1>1. /\ answers \in Seq(0..MaxRequests) /\ Len(answers) \in Nat
      /\ \A i \in 1..Len(answers) : answers[i] = i
  BY DEF Sane, TypeOK, Numbered
<1>2. CASE answers' = answers
  BY <1>1, <1>2 DEF Numbered
<1>3. ASSUME NEW x, x \in Nat, answers' = Append(answers, x)
      PROVE  /\ Len(answers') = Len(answers) + 1 /\ answers'[Len(answers) + 1] = x
             /\ \A i \in 1..Len(answers) : answers'[i] = i
  <2>1. answers \in Seq(Nat)
    <3>1. 0..MaxRequests \subseteq Nat
      OBVIOUS
    <3>2. QED
      BY <1>1, <3>1, SeqMonotonic
  <2>2. QED
    BY <1>1, <1>3, <2>1
<1>4. CASE answers' = Append(answers, Len(answers) + 1)
  <2>1. /\ Len(answers') = Len(answers) + 1 /\ answers'[Len(answers) + 1] = Len(answers) + 1
        /\ \A i \in 1..Len(answers) : answers'[i] = i
    BY <1>1, <1>3, <1>4
  <2>2. \A i \in 1..Len(answers') : answers'[i] = i
    BY <1>1, <2>1
  <2>3. QED
    BY <2>2 DEF Numbered
<1>5. CASE answers' = Append(answers, 0) /\ pc' = "closed"
  <2>1. /\ Len(answers') = Len(answers) + 1 /\ answers'[Len(answers) + 1] = 0
        /\ \A i \in 1..Len(answers) : answers'[i] = i
    BY <1>1, <1>3, <1>5
  <2>4. \A i \in 1..Len(answers') : i \in 1..Len(answers) \/ i = Len(answers')
    BY <1>1, <2>1
  <2>2. \A i \in 1..Len(answers') : answers'[i] = i \/ (answers'[i] = 0 /\ i = Len(answers'))
    BY <2>1, <2>4
  <2>3. QED
    BY <1>5, <2>2 DEF Numbered
<1>6. QED
  BY <1>2, <1>4, <1>5

\* What a call of a handler must be like.
Proper(h, s) ==
  /\ h.of \in 1..Len(s)
  /\ IF h.whole THEN h.body = WholeBody(s, h.of) ELSE IsPrefix(h.body, WholeBody(s, h.of))

LEMMA HandledStep ==
  ASSUME Sane, HandledWhole, sent' = sent,
         handled' = handled \/ \E h : Proper(h, sent) /\ handled' = Append(handled, h)
  PROVE  HandledWhole'
<1> DEFINE H == [of : 1..MaxRequests, body : Seq(Piece), whole : BOOLEAN]
<1>1. handled \in Seq(H)
  BY DEF Sane, TypeOK
<1> HIDE DEF H
<1>2. \A i \in 1..Len(handled) : Proper(handled[i], sent)
  BY DEF HandledWhole, Proper
<1>3. SUFFICES \A i \in 1..Len(handled') : Proper(handled'[i], sent)
  BY <1>3 DEF HandledWhole, Proper
<1>4. CASE handled' = handled
  BY <1>2, <1>4
<1>5. ASSUME NEW h, Proper(h, sent), handled' = Append(handled, h)
      PROVE  \A i \in 1..Len(handled') : Proper(handled'[i], sent)
  <2> DEFINE V == H \cup {h}
  <2>1. handled \in Seq(V) /\ h \in V
    BY <1>1, SeqMonotonic
  <2> HIDE DEF V
  <2>2. /\ Len(handled') = Len(handled) + 1 /\ handled'[Len(handled) + 1] = h /\ Len(handled) \in Nat
        /\ \A i \in 1..Len(handled) : handled'[i] = handled[i]
    BY <1>5, <2>1
  <2>3. \A i \in 1..Len(handled') : i \in 1..Len(handled) \/ i = Len(handled) + 1
    BY <2>2
  <2>4. QED
    BY <1>2, <1>5, <2>2, <2>3
<1>6. QED
  BY <1>4, <1>5

\* The client's steps keep what is said of earlier requests.
LEMMA SentGrows ==
  ASSUME Sane, NEW shape \in Shapes, sent' = Append(sent, shape)
  PROVE  /\ Len(sent') = Len(sent) + 1 /\ Len(sent) \in Nat /\ sent'[Len(sent) + 1] = shape
         /\ \A n \in 1..Len(sent) : n \in 1..Len(sent') /\ sent'[n] = sent[n]
         /\ \A n \in 1..Len(sent) : WholeBody(sent', n) = WholeBody(sent, n)
<1>1. sent \in Seq(Shapes)
  BY DEF Sane, TypeOK
<1>2. /\ Len(sent') = Len(sent) + 1 /\ Len(sent) \in Nat /\ sent'[Len(sent) + 1] = shape
      /\ \A n \in 1..Len(sent) : sent'[n] = sent[n]
  BY <1>1
<1>3. \A n \in 1..Len(sent) : n \in 1..Len(sent')
  BY <1>2
<1>4. QED
  BY <1>2, <1>3 DEF WholeBody

LEMMA HandledSend ==
  ASSUME Sane, HandledWhole, NEW shape \in Shapes, sent' = Append(sent, shape), handled' = handled
  PROVE  HandledWhole'
<1>1. \A n \in 1..Len(sent) : n \in 1..Len(sent') /\ WholeBody(sent', n) = WholeBody(sent, n)
  BY SentGrows
<1>2. QED
  BY <1>1 DEF HandledWhole

-----------------------------------------------------------------------------
(* Counting the pieces of a streamed body.                                 *)

\* With the bytes that came with the head.
LEMMA CountedFirst ==
  ASSUME NEW st, NEW length \in Nat, NEW T, NEW d \in Seq(T), st.got = <<>>,
         st.channel = FirstChunk(d), st.left + Len(d) = length, st.left \in Nat,
         \A i \in 1..Len(d) : d[i] = Datum(st.of)
  PROVE  Counted(st, length)
<1>1. CASE d = <<>>
  <2>1. st.channel = <<>> /\ Len(st.channel) = 0 /\ Len(st.got) = 0 /\ st.left = length
    BY <1>1 DEF FirstChunk
  <2> DEFINE g == [c \in 0..0 |-> 0]
  <2>2. g \in [0..Len(st.channel) -> Nat] /\ g[0] = Len(st.got) /\ g[Len(st.channel)] + st.left = length
    BY <2>1
  <2>3. /\ \A c \in 1..Len(st.channel) : g[c] = g[c - 1] + Len(st.channel[c])
        /\ \A c, e \in 0..Len(st.channel) : c <= e => g[c] <= g[e]
    BY <2>1
  <2> HIDE DEF g
  <2>4. QED
    BY <2>1, <2>2, <2>3 DEF Counted
<1>2. CASE d # <<>>
  <2>1. st.channel = <<d>>
    BY <1>2 DEF FirstChunk
  <2>2. Len(st.channel) = 1 /\ Len(st.got) = 0 /\ st.channel[1] = d /\ Len(d) \in Nat
    BY <2>1
  <2> DEFINE g == [c \in 0..1 |-> IF c = 0 THEN 0 ELSE Len(d)]
  <2>3. g[0] = 0 /\ g[1] = Len(d) /\ g \in [0..1 -> Nat] /\ (\A c \in 0..1 : c = 0 \/ c = 1)
        /\ (\A c \in 1..1 : c = 1)
    BY <2>2
  <2> HIDE DEF g
  <2>4. g \in [0..Len(st.channel) -> Nat] /\ g[0] = Len(st.got) /\ g[Len(st.channel)] + st.left = length
    BY <2>2, <2>3
  <2>5. \A c \in 1..Len(st.channel) : g[c] = g[c - 1] + Len(st.channel[c])
    BY <2>2, <2>3
  <2>6. \A c, e \in 0..Len(st.channel) : c <= e => g[c] <= g[e]
    BY <2>2, <2>3
  <2>7. \A c \in 1..Len(st.channel) : \A i \in 1..Len(st.channel[c]) :
          st.channel[c][i] = Datum(st.of)
    BY <2>2, <2>3
  <2>8. QED
    BY <2>2, <2>4, <2>5, <2>6, <2>7 DEF Counted
<1>3. QED
  BY <1>1, <1>2

\* Another chunk.
LEMMA CountedMore ==
  ASSUME NEW st, NEW length \in Nat, Counted(st, length), NEW T, st.channel \in Seq(Seq(T)),
         st.left \in Nat, NEW d \in Seq(T), Len(d) <= st.left,
         \A i \in 1..Len(d) : d[i] = Datum(st.of),
         NEW new, new.of = st.of, new.got = st.got, new.left = st.left - Len(d),
         new.channel = Append(st.channel, d)
  PROVE  Counted(new, length)
<1>1. PICK k \in Nat : k = Len(st.channel)
  OBVIOUS
<1>2. /\ Len(new.channel) = k + 1 /\ new.channel[k + 1] = d /\ Len(d) \in Nat
      /\ \A c \in 1..k : new.channel[c] = st.channel[c]
  BY <1>1
<1>3. PICK g \in [0..k -> Nat] :
        /\ g[0] = Len(st.got) /\ g[k] + st.left = length
        /\ \A c \in 1..k : g[c] = g[c - 1] + Len(st.channel[c])
        /\ \A c, e \in 0..k : c <= e => g[c] <= g[e]
  BY <1>1 DEF Counted
<1> DEFINE h == [c \in 0..k + 1 |-> IF c = k + 1 THEN g[k] + Len(d) ELSE g[c]]
<1>13. k \in 0..k /\ 0 \in 0..k /\ \A c \in 0..k : g[c] \in Nat
  OBVIOUS
<1>4. k \in 0..k /\ g[k] \in Nat /\ g[0] \in Nat
  BY <1>13
<1>5. h \in [0..k + 1 -> Nat] /\ h[k + 1] = g[k] + Len(d) /\ \A c \in 0..k : h[c] = g[c]
  <2>1. g[k] + Len(d) \in Nat
    BY <1>2, <1>4
  <2>2. \A c \in 0..k + 1 : c = k + 1 \/ c \in 0..k
    BY <1>1
  <2>3. \A c \in 0..k + 1 : h[c] \in Nat
    BY <1>13, <2>1, <2>2, Zenon
  <2>4. k + 1 \in 0..k + 1 /\ \A c \in 0..k : c \in 0..k + 1 /\ c # k + 1
    BY <1>1
  <2>5. h[k + 1] = g[k] + Len(d) /\ \A c \in 0..k : h[c] = g[c]
    BY <2>4, Zenon
  <2>6. h \in [0..k + 1 -> Nat]
    BY <2>3, Zenon
  <2>7. QED
    BY <2>5, <2>6, Zenon
<1> HIDE DEF h
<1>6. \A c \in 1..k + 1 : c \in 1..k \/ c = k + 1
  BY <1>1
<1>7. \A c \in 1..k + 1 : h[c] = h[c - 1] + Len(new.channel[c])
  <2>1. ASSUME NEW c \in 1..k PROVE h[c] = h[c - 1] + Len(new.channel[c])
    <3>1. c \in 0..k /\ c - 1 \in 0..k
      BY <1>1
    <3>2. QED
      BY <1>2, <1>3, <1>5, <3>1
  <2>2. h[k + 1] = h[(k + 1) - 1] + Len(new.channel[k + 1])
    BY <1>2, <1>4, <1>5
  <2>3. QED
    BY <1>6, <2>1, <2>2
<1>8. \A c, e \in 0..k + 1 : c <= e => h[c] <= h[e]
  <2>1. ASSUME NEW c \in 0..k PROVE h[c] <= h[k + 1]
    <3>1. g[c] <= g[k] /\ g[c] \in Nat
      BY <1>3, <1>4
    <3>2. QED
      BY <1>2, <1>4, <1>5, <3>1
  <2>2. \A c \in 0..k + 1 : c \in 0..k \/ c = k + 1
    BY <1>1
  <2>3. h[k + 1] <= h[k + 1]
    BY <1>2, <1>4, <1>5
  <2>4. ~(k + 1 <= k) /\ \A e \in 0..k : ~(k + 1 <= e)
    BY <1>1
  <2>5. \A c, e \in 0..k : c <= e => h[c] <= h[e]
    BY <1>3, <1>5
  <2>6. QED
    BY <2>1, <2>2, <2>3, <2>4, <2>5
<1>9. h[0] = Len(new.got) /\ h[k + 1] + new.left = length
  <2>1. h[0] = g[0]
    BY <1>5, <1>13
  <2>2. h[k + 1] = g[k] + Len(d) /\ g[k] + st.left = length /\ g[0] = Len(st.got)
    BY <1>3, <1>5
  <2>3. \A x \in Nat : (x + Len(d)) + (st.left - Len(d)) = x + st.left
    BY <1>2
  <2>4. (g[k] + Len(d)) + new.left = length
    BY <1>4, <2>2, <2>3, Zenon
  <2>5. QED
    BY <2>1, <2>2, <2>4, Zenon
<1>10. \A c \in 1..k + 1 : \A i \in 1..Len(new.channel[c]) :
         new.channel[c][i] = Datum(new.of)
  <2>1. \A c \in 1..k : \A i \in 1..Len(st.channel[c]) :
          st.channel[c][i] = Datum(st.of)
    BY <1>1 DEF Counted
  <2>2. QED
    BY <1>2, <1>6, <2>1, ZenonT(30)
<1>11. \A i \in 1..Len(new.got) : new.got[i] = Datum(new.of)
  BY DEF Counted
<1>12. QED
  BY <1>2, <1>5, <1>7, <1>8, <1>9, <1>10, <1>11 DEF Counted

\* The handler takes the first chunk.
LEMMA CountedTaken ==
  ASSUME NEW st, NEW length \in Nat, Counted(st, length), NEW T, st.channel \in Seq(Seq(T)),
         st.got \in Seq(T), st.channel # <<>>, st.left \in Nat,
         NEW new, new.of = st.of, new.left = st.left,
         new.got = st.got \o Head(st.channel), new.channel = Tail(st.channel)
  PROVE  Counted(new, length)
<1>1. PICK k \in Nat : k = Len(st.channel)
  OBVIOUS
<1>2. PICK d \in Seq(T) : d = Head(st.channel) /\ d = st.channel[1]
  OBVIOUS
<1>3. /\ k >= 1 /\ Len(new.channel) = k - 1 /\ k - 1 \in Nat
      /\ \A c \in 1..k - 1 : new.channel[c] = st.channel[c + 1]
  BY <1>1
<1>4. PICK g \in [0..k -> Nat] :
        /\ g[0] = Len(st.got) /\ g[k] + st.left = length
        /\ \A c \in 1..k : g[c] = g[c - 1] + Len(st.channel[c])
        /\ \A c, e \in 0..k : c <= e => g[c] <= g[e]
  BY <1>1 DEF Counted
<1>5. \A c \in 0..k : g[c] \in Nat
  BY <1>4
<1>18. PICK q \in Seq(T) : q = st.got
  OBVIOUS
<1>19. new.got = q \o d
  BY <1>2, <1>18
<1>20. /\ Len(q \o d) = Len(q) + Len(d) /\ Len(d) \in Nat /\ Len(q) \in Nat
       /\ \A i \in 1..Len(q) + Len(d) : (q \o d)[i] = IF i <= Len(q) THEN q[i] ELSE d[i - Len(q)]
  BY ConcatProperties
<1>6. /\ Len(new.got) = Len(st.got) + Len(d) /\ Len(d) \in Nat /\ Len(st.got) \in Nat
      /\ \A i \in 1..Len(st.got) + Len(d) : new.got[i] = IF i <= Len(st.got) THEN st.got[i] ELSE d[i - Len(st.got)]
  BY <1>18, <1>19, <1>20, Zenon
<1>7. \A c \in 1..k : \A i \in 1..Len(st.channel[c]) : st.channel[c][i] = Datum(st.of)
  BY <1>1 DEF Counted
<1>8. \A i \in 1..Len(d) : d[i] = Datum(st.of)
  <2>1. 1 \in 1..k
    BY <1>3
  <2>2. QED
    BY <1>2, <1>7, <2>1
<1>9. \A i \in 1..Len(new.got) : new.got[i] = Datum(new.of)
  <2>1. \A i \in 1..Len(st.got) : st.got[i] = Datum(st.of)
    BY DEF Counted
  <2>2. ASSUME NEW i \in 1..Len(new.got) PROVE new.got[i] = Datum(new.of)
    <3>1. CASE i <= Len(st.got)
      <4>1. i \in 1..Len(st.got) /\ new.got[i] = st.got[i]
        BY <1>6, <3>1
      <4>2. QED
        BY <2>1, <4>1
    <3>2. CASE ~(i <= Len(st.got))
      <4>1. PICK a \in Nat, b \in Nat : a = Len(st.got) /\ b = Len(d)
        BY <1>6
      <4>2. i \in 1..a + b /\ ~(i <= a)
        BY <1>6, <3>2, <4>1
      <4>3. i - a \in 1..b
        BY <4>2
      <4>4. new.got[i] = d[i - a]
        BY <1>6, <4>1, <4>2, Zenon
      <4>5. QED
        BY <1>8, <2>2, <4>1, <4>3, <4>4
    <3>3. QED
      BY <3>1, <3>2
  <2>3. QED
    BY <2>2
<1> DEFINE h == [c \in 0..k - 1 |-> g[c + 1]]
<1>10. \A c \in 0..k - 1 : c + 1 \in 0..k /\ c + 1 \in 1..k
  BY <1>3
<1>11. h \in [0..k - 1 -> Nat] /\ \A c \in 0..k - 1 : h[c] = g[c + 1]
  BY <1>5, <1>10
<1> HIDE DEF h
<1>12. g[1] = g[0] + Len(d) /\ 0 \in 0..k - 1 /\ k - 1 \in 0..k - 1 /\ 0 + 1 = 1 /\ (k - 1) + 1 = k
  <2>1. 1 \in 1..k /\ 1 - 1 = 0
    BY <1>3
  <2>3. g[1] = g[0] + Len(st.channel[1])
    BY <1>4, <2>1
  <2>4. g[1] = g[0] + Len(d)
    BY <1>2, <2>3, Zenon
  <2>2. QED
    BY <1>3, <2>4
<1>13. h[0] = Len(new.got) /\ h[k - 1] + new.left = length
  BY <1>4, <1>6, <1>11, <1>12
<1>14. \A c \in 1..k - 1 : h[c] = h[c - 1] + Len(new.channel[c])
  <2>1. ASSUME NEW c \in 1..k - 1 PROVE h[c] = h[c - 1] + Len(new.channel[c])
    <3>1. c \in 0..k - 1 /\ c - 1 \in 0..k - 1 /\ c + 1 \in 1..k /\ (c + 1) - 1 = c /\ (c - 1) + 1 = c
      BY <1>3
    <3>2. h[c] = g[c + 1] /\ h[c - 1] = g[c] /\ g[c + 1] = g[c] + Len(st.channel[c + 1])
      BY <1>4, <1>11, <3>1
    <3>3. QED
      BY <1>3, <3>2
  <2>2. QED
    BY <2>1
<1>15. \A c, e \in 0..k - 1 : c <= e => h[c] <= h[e]
  <2>1. ASSUME NEW c \in 0..k - 1, NEW e \in 0..k - 1, c <= e PROVE h[c] <= h[e]
    <3>1. c + 1 \in 0..k /\ e + 1 \in 0..k /\ c + 1 <= e + 1
      BY <1>3, <2>1
    <3>2. g[c + 1] <= g[e + 1]
      BY <1>4, <3>1
    <3>3. QED
      BY <1>11, <3>2
  <2>2. QED
    BY <2>1
<1>16. \A c \in 1..k - 1 : \A i \in 1..Len(new.channel[c]) :
         new.channel[c][i] = Datum(new.of)
  <2>1. \A c \in 1..k - 1 : c + 1 \in 1..k
    BY <1>3
  <2>2. QED
    BY <1>3, <1>7, <2>1
<1>17. QED
  BY <1>3, <1>9, <1>11, <1>13, <1>14, <1>15, <1>16 DEF Counted

LEMMA Beginning ==
  ASSUME NEW S, NEW q \in Seq(S), NEW w \in Seq(S), Len(q) <= Len(w), \A i \in 1..Len(q) : q[i] = w[i]
  PROVE  IsPrefix(q, w)
<1> DEFINE p == SubSeq(w, 0 + 1, Len(q))
           o == SubSeq(q, 0 + 1, Len(q))
<1>1. p \in Seq(S) /\ Len(p) = Len(q) /\ \A i \in 1..Len(p) : p[i] = w[0 + i]
  BY Part
<1>2. o \in Seq(S) /\ Len(o) = Len(q) /\ \A i \in 1..Len(o) : o[i] = q[0 + i]
  BY Part
<1> HIDE DEF p, o
<1>3. \A i \in 1..Len(q) : p[i] = o[i]
  <2>1. \A i \in 1..Len(q) : 0 + i = i
    OBVIOUS
  <2>2. QED
    BY <1>1, <1>2, <2>1
<1>4. p = o
  BY <1>1, <1>2, <1>3, SeqEqual
<1>5. 0 + 1 = 1
  OBVIOUS
<1>6. SubSeq(q, 1, Len(q)) = SubSeq(w, 1, Len(q))
  BY <1>4, <1>5 DEF p, o
<1>7. QED
  BY <1>6 DEF IsPrefix

\* What it has got is the beginning of the body, and all of it at the end.
LEMMA CountedProper ==
  ASSUME sent \in Seq(Shapes), NEW st, st.of \in 1..Len(sent), sent[st.of].kind # "chunked",
         Counted(st, sent[st.of].length), NEW T, st.channel \in Seq(Seq(T)), st.got \in Seq(T),
         st.left \in Nat
  PROVE  Proper([of |-> st.of, body |-> st.got, whole |-> st.left = 0 /\ st.channel = <<>>], sent)
<1>1. PICK length \in Nat : length = sent[st.of].length
  <2>1. sent[st.of] \in Shapes
    OBVIOUS
  <2>2. QED
    BY <2>1, KindsTyped
<1>2. PICK k \in Nat : k = Len(st.channel)
  OBVIOUS
<1>3. PICK g \in [0..k -> Nat] :
        /\ g[0] = Len(st.got) /\ g[k] + st.left = length
        /\ \A c, e \in 0..k : c <= e => g[c] <= g[e]
  BY <1>1, <1>2 DEF Counted
<1>14. k \in 0..k /\ 0 \in 0..k /\ 0 <= k /\ \A c \in 0..k : g[c] \in Nat
  OBVIOUS
<1>4. g[0] <= g[k] /\ g[0] \in Nat /\ g[k] \in Nat
  BY <1>3, <1>14
<1>5. Len(st.got) <= length /\ Len(st.got) \in Nat
  BY <1>1, <1>3, <1>4
<1>6. st.left = 0 /\ st.channel = <<>> => Len(st.got) = length
  BY <1>1, <1>2, <1>3, <1>4
<1>7. PICK w : w = WholeBody(sent, st.of)
  OBVIOUS
<1>8. w = [i \in 1..length |-> Datum(st.of)]
  BY <1>1, <1>7 DEF WholeBody, Pieces, Body, Datum
<1>9. \A i \in 1..Len(st.got) : st.got[i] = Datum(st.of)
  BY DEF Counted
<1>10. PICK d : d = Datum(st.of)
  OBVIOUS
<1>15. PICK q \in Seq(T) : q = st.got
  OBVIOUS
<1>11. /\ w \in Seq({d}) /\ Len(w) = length /\ \A i \in 1..length : w[i] = d
  BY <1>8, <1>10
<1>16. Len(q) <= length /\ Len(q) \in Nat /\ \A i \in 1..Len(q) : q[i] = d
  BY <1>5, <1>9, <1>10, <1>15
<1>18. PICK V : V = T \cup {d}
  OBVIOUS
<1>19. q \in Seq(V) /\ w \in Seq(V)
  <2>1. T \subseteq V /\ {d} \subseteq V
    BY <1>18
  <2>2. q \in Seq(T) /\ w \in Seq({d})
    BY <1>11, <1>15
  <2>3. QED
    BY <2>1, <2>2, SeqMonotonic
<1>17. Len(q) = length => q = w
  BY <1>11, <1>16, <1>19, SeqEqual
<1>12. IsPrefix(q, w)
  <2>1. \A i \in 1..Len(q) : i \in 1..length /\ q[i] = w[i]
    BY <1>11, <1>16
  <2>2. QED
    BY <1>11, <1>16, <1>19, <2>1, Beginning
<1>13. QED
  BY <1>6, <1>7, <1>12, <1>15, <1>17 DEF Proper

-----------------------------------------------------------------------------
(* The steps of the connection.                                            *)

\* The same stream, taken up to another place.
LEMMA LinedStays ==
  ASSUME NEW f, NEW base, Lined(f, base), sent' = sent, eof' = eof, NEW k, k \in Int,
         Along(buffer', k, f, sent), Along(wire', k + Len(buffer'), f, sent),
         k + Len(buffer') + Len(wire') = base + Len(buffer) + Len(wire),
         EndsWell(buffer')
  PROVE  Lined(f, k)'
BY DEF Lined

LEMMA Reading ==
  ASSUME Sane, NEW f, NEW base, At(f, base), pc = "read"
  PROVE  /\ Lined(f, base) /\ parsed = <<>> /\ Len(answers) \in 0..Len(sent) /\ Len(answers) \in Nat
         /\ base = f[Len(answers)] /\ f[Len(answers)] \in Int
         /\ Len(answers) < Len(sent) => base + Len(buffer) < f[Len(answers) + 1]
<1>1. Lined(f, base) /\ Collecting(f, base)
  BY DEF At, Streaming, Served
<1>2. parsed = <<>> /\ Taken <= Len(sent) /\ base = f[Taken]
      /\ (Taken < Len(sent) => base + Len(buffer) < f[Taken + 1])
  BY <1>1 DEF Collecting, Midway
<1>3. Len(answers) \in Nat /\ Len(sent) \in Nat
  BY DEF Sane, TypeOK
<1>4. Taken = Len(answers)
  BY <1>2, <1>3 DEF Taken
<1>5. Len(answers) \in 0..Len(sent)
  BY <1>2, <1>3, <1>4
<1>6. f[Len(answers)] \in Int
  BY <1>1, <1>5, LinedTyped
<1>7. QED
  BY <1>1, <1>2, <1>3, <1>4, <1>5, <1>6

\* A read, and what it makes of the buffer.
LEMMA ReadKeeps ==
  ASSUME Sane, Numbered, HandledWhole,
         NEW f, NEW base, At(f, base), NEW n \in DOMAIN wire, Read(n)
  PROVE  strayed' \/ Fine'
<1>1. pc = "read" /\ n \in 1..Len(wire) /\ wire' = SubSeq(wire, n + 1, Len(wire))
      /\ sent' = sent /\ eof' = eof /\ handled' = handled
  <2>1. wire \in Seq(BytesOf(sent))
    BY DEF Sane
  <2>2. QED
    BY <2>1 DEF Read, client
<1>2. PICK a : a = Len(answers)
  OBVIOUS
<1>3. /\ Lined(f, base) /\ parsed = <<>> /\ a \in 0..Len(sent) /\ a \in Nat
      /\ base = f[a] /\ f[a] \in Int
  BY <1>1, <1>2, Reading
<1>4. PICK b : b = buffer \o SubSeq(wire, 1, n)
  OBVIOUS
<1>5. PICK rest : rest = wire'
  OBVIOUS
<1>6. /\ b \in Seq(BytesOf(sent)) /\ Len(b) = Len(buffer) + n /\ b # <<>>
      /\ Along(b, base, f, sent)
      /\ rest \in Seq(BytesOf(sent)) /\ Len(rest) = Len(wire) - n
      /\ Along(rest, base + Len(b), f, sent)
  BY <1>1, <1>3, <1>4, <1>5, ReadLined
<1>7. /\ sent \in Seq(Shapes) /\ Len(sent) \in Nat /\ base \in Int /\ Len(wire) \in Nat
      /\ Len(buffer) \in Nat /\ Len(b) \in Nat /\ Len(rest) \in Nat /\ Offsets(f, sent)
      /\ \A i \in 0..Len(sent) : f[i] \in Int
  BY <1>3, <1>6, LinedTyped
<1>8. /\ a + 1 \in 1..Len(sent) /\ b[1].of = a + 1 /\ f[a + 1] = f[a] + Len(Kinds(sent[a + 1]))
      /\ Begins(b, a + 1, sent)
  BY <1>3, <1>6, <1>7, AtStart
<1>9. base + Len(b) + Len(rest) = base + Len(buffer) + Len(wire)
  BY <1>6, <1>7
<1>10. HandledWhole'
  BY <1>1, HandledStep
<1>11. \/ Overflow(b)
       \/ ShouldStream(b) /\ StartStream(b)
       \/ StartParse(b)
  BY <1>4, Zenon DEF Read
<1>12. CASE Overflow(b)
  <2>1. pc' = "closed" /\ answers' = Append(answers, Len(answers) + 1)
    BY <1>2, <1>8, <1>12 DEF Overflow, Close, Answer
  <2>2. Numbered'
    BY <1>1, <2>1, NumberedStep
  <2>3. QED
    BY <1>10, <2>1, <2>2 DEF Fine
<1>13. CASE ShouldStream(b) /\ StartStream(b)
  <2>1. PICK length : length = sent[a + 1].length
    OBVIOUS
  <2>2. PICK head : head = HeadOf(b)
    OBVIOUS
  <2>3. PICK d : d = SubSeq(b, 3 + 1, Len(b))
    OBVIOUS
  <2>4. /\ Len(b) >= 1
        /\ Len(b) = 1 => ~HasRequestLine(b)
        /\ Len(b) = 2 => HeadOf(b) = Nothing
        /\ Len(b) >= 3 => HeadOf(b) = IF length > MaxParse THEN TooLong(a + 1) ELSE Found(a + 1)
    BY <1>6, <1>7, <1>8, <2>1, HeadAt
  <2>5. head.result = "request" /\ HasRequestLine(b)
    BY <1>13, <2>2 DEF ShouldStream
  <2>6. Len(b) >= 3
    <3>1. Len(b) # 1 /\ Len(b) # 2
      BY <2>2, <2>4, <2>5 DEF Nothing
    <3>2. \A i \in Nat : i >= 1 => i = 1 \/ i = 2 \/ i >= 3
      OBVIOUS
    <3>3. QED
      BY <1>7, <2>4, <3>1, <3>2, Zenon
  <2>7. head.of = a + 1 /\ head.taken = 3 /\ ~(length > MaxParse)
    <3>1. ~(length > MaxParse)
      BY <2>2, <2>4, <2>5, <2>6 DEF TooLong
    <3>2. QED
      BY <2>2, <2>4, <2>6, <3>1 DEF Found
  <2>8. sent[a + 1] \in Shapes
    BY <1>7, <1>8
  <2>9. /\ sent[a + 1].kind # "chunked" /\ Threshold > 0 /\ length > Threshold
    BY <1>13, <2>1, <2>2, <2>7, Zenon DEF ShouldStream
  <2>10. length \in Nat /\ Len(Kinds(sent[a + 1])) = 3 + length
         /\ \A i \in 4..3 + length : Kinds(sent[a + 1])[i] = "data"
    BY <2>1, <2>8, <2>9, KindsTyped
  <2>11. length <= MaxParse
    <3>1. MaxParse \in Nat
      BY LimitsAssumption
    <3>2. QED
      BY <2>7, <2>10, <3>1
  <2>12. Streamed(sent[a + 1])
    <3>1. Threshold \in Nat
      BY LimitsAssumption
    <3>2. QED
      BY <2>1, <2>9, <2>10, <2>11, <3>1 DEF Streamed
  <2>14. d \in Seq(BytesOf(sent)) /\ Len(d) = Len(b) - 3 /\ \A i \in 1..Len(d) : d[i] = b[3 + i]
    <3>1. b \in Seq(BytesOf(sent)) /\ 3 \in Nat /\ Len(b) \in Nat /\ Len(b) <= Len(b)
      BY <1>6, <1>7
    <3>2. /\ d \in Seq(BytesOf(sent)) /\ Len(d) = IF 3 <= Len(b) THEN Len(b) - 3 ELSE 0
          /\ \A i \in 1..Len(d) : d[i] = b[3 + i]
      BY <2>3, <3>1, Part
    <3>3. QED
      BY <2>6, <3>2
  <2>15. strayed' = (strayed \/ Len(d) > length)
    <3>1. strayed' = (strayed \/ Len(SubSeq(b, head.taken + 1, Len(b))) > sent[head.of].length)
      BY <1>13, <2>2, Zenon DEF StartStream
    <3>2. sent[head.of].length = length /\ head.taken + 1 = 3 + 1
      BY <2>1, <2>7
    <3>3. QED
      BY <2>3, <3>1, <3>2
  <2>28. f[a + 1] = base + (3 + length)
    BY <1>3, <1>8, <2>10, Zenon
  <2>29. SUFFICES ASSUME ~(Len(d) > length) PROVE Fine'
    BY <2>15
  <2>16. Len(b) <= 3 + length
    BY <1>7, <2>6, <2>10, <2>14, <2>29
  <2>17. PICK left \in Nat : left = length - Len(d)
    <3>1. Len(b) \in Nat /\ length \in Nat /\ Len(b) <= 3 + length /\ Len(d) = Len(b) - 3
      BY <1>7, <2>10, <2>14, <2>16, Zenon
    <3>2. length - Len(d) \in Nat
      BY <3>1
    <3>3. QED
      BY <3>2, Zenon
  <2>18. left + Len(d) = length /\ f[a + 1] - left = base + Len(b) /\ Len(d) \in Nat
    <3>1. Len(d) \in Nat /\ left + Len(d) = length
      BY <1>7, <2>6, <2>10, <2>14, <2>17
    <3>3. f[a + 1] - left = base + Len(b)
      <4>1. left + (Len(b) - 3) = length /\ Len(b) \in Int /\ left \in Int /\ length \in Int /\ base \in Int
        BY <1>7, <2>10, <2>14, <3>1
      <4>2. (base + (3 + length)) - left = base + Len(b)
        BY <4>1
      <4>3. QED
        BY <2>28, <4>2, Zenon
    <3>4. QED
      BY <3>1, <3>3
  <2>19. left = IF Len(d) < length THEN length - Len(d) ELSE 0
    BY <2>10, <2>17, <2>18
  <2>20. \A i \in 1..Len(d) : d[i] = Datum(a + 1)
    <3>1. ASSUME NEW i \in 1..Len(d) PROVE d[i] = Datum(a + 1)
      <4>1. 3 + i \in 1..Len(b) /\ 3 + i <= 3 + length /\ 3 + i \in 4..3 + length
        BY <1>7, <2>6, <2>10, <2>14, <2>16
      <4>2. b[3 + i].of = a + 1 /\ b[3 + i].kind = "data"
        BY <1>8, <2>10, <4>1 DEF Begins
      <4>3. b[3 + i] \in BytesOf(sent)
        BY <1>6, <4>1
      <4>4. d[i] = b[3 + i]
        BY <2>14
      <4>5. QED
        BY <4>2, <4>3, <4>4 DEF BytesOf, Datum
    <3>2. QED
      BY <3>1
  <2>21. /\ pc' = "stream" /\ buffer' = <<>> /\ UNCHANGED <<answers, parsed>>
         /\ stream' = [of |-> a + 1, left |-> left, channel |-> FirstChunk(d),
                       reader |-> "reads", got |-> <<>>]
    <3>1. StartStream(b)
      BY <1>13
    <3>2. sent[head.of].length = length /\ head.taken + 1 = 3 + 1
      BY <2>1, <2>7
    <3>3. /\ pc' = "stream" /\ buffer' = <<>> /\ UNCHANGED <<answers, parsed>>
          /\ stream' = [of |-> head.of,
                        left |-> IF Len(SubSeq(b, head.taken + 1, Len(b))) < sent[head.of].length
                                 THEN sent[head.of].length - Len(SubSeq(b, head.taken + 1, Len(b))) ELSE 0,
                        channel |-> FirstChunk(SubSeq(b, head.taken + 1, Len(b))),
                        reader |-> "reads", got |-> <<>>]
      BY <2>2, <3>1, Zenon DEF StartStream
    <3>4. QED
      BY <2>3, <2>7, <2>19, <3>2, <3>3
  <2>22. Counted(stream', length)
    <3>1. PICK st : st = stream'
      OBVIOUS
    <3>2. st.of = a + 1 /\ st.got = <<>> /\ st.channel = FirstChunk(d) /\ st.left = left
      BY <2>21, <3>1
    <3>3. Counted(st, length)
      BY <2>10, <2>14, <2>18, <2>20, <3>2, CountedFirst
    <3>4. QED
      BY <3>1, <3>3
  <2>23. Lined(f, base + Len(b))'
    <3>1. base + Len(b) \in Int /\ (base + Len(b)) + 0 = base + Len(b) /\ Len(buffer') = 0
      BY <1>7, <2>21
    <3>2. Along(buffer', base + Len(b), f, sent) /\ EndsWell(buffer')
      BY <2>21 DEF Along, EndsWell
    <3>3. (base + Len(b)) + Len(buffer') + Len(wire') = base + Len(buffer) + Len(wire)
      BY <1>5, <1>7, <1>9, <3>1
    <3>4. Along(wire', (base + Len(b)) + Len(buffer'), f, sent)
      BY <1>5, <1>6, <3>1
    <3>5. QED
      BY <1>1, <1>3, <3>1, <3>2, <3>3, <3>4, LinedStays
  <2>24. Streaming(f, base + Len(b))'
    <3>1. stream'.of = a + 1 /\ stream'.left = left
      BY <2>21
    <3>2. a + 1 <= Len(sent) /\ a = Len(answers)
      BY <1>2, <1>7, <1>8
    <3>3. QED
      BY <1>1, <1>2, <1>3, <2>1, <2>12, <3>2, <2>18, <2>21, <2>22, <3>1, Zenon DEF Streaming
  <2>25. Numbered'
    BY <1>1, <2>21, NumberedStep
  <2>27. QED
    BY <1>10, <2>23, <2>24, <2>25 DEF Fine, Running, At
<1>14. CASE StartParse(b)
  <2>1. /\ pc' = "parse" /\ buffer' = b /\ parsed' = <<>> /\ answers' = answers
        /\ strayed' = (strayed \/ Divides(Last(b)))
    BY <1>14 DEF StartParse
  <2>6. SUFFICES ASSUME ~Divides(Last(b)) PROVE Fine'
    BY <2>1
  <2>7. EndsWell(b)
    <3>1. Last(b) = b[Len(b)] /\ b[Len(b)] \in BytesOf(sent)
      BY <1>6 DEF Last
    <3>2. b[Len(b)].kind \in PieceKinds
      BY <3>1 DEF BytesOf
    <3>3. QED
      BY <2>6, <3>1, <3>2 DEF EndsWell, Divides, GoodEnds, PieceKinds
  <2>2. Lined(f, base)'
    BY <1>1, <1>3, <1>5, <1>6, <1>7, <1>9, <2>1, <2>7, LinedStays
  <2>3. Collecting(f, base)'
    <3>1. Len(answers') + Len(parsed') = a /\ Len(parsed') = 0
      BY <1>2, <1>3, <2>1
    <3>2. a <= Len(sent)
      BY <1>3
    <3>3. QED
      BY <1>1, <1>3, <2>1, <3>1, <3>2 DEF Collecting, Taken
  <2>4. Numbered'
    BY <1>1, <2>1, NumberedStep
  <2>5. QED
    BY <1>10, <2>2, <2>3, <2>4 DEF Fine, Running, At
<1>15. QED
  BY <1>11, <1>12, <1>13, <1>14

\* The buffer without its first bytes.
LEMMA TakeLined ==
  ASSUME Sane, NEW f, NEW base, Lined(f, base), NEW m \in 0..Len(buffer),
         buffer' = SubSeq(buffer, m + 1, Len(buffer)), wire' = wire, sent' = sent, eof' = eof
  PROVE  Lined(f, base + m)' /\ Len(buffer') = Len(buffer) - m
<1>1. /\ base \in Int /\ buffer \in Seq(BytesOf(sent)) /\ Len(buffer) \in Nat /\ m \in Nat
      /\ m \in Int /\ Len(wire) \in Nat
  BY LinedTyped
<1>2. /\ Along(buffer, base, f, sent) /\ EndsWell(buffer)
      /\ Along(wire, base + Len(buffer), f, sent)
  BY DEF Lined
<1>3. PICK r : r = buffer'
  OBVIOUS
<1>4. Len(r) = Len(buffer) - m /\ Along(r, base + m, f, sent) /\ EndsWell(r)
  BY <1>1, <1>2, <1>3, RestAlong
<1>5. (base + m) + Len(r) = base + Len(buffer) /\ base + m \in Int
  BY <1>1, <1>4
<1>6. (base + m) + Len(r) + Len(wire) = base + Len(buffer) + Len(wire)
  BY <1>1, <1>5
<1>7. QED
  BY <1>2, <1>3, <1>4, <1>5, <1>6, LinedStays

\* The parse loop ends.
LEMMA ParseStops ==
  ASSUME Sane, Numbered, HandledWhole, NEW f, NEW base, Lined(f, base), Collecting(f, base),
         base = f[Taken], Taken < Len(sent) => base + Len(buffer) < f[Taken + 1],
         pc = "parse", pc' = "dispatch",
         UNCHANGED <<sent, eof, wire, buffer, parsed, answers, handled>>
  PROVE  Fine'
<1>1. Lined(f, base)'
  BY DEF Lined
<1>2. Collecting(f, base)'
  BY Zenon DEF Collecting, Taken
<1>3. Numbered' /\ HandledWhole'
  BY NumberedStep, HandledStep
<1>4. QED
  BY <1>1, <1>2, <1>3 DEF Fine, Running, At

LEMMA ParsedGrows ==
  ASSUME Sane, NEW r, parsed' = Append(parsed, r)
  PROVE  /\ Len(parsed) \in Nat /\ Len(parsed') = Len(parsed) + 1 /\ parsed'[Len(parsed) + 1] = r
         /\ \A j \in 1..Len(parsed) : parsed'[j] = parsed[j]
         /\ \A j \in 1..Len(parsed') : j \in 1..Len(parsed) \/ j = Len(parsed) + 1
<1> DEFINE R == [of : 1..MaxRequests, body : Seq(Piece)]
<1>1. parsed \in Seq(R)
  BY DEF Sane, TypeOK
<1> HIDE DEF R
<1>2. PICK V : V = R \cup {r}
  OBVIOUS
<1>3. parsed \in Seq(V) /\ r \in V
  BY <1>1, <1>2, SeqMonotonic
<1>4. QED
  BY <1>3

\* It takes a request whose body, if it has one, it takes as well.
LEMMA ParseTakes ==
  ASSUME Sane, Numbered, HandledWhole, NEW f, NEW base, Lined(f, base), Collecting(f, base),
         NEW a \in Nat, a = Taken, a + 1 \in 1..Len(sent), base = f[a], f[a] \in Int, pc = "parse",
         NEW m \in 0..Len(buffer), buffer' = SubSeq(buffer, m + 1, Len(buffer)),
         NEW body, parsed' = Append(parsed, [of |-> a + 1, body |-> body]),
         UNCHANGED <<sent, eof, wire, pc, answers, handled>>,
         \/ f[a + 1] = f[a] + m /\ body = WholeBody(sent, a + 1)
         \/ /\ f[a + 1] = f[a] + m + 4 /\ body = <<>> /\ m + 4 <= Len(buffer)
            /\ chunked' /\ sent[a + 1].kind = "chunked"
  PROVE  Fine'
<1>1. PICK k : k = Len(parsed)
  OBVIOUS
<1>2. PICK c : c = Len(answers)
  OBVIOUS
<1>3. Lined(f, base + m)' /\ Len(buffer') = Len(buffer) - m
  BY TakeLined
<1>4. /\ k \in Nat /\ Len(parsed') = k + 1 /\ parsed'[k + 1] = [of |-> a + 1, body |-> body]
      /\ \A j \in 1..k : parsed'[j] = parsed[j]
      /\ \A j \in 1..k + 1 : j \in 1..k \/ j = k + 1
  BY <1>1, ParsedGrows
<1>5. c \in Nat /\ Len(sent) \in Nat /\ Len(buffer) \in Nat
  BY <1>2, SMTT(30) DEF Sane, TypeOK
<1>6. a = c + k /\ c + (k + 1) = a + 1 /\ a + 1 <= Len(sent)
  BY <1>1, <1>2, <1>4, <1>5 DEF Taken
<1>7. Taken' = a + 1
  BY <1>2, <1>4, <1>6 DEF Taken
<1>8. \A j \in 1..k : parsed[j].of = c + j /\ parsed[j].body = WholeBody(sent, c + j)
  BY <1>1, <1>2 DEF Collecting
<1>9. \A j \in 1..k : parsed'[j].of = c + j /\ parsed'[j].body = WholeBody(sent, c + j)
  BY <1>4, <1>8
<1>10. parsed'[k + 1].of = c + (k + 1) /\ parsed'[k + 1].body = body
  BY <1>4, <1>6
<1>11. Numbered' /\ HandledWhole'
  BY NumberedStep, HandledStep
<1>12. m \in Nat /\ m \in Int
  BY <1>5
<1>13. CASE f[a + 1] = f[a] + m /\ body = WholeBody(sent, a + 1)
  <2>1. f[a + 1] = base + m
    BY <1>13
  <2>2. \A j \in 1..k + 1 : parsed'[j].of = c + j /\ parsed'[j].body = WholeBody(sent, c + j)
    BY <1>4, <1>6, <1>9, <1>10, <1>13
  <2>3. Collecting(f, base + m)'
    BY <1>2, <1>4, <1>6, <1>7, <2>1, <2>2, Zenon DEF Collecting
  <2>4. QED
    BY <1>3, <1>11, <2>3 DEF Fine, Running, At
<1>14. CASE /\ f[a + 1] = f[a] + m + 4 /\ body = <<>> /\ m + 4 <= Len(buffer)
            /\ chunked' /\ sent[a + 1].kind = "chunked"
  <2>1. base + m = f[a + 1] - 4 /\ base + m # f[a + 1] /\ Len(buffer) - m >= 4
    BY <1>5, <1>12, <1>14
  <2>2. \A j \in 1..k + 1 :
          /\ parsed'[j].of = c + j
          /\ (j = k + 1 => base + m = f[a + 1]) => parsed'[j].body = WholeBody(sent, c + j)
    <3>1. ASSUME NEW j \in 1..k + 1
          PROVE /\ parsed'[j].of = c + j
                /\ (j = k + 1 => base + m = f[a + 1]) => parsed'[j].body = WholeBody(sent, c + j)
      <4>1. CASE j \in 1..k
        BY <1>9, <4>1
      <4>2. CASE j = k + 1
        BY <1>10, <2>1, <4>2
      <4>3. QED
        BY <1>4, <4>1, <4>2
    <3>2. QED
      BY <3>1
  <2>3. parsed' # <<>>
    <3>1. k + 1 # 0
      BY <1>4
    <3>2. parsed' = <<>> => Len(parsed') = 0
      OBVIOUS
    <3>3. QED
      BY <1>4, <3>1, <3>2
  <2>4. Midway(f, base + m)'
    BY <1>3, <1>4, <1>7, <1>10, <1>14, <2>1, <2>3, Zenon DEF Midway
  <2>5. Collecting(f, base + m)'
    BY <1>2, <1>4, <1>6, <1>7, <2>2, <2>4, Zenon DEF Collecting
  <2>6. QED
    BY <1>3, <1>11, <2>5 DEF Fine, Running, At
<1>15. QED
  BY <1>13, <1>14

LEMMA LastGrows ==
  ASSUME NEW R, NEW q \in Seq(R), q # <<>>, NEW more, NEW last, last = q[Len(q)]
  PROVE  /\ Len(Grown(q, more)) = Len(q) /\ Len(q) \in 1..Len(q)
         /\ \A i \in 1..Len(q) - 1 : Grown(q, more)[i] = q[i]
         /\ Grown(q, more)[Len(q)] = [last EXCEPT !.body = last.body \o more]
<1>1. PICK e : e = [last EXCEPT !.body = last.body \o more]
  OBVIOUS
<1>2. Grown(q, more) = [q EXCEPT ![Len(q)] = e]
  BY <1>1 DEF Grown
<1>3. PICK V : V = R \cup {e}
  OBVIOUS
<1>4. q \in Seq(V) /\ e \in V
  BY <1>3, SeqMonotonic
<1>5. PICK g : g = Grown(q, more)
  OBVIOUS
<1>6. /\ Len(g) = Len(q) /\ Len(q) \in 1..Len(q) /\ g[Len(q)] = e
      /\ \A i \in 1..Len(q) - 1 : g[i] = q[i]
  BY <1>2, <1>4, <1>5
<1>7. QED
  BY <1>1, <1>5, <1>6

LEMMA ParsedFinished ==
  ASSUME Sane, parsed # <<>>, NEW body, parsed' = Grown(parsed, body), NEW k, k = Len(parsed)
  PROVE  /\ Len(parsed') = k /\ k \in 1..k
         /\ \A i \in 1..k - 1 : parsed'[i] = parsed[i]
         /\ parsed'[k] = [of |-> parsed[k].of, body |-> parsed[k].body \o body]
<1> DEFINE R == [of : 1..MaxRequests, body : Seq(Piece)]
<1>1. parsed \in Seq(R)
  BY DEF Sane, TypeOK
<1> HIDE DEF R
<1>2. k \in 1..k /\ parsed[k] \in R
  BY <1>1
<1>3. PICK last : last = parsed[k]
  OBVIOUS
<1>4. [last EXCEPT !.body = last.body \o body] = [of |-> last.of, body |-> last.body \o body]
  <2>1. last = [of |-> last.of, body |-> last.body]
    BY <1>2, <1>3 DEF R
  <2>2. ASSUME NEW w PROVE [last EXCEPT !.body = w] = [of |-> last.of, body |-> w]
    BY <2>1
  <2>3. QED
    BY <2>2, Zenon
<1>5. PICK q \in Seq(R) : q = parsed
  BY <1>1
<1>6. q # <<>> /\ last = q[Len(q)] /\ Len(q) = k
  BY <1>3, <1>5
<1>7. /\ Len(Grown(q, body)) = Len(q)
      /\ \A i \in 1..Len(q) - 1 : Grown(q, body)[i] = q[i]
      /\ Grown(q, body)[Len(q)] = [last EXCEPT !.body = last.body \o body]
  BY <1>6, LastGrows, ZenonT(30)
<1>8. parsed' = Grown(q, body)
  BY <1>5
<1>9. QED
  BY <1>2, <1>3, <1>4, <1>5, <1>6, <1>7, <1>8, Zenon

\* It takes the chunks of the last request it took.
LEMMA ParseFinishes ==
  ASSUME Sane, Numbered, HandledWhole, NEW f, NEW base, Lined(f, base), Collecting(f, base),
         Midway(f, base), pc = "parse", Len(buffer) >= 4, base + 4 = f[Taken],
         buffer' = SubSeq(buffer, 4 + 1, Len(buffer)), NEW body \in Seq(Piece),
         parsed' = Grown(parsed, body),
         body = WholeBody(sent, Taken),
         UNCHANGED <<sent, eof, wire, pc, answers, handled>>
  PROVE  Fine'
<1>1. PICK k : k = Len(parsed)
  OBVIOUS
<1>2. PICK c : c = Len(answers)
  OBVIOUS
<1>3. c \in Nat /\ Len(sent) \in Nat /\ Len(buffer) \in Nat /\ 4 \in 0..Len(buffer)
  BY <1>2 DEF Sane, TypeOK
<1>4. Lined(f, base + 4)'
  BY <1>3, TakeLined
<1>5. parsed # <<>> /\ parsed[k].body = <<>>
  BY <1>1 DEF Midway
<1>6. /\ Len(parsed') = k /\ k \in 1..k
      /\ \A i \in 1..k - 1 : parsed'[i] = parsed[i]
      /\ parsed'[k] = [of |-> parsed[k].of, body |-> parsed[k].body \o body]
  BY <1>1, <1>5, ParsedFinished
<1>7. Taken' = Taken /\ Taken = c + k
  BY <1>1, <1>2, <1>6 DEF Taken
<1>8. /\ parsed'[k].of = parsed[k].of /\ parsed'[k].body = body
  <2>1. <<>> \o body = body
    BY ConcatEmptySeq
  <2>2. QED
    BY <1>5, <1>6, <2>1
<1>9. \A j \in 1..k : parsed[j].of = c + j
  BY <1>1, <1>2 DEF Collecting
<1>10. k \in Nat /\ \A j \in 1..k : j \in 1..k - 1 \/ j = k
  <2>1. k \in Nat
    BY <1>1 DEF Sane, TypeOK
  <2>2. QED
    BY <2>1
<1>11. \A j \in 1..k - 1 : j \in 1..k /\ j # k
  BY <1>10
<1>12. \A j \in 1..k - 1 : parsed[j].body = WholeBody(sent, c + j)
  BY <1>1, <1>2, <1>11 DEF Collecting
<1>13. \A j \in 1..k : parsed'[j].of = c + j /\ parsed'[j].body = WholeBody(sent, c + j)
  BY <1>6, <1>7, <1>8, <1>9, <1>10, <1>12, ZenonT(30)
<1>14. Collecting(f, base + 4)'
  <2>1. Taken <= Len(sent)
    BY DEF Collecting
  <2>2. Taken' <= Len(sent') /\ base + 4 = f[Taken'] /\ pc' = "parse" /\ sent' = sent
    BY <1>7, <2>1
  <2>3. \A j \in 1..Len(parsed') :
          parsed'[j].of = Len(answers') + j /\ parsed'[j].body = WholeBody(sent', Len(answers') + j)
    BY <1>2, <1>6, <1>13
  <2>4. QED
    BY <2>2, <2>3, Zenon DEF Collecting
<1>15. Numbered' /\ HandledWhole'
  BY NumberedStep, HandledStep
<1>16. QED
  BY <1>4, <1>14, <1>15 DEF Fine, Running, At

\* The parser's refusal of a request that is alone in the buffer, and whole.
LEMMA RefusalKeeps ==
  ASSUME Sane, Numbered, HandledWhole, NEW f, NEW base, Lined(f, base), Collecting(f, base),
         NEW a \in Nat, a = Taken, a + 1 \in 1..Len(sent), base = f[a], pc = "parse",
         parsed = <<>>, buffer = Pieces(a + 1, Kinds(sent[a + 1])),
         pc' = "dispatch", buffer' = <<>>, answers' = Append(answers, a + 1),
         UNCHANGED <<sent, eof, wire, parsed, handled>>
  PROVE  Fine'
<1>1. PICK n : n = a + 1
  OBVIOUS
<1>2. /\ sent \in Seq(Shapes) /\ Len(sent) \in Nat /\ Len(buffer) \in Nat /\ base \in Int
      /\ Offsets(f, sent) /\ Len(wire) \in Nat /\ \A i \in 0..Len(sent) : f[i] \in Int
  BY LinedTyped
<1>3. Len(answers) = a /\ answers \in Seq(Nat)
  <2>1. answers \in Seq(0..MaxRequests) /\ 0..MaxRequests \subseteq Nat
    BY DEF Sane, TypeOK
  <2>2. answers \in Seq(Nat)
    BY <2>1, SeqMonotonic
  <2>3. Len(parsed) = 0 /\ Len(answers) \in Nat
    BY <2>2
  <2>4. QED
    BY <2>2, <2>3 DEF Taken
<1>4. n \in 1..Len(sent) /\ n \in 0..Len(sent) /\ n - 1 = a
  BY <1>1, <1>2
<1>5. Len(buffer) = Len(Kinds(sent[n]))
  BY <1>1, <1>2, <1>4, PiecesAlong
<1>6. f[n] = base + Len(buffer) /\ f[n] \in Int
  BY <1>2, <1>4, <1>5, OffsetsTyped
<1>7. PICK to \in Int : to = f[n]
  BY <1>6
<1>8. Len(buffer') = 0 /\ to + 0 = to
  OBVIOUS
<1>9. Lined(f, to)'
  <2>1. Along(buffer', to, f, sent) /\ EndsWell(buffer')
    BY <1>8 DEF Along, EndsWell
  <2>2. Along(wire', to + Len(buffer'), f, sent)
    BY <1>6, <1>7, <1>8 DEF Lined
  <2>3. to + Len(buffer') + Len(wire') = base + Len(buffer) + Len(wire)
    BY <1>6, <1>7, <1>8
  <2>4. QED
    BY <2>1, <2>2, <2>3, LinedStays
<1>10. Len(answers') = n /\ Len(parsed') = 0
  BY <1>1, <1>3
<1>11. Taken' = n
  BY <1>4, <1>10 DEF Taken
<1>12. ASSUME n < Len(sent) PROVE to + 0 < f[n + 1]
  <2>1. n + 1 \in 1..Len(sent) /\ (n + 1) - 1 = n
    BY <1>2, <1>4, <1>12
  <2>2. f[n + 1] = f[n] + Len(Kinds(sent[n + 1])) /\ Len(Kinds(sent[n + 1])) >= 3
        /\ Len(Kinds(sent[n + 1])) \in Nat
    BY <1>2, <2>1, OffsetsTyped
  <2>3. QED
    BY <1>6, <1>7, <2>2
<1>13. Collecting(f, to)'
  <2>1. /\ Taken' <= Len(sent') /\ to = f[Taken'] /\ pc' = "dispatch" /\ parsed' = <<>>
        /\ (Taken' < Len(sent') => to + Len(buffer') < f[Taken' + 1])
    BY <1>2, <1>4, <1>7, <1>8, <1>11, <1>12
  <2>2. \A j \in 1..Len(parsed') : FALSE
    BY <1>10
  <2>3. QED
    BY <2>1, <2>2 DEF Collecting
<1>14. Numbered' /\ HandledWhole'
  BY <1>3, NumberedStep, HandledStep
<1>15. QED
  BY <1>9, <1>13, <1>14 DEF Fine, Running, At

\* A turn of the parse loop between two requests ...
LEMMA ParseBetween ==
  ASSUME Sane, Numbered, HandledWhole, NEW f, NEW base,
         Lined(f, base), Collecting(f, base), base = f[Taken], ParseNext, buffer # <<>>
  PROVE  strayed' \/ Fine'
<1>1. PICK a : a = Taken
  OBVIOUS
<1>2. /\ sent \in Seq(Shapes) /\ Len(sent) \in Nat /\ buffer \in Seq(BytesOf(sent))
      /\ Len(buffer) \in Nat /\ base \in Int /\ Offsets(f, sent)
      /\ Along(buffer, base, f, sent) /\ EndsWell(buffer)
  <2>1. Along(buffer, base, f, sent) /\ EndsWell(buffer)
    BY DEF Lined
  <2>2. QED
    BY <2>1, LinedTyped
<1>3. a \in Nat /\ a \in 0..Len(sent) /\ f[a] \in Int
  <2>1. Len(answers) \in Nat /\ Len(parsed) \in Nat
    BY DEF Sane, TypeOK
  <2>2. a \in Nat /\ a <= Len(sent)
    BY <1>1, <2>1 DEF Collecting, Taken
  <2>3. QED
    BY <1>1, <1>2, <2>2
<1>4. PICK n : n = a + 1
  OBVIOUS
<1>5. /\ n \in 1..Len(sent) /\ f[n] = f[a] + Len(Kinds(sent[n])) /\ Begins(buffer, n, sent)
  BY <1>1, <1>2, <1>3, <1>4, AtStart
<1>6. PICK isChunk : isChunk = (chunked \/ ChunkedHeader(buffer))
  OBVIOUS
<1>7. PICK p : p = Parse(buffer, isChunk)
  OBVIOUS
<1>8. chunked' = isChunk /\ Turn(p)
  BY <1>6, <1>7, ParseTurn
<1>9. pc = "parse" /\ UNCHANGED <<sent, eof, wire, handled>>
  BY DEF ParseNext, client
<1>10. CASE p = Nothing /\ Len(buffer) < Len(Kinds(sent[n]))
  <2>1. pc' = "dispatch" /\ UNCHANGED <<buffer, parsed, answers>>
    BY <1>8, <1>10 DEF Turn, Nothing
  <2>2. Len(Kinds(sent[n])) \in Nat
    BY <1>2, <1>5, OffsetsTyped
  <2>3. Taken < Len(sent) => base + Len(buffer) < f[Taken + 1]
    BY <1>1, <1>2, <1>3, <1>4, <1>5, <1>10, <2>2
  <2>4. QED
    BY <1>9, <2>1, <2>3, ParseStops
<1>11. ASSUME NEW m, NEW body,
              p = [result |-> "request", of |-> n, body |-> body, taken |-> m]
       PROVE  /\ buffer' = SubSeq(buffer, m + 1, Len(buffer))
              /\ parsed' = Append(parsed, [of |-> a + 1, body |-> body])
              /\ UNCHANGED <<pc, answers>>
  <2>1. p.result = "request" /\ p.taken = m /\ p.of = a + 1 /\ p.body = body
    BY <1>4, <1>11
  <2>2. QED
    BY <1>8, <2>1 DEF Turn
<1>12. CASE sent[n].kind # "chunked"
  <2>1. PICK m : m = 3 + sent[n].length
    OBVIOUS
  <2> DEFINE long == sent[n].length > MaxParse
  <2>8. /\ sent[n].length \in Nat /\ Len(Kinds(sent[n])) = m
        /\ long => (Len(buffer) = 2 /\ p = Nothing) \/ p = TooLong(n)
        /\ ~long /\ Len(buffer) < m => p = Nothing
        /\ ~long /\ ~(Len(buffer) < m) =>
             p = [result |-> "request", of |-> n, body |-> WholeBody(sent, n), taken |-> m]
    BY <1>2, <1>5, <1>7, <1>12, <2>1, ParsePlain, ZenonT(30)
  <2> HIDE DEF long
  <2>2. /\ m \in Nat /\ Len(Kinds(sent[n])) = m /\ m >= 3
        /\ long => (Len(buffer) = 2 /\ p = Nothing) \/ p = TooLong(n)
        /\ ~long /\ Len(buffer) < m => p = Nothing
        /\ ~long /\ ~(Len(buffer) < m) =>
             p = [result |-> "request", of |-> n, body |-> WholeBody(sent, n), taken |-> m]
    BY <2>1, <2>8
  <2>3. CASE ~long /\ Len(buffer) < m
    BY <1>10, <2>2, <2>3
  <2>6. CASE long /\ Len(buffer) = 2 /\ p = Nothing
    BY <1>10, <2>2, <2>6
  <2>7. CASE long /\ p = TooLong(n)
    <3>1. p.result = "error" /\ p.of = n
      BY <2>7 DEF TooLong
    <3>2. /\ pc' = "dispatch" /\ buffer' = <<>> /\ answers' = Append(answers, n) /\ parsed' = parsed
          /\ strayed' = (strayed \/ parsed # <<>> \/ buffer # Pieces(n, Kinds(sent[n])))
      BY <1>8, <3>1 DEF Turn
    <3>3. CASE parsed = <<>> /\ buffer = Pieces(n, Kinds(sent[n]))
      BY <1>1, <1>3, <1>4, <1>5, <1>9, <3>2, <3>3, RefusalKeeps
    <3>4. QED
      BY <3>2, <3>3
  <2>4. CASE ~long /\ ~(Len(buffer) < m)
    <3>1. m \in 0..Len(buffer)
      BY <1>2, <2>2, <2>4
    <3>2. /\ buffer' = SubSeq(buffer, m + 1, Len(buffer))
          /\ parsed' = Append(parsed, [of |-> a + 1, body |-> WholeBody(sent, n)])
          /\ UNCHANGED <<pc, answers>>
      BY <1>11, <2>2, <2>4
    <3>3. f[a + 1] = f[a] + m /\ WholeBody(sent, n) = WholeBody(sent, a + 1) /\ a + 1 \in 1..Len(sent)
      BY <1>4, <1>5, <2>2
    <3>4. base = f[a]
      BY <1>1
    <3>5. QED
      BY <1>1, <1>3, <1>9, <3>1, <3>2, <3>3, <3>4, ParseTakes
  <2>5. QED
    BY <2>2, <2>3, <2>4, <2>6, <2>7
<1>13. CASE sent[n].kind = "chunked"
  <2>1. /\ Len(Kinds(sent[n])) = 7
        /\ \/ Len(buffer) = 2 /\ p = Nothing
           \/ /\ Len(buffer) >= 7 /\ ChunkedHeader(buffer)
              /\ p = [result |-> "request", of |-> n, body |-> <<>>, taken |-> 3]
    BY <1>2, <1>5, <1>7, <1>13, ParseAnnounced
  <2>2. CASE Len(buffer) = 2 /\ p = Nothing
    <3>1. Len(buffer) < Len(Kinds(sent[n]))
      BY <2>1, <2>2
    <3>2. QED
      BY <1>10, <2>2, <3>1
  <2>3. CASE /\ Len(buffer) >= 7 /\ ChunkedHeader(buffer)
             /\ p = [result |-> "request", of |-> n, body |-> <<>>, taken |-> 3]
    <3>1. 3 \in 0..Len(buffer) /\ 3 + 4 <= Len(buffer)
      BY <1>2, <2>3
    <3>2. /\ buffer' = SubSeq(buffer, 3 + 1, Len(buffer))
          /\ parsed' = Append(parsed, [of |-> a + 1, body |-> <<>>])
          /\ UNCHANGED <<pc, answers>>
      BY <1>11, <2>3
    <3>3. f[a + 1] = f[a] + 3 + 4 /\ a + 1 \in 1..Len(sent) /\ sent[a + 1].kind = "chunked"
      BY <1>3, <1>4, <1>5, <1>13, <2>1
    <3>4. base = f[a]
      BY <1>1
    <3>5. chunked'
      BY <1>6, <1>8, <2>3
    <3>6. QED
      BY <1>1, <1>3, <1>9, <3>1, <3>2, <3>3, <3>4, <3>5, ParseTakes
  <2>4. QED
    BY <2>1, <2>2, <2>3
<1>14. QED
  BY <1>12, <1>13

\* ... or with the chunks of one before it.
LEMMA ParseMidway ==
  ASSUME Sane, Numbered, HandledWhole, NEW f, NEW base,
         Lined(f, base), Collecting(f, base), Midway(f, base), ParseNext
  PROVE  Fine'
<1>1. PICK a : a = Taken
  OBVIOUS
<1>2. /\ sent \in Seq(Shapes) /\ Len(sent) \in Nat /\ buffer \in Seq(BytesOf(sent))
      /\ Len(buffer) \in Nat /\ base \in Int /\ Offsets(f, sent) /\ Along(buffer, base, f, sent)
  <2>1. Along(buffer, base, f, sent)
    BY DEF Lined
  <2>2. QED
    BY <2>1, LinedTyped
<1>3. /\ parsed # <<>> /\ chunked /\ sent[a].kind = "chunked" /\ base = f[a] - 4 /\ Len(buffer) >= 4
  BY <1>1 DEF Midway
<1>4. a \in 1..Len(sent)
  <2>1. parsed \in Seq([of : 1..MaxRequests, body : Seq(Piece)])
    BY DEF Sane, TypeOK
  <2>2. Len(answers) \in Nat /\ Len(parsed) \in Nat
    BY DEF Sane, TypeOK
  <2>3. Len(parsed) # 0
    BY <1>3, <2>1
  <2>4. a <= Len(sent)
    BY <1>1 DEF Collecting
  <2>5. a = Len(answers) + Len(parsed)
    BY <1>1 DEF Taken
  <2>6. QED
    BY <1>2, <2>2, <2>3, <2>4, <2>5
<1>5. PICK e : e = f[a]
  OBVIOUS
<1>6. /\ e \in Int /\ f[a - 1] = e - 7 /\ f[a - 1] \in Int /\ sent[a] \in Shapes
      /\ Len(Kinds(sent[a])) = 7
      /\ Kinds(sent[a])[4] = "size" /\ Kinds(sent[a])[5] = "tail" /\ Kinds(sent[a])[6] = "zero"
  <2>1. /\ a \in 0..Len(sent) /\ a - 1 \in 0..Len(sent) /\ sent[a] \in Shapes
        /\ f[a] = f[a - 1] + Len(Kinds(sent[a]))
    BY <1>2, <1>4, OffsetsTyped
  <2>2. f[a] \in Int /\ f[a - 1] \in Int
    BY <1>2, <2>1, OffsetsTyped
  <2>3. /\ Len(Kinds(sent[a])) = 7
        /\ Kinds(sent[a])[4] = "size" /\ Kinds(sent[a])[5] = "tail" /\ Kinds(sent[a])[6] = "zero"
    BY <1>3, <2>1, KindsTyped
  <2>4. f[a - 1] = e - 7
    BY <1>5, <2>1, <2>2, <2>3
  <2>5. QED
    BY <1>5, <2>1, <2>2, <2>3, <2>4
<1>7. ASSUME NEW i \in 1..3
      PROVE  buffer[i] = [of |-> a, kind |-> Kinds(sent[a])[3 + i]]
  <2>1. /\ i \in 1..Len(buffer) /\ f[a - 1] < base + i /\ base + i <= f[a]
        /\ (base + i) - f[a - 1] = 3 + i
    <3>1. PICK g : g = f[a - 1]
      OBVIOUS
    <3>2. g \in Int /\ base \in Int /\ e \in Int /\ g = e - 7 /\ base = e - 4
      BY <1>2, <1>3, <1>5, <1>6, <3>1
    <3>3. g < base + i /\ base + i <= e /\ (base + i) - g = 3 + i
      BY <3>2
    <3>4. i \in 1..Len(buffer)
      BY <1>2, <1>3
    <3>5. QED
      BY <1>5, <3>1, <3>3, <3>4
  <2>2. buffer[i] = [of |-> a, kind |-> Kinds(sent[a])[(base + i) - f[a - 1]]]
    BY <1>2, <1>4, <2>1, AlongAt, SMTT(30)
  <2>3. QED
    BY <2>1, <2>2
<1>8. /\ buffer[1] = [of |-> a, kind |-> "size"] /\ buffer[2] = [of |-> a, kind |-> "tail"]
      /\ buffer[3].kind = "zero"
  <2>1. 1 \in 1..3 /\ 2 \in 1..3 /\ 3 \in 1..3 /\ 3 + 1 = 4 /\ 3 + 2 = 5 /\ 3 + 3 = 6
    OBVIOUS
  <2>2. QED
    BY <1>6, <1>7, <2>1
<1>9. PICK body : body = <<[of |-> a, kind |-> "size"], [of |-> a, kind |-> "tail"]>>
  OBVIOUS
<1>10. PICK p : p = Parse(buffer, TRUE)
  OBVIOUS
<1>11. p = [result |-> "payload", of |-> 0, taken |-> 4, body |-> body]
  BY <1>2, <1>3, <1>8, <1>9, <1>10, ParseChunks
<1>12. buffer # <<>>
  BY <1>2, <1>3
<1>13. Turn(p)
  <2>1. (chunked \/ ChunkedHeader(buffer)) = TRUE
    BY <1>3
  <2>2. Turn(Parse(buffer, chunked \/ ChunkedHeader(buffer)))
    BY <1>12, ParseTurn
  <2>3. QED
    BY <1>10, <2>1, <2>2
<1>14. p.result = "payload" /\ p.taken = 4 /\ p.body = body
  BY <1>11
<1>15. buffer' = SubSeq(buffer, 4 + 1, Len(buffer)) /\ parsed' = Grown(parsed, body) /\ UNCHANGED <<pc, answers>>
  <2>1. ~(4 > Len(buffer))
    BY <1>2, <1>3
  <2>2. p.result \notin {"none", "error", "request"}
    BY <1>14
  <2>3. QED
    BY <1>3, <1>13, <1>14, <2>1, <2>2 DEF Turn
<1>16. body = WholeBody(sent, a) /\ body \in Seq(Piece)
  <2>1. Body(sent[a]) = <<"size", "tail">>
    BY <1>3 DEF Body
  <2>2. body = WholeBody(sent, a)
    BY <1>9, <2>1 DEF WholeBody, Pieces
  <2>3. a \in 1..MaxRequests
    <3>1. Len(sent) <= MaxRequests
      BY DEF Sane, TypeOK
    <3>2. MaxRequests \in Nat
      BY LimitsAssumption
    <3>3. QED
      BY <1>2, <1>4, <3>1, <3>2
  <2>4. [of |-> a, kind |-> "size"] \in Piece /\ [of |-> a, kind |-> "tail"] \in Piece
    BY <2>3 DEF Piece
  <2>5. QED
    BY <1>9, <2>2, <2>4
<1>17. base + 4 = f[Taken]
  BY <1>1, <1>2, <1>3, <1>5, <1>6
<1>18. pc = "parse" /\ UNCHANGED <<sent, eof, wire, handled>>
  BY DEF ParseNext, client
<1>19. QED
  BY <1>1, <1>3, <1>15, <1>16, <1>17, <1>18, ParseFinishes

LEMMA ParseKeeps ==
  ASSUME Sane, Numbered, HandledWhole, NEW f, NEW base, At(f, base), ParseNext
  PROVE  strayed' \/ Fine'
<1>1. pc = "parse" /\ UNCHANGED <<sent, eof, wire, handled>>
  BY DEF ParseNext, client
<1>2. Lined(f, base) /\ Collecting(f, base)
  BY <1>1 DEF At, Streaming, Served
<1>3. CASE Midway(f, base)
  BY <1>2, <1>3, ParseMidway
<1>4. CASE base = f[Taken] /\ buffer # <<>>
  BY <1>2, <1>4, ParseBetween
<1>5. CASE base = f[Taken] /\ buffer = <<>>
  <2>1. pc' = "dispatch" /\ UNCHANGED <<buffer, parsed, answers>>
    BY <1>5, Zenon DEF ParseNext
  <2>2. PICK a : a = Taken
    OBVIOUS
  <2>3. sent \in Seq(Shapes) /\ Len(sent) \in Nat /\ Offsets(f, sent) /\ base \in Int
    BY <1>2, LinedTyped
  <2>4. a \in Nat /\ a <= Len(sent)
    BY <1>2, <2>2 DEF Collecting, Taken, Sane, TypeOK
  <2>5. a < Len(sent) => base + 0 < f[a + 1]
    <3>1. ASSUME a < Len(sent) PROVE base + 0 < f[a + 1]
      <4>1. a + 1 \in 1..Len(sent) /\ (a + 1) - 1 = a
        BY <2>3, <2>4, <3>1
      <4>2. f[a + 1] = f[a] + Len(Kinds(sent[a + 1])) /\ Len(Kinds(sent[a + 1])) >= 3
            /\ Len(Kinds(sent[a + 1])) \in Nat
        BY <2>3, <4>1, OffsetsTyped
      <4>3. QED
        BY <1>5, <2>2, <2>3, <4>2
    <3>2. QED
      BY <3>1
  <2>6. Len(buffer) = 0
    BY <1>5
  <2>7. QED
    BY <1>1, <1>2, <1>5, <2>1, <2>2, <2>5, <2>6, ParseStops
<1>6. QED
  BY <1>2, <1>3, <1>4, <1>5 DEF Collecting

\* The handlers are called in the order of the requests.
LEMMA DispatchKeeps ==
  ASSUME Sane, Numbered, HandledWhole, NEW f, NEW base, At(f, base), Dispatch
  PROVE  Fine'
<1>1. /\ pc = "dispatch" /\ parsed # <<>> /\ parsed' = Tail(parsed)
      /\ UNCHANGED <<sent, eof, wire, pc, buffer>>
  BY DEF Dispatch, client
<1>2. Lined(f, base) /\ Collecting(f, base)
  BY <1>1 DEF At, Streaming, Served
<1>3. base = f[Taken] /\ Taken <= Len(sent)
  BY <1>1, <1>2 DEF Collecting, Midway
<1>4. PICK c : c = Len(answers)
  OBVIOUS
<1>5. PICK k : k = Len(parsed)
  OBVIOUS
<1>6. PICK r : r = Head(parsed)
  OBVIOUS
<1>7. /\ r = parsed[1] /\ k \in Nat /\ 1 \in 1..k /\ Len(parsed') = k - 1 /\ k - 1 \in Nat
      /\ \A j \in 1..k - 1 : parsed'[j] = parsed[j + 1]
  <2> DEFINE R == [of : 1..MaxRequests, body : Seq(Piece)]
  <2>1. parsed \in Seq(R)
    BY DEF Sane, TypeOK
  <2> HIDE DEF R
  <2>2. QED
    BY <1>1, <1>5, <1>6, <2>1
<1>8. \A j \in 1..k : parsed[j].of = c + j /\ parsed[j].body = WholeBody(sent, c + j)
  BY <1>2, <1>3, <1>4, <1>5 DEF Collecting
<1>9. c \in Nat /\ Len(sent) \in Nat /\ Taken = c + k
  BY <1>4, <1>5 DEF Sane, TypeOK, Taken
<1>10. r.of = c + 1 /\ r.body = WholeBody(sent, c + 1) /\ c + 1 \in 1..Len(sent)
  BY <1>3, <1>7, <1>8, <1>9
<1>11. answers' = Append(answers, c + 1) /\ (handled' = handled \/ handled' = Append(handled, Whole(r)))
  BY <1>6, <1>10 DEF Dispatch, Answer
<1>12. Proper(Whole(r), sent)
  BY <1>10 DEF Proper, Whole
<1>13. HandledWhole'
  BY <1>1, <1>11, <1>12, HandledStep
<1>14. Numbered'
  BY <1>1, <1>4, <1>9, <1>11, NumberedStep
<1>15. Len(answers') = c + 1
  <2>1. answers \in Seq(Nat)
    <3>1. answers \in Seq(0..MaxRequests) /\ 0..MaxRequests \subseteq Nat
      BY DEF Sane, TypeOK
    <3>2. QED
      BY <3>1, SeqMonotonic
  <2>2. QED
    BY <1>4, <1>9, <1>11, <2>1
<1>16. \A j \in 1..k - 1 : /\ parsed'[j].of = (c + 1) + j
                           /\ parsed'[j].body = WholeBody(sent, (c + 1) + j)
  <2>1. \A j \in 1..k - 1 : j + 1 \in 1..k /\ c + (j + 1) = (c + 1) + j
    BY <1>7, <1>9
  <2>2. QED
    BY <1>7, <1>8, <2>1
<1>17. Taken' = Taken
  BY <1>7, <1>9, <1>15 DEF Taken
<1>18. Lined(f, base)'
  BY <1>1, <1>2 DEF Lined
<1>19. Collecting(f, base)'
  <2>1. pc' = "dispatch" /\ Taken' <= Len(sent') /\ base = f[Taken'] /\ sent' = sent
    BY <1>1, <1>3, <1>17
  <2>2. \A j \in 1..Len(parsed') : /\ parsed'[j].of = Len(answers') + j
                                   /\ parsed'[j].body = WholeBody(sent', Len(answers') + j)
    BY <1>7, <1>15, <1>16, <2>1
  <2>3. Taken' < Len(sent') => base + Len(buffer') < f[Taken' + 1]
    BY <1>1, <1>2, <1>17 DEF Collecting
  <2>4. QED
    BY <2>1, <2>2, <2>3, Zenon DEF Collecting
<1>20. QED
  BY <1>13, <1>14, <1>18, <1>19 DEF Fine, Running, At

LEMMA UpgradeKeeps ==
  ASSUME Sane, Numbered, HandledWhole, NEW f, NEW base, At(f, base), Upgrade
  PROVE  Fine'
<1>1. /\ pc = "dispatch" /\ parsed # <<>> /\ pc' = "websocket" /\ sent' = sent /\ handled' = handled
      /\ answers' = Append(answers, parsed[1].of)
  BY DEF Upgrade, client, Answer
<1>2. Collecting(f, base)
  BY <1>1 DEF At, Streaming, Served
<1>3. 1 \in 1..Len(parsed)
  <2> DEFINE R == [of : 1..MaxRequests, body : Seq(Piece)]
  <2>1. parsed \in Seq(R)
    BY DEF Sane, TypeOK
  <2> HIDE DEF R
  <2>2. QED
    BY <1>1, <2>1
<1>4. parsed[1].of = Len(answers) + 1
  BY <1>2, <1>3 DEF Collecting
<1>5. Numbered'
  BY <1>1, <1>4, NumberedStep
<1>6. HandledWhole'
  BY <1>1, HandledStep
<1>7. QED
  BY <1>1, <1>5, <1>6 DEF Fine

LEMMA IdleKeeps ==
  ASSUME Sane, Numbered, HandledWhole, NEW f, NEW base, At(f, base),
         DispatchEnds \/ ReadEnds \/ ReadTimeout
  PROVE  Fine'
<1>1. HandledWhole'
  BY HandledStep DEF DispatchEnds, ReadEnds, ReadTimeout, client, history
<1>2. CASE DispatchEnds
  <2>1. /\ pc = "dispatch" /\ parsed = <<>> /\ pc' = "read"
        /\ UNCHANGED <<sent, eof, wire, buffer, parsed, answers>>
    BY <1>2 DEF DispatchEnds, client, history
  <2>2. Lined(f, base) /\ Collecting(f, base)
    BY <2>1 DEF At, Streaming, Served
  <2>3. Lined(f, base)'
    BY <2>1, <2>2 DEF Lined
  <2>4. base = f[Taken] /\ Taken <= Len(sent) /\ (Taken < Len(sent) => base + Len(buffer) < f[Taken + 1])
    BY <2>1, <2>2 DEF Collecting, Midway
  <2>5. Taken' = Taken
    BY <2>1 DEF Taken
  <2>6. \A j \in 1..Len(parsed') : FALSE
    BY <2>1
  <2>7. Collecting(f, base)'
    BY <2>1, <2>4, <2>5, <2>6 DEF Collecting
  <2>8. Numbered'
    BY <2>1, NumberedStep
  <2>9. QED
    BY <1>1, <2>3, <2>7, <2>8 DEF Fine, Running, At
<1>3. CASE ReadEnds
  <2>1. pc = "read" /\ pc' = "closed" /\ answers' = answers
    BY <1>3 DEF ReadEnds, Close, history
  <2>2. Numbered'
    BY <2>1, NumberedStep
  <2>3. QED
    BY <1>1, <2>1, <2>2 DEF Fine
<1>4. CASE ReadTimeout
  <2>1. pc = "read" /\ pc' = "closed" /\ answers' = Append(answers, 0)
    BY <1>4 DEF ReadTimeout, Close, Answer
  <2>2. Numbered'
    BY <2>1, NumberedStep
  <2>3. QED
    BY <1>1, <2>1, <2>2 DEF Fine
<1>5. QED
  BY <1>2, <1>3, <1>4

\* The bytes of a streamed body.
LEMMA StreamedBytes ==
  ASSUME Sane, NEW f, NEW base, Lined(f, base), Streaming(f, base)
  PROVE  LET length == sent[stream.of].length
         IN  /\ length \in Nat /\ stream.left \in Nat /\ stream.left <= length
             /\ stream.of \in 1..Len(sent) /\ sent[stream.of].kind # "chunked"
             /\ Len(wire) \in Nat
             /\ \A i \in 1..Len(wire) : i <= stream.left => wire[i] = Datum(stream.of)
<1>1. PICK n : n = stream.of
  OBVIOUS
<1>2. PICK length : length = sent[n].length
  OBVIOUS
<1>3. PICK left : left = stream.left
  OBVIOUS
<1>4. left \in Nat /\ Len(stream.channel) \in Nat
  <2>1. stream \in [of : 0..MaxRequests, left : Nat, channel : Seq(Seq(Piece)),
                    reader : {"none", "reads", "done"}, got : Seq(Piece)]
    BY DEF Sane, TypeOK
  <2>2. QED
    BY <1>3, <2>1
<1>5. /\ sent \in Seq(Shapes) /\ Len(sent) \in Nat /\ base \in Int /\ Offsets(f, sent)
      /\ wire \in Seq(BytesOf(sent)) /\ Len(wire) \in Nat
  BY LinedTyped
<1>6. n \in 1..Len(sent) /\ Streamed(sent[n]) /\ base = f[n] - left /\ buffer = <<>>
  <2>1. n <= Len(sent) /\ n = Len(answers) + 1 /\ Streamed(sent[n]) /\ base = f[n] - left /\ buffer = <<>>
    BY <1>1, <1>3 DEF Streaming
  <2>2. Len(answers) \in Nat
    BY DEF Sane, TypeOK
  <2>3. QED
    BY <1>5, <2>1, <2>2
<1>7. sent[n] \in Shapes /\ length \in Nat
  BY <1>2, <1>5, <1>6, KindsTyped
<1>8. sent[n].kind # "chunked"
  <2>1. length > 0
    <3>1. Threshold \in Nat
      BY LimitsAssumption
    <3>2. QED
      BY <1>2, <1>6, <1>7, <3>1 DEF Streamed
  <2>2. length = 0 \/ sent[n].kind = "length"
    BY <1>2, <1>7 DEF Shapes
  <2>3. QED
    BY <1>7, <2>1, <2>2
<1>9. left <= length
  <2>1. PICK k \in Nat : k = Len(stream.channel)
    BY <1>4
  <2>2. PICK g \in [0..k -> Nat] : g[k] + left = length
    BY <1>1, <1>2, <1>3, <2>1 DEF Streaming, Counted
  <2>3. k \in 0..k
    OBVIOUS
  <2>4. g[k] \in Nat
    BY <2>3
  <2>5. QED
    BY <1>4, <2>2, <2>4
<1>10. /\ f[n - 1] \in Int /\ f[n] \in Int /\ f[n] = f[n - 1] + (3 + length)
       /\ \A i \in 4..3 + length : Kinds(sent[n])[i] = "data"
  <2>1. f[n] = f[n - 1] + Len(Kinds(sent[n])) /\ n \in 0..Len(sent) /\ n - 1 \in 0..Len(sent)
    BY <1>5, <1>6, OffsetsTyped
  <2>2. f[n - 1] \in Int /\ f[n] \in Int
    BY <1>5, <2>1, OffsetsTyped
  <2>3. Len(Kinds(sent[n])) = 3 + length /\ \A i \in 4..3 + length : Kinds(sent[n])[i] = "data"
    BY <1>2, <1>7, <1>8, KindsTyped
  <2>4. QED
    BY <2>1, <2>2, <2>3
<1>11. Along(wire, base, f, sent)
  <2>1. Len(buffer) = 0 /\ base + 0 = base
    BY <1>5, <1>6
  <2>2. Along(wire, base + Len(buffer), f, sent)
    BY DEF Lined
  <2>3. QED
    BY <2>1, <2>2
<1>13. ASSUME NEW i \in 1..Len(wire), i <= left PROVE wire[i] = Datum(n)
  <2>1. PICK e : e = f[n]
    OBVIOUS
  <2>2. PICK g : g = f[n - 1]
    OBVIOUS
  <2>3. e \in Int /\ g \in Int /\ e = g + (3 + length) /\ base = e - left
    BY <1>6, <1>10, <2>1, <2>2
  <2>4. g < base + i /\ base + i <= e /\ (base + i) - g \in 4..3 + length
    BY <1>4, <1>5, <1>7, <1>9, <1>13, <2>3
  <2>5. wire[i] = [of |-> n, kind |-> Kinds(sent[n])[(base + i) - f[n - 1]]]
    <3>1. f[n - 1] < base + i /\ base + i <= f[n] /\ Along(wire, base, f, sent)
      BY <1>11, <2>1, <2>2, <2>4
    <3>2. n \in 1..Len(sent)
      BY <1>6
    <3>3. QED
      BY <1>5, <3>1, <3>2, AlongAt
  <2>6. PICK p : p = (base + i) - f[n - 1]
    OBVIOUS
  <2>7. p \in 4..3 + length
    BY <2>2, <2>4, <2>6
  <2>8. Kinds(sent[n])[p] = "data"
    BY <1>10, <2>7
  <2>9. QED
    BY <2>5, <2>6, <2>8 DEF Datum
<1>14. QED
  BY <1>1, <1>2, <1>3, <1>4, <1>5, <1>6, <1>7, <1>8, <1>9, <1>13

\* The channel of a streamed body, with its types.
LEMMA StreamTyped ==
  ASSUME Sane
  PROVE  /\ stream = [of |-> stream.of, left |-> stream.left, channel |-> stream.channel,
                      reader |-> stream.reader, got |-> stream.got]
         /\ stream.left \in Nat /\ stream.channel \in Seq(Seq(Piece)) /\ stream.got \in Seq(Piece)
BY DEF Sane, TypeOK

\* A step of a streamed body that answers nothing.
LEMMA StreamGoesOn ==
  ASSUME Sane, Numbered, HandledWhole, NEW f, NEW base, Lined(f, base), Streaming(f, base),
         NEW k \in Nat, k <= Len(wire), wire' = SubSeq(wire, k + 1, Len(wire)),
         NEW st, stream' = st, st.of = stream.of, st.left = stream.left - k,
         Counted(st, sent[stream.of].length),
         UNCHANGED <<sent, eof, pc, buffer, parsed, answers, handled>>
  PROVE  Fine'
<1>1. /\ base \in Int /\ wire \in Seq(BytesOf(sent)) /\ Len(wire) \in Nat /\ Offsets(f, sent)
      /\ sent \in Seq(Shapes) /\ Len(sent) \in Nat /\ Len(answers) \in Nat
  <2>1. Len(answers) \in Nat
    BY DEF Sane, TypeOK
  <2>2. QED
    BY <2>1, LinedTyped
<1>2. /\ pc = "stream" /\ buffer = <<>> /\ parsed = <<>> /\ base = f[stream.of] - stream.left
      /\ stream.of = Len(answers) + 1 /\ stream.of <= Len(sent) /\ Streamed(sent[stream.of])
  BY DEF Streaming
<1>3. Len(buffer) = 0 /\ Len(buffer') = 0 /\ buffer' = <<>> /\ base + 0 = base
  BY <1>1, <1>2
<1>4. Along(wire, base, f, sent)
  <2>1. Along(wire, base + Len(buffer), f, sent)
    BY DEF Lined
  <2>2. QED
    BY <1>3, <2>1
<1>5. PICK rest : rest = wire'
  OBVIOUS
<1>6. Len(rest) = Len(wire) - k /\ Along(rest, base + k, f, sent)
  <2>1. k \in 0..Len(wire)
    BY <1>1
  <2>2. QED
    BY <1>1, <1>4, <1>5, <2>1, RestAlong
<1>7. PICK to \in Int : to = base + k
  BY <1>1
<1>8. to + 0 = to /\ to + 0 + Len(rest) = base + 0 + Len(wire)
  BY <1>1, <1>6, <1>7
<1>9. Lined(f, to)'
  <2>1. Along(buffer', to, f, sent) /\ EndsWell(buffer')
    BY <1>3 DEF Along, EndsWell
  <2>2. Along(wire', to + Len(buffer'), f, sent)
    BY <1>3, <1>5, <1>6, <1>7, <1>8
  <2>3. to + Len(buffer') + Len(wire') = base + Len(buffer) + Len(wire)
    BY <1>3, <1>5, <1>8
  <2>4. QED
    BY <2>1, <2>2, <2>3, LinedStays
<1>10. to = f[stream.of] - st.left
  <2>1. PICK e : e = f[stream.of]
    OBVIOUS
  <2>2. stream.of \in 0..Len(sent)
    BY <1>1, <1>2
  <2>3. e \in Int
    BY <1>1, <2>1, <2>2, OffsetsTyped
  <2>4. stream.left \in Nat
    BY StreamTyped
  <2>5. QED
    BY <1>1, <1>2, <1>7, <2>1, <2>3, <2>4, SMTT(30)
<1>11. Streaming(f, to)'
  BY <1>2, <1>3, <1>10, Zenon DEF Streaming
<1>12. Numbered' /\ HandledWhole'
  BY <1>2, NumberedStep, HandledStep
<1>13. QED
  BY <1>9, <1>11, <1>12 DEF Fine, Running, At

LEMMA StreamKeeps ==
  ASSUME Sane, Numbered, HandledWhole, NEW f, NEW base, At(f, base),
         (\E n \in DOMAIN wire : StreamRead(n)) \/ StreamEnds \/ StreamCut \/ HandlerReceives
  PROVE  strayed' \/ Fine'
<1>1. pc = "stream" /\ UNCHANGED <<sent, eof, pc, buffer, parsed, answers, handled>>
  BY DEF StreamRead, StreamEnds, StreamCut, HandlerReceives, client, history
<1>2. Lined(f, base) /\ Streaming(f, base)
  BY <1>1 DEF At, Collecting, Served
<1>3. PICK length : length = sent[stream.of].length
  OBVIOUS
<1>4. PICK st : st = stream
  OBVIOUS
<1>5. /\ st = [of |-> st.of, left |-> st.left, channel |-> st.channel, reader |-> st.reader, got |-> st.got]
      /\ st.left \in Nat /\ st.channel \in Seq(Seq(Piece)) /\ st.got \in Seq(Piece)
  BY <1>4, StreamTyped
<1>6. /\ length \in Nat /\ Len(wire) \in Nat
      /\ \A i \in 1..Len(wire) : i <= st.left => wire[i] = Datum(st.of)
  BY <1>2, <1>3, <1>4, StreamedBytes
<1>7. Counted(st, length)
  BY <1>2, <1>3, <1>4 DEF Streaming
<1>8. wire \in Seq(Piece)
  BY DEF Sane, TypeOK
<1>9. ASSUME NEW n \in DOMAIN wire, StreamRead(n)
      PROVE  strayed' \/ Fine'
  <2>1. /\ n \in 1..Len(wire) /\ wire' = SubSeq(wire, n + 1, Len(wire))
        /\ strayed' = (strayed \/ n > st.left)
    BY <1>4, <1>9 DEF StreamRead
  <2>12. SUFFICES ASSUME ~(n > st.left) PROVE Fine'
    BY <2>1
  <2>2. n \in Nat /\ n <= Len(wire) /\ n <= st.left /\ 0 <= n
    BY <1>5, <1>6, <2>1, <2>12
  <2>3. (IF n < st.left THEN n ELSE st.left) = n
    BY <1>5, <2>2
  <2>4. PICK d : d = SubSeq(wire, 0 + 1, n)
    OBVIOUS
  <2>5. d \in Seq(Piece) /\ Len(d) = n /\ \A i \in 1..Len(d) : d[i] = wire[0 + i]
    <3>1. Len(d) = (IF 0 <= n THEN n - 0 ELSE 0) /\ d \in Seq(Piece) /\ \A i \in 1..Len(d) : d[i] = wire[0 + i]
      BY <1>6, <1>8, <2>2, <2>4, Part
    <3>2. QED
      BY <2>2, <3>1
  <2>6. PICK new : new = stream'
    OBVIOUS
  <2>7. new = [st EXCEPT !.left = @ - n, !.channel = Append(@, d)]
    <3>1. 0 + 1 = 1
      OBVIOUS
    <3>2. stream' = [st EXCEPT !.left = @ - (IF n < st.left THEN n ELSE st.left),
                               !.channel = Append(@, SubSeq(wire, 1, IF n < st.left THEN n ELSE st.left))]
      BY <1>4, <1>9, Zenon DEF StreamRead
    <3>3. QED
      BY <2>3, <2>4, <2>6, <3>1, <3>2
  <2>8. new.of = st.of /\ new.got = st.got /\ new.left = st.left - n /\ new.channel = Append(st.channel, d)
    BY <1>5, <2>7
  <2>9. \A i \in 1..Len(d) : d[i] = Datum(st.of)
    <3>1. ASSUME NEW i \in 1..Len(d) PROVE d[i] = Datum(st.of)
      <4>1. 0 + i \in 1..Len(wire) /\ 0 + i <= st.left
        BY <1>5, <1>6, <2>2, <2>5
      <4>2. QED
        BY <1>6, <2>5, <4>1
    <3>2. QED
      BY <3>1
  <2>10. Counted(new, length)
    BY <1>5, <1>6, <1>7, <2>2, <2>5, <2>8, <2>9, CountedMore
  <2>11. QED
    BY <1>1, <1>2, <1>3, <1>4, <2>1, <2>2, <2>6, <2>8, <2>10, StreamGoesOn
<1>10. ASSUME NEW new, stream' = new, wire' = wire, new.of = st.of, new.left = st.left, Counted(new, length)
       PROVE  Fine'
  <2>1. 0 \in Nat /\ 0 <= Len(wire) /\ new.left = st.left - 0
    BY <1>5, <1>6, <1>10
  <2>2. wire' = SubSeq(wire, 0 + 1, Len(wire))
    BY <1>8, <1>10
  <2>3. QED
    BY <1>1, <1>2, <1>3, <1>4, <1>10, <2>1, <2>2, StreamGoesOn
<1>11. CASE StreamEnds \/ StreamCut
  <2>1. PICK new : new = stream'
    OBVIOUS
  <2>2. new = [st EXCEPT !.reader = "done"] /\ wire' = wire
    BY <1>4, <1>11, <2>1 DEF StreamEnds, StreamCut
  <2>3. new.of = st.of /\ new.got = st.got /\ new.left = st.left /\ new.channel = st.channel
    BY <1>5, <2>2
  <2>4. Counted(new, length)
    BY <1>7, <2>3, Zenon, ZenonT(30) DEF Counted
  <2>5. QED
    BY <1>10, <2>1, <2>2, <2>3, <2>4
<1>12. CASE HandlerReceives
  <2>1. PICK new : new = stream'
    OBVIOUS
  <2>2. /\ new = [st EXCEPT !.channel = Tail(@), !.got = @ \o Head(st.channel)]
        /\ wire' = wire /\ st.channel # <<>>
    BY <1>4, <1>12, <2>1 DEF HandlerReceives
  <2>3. /\ new.of = st.of /\ new.got = st.got \o Head(st.channel) /\ new.left = st.left
        /\ new.channel = Tail(st.channel)
    BY <1>5, <2>2
  <2>4. Counted(new, length)
    BY <1>5, <1>6, <1>7, <2>2, <2>3, CountedTaken
  <2>5. QED
    BY <1>10, <2>1, <2>2, <2>3, <2>4
<1>13. QED
  BY <1>9, <1>11, <1>12

\* The handler of a streamed request answers.
LEMMA AnswerKeeps ==
  ASSUME Sane, Numbered, HandledWhole, NEW f, NEW base, At(f, base), HandlerAnswers
  PROVE  Fine'
<1>1. /\ pc = "stream" /\ pc' = "answered" /\ answers' = Append(answers, stream.of)
      /\ handled' = Append(handled, [of |-> stream.of, body |-> stream.got,
                                     whole |-> stream.left = 0 /\ stream.channel = <<>>])
      /\ UNCHANGED <<sent, eof, wire, buffer, parsed, stream>>
  BY DEF HandlerAnswers, client, Answer
<1>2. Lined(f, base) /\ Streaming(f, base)
  BY <1>1 DEF At, Collecting, Served
<1>3. /\ buffer = <<>> /\ parsed = <<>> /\ stream.of = Len(answers) + 1 /\ stream.of <= Len(sent)
      /\ base = f[stream.of] - stream.left /\ Counted(stream, sent[stream.of].length)
  BY <1>2 DEF Streaming
<1>4. /\ stream.left \in Nat /\ stream.of \in 1..Len(sent) /\ sent[stream.of].kind # "chunked"
      /\ stream.channel \in Seq(Seq(Piece)) /\ stream.got \in Seq(Piece)
  BY <1>2, StreamedBytes, StreamTyped
<1>5. sent \in Seq(Shapes) /\ answers \in Seq(Nat) /\ Len(answers) \in Nat /\ Len(sent) \in Nat
  <2>1. answers \in Seq(0..MaxRequests) /\ 0..MaxRequests \subseteq Nat /\ sent \in Seq(Shapes)
    BY DEF Sane, TypeOK
  <2>2. answers \in Seq(Nat)
    BY <2>1, SeqMonotonic
  <2>3. QED
    BY <2>1, <2>2
<1>6. PICK h : h = [of |-> stream.of, body |-> stream.got, whole |-> stream.left = 0 /\ stream.channel = <<>>]
  OBVIOUS
<1>7. Proper(h, sent)
  BY <1>3, <1>4, <1>5, <1>6, CountedProper
<1>8. HandledWhole'
  BY <1>1, <1>6, <1>7, HandledStep
<1>9. Numbered'
  BY <1>1, <1>3, <1>5, NumberedStep
<1>10. Len(answers') = stream.of
  BY <1>1, <1>3, <1>5
<1>11. Lined(f, base)'
  BY <1>1, <1>2 DEF Lined
<1>12. Served(f, base)'
  BY <1>1, <1>3, <1>5, <1>10 DEF Served
<1>13. QED
  BY <1>8, <1>9, <1>11, <1>12 DEF Fine, Running, At

\* What is left of its body is read and dropped, or stays in the stream.
LEMMA ServedKeeps ==
  ASSUME Sane, Numbered, HandledWhole, NEW f, NEW base, At(f, base),
         StreamDropped \/ StreamJoined
  PROVE  strayed' \/ Fine'
<1>1. pc = "answered" /\ UNCHANGED <<sent, eof, buffer, parsed, answers, handled>>
  BY DEF StreamDropped, StreamJoined, client
<1>2. Lined(f, base) /\ Served(f, base)
  BY <1>1 DEF At, Collecting, Streaming
<1>3. PICK a : a = stream.of
  OBVIOUS
<1>4. PICK left : left = stream.left
  OBVIOUS
<1>5. /\ buffer = <<>> /\ parsed = <<>> /\ a = Len(answers) /\ a <= Len(sent) /\ base = f[a] - left
  BY <1>2, <1>3, <1>4 DEF Served
<1>6. /\ base \in Int /\ wire \in Seq(BytesOf(sent)) /\ Len(wire) \in Nat /\ Offsets(f, sent)
      /\ sent \in Seq(Shapes) /\ Len(sent) \in Nat /\ a \in Nat /\ left \in Nat /\ f[a] \in Int
      /\ a \in 0..Len(sent)
  <2>1. a \in Nat /\ left \in Nat
    BY <1>4, <1>5, StreamTyped DEF Sane, TypeOK
  <2>2. a \in 0..Len(sent)
    BY <1>2, <1>5, <2>1, LinedTyped
  <2>3. QED
    BY <1>2, <2>1, <2>2, LinedTyped
<1>7. Numbered' /\ HandledWhole'
  BY <1>1, NumberedStep, HandledStep
<1>8. Len(buffer) = 0 /\ Len(buffer') = 0 /\ buffer' = <<>> /\ base + 0 = base
  BY <1>1, <1>5, <1>6
<1>9. CASE StreamDropped
  <2>1. PICK n \in 0..Len(wire) :
          /\ wire' = SubSeq(wire, n + 1, Len(wire))
          /\ stream' = [stream EXCEPT !.reader = "done", !.left = IF n < @ THEN @ - n ELSE 0]
          /\ strayed' = (strayed \/ n > stream.left)
    BY <1>9 DEF StreamDropped
  <2>2. CASE n > left
    BY <1>4, <2>1, <2>2
  <2>3. CASE ~(n > left)
    <3>1. n \in Nat /\ n <= left
      BY <1>6, <2>3
    <3>2. stream'.of = a /\ stream'.left = (IF n < left THEN left - n ELSE 0)
      BY <1>3, <1>4, <2>1, StreamTyped
    <3>3. stream'.left = left - n
      BY <1>6, <3>1, <3>2
    <3>4. Along(wire, base, f, sent)
      <4>1. Along(wire, base + Len(buffer), f, sent)
        BY <1>2 DEF Lined
      <4>2. QED
        BY <1>8, <4>1
    <3>5. PICK rest : rest = wire'
      OBVIOUS
    <3>6. Len(rest) = Len(wire) - n /\ Along(rest, base + n, f, sent)
      BY <1>6, <2>1, <3>4, <3>5, RestAlong
    <3>7. PICK to \in Int : to = base + n
      BY <1>6
    <3>8. to + 0 = to /\ to + 0 + Len(rest) = base + 0 + Len(wire) /\ to = f[a] - (left - n)
      <4>1. PICK e : e = f[a]
        OBVIOUS
      <4>2. e \in Int /\ base = e - left
        BY <1>5, <1>6, <4>1
      <4>3. to = e - (left - n)
        BY <1>6, <3>1, <3>7, <4>2
      <4>4. to + 0 = to /\ to + 0 + Len(rest) = base + 0 + Len(wire)
        BY <1>6, <3>1, <3>6, <3>7
      <4>5. QED
        BY <4>1, <4>3, <4>4
    <3>9. Lined(f, to)'
      <4>1. Along(buffer', to, f, sent) /\ EndsWell(buffer')
        BY <1>8 DEF Along, EndsWell
      <4>2. Along(wire', to + Len(buffer'), f, sent)
        BY <1>8, <3>5, <3>6, <3>7, <3>8
      <4>3. to + Len(buffer') + Len(wire') = base + Len(buffer) + Len(wire)
        BY <1>8, <3>5, <3>8
      <4>4. QED
        BY <1>1, <1>2, <4>1, <4>2, <4>3, LinedStays
    <3>10. pc' = pc
      BY <1>9 DEF StreamDropped
    <3>11. Served(f, to)'
      BY <1>1, <1>5, <1>8, <3>2, <3>3, <3>8, <3>10 DEF Served
    <3>12. QED
      BY <1>7, <3>9, <3>11 DEF Fine, Running, At
  <2>4. QED
    BY <2>2, <2>3
<1>10. CASE StreamJoined
  <2>1. pc' = "read" /\ wire' = wire /\ strayed' = (strayed \/ left > 0)
    BY <1>4, <1>10 DEF StreamJoined
  <2>2. CASE left > 0
    BY <2>1, <2>2
  <2>3. CASE ~(left > 0)
    <3>1. left = 0 /\ base = f[a]
      BY <1>5, <1>6, <2>3
    <3>2. Lined(f, base)'
      BY <1>1, <1>2, <2>1 DEF Lined
    <3>3. Taken' = a
      <4>1. Len(parsed') = 0 /\ Len(answers') = a
        BY <1>1, <1>5
      <4>2. QED
        BY <1>6, <4>1 DEF Taken
    <3>4. a < Len(sent) => base + 0 < f[a + 1]
      <4>1. ASSUME a < Len(sent) PROVE base + 0 < f[a + 1]
        <5>1. a + 1 \in 1..Len(sent) /\ (a + 1) - 1 = a
          BY <1>6, <4>1
        <5>2. f[a + 1] = f[a] + Len(Kinds(sent[a + 1])) /\ Len(Kinds(sent[a + 1])) >= 3
              /\ Len(Kinds(sent[a + 1])) \in Nat
          BY <1>6, <5>1, OffsetsTyped
        <5>3. QED
          BY <1>6, <3>1, <5>2
      <4>2. QED
        BY <4>1
    <3>5. Collecting(f, base)'
      <4>1. Taken' <= Len(sent') /\ base = f[Taken'] /\ pc' = "read" /\ parsed' = <<>>
            /\ (Taken' < Len(sent') => base + Len(buffer') < f[Taken' + 1])
        BY <1>1, <1>5, <1>8, <2>1, <3>1, <3>3, <3>4
      <4>2. \A j \in 1..Len(parsed') : FALSE
        BY <4>1
      <4>3. QED
        BY <4>1, <4>2 DEF Collecting
    <3>6. QED
      BY <1>7, <3>2, <3>5 DEF Fine, Running, At
  <2>4. QED
    BY <2>2, <2>3
<1>11. QED
  BY <1>9, <1>10

-----------------------------------------------------------------------------
(* The steps of the client.                                                *)

LEMMA SendKeeps ==
  ASSUME Sane, Fine, NEW shape \in Shapes, Send(shape)
  PROVE  Fine'
<1>1. /\ ~eof /\ sent' = Append(sent, shape)
      /\ wire' = wire \o Pieces(Len(sent) + 1, Kinds(shape))
      /\ UNCHANGED <<eof, pc, buffer, parsed, chunked, stream, answers, handled, strayed>>
  BY DEF Send, history
<1>2. Numbered'
  BY <1>1 DEF Fine, Numbered
<1>3. HandledWhole'
  BY <1>1, HandledSend DEF Fine
<1>4. CASE pc \in {"closed", "websocket"}
  BY <1>1, <1>2, <1>3, <1>4 DEF Fine
<1>5. CASE Running
  <2>1. PICK f, base : At(f, base)
    BY <1>5 DEF Running
  <2>2. Lined(f, base)
    BY <2>1 DEF At
  <2>3. /\ sent \in Seq(Shapes) /\ Len(sent) \in Nat /\ base \in Int /\ Offsets(f, sent)
        /\ wire \in Seq(BytesOf(sent)) /\ Len(wire) \in Nat /\ f[Len(sent)] \in Int
        /\ buffer \in Seq(BytesOf(sent)) /\ Len(buffer) \in Nat
    BY <2>2, LinedTyped
  <2>4. PICK k : k = Len(sent)
    OBVIOUS
  <2>5. /\ Len(sent') = k + 1 /\ k \in Nat /\ sent'[k + 1] = shape /\ sent' \in Seq(Shapes)
        /\ \A n \in 1..k : sent'[n] = sent[n] /\ WholeBody(sent', n) = WholeBody(sent, n)
    <3>1. sent' \in Seq(Shapes)
      BY <1>1, <2>3
    <3>2. QED
      BY <1>1, <2>4, <3>1, SentGrows
  <2>6. PICK g : /\ Offsets(g, sent') /\ \A n \in 0..k : g[n] = f[n]
                 /\ g[k + 1] = f[k] + Len(Kinds(shape))
                 /\ \A T, x : \A q \in Seq(T) : Along(q, x, f, sent) => Along(q, x, g, sent')
    BY <1>1, <2>3, <2>4, AlongGrows
  <2>7. PICK new : new = Pieces(k + 1, Kinds(shape))
    OBVIOUS
  <2>8. /\ Len(new) = Len(Kinds(shape)) /\ Along(new, g[k], g, sent') /\ Len(new) >= 3
        /\ new[Len(new)].kind \in GoodEnds
    <3>1. k + 1 \in 1..Len(sent') /\ (k + 1) - 1 = k
      BY <2>5
    <3>2. QED
      BY <2>5, <2>6, <2>7, <3>1, PiecesAlong
  <2>9. /\ new \in Seq(BytesOf(sent')) /\ wire \in Seq(BytesOf(sent')) /\ Len(new) \in Nat
    <3>1. DOMAIN Kinds(shape) = 1..Len(Kinds(shape)) /\ Kinds(shape) \in Seq(PieceKinds) /\ Len(Kinds(shape)) \in Nat
      BY KindsTyped
    <3>2. k + 1 \in 1..Len(sent')
      BY <2>5
    <3>3. \A i \in 1..Len(Kinds(shape)) : [of |-> k + 1, kind |-> Kinds(shape)[i]] \in BytesOf(sent')
      BY <3>1, <3>2 DEF BytesOf
    <3>4. new = [i \in 1..Len(Kinds(shape)) |-> [of |-> k + 1, kind |-> Kinds(shape)[i]]]
      BY <2>7, <3>1 DEF Pieces
    <3>5. new \in Seq(BytesOf(sent'))
      BY <3>1, <3>3, <3>4
    <3>6. BytesOf(sent) \subseteq BytesOf(sent')
      <4>1. 1..Len(sent) \subseteq 1..Len(sent')
        BY <2>4, <2>5
      <4>2. QED
        BY <4>1 DEF BytesOf
    <3>7. wire \in Seq(BytesOf(sent'))
      BY <2>3, <3>6, SeqMonotonic
    <3>8. QED
      BY <2>8, <3>1, <3>5, <3>7
  <2>10. Lined(g, base)'
    <3>1. /\ Along(buffer, base, f, sent) /\ Along(wire, base + Len(buffer), f, sent)
          /\ EndsWell(buffer) /\ base + Len(buffer) + Len(wire) = f[k]
      BY <1>1, <2>2, <2>4 DEF Lined
    <3>2. Along(buffer, base, g, sent') /\ Along(wire, base + Len(buffer), g, sent')
      BY <2>3, <2>6, <3>1
    <3>3. PICK at \in Int : at = base + Len(buffer)
      BY <2>3
    <3>4. at + Len(wire) = g[k]
      <4>1. k \in 0..k
        BY <2>5
      <4>2. QED
        BY <2>6, <3>1, <3>3, <4>1
    <3>5. Along(wire \o new, at, g, sent') /\ Len(wire \o new) = Len(wire) + Len(new)
      BY <2>8, <2>9, <3>2, <3>3, <3>4, AlongJoin
    <3>6. wire' = wire \o new
      BY <1>1, <2>4, <2>7
    <3>7. at + Len(wire') = g[k + 1]
      <4>1. g[k + 1] = g[k] + Len(new) /\ g[k] \in Int
        <5>1. k \in 0..k
          BY <2>5
        <5>2. QED
          BY <2>3, <2>4, <2>6, <2>8, <5>1
      <4>2. QED
        BY <2>3, <2>9, <3>3, <3>4, <3>5, <3>6, <4>1
    <3>9. g[k + 1] \in Int /\ g[k + 1] <= g[k + 1]
      BY <2>3, <2>9, <3>3, <3>5, <3>6, <3>7
    <3>10. QED
      BY <1>1, <2>3, <2>5, <2>6, <3>1, <3>2, <3>3, <3>5, <3>6, <3>7, <3>9 DEF Lined
  <2>11. Len(answers) \in Nat /\ Len(parsed) \in Nat
    BY DEF Sane, TypeOK
  <2>12. Taken' = Taken /\ Taken \in Nat /\ Taken = Len(answers) + Len(parsed)
    BY <1>1, <2>11 DEF Taken
  <2>13. CASE Collecting(f, base)
    <3>1. PICK a : a = Taken
      OBVIOUS
    <3>2. a \in Nat /\ a <= k /\ a \in 0..k /\ g[a] = f[a]
      BY <2>4, <2>5, <2>6, <2>12, <2>13, <3>1 DEF Collecting
    <3>3. Midway(f, base) => Midway(g, base)'
      <4>1. ASSUME Midway(f, base) PROVE Midway(g, base)'
        <5>1. parsed # <<>> => Len(parsed) # 0
          <6>1. parsed \in Seq([of : 1..MaxRequests, body : Seq(Piece)])
            BY DEF Sane, TypeOK
          <6>2. QED
            BY <6>1
        <5>2. a \in 1..k
          BY <2>11, <2>12, <3>1, <3>2, <4>1, <5>1 DEF Midway
        <5>3. sent'[a].kind = sent[a].kind
          BY <2>5, <5>2
        <5>4. QED
          BY <1>1, <2>12, <3>1, <3>2, <4>1, <5>3 DEF Midway
      <4>2. QED
        BY <4>1
    <3>4. \A j \in 1..Len(parsed) : WholeBody(sent', Len(answers) + j) = WholeBody(sent, Len(answers) + j)
      <4>1. \A j \in 1..Len(parsed) : Len(answers) + j \in 1..k
        BY <2>5, <2>11, <2>12, <3>1, <3>2
      <4>2. QED
        BY <2>5, <4>1
    <3>5. ASSUME pc # "parse", a < k + 1 PROVE base + Len(buffer) < g[a + 1]
      <4>1. CASE a < k
        <5>1. a + 1 \in 0..k
          BY <2>5, <3>2, <4>1
        <5>2. base + Len(buffer) < f[a + 1]
          BY <2>4, <2>13, <3>1, <3>5, <4>1 DEF Collecting
        <5>3. QED
          BY <2>6, <5>1, <5>2
      <4>2. CASE ~(a < k)
        <5>1. a = k
          BY <2>5, <3>2, <4>2
        <5>2. base = f[k]
          BY <2>13, <3>1, <3>5, <5>1 DEF Collecting, Midway
        <5>3. base + Len(buffer) + Len(wire) <= base
          BY <2>2, <2>4, <5>2 DEF Lined
        <5>4. Len(buffer) = 0
          BY <2>3, <5>3
        <5>5. g[a + 1] = base + Len(new)
          BY <2>6, <2>8, <5>1, <5>2
        <5>6. QED
          BY <2>3, <2>8, <2>9, <5>4, <5>5
      <4>3. QED
        BY <4>1, <4>2
    <3>6. Collecting(g, base)'
      <4>1. pc' \in {"read", "parse", "dispatch"} /\ Taken' <= Len(sent')
        BY <1>1, <2>5, <2>12, <2>13, <3>1, <3>2 DEF Collecting
      <4>2. (base = f[a]) <=> (base = g[Taken'])
        BY <2>12, <3>1, <3>2
      <4>3. base = g[Taken'] \/ Midway(g, base)'
        BY <2>13, <3>1, <3>3, <4>2 DEF Collecting
      <4>4. \A j \in 1..Len(parsed) :
              /\ parsed[j].of = Len(answers) + j
              /\ (j = Len(parsed) => base = g[Taken']) => parsed[j].body = WholeBody(sent', Len(answers) + j)
        BY <2>13, <3>1, <3>4, <4>2 DEF Collecting
      <4>5. pc' = "read" => parsed' = <<>>
        BY <1>1, <2>13 DEF Collecting
      <4>6. pc' # "parse" /\ Taken' < Len(sent') => base + Len(buffer') < g[Taken' + 1]
        BY <1>1, <2>5, <2>12, <3>1, <3>5
      <4>7. QED
        BY <1>1, <4>1, <4>3, <4>4, <4>5, <4>6, Zenon DEF Collecting
    <3>7. QED
      BY <1>1, <1>2, <1>3, <2>10, <3>6 DEF Fine, Running, At
  <2>14. CASE Streaming(f, base)
    <3>1. PICK a : a = stream.of
      OBVIOUS
    <3>2. /\ pc = "stream" /\ buffer = <<>> /\ parsed = <<>> /\ a = Len(answers) + 1 /\ a <= k
          /\ Streamed(sent[a]) /\ base = f[a] - stream.left /\ Counted(stream, sent[a].length)
      BY <2>4, <2>14, <3>1 DEF Streaming
    <3>3. a \in 0..k /\ a \in 1..k /\ a <= k + 1
      BY <2>5, <2>11, <3>2
    <3>4. g[a] = f[a] /\ sent'[a] = sent[a]
      BY <2>5, <2>6, <3>3
    <3>5. Counted(stream, sent[a].length)'
      BY <1>1, <3>2, <3>4 DEF Counted
    <3>7. Streaming(g, base)'
      <4>1. stream' = stream /\ stream'.of = a /\ answers' = answers /\ pc' = pc /\ buffer' = buffer /\ parsed' = parsed
        BY <1>1, <3>1
      <4>2. a <= Len(sent') /\ base = g[a] - stream'.left /\ Streamed(sent'[a]) /\ Counted(stream', sent'[a].length)
        BY <2>5, <3>2, <3>3, <3>4, <4>1
      <4>3. QED
        BY <3>2, <4>1, <4>2, Zenon DEF Streaming
    <3>6. QED
      BY <1>1, <1>2, <1>3, <2>10, <3>7 DEF Fine, Running, At
  <2>15. CASE Served(f, base)
    <3>1. PICK a : a = stream.of
      OBVIOUS
    <3>2. a = Len(answers) /\ a <= k /\ base = f[a] - stream.left
      BY <2>4, <2>15, <3>1 DEF Served
    <3>3. a \in 0..k /\ a <= k + 1
      BY <2>5, <2>11, <3>2
    <3>4. g[a] = f[a]
      BY <2>6, <3>3
    <3>5. Served(g, base)'
      BY <1>1, <2>5, <2>15, <3>1, <3>2, <3>3, <3>4 DEF Served
    <3>6. QED
      BY <1>1, <1>2, <1>3, <2>10, <3>5 DEF Fine, Running, At
  <2>16. QED
    BY <2>1, <2>13, <2>14, <2>15 DEF At
<1>6. QED
  BY <1>4, <1>5 DEF Fine

\* The client hangs up, or the server is told to stop.
LEMMA ClientKeeps ==
  ASSUME Sane, Fine, HangUp \/ Shutdown
  PROVE  Fine'
<1>1. UNCHANGED <<sent, pc, buffer, parsed, chunked, stream, answers, handled>>
  BY DEF HangUp, Shutdown, client, history
<1>2. Numbered' /\ HandledWhole' /\ Taken' = Taken
  BY <1>1 DEF Fine, Numbered, HandledWhole, Taken
<1>3. CASE pc \in {"closed", "websocket"}
  BY <1>1, <1>2, <1>3 DEF Fine
<1>4. CASE Running
  <2>1. PICK f, base : At(f, base)
    BY <1>4 DEF Running
  <2>2. Lined(f, base)
    BY <2>1 DEF At
  <2>4. (Collecting(f, base) => Collecting(f, base)') /\ (Streaming(f, base) => Streaming(f, base)')
        /\ (Served(f, base) => Served(f, base)')
    <3>1. Midway(f, base)' = Midway(f, base)
      BY <1>1, <1>2 DEF Midway
    <3>2. Collecting(f, base) => Collecting(f, base)'
      BY <1>1, <1>2, <3>1 DEF Collecting
    <3>3. Streaming(f, base) => Streaming(f, base)'
      BY <1>1 DEF Streaming
    <3>4. Served(f, base) => Served(f, base)'
      BY <1>1 DEF Served
    <3>5. QED
      BY <3>2, <3>3, <3>4
  <2>5. Lined(f, base)'
    <3>1. CASE Shutdown
      BY <1>1, <2>2, <3>1 DEF Shutdown, client, Lined
    <3>2. CASE HangUp
      <4>1. PICK n \in 0..Len(wire) : eof' /\ wire' = SubSeq(wire, 1, n)
        BY <3>2 DEF HangUp
      <4>2. /\ sent \in Seq(Shapes) /\ base \in Int /\ wire \in Seq(BytesOf(sent)) /\ Len(wire) \in Nat
            /\ Len(buffer) \in Nat /\ Offsets(f, sent) /\ f[Len(sent)] \in Int
        BY <2>2, LinedTyped
      <4>3. /\ Along(buffer, base, f, sent) /\ Along(wire, base + Len(buffer), f, sent)
            /\ EndsWell(buffer) /\ base + Len(buffer) + Len(wire) <= f[Len(sent)]
        BY <2>2 DEF Lined
      <4>4. n \in 0..Len(wire) /\ n \in Nat /\ n <= Len(wire)
        BY <4>1, <4>2
      <4>5. PICK at \in Int : at = base + Len(buffer)
        BY <4>2
      <4>6. PICK part : part = SubSeq(wire, 0 + 1, n)
        OBVIOUS
      <4>7. Len(part) = n /\ \A i \in 1..Len(part) : part[i] = wire[0 + i]
        <5>1. Len(part) = (IF 0 <= n THEN n - 0 ELSE 0) /\ \A i \in 1..Len(part) : part[i] = wire[0 + i]
          BY <4>2, <4>4, <4>6, Part
        <5>2. QED
          BY <4>4, <5>1
      <4>8. Along(part, at + 0, f, sent)
        BY <4>2, <4>3, <4>4, <4>5, <4>6, AlongPart
      <4>10. wire' = part /\ at + 0 = at
        BY <4>1, <4>5, <4>6
      <4>11. at + Len(part) <= f[Len(sent)]
        BY <4>2, <4>3, <4>4, <4>5, <4>7
      <4>12. QED
        BY <1>1, <4>1, <4>2, <4>3, <4>5, <4>8, <4>10, <4>11 DEF Lined
    <3>3. QED
      BY <3>1, <3>2 DEF HangUp, Shutdown
  <2>6. QED
    BY <1>2, <2>1, <2>4, <2>5 DEF Fine, Running, At
<1>5. QED
  BY <1>3, <1>4 DEF Fine

-----------------------------------------------------------------------------
(* The invariant, and what follows from it.                                *)

LEMMA InPlaceInit == Init => InPlace
<1> SUFFICES ASSUME Init PROVE Fine
  BY DEF InPlace
<1>1. /\ sent = <<>> /\ wire = <<>> /\ ~eof /\ pc = "read" /\ buffer = <<>> /\ parsed = <<>>
      /\ answers = <<>> /\ handled = <<>>
  BY DEF Init
<1>2. Len(sent) = 0 /\ Len(wire) = 0 /\ Len(buffer) = 0 /\ Len(parsed) = 0 /\ Len(answers) = 0
      /\ Len(handled) = 0
  BY <1>1
<1>3. Numbered /\ HandledWhole
  BY <1>2 DEF Numbered, HandledWhole
<1> DEFINE f == [n \in 0..0 |-> 0]
<1>4. f \in [0..0 -> Int] /\ f[0] = 0 /\ \A n \in 0..0 : n = 0
  OBVIOUS
<1> HIDE DEF f
<1>5. Offsets(f, sent)
  <2>1. \A n \in 1..0 : FALSE
    OBVIOUS
  <2>2. QED
    BY <1>2, <1>4, <2>1 DEF Offsets
<1>6. Lined(f, 0)
  <2>1. Along(buffer, 0, f, sent) /\ Along(wire, 0 + Len(buffer), f, sent)
    BY <1>2 DEF Along
  <2>2. EndsWell(buffer)
    BY <1>1 DEF EndsWell
  <2>3. 0 + Len(buffer) + Len(wire) = f[Len(sent)] /\ 0 + Len(buffer) + Len(wire) <= f[Len(sent)] /\ 0 \in Int
    BY <1>2, <1>4
  <2>4. QED
    BY <1>5, <2>1, <2>2, <2>3 DEF Lined
<1>7. Collecting(f, 0)
  <2>1. Taken = 0
    BY <1>2 DEF Taken
  <2>2. \A j \in 1..Len(parsed) : FALSE
    BY <1>2
  <2>3. QED
    BY <1>1, <1>2, <1>4, <2>1, <2>2 DEF Collecting
<1>8. QED
  BY <1>3, <1>6, <1>7 DEF Fine, Running, At

\* An answer is out, or could not be written.
LEMMA WrittenKeeps ==
  ASSUME Fine, Written
  PROVE  Fine'
<1>1. /\ UNCHANGED <<sent, eof, wire, buffer, parsed, chunked, stream, answers, handled>>
      /\ pc' = pc \/ (pc = "websocket" /\ pc' = "closed")
  BY DEF Written, client, history
<1>2. Numbered' /\ HandledWhole' /\ Taken' = Taken
  BY <1>1 DEF Fine, Numbered, HandledWhole, Taken
<1>3. CASE pc \in {"closed", "websocket"}
  BY <1>1, <1>2, <1>3 DEF Fine
<1>4. ASSUME NEW f, NEW base, At(f, base), pc' = pc PROVE At(f, base)'
  <2>1. Lined(f, base)' = Lined(f, base) /\ Midway(f, base)' = Midway(f, base)
    BY <1>1, <1>2, <1>4 DEF Lined, Midway
  <2>2. Collecting(f, base) => Collecting(f, base)'
    BY <1>1, <1>2, <1>4, <2>1 DEF Collecting
  <2>3. (Streaming(f, base) => Streaming(f, base)') /\ (Served(f, base) => Served(f, base)')
    BY <1>1, <1>4 DEF Streaming, Served
  <2>4. QED
    BY <1>4, <2>1, <2>2, <2>3 DEF At
<1>5. QED
  BY <1>1, <1>2, <1>3, <1>4 DEF Fine, Running

\* Once the connection has lost its place, it does not find it again.
LEMMA StrayedStays ==
  ASSUME Next, strayed
  PROVE  strayed'
<1>1. CASE ParseNext
  <2>1. CASE UNCHANGED strayed
    BY <2>1
  <2>2. CASE buffer # <<>>
    <3>1. PICK p : p = Parse(buffer, chunked \/ ChunkedHeader(buffer))
      OBVIOUS
    <3>2. Refuse(p) \/ UNCHANGED strayed
      BY <1>1, <2>2, <3>1, Zenon DEF ParseNext
    <3>3. QED
      BY <3>2 DEF Refuse
  <2>3. QED
    BY <1>1, <2>1, <2>2, Zenon DEF ParseNext
<1>2. ASSUME NEW n \in DOMAIN wire, Read(n) PROVE strayed'
  BY <1>2 DEF Read, Overflow, StartStream, StartParse
<1>3. CASE \/ \E shape \in Shapes : Send(shape)
           \/ HangUp \/ Shutdown \/ ReadTimeout \/ Written \/ ReadEnds
  BY <1>3 DEF Send, HangUp, Shutdown, ReadTimeout, Written, ReadEnds, history
<1>4. CASE \/ Dispatch \/ Upgrade \/ DispatchEnds \/ StreamEnds \/ StreamCut
           \/ HandlerReceives \/ HandlerAnswers
  BY <1>4 DEF Dispatch, Upgrade, DispatchEnds, StreamEnds, StreamCut, HandlerReceives,
              HandlerAnswers, history
<1>5. CASE (\E n \in DOMAIN wire : StreamRead(n)) \/ StreamDropped \/ StreamJoined
  BY <1>5 DEF StreamRead, StreamDropped, StreamJoined
<1>6. QED
  BY <1>1, <1>2, <1>3, <1>4, <1>5 DEF Next, Server

LEMMA InPlaceNext ==
  ASSUME Sane, InPlace, [Next]_vars
  PROVE  InPlace'
<1>1. CASE strayed /\ Next
  BY <1>1, StrayedStays DEF InPlace
<1>2. CASE UNCHANGED vars
  <2>1. UNCHANGED <<sent, wire, eof, pc, buffer, parsed, chunked, stream, answers, handled, strayed>>
    BY <1>2 DEF vars, client, history
  <2>2. CASE strayed
    BY <2>1, <2>2 DEF InPlace
  <2>3. CASE Fine
    <3>1. Numbered' /\ HandledWhole' /\ Taken' = Taken
      BY <2>1, <2>3 DEF Fine, Numbered, HandledWhole, Taken
    <3>2. ASSUME NEW f, NEW base, At(f, base) PROVE At(f, base)'
      <4>1. Lined(f, base)' = Lined(f, base)
        BY <2>1 DEF Lined
      <4>2. Midway(f, base)' = Midway(f, base)
        BY <2>1, <3>1 DEF Midway
      <4>3. Collecting(f, base) => Collecting(f, base)'
        BY <2>1, <3>1, <4>2 DEF Collecting
      <4>4. (Streaming(f, base) => Streaming(f, base)') /\ (Served(f, base) => Served(f, base)')
        BY <2>1 DEF Streaming, Served
      <4>5. QED
        BY <3>2, <4>1, <4>3, <4>4 DEF At
    <3>3. QED
      BY <2>1, <2>3, <3>1, <3>2 DEF InPlace, Fine, Running
  <2>4. QED
    BY <2>2, <2>3 DEF InPlace
<1>3. CASE ~strayed /\ Next
  <2>1. Fine /\ Numbered /\ HandledWhole
    BY <1>3 DEF InPlace, Fine
  <2>2. CASE \E shape \in Shapes : Send(shape)
    BY <2>1, <2>2, SendKeeps DEF InPlace
  <2>3. CASE HangUp \/ Shutdown
    BY <2>1, <2>3, ClientKeeps DEF InPlace
  <2>4. CASE Server
    <3>1. pc \notin {"closed", "websocket"}
      BY <2>4 DEF Server, Read, ReadEnds, ParseNext, Dispatch, Upgrade, DispatchEnds,
                  StreamRead, StreamEnds, StreamCut, HandlerReceives, HandlerAnswers, StreamDropped, StreamJoined
    <3>2. \E f, base : At(f, base)
      BY <2>1, <3>1 DEF Fine, Running
    <3>3. PICK f, base : At(f, base)
      BY <3>2
    <3>4. CASE \E n \in DOMAIN wire : Read(n)
      BY <2>1, <3>3, <3>4, ReadKeeps DEF InPlace
    <3>5. CASE ReadEnds \/ DispatchEnds
      BY <2>1, <3>3, <3>5, IdleKeeps DEF InPlace
    <3>6. CASE ParseNext
      BY <2>1, <3>3, <3>6, ParseKeeps DEF InPlace
    <3>7. CASE Dispatch
      BY <2>1, <3>3, <3>7, DispatchKeeps DEF InPlace
    <3>8. CASE Upgrade
      BY <2>1, <3>3, <3>8, UpgradeKeeps DEF InPlace
    <3>9. CASE (\E n \in DOMAIN wire : StreamRead(n)) \/ StreamEnds \/ StreamCut \/ HandlerReceives
      BY <2>1, <3>3, <3>9, StreamKeeps DEF InPlace
    <3>10. CASE HandlerAnswers
      BY <2>1, <3>3, <3>10, AnswerKeeps DEF InPlace
    <3>11. CASE StreamDropped \/ StreamJoined
      BY <1>3, <2>1, <3>3, <3>11, ServedKeeps DEF InPlace
    <3>12. QED
      BY <2>4, <3>4, <3>5, <3>6, <3>7, <3>8, <3>9, <3>10, <3>11 DEF Server
  <2>6. CASE ReadTimeout
    <3>1. PICK f, base : At(f, base)
      BY <2>1, <2>6 DEF Fine, Running, ReadTimeout
    <3>2. QED
      BY <2>1, <2>6, <3>1, IdleKeeps DEF InPlace
  <2>7. CASE Written
    BY <2>1, <2>7, WrittenKeeps DEF InPlace
  <2>5. QED
    BY <1>3, <2>2, <2>3, <2>4, <2>6, <2>7 DEF Next
<1>4. QED
  BY <1>1, <1>2, <1>3

LEMMA AlwaysInPlace == Spec => [](Sane /\ InPlace)
<1>1. Init => Sane /\ InPlace
  BY SaneInit, InPlaceInit
<1>2. Sane /\ InPlace /\ [Next]_vars => (Sane /\ InPlace)'
  BY SaneNext, InPlaceNext
<1>3. QED
  BY <1>1, <1>2, PTL DEF Spec

\* For any requests, limits and reads: until the connection loses its place, the
\* answers are for the client's requests in their order, one for each, whatever it
\* pipelines, and a timeout's 408 is the last.
THEOREM AnswersInStep == Spec => []InStep
<1>1. Sane /\ InPlace => InStep
  <2>1. Sane => DOMAIN answers = 1..Len(answers)
    BY DEF Sane, TypeOK
  <2>2. QED
    BY <2>1 DEF InPlace, Fine, Numbered, InStep
<1>2. QED
  BY <1>1, AlwaysInPlace, PTL

\* And a handler is called with the whole body of its request and nothing of
\* another one; one that stops reading, or whose client does, has its beginning.
THEOREM BodiesWhole == Spec => []WholeBodies
<1>1. Sane /\ InPlace => WholeBodies
  <2>1. Sane => DOMAIN handled = 1..Len(handled)
    BY DEF Sane, TypeOK
  <2>2. QED
    BY <2>1 DEF InPlace, Fine, HandledWhole, WholeBodies, WholeBody
<1>2. QED
  BY <1>1, AlwaysInPlace, PTL

\* And the connection never waits for more bytes when all of a request is there
\* and it is not answered.
THEOREM NothingLeftOver == Spec => []NothingOwed
<1>1. ASSUME Sane, InPlace PROVE NothingOwed
  <2>1. SUFFICES ASSUME pc = "read", wire = <<>>, ~eof, ~strayed PROVE Len(answers) = Len(sent)
    BY DEF NothingOwed
  <2>2. PICK f, base : At(f, base)
    BY <1>1, <2>1 DEF InPlace, Fine, Running
  <2>3. PICK c : c = Len(answers)
    OBVIOUS
  <2>4. PICK k : k = Len(sent)
    OBVIOUS
  <2>5. /\ Lined(f, base) /\ c \in 0..k /\ c \in Nat /\ base = f[c] /\ f[c] \in Int
        /\ c < k => base + Len(buffer) < f[c + 1]
    BY <1>1, <2>1, <2>2, <2>3, <2>4, Reading
  <2>6. /\ sent \in Seq(Shapes) /\ k \in Nat /\ Offsets(f, sent) /\ Len(buffer) \in Nat
        /\ \A n \in 0..k : f[n] \in Int
    BY <1>1, <2>4, <2>5, LinedTyped
  <2>7. base + Len(buffer) + Len(wire) = f[k] /\ Len(wire) = 0
    BY <2>1, <2>4, <2>5 DEF Lined
  <2>8. ~(c < k)
    <3>1. SUFFICES ASSUME c < k PROVE FALSE
      OBVIOUS
    <3>2. c + 1 \in 0..k /\ k \in 0..k /\ c + 1 <= k
      BY <2>5, <2>6, <3>1
    <3>3. f[c + 1] <= f[k] /\ f[c + 1] \in Int /\ f[k] \in Int
      BY <2>4, <2>6, <3>2, OffsetsTyped
    <3>4. base + Len(buffer) < f[c + 1]
      BY <2>5, <3>1
    <3>5. QED
      BY <2>5, <2>6, <2>7, <3>3, <3>4
  <2>9. QED
    BY <2>3, <2>4, <2>5, <2>6, <2>8
<1>2. Sane /\ InPlace => NothingOwed
  BY <1>1
<1>3. QED
  BY <1>2, AlwaysInPlace, PTL

=============================================================================
