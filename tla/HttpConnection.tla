---------------------------- MODULE HttpConnection ----------------------------
(***************************************************************************)
(* One HTTP/1.1 connection: handle_h1_connection reads pieces of the byte  *)
(* stream into its buffer, parses what it can, calls the handlers and      *)
(* answers.  A large body is not buffered: a second task feeds it to the   *)
(* handler through a channel.                                              *)
(*                                                                         *)
(* The bytes of a request are cut into pieces where the parser cares:      *)
(*   line rest head          the request line, in two, and the headers     *)
(*   data ... data           a body of so many units with Content-Length   *)
(*   size tail zero end      a chunked body: a chunk in two, the last one  *)
(*                           in two; its headers are called announce       *)
(* A read may end between any two pieces.  Sometimes that, or what comes   *)
(* behind a request, makes the connection lose its place in the client's   *)
(* stream; the history variable strayed says when, and why.                *)
(*                                                                         *)
(* Source: engine/src/lib.rs:743-998, engine/src/core/request.rs.          *)
(***************************************************************************)
EXTENDS Naturals, Sequences, FiniteSets, SequencesExt

CONSTANTS
  Lengths,      \* the values of Content-Length
  Extras,       \* other kinds of requests: "chunked", "upgrade" (to WebSocket)
  MaxRequests,  \* bound: how many requests the client sends
  Threshold,    \* stream_threshold, 0 for none
  MaxBody,      \* the body limit of the route, or the global one
  MaxParse,     \* max_parser_body_size, the largest limit of any route
  MaxBuffer,    \* max_buffer_capacity
  ChannelCap    \* capacity of the body channel, 8 in the code

ASSUME LimitsAssumption ==
  /\ Lengths \subseteq Nat /\ Extras \subseteq {"chunked", "upgrade"}
  /\ {MaxRequests, ChannelCap} \subseteq Nat \ {0}
  /\ {Threshold, MaxBody, MaxParse, MaxBuffer} \subseteq Nat /\ MaxBody <= MaxParse

VARIABLES
  sent,      \* the requests the client has sent
  wire,      \* pieces on their way to the server
  eof,       \* whether the client has closed its side
  cancelled, \* the cancel token of the server's shutdown
  pc,        \* what the connection's task is at
  buffer,    \* bytes read and not yet parsed
  parsed,    \* current_requests
  chunked,   \* is_chunked
  stream,    \* the streamed request, its channel and the task that reads for it
  writing,   \* an answer is being written: write_all has not returned
  answers,   \* history: the number of the request that each answer is for
  handled,   \* history: request and body of each call of a handler
  strayed    \* history: whether it has lost its place in the client's stream

client == <<sent, eof>>
history == <<answers, handled, strayed>>
vars == <<client, wire, cancelled, pc, buffer, parsed, chunked, stream, writing, history>>

-----------------------------------------------------------------------------
(* Requests and their bytes                                                *)

Shapes == [kind : {"length"}, length : Lengths] \cup [kind : Extras, length : {0}]

Body(shape) == IF shape.kind = "chunked" THEN <<"size", "tail">>
               ELSE [i \in 1..shape.length |-> "data"]

Kinds(shape) == IF shape.kind = "chunked"
                THEN <<"line", "rest", "announce">> \o Body(shape) \o <<"zero", "end">>
                ELSE <<"line", "rest", "head">> \o Body(shape)

Pieces(n, kinds) == [i \in DOMAIN kinds |-> [of |-> n, kind |-> kinds[i]]]

Streamed(shape) == Threshold > 0 /\ Threshold < shape.length /\ shape.length <= MaxParse

Idle == [of |-> 0, left |-> 0, channel |-> <<>>, reader |-> "none", got |-> <<>>]

Init ==
  /\ sent = <<>> /\ wire = <<>> /\ eof = FALSE /\ cancelled = FALSE
  /\ pc = "read" /\ buffer = <<>> /\ parsed = <<>> /\ chunked = FALSE
  /\ stream = Idle /\ writing = FALSE
  /\ answers = <<>> /\ handled = <<>> /\ strayed = FALSE

\* The client sends what it likes when it likes, behind anything.
Send(shape) ==
  /\ ~eof /\ Len(sent) < MaxRequests
  /\ sent' = Append(sent, shape)
  /\ wire' = wire \o Pieces(Len(sent) + 1, Kinds(shape))
  /\ UNCHANGED <<eof, cancelled, pc, buffer, parsed, chunked, stream, writing, history>>

\* The client goes; what it had not sent yet is never sent.
HangUp ==
  /\ ~eof /\ eof' = TRUE
  /\ \E n \in 0..Len(wire) : wire' = SubSeq(wire, 1, n)
  /\ UNCHANGED <<sent, cancelled, pc, buffer, parsed, chunked, stream, writing, history>>

Shutdown ==
  /\ ~cancelled /\ cancelled' = TRUE
  /\ UNCHANGED <<client, wire, pc, buffer, parsed, chunked, stream, writing, history>>

-----------------------------------------------------------------------------
(* request.rs                                                              *)

\* The first line ends with the first piece that has a CRLF in it.
FirstLineEnd(b) == IF \E i \in DOMAIN b : b[i].kind \notin {"line", "data"}
                   THEN CHOOSE i \in DOMAIN b :
                          /\ b[i].kind \notin {"line", "data"}
                          /\ \A j \in 1..(i - 1) : b[j].kind \in {"line", "data"}
                   ELSE 0

HasRequestLine(b) == FirstLineEnd(b) > 0 /\ b[FirstLineEnd(b)].kind = "rest"

\* The pieces that end with an empty line.
Ends == {"head", "announce", "end"}

HeadEnd(b) == IF \E i \in DOMAIN b : b[i].kind \in Ends
              THEN CHOOSE i \in DOMAIN b :
                     /\ b[i].kind \in Ends
                     /\ \A j \in 1..(i - 1) : b[j].kind \notin Ends
              ELSE 0

Nothing == [result |-> "none", of |-> 0, body |-> <<>>, taken |-> 0]

Refused(b) == [Nothing EXCEPT !.result = "error", !.of = b[1].of]

\* parse_head for a buffer with a request line.  A request line without its
\* beginning has too few words.
HeadOf(b) == IF HeadEnd(b) = 0 THEN Nothing
             ELSE IF FirstLineEnd(b) = 1 \/ sent[b[HeadEnd(b)].of].length > MaxParse THEN Refused(b)
             ELSE [result |-> "request", of |-> b[HeadEnd(b)].of, body |-> <<>>,
                   taken |-> HeadEnd(b)]

\* parse_chunked_body takes whole chunks.  For the last one it takes the bytes
\* of the empty line as well, whether they are there or not.
ChunkedBody(b) ==
  LET whole == Max({n \in 0..Len(b) \div 2 : \A i \in 1..(2 * n) :
                      b[i].kind = IF i % 2 = 1 THEN "size" ELSE "tail"})
      last == 2 * whole < Len(b) /\ b[2 * whole + 1].kind = "zero"
  IN [result |-> "payload", of |-> 0, body |-> SubSeq(b, 1, 2 * whole),
      taken |-> 2 * whole + (IF last THEN 2 ELSE 0)]

\* parse_http_protocol
Parse(b, isChunk) ==
  IF ~HasRequestLine(b) THEN IF isChunk THEN ChunkedBody(b) ELSE Refused(b)
  ELSE LET head == HeadOf(b)
           end == head.taken + sent[head.of].length
       IN IF head.result # "request" THEN head
          ELSE IF Len(b) < end THEN Nothing
          ELSE [head EXCEPT !.body = SubSeq(b, head.taken + 1, end), !.taken = end]

\* The header "Transfer-Encoding: chunked" is anywhere in the buffer.
ChunkedHeader(b) == \E i \in DOMAIN b : b[i].kind = "announce"

ShouldStream(b) == /\ HasRequestLine(b) /\ HeadOf(b).result = "request"
                   /\ sent[HeadOf(b).of].kind # "chunked"
                   /\ Threshold > 0 /\ sent[HeadOf(b).of].length > Threshold

-----------------------------------------------------------------------------
(* handle_h1_connection                                                    *)

\* The answer is written before the task goes on, and while the client does not
\* read it is not: write_all has no timeout (response.rs:146).
Answer(n) == answers' = Append(answers, n) /\ writing' = TRUE

\* It is out, or has failed, which only the upgrade looks at.
Written ==
  /\ writing /\ writing' = FALSE
  /\ pc' = pc \/ (pc = "websocket" /\ pc' = "closed")
  /\ UNCHANGED <<client, wire, cancelled, buffer, parsed, chunked, stream, history>>

Close == pc' = "closed"

\* Mutation: what came with the head is lost.
NoFirstChunk(rest) == <<>>

\* The bytes of the body that came with the head are the first chunk.
FirstChunk(rest) == IF rest = <<>> THEN <<>> ELSE <<rest>>

\* Mutation: the bytes given to the handler stay in the buffer.
StartStreamKeeps(b) ==
  LET head == HeadOf(b)
      rest == SubSeq(b, head.taken + 1, Len(b))
      length == sent[head.of].length
  IN /\ pc' = "stream" /\ buffer' = b
     /\ stream' = [of |-> head.of,
                   left |-> IF Len(rest) < length THEN length - Len(rest) ELSE 0,
                   channel |-> FirstChunk(rest),
                   reader |-> "reads", got |-> <<>>]
     /\ strayed' = (strayed \/ Len(rest) > length)
     /\ UNCHANGED <<answers, writing, parsed, chunked>>

\* All that is in the buffer goes to the handler, what is behind the body too.
StartStream(b) ==
  LET head == HeadOf(b)
      rest == SubSeq(b, head.taken + 1, Len(b))
      length == sent[head.of].length
  IN /\ pc' = "stream" /\ buffer' = <<>>
     /\ stream' = [of |-> head.of,
                   left |-> IF Len(rest) < length THEN length - Len(rest) ELSE 0,
                   channel |-> FirstChunk(rest),
                   reader |-> "reads", got |-> <<>>]
     /\ strayed' = (strayed \/ Len(rest) > length)
     /\ UNCHANGED <<answers, writing, parsed, chunked>>

\* What the parser does not put together again when a read ends there: a request
\* line, and a chunked body, for which it does not wait.
Divides(piece) == piece.kind \in {"line", "announce", "size", "tail", "zero"}

\* Otherwise the buffer is parsed.
StartParse(b) ==
  /\ pc' = "parse" /\ buffer' = b /\ parsed' = <<>> /\ chunked' = ChunkedHeader(b)
  /\ strayed' = (strayed \/ Divides(Last(b)))
  /\ UNCHANGED <<answers, writing, stream>>

Overflow(b) ==
  /\ Close /\ buffer' = b /\ Answer(b[1].of)
  /\ UNCHANGED <<parsed, chunked, stream, strayed>>

Read(n) ==
  /\ pc = "read" /\ ~cancelled /\ n \in DOMAIN wire
  /\ wire' = SubSeq(wire, n + 1, Len(wire))
  /\ LET b == buffer \o SubSeq(wire, 1, n)
     IN IF Len(b) > MaxBuffer THEN Overflow(b)
        ELSE IF ShouldStream(b) THEN StartStream(b)
        ELSE StartParse(b)
  /\ UNCHANGED <<client, cancelled, handled>>

\* Mutation: the cancel token is not looked at.
ReadEndsLate ==
  /\ pc = "read" /\ eof /\ wire = <<>>
  /\ Close
  /\ UNCHANGED <<client, wire, cancelled, buffer, parsed, chunked, stream, writing, history>>

ReadEnds ==
  /\ pc = "read" /\ (cancelled \/ (eof /\ wire = <<>>))
  /\ Close
  /\ UNCHANGED <<client, wire, cancelled, buffer, parsed, chunked, stream, writing, history>>

\* idle_timeout or read_timeout: 408, for whatever the client has sent or not.
ReadTimeout ==
  /\ pc = "read" /\ ~cancelled
  /\ Close /\ Answer(0)
  /\ UNCHANGED <<client, wire, cancelled, buffer, parsed, chunked, stream, handled, strayed>>

-----------------------------------------------------------------------------
(* Buffered requests                                                       *)

\* resolve_route compares the limit with the buffered body.
TooLarge(r) == Len(r.body) > MaxBody

Whole(r) == [of |-> r.of, body |-> r.body, whole |-> TRUE]

\* The parser's refusal is answered at once, ahead of the requests parsed before
\* it, and the buffer is cleared: only a request that is alone and complete in it
\* is refused without harm to others.
Refuse(p) ==
  /\ pc' = "dispatch" /\ buffer' = <<>> /\ Answer(p.of)
  /\ strayed' = (strayed \/ parsed # <<>> \/ buffer # Pieces(p.of, Kinds(sent[p.of])))
  /\ UNCHANGED parsed

\* One turn of the loop.  It ends when the buffer is empty, the rest is not
\* complete, or an error was answered; draining more than there is panics.  A
\* payload of nothing is taken again and again: the task is at the loop for ever.
ParseNext ==
  /\ pc = "parse"
  /\ IF buffer = <<>>
     THEN pc' = "dispatch" /\ UNCHANGED <<buffer, parsed, chunked, answers, writing, strayed>>
     ELSE LET isChunk == chunked \/ ChunkedHeader(buffer)
              p == Parse(buffer, isChunk)
              take == buffer' = SubSeq(buffer, p.taken + 1, Len(buffer))
          IN /\ chunked' = isChunk
             /\ CASE p.result = "none" ->
                       pc' = "dispatch" /\ UNCHANGED <<buffer, parsed, answers, writing, strayed>>
                  [] p.result = "error" -> Refuse(p)
                  [] p.taken > Len(buffer) ->
                       pc' = "panicked" /\ UNCHANGED <<buffer, parsed, answers, writing, strayed>>
                  [] p.result = "request" ->
                       /\ take /\ parsed' = Append(parsed, [of |-> p.of, body |-> p.body])
                       /\ UNCHANGED <<pc, answers, writing, strayed>>
                  [] OTHER ->
                       /\ take
                       /\ parsed' = IF parsed = <<>> THEN parsed
                                    ELSE [parsed EXCEPT ![Len(parsed)].body = @ \o p.body]
                       /\ UNCHANGED <<pc, answers, writing, strayed>>
  /\ UNCHANGED <<client, wire, cancelled, stream, handled>>

\* Mutation: the last of the parsed requests is served first.
DispatchLast ==
  /\ pc = "dispatch" /\ ~writing /\ parsed # <<>>
  /\ LET r == Last(parsed)
     IN /\ sent[r.of].kind # "upgrade"
        /\ handled' = IF TooLarge(r) THEN handled ELSE Append(handled, Whole(r))
        /\ Answer(r.of)
  /\ parsed' = Front(parsed)
  /\ UNCHANGED <<client, wire, cancelled, pc, buffer, chunked, stream, strayed>>

\* dispatch_route of the first request: a body over the limit is refused, any
\* other is handled; then the answer is written.
Dispatch ==
  /\ pc = "dispatch" /\ ~writing /\ parsed # <<>>
  /\ LET r == Head(parsed)
     IN /\ sent[r.of].kind # "upgrade"
        /\ handled' = IF TooLarge(r) THEN handled ELSE Append(handled, Whole(r))
        /\ Answer(r.of)
  /\ parsed' = Tail(parsed)
  /\ UNCHANGED <<client, wire, cancelled, pc, buffer, chunked, stream, strayed>>

\* 101 is written, and the socket handed to handle_websocket_connection; whatever
\* was parsed or read behind the upgrade is gone.
Upgrade ==
  /\ pc = "dispatch" /\ ~writing /\ parsed # <<>> /\ sent[Head(parsed).of].kind = "upgrade"
  /\ Answer(Head(parsed).of)
  /\ pc' = "websocket" /\ parsed' = <<>>
  /\ UNCHANGED <<client, wire, cancelled, buffer, chunked, stream, handled, strayed>>

\* Mutation: a buffer is for one batch of requests.
DispatchEndsClear ==
  /\ pc = "dispatch" /\ ~writing /\ parsed = <<>>
  /\ pc' = "read" /\ buffer' = <<>>
  /\ UNCHANGED <<client, wire, cancelled, parsed, chunked, stream, writing, history>>

\* What is left in the buffer is the beginning of the next request.
DispatchEnds ==
  /\ pc = "dispatch" /\ ~writing /\ parsed = <<>>
  /\ pc' = "read"
  /\ UNCHANGED <<client, wire, cancelled, buffer, parsed, chunked, stream, writing, history>>

-----------------------------------------------------------------------------
(* A streamed request: the task that reads, and the handler                *)

\* Mutation: the body channel is not bounded.
StreamReadAhead(n) ==
  /\ pc = "stream" /\ stream.reader = "reads" /\ stream.left > 0
  /\ n \in 1..Len(wire)
  /\ wire' = SubSeq(wire, n + 1, Len(wire))
  /\ LET take == IF n < stream.left THEN n ELSE stream.left
     IN stream' = [stream EXCEPT !.left = @ - take,
                                 !.channel = Append(@, SubSeq(wire, 1, take))]
  /\ strayed' = (strayed \/ n > stream.left)
  /\ UNCHANGED <<client, cancelled, pc, buffer, parsed, chunked, writing, answers, handled>>

\* What is read beyond the body is dropped.
StreamRead(n) ==
  /\ pc = "stream" /\ stream.reader = "reads" /\ stream.left > 0
  /\ n \in 1..Len(wire) /\ Len(stream.channel) < ChannelCap
  /\ wire' = SubSeq(wire, n + 1, Len(wire))
  /\ LET take == IF n < stream.left THEN n ELSE stream.left
     IN stream' = [stream EXCEPT !.left = @ - take,
                                 !.channel = Append(@, SubSeq(wire, 1, take))]
  /\ strayed' = (strayed \/ n > stream.left)
  /\ UNCHANGED <<client, cancelled, pc, buffer, parsed, chunked, writing, answers, handled>>

\* The body is complete; or the client is slow, or gone in its middle, and the
\* handler sees the channel end all the same.
StreamEnds ==
  /\ pc = "stream" /\ stream.reader = "reads" /\ stream.left = 0
  /\ stream' = [stream EXCEPT !.reader = "done"]
  /\ UNCHANGED <<client, wire, cancelled, pc, buffer, parsed, chunked, writing, history>>

StreamCut ==
  /\ pc = "stream" /\ stream.reader = "reads" /\ stream.left > 0
  /\ Len(stream.channel) < ChannelCap
  /\ stream' = [stream EXCEPT !.reader = "done"]
  /\ UNCHANGED <<client, wire, cancelled, pc, buffer, parsed, chunked, writing, history>>

HandlerReceives ==
  /\ pc = "stream" /\ stream.channel # <<>>
  /\ stream' = [stream EXCEPT !.channel = Tail(@), !.got = @ \o Head(stream.channel)]
  /\ UNCHANGED <<client, wire, cancelled, pc, buffer, parsed, chunked, writing, history>>

\* It answers, when the channel has ended or before.
HandlerAnswers ==
  /\ pc = "stream"
  /\ pc' = "answered"
  /\ Answer(stream.of)
  /\ handled' = Append(handled, [of |-> stream.of, body |-> stream.got,
                                whole |-> stream.left = 0 /\ stream.channel = <<>>])
  /\ UNCHANGED <<client, wire, cancelled, buffer, parsed, chunked, stream, strayed>>

\* Mutation: the receiver outlives the handler, and the task waits with its chunk.
StreamDroppedWaits ==
  /\ pc = "answered" /\ stream.reader = "reads" /\ stream.left > 0
  /\ UNCHANGED vars

\* The channel is closed: a task that is not done reads once more, in vain.
StreamDropped ==
  /\ pc = "answered" /\ stream.reader = "reads" /\ stream.left > 0
  /\ \E n \in 0..Len(wire) :
       /\ wire' = SubSeq(wire, n + 1, Len(wire))
       /\ stream' = [stream EXCEPT !.reader = "done", !.left = IF n < @ THEN @ - n ELSE 0]
       /\ strayed' = (strayed \/ n > stream.left)
  /\ UNCHANGED <<client, cancelled, pc, buffer, parsed, chunked, writing, answers, handled>>

StreamJoined ==
  /\ pc = "answered" /\ ~writing /\ (stream.reader = "done" \/ stream.left = 0)
  /\ pc' = "read" /\ stream' = Idle
  /\ strayed' = (strayed \/ stream.left > 0)
  /\ UNCHANGED <<client, wire, cancelled, buffer, parsed, chunked, writing, answers, handled>>
-----------------------------------------------------------------------------
\* What the connection's tasks do when they are polled.
Server ==
  \/ \E n \in DOMAIN wire : Read(n) \/ StreamRead(n)
  \/ ReadEnds
  \/ ParseNext \/ Dispatch \/ Upgrade \/ DispatchEnds
  \/ StreamEnds \/ StreamCut \/ HandlerReceives \/ HandlerAnswers
  \/ StreamDropped \/ StreamJoined

Next == \/ \E shape \in Shapes : Send(shape)
        \/ HangUp \/ Shutdown
        \/ Server \/ ReadTimeout \/ Written

Spec == Init /\ [][Next]_vars

\* The two tasks are polled when they can go on; within a streamed body a read that
\* returns nothing times out; a handler goes on with its body and answers.  That
\* an idle connection times out, or that a write ends, is not assumed.
FairSpec == Spec /\ WF_vars(Server)

-----------------------------------------------------------------------------
(* Properties                                                              *)

Positions == {"read", "parse", "dispatch", "stream", "answered", "websocket", "closed", "panicked"}

Piece == [of : 1..MaxRequests,
          kind : {"line", "rest", "head", "announce", "data", "size", "tail", "zero", "end"}]

TypeOK ==
  /\ sent \in Seq(Shapes) /\ Len(sent) <= MaxRequests
  /\ wire \in Seq(Piece) /\ eof \in BOOLEAN /\ cancelled \in BOOLEAN
  /\ pc \in Positions
  /\ buffer \in Seq(Piece)
  /\ parsed \in Seq([of : 1..MaxRequests, body : Seq(Piece)])
  /\ chunked \in BOOLEAN
  /\ stream \in [of : 0..MaxRequests, left : Nat, channel : Seq(Seq(Piece)),
                 reader : {"none", "reads", "done"}, got : Seq(Piece)]
  /\ Len(stream.channel) <= ChannelCap /\ writing \in BOOLEAN
  /\ answers \in Seq(0..MaxRequests)
  /\ handled \in Seq([of : 1..MaxRequests, body : Seq(Piece), whole : BOOLEAN])
  /\ strayed \in BOOLEAN

\* The connection has no way to know where it is in the client's stream but to
\* count bytes.  A read that ends within a request line or a chunked body, a refusal
\* by the parser, a streamed body with more behind it or not read to its end: then
\* it stays open and takes bytes for what they are not.  The next three say what
\* holds for as long as nothing of that has happened; NothingTwice and the two
\* liveness properties say what holds all the same.

\* HTTP/1.1 has no numbers for requests: the client takes the first answer for
\* its first request, and so on.  So they must come in order, one for each, and
\* after a timeout's 408 none any more.
InStep ==
  ~strayed => \A i \in DOMAIN answers :
    answers[i] = i \/ (answers[i] = 0 /\ i = Len(answers) /\ pc = "closed")

\* A handler is called with the whole body of its request and no byte of another
\* one; what it has read of a body when reading was cut short, or it did not care
\* to go on, is its beginning.
WholeBodies ==
  ~strayed => \A i \in DOMAIN handled :
    LET body == Pieces(handled[i].of, Body(sent[handled[i].of]))
    IN IF handled[i].whole THEN handled[i].body = body ELSE IsPrefix(handled[i].body, body)

\* The connection does not wait for more when every byte of a request is there
\* and it has not been answered.
NothingOwed ==
  pc = "read" /\ wire = <<>> /\ ~eof /\ ~strayed => Len(answers) = Len(sent)

\* The bytes that all handlers got.
Given == FlattenSeq([i \in DOMAIN handled |-> handled[i].body])

\* Whatever was lost or misread, what handlers do is done once: requests come to
\* them in the order they were sent, none twice, and no byte is given to them twice.
NothingTwice ==
  /\ \A i, j \in DOMAIN handled : i < j => handled[i].of < handled[j].of
  /\ \A i \in DOMAIN Given :
       Cardinality({j \in DOMAIN Given : Given[j] = Given[i]})
         <= Cardinality({j \in DOMAIN Kinds(sent[Given[i].of]) : Kinds(sent[Given[i].of])[j] = Given[i].kind})

\* The connection's task has ended, or goes on with a WebSocket, which is Server's.
Over == pc \in {"closed", "websocket", "panicked"} /\ ~writing

\* The parse loop takes nothing and does not wait for anything: the task never
\* comes back to the runtime (lib.rs:876-937, request.rs:134-164).
Spins ==
  /\ pc = "parse" /\ buffer # <<>>
  /\ LET p == Parse(buffer, chunked \/ ChunkedHeader(buffer))
     IN p.result = "payload" /\ p.taken = 0

\* If the client reads what it is sent, every request is answered or the connection
\* is closed, without a timeout between requests being needed, unless the
\* connection has lost its place.
Answered ==
  []<>~writing =>
    \A n \in 1..MaxRequests : Len(sent) >= n ~> (Len(answers) >= n \/ Over \/ strayed)

\* README "Graceful Shutdown": the server waits for active connections to finish, so
\* a connection must finish after the token is cancelled, whatever it is at and has
\* lost, if the client reads what it is sent.  The exception is the loop that spins.
ShutdownEnds == []<>~writing => (cancelled ~> Over \/ Spins)

=============================================================================
