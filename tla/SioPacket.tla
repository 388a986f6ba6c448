------------------------------ MODULE SioPacket ------------------------------
(***************************************************************************)
(* Socket.IO packets and their text: a type digit, the namespace and a     *)
(* comma unless it is "/", the digits of an id, JSON.  The server and      *)
(* rpress-client each have a copy of this code.                            *)
(*                                                                         *)
(* A text is a sequence of tokens.  A JSON value is told apart by its kind *)
(* and content; a natural number prints as digits like an id does, any     *)
(* other number is an "other".  No constructor makes a binary packet.      *)
(*                                                                         *)
(* Source: rpress-client/src/socket_io.rs,                                 *)
(*         engine/src/core/socketio/socket_io.rs.                          *)
(***************************************************************************)
EXTENDS Naturals, Sequences

CONSTANT DefaultNamespace  \* "/"; all others begin with a slash and have no comma

Json(kind, content) == [kind |-> kind, content |-> content]

Array(items) == Json("array", items)

Items(v) == IF v.kind = "array" THEN v.content ELSE <<v>>

\* An Option is a set of at most one value.
Sio(type, namespace, id, data) == [type |-> type, namespace |-> namespace, id |-> id, data |-> data]

ConnectPacket(namespace, auth) == Sio("CONNECT", namespace, {}, auth)

ConnectOk(namespace, sid) == Sio("CONNECT", namespace, {}, {Json("object", sid)})

ConnectError(namespace) == Sio("CONNECT_ERROR", namespace, {}, {Json("object", "message")})

DisconnectPacket(namespace) == Sio("DISCONNECT", namespace, {}, {})

\* An array is spread out into the arguments.
EventPacket(namespace, name, data, id) ==
  Sio("EVENT", namespace, id, {Array(<<Json("string", name)>> \o Items(data))})

AckPacket(namespace, id, data) == Sio("ACK", namespace, {id}, {Array(Items(data))})

EventName(p) ==
  {v.content[1].content : v \in {d \in p.data : d.kind = "array" /\ d.content # <<>> /\ d.content[1].kind = "string"}}

EventArgs(p) == UNION {{Tail(d.content)} : d \in {v \in p.data : v.kind = "array" /\ v.content # <<>>}}

Token(kind, value) == [kind |-> kind, value |-> value]

Printed(v) == IF v.kind = "number" THEN Token("digits", v.content) ELSE Token("json", v)

Parsed(token) == IF token.kind = "digits" THEN Json("number", token.value) ELSE token.value

\* The text of an Option.
Text(tokens) == IF tokens = {} THEN <<>> ELSE <<CHOOSE t \in tokens : TRUE>>

Encode(p) ==
  <<Token("type", p.type)>>
    \o (IF p.namespace = DefaultNamespace THEN <<>> ELSE <<Token("path", p.namespace), Token("comma", ",")>>)
    \o Text({Token("digits", n) : n \in p.id})
    \o Text({Printed(v) : v \in p.data})

\* Digits are an id if the text ends behind them or an array or object begins,
\* else they belong to the JSON.
Decode(text) ==
  LET path == Len(text) > 1 /\ text[2].kind = "path"
      rest == IF ~path THEN Tail(text)
              ELSE SubSeq(text, IF Len(text) > 2 /\ text[3].kind = "comma" THEN 4 ELSE 3, Len(text))
      id   == /\ rest # <<>> /\ rest[1].kind = "digits"
              /\ Len(rest) > 1 => Parsed(rest[2]).kind \in {"array", "object"}
      json == IF id THEN Tail(rest) ELSE rest
  IN Sio(text[1].value,
         IF path THEN text[2].value ELSE DefaultNamespace,
         IF id THEN {rest[1].value} ELSE {},
         IF json = <<>> THEN {} ELSE {Parsed(json[1])})

=============================================================================
