# Verification of rpress

TLA+ models of [rpress](../src/README.md), a Rust HTTP framework with an Engine.IO / Socket.IO
server and a Socket.IO client, the TLC configurations that check them on small instances, and
proofs checked by TLAPS for every value of the constants. `PROJECT.json` lists the runs, the
source lines each definition stands for, the hazards of the code and the properties that cover
them, a mutation of the model that breaks each property, and the theorems.

    tlc -workers 2 -config registry.cfg MCSocketRegistry.tla     # a run
    tlapm SocketRegistryProofs.tla                               # a proof module

## 1. The system

The server (`engine/`) is one process on the tokio runtime: a task per connection, a task per
Engine.IO session (`run_session_loop`), two per WebSocket (a spawned writer, and the connection's
own task as reader), and application handlers awaited inside whichever task read the packet. All
of them share `RpressIoInner` behind an `Arc`; its maps are DashMaps and tokio RwLocks, and
only a broadcast keeps one locked while it goes on to the next. The client (`rpress-client/`) is a
library of its own.

| Component | State it keeps | Operations | Modelled by |
|---|---|---|---|
| Socket registry (`socketio/{handler,socket,room,mod}.rs`) | `sockets`, `socket_handlers`, each `Socket`'s rooms, `RoomManager.rooms` and `.senders`, the session store | CONNECT, EVENT, DISCONNECT, end of a session, `cleanup_socket`, `on`, `on_disconnect`, `join`, `leave` | `SocketRegistry`, `SocketLifecycle` |
| Engine.IO session (`handler.rs`, `engine_io.rs`) | bounded channel, poll buffer, its `Notify`, transport | send, session loop, polling GET, WebSocket writer and reader, upgrade, close | `EngineSession`, `PacketDelivery` |
| Heartbeat (`handler.rs:465-491`, `engine_io.rs`) | `last_pong`, the interval's ticks | tick, pong, timeout | `Heartbeat`, in `Server` |
| Fan-out (`room.rs:127-211`, `socket.rs:195-260`) | the RwLocks of `RoomManager`, the clients' channels | broadcast to rooms and namespaces, exclusion, cleanup at the same time | `Fanout` |
| Redis adapter (`redis_adapter.rs`) | local adapter, publisher, subscriber task | publish, receive, reconnect, drop of own messages | `RedisFanout` |
| HTTP/1 connection (`lib.rs:743-998`, `request.rs`) | read buffer, parsed request, body channel | read, parse, dispatch, keep-alive, chunked and streamed bodies | `HttpConnection` |
| Router (`routes.rs`, `lib.rs:600-741`) | trie of routes | insert, match, HEAD and OPTIONS, groups, middlewares, limits | `Router` |
| Rate limiter (`rate_limiter.rs`, `lib.rs:542-551`) | counter and start of the window per address | `check` | `RateLimiter`, in `Server` |
| Server lifecycle (`lib.rs:1004-1184`, `h2_handler.rs`) | semaphore, cancel token, task tracker | accept, refuse, serve, upgrade, shut down | `Server` |
| Socket.IO client (`rpress-client/src/{client,transport}.rs`) | handlers, pending acks, two channels | connect, dispatch, `on`, emit with and without ack, disconnect | `SocketIoClient` |
| Socket.IO codec (`socket_io.rs`, in both crates) | - | encode, decode | `SioPacket`, in `SocketIoClient` |
| Responses (`lib.rs:366-541`, `response.rs`, `cors.rs`, `security.rs`) | configuration, directories on disk | headers of CORS and of the security settings, compression, static files | `Responses` |
| HTTP/2 handler | inside the h2 crate | a stream is one dispatch | in part: `Server`, `Router`, `Responses` |
| Engine.IO codec, TLS, errors, example application, benchmarks | none, or inside a library | stateless | not modelled, see section 7 |

### How the components interact

* The accept loop takes a semaphore permit and asks the rate limiter before it spawns a
  connection's task. That task reads requests and gives each to the router. An HTTP/2 connection
  spawns a task per stream.
* An HTTP request for the Socket.IO path goes from the connection task to `handler.rs`: a
  handshake creates a session and spawns its loop; a GET waits for packets; a POST and the frames
  of a WebSocket go through `process_incoming_eio_packet` to the registry, in the task that read
  them. So the packets of one client may be handled by several tasks at once.
* `Socket::emit`, acks and broadcasts send packets into the session's channel (capacity 64). Its
  only receiver is the session loop, which moves them to the poll buffer and calls `notify_one`.
  A polling GET, or the writer of a WebSocket, is woken and takes the whole buffer.
* A session ends by an Engine.IO CLOSE, by the end of its WebSocket, or by the loop when the last
  pong is too old. Each runs `handle_disconnect` in its own task: collect the session's sockets,
  `cleanup_socket` for each, remove the session. The others notice later, or not at all.
* With a Redis adapter a broadcast is delivered to the local sockets and published; the
  subscriber of every other instance delivers it to theirs.
* The client's reader and writer tasks sit between the WebSocket and two channels; its dispatch
  task runs handlers one after the other and hands acks to the calls that wait.

### What is hard about it, and what makes it correct

* *Registry.* Each handler is a chain of map accesses with every other task in between. Two
  cleanups of one socket, a CONNECT during the end of its session, application handlers that
  outlive their socket, a panic in one. Correct when the disconnect handler runs at most once, an
  open socket can be reached, a socket that was cleaned up is gone for good, and nothing is left
  behind that nobody will remove.
* *Session.* One `Notify` with one stored permit is shared by GETs, GETs that time out, writers,
  writers that are aborted, and readers that push into the same buffer. Correct when no wake-up is
  lost, no message is duplicated, no connection delivers out of order, a polled message arrives
  unless its response fails, and the loop ends with the session.
* *Rate limiter.* Window boundaries, pruning of the map. Correct when nobody gets more than the
  windows allow and nobody is refused without having used the limit up.
* *Fan-out.* A broadcast holds read locks while it waits for room in a slow client's channel, joins
  and cleanups wait for the write locks, session loops put pings into the channels they alone empty.
  Correct when every member that stays gets its copy and none more than it is due, and no circle of
  waits comes about; the code does have such circles, and the models say which.
* *Redis.* The subscriber loses its connection with what it holds and comes back later; instances
  hear their own publications. Correct when nobody gets a broadcast twice, none comes out of order
  of its publisher, and a subscriber never stays away.
* *Heartbeat.* Ticks of one interval against a limit of interval plus timeout. Correct when a
  client that answers in time is not dropped, and a dead one is.
* *HTTP/1.* Requests arrive in pieces; bodies may be streamed and not read. Correct when any split
  of the bytes gives the same requests. The code does not achieve that: the models say for which splits
  it does, and what holds for the others all the same.
* *Router.* A trie that grows in the order of a HashMap, static and dynamic segments side by side,
  groups with limits and middlewares of their own. Correct when the answer depends on the routes
  and not on that order.
* *Server.* Permits, shutdown, connections that do not listen to the cancel token. Correct when the
  limit on connections holds and shutdown ends when they do.
* *Responses.* Handler, CORS, security settings and compression each add headers, in several places, and
  caches act on the result; directories of static files overlap. Correct when a cache that goes by `Vary`
  gives everybody what they may have and can decode, and no directory hides another's files.
* *Client.* A dispatch loop that awaits handlers, acks with timeouts. Correct when an ack is given
  to the call that waits for it, once, and nothing waits for ever.

## 2. Modules

| Module | What it is |
|---|---|
| `SocketLifecycle` | abstract: a socket is new, connecting, open, closed, in that order; reachable while open; its disconnect handler runs at most once, after it is closed |
| `SocketRegistry` | the registry, one action per map access of each handler |
| `PacketDelivery` | abstract: each message is delivered at most once, over one connection, and no connection delivers a message after a later one; other packets come between them as they like |
| `EngineSession` | one session: channel, loop, buffer, `Notify`, GETs, writers, readers, upgrade, end |
| `Fanout` | `RoomManager`: broadcasts, its two RwLocks, the channels of the members |
| `RedisFanout` | several instances that broadcast through Redis Pub/Sub |
| `HttpConnection` | one HTTP/1.1 connection: buffer, parser, dispatch, streamed bodies |
| `Router` | routes, groups, the trie, and what an application answers to a request |
| `Clock` | the clock that the next two read |
| `RateLimiter` | `InMemoryRateLimiter::check` |
| `Heartbeat` | ticks, pings and pongs of the sessions |
| `Server` | the accept loop, connections and shutdown, composed with `RateLimiter` and `Heartbeat` |
| `SioPacket` | Socket.IO packets and their text |
| `SocketIoClient` | rpress-client against a server and a network that do as they please |
| `Responses` | the headers and the coding of every answer, static files, and caches that go by Vary |
| `Lists` | a list of which members are left out, for `Router` and `Responses` |
| `MC...` | instances for TLC: symmetry sets, and constants too long for a .cfg |
| `SocketRegistryProofs`, `EngineSessionProofs`, `FanoutProofs`, `RedisFanoutProofs`, `HttpConnectionProofs`, `ServerProofs`, `SocketIoClientProofs` | theorems about the modules they are named for |
| `AnswersProofs` | theorems about `Router` and `Responses` |

Operators whose comment begins with "Mutation" are not part of the specifications: each is an
action changed the way a plausible bug would change it, used to see that a property notices.

### SocketRegistry

`task[t]` is the position and the locals of one tokio task that handles a packet; one step is one
access to one map (`sessions`, `sockets`, `rooms` of a socket, `members` and `senders` of the
adapter, `onEvent` and `onDisc` for `socket_handlers`).

* `Receive` and `Close` start a task on any packet for any session id handed out so far. The id
  may be stale: a WebSocket's reader goes on when the session is gone.
* `Connect*` is `handle_sio_connect` (handler.rs:263-351): lookup of namespace and session, auth
  handler, `Socket::new` with `register_sender`, `join` of the own room, `sockets.insert`, answer.
* `Find`, `EventHandler`, `EventSocket` are `handle_sio_event`; `Find` picks *any* socket of the
  client in the namespace, as the iteration over a DashMap does.
* `CloseCollect`, `CloseNext`, `CloseSession` are `handle_disconnect`, `Clean*` is
  `cleanup_socket` with `leave_all_rooms` and the adapter's `leave_all` and `unregister_sender`.
* `User*` is application code inside a handler: registers handlers, joins, leaves (each in two
  steps, under two locks, as `Socket::join` does), returns or panics.

Abstracted: payloads, event names (one handler or none), namespaces and rooms as model values.
`discRuns` and `abandoned` are history variables.

### EngineSession

The channel holds messages (numbered in the order sent) and pings. `loop` is the position of
`run_session_loop`, `pc[c]` that of each polling GET and each WebSocket writer, `reader[w]` that of
a WebSocket's reader. `Notify` is its documented behaviour: a FIFO of waiters (`waiters`) and at
most one `permit`. Three points come from the libraries and are easily overlooked:

* The DashMap reference that the loop and the reader hold across an await keeps `remove_session`
  and `set_transport` waiting (`Referenced`).
* A `Notified` that is dropped after it was woken passes the wake-up on (`ReadEnd`, when the
  writer is aborted), but not once the writer went on to wait for the buffer's lock. The model
  allows both outcomes.
* The loop is the only receiver of the channel it sends WebSocket pings into (`LoopPing`), with a
  reference into the session map in its hands.

The end of a session is three steps: something starts a `handle_disconnect` (`closing`), it comes to the
end of its cleanups (`CleanedUp`), which it may never do, and removes the session (`RemoveSession`).

Any number of ticks may find the pong overdue (`LoopTimeout` is a free choice): the arithmetic of
`last_pong` is left to `Heartbeat`. Whether a response or frame arrives is a choice too.

### Fanout

`held` and `queue` are the two RwLocks of `RoomManager` as tokio's are: fair, requests served in the
order they come, readers together. So a reader may have to wait behind a writer that waits.
`Handlers` are tasks that broadcast for a socket (`Socket::broadcast`, `Socket::to`, and `to` chained over
any rooms, the same one twice included: `Lists`), `Apps` tasks that call `RpressIo::emit`. Their
position `pc[e]` goes from `members` (waits for `rooms`) to `senders` (waits for `senders`) to `send` (one
`tx.send().await` after the other, in any order, as the iteration over a HashSet does). A broadcast to a
room lets `rooms` go after copying the members, one to the namespace keeps it (room.rs:140-148, 171).

A socket has one task: CONNECT, then joins and leaves, then `cleanup_socket`, by another task
(`Close`) or by the session loop itself (`Timeout`), which then receives nothing. `SessionRemoved` is a
close that does not find the socket in the map, since it is being connected or cleaned up, and ends
the loop under the broadcast's hands. On a tick the loop of a session in `WebSockets` sends a ping into its
own channel (`LoopPing`): if that is full, it waits at `ping` for the room that only it could make. A
channel is a number of packets. `copies` and `owed` are history variables: `owed[e]` are the
memberships, in rooms that the broadcast names, that have lasted since it began and whose socket it has
sent nothing yet; the excluded socket is never among them.

Calls that overlap in one socket's handlers are left to `SocketRegistry`.

### HttpConnection

A request's bytes are pieces, cut where the parser looks: the request line in two, the headers, each
unit of a body; of a chunk its size and its data, of the last chunk the zero and the empty line. A
read takes any number of pieces and ends at any of them. What the parser finds in a buffer is computed
from the kinds of the pieces as `request.rs` does from the bytes: the first CRLF, `HTTP/1.1` before it, the
first empty line, the length (`HasRequestLine`, `HeadOf`, `ChunkedBody`, `Parse`), whatever the pieces
are and whichever request they are of.

`pc` is the position of `handle_h1_connection`: `read` (the select of cancel token, timeout and read),
`parse`, `dispatch`, `stream` (a streamed request is with its handler), `answered` (the task that read for
it is joined), or how it ended. `stream` holds that task and the channel. `ReadTimeout` and `StreamCut` are
free choices: the client may always be slow. A streamed request's handler may answer at any time, whatever
it has received of the body. `writing` says that an answer is being written: the task waits, with its
token unseen, until `Written`, which a client that does not read puts off for ever.

The client (`Send`) sends requests with a well-formed head, of any kind and length, behind anything. Often
enough the connection then loses its place in the stream, and the history variable `strayed` is set at
those steps:

* `Divides`: a read ended within a request line (it is refused with 400), or within a chunked body (which
  the parser does not put together again, see section 7).
* `Refuse`: the parser refused a request that was not alone and whole in the buffer. The answer is
  written ahead of those of the requests parsed before it, and the buffer is cleared.
* `StartStream`, `StreamRead`: more than the streamed body was in the buffer, or was read with it. The
  handler gets it, or nobody.
* `StreamDropped`, `StreamJoined`: the streamed body was not read to its end, and what follows of it is
  parsed as a request.

The model goes on after that as the code does.

### RedisFanout

A broadcast is two steps, `Broadcast` (delivered to the sockets of the task's own instance) and
`Publish`, with other tasks and failures in between (redis_adapter.rs:241-283). Redis hands a message
to the connections that are subscribed at that moment (`stream[n]`); `LinkLost` cuts what a connection
holds anywhere, and `lost` remembers what went with it. `Receive` drops what the node itself published;
anything else is handed over socket by socket (`HandOver`), in the subscriber's own task, which takes
nothing from its stream meanwhile and may never be done (redis_adapter.rs:134-153, and `fanout_stuck`).
`link[n]` is where `start_subscriber` stands: connecting, subscribed, at the end of its stream, or asleep
for the two seconds before it tries again. A node outside `Listening` is one whose adapter was given to
`set_adapter`, which never starts a subscriber (mod.rs:220, 228).

The delivery by the broadcasting task itself is one step, what `Fanout` takes apart. JSON and
channel names are left out.

### Router

The trie is a function from places (the sequence of edges that leads to a node) to nodes, so that a
node's children are the places one longer. `NextGroup`, `InsertRoute`, `SkipRoute` and `InsertPanics` are
`initialize_routes` with the routes of a group in any order. `Match` is `match_recursive`, as a recursive
function over the places: `Trial` is one call of it, what the calls for the children return being given,
parameters of an abandoned branch included. `ResolveRoute` and `Answer` are `resolve_route` over both
protocols: HEAD by GET, OPTIONS by CORS, the group's limit, the middlewares as the names they run in. A
path over HTTP/2 is the URI as text, with scheme and authority if the request has an `:authority` (`PathH2`).

`Closest` and `RouteFor` are the reference: among all declared patterns that fit, the one that is static
where another is first dynamic. They know no trie and no order.

### Server, with RateLimiter and Heartbeat

A slot is a TCP connection at a time, in the stages of `conn`: in the kernel's backlog, accepted, in the
TLS handshake, HTTP/1, HTTP/2, WebSocket. `loop` and `current` are the position of `run_server`'s select
loop. `End(c)` is any end of a connection's task, panic included: the permit goes with it. A stage in
`Deaf` does not look at the cancel token. What HTTP/1 does within its stage is `HttpConnection`'s subject.

`RateLimiter`: a check is one step, since the limiter's mutex is held throughout. The counter is a `u32`,
modelled modulo `Modulus`; `MaxCount` keeps the runs below it. `admitted` is a history variable: of each
address the checks answered "allowed", each with its instant and how many came before it.

`Heartbeat`: since ticks are `Interval` apart, the pings under way are known from the oldest of them and
the next tick. A prompt client is one whose answer is taken by `mark_pong` within `Timeout`; `MayAdvance`
is what that says of time, and that the session's loop is not held up past a tick. A session exists as
long as its WebSocket (`Upgrade`, `End`); when its loop drops it, the reader stays until the connection
ends, with its permit (handler.rs:587).

All three read one `clock`, which advances by one and whose instants are those of the smallest unit that
matters: that of `Interval` and `Window`.

### SocketIoClient, with SioPacket

`phase` is where `connect_inner` stands, `reader`, `writer` and `dispatch` the three tasks, `incoming` and
`outgoing` their channels (capacity `Cap`). `call[c]` is one emit: its position, the id it took from
`ack_counter`, and what it got. `Acked` calls go through `emit_with_ack_timeout`; a call that times out, or
whose send fails, leaves its id in `pending` (client.rs:297). `HandlerCalls` are made by the event handler,
which the dispatcher awaits: no ack can reach them.

The server is the environment: it joins or refuses, emits before or after its answer to CONNECT, answers
any call at any time or never, pings, disconnects, closes; `LinkLost` cuts what is under way.

Packets go through their text: `Read` is `Decode(Encode(p))` for every packet of the instance. A text is a
sequence of tokens, digits being told apart from other JSON because an id is written as digits too.

### Responses

An answer is a value: `Resolve` gives a payload (`resolve_route`; `StaticFile` is `try_serve_static`, whose
loop ends at the smallest index of `Dirs` that has the file or is missing), `Dressed` adds
headers, `Sent` is `send_response` with compression; `Reply` is all of it for one request, over HTTP/1
(`ReplyH1`) or HTTP/2 (`ReplyH2`). A header is its name in lower case, whether it is written as the source
writes it (CORS removes headers by their exact name, security headers are compared in any case), and its
value. A body is text, an image and so on, small or not, since compression goes by that. What a route
is, `Router` has; here it is a path and what its handler returns. A path is slashes and names in turn
(`IsPath`), which is what `serve_static` and the examples have; a name is one value.

Clients, a cache between them and the server, and the file system are the environment: `Ask` gets an answer
that the cache may keep, `AskCache` gets one it kept if the fields that `Vary` names agree, `DirTurns` takes a
directory away or brings it back.

## 3. Runs

| Run | Question | Bounds and why they are enough | Distinct states |
|---|---|---|---|
| `registry` | safety of the registry under races, and does it implement `SocketLifecycle` | 2 tasks, 1 session, 2 sockets, 1 application room, a namespace with an auth handler: two cleanups of one socket, a cleanup against a CONNECT, a CONNECT that makes a second socket, handlers that join and leave meanwhile, with one socket in the application room at a time (`MaxMembers`) | 2.03 million (after symmetry) |
| `registry_orphan` | **violated**: is every socket's session open when nothing is at work | 2 tasks, 1 socket | - |
| `session` | no lost wake-up, no duplicate, order, delivery, removal | 1 GET, 1 WebSocket, channel of 1, 2 messages, 1 ping or pong: an upgrade with a GET pending, a full channel, a GET that times out as a packet is pushed, an aborted writer that was woken, a loop that waits for its own ping | 480 thousand |
| `fanout` | do broadcasts reach whom they should, and what waits in a circle | a socket's broadcast to any list of up to 2 rooms and a server-wide one, 2 sockets of WebSocket sessions, 1 application room and the sockets' own, channels of 1: full channels, queued writers between the two broadcasts, pings, a room named twice, sockets that come and go meanwhile | 2.8 million (after symmetry) |
| `fanout_stuck` | **violated**: can a broadcast always go on | 1 server-wide broadcast at a time, 1 socket | - |
| `redis` | once, in order and to the audience over several instances | 2 nodes that listen, 1 that does not, 3 broadcasts of 2 tasks (namespace, room without a socket), 2 failures: a subscriber that is lost and comes back between two broadcasts of one task, or stays in the middle of a delivery to two sockets | 68 thousand |
| `http` | which ways to split the bytes, pipeline, stream, refuse, time out and shut down give whole requests, one answer each, in order; what holds for the others; and does the connection come to an end | 2 requests of any kinds, bodies of 0, 1, 3, 4 and 5: within the route's limit of 2, above the limit of the parser (4), streamed beyond the threshold (3); chunked bodies, upgrades; a channel of 1: every cut, a full channel, a body that comes with its head or after it, more than the body behind it | 673 thousand |
| `router` | which request reaches which route | every application of up to 3 of 17 routes in 3 groups, inserted in every order: static and dynamic siblings, backtracking over two levels, names that conflict, two groups for one path, HEAD, an unknown verb; limits below and above the server's | 7.6 thousand |
| `server` | permits, windows, heartbeat, shutdown | 2 slots, 1 connection allowed, 4 arrivals of 2 addresses with 1 request per window, clock to 4 with interval, timeout and window 1: a refusal by either limit, two windows and a third, a WebSocket whose heartbeat fails while its reader stays, pruning on every check, Ctrl-C and a failing accept at any moment | 560 thousand |
| `server_window` | **violated**: does the limiter keep to `max_requests` in every interval shorter than `window_secs` | 1 address, 2 requests per window of 2 | - |
| `client` | acks, order, no call that hangs, pings | a call of the application and one of a handler, channels of 1, 2 events, 1 ping, 1 fault: a full `incoming` channel while the handler waits, acks in the other order, too late or never | 417 thousand |
| `responses` | do clients behind a shared cache get what is right for them, are static files found | 6 configurations (with and without CORS, credentials, security headers, compression), 1 response in the cache, 3 routes, 2 directories, one registered under the other: every pair of a request that fills the cache and one that reads it | 14 thousand |

`CHECK_DEADLOCK FALSE` but for `Responses`: the ids, messages and instants of an instance run out, and the
system then rightly stops.

What the passing runs show:

* `DisconnectHandlerAtMostOnce`: only the cleanup that takes the socket out of the map calls the
  handler, although all of them read it before.
* `ConnectedIsReachable`, `SenderHasOwner`: the order register sender, publish ... take, unregister
  leaves no open socket that broadcasts miss, and no sender without a task that will remove it, with
  one exception: what a disconnect handler that panics leaves behind (`abandoned`). The property does not
  catch that panic; it says that nothing else does the like.
* `NoResurrection`, `Implements` (SocketLifecycle): stragglers do not bring a socket back. That a
  cleanup ends is not claimed: it waits for locks that a broadcast may hold for ever.
* `NoSleepOverData`, `Implements` (PacketDelivery), `EventuallyPassedOn`: see section 1. The last one is
  about polling: a WebSocket session may come to a standstill over its own ping.
* `EventuallyRemoved`: once a `handle_disconnect` has come to `remove_session`, the session goes, whatever
  its transport and whoever holds a reference into the map across an await, and so does its loop unless
  it cleans up itself. The exception is named: a loop that waits with a ping for its own full channel
  keeps its reference for ever.
* `NoDuplicates`: whatever comes and goes while a broadcast works on its copies, a socket gets one copy, or
  one per room named: `to(a).to(b)` is the union of the rooms, with two copies for a socket in both,
  although socket.rs:200 says it "further restricts" (section 6).
* `ReachesSteady`: whoever stayed in one and the same of the rooms named gets the packet; a failed send,
  or a member that leaves, keeps it from nobody else. A socket that is in one of two rooms at every
  moment, but not in the same, may get nothing: the rooms are read one after the other. (The run's lists
  name the one application room and the sockets' own; any number of application rooms is in the theorem.)
* `NoStandstill`: between broadcasts, joins, leaves, cleanups and session loops there are two circles of
  waits and no third: a broadcast, holding its read locks, waits for a full channel whose loop cleans up
  itself (that is `fanout_stuck`), or whose loop waits for the same channel with a ping. Everything else that
  waits then waits behind one of them. Locks are always taken in the order rooms, senders, each released
  before the next room. The property has two parts: `NoCircle` (somebody need not wait, or one of those
  circles is there), which is proved too, and that who need not wait has a step.
* `OnceInOrder`, `ReachesNodes`: no echo and no overtaking, also over a lost and a new subscription;
  what a subscription was handed is delivered or lost with it, and the subscriber listens again, on each
  instance whose local deliveries come to their end. One that waits for ever in a delivery neither
  delivers nor listens any more; the other instances do.
* `InStep`, `WholeBodies`, `NothingOwed`: until the connection loses its place (`strayed`), the client can
  match answers to requests by counting, a handler gets the body of its request, and the connection never
  waits for bytes it has. The cuts that `Divides` names, refusals ahead of answers, bytes behind a streamed
  body and streamed bodies left unread happen in the run, and end what the three say: they do not catch
  the hazards there, they show that there are no others.
* `NothingTwice`: whatever was lost or misread, handlers get requests in the order they were sent, none
  twice, and no byte twice.
* `Answered`, `ShutdownEnds` (HttpConnection): neither a full body channel, nor a handler that ignores the
  body, nor a client that stops in the middle keeps the connection from going on, and after the token was
  cancelled it ends, if the client reads what it is sent. The exception is the parse loop on a chunk cut in
  two (`Spins`), which never comes back to the runtime.
* `RoutesAsDeclared`, `LimitsAsDeclared`, `PanicsOnConflict`: what an application answers, and whether it
  starts at all, does not depend on the order of a HashMap. Parameters that an abandoned branch leaves
  behind never replace those of the route (they may be there under names the route does not use). Bodies
  that are streamed, and requests over HTTP/2 with an `:authority`, are left out: see section 7.
* `PermitsKept`: refusals, failed handshakes, panics and upgrades neither leak a permit nor add one.
* `AtMostTwoWindows`, `RefusedOnlyOverLimit`: the true guarantee of the fixed windows, less than what the
  documentation says (`server_window`), and that
  another address's traffic, or pruning, costs nobody a request.
* `PromptKept`, `SilentDropped`: the limit of the heartbeat is exact, also with several pings under way.
* `ShutdownEnds` (Server): the server stops once Ctrl-C is pressed, if `accept` does not fail, no HTTP/1
  connection stays for ever after the token was cancelled, and the connections that do not look at the
  token end by themselves. So the accept loop itself waits for nothing else, and tells the others.
* `AcksMatch`: ids are given out once, survive the codec, and an ack that comes late meets nobody else.
* `HandledInOrder` (SocketIoClient): from the CONNECT answer and `on` on, events have no gap, whatever
  the channels' state.
* `CallsEnd`, `PingsAnswered`: a call made inside a handler ends (by its timeout), and so the
  dispatcher, the channel behind it and the reader go on and the server gets its pongs, late perhaps: how
  late against its `ping_timeout` is not said.
* `CacheServesRight`: `Vary` names what CORS and compression chose by, so no client gets a coding it cannot
  decode, or an `Access-Control-Allow-Origin` that is not its own, from a cache.
* `FilesServed`: folders, links and equal names in one directory hide no file of another; only a missing
  directory does (section 7).

## 4. Fairness

What waits for something that another task or a client may withhold for ever has no fairness: a cleanup (it
waits for the locks of the rooms, which a broadcast may keep, see `fanout_stuck`), a delivery into a
channel, a write to a client. Where a property needs such a wait to end, that is its premise, in the
formula.

*Session.* Weak fairness of the loop's steps except tick and timeout, of each consumer and of a
reader that has begun to push: the runtime polls ready tasks, and none of these steps waits but for the
buffer's lock, which nobody keeps, or for room in the channel (`LoopPing`, then not enabled). Strong fairness
of `RemoveSession`, the wait for a shard lock of the session map, which others hold again and again, but each
for a while; none of `CleanedUp`, the cleanups before it. A polling client polls again after a
response (`GetStart` is in its fair steps): the liveness of delivery is a promise to such clients only.

*HTTP/1.* Weak fairness of the server's steps together: a connection is two tasks and a handler, polled
when they can go on, and a read within a streamed body that gets nothing times out. The body of a request
is finite, so no strong fairness is needed. That handlers answer is assumed. No fairness of `Written`:
`write_all` has no timeout (response.rs:146), so that both liveness properties have `[]<>~writing` as their
premise, a client that reads what it is sent. None of `ReadTimeout` either; the timeout of an idle
connection is not needed.

*Server.* Weak fairness of the accept loop's own steps: a refusal is a few bytes into an empty socket
buffer, and nothing else it awaits can be withheld but a connection, a permit not being awaited. Nothing
about `accept`, clients, or connections
of any kind: `ShutdownEnds` has their end as its premises.

*Redis.* Weak fairness of each subscriber task: tokio runs it, its timer of two seconds fires, and a
reconnection is tried. None of `HandOver`: `ReachesNodes` has as its premise that deliveries on that instance
come to an end again and again. Failures are bounded (`MaxFailures`), so a reconnection succeeds in the end.

*Client.* Weak fairness of its tasks, of `connect`, of a call's send and of its timeout, and of
`disconnect`'s send. None of the server and the network, nor of `on` and of `disconnect` being called.
Connected, the client's own link always takes what the writer writes, or is lost.

*Registry, fan-out, router, responses.* None; safety only. `NoStandstill` says that some step of the server is
enabled, not that it is taken.

## 5. Theorems

`SocketRegistryProofs`, for any number of tasks, sessions, sockets, namespaces and rooms, from
the assumptions that no value is `None` and that guarded namespaces are known:

1. `Spec => []Shape`, hence `TypeOK`. `TypeOK` is not inductive: that a socket and not `None` is
   stored follows from the position of the task. `Shape` adds what the locals are at each
   position, and that only created sockets occur anywhere.
2. `Spec => []Ownership`. A task that brings a socket up has it for itself, unpublished, with its
   sender (`ConnectingIsPrivate`); a socket under cleanup is not in the map (`CleanedIsGone`); at
   most one task is about to call its disconnect handler, which has not run (`CallerIsOnly`); an
   open socket has its sender and its handler has not run (`OpenIsWhole`); `RunsBounded`. The heart
   of it is `CleanTake`: the socket leaves the map in the same step that gives the task the right
   to call, so no second task gets it. `DisconnectHandlerAtMostOnce` and `ConnectedIsReachable`
   follow.
3. `SenderHasOwner`, inductive with `Shape`: each step of the owner keeps the ownership, takes the
   sender away, or is the panic that abandons the socket, the exception that the property names.
4. `NoResurrection`: every step only lets senders, published and connecting sockets of existing
   ids fade (`Fades`), except the registration of a fresh id.

It also proves `Spec => Implements`, that the registry implements `SocketLifecycle`: `ConnectRegister` is `Accept`,
`ConnectPublish` is `Publish`, `CleanTake` is `Close` or a stutter (the second of two cleanups),
`CleanCall` is `CallHandler`, `CleanUnregister` is `Release` or a stutter, and every other step is a
stutter because only registration and publication change which sockets are being connected.

`EngineSessionProofs`, for any number of GETs and WebSockets, any capacity, any number of packets:
`Spec => []TypeOK` and `Spec => []NoSleepOverData`. The inductive invariant `Awake` says that a stored
permit means nobody waits, that whoever sleeps is in the queue, and that a filled buffer has been
announced: a permit is stored, or a consumer is on its way, or somebody is about to notify. It
needs all three: a notify that finds nobody relies on the permit, a permit is good only with an empty
queue, and a notify reaches only those in the queue. `CutKeeps` is the lemma about a GET that times
out in the middle of the queue.

It also proves `Spec => Implements`, that the session implements `PacketDelivery`. The mapping forgets the
bodies, and leaves 0 for a ping or a pong. What a step must show is that a message is delivered nowhere
else, and behind what its connection delivered; the invariant `Ordered` says where the messages are: each
is in one place at most (channel, the packet the loop or a writer holds, buffer, a consumer's hand, a
connection's deliveries, lost), in each place they stand in ascending order, and the places follow each
other, from the channel's, which are the latest, through the buffer to those in hand and delivered. A batch
that fails goes to `lost`, so two connections never have one message.

`FanoutProofs`, for any number of broadcasts to any lists of rooms, sockets and rooms and any capacity:
`TypeOK`, `NoDuplicates` and `Spec => ReachesSteady`. The invariant is `IInv`, which adds to the types:

* `RoomGiven`: a socket's task that waits to join has a room to join.
* `Emissions`: for each broadcast, nobody has more copies than rooms have been begun, those still to be
  served in this room have one less, and each membership in `owed` (`Lasting`: it is there, its socket can be
  served, has no copy and is not excluded) is among those to be served now, or is in a room to come
  (`ToCome`). The rooms of a list may be any, and the same twice; what a member needs is only that
  the room it stayed in is served while it is there.

`ReachesSteady` is an action property and follows from `IInv` alone: the step that ends a broadcast has
nobody left to serve and no room to come, and whoever left the list without a copy was no longer owed one.

`Spec => []NoCircle` needs the locks. The invariant `Turns` says that nobody queues for a lock twice, that
who waits at a position is in the queue of that lock and of no other, and who holds what: `senders` only
broadcasts that send, `rooms` only broadcasts to the namespace that send or wait for `senders`. So the
first in the queue of `senders` waits for broadcasts that send at most, the first in that of `rooms` for
those or for one that waits for `senders`; and a broadcast that sends waits for a full channel, whose
loop can take from it unless it cleans up or waits with a ping, which is `Blocked`, or is past that.

`RedisFanoutProofs`, for any number of nodes, tasks, scripts and failures: `OnceInOrder`, with the types.
The invariant `Line` puts the messages of one task in a line: those a socket was sent (`Sent`), those on
their way to its node in order behind them (`Coming`), the one delivered and not yet published
(`Unpublished`), those not yet made (`Made`). Each step moves a message along this line or takes it
out, and a lost connection cuts only the end of a stream.

`ServerProofs`, for any finite number of slots, any limits, addresses and times, from `MaxCount >= 1`, an
interval of at least 1, and that no slot is `NoSession`: `TypeOK`, `PermitsKept`, `PromptKept` and
`SilentDropped`. `TypeOK` is inductive with `Occupied` (while the loop checks or refuses, it has a slot whose
connection is accepted); `PermitsKept` then is a matter of how each step changes the cardinality of
`Holders`. The heartbeat's invariant `Timing` relates the instants known of a session (`InTime`): the next
tick is at most an interval away, the pings not answered are whole intervals apart, the oldest of them
followed the last pong within an interval, and a prompt client is not late with it. At a tick that finds
the last pong older than `Interval + Timeout` the oldest ping is then unanswered for longer than
`Timeout`, so the client is not a prompt one; and no tick before that leaves `next` further away than
`SilentDropped` allows.

The rate limiter's `AtMostTwoWindows` and `RefusedOnlyOverLimit` follow from `Windows`: in the window
that is open as many were admitted as its counter says, up to the limit, and none after its end
(`Open`); an interval of the window's length that reaches the open window meets one other window at
most, so before the open one it has the limit at most (`Closed`); and no such interval has more than
twice the limit (`Limited`). A window that expires turns `Open` into `Closed`. An entry that is pruned has
expired, so nothing admitted is within its window any more; this is where pruning of a live entry would
break the proof. With `max_requests` 0 one request per window still passes (rate_limiter.rs:62), hence `Limit`.

`SocketIoClientProofs`, for any set of calls of which finitely many await an acknowledgement, any
capacity and bounds, whatever the server answers and whatever is lost: `TypeOK` and `AcksMatch`. The proof of
the latter has two parts.

* The codec: what `Decode` reads from `Encode(p)` has the type of `p` (`TypeKept`), and is `p` if `p` has
  at most one id and an array for its data (`RoundTrip`), as the packet of a call and its answer have
  (`CallRead`, `AckRead`). Other packets may read differently: none of them is taken for an acknowledgement.
* The invariant `Inv`: `Numbered` says that `ack_counter` counts the calls begun, that each has an id of
  its own below it, and that what is pending under an id is the call that has it; `Lines` says that each
  call in the outgoing channel or asked of the server, and each acknowledgement on the way back or in the
  incoming channel, is of a call that was begun, with its id. A call keeps its id once begun (`Lasting`), so
  `Lines` survives the steps of others, calls that gave up included.

`HandledInOrder` follows from `Orderly`. CONNECT is sent once and answered at most once, and until the answer
nothing is dispatched (`Entrance`, `Arrived`), so the number of events that came too early is fixed when the
dispatcher starts. The events still to be handled are in one line, the `incoming` channel before the
connection, from the one after those dispatched to the last the server sent, without a gap, the answer to
CONNECT in its place among them (`Flow`). A reader that waits for a full channel holds the line up and does
not change it; a lost connection cuts its end.

`HttpConnectionProofs`, for any number of requests of any kinds and lengths, pipelined behind anything, reads
that end anywhere and every limit: `Spec => []TypeOK`, from `Sane`, which says what the parts of the state
are at each position; and `InStep`, `WholeBodies` and `NothingOwed`, without a hypothesis. What the three say
ends with `strayed`, so the theorems say that the steps which set it, listed in section 2, are all the ways
in which a connection loses its place: no other split, order, length or timing does.

The invariant is `InPlace`: `strayed`, or it is known where the connection is in the client's stream. The
requests end at the positions `f[1], f[2], ...` of the stream, each `Len(Kinds(r))` after the one before
(`Offsets`); the buffer and then the wire are the stream from some position `base` on, up to its end or
to where the client hung up, and the buffer does not end where a read may not (`Lined`, `EndsWell`); and
`base` is the end of the last request parsed, or the chunks of the one whose head was just parsed
(`Collecting`, `Midway`), or within the body of the streamed request, as far as its pieces were handed to the
channel, waited to be, or were dropped (`Streaming`, `Counted`), or at its end (`Served`). From this it
follows what `Parse` finds, a whole request, its beginning, or one that is too long (that is most of the
proof: the searches for the first CRLF, the first empty line and the last chunk stop in the first request
of the buffer, whatever follows it), and so each dispatch is of the next request with its own body. A
refusal keeps the place only if the refused request is all there is, which is what `Refuse` compares.

`AnswersProofs`, about the router, for any groups, routes, limits and requests: `PanicsOnConflict`,
`RoutesAsDeclared` and `LimitsAsDeclared`. The routes are finitely long patterns of static and dynamic
segments, and the values that stand for "none" and for a dynamic edge are no texts; nothing else is assumed.

* The invariant `Built` says, while routes go in, what the trie has of those taken so far: the places along
  their patterns and no others (`Grown`); at a node the name that every pattern has for the segment there
  (`Named`); at the end of a pattern, for a verb, the handler of a route of that place and verb that no
  later group has overwritten (`Held`); and `maxParse` is no smaller than any limit seen (`Allowed`). The
  properties say nothing of the trie, so none of them is inductive. That `Conflicts` compares with the
  trie, and not with the routes, and yet the order makes no difference, is `Named`. It is kept by
  `InsertRoute` only since that compares every segment, the last one and those before.
* `Match` is taken apart by an induction over the number of segments that are left (`UpTo`: over a set of
  numbers, the smallest one outside of which would not be the smallest). At every place the search finds a
  node with handlers that the segments lead to, or there is none (`RightPlace`): of those that there are it
  finds the one before all others, where static goes before dynamic at the first difference
  (`GoesBefore`), however far the abandoned branches went. What it adds to `params` are names of nodes
  below the place, and those of the way to the node found have their segments (`RightParams`); here the
  abandoned branches could do harm, and `NamesDiffer` with `Named` is why they do not.
* What the search finds is then the reference's (`MatchIsClosest`, `LastDeclared`), since places and
  patterns are one to one among the routes in the trie (`OnePattern`).

`AnswersProofs`, about the responses, for any settings, handlers, directories, files and requests:
`CacheServesRight` and `FilesServed`. Lists of headers are lists, paths are as `IsPath` says, files have
no `..` in them, and a handler whose content goes by the language says so in its `Vary` (`HandlersVary`:
without that no server could keep what the property says, and the code leaves it to the handler).

* `Reply` is described by its headers as sets, whatever their order (`ReplyIs`): the allowed origin is that of
  the settings for the request's origin, and everything that the answer was chosen by is named. So what
  the cache holds is right for each request with the same fields (`KeptFits`), which `Faithful` says of
  all it holds and of what the last client got.
* `StaticFile` needs the text of paths: behind the prefix of the nth directory one slash is taken away and
  what is left is the file (`RelativeOfFile`), and the other way round what a directory was asked for is
  the rest of the path (`RelativeIs`). The smallest index at which the loop ends is then that of the file or
  of one before it.

The types of `Fanout`, `Server`, `RedisFanout` and `SocketIoClient` are proved and need no run; those of the
registry, the session and the HTTP/1 connection are checked by their runs too.

### Only model-checked

* Liveness (`EventuallyPassedOn`, `EventuallyRemoved`, `Answered`,
  both `ShutdownEnds`, `ReachesNodes`, `CallsEnd`, `PingsAnswered`), and the part `MayGoOn => ENABLED Server`
  of `NoStandstill`: fairness and ENABLED are out of the prover's reach.
* `NothingTwice`, and what the violated runs are about.

## 6. What the runs found

* **A socket survives its session** (`registry_orphan`). `handle_sio_connect` looks the session up
  at handler.rs:283 and publishes the socket at handler.rs:334; when `handle_disconnect` collects
  the session's sockets in between, the new one is never removed, nor are its sender and its
  rooms. handler.rs:412 says it "removes all sockets for an Engine.IO session".
* **A broadcast and a session loop wait for each other** (`fanout_stuck`). A client stops reading, its
  channel fills up, a broadcast waits in `tx.send` with `senders` locked, and with `rooms` locked if it
  is for the namespace (room.rs:155, 181). The session loop finds the pong overdue and cleans up
  itself (handler.rs:476), which needs the write locks; it is the channel's only receiver. From then on
  every broadcast, join, leave, connect and cleanup of the server waits. `NoStandstill` has a second way to
  the same end: the loop of a WebSocket session waits with its ping for its own full channel
  (handler.rs:486-489), and a broadcast waits for that channel.
* **The limiter's windows do not slide** (`server_window`). A counter begins anew with the first request after
  its window, so `max_requests` at the end of one window and as many at the beginning of the next pass
  within less than `window_secs`. rate_limiter.rs:14 calls `max_requests` "the maximum number of requests
  allowed within `window_secs` seconds", rate_limiter.rs:23 and README.md:465 speak of a sliding window.

Read in the code, and by the models so, without a run of its own: `BroadcastBuilder::to` "further restricts
the broadcast to a specific room" (socket.rs:200), but `to(a).to(b)` sends to the members of both, one after
the other (socket.rs:211-222), with two copies for who is in both. `NoDuplicates` allows those copies, and
no property takes the union for what was meant.

## 7. Not modelled

* HTTP/2 beyond what `Server` and `Router` have of it: the h2 crate keeps the protocol's state, and
  `h2_handler.rs` maps a stream to one dispatch.
* The Engine.IO codec (a digit before the packet, the separator of a polling payload): the models take
  decoded packets; the repository has unit tests for it. Binary Socket.IO packets: no constructor
  makes one.
* Cookies, redirects, the conversion of handlers' results, the text of a response; TLS and transport
  wrappers, error and type definitions.
* Text where it matters to nothing above: `Accept-Encoding` is taken as the set of codings it names, where
  the code looks for "br" and "gzip" anywhere in it, `q=0` or another word included (response.rs:63); a
  path with ".." anywhere in it, also within a name, is passed over by the static files (lib.rs:489), where
  the model has `..` as a name; prefixes of static directories are compared as text (below). Decoding a
  Socket.IO packet is total in the model; the code counts characters and uses the count as an index of
  bytes (socket_io.rs:104-108), which is not the same for a namespace that is not ASCII and may panic.
* The example application and the benchmarks.

Known behaviour that no run is about, since it is plain in the code, or nothing there promises
otherwise. The models have the steps, and the properties are stated so as to leave it out:

* Registry: `rooms()` and the adapter may disagree after two handlers of one socket `join` and `leave` at
  once; `on` or `join` by a handler that outlives its socket re-creates entries that stay; a disconnect
  handler registered while its socket is being cleaned up may be missed; a second CONNECT makes a
  second socket.
* Session: the loop of a WebSocket session sends its pings into the channel that only it receives from
  (handler.rs:486-489); when that is full it waits for itself, with a reference into the session map.
  `remove_session` then waits too, and the worker thread it runs on.
  The reader of a WebSocket whose peer is gone goes on waiting, with its permit, after the heartbeat has
  dropped the session (handler.rs:587).
* Rooms: the rooms of a broadcast are read one after the other, with deliveries in between; a socket that
  goes from the one read later to the one read earlier meanwhile gets nothing.
* HTTP/1, a chunk split over two reads: `parse_chunked_body` returns 0 consumed bytes, the loop at lib.rs:876
  drains nothing and parses again, without an await: the connection neither reads on nor sees the cancel
  token, and one worker thread is lost. With a cut after a whole chunk the request is dispatched with what
  there is of its body; with one before the last empty line, `drain` panics. Reads are of at most 1024 bytes
  (lib.rs:750), so that no larger chunk comes in one. All three happen in the `http` run.
* HTTP/1: a request line split over two reads is refused with 400; what is pipelined behind a streamed
  body goes to the handler with it, or is lost; the answer to a request that the parser refuses overtakes
  those of the requests before it, and what is behind it in the buffer is dropped; a streamed body that is
  not read to its end is parsed as requests. All of that happens in the `http` run too. An answer to a client
  that does not read is waited for without a timeout, also at a shutdown (response.rs:146). Large
  POSTs to the Socket.IO path are streamed to the router instead.
* Router: a streamed body is compared with the largest limit of all groups only, its route's own is
  applied to the buffered payload, which is empty (lib.rs:651, against README.md:519-540 of the
  repository). Over HTTP/2 the path is the URI as text, scheme and authority included if the request
  has an `:authority` (h2_handler.rs:20, against README.md:602).
* Responses: what the HTTP/1 parser refuses is answered at lib.rs:912 without `apply_security_headers`, and a
  body over the limit over HTTP/2 with a bare 413 (h2_handler.rs:120), against lib.rs:244 ("every response");
  nothing is compressed over HTTP/2 (against README.md:602); with CORS a handler's own `Vary` is removed
  (lib.rs:368), which is why `CacheServesRight` asks for the handler's variant only without CORS; a directory
  that does not exist ends the search for a static file (lib.rs:498), where every other failure goes on to
  the next. A prefix is compared as text (lib.rs:487), so that `/up` is also asked for `/upload/x`, as the
  file `load/x`; the model's names are whole, and it leaves that out.
* Server: the limiter counts connections and not requests
  (README.md:468); an error of `accept` ends `run_server` (lib.rs:1114); HTTP/2 streams are not tracked
  and not waited for (h2_handler.rs:99). The limiter's `u32` counter would wrap after 2^32 checks in one
  window.
* Redis: an adapter given to `set_adapter` publishes and never subscribes (mod.rs:220, 228); what is
  published while a subscriber is away is lost.
* Client: an id stays in `ack_pending` when its call times out or cannot be sent (client.rs:297); the send
  is not under the timeout; `emit_with_ack` inside a handler always times out; `disconnect` leaves the
  WebSocket and the tasks up (client.rs:320); events before `on` are dropped; a bare number as
  authentication data is read back as an id.

## 8. Plan for what is left

1. HTTP/2 flow: a stream's body against its limits, several streams of one connection at a shutdown.
2. The Engine.IO codec with polling payloads, in `SioPacket`'s manner, composed with `EngineSession`.
3. Client and server together: `SocketIoClient` against `SocketRegistry` instead of an environment.

Proofs next: `NothingTwice`, and what exactly is lost by each way in which a connection strays; the
params that an abandoned branch leaves behind, as which names a handler may find beside its own.
