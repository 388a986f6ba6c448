------------------------------- MODULE Router -------------------------------
(***************************************************************************)
(* From the routes an application declares to the answer of a request:     *)
(* the groups are put into a trie of path segments when the server starts, *)
(* in the order in which a HashMap happens to yield the routes of a group; *)
(* then requests are matched, over HTTP/1 and HTTP/2.                      *)
(*                                                                         *)
(* The trie is a function from the place of a node, the sequence of edges  *)
(* that leads to it, to the node.  Handlers run at once and are known by   *)
(* their route; the middlewares they are wrapped in by their names.        *)
(*                                                                         *)
(* Source: engine/src/core/{routes,h2_handler}.rs, engine/src/lib.rs.      *)
(***************************************************************************)
EXTENDS Naturals, Sequences, Lists

CONSTANTS
  Setups,      \* what applications declare: sets of routes
  Groups,      \* the groups in the order they were added: limit and middlewares
  Middlewares, \* use_middleware on the server: names, in that order
  MaxBodySize, \* set_max_body_size on the server
  Threshold,   \* stream_threshold
  Cors,        \* set_cors was called
  Calls,       \* bound: the requests looked at
  NoLimit,     \* None
  NoParam,     \* None
  Dynamic      \* the edge of a dynamic segment

Verbs == {"GET", "POST", "PUT", "PATCH", "DELETE", "HEAD", "OPTIONS"}

Patterns == Seq([kind : {"static", "dynamic"}, name : STRING])

ASSUME RouterAssumption ==
  /\ Setups \subseteq SUBSET [verb : STRING, pattern : Patterns, group : 1..Len(Groups)]
  /\ Groups \in Seq([limit : Nat \cup {NoLimit}, mws : Seq(STRING)])
  /\ Middlewares \in Seq(STRING)
  /\ MaxBodySize \in Nat /\ Threshold \in Nat
  /\ Calls \subseteq [method : STRING, path : Seq(STRING), length : Nat, h2 : BOOLEAN, authority : BOOLEAN]
  /\ NoLimit \notin Nat /\ NoParam \notin STRING /\ Dynamic \notin STRING

VARIABLES
  setup,   \* the routes of this application
  phase,   \* startup, or what came of it
  group,   \* the group that is initialised
  todo,    \* its routes that are not in the trie yet
  trie,    \* routes_tree
  maxParse \* max_seen, later max_parser_body_size

routerVars == <<setup, phase, group, todo, trie, maxParse>>

EmptyNode == [handlers |-> <<>>, param |-> NoParam]

RouterInit ==
  /\ setup \in Setups
  /\ phase = "startup"
  /\ group = 0
  /\ todo = {}
  /\ trie = [p \in {<<>>} |-> EmptyNode]
  /\ maxParse = MaxBodySize

-----------------------------------------------------------------------------
(* Startup: initialize_routes. *)

\* What runs before a handler wrapped in mws, the outermost first.
Chain(mws, inner) ==
  LET wrapped[n \in 0..Len(mws)] ==
        IF n = 0 THEN inner ELSE <<mws[Len(mws) + 1 - n]>> \o wrapped[n - 1]
  IN wrapped[Len(mws)]

IsDynamic(seg) == seg.kind = "dynamic"

\* The place of the node that the first n segments of a pattern lead to.
Place(pattern, n) == [i \in 1..n |-> IF IsDynamic(pattern[i]) THEN Dynamic ELSE pattern[i].name]

\* Mutation: only the last segment of a pattern is compared.
ConflictsAtLeaf(t, pattern) ==
  LET last == Len(pattern)
  IN /\ last > 0 /\ IsDynamic(pattern[last]) /\ Place(pattern, last - 1) \in DOMAIN t
     /\ t[Place(pattern, last - 1)].param \notin {NoParam, pattern[last].name}

\* A dynamic segment where another name is in use already.
Conflicts(t, pattern) ==
  \E i \in DOMAIN pattern :
    /\ IsDynamic(pattern[i])
    /\ Place(pattern, i - 1) \in DOMAIN t
    /\ t[Place(pattern, i - 1)].param \notin {NoParam, pattern[i].name}

\* f, and g where f has nothing.
Over(f, g) == [x \in DOMAIN f \cup DOMAIN g |-> IF x \in DOMAIN f THEN f[x] ELSE g[x]]

\* recursive_insert: the nodes along the pattern are made where they are
\* missing; the handler takes the place of an earlier one of the verb.
Inserted(t, pattern, verb, handler) ==
  LET places == {Place(pattern, n) : n \in 0..Len(pattern)}
      Old(p) == IF p \in DOMAIN t THEN t[p] ELSE EmptyNode
      Param(p) == IF Len(p) < Len(pattern) /\ IsDynamic(pattern[Len(p) + 1])
                  THEN pattern[Len(p) + 1].name
                  ELSE Old(p).param
      Held(p) == IF Len(p) = Len(pattern)
                 THEN Over([v \in {verb} |-> handler], Old(p).handlers)
                 ELSE Old(p).handlers
  IN Over([p \in places |-> [handlers |-> Held(p), param |-> Param(p)]], t)

\* Mutation: only the server's own limit counts.
NextGroupOwn ==
  /\ phase = "startup" /\ todo = {} /\ group < Len(Groups)
  /\ group' = group + 1
  /\ todo' = {r \in setup : r.group = group + 1}
  /\ UNCHANGED <<setup, phase, trie, maxParse>>

NextGroup ==
  /\ phase = "startup" /\ todo = {} /\ group < Len(Groups)
  /\ group' = group + 1
  /\ todo' = {r \in setup : r.group = group + 1}
  /\ LET limit == Groups[group + 1].limit
     IN maxParse' = IF limit # NoLimit /\ limit > maxParse THEN limit ELSE maxParse
  /\ UNCHANGED <<setup, phase, trie>>

\* A route whose verb is unknown is logged and left out.
SkipRoute(r) ==
  /\ phase = "startup" /\ r \in todo /\ r.verb \notin Verbs
  /\ todo' = todo \ {r}
  /\ UNCHANGED <<setup, phase, group, trie, maxParse>>

InsertRoute(r) ==
  /\ phase = "startup" /\ r \in todo /\ r.verb \in Verbs
  /\ ~Conflicts(trie, r.pattern)
  /\ todo' = todo \ {r}
  /\ trie' = Inserted(trie, r.pattern, r.verb,
                      [route |-> r, limit |-> Groups[group].limit, chain |-> Chain(Groups[group].mws, <<>>)])
  /\ UNCHANGED <<setup, phase, group, maxParse>>

InsertPanics(r) ==
  /\ phase = "startup" /\ r \in todo /\ r.verb \in Verbs
  /\ Conflicts(trie, r.pattern)
  /\ phase' = "panicked"
  /\ UNCHANGED <<setup, group, todo, trie, maxParse>>

Serve ==
  /\ phase = "startup" /\ todo = {} /\ group = Len(Groups)
  /\ phase' = "serving"
  /\ UNCHANGED <<setup, group, todo, trie, maxParse>>

RouterNext == NextGroup \/ Serve \/ \E r \in todo : SkipRoute(r) \/ InsertRoute(r) \/ InsertPanics(r)

RouterSpec == RouterInit /\ [][RouterNext]_routerVars

-----------------------------------------------------------------------------
(* Serving: matching is a function of the trie, which changes no more. *)

\* Nothing found: what is left are the params that were put in on the way.
Missed(params) == [found |-> FALSE, at |-> <<>>, params |-> params]

NoParams == [name \in {} |-> name]

\* Mutation: a static child that leads nowhere ends the search.
TrialEager(m, at, segments) ==
  LET segment == segments[Len(at) + 1]
      static  == Append(at, segment)
      dynamic == Append(at, Dynamic)
  IN IF Len(at) >= Len(segments)
     THEN IF DOMAIN trie[at].handlers = {} THEN Missed(NoParams) ELSE [found |-> TRUE, at |-> at, params |-> NoParams]
     ELSE IF static \in DOMAIN trie THEN m[static]
     ELSE IF dynamic \notin DOMAIN trie THEN Missed(NoParams)
     ELSE [m[dynamic] EXCEPT !.params = Over(@, [name \in {trie[at].param} |-> segment])]

\* match_recursive at a node: m is what it returns for the children.  The static
\* child first, then the dynamic one, over whose params a later one of the same
\* name is put.  What an abandoned branch put into params stays there.
Trial(m, at, segments) ==
  LET segment == segments[Len(at) + 1]
      static  == Append(at, segment)
      dynamic == Append(at, Dynamic)
      first   == IF static \in DOMAIN trie THEN m[static] ELSE Missed(NoParams)
      before  == Over([name \in {trie[at].param} |-> segment], first.params)
  IN IF Len(at) >= Len(segments)
     THEN IF DOMAIN trie[at].handlers = {} THEN Missed(NoParams) ELSE [found |-> TRUE, at |-> at, params |-> NoParams]
     ELSE IF first.found \/ dynamic \notin DOMAIN trie THEN first
     ELSE [m[dynamic] EXCEPT !.params = Over(@, before)]

Match(segments) ==
  LET m[at \in DOMAIN trie] == Trial(m, at, segments)
  IN m[<<>>]

Skipped == {"", ".", ".."}

\* Route::find: the segments of a path.
Segments(path) == Picked(path, {i \in DOMAIN path : path[i] \notin Skipped})

Outcome(status) == [status |-> status, route |-> {}, params |-> NoParams, chain |-> <<>>]

LimitOf(handler) == IF handler.limit = NoLimit THEN MaxBodySize ELSE handler.limit

\* resolve_route for a request with so much of its body in payload.  A path
\* that no route matches may still be that of a static file.
ResolveRoute(method, path, payload) ==
  LET lookup == IF method = "HEAD" THEN "GET" ELSE method
      match  == Match(Segments(path))
      verbs  == trie[match.at].handlers
  IN IF method = "OPTIONS" /\ Cors THEN Outcome("no_content")
     ELSE IF ~match.found THEN Outcome(IF lookup = "GET" THEN "static_or_not_found" ELSE "not_found")
     ELSE IF lookup \notin DOMAIN verbs THEN Outcome("wrong_method")
     ELSE IF payload > LimitOf(verbs[lookup]) THEN Outcome("too_large")
     ELSE [status |-> "handled", route |-> {verbs[lookup].route},
           params |-> match.params, chain |-> Chain(Middlewares, verbs[lookup].chain)]

\* An HTTP/1 body over the threshold is streamed: payload is empty.
Streamed(req) == ~req.h2 /\ Threshold > 0 /\ req.length > Threshold

AnswerH1(req) ==
  IF req.length > maxParse THEN Outcome("too_large")
  ELSE ResolveRoute(req.method, req.path, IF Streamed(req) THEN 0 ELSE req.length)

\* h2_parts_to_payload: the path is the whole URI as text; with an :authority,
\* as user agents send it, its scheme and authority come first.
PathH2(req) == IF req.authority THEN <<"https:", "", "authority">> \o req.path ELSE req.path

\* handle_h2_stream gathers the whole body first, and gives up over the limit.
AnswerH2(req) ==
  IF req.length > maxParse THEN Outcome("too_large") ELSE ResolveRoute(req.method, PathH2(req), req.length)

Answer(req) == IF req.h2 THEN AnswerH2(req) ELSE AnswerH1(req)

-----------------------------------------------------------------------------
\* The reference: what the declared routes say, with no trie.
Declared == {r \in setup : r.verb \in Verbs}

Fits(pattern, segments) ==
  /\ Len(pattern) = Len(segments)
  /\ \A i \in DOMAIN pattern : IsDynamic(pattern[i]) \/ pattern[i].name = segments[i]

\* A pattern goes before another if, where they first differ in kind, it is static.
Closer(p, q) ==
  \E i \in DOMAIN p :
    /\ ~IsDynamic(p[i]) /\ IsDynamic(q[i])
    /\ \A j \in 1..(i - 1) : IsDynamic(p[j]) <=> IsDynamic(q[j])

\* The patterns of all routes that fit, and the closest of them.
Closest(segments) ==
  LET fitting == {r.pattern : r \in {s \in Declared : Fits(s.pattern, segments)}}
  IN {p \in fitting : \A q \in fitting : ~Closer(q, p)}

\* The route declared last for the pattern and the method, in the order of the groups.
RouteFor(pattern, method) ==
  LET routes == {r \in Declared : r.pattern = pattern /\ r.verb = method}
  IN {r \in routes : \A s \in routes : s.group <= r.group}

\* No pattern names two segments alike.
NamesDiffer ==
  \A r \in Declared : \A i, j \in DOMAIN r.pattern :
    IsDynamic(r.pattern[i]) /\ IsDynamic(r.pattern[j]) /\ r.pattern[i].name = r.pattern[j].name => i = j

\* Whatever the order in which a HashMap yields the routes, a request gets the
\* route that the declarations say: the most static pattern that fits, with
\* backtracking, in it the route of the method (that of GET for HEAD), inside
\* the server's middlewares and then the group's, each in order; every
\* parameter of that route has its segment, if no pattern names two alike; over
\* HTTP/2 for requests without an :authority (routes.rs:34-83, lib.rs:649-701).
RoutesAsDeclared ==
  phase = "serving" =>
    \A req \in {q \in Calls : q.length = 0 /\ ~q.authority} :
      LET segments == Segments(req.path)
          best     == Closest(segments)
          routes   == UNION {RouteFor(p, IF req.method = "HEAD" THEN "GET" ELSE req.method) : p \in best}
          answer   == Answer(req)
      IN req.method # "OPTIONS" \/ ~Cors =>
           /\ answer.route = routes
           /\ (best = {}) <=> answer.status \in {"not_found", "static_or_not_found"}
           /\ \A r \in answer.route :
                /\ answer.chain = Middlewares \o Groups[r.group].mws
                /\ \A i \in DOMAIN r.pattern :
                     IsDynamic(r.pattern[i]) /\ NamesDiffer => answer.params[r.pattern[i].name] = segments[i]

\* Two patterns that name one segment differently.
Disagree(p, q) ==
  \E i \in DOMAIN p \cap DOMAIN q :
    /\ IsDynamic(p[i]) /\ IsDynamic(q[i]) /\ p[i].name # q[i].name
    /\ Place(p, i - 1) = Place(q, i - 1)

\* The server starts or panics for every order in the same way: it panics if
\* two patterns name one segment differently (routes.rs:103-111).
PanicsOnConflict ==
  LET conflict == \E r, s \in Declared : Disagree(r.pattern, s.pattern)
  IN /\ phase = "panicked" => conflict
     /\ phase = "serving" => ~conflict

\* The limit of a group takes precedence over the server's, in both directions
\* (README.md:540 of the repository), for every body that is not streamed.
LimitsAsDeclared ==
  phase = "serving" =>
    \A req \in {q \in Calls : ~Streamed(q) /\ ~q.authority} :
      LET free  == Answer([req EXCEPT !.length = 0])
          own   == {Groups[r.group].limit : r \in free.route} \ {NoLimit}
          limit == IF own = {} THEN MaxBodySize ELSE CHOOSE l \in own : TRUE
      IN free.status = "handled" => (Answer(req).status = "handled" <=> req.length <= limit)

=============================================================================
