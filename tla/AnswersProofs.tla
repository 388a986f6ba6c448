---------------------------- MODULE AnswersProofs ----------------------------
(***************************************************************************)
(* Theorems about the answers of the server: for every set of routes, in   *)
(* every order in which they are inserted, and every request, the handler  *)
(* and the limit that it gets (Router); for every handler, setting, set of *)
(* directories and request, the response, the one that a cache serves, and *)
(* the file (Responses).  A recursive function is taken apart by UpTo, an  *)
(* induction over a set of numbers.                                        *)
(***************************************************************************)
EXTENDS Router, Responses, SequenceTheorems, WellFoundedInduction, TLAPS

LEMMA Smallest ==
  ASSUME NEW T, T \subseteq Nat, T # {}
  PROVE  \E x \in T : \A y \in T : x <= y
<1> DEFINE R == OpToRel(<, Nat)
<1>1. IsWellFoundedOn(R, Nat)
  BY NatLessThanWellFounded
<1>2. PICK x \in T : \A y \in T : <<y, x>> \notin R
  BY <1>1, WFMin
<1>3. \A y \in T : ~(y < x)
  BY <1>2 DEF OpToRel
<1> HIDE DEF R
<1>4. x \in Nat /\ \A y \in T : y \in Nat
  BY <1>2
<1>5. QED
  BY <1>2, <1>3, <1>4

\* Induction up to a number, over a set instead of a formula.
LEMMA UpTo ==
  ASSUME NEW N \in Nat, NEW T, 0 \in T, \A n \in 1..N : n - 1 \in T => n \in T
  PROVE  0..N \subseteq T
<1> SUFFICES ASSUME (0..N) \ T # {} PROVE FALSE
  OBVIOUS
<1>1. PICK n \in (0..N) \ T : \A k \in (0..N) \ T : n <= k
  <2> HIDE DEF Nat
  <2>1. (0..N) \ T \subseteq Nat
    OBVIOUS
  <2> QED
    BY <2>1, Smallest
<1>2. n \in 1..N /\ n - 1 \in T
  BY <1>1
<1> QED
  BY <1>1, <1>2

-----------------------------------------------------------------------------
(* What the recursive functions of Router and Lists yield. *)

LEMMA Behinds ==
  ASSUME NEW s \in Seq(STRING), NEW t \in Seq(STRING), NEW n \in 1..Len(s)
  PROVE  SubSeq(s, Len(s) + 1 - n, Len(s)) \o t
           = <<s[Len(s) + 1 - n]>> \o (SubSeq(s, Len(s) + 1 - (n - 1), Len(s)) \o t)
<1> DEFINE a == SubSeq(s, Len(s) + 1 - n, Len(s)) \o t
           b == <<s[Len(s) + 1 - n]>> \o (SubSeq(s, Len(s) + 1 - (n - 1), Len(s)) \o t)
<1>0. s[Len(s) + 1 - n] \in STRING
  OBVIOUS
<1>1. a \in Seq(STRING) /\ Len(a) = n + Len(t)
  OBVIOUS
<1>2. SubSeq(s, Len(s) + 1 - (n - 1), Len(s)) \in Seq(STRING) /\ Len(SubSeq(s, Len(s) + 1 - (n - 1), Len(s))) = n - 1
  OBVIOUS
<1>3. b \in Seq(STRING) /\ Len(b) = n + Len(t)
  BY <1>0, <1>2
<1>4. \A i \in 1..(n + Len(t)) : a[i] = b[i]
  BY <1>0, <1>2
<1> QED
  BY <1>1, <1>3, <1>4

\* A handler wrapped in middlewares runs behind them, in their order.
LEMMA ChainIs ==
  ASSUME NEW mws \in Seq(STRING), NEW inner \in Seq(STRING)
  PROVE  Chain(mws, inner) = mws \o inner
<1> DEFINE N == Len(mws)
           Rest(n) == SubSeq(mws, N + 1 - n, N) \o inner
           Around(f, n) == IF n = 0 THEN inner ELSE <<mws[N + 1 - n]>> \o f[n - 1]
           Wrapped(f) == f = [n \in 0..N |-> Around(f, n)]
           g == [n \in 0..N |-> Rest(n)]
<1>1. N \in Nat /\ N \in 0..N
  OBVIOUS
<1>2. Rest(0) = inner
  <2>1. SubSeq(mws, N + 1, N) = <<>>
    OBVIOUS
  <2> QED
    BY <2>1
<1>3. Rest(N) = mws \o inner
  <2>1. SubSeq(mws, 1, N) = mws
    OBVIOUS
  <2>2. N + 1 - N = 1
    BY <1>1
  <2> QED
    BY <2>1, <2>2, Zenon
<1>4. \A n \in 1..N : Rest(n) = <<mws[N + 1 - n]>> \o Rest(n - 1)
  BY Behinds
<1> HIDE DEF Rest
<1>5. \A n \in 0..N : Rest(n) = Around(g, n)
  <2> SUFFICES ASSUME NEW n \in 0..N PROVE Rest(n) = Around(g, n)
    OBVIOUS
  <2>1. CASE n = 0
    BY <1>2, <2>1
  <2>2. CASE n # 0
    <3>1. n \in 1..N /\ n - 1 \in 0..N /\ g[n - 1] = Rest(n - 1)
      BY <1>1, <2>2
    <3> HIDE DEF g
    <3> QED
      BY <1>4, <2>2, <3>1
  <2> QED
    BY <2>1, <2>2
<1>6. Wrapped(g)
  <2> HIDE DEF Around
  <2> QED
    BY <1>5
<1>7. ASSUME NEW f, Wrapped(f) PROVE f[N] = mws \o inner
  <2> DEFINE T == {n \in 0..N : f[n] = Rest(n)}
  <2>1. \A n \in 0..N : f[n] = Around(f, n)
    <3> HIDE DEF Around
    <3> QED
      BY <1>7
  <2>2. 0 \in 0..N /\ f[0] = Rest(0)
    <3>1. 0 \in 0..N
      BY <1>1
    <3>2. f[0] = inner
      BY <2>1, <3>1, Zenon
    <3> QED
      BY <1>2, <3>1, <3>2, Zenon
  <2>3. ASSUME NEW n \in 1..N, f[n - 1] = Rest(n - 1) PROVE n \in 0..N /\ f[n] = Rest(n)
    <3>1. n \in 0..N /\ n # 0
      BY <1>1
    <3>2. f[n] = <<mws[N + 1 - n]>> \o f[n - 1]
      BY <2>1, <3>1, Zenon
    <3> QED
      BY <1>4, <2>3, <3>1, <3>2, Zenon
  <2> HIDE DEF N
  <2>4. N \in T
    <3>1. \A n \in 1..N : n - 1 \in T => n \in T
      BY <2>3
    <3>2. 0 \in T
      BY <2>2
    <3> HIDE DEF T
    <3> QED
      BY <1>1, <3>1, <3>2, UpTo
  <2> QED
    BY <1>3, <2>4
<1> QED
  <2> DEFINE w == CHOOSE f : Wrapped(f)
  <2>1. Wrapped(w)
    <3> HIDE DEF g
    <3> QED
      BY <1>6, Zenon
  <2>2. Chain(mws, inner) = w[N]
    BY Zenon DEF Chain
  <2> HIDE DEF w, Wrapped, N
  <2> QED
    BY <1>7, <2>1, <2>2, Zenon

\* What is picked of a list has its members.
LEMMA PickedType ==
  ASSUME NEW S, NEW list \in Seq(S), NEW indices
  PROVE  Picked(list, indices) \in Seq(S)
<1> DEFINE N == Len(list)
           After(f, n) == IF n = 0 THEN <<>>
                          ELSE IF n \in indices THEN Append(f[n - 1], list[n])
                          ELSE f[n - 1]
           Kept(f, k) == f \in [0..k -> Seq(S)] /\ \A n \in 0..k : f[n] = After(f, n)
           T == {k \in 0..N : \E f : Kept(f, k)}
<1>1. N \in Nat /\ N \in 0..N /\ \A n \in 1..N : n \in 0..N /\ list[n] \in S
  OBVIOUS
<1>2. Kept([n \in 0..0 |-> <<>>], 0)
  OBVIOUS
<1>3. ASSUME NEW k \in 1..N, NEW f, Kept(f, k - 1) PROVE \E g : Kept(g, k)
  <2> DEFINE g == [n \in 0..k |-> IF n = k THEN After(f, k) ELSE f[n]]
  <2>1. \A n \in 0..k : n # k => n \in 0..(k - 1) /\ f[n] \in Seq(S)
    BY <1>3
  <2>2. After(f, k) \in Seq(S)
    <3>1. f[k - 1] \in Seq(S)
      BY <1>3
    <3>2. list[k] \in S /\ k # 0
      BY <1>1
    <3>3. After(f, k) = IF k \in indices THEN Append(f[k - 1], list[k]) ELSE f[k - 1]
      BY <3>2, Zenon
    <3>4. Append(f[k - 1], list[k]) \in Seq(S)
      BY <3>1, <3>2
    <3> QED
      BY <3>1, <3>3, <3>4, Zenon
  <2>3. g \in [0..k -> Seq(S)]
    <3> HIDE DEF After
    <3> QED
      BY <2>1, <2>2
  <2>4. ASSUME NEW n \in 0..k PROVE g[n] = After(g, n)
    <3>1. n # 0 => g[n - 1] = f[n - 1]
      OBVIOUS
    <3>2. After(g, n) = After(f, n)
      <4> HIDE DEF g
      <4> QED
        BY <3>1
    <3>3. g[n] = After(f, n)
      <4>1. n # k => f[n] = After(f, n)
        BY <1>3, <2>1
      <4> HIDE DEF After
      <4> QED
        BY <4>1
    <3> HIDE DEF After, g
    <3> QED
      BY <3>2, <3>3
  <2>5. Kept(g, k)
    <3> HIDE DEF After, g
    <3> QED
      BY <2>3, <2>4
  <2> HIDE DEF Kept, g
  <2> QED
    BY <2>5
<1>4. PICK f : Kept(f, N)
  <2> HIDE DEF N, Kept
  <2>1. 0 \in T
    BY <1>1, <1>2
  <2>2. \A k \in 1..N : k - 1 \in T => k \in T
    BY <1>1, <1>3
  <2>3. N \in T
    <3> HIDE DEF T
    <3> QED
      BY <1>1, <2>1, <2>2, UpTo
  <2> QED
    BY <2>3
<1> QED
  <2> DEFINE Is(h) == h = [n \in 0..N |-> After(h, n)]
             w == CHOOSE h : Is(h)
  <2>1. Is(f)
    <3> HIDE DEF After
    <3> QED
      BY <1>4
  <2>2. Is(w)
    BY <2>1, Zenon
  <2>3. Picked(list, indices) = w[N]
    BY Zenon DEF Picked
  <2> HIDE DEF w
  <2>4. \A n \in 0..N : w[n] = After(w, n)
    <3> HIDE DEF After
    <3> QED
      BY <2>2
  <2> DEFINE U == {n \in 0..N : w[n] \in Seq(S)}
  <2>5. 0 \in 0..N /\ w[0] \in Seq(S)
    <3>1. 0 \in 0..N
      BY <1>1
    <3>2. w[0] = <<>>
      BY <2>4, <3>1, Zenon
    <3> QED
      BY <3>1, <3>2
  <2>6. ASSUME NEW n \in 1..N, w[n - 1] \in Seq(S) PROVE w[n] \in Seq(S)
    <3>1. n \in 0..N /\ n # 0 /\ list[n] \in S
      BY <1>1
    <3>2. w[n] = IF n \in indices THEN Append(w[n - 1], list[n]) ELSE w[n - 1]
      BY <2>4, <3>1, Zenon
    <3>3. Append(w[n - 1], list[n]) \in Seq(S)
      BY <2>6, <3>1
    <3> QED
      BY <2>6, <3>2, <3>3, Zenon
  <2> HIDE DEF N
  <2>7. N \in U
    <3>1. 0 \in U
      BY <2>5
    <3>2. \A n \in 1..N : n - 1 \in U => n \in U
      BY <1>1, <2>6
    <3> HIDE DEF U
    <3> QED
      BY <1>1, <3>1, <3>2, UpTo
  <2> QED
    BY <2>3, <2>7

\* The segments of a path are strings.
LEMMA SegmentsType ==
  ASSUME NEW path \in Seq(STRING)
  PROVE  Segments(path) \in Seq(STRING)
<1>1. Segments(path) = Picked(path, {i \in DOMAIN path : path[i] \notin Skipped})
  BY Zenon DEF Segments
<1> QED
  BY <1>1, PickedType, Zenon

-----------------------------------------------------------------------------
(***************************************************************************)
(* The trie while the server starts: it has the routes taken so far, and   *)
(* nothing else.                                                           *)
(***************************************************************************)
Edges == STRING \cup {Dynamic}

\* The routes that are in the trie, unless a later one took their place.
Taken == {r \in Declared : r.group <= group /\ r \notin todo}

Places(pattern) == {Place(pattern, n) : n \in 0..Len(pattern)}

Leaf(r) == Place(r.pattern, Len(r.pattern))

\* The nodes are the places along the patterns.
Grown == DOMAIN trie = {<<>>} \cup UNION {Places(r.pattern) : r \in Taken}

\* A node's param is the name that a pattern has for the segment there, and
\* every pattern that has one has the same.
Named ==
  /\ \A p \in DOMAIN trie : trie[p].param \in STRING \cup {NoParam}
  /\ \A r \in Taken : \A i \in DOMAIN r.pattern :
       IsDynamic(r.pattern[i]) => trie[Place(r.pattern, i - 1)].param = r.pattern[i].name
  /\ \A p \in DOMAIN trie : trie[p].param # NoParam =>
       \E r \in Taken : \E i \in DOMAIN r.pattern :
         IsDynamic(r.pattern[i]) /\ Place(r.pattern, i - 1) = p /\ r.pattern[i].name = trie[p].param

\* A handler is that of the latest route of its place and verb, with the limit
\* and the middlewares of its group.
HandlerOf(r) == [route |-> r, limit |-> Groups[r.group].limit, chain |-> Chain(Groups[r.group].mws, <<>>)]

Held ==
  /\ \A p \in DOMAIN trie : \A v \in DOMAIN trie[p].handlers :
       \E r \in Taken : trie[p].handlers[v] = HandlerOf(r) /\ r.verb = v /\ Leaf(r) = p
  /\ \A r \in Taken :
       /\ r.verb \in DOMAIN trie[Leaf(r)].handlers
       /\ trie[Leaf(r)].handlers[r.verb].route.group >= r.group

\* The parser takes what the server or a group allows.
Allowed ==
  /\ maxParse \in Nat /\ maxParse >= MaxBodySize
  /\ \A g \in 1..group : Groups[g].limit # NoLimit => Groups[g].limit <= maxParse

Startup ==
  /\ setup \in Setups
  /\ phase \in {"startup", "serving", "panicked"}
  /\ group \in 0..Len(Groups)
  /\ todo \subseteq {r \in setup : r.group = group}
  /\ phase = "serving" => todo = {} /\ group = Len(Groups)
  /\ phase = "panicked" => \E r, s \in Declared : Disagree(r.pattern, s.pattern)

Built == Startup /\ Grown /\ Named /\ Held /\ Allowed

(***************************************************************************)
(* Places.                                                                 *)
(***************************************************************************)
LEMMA SegmentType ==
  ASSUME NEW pattern \in Patterns
  PROVE  /\ Len(pattern) \in Nat /\ DOMAIN pattern = 1..Len(pattern)
         /\ \A i \in DOMAIN pattern :
              /\ pattern[i] = [kind |-> pattern[i].kind, name |-> pattern[i].name]
              /\ pattern[i].kind \in {"static", "dynamic"}
              /\ pattern[i].name \in STRING
<1> DEFINE S == [kind : {"static", "dynamic"}, name : STRING]
<1>1. pattern \in Seq(S)
  BY Zenon DEF Patterns
<1>2. \A x \in S : x = [kind |-> x.kind, name |-> x.name] /\ x.kind \in {"static", "dynamic"} /\ x.name \in STRING
  OBVIOUS
<1> HIDE DEF S
<1>3. Len(pattern) \in Nat /\ DOMAIN pattern = 1..Len(pattern) /\ \A i \in DOMAIN pattern : pattern[i] \in S
  BY <1>1
<1> QED
  BY <1>2, <1>3, Zenon

LEMMA PlaceType ==
  ASSUME NEW pattern \in Patterns, NEW n \in 0..Len(pattern)
  PROVE  /\ Place(pattern, n) \in Seq(Edges)
         /\ Len(Place(pattern, n)) = n
         /\ \A i \in 1..n : Place(pattern, n)[i] = IF IsDynamic(pattern[i]) THEN Dynamic ELSE pattern[i].name
<1> DEFINE E(i) == IF IsDynamic(pattern[i]) THEN Dynamic ELSE pattern[i].name
<1>1. \A i \in 1..n : E(i) \in Edges
  BY SegmentType DEF Edges
<1>2. Place(pattern, n) = [i \in 1..n |-> E(i)]
  BY Zenon DEF Place
<1>3. n \in Nat
  BY SegmentType
<1>4. \A i \in 1..n : Place(pattern, n)[i] = E(i)
  BY <1>2, Zenon
<1> HIDE DEF E
<1>5. Place(pattern, n) \in Seq(Edges) /\ Len(Place(pattern, n)) = n
  BY <1>1, <1>2, <1>3
<1> QED
  BY <1>4, <1>5 DEF E

\* Equal places are reached through segments of the same kinds, and of the same
\* names where they are static.
LEMMA PlacesAgree ==
  ASSUME NEW p \in Patterns, NEW q \in Patterns, NEW n \in 0..Len(p), NEW m \in 0..Len(q),
         Place(p, n) = Place(q, m)
  PROVE  /\ n = m
         /\ \A i \in 1..n : /\ IsDynamic(p[i]) <=> IsDynamic(q[i])
                            /\ ~IsDynamic(p[i]) => p[i].name = q[i].name
         /\ \A i \in 0..n : Place(p, i) = Place(q, i)
<1>1. n = m
  BY PlaceType
<1>2. ASSUME NEW i \in 1..n
      PROVE  /\ IsDynamic(p[i]) <=> IsDynamic(q[i])
             /\ ~IsDynamic(p[i]) => p[i].name = q[i].name
  <2>1. i \in DOMAIN p /\ i \in DOMAIN q
    BY <1>1, SegmentType
  <2>2. p[i].name \in STRING /\ q[i].name \in STRING
    BY <2>1, SegmentType
  <2>3. (IF IsDynamic(p[i]) THEN Dynamic ELSE p[i].name) = (IF IsDynamic(q[i]) THEN Dynamic ELSE q[i].name)
    BY <1>1, PlaceType
  <2> QED
    BY <2>2, <2>3, RouterAssumption
<1>3. ASSUME NEW i \in 0..n PROVE Place(p, i) = Place(q, i)
  <2>1. \A j \in 1..i : j \in 1..n
    OBVIOUS
  <2> QED
    BY <1>2, <2>1 DEF Place
<1> QED
  BY <1>1, <1>2, <1>3

LEMMA PlaceEmpty ==
  ASSUME NEW pattern
  PROVE  Place(pattern, 0) = <<>>
  BY DEF Place

-----------------------------------------------------------------------------
(* Init and the steps. *)

LEMMA RouteType ==
  ASSUME setup \in Setups, NEW r \in setup
  PROVE  /\ r = [verb |-> r.verb, pattern |-> r.pattern, group |-> r.group]
         /\ r.pattern \in Patterns
         /\ r.group \in 1..Len(Groups)
<1>1. r \in [verb : STRING, pattern : Patterns, group : 1..Len(Groups)]
  BY RouterAssumption
<1> HIDE DEF Patterns
<1> QED
  BY <1>1

LEMMA GroupType ==
  ASSUME NEW g \in 1..Len(Groups)
  PROVE  Groups[g].limit \in Nat \cup {NoLimit} /\ Groups[g].mws \in Seq(STRING)
<1> DEFINE S == [limit : Nat \cup {NoLimit}, mws : Seq(STRING)]
<1>1. Groups \in Seq(S)
  BY RouterAssumption, Zenon
<1>2. \A x \in S : x.limit \in Nat \cup {NoLimit} /\ x.mws \in Seq(STRING)
  OBVIOUS
<1> HIDE DEF S
<1>3. Groups[g] \in S
  BY <1>1
<1> QED
  BY <1>2, <1>3, Zenon

LEMMA OverIs ==
  ASSUME NEW f, NEW g
  PROVE  /\ DOMAIN Over(f, g) = DOMAIN f \cup DOMAIN g
         /\ \A x \in DOMAIN f : Over(f, g)[x] = f[x]
         /\ \A x \in DOMAIN g : x \notin DOMAIN f => Over(f, g)[x] = g[x]
  BY DEF Over

OldNode(t, p) == IF p \in DOMAIN t THEN t[p] ELSE EmptyNode

\* The node that the first n segments of a pattern lead to, before and after.
NodeGrows(old, node, pattern, n, verb, handler) ==
  /\ node.param = IF n < Len(pattern) /\ IsDynamic(pattern[n + 1]) THEN pattern[n + 1].name ELSE old.param
  /\ node.handlers = IF n = Len(pattern) THEN Over([v \in {verb} |-> handler], old.handlers) ELSE old.handlers

\* What recursive_insert makes of a trie.
TrieGrows(t, new, pattern, verb, handler) ==
  /\ DOMAIN new = Places(pattern) \cup DOMAIN t
  /\ \A p \in DOMAIN t : p \notin Places(pattern) => new[p] = t[p]
  /\ \A n \in 0..Len(pattern) :
       LET p == Place(pattern, n)
       IN p \in Places(pattern) /\ NodeGrows(OldNode(t, p), new[p], pattern, n, verb, handler)

LEMMA InsertedIs ==
  ASSUME NEW t, NEW pattern \in Patterns, NEW verb, NEW handler
  PROVE  TrieGrows(t, Inserted(t, pattern, verb, handler), pattern, verb, handler)
<1> DEFINE places == Places(pattern)
           Param(p) == IF Len(p) < Len(pattern) /\ IsDynamic(pattern[Len(p) + 1])
                       THEN pattern[Len(p) + 1].name
                       ELSE OldNode(t, p).param
           Hs(p) == IF Len(p) = Len(pattern)
                    THEN Over([v \in {verb} |-> handler], OldNode(t, p).handlers)
                    ELSE OldNode(t, p).handlers
           made == [p \in places |-> [handlers |-> Hs(p), param |-> Param(p)]]
           new == Inserted(t, pattern, verb, handler)
<1>1. new = Over(made, t)
  BY Zenon DEF Inserted, Places, OldNode
<1>2. DOMAIN made = places /\ \A p \in places : made[p] = [handlers |-> Hs(p), param |-> Param(p)]
  BY Zenon
<1>3. ASSUME NEW n \in 0..Len(pattern) PROVE Len(Place(pattern, n)) = n /\ Place(pattern, n) \in places
  BY PlaceType DEF Places
<1> HIDE DEF places, made, new
<1>4. /\ DOMAIN new = DOMAIN made \cup DOMAIN t
      /\ \A p \in DOMAIN made : new[p] = made[p]
      /\ \A p \in DOMAIN t : p \notin DOMAIN made => new[p] = t[p]
  <2>1. /\ DOMAIN Over(made, t) = DOMAIN made \cup DOMAIN t
        /\ \A p \in DOMAIN made : Over(made, t)[p] = made[p]
        /\ \A p \in DOMAIN t : p \notin DOMAIN made => Over(made, t)[p] = t[p]
    BY OverIs
  <2> QED
    BY <1>1, <2>1, Zenon
<1>5. ASSUME NEW p \in places PROVE new[p].handlers = Hs(p) /\ new[p].param = Param(p)
  <2> HIDE DEF Hs, Param
  <2> QED
    BY <1>2, <1>4
<1>6. DOMAIN new = places \cup DOMAIN t /\ \A p \in DOMAIN t : p \notin places => new[p] = t[p]
  BY <1>2, <1>4, Zenon
<1>7. ASSUME NEW n \in 0..Len(pattern)
      PROVE  LET p == Place(pattern, n)
             IN p \in places /\ NodeGrows(OldNode(t, p), new[p], pattern, n, verb, handler)
  BY <1>3, <1>5, Zenon DEF NodeGrows
<1> QED
  BY <1>6, <1>7, Zenon DEF places, new, TrieGrows

\* Before anything is inserted.
LEMMA BuiltInit == RouterInit => Built
<1> SUFFICES ASSUME RouterInit PROVE Built
  OBVIOUS
<1>1. Groups \in Seq([limit : Nat \cup {NoLimit}, mws : Seq(STRING)]) /\ MaxBodySize \in Nat
  BY RouterAssumption
<1>2. Len(Groups) \in Nat
  BY <1>1
<1>3. Startup
  BY <1>2 DEF RouterInit, Startup
<1>4. Taken = {}
  BY <1>3, RouteType DEF RouterInit, Taken, Declared
<1>5. DOMAIN trie = {<<>>} /\ trie[<<>>] = EmptyNode
  BY DEF RouterInit
<1>6. EmptyNode.param = NoParam /\ DOMAIN EmptyNode.handlers = {}
  BY DEF EmptyNode
<1>7. Grown
  BY <1>4, <1>5 DEF Grown
<1>8. Named
  BY <1>4, <1>5, <1>6 DEF Named
<1>9. Held
  BY <1>4, <1>5, <1>6 DEF Held
<1>10. Allowed
  BY <1>1 DEF RouterInit, Allowed
<1> QED
  BY <1>3, <1>7, <1>8, <1>9, <1>10 DEF Built

\* The trie is as it should be as long as the same routes are taken.
LEMMA SameTrie ==
  ASSUME Grown, Named, Held, trie' = trie, Taken' = Taken
  PROVE  Grown' /\ Named' /\ Held'
<1>1. Grown'
  BY DEF Grown
<1>2. Named'
  BY DEF Named
<1>3. Held'
  BY DEF Held
<1> QED
  BY <1>1, <1>2, <1>3

LEMMA BuiltNextGroup ==
  ASSUME Built, NextGroup
  PROVE  Built'
<1>1. group \in Nat /\ Len(Groups) \in Nat /\ group + 1 \in 1..Len(Groups)
  BY RouterAssumption DEF Built, Startup, NextGroup
<1>2. setup \in Setups /\ todo = {}
  BY DEF Built, Startup, NextGroup
<1>3. Startup'
  BY <1>1 DEF Built, Startup, NextGroup, Declared
<1>4. \A r \in setup : r.group \in Nat
  BY <1>2, RouteType
<1>5. Taken' = Taken
  BY <1>1, <1>4 DEF NextGroup, Taken, Declared
<1>6. Allowed'
  <2> DEFINE limit == Groups[group + 1].limit
  <2>1. limit \in Nat \cup {NoLimit}
    BY <1>1, GroupType
  <2>2. maxParse \in Nat /\ maxParse >= MaxBodySize /\ MaxBodySize \in Nat
    BY RouterAssumption DEF Built, Allowed
  <2>3. maxParse' = IF limit # NoLimit /\ limit > maxParse THEN limit ELSE maxParse
    BY DEF NextGroup
  <2> HIDE DEF limit
  <2>4. maxParse' \in Nat /\ maxParse' >= maxParse /\ (limit # NoLimit => limit <= maxParse')
    BY <2>1, <2>2, <2>3
  <2>5. ASSUME NEW g \in 1..group', Groups[g].limit # NoLimit PROVE Groups[g].limit <= maxParse'
    <3>1. CASE g = group + 1
      BY <2>4, <2>5, <3>1 DEF limit
    <3>2. CASE g # group + 1
      <4>1. g \in 1..group
        BY <1>1, <3>2 DEF NextGroup
      <4>2. g \in 1..Len(Groups)
        BY <1>1, <4>1
      <4>3. Groups[g].limit \in Nat
        BY <2>5, <4>2, GroupType
      <4>4. Groups[g].limit <= maxParse
        BY <2>5, <4>1 DEF Built, Allowed
      <4> QED
        BY <2>2, <2>4, <4>3, <4>4
    <3> QED
      BY <3>1, <3>2
  <2>6. maxParse' >= MaxBodySize
    BY <2>2, <2>4
  <2> QED
    BY <2>4, <2>5, <2>6 DEF Allowed
<1> QED
  BY <1>3, <1>5, <1>6, SameTrie DEF Built, NextGroup

LEMMA BuiltSkipRoute ==
  ASSUME Built, NEW r \in todo, SkipRoute(r)
  PROVE  Built'
<1>1. Startup'
  BY DEF Built, Startup, SkipRoute, Declared
<1>2. Taken' = Taken
  BY DEF SkipRoute, Taken, Declared
<1>3. Allowed'
  BY DEF Built, Allowed, SkipRoute
<1> QED
  BY <1>1, <1>2, <1>3, SameTrie DEF Built, SkipRoute

LEMMA BuiltServe ==
  ASSUME Built, Serve
  PROVE  Built'
<1>1. Startup'
  BY DEF Built, Startup, Serve, Declared
<1>2. Taken' = Taken
  BY DEF Serve, Taken, Declared
<1>3. Allowed'
  BY DEF Built, Allowed, Serve
<1> QED
  BY <1>1, <1>2, <1>3, SameTrie DEF Built, Serve

LEMMA BuiltUnchanged ==
  ASSUME Built, UNCHANGED routerVars
  PROVE  Built'
<1>1. Startup'
  BY DEF Built, Startup, routerVars, Declared
<1>2. Taken' = Taken
  BY DEF routerVars, Taken, Declared
<1>3. Allowed'
  BY DEF Built, Allowed, routerVars
<1> QED
  BY <1>1, <1>2, <1>3, SameTrie DEF Built, routerVars

\* A panic is justified: the name in the trie is that of a declared route.
LEMMA BuiltInsertPanics ==
  ASSUME Built, NEW r \in todo, InsertPanics(r)
  PROVE  Built'
<1>1. r \in setup /\ r \in Declared /\ setup \in Setups
  BY DEF Built, Startup, InsertPanics, Declared
<1>2. r.pattern \in Patterns
  BY <1>1, RouteType
<1>3. PICK i \in DOMAIN r.pattern :
        /\ IsDynamic(r.pattern[i])
        /\ Place(r.pattern, i - 1) \in DOMAIN trie
        /\ trie[Place(r.pattern, i - 1)].param \notin {NoParam, r.pattern[i].name}
  BY DEF InsertPanics, Conflicts
<1>4. PICK s \in Taken : \E j \in DOMAIN s.pattern :
        /\ IsDynamic(s.pattern[j]) /\ Place(s.pattern, j - 1) = Place(r.pattern, i - 1)
        /\ s.pattern[j].name = trie[Place(r.pattern, i - 1)].param
  BY <1>3 DEF Built, Named
<1>5. PICK j \in DOMAIN s.pattern :
        /\ IsDynamic(s.pattern[j]) /\ Place(s.pattern, j - 1) = Place(r.pattern, i - 1)
        /\ s.pattern[j].name = trie[Place(r.pattern, i - 1)].param
  BY <1>4
<1>6. s \in Declared /\ s.pattern \in Patterns
  BY <1>1, RouteType DEF Taken, Declared
<1>7. i = j
  <2>1. i \in 1..Len(r.pattern) /\ j \in 1..Len(s.pattern) /\ Len(r.pattern) \in Nat /\ Len(s.pattern) \in Nat
    BY <1>2, <1>6, SegmentType
  <2>2. i - 1 \in 0..Len(r.pattern) /\ j - 1 \in 0..Len(s.pattern)
    BY <2>1
  <2>3. i - 1 = j - 1
    BY <1>2, <1>5, <1>6, <2>2, PlacesAgree
  <2> QED
    BY <2>1, <2>3
<1>8. Disagree(r.pattern, s.pattern)
  BY <1>3, <1>5, <1>7 DEF Disagree
<1>9. Startup'
  BY <1>1, <1>6, <1>8 DEF Built, Startup, InsertPanics, Declared
<1>10. Taken' = Taken
  BY DEF InsertPanics, Taken, Declared
<1>11. Allowed'
  BY DEF Built, Allowed, InsertPanics
<1> QED
  BY <1>9, <1>10, <1>11, SameTrie DEF Built, InsertPanics

\* What is known of the trie before a route is inserted, and what recursive_insert does.
LEMMA BuiltInsertRoute ==
  ASSUME Built, NEW r \in todo, InsertRoute(r)
  PROVE  Built'
<1> DEFINE L == Len(r.pattern)
           P(n) == Place(r.pattern, n)
<1>1. r \in setup /\ r \in Declared /\ setup \in Setups /\ r.group = group /\ group \in Nat
  BY RouterAssumption DEF Built, Startup, InsertRoute, Declared
<1>2. /\ r.pattern \in Patterns /\ L \in Nat /\ r.group \in 1..Len(Groups)
      /\ r = [verb |-> r.verb, pattern |-> r.pattern, group |-> r.group]
  BY <1>1, RouteType, SegmentType
<1>3. Taken' = Taken \cup {r}
  BY <1>1 DEF InsertRoute, Taken, Declared
<1>4. \A s \in Taken \cup {r} :
        /\ s \in Declared /\ s.pattern \in Patterns /\ Len(s.pattern) \in Nat
        /\ s.group \in Nat /\ s.group <= r.group
  <2>1. \A s \in Taken : s \in setup /\ s.group <= group
    BY DEF Taken, Declared
  <2>2. \A s \in Taken \cup {r} : s \in setup /\ s.group <= group
    BY <1>1, <2>1
  <2>3. Taken \subseteq Declared
    BY DEF Taken
  <2> QED
    BY <1>1, <2>2, <2>3, RouteType, SegmentType
<1>5. trie' = Inserted(trie, r.pattern, r.verb, HandlerOf(r))
  BY <1>1 DEF InsertRoute, HandlerOf
<1>6. /\ DOMAIN trie' = Places(r.pattern) \cup DOMAIN trie
      /\ \A p \in DOMAIN trie : p \notin Places(r.pattern) => trie'[p] = trie[p]
      /\ \A n \in 0..L : /\ P(n) \in Places(r.pattern)
                        /\ NodeGrows(OldNode(trie, P(n)), trie'[P(n)], r.pattern, n, r.verb, HandlerOf(r))
  <2>1. TrieGrows(trie, trie', r.pattern, r.verb, HandlerOf(r))
    BY <1>2, <1>5, InsertedIs, Zenon
  <2> QED
    BY <2>1, Zenon DEF TrieGrows
<1>7. Startup'
  BY DEF Built, Startup, InsertRoute, Declared
<1>8. Allowed'
  BY DEF Built, Allowed, InsertRoute
<1>9. Grown'
  BY <1>3, <1>6 DEF Built, Grown
<1>10. \A p : p \in Places(r.pattern) => \E n \in 0..L : p = P(n)
  BY DEF Places
<1>11. \A s \in Taken : \A n \in 0..Len(s.pattern) : Place(s.pattern, n) \in DOMAIN trie
  BY DEF Built, Grown, Places
<1>12. Named'
  <2>1. ASSUME NEW p \in DOMAIN trie' PROVE trie'[p].param \in STRING \cup {NoParam}
    <3>1. \A q \in DOMAIN trie : trie[q].param \in STRING \cup {NoParam}
      BY DEF Built, Named
    <3>2. OldNode(trie, p).param \in STRING \cup {NoParam}
      BY <3>1 DEF OldNode, EmptyNode
    <3>3. CASE p \in Places(r.pattern)
      <4>1. PICK n \in 0..L : p = P(n)
        BY <1>10, <3>3
      <4>2. n < L => r.pattern[n + 1].name \in STRING
        BY <1>2, SegmentType
      <4> QED
        BY <1>6, <3>2, <4>1, <4>2 DEF NodeGrows
    <3>4. CASE p \notin Places(r.pattern)
      BY <1>6, <3>1, <3>4
    <3> QED
      BY <3>3, <3>4
  <2>2. ASSUME NEW s \in Taken \cup {r}, NEW i \in DOMAIN s.pattern, IsDynamic(s.pattern[i])
        PROVE  trie'[Place(s.pattern, i - 1)].param = s.pattern[i].name
    <3> DEFINE p == Place(s.pattern, i - 1)
    <3>1. i \in 1..Len(s.pattern) /\ i - 1 \in 0..Len(s.pattern) /\ s.pattern[i].name \in STRING
      BY <1>4, SegmentType
    <3>2. CASE s = r
      <4>1. i - 1 \in 0..L /\ i - 1 < L /\ (i - 1) + 1 = i
        BY <1>2, <3>1, <3>2
      <4> QED
        BY <1>6, <2>2, <3>2, <4>1 DEF NodeGrows
    <3>3. CASE s \in Taken
      <4>1. p \in DOMAIN trie /\ trie[p].param = s.pattern[i].name
        BY <1>11, <2>2, <3>1, <3>3 DEF Built, Named
      <4>2. CASE p \notin Places(r.pattern)
        BY <1>6, <4>1, <4>2
      <4>3. CASE p \in Places(r.pattern)
        <5>1. PICK n \in 0..L : p = P(n)
          BY <1>10, <4>3
        <5>2. OldNode(trie, P(n)).param = s.pattern[i].name
          BY <4>1, <5>1 DEF OldNode
        <5>3. CASE n < L /\ IsDynamic(r.pattern[n + 1])
          <6>1. n + 1 \in DOMAIN r.pattern /\ (n + 1) - 1 = n
            BY <1>2, <5>3, SegmentType
          <6>2. trie[P(n)].param \in {NoParam, r.pattern[n + 1].name}
            BY <4>1, <5>1, <5>3, <6>1 DEF InsertRoute, Conflicts
          <6>3. s.pattern[i].name = r.pattern[n + 1].name
            BY <3>1, <4>1, <5>1, <6>2, RouterAssumption
          <6> QED
            BY <1>6, <5>1, <5>3, <6>3 DEF NodeGrows
        <5>4. CASE ~(n < L /\ IsDynamic(r.pattern[n + 1]))
          BY <1>6, <5>1, <5>2, <5>4 DEF NodeGrows
        <5> QED
          BY <5>3, <5>4
      <4> QED
        BY <4>2, <4>3
    <3> QED
      BY <3>2, <3>3
  <2> DEFINE Source(p) ==
               \E s \in Taken \cup {r} : \E i \in DOMAIN s.pattern :
                 IsDynamic(s.pattern[i]) /\ Place(s.pattern, i - 1) = p /\ s.pattern[i].name = trie'[p].param
  <2>3. ASSUME NEW p \in DOMAIN trie', trie'[p].param # NoParam
        PROVE  Source(p)
    <3>1. ASSUME p \in DOMAIN trie, trie'[p].param = trie[p].param PROVE Source(p)
      BY <2>3, <3>1 DEF Built, Named
    <3>2. CASE p \notin Places(r.pattern)
      BY <1>6, <3>1, <3>2
    <3>3. CASE p \in Places(r.pattern)
      <4>1. PICK n \in 0..L : p = P(n)
        BY <1>10, <3>3
      <4>2. CASE n < L /\ IsDynamic(r.pattern[n + 1])
        <5>1. n + 1 \in DOMAIN r.pattern /\ (n + 1) - 1 = n
          BY <1>2, <4>2, SegmentType
        <5>2. trie'[p].param = r.pattern[n + 1].name
          BY <1>6, <4>1, <4>2 DEF NodeGrows
        <5> QED
          BY <4>1, <4>2, <5>1, <5>2
      <4>3. CASE ~(n < L /\ IsDynamic(r.pattern[n + 1]))
        <5>1. trie'[p].param = OldNode(trie, p).param
          BY <1>6, <4>1, <4>3 DEF NodeGrows
        <5>2. p \in DOMAIN trie
          BY <2>3, <5>1 DEF OldNode, EmptyNode
        <5> QED
          BY <3>1, <5>1, <5>2 DEF OldNode
      <4> QED
        BY <4>2, <4>3
    <3> QED
      BY <3>2, <3>3
  <2> QED
    BY <1>3, <2>1, <2>2, <2>3 DEF Named
<1>13. Held'
  <2> DEFINE Source(p, v) ==
               \E s \in Taken \cup {r} : trie'[p].handlers[v] = HandlerOf(s) /\ s.verb = v /\ Leaf(s) = p
  <2>1. ASSUME NEW p \in DOMAIN trie', NEW v \in DOMAIN trie'[p].handlers
        PROVE  Source(p, v)
    <3>1. ASSUME p \in DOMAIN trie, v \in DOMAIN trie[p].handlers, trie'[p].handlers[v] = trie[p].handlers[v]
          PROVE  Source(p, v)
      BY <3>1 DEF Built, Held
    <3>2. CASE p \notin Places(r.pattern)
      BY <1>6, <2>1, <3>1, <3>2
    <3>3. CASE p \in Places(r.pattern)
      <4>1. PICK n \in 0..L : p = P(n)
        BY <1>10, <3>3
      <4>2. ASSUME v \in DOMAIN OldNode(trie, p).handlers PROVE p \in DOMAIN trie /\ v \in DOMAIN trie[p].handlers
        BY <4>2 DEF OldNode, EmptyNode
      <4>3. CASE n = L
        <5> DEFINE f == [w \in {r.verb} |-> HandlerOf(r)]
                   g == OldNode(trie, p).handlers
        <5>1. trie'[p].handlers = Over(f, g)
          BY <1>6, <4>1, <4>3 DEF NodeGrows
        <5>2. DOMAIN f = {r.verb} /\ f[r.verb] = HandlerOf(r)
          OBVIOUS
        <5> HIDE DEF f, g
        <5>3. /\ DOMAIN Over(f, g) = DOMAIN f \cup DOMAIN g
              /\ \A x \in DOMAIN f : Over(f, g)[x] = f[x]
              /\ \A x \in DOMAIN g : x \notin DOMAIN f => Over(f, g)[x] = g[x]
          BY OverIs
        <5>4. CASE v = r.verb
          <6>1. trie'[p].handlers[v] = HandlerOf(r)
            BY <5>1, <5>2, <5>3, <5>4
          <6> QED
            BY <4>1, <4>3, <5>4, <6>1 DEF Leaf
        <5>5. CASE v # r.verb
          <6>1. v \in DOMAIN g /\ trie'[p].handlers[v] = g[v]
            BY <2>1, <5>1, <5>2, <5>3, <5>5
          <6> QED
            BY <3>1, <4>2, <6>1 DEF OldNode, g
        <5> QED
          BY <5>4, <5>5
      <4>4. CASE n # L
        <5>1. trie'[p].handlers = OldNode(trie, p).handlers
          BY <1>6, <4>1, <4>4 DEF NodeGrows
        <5> QED
          BY <2>1, <3>1, <4>2, <5>1 DEF OldNode
      <4> QED
        BY <4>3, <4>4
    <3> QED
      BY <3>2, <3>3
  <2>2. ASSUME NEW s \in Taken \cup {r}
        PROVE  /\ s.verb \in DOMAIN trie'[Leaf(s)].handlers
               /\ trie'[Leaf(s)].handlers[s.verb].route.group >= s.group
    <3> DEFINE f == [w \in {r.verb} |-> HandlerOf(r)]
               g == OldNode(trie, Leaf(r)).handlers
    <3>1. trie'[Leaf(r)].handlers = Over(f, g)
      <4>1. L \in 0..L
        BY <1>2
      <4> QED
        BY <1>6, <4>1 DEF NodeGrows, Leaf
    <3>2. DOMAIN f = {r.verb} /\ f[r.verb].route = r
      BY DEF HandlerOf
    <3> HIDE DEF f, g
    <3>3. /\ DOMAIN Over(f, g) = DOMAIN f \cup DOMAIN g
          /\ \A x \in DOMAIN f : Over(f, g)[x] = f[x]
          /\ \A x \in DOMAIN g : x \notin DOMAIN f => Over(f, g)[x] = g[x]
      BY OverIs
    <3>4. CASE Leaf(s) = Leaf(r) /\ s.verb = r.verb
      <4>1. s.verb \in DOMAIN trie'[Leaf(s)].handlers /\ trie'[Leaf(s)].handlers[s.verb].route = r
        BY <3>1, <3>2, <3>3, <3>4
      <4> QED
        BY <1>4, <4>1
    <3>5. CASE ~(Leaf(s) = Leaf(r) /\ s.verb = r.verb)
      <4>1. s \in Taken
        BY <3>5
      <4>2. /\ s.verb \in DOMAIN trie[Leaf(s)].handlers
            /\ trie[Leaf(s)].handlers[s.verb].route.group >= s.group
        BY <4>1 DEF Built, Held
      <4>3. Leaf(s) \in DOMAIN trie
        <5>1. Len(s.pattern) \in 0..Len(s.pattern)
          BY <1>4
        <5> QED
          BY <1>11, <4>1, <5>1 DEF Leaf
      <4>4. s.verb \in DOMAIN trie'[Leaf(s)].handlers /\ trie'[Leaf(s)].handlers[s.verb] = trie[Leaf(s)].handlers[s.verb]
        <5>1. CASE Leaf(s) \notin Places(r.pattern)
          BY <1>6, <4>2, <4>3, <5>1
        <5>2. CASE Leaf(s) = Leaf(r)
          <6>1. g = trie[Leaf(s)].handlers
            BY <4>3, <5>2 DEF OldNode, g
          <6> QED
            BY <3>1, <3>2, <3>3, <3>5, <4>2, <5>2, <6>1
        <5>3. CASE Leaf(s) \in Places(r.pattern) /\ Leaf(s) # Leaf(r)
          <6>1. PICK n \in 0..L : Leaf(s) = P(n)
            BY <1>10, <5>3
          <6>2. n # L
            BY <5>3, <6>1 DEF Leaf
          <6> QED
            BY <1>6, <4>2, <4>3, <6>1, <6>2 DEF NodeGrows, OldNode
        <5> QED
          BY <5>1, <5>2, <5>3
      <4> QED
        BY <4>2, <4>4, Zenon
    <3> QED
      BY <3>4, <3>5
  <2>3. \A s : HandlerOf(s)' = HandlerOf(s) /\ Leaf(s)' = Leaf(s)
    BY DEF HandlerOf, Leaf
  <2> QED
    BY <1>3, <2>1, <2>2 DEF Held
<1> QED
  BY <1>7, <1>8, <1>9, <1>12, <1>13 DEF Built

\* While the routes are registered, in whatever order, the trie has the places of
\* the routes inserted so far, their names and their handlers, and nothing else
\* (routes.rs:34-54 and 86-117): the inductive invariant of the router.
THEOREM RouterBuilt == RouterSpec => []Built
<1>1. Built /\ [RouterNext]_routerVars => Built'
  <2> SUFFICES ASSUME Built, [RouterNext]_routerVars PROVE Built'
    OBVIOUS
  <2>1. ASSUME NEW r \in todo, SkipRoute(r) \/ InsertRoute(r) \/ InsertPanics(r) PROVE Built'
    BY <2>1, BuiltSkipRoute, BuiltInsertRoute, BuiltInsertPanics
  <2> QED
    BY <2>1, BuiltNextGroup, BuiltServe, BuiltUnchanged DEF RouterNext
<1> QED
  BY <1>1, BuiltInit, PTL DEF RouterSpec

LEMMA TakenType ==
  ASSUME Built, NEW r \in Taken
  PROVE  /\ r \in setup /\ r \in Declared /\ r.verb \in Verbs
         /\ r = [verb |-> r.verb, pattern |-> r.pattern, group |-> r.group]
         /\ r.pattern \in Patterns
         /\ Len(r.pattern) \in Nat /\ DOMAIN r.pattern = 1..Len(r.pattern)
         /\ r.group \in 1..Len(Groups) /\ r.group \in Nat
<1>1. setup \in Setups /\ Len(Groups) \in Nat
  BY RouterAssumption DEF Built, Startup
<1>2. r \in setup /\ r \in Declared /\ r.verb \in Verbs
  BY DEF Taken, Declared
<1> QED
  BY <1>1, <1>2, RouteType, SegmentType

\* When the server serves, every route is in the trie whose verb is known.
LEMMA AllTaken ==
  ASSUME Built, phase = "serving"
  PROVE  Taken = Declared
<1>1. \A r \in Declared : r \in setup /\ r.group \in 1..Len(Groups)
  BY RouteType DEF Declared, Built, Startup
<1>2. \A r \in Declared : r.group <= group
  BY <1>1, RouterAssumption DEF Built, Startup
<1> QED
  BY <1>2 DEF Taken, Built, Startup

\* Two patterns in the trie agree in the names of segments they share.
LEMMA NamesAgree ==
  ASSUME Built, NEW r \in Taken, NEW s \in Taken,
         NEW i \in DOMAIN r.pattern, i \in DOMAIN s.pattern,
         IsDynamic(r.pattern[i]), IsDynamic(s.pattern[i]),
         Place(r.pattern, i - 1) = Place(s.pattern, i - 1)
  PROVE  r.pattern[i].name = s.pattern[i].name
  BY DEF Built, Named

\* The server starts or panics in the same way for every order in which a
\* HashMap yields the routes of a group, whatever the routes are
\* (routes.rs:103-111).
THEOREM PanicsJustified == RouterSpec => []PanicsOnConflict
<1>1. Built => PanicsOnConflict
  <2> SUFFICES ASSUME Built PROVE PanicsOnConflict
    OBVIOUS
  <2>1. phase = "panicked" => \E r, s \in Declared : Disagree(r.pattern, s.pattern)
    BY DEF Built, Startup
  <2>2. ASSUME phase = "serving", NEW r \in Declared, NEW s \in Declared, Disagree(r.pattern, s.pattern) PROVE FALSE
    <3>1. r \in Taken /\ s \in Taken
      BY <2>2, AllTaken
    <3> QED
      BY <2>2, <3>1, NamesAgree DEF Disagree
  <2> QED
    BY <2>1, <2>2 DEF PanicsOnConflict
<1> QED
  BY <1>1, RouterBuilt, PTL

\* Two routes of one place have one pattern.
LEMMA OnePattern ==
  ASSUME Built, NEW r \in Taken, NEW s \in Taken, Leaf(r) = Leaf(s)
  PROVE  r.pattern = s.pattern
<1> DEFINE p == r.pattern
           q == s.pattern
<1>1. p \in Patterns /\ q \in Patterns /\ Len(p) \in 0..Len(p) /\ Len(q) \in 0..Len(q)
  BY TakenType
<1>2. /\ Len(p) = Len(q)
      /\ \A i \in 1..Len(p) : /\ IsDynamic(p[i]) <=> IsDynamic(q[i])
                              /\ ~IsDynamic(p[i]) => p[i].name = q[i].name
      /\ \A i \in 0..Len(p) : Place(p, i) = Place(q, i)
  BY <1>1, PlacesAgree DEF Leaf
<1>3. ASSUME NEW i \in 1..Len(p) PROVE p[i] = q[i]
  <2>1. i \in DOMAIN p /\ i \in DOMAIN q /\ i - 1 \in 0..Len(p)
    BY <1>1, <1>2, SegmentType
  <2>2. IsDynamic(p[i]) => p[i].name = q[i].name
    <3>1. Place(p, i - 1) = Place(q, i - 1) /\ (IsDynamic(p[i]) <=> IsDynamic(q[i]))
      BY <1>2, <2>1
    <3> QED
      BY <2>1, <3>1, NamesAgree
  <2>3. p[i].name = q[i].name
    BY <1>2, <2>2
  <2>4. p[i].kind = q[i].kind
    <3>1. p[i].kind \in {"static", "dynamic"} /\ q[i].kind \in {"static", "dynamic"}
      BY <1>1, <2>1, SegmentType
    <3> QED
      BY <1>2, <3>1 DEF IsDynamic
  <2>5. p[i] = [kind |-> p[i].kind, name |-> p[i].name] /\ q[i] = [kind |-> q[i].kind, name |-> q[i].name]
    BY <1>1, <2>1, SegmentType
  <2> QED
    BY <2>3, <2>4, <2>5, Zenon
<1> DEFINE S == [kind : {"static", "dynamic"}, name : STRING]
<1>4. p \in Seq(S) /\ q \in Seq(S)
  BY <1>1, Zenon DEF Patterns
<1> HIDE DEF S, p, q
<1>5. p = q
  BY <1>2, <1>3, <1>4
<1> QED
  BY <1>5 DEF p, q

-----------------------------------------------------------------------------
(* Matching. *)

\* q is below p in the trie, or p.
Under(q, p) == Len(p) <= Len(q) /\ \A i \in 1..Len(p) : q[i] = p[i]

\* The trie is a tree with its root.
Tree ==
  /\ <<>> \in DOMAIN trie
  /\ DOMAIN trie \subseteq Seq(Edges)
  /\ \A q \in DOMAIN trie : \A p \in Seq(Edges) : Under(q, p) => p \in DOMAIN trie

LEMMA SameSeq ==
  ASSUME NEW S, NEW s \in Seq(S), NEW t \in Seq(S), Len(s) = Len(t), \A i \in 1..Len(s) : s[i] = t[i]
  PROVE  s = t
  OBVIOUS

LEMMA TrieIsTree == Built => Tree
<1> SUFFICES ASSUME Built PROVE Tree
  OBVIOUS
<1>1. <<>> \in DOMAIN trie
  BY DEF Built, Grown
<1>2. \A r \in Taken : \A n \in 0..Len(r.pattern) : Place(r.pattern, n) \in DOMAIN trie
  BY DEF Built, Grown, Places
<1>3. ASSUME NEW q \in DOMAIN trie PROVE q = <<>> \/ \E r \in Taken : \E n \in 0..Len(r.pattern) : q = Place(r.pattern, n)
  BY DEF Built, Grown, Places
<1>4. DOMAIN trie \subseteq Seq(Edges)
  <2>1. <<>> \in Seq(Edges)
    OBVIOUS
  <2>2. ASSUME NEW q \in DOMAIN trie, q # <<>> PROVE q \in Seq(Edges)
    <3>1. PICK r \in Taken : \E n \in 0..Len(r.pattern) : q = Place(r.pattern, n)
      BY <1>3, <2>2
    <3> QED
      BY <3>1, TakenType, PlaceType
  <2> QED
    BY <2>1, <2>2, Zenon
<1>5. ASSUME NEW q \in DOMAIN trie, NEW p \in Seq(Edges), Under(q, p) PROVE p \in DOMAIN trie
  <2>1. CASE q = <<>>
    <3>1. p = <<>>
      BY <1>5, <2>1 DEF Under
    <3> QED
      BY <1>1, <3>1
  <2>2. CASE q # <<>>
    <3>1. PICK r \in Taken : \E n \in 0..Len(r.pattern) : q = Place(r.pattern, n)
      BY <1>3, <2>2
    <3>2. PICK n \in 0..Len(r.pattern) : q = Place(r.pattern, n)
      BY <3>1
    <3>3. r.pattern \in Patterns /\ Len(r.pattern) \in Nat
      BY TakenType
    <3>4. Len(q) = n /\ \A i \in 1..n : q[i] = IF IsDynamic(r.pattern[i]) THEN Dynamic ELSE r.pattern[i].name
      BY <3>2, <3>3, PlaceType
    <3>5. Len(p) \in 0..n /\ \A i \in 1..Len(p) : q[i] = p[i] /\ i \in 1..n
      BY <1>5, <3>3, <3>4 DEF Under
    <3>6. Len(p) \in 0..Len(r.pattern)
      BY <3>3, <3>5
    <3> DEFINE m == Place(r.pattern, Len(p))
    <3>7. m \in Seq(Edges) /\ Len(m) = Len(p) /\ \A i \in 1..Len(p) : m[i] = IF IsDynamic(r.pattern[i]) THEN Dynamic ELSE r.pattern[i].name
      BY <3>3, <3>6, PlaceType
    <3>8. \A i \in 1..Len(p) : m[i] = p[i]
      BY <3>4, <3>5, <3>7
    <3> HIDE DEF m
    <3>9. m = p
      BY <3>7, <3>8, SameSeq
    <3> QED
      BY <1>2, <3>6, <3>9 DEF m
  <2> QED
    BY <2>1, <2>2
<1> QED
  BY <1>1, <1>4, <1>5 DEF Tree

\* What Trial yields depends on what it is given for the children only.
LEMMA TrialSame ==
  ASSUME NEW f, NEW g, NEW at, NEW segments, NEW e, e = segments[Len(at) + 1],
         ~(Len(at) >= Len(segments)) =>
           /\ Append(at, e) \in DOMAIN trie => f[Append(at, e)] = g[Append(at, e)]
           /\ Append(at, Dynamic) \in DOMAIN trie => f[Append(at, Dynamic)] = g[Append(at, Dynamic)]
  PROVE  Trial(f, at, segments) = Trial(g, at, segments)
<1>1. CASE Len(at) >= Len(segments)
  BY <1>1, Zenon DEF Trial
<1>2. CASE ~(Len(at) >= Len(segments))
  <2> DEFINE static == Append(at, segments[Len(at) + 1])
             dynamic == Append(at, Dynamic)
             First(m) == IF static \in DOMAIN trie THEN m[static] ELSE Missed(NoParams)
             Before(m) == Over([name \in {trie[at].param} |-> segments[Len(at) + 1]], First(m).params)
  <2>1. Trial(f, at, segments)
          = IF First(f).found \/ dynamic \notin DOMAIN trie THEN First(f)
            ELSE [f[dynamic] EXCEPT !.params = Over(@, Before(f))]
    BY <1>2, Zenon DEF Trial
  <2>2. Trial(g, at, segments)
          = IF First(g).found \/ dynamic \notin DOMAIN trie THEN First(g)
            ELSE [g[dynamic] EXCEPT !.params = Over(@, Before(g))]
    BY <1>2, Zenon DEF Trial
  <2>3. First(f) = First(g)
    BY <1>2, Zenon
  <2>4. dynamic \in DOMAIN trie => f[dynamic] = g[dynamic]
    BY <1>2, Zenon
  <2>5. Before(f) = Before(g)
    <3> HIDE DEF First
    <3> QED
      BY <2>3, Zenon
  <2> HIDE DEF First, Before, dynamic
  <2>6. CASE First(f).found \/ dynamic \notin DOMAIN trie
    BY <2>1, <2>2, <2>3, <2>6, Zenon
  <2>7. CASE ~(First(f).found \/ dynamic \notin DOMAIN trie)
    <3>1. f[dynamic] = g[dynamic]
      BY <2>4, <2>7, Zenon
    <3> QED
      BY <2>1, <2>2, <2>3, <2>5, <2>7, <3>1, Zenon
  <2> QED
    BY <2>6, <2>7, Zenon
<1> QED
  BY <1>1, <1>2

LEMMA AppendIs ==
  ASSUME NEW at \in Seq(Edges), NEW e \in Edges
  PROVE  /\ Append(at, e) \in Seq(Edges)
         /\ Len(Append(at, e)) = Len(at) + 1
         /\ Len(at) \in Nat
         /\ \A i \in 1..Len(at) : Append(at, e)[i] = at[i]
         /\ Append(at, e)[Len(at) + 1] = e
  OBVIOUS

\* Match is what Trial yields at the root, for what it yields at every node.
LEMMA MatchDefined ==
  ASSUME Tree, NEW segments \in Seq(STRING)
  PROVE  \E m : /\ Match(segments) = m[<<>>]
                /\ \A at \in DOMAIN trie : m[at] = Trial(m, at, segments)
<1> DEFINE N == Len(segments)
           D(k) == {at \in DOMAIN trie : Len(at) + k >= N}
           Known(f, k) == \A at \in D(k) : f[at] = Trial(f, at, segments)
           T == {k \in 0..N : \E f : Known(f, k)}
<1>1. N \in Nat /\ N \in 0..N /\ \A i \in 1..N : segments[i] \in STRING
  OBVIOUS
<1>2. \A at \in DOMAIN trie : at \in Seq(Edges) /\ Len(at) \in Nat
  BY DEF Tree
<1>3. \E f : Known(f, 0)
  <2> DEFINE g == [at \in DOMAIN trie |-> Trial(trie, at, segments)]
  <2>1. ASSUME NEW at \in D(0) PROVE g[at] = Trial(g, at, segments)
    <3>1. Len(at) >= N
      BY <1>1, <1>2
    <3>2. Trial(trie, at, segments) = Trial(g, at, segments)
      <4> HIDE DEF g
      <4> QED
        BY <3>1, TrialSame
    <3> QED
      BY <3>2, Zenon
  <2> HIDE DEF g, D
  <2> QED
    BY <2>1
<1>4. ASSUME NEW k \in 1..N, NEW f, Known(f, k - 1) PROVE \E g : Known(g, k)
  <2> DEFINE g == [at \in DOMAIN trie |-> IF at \in D(k - 1) THEN f[at] ELSE Trial(f, at, segments)]
  <2>1. ASSUME NEW at \in D(k) PROVE g[at] = Trial(g, at, segments)
    <3>1. at \in DOMAIN trie /\ at \in Seq(Edges) /\ Len(at) \in Nat
      BY <1>2
    <3>2. g[at] = Trial(f, at, segments)
      <4> HIDE DEF D
      <4> QED
        BY <1>4, <3>1
    <3>3. ASSUME NEW e \in Edges, Append(at, e) \in DOMAIN trie PROVE f[Append(at, e)] = g[Append(at, e)]
      <4>1. Append(at, e) \in D(k - 1)
        <5>1. Len(Append(at, e)) = Len(at) + 1
          BY <3>1, AppendIs
        <5> QED
          BY <1>1, <2>1, <3>1, <3>3, <5>1
      <4> HIDE DEF D
      <4> QED
        BY <3>3, <4>1
    <3>4. Trial(f, at, segments) = Trial(g, at, segments)
      <4> DEFINE e == segments[Len(at) + 1]
      <4>1. ~(Len(at) >= N) => e \in Edges /\ Dynamic \in Edges
        <5>1. ~(Len(at) >= N) => Len(at) + 1 \in 1..N
          BY <1>1, <3>1
        <5> QED
          BY <1>1, <5>1 DEF Edges
      <4> HIDE DEF g, e
      <4>2. ~(Len(at) >= N) =>
              /\ Append(at, e) \in DOMAIN trie => f[Append(at, e)] = g[Append(at, e)]
              /\ Append(at, Dynamic) \in DOMAIN trie => f[Append(at, Dynamic)] = g[Append(at, Dynamic)]
        BY <3>3, <4>1, Zenon
      <4> QED
        BY <4>2, TrialSame DEF e
    <3> QED
      BY <3>2, <3>4, Zenon
  <2> HIDE DEF g, D
  <2> QED
    BY <2>1
<1>5. PICK f : Known(f, N)
  <2> HIDE DEF N, Known
  <2>1. 0 \in T
    BY <1>1, <1>3
  <2>2. \A k \in 1..N : k - 1 \in T => k \in T
    BY <1>1, <1>4
  <2>3. N \in T
    <3> HIDE DEF T
    <3> QED
      BY <1>1, <2>1, <2>2, UpTo
  <2> QED
    BY <2>3
<1>6. \A at \in DOMAIN trie : f[at] = Trial(f, at, segments)
  <2>1. \A at \in DOMAIN trie : at \in D(N)
    BY <1>1, <1>2
  <2> HIDE DEF D
  <2> QED
    BY <1>5, <2>1
<1> DEFINE Is(m) == m = [at \in DOMAIN trie |-> Trial(m, at, segments)]
           g == [at \in DOMAIN trie |-> f[at]]
           w == CHOOSE m : Is(m)
<1>7. Is(g)
  <2>1. ASSUME NEW at \in DOMAIN trie PROVE f[at] = Trial(g, at, segments)
    <3> DEFINE e == segments[Len(at) + 1]
    <3>1. \A c \in DOMAIN trie : f[c] = g[c]
      OBVIOUS
    <3> HIDE DEF g, e
    <3>2. Trial(f, at, segments) = Trial(g, at, segments)
      BY <3>1, TrialSame DEF e
    <3> QED
      BY <1>6, <3>2, Zenon
  <2> QED
    BY <2>1, Zenon
<1>8. Is(w)
  <2> HIDE DEF g
  <2> QED
    BY <1>7, Zenon
<1>9. Match(segments) = w[<<>>]
  BY Zenon DEF Match
<1> HIDE DEF w
<1>10. \A at \in DOMAIN trie : w[at] = Trial(w, at, segments)
  BY <1>8, Zenon
<1> QED
  BY <1>9, <1>10

\* A node below at that takes the rest of the segments.
Leads(segments, at, q) ==
  /\ q \in DOMAIN trie /\ Under(q, at) /\ Len(q) = Len(segments)
  /\ \A i \in (Len(at) + 1)..Len(q) : q[i] = Dynamic \/ q[i] = segments[i]
  /\ DOMAIN trie[q].handlers # {}

\* Where they first differ, p is static and q dynamic.
GoesBefore(p, q) ==
  \E i \in 1..Len(p) : p[i] # Dynamic /\ q[i] = Dynamic /\ \A j \in 1..(i - 1) : p[j] = q[j]

\* The node found is before all others, and one is found if there is one.
RightPlace(x, at, segments) ==
  /\ x.found => /\ Leads(segments, at, x.at)
                /\ \A q : Leads(segments, at, q) => q = x.at \/ GoesBefore(x.at, q)
  /\ ~x.found => \A q : ~Leads(segments, at, q)

ParamsBelow(at) == {trie[q].param : q \in {p \in DOMAIN trie : Under(p, at)}}

\* No param comes again below the dynamic child of its node.
Apart == \A x, y \in DOMAIN trie : Under(y, Append(x, Dynamic)) => trie[y].param # trie[x].param

\* Every dynamic segment on the way to the node found is under its name in params.
RightParams(x, at, segments) ==
  /\ DOMAIN x.params \subseteq ParamsBelow(at)
  /\ x.found /\ Apart =>
       \A y \in DOMAIN trie :
         Under(x.at, y) /\ Len(at) <= Len(y) /\ Len(y) < Len(segments) /\ x.at[Len(y) + 1] = Dynamic =>
           trie[y].param \in DOMAIN x.params /\ x.params[trie[y].param] = segments[Len(y) + 1]

\* What an answer of match_recursive at a node is.
Shaped(x) == x = [found |-> x.found, at |-> x.at, params |-> x.params]

MissedIs(x) == x.found = FALSE /\ DOMAIN x.params = {} /\ Shaped(x)

LEMMA MissedShape == MissedIs(Missed(NoParams))
  BY DEF MissedIs, Missed, NoParams, Shaped

LEMMA UnderTrans ==
  ASSUME NEW p \in Seq(Edges), NEW q \in Seq(Edges), NEW r \in Seq(Edges), Under(p, q), Under(q, r)
  PROVE  Under(p, r)
<1>1. Len(p) \in Nat /\ Len(q) \in Nat /\ Len(r) \in Nat
  OBVIOUS
<1>2. \A i \in 1..Len(r) : i \in 1..Len(q)
  BY <1>1 DEF Under
<1> QED
  BY <1>1, <1>2 DEF Under

LEMMA UnderItself ==
  ASSUME NEW p \in Seq(Edges)
  PROVE  Under(p, p)
  BY DEF Under

\* The segments from a child on.
LEMMA LeadsChild ==
  ASSUME Tree, NEW segments \in Seq(STRING), NEW at \in DOMAIN trie, Len(at) < Len(segments),
         NEW e, e = segments[Len(at) + 1]
  PROVE  /\ at \in Seq(Edges) /\ e \in STRING /\ e \in Edges /\ Dynamic \in Edges /\ e # Dynamic
         /\ Under(Append(at, e), at) /\ Under(Append(at, Dynamic), at)
         /\ \A q : Leads(segments, at, q) =>
              \/ Append(at, e) \in DOMAIN trie /\ Leads(segments, Append(at, e), q)
              \/ Append(at, Dynamic) \in DOMAIN trie /\ Leads(segments, Append(at, Dynamic), q)
         /\ \A q : Leads(segments, Append(at, e), q) => Leads(segments, at, q)
         /\ \A q : Leads(segments, Append(at, Dynamic), q) => Leads(segments, at, q)
         /\ \A p, q : Leads(segments, Append(at, e), p) /\ Leads(segments, Append(at, Dynamic), q) => GoesBefore(p, q)
<1> DEFINE n == Len(at)
           N == Len(segments)
<1>1. at \in Seq(Edges) /\ n \in Nat /\ N \in Nat /\ n + 1 \in 1..N
  BY DEF Tree
<1>2. e \in STRING /\ e \in Edges /\ Dynamic \in Edges /\ e # Dynamic
  BY <1>1, RouterAssumption DEF Edges
<1>3. ASSUME NEW d \in Edges
      PROVE  /\ Append(at, d) \in Seq(Edges) /\ Len(Append(at, d)) = n + 1
             /\ \A i \in 1..n : Append(at, d)[i] = at[i]
             /\ Append(at, d)[n + 1] = d
             /\ Under(Append(at, d), at)
  <2>1. /\ Append(at, d) \in Seq(Edges) /\ Len(Append(at, d)) = n + 1
        /\ \A i \in 1..n : Append(at, d)[i] = at[i]
        /\ Append(at, d)[n + 1] = d
    BY <1>1, AppendIs
  <2> QED
    BY <1>1, <2>1 DEF Under
<1>4. ASSUME NEW q, Leads(segments, at, q), NEW d \in Edges, q[n + 1] = d
      PROVE  Append(at, d) \in DOMAIN trie /\ Leads(segments, Append(at, d), q)
  <2> DEFINE c == Append(at, d)
  <2>1. Under(q, c)
    <3>1. \A i \in 1..(n + 1) : i \in 1..n \/ i = n + 1
      BY <1>1
    <3>2. \A i \in 1..(n + 1) : q[i] = c[i]
      BY <1>3, <1>4, <3>1 DEF Leads, Under
    <3> QED
      BY <1>1, <1>3, <1>4, <3>2 DEF Leads, Under
  <2>2. c \in DOMAIN trie
    BY <1>3, <1>4, <2>1 DEF Tree, Leads
  <2>3. Leads(segments, c, q)
    BY <1>1, <1>3, <1>4, <2>1 DEF Leads
  <2> QED
    BY <2>2, <2>3
<1>5. ASSUME NEW q, Leads(segments, at, q)
      PROVE  \/ Append(at, e) \in DOMAIN trie /\ Leads(segments, Append(at, e), q)
             \/ Append(at, Dynamic) \in DOMAIN trie /\ Leads(segments, Append(at, Dynamic), q)
  <2>1. q[n + 1] = Dynamic \/ q[n + 1] = e
    BY <1>1, <1>5 DEF Leads
  <2> QED
    BY <1>2, <1>4, <1>5, <2>1
<1>6. ASSUME NEW d \in {e, Dynamic}, NEW q, Leads(segments, Append(at, d), q)
      PROVE  Leads(segments, at, q) /\ q[n + 1] = d /\ \A i \in 1..n : q[i] = at[i]
  <2> DEFINE c == Append(at, d)
  <2>1. /\ Len(c) = n + 1 /\ c[n + 1] = d /\ \A i \in 1..n : c[i] = at[i]
    BY <1>2, <1>3
  <2>2. \A i \in 1..(n + 1) : q[i] = c[i]
    BY <1>6, <2>1 DEF Leads, Under
  <2>3. q[n + 1] = d /\ \A i \in 1..n : q[i] = at[i]
    BY <1>1, <2>1, <2>2
  <2>4. Len(q) = N
    BY <1>6 DEF Leads
  <2>5. Under(q, at)
    BY <1>1, <2>3, <2>4 DEF Under
  <2>6. \A i \in (n + 2)..N : q[i] = Dynamic \/ q[i] = segments[i]
    BY <1>1, <1>6, <2>1, <2>4 DEF Leads
  <2>7. \A i \in (n + 1)..N : q[i] = Dynamic \/ q[i] = segments[i]
    BY <1>1, <2>3, <2>6
  <2> QED
    BY <1>6, <2>3, <2>4, <2>5, <2>7 DEF Leads
<1>7. ASSUME NEW p, NEW q, Leads(segments, Append(at, e), p), Leads(segments, Append(at, Dynamic), q)
      PROVE  GoesBefore(p, q)
  <2>1. p[n + 1] = e /\ q[n + 1] = Dynamic /\ \A i \in 1..n : p[i] = at[i] /\ q[i] = at[i]
    BY <1>6, <1>7
  <2>2. Len(p) = N
    BY <1>7 DEF Leads
  <2>3. n + 1 \in 1..Len(p) /\ \A j \in 1..((n + 1) - 1) : p[j] = q[j]
    BY <1>1, <2>1, <2>2
  <2> QED
    BY <1>2, <2>1, <2>3 DEF GoesBefore
<1>8. Under(Append(at, e), at) /\ Under(Append(at, Dynamic), at)
  BY <1>2, <1>3
<1> QED
  BY <1>1, <1>2, <1>5, <1>6, <1>7, <1>8, Zenon

\* Where the segments end.
LEMMA TrialEnds ==
  ASSUME Tree, NEW segments \in Seq(STRING), NEW at \in DOMAIN trie, Len(at) = Len(segments),
         NEW m, NEW x, x = Trial(m, at, segments)
  PROVE  Shaped(x) /\ RightPlace(x, at, segments) /\ RightParams(x, at, segments)
<1>1. at \in Seq(Edges) /\ Len(at) \in Nat /\ Under(at, at)
  BY UnderItself DEF Tree
<1>2. \A q : Leads(segments, at, q) => q = at
  <2> SUFFICES ASSUME NEW q, Leads(segments, at, q) PROVE q = at
    OBVIOUS
  <2>1. q \in Seq(Edges) /\ Len(q) = Len(at) /\ \A i \in 1..Len(at) : q[i] = at[i]
    BY DEF Leads, Tree, Under
  <2> QED
    BY <1>1, <2>1, SameSeq
<1>3. \A i \in (Len(at) + 1)..Len(at) : FALSE
  BY <1>1
<1>4. CASE DOMAIN trie[at].handlers = {}
  <2>1. x = Missed(NoParams)
    BY <1>1, <1>4 DEF Trial
  <2>2. \A q : ~Leads(segments, at, q)
    BY <1>2, <1>4 DEF Leads
  <2>3. MissedIs(x)
    BY <2>1, MissedShape, Zenon
  <2> QED
    BY <2>2, <2>3 DEF RightPlace, RightParams, MissedIs
<1>5. CASE DOMAIN trie[at].handlers # {}
  <2>1. x = [found |-> TRUE, at |-> at, params |-> NoParams]
    BY <1>1, <1>5 DEF Trial
  <2>2. x.found = TRUE /\ x.at = at /\ DOMAIN x.params = {} /\ Shaped(x)
    BY <2>1 DEF NoParams, Shaped
  <2>3. Leads(segments, at, at)
    BY <1>1, <1>3, <1>5 DEF Leads
  <2>4. RightPlace(x, at, segments)
    BY <1>2, <2>2, <2>3 DEF RightPlace
  <2>5. \A y \in DOMAIN trie : ~(Len(at) <= Len(y) /\ Len(y) < Len(segments))
    BY <1>1 DEF Tree
  <2>6. RightParams(x, at, segments)
    BY <2>2, <2>5 DEF RightParams
  <2> QED
    BY <2>2, <2>4, <2>6
<1> QED
  BY <1>4, <1>5

\* Where they go on: what the static child yields is kept, or the dynamic one's
\* is, over whose params the node's own and then those of the static child are put.
Statically(x, m, static, dynamic) ==
  /\ static \in DOMAIN trie /\ (m[static].found \/ dynamic \notin DOMAIN trie)
  /\ x = m[static]

NoChild(x, static, dynamic) ==
  /\ static \notin DOMAIN trie /\ dynamic \notin DOMAIN trie
  /\ MissedIs(x)

Dynamically(x, m, at, segment, static, dynamic) ==
  /\ dynamic \in DOMAIN trie
  /\ static \in DOMAIN trie => ~m[static].found
  /\ Shaped(x) /\ x.found = m[dynamic].found /\ x.at = m[dynamic].at
  /\ LET before == Over([name \in {trie[at].param} |-> segment],
                        IF static \in DOMAIN trie THEN m[static].params ELSE NoParams)
     IN x.params = Over(m[dynamic].params, before)

LEMMA TrialGoesOn ==
  ASSUME Tree, NEW segments \in Seq(STRING), NEW at \in DOMAIN trie, Len(at) < Len(segments),
         NEW m, NEW x, x = Trial(m, at, segments),
         NEW static, static = Append(at, segments[Len(at) + 1]),
         NEW dynamic, dynamic = Append(at, Dynamic),
         dynamic \in DOMAIN trie => Shaped(m[dynamic])
  PROVE  \/ Statically(x, m, static, dynamic)
         \/ NoChild(x, static, dynamic)
         \/ Dynamically(x, m, at, segments[Len(at) + 1], static, dynamic)
<1> DEFINE e == segments[Len(at) + 1]
           first == IF static \in DOMAIN trie THEN m[static] ELSE Missed(NoParams)
           before == Over([name \in {trie[at].param} |-> e], first.params)
<1>1. ~(Len(at) >= Len(segments))
  BY DEF Tree
<1>2. x = IF first.found \/ dynamic \notin DOMAIN trie THEN first
          ELSE [m[dynamic] EXCEPT !.params = Over(@, before)]
  BY <1>1, Zenon DEF Trial
<1>3. MissedIs(Missed(NoParams))
  BY MissedShape
<1>4. first.params = IF static \in DOMAIN trie THEN m[static].params ELSE NoParams
  BY DEF Missed
<1>5. CASE first.found \/ dynamic \notin DOMAIN trie
  <2>1. x = first
    BY <1>2, <1>5, Zenon
  <2>2. CASE static \in DOMAIN trie
    BY <1>5, <2>1, <2>2, Zenon DEF Statically
  <2>3. CASE static \notin DOMAIN trie
    <3>1. x = Missed(NoParams) /\ MissedIs(x)
      BY <1>3, <2>1, <2>3, Zenon
    <3>2. x.found = FALSE
      BY <3>1 DEF MissedIs
    <3> QED
      BY <1>5, <2>1, <2>3, <3>1, <3>2, Zenon DEF NoChild
  <2> QED
    BY <2>2, <2>3
<1>6. CASE ~(first.found \/ dynamic \notin DOMAIN trie)
  <2>1. x = [m[dynamic] EXCEPT !.params = Over(@, before)]
    BY <1>2, <1>6, Zenon
  <2>2. m[dynamic] = [found |-> m[dynamic].found, at |-> m[dynamic].at, params |-> m[dynamic].params]
    BY <1>6, Zenon DEF Shaped
  <2> DEFINE new == Over(m[dynamic].params, before)
  <2> HIDE DEF before, new
  <2>3. x = [found |-> m[dynamic].found, at |-> m[dynamic].at, params |-> new]
    BY <2>1, <2>2 DEF new
  <2>4. Shaped(x) /\ x.found = m[dynamic].found /\ x.at = m[dynamic].at /\ x.params = new
    BY <2>3 DEF Shaped
  <2>5. static \in DOMAIN trie => ~m[static].found
    BY <1>6, Zenon
  <2>6. before = Over([name \in {trie[at].param} |-> e], IF static \in DOMAIN trie THEN m[static].params ELSE NoParams)
    <3> HIDE DEF first
    <3> QED
      BY <1>4, Zenon DEF before
  <2> QED
    BY <1>6, <2>4, <2>5, <2>6, Zenon DEF new, Dynamically
<1> QED
  BY <1>5, <1>6

Right(x, at, segments) == Shaped(x) /\ RightPlace(x, at, segments) /\ RightParams(x, at, segments)

\* If the children are searched right, so is the node.
LEMMA TrialRight ==
  ASSUME Tree, NEW segments \in Seq(STRING), NEW at \in DOMAIN trie, Len(at) < Len(segments),
         NEW m, NEW x, x = Trial(m, at, segments),
         NEW static, static = Append(at, segments[Len(at) + 1]),
         NEW dynamic, dynamic = Append(at, Dynamic),
         static \in DOMAIN trie => Right(m[static], static, segments),
         dynamic \in DOMAIN trie => Right(m[dynamic], dynamic, segments)
  PROVE  Right(x, at, segments)
<1> DEFINE e == segments[Len(at) + 1]
           n == Len(at)
<1>1. /\ at \in Seq(Edges) /\ e \in STRING /\ e \in Edges /\ Dynamic \in Edges /\ e # Dynamic
      /\ Under(static, at) /\ Under(dynamic, at)
      /\ \A q : Leads(segments, at, q) => \/ static \in DOMAIN trie /\ Leads(segments, static, q)
                                          \/ dynamic \in DOMAIN trie /\ Leads(segments, dynamic, q)
      /\ \A q : Leads(segments, static, q) => Leads(segments, at, q)
      /\ \A q : Leads(segments, dynamic, q) => Leads(segments, at, q)
      /\ \A p, q : Leads(segments, static, p) /\ Leads(segments, dynamic, q) => GoesBefore(p, q)
  BY LeadsChild
<1>2. /\ n \in Nat /\ Len(static) = n + 1 /\ Len(dynamic) = n + 1
      /\ static \in Seq(Edges) /\ dynamic \in Seq(Edges)
      /\ static[n + 1] = e /\ dynamic[n + 1] = Dynamic
  BY <1>1, AppendIs
<1>3. DOMAIN trie \subseteq Seq(Edges) /\ \A q \in DOMAIN trie : Len(q) \in Nat
  BY DEF Tree
<1>4. ASSUME NEW c \in {static, dynamic} PROVE ParamsBelow(c) \subseteq ParamsBelow(at)
  <2>1. \A q \in DOMAIN trie : Under(q, c) => Under(q, at)
    BY <1>1, <1>2, <1>3, UnderTrans
  <2> QED
    BY <2>1 DEF ParamsBelow
<1>5. trie[at].param \in ParamsBelow(at)
  BY <1>1, UnderItself DEF ParamsBelow
<1> HIDE DEF e, n
<1>6. Statically(x, m, static, dynamic) \/ NoChild(x, static, dynamic) \/ Dynamically(x, m, at, e, static, dynamic)
  BY TrialGoesOn DEF e, Right
<1>7. CASE Statically(x, m, static, dynamic)
  <2>1. Shaped(x) /\ RightPlace(x, static, segments) /\ RightParams(x, static, segments)
    BY <1>7 DEF Right, Statically
  <2>2. RightPlace(x, at, segments)
    <3>1. CASE x.found
      <4>1. Leads(segments, static, x.at) /\ \A q : Leads(segments, static, q) => q = x.at \/ GoesBefore(x.at, q)
        BY <2>1, <3>1 DEF RightPlace
      <4>2. \A q : Leads(segments, at, q) => q = x.at \/ GoesBefore(x.at, q)
        BY <1>1, <4>1
      <4> QED
        BY <1>1, <3>1, <4>1, <4>2 DEF RightPlace
    <3>2. CASE ~x.found
      <4>1. \A q : ~Leads(segments, static, q)
        BY <2>1, <3>2 DEF RightPlace
      <4>2. \A q : ~Leads(segments, at, q)
        BY <1>1, <1>7, <3>2, <4>1 DEF Statically
      <4> QED
        BY <3>2, <4>2 DEF RightPlace
    <3> QED
      BY <3>1, <3>2
  <2>3. ASSUME x.found, Apart, NEW y \in DOMAIN trie, Under(x.at, y), Len(at) <= Len(y), Len(y) < Len(segments),
               x.at[Len(y) + 1] = Dynamic
        PROVE  trie[y].param \in DOMAIN x.params /\ x.params[trie[y].param] = segments[Len(y) + 1]
    <3>1. Under(x.at, static)
      BY <2>1, <2>3 DEF RightPlace, Leads
    <3>2. x.at[n + 1] = e
      BY <1>2, <3>1 DEF Under
    <3>3. Len(y) # n
      BY <1>1, <2>3, <3>2
    <3>4. Len(static) <= Len(y)
      BY <1>2, <1>3, <2>3, <3>3 DEF n
    <3> QED
      BY <2>1, <2>3, <3>4 DEF RightParams
  <2>4. RightParams(x, at, segments)
    BY <1>4, <2>1, <2>3 DEF RightParams
  <2> QED
    BY <2>1, <2>2, <2>4 DEF Right
<1>8. CASE NoChild(x, static, dynamic)
  <2>1. \A q : ~Leads(segments, at, q)
    BY <1>1, <1>8 DEF NoChild
  <2> QED
    BY <1>8, <2>1 DEF Right, RightPlace, RightParams, MissedIs, NoChild
<1>9. CASE Dynamically(x, m, at, e, static, dynamic)
  <2> DEFINE d == m[dynamic]
             own == [name \in {trie[at].param} |-> e]
             left == IF static \in DOMAIN trie THEN m[static].params ELSE NoParams
             before == Over(own, left)
  <2>1. RightPlace(d, dynamic, segments) /\ RightParams(d, dynamic, segments)
    BY <1>9 DEF Right, Dynamically
  <2>2. \A q : ~(static \in DOMAIN trie /\ Leads(segments, static, q))
    BY <1>9 DEF Right, RightPlace, Dynamically
  <2>3. RightPlace(x, at, segments)
    <3>1. CASE x.found
      <4>1. Leads(segments, dynamic, x.at) /\ \A q : Leads(segments, dynamic, q) => q = x.at \/ GoesBefore(x.at, q)
        BY <1>9, <2>1, <3>1 DEF RightPlace, Dynamically
      <4>2. \A q : Leads(segments, at, q) => q = x.at \/ GoesBefore(x.at, q)
        BY <1>1, <2>2, <4>1
      <4> QED
        BY <1>1, <3>1, <4>1, <4>2 DEF RightPlace
    <3>2. CASE ~x.found
      <4>1. \A q : ~Leads(segments, dynamic, q)
        BY <1>9, <2>1, <3>2 DEF RightPlace, Dynamically
      <4>2. \A q : ~Leads(segments, at, q)
        BY <1>1, <2>2, <4>1
      <4> QED
        BY <3>2, <4>2 DEF RightPlace
    <3> QED
      BY <3>1, <3>2
  <2>4. DOMAIN own = {trie[at].param} /\ own[trie[at].param] = e
    OBVIOUS
  <2>5. DOMAIN left \subseteq ParamsBelow(at)
    <3>1. CASE static \in DOMAIN trie
      <4>1. DOMAIN m[static].params \subseteq ParamsBelow(static)
        BY <3>1 DEF Right, RightParams
      <4> QED
        BY <1>4, <3>1, <4>1
    <3>2. CASE static \notin DOMAIN trie
      BY <3>2 DEF NoParams
    <3> QED
      BY <3>1, <3>2
  <2> HIDE DEF own, left
  <2>6. DOMAIN before = {trie[at].param} \cup DOMAIN left /\ before[trie[at].param] = e
    <3>1. DOMAIN before = DOMAIN own \cup DOMAIN left /\ \A z \in DOMAIN own : before[z] = own[z]
      BY OverIs
    <3> HIDE DEF before
    <3> QED
      BY <2>4, <3>1
  <2>7. x.params = Over(d.params, before)
    BY <1>9 DEF own, left, Dynamically
  <2> HIDE DEF before, d
  <2>8. /\ DOMAIN x.params = DOMAIN d.params \cup DOMAIN before
        /\ \A z \in DOMAIN d.params : x.params[z] = d.params[z]
        /\ \A z \in DOMAIN before : z \notin DOMAIN d.params => x.params[z] = before[z]
    <3>1. /\ DOMAIN Over(d.params, before) = DOMAIN d.params \cup DOMAIN before
          /\ \A z \in DOMAIN d.params : Over(d.params, before)[z] = d.params[z]
          /\ \A z \in DOMAIN before : z \notin DOMAIN d.params => Over(d.params, before)[z] = before[z]
      BY OverIs
    <3> QED
      BY <2>7, <3>1, Zenon
  <2>9. DOMAIN d.params \subseteq ParamsBelow(dynamic)
    BY <2>1 DEF RightParams
  <2>10. DOMAIN x.params \subseteq ParamsBelow(at)
    BY <1>4, <1>5, <2>5, <2>6, <2>8, <2>9
  <2>11. ASSUME x.found, Apart, NEW y \in DOMAIN trie, Under(x.at, y), Len(at) <= Len(y), Len(y) < Len(segments),
                x.at[Len(y) + 1] = Dynamic
         PROVE  trie[y].param \in DOMAIN x.params /\ x.params[trie[y].param] = segments[Len(y) + 1]
    <3>1. d.found /\ d.at = x.at
      BY <1>9, <2>11 DEF d, Dynamically
    <3>2. CASE Len(y) = n
      <4>1. Leads(segments, at, x.at)
        BY <2>3, <2>11 DEF RightPlace
      <4>2. Under(x.at, at)
        BY <4>1 DEF Leads
      <4>3. \A i \in 1..n : y[i] = at[i]
        BY <2>11, <3>2, <4>2 DEF Under, n
      <4>4. y = at
        BY <1>1, <1>3, <3>2, <4>3, SameSeq DEF n
      <4>5. trie[at].param \notin ParamsBelow(dynamic)
        BY <2>11 DEF ParamsBelow, Apart
      <4>6. trie[at].param \in DOMAIN x.params /\ x.params[trie[at].param] = e
        BY <2>6, <2>8, <2>9, <4>5
      <4> QED
        BY <3>2, <4>4, <4>6 DEF e, n
    <3>3. CASE Len(y) # n
      <4>1. Len(dynamic) <= Len(y)
        BY <1>2, <1>3, <2>11, <3>3 DEF n
      <4>2. trie[y].param \in DOMAIN d.params /\ d.params[trie[y].param] = segments[Len(y) + 1]
        BY <2>1, <2>11, <3>1, <4>1 DEF RightParams
      <4> QED
        BY <2>8, <4>2
    <3> QED
      BY <3>2, <3>3
  <2>12. RightParams(x, at, segments)
    BY <2>10, <2>11 DEF RightParams
  <2> QED
    BY <1>9, <2>3, <2>12 DEF Right, Dynamically
<1> QED
  BY <1>6, <1>7, <1>8, <1>9

\* match_recursive finds the node before all others that the segments lead to.
LEMMA MatchRight ==
  ASSUME Tree, NEW segments \in Seq(STRING)
  PROVE  Right(Match(segments), <<>>, segments)
<1> DEFINE N == Len(segments)
<1>1. PICK m : /\ Match(segments) = m[<<>>]
               /\ \A at \in DOMAIN trie : m[at] = Trial(m, at, segments)
  BY MatchDefined
<1> DEFINE T == {k \in 0..N : \A at \in DOMAIN trie : Len(at) = N - k => Right(m[at], at, segments)}
<1>2. N \in Nat /\ N \in 0..N /\ 0 \in 0..N
  OBVIOUS
<1>3. \A at \in DOMAIN trie : at \in Seq(Edges) /\ Len(at) \in Nat
  BY DEF Tree
<1>4. ASSUME NEW at \in DOMAIN trie, Len(at) = N - 0 PROVE Right(m[at], at, segments)
  <2>1. Len(at) = N
    BY <1>2, <1>4
  <2> QED
    BY <1>1, <2>1, TrialEnds DEF Right
<1>5. ASSUME NEW k \in 1..N,
             \A at \in DOMAIN trie : Len(at) = N - (k - 1) => Right(m[at], at, segments),
             NEW at \in DOMAIN trie, Len(at) = N - k
      PROVE  Right(m[at], at, segments)
  <2> DEFINE static == Append(at, segments[Len(at) + 1])
             dynamic == Append(at, Dynamic)
  <2>1. Len(at) < N /\ Len(at) + 1 = N - (k - 1)
    BY <1>2, <1>3, <1>5
  <2>2. Len(static) = Len(at) + 1 /\ Len(dynamic) = Len(at) + 1
    BY <1>3
  <2>3. static \in DOMAIN trie => Right(m[static], static, segments)
    <3> HIDE DEF static
    <3> QED
      BY <1>5, <2>1, <2>2
  <2>4. dynamic \in DOMAIN trie => Right(m[dynamic], dynamic, segments)
    <3> HIDE DEF dynamic
    <3> QED
      BY <1>5, <2>1, <2>2
  <2>5. m[at] = Trial(m, at, segments)
    BY <1>1
  <2> HIDE DEF N, static, dynamic
  <2> QED
    BY <2>1, <2>3, <2>4, <2>5, TrialRight DEF N, static, dynamic
<1>6. N \in T
  <2> HIDE DEF N
  <2>1. 0 \in T
    BY <1>2, <1>4
  <2>2. \A k \in 1..N : k - 1 \in T => k \in T
    BY <1>2, <1>5
  <2> HIDE DEF T
  <2> QED
    BY <1>2, <2>1, <2>2, UpTo
<1>7. <<>> \in DOMAIN trie /\ Len(<<>>) = N - N
  BY <1>2 DEF Tree
<1>8. Right(m[<<>>], <<>>, segments)
  <2> HIDE DEF N
  <2> QED
    BY <1>6, <1>7
<1> QED
  BY <1>1, <1>8, Zenon

-----------------------------------------------------------------------------
(* What the trie finds is what the declarations say. *)

\* If no pattern names two segments alike, no way through the trie does.
LEMMA NamesApart ==
  ASSUME Built, NamesDiffer
  PROVE  Apart
<1> SUFFICES ASSUME NEW x \in DOMAIN trie, NEW y \in DOMAIN trie, Under(y, Append(x, Dynamic)), trie[y].param = trie[x].param
             PROVE  FALSE
  BY DEF Apart
<1> DEFINE c == Append(x, Dynamic)
           n == Len(x) + 1
<1>1. Tree
  BY TrieIsTree
<1>2. x \in Seq(Edges) /\ y \in Seq(Edges) /\ Dynamic \in Edges /\ Len(x) \in Nat
  BY <1>1 DEF Tree, Edges
<1>3. c \in Seq(Edges) /\ Len(c) = n /\ c[n] = Dynamic /\ \A i \in 1..Len(x) : c[i] = x[i]
  BY <1>2, AppendIs
<1>4. c \in DOMAIN trie
  BY <1>1, <1>3 DEF Tree
<1> HIDE DEF c
<1>5. ASSUME NEW r \in Taken, NEW k \in 0..Len(r.pattern), n <= k, \A j \in 1..n : Place(r.pattern, k)[j] = c[j]
      PROVE  n \in DOMAIN r.pattern /\ IsDynamic(r.pattern[n]) /\ trie[x].param = r.pattern[n].name
  <2>1. r.pattern \in Patterns /\ Len(r.pattern) \in Nat /\ DOMAIN r.pattern = 1..Len(r.pattern)
    BY TakenType
  <2>2. n \in DOMAIN r.pattern /\ n \in 1..k /\ n - 1 = Len(x) /\ n - 1 \in 0..Len(r.pattern)
    BY <1>2, <1>5, <2>1
  <2>3. \A j \in 1..k : Place(r.pattern, k)[j] = IF IsDynamic(r.pattern[j]) THEN Dynamic ELSE r.pattern[j].name
    BY <2>1, PlaceType
  <2>4. IsDynamic(r.pattern[n])
    <3>1. r.pattern[n].name \in STRING /\ n \in 1..n
      BY <1>2, <2>1, <2>2, SegmentType
    <3>2. (IF IsDynamic(r.pattern[n]) THEN Dynamic ELSE r.pattern[n].name) = Dynamic
      BY <1>3, <1>5, <2>2, <2>3, <3>1
    <3> QED
      BY <3>1, <3>2, RouterAssumption
  <2>5. Place(r.pattern, n - 1) = x
    <3> DEFINE p == Place(r.pattern, n - 1)
    <3>1. p \in Seq(Edges) /\ Len(p) = n - 1 /\ \A j \in 1..(n - 1) : p[j] = IF IsDynamic(r.pattern[j]) THEN Dynamic ELSE r.pattern[j].name
      BY <2>1, <2>2, PlaceType
    <3>2. \A j \in 1..Len(x) : j \in 1..k /\ j \in 1..n /\ j \in 1..(n - 1)
      BY <1>2, <1>5, <2>2
    <3>3. \A j \in 1..Len(x) : p[j] = x[j]
      BY <1>3, <1>5, <2>3, <3>1, <3>2
    <3> HIDE DEF p
    <3>4. p = x
      BY <1>2, <2>2, <3>1, <3>3, SameSeq
    <3> QED
      BY <3>4 DEF p
  <2> QED
    BY <2>2, <2>4, <2>5 DEF Built, Named
<1>6. trie[x].param \in STRING
  <2>1. c # <<>>
    BY <1>2, <1>3
  <2>2. PICK r \in Taken : \E k \in 0..Len(r.pattern) : c = Place(r.pattern, k)
    BY <1>4, <2>1 DEF Built, Grown, Places
  <2>3. PICK k \in 0..Len(r.pattern) : c = Place(r.pattern, k)
    BY <2>2
  <2>4. r.pattern \in Patterns /\ Len(r.pattern) \in Nat
    BY TakenType
  <2>5. n = k
    BY <1>3, <2>3, <2>4, PlaceType
  <2>6. n <= k /\ \A j \in 1..n : Place(r.pattern, k)[j] = c[j]
    BY <2>3, <2>4, <2>5
  <2>7. n \in DOMAIN r.pattern /\ trie[x].param = r.pattern[n].name
    BY <1>5, <2>6
  <2> QED
    BY <2>4, <2>7, SegmentType
<1>7. PICK s \in Taken : \E i \in DOMAIN s.pattern :
        IsDynamic(s.pattern[i]) /\ Place(s.pattern, i - 1) = y /\ s.pattern[i].name = trie[y].param
  BY <1>6, RouterAssumption DEF Built, Named
<1>8. PICK i \in DOMAIN s.pattern :
        IsDynamic(s.pattern[i]) /\ Place(s.pattern, i - 1) = y /\ s.pattern[i].name = trie[y].param
  BY <1>7
<1>9. s \in Declared /\ s.pattern \in Patterns /\ Len(s.pattern) \in Nat /\ i \in 1..Len(s.pattern) /\ i - 1 \in 0..Len(s.pattern)
  BY TakenType
<1>10. n <= i - 1 /\ \A j \in 1..n : Place(s.pattern, i - 1)[j] = c[j]
  <2>1. Len(y) = i - 1
    BY <1>8, <1>9, PlaceType
  <2> QED
    BY <1>3, <1>8, <2>1 DEF Under, c
<1>11. n \in DOMAIN s.pattern /\ IsDynamic(s.pattern[n]) /\ trie[x].param = s.pattern[n].name
  BY <1>5, <1>9, <1>10
<1>12. n = i
  BY <1>8, <1>9, <1>11 DEF NamesDiffer
<1> QED
  BY <1>2, <1>9, <1>10, <1>12

\* The nodes that a request leads to are those of the routes that fit.
LEMMA LeadsToRoutes ==
  ASSUME Built, NEW segments \in Seq(STRING)
  PROVE  /\ \A q : Leads(segments, <<>>, q) => \E r \in Taken : Leaf(r) = q /\ Fits(r.pattern, segments)
         /\ \A r \in Taken : Fits(r.pattern, segments) => Leads(segments, <<>>, Leaf(r))
<1>1. ASSUME NEW r \in Taken
      PROVE  /\ r.pattern \in Patterns /\ DOMAIN r.pattern = 1..Len(r.pattern)
             /\ Leaf(r) \in DOMAIN trie
             /\ Leaf(r) \in Seq(Edges) /\ Len(Leaf(r)) = Len(r.pattern)
             /\ \A i \in 1..Len(r.pattern) : /\ Leaf(r)[i] = IF IsDynamic(r.pattern[i]) THEN Dynamic ELSE r.pattern[i].name
                                             /\ r.pattern[i].name \in STRING
  <2>1. r.pattern \in Patterns /\ DOMAIN r.pattern = 1..Len(r.pattern) /\ Len(r.pattern) \in 0..Len(r.pattern)
    BY TakenType
  <2>2. Leaf(r) \in DOMAIN trie
    BY <2>1 DEF Built, Grown, Places, Leaf
  <2> QED
    BY <2>1, <2>2, PlaceType, SegmentType DEF Leaf
<1>2. ASSUME NEW q, Leads(segments, <<>>, q) PROVE \E r \in Taken : Leaf(r) = q /\ Fits(r.pattern, segments)
  <2>1. q \in DOMAIN trie /\ DOMAIN trie[q].handlers # {} /\ Len(q) = Len(segments)
        /\ \A i \in 1..Len(q) : q[i] = Dynamic \/ q[i] = segments[i]
    BY <1>2 DEF Leads
  <2>2. PICK v \in DOMAIN trie[q].handlers : TRUE
    BY <2>1
  <2>3. PICK r \in Taken : Leaf(r) = q
    BY <2>1, <2>2 DEF Built, Held
  <2>4. Len(r.pattern) = Len(segments)
    BY <1>1, <2>1, <2>3
  <2>5. ASSUME NEW i \in DOMAIN r.pattern PROVE IsDynamic(r.pattern[i]) \/ r.pattern[i].name = segments[i]
    BY <1>1, <2>1, <2>3, RouterAssumption
  <2> QED
    BY <2>3, <2>4, <2>5 DEF Fits
<1>3. ASSUME NEW r \in Taken, Fits(r.pattern, segments) PROVE Leads(segments, <<>>, Leaf(r))
  <2>1. Under(Leaf(r), <<>>)
    BY <1>1 DEF Under
  <2>2. \A i \in 1..Len(Leaf(r)) : Leaf(r)[i] = Dynamic \/ Leaf(r)[i] = segments[i]
    BY <1>1, <1>3 DEF Fits
  <2>3. DOMAIN trie[Leaf(r)].handlers # {}
    BY DEF Built, Held
  <2>4. Len(Leaf(r)) = Len(segments)
    BY <1>1, <1>3 DEF Fits
  <2> QED
    BY <1>1, <2>1, <2>2, <2>3, <2>4 DEF Leads
<1> QED
  BY <1>2, <1>3

\* Of two places, the one that goes before has the closer pattern.
LEMMA BeforeIsCloser ==
  ASSUME Built, NEW r \in Taken, NEW s \in Taken, GoesBefore(Leaf(r), Leaf(s)), Len(r.pattern) = Len(s.pattern)
  PROVE  Closer(r.pattern, s.pattern) /\ ~Closer(s.pattern, r.pattern)
<1> DEFINE p == r.pattern
           q == s.pattern
<1>1. /\ p \in Patterns /\ q \in Patterns /\ Len(p) \in Nat
      /\ DOMAIN p = 1..Len(p) /\ DOMAIN q = 1..Len(p)
  BY TakenType
<1>2. /\ Len(Leaf(r)) = Len(p)
      /\ \A i \in 1..Len(p) :
           /\ Leaf(r)[i] = IF IsDynamic(p[i]) THEN Dynamic ELSE p[i].name
           /\ Leaf(s)[i] = IF IsDynamic(q[i]) THEN Dynamic ELSE q[i].name
           /\ p[i].name \in STRING /\ q[i].name \in STRING
  <2>1. Len(q) = Len(p) /\ Len(p) \in 0..Len(p) /\ Len(q) \in 0..Len(q)
    BY <1>1
  <2>2. /\ Len(Leaf(r)) = Len(p)
        /\ \A i \in 1..Len(p) : Leaf(r)[i] = IF IsDynamic(p[i]) THEN Dynamic ELSE p[i].name
    BY <1>1, <2>1, PlaceType DEF Leaf
  <2>3. \A i \in 1..Len(q) : Leaf(s)[i] = IF IsDynamic(q[i]) THEN Dynamic ELSE q[i].name
    BY <1>1, <2>1, PlaceType DEF Leaf
  <2>4. \A i \in 1..Len(p) : p[i].name \in STRING /\ q[i].name \in STRING
    BY <1>1, SegmentType
  <2> QED
    BY <2>1, <2>2, <2>3, <2>4
<1>3. \A i \in 1..Len(p) : /\ IsDynamic(p[i]) <=> Leaf(r)[i] = Dynamic
                           /\ IsDynamic(q[i]) <=> Leaf(s)[i] = Dynamic
  BY <1>2, RouterAssumption
<1>4. PICK i \in 1..Len(p) : /\ Leaf(r)[i] # Dynamic /\ Leaf(s)[i] = Dynamic
                             /\ \A j \in 1..(i - 1) : Leaf(r)[j] = Leaf(s)[j]
  BY <1>2 DEF GoesBefore
<1>5. \A j \in 1..(i - 1) : j \in 1..Len(p) /\ (IsDynamic(p[j]) <=> IsDynamic(q[j]))
  BY <1>1, <1>3, <1>4
<1>6. ~IsDynamic(p[i]) /\ IsDynamic(q[i])
  BY <1>3, <1>4
<1>7. Closer(p, q)
  BY <1>1, <1>5, <1>6 DEF Closer
<1>8. ASSUME Closer(q, p) PROVE FALSE
  <2>1. PICK k \in 1..Len(p) : /\ ~IsDynamic(q[k]) /\ IsDynamic(p[k])
                               /\ \A j \in 1..(k - 1) : IsDynamic(q[j]) <=> IsDynamic(p[j])
    BY <1>1, <1>8 DEF Closer
  <2>2. k # i /\ ~(k \in 1..(i - 1)) /\ ~(i \in 1..(k - 1))
    BY <1>5, <1>6, <2>1
  <2> QED
    BY <1>1, <2>2
<1> QED
  BY <1>7, <1>8

\* What is matched is the closest of all patterns that fit.
LEMMA MatchIsClosest ==
  ASSUME Built, phase = "serving", NEW segments \in Seq(STRING)
  PROVE  /\ Match(segments).found =>
              \E r \in Taken : Leaf(r) = Match(segments).at /\ Fits(r.pattern, segments) /\ Closest(segments) = {r.pattern}
         /\ ~Match(segments).found => Closest(segments) = {}
<1> DEFINE x == Match(segments)
           fitting == {r.pattern : r \in {s \in Declared : Fits(s.pattern, segments)}}
<1>1. RightPlace(x, <<>>, segments)
  BY TrieIsTree, MatchRight DEF Right
<1>2. Taken = Declared
  BY AllTaken
<1>3. Closest(segments) = {p \in fitting : \A q \in fitting : ~Closer(q, p)}
  BY Zenon DEF Closest
<1> HIDE DEF x
<1>4. ASSUME x.found
      PROVE  \E r \in Taken : Leaf(r) = x.at /\ Fits(r.pattern, segments) /\ Closest(segments) = {r.pattern}
  <2>1. Leads(segments, <<>>, x.at) /\ \A q : Leads(segments, <<>>, q) => q = x.at \/ GoesBefore(x.at, q)
    BY <1>1, <1>4 DEF RightPlace
  <2>2. PICK r \in Taken : Leaf(r) = x.at /\ Fits(r.pattern, segments)
    BY <2>1, LeadsToRoutes
  <2>3. ASSUME NEW s \in Taken, Fits(s.pattern, segments)
        PROVE  \/ s.pattern = r.pattern
               \/ Closer(r.pattern, s.pattern) /\ ~Closer(s.pattern, r.pattern)
    <3>1. Leaf(s) = Leaf(r) \/ GoesBefore(Leaf(r), Leaf(s))
      BY <2>1, <2>2, <2>3, LeadsToRoutes
    <3>2. Len(r.pattern) = Len(s.pattern)
      BY <2>2, <2>3 DEF Fits
    <3> QED
      BY <3>1, <3>2, OnePattern, BeforeIsCloser
  <2>4. ~Closer(r.pattern, r.pattern)
    BY DEF Closer
  <2>5. r.pattern \in fitting /\ \A q \in fitting : q = r.pattern \/ (Closer(r.pattern, q) /\ ~Closer(q, r.pattern))
    <3>1. r.pattern \in fitting
      BY <1>2, <2>2
    <3>2. ASSUME NEW q \in fitting PROVE \E s \in Taken : Fits(s.pattern, segments) /\ q = s.pattern
      BY <1>2
    <3> HIDE DEF fitting
    <3> QED
      BY <2>3, <2>4, <3>1, <3>2
  <2> HIDE DEF fitting
  <2>6. Closest(segments) = {r.pattern}
    BY <1>3, <2>4, <2>5
  <2> QED
    BY <2>2, <2>6
<1>5. ASSUME ~x.found PROVE Closest(segments) = {}
  <2>1. \A r \in Taken : ~Fits(r.pattern, segments)
    BY <1>1, <1>5, LeadsToRoutes DEF RightPlace
  <2>2. fitting = {}
    BY <1>2, <2>1
  <2> HIDE DEF fitting
  <2> QED
    BY <1>3, <2>2
<1> QED
  BY <1>4, <1>5 DEF x

-----------------------------------------------------------------------------
(* Answers. *)

Lookup(method) == IF method = "HEAD" THEN "GET" ELSE method

Found(path) == Match(Segments(path))

HandlersFor(path) == trie[Found(path).at].handlers

\* A handler answers, unless the body is too large.
HasHandler(method, path) ==
  ~(method = "OPTIONS" /\ Cors) /\ Found(path).found /\ Lookup(method) \in DOMAIN HandlersFor(path)

HandlerFor(method, path) == HandlersFor(path)[Lookup(method)]

\* The cases of resolve_route.
LEMMA ResolveIs ==
  ASSUME NEW method, NEW path, NEW payload
  PROVE  /\ HasHandler(method, path) /\ payload > LimitOf(HandlerFor(method, path)) =>
              ResolveRoute(method, path, payload) = Outcome("too_large")
         /\ HasHandler(method, path) /\ ~(payload > LimitOf(HandlerFor(method, path))) =>
              ResolveRoute(method, path, payload) =
                [status |-> "handled", route |-> {HandlerFor(method, path).route}, params |-> Found(path).params,
                 chain |-> Chain(Middlewares, HandlerFor(method, path).chain)]
         /\ ~(method = "OPTIONS" /\ Cors) /\ ~Found(path).found =>
              \E status \in {"static_or_not_found", "not_found"} : ResolveRoute(method, path, payload) = Outcome(status)
         /\ ~(method = "OPTIONS" /\ Cors) /\ Found(path).found /\ ~HasHandler(method, path) =>
              ResolveRoute(method, path, payload) = Outcome("wrong_method")
         /\ method = "OPTIONS" /\ Cors => ResolveRoute(method, path, payload) = Outcome("no_content")
<1> DEFINE R == ResolveRoute(method, path, payload)
           preflight == method = "OPTIONS" /\ Cors
           lookup == IF method = "HEAD" THEN "GET" ELSE method
           match == Match(Segments(path))
           verbs == trie[match.at].handlers
<1>1. R = IF preflight THEN Outcome("no_content")
          ELSE IF ~match.found THEN Outcome(IF lookup = "GET" THEN "static_or_not_found" ELSE "not_found")
          ELSE IF lookup \notin DOMAIN verbs THEN Outcome("wrong_method")
          ELSE IF payload > LimitOf(verbs[lookup]) THEN Outcome("too_large")
          ELSE [status |-> "handled", route |-> {verbs[lookup].route},
                params |-> match.params, chain |-> Chain(Middlewares, verbs[lookup].chain)]
  BY Zenon DEF ResolveRoute
<1>2. /\ lookup = Lookup(method) /\ match = Found(path) /\ verbs = HandlersFor(path) /\ verbs[lookup] = HandlerFor(method, path)
      /\ HasHandler(method, path) <=> ~preflight /\ match.found /\ lookup \in DOMAIN verbs
  BY Zenon DEF Lookup, Found, HandlersFor, HandlerFor, HasHandler
<1> HIDE DEF R, preflight, lookup, match, verbs
<1>3. preflight => R = Outcome("no_content")
  BY <1>1, Zenon
<1>4. ~preflight /\ ~match.found => \E status \in {"static_or_not_found", "not_found"} : R = Outcome(status)
  BY <1>1, Zenon
<1>5. ~preflight /\ match.found /\ lookup \notin DOMAIN verbs => R = Outcome("wrong_method")
  BY <1>1, Zenon
<1>6. ~preflight /\ match.found /\ lookup \in DOMAIN verbs /\ payload > LimitOf(verbs[lookup]) => R = Outcome("too_large")
  BY <1>1, Zenon
<1>7. ~preflight /\ match.found /\ lookup \in DOMAIN verbs /\ ~(payload > LimitOf(verbs[lookup])) =>
        R = [status |-> "handled", route |-> {verbs[lookup].route},
             params |-> match.params, chain |-> Chain(Middlewares, verbs[lookup].chain)]
  BY <1>1, Zenon
<1> QED
  BY <1>2, <1>3, <1>4, <1>5, <1>6, <1>7, Zenon DEF R, preflight

LEMMA OutcomeIs ==
  ASSUME NEW status
  PROVE  Outcome(status).status = status /\ Outcome(status).route = {} /\ Outcome(status).chain = <<>>
  BY Zenon DEF Outcome

LEMMA CallType ==
  ASSUME NEW req \in Calls
  PROVE  req.length \in Nat /\ req.path \in Seq(STRING) /\ req.h2 \in BOOLEAN /\ req.authority \in BOOLEAN
  BY RouterAssumption

\* What a request without an :authority gets.
LEMMA AnswerIs ==
  ASSUME NEW req, ~req.authority
  PROVE  Answer(req) = IF req.length > maxParse THEN Outcome("too_large")
                       ELSE ResolveRoute(req.method, req.path, IF Streamed(req) THEN 0 ELSE req.length)
<1>1. PathH2(req) = req.path
  BY Zenon DEF PathH2
<1>2. CASE req.h2
  <2>1. ~Streamed(req)
    BY <1>2 DEF Streamed
  <2>2. Answer(req) = IF req.length > maxParse THEN Outcome("too_large") ELSE ResolveRoute(req.method, req.path, req.length)
    BY <1>1, <1>2, Zenon DEF Answer, AnswerH2
  <2> QED
    BY <2>1, <2>2, Zenon
<1>3. CASE ~req.h2
  BY <1>3, Zenon DEF Answer, AnswerH1
<1> QED
  BY <1>2, <1>3

\* The handler for a verb at a node is that of the last route declared for it.
LEMMA LastDeclared ==
  ASSUME Built, phase = "serving", NEW s \in Taken, NEW verb
  PROVE  /\ verb \in DOMAIN trie[Leaf(s)].handlers =>
              \E r \in Taken : trie[Leaf(s)].handlers[verb] = HandlerOf(r) /\ RouteFor(s.pattern, verb) = {r}
         /\ verb \notin DOMAIN trie[Leaf(s)].handlers => RouteFor(s.pattern, verb) = {}
<1> DEFINE node == trie[Leaf(s)]
           routes == {r \in Declared : r.pattern = s.pattern /\ r.verb = verb}
<1>1. Taken = Declared
  BY AllTaken
<1>2. RouteFor(s.pattern, verb) = {r \in routes : \A t \in routes : t.group <= r.group}
  BY Zenon DEF RouteFor
<1>3. \A r \in routes : Leaf(r) = Leaf(s)
  BY DEF Leaf
<1>4. ASSUME verb \in DOMAIN node.handlers
      PROVE  \E r \in Taken : node.handlers[verb] = HandlerOf(r) /\ RouteFor(s.pattern, verb) = {r}
  <2>1. Leaf(s) \in DOMAIN trie
    <3>1. Len(s.pattern) \in 0..Len(s.pattern)
      BY TakenType
    <3> QED
      BY <3>1 DEF Built, Grown, Places, Leaf
  <2>2. PICK r \in Taken : node.handlers[verb] = HandlerOf(r) /\ r.verb = verb /\ Leaf(r) = Leaf(s)
    BY <1>4, <2>1 DEF Built, Held
  <2>3. r \in routes
    BY <1>1, <2>2, OnePattern
  <2>4. node.handlers[verb].route = r
    BY <2>2 DEF HandlerOf
  <2>5. ASSUME NEW t \in routes PROVE t.group <= r.group
    <3>1. t \in Taken /\ Leaf(t) = Leaf(s) /\ t.verb = verb
      BY <1>1, <1>3
    <3>2. node.handlers[verb].route.group >= t.group
      BY <3>1 DEF Built, Held
    <3>3. t.group \in Nat /\ r.group \in Nat
      BY <3>1, TakenType
    <3> QED
      BY <2>4, <3>2, <3>3
  <2>6. ASSUME NEW t \in routes, r.group <= t.group PROVE t = r
    <3>1. t \in Taken /\ t.verb = r.verb /\ t.pattern = r.pattern
      BY <1>1, <2>3
    <3>2. t = [verb |-> t.verb, pattern |-> t.pattern, group |-> t.group]
          /\ r = [verb |-> r.verb, pattern |-> r.pattern, group |-> r.group]
          /\ t.group \in Nat /\ r.group \in Nat
      BY <3>1, TakenType
    <3>3. t.group = r.group
      BY <2>5, <2>6, <3>2
    <3> QED
      BY <3>1, <3>2, <3>3, Zenon
  <2> HIDE DEF routes
  <2>7. RouteFor(s.pattern, verb) = {r}
    BY <1>2, <2>3, <2>5, <2>6
  <2> QED
    BY <2>2, <2>7
<1>5. ASSUME verb \notin DOMAIN node.handlers PROVE RouteFor(s.pattern, verb) = {}
  <2>1. ASSUME NEW r \in routes PROVE FALSE
    <3>1. r \in Taken /\ Leaf(r) = Leaf(s) /\ r.verb = verb
      BY <1>1, <1>3
    <3> QED
      BY <1>5, <3>1 DEF Built, Held
  <2> HIDE DEF routes
  <2> QED
    BY <1>2, <2>1
<1> QED
  BY <1>4, <1>5

\* Every dynamic segment is under its name in params, if no pattern names two alike.
LEMMA ParamsAre ==
  ASSUME Built, NamesDiffer, NEW segments \in Seq(STRING), Match(segments).found,
         NEW r \in Taken, Leaf(r) = Match(segments).at, Fits(r.pattern, segments),
         NEW i \in DOMAIN r.pattern, IsDynamic(r.pattern[i])
  PROVE  Match(segments).params[r.pattern[i].name] = segments[i]
<1> DEFINE x == Match(segments)
           y == Place(r.pattern, i - 1)
<1>1. RightParams(x, <<>>, segments) /\ Apart
  BY TrieIsTree, MatchRight, NamesApart DEF Right
<1>2. /\ r.pattern \in Patterns /\ Len(r.pattern) \in Nat /\ DOMAIN r.pattern = 1..Len(r.pattern)
      /\ i \in 1..Len(r.pattern) /\ i - 1 \in 0..Len(r.pattern) /\ Len(r.pattern) \in 0..Len(r.pattern)
      /\ Len(segments) = Len(r.pattern)
  BY TakenType DEF Fits
<1>3. /\ y \in DOMAIN trie /\ Len(y) = i - 1
      /\ \A j \in 1..(i - 1) : y[j] = IF IsDynamic(r.pattern[j]) THEN Dynamic ELSE r.pattern[j].name
  <2>1. y \in DOMAIN trie
    BY <1>2 DEF Built, Grown, Places
  <2> QED
    BY <1>2, <2>1, PlaceType
<1>4. /\ Len(x.at) = Len(r.pattern)
      /\ \A j \in 1..Len(r.pattern) : x.at[j] = IF IsDynamic(r.pattern[j]) THEN Dynamic ELSE r.pattern[j].name
  <2>1. /\ Len(Leaf(r)) = Len(r.pattern)
        /\ \A j \in 1..Len(r.pattern) : Leaf(r)[j] = IF IsDynamic(r.pattern[j]) THEN Dynamic ELSE r.pattern[j].name
    BY <1>2, PlaceType DEF Leaf
  <2>2. x.at = Leaf(r)
    OBVIOUS
  <2> HIDE DEF x
  <2> QED
    BY <2>1, <2>2, Zenon
<1>5. trie[y].param = r.pattern[i].name
  BY DEF Built, Named
<1> HIDE DEF x, y
<1>6. Under(x.at, y)
  <2>1. \A j \in 1..(i - 1) : j \in 1..Len(r.pattern)
    BY <1>2
  <2> QED
    BY <1>2, <1>3, <1>4, <2>1 DEF Under
<1>7. x.at[Len(y) + 1] = Dynamic /\ Len(y) + 1 = i /\ Len(<<>>) <= Len(y) /\ Len(y) < Len(segments)
  BY <1>2, <1>3, <1>4
<1>8. x.params[trie[y].param] = segments[Len(y) + 1]
  BY <1>1, <1>3, <1>6, <1>7 DEF RightParams, x
<1> QED
  BY <1>5, <1>7, <1>8 DEF x

\* Whatever the order in which a HashMap yields the routes, whatever the routes
\* and the requests are, a request gets the route that the declarations say, in
\* its middlewares, with its parameters (routes.rs:34-83, lib.rs:649-701).
THEOREM RoutesJustified == RouterSpec => []RoutesAsDeclared
<1>1. Built => RoutesAsDeclared
  <2> SUFFICES ASSUME Built, phase = "serving", NEW req \in Calls, req.length = 0, ~req.authority,
                      req.method # "OPTIONS" \/ ~Cors
               PROVE  LET segments == Segments(req.path)
                          best     == Closest(segments)
                          routes   == UNION {RouteFor(p, IF req.method = "HEAD" THEN "GET" ELSE req.method) : p \in best}
                          answer   == Answer(req)
                      IN /\ answer.route = routes
                         /\ (best = {}) <=> answer.status \in {"not_found", "static_or_not_found"}
                         /\ \A r \in answer.route :
                              /\ answer.chain = Middlewares \o Groups[r.group].mws
                              /\ \A i \in DOMAIN r.pattern :
                                   IsDynamic(r.pattern[i]) /\ NamesDiffer => answer.params[r.pattern[i].name] = segments[i]
    BY Zenon DEF RoutesAsDeclared
  <2> DEFINE segments == Segments(req.path)
             best == Closest(segments)
             verb == Lookup(req.method)
             routes == UNION {RouteFor(p, verb) : p \in best}
             answer == Answer(req)
             handler == HandlerFor(req.method, req.path)
  <2>1. segments \in Seq(STRING) /\ Match(segments) = Found(req.path)
    BY CallType, SegmentsType DEF Found
  <2>2. answer = ResolveRoute(req.method, req.path, 0)
    <3>1. ~(req.length > maxParse)
      BY DEF Built, Allowed
    <3>2. (IF Streamed(req) THEN 0 ELSE req.length) = 0
      OBVIOUS
    <3> QED
      BY <3>1, <3>2, AnswerIs, Zenon
  <2> SUFFICES /\ answer.route = routes
               /\ (best = {}) <=> answer.status \in {"not_found", "static_or_not_found"}
               /\ \A r \in answer.route :
                    /\ answer.chain = Middlewares \o Groups[r.group].mws
                    /\ \A i \in DOMAIN r.pattern :
                         IsDynamic(r.pattern[i]) /\ NamesDiffer => answer.params[r.pattern[i].name] = segments[i]
    BY Zenon DEF Lookup
  <2> HIDE DEF answer, handler, best, segments, verb, routes
  <2>3. ~(req.method = "OPTIONS" /\ Cors)
    OBVIOUS
  <2>4. CASE ~Found(req.path).found
    <3>1. best = {}
      BY <2>1, <2>4, MatchIsClosest DEF best
    <3>2. PICK status \in {"static_or_not_found", "not_found"} : answer = Outcome(status)
      BY <2>2, <2>3, <2>4, ResolveIs
    <3>3. answer.status \in {"static_or_not_found", "not_found"} /\ answer.route = {}
      BY <3>2, OutcomeIs
    <3>4. routes = {}
      BY <3>1 DEF routes
    <3> QED
      BY <3>1, <3>3, <3>4
  <2>5. CASE Found(req.path).found
    <3>1. PICK s \in Taken : Leaf(s) = Match(segments).at /\ Fits(s.pattern, segments) /\ best = {s.pattern}
      BY <2>1, <2>5, MatchIsClosest DEF best
    <3>2. routes = RouteFor(s.pattern, verb)
      BY <3>1 DEF routes
    <3>3. best # {}
      BY <3>1
    <3>4. HandlersFor(req.path) = trie[Leaf(s)].handlers
      BY <2>1, <3>1 DEF HandlersFor
    <3>5. CASE verb \notin DOMAIN HandlersFor(req.path)
      <4>1. routes = {}
        BY <3>2, <3>4, <3>5, LastDeclared
      <4>2. answer = Outcome("wrong_method")
        BY <2>2, <2>3, <2>5, <3>5, ResolveIs DEF HasHandler, verb
      <4>3. answer.status = "wrong_method" /\ answer.route = {}
        BY <4>2, OutcomeIs
      <4> QED
        BY <3>3, <4>1, <4>3
    <3>6. CASE verb \in DOMAIN HandlersFor(req.path)
      <4>1. PICK r \in Taken : handler = HandlerOf(r) /\ routes = {r}
        BY <3>2, <3>4, <3>6, LastDeclared DEF handler, HandlerFor, verb
      <4>2. r \in setup /\ r.group \in 1..Len(Groups)
        BY TakenType
      <4>3. r.pattern = s.pattern
        <5>1. r \in RouteFor(s.pattern, verb)
          BY <3>2, <4>1
        <5> QED
          BY <5>1 DEF RouteFor
      <4>4. Groups[r.group].limit \in Nat \cup {NoLimit} /\ Groups[r.group].mws \in Seq(STRING)
        BY <4>2, GroupType
      <4>5. handler.route = r /\ handler.limit = Groups[r.group].limit /\ handler.chain = Chain(Groups[r.group].mws, <<>>)
        BY <4>1 DEF HandlerOf
      <4>6. ~(0 > LimitOf(handler))
        BY <4>4, <4>5, RouterAssumption DEF LimitOf
      <4>7. answer = [status |-> "handled", route |-> {handler.route}, params |-> Found(req.path).params,
                      chain |-> Chain(Middlewares, handler.chain)]
        <5>1. HasHandler(req.method, req.path)
          BY <2>3, <2>5, <3>6 DEF HasHandler, verb
        <5> QED
          BY <2>2, <4>6, <5>1, ResolveIs DEF handler
      <4>8. answer.status = "handled" /\ answer.route = {handler.route} /\ answer.params = Match(segments).params
            /\ answer.chain = Chain(Middlewares, handler.chain)
        BY <2>1, <4>7, Zenon
      <4>9. answer.chain = Middlewares \o Groups[r.group].mws
        <5>1. <<>> \in Seq(STRING)
          OBVIOUS
        <5>2. handler.chain = Groups[r.group].mws
          <6> DEFINE mws == Groups[r.group].mws
          <6>1. mws \in Seq(STRING) /\ handler.chain = Chain(mws, <<>>)
            BY <4>4, <4>5
          <6> HIDE DEF mws
          <6>2. Chain(mws, <<>>) = mws \o <<>>
            BY <5>1, <6>1, ChainIs
          <6>3. mws \o <<>> = mws
            BY <6>1
          <6> QED
            BY <6>1, <6>2, <6>3 DEF mws
        <5> QED
          BY <4>4, <4>8, <5>2, ChainIs, RouterAssumption
      <4>10. ASSUME NamesDiffer, NEW i \in DOMAIN r.pattern, IsDynamic(r.pattern[i])
             PROVE  answer.params[r.pattern[i].name] = segments[i]
        <5>1. Match(segments).found
          BY <2>1, <2>5
        <5> QED
          BY <2>1, <3>1, <4>3, <4>8, <4>10, <5>1, ParamsAre
      <4>11. answer.route = {r}
        BY <4>5, <4>8
      <4>12. (best = {}) <=> answer.status \in {"not_found", "static_or_not_found"}
        BY <3>3, <4>8
      <4> QED
        BY <4>1, <4>9, <4>10, <4>11, <4>12
    <3> QED
      BY <3>5, <3>6
  <2> QED
    BY <2>4, <2>5
<1> QED
  BY <1>1, RouterBuilt, PTL

\* The limit of a group takes precedence over the server's, in both directions,
\* whatever the limits are (lib.rs:671-676 and README.md:540 of the repository).
THEOREM LimitsJustified == RouterSpec => []LimitsAsDeclared
<1>1. Built => LimitsAsDeclared
  <2> SUFFICES ASSUME Built, phase = "serving", NEW req \in Calls, ~Streamed(req), ~req.authority
               PROVE  LET free  == Answer([req EXCEPT !.length = 0])
                          own   == {Groups[r.group].limit : r \in free.route} \ {NoLimit}
                          limit == IF own = {} THEN MaxBodySize ELSE CHOOSE l \in own : TRUE
                      IN free.status = "handled" => (Answer(req).status = "handled" <=> req.length <= limit)
    BY Zenon DEF LimitsAsDeclared
  <2> DEFINE empty == [req EXCEPT !.length = 0]
             free == Answer(empty)
             own == {Groups[r.group].limit : r \in free.route} \ {NoLimit}
             limit == IF own = {} THEN MaxBodySize ELSE CHOOSE l \in own : TRUE
             handler == HandlerFor(req.method, req.path)
  <2> SUFFICES ASSUME free.status = "handled"
               PROVE  Answer(req).status = "handled" <=> req.length <= limit
    BY Zenon
  <2>1. req.length \in Nat /\ req.path \in Seq(STRING)
    BY CallType
  <2>2. /\ empty.length = 0 /\ empty.method = req.method /\ empty.path = req.path
        /\ empty.h2 = req.h2 /\ empty.authority = req.authority
    BY RouterAssumption
  <2> HIDE DEF empty
  <2>3. free = ResolveRoute(req.method, req.path, 0)
    <3>1. ~(empty.length > maxParse)
      BY <2>2 DEF Built, Allowed
    <3>2. (IF Streamed(empty) THEN 0 ELSE empty.length) = 0
      BY <2>2
    <3>3. free = ResolveRoute(empty.method, empty.path, IF Streamed(empty) THEN 0 ELSE empty.length)
      BY <2>2, <3>1, AnswerIs
    <3> QED
      BY <2>2, <3>2, <3>3
  <2>4. Answer(req) = IF req.length > maxParse THEN Outcome("too_large")
                      ELSE ResolveRoute(req.method, req.path, req.length)
    BY AnswerIs
  <2> HIDE DEF free, handler
  <2>5. HasHandler(req.method, req.path)
    <3>1. ASSUME ~HasHandler(req.method, req.path)
          PROVE  \E status \in {"static_or_not_found", "not_found", "wrong_method", "no_content"} : free = Outcome(status)
      BY <2>3, <3>1, ResolveIs
    <3> QED
      BY <3>1, OutcomeIs
  <2>6. PICK r \in Taken : handler = HandlerOf(r)
    <3>1. Found(req.path).found /\ Lookup(req.method) \in DOMAIN HandlersFor(req.path)
      BY <2>5 DEF HasHandler
    <3>2. Segments(req.path) \in Seq(STRING)
      BY <2>1, SegmentsType
    <3>3. PICK s \in Taken : Leaf(s) = Found(req.path).at
      BY <3>1, <3>2, MatchIsClosest DEF Found
    <3> QED
      BY <3>1, <3>3, LastDeclared DEF handler, HandlerFor, HandlersFor
  <2>7. r.group \in 1..Len(Groups) /\ Groups[r.group].limit \in Nat \cup {NoLimit}
    BY TakenType, GroupType
  <2>8. handler.route = r /\ handler.limit = Groups[r.group].limit
    BY <2>6 DEF HandlerOf
  <2>9. LimitOf(handler) \in Nat /\ LimitOf(handler) <= maxParse
    <3>1. MaxBodySize <= maxParse /\ maxParse \in Nat /\ MaxBodySize \in Nat
      BY RouterAssumption DEF Built, Allowed
    <3>2. group = Len(Groups)
      BY DEF Built, Startup
    <3>3. Groups[r.group].limit # NoLimit => Groups[r.group].limit <= maxParse
      BY <2>7, <3>2 DEF Built, Allowed
    <3> QED
      BY <2>7, <2>8, <3>1, <3>3 DEF LimitOf
  <2>10. LimitOf(handler) = limit
    <3>1. ~(0 > LimitOf(handler))
      BY <2>9
    <3>2. free.route = {handler.route}
      BY <2>3, <2>5, <3>1, ResolveIs DEF handler
    <3>3. own = {handler.limit} \ {NoLimit}
      BY <2>8, <3>2
    <3> HIDE DEF own
    <3> QED
      BY <3>3 DEF LimitOf
  <2>11. req.length > LimitOf(handler) => Answer(req).status = "too_large"
    <3>1. req.length > LimitOf(handler) => ResolveRoute(req.method, req.path, req.length) = Outcome("too_large")
      BY <2>5, ResolveIs DEF handler
    <3> QED
      BY <2>4, <3>1, OutcomeIs
  <2>12. ~(req.length > LimitOf(handler)) => Answer(req).status = "handled"
    <3>1. ASSUME ~(req.length > LimitOf(handler)) PROVE ResolveRoute(req.method, req.path, req.length).status = "handled"
      BY <2>5, <3>1, ResolveIs DEF handler
    <3>2. ASSUME ~(req.length > LimitOf(handler)) PROVE ~(req.length > maxParse)
      BY <2>1, <2>9, <3>2 DEF Built, Allowed
    <3> QED
      BY <2>4, <3>1, <3>2
  <2> HIDE DEF limit
  <2> QED
    BY <2>1, <2>9, <2>10, <2>11, <2>12
<1> QED
  BY <1>1, RouterBuilt, PTL

-----------------------------------------------------------------------------
(* Headers. *)

LEMMA ListOf ==
  ASSUME NEW S, NEW s \in Seq(S)
  PROVE  IsList(s)
  BY SeqOfRange DEF IsList

LEMMA ListsJoin ==
  ASSUME NEW s, NEW t, IsList(s), IsList(t)
  PROVE  IsList(s \o t) /\ Range(s \o t) = Range(s) \cup Range(t)
<1> DEFINE S == Range(s) \cup Range(t)
<1>1. s \in Seq(S) /\ t \in Seq(S)
  BY SeqMonotonic DEF IsList
<1>2. s \o t \in Seq(S)
  BY <1>1, ConcatProperties
<1>3. Range(s \o t) = Range(s) \cup Range(t)
  BY <1>1, RangeConcatenation
<1> QED
  BY <1>2, <1>3, ListOf

LEMMA ListOfOne ==
  ASSUME NEW h
  PROVE  IsList(<<h>>) /\ Range(<<h>>) = {h}
<1>1. <<h>> \in Seq({h})
  OBVIOUS
<1>2. Range(<<h>>) = {h}
  BY DEF Range
<1> QED
  BY <1>1, <1>2, ListOf

LEMMA ListOfNone == IsList(<<>>) /\ Range(<<>>) = {}
<1>1. Range(<<>>) = {}
  BY DEF Range
<1> QED
  BY <1>1 DEF IsList

LEMMA ListPicked ==
  ASSUME NEW s, IsList(s), NEW indices
  PROVE  IsList(Picked(s, indices))
  BY PickedType, ListOf DEF IsList

ValuesIn(headers, name) == {h.value : h \in {g \in headers : g.name = name}}

LEMMA ValuesAre ==
  ASSUME NEW headers, NEW name
  PROVE  Values(headers, name) = ValuesIn(Range(headers), name)
<1>1. ASSUME NEW v \in Values(headers, name) PROVE v \in ValuesIn(Range(headers), name)
  <2>1. PICK i \in DOMAIN headers : headers[i].name = name /\ v = headers[i].value
    BY DEF Values
  <2>2. headers[i] \in Range(headers)
    BY DEF Range
  <2> QED
    BY <2>1, <2>2 DEF ValuesIn
<1>2. ASSUME NEW v \in ValuesIn(Range(headers), name) PROVE v \in Values(headers, name)
  <2>1. PICK h \in Range(headers) : h.name = name /\ v = h.value
    BY DEF ValuesIn
  <2>2. PICK i \in DOMAIN headers : headers[i] = h
    BY DEF Range
  <2> QED
    BY <2>1, <2>2 DEF Values
<1> QED
  BY <1>1, <1>2

LEMMA HeaderIs ==
  ASSUME NEW name, NEW value
  PROVE  Header(name, value).name = name /\ Header(name, value).value = value
  BY DEF Header

\* The headers that CORS and the security settings make of those of a payload.
CorsHeaders(c, headers, origin) ==
  IF c.cors = NoCors THEN headers
  ELSE Picked(headers, DOMAIN headers \ Replaced(headers)) \o <<Header("vary", "origin")>> \o AllowOrigin(c.cors, origin)

DressedHeaders(c, headers, origin) ==
  CorsHeaders(c, headers, origin) \o Picked(c.security, Missing(CorsHeaders(c, headers, origin), c.security))

LEMMA AllowOriginType ==
  ASSUME NEW cors, NEW origin
  PROVE  IsList(AllowOrigin(cors, origin))
<1> DEFINE value == IF ~cors.credentials /\ "*" \in cors.origins THEN {"*"} ELSE origin
           g == Header("access-control-allow-origin", value)
           h == Header("access-control-allow-methods", "GET, HEAD")
<1>1. AllowOrigin(cors, origin) = <<>> \/ AllowOrigin(cors, origin) = <<g, h>>
  BY Zenon DEF AllowOrigin
<1> HIDE DEF g, h
<1>2. <<g, h>> \in Seq({g, h})
  OBVIOUS
<1>3. IsList(<<g, h>>)
  BY <1>2, ListOf
<1> QED
  BY <1>1, <1>3, ListOfNone, Zenon

LEMMA CorsHeadersType ==
  ASSUME NEW c, NEW headers, IsList(headers), NEW origin
  PROVE  /\ IsList(CorsHeaders(c, headers, origin))
         /\ c.cors = NoCors => CorsHeaders(c, headers, origin) = headers
         /\ c.cors # NoCors => Header("vary", "origin") \in Range(CorsHeaders(c, headers, origin))
<1> DEFINE kept == Picked(headers, DOMAIN headers \ Replaced(headers))
           vary == <<Header("vary", "origin")>>
           allowed == AllowOrigin(c.cors, origin)
<1>1. c.cors = NoCors => CorsHeaders(c, headers, origin) = headers
  BY Zenon DEF CorsHeaders
<1>2. c.cors # NoCors => CorsHeaders(c, headers, origin) = (kept \o vary) \o allowed
  BY Zenon DEF CorsHeaders
<1>3. IsList(kept) /\ IsList(allowed)
  BY ListPicked, AllowOriginType
<1>4. IsList(vary) /\ Range(vary) = {Header("vary", "origin")}
  BY ListOfOne
<1> HIDE DEF kept, vary, allowed
<1>5. IsList(kept \o vary) /\ Range(kept \o vary) = Range(kept) \cup Range(vary)
  BY <1>3, <1>4, ListsJoin
<1>6. IsList((kept \o vary) \o allowed) /\ Range((kept \o vary) \o allowed) = Range(kept \o vary) \cup Range(allowed)
  BY <1>3, <1>5, ListsJoin
<1> QED
  BY <1>1, <1>2, <1>4, <1>5, <1>6

LEMMA DressedHeadersAre ==
  ASSUME NEW c \in Configs, NEW headers, IsList(headers), NEW origin
  PROVE  /\ IsList(DressedHeaders(c, headers, origin))
         /\ c.cors = NoCors => Range(headers) \subseteq Range(DressedHeaders(c, headers, origin))
         /\ c.cors # NoCors => Header("vary", "origin") \in Range(DressedHeaders(c, headers, origin))
<1> DEFINE first == CorsHeaders(c, headers, origin)
           more == Picked(c.security, Missing(first, c.security))
<1>1. IsList(first) /\ IsList(more)
  BY CorsHeadersType, ListPicked, ResponsesAssumption
<1>2. DressedHeaders(c, headers, origin) = first \o more
  BY Zenon DEF DressedHeaders
<1>3. /\ c.cors = NoCors => first = headers
      /\ c.cors # NoCors => Header("vary", "origin") \in Range(first)
  BY CorsHeadersType
<1> HIDE DEF first, more
<1>4. IsList(first \o more) /\ Range(first \o more) = Range(first) \cup Range(more)
  BY <1>1, ListsJoin
<1> QED
  BY <1>2, <1>3, <1>4

-----------------------------------------------------------------------------
(* Answers and their headers, whatever directories exist. *)

IsPayload(p) == p = Payload(p.status, p.content, p.big, p.type, p.headers)

LEMMA PayloadIs ==
  ASSUME NEW status, NEW content, NEW big, NEW type, NEW headers
  PROVE  /\ IsPayload(Payload(status, content, big, type, headers))
         /\ Payload(status, content, big, type, headers).status = status
         /\ Payload(status, content, big, type, headers).content = content
         /\ Payload(status, content, big, type, headers).headers = headers
  BY DEF IsPayload, Payload

\* CORS and the security settings change the headers of a payload only.
LEMMA WithCorsIs ==
  ASSUME NEW p, IsPayload(p), NEW origin
  PROVE  /\ IsPayload(WithCors(p, origin))
         /\ WithCors(p, origin).status = p.status /\ WithCors(p, origin).content = p.content
         /\ WithCors(p, origin).headers = CorsHeaders(config, p.headers, origin)
<1> DEFINE headers == CorsHeaders(config, p.headers, origin)
<1>1. CASE config.cors = NoCors
  <2>1. WithCors(p, origin) = p /\ headers = p.headers
    BY <1>1, Zenon DEF WithCors, CorsHeaders
  <2> QED
    BY <2>1
<1>2. CASE config.cors # NoCors
  <2>1. WithCors(p, origin) = [p EXCEPT !.headers = headers]
    BY <1>2, Zenon DEF WithCors, CorsHeaders
  <2> HIDE DEF headers
  <2>2. [p EXCEPT !.headers = headers] = Payload(p.status, p.content, p.big, p.type, headers)
    BY DEF IsPayload, Payload
  <2> QED
    BY <2>1, <2>2, PayloadIs DEF headers
<1> QED
  BY <1>1, <1>2

LEMMA DressedIs ==
  ASSUME NEW p, IsPayload(p), NEW origin
  PROVE  /\ IsPayload(Dressed(p, origin))
         /\ Dressed(p, origin).status = p.status /\ Dressed(p, origin).content = p.content
         /\ Dressed(p, origin).headers = DressedHeaders(config, p.headers, origin)
<1> DEFINE q == WithCors(p, origin)
           headers == DressedHeaders(config, p.headers, origin)
<1>1. IsPayload(q) /\ q.status = p.status /\ q.content = p.content /\ q.headers = CorsHeaders(config, p.headers, origin)
  BY WithCorsIs
<1>2. Dressed(p, origin) = [q EXCEPT !.headers = q.headers \o Picked(config.security, Missing(q.headers, config.security))]
  BY Zenon DEF Dressed, WithSecurity
<1>3. headers = q.headers \o Picked(config.security, Missing(q.headers, config.security))
  BY <1>1, Zenon DEF DressedHeaders
<1> HIDE DEF q, headers
<1>4. Dressed(p, origin) = [q EXCEPT !.headers = headers]
  BY <1>2, <1>3, Zenon
<1>5. [q EXCEPT !.headers = headers] = Payload(q.status, q.content, q.big, q.type, headers)
  BY <1>1 DEF IsPayload, Payload
<1> QED
  BY <1>1, <1>4, <1>5, PayloadIs DEF headers

\* The headers of what answers a request.
OwnHeaders(r) ==
  IF r.method # "OPTIONS" /\ r.body # "over_route" /\ r.path \in DOMAIN Handlers THEN Handlers[r.path].headers ELSE <<>>

LEMMA OwnHeadersType ==
  ASSUME NEW r
  PROVE  IsList(OwnHeaders(r))
  BY ListOfNone, ResponsesAssumption DEF OwnHeaders

LEMMA EmptyIs ==
  ASSUME NEW status
  PROVE  IsPayload(Empty(status)) /\ Empty(status).status = status
         /\ Empty(status).content = "nothing" /\ Empty(status).headers = <<>>
  BY DEF Empty, IsPayload, Payload

LEMMA StaticFileIs ==
  ASSUME NEW path, NEW p \in StaticFile(path)
  PROVE  IsPayload(p) /\ p.status = 200 /\ p.headers = <<>>
<1>1. PICK n : p = FileOf(n, path)
  BY Zenon DEF StaticFile
<1> QED
  BY <1>1 DEF FileOf, IsPayload, Payload

\* resolve_route: of the directories only the content of a path without a route
\* depends, and its status.
LEMMA ResolvedIs ==
  ASSUME NEW r
  PROVE  /\ IsPayload(Resolve(r)) /\ Resolve(r).headers = OwnHeaders(r)
         /\ r.path \in DOMAIN Handlers /\ Resolve(r).status = 200 => r.method # "OPTIONS" /\ r.body # "over_route"
         /\ r.path \in DOMAIN Handlers =>
              Resolve(r).content = IF r.method = "OPTIONS" \/ r.body = "over_route" THEN "nothing" ELSE Handled(r).content
<1> DEFINE static == StaticFile(r.path)
           served == CHOOSE p \in static : TRUE
           R == Resolve(r)
<1>1. R = IF r.method = "OPTIONS" /\ config.cors # NoCors THEN Empty(204)
          ELSE IF r.path \in DOMAIN Handlers
          THEN IF r.method = "OPTIONS" THEN Empty(405)
               ELSE IF r.body = "over_route" THEN Empty(413)
               ELSE Handled(r)
          ELSE IF r.method # "OPTIONS" /\ static # {} THEN served
          ELSE Empty(404)
  BY Zenon DEF Resolve
<1>2. static # {} => IsPayload(served) /\ served.status = 200 /\ served.headers = <<>>
  <2>1. static # {} => served \in static
    BY Zenon
  <2> HIDE DEF served
  <2> QED
    BY <2>1, StaticFileIs
<1>3. r.path \in DOMAIN Handlers => IsPayload(Handled(r)) /\ Handled(r).headers = Handlers[r.path].headers
  BY DEF Handled, IsPayload, Payload
<1> HIDE DEF static, served, R
<1>4. CASE r.method = "OPTIONS"
  <2>1. \E status \in {204, 405, 404} : R = Empty(status)
    BY <1>1, <1>4
  <2>2. OwnHeaders(r) = <<>>
    BY <1>4 DEF OwnHeaders
  <2> QED
    BY <1>4, <2>1, <2>2, EmptyIs DEF R
<1>5. CASE r.method # "OPTIONS" /\ r.path \notin DOMAIN Handlers
  <2>1. R = Empty(404) \/ (static # {} /\ R = served)
    BY <1>1, <1>5
  <2>2. OwnHeaders(r) = <<>>
    BY <1>5 DEF OwnHeaders
  <2> QED
    BY <1>2, <1>5, <2>1, <2>2, EmptyIs DEF R
<1>6. CASE r.method # "OPTIONS" /\ r.path \in DOMAIN Handlers /\ r.body = "over_route"
  <2>1. R = Empty(413) /\ OwnHeaders(r) = <<>>
    BY <1>1, <1>6 DEF OwnHeaders
  <2> QED
    BY <1>6, <2>1, EmptyIs DEF R
<1>7. CASE r.method # "OPTIONS" /\ r.path \in DOMAIN Handlers /\ r.body # "over_route"
  <2>1. R = Handled(r) /\ OwnHeaders(r) = Handlers[r.path].headers
    BY <1>1, <1>7 DEF OwnHeaders
  <2> QED
    BY <1>3, <1>7, <2>1 DEF R
<1> QED
  BY <1>4, <1>5, <1>6, <1>7

\* The headers of a response, but for those that send_response adds, and its content.
ReplyHeaders(c, r) ==
  IF r.body = "over_all" THEN IF r.h2 THEN <<>> ELSE CorsHeaders(c, <<>>, {})
  ELSE DressedHeaders(c, OwnHeaders(r), r.origin)

ReplyContent(r) ==
  IF r.body = "over_all" THEN IF r.h2 THEN "nothing" ELSE "error"
  ELSE IF r.method \in {"OPTIONS", "HEAD"} \/ r.body = "over_route" THEN "nothing"
  ELSE Handled(r).content

Origins(headers) == Values(headers, "access-control-allow-origin")

LEMMA SentIs ==
  ASSUME NEW p, IsPayload(p), IsList(p.headers), NEW accept
  PROVE  /\ Sent(p, accept).status = p.status /\ Sent(p, accept).content = p.content
         /\ Sent(p, accept).coding \in {"identity"} \cup accept
         /\ Range(p.headers) \subseteq Range(Sent(p, accept).headers)
         /\ Origins(Sent(p, accept).headers) = Origins(p.headers)
         /\ Sent(p, accept).coding # "identity" => "accept-encoding" \in Values(Sent(p, accept).headers, "vary")
<1> DEFINE coding == Coding(p, accept)
           last == IF coding = "identity" THEN <<>> ELSE <<Header("vary", "accept-encoding")>>
           headers == (Always \o p.headers) \o last
<1>1. Sent(p, accept) = [status |-> p.status, content |-> p.content, coding |-> coding, headers |-> headers]
  BY Zenon DEF Sent
<1>2. coding \in {"identity"} \cup accept
  BY DEF Coding
<1>3. /\ IsList(last)
      /\ \A h \in Range(last) : h.name = "vary"
      /\ coding # "identity" => Header("vary", "accept-encoding") \in Range(last)
  <2> HIDE DEF coding
  <2>1. CASE coding = "identity"
    BY <2>1, ListOfNone
  <2>2. CASE coding # "identity"
    <3>1. last = <<Header("vary", "accept-encoding")>>
      BY <2>2, Zenon
    <3> HIDE DEF last
    <3> QED
      BY <2>2, <3>1, ListOfOne, HeaderIs
  <2> QED
    BY <2>1, <2>2
<1>4. IsList(Always) /\ \A h \in Range(Always) : h.name \in {"server", "connection", "x-content-type-options"}
  <2> DEFINE a == Header("server", "Rpress/1.0")
             b == Header("connection", "keep-alive")
             d == Header("x-content-type-options", "nosniff")
  <2>1. Always = <<a, b, d>>
    BY Zenon DEF Always
  <2>2. a.name = "server" /\ b.name = "connection" /\ d.name = "x-content-type-options"
    BY HeaderIs
  <2> HIDE DEF a, b, d
  <2>3. <<a, b, d>> \in Seq({a, b, d})
    OBVIOUS
  <2>4. IsList(<<a, b, d>>)
    BY <2>3, ListOf
  <2>5. \A i \in DOMAIN <<a, b, d>> : <<a, b, d>>[i] \in {a, b, d}
    OBVIOUS
  <2>6. \A h \in Range(<<a, b, d>>) : h \in {a, b, d}
    BY <2>5 DEF Range
  <2> QED
    BY <2>1, <2>2, <2>4, <2>6
<1> HIDE DEF coding, last
<1>5. IsList(Always \o p.headers) /\ Range(Always \o p.headers) = Range(Always) \cup Range(p.headers)
  BY <1>4, ListsJoin
<1>6. Range(headers) = (Range(Always) \cup Range(p.headers)) \cup Range(last)
  BY <1>3, <1>5, ListsJoin
<1> HIDE DEF headers
<1>7. Origins(headers) = Origins(p.headers)
  <2>1. /\ Origins(headers) = ValuesIn(Range(headers), "access-control-allow-origin")
        /\ Origins(p.headers) = ValuesIn(Range(p.headers), "access-control-allow-origin")
    BY ValuesAre DEF Origins
  <2>2. \A h \in Range(headers) : h.name = "access-control-allow-origin" => h \in Range(p.headers)
    BY <1>3, <1>4, <1>6
  <2>3. {h \in Range(headers) : h.name = "access-control-allow-origin"}
          = {h \in Range(p.headers) : h.name = "access-control-allow-origin"}
    BY <1>6, <2>2
  <2> QED
    BY <2>1, <2>3, Zenon DEF ValuesIn
<1>8. coding # "identity" => "accept-encoding" \in Values(headers, "vary")
  <2>1. coding # "identity" => Header("vary", "accept-encoding") \in Range(headers)
    BY <1>3, <1>6
  <2> QED
    BY <2>1, HeaderIs, ValuesAre DEF ValuesIn
<1>9. Range(p.headers) \subseteq Range(headers)
  BY <1>6
<1> QED
  BY <1>1, <1>2, <1>7, <1>8, <1>9

\* What a response is, whatever directories exist.
ReplyFits(c, r, reply) ==
  /\ reply.coding \in {"identity"} \cup r.accept
  /\ Origins(reply.headers) = Origins(ReplyHeaders(c, r))
  /\ r.path \in DOMAIN Handlers /\ c.cors = NoCors => reply.content = ReplyContent(r)

\* A response that a cache may keep: its Vary says what it was chosen by.
ReplyVaries(c, r, reply) ==
  /\ Range(ReplyHeaders(c, r)) \subseteq Range(reply.headers)
  /\ reply.coding # "identity" => "accept-encoding" \in Values(reply.headers, "vary")
  /\ reply.status = 200 => r.body # "over_all"
  /\ r.path \in DOMAIN Handlers /\ reply.status = 200 => r.body # "over_route"

LEMMA BodilessIs ==
  ASSUME NEW p, IsPayload(p)
  PROVE  /\ IsPayload(Bodiless(p)) /\ Bodiless(p).status = p.status
         /\ Bodiless(p).headers = p.headers /\ Bodiless(p).content = "nothing"
<1>1. Bodiless(p) = [p EXCEPT !.content = "nothing", !.big = FALSE]
  BY Zenon DEF Bodiless
<1>2. p = Payload(p.status, p.content, p.big, p.type, p.headers)
  BY Zenon DEF IsPayload
<1>3. Bodiless(p) = Payload(p.status, "nothing", FALSE, p.type, p.headers)
  <2> DEFINE status == p.status
             content == p.content
             big == p.big
             type == p.type
             headers == p.headers
             small == FALSE
  <2>1. p = Payload(status, content, big, type, headers)
    BY <1>2, Zenon
  <2>2. Bodiless(p) = [p EXCEPT !.content = "nothing", !.big = small]
    BY <1>1
  <2> HIDE DEF status, content, big, type, headers, small
  <2>3. [Payload(status, content, big, type, headers) EXCEPT !.content = "nothing", !.big = small]
          = Payload(status, "nothing", small, type, headers)
    <3>1. [Payload(status, content, big, type, headers) EXCEPT !.content = "nothing"] = Payload(status, "nothing", big, type, headers)
      BY DEF Payload
    <3>2. [Payload(status, "nothing", big, type, headers) EXCEPT !.big = small] = Payload(status, "nothing", small, type, headers)
      BY DEF Payload
    <3> QED
      BY <3>1, <3>2, Zenon
  <2>4. Bodiless(p) = Payload(status, "nothing", small, type, headers)
    <3>1. [p EXCEPT !.content = "nothing", !.big = small]
            = [Payload(status, content, big, type, headers) EXCEPT !.content = "nothing", !.big = small]
      BY <2>1, Zenon
    <3> QED
      BY <2>2, <2>3, <3>1, Zenon
  <2> QED
    BY <2>4 DEF status, type, headers, small
<1>4. ASSUME NEW small, Bodiless(p) = Payload(p.status, "nothing", small, p.type, p.headers)
      PROVE  /\ IsPayload(Bodiless(p)) /\ Bodiless(p).status = p.status
             /\ Bodiless(p).headers = p.headers /\ Bodiless(p).content = "nothing"
  <2>1. ASSUME NEW q, q = Payload(p.status, "nothing", small, p.type, p.headers)
        PROVE  IsPayload(q) /\ q.status = p.status /\ q.headers = p.headers /\ q.content = "nothing"
    BY <2>1 DEF IsPayload, Payload
  <2> QED
    BY <1>4, <2>1
<1> QED
  BY <1>3, <1>4, Zenon

LEMMA ReplyIs ==
  ASSUME config \in Configs, NEW r
  PROVE  ReplyFits(config, r, Reply(r)) /\ ReplyVaries(config, r, Reply(r))
<1> DEFINE p == Dressed(Resolve(r), r.origin)
           q == IF r.method = "HEAD" THEN Bodiless(p) ELSE p
           accept == IF config.compression THEN r.accept ELSE {}
           reply == Reply(r)
           refused == Payload(413, "error", FALSE, "text", <<>>)
<1>1. IsPayload(p) /\ p.status = Resolve(r).status /\ p.content = Resolve(r).content
      /\ p.headers = DressedHeaders(config, OwnHeaders(r), r.origin) /\ IsList(p.headers)
  <2>1. IsPayload(Resolve(r)) /\ Resolve(r).headers = OwnHeaders(r) /\ IsList(OwnHeaders(r))
    BY ResolvedIs, OwnHeadersType
  <2> QED
    BY <2>1, DressedIs, DressedHeadersAre
<1> HIDE DEF p
<1>2. /\ IsPayload(q) /\ q.status = p.status /\ q.headers = p.headers
      /\ q.content = IF r.method = "HEAD" THEN "nothing" ELSE p.content
  <2>1. /\ IsPayload(Bodiless(p)) /\ Bodiless(p).status = p.status
        /\ Bodiless(p).headers = p.headers /\ Bodiless(p).content = "nothing"
    BY <1>1, BodilessIs
  <2> QED
    BY <1>1, <2>1
<1> HIDE DEF q
<1>3. CASE ~r.h2 /\ r.body = "over_all"
  <2>1. reply = Sent(WithCors(refused, {}), {})
    BY <1>3, Zenon DEF Reply, ReplyH1, RefusedH1
  <2>2. /\ IsPayload(WithCors(refused, {})) /\ WithCors(refused, {}).status = 413
        /\ WithCors(refused, {}).content = "error"
        /\ WithCors(refused, {}).headers = CorsHeaders(config, <<>>, {})
    <3>1. IsPayload(refused) /\ refused.status = 413 /\ refused.content = "error" /\ refused.headers = <<>>
      BY DEF IsPayload, Payload
    <3> HIDE DEF refused
    <3> QED
      BY <3>1, WithCorsIs
  <2>3. IsList(CorsHeaders(config, <<>>, {}))
    BY ListOfNone, CorsHeadersType
  <2>4. ReplyHeaders(config, r) = CorsHeaders(config, <<>>, {}) /\ ReplyContent(r) = "error"
    BY <1>3 DEF ReplyHeaders, ReplyContent
  <2> DEFINE s == WithCors(refused, {})
  <2> HIDE DEF reply, refused, s
  <2>5. IsPayload(s) /\ s.status = 413 /\ s.content = "error" /\ s.headers = ReplyHeaders(config, r) /\ IsList(s.headers)
    BY <2>2, <2>3, <2>4 DEF s
  <2>6. /\ reply.status = s.status /\ reply.content = s.content
        /\ reply.coding = "identity"
        /\ Range(s.headers) \subseteq Range(reply.headers)
        /\ Origins(reply.headers) = Origins(s.headers)
    <3>1. reply = Sent(s, {})
      BY <2>1 DEF s
    <3>2. ASSUME NEW none, reply = Sent(s, none)
          PROVE  /\ reply.status = s.status /\ reply.content = s.content
                 /\ reply.coding \in {"identity"} \cup none
                 /\ Range(s.headers) \subseteq Range(reply.headers)
                 /\ Origins(reply.headers) = Origins(s.headers)
      BY <2>5, <3>2, SentIs
    <3> QED
      BY <3>1, <3>2
  <2> QED
    BY <2>4, <2>5, <2>6 DEF reply, ReplyFits, ReplyVaries
<1>4. CASE ~r.h2 /\ r.body # "over_all"
  <2>1. reply = Sent(q, accept)
    BY <1>4, Zenon DEF Reply, ReplyH1, p, q
  <2>2. ReplyHeaders(config, r) = p.headers
    BY <1>1, <1>4 DEF ReplyHeaders
  <2>3. r.path \in DOMAIN Handlers => q.content = ReplyContent(r)
    BY <1>1, <1>2, <1>4, ResolvedIs DEF ReplyContent
  <2>4. accept \subseteq r.accept
    OBVIOUS
  <2>5. r.path \in DOMAIN Handlers /\ q.status = 200 => r.body # "over_route"
    <3>1. r.path \in DOMAIN Handlers /\ Resolve(r).status = 200 => r.body # "over_route"
      BY ResolvedIs, Zenon
    <3>2. q.status = Resolve(r).status
      BY <1>1, <1>2, Zenon
    <3> QED
      BY <3>1, <3>2, Zenon
  <2> HIDE DEF reply, accept
  <2>6. /\ reply.status = q.status /\ reply.content = q.content
        /\ reply.coding \in {"identity"} \cup accept
        /\ Range(q.headers) \subseteq Range(reply.headers)
        /\ Origins(reply.headers) = Origins(q.headers)
        /\ reply.coding # "identity" => "accept-encoding" \in Values(reply.headers, "vary")
    BY <1>1, <1>2, <2>1, SentIs, SMTT(30)
  <2> QED
    BY <1>2, <1>4, <2>2, <2>3, <2>4, <2>5, <2>6 DEF reply, ReplyFits, ReplyVaries
<1>5. CASE r.h2
  <2> DEFINE s == IF r.body = "over_all" THEN Empty(413) ELSE p
  <2>1. reply = [status |-> s.status, content |-> IF r.method = "HEAD" THEN "nothing" ELSE s.content,
                 coding |-> "identity", headers |-> s.headers]
    BY <1>5, Zenon DEF Reply, ReplyH2, p
  <2>2. ReplyHeaders(config, r) = s.headers
    BY <1>1, <1>5, EmptyIs DEF ReplyHeaders
  <2>3. r.path \in DOMAIN Handlers => (IF r.method = "HEAD" THEN "nothing" ELSE s.content) = ReplyContent(r)
    BY <1>1, <1>5, EmptyIs, ResolvedIs DEF ReplyContent
  <2>4. /\ s.status = 200 => r.body # "over_all"
        /\ r.path \in DOMAIN Handlers /\ s.status = 200 => r.body # "over_route"
    BY <1>1, EmptyIs, ResolvedIs
  <2> HIDE DEF reply, s
  <2> QED
    BY <2>1, <2>2, <2>3, <2>4 DEF reply, ReplyFits, ReplyVaries
<1> QED
  BY <1>3, <1>4, <1>5

-----------------------------------------------------------------------------
(* The cache. *)

\* What a client got fits its request.
GotFits == got # Nobody => ReplyFits(config, got.request, got.response)

\* What the cache keeps is the answer of a GET, and says what it was chosen by.
Storable(c, e) ==
  /\ e = [request |-> e.request, response |-> e.response]
  /\ e.request.method = "GET" /\ e.request.body # "over_all"
  /\ e.request.path \in DOMAIN Handlers => e.request.body # "over_route"
  /\ ReplyFits(c, e.request, e.response)
  /\ ReplyVaries(c, e.request, e.response)

Faithful ==
  /\ config \in Configs
  /\ GotFits
  /\ \A e \in stored : Storable(config, e)

\* A request that a kept response goes for gets the headers and the content of
\* a handler as if it had been asked: what they differ in is named by Vary.
LEMMA KeptFits ==
  ASSUME NEW c \in Configs, NEW e, Storable(c, e), NEW r, r.method = "GET", r.body = "fits",
         e.request.path = r.path,
         \A name \in Values(e.response.headers, "vary") : Field(e.request, name) = Field(r, name)
  PROVE  ReplyFits(c, r, e.response)
<1> DEFINE q == e.request
           reply == e.response
           own == OwnHeaders(q)
<1>1. ReplyFits(c, q, reply) /\ ReplyVaries(c, q, reply)
  BY DEF Storable
<1>2. q.method = "GET" /\ q.body # "over_all" /\ (q.path \in DOMAIN Handlers => q.body # "over_route")
  BY DEF Storable
<1>3. /\ Field(q, "origin") = q.origin /\ Field(r, "origin") = r.origin
      /\ Field(q, "accept-encoding") = q.accept /\ Field(r, "accept-encoding") = r.accept
      /\ Field(q, "accept-language") = q.language /\ Field(r, "accept-language") = r.language
  BY DEF Field
<1>4. \A h \in Range(reply.headers) : h.name = "vary" => h.value \in Values(reply.headers, "vary")
  BY ValuesAre DEF ValuesIn
<1>5. own = OwnHeaders(r) /\ IsList(own)
  BY <1>2, OwnHeadersType DEF OwnHeaders
<1>6. ReplyHeaders(c, q) = DressedHeaders(c, own, q.origin) /\ ReplyHeaders(c, r) = DressedHeaders(c, own, r.origin)
  BY <1>2, <1>5 DEF ReplyHeaders
<1>7. \A name \in Values(reply.headers, "vary") : Field(q, name) = Field(r, name)
  OBVIOUS
<1> HIDE DEF q, reply, own
<1>8. reply.coding \in {"identity"} \cup r.accept
  <2>1. reply.coding # "identity" => q.accept = r.accept
    BY <1>1, <1>3, <1>7 DEF ReplyVaries
  <2> QED
    BY <1>1, <2>1 DEF ReplyFits
<1>9. Origins(reply.headers) = Origins(ReplyHeaders(c, r))
  <2>1. CASE c.cors = NoCors
    <3>1. CorsHeaders(c, own, q.origin) = own /\ CorsHeaders(c, own, r.origin) = own
      BY <1>5, <2>1, CorsHeadersType
    <3>2. DressedHeaders(c, own, q.origin) = DressedHeaders(c, own, r.origin)
      BY <3>1, Zenon DEF DressedHeaders
    <3> QED
      BY <1>1, <1>6, <3>2 DEF ReplyFits
  <2>2. CASE c.cors # NoCors
    <3>1. Header("vary", "origin") \in Range(reply.headers)
      BY <1>1, <1>5, <1>6, <2>2, DressedHeadersAre DEF ReplyVaries
    <3>2. "origin" \in Values(reply.headers, "vary")
      BY <1>4, <3>1, HeaderIs
    <3>3. q.origin = r.origin
      BY <1>3, <1>7, <3>2
    <3> QED
      BY <1>1, <1>6, <3>3 DEF ReplyFits
  <2> QED
    BY <2>1, <2>2
<1>10. ASSUME r.path \in DOMAIN Handlers, c.cors = NoCors PROVE reply.content = ReplyContent(r)
  <2> DEFINE h == Handlers[r.path]
  <2>1. q.path = r.path
    BY DEF q
  <2>2. h.varies => q.language = r.language
    <3>1. ASSUME h.varies PROVE \E g \in Range(h.headers) : g.name = "vary" /\ g.value = "accept-language"
      BY <1>10, <3>1, HandlersVary
    <3>2. own = h.headers
      BY <1>2, <1>10, <2>1 DEF OwnHeaders, own
    <3>3. Range(own) \subseteq Range(reply.headers)
      BY <1>1, <1>5, <1>6, <1>10, DressedHeadersAre DEF ReplyVaries
    <3>4. h.varies => "accept-language" \in Values(reply.headers, "vary")
      BY <1>4, <3>1, <3>2, <3>3
    <3> QED
      BY <1>3, <1>7, <3>4
  <2> DEFINE Variant(x) == IF h.varies THEN x.language ELSE "any"
  <2>3. /\ Handled(q) = Payload(200, <<r.path, Variant(q)>>, h.big, h.type, h.headers)
        /\ Handled(r) = Payload(200, <<r.path, Variant(r)>>, h.big, h.type, h.headers)
    BY <2>1, Zenon DEF Handled
  <2>4. Variant(q) = Variant(r)
    BY <2>2
  <2> HIDE DEF Variant
  <2>5. Handled(q) = Handled(r)
    BY <2>3, <2>4, Zenon
  <2>6. ReplyContent(q) = Handled(q).content /\ ReplyContent(r) = Handled(r).content
    BY <1>2, <1>10, <2>1 DEF ReplyContent
  <2> QED
    BY <1>1, <1>10, <2>1, <2>5, <2>6 DEF ReplyFits
<1> QED
  BY <1>8, <1>9, <1>10 DEF q, reply, ReplyFits

LEMMA FaithfulInit == Init => Faithful
  BY DEF Init, Faithful, GotFits

LEMMA FaithfulAsk ==
  ASSUME Faithful, NEW r \in Requests, Ask(r)
  PROVE  Faithful'
<1> DEFINE e == [request |-> r, response |-> Reply(r)]
<1>1. config' = config /\ got' = e /\ (stored' = stored \/ (r.method = "GET" /\ e.response.status = 200 /\ stored' = stored \cup {e}))
  BY Zenon DEF Ask
<1>2. e = [request |-> e.request, response |-> e.response] /\ e.request = r /\ e.response = Reply(r)
  OBVIOUS
<1>3. ReplyFits(config, r, Reply(r)) /\ ReplyVaries(config, r, Reply(r))
  BY ReplyIs DEF Faithful
<1> HIDE DEF e
<1>4. r.method = "GET" /\ e.response.status = 200 => Storable(config, e)
  BY <1>2, <1>3 DEF Storable, ReplyVaries
<1>5. GotFits'
  BY <1>1, <1>2, <1>3 DEF GotFits
<1> QED
  BY <1>1, <1>4, <1>5 DEF Faithful

LEMMA FaithfulAskCache ==
  ASSUME Faithful, NEW r \in Requests, AskCache(r)
  PROVE  Faithful'
<1>1. PICK e \in stored :
        /\ e.request.path = r.path
        /\ \A name \in Values(e.response.headers, "vary") : Field(e.request, name) = Field(r, name)
        /\ got' = [e EXCEPT !.request = r]
  BY DEF AskCache
<1>2. config' = config /\ stored' = stored /\ r.method = "GET" /\ r.body = "fits"
  BY DEF AskCache
<1>3. Storable(config, e) /\ config \in Configs
  BY DEF Faithful
<1>4. ReplyFits(config, r, e.response)
  BY <1>1, <1>2, <1>3, KeptFits
<1>5. got'.request = r /\ got'.response = e.response
  <2>1. e = [request |-> e.request, response |-> e.response]
    BY <1>3 DEF Storable
  <2> QED
    BY <1>1, <2>1
<1>6. GotFits'
  BY <1>2, <1>4, <1>5 DEF GotFits
<1> QED
  BY <1>2, <1>6 DEF Faithful

LEMMA FaithfulUnchanged ==
  ASSUME Faithful, UNCHANGED <<config, stored, got>>
  PROVE  Faithful'
  BY DEF Faithful, GotFits

\* What the cache has stored, and what the last one who asked got, is what the
\* server would answer to the same request (lib.rs:367-430, response.rs:132-143):
\* the inductive invariant of the responses.
THEOREM ResponsesFaithful == Spec => []Faithful
<1>1. ASSUME Faithful, [Next]_vars PROVE Faithful'
  <2>1. CASE UNCHANGED vars
    BY <1>1, <2>1, FaithfulUnchanged DEF vars
  <2>2. ASSUME NEW r \in Requests, Ask(r) PROVE Faithful'
    BY <1>1, <2>2, FaithfulAsk
  <2>3. ASSUME NEW r \in Requests, AskCache(r) PROVE Faithful'
    BY <1>1, <2>3, FaithfulAskCache
  <2>4. ASSUME NEW dir \in DOMAIN Files, DirTurns(dir) PROVE Faithful'
    BY <1>1, <2>4, FaithfulUnchanged DEF DirTurns
  <2> QED
    BY <1>1, <2>1, <2>2, <2>3, <2>4 DEF Next
<1> QED
  BY <1>1, FaithfulInit, PTL DEF Spec

\* Whatever the handlers, the settings and the requests are: whoever gets a
\* response, from the server or from a cache that goes by Vary, can decode it,
\* may read it as if it had asked itself, and has the variant that it asked for
\* (lib.rs:367-430, response.rs:132-143).
THEOREM CacheJustified == Spec => []CacheServesRight
<1>1. Faithful => CacheServesRight
  <2> SUFFICES ASSUME Faithful, got # Nobody
               PROVE  /\ got.response.coding \in {"identity"} \cup got.request.accept
                      /\ Origins(got.response.headers) = Origins(Reply(got.request).headers)
                      /\ got.request.path \in DOMAIN Handlers /\ config.cors = NoCors =>
                           got.response.content = Reply(got.request).content
    BY Zenon DEF CacheServesRight, Origins
  <2>1. ReplyFits(config, got.request, got.response)
    BY DEF Faithful, GotFits
  <2>2. ReplyFits(config, got.request, Reply(got.request))
    BY ReplyIs DEF Faithful
  <2> QED
    BY <2>1, <2>2 DEF ReplyFits
<1> QED
  BY <1>1, ResponsesFaithful, PTL

-----------------------------------------------------------------------------
(* Static files. *)

LEMMA MinIs ==
  ASSUME NEW S, S \subseteq Nat, S # {}
  PROVE  Min(S) \in S /\ \A y \in S : Min(S) <= y
<1>1. \E x \in S : \A y \in S : x <= y
  BY Smallest
<1> QED
  BY <1>1, Zenon DEF Min

LEMMA PathType ==
  ASSUME NEW p, IsPath(p)
  PROVE  /\ p \in Seq(STRING) /\ Len(p) \in Nat /\ Len(p) % 2 = 0 /\ DOMAIN p = 1..Len(p)
         /\ \A i \in 1..Len(p) : p[i] = "/" <=> i % 2 = 1
  BY DEF IsPath

LEMMA PathsJoin ==
  ASSUME NEW p, IsPath(p), NEW q, IsPath(q)
  PROVE  IsPath(p \o q)
<1> DEFINE j == p \o q
<1>1. j \in Seq(STRING) /\ Len(j) = Len(p) + Len(q) /\ DOMAIN j = 1..(Len(p) + Len(q))
  BY PathType
<1>2. \A i \in 1..(Len(p) + Len(q)) : j[i] = IF i <= Len(p) THEN p[i] ELSE q[i - Len(p)]
  BY PathType
<1> HIDE DEF j
<1>3. Len(p) \in Nat /\ Len(q) \in Nat /\ Len(p) % 2 = 0 /\ Len(q) % 2 = 0
  BY PathType
<1>4. (Len(p) + Len(q)) % 2 = 0
  BY <1>3
<1>5. ASSUME NEW i \in 1..(Len(p) + Len(q)) PROVE j[i] = "/" <=> i % 2 = 1
  <2>1. CASE i <= Len(p)
    <3>1. j[i] = p[i] /\ i \in 1..Len(p)
      BY <1>2, <1>3, <2>1
    <3> QED
      BY <3>1, PathType
  <2>2. CASE ~(i <= Len(p))
    <3>1. j[i] = q[i - Len(p)] /\ i - Len(p) \in 1..Len(q)
      BY <1>2, <1>3, <2>2
    <3>2. (i - Len(p)) % 2 = i % 2
      BY <1>3
    <3> QED
      BY <3>1, <3>2, PathType
  <2> QED
    BY <2>1, <2>2
<1> QED
  BY <1>1, <1>4, <1>5 DEF IsPath, j

LEMMA TrimIs ==
  ASSUME NEW s \in Seq(STRING), Len(s) >= 2, s[1] = "/", s[2] # "/"
  PROVE  TrimStart(s) = SubSeq(s, 2, Len(s))
<1> DEFINE names == {i \in DOMAIN s : s[i] # "/"}
<1>1. names \subseteq Nat /\ 2 \in names /\ 1 \notin names /\ \A i \in names : i >= 1
  OBVIOUS
<1>2. TrimStart(s) = IF names = {} THEN <<>> ELSE SubSeq(s, Min(names), Len(s))
  BY Zenon DEF TrimStart
<1> HIDE DEF names
<1>3. Min(names) = 2
  <2>1. Min(names) \in names /\ Min(names) <= 2
    BY <1>1, MinIs
  <2>2. Min(names) \in Nat /\ Min(names) >= 1 /\ Min(names) # 1
    BY <1>1, <2>1
  <2> QED
    BY <2>1, <2>2
<1> QED
  BY <1>1, <1>2, <1>3

LEMMA DirType ==
  ASSUME NEW n \in DOMAIN Dirs
  PROVE  n \in Nat /\ n >= 1 /\ DOMAIN Dirs = 1..Len(Dirs) /\ Len(Dirs) \in Nat
         /\ IsPath(Dirs[n].prefix) /\ Dirs[n].dir \in DOMAIN Files
<1>1. DOMAIN Dirs = 1..Len(Dirs) /\ Len(Dirs) \in Nat
  BY ResponsesAssumption DEF IsList
<1> QED
  BY <1>1, ResponsesAssumption

LEMMA OneIs ==
  ASSUME NEW S, NEW x \in S
  PROVE  <<x>> \in Seq(S) /\ Len(<<x>>) = 1 /\ <<x>>[1] = x
  OBVIOUS

LEMMA OneBefore ==
  ASSUME NEW S, NEW x \in S, NEW s \in Seq(S)
  PROVE  /\ <<x>> \o s \in Seq(S) /\ Len(<<x>> \o s) = Len(s) + 1
         /\ (<<x>> \o s)[1] = x
         /\ \A i \in 1..Len(s) : (<<x>> \o s)[i + 1] = s[i]
         /\ SubSeq(<<x>> \o s, 2, Len(<<x>> \o s)) = s
<1> DEFINE j == <<x>> \o s
<1>1. j \in Seq(S) /\ Len(j) = Len(s) + 1 /\ j[1] = x /\ \A i \in 1..Len(s) : j[i + 1] = s[i]
  BY OneIs
<1> HIDE DEF j
<1>2. SubSeq(j, 2, Len(j)) \in Seq(S) /\ Len(SubSeq(j, 2, Len(j))) = Len(s) /\ \A i \in 1..Len(s) : SubSeq(j, 2, Len(j))[i] = j[i + 1]
  BY <1>1
<1>3. SubSeq(j, 2, Len(j)) = s
  BY <1>1, <1>2
<1> QED
  BY <1>1, <1>3 DEF j

LEMMA FirstOff ==
  ASSUME NEW S, NEW s \in Seq(S), Len(s) >= 1
  PROVE  /\ s[1] \in S /\ SubSeq(s, 2, Len(s)) \in Seq(S)
         /\ s = <<s[1]>> \o SubSeq(s, 2, Len(s))
<1> DEFINE t == SubSeq(s, 2, Len(s))
<1>1. s[1] \in S /\ t \in Seq(S) /\ Len(t) = Len(s) - 1 /\ \A i \in 1..(Len(s) - 1) : t[i] = s[i + 1]
  <2>1. s[1] \in S /\ t \in Seq(S) /\ Len(t) = Len(s) - 1
    <3> DEFINE n == Len(s)
    <3>1. n \in Nat /\ n >= 1 /\ \A i \in 1..n : s[i] \in S
      OBVIOUS
    <3>2. s[1] \in S
      BY <3>1
    <3>3. t \in Seq(S) /\ Len(t) = IF 2 <= n THEN n - 2 + 1 ELSE 0
      BY <3>1, SubSeqProperties
    <3> HIDE DEF t, n
    <3>4. Len(t) = n - 1
      BY <3>1, <3>3
    <3> QED
      BY <3>2, <3>3, <3>4 DEF n
  <2>2. \A i \in 1..(Len(s) - 1) : t[i] = s[i + 1]
    OBVIOUS
  <2> QED
    BY <2>1, <2>2
<1> HIDE DEF t
<1>2. /\ <<s[1]>> \o t \in Seq(S) /\ Len(<<s[1]>> \o t) = Len(s) /\ (<<s[1]>> \o t)[1] = s[1]
      /\ \A i \in 1..(Len(s) - 1) : (<<s[1]>> \o t)[i + 1] = t[i]
  BY <1>1, OneBefore
<1> DEFINE j == <<s[1]>> \o t
<1>3. j \in Seq(S) /\ Len(j) = Len(s) /\ \A i \in 1..Len(s) : j[i] = s[i]
  <2>1. \A i \in 1..Len(s) : i = 1 \/ (i - 1 \in 1..(Len(s) - 1) /\ (i - 1) + 1 = i)
    OBVIOUS
  <2>2. j \in Seq(S) /\ Len(j) = Len(s) /\ j[1] = s[1] /\ \A i \in 1..(Len(s) - 1) : j[i + 1] = t[i]
    BY <1>2
  <2> HIDE DEF j
  <2>3. ASSUME NEW i \in 1..Len(s), i # 1 PROVE j[i] = s[i]
    <3>1. i - 1 \in 1..(Len(s) - 1) /\ (i - 1) + 1 = i
      BY <2>1, <2>3
    <3>2. j[(i - 1) + 1] = t[i - 1] /\ t[i - 1] = s[(i - 1) + 1]
      BY <1>1, <2>2, <3>1
    <3> QED
      BY <3>1, <3>2
  <2> QED
    BY <2>2, <2>3
<1> HIDE DEF j
<1>4. s = j
  BY <1>3
<1> QED
  BY <1>1, <1>4 DEF j, t

LEMMA JoinSplits ==
  ASSUME NEW S, NEW p \in Seq(S), NEW s \in Seq(S)
  PROVE  SubSeq(p \o s, Len(p) + 1, Len(p \o s)) = s /\ IsPrefix(p, p \o s)
<1> DEFINE j == p \o s
<1>1. j \in Seq(S) /\ Len(j) = Len(p) + Len(s)
      /\ (\A i \in 1..Len(p) : j[i] = p[i]) /\ (\A i \in 1..Len(s) : j[Len(p) + i] = s[i])
  OBVIOUS
<1> HIDE DEF j
<1>2. SubSeq(j, Len(p) + 1, Len(j)) = s
  <2> DEFINE t == SubSeq(j, Len(p) + 1, Len(j))
  <2>1. t \in Seq(S) /\ Len(t) = Len(s) /\ \A i \in 1..Len(s) : t[i] = j[Len(p) + i]
    BY <1>1
  <2> HIDE DEF t
  <2>2. t = s
    BY <1>1, <2>1, SameSeq
  <2> QED
    BY <2>2 DEF t
<1>3. SubSeq(p, 1, Len(p)) = p
  OBVIOUS
<1>4. SubSeq(j, 1, Len(p)) = p
  <2> DEFINE t == SubSeq(j, 1, Len(p))
  <2>1. t \in Seq(S) /\ Len(t) = Len(p) /\ \A i \in 1..Len(p) : t[i] = j[i]
    BY <1>1
  <2> HIDE DEF t
  <2>2. t = p
    BY <1>1, <2>1, SameSeq
  <2> QED
    BY <2>2 DEF t
<1> QED
  BY <1>1, <1>2, <1>3, <1>4 DEF IsPrefix, j

LEMMA PrefixSplits ==
  ASSUME NEW S, NEW p \in Seq(S), NEW s \in Seq(S), IsPrefix(p, s)
  PROVE  /\ Len(p) <= Len(s) /\ \A i \in 1..Len(p) : p[i] = s[i]
         /\ s = p \o SubSeq(s, Len(p) + 1, Len(s))
<1>1. Len(p) <= Len(s) /\ SubSeq(p, 1, Len(p)) = SubSeq(s, 1, Len(p))
  BY Zenon DEF IsPrefix
<1>2. SubSeq(p, 1, Len(p)) = p
  OBVIOUS
<1>3. \A i \in 1..Len(p) : SubSeq(s, 1, Len(p))[i] = s[i]
  BY <1>1
<1>4. \A i \in 1..Len(p) : p[i] = s[i]
  BY <1>1, <1>2, <1>3
<1> DEFINE t == SubSeq(s, Len(p) + 1, Len(s))
           j == p \o t
<1>5. t \in Seq(S) /\ Len(t) = Len(s) - Len(p) /\ \A i \in 1..(Len(s) - Len(p)) : t[i] = s[Len(p) + i]
  BY <1>1
<1> HIDE DEF t
<1>6. /\ j \in Seq(S) /\ Len(j) = Len(s)
      /\ \A i \in 1..Len(s) : j[i] = IF i <= Len(p) THEN p[i] ELSE t[i - Len(p)]
  BY <1>1, <1>5
<1> HIDE DEF j
<1>7. \A i \in 1..Len(s) : j[i] = s[i]
  <2>1. \A i \in 1..Len(s) : \/ i \in 1..Len(p)
                             \/ ~(i <= Len(p)) /\ i - Len(p) \in 1..(Len(s) - Len(p)) /\ Len(p) + (i - Len(p)) = i
    BY <1>1
  <2>2. \A i \in 1..Len(p) : i <= Len(p)
    OBVIOUS
  <2> QED
    BY <1>4, <1>5, <1>6, <2>1, <2>2
<1>8. s = j
  BY <1>6, <1>7
<1> QED
  BY <1>1, <1>4, <1>8 DEF j, t

LEMMA TrimNothing == TrimStart(<<>>) = <<>>
<1>1. {i \in DOMAIN <<>> : <<>>[i] # "/"} = {}
  OBVIOUS
<1> QED
  BY <1>1, Zenon DEF TrimStart

LEMMA Behind ==
  ASSUME NEW S, NEW s \in Seq(S), NEW k \in Nat, k <= Len(s)
  PROVE  /\ SubSeq(s, k + 1, Len(s)) \in Seq(S) /\ Len(SubSeq(s, k + 1, Len(s))) = Len(s) - k
         /\ \A i \in 1..(Len(s) - k) : SubSeq(s, k + 1, Len(s))[i] = s[k + i]
<1> DEFINE t == SubSeq(s, k + 1, Len(s))
<1>1. Len(s) \in Nat /\ \A i \in (k + 1)..Len(s) : s[i] \in S
  OBVIOUS
<1>2. /\ t \in Seq(S) /\ Len(t) = IF k + 1 <= Len(s) THEN Len(s) - (k + 1) + 1 ELSE 0
      /\ \A i \in 1..(Len(s) - (k + 1) + 1) : t[i] = s[k + 1 + i - 1]
  BY <1>1, SubSeqProperties
<1> HIDE DEF t
<1>3. Len(t) = Len(s) - k
  BY <1>1, <1>2
<1>4. \A i \in 1..(Len(s) - k) : i \in 1..(Len(s) - (k + 1) + 1) /\ k + 1 + i - 1 = k + i
  BY <1>1
<1> QED
  BY <1>2, <1>3, <1>4 DEF t

\* The path under which a file of the nth directory is served.
PathOf(n, file) == Dirs[n].prefix \o <<"/">> \o file

\* Behind the prefix of a path that a directory is asked for, one slash is taken away.
LEMMA RelativeIs ==
  ASSUME NEW path, IsPath(path), NEW n \in Asked(path)
  PROVE  PathOf(n, Relative(n, path)) = path
<1> DEFINE prefix == Dirs[n].prefix
           k == Len(prefix)
           N == Len(path)
           rest == SubSeq(path, k + 1, N)
           r == Relative(n, path)
           slash == <<"/">>
<1>1. n \in DOMAIN Dirs /\ IsPrefix(prefix, path)
  BY DEF Asked
<1>2. /\ path \in Seq(STRING) /\ N \in Nat /\ N % 2 = 0
      /\ prefix \in Seq(STRING) /\ k \in Nat /\ k % 2 = 0
      /\ \A i \in 1..N : path[i] = "/" <=> i % 2 = 1
  BY <1>1, DirType, PathType
<1>3. k <= N /\ path = prefix \o rest
  BY <1>1, <1>2, PrefixSplits
<1>4. r = TrimStart(rest)
  BY Zenon DEF Relative
<1>5. k # N
  <2>1. k = N => rest = <<>>
    BY <1>2
  <2>2. r # <<>>
    BY DEF Asked
  <2> QED
    BY <1>4, <2>1, <2>2, TrimNothing, Zenon
<1> HIDE DEF prefix, k, N, r
<1>6. k + 2 <= N /\ path[k + 1] = "/" /\ path[k + 2] # "/"
  <2>1. k + 2 <= N
    <3>1. \A a, b \in Nat : a % 2 = 0 /\ b % 2 = 0 /\ a <= b /\ a # b => a + 2 <= b
      OBVIOUS
    <3> QED
      BY <1>2, <1>3, <1>5, <3>1
  <2>2. (k + 1) % 2 = 1 /\ (k + 2) % 2 # 1
    BY <1>2
  <2>3. k + 1 \in 1..N /\ k + 2 \in 1..N
    BY <1>2, <2>1
  <2>4. \A i \in 1..N : path[i] = "/" <=> i % 2 = 1
    BY <1>2
  <2> QED
    BY <2>1, <2>2, <2>3, <2>4
<1>7. rest \in Seq(STRING) /\ Len(rest) = N - k /\ \A i \in 1..(N - k) : rest[i] = path[k + i]
  <2>1. N = Len(path) /\ path \in Seq(STRING) /\ k \in Nat /\ k <= Len(path)
    BY <1>2, <1>3 DEF N
  <2> QED
    BY <2>1, Behind
<1> HIDE DEF rest
<1>8. rest[1] = "/" /\ rest[2] # "/" /\ Len(rest) >= 2 /\ Len(rest) >= 1
  <2>1. 1 \in 1..(N - k) /\ 2 \in 1..(N - k)
    BY <1>2, <1>6
  <2>2. rest[1] = path[k + 1] /\ rest[2] = path[k + 2]
    BY <1>7, <2>1
  <2> QED
    BY <1>2, <1>6, <1>7, <2>2
<1>9. r = SubSeq(rest, 2, Len(rest))
  BY <1>4, <1>7, <1>8, TrimIs
<1>10. "/" \in STRING /\ r \in Seq(STRING) /\ rest = slash \o r
  BY <1>7, <1>8, <1>9, FirstOff
<1>11. slash \in Seq(STRING)
  BY <1>10, OneIs
<1> HIDE DEF slash
<1>12. path = prefix \o slash \o r
  <2>1. prefix \in Seq(STRING) /\ slash \in Seq(STRING) /\ r \in Seq(STRING)
    BY <1>2, <1>10, <1>11
  <2>2. (prefix \o slash) \o r = prefix \o (slash \o r)
    BY <2>1, ConcatAssociative
  <2> QED
    BY <1>3, <1>10, <2>2, Zenon
<1> QED
  BY <1>12, Zenon DEF PathOf, prefix, slash, r

\* The path of a file says the file in its directory.
LEMMA RelativeOfFile ==
  ASSUME NEW n \in DOMAIN Dirs, NEW file \in DOMAIN Files[Dirs[n].dir], NEW path, path = PathOf(n, file)
  PROVE  IsPath(path) /\ Relative(n, path) = file /\ n \in Asked(path)
<1> DEFINE prefix == Dirs[n].prefix
           slash == <<"/">>
           rest == slash \o file
<1>1. file \in Seq(STRING) /\ IsPath(rest) /\ ~Contains(file, "..")
  BY DirType, ResponsesAssumption
<1>2. prefix \in Seq(STRING) /\ IsPath(prefix)
  BY DirType, PathType
<1>3. "/" \in STRING
  <2> DEFINE S == STRING \cup {"/"}
  <2>1. file \in Seq(S) /\ "/" \in S
    BY <1>1, SeqMonotonic
  <2> HIDE DEF S
  <2>2. Len(rest) = Len(file) + 1 /\ rest[1] = "/"
    BY <2>1, OneBefore
  <2> HIDE DEF rest
  <2>3. 1 \in 1..Len(rest)
    BY <1>1, <2>2
  <2>4. rest \in Seq(STRING)
    BY <1>1, PathType
  <2> QED
    BY <2>2, <2>3, <2>4
<1>4. /\ rest \in Seq(STRING) /\ Len(rest) = Len(file) + 1 /\ rest[1] = "/"
      /\ SubSeq(rest, 2, Len(rest)) = file
  BY <1>1, <1>3, OneBefore
<1>5. path = prefix \o slash \o file /\ slash \in Seq(STRING)
  BY <1>3, OneIs DEF PathOf
<1> HIDE DEF prefix, slash
<1>6. path = prefix \o rest
  BY <1>1, <1>2, <1>5, ConcatAssociative
<1> HIDE DEF rest
<1>7. Len(rest) >= 2 /\ rest[2] # "/"
  <2>1. Len(rest) \in Nat /\ Len(rest) % 2 = 0 /\ \A i \in 1..Len(rest) : rest[i] = "/" <=> i % 2 = 1
    BY <1>1, PathType
  <2>2. Len(file) \in Nat
    BY <1>1
  <2>3. Len(rest) >= 2
    BY <1>4, <2>1, <2>2
  <2> QED
    BY <2>1, <2>3
<1>8. IsPath(path)
  BY <1>1, <1>2, <1>6, PathsJoin
<1>9. SubSeq(path, Len(prefix) + 1, Len(path)) = rest /\ IsPrefix(prefix, path)
  BY <1>2, <1>4, <1>6, JoinSplits
<1>10. Relative(n, path) = file
  <2>1. Relative(n, path) = TrimStart(SubSeq(path, Len(prefix) + 1, Len(path)))
    BY Zenon DEF Relative, prefix
  <2> QED
    BY <1>4, <1>7, <1>9, <2>1, TrimIs
<1>11. file # <<>>
  <2>1. Len(file) # 0
    BY <1>1, <1>4, <1>7
  <2> QED
    BY <2>1
<1> QED
  BY <1>1, <1>8, <1>9, <1>10, <1>11 DEF Asked, prefix

\* Whatever the directories and their files are, a file is served under its path,
\* unless a directory registered before its own is missing (lib.rs:485-516).
THEOREM FilesJustified == Spec => []FilesServed
<1>1. FilesServed
  <2> SUFFICES ASSUME NEW n \in DOMAIN Dirs, NEW file \in DOMAIN Files[Dirs[n].dir],
                      Kind(Dirs[n].dir, file) \in Types, \A m \in 1..n : Dirs[m].dir \in present,
                      NEW path, path = PathOf(n, file)
               PROVE  \E p \in StaticFile(path), m \in 1..n :
                        p.content[1] = Dirs[m].dir /\ PathOf(m, p.content[2]) = path
    BY Zenon DEF FilesServed, PathOf
  <2> DEFINE ends == {m \in Asked(path) : Dirs[m].dir \notin present \/ HasFile(m, path)}
             m == Min(ends)
  <2>1. IsPath(path) /\ Relative(n, path) = file /\ n \in Asked(path)
    BY RelativeOfFile
  <2>2. n \in ends
    BY <2>1 DEF HasFile
  <2>3. ends \subseteq DOMAIN Dirs /\ DOMAIN Dirs \subseteq Nat
    BY DirType DEF Asked
  <2>4. m \in ends /\ m <= n
    <3> HIDE DEF ends
    <3> QED
      BY <2>2, <2>3, MinIs
  <2>5. m \in 1..n
    BY <2>3, <2>4, DirType
  <2>6. StaticFile(path) = IF ends = {} \/ Dirs[m].dir \notin present THEN {} ELSE {FileOf(m, path)}
    BY Zenon DEF StaticFile
  <2> HIDE DEF m
  <2>7. m \in Asked(path)
    BY <2>4
  <2>8. PathOf(m, Relative(m, path)) = path
    BY <2>1, <2>7, RelativeIs
  <2>9. StaticFile(path) = {FileOf(m, path)}
    <3> HIDE DEF ends
    <3> QED
      BY <2>2, <2>5, <2>6
  <2>10. FileOf(m, path).content = <<Dirs[m].dir, Relative(m, path)>>
    BY DEF FileOf, Payload
  <2>11. FileOf(m, path).content[1] = Dirs[m].dir /\ FileOf(m, path).content[2] = Relative(m, path)
    BY <2>10
  <2> QED
    BY <2>5, <2>8, <2>9, <2>11
<1> QED
  BY <1>1, PTL

=============================================================================
