------------------------------ MODULE MCRouter ------------------------------
(* An instance of Router for TLC: every application of up to three of the   *)
(* routes below, in three groups.                                           *)
EXTENDS Router, SequencesExt

S(name) == [kind |-> "static", name |-> name]
D(name) == [kind |-> "dynamic", name |-> name]

R(method, path, number) == [verb |-> method, pattern |-> path, group |-> number]

Routes ==
  { R("GET", <<>>, 1), R("GET", <<S("a")>>, 1), R("GET", <<D("x")>>, 1), R("GET", <<S("a"), S("b")>>, 1),
    R("GET", <<S("a"), D("y")>>, 1), R("GET", <<D("x"), S("b")>>, 1), R("GET", <<S("a"), S("b"), S("a")>>, 1),
    R("POST", <<S("a")>>, 1), R("POST", <<S("a"), S("b")>>, 1), R("HEAD", <<S("a")>>, 1), R("FETCH", <<S("a")>>, 1),
    R("GET", <<D("x"), D("y"), S("b")>>, 2), R("GET", <<D("z")>>, 2), R("GET", <<S("a"), D("x")>>, 2),
    R("GET", <<S("a")>>, 2), R("POST", <<S("a")>>, 2), R("POST", <<D("x")>>, 3) }

MCSetups == {{}} \cup {{r, s, t} : r, s, t \in Routes}

MCGroups ==
  << [limit |-> 1, mws |-> <<"auth", "log">>], [limit |-> 3, mws |-> <<"cache">>], [limit |-> NoLimit, mws |-> <<>>] >>

MCMiddlewares == <<"trace", "time">>

MCCalls ==
  [method : {"GET"}, path : SeqOf({"a", "b"}, 3) \cup {<<"a", "..", "b">>}, length : {0},
   h2 : {FALSE}, authority : {FALSE}]
    \cup [method : {"POST"}, path : {<<"a">>, <<"b">>, <<"a", "b">>}, length : 0..3, h2 : BOOLEAN, authority : {FALSE}]
    \cup [method : {"HEAD", "OPTIONS"}, path : {<<"a">>, <<"b">>}, length : {0}, h2 : {TRUE}, authority : BOOLEAN]

=============================================================================
