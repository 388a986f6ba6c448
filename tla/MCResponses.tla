---------------------------- MODULE MCResponses -----------------------------
(* An instance of Responses for TLC: three routes and two directories, one  *)
(* of them under the other, for every configuration below.                  *)
EXTENDS Responses

Csp(usual) == [name |-> "content-security-policy", usual |-> usual, value |-> "its own"]

MCHandlers ==
  (<<"/", "page">> :> [type |-> "text", big |-> TRUE, varies |-> FALSE, headers |-> <<Csp(FALSE)>>])
    @@ (<<"/", "hello">> :> [type |-> "text", big |-> TRUE, varies |-> TRUE,
                             headers |-> <<Header("vary", "accept-language"),
                                           Header("access-control-allow-origin", {"me"})>>])
    @@ (<<"/", "logo">> :> [type |-> "image", big |-> TRUE, varies |-> FALSE, headers |-> <<Csp(TRUE)>>])

MCDirs == << [prefix |-> <<>>, dir |-> "public"], [prefix |-> <<"/", "up">>, dir |-> "uploads"] >>

MCFiles ==
  [public  |-> (<<"a">> :> "image") @@ (<<"up", "/", "b">> :> "link") @@ (<<"up">> :> "folder"),
   uploads |-> (<<"a">> :> "text") @@ (<<"b">> :> "text")]

Security == <<Header("content-security-policy", "default"), Header("x-frame-options", "deny")>>

MCConfigs ==
  [cors : {NoCors} \cup [origins : {{"*"}, {"app", "shop"}}, credentials : BOOLEAN],
   security : {Security}, compression : {TRUE}]
    \cup [cors : {NoCors}, security : {<<>>, Security}, compression : {FALSE}]

Request(method, path, body, origins, accepts, languages, protocols) ==
  [method : {method}, path : {path}, body : {body}, origin : origins, accept : accepts, language : languages,
   h2 : protocols]

MCRequests ==
  Request("GET", <<"/", "page">>, "fits", {{}, {"app"}, {"other"}}, {{}, {"gzip"}, {"br", "gzip"}}, {"any"}, {FALSE})
    \cup Request("GET", <<"/", "hello">>, "fits", {{"app"}}, {{}, {"gzip"}}, {"en", "pt"}, {FALSE})
    \cup Request("GET", <<"/", "logo">>, "fits", {{}}, {{"br"}}, {"any"}, BOOLEAN)
    \cup UNION {Request(method, <<"/", "page">>, "fits", {{"app"}}, {{"br"}}, {"any"}, BOOLEAN) :
                  method \in {"HEAD", "OPTIONS"}}
    \cup UNION {Request("GET", <<"/", "page">>, body, {{"app"}}, {{}}, {"any"}, BOOLEAN) :
                  body \in {"over_route", "over_all"}}
    \cup UNION {Request("GET", path, "fits", {{"app"}}, {{}}, {"any"}, {FALSE}) :
                  path \in {<<"/", "up", "/", "a">>, <<"/", "up", "/", "b">>, <<"/", "a">>, <<"/", "..", "/", "a">>}}

=============================================================================
