----------------------------- MODULE Responses ------------------------------
(***************************************************************************)
(* What a response looks like when it leaves: the payload of a handler, of *)
(* a static file or of an error, with the headers that CORS, the security  *)
(* settings and compression add, over HTTP/1 and HTTP/2.                   *)
(*                                                                         *)
(* Clients may stand behind a shared cache, which goes by Vary; the        *)
(* directories of static files come and go.                                *)
(*                                                                         *)
(* Source: engine/src/lib.rs, engine/src/core/{response,cors,security,     *)
(* handler_response,h2_handler}.rs.                                        *)
(***************************************************************************)
EXTENDS Naturals, FiniteSets, SequencesExt, Lists

CONSTANTS
  Configs,   \* what applications configure: cors, security, compression
  NoCors,    \* None
  Handlers,  \* the routes, all GET: type, big, headers, whether the content goes by the language
  Dirs,      \* serve_static, in that order: prefix and directory
  Files,     \* what a directory has under a relative path: a file by its type, folder, link (out of it)
  Requests,  \* bound: the requests that are made
  MaxStored, \* bound: responses in the cache
  Nobody     \* no exchange yet

\* Slashes and names in turn, and no slash at the end: serve_static takes it off.
IsPath(path) ==
  /\ path \in Seq(STRING) /\ Len(path) % 2 = 0
  /\ \A i \in DOMAIN path : path[i] = "/" <=> i % 2 = 1

IsList(s) == s \in Seq(Range(s))

ASSUME ResponsesAssumption ==
  /\ MaxStored \in Nat
  /\ IsList(Dirs) /\ \A n \in DOMAIN Dirs : IsPath(Dirs[n].prefix) /\ Dirs[n].dir \in DOMAIN Files
  /\ \A dir \in DOMAIN Files : \A file \in DOMAIN Files[dir] :
       file \in Seq(STRING) /\ IsPath(<<"/">> \o file) /\ ~Contains(file, "..")
  /\ \A c \in Configs : IsList(c.security)
  /\ \A path \in DOMAIN Handlers : IsList(Handlers[path].headers)

\* A handler that goes by the language says so.
ASSUME HandlersVary ==
  \A path \in DOMAIN Handlers : Handlers[path].varies =>
    \E h \in Range(Handlers[path].headers) : h.name = "vary" /\ h.value = "accept-language"

VARIABLES
  config,  \* of this application
  present, \* the directories that exist
  stored,  \* the exchanges the cache has kept
  got      \* the last one of a client

vars == <<config, present, stored, got>>

-----------------------------------------------------------------------------
(* Payloads and their headers. *)

\* A header by its name in lower case, and whether it is written as the source does.
Header(name, value) == [name |-> name, usual |-> TRUE, value |-> value]

Payload(status, content, big, type, headers) ==
  [status |-> status, content |-> content, big |-> big, type |-> type, headers |-> headers]

Empty(status) == Payload(status, "nothing", FALSE, "text", <<>>)

AccessControl == {"access-control-allow-origin", "access-control-allow-methods"}

\* Rpress::new panics on any other.
Valid(cors) == cors = NoCors \/ ~(cors.credentials /\ "*" \in cors.origins)

\* The origin of a request is a set of at most one.
AllowOrigin(cors, origin) ==
  IF ~("*" \in cors.origins \/ \E o \in origin : o \in cors.origins) THEN <<>>
  ELSE << Header("access-control-allow-origin",
                 IF ~cors.credentials /\ "*" \in cors.origins THEN {"*"} ELSE origin),
          Header("access-control-allow-methods", "GET, HEAD") >>

\* The headers that the CORS settings take out.
Replaced(headers) == {i \in DOMAIN headers : headers[i].usual /\ headers[i].name \in AccessControl \cup {"vary"}}

\* apply_cors_headers: those of the handler go, and its Vary with them.
WithCors(p, origin) ==
  IF config.cors = NoCors THEN p
  ELSE [p EXCEPT !.headers =
          Picked(@, DOMAIN @ \ Replaced(@)) \o <<Header("vary", "origin")>> \o AllowOrigin(config.cors, origin)]

\* Those of more that headers, and more itself further ahead, do not have:
\* whatever case the handler wrote the name in.
Missing(headers, more) ==
  {i \in DOMAIN more : /\ \A h \in Range(headers) : h.name # more[i].name
                       /\ \A j \in 1..(i - 1) : more[j].name # more[i].name}

\* apply_security_headers.
WithSecurity(p) ==
  [p EXCEPT !.headers = @ \o Picked(config.security, Missing(@, config.security))]

Dressed(p, origin) == WithSecurity(WithCors(p, origin))

\* guess_content_type, as far as compression goes by it; SVG counts as text.
Types == {"text", "image", "video", "audio", "archive"}

\* compress_body: brotli first; accept is the set of what the request names, empty for None.
Coding(p, accept) ==
  IF ~p.big \/ p.type # "text" THEN "identity"
  ELSE IF "br" \in accept THEN "br"
  ELSE IF "gzip" \in accept THEN "gzip"
  ELSE "identity"

Always == <<Header("server", "Rpress/1.0"), Header("connection", "keep-alive"),
            Header("x-content-type-options", "nosniff")>>

\* Mutation: the client is told of the coding, the caches are not.
SentUnvaried(p, accept) ==
  LET coding == Coding(p, accept)
  IN [status |-> p.status, content |-> p.content, coding |-> coding, headers |-> Always \o p.headers]

\* Response::send_response.
Sent(p, accept) ==
  LET coding == Coding(p, accept)
  IN [status  |-> p.status, content |-> p.content, coding |-> coding,
      headers |-> Always \o p.headers \o
                  (IF coding = "identity" THEN <<>> ELSE <<Header("vary", "accept-encoding")>>)]

Bodiless(p) == [p EXCEPT !.content = "nothing", !.big = FALSE]

-----------------------------------------------------------------------------
(* What answers a request. *)

\* What relative means in a directory that exists.
Kind(dir, relative) == IF relative \in DOMAIN Files[dir] THEN Files[dir][relative] ELSE "none"

TrimStart(path) ==
  LET names == {i \in DOMAIN path : path[i] # "/"}
  IN IF names = {} THEN <<>> ELSE SubSeq(path, Min(names), Len(path))

\* What a path says in the nth directory.
Relative(n, path) == TrimStart(SubSeq(path, Len(Dirs[n].prefix) + 1, Len(path)))

\* The directories that are asked for a path.
Asked(path) ==
  {n \in DOMAIN Dirs : /\ IsPrefix(Dirs[n].prefix, path)
                       /\ Relative(n, path) # <<>> /\ ~Contains(Relative(n, path), "..")}

HasFile(n, path) == Kind(Dirs[n].dir, Relative(n, path)) \in Types

FileOf(n, path) ==
  Payload(200, <<Dirs[n].dir, Relative(n, path)>>, TRUE, Kind(Dirs[n].dir, Relative(n, path)), <<>>)

\* Mutation: a folder or a link of the name ends the search.
StaticFileFirst(path) ==
  LET n == Min(Asked(path))
  IN IF Asked(path) = {} \/ Dirs[n].dir \notin present \/ ~HasFile(n, path) THEN {} ELSE {FileOf(n, path)}

\* try_serve_static: the first directory that has the file.  One that does not
\* exist ends the search, whatever is registered behind it.
StaticFile(path) ==
  LET ends == {n \in Asked(path) : Dirs[n].dir \notin present \/ HasFile(n, path)}
  IN IF ends = {} \/ Dirs[Min(ends)].dir \notin present THEN {} ELSE {FileOf(Min(ends), path)}

\* The answer of a handler, whose content may go by the language asked for.
Handled(r) ==
  LET h == Handlers[r.path]
  IN Payload(200, <<r.path, IF h.varies THEN r.language ELSE "any">>, h.big, h.type, h.headers)

\* resolve_route.
Resolve(r) ==
  LET static == StaticFile(r.path)
  IN IF r.method = "OPTIONS" /\ config.cors # NoCors THEN Empty(204)
     ELSE IF r.path \in DOMAIN Handlers
     THEN IF r.method = "OPTIONS" THEN Empty(405)
          ELSE IF r.body = "over_route" THEN Empty(413)
          ELSE Handled(r)
     ELSE IF r.method # "OPTIONS" /\ static # {} THEN CHOOSE p \in static : TRUE
     ELSE Empty(404)

\* What the parser refuses is answered in handle_h1_connection itself.
RefusedH1 == Sent(WithCors(Payload(413, "error", FALSE, "text", <<>>), {}), {})

\* dispatch_route and send_payload.
ReplyH1(r) ==
  IF r.body = "over_all" THEN RefusedH1
  ELSE LET p == Dressed(Resolve(r), r.origin)
       IN Sent(IF r.method = "HEAD" THEN Bodiless(p) ELSE p, IF config.compression THEN r.accept ELSE {})

\* handle_h2_stream.
ReplyH2(r) ==
  LET p == IF r.body = "over_all" THEN Empty(413) ELSE Dressed(Resolve(r), r.origin)
  IN [status |-> p.status, content |-> IF r.method = "HEAD" THEN "nothing" ELSE p.content,
      coding |-> "identity", headers |-> p.headers]

Reply(r) == IF r.h2 THEN ReplyH2(r) ELSE ReplyH1(r)

-----------------------------------------------------------------------------
(* Clients, a cache between them and the server, and the file system. *)

Init ==
  /\ config \in {c \in Configs : Valid(c.cors)}
  /\ present = DOMAIN Files
  /\ stored = {}
  /\ got = Nobody

Values(headers, name) == {headers[i].value : i \in {j \in DOMAIN headers : headers[j].name = name}}

\* What a cache compares for a name in Vary.
Field(r, name) ==
  CASE name = "origin" -> r.origin
    [] name = "accept-encoding" -> r.accept
    [] name = "accept-language" -> r.language

\* The cache may keep what it passes on.
Ask(r) ==
  LET e == [request |-> r, response |-> Reply(r)]
  IN /\ got' = e
     /\ \/ UNCHANGED stored
        \/ /\ r.method = "GET" /\ e.response.status = 200
           /\ e \notin stored /\ Cardinality(stored) < MaxStored
           /\ stored' = stored \cup {e}
     /\ UNCHANGED <<config, present>>

AskCache(r) ==
  /\ r.method = "GET" /\ r.body = "fits"
  /\ \E e \in stored :
       /\ e.request.path = r.path
       /\ \A name \in Values(e.response.headers, "vary") : Field(e.request, name) = Field(r, name)
       /\ got' = [e EXCEPT !.request = r]
  /\ UNCHANGED <<config, present, stored>>

\* A directory is removed, or mounted again.
DirTurns(dir) ==
  /\ present' = IF dir \in present THEN present \ {dir} ELSE present \cup {dir}
  /\ UNCHANGED <<config, stored, got>>

Next == \/ \E r \in Requests : Ask(r) \/ AskCache(r)
        \/ \E dir \in DOMAIN Files : DirTurns(dir)

Spec == Init /\ [][Next]_vars

-----------------------------------------------------------------------------
\* Whoever gets a response, from the server or from a cache that goes by Vary,
\* can decode it, is allowed to read it as if it had asked itself, and has the
\* variant of the handler that it asked for: Vary names everything a response
\* was chosen by.  With CORS the handler's own Vary is lost (lib.rs:368), so what
\* it varies by is left out there (lib.rs:367-415, response.rs:132-143).
CacheServesRight ==
  got # Nobody =>
    LET request  == got.request
        response == got.response
    IN /\ response.coding \in {"identity"} \cup request.accept
       /\ Values(response.headers, "access-control-allow-origin")
            = Values(Reply(request).headers, "access-control-allow-origin")
       /\ (request.path \in DOMAIN Handlers /\ config.cors = NoCors) => response.content = Reply(request).content

\* A file of a registered directory is served under its path, from the first
\* directory that has it, whatever folders and links lie in front of it in others,
\* unless a directory registered before it is missing: that one hides those behind
\* it (lib.rs:485-516).
FilesServed ==
  \A n \in DOMAIN Dirs :
    \A file \in DOMAIN Files[Dirs[n].dir] :
      LET path == Dirs[n].prefix \o <<"/">> \o file
      IN (Kind(Dirs[n].dir, file) \in Types /\ \A m \in 1..n : Dirs[m].dir \in present)
           => \E p \in StaticFile(path), m \in 1..n :
                p.content[1] = Dirs[m].dir /\ Dirs[m].prefix \o <<"/">> \o p.content[2] = path

=============================================================================
