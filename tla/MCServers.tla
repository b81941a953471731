----------------------------- MODULE MCServers ------------------------------
(* Instance of Servers. *)
EXTENDS Servers

CONSTANTS r1, r2, c1, c2, address
-----------------------------------------------------------------------------
(* HTTP: two requests, up to two workers. *)

MCLowercase == "Parity" :> "parity" @@ "HTTP" :> "http" @@ "Application/JSON" :> "application/json"
                 @@ "X-Token" :> "x-token"

MCPortNumber == "80" :> "80" @@ "080" :> "80"

Site(name) == <<name, ".", "io">>
Local == <<"127.0.0.1", ":", "80">>

MCDefaults == Defaults(Local, 2)

(* One worker and every check configured. *)
Guarded ==
  Set(MCDefaults,
    [cors_domains |-> {allow_origin_from(<<"HTTP", "://", "*", ".", "Parity", ".", "io">>)},
     allowed_headers |-> {"X-Token"}, allowed_hosts |-> {parse(Site("Parity"))},
     cors_max_age |-> 1, rest_api |-> "Secure", health_api |-> "/health", keep_alive |-> FALSE])

(* The null origin and any bind host name. *)
Bound ==
  Set(MCDefaults,
    [cors_domains |-> {allow_origin_from(<<"null">>)}, allowed_hosts |-> {},
     rest_api |-> "Unsecure", shared |-> TRUE])

AnyAllowed == Set(MCDefaults, [cors_domains |-> {allow_origin_from(<<"any">>)}])

MCConfigurations ==
  {MCDefaults, Guarded, Bound, AnyAllowed} \cup
  {Set(MCDefaults, [threads |-> 2, shared |-> s]) : s \in BOOLEAN}

(* A call of a client on the server's own machine. *)
Plainest ==
  [method |-> "POST", host |-> Local, origin |-> None, headers |-> {}, requested |-> {},
   content_type |-> "application/json", connection |-> None, path |-> "/", segments |-> 2,
   body |-> <<1, 1>>, end |-> "ok", action |-> ProceedByDefault]

(* Who asks. *)
Askers ==
  {[Plainest EXCEPT !.host = h, !.origin = o, !.action = a, !.body = <<1>>] :
     h \in {None, <<"localhost", ":", "80">>, Site("Parity")},
     o \in {None, <<"null">>, <<"http", "://", "a", ".", "Parity", ".", "io">>,
            <<"http", "://", "localhost", ":", "80">>, <<"http", "://", "x">> \o <<"localhost", ":", "80">>,
            <<"http", "://", "other", ":", "080", "/", "p">>},
     a \in {Proceed(TRUE), ProceedByDefault, InterceptByDefault}}
  \cup {[Plainest EXCEPT !.host = h, !.action = Intercept(FALSE)] : h \in {None, Local}}

Preflights ==
  {[Plainest EXCEPT !.method = m, !.origin = <<"http", "://", "a", ".", "parity", ".", "io">>,
      !.host = Site("parity"), !.headers = s, !.requested = q,
      !.connection = IF s = {} THEN "close" ELSE None] :
     m \in {"OPTIONS", "POST"}, s \in {{}, {"x-token"}, {"x-other"}},
     q \in {{}, {"X-Token"}, {"x-other"}, {"x-token", "x-other"}}}

(* What is asked. *)
Asked ==
  {[Plainest EXCEPT !.host = Site("parity"), !.content_type = t, !.path = p[1],
      !.segments = p[2], !.body = b] :
     t \in {None, "Application/JSON", "text/plain"}, p \in {<<"/", 2>>, <<"/m/1", 3>>},
     b \in {<<>>, <<1, 1>>, <<2, 1>>, <<3>>}}
  \cup {[Plainest EXCEPT !.host = Site("parity"), !.end = e] : e \in {"broken", "bad_utf8"}}
  \cup {[Plainest EXCEPT !.host = Site("parity"), !.method = m, !.path = p] :
          m \in {"GET", "PUT"}, p \in {"/", "/health"}}

(* Every request on its own to a single worker, two plain ones to two workers. *)
MCKinds(c, r) ==
  CASE c.threads = 2 -> {Plainest}
    [] c.threads = 1 /\ r = r1 -> Askers \cup Preflights \cup Asked
    [] OTHER -> {}
-----------------------------------------------------------------------------
(* TCP: one client with three messages, of which one has space before it,  *)
(* a string with an escaped quote and a bracket, and the last is not UTF-8;*)
(* and a client that reuses the address of another.                        *)

MCAddrOf == [c \in {c1, c2} |-> address]

Talking(sep) ==
  [separator |-> sep, clients |-> {c1}, pushes |-> c1 :> 2 @@ c2 :> 0,
   messages |->
     c1 :> << <<"space", "open", "quote", "backslash", "quote", "close", "quote", "close">>,
              <<"open", "close">>, <<"bad">> >>
     @@ c2 :> <<>>]

Sharers ==
  [separator |-> "newline", clients |-> {c1, c2}, pushes |-> [c \in {c1, c2} |-> 1],
   messages |-> c1 :> << <<"open", "close">> >> @@ c2 :> << <<"bad">> >>]

MCLoads == {Talking("Empty"), Talking("newline"), Sharers}
-----------------------------------------------------------------------------
(* IPC: one session with traffic of all kinds, one with a message in each  *)
(* line, and two while both handles are used, with either executor.        *)

Traffic ==
  [incoming_separator |-> "Empty", executor |-> "Spawned", close_handle |-> FALSE,
   messages |-> c1 :> << <<"open", "bad", "close">>, <<"open", "close">>, <<"open", "close">> >>,
   pushes |-> c1 :> 2]

Lines ==
  [incoming_separator |-> "newline", executor |-> "Shared", close_handle |-> FALSE,
   messages |-> c1 :> << <<"char">>, <<"bad">> >>, pushes |-> c1 :> 1]

Closing(e) ==
  [incoming_separator |-> "newline", executor |-> e, close_handle |-> TRUE,
   messages |-> c1 :> <<>> @@ c2 :> <<>>, pushes |-> c1 :> 0 @@ c2 :> 0]

MCSetups == {Traffic, Lines, Closing("Shared"), Closing("Spawned")}
=============================================================================
