----------------------------- MODULE HttpServer -----------------------------
(***************************************************************************)
(* The HTTP server: worker threads that are started, serve and are shut    *)
(* down together, and the handler every request goes through, from its     *)
(* headers to its response.                                                *)
(*                                                                         *)
(* A worker's task holds the RPC handler strongly until it stops           *)
(* accepting; a request only holds it weakly and upgrades it each time it  *)
(* is needed.  hyper (external) accepts connections, calls the service,    *)
(* and on the shutdown signal drops the service and drains the requests    *)
(* in flight.  Closing an executor the server spawned drops its runtime    *)
(* with every task on it; a shared executor is left running.               *)
(***************************************************************************)
EXTENDS Cors, TLC

CONSTANTS
  MaxThreads,     \* bound on the number of worker threads
  Requests,       \* the requests clients may send
  Configurations, \* ServerBuilder settings, see Configuration
  Kinds(_, _)     \* contents a request may have, given the configuration

VARIABLES
  config,     \* the configuration of this server
  start,      \* start_http: spawning, waiting, ok, failed
  worker,     \* worker thread |-> none, binding, serving, draining, done, ended
  reported,   \* workers whose local address, or bind error, was received or sent
  signal,     \* workers whose shutdown signal was sent, or its sender dropped
  executors,  \* the Option under the lock holds the executors
  closing,    \* actor |-> workers it still has to close, the lock held
  actor,      \* actor |-> idle, waiting, dropping, closing, joining, gone
  done,       \* the Server value still has its done receivers
  handler     \* request |-> state of the future that serves it

vars == <<config, start, worker, reported, signal, executors, closing, actor, done, handler>>

lifecycle == <<config, start, worker, reported, signal, executors, closing, actor, done>>

(* The owner of the Server value, and the holder of one CloseHandle. *)
Actors == {"owner", "handle"}

RestApi == {"Secure", "Unsecure", "Disabled"}

(***************************************************************************)
(* What ServerBuilder can be given; address is where the socket is bound.  *)
(***************************************************************************)
Configuration(c) ==
  /\ c.threads \in 1 .. MaxThreads
  /\ c.rest_api \in RestApi
  /\ {c.shared, c.keep_alive} \subseteq BOOLEAN
  /\ c.max_request_body_size \in Nat

ASSUME ConfigurationsAssumption ==
  MaxThreads \in Nat /\ \A c \in Configurations : Configuration(c)

(* Chunks have lengths, and the text of an origin is never None. *)
ASSUME RequestsAssumption ==
  /\ NullOrigin # None
  /\ \A c \in Configurations, r \in Requests : \A k \in Kinds(c, r) :
       /\ k.body \in Seq(Nat)
       /\ k.origin # None => parse_origin(k.origin) # None

(* ServerBuilder::with_meta_extractor: the settings a builder starts with. *)
Defaults(address, max_size) ==
  [shared |-> FALSE, cors_domains |-> None, cors_max_age |-> None,
   allowed_headers |-> None, allowed_hosts |-> None, rest_api |-> "Disabled",
   health_api |-> None, keep_alive |-> TRUE, threads |-> 1,
   max_request_body_size |-> max_size, address |-> address]

(* The setters store what they are given; allow_only_bind_host gives an empty list. *)
Set(c, settings) == settings @@ c

(* RequestMiddlewareAction: the middleware answers, or passes the request on. *)
Intercept(should_validate_hosts) ==
  [respond |-> TRUE, should_validate_hosts |-> should_validate_hosts,
   should_continue_on_invalid_cors |-> FALSE]

Proceed(should_continue_on_invalid_cors) ==
  [respond |-> FALSE, should_validate_hosts |-> TRUE,
   should_continue_on_invalid_cors |-> should_continue_on_invalid_cors]

(* What a conversion into an action, and NoopRequestMiddleware, choose. *)
InterceptByDefault == Intercept(TRUE)
ProceedByDefault == Proceed(FALSE)

Workers == 0 .. config.threads - 1

(* start_http pushes the first worker's handle last. *)
HandleOrder == [i \in 1 .. config.threads |-> IF i = config.threads THEN 0 ELSE i]

(* A worker on a runtime of its own: all but the first if that one is shared. *)
Spawned(w) == w # 0 \/ ~config.shared

Idle ==
  [at |-> "idle", kind |-> None, worker |-> None, size |-> 0, chunk |-> 0,
   cors_allow_origin |-> NotRequired, cors_allow_headers |-> NotRequired,
   keep_alive |-> TRUE, called |-> "no", response |-> None]

(* aborted: dropped with its runtime; disconnected: by the client. *)
Final == {"idle", "answered", "aborted", "disconnected"}

InFlight(w) == {r \in Requests : handler[r].worker = w /\ handler[r].at \notin Final}

Init ==
  /\ config \in Configurations
  /\ start = "spawning"
  /\ worker = [w \in 0 .. MaxThreads - 1 |-> "none"]
  /\ reported = {}
  /\ signal = {}
  /\ executors = FALSE
  /\ closing = [a \in Actors |-> <<>>]
  /\ actor = [a \in Actors |-> "idle"]
  /\ done = TRUE
  /\ handler = [r \in Requests |-> Idle]
-----------------------------------------------------------------------------
(* The life of the server. *)

(* Requests of the given workers whose tasks go with the runtime. *)
Abandoned(ws) ==
  [r \in Requests |-> IF \E w \in ws : r \in InFlight(w)
                      THEN [handler[r] EXCEPT !.at = "aborted"] ELSE handler[r]]

(* An executor is dropped or closed: a runtime of its own ends with its tasks. *)
RuntimeDropped(ws) ==
  LET own == {w \in ws : Spawned(w) /\ worker[w] \notin {"none", "done"}}
  IN  /\ worker' = [w \in DOMAIN worker |-> IF w \in own THEN "ended" ELSE worker[w]]
      /\ handler' = Abandoned(own)

(* start_http returns an error: all it holds is dropped, the signal senders too. *)
StartFails ==
  /\ start' = "failed"
  /\ signal' = Workers
  /\ RuntimeDropped(Workers)
  /\ UNCHANGED <<config, reported, executors, closing, actor, done>>

(***************************************************************************)
(* start_http runs init_with_name and serve for one worker after another.  *)
(* Creating a runtime may fail; nothing can fail for a shared one.         *)
(***************************************************************************)
SpawnWorker(w) ==
  /\ start = "spawning" /\ worker[w] = "none"
  /\ \A v \in Workers : v < w => worker[v] # "none"
  /\ \/ /\ worker' = [worker EXCEPT ![w] = "binding"]
        /\ start' = IF w = config.threads - 1 THEN "waiting" ELSE start
        /\ UNCHANGED <<config, reported, signal, executors, closing, actor, done, handler>>
     \/ Spawned(w) /\ StartFails

(***************************************************************************)
(* serve: bind and report.  Without a receiver left the task ends.         *)
(***************************************************************************)
Bind(w, ok) ==
  /\ worker[w] = "binding"
  /\ worker' = [worker EXCEPT ![w] = IF ok /\ start # "failed" THEN "serving" ELSE "ended"]
  /\ reported' = reported \cup {w}
  /\ UNCHANGED <<config, start, signal, executors, closing, actor, done, handler>>

(***************************************************************************)
(* start_http receives the first worker's address and keeps the result,    *)
(* then the others' in order, failing at the first error.                  *)
(***************************************************************************)
StartReturns ==
  /\ start = "waiting" /\ 0 \in reported
  /\ LET failed == {w \in Workers : w \in reported /\ worker[w] = "ended"}
         others == failed \ {0}
     IN  \/ /\ \E w \in others : (1 .. w) \subseteq reported
            /\ StartFails
         \/ /\ Workers \subseteq reported /\ failed = {0}
            /\ StartFails
         \/ /\ Workers \subseteq reported /\ failed = {}
            /\ start' = "ok"
            /\ executors' = TRUE
            /\ UNCHANGED <<config, worker, reported, signal, closing, actor, done, handler>>

(* with_graceful_shutdown: the service is dropped, requests in flight go on. *)
Shutdown(w) ==
  /\ worker[w] = "serving" /\ w \in signal
  /\ worker' = [worker EXCEPT ![w] = "draining"]
  /\ UNCHANGED <<config, start, reported, signal, executors, closing, actor, done, handler>>

(* Mutant: the server is done while requests in flight go on. *)
DoneAtOnce(w) ==
  /\ worker[w] = "draining"
  /\ worker' = [worker EXCEPT ![w] = "done"]
  /\ UNCHANGED <<config, start, reported, signal, executors, closing, actor, done, handler>>

(* The server future resolves when it is drained, then done_tx is sent. *)
Done(w) ==
  /\ worker[w] = "draining" /\ InFlight(w) = {}
  /\ worker' = [worker EXCEPT ![w] = "done"]
  /\ UNCHANGED <<config, start, reported, signal, executors, closing, actor, done, handler>>

(* Server::wait takes the receivers, joins them, and drops the Server. *)
Wait ==
  /\ start = "ok" /\ actor["owner"] = "idle"
  /\ actor' = [actor EXCEPT !["owner"] = "waiting"]
  /\ done' = FALSE
  /\ UNCHANGED <<config, start, worker, reported, signal, executors, closing, handler>>

(* Mutant: a second close does not wait for the lock. *)
CloseWithoutLock(a) ==
  /\ start = "ok" /\ actor[a] \in {"idle", "dropping"}
  /\ closing' = [closing EXCEPT ![a] = IF executors THEN HandleOrder ELSE <<>>]
  /\ executors' = FALSE
  /\ actor' = [actor EXCEPT ![a] = "closing"]
  /\ UNCHANGED <<config, start, worker, reported, signal, done, handler>>

(***************************************************************************)
(* CloseHandle::close, also called by Server::close and Drop for Server,   *)
(* takes the executors.  The guard of the lock lives until the loop over   *)
(* them is over, so another close waits for that.                          *)
(***************************************************************************)
Close(a) ==
  /\ start = "ok" /\ actor[a] \in {"idle", "dropping"}
  /\ \A b \in Actors : closing[b] = <<>>
  /\ closing' = [closing EXCEPT ![a] = IF executors THEN HandleOrder ELSE <<>>]
  /\ executors' = FALSE
  /\ actor' = [actor EXCEPT ![a] = "closing"]
  /\ UNCHANGED <<config, start, worker, reported, signal, done, handler>>

(* One turn of the loop: send the signal, then close the executor. *)
SendSignal(a) ==
  /\ closing[a] # <<>> /\ Head(closing[a]) \notin signal
  /\ signal' = signal \cup {Head(closing[a])}
  /\ UNCHANGED <<config, start, worker, reported, executors, closing, actor, done, handler>>

CloseExecutor(a) ==
  /\ closing[a] # <<>> /\ Head(closing[a]) \in signal
  /\ closing' = [closing EXCEPT ![a] = Tail(@)]
  /\ RuntimeDropped({Head(closing[a])})
  /\ UNCHANGED <<config, start, reported, signal, executors, actor, done>>

(* Drop for Server goes on to wait_internal, unless wait has been there. *)
CloseReturns(a) ==
  /\ actor[a] = "closing" /\ closing[a] = <<>>
  /\ actor' = [actor EXCEPT ![a] = IF a = "owner" /\ done THEN "joining" ELSE "gone"]
  /\ done' = (done /\ a # "owner")
  /\ UNCHANGED <<config, start, worker, reported, signal, executors, closing, handler>>

(* Mutant: a lost worker is waited for. *)
JoinedAll == \A w \in Workers : worker[w] = "done"

(* try_join_all ends when all workers are done, and at the first lost one. *)
Joined ==
  \/ \E w \in Workers : worker[w] = "ended"
  \/ \A w \in Workers : worker[w] = "done"

JoinReturns ==
  /\ actor["owner"] \in {"waiting", "joining"} /\ Joined
  /\ actor' = [actor EXCEPT !["owner"] = IF @ = "waiting" THEN "dropping" ELSE "gone"]
  /\ UNCHANGED <<config, start, worker, reported, signal, executors, closing, done, handler>>
-----------------------------------------------------------------------------
(* Requests. *)

(***************************************************************************)
(* The responses of response.rs by name: the status, the rest is wording.  *)
(***************************************************************************)
Status ==
  [ok |-> 200, internal_error |-> 500, service_unavailable |-> 503, closing |-> 503,
   host_not_allowed |-> 403, invalid_allow_origin |-> 403, invalid_allow_headers |-> 403,
   unsupported_content_type |-> 415, method_not_allowed |-> 405, bad_request |-> 400,
   too_large |-> 413]

(* From<Response> for hyper::Response: no header but the content type. *)
Plain(name) ==
  [name |-> name, code |-> Status[name], allow |-> FALSE, allow_origin |-> None,
   allow_headers |-> None, max_age |-> None, close |-> FALSE]

(* Mutant: an error is answered without the CORS headers. *)
HeadersOfSuccess(name, h) ==
  [Plain(name) EXCEPT !.allow_origin = IF name = "ok" THEN h.cors_allow_origin.value ELSE None]

(***************************************************************************)
(* set_response_headers: nothing about CORS without an allowed origin.     *)
(***************************************************************************)
set_response_headers(name, h) ==
  [Plain(name) EXCEPT
     !.allow = (h.kind.method = "OPTIONS"),
     !.allow_origin = h.cors_allow_origin.value,
     !.max_age = IF h.cors_allow_origin.cors = "Ok" THEN config.cors_max_age ELSE None,
     !.allow_headers = IF h.cors_allow_origin.cors = "Ok" THEN h.cors_allow_headers.value ELSE None,
     !.close = ~h.keep_alive]

(* RpcHandlerState::Writing: the poll that gets there returns the response. *)
Writing(h, name) == [h EXCEPT !.at = "answered", !.response = set_response_headers(name, h)]

(* A step of one request's future leaves the server and the others alone. *)
Become(r, h) == handler' = [handler EXCEPT ![r] = h] /\ UNCHANGED lifecycle

(* Mutant: the handler goes away with the first worker that stops. *)
UpgradeWhileAllServe == \A w \in Workers : worker[w] \in {"none", "binding", "serving"}

(***************************************************************************)
(* WeakRpc::upgrade: start_http, and every worker until it stops           *)
(* accepting, hold an Rpc.                                                 *)
(***************************************************************************)
upgrade ==
  \/ start \in {"spawning", "waiting"}
  \/ \E w \in Workers : worker[w] \in {"binding", "serving"}

(***************************************************************************)
(* utils.rs: the Host, Origin and Connection headers of a request, and the *)
(* names of all there are.                                                 *)
(***************************************************************************)
is_host_allowed(c, k) == is_host_valid(k.host, update(c.allowed_hosts, c.address))

cors_allow_origin(c, k) == get_cors_allow_origin(k.origin, k.host, c.cors_domains)

cors_allow_headers(c, k) ==
  LET known == {<<"host", k.host # None>>, <<"origin", k.origin # None>>,
                <<"content-type", k.content_type # None>>, <<"connection", k.connection # None>>,
                <<"access-control-request-headers", k.requested # {}>>}
  IN  get_cors_allow_headers(k.headers \cup {h[1] : h \in {x \in known : x[2]}},
                             k.requested, c.allowed_headers)

keep_alive(c, k) == c.keep_alive /\ k.connection # "close"

(* They depend on nothing else, so they are tabulated. *)
Checks ==
  [c \in Configurations |-> [k \in UNION {Kinds(c, r) : r \in Requests} |->
    [host |-> is_host_allowed(c, k), origin |-> cors_allow_origin(c, k),
     headers |-> cors_allow_headers(c, k)]]]

(* RpcHandler::is_json, in either case, with or without the charset. *)
is_json(content_type) ==
  content_type # None
    /\ Lower(content_type) \in {"application/json", "application/json; charset=utf-8",
                                "application/json;charset=utf-8"}

(* hyper calls the service a worker made for the connection. *)
Accept(r, w, k) ==
  /\ worker[w] = "serving" /\ handler[r].at = "idle"
  /\ Become(r, [Idle EXCEPT !.at = "call", !.kind = k, !.worker = w])

(***************************************************************************)
(* ServerHandler::call: the host is checked on the request as it came,     *)
(* unless the middleware answers and says not to.                          *)
(***************************************************************************)
call(r) ==
  /\ handler[r].at = "call"
  /\ LET h == handler[r]  action == h.kind.action
         validated == action.respond => action.should_validate_hosts
     IN  Become(r,
           IF validated /\ ~Checks[config][h.kind].host
           THEN [h EXCEPT !.at = "answered", !.response = Plain("host_not_allowed")]
           ELSE [h EXCEPT !.at = IF action.respond THEN "Middleware" ELSE "ReadingHeaders"])

(* Handler::Middleware: the response is passed on as it is. *)
RespondMiddleware(r) ==
  /\ handler[r].at = "Middleware"
  /\ Become(r, [handler[r] EXCEPT !.at = "answered", !.response = Plain("ok")])

(***************************************************************************)
(* read_headers: CORS, the server, and then by method and content type.    *)
(***************************************************************************)
read_headers(h) ==
  LET k == h.kind
      refused(cors) == cors = Invalid /\ ~k.action.should_continue_on_invalid_cors
  IN  CASE refused(h.cors_allow_origin) -> Writing(h, "invalid_allow_origin")
        [] ~refused(h.cors_allow_origin) /\ refused(h.cors_allow_headers) ->
             Writing(h, "invalid_allow_headers")
        [] OTHER ->
             CASE ~upgrade -> Writing(h, "closing")
               [] upgrade /\ k.method = "POST" ->
                    CASE is_json(k.content_type) -> [h EXCEPT !.at = "ReadingBody"]
                      [] ~is_json(k.content_type) /\ config.rest_api = "Unsecure" /\ k.segments > 2 ->
                           [h EXCEPT !.at = "ProcessRest"]
                      [] OTHER -> Writing(h, "unsupported_content_type")
               [] upgrade /\ k.method = "OPTIONS" -> Writing(h, "ok")
               [] upgrade /\ k.method = "GET" /\ config.health_api = k.path ->
                    [h EXCEPT !.at = "ProcessHealth"]
               [] OTHER -> Writing(h, "method_not_allowed")

(* RpcHandler::poll in ReadingHeaders. *)
PollHeaders(r) ==
  /\ handler[r].at = "ReadingHeaders"
  /\ LET k == handler[r].kind
     IN  Become(r, read_headers([handler[r] EXCEPT
           !.cors_allow_origin = Checks[config][k].origin,
           !.cors_allow_headers = Checks[config][k].headers,
           !.keep_alive = keep_alive(config, k)]))

(* A call is handed to the RPC handler, if the server still has it. *)
Dispatched(h, what, next) ==
  IF upgrade THEN [h EXCEPT !.called = what, !.at = next] ELSE Writing(h, "closing")

(* Mutant: the size of each chunk is checked instead of the sum. *)
ChunkTooLarge(h, n) == n > config.max_request_body_size

(* What has been read and the next chunk together are over the limit. *)
TooLarge(h, n) == h.size + n > config.max_request_body_size

(***************************************************************************)
(* process_body, one chunk.  What it does at the end of the body: a REST   *)
(* call if it is empty, else the text is handled.  A broken body ends the  *)
(* connection.                                                             *)
(***************************************************************************)
ReadChunk(r) ==
  LET h == handler[r]  k == h.kind
  IN  /\ h.at = "ReadingBody" /\ h.chunk < Len(k.body)
      /\ LET n == k.body[h.chunk + 1]
         IN  Become(r, IF TooLarge(h, n) THEN Writing(h, "too_large")
                       ELSE [h EXCEPT !.size = @ + n, !.chunk = @ + 1])

EndOfBody(r) ==
  LET h == handler[r]  k == h.kind
  IN  /\ h.at = "ReadingBody" /\ h.chunk = Len(k.body)
      /\ LET rest == h.size = 0 /\ config.rest_api # "Disabled"
         IN  Become(r, CASE k.end = "broken" -> [h EXCEPT !.at = "disconnected"]
                         [] k.end # "broken" /\ rest -> [h EXCEPT !.at = "ProcessRest"]
                         [] k.end = "bad_utf8" /\ ~rest -> Writing(h, "bad_request")
                         [] OTHER -> Dispatched(h, "body", "Waiting"))

(* process_rest: method and parameters are the segments of the path. *)
ProcessRest(r) ==
  /\ handler[r].at = "ProcessRest"
  /\ Become(r, Dispatched(handler[r], "rest", "Waiting"))

(* process_health: the configured method, without parameters. *)
ProcessHealth(r) ==
  /\ handler[r].at = "ProcessHealth"
  /\ Become(r, Dispatched(handler[r], "health", "WaitingForResponse"))

(* The RPC handler's future resolves; without a response the body is empty. *)
PollWaiting(r) ==
  /\ handler[r].at = "Waiting"
  /\ Become(r, Writing(handler[r], "ok"))

(* A health method's success, failure, or neither (a middleware's answer). *)
PollWaitingForResponse(r) ==
  /\ handler[r].at = "WaitingForResponse"
  /\ \E name \in {"ok", "service_unavailable", "internal_error"} :
       Become(r, Writing(handler[r], name))

(* The client disconnects: hyper drops the future. *)
Disconnect(r) ==
  /\ handler[r].at \notin Final
  /\ Become(r, [handler[r] EXCEPT !.at = "disconnected"])

-----------------------------------------------------------------------------
Poll(r) ==
  \/ call(r) \/ RespondMiddleware(r) \/ PollHeaders(r) \/ ReadChunk(r) \/ EndOfBody(r)
  \/ ProcessRest(r) \/ ProcessHealth(r) \/ PollWaiting(r) \/ PollWaitingForResponse(r)

Run(w) == SpawnWorker(w) \/ Shutdown(w) \/ Done(w) \/ \E ok \in BOOLEAN : Bind(w, ok)

Finish(a) == SendSignal(a) \/ CloseExecutor(a) \/ CloseReturns(a)

Next ==
  \/ \E w \in Workers : Run(w) \/ \E r \in Requests : \E k \in Kinds(config, r) : Accept(r, w, k)
  \/ \E r \in Requests : Poll(r) \/ Disconnect(r)
  \/ \E a \in Actors : Close(a) \/ Finish(a)
  \/ StartReturns \/ Wait \/ JoinReturns

(***************************************************************************)
(* While a task or a thread of the server can go on, one does: bodies      *)
(* arrive, methods return, an owner in Drop goes on to close.  Nobody has  *)
(* to connect, to disconnect, to wait or to close.                         *)
(***************************************************************************)
Progress ==
  \/ \E w \in Workers : Run(w)
  \/ \E r \in Requests : Poll(r)
  \/ \E a \in Actors : Finish(a)
  \/ StartReturns \/ JoinReturns
  \/ actor["owner"] = "dropping" /\ Close("owner")

Spec == Init /\ [][Next]_vars /\ WF_vars(Progress)
-----------------------------------------------------------------------------
(* Properties. *)

(* The origin of a request may use this server: there is none, it is the   *)
(* server's own, or the list has it.                                       *)
OriginPermitted(c, k) ==
  \/ k.origin = None
  \/ k.host # None /\ host_of(k.origin) = k.host
  \/ c.cors_domains = None
  \/ k.origin = NullOrigin /\ NullOrigin \in c.cors_domains
  \/ /\ k.origin # NullOrigin
     /\ \E a \in c.cors_domains \ {NullOrigin} : a = AnyOrigin \/ matches(a, k.origin)

(* The bytes of a body's first chunks, by their number. *)
Totals(body) ==
  LET total[i \in 0 .. Len(body)] == IF i = 0 THEN 0 ELSE total[i - 1] + body[i]
  IN  total

(* What holds of a request when a method is called for it. *)
Permitted(c, h) ==
  LET k == h.kind
  IN  /\ ~k.action.respond
      /\ is_host_valid(k.host, update(c.allowed_hosts, c.address))
      /\ k.action.should_continue_on_invalid_cors \/ OriginPermitted(c, k)
      /\ IF h.called = "health" THEN k.method = "GET" /\ k.path = c.health_api
         ELSE /\ k.method = "POST"
              /\ is_json(k.content_type) \/ (h.called = "rest" /\ c.rest_api = "Unsecure")
      /\ h.called = "body" => /\ k.end \notin {"broken", "bad_utf8"}
                              /\ h.chunk = Len(k.body) /\ h.size = Totals(k.body)[h.chunk]
                              /\ h.size <= c.max_request_body_size

(***************************************************************************)
(* A method is only called for a request whose host is allowed, whose      *)
(* origin may use the server or was let through by the middleware, that    *)
(* came as JSON (or over the unsecured REST API, or a health GET), and     *)
(* whose whole body was read, is text and within the limit, however it was *)
(* cut into chunks.                                                        *)
(***************************************************************************)
PermittedCall ==
  \A r \in Requests : handler[r].called # "no" => Permitted(config, handler[r])

(* What holds of a request that was answered. *)
Honest(c, h) ==
  LET k == h.kind  res == h.response
      cross == k.origin # None /\ ~(k.host # None /\ host_of(k.origin) = k.host)
  IN  /\ res.code \in {400, 403, 405, 413, 415} \/ res.name = "closing" => h.called = "no"
      /\ res.name = "ok" => h.called # "no" \/ k.method = "OPTIONS" \/ k.action.respond
      /\ res.allow_origin # None => /\ OriginPermitted(c, k)
                                    /\ res.allow_origin \in {k.origin, parse_origin(k.origin)}
      /\ res.allow_headers # None => res.allow_origin # None
      /\ /\ cross /\ OriginPermitted(c, k) /\ ~k.action.respond
         /\ res.name \notin {"host_not_allowed", "invalid_allow_headers"}
         => res.allow_origin # None

(***************************************************************************)
(* A refusal means that nothing was called, and success that something     *)
(* was, or that nothing had to be.  The CORS headers name the origin that  *)
(* asked, and are there for no origin that is not permitted; for one that  *)
(* is, they are there whatever the RPC handler answers, but for a refusal  *)
(* of the requested headers, which RefusedWithoutCors is about.            *)
(***************************************************************************)
HonestAnswer == \A r \in Requests : handler[r].at = "answered" => Honest(config, handler[r])

(***************************************************************************)
(* What the texts of invalid_allow_origin and invalid_allow_headers say:   *)
(* "CORS headers would not be sent".                                       *)
(***************************************************************************)
RefusedWithoutCors ==
  \A r \in Requests :
    LET res == handler[r].response
    IN  handler[r].at = "answered" /\ res.name \in {"invalid_allow_origin", "invalid_allow_headers"}
          => res.allow_origin = None /\ res.allow_headers = None /\ res.max_age = None

(***************************************************************************)
(* No request is told that the server is closing while some worker still   *)
(* accepts requests, or start_http has yet to return.                      *)
(***************************************************************************)
ClosingMeansClosed ==
  \A r \in Requests :
    handler[r].at = "answered" /\ handler[r].response.name = "closing" =>
      /\ start \in {"ok", "failed"}
      /\ \A w \in Workers : worker[w] \in {"none", "draining", "done", "ended"}

(***************************************************************************)
(* When wait, close or the drop of the Server returns, every worker on a   *)
(* runtime of its own has ended, also if another thread's CloseHandle did  *)
(* the closing; and a single worker has ended wherever it runs.            *)
(***************************************************************************)
OwnerReturnsAfterServer ==
  actor["owner"] = "gone" =>
    \A w \in Workers : (Spawned(w) \/ config.threads = 1) => worker[w] \in {"done", "ended"}

QuietStep ==
  actor["owner"] = "gone" =>
    \A r \in Requests :
      handler'[r] # handler[r] => config.threads # 1 /\ ~Spawned(handler'[r].worker)

(***************************************************************************)
(* After wait, close or the drop of the Server has returned, no request    *)
(* is accepted, goes on, calls a method or is answered, whoever closed the *)
(* server and whether its requests were drained or dropped: WeakRpc wants  *)
(* tasks gone "as soon as the server stops".  Only a shared executor that  *)
(* serves beside other workers may go on, since a lost worker ends the     *)
(* join.                                                                   *)
(***************************************************************************)
QuietAfterReturn == [][QuietStep]_vars

(***************************************************************************)
(* Once closed, by whichever thread, all workers end, and an owner that    *)
(* waits or drops the Server gets to its end.                              *)
(***************************************************************************)
CloseFinishes ==
  (start = "ok" /\ ~executors)
    ~> /\ \A w \in Workers : worker[w] \in {"done", "ended"}
       /\ actor["owner"] \in {"idle", "gone"}
-----------------------------------------------------------------------------
(* The inductive invariant of the proofs. *)

HttpTypeOK ==
  /\ config \in Configurations
  /\ start \in {"spawning", "waiting", "ok", "failed"}
  /\ worker \in [0 .. MaxThreads - 1 -> {"none", "binding", "serving", "draining", "done", "ended"}]
  /\ executors \in BOOLEAN /\ done \in BOOLEAN
  /\ closing \in [Actors -> Seq(Workers)]
  /\ actor \in [Actors -> {"idle", "waiting", "dropping", "closing", "joining", "gone"}]
  /\ handler = [r \in Requests |-> handler[r]]
  /\ \A r \in Requests : DOMAIN handler[r] = DOMAIN Idle

Over(w) == worker[w] \in {"done", "ended"}

(***************************************************************************)
(* Whoever takes the executors has them all, and what is not left to close *)
(* is over.  The owner closes after, or as, the one that took them.        *)
(***************************************************************************)
CloseInv ==
  /\ \A w \in Workers : start = "ok" \/ w \in reported => worker[w] \notin {"none", "binding"}
  /\ start # "ok" => ~executors /\ actor["owner"] = "idle"
  /\ start # "ok" \/ executors => \A a \in Actors : closing[a] = <<>>
  /\ start = "ok" /\ ~executors =>
       \A w \in Workers : Spawned(w) =>
         Over(w) \/ \E a \in Actors : \E i \in 1 .. Len(closing[a]) : closing[a][i] = w
  /\ actor["owner"] \in {"closing", "joining", "gone"} => ~executors /\ closing["handle"] = <<>>
  /\ actor["owner"] # "closing" => closing["owner"] = <<>>
  /\ actor["owner"] \in {"joining", "gone"} => ~done
  /\ ~done /\ actor["owner"] \notin {"waiting", "joining"} /\ config.threads = 1 => Over(0)

(* Where a request has passed which checks. *)
Checked(c, h) ==
  LET k == h.kind
  IN  /\ h.at \in {"ReadingBody", "ProcessRest", "ProcessHealth", "Waiting", "WaitingForResponse"} =>
           /\ h.cors_allow_origin = Checks[c][k].origin
           /\ k.action.should_continue_on_invalid_cors \/ h.cors_allow_origin # Invalid
           /\ ~k.action.respond /\ Checks[c][k].host
      /\ h.at = "ReadingHeaders" => ~k.action.respond /\ Checks[c][k].host
      /\ h.at = "Middleware" => k.action.respond
      /\ h.at \in {"call", "ReadingHeaders"} => h.size = 0 /\ h.chunk = 0
      /\ h.at = "ReadingBody" => /\ k.method = "POST" /\ is_json(k.content_type)
                                 /\ h.chunk \in 0 .. Len(k.body) /\ h.size = Totals(k.body)[h.chunk]
                                 /\ h.size <= c.max_request_body_size
      /\ h.at = "ProcessRest" => /\ k.method = "POST"
                                 /\ is_json(k.content_type) \/ c.rest_api = "Unsecure"
      /\ h.at = "ProcessHealth" => k.method = "GET" /\ k.path = c.health_api
      /\ h.at \in {"Waiting", "WaitingForResponse"} => h.called # "no"
      /\ h.at \in {"idle", "call", "Middleware", "ReadingHeaders", "ReadingBody", "ProcessRest",
                  "ProcessHealth"} => h.called = "no"

RequestInv ==
  \A r \in Requests :
    /\ handler[r].at # "idle" => handler[r].kind \in Kinds(config, r) /\ handler[r].worker \in Workers
    /\ Checked(config, handler[r])
    /\ handler[r].called # "no" => Permitted(config, handler[r])

HttpInv == HttpTypeOK /\ CloseInv /\ RequestInv /\ HonestAnswer /\ ClosingMeansClosed

(* Requests are in flight only on workers that serve or drain. *)
ServedInv ==
  \A r \in Requests : handler[r].at \notin Final => worker[handler[r].worker] \in {"serving", "draining"}
=============================================================================
