------------------------------ MODULE IoHandler ------------------------------
(***************************************************************************)
(* MetaIoHandler of jsonrpc-core: the registry of procedures and the life  *)
(* of one request, from its text to its response.                          *)
(*                                                                         *)
(* handle_request dispatches every call of the request at once; what comes *)
(* after that is a set of futures the executor polls in any order.  The    *)
(* returned future does not borrow the handler, so procedures may be       *)
(* registered while it runs.  JSON texts are abstracted to what they parse *)
(* to, parameters and metadata are left out.  A middleware answers at once *)
(* or passes on what it got; it does not change it.                        *)
(***************************************************************************)
EXTENDS Subsequences, FiniteSetsExt, TLC

CONSTANTS
  MethodNames,    \* names a procedure can be registered or called under
  CallIds,        \* ids of calls, apart from Null
  NoMethod, Null,
  Delegates,      \* structs whose methods are registered, the handler's own closures among them
  NoDelegate,
  Registrations,  \* what is registered in one go: tuples of extensions
  Middlewares,    \* the middlewares a handler can be made with: tuples of up to four
  MaxBatch,       \* bound: calls in a batch, for each compatibility
  MaxAdds         \* bound: extensions registered

Versions == {"none", "2.0"}  \* Option<Version>

(***************************************************************************)
(* A procedure belongs to a delegate, the struct its closure is called     *)
(* with; an alias has a target.                                            *)
(***************************************************************************)
Procedures ==
  [kind : {"method", "notification"}, delegate : Delegates, target : {NoMethod}]
    \cup [kind : {"alias"}, delegate : {NoDelegate}, target : MethodNames]

NoProcedure == [kind |-> "none", delegate |-> NoDelegate, target |-> NoMethod]

(***************************************************************************)
(* A middleware by what it answers itself: requests of some form, calls of *)
(* some names, with an output of its own or, its value "none", with none.  *)
(***************************************************************************)
Middleware ==
  [requests : SUBSET {"single", "batch"}, names : SUBSET MethodNames, value : {"none", "cached", "limited"}]

(* An extension: procedures by name.                                       *)
Extensions == UNION {[names -> Procedures] : names \in SUBSET MethodNames}

ASSUME IoHandlerAssumption ==
  /\ NoMethod \notin MethodNames /\ Null \notin CallIds /\ NoDelegate \notin Delegates
  /\ "none" \notin Delegates
  /\ Registrations \subseteq Seq(Extensions)
  /\ Middlewares \subseteq Seq(Middleware) /\ \A ms \in Middlewares : Len(ms) \in 1 .. 4
  /\ MaxBatch \in [{"V1", "V2", "Both"} -> Nat] /\ MaxAdds \in Nat

(* What a call parses to.                                                  *)
AnyCall ==
  [kind : {"method"}, name : MethodNames, id : CallIds \cup {Null}, jsonrpc : Versions]
    \cup [kind : {"notification"}, name : MethodNames, id : {Null}, jsonrpc : Versions]
    \cup [kind : {"invalid"}, name : {NoMethod}, id : CallIds \cup {Null}, jsonrpc : {"none"}]

VARIABLES
  compatibility,
  middleware,
  methods,   \* MetaIoHandler::methods
  log,       \* history: the extensions registered so far
  request,   \* its calls, a single one unless `batch`
  batch,
  futures,   \* the futures of handle_call with their output: running, or ready
  executed,  \* delegates whose notification was executed, in order
  response,  \* "unasked", "pending", or "none", "single", "batch" with the outputs
  seen       \* history: log when the request arrived

configVars == <<compatibility, middleware>>
ioVars == <<configVars, methods, log, request, batch, futures, executed, response, seen>>

Output(id, jsonrpc, value) == [id |-> id, jsonrpc |-> jsonrpc, value |-> value]

NoOutput == Output(Null, "none", "none")

Answer(kind, outputs) == [kind |-> kind, outputs |-> outputs]

IoInit ==
  /\ compatibility \in {"V1", "V2", "Both"}
  /\ middleware \in Middlewares
  /\ methods = [n \in MethodNames |-> NoProcedure]
  /\ log = <<>> /\ seen = <<>>
  /\ request = <<>> /\ batch = FALSE /\ futures = <<>> /\ executed = <<>>
  /\ response = Answer("unasked", <<>>)

is_version_valid(version) ==
  \/ compatibility = "V1" /\ version = "none"
  \/ compatibility = "V2" /\ version = "2.0"
  \/ compatibility = "Both"

default_version == IF compatibility = "V1" THEN "none" ELSE "2.0"

-----------------------------------------------------------------------------
(* Registration.                                                           *)

(* A set of procedures tied to one delegate.                               *)
IoDelegate(delegate) == [delegate |-> delegate, methods |-> <<>>]

Insert(d, name, procedure) == [d EXCEPT !.methods = (name :> procedure) @@ @]

add_method(d, name) ==
  Insert(d, name, [kind |-> "method", delegate |-> d.delegate, target |-> NoMethod])

add_notification(d, name) ==
  Insert(d, name, [kind |-> "notification", delegate |-> d.delegate, target |-> NoMethod])

add_alias(d, from, to) ==
  Insert(d, from, [kind |-> "alias", delegate |-> NoDelegate, target |-> to])

(* A subscription is two methods of the delegate.                          *)
add_subscription(d, subscribe, unsubscribe) == add_method(add_method(d, subscribe), unsubscribe)

extend_with(handler, extension) ==
  [n \in MethodNames |-> IF n \in DOMAIN extension THEN extension[n] ELSE handler[n]]

(***************************************************************************)
(* augment: those of a tuple one after the other, so that the last one to  *)
(* use a name wins; of an Option, the one or none.                         *)
(***************************************************************************)
augment(handler, extensions) ==
  LET after[i \in 0 .. Len(extensions)] ==
        IF i = 0 THEN handler ELSE extend_with(after[i - 1], extensions[i])
  IN  after[Len(extensions)]

(***************************************************************************)
(* add_method and add_notification with their variants and add_alias, each *)
(* one extension of one name, extend_with and augment of extensions.       *)
(***************************************************************************)
Register(extensions) ==
  /\ Len(log) + Len(extensions) <= MaxAdds
  /\ log' = log \o extensions
  /\ methods' = augment(methods, extensions)
  /\ UNCHANGED <<configVars, request, batch, futures, executed, response, seen>>

-----------------------------------------------------------------------------
(* Middlewares.                                                            *)

(***************************************************************************)
(* The nested calls of a tuple's on_request and on_call, repacked: of      *)
(* those that answer what is asked, the outermost does, and no other sees  *)
(* it.  A set of at most one value.                                        *)
(***************************************************************************)
OutermostFirst(asked) == {middleware[i].value : i \in {j \in asked : \A k \in asked : j <= k}}

on_request(form) == OutermostFirst({i \in DOMAIN middleware : form \in middleware[i].requests})

on_call(c) == OutermostFirst({i \in DOMAIN middleware : c.name \in middleware[i].names})

-----------------------------------------------------------------------------
(* Requests.                                                               *)

(* Mutant: an alias is followed to the end of its chain of two.            *)
TransitiveTarget(n, kind) ==
  {m \in MethodNames : /\ methods[m].kind = kind
                 /\ \/ m = n
                    \/ methods[n].target = m
                    \/ methods[n].kind = "alias" /\ methods[methods[n].target].target = m}

(***************************************************************************)
(* The procedure of a kind that name n executes: its own, or that of the   *)
(* name it is an alias for.  One of the other kind is as good as none.     *)
(***************************************************************************)
Target(n, kind) ==
  {m \in MethodNames : methods[m].kind = kind /\ (m = n \/ methods[n].target = m)}

Ready(output) == [state |-> "ready", output |-> output]

(* A method was called: the result of its delegate, if it has no error.    *)
Running(c, n) == [state |-> "running", output |-> Output(c.id, c.jsonrpc, methods[n].delegate)]

OutputOf(c, value) == IF value = "none" THEN NoOutput ELSE Output(c.id, c.jsonrpc, value)

(* Mutant: an unknown notification is answered like an unknown method.     *)
ReplyToNotification(c) ==
  IF on_call(c) # {} THEN Ready(OutputOf(c, CHOOSE v \in on_call(c) : TRUE))
  ELSE IF c.kind = "invalid" THEN Ready(Output(c.id, default_version, "invalid_request"))
  ELSE IF ~is_version_valid(c.jsonrpc) THEN Ready(Output(c.id, c.jsonrpc, "invalid_version"))
  ELSE IF Target(c.name, c.kind) = {} THEN Ready(Output(c.id, c.jsonrpc, "method_not_found"))
  ELSE IF c.kind = "notification" THEN Ready(NoOutput)
  ELSE Running(c, CHOOSE n \in Target(c.name, "method") : TRUE)

(***************************************************************************)
(* handle_call, behind on_call of the middleware: an error is ready, a     *)
(* method has been called and runs, a notification has been executed and   *)
(* says nothing, whatever became of it.                                    *)
(***************************************************************************)
handle_call(c) ==
  IF on_call(c) # {} THEN Ready(OutputOf(c, CHOOSE v \in on_call(c) : TRUE))
  ELSE IF c.kind = "notification" THEN Ready(NoOutput)
  ELSE IF c.kind = "invalid" THEN Ready(Output(c.id, default_version, "invalid_request"))
  ELSE IF ~is_version_valid(c.jsonrpc) THEN Ready(Output(c.id, c.jsonrpc, "invalid_version"))
  ELSE IF Target(c.name, "method") = {} THEN Ready(Output(c.id, c.jsonrpc, "method_not_found"))
  ELSE Running(c, CHOOSE n \in Target(c.name, "method") : TRUE)

Executes(c) ==
  /\ c.kind = "notification" /\ on_call(c) = {}
  /\ is_version_valid(c.jsonrpc) /\ Target(c.name, "notification") # {}

(***************************************************************************)
(* The notifications handle_call executes.                                 *)
(***************************************************************************)
Execute(calls) ==
  LET run == Subsequence(calls, {i \in DOMAIN calls : Executes(calls[i])})
  IN  [i \in DOMAIN run |-> methods[CHOOSE n \in Target(run[i].name, "notification") : TRUE].delegate]

(***************************************************************************)
(* A middleware responds to the request itself, with one failure or not.   *)
(***************************************************************************)
RespondDirectly(calls, form) ==
  /\ response.kind = "unasked"
  /\ \E value \in on_request(form) :
       response' = IF value = "none" THEN Answer("none", <<>>)
                   ELSE Answer("direct", <<Output(Null, default_version, value)>>)
  /\ request' = calls /\ batch' = (form = "batch")
  /\ seen' = log
  /\ UNCHANGED <<configVars, methods, log, futures, executed>>

(***************************************************************************)
(* handle_rpc_request: every call of a batch is dispatched before any of   *)
(* their futures is polled.                                                *)
(***************************************************************************)
HandleRequest(calls, form) ==
  /\ response.kind = "unasked"
  /\ on_request(form) = {}
  /\ request' = calls /\ batch' = (form = "batch")
  /\ futures' = [i \in DOMAIN calls |-> handle_call(calls[i])]
  /\ executed' = Execute(calls)
  /\ response' = Answer("pending", <<>>)
  /\ seen' = log
  /\ UNCHANGED <<configVars, methods, log>>

(***************************************************************************)
(* read_request fails: one failure with a null id.                         *)
(***************************************************************************)
Unparsable ==
  /\ response.kind = "unasked"
  /\ response' = Answer("direct", <<Output(Null, default_version, "parse_error")>>)
  /\ UNCHANGED <<configVars, methods, log, request, batch, futures, executed, seen>>

(***************************************************************************)
(* The future of a method completes, with a result or an error of its own. *)
(***************************************************************************)
CallCompletes(i) ==
  /\ futures[i].state = "running"
  /\ \E value \in {futures[i].output.value, "err"} :
       futures' = [futures EXCEPT ![i] = Ready([@.output EXCEPT !.value = value])]
  /\ UNCHANGED <<configVars, methods, log, request, batch, executed, response, seen>>

(* What flatten leaves of the outputs.                                     *)
Outputs(fs) ==
  Subsequence([i \in DOMAIN fs |-> fs[i].output], {i \in DOMAIN fs : fs[i].output # NoOutput})

(* Mutant: a batch of notifications waits for an output.                   *)
AnswerNonEmpty ==
  /\ response.kind = "pending"
  /\ \A i \in DOMAIN futures : futures[i].state = "ready"
  /\ LET outs == Outputs(futures)
     IN  /\ outs # <<>>
         /\ response' = Answer(IF batch THEN "batch" ELSE "single", outs)
  /\ UNCHANGED <<configVars, methods, log, request, batch, futures, executed, seen>>

(***************************************************************************)
(* join_all and outputs_as_batch, or output_as_response: the response is   *)
(* there when the last future is, and there is none if there is no output. *)
(***************************************************************************)
FinishRequest ==
  /\ response.kind = "pending"
  /\ \A i \in DOMAIN futures : futures[i].state = "ready"
  /\ LET outs == Outputs(futures)
     IN  response' = IF outs = <<>> THEN Answer("none", <<>>)
                     ELSE Answer(IF batch THEN "batch" ELSE "single", outs)
  /\ UNCHANGED <<configVars, methods, log, request, batch, futures, executed, seen>>

-----------------------------------------------------------------------------
RequestsOf(form) ==
  IF form = "single" THEN {<<c>> : c \in AnyCall}
  ELSE UNION {[1 .. n -> AnyCall] : n \in 0 .. MaxBatch[compatibility]}

IoNext ==
  \/ \E es \in Registrations : Register(es)
  \/ \E form \in {"single", "batch"} : \E calls \in RequestsOf(form) :
       HandleRequest(calls, form) \/ RespondDirectly(calls, form)
  \/ Unparsable
  \/ \E i \in DOMAIN futures : CallCompletes(i)
  \/ FinishRequest

(***************************************************************************)
(* Methods complete, and the executor polls the request's future.          *)
(***************************************************************************)
IoFairness == WF_ioVars(\E i \in DOMAIN futures : CallCompletes(i)) /\ WF_ioVars(FinishRequest)

IoSpec == IoInit /\ [][IoNext]_ioVars /\ IoFairness

-----------------------------------------------------------------------------
Answered == response.kind \in {"none", "single", "batch", "direct"}

(* No middleware responded to the request itself, and it could be read.    *)
Dispatched ==
  /\ response.kind \notin {"unasked", "direct"}
  /\ \A i \in DOMAIN middleware : (IF batch THEN "batch" ELSE "single") \notin middleware[i].requests

(* The middlewares that answer a call themselves, and what the outermost,  *)
(* the first of them, says.                                                *)
Answering(c) == {i \in DOMAIN middleware : c.name \in middleware[i].names}

Said(c) == middleware[Min(Answering(c))].value

(* Calls whose sender gets an output: those a middleware answers with one, *)
(* and of the others all but notifications.                                *)
WantsOutput(c) == IF Answering(c) # {} THEN Said(c) # "none" ELSE c.kind # "notification"

Answerable == Subsequence(request, {i \in DOMAIN request : WantsOutput(request[i])})

(***************************************************************************)
(* A response has one output per answered call, per call with an id and    *)
(* per invalid call, in the order of the calls and with their ids, in      *)
(* whatever order their futures completed; a request without such calls    *)
(* has no response.                                                        *)
(***************************************************************************)
Correlated ==
  Dispatched /\ Answered =>
    /\ [i \in DOMAIN response.outputs |-> response.outputs[i].id]
         = [i \in DOMAIN Answerable |-> Answerable[i].id]
    /\ response.kind = (IF Answerable = <<>> THEN "none" ELSE IF batch THEN "batch" ELSE "single")

(***************************************************************************)
(* Of the extensions in es the last one registered for name n, and the     *)
(* procedure of a kind that n stands for: that one, or the last one for    *)
(* the name n is an alias of.                                              *)
(***************************************************************************)
RegisteredFor(n, es) ==
  LET uses == {i \in DOMAIN es : n \in DOMAIN es[i]}
  IN  IF uses = {} THEN NoProcedure ELSE es[Max(uses)][n]

StandsFor(n, kind, es) ==
  LET p == RegisteredFor(n, es)
      q == IF p.kind = "alias" THEN RegisteredFor(p.target, es) ELSE p
  IN  IF q.kind = kind THEN q ELSE NoProcedure

(* What may be said to a call, and whether it is an executed notification. *)
Results(c, es) ==
  LET p == StandsFor(c.name, "method", es)
  IN  IF Answering(c) # {} THEN {Said(c)}
      ELSE IF c.kind = "invalid" THEN {"invalid_request"}
      ELSE IF ~is_version_valid(c.jsonrpc) THEN {"invalid_version"}
      ELSE IF p = NoProcedure THEN {"method_not_found"} ELSE {p.delegate, "err"}

IsExecuted(c, es) ==
  /\ c.kind = "notification" /\ Answering(c) = {} /\ is_version_valid(c.jsonrpc)
  /\ StandsFor(c.name, "notification", es) # NoProcedure

(***************************************************************************)
(* A call is answered by the outermost middleware that wants it, and else  *)
(* by the delegate whose method, in the registry as it was when the        *)
(* request arrived, had the name or was its alias: aliases are not         *)
(* transitive, and what is registered later does not matter.  The same     *)
(* goes for the notifications that are executed, each once and in order.   *)
(***************************************************************************)
DispatchedAtArrival ==
  Dispatched =>
    /\ Answered => \A i \in DOMAIN Answerable :
         response.outputs[i].value \in Results(Answerable[i], seen)
    /\ LET wanted == Subsequence(request, {i \in DOMAIN request : IsExecuted(request[i], seen)})
       IN  executed = [i \in DOMAIN wanted |-> StandsFor(wanted[i].name, "notification", seen).delegate]

(***************************************************************************)
(* Every request is answered, or found to need no response, once all its   *)
(* methods have completed.                                                 *)
(***************************************************************************)
RequestCompletes == response.kind = "pending" ~> Answered
=============================================================================
