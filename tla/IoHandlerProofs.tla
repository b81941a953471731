--------------------------- MODULE IoHandlerProofs ---------------------------
(***************************************************************************)
(* Every response of a MetaIoHandler belongs to its request, call by call, *)
(* and every call is dispatched by the registry as it was when the request *)
(* arrived.                                                                *)
(***************************************************************************)
EXTENDS IoHandler, SequenceProofs

-----------------------------------------------------------------------------
(* Lemmas about the operators. *)

(* Of a list of middlewares the first one that answers is there, if any is. *)
LEMMA FirstAnswers ==
  ASSUME middleware \in Seq(Middleware), NEW asked, asked \subseteq DOMAIN middleware
  PROVE  /\ asked = {} => OutermostFirst(asked) = {}
         /\ asked # {} => OutermostFirst(asked) = {middleware[Min(asked)].value}
<1>1. asked = {} => OutermostFirst(asked) = {}
  BY Zenon DEF OutermostFirst
<1>2. ASSUME asked # {} PROVE OutermostFirst(asked) = {middleware[Min(asked)].value}
  <2>1. asked \subseteq Nat
    OBVIOUS
  <2>2. \E n \in asked : \A m \in asked : n <= m
    BY <1>2, <2>1, LeastNatural, Zenon
  <2>3. Min(asked) \in asked /\ \A m \in asked : Min(asked) <= m
    BY <2>2, Zenon DEF Min
  <2>4. {j \in asked : \A k \in asked : j <= k} = {Min(asked)}
    BY <2>1, <2>3
  <2>. QED  BY <2>4, Zenon DEF OutermostFirst
<1>. QED  BY <1>1, <1>2, Zenon

(* on_call is what the outermost middleware that wants the call says. *)
LEMMA CallAnswered ==
  ASSUME middleware \in Seq(Middleware), NEW c
  PROVE  /\ Answering(c) = {} <=> on_call(c) = {}
         /\ Answering(c) # {} => on_call(c) = {Said(c)}
<1>1. Answering(c) \subseteq DOMAIN middleware
  BY Zenon DEF Answering
<1>2. on_call(c) = OutermostFirst(Answering(c))
  BY Zenon DEF on_call, Answering
<1>. QED  BY <1>1, <1>2, FirstAnswers, Zenon DEF Said

(* A request is dispatched when no middleware wants it. *)
LEMMA RequestPassed ==
  ASSUME middleware \in Seq(Middleware), NEW form
  PROVE  on_request(form) = {} <=> \A i \in DOMAIN middleware : form \notin middleware[i].requests
<1>. DEFINE asked == {i \in DOMAIN middleware : form \in middleware[i].requests}
<1>1. on_request(form) = OutermostFirst(asked)
  BY Zenon DEF on_request
<1>2. asked = {} <=> \A i \in DOMAIN middleware : form \notin middleware[i].requests
  BY Zenon
<1>3. asked \subseteq DOMAIN middleware
  BY Zenon
<1>. HIDE DEF asked
<1>4. CASE asked = {}
  BY <1>1, <1>2, <1>3, <1>4, FirstAnswers, Zenon
<1>5. CASE asked # {}
  <2>1. on_request(form) = {middleware[Min(asked)].value}
    BY <1>1, <1>3, <1>5, FirstAnswers, Zenon
  <2>. QED  BY <1>2, <1>5, <2>1, Zenon
<1>. QED  BY <1>4, <1>5, Zenon

-----------------------------------------------------------------------------
(* The registry. *)

(* Registering one more extension: it wins for the names it has. *)
LEMMA RegisteredAppend ==
  ASSUME NEW es \in Seq(Extensions), NEW e \in Extensions, NEW n
  PROVE  RegisteredFor(n, Append(es, e)) = IF n \in DOMAIN e THEN e[n] ELSE RegisteredFor(n, es)
<1>. DEFINE all == Append(es, e)
            Uses(l) == {i \in DOMAIN l : n \in DOMAIN l[i]}
<1>1. /\ Len(all) = Len(es) + 1 /\ DOMAIN all = 1 .. Len(es) + 1 /\ DOMAIN es = 1 .. Len(es)
      /\ all[Len(es) + 1] = e /\ \A i \in 1 .. Len(es) : all[i] = es[i]
      /\ Len(es) \in Nat
  OBVIOUS
<1>2. /\ RegisteredFor(n, all) = IF Uses(all) = {} THEN NoProcedure ELSE all[Max(Uses(all))][n]
      /\ RegisteredFor(n, es) = IF Uses(es) = {} THEN NoProcedure ELSE es[Max(Uses(es))][n]
  BY Zenon DEF RegisteredFor
<1>. HIDE DEF all
<1>3. CASE n \in DOMAIN e
  <2>1. Len(es) + 1 \in Uses(all) /\ \A i \in Uses(all) : i <= Len(es) + 1
    BY <1>1, <1>3
  <2>2. Uses(all) \subseteq Nat
    BY <1>1
  <2>. HIDE DEF Uses
  <2>3. Max(Uses(all)) = Len(es) + 1
    BY <1>1, <2>1, <2>2 DEF Max
  <2>. QED  BY <1>1, <1>2, <1>3, <2>1, <2>3, Zenon DEF all
<1>4. CASE n \notin DOMAIN e
  <2>1. Uses(all) = Uses(es)
    BY <1>1, <1>4
  <2>2. Uses(es) # {} => Max(Uses(es)) \in 1 .. Len(es)
    <3>1. Uses(es) \subseteq 0 .. Len(es) /\ Uses(es) \subseteq 1 .. Len(es)
      BY <1>1
    <3>. HIDE DEF Uses
    <3>2. Uses(es) # {} => \E m \in Uses(es) : \A k \in Uses(es) : k <= m
      BY <1>1, <3>1, GreatestNatural, Zenon
    <3>. QED  BY <3>1, <3>2, Zenon DEF Max
  <2>. HIDE DEF Uses
  <2>. QED  BY <1>1, <1>2, <1>4, <2>1, <2>2, Zenon DEF all
<1>. QED  BY <1>3, <1>4, Zenon

(* Nothing is registered at first. *)
LEMMA RegisteredEmpty ==
  ASSUME NEW n
  PROVE  RegisteredFor(n, <<>>) = NoProcedure
BY DEF RegisteredFor

(* What is registered is a procedure, or none. *)
LEMMA RegisteredType ==
  ASSUME NEW es \in Seq(Extensions), NEW n
  PROVE  RegisteredFor(n, es) \in Procedures \cup {NoProcedure}
<1>. DEFINE uses == {i \in DOMAIN es : n \in DOMAIN es[i]}
<1>1. Len(es) \in Nat /\ uses \subseteq 0 .. Len(es) /\ \A i \in uses : i \in DOMAIN es /\ n \in DOMAIN es[i]
  OBVIOUS
<1>2. \A i \in DOMAIN es : es[i] \in Extensions
  OBVIOUS
<1>3. \A i \in uses : es[i][n] \in Procedures
  BY <1>1, <1>2 DEF Extensions
<1>4. RegisteredFor(n, es) = IF uses = {} THEN NoProcedure ELSE es[Max(uses)][n]
  BY Zenon DEF RegisteredFor
<1>. HIDE DEF uses
<1>5. uses # {} => \E m \in uses : \A k \in uses : k <= m
  BY <1>1, GreatestNatural, Zenon
<1>6. uses # {} => Max(uses) \in uses
  BY <1>5, Zenon DEF Max
<1>. QED  BY <1>3, <1>4, <1>6, Zenon

(* The registry after extensions were registered, one after the other. *)
Registry(es) == [n \in MethodNames |-> RegisteredFor(n, es)]

(* augment registers the extensions of a tuple in their order. *)
LEMMA AugmentRegisters ==
  ASSUME NEW old \in Seq(Extensions), NEW es \in Seq(Extensions)
  PROVE  augment(Registry(old), es) = Registry(old \o es)
<1>. DEFINE len == Len(es)
            After(g) == [i \in 0 .. len |-> IF i = 0 THEN Registry(old) ELSE extend_with(g[i - 1], es[i])]
            after == CHOOSE g : g = After(g)
            f == [i \in 0 .. len |-> Registry(old \o SubSeq(es, 1, i))]
<1>1. len \in Nat
  OBVIOUS
<1>2. augment(Registry(old), es) = after[len]
  BY Zenon DEF augment
<1>3. f[0] = Registry(old) /\ f[len] = Registry(old \o es)
  <2>1. old \o SubSeq(es, 1, 0) = old /\ old \o SubSeq(es, 1, len) = old \o es
    OBVIOUS
  <2>2. f[0] = Registry(old \o SubSeq(es, 1, 0)) /\ f[len] = Registry(old \o SubSeq(es, 1, len))
    BY <1>1
  <2>. QED  BY <2>1, <2>2, Zenon
<1>4. ASSUME NEW i \in 1 .. len PROVE f[i] = extend_with(f[i - 1], es[i])
  <2>. DEFINE before == old \o SubSeq(es, 1, i - 1)
  <2>1. i - 1 \in 0 .. len /\ i \in 0 .. len
    BY <1>1
  <2>2. before \in Seq(Extensions) /\ es[i] \in Extensions
    BY <2>1
  <2>3. old \o SubSeq(es, 1, i) = Append(before, es[i])
    <3>1. SubSeq(es, 1, i) = Append(SubSeq(es, 1, i - 1), es[i])
      BY <2>1
    <3>2. SubSeq(es, 1, i - 1) \in Seq(Extensions)
      BY <2>1
    <3>. QED  BY <2>2, <3>1, <3>2, ConcatAppend, SMTT(30)
  <2>4. f[i] = Registry(old \o SubSeq(es, 1, i)) /\ f[i - 1] = Registry(before)
    BY <2>1, Zenon
  <2>. HIDE DEF before, f
  <2>5. \A n : RegisteredFor(n, Append(before, es[i])) =
                 IF n \in DOMAIN es[i] THEN es[i][n] ELSE RegisteredFor(n, before)
    BY <2>2, RegisteredAppend, Zenon
  <2>6. Registry(Append(before, es[i])) =
          [n \in MethodNames |-> IF n \in DOMAIN es[i] THEN es[i][n] ELSE RegisteredFor(n, before)]
    BY <2>5, Zenon DEF Registry
  <2>7. \A n \in MethodNames : Registry(before)[n] = RegisteredFor(n, before)
    BY Zenon DEF Registry
  <2>8. extend_with(Registry(before), es[i]) =
          [n \in MethodNames |-> IF n \in DOMAIN es[i] THEN es[i][n] ELSE RegisteredFor(n, before)]
    BY <2>7, Zenon DEF extend_with
  <2>. QED  BY <2>3, <2>4, <2>6, <2>8, Zenon
<1>5. f = After(f)
  <2>1. \A i \in 0 .. len : i = 0 \/ i \in 1 .. len
    BY <1>1
  <2>2. f = [i \in 0 .. len |-> f[i]]
    BY Zenon
  <2>. HIDE DEF f, len
  <2>. QED  BY <1>3, <1>4, <2>1, <2>2, Zenon
<1>. HIDE DEF f, len
<1>6. after = After(after)
  <2>. HIDE DEF After
  <2>. QED  BY <1>5, Zenon
<1>7. after[len] = f[len]
  <2>. DEFINE Same == {i \in 0 .. len : after[i] = f[i]}
  <2>. HIDE DEF after
  <2>1. 0 \in Same
    BY <1>1, <1>3, <1>6
  <2>2. ASSUME NEW i \in 0 .. len - 1, i \in Same PROVE i + 1 \in Same
    <3>1. after[i] = f[i] /\ i + 1 \in 1 .. len /\ (i + 1) - 1 = i /\ i + 1 \in 0 .. len /\ i + 1 # 0
      BY <1>1, <2>2
    <3>2. after[i + 1] = extend_with(after[i], es[i + 1])
      BY <1>6, <3>1, Zenon
    <3>3. f[i + 1] = extend_with(f[i], es[i + 1])
      BY <1>4, <3>1, Zenon
    <3>. QED  BY <3>1, <3>2, <3>3, Zenon
  <2>3. len \in 0 .. len
    BY <1>1
  <2>. HIDE DEF Same
  <2>4. len \in Same
    BY <1>1, <2>1, <2>2, <2>3, InductionUpTo, Zenon
  <2>. QED  BY <2>4, Zenon DEF Same
<1>. QED  BY <1>2, <1>3, <1>7, Zenon

(***************************************************************************)
(* What a call's name executes, found in the registry as handle_call does, *)
(* is what the name stands for.                                            *)
(***************************************************************************)
LEMMA TargetStandsFor ==
  ASSUME log \in Seq(Extensions), methods = Registry(log), NEW n \in MethodNames,
         NEW kind \in {"method", "notification"}
  PROVE  /\ Target(n, kind) = {} <=> StandsFor(n, kind, log) = NoProcedure
         /\ Target(n, kind) # {} =>
              /\ methods[CHOOSE m \in Target(n, kind) : TRUE] = StandsFor(n, kind, log)
              /\ StandsFor(n, kind, log).delegate \in Delegates
<1>. DEFINE p == methods[n]
            q == IF p.kind = "alias" THEN methods[p.target] ELSE p
<1>1. \A m \in MethodNames : methods[m] = RegisteredFor(m, log) /\ methods[m] \in Procedures \cup {NoProcedure}
  BY RegisteredType, Zenon DEF Registry
<1>2. \A m \in MethodNames :
        /\ methods[m].kind = "alias" => methods[m].target \in MethodNames
        /\ methods[m].kind # "alias" => methods[m].target = NoMethod
        /\ methods[m].kind = kind => methods[m].delegate \in Delegates /\ methods[m] # NoProcedure
  BY <1>1 DEF Procedures, NoProcedure
<1>3. StandsFor(n, kind, log) = IF q.kind = kind THEN q ELSE NoProcedure
  BY <1>1, <1>2 DEF StandsFor
<1>4. kind # "alias" /\ NoMethod \notin MethodNames
  BY IoHandlerAssumption, Zenon
<1>5. CASE q.kind = kind
  <2>. DEFINE m == IF p.kind = "alias" THEN p.target ELSE n
  <2>1. m \in MethodNames /\ q = methods[m] /\ methods[m].kind = kind
    BY <1>2, <1>5, Zenon
  <2>2. Target(n, kind) = {m}
    BY <1>2, <1>4, <2>1, Zenon DEF Target
  <2>. HIDE DEF m, q
  <2>. QED  BY <1>2, <1>3, <1>5, <2>1, <2>2, Zenon
<1>6. CASE q.kind # kind
  <2>1. Target(n, kind) = {}
    BY <1>2, <1>4, <1>6, Zenon DEF Target
  <2>. QED  BY <1>3, <1>6, <2>1, Zenon
<1>. QED  BY <1>5, <1>6, Zenon

-----------------------------------------------------------------------------
(* The inductive invariant. *)

Values ==
  Delegates \cup {"none", "cached", "limited", "invalid_request", "invalid_version",
                  "method_not_found", "parse_error", "err"}

FutureType ==
  [state : {"running", "ready"},
   output : [id : CallIds \cup {Null}, jsonrpc : Versions, value : Values]]

IoType ==
  /\ compatibility \in {"V1", "V2", "Both"}
  /\ middleware \in Seq(Middleware)
  /\ log \in Seq(Extensions) /\ seen \in Seq(Extensions)
  /\ request \in Seq(AnyCall) /\ batch \in BOOLEAN
  /\ futures \in Seq(FutureType)

(* The future of call c, dispatched by the registry of the extensions es.  *)
Fits(f, c, es) ==
  /\ WantsOutput(c) => /\ f.output.id = c.id
                       /\ f.output.value # "none" /\ f.output.value \in Results(c, es)
  /\ ~WantsOutput(c) => f.output = NoOutput
  /\ f.state = "running" => WantsOutput(c) /\ "err" \in Results(c, es)

(* The delegates of the notifications among calls, by the extensions es.   *)
Notified(calls, es) ==
  LET wanted == Subsequence(calls, {i \in DOMAIN calls : IsExecuted(calls[i], es)})
  IN  [i \in DOMAIN wanted |-> StandsFor(wanted[i].name, "notification", es).delegate]

(* Calls, futures and response of a dispatched request belong together.    *)
Correspond ==
  /\ Len(futures) = Len(request)
  /\ \A i \in DOMAIN request : Fits(futures[i], request[i], seen)
  /\ executed = Notified(request, seen)
  /\ Answered => /\ \A i \in DOMAIN futures : futures[i].state = "ready"
                 /\ response.outputs = Outputs(futures)
                 /\ response.kind = IF Outputs(futures) = <<>> THEN "none"
                                    ELSE IF batch THEN "batch" ELSE "single"

IoInv == IoType /\ methods = Registry(log) /\ (Dispatched => Correspond)

(* handle_call makes a future that fits the call. *)
LEMMA HandleCallFits ==
  ASSUME IoInv, NEW c \in AnyCall
  PROVE  handle_call(c) \in FutureType /\ Fits(handle_call(c), c, log)
<1>. DEFINE p == StandsFor(c.name, "method", log)
<1>1. /\ middleware \in Seq(Middleware) /\ log \in Seq(Extensions) /\ methods = Registry(log)
      /\ compatibility \in {"V1", "V2", "Both"}
  BY Zenon DEF IoInv, IoType
<1>2. /\ c.id \in CallIds \cup {Null} /\ c.jsonrpc \in Versions
      /\ c.kind \in {"method", "notification", "invalid"}
      /\ c.kind = "method" => c.name \in MethodNames
  BY Zenon DEF AnyCall, Versions
<1>3. NoOutput \in [id : CallIds \cup {Null}, jsonrpc : Versions, value : Values]
  BY Zenon DEF NoOutput, Output, Versions, Values
<1>4. \A j \in Versions, v \in Values :
        /\ Output(c.id, j, v) \in [id : CallIds \cup {Null}, jsonrpc : Versions, value : Values]
        /\ Output(c.id, j, v).id = c.id /\ Output(c.id, j, v).value = v
  BY <1>2, Zenon DEF Output
<1>5. \A o : Ready(o).state = "ready" /\ Ready(o).output = o
  BY Zenon DEF Ready
<1>6. \A o \in [id : CallIds \cup {Null}, jsonrpc : Versions, value : Values] : Ready(o) \in FutureType
  BY Zenon DEF Ready, FutureType
<1>7. ASSUME NEW j \in Versions, NEW v \in Values \ {"none"}, WantsOutput(c), v \in Results(c, log)
      PROVE  Ready(Output(c.id, j, v)) \in FutureType /\ Fits(Ready(Output(c.id, j, v)), c, log)
  <2>. DEFINE o == Output(c.id, j, v)
  <2>1. /\ o \in [id : CallIds \cup {Null}, jsonrpc : Versions, value : Values]
        /\ o.id = c.id /\ o.value = v
    BY <1>4, Zenon
  <2>. HIDE DEF o
  <2>2. Ready(o) \in FutureType /\ Ready(o).state = "ready" /\ Ready(o).output = o
    BY <1>5, <1>6, <2>1, Zenon
  <2>. QED  BY <1>7, <2>1, <2>2, Zenon DEF Fits, o
<1>8. ~WantsOutput(c) => Ready(NoOutput) \in FutureType /\ Fits(Ready(NoOutput), c, log)
  BY <1>3, <1>5, <1>6, Zenon DEF Fits
<1>9. {"invalid_request", "invalid_version", "method_not_found"} \subseteq Values \ {"none"}
  BY Zenon DEF Values
<1>10. CASE Answering(c) # {}
  <2>1. handle_call(c) = Ready(OutputOf(c, Said(c)))
    <3>1. on_call(c) = {Said(c)}
      BY <1>1, <1>10, CallAnswered, Zenon
    <3>. QED  BY <3>1, Zenon DEF handle_call
  <2>2. Said(c) \in {"none", "cached", "limited"}
    <3>1. Answering(c) \subseteq Nat /\ Answering(c) \subseteq DOMAIN middleware
      BY <1>1 DEF Answering
    <3>2. \E n \in Answering(c) : \A m \in Answering(c) : n <= m
      BY <1>10, <3>1, LeastNatural, Zenon
    <3>3. Min(Answering(c)) \in DOMAIN middleware
      BY <3>1, <3>2, Zenon DEF Min
    <3>4. middleware[Min(Answering(c))] \in Middleware
      BY <1>1, <3>3
    <3>. QED  BY <3>4, Zenon DEF Said, Middleware
  <2>3. Said(c) \in Values /\ WantsOutput(c) = (Said(c) # "none") /\ Results(c, log) = {Said(c)}
    BY <1>10, <2>2, Zenon DEF Values, WantsOutput, Results
  <2>4. OutputOf(c, Said(c)) = IF Said(c) = "none" THEN NoOutput ELSE Output(c.id, c.jsonrpc, Said(c))
    BY Zenon DEF OutputOf
  <2>. QED  BY <1>2, <1>7, <1>8, <2>1, <2>3, <2>4, Zenon
<1>11. CASE Answering(c) = {}
  <2>1. on_call(c) = {} /\ WantsOutput(c) = (c.kind # "notification")
    BY <1>1, <1>11, CallAnswered, Zenon DEF WantsOutput
  <2>2. CASE c.kind = "notification"
    <3>1. handle_call(c) = Ready(NoOutput)
      BY <2>1, <2>2, Zenon DEF handle_call
    <3>. QED  BY <1>8, <2>1, <2>2, <3>1, Zenon
  <2>3. CASE c.kind = "invalid"
    <3>1. handle_call(c) = Ready(Output(c.id, default_version, "invalid_request"))
      BY <2>1, <2>3, Zenon DEF handle_call
    <3>2. Results(c, log) = {"invalid_request"} /\ default_version \in Versions
      BY <1>11, <2>3, Zenon DEF Results, default_version, Versions
    <3>. QED  BY <1>7, <1>9, <2>1, <2>3, <3>1, <3>2, Zenon
  <2>4. CASE c.kind = "method" /\ ~is_version_valid(c.jsonrpc)
    <3>1. handle_call(c) = Ready(Output(c.id, c.jsonrpc, "invalid_version"))
      BY <2>1, <2>4, Zenon DEF handle_call
    <3>2. Results(c, log) = {"invalid_version"}
      BY <1>11, <2>4, Zenon DEF Results
    <3>. QED  BY <1>2, <1>7, <1>9, <2>1, <2>4, <3>1, <3>2, Zenon
  <2>5. CASE c.kind = "method" /\ is_version_valid(c.jsonrpc) /\ Target(c.name, "method") = {}
    <3>1. handle_call(c) = Ready(Output(c.id, c.jsonrpc, "method_not_found"))
      BY <2>1, <2>5, Zenon DEF handle_call
    <3>2. p = NoProcedure
      BY <1>1, <1>2, <2>5, TargetStandsFor, Zenon
    <3>3. Results(c, log) = {"method_not_found"}
      BY <1>11, <2>5, <3>2, Zenon DEF Results
    <3>. QED  BY <1>2, <1>7, <1>9, <2>1, <2>5, <3>1, <3>3, Zenon
  <2>6. CASE c.kind = "method" /\ is_version_valid(c.jsonrpc) /\ Target(c.name, "method") # {}
    <3>1. handle_call(c) = Running(c, CHOOSE n \in Target(c.name, "method") : TRUE)
      BY <2>1, <2>6, Zenon DEF handle_call
    <3>2. /\ p # NoProcedure /\ p.delegate \in Delegates
          /\ methods[CHOOSE n \in Target(c.name, "method") : TRUE] = p
      BY <1>1, <1>2, <2>6, TargetStandsFor, Zenon
    <3>3. handle_call(c) = [state |-> "running", output |-> Output(c.id, c.jsonrpc, p.delegate)]
      BY <3>1, <3>2, Zenon DEF Running
    <3>4. Results(c, log) = {p.delegate, "err"}
      BY <1>11, <2>6, <3>2, Zenon DEF Results
    <3>5. p.delegate \in Values /\ p.delegate # "none"
      BY <3>2, IoHandlerAssumption, Zenon DEF Values
    <3>. HIDE DEF p
    <3>6. PICK o : o = Output(c.id, c.jsonrpc, p.delegate)
      BY Zenon
    <3>7. /\ o \in [id : CallIds \cup {Null}, jsonrpc : Versions, value : Values]
          /\ o.id = c.id /\ o.value = p.delegate
      BY <1>2, <1>4, <3>5, <3>6, Zenon
    <3>8. PICK f : f = handle_call(c)
      BY Zenon
    <3>9. f \in FutureType /\ f.state = "running" /\ f.output = o
      BY <3>3, <3>6, <3>7, <3>8 DEF FutureType
    <3>10. Fits(f, c, log)
      BY <2>1, <2>6, <3>4, <3>5, <3>7, <3>9, Zenon DEF Fits
    <3>. QED  BY <3>8, <3>9, <3>10, Zenon
  <2>. QED  BY <1>2, <2>2, <2>3, <2>4, <2>5, <2>6, Zenon
<1>. QED  BY <1>10, <1>11, Zenon

(* The notifications handle_call executes are those that should be. *)
LEMMA ExecuteNotifies ==
  ASSUME IoInv, NEW calls \in Seq(AnyCall)
  PROVE  Execute(calls) = Notified(calls, log)
<1>1. middleware \in Seq(Middleware) /\ log \in Seq(Extensions) /\ methods = Registry(log)
  BY Zenon DEF IoInv, IoType
<1>2. ASSUME NEW c \in AnyCall PROVE Executes(c) <=> IsExecuted(c, log)
  <2>1. c.kind = "notification" => c.name \in MethodNames
    BY Zenon DEF AnyCall
  <2>2. on_call(c) = {} <=> Answering(c) = {}
    BY <1>1, CallAnswered, Zenon
  <2>3. c.kind = "notification" =>
          (Target(c.name, "notification") # {} <=> StandsFor(c.name, "notification", log) # NoProcedure)
    BY <1>1, <2>1, TargetStandsFor, Zenon
  <2>. QED  BY <2>2, <2>3, Zenon DEF Executes, IsExecuted
<1>3. ASSUME NEW c \in AnyCall, Executes(c)
      PROVE  methods[CHOOSE n \in Target(c.name, "notification") : TRUE]
               = StandsFor(c.name, "notification", log)
  <2>1. c.name \in MethodNames /\ Target(c.name, "notification") # {}
    BY <1>3, Zenon DEF AnyCall, Executes
  <2>. QED  BY <1>1, <2>1, TargetStandsFor, Zenon
<1>. DEFINE at == {i \in DOMAIN calls : Executes(calls[i])}
            run == Subsequence(calls, at)
            pos == Positions(Len(calls), at)
<1>4. \A i \in DOMAIN calls : calls[i] \in AnyCall
  OBVIOUS
<1>5. at = {i \in DOMAIN calls : IsExecuted(calls[i], log)}
  BY <1>2, <1>4, Zenon
<1>6. Execute(calls) = [i \in DOMAIN run |->
                          methods[CHOOSE n \in Target(run[i].name, "notification") : TRUE].delegate]
  BY Zenon DEF Execute
<1>7. Notified(calls, log) = [i \in DOMAIN run |-> StandsFor(run[i].name, "notification", log).delegate]
  <2>. HIDE DEF at
  <2>. QED  BY <1>5, Zenon DEF Notified
<1>8. \A i \in at : calls[i] \in AnyCall /\ Executes(calls[i])
  BY <1>4, Zenon
<1>. HIDE DEF at
<1>9. pos \in Seq(at \cap (1 .. Len(calls))) /\ run = [k \in 1 .. Len(pos) |-> calls[pos[k]]]
  <2>1. Selects(run, calls, pos, at)
    BY SubsequenceAt, Zenon
  <2>. HIDE DEF pos, run
  <2>. QED  BY <2>1, Zenon DEF Selects
<1>. HIDE DEF pos, run
<1>10. ASSUME NEW k \in DOMAIN run PROVE run[k] \in AnyCall /\ Executes(run[k])
  <2>1. k \in 1 .. Len(pos) /\ run[k] = calls[pos[k]]
    BY <1>9, Zenon
  <2>2. pos[k] \in at
    BY <1>9, <2>1
  <2>. QED  BY <1>8, <2>1, <2>2, Zenon
<1>11. \A k \in DOMAIN run : methods[CHOOSE n \in Target(run[k].name, "notification") : TRUE]
                               = StandsFor(run[k].name, "notification", log)
  BY <1>3, <1>10, Zenon
<1>. QED  BY <1>6, <1>7, <1>11, Zenon

-----------------------------------------------------------------------------
(* The invariant holds. *)

(* What Dispatched says of a response, by the form of the request. *)
LEMMA DispatchedForm ==
  ASSUME middleware \in Seq(Middleware), batch \in BOOLEAN
  PROVE  Dispatched <=> /\ response.kind \notin {"unasked", "direct"}
                        /\ on_request(IF batch THEN "batch" ELSE "single") = {}
BY RequestPassed, Zenon DEF Dispatched

LEMMA InitInv == IoInit => IoInv
<1>. SUFFICES ASSUME IoInit PROVE IoInv
  BY Zenon
<1>1. IoType
  <2>1. middleware \in Seq(Middleware)
    BY IoHandlerAssumption, Zenon DEF IoInit
  <2>2. batch \in BOOLEAN
    BY Zenon DEF IoInit
  <2>. QED  BY <2>1, <2>2 DEF IoInit, IoType
<1>2. methods = Registry(log)
  BY RegisteredEmpty, Zenon DEF IoInit, Registry
<1>3. ~Dispatched
  BY Zenon DEF IoInit, Dispatched, Answer
<1>. QED  BY <1>1, <1>2, <1>3, Zenon DEF IoInv

(* What is expected of calls depends on the configuration alone. *)
LEMMA ExpectationsStable ==
  ASSUME UNCHANGED configVars, NEW c, NEW es, NEW f
  PROVE  /\ WantsOutput(c)' <=> WantsOutput(c)
         /\ Fits(f, c, es)' <=> Fits(f, c, es)
         /\ IsExecuted(c, es)' <=> IsExecuted(c, es)
BY Zenon DEF Fits, Results, WantsOutput, IsExecuted, Answering, Said, is_version_valid, configVars

LEMMA NotifiedStable ==
  ASSUME UNCHANGED configVars, NEW calls, NEW es
  PROVE  Notified(calls, es)' = Notified(calls, es)
<1>1. \A c : IsExecuted(c, es)' <=> IsExecuted(c, es)
  BY ExpectationsStable, Zenon
<1>2. {i \in DOMAIN calls : IsExecuted(calls[i], es)'} = {i \in DOMAIN calls : IsExecuted(calls[i], es)}
  BY <1>1, Zenon
<1>. QED  BY <1>2, Zenon DEF Notified

(* A step that leaves request, futures and response alone. *)
LEMMA CorrespondStable ==
  ASSUME IoInv, UNCHANGED <<configVars, request, batch, futures, executed, response, seen>>
  PROVE  Dispatched' => Correspond'
<1>1. Dispatched' <=> Dispatched
  BY Zenon DEF Dispatched, configVars
<1>2. Answered' <=> Answered
  BY Zenon DEF Answered
<1>3. Dispatched => Correspond
  BY Zenon DEF IoInv
<1>4. (\A i \in DOMAIN request : Fits(futures[i], request[i], seen))
        => (\A i \in DOMAIN request : Fits(futures[i], request[i], seen))'
  BY ExpectationsStable, Zenon
<1>5. (executed = Notified(request, seen)) => (executed = Notified(request, seen))'
  BY NotifiedStable, Zenon
<1>. QED  BY <1>1, <1>2, <1>3, <1>4, <1>5, Zenon DEF Correspond

LEMMA StepInv == IoInv /\ [IoNext]_ioVars => IoInv'
<1>. SUFFICES ASSUME IoInv, [IoNext]_ioVars PROVE IoInv'
  BY Zenon
<1>1. IoType /\ methods = Registry(log) /\ (Dispatched => Correspond)
  BY Zenon DEF IoInv
<1>2. ASSUME NEW es \in Registrations, Register(es) PROVE IoInv'
  <2>1. es \in Seq(Extensions) /\ log \in Seq(Extensions)
    BY <1>1, IoHandlerAssumption, Zenon DEF IoType
  <2>2. methods' = Registry(log)'
    <3>1. methods' = augment(Registry(log), es) /\ log' = log \o es
      BY <1>1, <1>2, Zenon DEF Register
    <3>2. augment(Registry(log), es) = Registry(log \o es)
      BY <2>1, AugmentRegisters, Zenon
    <3>. QED  BY <3>1, <3>2, Zenon
  <2>3. IoType'
    BY <1>1, <1>2, <2>1 DEF IoType, Register, configVars
  <2>4. Dispatched' => Correspond'
    BY <1>2, CorrespondStable, Zenon DEF Register
  <2>. QED  BY <2>2, <2>3, <2>4, Zenon DEF IoInv
<1>3. ASSUME NEW form \in {"single", "batch"}, NEW calls \in RequestsOf(form)
      PROVE  calls \in Seq(AnyCall)
  <2>1. CASE form = "single"
    <3>1. PICK c \in AnyCall : calls = <<c>>
      BY <1>3, <2>1, Zenon DEF RequestsOf
    <3>. QED  BY <3>1
  <2>2. CASE form = "batch"
    <3>1. PICK n \in 0 .. MaxBatch[compatibility] : calls \in [1 .. n -> AnyCall]
      BY <1>3, <2>2, Zenon DEF RequestsOf
    <3>. QED  BY <3>1, IoHandlerAssumption
  <2>. QED  BY <2>1, <2>2, Zenon
<1>4. ASSUME NEW form \in {"single", "batch"}, NEW calls \in RequestsOf(form), HandleRequest(calls, form)
      PROVE  IoInv'
  <2>1. calls \in Seq(AnyCall) /\ UNCHANGED configVars /\ UNCHANGED <<methods, log>>
    BY <1>3, <1>4, Zenon DEF HandleRequest
  <2>2. /\ request' = calls /\ batch' \in BOOLEAN /\ response'.kind = "pending" /\ seen' = log
        /\ futures' = [i \in DOMAIN calls |-> handle_call(calls[i])]
        /\ executed' = Execute(calls)
    BY <1>4, Zenon DEF HandleRequest, Answer
  <2>3. \A i \in DOMAIN calls : /\ handle_call(calls[i]) \in FutureType
                                /\ Fits(handle_call(calls[i]), calls[i], log)
    BY <2>1, HandleCallFits
  <2>4. futures' \in Seq(FutureType) /\ Len(futures') = Len(calls) /\ DOMAIN futures' = DOMAIN calls
    BY <2>1, <2>2, <2>3
  <2>5. IoType'
    BY <1>1, <2>1, <2>2, <2>4, Zenon DEF IoType, configVars
  <2>6. methods' = Registry(log)'
    BY <1>1, <2>1, Zenon
  <2>7. (\A i \in DOMAIN request : Fits(futures[i], request[i], seen))'
    <3>1. \A i \in DOMAIN request' : Fits(futures'[i], request'[i], seen')
      BY <2>2, <2>3, Zenon
    <3>. QED  BY <2>1, <3>1, ExpectationsStable, Zenon
  <2>8. (executed = Notified(request, seen))'
    BY <2>1, <2>2, ExecuteNotifies, NotifiedStable, Zenon
  <2>9. ~Answered'
    BY <2>2, Zenon DEF Answered
  <2>10. Correspond'
    BY <2>2, <2>4, <2>7, <2>8, <2>9, Zenon DEF Correspond
  <2>. QED  BY <2>5, <2>6, <2>10, Zenon DEF IoInv
<1>5. ASSUME NEW form \in {"single", "batch"}, NEW calls \in RequestsOf(form), RespondDirectly(calls, form)
      PROVE  IoInv'
  <2>1. calls \in Seq(AnyCall) /\ UNCHANGED configVars /\ UNCHANGED <<methods, log, futures>>
    BY <1>3, <1>5, Zenon DEF RespondDirectly
  <2>2. request' = calls /\ batch' = (form = "batch") /\ seen' = log /\ on_request(form) # {}
    BY <1>5, Zenon DEF RespondDirectly
  <2>3. batch' \in BOOLEAN /\ (IF batch' THEN "batch" ELSE "single") = form
    BY <2>2, Zenon
  <2>4. IoType'
    BY <1>1, <2>1, <2>2, <2>3, Zenon DEF IoType, configVars
  <2>5. ~Dispatched'
    <3>1. \E i \in DOMAIN middleware : form \in middleware[i].requests
      BY <1>1, <2>2, RequestPassed, Zenon DEF IoType
    <3>. QED  BY <2>1, <2>3, <3>1, Zenon DEF Dispatched, configVars
  <2>6. methods' = Registry(log)'
    BY <1>1, <2>1, Zenon
  <2>. QED  BY <2>4, <2>5, <2>6, Zenon DEF IoInv
<1>6. ASSUME Unparsable PROVE IoInv'
  <2>1. IoType' /\ methods' = Registry(log)'
    BY <1>1, <1>6, Zenon DEF Unparsable, IoType, configVars
  <2>2. ~Dispatched'
    BY <1>6, Zenon DEF Unparsable, Dispatched, Answer
  <2>. QED  BY <2>1, <2>2, Zenon DEF IoInv
<1>7. ASSUME NEW i \in DOMAIN futures, CallCompletes(i) PROVE IoInv'
  <2>1. PICK value \in {futures[i].output.value, "err"} :
          futures' = [futures EXCEPT ![i] = Ready([@.output EXCEPT !.value = value])]
    BY <1>7, Zenon DEF CallCompletes
  <2>2. /\ futures[i].state = "running" /\ UNCHANGED configVars
        /\ UNCHANGED <<methods, log, request, batch, executed, response, seen>>
    BY <1>7, Zenon DEF CallCompletes
  <2>3. PICK f \in FutureType : f = futures[i]
    BY <1>1 DEF IoType
  <2>4. PICK o : o = [f.output EXCEPT !.value = value]
    BY Zenon
  <2>5. /\ o \in [id : CallIds \cup {Null}, jsonrpc : Versions, value : Values]
        /\ o.id = f.output.id /\ o.value = value
    BY <2>1, <2>3, <2>4, Zenon DEF FutureType, Values
  <2>6. Ready(o) \in FutureType /\ Ready(o).state = "ready" /\ Ready(o).output = o
    BY <2>5, Zenon DEF Ready, FutureType
  <2>7. futures' = [futures EXCEPT ![i] = Ready(o)]
    BY <2>1, <2>3, <2>4, Zenon
  <2>8. /\ futures' \in Seq(FutureType) /\ Len(futures') = Len(futures)
        /\ DOMAIN futures' = DOMAIN futures
        /\ futures'[i] = Ready(o) /\ \A k \in DOMAIN futures : k # i => futures'[k] = futures[k]
    BY <1>1, <2>6, <2>7, SMTT(30) DEF IoType
  <2>9. IoType'
    BY <1>1, <2>2, <2>8, Zenon DEF IoType, configVars
  <2>10. methods' = Registry(log)'
    BY <1>1, <2>2, Zenon
  <2>11. ASSUME Dispatched' PROVE Correspond'
    <3>1. Dispatched /\ Correspond
      BY <1>1, <2>2, <2>11, Zenon DEF Dispatched, configVars
    <3>2. DOMAIN request = DOMAIN futures
      BY <1>1, <3>1 DEF Correspond, IoType
    <3>3. Fits(Ready(o), request[i], seen)
      <4>1. Fits(f, request[i], seen) /\ f.state = "running"
        BY <2>2, <2>3, <3>1, <3>2, Zenon DEF Correspond
      <4>2. value = f.output.value \/ value = "err"
        BY <2>1, <2>3, Zenon
      <4>. QED  BY <2>5, <2>6, <4>1, <4>2, Zenon DEF Fits
    <3>4. \A k \in DOMAIN request : Fits(futures'[k], request[k], seen)
      BY <2>8, <3>1, <3>2, <3>3, Zenon DEF Correspond
    <3>5. (\A k \in DOMAIN request : Fits(futures[k], request[k], seen))'
      BY <2>2, <3>4, ExpectationsStable, Zenon
    <3>6. executed' = Notified(request, seen)'
      BY <2>2, <3>1, NotifiedStable, Zenon DEF Correspond
    <3>7. ~Answered'
      BY <2>2, <3>1, Zenon DEF Answered, Correspond
    <3>. QED  BY <2>2, <2>8, <3>1, <3>5, <3>6, <3>7, Zenon DEF Correspond
  <2>. QED  BY <2>9, <2>10, <2>11, Zenon DEF IoInv
<1>8. ASSUME FinishRequest PROVE IoInv'
  <2>1. /\ \A i \in DOMAIN futures : futures[i].state = "ready"
        /\ UNCHANGED configVars /\ UNCHANGED <<methods, log, request, batch, futures, executed, seen>>
        /\ response.kind = "pending"
        /\ response' = IF Outputs(futures) = <<>> THEN Answer("none", <<>>)
                       ELSE Answer(IF batch THEN "batch" ELSE "single", Outputs(futures))
    BY <1>8, Zenon DEF FinishRequest
  <2>2. IoType' /\ methods' = Registry(log)'
    BY <1>1, <2>1, Zenon DEF IoType, configVars
  <2>3. /\ response'.outputs = Outputs(futures)
        /\ response'.kind = IF Outputs(futures) = <<>> THEN "none"
                            ELSE IF batch THEN "batch" ELSE "single"
    BY <2>1, Zenon DEF Answer
  <2>4. ASSUME Dispatched' PROVE Correspond'
    <3>1. Dispatched
      BY <2>1, <2>4, Zenon DEF Dispatched, configVars
    <3>2. Correspond
      BY <1>1, <3>1, Zenon
    <3>3. \A k \in DOMAIN request : Fits(futures[k], request[k], seen)'
      BY <2>1, <3>2, ExpectationsStable, Zenon DEF Correspond
    <3>4. executed' = Notified(request, seen)'
      BY <2>1, <3>2, NotifiedStable, Zenon DEF Correspond
    <3>. QED  BY <2>1, <2>3, <3>2, <3>3, <3>4, Zenon DEF Correspond
  <2>. QED  BY <2>2, <2>4, Zenon DEF IoInv
<1>9. ASSUME UNCHANGED ioVars PROVE IoInv'
  <2>1. IoType' /\ methods' = Registry(log)'
    BY <1>1, <1>9, Zenon DEF IoType, ioVars, configVars
  <2>2. Dispatched' => Correspond'
    BY <1>9, CorrespondStable, Zenon DEF ioVars
  <2>. QED  BY <2>1, <2>2, Zenon DEF IoInv
<1>. QED  BY <1>2, <1>4, <1>5, <1>6, <1>7, <1>8, <1>9, Zenon DEF IoNext

LEMMA Invariance == IoSpec => []IoInv
BY InitInv, StepInv, PTL DEF IoSpec

(* The outputs of a dispatched request's futures are one per answerable    *)
(* call, in the order of the calls: both are the same positions of two     *)
(* sequences of the same length.                                           *)
LEMMA OutputsAnswer ==
  ASSUME IoInv, Dispatched
  PROVE  /\ DOMAIN Outputs(futures) = DOMAIN Answerable
         /\ Outputs(futures) = <<>> <=> Answerable = <<>>
         /\ \A i \in DOMAIN Answerable : /\ Outputs(futures)[i].id = Answerable[i].id
                                         /\ Outputs(futures)[i].value \in Results(Answerable[i], seen)
<1>. DEFINE all == [i \in DOMAIN futures |-> futures[i].output]
            at == {i \in DOMAIN request : WantsOutput(request[i])}
<1>1. /\ request \in Seq(AnyCall) /\ futures \in Seq(FutureType) /\ Len(futures) = Len(request)
      /\ \A i \in DOMAIN request : Fits(futures[i], request[i], seen)
  BY Zenon DEF IoInv, IoType, Correspond
<1>2. DOMAIN futures = DOMAIN request
  BY <1>1
<1>3. {i \in DOMAIN futures : futures[i].output # NoOutput} = at
  <2>1. NoOutput.value = "none"
    BY Zenon DEF NoOutput, Output
  <2>. QED  BY <1>1, <1>2, <2>1, Zenon DEF Fits
<1>4. all \in Seq([id : CallIds \cup {Null}, jsonrpc : Versions, value : Values]) /\ Len(all) = Len(request)
  <2>1. \A f \in FutureType : f.output \in [id : CallIds \cup {Null}, jsonrpc : Versions, value : Values]
    BY Zenon DEF FutureType
  <2>2. DOMAIN futures = 1 .. Len(request) /\ Len(request) \in Nat /\ \A i \in DOMAIN futures : futures[i] \in FutureType
    BY <1>1
  <2>. QED  BY <2>1, <2>2
<1>5. Outputs(futures) = Subsequence(all, at) /\ Answerable = Subsequence(request, at)
  BY <1>3, Zenon DEF Outputs, Answerable
<1>. DEFINE pos == Positions(Len(request), at)
<1>6. Selects(Outputs(futures), all, pos, at) /\ Selects(Answerable, request, pos, at)
  BY <1>1, <1>4, <1>5, SubsequenceAt, Zenon
<1>. HIDE DEF all, at, pos
<1>7. /\ pos \in Seq(at \cap (1 .. Len(request)))
      /\ Outputs(futures) = [k \in 1 .. Len(pos) |-> all[pos[k]]]
      /\ Answerable = [k \in 1 .. Len(pos) |-> request[pos[k]]]
  BY <1>4, <1>6, Zenon DEF Selects
<1>8. \A k \in 1 .. Len(pos) : pos[k] \in at /\ pos[k] \in DOMAIN request
  BY <1>1, <1>7
<1>9. \A k \in 1 .. Len(pos) : /\ all[pos[k]].id = request[pos[k]].id
                               /\ all[pos[k]].value \in Results(request[pos[k]], seen)
  BY <1>1, <1>2, <1>8, Zenon DEF Fits, all, at
<1>10. DOMAIN Outputs(futures) = 1 .. Len(pos) /\ DOMAIN Answerable = 1 .. Len(pos)
  BY <1>7, Zenon
<1>11. Len(pos) \in Nat
  BY <1>7
<1>12. Outputs(futures) = <<>> <=> Answerable = <<>>
  <2>1. /\ DOMAIN <<>> = {}
        /\ \A f : f = [k \in {} |-> f[k]] => f = <<>>
    OBVIOUS
  <2>2. /\ Outputs(futures) = [k \in DOMAIN Outputs(futures) |-> Outputs(futures)[k]]
        /\ Answerable = [k \in DOMAIN Answerable |-> Answerable[k]]
    BY <1>7, Zenon
  <2>. QED  BY <1>10, <2>1, <2>2, Zenon
<1>13. \A k \in 1 .. Len(pos) : /\ Outputs(futures)[k] = all[pos[k]]
                                /\ Answerable[k] = request[pos[k]]
  BY <1>7, Zenon
<1>. QED  BY <1>9, <1>10, <1>12, <1>13

(***************************************************************************)
(* A response has one output per call that wants one, in the order of the  *)
(* calls and with their ids, whatever the order in which the futures       *)
(* join_all waits for completed; without such calls there is no response.  *)
(***************************************************************************)
THEOREM ResponsesCorrelate == IoSpec => []Correlated
<1>1. IoInv => Correlated
  <2>. SUFFICES ASSUME IoInv, Dispatched, Answered PROVE Correlated
    BY Zenon DEF Correlated
  <2>1. /\ response.outputs = Outputs(futures)
        /\ response.kind = IF Outputs(futures) = <<>> THEN "none"
                           ELSE IF batch THEN "batch" ELSE "single"
    BY Zenon DEF IoInv, Correspond
  <2>2. [i \in DOMAIN Outputs(futures) |-> Outputs(futures)[i].id]
          = [i \in DOMAIN Answerable |-> Answerable[i].id]
    BY OutputsAnswer, Zenon
  <2>3. Outputs(futures) = <<>> <=> Answerable = <<>>
    BY OutputsAnswer, Zenon
  <2>. QED  BY <2>1, <2>2, <2>3, Zenon DEF Correlated
<1>. QED  BY <1>1, Invariance, PTL

(***************************************************************************)
(* What answers a call, and which notifications are executed, is decided   *)
(* by the registry as it was when the request arrived: the last extension  *)
(* of extend_with and augment to name the call, through one alias at most. *)
(***************************************************************************)
THEOREM DispatchIsAtArrival == IoSpec => []DispatchedAtArrival
<1>1. IoInv => DispatchedAtArrival
  <2>. SUFFICES ASSUME IoInv, Dispatched PROVE DispatchedAtArrival
    BY Zenon DEF DispatchedAtArrival
  <2>1. Answered => response.outputs = Outputs(futures)
    BY Zenon DEF IoInv, Correspond
  <2>2. Answered => \A i \in DOMAIN Answerable : response.outputs[i].value \in Results(Answerable[i], seen)
    BY <2>1, OutputsAnswer, Zenon
  <2>3. executed = Notified(request, seen)
    BY Zenon DEF IoInv, Correspond
  <2>. QED  BY <2>2, <2>3, Zenon DEF DispatchedAtArrival, Notified
<1>. QED  BY <1>1, Invariance, PTL

(***************************************************************************)
(* The registry is always what its history of extensions says, the last    *)
(* one to use a name deciding, also while requests are under way.          *)
(***************************************************************************)
THEOREM RegistryIsItsHistory == IoSpec => [](methods = Registry(log))
<1>1. IoInv => methods = Registry(log)
  BY Zenon DEF IoInv
<1>. QED  BY <1>1, Invariance, PTL
=============================================================================
