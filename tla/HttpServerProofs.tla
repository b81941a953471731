-------------------------- MODULE HttpServerProofs --------------------------
(***************************************************************************)
(* Proofs about the HTTP server, for any number of workers and requests:   *)
(* first its threads, then its requests.                                   *)
(***************************************************************************)
EXTENDS HttpServer, SequenceProofs

(* The threads: start, the workers, close, wait and drop.                  *)

(* The workers of a configuration. *)
LEMMA WorkersType ==
  ASSUME config \in Configurations
  PROVE  /\ Configuration(config) /\ MaxThreads \in Nat
         /\ config.threads \in Nat /\ config.threads >= 1
         /\ 0 \in Workers /\ Workers \subseteq 0 .. MaxThreads - 1
  BY ConfigurationsAssumption DEF Configuration, Workers

(* The initial state. *)
LEMMA InitInv == Init => HttpInv
<1> SUFFICES ASSUME Init PROVE HttpInv
  BY Zenon
<1>1. HttpTypeOK
  BY WorkersType, SMTT(20) DEF Init, HttpTypeOK
<1>2. CloseInv
  BY WorkersType, Zenon DEF Init, CloseInv, Actors
<1>3. RequestInv
  BY Zenon DEF Init, RequestInv, Checked, Idle
<1>4. HonestAnswer /\ ClosingMeansClosed
  BY Zenon DEF Init, HonestAnswer, ClosingMeansClosed, Idle
<1> QED
  BY <1>1, <1>2, <1>3, <1>4, Zenon DEF HttpInv
-----------------------------------------------------------------------------
(* The life of the server. *)

(***************************************************************************)
(* A worker never comes back: what holds of closing servers stays true     *)
(* while requests are left alone.                                          *)
(***************************************************************************)
NoReturn ==
  /\ start \in {"ok", "failed"} => start' = start
  /\ start \in {"ok", "failed"} => \A w \in Workers :
       worker[w] \in {"none", "draining", "done", "ended"} =>
         worker'[w] \in {"none", "draining", "done", "ended"}

(* A step of the server that leaves requests alone. *)
LEMMA SameRequests ==
  ASSUME HttpInv, UNCHANGED <<config, handler>>, NoReturn
  PROVE  RequestInv' /\ HonestAnswer' /\ ClosingMeansClosed'
<1>1. RequestInv' /\ HonestAnswer'
  BY Zenon DEF HttpInv, RequestInv, HonestAnswer, Workers
<1>2. ClosingMeansClosed'
  BY Zenon DEF HttpInv, NoReturn, ClosingMeansClosed, Workers
<1> QED
  BY <1>1, <1>2, Zenon

(* Requests dropped with the runtimes of the workers ws. *)
LEMMA DropRequests ==
  ASSUME HttpInv, UNCHANGED config, NoReturn, NEW ws, ws \subseteq Workers, RuntimeDropped(ws)
  PROVE  /\ RequestInv' /\ HonestAnswer' /\ ClosingMeansClosed'
         /\ handler' = [r \in Requests |-> handler'[r]]
         /\ \A r \in Requests : DOMAIN handler'[r] = DOMAIN Idle
<1> DEFINE own == {w \in ws : Spawned(w) /\ worker[w] \notin {"none", "done"}}
<1>1. \A r \in Requests : \/ handler'[r] = handler[r]
                          \/ /\ handler'[r] = [handler[r] EXCEPT !.at = "aborted"]
                             /\ handler[r].worker \in own /\ handler[r].at \notin Final
  BY Zenon DEF RuntimeDropped, Abandoned, InFlight
<1>2. /\ handler' = [r \in Requests |-> handler'[r]]
      /\ \A r \in Requests : DOMAIN handler'[r] = DOMAIN Idle
  BY <1>1, Zenon DEF RuntimeDropped, Abandoned, HttpInv, HttpTypeOK
<1>4. \A r \in Requests : handler[r].at \notin Final =>
        LET h == [handler[r] EXCEPT !.at = "aborted"]
        IN  /\ h.at = "aborted" /\ h.kind = handler[r].kind /\ h.worker = handler[r].worker
            /\ Checked(config, h)
            /\ Permitted(config, handler[r]) => Permitted(config, h)
            /\ h.called = handler[r].called
  <2> SUFFICES ASSUME NEW r \in Requests, handler[r].at \notin Final
               PROVE  LET h == [handler[r] EXCEPT !.at = "aborted"]
                      IN  /\ h.at = "aborted" /\ h.kind = handler[r].kind /\ h.worker = handler[r].worker
                          /\ Checked(config, h)
                          /\ Permitted(config, handler[r]) => Permitted(config, h)
                          /\ h.called = handler[r].called
    BY Zenon
  <2> DEFINE h == [handler[r] EXCEPT !.at = "aborted"]
  <2>1. /\ h.at = "aborted" /\ h.kind = handler[r].kind /\ h.worker = handler[r].worker
        /\ h.called = handler[r].called /\ h.size = handler[r].size /\ h.chunk = handler[r].chunk
    BY Zenon DEF HttpInv, HttpTypeOK, Idle
  <2> HIDE DEF h
  <2>2. Checked(config, h)
    BY <2>1, Zenon DEF Checked
  <2>3. Permitted(config, handler[r]) => Permitted(config, h)
    BY <2>1, Zenon DEF Permitted
  <2> QED
    BY <2>1, <2>2, <2>3, Zenon DEF h
<1> HIDE DEF own
<1>5. RequestInv'
  BY <1>1, <1>4, Zenon DEF HttpInv, RequestInv, Workers, Final
<1>6. HonestAnswer'
  BY <1>1, <1>4, Zenon DEF HttpInv, HonestAnswer
<1>7. ClosingMeansClosed'
  BY <1>1, <1>4, ZenonT(60) DEF HttpInv, NoReturn, ClosingMeansClosed, Workers
<1> QED
  BY <1>2, <1>5, <1>6, <1>7, Zenon

(* An executor that is closed or dropped takes its workers with it. *)
LEMMA RuntimeGone ==
  ASSUME HttpInv, NEW ws, ws \subseteq Workers, RuntimeDropped(ws)
  PROVE  /\ worker' \in [0 .. MaxThreads - 1 -> {"none", "binding", "serving", "draining", "done", "ended"}]
         /\ \A w \in Workers : worker'[w] = worker[w] \/ worker'[w] = "ended"
         /\ \A w \in ws : Spawned(w) => worker'[w] \in {"none", "done", "ended"}
         /\ \A w \in Workers : worker'[w] = "none" => worker[w] = "none"
  BY WorkersType, Zenon DEF HttpInv, HttpTypeOK, RuntimeDropped

(* Workers move on while nobody starts or goes on closing. *)
LEMMA SameClosing ==
  ASSUME HttpTypeOK, CloseInv, UNCHANGED <<config, executors, closing, actor, done>>,
         start' = "ok" <=> start = "ok",
         \A w \in Workers : Over(w) => Over(w)',
         \A w \in Workers : start' = "ok" \/ w \in reported' => worker'[w] \notin {"none", "binding"}
  PROVE  CloseInv'
<1>1. Workers' = Workers /\ 0 \in Workers /\ \A w : Spawned(w)' <=> Spawned(w)
  BY WorkersType, Zenon DEF Workers, Spawned, HttpTypeOK
<1>2. (~done /\ actor["owner"] \notin {"waiting", "joining"} /\ config.threads = 1 => Over(0))'
  BY <1>1, Zenon DEF CloseInv
<1>3. (start = "ok" /\ ~executors =>
         \A w \in Workers : Spawned(w) =>
           Over(w) \/ \E a \in Actors : \E i \in 1 .. Len(closing[a]) : closing[a][i] = w)'
  BY <1>1 DEF CloseInv
<1> QED
  BY <1>1, <1>2, <1>3, Zenon DEF CloseInv

(* start_http fails at any point. *)
LEMMA StartFailsInv ==
  ASSUME HttpInv, StartFails, start \in {"spawning", "waiting"} PROVE HttpInv'
<1>1. RuntimeDropped(Workers) /\ UNCHANGED config
  BY Zenon DEF StartFails
<1>2. NoReturn
  BY <1>1, RuntimeGone, Zenon DEF StartFails, NoReturn
<1>3. HttpTypeOK'
  BY <1>1, <1>2, RuntimeGone, DropRequests, Zenon DEF StartFails, HttpInv, HttpTypeOK, Workers, Actors
<1>4. CloseInv'
  BY <1>1, RuntimeGone, SameClosing, Zenon DEF StartFails, HttpInv, CloseInv, Over
<1> QED
  BY <1>1, <1>2, <1>3, <1>4, DropRequests, Zenon DEF HttpInv

(* start_http spawns its workers one by one. *)
LEMMA SpawnWorkerInv ==
  ASSUME HttpInv, NEW w \in Workers, SpawnWorker(w) PROVE HttpInv'
<1>1. CASE StartFails
  BY <1>1, StartFailsInv, Zenon DEF SpawnWorker
<1>2. CASE ~StartFails
  <2>1. NoReturn /\ UNCHANGED <<config, handler>>
    BY <1>2, WorkersType, Zenon DEF SpawnWorker, NoReturn, HttpInv, HttpTypeOK
  <2>2. HttpTypeOK'
    BY <1>2, WorkersType, Zenon DEF SpawnWorker, HttpInv, HttpTypeOK, Workers
  <2>3. CloseInv'
    BY <1>2, WorkersType, SMTT(30) DEF SpawnWorker, HttpInv, HttpTypeOK, CloseInv, Workers, Over, Spawned
  <2> QED
    BY <2>1, <2>2, <2>3, SameRequests, Zenon DEF HttpInv
<1> QED
  BY <1>1, <1>2, Zenon

(* A worker binds, stops accepting, or is done. *)
LEMMA WorkerInv ==
  ASSUME HttpInv, NEW w \in Workers,
         (\E ok \in BOOLEAN : Bind(w, ok)) \/ Shutdown(w) \/ Done(w)
  PROVE  HttpInv'
<1>1. NoReturn /\ UNCHANGED <<config, handler>>
  BY WorkersType, Zenon DEF Bind, Shutdown, Done, NoReturn, HttpInv, HttpTypeOK
<1>2. HttpTypeOK'
  BY WorkersType DEF Bind, Shutdown, Done, HttpInv, HttpTypeOK, Workers
<1>3. /\ UNCHANGED <<start, executors, closing, actor, done, config>>
      /\ reported' \subseteq reported \cup {w}
      /\ worker'[w] \notin {"none", "binding"}
      /\ \A v \in Workers : v # w => worker'[v] = worker[v]
      /\ ~Over(w)
  BY WorkersType, Zenon DEF Bind, Shutdown, Done, HttpInv, HttpTypeOK, Over
<1>4. CloseInv'
  BY <1>3, SameClosing, Zenon DEF HttpInv, CloseInv, Over
<1> QED
  BY <1>1, <1>2, <1>4, SameRequests, Zenon DEF HttpInv

(* start_http returns: the executors are there to be closed. *)
LEMMA StartReturnsInv == ASSUME HttpInv, StartReturns PROVE HttpInv'
<1>1. CASE StartFails
  BY <1>1, StartFailsInv, Zenon DEF StartReturns
<1>2. CASE ~StartFails
  <2>1. NoReturn /\ UNCHANGED <<config, handler>>
    BY <1>2, Zenon DEF StartReturns, NoReturn
  <2>2. HttpTypeOK'
    BY <1>2, Zenon DEF StartReturns, HttpInv, HttpTypeOK, Workers
  <2>3. CloseInv'
    BY <1>2, WorkersType DEF StartReturns, HttpInv, HttpTypeOK, CloseInv, Workers, Over, Spawned
  <2> QED
    BY <2>1, <2>2, <2>3, SameRequests, Zenon DEF HttpInv
<1> QED
  BY <1>1, <1>2, Zenon
(* The owner waits; a close of its own comes later. *)
LEMMA WaitInv == ASSUME HttpInv, Wait PROVE HttpInv'
<1>1. NoReturn /\ UNCHANGED <<config, handler>>
  BY Zenon DEF Wait, NoReturn
<1>2. HttpTypeOK'
  BY Zenon DEF Wait, HttpInv, HttpTypeOK, Workers
<1>3. CloseInv'
  BY DEF Wait, HttpInv, HttpTypeOK, CloseInv, Workers, Over, Spawned, Actors
<1> QED
  BY <1>1, <1>2, <1>3, SameRequests, Zenon DEF HttpInv

(* The handles of all workers are in the order of closing. *)
LEMMA HandleOrderType ==
  ASSUME config \in Configurations
  PROVE  /\ HandleOrder \in Seq(Workers)
         /\ \A w \in Workers : \E i \in 1 .. Len(HandleOrder) : HandleOrder[i] = w
<1>1. config.threads \in Nat /\ config.threads >= 1
  BY WorkersType, Zenon
<1>2. HandleOrder \in [1 .. config.threads -> Workers]
  BY <1>1 DEF HandleOrder, Workers
<1>3. HandleOrder \in Seq(Workers) /\ Len(HandleOrder) = config.threads
  BY <1>1, <1>2
<1>4. ASSUME NEW w \in Workers PROVE \E i \in 1 .. config.threads : HandleOrder[i] = w
  <2>1. CASE w = 0
    BY <2>1, <1>1 DEF HandleOrder
  <2>2. CASE w # 0
    BY <2>2, <1>1 DEF HandleOrder, Workers
  <2> QED
    BY <2>1, <2>2, Zenon
<1> QED
  BY <1>3, <1>4, Zenon

(* The first to close takes all executors, a second one finds them closed. *)
LEMMA CloseStepInv == ASSUME HttpInv, NEW a \in Actors, Close(a) PROVE HttpInv'
<1>1. NoReturn /\ UNCHANGED <<config, handler>>
  BY Zenon DEF Close, NoReturn
<1>2. HttpTypeOK'
  <2>1. closing' \in [Actors -> Seq(Workers)]
    BY HandleOrderType, Zenon DEF Close, HttpInv, HttpTypeOK
  <2> QED
    BY <2>1, Zenon DEF Close, HttpInv, HttpTypeOK, Workers
<1>3. CloseInv'
  <2>1. Workers' = Workers /\ (\A w : Spawned(w)' <=> Spawned(w)) /\ \A w : Over(w)' <=> Over(w)
    BY Zenon DEF Close, Workers, Spawned, Over
  <2>2. /\ closing'[a] = IF executors THEN HandleOrder ELSE <<>>
        /\ \A b \in Actors : b # a => closing'[b] = <<>>
        /\ actor'[a] = "closing"
        /\ \A b \in Actors : b # a => actor'[b] = actor[b]
        /\ ~executors' /\ start = "ok"
        /\ UNCHANGED <<start, done, worker, reported, config>>
        /\ actor[a] \in {"idle", "dropping"}
    BY Zenon DEF Close, HttpInv, HttpTypeOK
  <2>3. \A w \in Workers : Spawned(w) =>
          Over(w) \/ \E b \in Actors : \E i \in 1 .. Len(closing'[b]) : closing'[b][i] = w
    <3>1. CASE executors
      <4>1. closing'[a] = HandleOrder
        BY <3>1, <2>2, Zenon
      <4>2. \A w \in Workers : \E i \in 1 .. Len(HandleOrder) : HandleOrder[i] = w
        BY HandleOrderType, Zenon DEF HttpInv, HttpTypeOK
      <4>3. \A w \in Workers : \E i \in 1 .. Len(closing'[a]) : closing'[a][i] = w
        BY <4>1, <4>2, Zenon
      <4> QED
        BY <4>3, Zenon
    <3>2. CASE ~executors
      <4>1. \A b \in Actors : 1 .. Len(closing[b]) = {}
        BY DEF Close
      <4> QED
        BY <3>2, <2>2, <4>1, Zenon DEF HttpInv, CloseInv
    <3> QED
      BY <3>1, <3>2, Zenon
  <2>4. (actor["owner"] \in {"closing", "joining", "gone"} => ~executors /\ closing["handle"] = <<>>)'
    BY <2>2, Zenon DEF Actors, HttpInv, CloseInv
  <2>5. /\ (actor["owner"] # "closing" => closing["owner"] = <<>>)'
        /\ (actor["owner"] \in {"joining", "gone"} => ~done)'
    BY <2>2, Zenon DEF Actors, HttpInv, CloseInv
  <2>6. (~done /\ actor["owner"] \notin {"waiting", "joining"} /\ config.threads = 1 => Over(0))'
    BY <2>1, <2>2, Zenon DEF Actors, HttpInv, CloseInv
  <2> QED
    BY <2>1, <2>2, <2>3, <2>4, <2>5, <2>6, Zenon DEF HttpInv, CloseInv
<1> QED
  BY <1>1, <1>2, <1>3, SameRequests, Zenon DEF HttpInv

(* A signal is sent. *)
LEMMA SendSignalInv == ASSUME HttpInv, NEW a \in Actors, SendSignal(a) PROVE HttpInv'
<1>1. NoReturn /\ UNCHANGED <<config, handler>>
  BY Zenon DEF SendSignal, NoReturn
<1>2. HttpTypeOK'
  BY Zenon DEF SendSignal, HttpInv, HttpTypeOK, Workers
<1>3. CloseInv'
  BY DEF SendSignal, HttpInv, CloseInv, Workers, Over, Spawned
<1> QED
  BY <1>1, <1>2, <1>3, SameRequests, Zenon DEF HttpInv
(* One executor fewer is left to close, and its worker is over. *)
LEMMA CloseExecutorInv == ASSUME HttpInv, NEW a \in Actors, CloseExecutor(a) PROVE HttpInv'
<1>0. PICK w0 : w0 = Head(closing[a])
  BY Zenon
<1>1. closing[a] \in Seq(Workers) /\ closing[a] # <<>> /\ w0 \in Workers /\ start = "ok" /\ ~executors
  BY <1>0 DEF CloseExecutor, HttpInv, HttpTypeOK, CloseInv
<1>2. RuntimeDropped({w0}) /\ UNCHANGED config /\ {w0} \subseteq Workers
  BY <1>0, <1>1, Zenon DEF CloseExecutor
<1>3. NoReturn
  BY <1>2, RuntimeGone, Zenon DEF CloseExecutor, NoReturn
<1>4. closing' = [closing EXCEPT ![a] = Tail(closing[a])] /\ Tail(closing[a]) \in Seq(Workers)
  BY <1>1 DEF CloseExecutor
<1>5. HttpTypeOK'
  BY <1>2, <1>3, <1>4, RuntimeGone, DropRequests, SMTT(30) DEF CloseExecutor, HttpInv, HttpTypeOK, Workers
<1>6. CloseInv'
  <2>1. Workers' = Workers /\ \A w : Spawned(w)' <=> Spawned(w)
    BY Zenon DEF CloseExecutor, Workers, Spawned
  <2>2. /\ \A w \in Workers : worker'[w] \notin {"none", "binding"}
        /\ \A w \in Workers : Over(w) => Over(w)'
        /\ Spawned(w0) => Over(w0)'
    BY <1>1, <1>2, RuntimeGone, Zenon DEF HttpInv, CloseInv, Over
  <2>3. \A w \in Workers : Spawned(w) =>
          Over(w)' \/ \E b \in Actors : \E i \in 1 .. Len(closing'[b]) : closing'[b][i] = w
    <3> SUFFICES ASSUME NEW w \in Workers, Spawned(w), ~Over(w)'
                 PROVE  \E b \in Actors : \E i \in 1 .. Len(closing'[b]) : closing'[b][i] = w
      BY Zenon
    <3>0. PICK b \in Actors : \E i \in 1 .. Len(closing[b]) : closing[b][i] = w
      BY <1>1, <2>2, Zenon DEF HttpInv, CloseInv
    <3>1. PICK i \in 1 .. Len(closing[b]) : closing[b][i] = w
      BY <3>0, Zenon
    <3>2. CASE b # a
      BY <3>1, <3>2, <1>4, Zenon DEF HttpInv, HttpTypeOK
    <3>3. CASE b = a
      <4>1. w # w0
        BY <2>2, Zenon
      <4>2. i # 1 /\ i - 1 \in 1 .. Len(Tail(closing[a])) /\ Tail(closing[a])[i - 1] = w
        <5>1. PICK q \in Seq(Workers) : q = closing[a] /\ q # <<>>
          BY <1>1, Zenon
        <5>2. i \in 1 .. Len(q) /\ q[i] = w /\ Head(q) = w0
          BY <1>0, <3>1, <3>3, <5>1, Zenon
        <5>3. Head(q) = q[1] /\ \A l \in 1 .. Len(q) : l # 1 =>
                l - 1 \in 1 .. Len(Tail(q)) /\ Tail(q)[l - 1] = q[l]
          BY <5>1, SMTT(30)
        <5> QED
          BY <4>1, <5>1, <5>2, <5>3, Zenon
      <4> QED
        BY <4>2, <1>4, Zenon DEF HttpInv, HttpTypeOK
    <3> QED
      BY <3>2, <3>3, Zenon
  <2>4. \A b \in Actors : closing[b] = <<>> => closing'[b] = <<>>
    BY <1>1, <1>4, Zenon DEF HttpInv, HttpTypeOK
  <2>5. 0 \in Workers /\ UNCHANGED <<start, executors, actor, done, config>>
    BY WorkersType, Zenon DEF CloseExecutor, HttpInv, HttpTypeOK
  <2>6. (~done /\ actor["owner"] \notin {"waiting", "joining"} /\ config.threads = 1 => Over(0))'
    BY <2>2, <2>5, Zenon DEF HttpInv, CloseInv
  <2>7. /\ (actor["owner"] \in {"closing", "joining", "gone"} => ~executors /\ closing["handle"] = <<>>)'
        /\ (actor["owner"] # "closing" => closing["owner"] = <<>>)'
        /\ (actor["owner"] \in {"joining", "gone"} => ~done)'
    BY <2>4, <2>5, Zenon DEF Actors, HttpInv, CloseInv
  <2> QED
    BY <1>1, <2>1, <2>2, <2>3, <2>5, <2>6, <2>7, Zenon DEF CloseInv
<1> QED
  BY <1>2, <1>3, <1>5, <1>6, DropRequests, Zenon DEF HttpInv

(* A close is over. *)
LEMMA CloseReturnsInv == ASSUME HttpInv, NEW a \in Actors, CloseReturns(a) PROVE HttpInv'
<1>1. NoReturn /\ UNCHANGED <<config, handler>>
  BY Zenon DEF CloseReturns, NoReturn
<1>2. HttpTypeOK'
  BY Zenon DEF CloseReturns, HttpInv, HttpTypeOK, Workers
<1>3. CloseInv'
  BY DEF CloseReturns, HttpInv, HttpTypeOK, CloseInv, Workers, Over, Spawned, Actors
<1> QED
  BY <1>1, <1>2, <1>3, SameRequests, Zenon DEF HttpInv

(* The wait for the workers is over. *)
LEMMA JoinReturnsInv == ASSUME HttpInv, JoinReturns PROVE HttpInv'
<1>1. NoReturn /\ UNCHANGED <<config, handler>>
  BY Zenon DEF JoinReturns, NoReturn
<1>2. HttpTypeOK'
  BY Zenon DEF JoinReturns, HttpInv, HttpTypeOK, Workers, Actors
<1>3. config.threads = 1 => Over(0)
  BY WorkersType, SMTT(30) DEF JoinReturns, Joined, Workers, Over, HttpInv, HttpTypeOK
<1>4. CloseInv'
  BY <1>3 DEF JoinReturns, HttpInv, HttpTypeOK, CloseInv, Workers, Over, Spawned, Actors
<1> QED
  BY <1>1, <1>2, <1>4, SameRequests, Zenon DEF HttpInv

-----------------------------------------------------------------------------
(* Requests.                                                               *)

(***************************************************************************)
(* What Totals computes: process_body's running sum.                       *)
(***************************************************************************)
LEMMA TotalsAdd ==
  ASSUME NEW body \in Seq(Nat)
  PROVE  /\ Totals(body)[0] = 0
         /\ \A i \in 0 .. Len(body) : Totals(body)[i] \in Nat
         /\ \A i \in 0 .. Len(body) - 1 : Totals(body)[i + 1] = Totals(body)[i] + body[i + 1]
<1> DEFINE n == Len(body)
           step == [i \in 1 .. n |-> [v \in Nat |-> v + body[i]]]
           Sum(g) == [i \in 0 .. n |-> IF i = 0 THEN 0 ELSE g[i - 1] + body[i]]
           total == CHOOSE g : g = Sum(g)
<1>1. n \in Nat /\ step \in [1 .. n -> [Nat -> Nat]]
  <2>1. \A i \in 1 .. n : body[i] \in Nat
    OBVIOUS
  <2> QED
    BY <2>1
<1>2. \A i \in 1 .. n, v \in Nat : step[i][v] = v + body[i]
  OBVIOUS
<1>3. Totals(body) = total
  BY Zenon DEF Totals
<1>4. \A i \in 1 .. n : body[i] \in Nat
  OBVIOUS
<1> HIDE DEF step, n
<1>5. PICK f \in [0 .. n -> Nat] : Follows(f, 0, step, n)
  BY <1>1, Recursion, Zenon
<1>6. \A i \in 1 .. n : f[i] = f[i - 1] + body[i]
  <2>1. \A i \in 1 .. n : i - 1 \in 0 .. n
    BY <1>1
  <2> QED
    BY <1>2, <1>5, <2>1, Zenon DEF Follows
<1>7. f = Sum(f)
  <2>1. \A i \in 0 .. n : i = 0 \/ i \in 1 .. n
    BY <1>1
  <2>2. \A i \in 0 .. n : f[i] = Sum(f)[i]
    BY <1>5, <1>6, <2>1 DEF Follows
  <2>3. Sum(f) = [i \in 0 .. n |-> Sum(f)[i]]
    OBVIOUS
  <2> QED
    BY <2>2, <2>3
<1>8. total = Sum(total)
  <2> HIDE DEF Sum
  <2> QED
    BY <1>7, Zenon
<1> HIDE DEF total
<1>9. total[0] = 0
  BY <1>1, <1>8
<1>10. ASSUME NEW i \in 0 .. n - 1
       PROVE  total[i + 1] = total[i] + body[i + 1] /\ i \in 0 .. n /\ i + 1 \in 1 .. n
  <2>1. i \in 0 .. n /\ i + 1 \in 1 .. n /\ i + 1 \in 0 .. n /\ i + 1 # 0 /\ (i + 1) - 1 = i
    BY <1>1
  <2> QED
    BY <1>8, <2>1
<1>11. \A i \in 0 .. n : total[i] \in Nat
  <2> DEFINE Typed == {i \in 0 .. n : total[i] \in Nat}
  <2>1. 0 \in Typed
    BY <1>1, <1>9
  <2>2. ASSUME NEW i \in 0 .. n - 1, i \in Typed PROVE i + 1 \in Typed
    <3>1. total[i + 1] = total[i] + body[i + 1] /\ total[i] \in Nat /\ body[i + 1] \in Nat
      BY <1>4, <1>10, <2>2, Zenon
    <3>2. i + 1 \in 0 .. n
      BY <1>1
    <3> QED
      BY <3>1, <3>2
  <2> HIDE DEF Typed
  <2>3. \A i \in 0 .. n : i \in Typed
    BY <1>1, <2>1, <2>2, InductionUpTo, Zenon
  <2> QED
    BY <2>3 DEF Typed
<1> QED
  BY <1>3, <1>9, <1>10, <1>11, SMTT(30) DEF n

(* The checks of a request, from their table. *)
LEMMA ChecksAre ==
  ASSUME NEW c \in Configurations, NEW r \in Requests, NEW k \in Kinds(c, r)
  PROVE  /\ Checks[c][k].host <=> is_host_valid(k.host, update(c.allowed_hosts, c.address))
         /\ Checks[c][k].origin = get_cors_allow_origin(k.origin, k.host, c.cors_domains)
<1> DEFINE All(d) == UNION {Kinds(d, q) : q \in Requests}
           Check(d, l) == [host |-> is_host_allowed(d, l), origin |-> cors_allow_origin(d, l),
                           headers |-> cors_allow_headers(d, l)]
<1>1. k \in All(c)
  BY Zenon
<1>2. Checks = [d \in Configurations |-> [l \in All(d) |-> Check(d, l)]]
  BY Zenon DEF Checks
<1> HIDE DEF All, Check
<1>3. Checks[c][k] = Check(c, k)
  BY <1>1, <1>2, Zenon
<1>4. Check(c, k).host = is_host_allowed(c, k) /\ Check(c, k).origin = cors_allow_origin(c, k)
  BY Zenon DEF Check
<1> QED
  BY <1>3, <1>4, Zenon DEF is_host_allowed, cors_allow_origin

(* The origin's check, as the properties speak of it. *)
LEMMA OriginChecked ==
  ASSUME NEW c \in Configurations, NEW r \in Requests, NEW k \in Kinds(c, r),
         NEW cors, cors = Checks[c][k].origin
  PROVE  /\ cors # Invalid => OriginPermitted(c, k)
         /\ cors.value # None => cors.value \in {k.origin, parse_origin(k.origin)}
         /\ cors.value # None => OriginPermitted(c, k)
         /\ cors.cors = "Ok" => cors.value # None
         /\ OriginPermitted(c, k) /\ k.origin # None /\ ~(k.host # None /\ host_of(k.origin) = k.host)
              => cors.value # None
<1>1. cors = get_cors_allow_origin(k.origin, k.host, c.cors_domains)
  BY ChecksAre, Zenon
<1>2. NullOrigin # None /\ (k.origin # None => parse_origin(k.origin) # None)
  BY RequestsAssumption, Zenon
<1>3. CASE k.origin = None
  BY <1>1, <1>3 DEF get_cors_allow_origin, NotRequired, OriginPermitted
<1>4. CASE k.origin # None /\ SameOrigin(k.origin, k.host)
  <2>1. k.host # None /\ host_of(k.origin) = k.host
    BY <1>4, Zenon DEF SameOrigin
  <2> QED
    BY <1>1, <1>4, <2>1 DEF get_cors_allow_origin, NotRequired, OriginPermitted
<1>5. CASE k.origin # None /\ ~SameOrigin(k.origin, k.host)
  <2> DEFINE answer == IF k.origin = NullOrigin THEN NullOrigin ELSE parse_origin(k.origin)
             listed == IF k.origin = NullOrigin THEN NullOrigin \in c.cors_domains
                       ELSE \E a \in c.cors_domains :
                              a = AnyOrigin \/ (a # NullOrigin /\ matches(a, k.origin))
  <2>1. cors = IF c.cors_domains = None \/ listed THEN Ok(answer) ELSE Invalid
    BY <1>1, <1>5, Zenon DEF get_cors_allow_origin
  <2>2. AnyOrigin # NullOrigin
    BY Zenon DEF AnyOrigin, NullOrigin
  <2>3. c.cors_domains = None \/ listed => OriginPermitted(c, k)
    BY <2>2, Zenon DEF OriginPermitted
  <2>4. OriginPermitted(c, k) /\ ~(k.host # None /\ host_of(k.origin) = k.host)
          => c.cors_domains = None \/ listed
    BY <1>5, Zenon DEF OriginPermitted
  <2>5. answer # None /\ answer \in {k.origin, parse_origin(k.origin)}
    BY <1>2, <1>5, Zenon
  <2> HIDE DEF answer, listed
  <2> QED
    BY <2>1, <2>3, <2>4, <2>5 DEF Ok, Invalid
<1> QED
  BY <1>3, <1>4, <1>5, Zenon

(* A step of one request's future. *)
LEMMA BecomeInv ==
  ASSUME HttpInv, NEW r \in Requests, NEW h, Become(r, h), DOMAIN h = DOMAIN Idle,
         h.at \notin {"idle", "aborted"}, h.kind \in Kinds(config, r), h.worker \in Workers,
         Checked(config, h),
         h.called # "no" => Permitted(config, h),
         h.at = "answered" => Honest(config, h),
         h.at = "answered" /\ h.response.name = "closing" => ~upgrade
  PROVE  HttpInv'
<1>1. /\ UNCHANGED lifecycle
      /\ handler' = [handler EXCEPT ![r] = h]
      /\ handler'[r] = h
      /\ \A q \in Requests : q # r => handler'[q] = handler[q]
  BY Zenon DEF Become, HttpInv, HttpTypeOK
<1>2. HttpTypeOK'
  BY <1>1, Zenon DEF lifecycle, HttpInv, HttpTypeOK, Workers
<1>3. CloseInv'
  BY <1>1 DEF lifecycle, HttpInv, CloseInv, Workers, Over, Spawned
<1>4. RequestInv'
  BY <1>1, Zenon DEF lifecycle, HttpInv, RequestInv, Workers
<1>5. HonestAnswer'
  BY <1>1, Zenon DEF lifecycle, HttpInv, HonestAnswer
<1>6. ClosingMeansClosed'
  <2>1. ~upgrade => /\ start \in {"ok", "failed"}
                    /\ \A w \in Workers : worker[w] \in {"none", "draining", "done", "ended"}
    BY WorkersType, Zenon DEF upgrade, HttpInv, HttpTypeOK
  <2> QED
    BY <1>1, <2>1, Zenon DEF lifecycle, HttpInv, ClosingMeansClosed, Workers
<1> QED
  BY <1>2, <1>3, <1>4, <1>5, <1>6, Zenon DEF HttpInv
(* What Writing does to the state of a request. *)
LEMMA Written ==
  ASSUME NEW h, DOMAIN h = DOMAIN Idle, NEW name, NEW g, g = Writing(h, name)
  PROVE  /\ DOMAIN g = DOMAIN Idle /\ g.at = "answered"
         /\ g.kind = h.kind /\ g.worker = h.worker /\ g.called = h.called
         /\ g.size = h.size /\ g.chunk = h.chunk
         /\ g.response.name = name /\ g.response.code = Status[name]
         /\ g.response.allow_origin = h.cors_allow_origin.value
         /\ g.response.allow_headers # None => h.cors_allow_origin.cors = "Ok"
<1> DEFINE res == set_response_headers(name, h)
<1>1. /\ res.name = name /\ res.code = Status[name]
      /\ res.allow_origin = h.cors_allow_origin.value
      /\ res.allow_headers # None => h.cors_allow_origin.cors = "Ok"
  BY Zenon DEF set_response_headers, Plain
<1> HIDE DEF res
<1>2. g = [h EXCEPT !.at = "answered", !.response = res]
  BY Zenon DEF Writing, res
<1>3. {"at", "kind", "worker", "called", "size", "chunk", "response"} \subseteq DOMAIN h
  BY Zenon DEF Idle
<1> QED
  BY <1>1, <1>2, <1>3, Zenon

(* The RPC handler answers. *)
LEMMA WritingInv ==
  ASSUME HttpInv, NEW r \in Requests, NEW h, NEW name, Become(r, Writing(h, name)),
         DOMAIN h = DOMAIN Idle, h.kind \in Kinds(config, r), h.worker \in Workers,
         h.cors_allow_origin = Checks[config][h.kind].origin,
         h.called # "no" => Permitted(config, h),
         Status[name] \in {400, 403, 405, 413, 415} \/ name = "closing" => h.called = "no",
         name = "ok" => h.called # "no" \/ h.kind.method = "OPTIONS",
         name = "closing" => ~upgrade
  PROVE  HttpInv'
<1>1. PICK g : g = Writing(h, name)
  BY Zenon
<1>2. /\ DOMAIN g = DOMAIN Idle /\ g.at = "answered"
      /\ g.kind = h.kind /\ g.worker = h.worker /\ g.called = h.called
      /\ g.size = h.size /\ g.chunk = h.chunk
      /\ g.response.name = name /\ g.response.code = Status[name]
      /\ g.response.allow_origin = h.cors_allow_origin.value
      /\ g.response.allow_headers # None => h.cors_allow_origin.cors = "Ok"
  BY <1>1, Written
<1>3. Checked(config, g)
  BY <1>2, Zenon DEF Checked
<1>4. g.called # "no" => Permitted(config, g)
  BY <1>2, SMTT(20) DEF Permitted
<1>5. Honest(config, g)
  <2>1. config \in Configurations
    BY Zenon DEF HttpInv, HttpTypeOK
  <2> DEFINE k == h.kind
             cors == h.cors_allow_origin
  <2>2. /\ cors.value # None => cors.value \in {k.origin, parse_origin(k.origin)}
        /\ cors.value # None => OriginPermitted(config, k)
        /\ cors.cors = "Ok" => cors.value # None
        /\ OriginPermitted(config, k) /\ k.origin # None /\ ~(k.host # None /\ host_of(k.origin) = k.host)
             => cors.value # None
    BY <2>1, OriginChecked, Zenon
  <2>3. /\ g.kind = k /\ g.response.allow_origin = cors.value
        /\ g.response.allow_headers # None => cors.cors = "Ok"
    BY <1>2, Zenon
  <2>4. /\ g.response.code \in {400, 403, 405, 413, 415} \/ g.response.name = "closing" => g.called = "no"
        /\ g.response.name = "ok" => g.called # "no" \/ g.kind.method = "OPTIONS"
    BY <1>2
  <2> HIDE DEF k, cors
  <2> QED
    BY <2>2, <2>3, <2>4, ZenonT(60) DEF Honest
<1>6. Become(r, g)
  BY <1>1, Zenon
<1> QED
  BY <1>2, <1>3, <1>4, <1>5, <1>6, BecomeInv, Zenon
(* A request that goes on to another state. *)
LEMMA Moved ==
  ASSUME NEW h, DOMAIN h = DOMAIN Idle, NEW at, NEW g, g = [h EXCEPT !.at = at]
  PROVE  /\ DOMAIN g = DOMAIN Idle /\ g.at = at
         /\ g.kind = h.kind /\ g.worker = h.worker /\ g.called = h.called
         /\ g.size = h.size /\ g.chunk = h.chunk /\ g.cors_allow_origin = h.cors_allow_origin
  BY Zenon DEF Idle

(* What is known of a request under way. *)
LEMMA UnderWay ==
  ASSUME HttpInv, NEW r \in Requests, handler[r].at # "idle"
  PROVE  /\ config \in Configurations
         /\ DOMAIN handler[r] = DOMAIN Idle
         /\ handler[r].kind \in Kinds(config, r) /\ handler[r].worker \in Workers
         /\ Checked(config, handler[r])
         /\ handler[r].called # "no" => Permitted(config, handler[r])
  BY Zenon DEF HttpInv, HttpTypeOK, RequestInv

(* A request arrives at a worker. *)
LEMMA AcceptInv ==
  ASSUME HttpInv, NEW r \in Requests, NEW w \in Workers, NEW k \in Kinds(config, r), Accept(r, w, k)
  PROVE  HttpInv'
<1>1. PICK g : g = [Idle EXCEPT !.at = "call", !.kind = k, !.worker = w]
  BY Zenon
<1>2. /\ DOMAIN g = DOMAIN Idle /\ g.at = "call" /\ g.kind = k /\ g.worker = w /\ g.called = "no"
      /\ g.size = 0 /\ g.chunk = 0
  BY <1>1, Zenon DEF Idle
<1>3. Checked(config, g)
  BY <1>2, Zenon DEF Checked
<1>4. Become(r, g)
  BY <1>1, Zenon DEF Accept
<1> QED
  BY <1>2, <1>3, <1>4, BecomeInv, Zenon

(* The host is checked. *)
LEMMA CallInv == ASSUME HttpInv, NEW r \in Requests, call(r) PROVE HttpInv'
<1> DEFINE h == handler[r]
           action == h.kind.action
           refused == (action.respond => action.should_validate_hosts) /\ ~Checks[config][h.kind].host
<1>1. h.at = "call" /\ h.called = "no" /\ h.size = 0 /\ h.chunk = 0
  BY Zenon DEF call, HttpInv, RequestInv, Checked
<1>2. /\ DOMAIN h = DOMAIN Idle /\ h.kind \in Kinds(config, r) /\ h.worker \in Workers
  BY <1>1, UnderWay, Zenon
<1>3. CASE refused
  <2>1. PICK g : g = [h EXCEPT !.at = "answered", !.response = Plain("host_not_allowed")]
    BY Zenon
  <2>2. Become(r, g)
    BY <1>3, <2>1, Zenon DEF call
  <2>3. /\ DOMAIN g = DOMAIN Idle /\ g.at = "answered" /\ g.kind = h.kind /\ g.worker = h.worker
        /\ g.called = "no" /\ g.response = Plain("host_not_allowed")
    BY <1>1, <1>2, <2>1, Zenon DEF Idle
  <2>4. /\ g.response.name = "host_not_allowed"
        /\ g.response.allow_origin = None /\ g.response.allow_headers = None
    BY <2>3 DEF Plain
  <2>5. Honest(config, g) /\ Checked(config, g)
    BY <2>3, <2>4, Zenon DEF Honest, Checked
  <2> QED
    BY <1>2, <2>2, <2>3, <2>4, <2>5, BecomeInv, Zenon
<1>4. CASE ~refused
  <2>1. PICK g : g = [h EXCEPT !.at = IF action.respond THEN "Middleware" ELSE "ReadingHeaders"]
    BY ZenonT(30)
  <2>2. Become(r, g)
    BY <1>4, <2>1, Zenon DEF call
  <2>3. /\ DOMAIN g = DOMAIN Idle /\ g.kind = h.kind /\ g.worker = h.worker /\ g.called = "no"
        /\ g.at = IF action.respond THEN "Middleware" ELSE "ReadingHeaders"
        /\ g.size = 0 /\ g.chunk = 0
    BY <1>1, <1>2, <2>1, Moved, SMTT(30)
  <2>4. Checked(config, g)
    BY <1>4, <2>3, Zenon DEF Checked
  <2> QED
    BY <1>2, <2>2, <2>3, <2>4, BecomeInv, Zenon
<1> QED
  BY <1>3, <1>4, ZenonT(30)

(* The middleware's answer. *)
LEMMA MiddlewareInv == ASSUME HttpInv, NEW r \in Requests, RespondMiddleware(r) PROVE HttpInv'
<1> DEFINE h == handler[r]
<1>1. h.at = "Middleware" /\ h.called = "no" /\ h.kind.action.respond
  BY Zenon DEF RespondMiddleware, HttpInv, RequestInv, Checked
<1>2. /\ DOMAIN h = DOMAIN Idle /\ h.kind \in Kinds(config, r) /\ h.worker \in Workers
  BY <1>1, UnderWay, Zenon
<1>3. PICK g : g = [h EXCEPT !.at = "answered", !.response = Plain("ok")]
  BY Zenon
<1>4. Become(r, g)
  BY <1>3, Zenon DEF RespondMiddleware
<1>5. /\ DOMAIN g = DOMAIN Idle /\ g.at = "answered" /\ g.kind = h.kind /\ g.worker = h.worker
      /\ g.called = "no" /\ g.response = Plain("ok")
  BY <1>1, <1>2, <1>3, Zenon DEF Idle
<1>6. /\ g.response.name = "ok" /\ g.response.allow_origin = None /\ g.response.allow_headers = None
  BY <1>5 DEF Plain
<1>7. Honest(config, g) /\ Checked(config, g)
  BY <1>1, <1>5, <1>6, Zenon DEF Honest, Checked
<1> QED
  BY <1>2, <1>4, <1>5, <1>6, <1>7, BecomeInv, SMTT(20)
(* The headers are read: every way out of read_headers. *)
LEMMA HeadersWays ==
  ASSUME NEW h
  PROVE  LET k == h.kind
             continues == k.action.should_continue_on_invalid_cors \/ h.cors_allow_origin # Invalid
             g == read_headers(h)
         IN  \/ \E name \in {"invalid_allow_origin", "invalid_allow_headers",
                             "unsupported_content_type", "method_not_allowed"} : g = Writing(h, name)
             \/ ~upgrade /\ g = Writing(h, "closing")
             \/ k.method = "OPTIONS" /\ g = Writing(h, "ok")
             \/ /\ continues /\ k.method = "POST"
                /\ \/ is_json(k.content_type) /\ g = [h EXCEPT !.at = "ReadingBody"]
                   \/ config.rest_api = "Unsecure" /\ g = [h EXCEPT !.at = "ProcessRest"]
             \/ /\ continues /\ k.method = "GET" /\ k.path = config.health_api
                /\ g = [h EXCEPT !.at = "ProcessHealth"]
<1> DEFINE k == h.kind
           refused(cors) == cors = Invalid /\ ~k.action.should_continue_on_invalid_cors
<1>1. CASE refused(h.cors_allow_origin)
  BY <1>1, Zenon DEF read_headers
<1>2. CASE ~refused(h.cors_allow_origin) /\ refused(h.cors_allow_headers)
  BY <1>2, Zenon DEF read_headers
<1>3. CASE ~refused(h.cors_allow_origin) /\ ~refused(h.cors_allow_headers)
  <2>1. CASE ~upgrade
    BY <1>3, <2>1, Zenon DEF read_headers
  <2>2. CASE upgrade /\ k.method = "POST"
    BY <1>3, <2>2, Zenon DEF read_headers
  <2>3. CASE upgrade /\ k.method = "OPTIONS"
    BY <1>3, <2>3, Zenon DEF read_headers
  <2>4. CASE upgrade /\ k.method = "GET" /\ config.health_api = k.path
    BY <1>3, <2>4, Zenon DEF read_headers
  <2>5. CASE upgrade /\ k.method \notin {"POST", "OPTIONS"} /\ ~(k.method = "GET" /\ config.health_api = k.path)
    BY <1>3, <2>5, Zenon DEF read_headers
  <2> QED
    BY <2>1, <2>2, <2>3, <2>4, <2>5, Zenon
<1> QED
  BY <1>1, <1>2, <1>3, Zenon

(* The headers are read: each way keeps the invariant. *)
LEMMA PollHeadersInv == ASSUME HttpInv, NEW r \in Requests, PollHeaders(r) PROVE HttpInv'
<1>1. /\ handler[r].at = "ReadingHeaders" /\ handler[r].called = "no"
      /\ ~handler[r].kind.action.respond /\ Checks[config][handler[r].kind].host
      /\ handler[r].size = 0 /\ handler[r].chunk = 0
  BY Zenon DEF PollHeaders, HttpInv, RequestInv, Checked
<1>2. /\ DOMAIN handler[r] = DOMAIN Idle /\ config \in Configurations
      /\ handler[r].kind \in Kinds(config, r) /\ handler[r].worker \in Workers
  BY <1>1, UnderWay, Zenon
<1>3. PICK h : /\ h = [handler[r] EXCEPT !.cors_allow_origin = Checks[config][handler[r].kind].origin,
                                         !.cors_allow_headers = Checks[config][handler[r].kind].headers,
                                         !.keep_alive = keep_alive(config, handler[r].kind)]
               /\ Become(r, read_headers(h))
  BY Zenon DEF PollHeaders
<1>4. /\ DOMAIN h = DOMAIN Idle /\ h.kind = handler[r].kind /\ h.worker = handler[r].worker
      /\ h.called = "no" /\ h.cors_allow_origin = Checks[config][h.kind].origin
      /\ h.size = handler[r].size /\ h.chunk = handler[r].chunk
  BY <1>1, <1>2, <1>3, Zenon DEF Idle
<1>5. CASE \/ \E name \in {"invalid_allow_origin", "invalid_allow_headers",
                           "unsupported_content_type", "method_not_allowed"} :
                  read_headers(h) = Writing(h, name)
           \/ ~upgrade /\ read_headers(h) = Writing(h, "closing")
           \/ h.kind.method = "OPTIONS" /\ read_headers(h) = Writing(h, "ok")
  <2>1. PICK name \in {"invalid_allow_origin", "invalid_allow_headers", "unsupported_content_type",
                       "method_not_allowed", "closing", "ok"} :
          /\ read_headers(h) = Writing(h, name)
          /\ name = "closing" => ~upgrade
          /\ name = "ok" => h.kind.method = "OPTIONS"
    BY <1>5, Zenon
  <2>2. Become(r, Writing(h, name))
    BY <1>3, <2>1, Zenon
  <2> QED
    BY <1>2, <1>4, <2>1, <2>2, WritingInv, Zenon
<1>6. ASSUME NEW at, read_headers(h) = [h EXCEPT !.at = at],
             h.kind.action.should_continue_on_invalid_cors \/ h.cors_allow_origin # Invalid,
             \/ h.kind.method = "POST" /\ is_json(h.kind.content_type) /\ at = "ReadingBody"
             \/ h.kind.method = "POST" /\ config.rest_api = "Unsecure" /\ at = "ProcessRest"
             \/ h.kind.method = "GET" /\ h.kind.path = config.health_api /\ at = "ProcessHealth"
      PROVE  HttpInv'
  <2>1. PICK g : g = [h EXCEPT !.at = at]
    BY ZenonT(30)
  <2>2. /\ DOMAIN g = DOMAIN Idle /\ g.at = at
        /\ g.kind = h.kind /\ g.worker = h.worker /\ g.called = h.called
        /\ g.size = h.size /\ g.chunk = h.chunk /\ g.cors_allow_origin = h.cors_allow_origin
    BY <1>4, <2>1, Moved, SMTT(30)
  <2>3. /\ config.max_request_body_size \in Nat /\ 0 <= config.max_request_body_size
        /\ 0 \in 0 .. Len(h.kind.body) /\ Totals(h.kind.body)[0] = 0
    <3>1. h.kind.body \in Seq(Nat) /\ config.max_request_body_size \in Nat
      BY <1>2, <1>4, RequestsAssumption, WorkersType, Zenon DEF Configuration
    <3> QED
      BY <3>1, TotalsAdd
  <2>4. Checked(config, g)
    <3>1. /\ g.chunk \in 0 .. Len(g.kind.body) /\ g.size = Totals(g.kind.body)[g.chunk]
          /\ g.size <= config.max_request_body_size
      BY <1>1, <1>4, <2>2, <2>3, Zenon
    <3>2. /\ g.cors_allow_origin = Checks[config][g.kind].origin /\ g.called = "no"
          /\ g.kind.action.should_continue_on_invalid_cors \/ g.cors_allow_origin # Invalid
          /\ ~g.kind.action.respond /\ Checks[config][g.kind].host
          /\ at \in {"ReadingBody", "ProcessRest", "ProcessHealth"}
      BY <1>1, <1>4, <1>6, <2>2, ZenonT(60)
    <3>3. CASE at = "ReadingBody"
      BY <1>6, <2>2, <3>1, <3>2, <3>3, Zenon DEF Checked
    <3>4. CASE at = "ProcessRest"
      BY <1>6, <2>2, <3>2, <3>4, Zenon DEF Checked
    <3>5. CASE at = "ProcessHealth"
      BY <1>6, <2>2, <3>2, <3>5, Zenon DEF Checked
    <3> QED
      BY <3>2, <3>3, <3>4, <3>5, Zenon
  <2>5. Become(r, g)
    BY <1>3, <1>6, <2>1, Zenon
  <2> QED
    BY <1>2, <1>4, <1>6, <2>2, <2>4, <2>5, BecomeInv, Zenon
<1> DEFINE continues ==
      h.kind.action.should_continue_on_invalid_cors \/ h.cors_allow_origin # Invalid
<1>7. CASE continues /\ h.kind.method = "POST" /\ is_json(h.kind.content_type)
             /\ read_headers(h) = [h EXCEPT !.at = "ReadingBody"]
  BY <1>6, <1>7, Zenon
<1>8. CASE continues /\ h.kind.method = "POST" /\ config.rest_api = "Unsecure"
             /\ read_headers(h) = [h EXCEPT !.at = "ProcessRest"]
  BY <1>6, <1>8, Zenon
<1>9. CASE continues /\ h.kind.method = "GET" /\ h.kind.path = config.health_api
             /\ read_headers(h) = [h EXCEPT !.at = "ProcessHealth"]
  BY <1>6, <1>9, Zenon
<1> QED
  BY <1>5, <1>7, <1>8, <1>9, HeadersWays, SMTT(20)
(* A request given to the RPC handler, or told that the server closes. *)
LEMMA DispatchedInv ==
  ASSUME HttpInv, NEW r \in Requests, NEW h, h = handler[r],
         NEW what \in {"body", "rest", "health"}, NEW next \in {"Waiting", "WaitingForResponse"},
         h.at \in {"ReadingBody", "ProcessRest", "ProcessHealth"},
         Become(r, Dispatched(h, what, next)),
         h.at = "ReadingBody" => what = "body" /\ h.kind.end \notin {"broken", "bad_utf8"}
                                   /\ h.chunk = Len(h.kind.body),
         h.at = "ProcessRest" => what = "rest",
         h.at = "ProcessHealth" => what = "health"
  PROVE  HttpInv'
<1>1. /\ DOMAIN h = DOMAIN Idle /\ h.kind \in Kinds(config, r) /\ h.worker \in Workers
      /\ Checked(config, h) /\ config \in Configurations
  BY UnderWay, Zenon
<1>2. h.called = "no" /\ h.cors_allow_origin = Checks[config][h.kind].origin
  BY <1>1, Zenon DEF Checked
<1>3. CASE ~upgrade
  <2>1. Become(r, Writing(h, "closing"))
    BY <1>3, Zenon DEF Dispatched
  <2> QED
    BY <1>1, <1>2, <1>3, <2>1, WritingInv, Zenon
<1>4. CASE upgrade
  <2>1. PICK g : g = [h EXCEPT !.called = what, !.at = next]
    BY Zenon
  <2>2. Become(r, g)
    BY <1>4, <2>1, Zenon DEF Dispatched
  <2>3. /\ DOMAIN g = DOMAIN Idle /\ g.at = next /\ g.called = what
        /\ g.kind = h.kind /\ g.worker = h.worker
        /\ g.size = h.size /\ g.chunk = h.chunk /\ g.cors_allow_origin = h.cors_allow_origin
    BY <1>1, <2>1, Zenon DEF Idle
  <2>4. Checked(config, g)
    BY <1>1, <2>3, ZenonT(30) DEF Checked
  <2>5. Permitted(config, g)
    <3>1. /\ is_host_valid(h.kind.host, update(config.allowed_hosts, config.address))
          /\ ~h.kind.action.respond
          /\ h.kind.action.should_continue_on_invalid_cors \/ OriginPermitted(config, h.kind)
      BY <1>1, ChecksAre, OriginChecked, Zenon DEF Checked
    <3> QED
      BY <1>1, <2>3, <3>1, ZenonT(30) DEF Checked, Permitted
  <2> QED
    BY <1>1, <2>2, <2>3, <2>4, <2>5, BecomeInv, Zenon
<1> QED
  BY <1>3, <1>4, Zenon

(* A chunk of the body arrives. *)
LEMMA ReadChunkInv == ASSUME HttpInv, NEW r \in Requests, ReadChunk(r) PROVE HttpInv'
<1>1. PICK h : h = handler[r]
  BY Zenon
<1>2. h.at = "ReadingBody" /\ h.chunk < Len(h.kind.body)
  BY <1>1, Zenon DEF ReadChunk
<1>3. /\ DOMAIN h = DOMAIN Idle /\ h.kind \in Kinds(config, r) /\ h.worker \in Workers
      /\ Checked(config, h) /\ config \in Configurations
  BY <1>1, <1>2, UnderWay, Zenon
<1>4. /\ h.called = "no" /\ h.cors_allow_origin = Checks[config][h.kind].origin
      /\ h.chunk \in Nat /\ h.size \in Nat /\ h.kind.body \in Seq(Nat)
      /\ config.max_request_body_size \in Nat
  <2>1. /\ h.called = "no" /\ h.cors_allow_origin = Checks[config][h.kind].origin
        /\ h.chunk \in 0 .. Len(h.kind.body) /\ h.size = Totals(h.kind.body)[h.chunk]
    BY <1>2, <1>3, Zenon DEF Checked
  <2>2. h.kind.body \in Seq(Nat) /\ config.max_request_body_size \in Nat
    BY <1>3, RequestsAssumption, WorkersType, Zenon DEF Configuration
  <2>3. h.size \in Nat
    BY <2>1, <2>2, TotalsAdd, Zenon
  <2> QED
    BY <2>1, <2>2, <2>3, SMTT(30)
<1>5. PICK n \in Nat : n = h.kind.body[h.chunk + 1]
  BY <1>2, <1>4, SMTT(30)
<1>6. CASE TooLarge(h, n)
  <2>1. Become(r, Writing(h, "too_large"))
    BY <1>1, <1>5, <1>6, Zenon DEF ReadChunk
  <2> QED
    BY <1>3, <1>4, <2>1, WritingInv, Zenon
<1>7. CASE ~TooLarge(h, n)
  <2>1. PICK g : g = [h EXCEPT !.size = h.size + n, !.chunk = h.chunk + 1]
    BY Zenon
  <2>2. Become(r, g)
    BY <1>1, <1>5, <1>7, <2>1, Zenon DEF ReadChunk
  <2>3. /\ DOMAIN g = DOMAIN Idle /\ g.at = h.at /\ g.called = "no"
        /\ g.kind = h.kind /\ g.worker = h.worker /\ g.cors_allow_origin = h.cors_allow_origin
        /\ g.size = h.size + n /\ g.chunk = h.chunk + 1
    BY <1>3, <1>4, <2>1, Zenon DEF Idle
  <2>4. g.size <= config.max_request_body_size
    <3>1. PICK max \in Nat, size \in Nat :
            max = config.max_request_body_size /\ size = h.size
      BY <1>4, Zenon
    <3>2. size + n <= max
      BY <1>7, <3>1 DEF TooLarge
    <3> QED
      BY <2>3, <3>1, <3>2, Zenon
  <2>5. g.chunk \in 0 .. Len(g.kind.body) /\ g.size = Totals(g.kind.body)[g.chunk]
    <3>1. PICK body \in Seq(Nat), chunk \in Nat : body = h.kind.body /\ chunk = h.chunk
      BY <1>4, Zenon
    <3>2. chunk < Len(body)
      BY <1>2, <3>1, Zenon
    <3>3. chunk \in 0 .. Len(body) - 1 /\ chunk + 1 \in 0 .. Len(body)
      BY <3>2
    <3>4. Totals(body)[chunk + 1] = Totals(body)[chunk] + body[chunk + 1]
      BY <3>3, TotalsAdd, Zenon
    <3>5. h.size = Totals(body)[chunk]
      BY <1>2, <1>3, <3>1, Zenon DEF Checked
    <3> QED
      BY <1>5, <2>3, <3>1, <3>3, <3>4, <3>5, Zenon
  <2>6. Checked(config, g)
    BY <1>2, <1>3, <2>3, <2>4, <2>5, Zenon DEF Checked
  <2> QED
    BY <1>2, <1>3, <2>2, <2>3, <2>6, BecomeInv, Zenon
<1> QED
  BY <1>6, <1>7, Zenon

(* The body is complete. *)
LEMMA EndOfBodyInv == ASSUME HttpInv, NEW r \in Requests, EndOfBody(r) PROVE HttpInv'
<1>1. PICK h : h = handler[r]
  BY Zenon
<1>2. h.at = "ReadingBody" /\ h.chunk = Len(h.kind.body)
  BY <1>1, Zenon DEF EndOfBody
<1>3. /\ DOMAIN h = DOMAIN Idle /\ h.kind \in Kinds(config, r) /\ h.worker \in Workers
      /\ Checked(config, h)
  BY <1>1, <1>2, UnderWay, Zenon
<1>4. h.called = "no" /\ h.cors_allow_origin = Checks[config][h.kind].origin
  BY <1>2, <1>3, Zenon DEF Checked
<1> DEFINE rest == h.size = 0 /\ config.rest_api # "Disabled"
<1>5. ASSUME NEW at \in {"disconnected", "ProcessRest"}, Become(r, [h EXCEPT !.at = at]) PROVE HttpInv'
  <2>1. PICK g : g = [h EXCEPT !.at = at]
    BY Zenon
  <2>2. /\ DOMAIN g = DOMAIN Idle /\ g.at = at
        /\ g.kind = h.kind /\ g.worker = h.worker /\ g.called = h.called
        /\ g.size = h.size /\ g.chunk = h.chunk /\ g.cors_allow_origin = h.cors_allow_origin
    BY <1>3, <2>1, Moved, SMTT(30)
  <2>3. Checked(config, g)
    BY <1>2, <1>3, <2>2, Zenon DEF Checked
  <2>4. Become(r, g)
    BY <1>5, <2>1, Zenon
  <2> QED
    BY <1>3, <1>4, <2>2, <2>3, <2>4, BecomeInv, Zenon
<1>6. CASE h.kind.end = "broken"
  BY <1>1, <1>5, <1>6, Zenon DEF EndOfBody
<1>7. CASE h.kind.end # "broken" /\ rest
  BY <1>1, <1>5, <1>7, Zenon DEF EndOfBody
<1>8. CASE h.kind.end = "bad_utf8" /\ ~rest
  <2>1. Become(r, Writing(h, "bad_request"))
    BY <1>1, <1>8, Zenon DEF EndOfBody
  <2> QED
    BY <1>3, <1>4, <2>1, WritingInv, Zenon
<1>9. CASE h.kind.end \notin {"broken", "bad_utf8"} /\ ~rest
  <2>1. Become(r, Dispatched(h, "body", "Waiting"))
    BY <1>1, <1>9, Zenon DEF EndOfBody
  <2> QED
    BY <1>1, <1>2, <1>9, <2>1, DispatchedInv, Zenon
<1> QED
  BY <1>6, <1>7, <1>8, <1>9, Zenon
(* Calls over REST and of the health method. *)
LEMMA ProcessInv ==
  ASSUME HttpInv, NEW r \in Requests, ProcessRest(r) \/ ProcessHealth(r) PROVE HttpInv'
<1>1. PICK h : h = handler[r]
  BY Zenon
<1>2. CASE ProcessRest(r)
  <2>1. h.at = "ProcessRest" /\ Become(r, Dispatched(h, "rest", "Waiting"))
    BY <1>1, <1>2, Zenon DEF ProcessRest
  <2> QED
    BY <1>1, <2>1, DispatchedInv, Zenon
<1>3. CASE ProcessHealth(r)
  <2>1. h.at = "ProcessHealth" /\ Become(r, Dispatched(h, "health", "WaitingForResponse"))
    BY <1>1, <1>3, Zenon DEF ProcessHealth
  <2> QED
    BY <1>1, <2>1, DispatchedInv, Zenon
<1> QED
  BY <1>2, <1>3, Zenon

(* The RPC handler's future resolves. *)
LEMMA ResolvedInv ==
  ASSUME HttpInv, NEW r \in Requests, PollWaiting(r) \/ PollWaitingForResponse(r) PROVE HttpInv'
<1>1. PICK h : h = handler[r]
  BY Zenon
<1>2. h.at \in {"Waiting", "WaitingForResponse"}
  BY <1>1, Zenon DEF PollWaiting, PollWaitingForResponse
<1>3. /\ DOMAIN h = DOMAIN Idle /\ h.kind \in Kinds(config, r) /\ h.worker \in Workers
      /\ Checked(config, h) /\ (h.called # "no" => Permitted(config, h))
  BY <1>1, <1>2, UnderWay, Zenon
<1>4. h.called # "no" /\ h.cors_allow_origin = Checks[config][h.kind].origin
  BY <1>2, <1>3, Zenon DEF Checked
<1>5. PICK name \in {"ok", "service_unavailable", "internal_error"} : Become(r, Writing(h, name))
  BY <1>1, Zenon DEF PollWaiting, PollWaitingForResponse
<1>6. Status[name] \notin {400, 403, 405, 413, 415}
  BY <1>5 DEF Status
<1> QED
  BY <1>3, <1>4, <1>5, <1>6, WritingInv, SMTT(30)

(* The client goes away. *)
LEMMA DisconnectInv == ASSUME HttpInv, NEW r \in Requests, Disconnect(r) PROVE HttpInv'
<1>1. PICK h : h = handler[r]
  BY Zenon
<1>2. h.at # "idle"
  BY <1>1, Zenon DEF Disconnect, Final
<1>3. /\ DOMAIN h = DOMAIN Idle /\ h.kind \in Kinds(config, r) /\ h.worker \in Workers
      /\ (h.called # "no" => Permitted(config, h))
  BY <1>1, <1>2, UnderWay, Zenon
<1>4. PICK g : g = [h EXCEPT !.at = "disconnected"]
  BY Zenon
<1>5. Become(r, g)
  BY <1>1, <1>4, Zenon DEF Disconnect
<1>6. /\ DOMAIN g = DOMAIN Idle /\ g.at = "disconnected"
      /\ g.kind = h.kind /\ g.worker = h.worker /\ g.called = h.called
      /\ g.size = h.size /\ g.chunk = h.chunk /\ g.cors_allow_origin = h.cors_allow_origin
  BY <1>3, <1>4, Moved, SMTT(30)
<1>7. Checked(config, g) /\ (g.called # "no" => Permitted(config, g))
  BY <1>3, <1>6, Zenon DEF Checked, Permitted
<1> QED
  BY <1>3, <1>5, <1>6, <1>7, BecomeInv, Zenon
-----------------------------------------------------------------------------
(* The theorems. *)

(***************************************************************************)
(* The inductive invariant of the HTTP server, for any number of workers,  *)
(* requests and configurations.                                            *)
(***************************************************************************)
THEOREM HttpInvariance == Spec => []HttpInv
<1>1. HttpInv /\ [Next]_vars => HttpInv'
  <2> SUFFICES ASSUME HttpInv, [Next]_vars PROVE HttpInv'
    BY Zenon
  <2>1. CASE \E w \in Workers : Run(w)
    BY <2>1, SpawnWorkerInv, WorkerInv, Zenon DEF Run
  <2>2. CASE \E w \in Workers, r \in Requests : \E k \in Kinds(config, r) : Accept(r, w, k)
    BY <2>2, AcceptInv, Zenon
  <2>3. CASE \E r \in Requests : Poll(r) \/ Disconnect(r)
    BY <2>3, CallInv, MiddlewareInv, PollHeadersInv, ReadChunkInv, EndOfBodyInv, ProcessInv,
       ResolvedInv, DisconnectInv, Zenon DEF Poll
  <2>4. CASE \E a \in Actors : Close(a) \/ Finish(a)
    BY <2>4, CloseStepInv, SendSignalInv, CloseExecutorInv, CloseReturnsInv, Zenon DEF Finish
  <2>5. CASE StartReturns \/ Wait \/ JoinReturns
    BY <2>5, StartReturnsInv, WaitInv, JoinReturnsInv, Zenon
  <2>6. CASE UNCHANGED vars
    <3>1. NoReturn /\ UNCHANGED <<config, handler>>
      BY <2>6, ZenonT(60) DEF vars, NoReturn
    <3>2. HttpTypeOK' /\ CloseInv'
      BY <2>6, SMTT(30) DEF vars, HttpInv, HttpTypeOK, CloseInv, Workers, Over, Spawned
    <3> QED
      BY <3>1, <3>2, SameRequests, Zenon DEF HttpInv
  <2> QED
    BY <2>1, <2>2, <2>3, <2>4, <2>5, <2>6, Zenon DEF Next
<1> QED
  BY InitInv, <1>1, PTL DEF Spec

(* Whoever closed the server, its workers are over when the owner returns. *)
LEMMA ReturnedMeansOver == ASSUME HttpInv PROVE OwnerReturnsAfterServer
<1> SUFFICES ASSUME actor["owner"] = "gone", NEW w \in Workers, Spawned(w) \/ config.threads = 1
             PROVE  worker[w] \in {"done", "ended"}
  BY Zenon DEF OwnerReturnsAfterServer
<1>1. start = "ok" /\ ~executors /\ \A a \in Actors : closing[a] = <<>>
  BY Zenon DEF HttpInv, CloseInv, Actors
<1>2. \A a \in Actors : 1 .. Len(closing[a]) = {}
  BY <1>1, SMTT(30)
<1>3. CASE Spawned(w)
  BY <1>1, <1>2, <1>3, Zenon DEF HttpInv, CloseInv, Over
<1>4. CASE config.threads = 1
  BY <1>4, WorkersType, SMTT(30) DEF HttpInv, HttpTypeOK, CloseInv, Over, Workers
<1> QED
  BY <1>3, <1>4, Zenon

(***************************************************************************)
(* Drop for Server and wait return only when every worker on a runtime of  *)
(* its own has ended, whichever thread closed the server.                  *)
(***************************************************************************)
THEOREM ReturnsAfterServer == Spec => []OwnerReturnsAfterServer
  BY HttpInvariance, ReturnedMeansOver, PTL

(* A step of a request's future, or its end, keeps it on its worker. *)
LEMMA StaysOnWorker ==
  ASSUME HttpInv, NEW r \in Requests, Poll(r) \/ Disconnect(r)
  PROVE  /\ handler[r].at \notin Final
         /\ \E h : Become(r, h) /\ h.worker = handler[r].worker
<1> DEFINE h == handler[r]
           Kept == \E g : Become(r, g) /\ g.worker = h.worker
<1>1. h.at \notin Final
  BY Zenon DEF Poll, Disconnect, call, RespondMiddleware, PollHeaders, ReadChunk, EndOfBody,
     ProcessRest, ProcessHealth, PollWaiting, PollWaitingForResponse, Final
<1>2. DOMAIN h = DOMAIN Idle
  BY Zenon DEF HttpInv, HttpTypeOK
<1> HIDE DEF h
<1>3. ASSUME NEW at PROVE [h EXCEPT !.at = at].worker = h.worker
  BY <1>2, Zenon DEF Idle
<1>4. ASSUME NEW g, DOMAIN g = DOMAIN Idle, g.worker = h.worker, NEW name
      PROVE  Writing(g, name).worker = h.worker
  BY <1>4, Zenon DEF Writing, Idle
<1>5. ASSUME NEW what, NEW next PROVE Dispatched(h, what, next).worker = h.worker
  <2>1. [h EXCEPT !.called = what, !.at = next].worker = h.worker
    BY <1>2, Zenon DEF Idle
  <2> QED
    BY <1>2, <1>4, <2>1, Zenon DEF Dispatched
<1>6. ASSUME call(r) PROVE Kept
  <2>1. ASSUME NEW res PROVE [h EXCEPT !.at = "answered", !.response = res].worker = h.worker
    BY <1>2, Zenon DEF Idle
  <2>2. \E g : /\ Become(r, g)
               /\ \/ g = [h EXCEPT !.at = "answered", !.response = Plain("host_not_allowed")]
                  \/ \E at : g = [h EXCEPT !.at = at]
    BY <1>6, Zenon DEF call, h
  <2> QED
    BY <1>3, <2>1, <2>2, Zenon
<1>7. ASSUME RespondMiddleware(r) PROVE Kept
  <2>1. [h EXCEPT !.at = "answered", !.response = Plain("ok")].worker = h.worker
    BY <1>2, Zenon DEF Idle
  <2> QED
    BY <1>7, <2>1, Zenon DEF RespondMiddleware, h
<1>8. ASSUME PollHeaders(r) PROVE Kept
  <2> DEFINE g == [h EXCEPT !.cors_allow_origin = Checks[config][h.kind].origin,
                            !.cors_allow_headers = Checks[config][h.kind].headers,
                            !.keep_alive = keep_alive(config, h.kind)]
  <2>1. Become(r, read_headers(g))
    BY <1>8, Zenon DEF PollHeaders, h
  <2>2. DOMAIN g = DOMAIN Idle /\ g.worker = h.worker
    BY <1>2, Zenon DEF Idle
  <2> HIDE DEF g
  <2>3. ASSUME NEW at PROVE [g EXCEPT !.at = at].worker = h.worker
    BY <2>2, Zenon DEF Idle
  <2>4. \/ \E name : read_headers(g) = Writing(g, name)
        \/ \E at : read_headers(g) = [g EXCEPT !.at = at]
    BY HeadersWays, Zenon
  <2>5. ASSUME NEW name PROVE Writing(g, name).worker = h.worker
    BY <1>4, <2>2
  <2>6. read_headers(g).worker = h.worker
    <3>1. CASE \E name : read_headers(g) = Writing(g, name)
      BY <2>5, <3>1, Zenon
    <3>2. CASE \E at : read_headers(g) = [g EXCEPT !.at = at]
      <4>1. PICK at : read_headers(g) = [g EXCEPT !.at = at]
        BY <3>2, Zenon
      <4> QED
        BY <2>3, <4>1
    <3> QED
      BY <2>4, <3>1, <3>2, Zenon
  <2> QED
    BY <2>1, <2>6, Zenon
<1>9. ASSUME ReadChunk(r) PROVE Kept
  <2>1. ASSUME NEW size, NEW chunk PROVE [h EXCEPT !.size = size, !.chunk = chunk].worker = h.worker
    BY <1>2, Zenon DEF Idle
  <2>2. Writing(h, "too_large").worker = h.worker
    BY <1>2, <1>4, Zenon
  <2>3. \E g : /\ Become(r, g)
               /\ \/ g = Writing(h, "too_large")
                  \/ \E size, chunk : g = [h EXCEPT !.size = size, !.chunk = chunk]
    BY <1>9, Zenon DEF ReadChunk, h
  <2> QED
    BY <2>1, <2>2, <2>3, Zenon
<1>10. ASSUME EndOfBody(r) PROVE Kept
  <2>1. \E g : /\ Become(r, g)
               /\ \/ \E at : g = [h EXCEPT !.at = at]
                  \/ g = Writing(h, "bad_request") \/ g = Dispatched(h, "body", "Waiting")
    BY <1>10, Zenon DEF EndOfBody, h
  <2>2. Writing(h, "bad_request").worker = h.worker
    BY <1>2, <1>4, Zenon
  <2>3. Dispatched(h, "body", "Waiting").worker = h.worker
    BY <1>5, Zenon
  <2> QED
    BY <1>3, <2>1, <2>2, <2>3, Zenon
<1>11. ASSUME ProcessRest(r) \/ ProcessHealth(r) PROVE Kept
  BY <1>5, <1>11, Zenon DEF ProcessRest, ProcessHealth, h
<1>12. ASSUME PollWaiting(r) \/ PollWaitingForResponse(r) PROVE Kept
  BY <1>2, <1>4, <1>12, Zenon DEF PollWaiting, PollWaitingForResponse, h
<1>13. ASSUME Disconnect(r) PROVE Kept
  BY <1>3, <1>13, Zenon DEF Disconnect, h
<1>14. Kept
  BY <1>6, <1>7, <1>8, <1>9, <1>10, <1>11, <1>12, <1>13, Zenon DEF Poll
<1> QED
  BY <1>1, <1>14, Zenon DEF h

(* Requests in flight stay on workers that serve or drain. *)
LEMMA ServedStep == ASSUME HttpInv, ServedInv, [Next]_vars PROVE ServedInv'
<1>1. ASSUME NEW r \in Requests, NEW h, Become(r, h),
             h.at \notin Final => worker[h.worker] \in {"serving", "draining"}
      PROVE  ServedInv'
  <2>1. /\ worker' = worker /\ handler'[r] = h
        /\ \A q \in Requests : q # r => handler'[q] = handler[q]
    BY <1>1, Zenon DEF Become, lifecycle, HttpInv, HttpTypeOK
  <2> QED
    BY <1>1, <2>1, Zenon DEF ServedInv
<1>2. ASSUME NEW ws, ws \subseteq Workers, RuntimeDropped(ws) PROVE ServedInv'
  <2> DEFINE own == {w \in ws : Spawned(w) /\ worker[w] \notin {"none", "done"}}
  <2>1. ASSUME NEW r \in Requests, handler'[r].at \notin Final
        PROVE  handler'[r] = handler[r] /\ handler[r].worker \notin own
    <3>1. handler'[r] = IF \E w \in own : r \in InFlight(w)
                        THEN [handler[r] EXCEPT !.at = "aborted"] ELSE handler[r]
      BY <1>2, Zenon DEF RuntimeDropped, Abandoned
    <3>2. [handler[r] EXCEPT !.at = "aborted"].at = "aborted"
      BY Zenon DEF HttpInv, HttpTypeOK, Idle
    <3>3. handler'[r] = handler[r] /\ ~\E w \in own : r \in InFlight(w)
      BY <2>1, <3>1, <3>2, Zenon DEF Final
    <3> QED
      BY <2>1, <3>3, Zenon DEF InFlight
  <2>2. \A w \in Workers : w \notin own => worker'[w] = worker[w]
    BY <1>2, WorkersType, Zenon DEF RuntimeDropped, HttpInv, HttpTypeOK
  <2> HIDE DEF own
  <2>3. \A r \in Requests : handler[r].at \notin Final => handler[r].worker \in Workers
    BY Zenon DEF HttpInv, RequestInv, Final
  <2> QED
    BY <2>1, <2>2, <2>3, Zenon DEF ServedInv
<1>3. ASSUME UNCHANGED handler,
             \A w \in Workers : InFlight(w) # {} /\ worker[w] \in {"serving", "draining"}
                                 => worker'[w] \in {"serving", "draining"}
      PROVE  ServedInv'
  <2>1. \A r \in Requests : handler[r].at \notin Final =>
          handler[r].worker \in Workers /\ r \in InFlight(handler[r].worker)
    BY Zenon DEF HttpInv, RequestInv, Final, InFlight
  <2> QED
    BY <1>3, <2>1, Zenon DEF ServedInv
<1>4. ASSUME StartFails PROVE ServedInv'
  BY <1>2, <1>4, Zenon DEF StartFails
<1>5. CASE \E w \in Workers : Run(w)
  <2>1. PICK w \in Workers : Run(w)
    BY <1>5, Zenon
  <2>2. CASE StartFails
    BY <1>4, <2>2, Zenon
  <2>3. CASE ~StartFails
    <3>1. /\ UNCHANGED handler
          /\ \A v \in Workers : v # w => worker'[v] = worker[v]
          /\ worker[w] \in {"serving", "draining"} =>
               worker'[w] = "draining" \/ InFlight(w) = {}
      BY <2>1, <2>3, WorkersType, Zenon
         DEF Run, SpawnWorker, Bind, Shutdown, Done, HttpInv, HttpTypeOK
    <3> QED
      BY <1>3, <3>1, Zenon
  <2> QED
    BY <2>2, <2>3, Zenon
<1>6. CASE \E w \in Workers, r \in Requests : \E k \in Kinds(config, r) : Accept(r, w, k)
  <2>0. PICK w \in Workers, r \in Requests : \E k \in Kinds(config, r) : Accept(r, w, k)
    BY <1>6, Zenon
  <2>1. PICK k \in Kinds(config, r) : Accept(r, w, k)
    BY <2>0, Zenon
  <2>2. PICK h : h = [Idle EXCEPT !.at = "call", !.kind = k, !.worker = w]
    BY Zenon
  <2>3. h.worker = w /\ worker[w] = "serving" /\ Become(r, h)
    BY <2>1, <2>2, Zenon DEF Accept, Idle
  <2> QED
    BY <1>1, <2>3, Zenon
<1>7. CASE \E r \in Requests : Poll(r) \/ Disconnect(r)
  BY <1>1, <1>7, StaysOnWorker, Zenon DEF ServedInv
<1>8. CASE \E a \in Actors : Close(a) \/ Finish(a)
  <2>1. PICK a \in Actors : Close(a) \/ Finish(a)
    BY <1>8, Zenon
  <2>2. CASE CloseExecutor(a)
    <3>1. closing[a] \in Seq(Workers) /\ closing[a] # <<>>
      BY <2>2, Zenon DEF CloseExecutor, HttpInv, HttpTypeOK
    <3>2. {Head(closing[a])} \subseteq Workers
      BY <3>1
    <3> QED
      BY <1>2, <2>2, <3>2, Zenon DEF CloseExecutor
  <2>3. CASE ~CloseExecutor(a)
    BY <1>3, <2>1, <2>3, Zenon DEF Close, Finish, SendSignal, CloseReturns
  <2> QED
    BY <2>2, <2>3, Zenon
<1>9. CASE StartReturns \/ Wait \/ JoinReturns
  <2>1. CASE StartFails
    BY <1>4, <2>1, Zenon
  <2>2. CASE ~StartFails
    BY <1>3, <1>9, <2>2, Zenon DEF StartReturns, Wait, JoinReturns
  <2> QED
    BY <2>1, <2>2, Zenon
<1>10. CASE UNCHANGED vars
  BY <1>3, <1>10, Zenon DEF vars
<1> QED
  BY <1>5, <1>6, <1>7, <1>8, <1>9, <1>10, Zenon DEF Next

(* When the owner has returned, the workers it answers for run nothing. *)
LEMMA QuietHolds == ASSUME HttpInv, ServedInv, [Next]_vars PROVE [QuietStep]_vars
<1> SUFFICES ASSUME Next, actor["owner"] = "gone", NEW r \in Requests, handler'[r] # handler[r]
             PROVE  config.threads # 1 /\ ~Spawned(handler'[r].worker)
  BY Zenon DEF QuietStep
<1>1. start = "ok" /\ \A a \in Actors : closing[a] = <<>>
  BY Zenon DEF HttpInv, CloseInv, Actors
<1>2. ASSUME NEW w \in Workers, worker[w] \in {"serving", "draining"}
      PROVE  config.threads # 1 /\ ~Spawned(w)
  BY <1>2, ReturnedMeansOver, Zenon DEF OwnerReturnsAfterServer
<1>3. ASSUME NEW q \in Requests, NEW h, Become(q, h) PROVE q = r /\ handler'[r] = h
  BY <1>3, Zenon DEF Become, HttpInv, HttpTypeOK
<1>4. CASE \E w \in Workers, q \in Requests : \E k \in Kinds(config, q) : Accept(q, w, k)
  <2>0. PICK w \in Workers, q \in Requests : \E k \in Kinds(config, q) : Accept(q, w, k)
    BY <1>4, Zenon
  <2>1. PICK k \in Kinds(config, q) : Accept(q, w, k)
    BY <2>0, Zenon
  <2>2. PICK h : h = [Idle EXCEPT !.at = "call", !.kind = k, !.worker = w]
    BY Zenon
  <2>3. h.worker = w /\ worker[w] = "serving" /\ Become(q, h)
    BY <2>1, <2>2, Zenon DEF Accept, Idle
  <2> QED
    BY <1>2, <1>3, <2>3, Zenon
<1>5. CASE \E q \in Requests : Poll(q) \/ Disconnect(q)
  <2>1. PICK q \in Requests : Poll(q) \/ Disconnect(q)
    BY <1>5, Zenon
  <2>2. PICK h : Become(q, h) /\ h.worker = handler[q].worker /\ handler[q].at \notin Final
    BY <2>1, StaysOnWorker, Zenon
  <2>3. h.worker \in Workers /\ worker[h.worker] \in {"serving", "draining"}
    BY <2>2, Zenon DEF ServedInv, HttpInv, RequestInv, Final
  <2> QED
    BY <1>2, <1>3, <2>2, <2>3, Zenon
<1>6. CASE \/ \E w \in Workers : Run(w)
           \/ \E a \in Actors : Close(a) \/ Finish(a)
           \/ StartReturns \/ Wait \/ JoinReturns
  <2>1. UNCHANGED handler
    BY <1>1, <1>6, Zenon DEF Run, SpawnWorker, Bind, Shutdown, Done, Close, Finish, SendSignal,
       CloseExecutor, CloseReturns, StartReturns, Wait, JoinReturns
  <2> QED
    BY <2>1, Zenon
<1> QED
  BY <1>4, <1>5, <1>6, Zenon DEF Next

(***************************************************************************)
(* Once wait, close or the drop of the Server has returned, no request on  *)
(* a worker with a runtime of its own, or on the only worker, is accepted, *)
(* goes on or is answered, whichever thread closed the server.             *)
(***************************************************************************)
THEOREM NothingAfterReturn == Spec => QuietAfterReturn
<1>1. Init => ServedInv
  <2>1. Idle.at \in Final
    BY Zenon DEF Idle, Final
  <2> QED
    BY <2>1, Zenon DEF Init, ServedInv
<1> QED
  BY <1>1, HttpInvariance, ServedStep, QuietHolds, PTL DEF Spec, QuietAfterReturn

(***************************************************************************)
(* upgrade fails, and a request is told that the server is closing, only   *)
(* when no worker accepts requests any more.                               *)
(***************************************************************************)
THEOREM ClosingIsTrue == Spec => []ClosingMeansClosed
<1>1. HttpInv => ClosingMeansClosed
  BY Zenon DEF HttpInv
<1> QED
  BY <1>1, HttpInvariance, PTL

(***************************************************************************)
(* Answers tell what was done, and their CORS headers who may read them,   *)
(* for every list of origins and every request.                            *)
(***************************************************************************)
THEOREM AnswersAreHonest == Spec => []HonestAnswer
<1>1. HttpInv => HonestAnswer
  BY Zenon DEF HttpInv
<1> QED
  BY <1>1, HttpInvariance, PTL

(***************************************************************************)
(* No method is called for a request that is not permitted, or whose body  *)
(* was not read to its end within the limit, in whatever chunks it came.   *)
(***************************************************************************)
THEOREM CallsArePermitted == Spec => []PermittedCall
<1>1. HttpInv => PermittedCall
  BY Zenon DEF HttpInv, RequestInv, PermittedCall
<1> QED
  BY <1>1, HttpInvariance, PTL
=============================================================================
