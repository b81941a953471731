# A verification development for jsonrpc

TLA+ models of `jsonrpc` (the crates under `src/`), from the subscription protocol to
the four servers, the TLC runs that check them on small instances, and TLAPS proofs of
every safety property that a passing run checks, for all values of the constants.
`PROJECT.json` records, for every definition, the lines it models.

## The system

| part | code | state | model |
|---|---|---|---|
| sessions and subscriptions | `pubsub/src/subscription.rs`, `oneshot.rs` | map of active subscriptions per connection, a channel with a receipt per call | `PubSub`, promise in `Subscriptions`, proofs in `PubSubProofs` |
| subscription manager | `pubsub/src/manager.rs` | id counter, map from ids to cancellation senders, tasks | `SubscriptionManager`, composed with `PubSub`, proofs in `PubSubProofs` |
| duplex client | `core-client/transports/src/transports/duplex.rs`, `mod.rs`, `lib.rs` | pending requests, subscriptions, queues in both directions | `Duplex`, promise in `RpcCalls`, proofs in `DuplexProofs` |
| request handler | `core/src/io.rs`, `calls.rs`, `middleware.rs`, `delegates.rs` | registry of procedures, middlewares, futures of a request | `IoHandler`, proofs in `IoHandlerProofs` |
| WebSocket server | `ws/src/session.rs`, `metadata.rs`, `server.rs` | sessions, a slab of task handles each, notification channel, close handles | `WsServer`, proofs in `ServerProofs` |
| HTTP server | `http/src` | workers, their shutdown, the future of a request | `HttpServer`, proofs in `HttpServerProofs` |
| hosts, matcher, CORS | `server-utils/src` | none: decisions on headers | `Hosts`, `Cors` |
| TCP server, suspendable stream | `tcp/src`, `server-utils/src` | peer channels, connections, back-off delay | `TcpServer`, proofs in `ServerProofs` |
| IPC server | `ipc/src` | sessions, buffered requests, close handles, socket file | `IpcServer`, proofs in `IpcProofs` |
| stream codec | `server-utils/src/stream_codec.rs` | none: where a message ends | `StreamCodec`, lemmas in `StreamCodecProofs` |
| executor | `server-utils/src/reactor.rs` | shared or spawned runtime, close signal | in each server |
| WebSocket client | `core-client/transports/src/transports/ws.rs` | queue of messages | `WsClient` |
| other client transports, stdio, derive macros, typed wrappers, builders | | | not modelled, see below |

How they interact. A transport (WebSocket, TCP, IPC) owns connections and their
metadata, gives every message to the request handler, and polls the future it gets
back. Subscribe methods are such calls: their future waits on a channel for the id
that a user's handler assigns, puts the subscription into the connection's `Session`
(held by `Arc` in the metadata), and resolves. When the last `Arc` goes, `Drop for
Session` calls the unsubscribe handlers. With a `SubscriptionManager` those handlers
cancel a task that feeds the sink. The client at the other end is one task, `Duplex`.

What is hard to get right, and hard to test: a connection that closes at any point of
a subscribe call; cancellation that meets a subscription half set up; answers and
notifications in any order; ids the server reuses; a task and its session dropped by
two threads; closing a server from several handles. The hazards in `PROJECT.json`
give the line of each.

## Modules

**`PubSub`**. One action per step of an actor: the handler (`assign_id`,
`assign_id_async`, `reject`, `reject_async`, dropping the `Subscriber`), the request
future (`Poll` takes the message and sends the receipt, `AddSubscription` is
`Session::add_subscription`, `Respond`, `DropFuture`), the client's `Unsubscribe`,
`OnDrop` registration, `CloseConnection` and `DropSession`. `References` says who holds
an `Arc<Session>`; `DropSession` is enabled when nobody does. `Poll` and
`AddSubscription` are separate, since the receipt wakes the handler before the entry
is inserted. A receipt waits in its channel until `ReceiptArrives`.
Two things are assumed of the user's handler and of the locking: handlers let go of the
metadata they are given (one that keeps it keeps the session alive), and the insertion
of an entry and the call for the one it replaces are one step, as the old entry is out
of everyone's reach once it was replaced.
`Subscriptions` is the abstract promise: the life of a subscription as its handler's
author sees it. `Lifecycle` maps the nine variables of `PubSub` to it.

**`SubscriptionManager`** extends `PubSub`: `add` is three steps (`AddAssign`,
`AddInsert`, `AddSpawn`), as nothing is locked in between; `Cancel` is the unsubscribe
handler. `Inline` is the set of calls whose handler runs `add` before it returns to
`Subscribe::call`, so that the request future does not exist yet. The counter has
width `IdSpace` and wraps.

**`Duplex`**. `Duplex::poll` is four loops; an iteration of a loop is a step
and `phase` says which loop the task is in, so users, transport and server act between
any two iterations. `"parked"` is `Poll::Pending`: the task continues (`PollAgain`) only
if something it registered a waker with is ready (`Woken`). The sink buffers
`SinkCapacity` messages. The server is external: it answers in any order, chooses
subscription ids, also ones in use, notifies before it answers, sends null-id errors
and unparsable text, and closes. `End` drops all senders, so everyone waiting fails.
`RpcCalls` is what that promises to users, without ids, queues or a wire.

**`IoHandler`**. `Register` is `extend_with` with what an `IoDelegate` collected
(`add_method`, `add_notification`, `add_alias`, `add_subscription`) or `augment`;
`HandleRequest` is the whole synchronous part of a request: `on_request` of the
middlewares, version checks, `on_call`, lookup, one level of alias, and one future per
call (`handle_call`). A tuple of middlewares asks its first member first. `CallCompletes`
and `FinishRequest` are the polled part. A JSON text is what it parses to: a call, a batch,
or an error. A middleware answers some requests or calls itself and passes on the others.
`log` and `seen` are history: the registrations so far, and those at the time a request
arrived.

**`WsServer`**. Actions of the event loop thread (`ConnectionMade`, `OnRequest`,
`OnMessage`, `DropSession` then one `SignalTasks` for the loop over the slab, which holds its lock), of
executor threads (`ResponseReady`, `SendResponse`, `SessionGone`, `TaskDropped`,
`DropLivenessPoll`, `PumpSends`, `PumpEnds`), of users of sinks, and of closers
(`Shutdown`, `CloseExecutor`). Both kinds of executor are modelled: a shared one
survives the server, a spawned one drops its tasks when closed.

**`HttpServer`**. The life of the server: `SpawnWorker`, `Bind` and `StartReturns` are
`start_http` and the tasks it waits for, with every point at which one can fail; `Close`,
`SendSignal`, `CloseExecutor` and `CloseReturns` are `CloseHandle::close`, whose lock is
held for the whole loop; `Wait` and `JoinReturns` are `wait_internal`. A request is one of
the `Kinds` and goes through the states of `RpcHandlerState`, one action per state: the
middleware and the host in `call`, CORS and the method in `read_headers`, the chunks of the
body, the call. `upgrade` is asked each time the code asks it, so the server may close
between any two. hyper is external: it calls the service, and on the signal drops the
service and drains. `Hosts` and `Cors` are the decisions on headers as operators over
sequences of tokens; parsing, ports, case and wildcards are what the code does to them.

**`StreamCodec`**. `decode` over classes of bytes, with the variables of its loop as
recursive functions. It finds messages the way the code does, so it also shows two things a
reader may not expect: whitespace before a message stays in the buffer and is counted
against it, so that a message after as much whitespace as it has other bytes is not found
until more arrives; and what is not UTF-8 is an error with a separator, and skipped without.
What clients are assumed to send is `Framed`: bytes that `decode`, given one message alone,
takes for one message.

**`Subsequences`**. Filtering and joining of sequences, as `flatten` does to the outputs of a
batch and a stream to the messages sent on it, in a form the prover can reason about.

**`TcpServer`**. `AcceptSocket`, `AcceptAborted`, `AcceptFails` and `Elapse` are
`SuspendableStream` on the listener; a connection is read in pieces of any size (`Read`),
decoded, served one request at a time, and written by `PeerMessageQueue` (`TakePush`,
`QueueEnds`). `PushMessage` is the `Dispatcher`'s, at any time. `RemoveChannel` removes what
is registered for the address, also if that is another connection's by now; an error skips
it, as the `?` in the code does.

**`IpcServer`**. Sessions as in TCP, but requests run concurrently up to
`client_buffer_size`, and responses and pushed messages meet in `SelectWithWeak` (the
`Forward` actions). `InnerHandles::close` is three steps under its lock, taken by the owner,
by a `CloseHandle`, or by the `Drop` of the last one. Names that another server has too begin
with `Ipc`.

**`Servers`** puts the three in one state: they share no state, and the initial state
chooses which one is started. **`Core`** does the same for the parts that need no transport:
`IoHandler`, `SubscriptionManager` and `Duplex`.

**`WsClient`**. The sink of `WebsocketClient` between two adapters of the futures library
(external): the slot of `SplitSink` above it, and the one-message buffer of
`Compat01As03Sink` below it.

The composition of transports and sessions is by assumption and guarantee: `PubSub`
assumes that the futures of a closed connection are dropped in the end, which for the
WebSocket server is `TasksEndWithSession`.

## Runs

| run | question | bounds |
|---|---|---|
| `pubsub` | is every registered subscription unsubscribed exactly once, by client, collision or the end of the session; does a closed session get cleaned up; is `Subscriptions` implemented | three calls, two of them on one session under one name with two ids, one on a connection without a session |
| `pubsub_early_sink` | is every `Sink` unsubscribed with its session | violated, see below |
| `pubsub_reject` | does `reject_async` resolve when the rejection was sent | violated |
| `core` | Handler: one output per call, in order; dispatch by the outermost middleware and the registry at arrival; completion. Manager: can `cancel` reach every running task and no other; does unsubscribing stop the task. Client: own answers, nothing lost in a queue, all calls resolve, an abandoned client ends | Handler: three names, two delegates, two registrations, batches of up to two calls, three tuples of middlewares, all three compatibilities; manager: two connections, one inline and one detached `add`, ids that wrap; client: two calls and a notification, sink of one message |
| `manager_race` | does `cancel` reach a task whose `add` runs on another thread | violated |
| `duplex` | own notifications in order, map of open streams, `RpcCalls` implemented | two subscribers with one name, two ids, two notifications, one odd message, sink of one message |
| `duplex_giveup` | are outstanding requests finished once the handles are gone | violated |
| `ws_server` | slab and tasks agree, the `expect` holds, notifications without gap, statistics balance, everything ends | one connection, two request tasks, two notifications, two closers |
| `servers` | HTTP: which requests reach a method, what the answers say, who returns when and that nothing goes on after that. TCP: peers, exchange, back-off. IPC: statistics, exchange, fairness of the merge, closing | HTTP: six configurations with up to two workers, one request of any kind or two plain ones, one `CloseHandle`; TCP: one client with three messages (space before one, strings, escapes, bytes that are not UTF-8) and two pushes, with and without a separator, or two connections from one address; IPC: four setups of up to two sessions |
| `http_cors` | is a refusal for CORS sent without CORS headers | violated; bounds of `servers` |
| `ipc_stats` | is every IPC session reported closed when the server has stopped | violated; bounds of `servers` |
| `ws_client` | does the queue keep every request | violated; three requests, two control messages |

The bounds are the smallest with all the cases. A collision, a replaced entry, an
answer out of order, a reused slab entry and a misdirected cancellation need two
parties each; the third call of `pubsub` shows the path without a session. A sink of
capacity one is full after one message, so requests queue behind it. Two notifications
are needed for an order or a gap. Sessions, and connections, share nothing but the
pool and the server's close signal, so more of them add interleavings and no
conflicts. In `servers`, requests to HTTP meet only in the life of their workers, so all kinds
are tried one at a time and two at once only as plain calls; the body limit is two, so that
chunks fit one by one and not together; two TCP connections with one address are what it
takes to misplace a peer, and one connection with several messages and pushes, whose bytes
are cut anywhere, to mix up an exchange; two workers are the least with an order of closing, and with one
shared and one spawned executor. `MaxDelay` is between one and two initial delays: the delay
is doubled, and kept. `duplex` uses the symmetry of its users and ids: it checks safety only.
The systems stop when their finite supply of requests is used up, so deadlock
checking is off; what must not get stuck is stated as a liveness property.

### Fairness

Fairness is what executors and threads owe, weak throughout. `PubSub`: a woken future
is polled, futures of a closed connection are dropped, the pool runs its tasks, `Drop`
follows the last reference. `SubscriptionManager`: the thread in `add` goes on, the
unsubscribe handler runs, a task whose receiver is ready is polled. `Duplex`: the
task is polled when woken, the transport drains its sink, and the server answers or
the connection closes; that last one is an assumption on the peer, without which no
call need ever resolve. `IoHandler`: methods complete and futures are polled.
`Core` asks for these of the part that is used: none of its parts can go back to an earlier
state, so one condition for all the steps of a part is enough.
`WsServer`: threads and executors run; methods may hang, peers may stay, and nobody has to
close the server. `Servers`: while a task or a thread of the server can go on, one does. For
HTTP that includes bodies and methods that complete, as a graceful shutdown waits for them;
for TCP the passing of time; for IPC only the threads that close and the task that sees the
stop signal.

### Disagreements between code and documentation

* `pubsub_early_sink`: `assign_id` returns a `Sink` when the id is in the channel. If
  the connection closes before the request future takes it, the sink's subscription is
  never in the session, and nothing unsubscribes it. `assign_id_async` does not have
  this: `AwaitedSinkUnsubscribed` holds and is proved.
* `pubsub_reject`: the future of `reject_async` resolves when the request future takes
  the rejection, before the client is sent anything.
* `manager_race`: `add` makes the id known to the client before it stores the sender. A
  client that unsubscribes in between cancels nothing, and the task runs on. It cannot
  happen when the subscribe handler calls `add` before it returns
  (`CancelReachesInlineTask`).
* `duplex_giveup`: the answer to a call whose future was dropped is an error that ends the
  client, and with it all other outstanding requests.
* `ws_client`: `poll_ready` hands the queue to the sink below and reports readiness when the
  queue is empty, but the last message then still sits in that sink's one-item buffer, which
  the next `start_send` overwrites. A Pong or Close queued while the sink is full is enough to
  lose a message. The comment on the sink promises a queue for that case.
* `http_cors`: `set_response_headers` is given the decision on the origin also for a request
  that is refused for its headers. The text of that refusal says that CORS headers would not
  be sent. `HonestAnswer` makes no claim about the headers of this one answer.
* `ipc_stats`: `close_session` is called when a session ends by itself, and not for the
  sessions that a stopping server drops. `SessionStats` says "Executed when session is
  closed.", and the WebSocket server does so from `Drop`. `SessionsReported` states what holds
  of sessions that end by themselves.

Met while modelling, and without a run of their own:

* `suspendable_stream.rs:13` says that accepting stops "for a specified amount of time". The
  timer is dropped when `poll_next` returns `Pending`, so the deadline wakes nobody.
  `AcceptResumes` states what does hold: the next event of a connection resumes accepting. A
  server without one stays suspended.
* `http/src/lib.rs:262` and `281` say that the `Host` header is validated by default; the
  builder starts with no list, and then every host is valid.
* `http/src/lib.rs:325` and `response.rs:112` speak of status 500 where the code has 503.
* With two or more HTTP threads and a shared executor, `wait` and `Drop` may return while the
  first worker still drains: `try_join_all` ends at the first spawned worker dropped with its
  runtime. `OwnerReturnsAfterServer` leaves that worker out.
* `http/src/lib.rs:189` says of requests that they "are dropped as soon as the server stops".
  On a runtime that goes on they are drained, and only a runtime that is dropped drops them.
  `QuietAfterReturn` states what the owner can rely on in both cases.
* Dropping an IPC `Server` while a `CloseHandle` lives does not stop it.
* A TCP peer whose connection ended with an error stays in the Dispatcher's map.

## Proofs

Every invariant, refinement and action property that a passing run checks is also a theorem,
for all values of the constants that satisfy the named assumptions. TLC evaluates those
assumptions in the runs.

| module | about | theorems |
|---|---|---|
| `PubSubProofs` | sessions, manager | `TypeCorrect`, `Invariance`, `ExactlyOnce`, `NoAwaitedSinkLeaks`, `ErrIsFinal`, `Refinement`; `ManagerInvariance`, `ManagerImplementsPubSub`, `ExactlyOnceBesideManager`, `TasksAreHeld`, `InlineTasksAreReached`, `ManagerTypesHold`, `CancelsOnlyItsOwn` |
| `DuplexProofs` | duplex client | `DuplexInvariance`, `CallsGetTheirAnswer`, `MapIsExact`, `ClientKeepsPromise`, `NoCallIsLost`, `StreamsAreInOrder` |
| `IoHandlerProofs` | request handler | `ResponsesCorrelate`, `DispatchIsAtArrival`, `RegistryIsItsHistory` |
| `HttpServerProofs` | HTTP server | `HttpInvariance`, `ReturnsAfterServer`, `NothingAfterReturn`, `ClosingIsTrue`, `AnswersAreHonest`, `CallsArePermitted` |
| `ServerProofs` | WebSocket and TCP servers | `Invariance`, `SlabStaysExact`, `MetadataAlwaysSet`, `NoNotificationSkipped`, `StatsStayBalanced`; `ExchangesAreInOrder`, `PeersAreTracked` |
| `IpcProofs` | IPC server | `SessionsAreReported`, `SessionsExchange`, `SelectIsFair` |
| `StreamCodecProofs` | codec | `SeparatedIsFramed`, and the lemmas the exchanges rest on |
| `SequenceProofs` | filtering, joining and cutting of sequences | lemmas |

### Sessions

For all sets of sessions, ids and requests: `ExactlyOnce` (`UnsubscribedOnce`),
`NoAwaitedSinkLeaks` (`AwaitedSinkUnsubscribed`), `ErrIsFinal` (`ErrMeansUnregistered`) and
`Refinement` (`PubSub` implements `Subscriptions`). `PubSubAssumption` says that the functions
that say where calls arrive have their types, and that the null values are not ids or requests.

`UnsubscribedOnce` is not inductive by itself. Whether the removal of an entry is the
first call for its subscription depends on whose entry it is, and whether it was
registered depends on where the future and its channel are. The
inductive invariant `IInv` adds two facts, both also checked by the run `pubsub`:

* `RendezvousInv`: handler, channel and request future are in step; a message is
  taken exactly by a future that has gone on, and a handler that awaits a receipt has
  sent something;
* `EntryInv`: an entry of a session's map belongs to a registered call of that session
  whose id and name are its key, and a dropped session has no entries and no call that
  could still add one.

The step of `IInv` is proved one conjunct at a time and in each one action at a time;
the other theorems follow from `IInv` or, for `Refinement`, from `IInv` and one step
per action that maps it to a step of `Subscriptions` or to a stutter.

### Subscription manager

`ManagerImplementsPubSub` shows that the manager is one of the handlers `PubSub` allows, so
the theorems above hold beside it (`ExactlyOnceBesideManager`). `TasksAreHeld`
(`NoOrphanTask`) and `InlineTasksAreReached` (`CancelReachesInlineTask`) hold for every id
space, also one so small that the counter wraps and ids collide. `ManagerAssumption` says
that the ids are the numbers below `IdSpace` and that inline calls are calls. The invariant
`ManagerInv` adds to the types and to `RendezvousInv`:

* `SenderInv`: a sender is stored under the id of its own call, and between the insert and
  the end of the task it is in the map unless the task was told to stop. The thread inside
  `add` has to be part of it, since a task is spawned after its sender was stored;
* `InlineInv`: a handler that calls `add` inline has returned from it before its session can
  hold the entry. This is what fails for a detached `add`.

`CancelsOnlyItsOwn` (`OnlyOwnCancel`) needs unique ids, as the code does, and states them as
`UniqueIds`: a numeric provider and no more calls than the counter has values, wherever it
starts. That the ids differ is then not assumed but part of the invariant `UniqueInv`: the
counter has advanced once per `add`, modulo its width, so every id in use is behind it.

### Duplex client

For any number of users, names, ids and messages and any capacity of the sink:
`CallsGetTheirAnswer` (`OwnAnswer`), `MapIsExact` (`MapHoldsOpenStreams`), `NoCallIsLost`
(`CallTracked`), `StreamsAreInOrder` (`OwnNotifications`) and `ClientKeepsPromise` (`Duplex`
implements `RpcCalls`). `DuplexAssumption` says that the
three kinds of users are different and that null values are not ids or users. Whose answer
a message is depends on the id it carries, and that on a request sent long before, so
`DuplexInv` is about everything on its way:

* `TrafficInv`: each request and each message in any of the five queues carries the id
  given to its user, and an id once given is never given again;
* `PlaceInv`: a user is in the client channel, in the pending requests or in the map, in one
  place and once, and is then open or dropped by its user; it contains
  `MapHoldsOpenStreams`, which is not inductive without the other two places;
* `AnswerInv`: a call that is not answered has received nothing; with it `OwnAnswer` is
  inductive.

The refinement follows from `DuplexInv` with a lemma per branch of the handler.
`CallTracked` is inductive beside `DuplexInv`, and its proof follows the traffic: a request
leaves a queue only into the next one or with its answer, and an answer only with its entry.

`OwnNotifications` needs `NoteInv`, about the order of what is on its way to the client
(`Down`) and of what its subscribers asked for (`Up`). The difficult case is a notification
under an id that the server has since given to another subscriber (`Foreign`): it was sent
before the answer that carries the id, so it is ahead of that answer in `Down` and finds the
subscriber not yet in the map (`Own`). `Stage` and `SentOnce` say how far each subscription
has come, `Ordered` and `DownOrdered` that numbers only grow along the way.

### Request handler

For any names, delegates, registrations, middlewares and length of a batch:
`ResponsesCorrelate` (`Correlated`) and `DispatchIsAtArrival` (`DispatchedAtArrival`).
`IoHandlerAssumption` gives registrations, names and null values their types.
`RegistryIsItsHistory` relates the map that `extend_with` and `augment` change to the
sequence of registrations: each name stands for the last one. `IoInv` adds `Correspond`:
from the dispatch of a request on, each future belongs to the call at its place and holds
what the registry at arrival made of it. The response is a filtered sequence of outputs, so
the theorems rest on `SequenceProofs`: filtering two sequences at the same positions keeps
them aligned.

### HTTP server

For any number of workers and requests and any settings: `ReturnsAfterServer`
(`OwnerReturnsAfterServer`), `NothingAfterReturn` (`QuietAfterReturn`), `ClosingIsTrue`
(`ClosingMeansClosed`), `AnswersAreHonest` (`HonestAnswer`) and `CallsArePermitted`
(`PermittedCall`). `ConfigurationsAssumption` gives settings their types,
`RequestsAssumption` bodies theirs, and says that no text of an origin is the absent one.
`HttpInv` adds to those properties:

* `CloseInv`: whoever takes the executors has them all, and a spawned worker that is in
  nobody's hands is over; the owner goes on only when the other closer has finished;
* `RequestInv`: in each state of `RpcHandlerState`, which checks the request has passed
  (`Checked`), and that the size counted so far is the sum of the chunks read (`Totals`). Of
  the checks the code only keeps what CORS said and moves on, so what was checked has to be
  read off the state.

`NothingAfterReturn` also needs `ServedInv`, that a request in progress is at a worker that
serves or drains: when the owner has returned, `ReturnsAfterServer` says that no such worker
has a runtime of its own, so no request there has a step left.

`DropRequests` is the lemma on the end of a runtime, which drops all its requests at once.

### WebSocket server

For any number of connections, tasks, slab entries, closers and notifications:
`SlabStaysExact` (`SlabExact`), `MetadataAlwaysSet` (`MetadataSet`), `NoNotificationSkipped`
(`NotesArePrefix`) and `StatsStayBalanced` (`StatsBalanced`).
`SlabExact` and `MetadataSet` are inductive with the types. The other two need what the
states in between look like, and `IInv` adds it:

* `StatsExact`: a session is counted as opened exactly when it was made, and as closed
  exactly from the beginning of its `Drop`;
* `NotesFollow`: while the task that sends notifications runs, those in the channel are the
  numbers that follow the ones sent, up to the last one notified (`Follow`); before it is
  spawned there are none.

### Framing, TCP and IPC servers

`StreamCodecProofs` shows that it does not matter how bytes are cut. `Served` relates what a
connection has handled to what is in its buffer and on its wire: for some k, the texts among
the first k messages have been handled and buffer and wire together hold the others, whole.
`ServedRead` and `DecodeStep` show that reading any number of bytes and one call of `decode`
keep it, and `ServedIs` that it gives the client's messages in order, all of them when the
bytes are used up. The reason is that `decode` looks for the shortest beginning that ends a
message, and what follows in the buffer cannot change that (`FirstEnd`). Clients are assumed
`Framed`. With a separator that is what a message without the separator is
(`SeparatedIsFramed`); without one it is a condition on each message alone.

* `ExchangesAreInOrder` (`TcpExchange`), from `ConnsAssumption`: `ExchangeInv` is `Served` of
  each connection with what was written for it.
* `PeersAreTracked` (`TcpPeersTracked`): the property is inductive from the start of the
  server to its stop (`PeersInv`), as it depends only on where the connections are.
* `SessionsExchange` (`IpcExchange`) and `SessionsAreReported` (`SessionsReported`), from
  `SetupsOK`, which also asks for more ids than connections: `SessionInv` says for each
  session where each of its requests is, in progress, ready, without a response or
  answered, once; `IdsInv` that ids are given in order.
* `SelectIsFair` (`ResponsesNotStarved`), an action property: with `SessionInv`, the last item
  written is a pushed message only if `use_strong` is set, and each kind of step (`Turn`)
  writes a pushed message only if it is not or no response is ready.

### Induction over data

The library's induction theorems take an operator, which the installed provers cannot
instantiate. `SequenceProofs` gets by with sets: from the well-founded order of the naturals
it derives `InductionUpTo` and `Recursion`, whose parameters are a set and a function, and
from these what `Subsequence` and `JoinLast` compute for every sequence. What `EndsMessage`
computes (the lexer of `decode`) is used only through the fact that it is a function of the
bytes so far, so nothing is proved of the JSON it accepts.

### Only model-checked

Liveness under fairness, for which the prover has no rules: `ClosedSessionIsCleaned`,
`UnsubscribeStopsTask`, `CallsResolve`, `DroppedClientEnds`, `RequestCompletes`,
`TasksEndWithSession`, `CloseEndsServer`, `CloseFinishes`, `AcceptResumes` and
`IpcCloseFinishes`. `Hosts` and `Cors` are used by the HTTP theorems as the decisions they
are, and `WsClient` has only the run that shows a lost request.

## Not modelled

* Derive macros generate code at compile time; typed wrappers and builders convert and store
  values; the stdio server is one loop over standard input.
* Client transports other than WebSocket: the local and the IPC one connect `Duplex` to a
  handler or a codec, and the HTTP one is a connection per request in hyper.
* In the request handler: parameters, metadata values and the text of errors, and middlewares
  that change a request or work on its response, which are code of a user.
* In the WebSocket server: broadcasting and the settings passed to the WebSocket library.
* In the HTTP server: what hyper does with connections, and the bodies of responses.
* In the TCP server: `RequestContext::sender`, if the metadata keeps it, and the caller's side
  of `close` and `wait`.
* In the IPC server: security attributes, and a `client_buffer_size` of zero, with which no
  request is ever read.
* In `Hosts`: glob syntax other than `*`.

## Plan

1. `Duplex` over `WsClient`, and over the local transport with `IoHandler` and `PubSub`.
2. A grammar of JSON texts for which `Framed` is proved without a separator.
