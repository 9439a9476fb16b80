# A verification project for TopLib

TopLib is a Go library of server building blocks: message queues over a
websocket connection, a websocket server with its client registry, a websocket
client, an HTTP server, NATS connections and subscriptions, expiry
notifications over Redis, prefixed views of Redis, numeric ids, transactions,
upserts and entities over a database, a service base, and try/catch helpers.
Much of it is small goroutines that share a channel, a connection or a map, and
that is what this project models: TLA+ modules written from the code, small
instances that TLC checks, and theorems that TLAPS proves for every instance.
`PROJECT.json` maps every definition to the lines it stands for.

## 1. Inventory

| Part (source) | State | Operations | What is hard | What makes it correct |
|---|---|---|---|---|
| **MessageSender** (`queue/message_sender.go`) | `sendChan`, context, ticker, wait group, the connection's write side | `Start`, `SendMessage`/`SendRawBytes`, `Stop`, `IsRunning`, goroutine `sendPump` | callers blocked on a full channel while `Stop` cancels and closes; a 5 s timeout; the pump ending on a write error | accepted frames are neither lost, doubled nor reordered; an error means "not sent"; `Stop` returns |
| **MessageReceiver** (`queue/message_revice.go`) | `messageChan`, context, wait group, processor, sender | `Start`, `Stop`, `SetSender`, `SetProcessor`, goroutines `receivePump` and one `processMessage` per message | a full channel drops messages; processor goroutines outlive the pump and reply into a sender that is being stopped | the consumer sees messages in order; replies go through the sender as any call does; `Stop` returns when the read can end |
| **Client manager and server session** (`libs/server/ws_client_manager.go`, `ws_client.go`) | `clients`, `userIdMap`, channels of the manager; per client a send channel, a connection and two goroutines | register, unregister, broadcast, `Kick…`, `ClientKeepLive`, `Stop` | maps changed by the manager and by callers; rendezvous channels; channels closed by several parties | only a client that a call from outside had in hand is a reason to panic; a closed client is soon out of the registry, and gone |
| **WSClient** (`libs/ws_client/ws_client.go`) | `sendChan`, context, connection | `Start`, `SendMessage`, `Close`, three goroutines | two goroutines write to one connection; write errors are ignored | order; losses are noticed; everything ends |
| **HTTP server, access check, handler** (`libs/server/server_http.go`, `backend_http.go`, `access.go`, `handler.go`) | the engine, the signal channel; a token per user in Redis; per route one request value | `Startup`, `StartWithGracefulShutdown`, `WaitForShutdown`, `GracefulStop`, `Stop`, `Backend.Stop`, `Access`, the route function | shutdown against running requests; tokens replaced meanwhile; requests that share the route's value | a shutdown that reports success has let every request finish; a handler gets its own request's values |
| **HTTP requests** (`utils/http.go`) | attempts of a call | `PerformHTTPRequest` | retries against a server that may have executed the request | a failed attempt is tried again or reported (it is not, section 6) |
| **Redis notifications** (`libs/redis/redis_notification.go`, `redis_subscribe.go`) | timers and locks in Redis, one subscription per process | `PutNotification`, `lock`, `unlock`, `Subscribe` | all processes see each expiry; answers get lost; processes crash | handlers of a value exclude each other; a payload reaches a handler although a node crashes |
| **Redis views** (`libs/redis/redis_view.go`, `redis_hash.go`, `redis_list.go`, `redis_set.go`, `redis_zset.go`, `redis_geo.go`, `redis_internal.go`) | a prefix per view; the keys and their types and times to live in Redis | some thirty commands, `GeoCalculateDistance` | some commands send the key without the prefix; a calculation of four commands on a temporary key | a view is a store of its own, beside one that all share for the names sent as they are |
| **NATS connections** (`libs/nats/nats_connection_manager.go`, `nats.go`, `subscribe.go`) | map of connections under an RWMutex, contexts, the reconnect channel | `GetNatsManager`, `GetClient`, `StartAll`, `CloseAll`, `Start`, `Stop` | a `Start` that blocks under a lock; reconnects during a refresh | no connection leaks; no reconnect is missed |
| **NATS subscriptions** (`libs/nats/subscribe.go`, `publisher.go`) | list of subscriptions, durable consumer, stream | `StartSubscription` with and without a stream, `StopSubscription`, `StopAllSubscriptions`, `Stop`, the goroutine of a subscription | redelivery, lost acknowledgements, handler panics, a callback that blocks in a full channel | acknowledged means handled; a live subscription gets the message handled |
| **Uuid worker** (`libs/uuid/uuid.go`) | timestamp and number per worker | `Get`, `Unmarshal` | a used-up millisecond, a clock set back, bit widths | ids are unique and can be taken apart |
| **Transactions** (`libs/databases/common.go`) | a session, its open transaction, the first error | `WarpSession`, `SessionWrapper` | errors and panics between steps, autocommit after a rollback, a lost answer to `Commit` | all or nothing; results are true; nothing stays open |
| **Upserts** (`libs/databases/dao.go`) | rows of a table | `Upsert`, `UpsertById`, `UpsertMany`, `Delete` | a look and a write that are two statements, inside and outside of transactions | one row per key, but for races |
| **Entities** (`libs/databases/entity.go`) | an entity and the session it was given | `NewSession`, `Create`, `Update…`, `Delete…`, `Begin`, `Commit`, `Rollback`, `Close` | `NewSession` returns the entity itself, so all its users share the session | the owner's transaction is atomic |
| **Package variables** (`libs/conf/conf.go`, `libs/logs/logger.go`, `libs/redis/redis_cmd.go`, `libs/databases/mysql.go`) | `config`, `Log`, `redisCon`, `dbConn` | `Init`, `Get`, `GetLogger`, `GetRedisDb`, `GetMySqlDB`, `GetDao` | no lock; first use initialises | everybody gets what the last `Init` set |
| **Service base, signals** (`services/base_service.go`, `utils/signal.go`) | `isRun`, `cancel`; signal channels of one place | `Init`, `Start`, `Stop`; `MakeShutdownCh`, `MakeSighupCh` | test and set without a lock; signals that are dropped | a stopped service left no context; the last signal is not missed |
| **Try/catch** (`libs/errors/try_catch*.go`) | registered handlers | `Try`, `Catch`, `DefaultCatch`, `Else`, `Finally`, `Do`, `TryFunc` | panics in handlers and in finally | the right functions run; nothing uncaught is lost |

Interactions: the receiver replies through the sender (`MessageQueue` composes
the two); the client manager and the session goroutines talk over channels and
share maps (one module, `ClientManager`); a NATS subscription lives on a
connection of the manager and takes one of two branches (`NatsSubscription`
extends `JetStreamSubscription`); upserts run inside the transactions of
`SessionTx` and beside them on one table (`Database`); a caller of
`PerformHTTPRequest`, the access check and the handler meet in `HttpServer`;
ids, package variables, services and signals belong to one process (`Process`).

**Not modelled**, with the reason: the HTTP middleware for headers, CORS and
logging, the registration of routes, the codecs and protocol envelopes (the
dispatcher appears as the processor of `MessageReceiver`), error values, log
output, JWT and encryption, random strings, paging and time types, the LLM
client: calls of other libraries, formatting, or cryptography, with no state of
their own. Of the Redis views the commands that only read; of the data access
objects the queries. A concurrent map access, on which Go's runtime may abort the
process, is not an outcome in the models: where maps are used without a lock
(`ClientManager`, `conf`), they show what the interleavings do that do not abort.

## 2. Modules

| Module | Models | Notes |
|---|---|---|
| `MessageSender` | the sender, one action per step of `sendPump`, of a call, and of `Stop` (cancel, stop ticker, close channel, wait) | a frame is the call that gave it; `hand` is the frame between receive and write |
| `OutboundQueue` | abstract: a bounded queue that accepts, delivers in order, refuses, and shuts down | implemented by `MessageSender` |
| `MessageReceiver` | the receiver; the sender is an interface | used by `MessageQueue` only |
| `MessageQueue` | both on one connection; a reply is a call of the sender | a panic in either half ends the process |
| `ClientManager` | manager loop, client goroutines, the calls that touch the maps directly | rendezvous channels are joint steps; finding, closing and deleting a client are steps of their own; a range visits the clients one by one; anybody may call `UnregisterClient` for a client that was registered |
| `WSClient` | `SendMessage`, `readPump`, `writePump`, `pingPump`, `Close` in three steps | overlapping writes may cut a frame or panic, as the websocket library does |
| `HttpServer` | both ways to start, signals, the four ways to stop, `Access`, the route function, `PerformHTTPRequest` | a request is an attempt of a call; `Bind` sets the shared `h.req` field by field |
| `RetryNotification` | Redis timers and locks, nodes that crash, restart, lose events and answers | a value is decoded from the key as `decodePayload` does |
| `JetStreamSubscription` | the JetStream branch of `StartSubscription`, the fetch loop, the stops | the stream and its durable consumer are external |
| `NatsSubscription` | extends it with the branch without a stream: the library's callback, the channel, the goroutine | a connection is of one kind for its life |
| `NatsConnManager` | the map under its RWMutex (a waiting writer stops new readers), `Start`/`Stop`, the reconnect handler | |
| `UuidWorker` | `Get` with the field widths as constants, `Unmarshal`, the clock | |
| `SessionTx` | `WarpSession` and `SessionWrapper` over a session | outside a transaction a write is durable at once |
| `Upsert` | the upsert family, statement by statement | rows of a key form a sequence |
| `EntitySession` | an entity, its owner with a transaction, and goroutines that share the entity | whose session a call uses is decided when it is made |
| `Database` | `SessionTx`, `Upsert` and `EntitySession` together: a unit's writes are upserts in its transaction | locks and the unique index are external; what a commit does to the rows of a key is given at once (`AppliedAll`: an update renames them, the insert adds one); a behaviour has units and workers, or an entity. A transaction may read a snapshot, as MySQL's do (`Views`, `Looked`), or the latest rows; in `Database` the rows, not only the statements, decide what a look finds |
| `RedisView` | the commands that change Redis, as each sends its key; a distance calculation command by command | a key is the sequence of its parts; a value its type and the views whose data is in it: a merge carries over that of its sources |
| `PrivateStores` | abstract: a store of its own for every view and one that all share; the ways between them are `Merge`, into a view, and `Share` | implemented by `RedisView` |
| `Globals` | `Init` and the getters of the four packages, in the steps in which they touch the package variable | |
| `ServiceLife` | `Init`, `Start`, `Stop` of a service; the two signal goroutines | |
| `Process` | `Globals`, `ServiceLife` and `UuidWorker` together | they share no variable, so a behaviour is about one of them |
| `TryCatch` | registration, `Do` step by step, `TryFunc` | errors that wrap errors |
| `…Proofs` | theorems: `MessageSenderProofs`, `MessageQueueProofs`, `WebProofs` (of `HttpServer`, `ClientManager` and `WSClient`), `RedisProofs` (of `RedisView` and `RetryNotification`), `DatabaseProofs`, `NatsSubscriptionProofs`, `NatsConnManagerProofs`, `ProcessProofs` (of `Process` and `TryCatch`) | section 5 |
| `MC…` | instances for TLC | |

Variables carry the names of the Go fields where there is one; `history:` in a
comment marks a variable that only properties read. What a library does
(`gorilla/websocket`, `echo`, `nats.go`, Redis, xorm) is modelled from how the
code uses it and marked external in the map. A definition whose comment begins
with *Mutant* is a plausible bug: put in place of its original it violates the
property named in `PROJECT.json`, which shows that the property depends on that
code.

## 3. Runs

`tlc -config MCx.cfg MCx`; each takes less than four minutes on two cores.

| Run | Shows | Bounds and why they are enough |
|---|---|---|
| `sender` | `Conservation`; refinement of `OutboundQueue`; `StopReturns`; `AcceptedIsWritten` | 4 calls, 2 slots: the channel fills, two callers block, are released by room, timeout or cancellation, or call too late and panic |
| `queue` | `ArrivalOrder`, `AnsweredOnce`, `OnlyCheckedRepliesPanic`, `ReceiverStopReturns`, `GoroutinesEnd` | 3 frames, 2 slots for messages and 1 for replies, all calls of the sender are replies; a receiver with a consumer queues two messages and drops the third, one with a processor reads 2 frames, so that one reply is queued and one blocks; both halves stop at any point |
| `manager` | `OnlyTouchedPanic`, `ClosedIsOnItsWayOut`, `ClosedMeansGone` | 2 clients that share a session id, of two users, 1 slot, 1 broadcast, one call from outside: each pair of actors meets, an entry is replaced, and the channel is full while something is closed |
| `retry` | `OneHandlerPerValue`, `OnlyHolderUnlocks`, `PutIsHandled` | 2 nodes, 3 values of which two share a lock, 2 puts (the same value may be put twice), 2 tries, 1 fault: a crash, a lost event or a lost answer, which leaves one node without fault |
| `nats_subscription` | `AckedWasHandled`, `OnceIfTimely`, `OnlyHalfStopsStick`, `StoredIsHandled` with a stream; `GivenIsHandled` without | two subscriptions of one subject, or of two, on one consumer with a message of each subject and batches of 2: redelivery to the other subscription, a mismatch in a batch, a subscription that passes over the other's message and then goes, a half failed stop (the stops are run with one message); without a stream 3 messages through a channel of 1 place: one in hand, one queued, one whose callback blocks |
| `nats_manager` | `ClosedMeansAll`, `ReconnectNotLost`, `CloseAllReturns` | 3 configurations of 2 names, 1 `StartAll`, 1 start by name, 1 `CloseAll`, 2 reconnects: the second reconnect finds the channel full, the writer waits behind both readers |
| `ws_client` | `LossIsNoticed`, `CloseEndsAll`, `PeerLossEndsPumps` | 3 frames, 1 slot: one frame in hand, one queued, one blocked; three losses would break `LossIsNoticed` |
| `try_catch` | `RanExactly` | chains of up to 4 handlers, run twice, three errors that wrap each other and a panic value that is no error |
| `database` | `AllOrNothing`, `ResultIsTrue`, `NothingLeftOpen`, `OnlyRacesDouble`; `EntityAtomic` | one unit of each kind with 2 upserts, in transactions with a snapshot or without, one upserter, one upsert by id or one deletion, 2 keys of which one is unique: looks and writes of a key interleave in and outside of transactions, and a row is committed behind a snapshot; an owner with 2 writes and 2 sharers of its entity |
| `http` | `NilMeansDrained`, `AloneGetsOwn` | 2 calls of 2 attempts, 2 fields, 2 tokens of one user, one stop besides the signal: two requests in the handler together, one refused and tried again, one whose token is replaced |
| `redis_view` | `ImplementsPrivateStores`, `GeoIsOwn` | 2 views with a common first part of their prefixes, 2 names, at most 2 keys at a time, 2 distance calculations of one view: a merge has another view's data, its own and none as its sources. The two uuids are symmetric: no property tells them apart, and none of the checked formulas is a liveness property |
| `process` | `LastInitCounts`; `StoppedMeansCancelled`; `SignalsArrive`; `FittingIdsUnique` | 3 goroutines and 5 calls for each package, without a master/slave setting that opens; 3 users and 3 contexts of a service; 3 SIGHUPs (one is dropped), 2 SIGTERMs; 2 workers with 1 bit of number |

Deadlock is checked in `sender` and `queue`, where the end of the system is an
action (`Terminated`). The others may stop: clients are gone, all puts are
handled, a bound is reached.

What the properties except, they name. `OnlyTouchedPanic`: clients that a `Kick`,
a `Stop`, `ClientKeepLive` or an `UnregisterClient` of another goroutine had in
hand. `OnlyHalfStopsStick`: subscriptions of the subject of an entry that a half
failed `StopAllSubscriptions` left. `StoredIsHandled`: the time while a
subscription of another subject fetches from the same consumer. `OnlyRacesDouble`:
keys that two looked for in vain, or that a look overlooked. `AloneGetsOwn`:
requests that met another one in the handler, or do not send every field.
`EntityAtomic`: the time after somebody else opened a session on the entity.
`LossIsNoticed`: clients whose two writers have met. `ReconnectNotLost`: reconnects
before `Start` has installed its handlers. `ClosedIsOnItsWayOut`: the moment
between a close and its delete. `LastInitCounts`: an `Init` that another one
overlapped. `StoppedMeansCancelled`: overlapping calls of the same method.
`FittingIdsUnique`: numbers that do not fit, and a clock that is set back.
`CloseAllReturns`: a `StartAll` that sits in a connection nobody stops.
`PutIsHandled`: a lock that is left behind. Section 6 says what the code does in
the excepted cases.

## 4. Fairness

Weak fairness of a goroutine's steps stands for Go's scheduler, which runs every
goroutine that is not blocked; of timers and deadlines, that they expire; of
handlers, that they return (or panic). Strong fairness is used where a `select`
with several ready cases is reached again and again: Go chooses at random, so a
case that is ready infinitely often is taken (`PumpReceive` of the sender, the
cancelled cases of `WSClient`), and for a message that is available at infinitely
many fetches, because the stream is delivered in order; nothing is assumed about
which subscription makes such a fetch. Of the client manager only the clients'
writers are assumed to run. Without a stream, the client library delivers and a channel operation
that stays possible is done. A waiting `CloseAll` gets the lock once the readers
before it are gone, as `sync.RWMutex` promises. The application receives from
the channel of `MakeSighupCh`. Nothing is assumed of owners, callers, peers or
signals: no one has to start, stop, send or publish.

## 5. Proofs

Every theorem is about all behaviours of a specification, for every value of the
constants that satisfies the assumptions below. 28 of the 40 properties of the
runs are stated by a theorem: all but the liveness properties.

| Module | Theorems | For every |
|---|---|---|
| `MessageSenderProofs` | `TypeCorrect`, `QueueConserved`, `ResultsAreTrue`, `ClosedAfterDrain`, `FramesOnce`, `QuietAfterStop`, `BlockedCallersSafe`; `Refinement`: the sender implements `OutboundQueue` | capacity and set of calls |
| `MessageQueueProofs` | `RepliesConserved`, `RepliesAnswer`, `LateRepliesSafe`, `LateNeverPanics`, `MessagesInOrder`, `PumpNeverPanics` | set of frames and both capacities |
| `DatabaseProofs` | of `SessionTx`: `TypeCorrect`, `Atomic`, `Truthful`, `Closed`; of `Database`: `Implements` (it implements `SessionTx`), `UnitsKeepPromises`, `EntityIsAtomic`, `RacesDouble` | set of units, workers, sharers and keys, number of writes |
| `WebProofs` | of `HttpServer`: `TypeCorrect`, `Drained`, `OwnValues`; of `ClientManager`: `PanicsAreTouched`, `ClosedLeave`; of `WSClient`: `LossBounded`, `AcceptedAccounted`, `BlockedSendersSafe` | set of calls, fields, tokens and callers of `Shutdown`, number of retries; set of clients, sessions, users and callers; set of frames and capacity |
| `NatsSubscriptionProofs` | `AckedAreHandled`, `HandledOnce`, `HalfStopsStick` | set of subscriptions and messages, size of a batch, capacity |
| `NatsConnManagerProofs` | `TypeCorrect`, `ClosedAll`, `NotLost` | list of configurations, number of goroutines and reconnects |
| `RedisProofs` | of `RedisView`: `TypeCorrect`, `GeoOwn`; `Refinement`: the views implement `PrivateStores`; of `RetryNotification`: `RetryTypeCorrect`, `MutualExclusion`, `LocksAreSafe` | set of views, names and distance calculations; set of nodes, goroutines and values, any number of faults |
| `ProcessProofs` | of `Process`: `NoContextLeft`, `InitCounts`, `IdsUnique`; of `TryCatch`: `HandlersRun`, `TryTypeCorrect` | number of goroutines, calls, contexts, workers and ids; number of handlers and calls, every relation between errors |

Each rests on an inductive invariant that is stronger than what it states.

*Sender.* Conservation alone is not inductive: that no frame is dropped between
receive and write needs the relation of `hand` to the pump's place (`HandInv`);
that the pump is gone when `Stop` returns needs the wait group to count it
(`WgInv`) and `Stop` to take its steps in order (`StopInv`); that a blocked
caller never meets the closed channel needs that the context is cancelled before
(`ParkedInv`, `CloseInv`); that the close frame comes last needs that the pump
gets there only with a closed, empty channel (`ClosingInv`). `Inv` is their
conjunction. The refinement maps `wire` to what was delivered and the failed
calls to what was refused; each step is a step of the queue or a stutter. A frame
is written once (`FramesOnce`) because a call that enters the channel has not
returned nil before, so by `NoGhostSend` it is not among the accepted yet.

*Sender and receiver.* What the goroutines of a receiver do to the sender is a
step of the sender, and the answers they get are answers any sender could give
(`SenderStep`, `ReceiverStep`). The composition is built so, and the lemmas
`ImplementsSender` and `ImplementsReceiver` say no more than that; they are there
to carry the sender's theorems over, through an instance of their module
(`RepliesConserved`), and to let each half be reasoned about alone. The two halves do not see each
other's invariants: `OrderInv`, with a place in `read` for every queued message,
before that of the frame in hand, gives the order of messages for any number of
drops; `PumpInv`, that `Stop` waits for the pump before it closes `messageChan`.
`AnswerInv` ties the halves together: a call of the sender belongs to a goroutine
and a goroutine to a frame that was read. With the sender's theorems it gives that
a frame is answered once at most and nothing else is written (`RepliesAnswer`,
which states `AnsweredOnce`). The
same facts bound the race of section 6 between the check of `IsRunning` and the
send: a goroutine that has not asked when the sender is cancelled never meets the
closed channel, because the check turns it away, and one that is blocked in the
sender does not either, because the cancellation lets it go before the channel is
closed (`WaitInv`, `LateRepliesSafe`).

*Notifications.* Mutual exclusion is not inductive because a node enters its
handler on the strength of what it read from Redis. `HolderInv`: whoever is in a
try is the owner written in the lock of the value. `PutInv`: what is put back has
a delay left.

*Transactions.* `OpenInv`: the open transaction holds all writes so far and none
is durable. `WorkInv`: a unit at work is in a transaction exactly when it carries
no error; this is why `Execute` must look at the error it was given, since after
a rollback the session writes durably. `OutcomeInv` ties result, error and
database. Every step of `Database` is one of `SessionTx` or leaves its variables
alone (`Implements`), so this holds among the workers that share the table.

*Table.* A look and the write it decided are two steps, so `OnlyRacesDouble` says
nothing about the moment between them. `Claims`: who is about to insert a key, a
unit with an insert planned or pending, or a worker that looked in vain.
`FreeInv`: of a key that was neither raced for nor overlooked there is at most one
claim, and then no row. A look is wrong in two ways: its row comes later (`raced`), or
it is there and not found (`overlooked`: an upsert by id that asks with the new
values, or a transaction that reads its snapshot). `UniqueInv`: of a key with a unique index there is at most one row, and
none while a transaction inserts it. `PlanInv`: a unit inserts a key once.

*Entity.* `EntityInv`: until somebody replaces the session, the entity has the
owner's, and its transaction holds what the owner wrote and is not saved.

*HTTP server.* `DrainInv`: whoever is in `Shutdown` has closed the listener, so
nothing becomes active behind a result of nil. `SerialInv`: attempts before the
current one were refused and later ones do not exist, so that one call is in the
handler once. `MetInv` and `OwnInv`: who
is alone in the handler is the only writer of `h.req`, and how far `Bind` has
come. `TokenInv`: the token in Redis is never one that was replaced.

*Client manager.* `CallInv` says, of each place in the manager and in a call from
outside, which client is in hand: outside always one that is touched; in the
manager one that leaves and is not closed yet, or one that a broadcast found open,
as long as it is not touched. `ClientInv`: only a client that leaves, or one that
was touched, is closed. `RegistryInv`, that an entry is a client under its own
session id, gives `ClosedIsOnItsWayOut`: whoever closed a client deletes its
entry, or that of a later client under the same id. Nothing is assumed of session
ids: clients may share them.

*Websocket client.* `LossInv`: while the two writers have not met, a frame is
written only on a connection on which no write failed, so a first loss breaks the
connection, and after it `writePump` takes at most one more frame, for which the
library gives it no writer. `TransitInv`: an accepted frame is on the wire, in hand, in the
channel or lost. `BlockedInv`: nobody is blocked once the context is cancelled,
and `Close` cancels before it closes the channel.

*Subscriptions.* `AckInv`: a goroutine that acknowledges has handled. `StreamInv`:
a message is in one batch and counted as delivered while it is there, unless it
expired; `CoreInv`: without a stream it is in one place between the library and
one handler. `ListInv`: each subscription is listed once, all that are subscribed
are, and what else is in the list was left there by a half failed stop.

*Connections.* `LockInv`: the readers-writer lock excludes. `MapInv`: a connection
leaves the map only stopped, and `CloseAll` has still to visit all that is left.
`LoopInv`: the reconnect handler of a running connection belongs to a running
loop; without it the token might be put where nobody looks.

*Views.* The lemmas about keys carry both results: if no prefix begins another,
two keys of different owners differ, the temporary keys of distance calculations
and the names that are sent without a prefix included. `Owned` says whose data may
be where: in a view that of others only in a sorted set, under a temporary key
only its distance, and a name has no time to live. Each command is then a step of
one private store, a step of the shared one, a merge from the shared one into a
private one, or invisible.

*Process.* `LifeInv`: while no two calls of a method overlap, a starter finds the
service stopped and a stopper finds it running, and the contexts cancelled are
all but perhaps the last. `GlobalInv`: while an `Init` is under way nothing is
promised, and one not marked as raced is alone; what it has done so far is what
it will return. `UuidInv`: the fitting ids of a worker are not after its
timestamp and number, so that the next one is new.

*Try/catch.* `RanExactly` speaks of calls that are over. `DoInv` says what each
place of `Do` implies before that: no handler has run while the error is matched,
the catches before the current place do not match it, and from `finally` on the
one handler that the error has was run, or the error is on its way out.

**Assumptions**, each evaluated by TLC on the instance of its run: capacities and
numbers of retries are positive; the kinds of goroutines are disjoint
(`ManagerAssumption`, `DatabaseAssumption`), the sharers of an entity finitely
many (`EntityAssumption`), prefixes and configurations sequences; no prefix
begins another (`ViewAssumption`); the value that stands for "no error" is neither
an error nor a value a panic carries (`TryAssumption`); an invalid request sends a
value to refuse (`HttpAssumption`); a fetch returns finitely many messages (guard of `Fetch`); and
the fields of an id do not overlap as long as the number fits (`UuidAssumption`).
The last is a fact about `|` on numbers of given widths: as a sum over bits it
would need an induction over the bits, which the provers cannot do.

**Only model-checked**, and why:

* liveness under fairness: `StopReturns`, `AcceptedIsWritten`,
  `ReceiverStopReturns`, `GoroutinesEnd`, `ClosedMeansGone`, `PutIsHandled`, `StoredIsHandled`,
  `GivenIsHandled`, `CloseAllReturns`, `CloseEndsAll`, `PeerLossEndsPumps`,
  `SignalsArrive`: out of the prover's reach;
* what the models leave to an assumption, as the one on ids above.

The other way round, `SenderBehaves` (`MessageQueue`), `WrittenOnce`,
`NoGhostSend`, `CloseMeansDrained`, `StopQuiesces` and `ParkedNeverPanics`
(`MessageSender`), and `NothingVanishes` and `ParkedNeverPanics` (`WSClient`) are
proved for every instance and are in no run's configuration; the sender's
`ParkedNeverPanics` is part of `OnlyCheckedRepliesPanic` in the run `queue`.

## 6. Disagreements with the code's own comments and names

Stated in the modules as properties that the code violates; TLC finds each on an
instance of one or two actors. No run is kept for them.

* `ExitCutsNothing` (`HttpServer`): `StartWithGracefulShutdown` inverts its test,
  so `ErrServerClosed`, returned as soon as `Shutdown` begins, is fatal, and the
  process exits under active requests; a failure to listen is dropped.
* `FuncGetsValid` (`HttpServer`): a request may run with values that another one
  bound after its own validation, or that an earlier one left in `h.req`.
* `UpsertNeverDoubles`, `ByIdUpdates` (`Upsert`): two upserts of a missing key
  both insert; `UpsertById` asks with the new values and misses the row.
* `NumberFits` (`UuidWorker`): the number is not reset after a used-up
  millisecond and reaches the worker's bits. The id is then that of the next
  worker if the worker's own is even; if it is odd the bit is set already, and the
  worker itself gives the same id out a second time, as number 0 of the
  millisecond it waited for, because `timestamp` was not moved on.
* `RunningMeansPumpAlive` (`MessageSender`): `IsRunning` stays true after a write
  error ended the pump.
* `ReplyNeverPanics` (`MessageQueue`): the sender may be stopped between the
  check of `IsRunning` and the send; `OnlyCheckedRepliesPanic` says that this is the
  only way. While the sender pings, the receiver's
  `Stop` may wait for its blocked read for ever.
* `UserIdMapSound`, `ManagerStops` (`ClientManager`): a session id registered
  again leaves a stale user entry, and the loop that is told to stop sends to the
  channel only it reads.
* `CallsReturn` (`HttpServer`): the loop of `PerformHTTPRequest` means to try again
  after a transport error, and to return "failed after %d attempts. Last error"
  (`utils/http.go`, lines 55 and 61 to 63), but line 54 closes the body of a
  response that is nil, and panics.
* `AlwaysStoppable` (`JetStreamSubscription`): a `StopAllSubscriptions` that failed
  half way keeps its list. Every later one fails at the entry that is already
  unsubscribed, and so does `StopSubscription`, which finds it first, so that
  another subscription of that subject can no longer be stopped.
* `ServedBesideOthers` (`JetStreamSubscription`): subscriptions of two subjects that
  share a durable consumer may fetch each other's messages, and pass over them,
  for ever.
* `NothingOverlooked` (`Database`): in a transaction of MySQL, which `Begin` leaves
  at its default isolation, a look reads the snapshot of the first one; an upsert
  that misses a row committed since inserts a second one.
* `NamesAreOwn` (`RedisView`): the commands listed below that send a name as it is
  meet under it what another view wrote, and replace it, add to it or merge it
  into a key of their own.
* `ConsumedOnce`, `MismatchAcked` (`JetStreamSubscription`): a handled message
  whose acknowledgement fails is handled again, and one of another subject is not
  acknowledged.
* `CatchIsRun` (`TryCatch`): `TryFunc` calls finally before it recovers.

Met while modelling, and part of the models' behaviour:

* In `PerformHTTPRequest` a request with a body cannot be sent a second time.
* A `Kick`, a `Stop` or an `UnregisterClient` closes a client's channel while its
  reader answers, a broadcast sends or another one closes it: that panics, and so
  may `ClientKeepLive`, which can hold a client that is just being removed. A late
  unregister or `Kick` deletes whatever is under the session id by then: a client
  that registered under it again stays open, and nobody finds it any more.
* In `WSClient` the goroutine that pings and the one that writes use the connection
  at the same time: a frame may be cut short, or the library panics.
* Without a stream, a subscription whose handler panicked stays in the queue group
  and keeps getting messages nobody handles.
* `StartAll` holds the manager's lock while the first connection runs, so
  `CloseAll` waits until somebody stops that connection.
* A crash of a node, or a failed `Del`, leaves its lock in Redis for ever. Not
  modelled: the Redis client sends a command again whose answer was lost; a `Del`
  that arrives twice may remove the lock of the node that came next.
* A reconnect before `Start` has installed its handlers is told to nobody; what
  was made until then keeps the old connection's context.
* `SDiffMerge`, `SInterMerge`, `SUnionMerge`, `ZInterMerge`, `ZUnionMerge`,
  `ZIncrNX` and `XAdd` do not put the prefix before their key.
* `redis.Init` and `databases.Init` make a cluster client, or an engine group, and
  replace it by a single one; a failed `databases.Init` leaves nil.
* `conf.Init` that fails to read its file leaves an empty map, so that later calls
  of `Get` return nil instead of trying again. A first `GetLogger` that overlaps
  `Init` may replace the configured logger by the default one.
* `NewSession` of an entity returns the entity itself; the session stays in it
  after `Close`. A second `NewSession` takes it away from its owner: later writes,
  `Commit` and `Close` go to the new one, and the owner's transaction stays open.
* Two `Start` or two `Stop` calls of a service that overlap may leave a context
  that nobody cancels, and so may `Init` on a running service.
* The channels of `MakeShutdownCh` and `MakeSighupCh` do not carry "a message for
  every" signal: the first is closed once, the second merges signals.

Seen in code that is not modelled: `NewMSConn` never passes the slaves on;
`ZRange` and `ZRangeByScore` overwrite the answer they asked for first and drop
scores, `ZRangeByLex` ignores the prefix and its `reverse`; `HMGet` asserts
`[]byte` where the library returns strings; `LInsert` converts its operation from
a number to a character.

## 7. Plan

Done: sender, receiver and their composition, client manager, notifications,
NATS connections and both kinds of subscriptions, websocket client, HTTP server
with its callers, transactions, upserts, entities and the database they share,
Redis views and their abstraction, the parts of a process, try/catch; the eight
proof modules.

Every property of the runs that is not a liveness property is proved. Next,
theorems: which steps can panic at all in `WSClient` and `NatsSubscription`, as
`OnlyTouchedPanic` and `LateRepliesSafe` say it of the client manager and of the replies.

Next, models: two owners that stop one sender; the `SessionWrapper` used without
chaining; `Del` of several keys; requests without a jwt.
