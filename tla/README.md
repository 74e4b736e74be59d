# Kite-Connect backend: TLA+ verification

TLA+ models of the stateful core of the market-data backend in `../src`, TLC configurations that check
them on small instances, and TLAPS proofs that hold for every value of the constants. `PROJECT.json` is
the index: components, runs, the lines every definition translates, hazards, findings and theorems.

## 1. Inventory

The service is one NestJS process (several may run side by side, sharing Redis and Postgres). Clients ask for
instruments over Socket.IO or a native WebSocket, or over REST; the service multiplexes them onto one
streaming connection per provider (Kite, Vortex, Massive, Binance) and onto rate-limited REST endpoints.

```
 Socket.IO gateway --+                         +--> KiteShardedTicker --> Kite sockets
 native WS gateway --+--> stream service ------+--> Vortex shards
      REST ----------+    (queues, ledger)     +--> Massive, Binance sockets
        |                       ^ ticker events (connect, disconnect, error, ticks)
        +--> request batching --> provider queue (Redis lock) --> provider REST
```

| Component | State | Operations | Hard behaviour | What makes it correct |
|---|---|---|---|---|
| Stream service (`market-data-stream.service.ts`) | active providers, per-provider carried set, subscription and unsubscription queue, durable ledger, pins, flags, 500 ms timer | subscribe, unsubscribe, batch, ticker connect/disconnect/error, start, stop, auto-start, reconnect | handlers in any order, late timers, capped queues, lazy and full initialisation binding different closures | limits kept, nothing in the ledger loses its cover, flags true, timer alive, queue drained |
| Gateways (`market-data.gateway.ts`, `native-ws.service.ts`) | per-client registries, rooms, interest counts, throttle windows | connect, subscribe, unsubscribe, unsubscribe-all, disconnect, broadcast; key update | two registries over one service, handlers that await with a looked-up entry in hand, clients that leave meanwhile | registry, rooms and interest agree; nobody is left behind |
| Tick fan-out (`handleTicks`, `forwardRealtimeTick`) | last payloads, coalescing timers, throttle, `last_tick` keys | tick events, flush, pulse, throttle change, release | loops that await in the middle of a batch, timers cleared with payloads pending, Redis failing | ticks reach Redis and clients in order, and the newest is not swallowed |
| Instrument registry | UIR and provider-token maps | routing, refresh | map swap during a refresh | a token is routed to a provider that has it |
| Provider queue (`provider-queue.service.ts`) | Redis lock, in-memory stamp | execute | processes racing for the lock, lost replies, Redis down, starvation | grants spaced, every call served |
| Request batching | one-second windows of pending promises | getQuote/LTP/OHLC, processBatch | chunk failure, whose provider is used | every promise settles once with its own tokens |
| Kite sharded ticker | sockets, attempts, flags, token routing, modes | connect, disconnect, subscribe, setMode, unsubscribe, socket events | reconnect timers against stop, subscriptions while down, shared token | routing exact, sessions restored, reconnects bounded but made |
| Kite provider | ticker, flags, credentials | initializeTicker, restartTicker, token update | old ticker's callbacks after a restart | flag agrees with the ticker in use |
| Vortex sharded ticker | current and replaced sockets, attempts, routing, waiting subscriptions, lookups in flight | as Kite | replaced sockets that open and close late, tokens looked up across a close or an unsubscribe | sessions restored, flag true, reconnects made, tokens lost in few known ways |
| Vortex provider | REST circuit breaker, credentials | getQuote/LTP/OHLC, token update | half-open breaker, a second pass through the provider queue | - |
| Massive, Binance clients | sockets, reconnect and authentication timers, attempts, subscriptions, polling | connect, disconnect, subscribe, unsubscribe, socket events, credentials | handlers of superseded sockets, two timers with one handle, fallback to polling | what is subscribed is streamed, dials are bounded, nobody is left with no source |
| Redis service | clients, circuit breaker, pub/sub handlers | get/set, lock, publish, subscribe | half-open breaker, subscribe race | commands skipped only while open |
| API keys | Redis counters | HTTP and WebSocket limits | expiry under live connections, commands that fail, departure during admission, a crash | the limit holds, the counter counts who is there |
| Falcon, stock/Vayu, news, fundamentals, movers, admin, health, configuration, migrations, search apps | database rows, caches | queries, syncs, crons | little interaction | - |

## 2. Modules

| Module | Models |
|---|---|
| `StreamBatching` | the stream service with the subscription entry points of both gateways and the registry's routing |
| `ProviderQueue` | the one-per-second gate over Redis with its in-memory fallback, in discrete time |
| `RequestBatching` | the one-second windows in front of the queue: tokens and pairs, chunks, chunk failure, enrichment |
| `KiteShardedTicker` | the shards, their sockets, reconnects and token routing; `KiteProviderService.isConnected` |
| `VortexShardedTicker` | the shards with replaced sockets, token routing, subscriptions that wait or are being looked up |
| `TickerLink` | abstract: what a ticker promises about dialling, whatever its transport; implemented by each Kite shard, the Binance client and each Massive client |
| `RequestPromises` | abstract: what a caller may expect of a group of requests; implemented by `RequestBatching` |
| `TickFeed` | abstract: what a client is sent of one instrument; implemented by `TickPipeline` |
| `BinanceStream` | the Binance client |
| `MassiveStream` | the Massive clients of several asset classes with authentication and polling |
| `GatewaySessions` | sessions of both gateways: admission against `connection_limit`, registry, rooms, interest, departure, crash |
| `TickPipeline` | ticks from a provider's event through coalescing and Redis to the clients |
| `MCStream`, `MCProviderQueue`, `MCRequestBatching`, `MCKiteTicker`, `MCVortexTicker`, `MCMassiveStream`, `MCSessions`, `MCTickPipeline` | constants for TLC |
| `StreamBatchingProofs`, `RequestPathProofs` (batching and queue), `KiteShardedTickerProofs`, `VortexShardedTickerProofs`, `BinanceStreamProofs`, `MassiveStreamProofs`, `GatewaySessionsProofs`, `TickPipelineProofs` | the theorems and their proofs |

Definitions whose comment says *faulty* are deliberate bugs, each used in the place of one definition to show
that a property can fail.

### StreamBatching
Every handler of the service runs to completion in one turn of the event loop: the batch's only `await`,
`lazyInitProvider`, awaits a function that never waits. So one handler is one action, and what interleaves is
their order. State has the source's names; `activeProviderState` is split into
`activeProviders`, `isConnected` and `subscribedUirIds`; `handlersBound` says which of the two sets of closures a ticker
carries, `dialing` what it was last told, `connectTimers` the pending `setTimeout(ticker.connect)`, and `held` what
the gateways' registries record. A `disconnect` or `error` is possible whenever the closures are bound, a `connect` while the ticker is told
to dial, again and again; Massive's also later, because its sockets still hear the greeting while they close (the sockets of the
others, closed before they open, never do). Left out: modes (the batch always subscribes with `full`), the insertion
order of the two queues (any element may be the oldest, which only adds behaviours), tick delivery (`TickPipeline`),
and the wait inside `autoStartIfNeeded`, which is one step.

### ProviderQueue
One endpoint, since endpoints share nothing. Time is relative: what is left of the lock (`ttl`) and of each sleep, what
has passed since a stamp (`sinceExec`, `sinceGrant`) or since a caller came in (`spun`). `Tick` ages all of them, and may
be late for any of them, as Node's timers are. `pc` follows `execute` from `await` to `await`. Redis fails per
process (`redisUp`), which stands for the connection and for the open circuit breaker; an unanswered `SET NX PX` may
have been executed. The journey of a reply is left out: the spacing property is about the moments
Redis grants the lock, not the moments the provider receives a call.

### RequestBatching
`processBatch` and `processPairsBatch` are one coroutine, a batch per kind and second (`requestKey`), and each of its awaits is
a step: a chunk at the queue (`calling`), the lookup of recent prices (`filling`), the second provider call that only
tokens get (`fallback`). What `execute` of the provider queue promises is an assumption here: a call returns or throws in the end,
which is `EveryCallIsServed`. Promises settle once, so the `resolve()` of a rejected one is nothing.
Prices are reduced to "answered without a price"; a failed chunk leaves gaps for pairs, whose enrichment starts from the keys
asked for, and none for tokens, whose enrichment starts from the results. Seconds are numbered modulo `Seconds`; a number is
reused once its batches are over. `failed` is there for the properties. A request for no instruments at all is left
out: its batch makes no call. So is the outer `catch` of both functions: every `await` stands in an inner `try`, and what is outside
only counts, logs and copies.

### KiteShardedTicker
The kiteconnect SDK is external and modelled from its use: `link` is the SDK's socket, `upstream` what the current
session streams. Calls on a socket that is not open are lost; a new session starts empty; `SdkRedials` says whether the
SDK also dials by itself (it holds in the passing run, so both sources of dials race). `Placements` states the result of
`pickShard` over the tokens of one call rather than its loop.
A reconnect timer that is pending at `disconnect()` is not cleared and dials afterwards, as in the code.
`enableReconnect` is not modelled because nothing calls it; in consequence `disableReconnect` stays set after
`disconnect()` and `connect()` until the first `connect` event, so a first dial that fails is not retried: the
model has these behaviours and `LostShardsRetry` excludes them by name.

### VortexShardedTicker
The `ws` library is external. `socket` is a pool: an entry is a socket (`connecting`, `open`, `closing`) or a reconnect timer, and
`ws` names a shard's current socket. What `connect()` replaces is not closed and keeps its handlers, so it goes on opening,
closing and scheduling dials beside the current one; a socket that failed is `closing` until its `close` event. `upstream` is what the
session of the current socket streams. `call` holds each unfinished `subscribe` and `unsubscribe`: waiting for a socket
(`pendingSubscribe`), or at the `await` of its exchange lookup, which may fail or leave tokens unresolved. `SubscribeFresh`, `SubscribeRouted` and
`Unsubscribe` take the tokens of one shard; a call over several shards is one step for each, because their parts share nothing.
`pickShardForNewToken` counts the tokens already subscribed, so all new tokens of a call go to the same shard.
Left out: modes (an upgrade repeats a frame), the clock of the heartbeat (`SocketFails` may happen at any time), metrics, and
`handleTextMessage`: the `ws` version in use delivers text frames as Buffers, so the handler's branch for strings is not reached.
A subscribe that is refused because no shard has room changes nothing and is no step.

### TickerLink, BinanceStream, MassiveStream
`TickerLink` is the contract of a ticker that reconnects by itself: a link is wanted or not, up or down, and has a budget of
attempts that only success restores and only a wanted link that is down spends; a wanted link comes up, is given up, or uses its
budget. The Binance client, each Massive client (`Link(c)`) and each Kite shard (`Link(s)`) are shown to implement it under a refinement
mapping (`ImplementsLink`, `ShardsImplementLink`); only Binance's claims the liveness. A Kite shard is *wanted* while it is not idle
and would reconnect, is dialling or has a timer pending: `disconnect()` cancels no timer, so a shard that nobody wants any more may
still be dialled, and with `wanted` read off `disableReconnect` alone the implementation fails. The Vortex shards are not
instances of `TickerLink`: a replaced socket that opens restores the budget of a shard that is not up, and one that closes
spends an attempt of a shard that is.

In the Binance and Massive clients the `ws` library is external, a socket is dialled, opens, closes and has an owner, and each handler acts on the
*client*, not on its socket, as in the code. So a superseded socket that closes late marks the client down and schedules another
dial; the dial replaces an open socket, which then lives on and which `disconnect()` cannot close; and of two pending reconnect
timers only the youngest can be cleared, so that a client may dial after `disconnect()`. The models have these behaviours; the
properties say what holds in spite of them. Binance's cap cuts a subscribe short by counting symbols already subscribed too.
Massive adds, per asset class, the greeting, `auth` and its timeout (whose handle is overwritten by the next socket, so that
an old timeout may close an authenticated client), refusal, and polling as the common fallback. `handleAuthTimeout` sets
`shouldReconnect` to false before it calls `scheduleReconnect`, which then returns: the class stays without a source until
`connect()`, and `StalledOnlyBy` names it. A 'connected' greeting on a forgotten socket sends on the present one, and throws
if that is still dialling: the process dies (`GreetedTooEarly`) and starts anew. `unsubscribe` gives back channel `T` only.
What a poll does is left out. So are the early returns that do not happen: the addresses are constants (Binance) or built from
constant bases (Massive), so the constructor of `ws`, which throws for a malformed address only, throws never or always; and
`maybeStartRestPolling` finds its REST client ready, because `initialize()` gives it the key before it gives it to the stream clients.

### GatewaySessions
One API key, one process, both gateways. Handlers run from `await` to `await`: `conn` follows `handleConnection` with the three Redis
commands of `trackWsConnection`, `leaving` follows `handleDisconnect`, and `call` holds client events in between.
`instruments` is the array of the registry entry; a handler that looked the entry up goes on changing it after its deletion. Redis
may fail any command (`silent`), the key may expire (`expired`), a client may leave at any `await`, and the process may die
(`Crash`), which forgets everything but Redis. `roomMembers` keeps sockets that are gone, since `client.rooms` is empty when
Socket.IO tells of the disconnect.

A call names the ids it resolved to, which for `unsubscribe` may be others than the client meant: any set is possible. A `subscribe`
resolves twice: the ids of the entry by `resolveUirForPair` (for Vortex from exchange and number), the rooms after the
awaits by `resolveProviderToken` from the number alone, under the provider name as it then is. The registry gives a number to the first
exchange that has it, so the room may be another instrument's. `Namesakes` says what the number of an id may denote,
`SubscribeJoins` joins any rooms among those (`RoomsFor`), and the history `misplaced` holds, per session, the ids that were
so taken for one another; they leave it when they are unsubscribed (`Mend`). `RoomsMatch` excepts them id by id, and only if they are
`Ambiguous`: with numbers that denote one instrument each, rooms and entry agree throughout.

Four more history variables name causes: `expired`, `silent`, `repeated` (a request named an
instrument twice: interest is counted twice and released once) and `overlapped` (two handlers of one session were pending
together). The properties except these causes and nothing else; each exception is a behaviour of the code: the counter overshoots
after the hour, a client that leaves during its admission stays counted and registered, a subscribe that outlives its session
leaks interest, `unsubscribe_all` loses what was subscribed during its `await`.
Left out: modes, the parsing of names, entitlements, `set_mode`; and `handleApiKeyUpdate`, which changes nothing: it looks clients
up in `server.sockets.sockets`, which the server of a gateway with a namespace does not have (`market-data.gateway.ts:2407` says so of another
handler), and throws.

### TickPipeline
`handleTicks` is called once per provider event and not awaited. With the throttle off it awaits each forward, so several loops are under way
(`rest`); with it on, a loop runs to its end and leaves timers behind. `forwards` holds the `forwardRealtimeTick` calls that await their
`SETEX`, per key in the order they were sent; what follows the answer (both broadcasts and the loop's next stretch) is one turn of
microtasks and one action. Ticks are numbered, so "older" and "newer" mean something; prices, modes, persistence and the peer
provider's substitute price are left out, and times with them: a timer or a window ends at any moment. `Throttled` clients have a
`ws_tick_throttle_ms` of their own: what falls in their window is dropped and not sent later, although the comments at
`market-data.gateway.ts:2460` and `native-ws.service.ts:1014` call this throttle trailing-edge; hence the properties about the
newest tick speak of the other clients. The pulse is started by its interval even while the last one still awaits Redis; `MaxPulses` bounds how many
of its forwards are under way. `TickFeed` says what clients may count on: only ticks that came in are shown, and
those of an instrument in their order, until the feed gives the instrument up (`Feed`: loops overlapped on it, or Redis failed). History: `overlapped`, `broken`, `stranded`.

## 3. Runs

| Run | Question | Instance |
|---|---|---|
| `stream_routing` | do limits, flags, timer and cover survive every order of handlers? | 2 instruments, 1 client, Kite limit 1, Vortex limit 2, queue caps 1 |
| `stream_clients` | do pins die with their ledger entry, and is what can be sent eventually sent? | 1 instrument, one client of each gateway, pins to Vortex |
| `provider_queue` | is the lock exclusive for an interval, and does every call get through? | 2 callers in 2 processes, interval 2, jitter 1, guardrail 4, Redis flaky for both |
| `request_batching` | does every promise have one owner, is a batch a group of `RequestPromises`, is everybody settled? | 2 callers, tokens and pairs, 2 instruments in chunks of 1, 2 seconds |
| `kite_ticker` | routing, restored sessions, reconnects; does each shard keep the contract of a ticker? | 2 shards of capacity 1, 3 tokens, 1 attempt, at most 2 timers |
| `vortex_ticker` | sessions, flag, reconnects and the ways to lose a token, with replaced sockets and late lookups | 2 shards of capacity 1, 2 tokens, 1 attempt, 2 sockets or timers, 2 calls in flight |
| `binance_stream` | is what is subscribed streamed, and does the client keep the contract, liveness included? | 3 sockets, 3 symbols, cap 2, 2 attempts |
| `massive_stream` | the same with authentication; is a started ticker ever left without a source? | 2 classes, 3 sockets, 1 symbol, 1 attempt, 2 authentication timeouts |
| `gateway_sessions` | do the limit, the counter, the registry, rooms and interest survive awaits, failures and crashes? | 2 Socket.IO and 1 native connection (flaky Redis at the latter), limit 2, 2 instruments of which the number of one may denote the other, 1 pending call, counts up to 2 |
| `tick_pipeline` | is the pipeline a `TickFeed`, and does the newest tick arrive? | 2 instruments of 1 and 2 ticks, 2 loops, 2 clients, 1 failing key |
| `stream_admin_stop`, `request_batching_provider` | a sentence of the documentation or of a comment that the code does not keep | as small as shows it |

*Bounds.* Queue caps of 1 with 2 instruments make eviction happen at once; unequal provider limits make one provider full
while the other is not. Two Indian providers are enough for every branch of routing that changes state, because only the
Kite/Vortex pair has a secondary; the proofs cover the other providers and exchanges. With capacity 2 and 3 tokens the
ticker both spreads tokens and runs out of shards; one attempt makes "attempts left" and "none left" both frequent;
`MaxTimers` bounds timers pending on one shard (a second one needs a disconnect while the first is pending). Two
callers in two processes are what the lock separates; each duration is longer than the jitter, and the
guardrail is longer than one lock. Chunks of one instrument make every batch for two a batch of two
calls, and two kinds with two seconds keep up to three batches in flight beside a queue that still fills. Two sockets let one shard have a current and a
replaced one, or both shards one each; two calls let a release and a subscription of the same token, or two subscriptions that
count the same room, overlap. Three sockets are a current one, a forgotten one and the next dial; two attempts let Binance fail twice
and stop. Three sessions contend for a limit of two, so that two are served together and share an instrument: within one gateway and across both,
with one of them possibly in the wrong room, and with requests for what is counted already; a connection is used
once, `MaxInterest` only stops clients from asking for more, and Redis begins to fail at the commands of `Flaky` connections. `MCBound` is a state
constraint that keeps apart what does not meet: once the key ran out, Redis failed or the process died, nobody subscribes, and only a
client that is alone asks for the second instrument. One pending call meets `handleDisconnect`; two calls, and what the constraint cuts off,
are covered by the theorems, which have neither bound. One forward of the pulse at a time meets loops and timers; pulses that overlap are covered by the theorems. Ticks 1 and 2 of one instrument with a second instrument in front of it are what two loops need to overtake each other. The proofs have none of these bounds: `MaxTimers`, `MaxAuthTimers`, `MaxInterest`, `MaxPulses`, `Flaky`, `Sockets` and `Calls` are any number or set.

*Symmetry* (instruments, tokens, sockets, calls) is used only in runs without liveness. Deadlock is checked everywhere but in `gateway_sessions`, where all
connections may have come and gone.

*Types.* The type invariants of `StreamBatching`, `RequestBatching`, `ProviderQueue` (`QueueTypeOK`), `KiteShardedTicker` and
`MassiveStream`, as well as `QueuesConsistent`, `FailuresAreLocal` and `ShownInOrder`, are proved and not repeated in the runs; the last
two follow the abstract specifications `RequestPromises` and `TickFeed`, which the runs check.

*Fairness.* `StreamBatching!FairSpec` has weak fairness on the batch: `setInterval(…, 500)` keeps firing
while it is set. Nothing is assumed of clients, tickers or the administrator, so `QueuedIsDispatched` holds however they
behave. `ProviderQueue!FairQueueSpec` has weak fairness on `Tick` (time passes) and on each caller's
continuation (a command is answered or fails, a timer fires, the promise continues). New requests, the provider's answer
and Redis's recovery are not fair. `EveryCallIsServed` thus rests on the guardrail, not on luck with the lock.
`RequestBatching!FairSpec` has weak fairness on the clock and on each batch's continuation; requests are not fair, and
neither is a provider, which may fail every call.
`BinanceStream` assumes that timers fire and that a socket that dials or closes comes to an end of it (TCP and `ws` time out);
no dial need succeed. `MassiveStream` states no fairness: that an authentication ends is up to Massive, and the contract's
liveness is not claimed for it. `TickPipeline!FairSpec` assumes that timers fire and that a Redis command is answered or
fails; ticks, the pulse, releases and the administrator are not fair.

### What the violation runs show
- `AdminStopHolds`: a connect timer pending at the stop turns streaming on again, by the handlers bound before.
- `OwnProviderIsAsked`: two requests of one second that name different providers are both put to the first one's.

Other places where the code does less than its comments or its reader would expect are behaviours of the models, which no property
denies or which a property excepts by name:
- `handleDisconnect` releases without a client id, so the pin, the ledger entry and the coalescing timer of an instrument
  other clients hold go with it; and an instrument released while queued is subscribed upstream afterwards, for nobody;
- closures bound by `lazyInitProvider` never re-queue what their provider carried;
- a lock that expires between the refused `SET NX` and `PTTL` is taken for a Redis failure, and the caller leaves the gate;
- the room of a subscribed instrument is looked up by its number alone, so with a number that two exchanges use a client may sit in the
  room of an instrument it did not ask for, and not in its own;
- `handleApiKeyUpdate` throws before it revokes anything, although `market-data.gateway.ts:150` says that it unsubscribes at once;
- two `handleTicks` loops without a throttle may store and send an older tick after a newer one;
- those named above for the tickers and the sessions.

`CoverLostOnlyBy` holds because it lists the losses there are: an unsubscription still pending when its
instrument is asked for again (the batch subscribes first and unsubscribes last), eviction from a full queue, and the stop.

## 4. Proofs

All theorems are proved for any sets of instruments, clients, providers, shards, tokens, callers, and any limits and
durations, from the ASSUMEs in the modules (finite sets where sizes are counted, limits in `Nat`, an interval of
at least one tick). TLC evaluates those assumptions on its runs.

- **StreamBatching.** `StepsOfTheService` reduces a step of the specification, with what the gateways record, to one operation of
  the service; every later proof has one step per operation. `TypeCorrect`. `LiveIsReported` and `TimerRunsWhileLive`
  need one invariant together, `FlagsInv`: the flag and the timer depend on each other's handlers, and
  `ConnectedIsBound` (only a ticker with closures is connected) is needed because binding the full closures could
  otherwise bring the timer's property into force while the timer is off. `UpstreamLimitHolds` rests on `SliceFits` (a
  slice and what is carried already fit the limit). `PinsHaveLedgerEntry`, `QueuesStayConsistent`. `CoverIsKept` is an action
  property, proved from the type invariant and `EvictionMeansOverflow` (something is evicted only if the queue would exceed its cap).
- **ProviderQueue.** `GateStaysShut`: for an interval after a grant, `Interval <= ttl + sinceGrant`. The bare claim "the
  lock is held for an interval" is not inductive; the sum is, because a tick takes from one side what it gives the
  other. `GrantsKeepTheirDistance` follows: a grant needs `ttl = 0`.
- **RequestBatching.** `RunningBatchMoves` shows that every step of a running batch has one form: it settles some of its
  promises and keeps or ends the batch. `BatchingForgetsNobody` needs `BatchesApart`: queue and running batch of a key
  are never both in use, and a running batch is never of the current second, so that nobody can join it.
  `BatchingFailuresAreLocal` adds `Unharmed`: whoever a batch still serves has lost no instrument so far.
  `BatchingKeepsItsPromises` is the refinement of `RequestPromises`. A group's members are the queue and the running batch of its key
  together, and it is closed while a batch runs. `Ask` joins (nobody can join a closed group because of `BatchesApart`, nobody
  twice because of `BatchingForgetsNobody`), `TimerFires` closes, a new second renews the groups that reuse its number, and each step of
  a running batch settles: `BatchSettles` finds the instruments lost in it, those of a failed chunk or none.
- **KiteShardedTicker.** Steps are split into socket steps (which leave the token tables alone) and token steps (which leave
  the reconnect state alone). `LostShardsAreRetried`, `ProviderUpIsTrue`. `TokensStayRouted` needs `PlacementFits` for
  the capacity of a shard that fills during one call, by cardinalities of disjoint sets. `SessionsAreMirrored` is inductive only
  together with `TokensAreRouted`: `setMode` on a token reaches the session of the shard the table names.
  `ShardsAreLinks` is the refinement of `TickerLink` for all shards at once, `EveryShardIsALink` for each alone: a step changes the link
  of one shard (`OpensIsRise`, `ClosesIsFall`, dials, timers), and what other shards see is a stutter (`QuietStep`).
- **VortexShardedTicker.** `VortexSessionsMirrored`, `VortexConnectedTrue` and `VortexShardsRetry` are each inductive with the types.
  They rest on lemmas about one dial (`SessionsAfterDial`, `ConnectedAfterDial`, `RetryAfterDial`), one changed socket
  (`OthersStayConnected`, `RetryAfterChange`) and `CloseDisconnectsNobody`. `VortexTokensLostOnlyBy` is an action property, proved from the types: beginning a call
  loses nothing (`CallBegins`), and what an accepted batch leaves out does not fit (`AcceptedLeavesOut`, by cardinalities).
- **BinanceStream.** `TypeOK`, `NothingMissing` and `LinkIsBacked` are inductive together. `BinanceImplementsLink`: initial
  states map to initial states, and every step is a step of `TickerLink` or a stutter.
- **MassiveStream.** The inductive invariant adds `TimersHeld`, `Owned` (a socket is closed exactly if nobody owns it, and a client's socket
  is its own), `Fresh` (no authentication before the socket opens), `StoppedOnlyBy` (reconnecting is off only after a stop, a refusal
  that polls, or a timeout) and `RetriesOn` (a class that may reconnect has a socket, a timer or no attempts left); the last
  two give `StalledOnlyBy`. `MassiveImplementsLink` as above, for all classes at once; `EveryClientIsALink` for each alone.
- **GatewaySessions.** `Shapes` (types, which phases of connection, admission and departure go together, and what a pending call
  looks like) is inductive by itself and gives `LeftoversOnlyBy`. `CounterInv` counts who has been counted and not given back, by
  cardinalities, and bounds those admitted: `OverLimitOnlyBy` follows because whoever is admitted was answered at most `Limit`.
  `Undisturbed` keeps sessions outside `overlapped` to one handler each; `RoomsInv` says for each stage of that handler what
  rooms and entry have in common outside `misplaced`; `MisplacedInv` says that only ambiguous ids are in there. `InterestInv` equates each count with the sessions that have a *share* in it: an entry holds it, or a
  pending call has still to count or to release it; every step moves one session's share and the count alike.
- **TickPipeline.** The inductive invariant adds to the types and `PayloadIsFreshest`: `LoopsAreApart` (an instrument that no
  loops overlapped on waits in one loop at most, and there with its newest tick), `TimersHavePayload`, `LastSentIsPayload` (the newest forward carries the payload) and `SentInOrder` (forwards of an
  instrument wait in the order of their ticks, none older than what was shown and none newer than the payload, but for overlapping
  loops and a failing Redis). It is kept instrument by
  instrument: each step is first put into the form "this one's queue grows or shrinks at an end, the others are left alone".
  `RestingAlwaysAgree` and `TicksAreShownInOrder` follow. `PipelineIsAFeed` adds that nothing waiting is newer than what came in
  (`AppendNotAhead`, `WithoutNotAhead`, `ProceedNotAhead`): so each broadcast is a step of `TickFeed`.

Only model-checked: the liveness properties (`QueuedIsDispatched`, `EveryCallIsServed`, `EveryRequestSettles`, `EveryTickIsShown`, and
`Resolves` within `ImplementsLink` of Binance) and every violation. Liveness is beyond this prover.

## 5. Not modelled, and the plan

What would come next, each with its own proofs where it has no recursion:

1. `StreamLifecycle`: `autoStartIfNeeded` with its waiters and timeout, token updates, `restartTicker` and the old ticker's
   callbacks; composes the flags of `StreamBatching` with `KiteShardedTicker` (one shard's `disconnect` marks the whole provider down).
2. An abstract gate that `ProviderQueue` implements, and batching composed with it; a weaker contract that the Vortex shards keep.
3. The HTTP limiter (get, compare, set over Redis) and abuse detection; the Vortex heartbeat, which a replaced socket's `close` stops.
4. The circuit breaker's own states; the models let any command fail or be skipped at any moment instead, which includes them.

Outside the models: numeric option formulas, search and symbol parsing, database synchronisation, REST
controllers and data-transfer objects, metrics and logging, configuration, migrations, the dashboard and the search applications. They
are either pure functions, I/O, or have no interacting state.
