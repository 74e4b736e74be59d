--------------------------- MODULE StreamBatching ---------------------------
(***************************************************************************)
(* MarketDataStreamService: what the gateways ask for, what is queued for  *)
(* the 500 ms batch, what each provider's ticker has been told, and the    *)
(* events by which tickers come and go.                                    *)
(*                                                                         *)
(* Every handler below runs to completion in one turn of the Node event    *)
(* loop: none of them awaits a timer or I/O (the one `await` of the batch, *)
(* lazyInitProvider, awaits a function that itself never waits), so one    *)
(* handler is one action.  What interleaves is the order of the handlers.  *)
(*                                                                         *)
(* Abstractions: the mode of a subscription is left out, the batch always  *)
(* subscribes upstream with 'full' and nothing else reads it; insertion    *)
(* order inside the Map and Set queues is left open (any element may be    *)
(* the oldest), which only adds behaviours.                                *)
(***************************************************************************)
EXTENDS Integers, FiniteSets

CONSTANTS
    Providers,      \* InternalProviderName values in use
    Uirs,           \* universal instrument ids
    SocketClients,  \* clients of MarketDataGateway (Socket.IO)
    NativeClients,  \* clients of NativeWsService (/ws)
    NoProvider,     \* `undefined` where a provider name is expected
    Exchange,       \* exchange class of an instrument
    Tokens,         \* <<uir, provider>> pairs with a provider token
    Prefixes,       \* providers that clients name in Provider:identifier requests
    Limit,          \* getSubscriptionLimit() of each provider
    SubQueueMax,    \* SUB_QUEUE_MAX
    UnsubQueueMax   \* UNSUB_QUEUE_MAX

ProviderNames == {"kite", "vortex", "massive", "binance"}
ExchangeClasses == {"indian", "us", "binance", "other"}

ASSUME ProvidersAssumption == Providers \subseteq ProviderNames
ASSUME NoProviderAssumption == NoProvider \notin ProviderNames
ASSUME UirsAssumption == IsFiniteSet(Uirs)
ASSUME ExchangeAssumption == Exchange \in [Uirs -> ExchangeClasses]
ASSUME TokensAssumption == Tokens \subseteq Uirs \X Providers
ASSUME PrefixesAssumption == Prefixes \subseteq Providers
ASSUME LimitAssumption == Limit \in [Providers -> Nat]
ASSUME QueueMaxAssumption == SubQueueMax \in Nat /\ UnsubQueueMax \in Nat

Clients == SocketClients \cup NativeClients
ProviderOrNone == Providers \cup {NoProvider}

VARIABLES
    activeProviders,      \* keys of activeProviderState
    isConnected,          \* activeProviderState[p].isConnected
    subscribedUirIds,     \* activeProviderState[p].subscribedUirIds
    handlersBound,        \* which closures hang on p's ticker: none, full, lazy
    dialing,              \* tickers told to connect() and not to disconnect() since
    connectTimers,        \* providers with a setTimeout(ticker.connect) pending
    isStreaming,
    adminStopped,
    batching,             \* subscriptionBatchInterval is set
    subscriptionQueue,    \* keys of subscriptionQueue
    queueClients,         \* the entry's `clients` set
    unsubscriptionQueue,
    subscribedUirModes,   \* keys of the durable ledger
    forcedProviderByUir,  \* the pins
    held                  \* what the gateways' registries record per client

tickerVars == <<activeProviders, isConnected, subscribedUirIds, handlersBound,
                dialing, connectTimers>>
queueVars  == <<subscriptionQueue, queueClients, unsubscriptionQueue>>
ledgerVars == <<subscribedUirModes, forcedProviderByUir>>
vars == <<tickerVars, isStreaming, adminStopped, batching, queueVars,
          ledgerVars, held>>

TypeOK ==
    /\ activeProviders \subseteq Providers
    /\ isConnected \in [Providers -> BOOLEAN]
    /\ subscribedUirIds \in [Providers -> SUBSET Uirs]
    /\ handlersBound \in [Providers -> {"none", "full", "lazy"}]
    /\ dialing \subseteq Providers
    /\ connectTimers \subseteq Providers
    /\ isStreaming \in BOOLEAN
    /\ adminStopped \in BOOLEAN
    /\ batching \in BOOLEAN
    /\ subscriptionQueue \subseteq Uirs
    /\ queueClients \in [Uirs -> SUBSET Clients]
    /\ unsubscriptionQueue \subseteq Uirs
    /\ subscribedUirModes \subseteq Uirs
    /\ forcedProviderByUir \in [Uirs -> ProviderOrNone]
    /\ held \in [Clients -> SUBSET Uirs]

Init ==
    /\ activeProviders = {}
    /\ isConnected = [p \in Providers |-> FALSE]
    /\ subscribedUirIds = [p \in Providers |-> {}]
    /\ handlersBound = [p \in Providers |-> "none"]
    /\ dialing = {}
    /\ connectTimers = {}
    /\ isStreaming = FALSE
    /\ adminStopped = FALSE
    /\ batching = FALSE
    /\ subscriptionQueue = {}
    /\ queueClients = [u \in Uirs |-> {}]
    /\ unsubscriptionQueue = {}
    /\ subscribedUirModes = {}
    /\ forcedProviderByUir = [u \in Uirs |-> NoProvider]
    /\ held = [c \in Clients |-> {}]

-----------------------------------------------------------------------------
(* Routing: InstrumentRegistryService.getBestProviderForUirId.             *)

HasToken(u) == {p \in Providers : <<u, p>> \in Tokens}

HomeProvider(u) ==
    [indian |-> "kite", us |-> "massive", binance |-> "binance",
     other |-> NoProvider][Exchange[u]]

\* Tier 2: the provider tried i-th when the home provider has no token.
FallbackOrder(u) ==
    IF Exchange[u] = "indian"
    THEN <<"vortex", "kite", "massive", "binance">>
    ELSE <<"kite", "massive", "binance", "vortex">>

BestProvider(u) ==
    IF HomeProvider(u) \in HasToken(u) THEN HomeProvider(u)
    ELSE IF HasToken(u) = {} THEN NoProvider
    ELSE FallbackOrder(u)[CHOOSE i \in 1 .. 4 :
            /\ FallbackOrder(u)[i] \in HasToken(u)
            /\ \A j \in 1 .. (i - 1) : FallbackOrder(u)[j] \notin HasToken(u)]

\* The kite<->vortex pair covers for each other; nobody else has a secondary.
Secondary(p) == CASE p = "kite"   -> {"vortex"} \cap Providers
                  [] p = "vortex" -> {"kite"} \cap Providers
                  [] OTHER        -> {}

\* Where the batch routes a queued instrument first: its pin, or the registry's choice.
Primary(u) == IF forcedProviderByUir[u] # NoProvider
              THEN forcedProviderByUir[u] ELSE BestProvider(u)

-----------------------------------------------------------------------------
(* subscribeToInstruments and unsubscribeFromInstruments.                  *)

\* ensureSubscriptionQueueCapacity: what is left of the queue when n new entries are
\* announced.  The loop stops at an empty queue, however large n is.
Evictions(n) ==
    {kept \in SUBSET subscriptionQueue :
        LET over == Cardinality(subscriptionQueue) + n - SubQueueMax
        IN  IF over <= 0 THEN kept = subscriptionQueue
            ELSE IF over >= Cardinality(subscriptionQueue) THEN kept = {}
            ELSE Cardinality(kept) = Cardinality(subscriptionQueue) - over}

\* The room asked for is counted before anything is evicted; an evicted entry that is
\* itself requested is queued again.
SubscribeToInstruments(c, us, forced) ==
    /\ \E kept \in Evictions(Cardinality(us \ subscriptionQueue)) :
          /\ subscriptionQueue' = kept \cup us
          /\ queueClients' = [u \in Uirs |->
                (IF u \in kept THEN queueClients[u] ELSE {})
                    \cup (IF u \in us THEN {c} ELSE {})]
    /\ forcedProviderByUir' = [u \in Uirs |->
          IF u \in us /\ forcedProviderByUir[u] = NoProvider
          THEN forced ELSE forcedProviderByUir[u]]
    /\ subscribedUirModes' = subscribedUirModes \cup us
    /\ batching' = TRUE
    /\ UNCHANGED <<tickerVars, isStreaming, adminStopped, unsubscriptionQueue>>

\* trimUnsubscriptionQueue
Trimmed(S) ==
    {kept \in SUBSET S :
        IF Cardinality(S) <= UnsubQueueMax THEN kept = S
        ELSE Cardinality(kept) = UnsubQueueMax}

\* `who` is {c} when the caller passes its client id and {} when it does not.  Only a
\* caller that names itself is weighed against the other clients of a queued entry.
Released(us, who) ==
    {u \in us : (u \in subscriptionQueue /\ who # {}) => queueClients[u] \subseteq who}

\* forcedProviderByUir.delete(token), in both branches.
UnpinnedQueued(us) ==    \* faulty: only the branch of a queued entry deletes the pin
    [u \in Uirs |-> IF u \in us \cap subscriptionQueue
                    THEN NoProvider ELSE forcedProviderByUir[u]]
Unpinned(us) ==
    [u \in Uirs |-> IF u \in us THEN NoProvider ELSE forcedProviderByUir[u]]

UnsubscribeFromInstruments(us, who) ==
    LET released == Released(us, who)
    IN  /\ subscriptionQueue' =
              IF who = {} THEN subscriptionQueue ELSE subscriptionQueue \ released
        /\ queueClients' = [u \in Uirs |->
              IF u \in us THEN queueClients[u] \ who ELSE queueClients[u]]
        /\ unsubscriptionQueue' \in Trimmed(unsubscriptionQueue \cup released)
        /\ subscribedUirModes' = subscribedUirModes \ released
        /\ forcedProviderByUir' = Unpinned(released)
        /\ UNCHANGED <<tickerVars, isStreaming, adminStopped, batching>>

-----------------------------------------------------------------------------
(* The gateways' calls into the service.                                   *)

\* doSubscribe / handleSubscribe: the registry entry and the call.  A pin comes from a
\* Provider:identifier request, resolved only among that provider's own tokens.
ClientSubscribe(c, us, forced) ==
    /\ forced # NoProvider => us \X {forced} \subseteq Tokens
    /\ held' = [held EXCEPT ![c] = @ \cup us]
    /\ SubscribeToInstruments(c, us, forced)

\* The clients of the same gateway: each gateway searches only its own registry.
Neighbours(c) == IF c \in SocketClients THEN SocketClients ELSE NativeClients

\* The private unsubscribeFromInstruments of a gateway: ignored unless streaming.
GatewayUnsubscribe(us, who) ==
    IF isStreaming THEN UnsubscribeFromInstruments(us, who)
    ELSE UNCHANGED <<tickerVars, isStreaming, adminStopped, batching, queueVars,
                     ledgerVars>>

\* doUnsubscribe / handleUnsubscribe: nothing goes upstream while any client of the
\* same gateway holds any of the instruments named.
ClientUnsubscribe(c, us) ==
    /\ held' = [held EXCEPT ![c] = @ \ us]
    /\ IF \E d \in Neighbours(c) : held'[d] \cap us # {}
       THEN UNCHANGED <<tickerVars, isStreaming, adminStopped, batching, queueVars,
                        ledgerVars>>
       ELSE GatewayUnsubscribe(us, {c})

\* handleUnsubscribeAll (Socket.IO): everything the client holds, whoever else holds it.
ClientUnsubscribeAll(c) ==
    /\ c \in SocketClients
    /\ held[c] # {}
    /\ held' = [held EXCEPT ![c] = {}]
    /\ GatewayUnsubscribe(held[c], {c})

\* handleDisconnect: the Socket.IO gateway passes no client id, the native one does.
ClientDisconnect(c) ==
    /\ held[c] # {}
    /\ held' = [held EXCEPT ![c] = {}]
    /\ GatewayUnsubscribe(held[c], IF c \in NativeClients THEN {c} ELSE {})

-----------------------------------------------------------------------------
(* Start, stop, reconnect.                                                 *)

\* initializeStreaming for the providers `en` that are enabled and yield a ticker at this
\* moment.  A ticker that already carries handlers keeps the ones it has.
InitializeStreaming(en) ==
    /\ activeProviders' = activeProviders \cup en
    /\ handlersBound' = [p \in Providers |->
          IF p \in en /\ handlersBound[p] = "none" THEN "full" ELSE handlersBound[p]]
    /\ connectTimers' = connectTimers \cup en
    /\ UNCHANGED <<isConnected, subscribedUirIds, dialing, isStreaming, batching,
                   queueVars, ledgerVars, held>>

\* startStreaming: the admin endpoint and the OAuth callbacks.
StartStreaming(en) ==
    /\ adminStopped' = FALSE
    /\ InitializeStreaming(en)

\* autoStartIfNeeded, the path that goes on to startStreaming.
AutoStart(en) ==
    /\ ~isStreaming
    /\ ~adminStopped
    /\ StartStreaming(en)

\* stopStreaming.  The queues, the ledger and the pins survive; a setTimeout that is
\* still to call ticker.connect() is not cleared.
StopStreaming ==
    /\ adminStopped' = TRUE
    /\ batching' = FALSE
    /\ dialing' = dialing \ activeProviders
    /\ activeProviders' = {}
    /\ isConnected' = [p \in Providers |-> FALSE]
    /\ subscribedUirIds' = [p \in Providers |-> {}]
    /\ isStreaming' = FALSE
    /\ UNCHANGED <<handlersBound, connectTimers, queueVars, ledgerVars, held>>

\* reconnectIfStreaming: after a token update.
ReconnectIfStreaming(en) ==
    /\ isStreaming \/ activeProviders # {}
    /\ UNCHANGED adminStopped
    /\ IF activeProviders = {}
       THEN InitializeStreaming(en)
       ELSE /\ dialing' = dialing \ activeProviders
            /\ connectTimers' = connectTimers \cup activeProviders
            /\ UNCHANGED <<activeProviders, isConnected, subscribedUirIds, handlersBound,
                           isStreaming, batching, queueVars, ledgerVars, held>>

\* setTimeout(() => ticker.connect())
ConnectTimerFires(p) ==
    /\ p \in connectTimers
    /\ connectTimers' = connectTimers \ {p}
    /\ dialing' = dialing \cup {p}
    /\ UNCHANGED <<activeProviders, isConnected, subscribedUirIds, handlersBound,
                   isStreaming, adminStopped, batching, queueVars, ledgerVars, held>>

-----------------------------------------------------------------------------
(* Events of p's ticker.  'connect' needs a ticker that is told to connect;  *)
(* a sharded ticker emits it once per shard, so it may come again, and a     *)
(* socket of massive may still be greeted after disconnect() closed it.  A   *)
(* 'disconnect' or 'error' may come at any time after the handlers are bound.*)

ConnectFullNoTimer(p) ==    \* faulty: queues the ledger again, leaves the timer off
    /\ handlersBound[p] = "full"
    /\ isConnected' = [isConnected EXCEPT ![p] = p \in activeProviders]
    /\ isStreaming' = TRUE
    /\ subscriptionQueue' = subscriptionQueue \cup subscribedUirModes
    /\ UNCHANGED batching

\* The 'connect' closure of initializeStreaming: every ledger entry is queued again.
ConnectFull(p) ==
    /\ handlersBound[p] = "full"
    /\ isConnected' = [isConnected EXCEPT ![p] = p \in activeProviders]
    /\ isStreaming' = TRUE
    /\ subscriptionQueue' = subscriptionQueue \cup subscribedUirModes
    /\ batching' = (batching \/ subscribedUirModes # {})

\* The 'connect' closure of lazyInitProvider: flags only.
ConnectLazy(p) ==
    /\ handlersBound[p] = "lazy"
    /\ isConnected' = [isConnected EXCEPT ![p] = p \in activeProviders]
    /\ isStreaming' = TRUE
    /\ UNCHANGED <<subscriptionQueue, batching>>

TickerConnect(p) ==
    /\ p \in dialing \/ p = "massive"
    /\ ConnectFull(p) \/ ConnectLazy(p)
    /\ UNCHANGED <<activeProviders, subscribedUirIds, handlersBound, dialing,
                   connectTimers, adminStopped, queueClients, unsubscriptionQueue,
                   ledgerVars, held>>

MarkDownAll(p) ==    \* faulty: one provider down reports streaming as off
    /\ isConnected' = [isConnected EXCEPT ![p] = FALSE]
    /\ isStreaming' = FALSE

\* isConnected := false and isStreaming recomputed from what is left.
MarkDown(p) ==
    /\ isConnected' = [isConnected EXCEPT ![p] = FALSE]
    /\ isStreaming' = (\E q \in activeProviders \ {p} : isConnected[q])

\* The 'disconnect' closure of initializeStreaming: what p carried is queued again.
DisconnectFull(p) ==
    /\ handlersBound[p] = "full"
    /\ MarkDown(p)
    /\ subscriptionQueue' = subscriptionQueue \cup subscribedUirIds[p]
    /\ batching' = (batching \/ subscribedUirIds[p] # {})

\* The 'disconnect' closure of lazyInitProvider: flags only.
DisconnectLazy(p) ==
    /\ handlersBound[p] = "lazy"
    /\ MarkDown(p)
    /\ UNCHANGED <<subscriptionQueue, batching>>

TickerDisconnect(p) ==
    /\ DisconnectFull(p) \/ DisconnectLazy(p)
    /\ UNCHANGED <<activeProviders, subscribedUirIds, handlersBound, dialing,
                   connectTimers, adminStopped, queueClients, unsubscriptionQueue,
                   ledgerVars, held>>

\* The 'error' closure of initializeStreaming; the lazy one only logs.
TickerError(p) ==
    /\ handlersBound[p] = "full"
    /\ MarkDown(p)
    /\ UNCHANGED <<activeProviders, subscribedUirIds, handlersBound, dialing,
                   connectTimers, adminStopped, batching, queueVars, ledgerVars, held>>

-----------------------------------------------------------------------------
(* processSubscriptionBatch.                                               *)

\* Providers some queued instrument is routed to that have no state yet.
LazyWanted ==
    {Primary(u) : u \in subscriptionQueue} \ (activeProviders \cup {NoProvider})

\* byProvider[p], once the providers `active` are active: the queued instruments p is the
\* primary of, and those it covers as the secondary of an active primary.
Group(p, active) ==
    {u \in subscriptionQueue :
        /\ Primary(u) \in active
        /\ \/ p = Primary(u)
           \/ p \in Secondary(Primary(u)) /\ <<u, p>> \in Tokens}

LimitAlone(p) == Limit[p]    \* faulty: forgets what p carries already
Capacity(p) == Limit[p] - Cardinality(subscribedUirIds[p])

\* What p may be handed in this batch: nothing while it is not connected or full, else
\* as much of its group as there is capacity for.  Entries that are subscribed already
\* use up capacity like new ones.
SlicesAllOrNothing(p, active) ==    \* faulty: a group that just fits is held back
    {S \in SUBSET Group(p, active) :
        IF \/ p \notin active \/ ~isConnected[p]
           \/ Cardinality(Group(p, active)) >= Capacity(p)
        THEN S = {} ELSE S = Group(p, active)}
Slices(p, active) ==
    {S \in SUBSET Group(p, active) :
        IF p \notin active \/ ~isConnected[p] \/ Capacity(p) <= 0 THEN S = {}
        ELSE IF Cardinality(Group(p, active)) > Capacity(p)
             THEN Cardinality(S) = Capacity(p)
             ELSE S = Group(p, active)}

\* What leaves the queue: only what some connected provider took.
Grouped(slice) ==    \* faulty: everything that was grouped, taken or not
    {u \in subscriptionQueue : Primary(u) \in activeProviders}
Dispatched(slice) == UNION {slice[p] : p \in Providers}

\* Unsubscriptions come after subscriptions, for every active provider, connected or not.
AfterUnsubscriptions(ids) == ids \ unsubscriptionQueue

ProcessSubscriptionBatch ==
    /\ batching
    /\ subscriptionQueue # {} \/ unsubscriptionQueue # {}
    /\ \E started \in SUBSET LazyWanted :    \* those lazyInitProvider gets a ticker for
          /\ activeProviders' = activeProviders \cup started
          /\ handlersBound' = [p \in Providers |->
                IF p \in started /\ handlersBound[p] = "none"
                THEN "lazy" ELSE handlersBound[p]]
          /\ connectTimers' = connectTimers \cup started
    /\ \E slice \in [Providers -> SUBSET subscriptionQueue] :
          /\ \A p \in Providers : slice[p] \in Slices(p, activeProviders')
          /\ subscribedUirIds' = [p \in Providers |->
                AfterUnsubscriptions(subscribedUirIds[p] \cup slice[p])]
          /\ subscriptionQueue' = subscriptionQueue \ Dispatched(slice)
          /\ queueClients' = [u \in Uirs |->
                IF u \in subscriptionQueue' THEN queueClients[u] ELSE {}]
    /\ unsubscriptionQueue' = {}
    /\ UNCHANGED <<isConnected, dialing, isStreaming, adminStopped, batching,
                   ledgerVars, held>>

-----------------------------------------------------------------------------
Next ==
    \/ \E c \in Clients, us \in (SUBSET Uirs) \ {{}},
          forced \in Prefixes \cup {NoProvider} :
          ClientSubscribe(c, us, forced)
    \/ \E c \in Clients, us \in (SUBSET Uirs) \ {{}} : ClientUnsubscribe(c, us)
    \/ \E c \in Clients : ClientUnsubscribeAll(c) \/ ClientDisconnect(c)
    \/ \E en \in SUBSET Providers :
          StartStreaming(en) \/ AutoStart(en) \/ ReconnectIfStreaming(en)
    \/ StopStreaming
    \/ \E p \in Providers :
          \/ ConnectTimerFires(p)
          \/ TickerConnect(p)
          \/ TickerDisconnect(p)
          \/ TickerError(p)
    \/ ProcessSubscriptionBatch

Spec == Init /\ [][Next]_vars

\* setInterval(..., 500): while the timer is set the batch keeps running.
FairSpec == Spec /\ WF_vars(ProcessSubscriptionBatch)

-----------------------------------------------------------------------------
(* Properties.                                                             *)

\* No provider is ever recorded as carrying more instruments than its upstream limit,
\* whatever mixture of batches, re-queues after reconnects, pins and cover by the
\* secondary led there (the capacity check of processSubscriptionBatch).
UpstreamLimit ==
    \A p \in Providers : Cardinality(subscribedUirIds[p]) <= Limit[p]

\* Only active providers are connected or carry instruments, and the last of them to go
\* down takes isStreaming with it: a live connection is never reported as "not streaming",
\* which would make the gateways drop unsubscriptions.
LiveImpliesStreaming ==
    \A p \in Providers :
        /\ p \notin activeProviders => ~isConnected[p] /\ subscribedUirIds[p] = {}
        /\ isConnected[p] => isStreaming

\* A pin never outlives the ledger entry of its instrument: a later subscriber without a
\* prefix is never routed by the pin of a client that has gone.
PinsAreLedgered ==
    \A u \in Uirs : forcedProviderByUir[u] # NoProvider => u \in subscribedUirModes

\* While a ticker with the full handlers is up and somebody's subscription is in the
\* ledger, the 500 ms timer that flushes the queues is running: after a stop, only that
\* handler or a new subscription starts it again.
BatchTimerRuns ==
    (/\ subscribedUirModes # {}
     /\ \E p \in Providers : isConnected[p] /\ handlersBound[p] = "full")
        => batching

\* An entry with a waiting client is queued, so deleting the entry forgets its clients,
\* and the unsubscription set never outgrows its cap.
QueuesConsistent ==
    /\ \A u \in Uirs : queueClients[u] # {} => u \in subscriptionQueue
    /\ Cardinality(unsubscriptionQueue) <= UnsubQueueMax

\* Whether somebody still works for u: it waits in the queue or a provider carries it.
Covered(u) == u \in subscriptionQueue \/ \E p \in Providers : u \in subscribedUirIds[p]

\* One step's version of CoverLostOnlyBy.
CoverStep ==
    \A u \in subscribedUirModes \cap subscribedUirModes' :
        Covered(u) /\ ~Covered(u)' =>
            \/ u \in unsubscriptionQueue /\ unsubscriptionQueue' = {}
            \/ Cardinality(subscriptionQueue \cup subscriptionQueue') > SubQueueMax
            \/ activeProviders # {} /\ activeProviders' = {}

\* An instrument that stays in the ledger loses its cover in three ways only: an
\* unsubscription that was still pending when it was asked for again, an eviction from a
\* full queue, or stopStreaming.  In particular no batch forgets what a disconnected or
\* full provider did not take, and no disconnect drops what it carried.
CoverLostOnlyBy == [][CoverStep]_vars

\* u waits although a connected provider it is routed to has room for the whole queue.
CouldGo(u) ==
    /\ batching
    /\ u \in subscriptionQueue
    /\ \E p \in activeProviders :
          /\ isConnected[p]
          /\ u \in Group(p, activeProviders)
          /\ Cardinality(subscriptionQueue) <= Capacity(p)

\* No instrument waits for ever beside a connected provider with room for it, however
\* tickers flap and clients come and go between batches.
QueuedIsDispatched == \A u \in Uirs : []<>~CouldGo(u)

-----------------------------------------------------------------------------
(* What the documentation says and the code does not do (violation runs).   *)

\* "Set by admin stop; prevents auto-start from overriding an explicit admin decision":
\* until somebody starts streaming again, no event turns it back on.
AdminStopHolds == [][adminStopped /\ adminStopped' /\ ~isStreaming => ~isStreaming']_vars

=============================================================================
