------------------------ MODULE StreamBatchingProofs ------------------------
(***************************************************************************)
(* Safety of StreamBatching for every set of providers, instruments and    *)
(* clients and every limit.  The client actions reach the service through  *)
(* two operations, so the proofs first reduce a step of Next to an         *)
(* operation of the service (StepsOfTheService) and then go over those.    *)
(***************************************************************************)
EXTENDS StreamBatching, FiniteSetTheorems, TLAPS

USE DEF tickerVars, queueVars, ledgerVars

\* What a step does to the service, whoever asked for it.
Reconnects ==
    /\ dialing' = dialing \ activeProviders
    /\ connectTimers' = connectTimers \cup activeProviders
    /\ UNCHANGED <<activeProviders, isConnected, subscribedUirIds, handlersBound,
                   isStreaming, adminStopped, batching, queueVars, ledgerVars>>

Idles == UNCHANGED <<tickerVars, isStreaming, adminStopped, batching, queueVars,
                     ledgerVars>>

ServiceStep ==
    \/ \E c \in Clients, us \in SUBSET Uirs, forced \in ProviderOrNone :
          SubscribeToInstruments(c, us, forced)
    \/ \E us \in SUBSET Uirs, who \in SUBSET Clients : UnsubscribeFromInstruments(us, who)
    \/ \E en \in SUBSET Providers :
          InitializeStreaming(en) /\ adminStopped' \in {adminStopped, FALSE}
    \/ StopStreaming
    \/ Reconnects
    \/ \E p \in Providers :
          ConnectTimerFires(p) \/ TickerConnect(p) \/ TickerDisconnect(p) \/ TickerError(p)
    \/ ProcessSubscriptionBatch
    \/ Idles

\* A step of the specification is one operation of the service, and leaves the gateways'
\* records well typed.
LEMMA StepsOfTheService ==
    ASSUME TypeOK, [Next]_vars
    PROVE  ServiceStep /\ held' \in [Clients -> SUBSET Uirs]
<1> USE DEF TypeOK, ServiceStep, Idles
<1>1. CASE UNCHANGED vars
  BY <1>1 DEF vars
<1>2. ASSUME NEW c \in Clients, NEW us \in (SUBSET Uirs) \ {{}},
             NEW forced \in Prefixes \cup {NoProvider}, ClientSubscribe(c, us, forced)
      PROVE  ServiceStep /\ held' \in [Clients -> SUBSET Uirs]
  <2>1. forced \in ProviderOrNone
    BY PrefixesAssumption DEF ProviderOrNone
  <2>2. SubscribeToInstruments(c, us, forced) /\ held' = [held EXCEPT ![c] = @ \cup us]
    BY <1>2 DEF ClientSubscribe
  <2> QED BY <2>1, <2>2
<1>3. ASSUME NEW us \in SUBSET Uirs, NEW who \in SUBSET Clients,
             GatewayUnsubscribe(us, who)
      PROVE  ServiceStep
  BY <1>3 DEF GatewayUnsubscribe
<1>4. ASSUME NEW c \in Clients, NEW us \in (SUBSET Uirs) \ {{}}, ClientUnsubscribe(c, us)
      PROVE  ServiceStep /\ held' \in [Clients -> SUBSET Uirs]
  <2>1. held' = [held EXCEPT ![c] = @ \ us]
    BY <1>4 DEF ClientUnsubscribe
  <2>2. Idles \/ GatewayUnsubscribe(us, {c})
    BY <1>4 DEF ClientUnsubscribe
  <2>3. {c} \in SUBSET Clients
    OBVIOUS
  <2> QED BY <1>3, <2>1, <2>2, <2>3
<1>5. ASSUME NEW c \in Clients, ClientUnsubscribeAll(c) \/ ClientDisconnect(c)
      PROVE  ServiceStep /\ held' \in [Clients -> SUBSET Uirs]
  <2>1. PICK who \in SUBSET Clients : GatewayUnsubscribe(held[c], who)
    BY <1>5 DEF ClientUnsubscribeAll, ClientDisconnect
  <2>2. held' = [held EXCEPT ![c] = {}]
    BY <1>5 DEF ClientUnsubscribeAll, ClientDisconnect
  <2> QED BY <1>3, <2>1, <2>2
<1>6. ASSUME NEW en \in SUBSET Providers,
             StartStreaming(en) \/ AutoStart(en) \/ ReconnectIfStreaming(en)
      PROVE  ServiceStep /\ held' \in [Clients -> SUBSET Uirs]
  <2>1. CASE StartStreaming(en) \/ AutoStart(en)
    BY <2>1 DEF StartStreaming, AutoStart, InitializeStreaming
  <2>2. CASE ReconnectIfStreaming(en)
    BY <2>2 DEF ReconnectIfStreaming, InitializeStreaming, Reconnects
  <2> QED BY <1>6, <2>1, <2>2
<1>7. CASE StopStreaming
  BY <1>7 DEF StopStreaming
<1>8. ASSUME NEW p \in Providers,
             ConnectTimerFires(p) \/ TickerConnect(p) \/ TickerDisconnect(p)
                 \/ TickerError(p)
      PROVE  ServiceStep /\ held' \in [Clients -> SUBSET Uirs]
  BY <1>8 DEF ConnectTimerFires, TickerConnect, TickerDisconnect, TickerError
<1>9. CASE ProcessSubscriptionBatch
  BY <1>9 DEF ProcessSubscriptionBatch
<1> QED BY <1>1, <1>2, <1>4, <1>5, <1>6, <1>7, <1>8, <1>9 DEF Next

-----------------------------------------------------------------------------
(* Routing.                                                                *)

\* The registry names a provider that has a token for the instrument, or none.
LEMMA BestProviderType ==
    ASSUME NEW u \in Uirs
    PROVE  BestProvider(u) \in HasToken(u) \cup {NoProvider}
<1> DEFINE order == FallbackOrder(u)
           first(i) == /\ order[i] \in HasToken(u)
                       /\ \A j \in 1 .. (i - 1) : order[j] \notin HasToken(u)
<1>1. HasToken(u) \subseteq ProviderNames
  BY ProvidersAssumption DEF HasToken
<1>2. \A p \in ProviderNames : \E i \in 1 .. 4 : order[i] = p
  BY DEF FallbackOrder, ProviderNames
<1>3. ASSUME HasToken(u) # {} PROVE \E i \in 1 .. 4 : first(i)
  <2>1. \E i \in 1 .. 4 : order[i] \in HasToken(u)
    BY <1>1, <1>2, <1>3
  <2> HIDE DEF order
  <2>2. CASE order[1] \in HasToken(u)
    BY <2>2
  <2>3. CASE order[1] \notin HasToken(u) /\ order[2] \in HasToken(u)
    BY <2>3
  <2>4. CASE order[1] \notin HasToken(u) /\ order[2] \notin HasToken(u)
             /\ order[3] \in HasToken(u)
    BY <2>4
  <2>5. CASE order[1] \notin HasToken(u) /\ order[2] \notin HasToken(u)
             /\ order[3] \notin HasToken(u) /\ order[4] \in HasToken(u)
    BY <2>5
  <2> QED BY <2>1, <2>2, <2>3, <2>4, <2>5
<1>4. CASE HomeProvider(u) \in HasToken(u)
  BY <1>4 DEF BestProvider
<1>5. CASE HomeProvider(u) \notin HasToken(u) /\ HasToken(u) = {}
  BY <1>5 DEF BestProvider
<1>6. CASE HomeProvider(u) \notin HasToken(u) /\ HasToken(u) # {}
  <2>1. BestProvider(u) = order[CHOOSE i \in 1 .. 4 : first(i)]
    BY <1>6 DEF BestProvider
  <2>2. first(CHOOSE i \in 1 .. 4 : first(i))
    BY <1>3, <1>6
  <2> QED BY <2>1, <2>2
<1> QED BY <1>4, <1>5, <1>6

LEMMA PrimaryType ==
    ASSUME TypeOK, NEW u \in Uirs
    PROVE  Primary(u) \in ProviderOrNone
BY BestProviderType DEF TypeOK, Primary, HasToken, ProviderOrNone

-----------------------------------------------------------------------------
(* Type correctness.                                                       *)

LEMMA TypeCorrectInit == Init => TypeOK
BY DEF Init, TypeOK, ProviderOrNone

LEMMA TypeCorrectStep ==
    ASSUME TypeOK, [Next]_vars
    PROVE  TypeOK'
<1> USE DEF TypeOK
<1>0. ServiceStep /\ held' \in [Clients -> SUBSET Uirs]
  BY StepsOfTheService
<1>1. ASSUME NEW c \in Clients, NEW us \in SUBSET Uirs, NEW forced \in ProviderOrNone,
             SubscribeToInstruments(c, us, forced)
      PROVE  TypeOK'
  <2>1. PICK kept \in SUBSET subscriptionQueue :
            /\ subscriptionQueue' = kept \cup us
            /\ queueClients' = [u \in Uirs |->
                  (IF u \in kept THEN queueClients[u] ELSE {})
                      \cup (IF u \in us THEN {c} ELSE {})]
    BY <1>1 DEF SubscribeToInstruments, Evictions
  <2>2. queueClients' \in [Uirs -> SUBSET Clients]
    BY <2>1
  <2>3. forcedProviderByUir' \in [Uirs -> ProviderOrNone]
    BY <1>1 DEF SubscribeToInstruments
  <2> QED BY <1>0, <1>1, <2>1, <2>2, <2>3 DEF SubscribeToInstruments
<1>2. ASSUME NEW us \in SUBSET Uirs, NEW who \in SUBSET Clients,
             UnsubscribeFromInstruments(us, who)
      PROVE  TypeOK'
  <2>1. Released(us, who) \subseteq Uirs
    BY DEF Released
  <2>2. queueClients' \in [Uirs -> SUBSET Clients]
    BY <1>2 DEF UnsubscribeFromInstruments
  <2>3. forcedProviderByUir' \in [Uirs -> ProviderOrNone]
    BY <1>2 DEF UnsubscribeFromInstruments, Unpinned, ProviderOrNone
  <2>4. unsubscriptionQueue' \subseteq Uirs
    BY <1>2, <2>1 DEF UnsubscribeFromInstruments, Trimmed
  <2> QED BY <1>0, <1>2, <2>1, <2>2, <2>3, <2>4 DEF UnsubscribeFromInstruments
<1>3. ASSUME NEW en \in SUBSET Providers, InitializeStreaming(en),
             adminStopped' \in {adminStopped, FALSE}
      PROVE  TypeOK'
  BY <1>0, <1>3 DEF InitializeStreaming
<1>4. CASE StopStreaming
  BY <1>0, <1>4 DEF StopStreaming
<1>5. CASE Reconnects
  BY <1>0, <1>5 DEF Reconnects
<1>6. ASSUME NEW p \in Providers, ConnectTimerFires(p)
      PROVE  TypeOK'
  BY <1>0, <1>6 DEF ConnectTimerFires
<1>7. ASSUME NEW p \in Providers, TickerConnect(p)
      PROVE  TypeOK'
  <2>1. isConnected' = [isConnected EXCEPT ![p] = p \in activeProviders]
    BY <1>7 DEF TickerConnect, ConnectFull, ConnectLazy
  <2>2. isConnected' \in [Providers -> BOOLEAN]
    <3>1. (p \in activeProviders) \in BOOLEAN
      OBVIOUS
    <3> QED BY <2>1, <3>1
  <2>3. isStreaming' \in BOOLEAN /\ batching' \in BOOLEAN
    BY <1>7 DEF TickerConnect, ConnectFull, ConnectLazy
  <2>4. subscriptionQueue' \subseteq Uirs
    BY <1>7 DEF TickerConnect, ConnectFull, ConnectLazy
  <2> QED BY <1>0, <1>7, <2>2, <2>3, <2>4 DEF TickerConnect
<1>8. ASSUME NEW p \in Providers, TickerDisconnect(p) \/ TickerError(p)
      PROVE  TypeOK'
  <2>1. isConnected' \in [Providers -> BOOLEAN] /\ isStreaming' \in BOOLEAN
    BY <1>8 DEF TickerDisconnect, TickerError, DisconnectFull, DisconnectLazy, MarkDown
  <2> QED BY <1>0, <1>8, <2>1
          DEF TickerDisconnect, TickerError, DisconnectFull, DisconnectLazy
<1>9. CASE ProcessSubscriptionBatch
  <2>1. PICK started \in SUBSET LazyWanted :
            /\ activeProviders' = activeProviders \cup started
            /\ handlersBound' = [p \in Providers |->
                  IF p \in started /\ handlersBound[p] = "none"
                  THEN "lazy" ELSE handlersBound[p]]
            /\ connectTimers' = connectTimers \cup started
    BY <1>9 DEF ProcessSubscriptionBatch
  <2>2. LazyWanted \subseteq Providers
    BY PrimaryType DEF LazyWanted, ProviderOrNone
  <2>3. PICK slice \in [Providers -> SUBSET subscriptionQueue] :
            /\ subscribedUirIds' = [p \in Providers |->
                  AfterUnsubscriptions(subscribedUirIds[p] \cup slice[p])]
            /\ subscriptionQueue' = subscriptionQueue \ Dispatched(slice)
            /\ queueClients' = [u \in Uirs |->
                  IF u \in subscriptionQueue' THEN queueClients[u] ELSE {}]
    BY <1>9 DEF ProcessSubscriptionBatch
  <2>4. subscribedUirIds' \in [Providers -> SUBSET Uirs]
    BY <2>3 DEF AfterUnsubscriptions
  <2>5. queueClients' \in [Uirs -> SUBSET Clients]
    BY <2>3
  <2>6. subscriptionQueue' \subseteq Uirs
    BY <2>3
  <2>7. handlersBound' \in [Providers -> {"none", "full", "lazy"}]
    BY <2>1
  <2> QED BY <1>0, <1>9, <2>1, <2>2, <2>4, <2>5, <2>6, <2>7 DEF ProcessSubscriptionBatch
<1>10. CASE Idles
  BY <1>0, <1>10 DEF Idles
<1> QED BY <1>0, <1>1, <1>2, <1>3, <1>4, <1>5, <1>6, <1>7, <1>8, <1>9, <1>10
        DEF ServiceStep

\* Every variable keeps its type, for every choice of the constants.
THEOREM TypeCorrect == Spec => []TypeOK
<1>1. Init => TypeOK
  BY TypeCorrectInit
<1>2. TypeOK /\ [Next]_vars => TypeOK'
  BY TypeCorrectStep
<1> QED BY <1>1, <1>2, PTL DEF Spec

-----------------------------------------------------------------------------
(* The flags: who is up, what is reported, whether the timer runs.          *)

\* Only a ticker with handlers can be connected: without this conjunct binding the full
\* handlers could bring BatchTimerRuns into force with the timer off.
ConnectedIsBound == \A p \in Providers : isConnected[p] => handlersBound[p] # "none"

FlagsInv ==
    /\ TypeOK
    /\ LiveImpliesStreaming
    /\ ConnectedIsBound
    /\ BatchTimerRuns

LEMMA FlagsStep ==
    ASSUME FlagsInv, [Next]_vars
    PROVE  FlagsInv'
<1> USE DEF FlagsInv
<1>0. ServiceStep /\ TypeOK'
  BY StepsOfTheService, TypeCorrectStep
<1> SUFFICES LiveImpliesStreaming' /\ ConnectedIsBound' /\ BatchTimerRuns'
  BY <1>0
<1> USE DEF TypeOK, LiveImpliesStreaming, ConnectedIsBound, BatchTimerRuns
<1>1. ASSUME NEW c \in Clients, NEW us \in SUBSET Uirs, NEW forced \in ProviderOrNone,
             SubscribeToInstruments(c, us, forced)
      PROVE  LiveImpliesStreaming' /\ ConnectedIsBound' /\ BatchTimerRuns'
  BY <1>1 DEF SubscribeToInstruments
<1>2. ASSUME NEW us \in SUBSET Uirs, NEW who \in SUBSET Clients,
             UnsubscribeFromInstruments(us, who)
      PROVE  LiveImpliesStreaming' /\ ConnectedIsBound' /\ BatchTimerRuns'
  BY <1>2 DEF UnsubscribeFromInstruments
<1>3. ASSUME NEW en \in SUBSET Providers, InitializeStreaming(en)
      PROVE  LiveImpliesStreaming' /\ ConnectedIsBound' /\ BatchTimerRuns'
  <2>1. \A p \in Providers : isConnected[p] => handlersBound'[p] = handlersBound[p]
    BY <1>3 DEF InitializeStreaming
  <2> QED BY <1>3, <2>1 DEF InitializeStreaming
<1>4. CASE StopStreaming
  BY <1>4 DEF StopStreaming
<1>5. CASE Reconnects
  BY <1>5 DEF Reconnects
<1>6. ASSUME NEW p \in Providers, ConnectTimerFires(p)
      PROVE  LiveImpliesStreaming' /\ ConnectedIsBound' /\ BatchTimerRuns'
  BY <1>6 DEF ConnectTimerFires
<1>7. ASSUME NEW p \in Providers, TickerConnect(p)
      PROVE  LiveImpliesStreaming' /\ ConnectedIsBound' /\ BatchTimerRuns'
  <2>1. /\ isConnected' = [isConnected EXCEPT ![p] = p \in activeProviders]
        /\ isStreaming' = TRUE
        /\ handlersBound[p] \in {"full", "lazy"}
        /\ UNCHANGED <<activeProviders, subscribedUirIds, handlersBound,
                       subscribedUirModes>>
    BY <1>7 DEF TickerConnect, ConnectFull, ConnectLazy
  <2>2. \A q \in Providers : isConnected'[q] =>
            /\ q \in activeProviders
            /\ handlersBound[q] # "none"
            /\ q # p => isConnected[q]
    BY <2>1
  <2>3. LiveImpliesStreaming' /\ ConnectedIsBound'
    BY <2>1, <2>2
  <2>4. CASE ConnectFull(p)
    BY <2>1, <2>2, <2>4 DEF ConnectFull
  <2>5. CASE ConnectLazy(p)
    BY <2>1, <2>2, <2>5 DEF ConnectLazy
  <2> QED BY <1>7, <2>3, <2>4, <2>5 DEF TickerConnect
<1>8. ASSUME NEW p \in Providers, TickerDisconnect(p) \/ TickerError(p)
      PROVE  LiveImpliesStreaming' /\ ConnectedIsBound' /\ BatchTimerRuns'
  <2>1. /\ MarkDown(p)
        /\ batching => batching'
        /\ UNCHANGED <<activeProviders, subscribedUirIds, handlersBound,
                       subscribedUirModes>>
    BY <1>8 DEF TickerDisconnect, TickerError, DisconnectFull, DisconnectLazy
  <2>2. \A q \in Providers : isConnected'[q] => isConnected[q] /\ q # p
    BY <2>1 DEF MarkDown
  <2>3. \A q \in Providers : isConnected'[q] => isStreaming'
    BY <2>1, <2>2 DEF MarkDown
  <2> QED BY <2>1, <2>2, <2>3
<1>9. CASE ProcessSubscriptionBatch
  <2>1. PICK started \in SUBSET LazyWanted :
            /\ activeProviders' = activeProviders \cup started
            /\ handlersBound' = [p \in Providers |->
                  IF p \in started /\ handlersBound[p] = "none"
                  THEN "lazy" ELSE handlersBound[p]]
    BY <1>9 DEF ProcessSubscriptionBatch
  <2>2. PICK slice \in [Providers -> SUBSET subscriptionQueue] :
            /\ \A p \in Providers : slice[p] \in Slices(p, activeProviders')
            /\ subscribedUirIds' = [p \in Providers |->
                  AfterUnsubscriptions(subscribedUirIds[p] \cup slice[p])]
    BY <1>9 DEF ProcessSubscriptionBatch
  <2>3. \A p \in Providers : p \notin activeProviders' => subscribedUirIds'[p] = {}
    BY <2>1, <2>2 DEF Slices, AfterUnsubscriptions
  <2> QED BY <1>9, <2>1, <2>3 DEF ProcessSubscriptionBatch
<1>10. CASE Idles
  BY <1>10 DEF Idles
<1> QED BY <1>0, <1>1, <1>2, <1>3, <1>4, <1>5, <1>6, <1>7, <1>8, <1>9, <1>10
        DEF ServiceStep

LEMMA FlagsAlways == Spec => []FlagsInv
<1>1. Init => FlagsInv
  BY TypeCorrectInit
     DEF Init, FlagsInv, LiveImpliesStreaming, ConnectedIsBound, BatchTimerRuns
<1>2. FlagsInv /\ [Next]_vars => FlagsInv'
  BY FlagsStep
<1> QED BY <1>1, <1>2, PTL DEF Spec

\* Only active providers are up or carry instruments, and a provider that is up is
\* reported as streaming.
THEOREM LiveIsReported == Spec => []LiveImpliesStreaming
<1>1. FlagsInv => LiveImpliesStreaming
  BY DEF FlagsInv
<1> QED BY <1>1, FlagsAlways, PTL

\* With a fully handled ticker up and a ledger that is not empty, the batch timer is set.
THEOREM TimerRunsWhileLive == Spec => []BatchTimerRuns
<1>1. FlagsInv => BatchTimerRuns
  BY DEF FlagsInv
<1> QED BY <1>1, FlagsAlways, PTL

-----------------------------------------------------------------------------
(* The upstream limit.                                                     *)

\* What a batch hands to a provider fits into the capacity it has left.
LEMMA SliceFits ==
    ASSUME TypeOK, UpstreamLimit, NEW active, NEW p \in Providers,
           NEW S \in Slices(p, active)
    PROVE  Cardinality(subscribedUirIds[p] \cup S) <= Limit[p]
<1> USE DEF TypeOK
<1>1. Group(p, active) \subseteq Uirs /\ S \subseteq Group(p, active)
  BY DEF Group, Slices
<1>2. /\ IsFiniteSet(subscribedUirIds[p])
      /\ IsFiniteSet(Group(p, active))
      /\ IsFiniteSet(S)
  BY <1>1, UirsAssumption, FS_Subset
<1>3. /\ Cardinality(subscribedUirIds[p]) \in Nat
      /\ Cardinality(Group(p, active)) \in Nat
      /\ Cardinality(S) \in Nat
      /\ Limit[p] \in Nat
  BY <1>2, FS_CardinalityType, LimitAssumption
<1>4. Cardinality(subscribedUirIds[p]) <= Limit[p]
  BY DEF UpstreamLimit
<1>5. CASE S = {}
  <2>1. subscribedUirIds[p] \cup S = subscribedUirIds[p]
    BY <1>5
  <2> QED BY <1>4, <2>1
<1>6. CASE Cardinality(S) <= Capacity(p)
  <2>1. /\ IsFiniteSet(subscribedUirIds[p] \cap S)
        /\ Cardinality(subscribedUirIds[p] \cap S) \in Nat
    BY <1>2, FS_Intersection, FS_CardinalityType
  <2>2. Cardinality(subscribedUirIds[p] \cup S)
          = Cardinality(subscribedUirIds[p]) + Cardinality(S)
              - Cardinality(subscribedUirIds[p] \cap S)
    BY <1>2, FS_Union
  <2> QED BY <1>3, <1>6, <2>1, <2>2 DEF Capacity
<1>7. S = {} \/ Cardinality(S) <= Capacity(p)
  BY <1>3 DEF Slices, Capacity
<1> QED BY <1>5, <1>6, <1>7

LEMMA UpstreamLimitStep ==
    ASSUME TypeOK, UpstreamLimit, [Next]_vars
    PROVE  UpstreamLimit'
<1> USE DEF TypeOK
<1>0. ServiceStep
  BY StepsOfTheService
<1>1. CASE UNCHANGED subscribedUirIds
  BY <1>1 DEF UpstreamLimit
<1>2. CASE StopStreaming
  <2>1. \A p \in Providers : subscribedUirIds'[p] = {}
    BY <1>2 DEF StopStreaming
  <2>2. Cardinality({}) = 0
    BY FS_EmptySet
  <2>3. \A p \in Providers : Limit[p] \in Nat /\ 0 <= Limit[p]
    BY LimitAssumption
  <2>4. \A p \in Providers : Cardinality(subscribedUirIds'[p]) = 0
    BY <2>1, <2>2
  <2> HIDE DEF TypeOK
  <2> QED BY <2>3, <2>4 DEF UpstreamLimit
<1>3. CASE ProcessSubscriptionBatch
  <2> SUFFICES ASSUME NEW p \in Providers
               PROVE  Cardinality(subscribedUirIds'[p]) <= Limit[p]
    BY DEF UpstreamLimit
  <2>1. PICK slice \in [Providers -> SUBSET subscriptionQueue] :
            /\ slice[p] \in Slices(p, activeProviders')
            /\ subscribedUirIds' = [q \in Providers |->
                  AfterUnsubscriptions(subscribedUirIds[q] \cup slice[q])]
    BY <1>3 DEF ProcessSubscriptionBatch
  <2> DEFINE carried == subscribedUirIds[p] \cup slice[p]
  <2>2. Cardinality(carried) <= Limit[p]
    BY <2>1, SliceFits
  <2>3. subscribedUirIds'[p] \subseteq carried
    BY <2>1 DEF AfterUnsubscriptions
  <2>4. IsFiniteSet(carried)
    BY UirsAssumption, FS_Subset
  <2>5. /\ IsFiniteSet(subscribedUirIds'[p])
        /\ Cardinality(subscribedUirIds'[p]) <= Cardinality(carried)
    BY <2>3, <2>4, FS_Subset
  <2>6. /\ Cardinality(subscribedUirIds'[p]) \in Nat
        /\ Cardinality(carried) \in Nat
        /\ Limit[p] \in Nat
    BY <2>4, <2>5, FS_CardinalityType, LimitAssumption
  <2> HIDE DEF carried, TypeOK
  <2> QED BY <2>2, <2>5, <2>6
<1>4. ServiceStep =>
        UNCHANGED subscribedUirIds \/ StopStreaming \/ ProcessSubscriptionBatch
  BY DEF ServiceStep, SubscribeToInstruments, UnsubscribeFromInstruments,
         InitializeStreaming, Reconnects, ConnectTimerFires, TickerConnect,
         TickerDisconnect, TickerError, Idles
<1> QED BY <1>0, <1>1, <1>2, <1>3, <1>4

\* No provider is recorded as carrying more than its upstream limit, whatever the limits.
THEOREM UpstreamLimitHolds == Spec => []UpstreamLimit
<1>1. Init => TypeOK /\ UpstreamLimit
  BY TypeCorrectInit, FS_EmptySet, LimitAssumption DEF Init, UpstreamLimit
<1>2. TypeOK /\ UpstreamLimit /\ [Next]_vars => TypeOK' /\ UpstreamLimit'
  BY TypeCorrectStep, UpstreamLimitStep
<1> QED BY <1>1, <1>2, PTL DEF Spec

-----------------------------------------------------------------------------
(* Pins and queues.                                                        *)

LEMMA PinsStep ==
    ASSUME TypeOK, PinsAreLedgered, [Next]_vars
    PROVE  PinsAreLedgered'
<1> USE DEF TypeOK, PinsAreLedgered
<1>0. ServiceStep
  BY StepsOfTheService
<1>1. CASE UNCHANGED ledgerVars
  BY <1>1
<1>2. ASSUME NEW c \in Clients, NEW us \in SUBSET Uirs, NEW forced \in ProviderOrNone,
             SubscribeToInstruments(c, us, forced)
      PROVE  PinsAreLedgered'
  BY <1>2 DEF SubscribeToInstruments
<1>3. ASSUME NEW us \in SUBSET Uirs, NEW who \in SUBSET Clients,
             UnsubscribeFromInstruments(us, who)
      PROVE  PinsAreLedgered'
  BY <1>3 DEF UnsubscribeFromInstruments, Unpinned
<1>4. \/ UNCHANGED ledgerVars
      \/ \E c \in Clients, us \in SUBSET Uirs, forced \in ProviderOrNone :
            SubscribeToInstruments(c, us, forced)
      \/ \E us \in SUBSET Uirs, who \in SUBSET Clients :
            UnsubscribeFromInstruments(us, who)
  BY <1>0 DEF ServiceStep, InitializeStreaming, StopStreaming, Reconnects,
              ConnectTimerFires, TickerConnect, TickerDisconnect, TickerError,
              ProcessSubscriptionBatch, Idles
<1> QED BY <1>1, <1>2, <1>3, <1>4

\* A pin never outlives the ledger entry of its instrument.
THEOREM PinsHaveLedgerEntry == Spec => []PinsAreLedgered
<1>1. Init => TypeOK /\ PinsAreLedgered
  BY TypeCorrectInit DEF Init, PinsAreLedgered
<1>2. TypeOK /\ PinsAreLedgered /\ [Next]_vars => TypeOK' /\ PinsAreLedgered'
  BY TypeCorrectStep, PinsStep
<1> QED BY <1>1, <1>2, PTL DEF Spec

-----------------------------------------------------------------------------
(* Cover.                                                                  *)

\* A subscription evicts only when the queue and the new entries together pass the cap.
LEMMA EvictionMeansOverflow ==
    ASSUME TypeOK, NEW us \in SUBSET Uirs,
           NEW kept \in Evictions(Cardinality(us \ subscriptionQueue)),
           kept # subscriptionQueue
    PROVE  Cardinality(subscriptionQueue \cup us) > SubQueueMax
<1> USE DEF TypeOK
<1> DEFINE new == us \ subscriptionQueue
<1>1. IsFiniteSet(subscriptionQueue) /\ IsFiniteSet(new)
  BY UirsAssumption, FS_Subset
<1>2. Cardinality(subscriptionQueue) \in Nat /\ Cardinality(new) \in Nat
  BY <1>1, FS_CardinalityType
<1>3. Cardinality(subscriptionQueue) + Cardinality(new) - SubQueueMax > 0
  BY <1>2, QueueMaxAssumption DEF Evictions
<1>4. subscriptionQueue \cup new = subscriptionQueue \cup us
  OBVIOUS
<1>5. Cardinality(subscriptionQueue \cap new) = 0
  <2>1. subscriptionQueue \cap new = {}
    OBVIOUS
  <2> QED BY <2>1, FS_EmptySet
<1>6. Cardinality(subscriptionQueue \cup new)
        = Cardinality(subscriptionQueue) + Cardinality(new) - 0
  BY <1>1, <1>5, FS_Union
<1> HIDE DEF new, TypeOK
<1>7. Cardinality(subscriptionQueue \cup new) > SubQueueMax
  BY <1>2, <1>3, <1>6, QueueMaxAssumption
<1> QED BY <1>4, <1>7

LEMMA CoverStepHolds ==
    ASSUME TypeOK, LiveImpliesStreaming, [Next]_vars
    PROVE  CoverStep
<1> USE DEF TypeOK
<1>0. ServiceStep
  BY StepsOfTheService
<1> SUFFICES ASSUME NEW u \in subscribedUirModes \cap subscribedUirModes',
                    Covered(u), ~Covered(u)'
             PROVE  \/ u \in unsubscriptionQueue /\ unsubscriptionQueue' = {}
                    \/ Cardinality(subscriptionQueue \cup subscriptionQueue') > SubQueueMax
                    \/ activeProviders # {} /\ activeProviders' = {}
  BY DEF CoverStep
<1>1. ASSUME NEW c \in Clients, NEW us \in SUBSET Uirs, NEW forced \in ProviderOrNone,
             SubscribeToInstruments(c, us, forced)
      PROVE  Cardinality(subscriptionQueue \cup subscriptionQueue') > SubQueueMax
  <2>1. PICK kept \in Evictions(Cardinality(us \ subscriptionQueue)) :
            subscriptionQueue' = kept \cup us
    BY <1>1 DEF SubscribeToInstruments
  <2>2. UNCHANGED subscribedUirIds
    BY <1>1 DEF SubscribeToInstruments
  <2>3. kept # subscriptionQueue
    BY <2>1, <2>2 DEF Covered
  <2>4. Cardinality(subscriptionQueue \cup us) > SubQueueMax
    BY <2>3, EvictionMeansOverflow
  <2>5. subscriptionQueue \cup subscriptionQueue' = subscriptionQueue \cup us
    BY <2>1 DEF Evictions
  <2> QED BY <2>4, <2>5
<1>2. ASSUME NEW us \in SUBSET Uirs, NEW who \in SUBSET Clients,
             UnsubscribeFromInstruments(us, who)
      PROVE  FALSE
  BY <1>2 DEF UnsubscribeFromInstruments, Covered
<1>3. CASE StopStreaming
  <2>1. CASE activeProviders = {}
    <3>1. \A p \in Providers : subscribedUirIds[p] = {}
      BY <2>1 DEF LiveImpliesStreaming
    <3> QED BY <1>3, <3>1 DEF StopStreaming, Covered
  <2> QED BY <1>3, <2>1 DEF StopStreaming
<1>4. CASE subscriptionQueue \subseteq subscriptionQueue' /\ UNCHANGED subscribedUirIds
  BY <1>4 DEF Covered
<1>5. CASE ProcessSubscriptionBatch
  <2>1. PICK slice \in [Providers -> SUBSET subscriptionQueue] :
            /\ subscribedUirIds' = [p \in Providers |->
                  AfterUnsubscriptions(subscribedUirIds[p] \cup slice[p])]
            /\ subscriptionQueue' = subscriptionQueue \ Dispatched(slice)
    BY <1>5 DEF ProcessSubscriptionBatch
  <2>2. u \notin unsubscriptionQueue => \A p \in Providers :
            u \in subscribedUirIds[p] \cup slice[p] => u \in subscribedUirIds'[p]
    BY <2>1 DEF AfterUnsubscriptions
  <2>3. u \in subscriptionQueue \ subscriptionQueue' => \E p \in Providers : u \in slice[p]
    BY <2>1 DEF Dispatched
  <2>4. u \in unsubscriptionQueue
    BY <2>2, <2>3 DEF Covered
  <2> QED BY <1>5, <2>4 DEF ProcessSubscriptionBatch
<1>6. ASSUME NEW p \in Providers,
             ConnectTimerFires(p) \/ TickerConnect(p) \/ TickerDisconnect(p)
                 \/ TickerError(p)
      PROVE  subscriptionQueue \subseteq subscriptionQueue' /\ UNCHANGED subscribedUirIds
  BY <1>6 DEF ConnectTimerFires, TickerConnect, ConnectFull, ConnectLazy,
              TickerDisconnect, DisconnectFull, DisconnectLazy, TickerError
<1>7. ASSUME \/ \E en \in SUBSET Providers : InitializeStreaming(en)
             \/ Reconnects \/ Idles
      PROVE  subscriptionQueue \subseteq subscriptionQueue' /\ UNCHANGED subscribedUirIds
  BY <1>7 DEF InitializeStreaming, Reconnects, Idles
<1> QED BY <1>0, <1>1, <1>2, <1>3, <1>4, <1>5, <1>6, <1>7 DEF ServiceStep

\* What stays in the ledger loses its cover by a pending unsubscription, an eviction from a
\* full queue or a stop, and by nothing else.
THEOREM CoverIsKept == Spec => CoverLostOnlyBy
<1>1. FlagsInv /\ [Next]_vars => [CoverStep]_vars
  BY CoverStepHolds DEF FlagsInv
<1> QED BY <1>1, FlagsAlways, PTL DEF Spec, CoverLostOnlyBy

-----------------------------------------------------------------------------
(* The queues.                                                             *)

LEMMA QueuesStep ==
    ASSUME TypeOK, QueuesConsistent, [Next]_vars
    PROVE  QueuesConsistent'
<1> USE DEF TypeOK
<1>0. ServiceStep
  BY StepsOfTheService
<1>1. CASE UNCHANGED queueVars
  BY <1>1 DEF QueuesConsistent, queueVars
<1>2. ASSUME NEW c \in Clients, NEW us \in SUBSET Uirs, NEW forced \in ProviderOrNone,
             SubscribeToInstruments(c, us, forced)
      PROVE  QueuesConsistent'
  <2>1. PICK kept \in Evictions(Cardinality(us \ subscriptionQueue)) :
            /\ subscriptionQueue' = kept \cup us
            /\ queueClients' = [u \in Uirs |->
                  (IF u \in kept THEN queueClients[u] ELSE {})
                      \cup (IF u \in us THEN {c} ELSE {})]
    BY <1>2 DEF SubscribeToInstruments
  <2>2. \A u \in Uirs : queueClients'[u] # {} => u \in subscriptionQueue'
    BY <2>1
  <2>3. UNCHANGED unsubscriptionQueue
    BY <1>2 DEF SubscribeToInstruments
  <2> QED BY <2>2, <2>3 DEF QueuesConsistent
<1>3. ASSUME NEW us \in SUBSET Uirs, NEW who \in SUBSET Clients,
             UnsubscribeFromInstruments(us, who)
      PROVE  QueuesConsistent'
  <2> DEFINE released == Released(us, who)
  <2>1. \A u \in Uirs : queueClients'[u] # {} => u \in subscriptionQueue'
    <3>1. /\ subscriptionQueue' = IF who = {} THEN subscriptionQueue
                                  ELSE subscriptionQueue \ released
          /\ queueClients' = [u \in Uirs |->
                IF u \in us THEN queueClients[u] \ who ELSE queueClients[u]]
      BY <1>3 DEF UnsubscribeFromInstruments
    <3>2. \A u \in Uirs : queueClients[u] # {} => u \in subscriptionQueue
      BY DEF QueuesConsistent
    <3>3. \A u \in released \cap subscriptionQueue :
              who # {} => u \in us /\ queueClients[u] \subseteq who
      BY DEF Released
    <3>4. CASE who = {}
      BY <3>1, <3>2, <3>4
    <3>5. CASE who # {}
      BY <3>1, <3>2, <3>3, <3>5
    <3> QED BY <3>4, <3>5
  <2>2. PICK kept \in Trimmed(unsubscriptionQueue \cup released) :
            unsubscriptionQueue' = kept
    BY <1>3 DEF UnsubscribeFromInstruments
  <2>3. /\ IsFiniteSet(unsubscriptionQueue \cup released)
        /\ Cardinality(unsubscriptionQueue \cup released) \in Nat
    BY UirsAssumption, FS_Subset, FS_CardinalityType DEF Released
  <2>4. Cardinality(kept) <= UnsubQueueMax
    <3>1. CASE Cardinality(unsubscriptionQueue \cup released) <= UnsubQueueMax
      BY <2>2, <3>1 DEF Trimmed
    <3>2. CASE ~(Cardinality(unsubscriptionQueue \cup released) <= UnsubQueueMax)
      BY <2>2, <3>2, QueueMaxAssumption DEF Trimmed
    <3> QED BY <3>1, <3>2
  <2> QED BY <2>1, <2>2, <2>4 DEF QueuesConsistent
<1>4. ASSUME NEW p \in Providers, TickerConnect(p) \/ TickerDisconnect(p)
      PROVE  QueuesConsistent'
  <2>1. /\ UNCHANGED <<queueClients, unsubscriptionQueue>>
        /\ subscriptionQueue \subseteq subscriptionQueue'
    BY <1>4 DEF TickerConnect, ConnectFull, ConnectLazy,
                TickerDisconnect, DisconnectFull, DisconnectLazy
  <2> QED BY <2>1 DEF QueuesConsistent
<1>5. CASE ProcessSubscriptionBatch
  <2>1. /\ queueClients' = [u \in Uirs |->
              IF u \in subscriptionQueue' THEN queueClients[u] ELSE {}]
        /\ unsubscriptionQueue' = {}
    BY <1>5 DEF ProcessSubscriptionBatch
  <2>2. Cardinality(unsubscriptionQueue') <= UnsubQueueMax
    BY <2>1, FS_EmptySet, QueueMaxAssumption
  <2> QED BY <2>1, <2>2 DEF QueuesConsistent
<1>6. CASE StopStreaming \/ Reconnects \/ Idles
  BY <1>1, <1>6 DEF StopStreaming, Reconnects, Idles
<1>7. ASSUME \/ \E en \in SUBSET Providers : InitializeStreaming(en)
             \/ \E p \in Providers : ConnectTimerFires(p) \/ TickerError(p)
      PROVE  UNCHANGED queueVars
  BY <1>7 DEF InitializeStreaming, ConnectTimerFires, TickerError
<1> QED BY <1>0, <1>1, <1>2, <1>3, <1>4, <1>5, <1>6, <1>7 DEF ServiceStep

\* Clients wait only on queued entries, and the unsubscription set keeps to its cap.
THEOREM QueuesStayConsistent == Spec => []QueuesConsistent
<1>1. Init => TypeOK /\ QueuesConsistent
  <2>1. Cardinality({}) = 0
    BY FS_EmptySet
  <2> QED BY <2>1, TypeCorrectInit, QueueMaxAssumption DEF Init, QueuesConsistent
<1>2. TypeOK /\ QueuesConsistent /\ [Next]_vars => TypeOK' /\ QueuesConsistent'
  BY TypeCorrectStep, QueuesStep
<1> QED BY <1>1, <1>2, PTL DEF Spec

=============================================================================
