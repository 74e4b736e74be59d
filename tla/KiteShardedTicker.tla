-------------------------- MODULE KiteShardedTicker --------------------------
(***************************************************************************)
(* KiteShardedTicker: several Kite WebSocket connections behind one ticker. *)
(* Each token lives on one shard; every shard reconnects by itself, and all *)
(* of them share one access token.                                         *)
(*                                                                         *)
(* The kiteconnect SDK is external.  Of its KiteTicker this much is used:   *)
(* connect() dials unless a dial or a socket is there already, disconnect() *)
(* closes the socket later, 'connect' opens a session with no subscriptions,*)
(* a closed or failed socket is reported by 'disconnect', calls on a socket *)
(* that is not open are lost, and it may dial again by itself.              *)
(***************************************************************************)
EXTENDS Integers, FiniteSets

CONSTANTS
    MaxShards,       \* KITE_WS_MAX_SHARDS
    Tokens,          \* numeric instrument tokens
    PerShardLimit,   \* instruments per connection
    MaxReconnectAttempts,
    MaxTimers,       \* bound on the reconnect timers pending on one shard
    SdkRedials       \* whether the SDK dials by itself after a disconnect

ASSUME MaxShardsAssumption == MaxShards \in Nat \ {0}
ASSUME TokensAssumption == IsFiniteSet(Tokens)
ASSUME LimitsAssumption ==
    PerShardLimit \in Nat /\ MaxReconnectAttempts \in Nat /\ MaxTimers \in Nat
ASSUME SdkRedialsAssumption == SdkRedials \in BOOLEAN

Shards == 1 .. MaxShards
NoShard == 0        \* tokenToShard has no entry

\* Kite's modes; "quote" is what a subscription without a mode gets.
Modes == {"ltp", "quote", "full"}
Unset == "unset"    \* tokenModes has no entry; upstream: not subscribed

VARIABLES
    link,               \* the SDK's socket of each shard
    upstream,           \* mode of each token in the session of each shard
    isConnected, disableReconnect, reconnectAttempts, subscribedTokens, tokenModes,
    tokenToShard,
    timers,             \* setTimeout(inner.connect) pending on each shard
    providerUp          \* KiteProviderService.isConnected

sdkVars == <<link, upstream>>
reconnectVars == <<isConnected, disableReconnect, reconnectAttempts, timers, providerUp>>
tokenVars == <<subscribedTokens, tokenModes, tokenToShard>>
vars == <<sdkVars, reconnectVars, tokenVars>>

TypeOK ==
    /\ link \in [Shards -> {"idle", "dialing", "open", "closing", "closed"}]
    /\ upstream \in [Shards -> [Tokens -> Modes \cup {Unset}]]
    /\ isConnected \in [Shards -> BOOLEAN]
    /\ disableReconnect \in [Shards -> BOOLEAN]
    /\ reconnectAttempts \in [Shards -> 0 .. MaxReconnectAttempts]
    /\ subscribedTokens \in [Shards -> SUBSET Tokens]
    /\ tokenModes \in [Shards -> [Tokens -> Modes \cup {Unset}]]
    /\ tokenToShard \in [Tokens -> Shards \cup {NoShard}]
    /\ timers \in [Shards -> Nat]
    /\ providerUp \in BOOLEAN

NoSession == [t \in Tokens |-> Unset]

Init ==
    /\ link = [s \in Shards |-> "idle"]
    /\ upstream = [s \in Shards |-> NoSession]
    /\ isConnected = [s \in Shards |-> FALSE]
    /\ disableReconnect = [s \in Shards |-> FALSE]
    /\ reconnectAttempts = [s \in Shards |-> 0]
    /\ subscribedTokens = [s \in Shards |-> {}]
    /\ tokenModes = [s \in Shards |-> NoSession]
    /\ tokenToShard = [t \in Tokens |-> NoShard]
    /\ timers = [s \in Shards |-> 0]
    /\ providerUp = FALSE

-----------------------------------------------------------------------------
(* connect, disconnect and the reconnect timers.                           *)

\* inner.connect()
Dial(state) == IF state \in {"dialing", "open"} THEN state ELSE "dialing"

Connect ==
    /\ link' = [s \in Shards |-> Dial(link[s])]
    /\ upstream' = [s \in Shards |-> IF link[s] = "closing" THEN NoSession ELSE upstream[s]]
    /\ UNCHANGED <<reconnectVars, tokenVars>>

\* inner.disconnect()
HangUp(state) == IF state \in {"dialing", "open"} THEN "closing" ELSE state

Disconnect ==
    /\ link' = [s \in Shards |-> HangUp(link[s])]
    /\ disableReconnect' = [s \in Shards |-> TRUE]
    /\ UNCHANGED <<upstream, isConnected, reconnectAttempts, timers, providerUp, tokenVars>>

\* setTimeout(() => shard.inner.connect()): it asks neither disableReconnect nor the socket.
TimerFires(s) ==
    /\ timers[s] > 0
    /\ timers' = [timers EXCEPT ![s] = @ - 1]
    /\ link' = [link EXCEPT ![s] = Dial(@)]
    /\ upstream' = [upstream EXCEPT ![s] = IF link[s] = "closing" THEN NoSession ELSE @]
    /\ UNCHANGED <<isConnected, disableReconnect, reconnectAttempts, providerUp, tokenVars>>

SdkRedial(s) ==
    /\ SdkRedials
    /\ link[s] = "closed"
    /\ link' = [link EXCEPT ![s] = "dialing"]
    /\ UNCHANGED <<upstream, reconnectVars, tokenVars>>

-----------------------------------------------------------------------------
(* Events of a shard's socket.                                             *)

\* What a session looks like that was told everything the shard remembers.
Remembered(s) ==
    [t \in Tokens |-> IF t \notin subscribedTokens[s] THEN Unset
                      ELSE IF tokenModes[s][t] = Unset THEN "quote"
                      ELSE tokenModes[s][t]]

\* resubscribeShard: subscribe, then the modes again.
ResubscribedWithoutModes(s) ==    \* faulty: the modes are not applied again
    [t \in Tokens |-> IF t \in subscribedTokens[s] THEN "quote" ELSE Unset]
Resubscribed(s) == Remembered(s)

\* 'connect'
SocketOpens(s) ==
    /\ link[s] = "dialing"
    /\ link' = [link EXCEPT ![s] = "open"]
    /\ isConnected' = [isConnected EXCEPT ![s] = TRUE]
    /\ reconnectAttempts' = [reconnectAttempts EXCEPT ![s] = 0]
    /\ disableReconnect' = [disableReconnect EXCEPT ![s] = FALSE]
    /\ upstream' = [upstream EXCEPT ![s] = Resubscribed(s)]
    /\ providerUp' = TRUE
    /\ UNCHANGED <<timers, tokenVars>>

ReconnectsOneShort(s) ==    \* faulty: the last attempt is not made
    ~disableReconnect[s] /\ reconnectAttempts[s] + 1 < MaxReconnectAttempts
ReconnectsAlways(s) ==    \* faulty: after disconnect() and a refused token too
    reconnectAttempts[s] < MaxReconnectAttempts
Reconnects(s) == ~disableReconnect[s] /\ reconnectAttempts[s] < MaxReconnectAttempts

\* handleShardDisconnect
HandleShardDisconnect(s) ==
    \/ /\ Reconnects(s)
       /\ timers[s] < MaxTimers
       /\ reconnectAttempts' = [reconnectAttempts EXCEPT ![s] = @ + 1]
       /\ timers' = [timers EXCEPT ![s] = @ + 1]
    \/ /\ ~Reconnects(s)
       /\ UNCHANGED <<reconnectAttempts, timers>>

\* onDisconnect of KiteProviderService: down once no shard is connected.
ProviderUpStays(s) == providerUp    \* faulty: the last disconnect leaves the flag
ProviderUpAfterLosing(s) == providerUp /\ \E r \in Shards \ {s} : isConnected[r]

\* 'disconnect': the socket closed, by whoever's wish, or the dial failed.
SocketCloses(s) ==
    /\ link[s] \in {"dialing", "open", "closing"}
    /\ link' = [link EXCEPT ![s] = "closed"]
    /\ upstream' = [upstream EXCEPT ![s] = NoSession]
    /\ isConnected' = [isConnected EXCEPT ![s] = FALSE]
    /\ providerUp' = ProviderUpAfterLosing(s)
    /\ HandleShardDisconnect(s)
    /\ UNCHANGED <<disableReconnect, tokenVars>>

\* 'error' for a refused access token; other errors change nothing here.
AuthError(s) ==
    /\ link[s] \in {"dialing", "open"}
    /\ disableReconnect' = [r \in Shards |-> TRUE]
    /\ providerUp' = FALSE
    /\ link' = [link EXCEPT ![s] = "closing"]
    /\ UNCHANGED <<upstream, isConnected, reconnectAttempts, timers, tokenVars>>

-----------------------------------------------------------------------------
(* subscribe, setMode, unsubscribe.                                        *)

Placed(place, s) == {t \in DOMAIN place : place[t] = s}
Load(s) == Cardinality(subscribedTokens[s])

\* pickShard, called for one new token after the other: the first shard with room, and no
\* shard when all are full.
Placements(new) ==
    {place \in [new -> Shards \cup {NoShard}] :
        \A s \in Shards :
            LET load == Load(s) + Cardinality(Placed(place, s))
            IN  /\ Placed(place, s) # {} => load <= PerShardLimit
                /\ (\E t \in new : place[t] = NoShard \/ place[t] > s)
                      => load >= PerShardLimit}

\* What a call that names the tokens of some shards makes of their sessions.
InSessions(s, ts, mode) ==
    [t \in Tokens |-> IF link[s] = "open" /\ t \in ts THEN mode ELSE upstream[s][t]]

Subscribe(ts, mode) ==
    LET new == {t \in ts : tokenToShard[t] = NoShard}
        Moded(m) == IF mode = Unset THEN m ELSE mode
    IN  \E place \in Placements(new) :
          LET known == {t \in ts \ new : mode # Unset}
              touched(s) == Placed(place, s) \cup (known \cap subscribedTokens[s])
          IN  /\ tokenToShard' = [t \in Tokens |->
                    IF t \in new THEN place[t] ELSE tokenToShard[t]]
              /\ subscribedTokens' = [s \in Shards |->
                    subscribedTokens[s] \cup Placed(place, s)]
              /\ tokenModes' = [s \in Shards |-> [t \in Tokens |->
                    IF t \in touched(s) THEN Moded(tokenModes[s][t]) ELSE tokenModes[s][t]]]
              /\ upstream' = [s \in Shards |->
                    InSessions(s, touched(s), Moded("quote"))]
              /\ UNCHANGED <<link, reconnectVars>>

Routed(ts, s) == {t \in ts : tokenToShard[t] = s}

SetMode(ts, mode) ==
    /\ tokenModes' = [s \in Shards |-> [t \in Tokens |->
          IF t \in Routed(ts, s) THEN mode ELSE tokenModes[s][t]]]
    /\ upstream' = [s \in Shards |-> InSessions(s, Routed(ts, s), mode)]
    /\ UNCHANGED <<link, reconnectVars, subscribedTokens, tokenToShard>>

UnsubscribeKeepsRoute(ts) ==    \* faulty: tokenToShard.delete is forgotten
    /\ subscribedTokens' = [s \in Shards |-> subscribedTokens[s] \ Routed(ts, s)]
    /\ tokenModes' = [s \in Shards |-> [t \in Tokens |->
          IF t \in Routed(ts, s) THEN Unset ELSE tokenModes[s][t]]]
    /\ upstream' = [s \in Shards |-> InSessions(s, Routed(ts, s), Unset)]
    /\ UNCHANGED <<link, reconnectVars, tokenToShard>>

Unsubscribe(ts) ==
    /\ subscribedTokens' = [s \in Shards |-> subscribedTokens[s] \ Routed(ts, s)]
    /\ tokenModes' = [s \in Shards |-> [t \in Tokens |->
          IF t \in Routed(ts, s) THEN Unset ELSE tokenModes[s][t]]]
    /\ tokenToShard' = [t \in Tokens |-> IF t \in ts THEN NoShard ELSE tokenToShard[t]]
    /\ upstream' = [s \in Shards |-> InSessions(s, Routed(ts, s), Unset)]
    /\ UNCHANGED <<link, reconnectVars>>

-----------------------------------------------------------------------------
Next ==
    \/ Connect
    \/ Disconnect
    \/ \E s \in Shards :
          \/ TimerFires(s)
          \/ SdkRedial(s)
          \/ SocketOpens(s)
          \/ SocketCloses(s)
          \/ AuthError(s)
    \/ \E ts \in (SUBSET Tokens) \ {{}} :
          \/ \E mode \in {"full", Unset} : Subscribe(ts, mode)
          \/ \E mode \in Modes : SetMode(ts, mode)
          \/ Unsubscribe(ts)

Spec == Init /\ [][Next]_vars

-----------------------------------------------------------------------------
(* Properties.                                                             *)

\* Every token the ticker knows lives on exactly the shard the routing table names, with
\* its mode, and no shard holds more than a connection may carry.
TokensAreRouted ==
    \A s \in Shards :
        /\ subscribedTokens[s] = {t \in Tokens : tokenToShard[t] = s}
        /\ \A t \in Tokens : tokenModes[s][t] # Unset => t \in subscribedTokens[s]
        /\ Load(s) <= PerShardLimit

\* An open connection streams exactly what its shard remembers, in the modes it remembers,
\* whatever was subscribed, changed or dropped while it was down.
SessionsMirrorShards == \A s \in Shards : link[s] = "open" => upstream[s] = Remembered(s)

\* A shard whose connection was lost is waiting for a timer unless it was told to stay
\* down or has used up its attempts.
LostShardsRetry ==
    \A s \in Shards :
        link[s] = "closed" /\ ~disableReconnect[s]
            => timers[s] > 0 \/ reconnectAttempts[s] = MaxReconnectAttempts

\* The provider calls itself connected only while some shard is.
ProviderUpHasShard == providerUp => \E s \in Shards : isConnected[s]

\* Each shard keeps the contract of a ticker that reconnects by itself.  It is wanted until
\* it is told to stay down and nothing is under way that will open it all the same: a dial
\* or a timer that was not cancelled.
Link(s) == INSTANCE TickerLink WITH
    Budget <- MaxReconnectAttempts,
    wanted <- link[s] # "idle" /\ (~disableReconnect[s] \/ link[s] = "dialing" \/ timers[s] > 0),
    up <- isConnected[s], spent <- reconnectAttempts[s]
ShardsImplementLink ==
    /\ \A s \in Shards : Link(s)!Init
    /\ [][\A s \in Shards : [Link(s)!Next]_(Link(s)!vars)]_vars

=============================================================================
