----------------------- MODULE KiteShardedTickerProofs -----------------------
(* The sharded ticker's invariants for any number of shards and tokens.     *)
EXTENDS KiteShardedTicker, FiniteSetTheorems, TLAPS

\* The steps that concern sockets and reconnects leave the tokens alone, and those that
\* concern tokens leave the reconnects alone.
TokenStep(ts) ==
    \/ \E mode \in {"full", Unset} : Subscribe(ts, mode)
    \/ \E mode \in Modes : SetMode(ts, mode)
    \/ Unsubscribe(ts)

SocketStep ==
    \/ Connect
    \/ Disconnect
    \/ \E s \in Shards :
          TimerFires(s) \/ SdkRedial(s) \/ SocketOpens(s) \/ SocketCloses(s) \/ AuthError(s)

LEMMA StepsOfTheTicker ==
    ASSUME [Next]_vars
    PROVE  SocketStep \/ (\E ts \in SUBSET Tokens : TokenStep(ts)) \/ UNCHANGED vars
  BY DEF Next, SocketStep, TokenStep

LEMMA SocketStepTokens == SocketStep => UNCHANGED tokenVars
  BY DEF SocketStep, Connect, Disconnect, TimerFires, SdkRedial, SocketOpens, SocketCloses,
         AuthError

LEMMA TokenStepReconnects ==
    ASSUME NEW ts, TokenStep(ts)
    PROVE  UNCHANGED <<link, reconnectVars>>
  BY DEF TokenStep, Subscribe, SetMode, Unsubscribe

-----------------------------------------------------------------------------
(* Types.                                                                  *)

LEMMA RememberedType ==
    ASSUME TypeOK, NEW s \in Shards
    PROVE  Remembered(s) \in [Tokens -> Modes \cup {Unset}]
  BY DEF Remembered, TypeOK, Modes, Unset

LEMMA SocketStepTypeOK == TypeOK /\ SocketStep => TypeOK'
<1> SUFFICES ASSUME TypeOK, SocketStep PROVE TypeOK'
  OBVIOUS
<1> USE LimitsAssumption DEF TypeOK
<1>0. NoSession \in [Tokens -> Modes \cup {Unset}] /\ UNCHANGED tokenVars
  BY SocketStepTokens DEF NoSession
<1>1. CASE Connect
  BY <1>0, <1>1 DEF Connect, Dial, reconnectVars, tokenVars
<1>2. CASE Disconnect
  BY <1>0, <1>2 DEF Disconnect, HangUp, tokenVars
<1>3. ASSUME NEW s \in Shards, TimerFires(s) PROVE TypeOK'
  <2>1. timers' \in [Shards -> Nat]
    BY <1>3 DEF TimerFires
  <2> QED BY <1>0, <1>3, <2>1 DEF TimerFires, Dial, tokenVars
<1>4. ASSUME NEW s \in Shards, SdkRedial(s) PROVE TypeOK'
  BY <1>0, <1>4 DEF SdkRedial, reconnectVars, tokenVars
<1>5. ASSUME NEW s \in Shards, SocketOpens(s) PROVE TypeOK'
  <2>1. upstream' \in [Shards -> [Tokens -> Modes \cup {Unset}]]
    BY <1>5, RememberedType DEF SocketOpens, Resubscribed
  <2>2. reconnectAttempts' \in [Shards -> 0 .. MaxReconnectAttempts]
    BY <1>5 DEF SocketOpens
  <2> QED BY <1>0, <1>5, <2>1, <2>2 DEF SocketOpens, tokenVars
<1>6. ASSUME NEW s \in Shards, SocketCloses(s) PROVE TypeOK'
  <2>1. /\ reconnectAttempts' \in [Shards -> 0 .. MaxReconnectAttempts]
        /\ timers' \in [Shards -> Nat]
    <3>1. HandleShardDisconnect(s)
      BY <1>6 DEF SocketCloses
    <3>2. CASE Reconnects(s)
      <4>1. /\ reconnectAttempts[s] + 1 \in 0 .. MaxReconnectAttempts
            /\ timers[s] + 1 \in Nat
        BY <3>2 DEF Reconnects
      <4>2. /\ reconnectAttempts' = [reconnectAttempts EXCEPT ![s] = @ + 1]
            /\ timers' = [timers EXCEPT ![s] = @ + 1]
        BY <3>1, <3>2 DEF HandleShardDisconnect
      <4> QED BY <4>1, <4>2
    <3>3. CASE ~Reconnects(s)
      BY <3>1, <3>3 DEF HandleShardDisconnect
    <3> QED BY <3>2, <3>3
  <2>2. providerUp' \in BOOLEAN
    BY <1>6 DEF SocketCloses, ProviderUpAfterLosing
  <2> QED BY <1>0, <1>6, <2>1, <2>2 DEF SocketCloses, tokenVars
<1>7. ASSUME NEW s \in Shards, AuthError(s) PROVE TypeOK'
  BY <1>0, <1>7 DEF AuthError, tokenVars
<1> QED BY <1>1, <1>2, <1>3, <1>4, <1>5, <1>6, <1>7 DEF SocketStep

LEMMA TokenStepTypeOK ==
    ASSUME TypeOK, NEW ts \in SUBSET Tokens, TokenStep(ts)
    PROVE  TypeOK'
<1> USE DEF TypeOK
<1>0. UNCHANGED <<link, reconnectVars>>
  BY TokenStepReconnects
<1>1. ASSUME NEW mode \in {"full", Unset}, Subscribe(ts, mode)
      PROVE  TypeOK'
  <2>1. PICK place \in Placements({t \in ts : tokenToShard[t] = NoShard}) :
            /\ tokenToShard' = [t \in Tokens |->
                  IF t \in {u \in ts : tokenToShard[u] = NoShard}
                  THEN place[t] ELSE tokenToShard[t]]
            /\ subscribedTokens' = [s \in Shards |->
                  subscribedTokens[s] \cup Placed(place, s)]
    BY <1>1 DEF Subscribe
  <2>2. place \in [{t \in ts : tokenToShard[t] = NoShard} -> Shards \cup {NoShard}]
    BY <2>1 DEF Placements
  <2>3. /\ tokenToShard' \in [Tokens -> Shards \cup {NoShard}]
        /\ subscribedTokens' \in [Shards -> SUBSET Tokens]
    BY <2>1, <2>2 DEF Placed
  <2>4. tokenModes' \in [Shards -> [Tokens -> Modes \cup {Unset}]]
    BY <1>1 DEF Subscribe, Modes
  <2>5. upstream' \in [Shards -> [Tokens -> Modes \cup {Unset}]]
    BY <1>1 DEF Subscribe, InSessions, Modes
  <2> QED BY <1>0, <2>3, <2>4, <2>5 DEF reconnectVars
<1>2. ASSUME NEW mode \in Modes, SetMode(ts, mode)
      PROVE  TypeOK'
  BY <1>0, <1>2 DEF SetMode, InSessions, reconnectVars
<1>3. CASE Unsubscribe(ts)
  BY <1>0, <1>3 DEF Unsubscribe, InSessions, reconnectVars
<1> QED BY <1>1, <1>2, <1>3 DEF TokenStep

LEMMA KiteTypeStep == TypeOK /\ [Next]_vars => TypeOK'
<1>1. TypeOK /\ UNCHANGED vars => TypeOK'
  BY DEF TypeOK, vars, sdkVars, reconnectVars, tokenVars
<1> QED BY <1>1, StepsOfTheTicker, SocketStepTypeOK, TokenStepTypeOK

LEMMA KiteTypeInit == Init => TypeOK
<1>1. 0 \in 0 .. MaxReconnectAttempts
  BY LimitsAssumption
<1>2. NoSession \in [Tokens -> Modes \cup {Unset}]
  BY DEF NoSession
<1>3. ASSUME Init
      PROVE  /\ upstream \in [Shards -> [Tokens -> Modes \cup {Unset}]]
             /\ tokenModes \in [Shards -> [Tokens -> Modes \cup {Unset}]]
             /\ reconnectAttempts \in [Shards -> 0 .. MaxReconnectAttempts]
  BY <1>1, <1>2, <1>3 DEF Init
<1>4. ASSUME Init
      PROVE  /\ link \in [Shards -> {"idle", "dialing", "open", "closing", "closed"}]
             /\ isConnected \in [Shards -> BOOLEAN]
             /\ disableReconnect \in [Shards -> BOOLEAN]
             /\ timers \in [Shards -> Nat]
  BY <1>4 DEF Init
<1>5. ASSUME Init
      PROVE  /\ subscribedTokens \in [Shards -> SUBSET Tokens]
             /\ tokenToShard \in [Tokens -> Shards \cup {NoShard}]
             /\ providerUp \in BOOLEAN
  BY <1>5 DEF Init
<1> QED BY <1>3, <1>4, <1>5 DEF TypeOK

\* Every variable of the sharded ticker keeps its type.
THEOREM KiteTypeCorrect == Spec => []TypeOK
  BY KiteTypeInit, KiteTypeStep, PTL DEF Spec

-----------------------------------------------------------------------------
(* Reconnects.                                                             *)

LEMMA LostShardsRetryStep ==
    ASSUME TypeOK, LostShardsRetry, [Next]_vars
    PROVE  LostShardsRetry'
<1> USE LimitsAssumption DEF TypeOK
<1> SUFFICES ASSUME NEW s \in Shards, link'[s] = "closed", ~disableReconnect'[s]
             PROVE  timers'[s] > 0 \/ reconnectAttempts'[s] = MaxReconnectAttempts
  BY DEF LostShardsRetry
<1>0. link[s] = "closed" /\ ~disableReconnect[s]
        => timers[s] > 0 \/ reconnectAttempts[s] = MaxReconnectAttempts
  BY DEF LostShardsRetry
<1>1. CASE UNCHANGED <<link, reconnectVars>>
  BY <1>0, <1>1 DEF reconnectVars
<1>2. CASE Connect
  BY <1>2 DEF Connect, Dial
<1>3. CASE Disconnect
  BY <1>3 DEF Disconnect
<1>4. ASSUME NEW r \in Shards, TimerFires(r)
      PROVE  timers'[s] > 0 \/ reconnectAttempts'[s] = MaxReconnectAttempts
  <2>1. CASE r = s
    BY <1>4, <2>1 DEF TimerFires, Dial
  <2>2. CASE r # s
    BY <1>0, <1>4, <2>2 DEF TimerFires
  <2> QED BY <2>1, <2>2
<1>5. ASSUME NEW r \in Shards, SdkRedial(r)
      PROVE  timers'[s] > 0 \/ reconnectAttempts'[s] = MaxReconnectAttempts
  BY <1>0, <1>5 DEF SdkRedial, reconnectVars
<1>6. ASSUME NEW r \in Shards, SocketOpens(r)
      PROVE  timers'[s] > 0 \/ reconnectAttempts'[s] = MaxReconnectAttempts
  BY <1>0, <1>6 DEF SocketOpens
<1>7. ASSUME NEW r \in Shards, SocketCloses(r)
      PROVE  timers'[s] > 0 \/ reconnectAttempts'[s] = MaxReconnectAttempts
  <2>1. HandleShardDisconnect(r) /\ UNCHANGED disableReconnect
    BY <1>7 DEF SocketCloses
  <2>2. CASE r = s /\ Reconnects(r)
    <3>1. timers'[s] = timers[s] + 1
      BY <2>1, <2>2 DEF HandleShardDisconnect
    <3>2. timers[s] \in Nat
      OBVIOUS
    <3> QED BY <3>1, <3>2
  <2>3. CASE r = s /\ ~Reconnects(r)
    <3>1. ~(reconnectAttempts[s] < MaxReconnectAttempts)
      BY <2>1, <2>3 DEF Reconnects
    <3>2. reconnectAttempts[s] \in 0 .. MaxReconnectAttempts
      OBVIOUS
    <3>3. \A n \in 0 .. MaxReconnectAttempts :
              ~(n < MaxReconnectAttempts) => n = MaxReconnectAttempts
      BY LimitsAssumption
    <3>4. reconnectAttempts[s] = MaxReconnectAttempts
      BY <3>1, <3>2, <3>3
    <3> QED BY <2>1, <2>3, <3>4 DEF HandleShardDisconnect
  <2>4. CASE r # s
    <3>1. link[s] = link'[s] /\ timers'[s] = timers[s]
              /\ reconnectAttempts'[s] = reconnectAttempts[s]
      BY <1>7, <2>1, <2>4 DEF SocketCloses, HandleShardDisconnect
    <3> QED BY <1>0, <2>1, <3>1
  <2> QED BY <2>2, <2>3, <2>4
<1>8. ASSUME NEW r \in Shards, AuthError(r)
      PROVE  timers'[s] > 0 \/ reconnectAttempts'[s] = MaxReconnectAttempts
  BY <1>8 DEF AuthError
<1>9. UNCHANGED vars => UNCHANGED <<link, reconnectVars>>
  BY DEF vars, sdkVars
<1> QED BY <1>1, <1>2, <1>3, <1>4, <1>5, <1>6, <1>7, <1>8, <1>9,
           StepsOfTheTicker, TokenStepReconnects DEF SocketStep

\* A lost shard always has a timer pending, was told to stay down, or is out of attempts.
THEOREM LostShardsAreRetried == Spec => []LostShardsRetry
<1>1. Init => LostShardsRetry
  BY DEF Init, LostShardsRetry
<1>2. TypeOK /\ LostShardsRetry /\ [Next]_vars => LostShardsRetry'
  BY LostShardsRetryStep
<1> QED BY <1>1, <1>2, KiteTypeCorrect, PTL DEF Spec

LEMMA ProviderUpStep ==
    ASSUME TypeOK, ProviderUpHasShard, [Next]_vars
    PROVE  ProviderUpHasShard'
<1> USE DEF TypeOK, ProviderUpHasShard
<1>1. CASE UNCHANGED <<isConnected, providerUp>>
  BY <1>1
<1>2. ASSUME NEW s \in Shards, SocketOpens(s) PROVE ProviderUpHasShard'
  BY <1>2 DEF SocketOpens
<1>3. ASSUME NEW s \in Shards, SocketCloses(s) PROVE ProviderUpHasShard'
  BY <1>3 DEF SocketCloses, ProviderUpAfterLosing
<1>4. ASSUME NEW s \in Shards, AuthError(s) PROVE ProviderUpHasShard'
  BY <1>4 DEF AuthError
<1>5. ASSUME \/ Connect \/ Disconnect
             \/ \E s \in Shards : TimerFires(s) \/ SdkRedial(s)
      PROVE  UNCHANGED <<isConnected, providerUp>>
  BY <1>5 DEF Connect, Disconnect, TimerFires, SdkRedial, reconnectVars
<1>6. ASSUME NEW ts \in SUBSET Tokens, TokenStep(ts)
      PROVE  UNCHANGED <<isConnected, providerUp>>
  BY <1>6, TokenStepReconnects DEF reconnectVars
<1>7. UNCHANGED vars => UNCHANGED <<isConnected, providerUp>>
  BY DEF vars, reconnectVars
<1> QED BY <1>1, <1>2, <1>3, <1>4, <1>5, <1>6, <1>7, StepsOfTheTicker DEF SocketStep

\* The provider never calls itself connected with every shard down.
THEOREM ProviderUpIsTrue == Spec => []ProviderUpHasShard
<1>1. Init => ProviderUpHasShard
  BY DEF Init, ProviderUpHasShard
<1>2. TypeOK /\ ProviderUpHasShard /\ [Next]_vars => ProviderUpHasShard'
  BY ProviderUpStep
<1> QED BY <1>1, <1>2, KiteTypeCorrect, PTL DEF Spec

-----------------------------------------------------------------------------
(* Routing.                                                                *)

\* A placement of new tokens leaves every shard within its limit.
LEMMA PlacementFits ==
    ASSUME TypeOK, TokensAreRouted, NEW new \in SUBSET Tokens,
           NEW place \in Placements(new), NEW s \in Shards
    PROVE  Cardinality(subscribedTokens[s] \cup Placed(place, s)) <= PerShardLimit
<1> USE DEF TypeOK
<1>1. place \in [new -> Shards \cup {NoShard}]
  BY DEF Placements
<1>2. Placed(place, s) \subseteq Tokens
  BY <1>1 DEF Placed
<1>3. IsFiniteSet(subscribedTokens[s]) /\ IsFiniteSet(Placed(place, s))
  BY <1>2, TokensAssumption, FS_Subset
<1>4. /\ Load(s) \in Nat /\ Cardinality(Placed(place, s)) \in Nat
      /\ Load(s) = Cardinality(subscribedTokens[s])
  BY <1>3, FS_CardinalityType DEF Load
<1>5. Load(s) <= PerShardLimit
  BY DEF TokensAreRouted
<1>6. CASE Placed(place, s) = {}
  <2>1. subscribedTokens[s] \cup Placed(place, s) = subscribedTokens[s]
    BY <1>6
  <2> QED BY <1>4, <1>5, <2>1
<1>7. CASE Placed(place, s) # {}
  <2>1. Load(s) + Cardinality(Placed(place, s)) <= PerShardLimit
    BY <1>7 DEF Placements
  <2>2. /\ IsFiniteSet(subscribedTokens[s] \cap Placed(place, s))
        /\ Cardinality(subscribedTokens[s] \cap Placed(place, s)) \in Nat
    BY <1>3, FS_Intersection, FS_CardinalityType
  <2>3. Cardinality(subscribedTokens[s] \cup Placed(place, s))
          = Cardinality(subscribedTokens[s]) + Cardinality(Placed(place, s))
              - Cardinality(subscribedTokens[s] \cap Placed(place, s))
    BY <1>3, FS_Union
  <2> HIDE DEF TypeOK
  <2> QED BY <1>4, <2>1, <2>2, <2>3, LimitsAssumption
<1> QED BY <1>6, <1>7

LEMMA RoutedStep ==
    ASSUME TypeOK, TokensAreRouted, [Next]_vars
    PROVE  TokensAreRouted'
<1> USE DEF TypeOK
<1>1. CASE UNCHANGED tokenVars
  BY <1>1 DEF TokensAreRouted, tokenVars, Load
<1>2. ASSUME NEW ts \in SUBSET Tokens, NEW mode \in {"full", Unset}, Subscribe(ts, mode)
      PROVE  TokensAreRouted'
  <2> SUFFICES ASSUME NEW s \in Shards
               PROVE  /\ subscribedTokens'[s] = {t \in Tokens : tokenToShard'[t] = s}
                      /\ \A t \in Tokens :
                            tokenModes'[s][t] # Unset => t \in subscribedTokens'[s]
                      /\ Cardinality(subscribedTokens'[s]) <= PerShardLimit
    BY DEF TokensAreRouted, Load
  <2> DEFINE new == {t \in ts : tokenToShard[t] = NoShard}
             known == {t \in ts \ new : mode # Unset}
  <2>1. PICK place \in Placements(new) :
            /\ tokenToShard' = [t \in Tokens |->
                  IF t \in new THEN place[t] ELSE tokenToShard[t]]
            /\ subscribedTokens' = [r \in Shards |->
                  subscribedTokens[r] \cup Placed(place, r)]
            /\ tokenModes' = [r \in Shards |-> [t \in Tokens |->
                  IF t \in Placed(place, r) \cup (known \cap subscribedTokens[r])
                  THEN (IF mode = Unset THEN tokenModes[r][t] ELSE mode)
                  ELSE tokenModes[r][t]]]
    BY <1>2 DEF Subscribe
  <2>2. place \in [new -> Shards \cup {NoShard}]
    BY <2>1 DEF Placements
  <2>3. /\ subscribedTokens[s] = {t \in Tokens : tokenToShard[t] = s}
        /\ \A t \in Tokens : tokenModes[s][t] # Unset => t \in subscribedTokens[s]
    BY DEF TokensAreRouted
  <2>4. NoShard # s
    BY DEF Shards, NoShard
  <2>5. Placed(place, s) = {t \in new : place[t] = s}
    BY <2>2 DEF Placed
  <2>6. subscribedTokens'[s] = {t \in Tokens : tokenToShard'[t] = s}
    BY <2>1, <2>3, <2>4, <2>5
  <2>7. \A t \in Tokens : tokenModes'[s][t] # Unset => t \in subscribedTokens'[s]
    BY <2>1, <2>3
  <2>8. Cardinality(subscribedTokens'[s]) <= PerShardLimit
    BY <2>1, PlacementFits
  <2> QED BY <2>6, <2>7, <2>8
<1>3. ASSUME NEW ts \in SUBSET Tokens, NEW mode \in Modes, SetMode(ts, mode)
      PROVE  TokensAreRouted'
  BY <1>3 DEF SetMode, Routed, TokensAreRouted, Load
<1>4. ASSUME NEW ts \in SUBSET Tokens, Unsubscribe(ts)
      PROVE  TokensAreRouted'
  <2> SUFFICES ASSUME NEW s \in Shards
               PROVE  /\ subscribedTokens'[s] = {t \in Tokens : tokenToShard'[t] = s}
                      /\ \A t \in Tokens :
                            tokenModes'[s][t] # Unset => t \in subscribedTokens'[s]
                      /\ Cardinality(subscribedTokens'[s]) <= PerShardLimit
    BY DEF TokensAreRouted, Load
  <2>1. /\ subscribedTokens[s] = {t \in Tokens : tokenToShard[t] = s}
        /\ \A t \in Tokens : tokenModes[s][t] # Unset => t \in subscribedTokens[s]
        /\ Cardinality(subscribedTokens[s]) <= PerShardLimit
    BY DEF TokensAreRouted, Load
  <2>2. subscribedTokens'[s] = subscribedTokens[s] \ Routed(ts, s)
    BY <1>4 DEF Unsubscribe
  <2>3. NoShard # s
    BY DEF Shards, NoShard
  <2>4. subscribedTokens'[s] = {t \in Tokens : tokenToShard'[t] = s}
    BY <1>4, <2>1, <2>2, <2>3 DEF Unsubscribe, Routed
  <2>5. \A t \in Tokens : tokenModes'[s][t] # Unset => t \in subscribedTokens'[s]
    BY <1>4, <2>1, <2>2 DEF Unsubscribe
  <2>6. IsFiniteSet(subscribedTokens[s])
    BY TokensAssumption, FS_Subset
  <2>7. /\ Cardinality(subscribedTokens'[s]) <= Cardinality(subscribedTokens[s])
        /\ Cardinality(subscribedTokens'[s]) \in Nat
        /\ Cardinality(subscribedTokens[s]) \in Nat
    BY <2>2, <2>6, FS_Subset, FS_CardinalityType
  <2>8. Cardinality(subscribedTokens'[s]) <= PerShardLimit
    BY <2>1, <2>7, LimitsAssumption
  <2> QED BY <2>4, <2>5, <2>8
<1>5. UNCHANGED vars => UNCHANGED tokenVars
  BY DEF vars
<1> QED BY <1>1, <1>2, <1>3, <1>4, <1>5, StepsOfTheTicker, SocketStepTokens DEF TokenStep

\* The routing table, the shards' token sets and their modes agree, within the limits.
THEOREM TokensStayRouted == Spec => []TokensAreRouted
<1>1. Init => TypeOK /\ TokensAreRouted
  <2>1. Cardinality({}) = 0
    BY FS_EmptySet
  <2> QED BY <2>1, KiteTypeInit, LimitsAssumption
          DEF Init, TokensAreRouted, NoSession, Shards, NoShard, Load
<1>2. TypeOK /\ TokensAreRouted /\ [Next]_vars => TypeOK' /\ TokensAreRouted'
  BY KiteTypeStep, RoutedStep
<1> QED BY <1>1, <1>2, PTL DEF Spec

-----------------------------------------------------------------------------
(* Sessions.                                                               *)

LEMMA MirrorStep ==
    ASSUME TypeOK, TokensAreRouted, SessionsMirrorShards, [Next]_vars
    PROVE  SessionsMirrorShards'
<1> USE DEF TypeOK
<1> SUFFICES ASSUME NEW s \in Shards, link'[s] = "open"
             PROVE  upstream'[s] = Remembered(s)'
  BY DEF SessionsMirrorShards
<1>0. link[s] = "open" => upstream[s] = Remembered(s)
  BY DEF SessionsMirrorShards
<1>1. CASE UNCHANGED <<link, tokenVars>> /\ upstream'[s] = upstream[s]
  BY <1>0, <1>1 DEF Remembered, tokenVars
<1>2. ASSUME \/ Connect \/ Disconnect
             \/ \E r \in Shards : TimerFires(r) \/ SdkRedial(r) \/ AuthError(r)
      PROVE  link[s] = "open" /\ upstream'[s] = upstream[s] /\ UNCHANGED tokenVars
  BY <1>2 DEF Connect, Dial, Disconnect, HangUp, TimerFires, SdkRedial, AuthError
<1>3. ASSUME NEW r \in Shards, SocketOpens(r)
      PROVE  upstream'[s] = Remembered(s)'
  <2>1. Remembered(s)' = Remembered(s)
    BY <1>3 DEF SocketOpens, Remembered, tokenVars
  <2>2. CASE r = s
    BY <1>3, <2>1, <2>2 DEF SocketOpens, Resubscribed
  <2>3. CASE r # s
    BY <1>0, <1>3, <2>1, <2>3 DEF SocketOpens
  <2> QED BY <2>2, <2>3
<1>4. ASSUME NEW r \in Shards, SocketCloses(r)
      PROVE  upstream'[s] = Remembered(s)'
  <2>1. r # s /\ link[s] = "open" /\ upstream'[s] = upstream[s]
    BY <1>4 DEF SocketCloses
  <2>2. Remembered(s)' = Remembered(s)
    BY <1>4 DEF SocketCloses, Remembered, tokenVars
  <2> QED BY <1>0, <2>1, <2>2
<1>5. ASSUME NEW ts \in SUBSET Tokens, TokenStep(ts)
      PROVE  link[s] = "open" /\ upstream[s] = Remembered(s)
  BY <1>0, <1>5, TokenStepReconnects
<1>6. /\ subscribedTokens[s] = {t \in Tokens : tokenToShard[t] = s}
      /\ \A t \in Tokens : tokenModes[s][t] # Unset => t \in subscribedTokens[s]
      /\ NoShard # s
  BY DEF TokensAreRouted, Shards, NoShard
<1>7. ASSUME NEW ts \in SUBSET Tokens, NEW mode \in {"full", Unset}, Subscribe(ts, mode)
      PROVE  upstream'[s] = Remembered(s)'
  <2> DEFINE new == {t \in ts : tokenToShard[t] = NoShard}
             known == {t \in ts \ new : mode # Unset}
             Moded(m) == IF mode = Unset THEN m ELSE mode
  <2>1. PICK place \in Placements(new) :
            /\ subscribedTokens' = [r \in Shards |->
                  subscribedTokens[r] \cup Placed(place, r)]
            /\ tokenModes' = [r \in Shards |-> [t \in Tokens |->
                  IF t \in Placed(place, r) \cup (known \cap subscribedTokens[r])
                  THEN Moded(tokenModes[r][t]) ELSE tokenModes[r][t]]]
            /\ upstream' = [r \in Shards |->
                  InSessions(r, Placed(place, r) \cup (known \cap subscribedTokens[r]),
                             Moded("quote"))]
    BY <1>7 DEF Subscribe
  <2> DEFINE touched == Placed(place, s) \cup (known \cap subscribedTokens[s])
  <2>2. Placed(place, s) \subseteq new /\ Placed(place, s) \cap subscribedTokens[s] = {}
    BY <1>6, <2>1 DEF Placements, Placed
  <2>3. upstream'[s] = [t \in Tokens |->
            IF t \in touched THEN Moded("quote") ELSE Remembered(s)[t]]
    BY <1>5, <1>7, <2>1 DEF InSessions, TokenStep
  <2>4. Remembered(s)' = [t \in Tokens |->
            IF t \notin subscribedTokens'[s] THEN Unset
            ELSE IF tokenModes'[s][t] = Unset THEN "quote" ELSE tokenModes'[s][t]]
    BY DEF Remembered
  <2>5. ASSUME NEW t \in Tokens
        PROVE  upstream'[s][t] = Remembered(s)'[t]
    <3>1. Remembered(s)[t] = IF t \notin subscribedTokens[s] THEN Unset
            ELSE IF tokenModes[s][t] = Unset THEN "quote" ELSE tokenModes[s][t]
      BY DEF Remembered
    <3>2. CASE t \in Placed(place, s)
      <4>1. tokenModes[s][t] = Unset
        BY <1>6, <2>2, <3>2
      <4>2. tokenModes'[s][t] = Moded(Unset) /\ t \in subscribedTokens'[s]
        BY <2>1, <3>2, <4>1
      <4> QED BY <2>3, <2>4, <3>2, <4>2 DEF Unset
    <3>3. CASE t \in (known \cap subscribedTokens[s]) \ Placed(place, s)
      <4>1. mode # Unset /\ tokenModes'[s][t] = mode /\ t \in subscribedTokens'[s]
        BY <2>1, <3>3
      <4> QED BY <2>3, <2>4, <3>3, <4>1
    <3>4. CASE t \notin touched
      <4>1. /\ tokenModes'[s][t] = tokenModes[s][t]
            /\ t \in subscribedTokens'[s] <=> t \in subscribedTokens[s]
        BY <2>1, <3>4
      <4> QED BY <2>3, <2>4, <3>1, <3>4, <4>1
    <3> QED BY <3>2, <3>3, <3>4
  <2> QED BY <2>3, <2>4, <2>5
<1>8. ASSUME NEW ts \in SUBSET Tokens, NEW mode \in Modes, SetMode(ts, mode)
      PROVE  upstream'[s] = Remembered(s)'
  <2>1. Routed(ts, s) = ts \cap subscribedTokens[s]
    BY <1>6 DEF Routed
  <2>2. mode # Unset
    BY DEF Modes, Unset
  <2>3. upstream'[s] = [t \in Tokens |->
            IF t \in ts \cap subscribedTokens[s] THEN mode ELSE Remembered(s)[t]]
    BY <1>5, <1>8, <2>1 DEF SetMode, InSessions, TokenStep
  <2>4. /\ tokenModes'[s] = [t \in Tokens |->
              IF t \in ts \cap subscribedTokens[s] THEN mode ELSE tokenModes[s][t]]
        /\ subscribedTokens'[s] = subscribedTokens[s]
    BY <1>8, <2>1 DEF SetMode
  <2> QED BY <2>2, <2>3, <2>4 DEF Remembered
<1>9. ASSUME NEW ts \in SUBSET Tokens, Unsubscribe(ts)
      PROVE  upstream'[s] = Remembered(s)'
  <2>1. Routed(ts, s) = ts \cap subscribedTokens[s]
    BY <1>6 DEF Routed
  <2>2. upstream'[s] = [t \in Tokens |->
            IF t \in ts \cap subscribedTokens[s] THEN Unset ELSE Remembered(s)[t]]
    BY <1>5, <1>9, <2>1 DEF Unsubscribe, InSessions, TokenStep
  <2>3. /\ tokenModes'[s] = [t \in Tokens |->
              IF t \in ts \cap subscribedTokens[s] THEN Unset ELSE tokenModes[s][t]]
        /\ subscribedTokens'[s] = subscribedTokens[s] \ ts
    BY <1>9, <2>1 DEF Unsubscribe
  <2> QED BY <2>2, <2>3 DEF Remembered
<1>10. CASE UNCHANGED vars
  BY <1>1, <1>10 DEF vars, sdkVars
<1>11. ASSUME \/ Connect \/ Disconnect
              \/ \E r \in Shards : TimerFires(r) \/ SdkRedial(r) \/ AuthError(r)
       PROVE  upstream'[s] = Remembered(s)'
  BY <1>0, <1>2, <1>11 DEF Remembered, tokenVars
<1> QED BY <1>3, <1>4, <1>7, <1>8, <1>9, <1>10, <1>11, StepsOfTheTicker
        DEF SocketStep, TokenStep

\* What an open connection streams is what its shard remembers, modes included.
THEOREM SessionsAreMirrored == Spec => []SessionsMirrorShards
<1>1. Init => SessionsMirrorShards
  BY DEF Init, SessionsMirrorShards
<1>2. TypeOK /\ TokensAreRouted /\ SessionsMirrorShards /\ [Next]_vars
        => SessionsMirrorShards'
  BY MirrorStep
<1> QED BY <1>1, <1>2, KiteTypeCorrect, TokensStayRouted, PTL DEF Spec

-----------------------------------------------------------------------------
(* Each shard is a TickerLink.                                             *)

Wanted(s) == link[s] # "idle" /\ (~disableReconnect[s] \/ link[s] = "dialing" \/ timers[s] > 0)

\* A step that opens and closes nothing and keeps the attempts starts the link or stops it.
LEMMA QuietStep ==
    ASSUME NEW s \in Shards, isConnected'[s] = isConnected[s],
           reconnectAttempts'[s] = reconnectAttempts[s]
    PROVE  [Link(s)!Next]_(Link(s)!vars)
<1>1. CASE Wanted(s)'
  <2>1. Link(s)!Start
    BY <1>1 DEF Link!Start, Wanted
  <2> QED BY <2>1 DEF Link!Next
<1>2. CASE ~Wanted(s)'
  <2>1. Link(s)!Stop
    BY <1>2 DEF Link!Stop, Wanted
  <2> QED BY <2>1 DEF Link!Next
<1> QED BY <1>1, <1>2

\* An open socket restores the budget.
LEMMA OpensIsRise ==
    ASSUME TypeOK, NEW s \in Shards, SocketOpens(s)
    PROVE  Link(s)!Next
<1>1. /\ isConnected'[s] = TRUE /\ reconnectAttempts'[s] = 0
      /\ link[s] = "dialing" /\ link'[s] = "open" /\ disableReconnect'[s] = FALSE
  BY DEF SocketOpens, TypeOK
<1>2. Link(s)!Rise
  BY <1>1 DEF Link!Rise
<1> QED BY <1>2 DEF Link!Next

\* A lost socket costs an attempt only while the shard is wanted and has one left.
LEMMA ClosesIsFall ==
    ASSUME TypeOK, NEW s \in Shards, SocketCloses(s)
    PROVE  Link(s)!Next
<1>1. /\ link[s] \in {"dialing", "open", "closing"} /\ link'[s] = "closed"
      /\ isConnected'[s] = FALSE /\ disableReconnect'[s] = disableReconnect[s]
      /\ HandleShardDisconnect(s)
  BY DEF SocketCloses, TypeOK
<1>2. CASE Reconnects(s)
  <2>1. /\ ~disableReconnect[s] /\ reconnectAttempts[s] < MaxReconnectAttempts
        /\ reconnectAttempts'[s] = reconnectAttempts[s] + 1
    BY <1>1, <1>2 DEF HandleShardDisconnect, Reconnects, TypeOK
  <2>2. Link(s)!Fall
    BY <1>1, <2>1 DEF Link!Fall
  <2> QED BY <2>2 DEF Link!Next
<1>3. CASE ~Reconnects(s)
  <2>1. reconnectAttempts'[s] = reconnectAttempts[s] /\ timers'[s] = timers[s]
    BY <1>1, <1>3 DEF HandleShardDisconnect
  <2>2. CASE ~disableReconnect[s] \/ timers[s] > 0
    <3>1. Link(s)!Fall
      BY <1>1, <2>1, <2>2 DEF Link!Fall
    <3> QED BY <3>1 DEF Link!Next
  <2>3. CASE ~(~disableReconnect[s] \/ timers[s] > 0)
    <3>1. Link(s)!Stop
      BY <1>1, <2>1, <2>3 DEF Link!Stop
    <3> QED BY <3>1 DEF Link!Next
  <2> QED BY <2>2, <2>3
<1> QED BY <1>2, <1>3

LEMMA ShardLinkStep ==
    ASSUME TypeOK, [Next]_vars, NEW s \in Shards
    PROVE  [Link(s)!Next]_(Link(s)!vars)
<1>1. CASE UNCHANGED <<isConnected, reconnectAttempts>>
  BY <1>1, QuietStep
<1>2. ASSUME NEW r \in Shards, SocketOpens(r)
      PROVE  [Link(s)!Next]_(Link(s)!vars)
  <2>1. CASE r = s
    BY <1>2, <2>1, OpensIsRise
  <2>2. CASE r # s
    BY <1>2, <2>2, QuietStep DEF SocketOpens, TypeOK
  <2> QED BY <2>1, <2>2
<1>3. ASSUME NEW r \in Shards, SocketCloses(r)
      PROVE  [Link(s)!Next]_(Link(s)!vars)
  <2>1. CASE r = s
    BY <1>3, <2>1, ClosesIsFall
  <2>2. CASE r # s
    <3>1. isConnected'[s] = isConnected[s] /\ reconnectAttempts'[s] = reconnectAttempts[s]
      BY <1>3, <2>2 DEF SocketCloses, HandleShardDisconnect, TypeOK
    <3> QED BY <3>1, QuietStep
  <2> QED BY <2>1, <2>2
<1>4. ASSUME SocketStep
      PROVE  \/ UNCHANGED <<isConnected, reconnectAttempts>>
             \/ \E r \in Shards : SocketOpens(r) \/ SocketCloses(r)
  BY <1>4 DEF SocketStep, Connect, Disconnect, TimerFires, SdkRedial, AuthError, reconnectVars
<1>5. ASSUME NEW ts, TokenStep(ts)
      PROVE  UNCHANGED <<isConnected, reconnectAttempts>>
  BY <1>5, TokenStepReconnects DEF reconnectVars
<1>6. UNCHANGED vars => UNCHANGED <<isConnected, reconnectAttempts>>
  BY DEF vars, reconnectVars
<1>7. \/ UNCHANGED <<isConnected, reconnectAttempts>>
      \/ \E r \in Shards : SocketOpens(r) \/ SocketCloses(r)
  BY <1>4, <1>5, <1>6, StepsOfTheTicker
<1> QED BY <1>1, <1>2, <1>3, <1>7

LEMMA ShardLinkInit == Init => \A s \in Shards : Link(s)!Init
  BY DEF Init, Link!Init

\* Each shard keeps the contract of a ticker that reconnects by itself: attempts are spent
\* only while it is wanted and has any left, and only an open connection gives them back.
THEOREM ShardsAreLinks == Spec => ShardsImplementLink
<1>1. TypeOK /\ [Next]_vars => [\A s \in Shards : [Link(s)!Next]_(Link(s)!vars)]_vars
  BY ShardLinkStep
<1> QED BY <1>1, ShardLinkInit, KiteTypeCorrect, PTL DEF Spec, ShardsImplementLink

\* The same, of one shard, as the abstract specification has it.
THEOREM EveryShardIsALink ==
    ASSUME NEW s \in Shards
    PROVE  Spec => Link(s)!SafeSpec
<1>1. Init => Link(s)!Init
  BY ShardLinkInit
<1>2. TypeOK /\ [Next]_vars => [Link(s)!Next]_(Link(s)!vars)
  BY ShardLinkStep
<1> QED BY <1>1, <1>2, KiteTypeCorrect, PTL DEF Spec, Link!SafeSpec

=============================================================================
