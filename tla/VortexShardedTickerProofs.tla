---------------------- MODULE VortexShardedTickerProofs ----------------------
(* Theorems about VortexShardedTicker, for any shards, tokens and limits.    *)
EXTENDS VortexShardedTicker, FiniteSetTheorems, TLAPS

(* Types.                                                                   *)

States == {"free", "timer", "connecting", "open", "closing"}

LEMMA VortexInit == Init => TypeOK
<1>1. 1 \in Shards
  BY MaxShardsAssumption DEF Shards
<1>2. 0 \in 0 .. MaxReconnectAttempts
  BY MaxReconnectAttemptsAssumption
<1>3. Free \in [shard : Shards, state : {"free", "timer", "connecting", "open", "closing"}]
  BY <1>1 DEF Free
<1>4. Idle \in [kind : {"none", "pending", "lookup", "release"},
               shard : Shards, tokens : SUBSET Tokens]
  BY <1>1 DEF Idle
<1> SUFFICES ASSUME Init PROVE TypeOK
  OBVIOUS
<1>5. /\ loggedIn \in BOOLEAN /\ connected \in BOOLEAN
      /\ socket \in [Sockets -> [shard : Shards, state : {"free", "timer", "connecting", "open", "closing"}]]
      /\ ws \in [Shards -> Sockets \cup {NoSocket}]
  BY <1>3 DEF Init
<1>6. /\ upstream \in [Shards -> SUBSET Tokens]
      /\ subscribed \in [Shards -> SUBSET Tokens]
      /\ tokenToShard \in [Tokens -> Shards \cup {NoShard}]
  BY DEF Init
<1>7. /\ reconnectAttempts \in [Shards -> 0 .. MaxReconnectAttempts]
      /\ call \in [Calls -> [kind : {"none", "pending", "lookup", "release"},
                              shard : Shards, tokens : SUBSET Tokens]]
  BY <1>2, <1>4 DEF Init
<1> QED BY <1>5, <1>6, <1>7 DEF TypeOK

LEMMA DialType ==
    ASSUME TypeOK, NEW s \in Shards, NEW i \in Sockets, Dial(s, i)
    PROVE  /\ socket' \in [Sockets -> [shard : Shards, state : States]]
           /\ ws' \in [Shards -> Sockets \cup {NoSocket}]
           /\ upstream' \in [Shards -> SUBSET Tokens]
<1>1. At(s, "connecting") \in [shard : Shards, state : States]
  BY DEF At, States
<1>2. socket' \in [Sockets -> [shard : Shards, state : States]]
  BY <1>1 DEF Dial, TypeOK, States
<1> QED BY <1>2 DEF Dial, TypeOK

LEMMA ShardConnectType ==
    ASSUME TypeOK, NEW s \in Shards, ShardConnect(s)
    PROVE  /\ socket' \in [Sockets -> [shard : Shards, state : States]]
           /\ ws' \in [Shards -> Sockets \cup {NoSocket}]
           /\ upstream' \in [Shards -> SUBSET Tokens]
<1>1. CASE \E i \in Sockets : Dial(s, i)
  BY <1>1, DialType
<1>2. CASE UNCHANGED <<socket, ws, upstream>>
  BY <1>2 DEF TypeOK, States
<1> QED BY <1>1, <1>2 DEF ShardConnect

CallRecords == [kind : {"none", "pending", "lookup", "release"},
                shard : Shards, tokens : SUBSET Tokens]

LEMMA CallTypes ==
    ASSUME NEW s \in Shards, NEW ts \in SUBSET Tokens
    PROVE  /\ Idle \in CallRecords
           /\ [kind |-> "pending", shard |-> s, tokens |-> ts] \in CallRecords
           /\ [kind |-> "release", shard |-> s, tokens |-> ts] \in CallRecords
           /\ Lookup(s, ts) \in CallRecords
<1>1. 1 \in Shards
  BY MaxShardsAssumption DEF Shards
<1>2. Idle \in CallRecords
  BY <1>1 DEF Idle, CallRecords
<1>3. Lookup(s, ts) \in CallRecords
  BY <1>2 DEF Lookup, CallRecords
<1> QED BY <1>2, <1>3 DEF CallRecords

LEMMA ShardSubscribeType ==
    ASSUME TypeOK, NEW s \in Shards, NEW ts \in SUBSET Tokens, ShardSubscribe(s, ts)
    PROVE  call' \in [Calls -> CallRecords]
<1>1. PICK j \in Calls :
         \/ call' = [call EXCEPT ![j] = [kind |-> "pending", shard |-> s, tokens |-> ts]]
         \/ \E A \in Accepted(s, ts) : call' = [call EXCEPT ![j] = Lookup(s, A)]
  BY DEF ShardSubscribe
<1>2. call \in [Calls -> CallRecords]
  BY DEF TypeOK, CallRecords
<1>3. CASE call' = [call EXCEPT ![j] = [kind |-> "pending", shard |-> s, tokens |-> ts]]
  BY <1>2, <1>3, CallTypes
<1>4. ASSUME NEW A \in Accepted(s, ts), call' = [call EXCEPT ![j] = Lookup(s, A)]
      PROVE  call' \in [Calls -> CallRecords]
  <2>1. A \in SUBSET Tokens
    BY DEF Accepted
  <2>2. Lookup(s, A) \in CallRecords
    BY <2>1, CallTypes
  <2> QED BY <1>2, <1>4, <2>2
<1> QED BY <1>1, <1>3, <1>4

LEMMA FlushType ==
    ASSUME TypeOK, NEW s \in Shards, Flush(s)
    PROVE  call' \in [Calls -> CallRecords]
<1>1. PICK taken \in [Calls -> SUBSET Tokens] :
         call' = [j \in Calls |-> IF IsPending(j, s) THEN Lookup(s, taken[j]) ELSE call[j]]
  BY DEF Flush
<1>2. \A j \in Calls : Lookup(s, taken[j]) \in CallRecords
  BY CallTypes
<1>3. \A j \in Calls : call[j] \in CallRecords
  BY DEF TypeOK, CallRecords
<1> QED BY <1>1, <1>2, <1>3

LEMMA VortexTypeStep == TypeOK /\ [Next]_vars => TypeOK'
<1> SUFFICES ASSUME TypeOK, [Next]_vars PROVE TypeOK'
  OBVIOUS
<1> DEFINE SocketType == [Sockets -> [shard : Shards, state : States]]
<1>1. /\ socket \in SocketType
      /\ call \in [Calls -> CallRecords]
      /\ 1 \in Shards
  BY MaxShardsAssumption DEF TypeOK, States, CallRecords, Shards
<1>2. ASSUME socket' \in SocketType, call' \in [Calls -> CallRecords], loggedIn' \in BOOLEAN,
             ws' \in [Shards -> Sockets \cup {NoSocket}], upstream' \in [Shards -> SUBSET Tokens],
             reconnectAttempts' \in [Shards -> 0 .. MaxReconnectAttempts],
             subscribed' \in [Shards -> SUBSET Tokens],
             tokenToShard' \in [Tokens -> Shards \cup {NoShard}], connected' \in BOOLEAN
      PROVE  TypeOK'
  BY <1>2 DEF TypeOK, States, CallRecords
<1> HIDE DEF SocketType
<1>3. CASE Login
  BY <1>1, <1>2, <1>3 DEF Login, TypeOK, socketVars, tokenVars
<1>4. CASE Connect
  <2>1. socket' \in SocketType /\ ws' \in [Shards -> Sockets \cup {NoSocket}]
        /\ upstream' \in [Shards -> SUBSET Tokens]
    BY <1>1, <1>4, ShardConnectType DEF Connect, SocketType
  <2> QED BY <1>1, <1>2, <1>4, <2>1 DEF Connect, TypeOK, tokenVars
<1>5. CASE Disconnect
  <2>1. \A i \in Sockets : At(socket[i].shard, "closing") \in [shard : Shards, state : States]
    BY <1>1 DEF At, States, SocketType
  <2>2. socket' \in SocketType
    BY <1>1, <1>5, <2>1 DEF Disconnect, SocketType
  <2>3. upstream' \in [Shards -> SUBSET Tokens]
    BY <1>5 DEF Disconnect
  <2> QED BY <1>1, <1>2, <1>5, <2>2, <2>3 DEF Disconnect, TypeOK, tokenVars
<1>6. ASSUME NEW i \in Sockets, TimerFires(i) PROVE TypeOK'
  <2>1. socket[i].shard \in Shards
    BY <1>1 DEF SocketType
  <2>2. socket' \in SocketType /\ ws' \in [Shards -> Sockets \cup {NoSocket}]
        /\ upstream' \in [Shards -> SUBSET Tokens]
    BY <1>6, <2>1, DialType DEF TimerFires, SocketType
  <2> QED BY <1>1, <1>2, <1>6, <2>2 DEF TimerFires, TypeOK, tokenVars
<1>7. ASSUME NEW i \in Sockets, SocketFails(i) PROVE TypeOK'
  <2> DEFINE s == socket[i].shard
  <2>1. s \in Shards /\ At(s, "closing") \in [shard : Shards, state : States]
    BY <1>1 DEF At, States, SocketType
  <2>2. socket' \in SocketType
    BY <1>1, <1>7, <2>1 DEF SocketFails, SocketType
  <2>3. upstream' \in [Shards -> SUBSET Tokens]
    BY <1>7, <2>1 DEF SocketFails, TypeOK
  <2> QED BY <1>1, <1>2, <1>7, <2>2, <2>3 DEF SocketFails, TypeOK, tokenVars
<1>8. ASSUME NEW i \in Sockets, SocketCloses(i) PROVE TypeOK'
  <2> DEFINE s == socket[i].shard
  <2>1. /\ s \in Shards
        /\ At(s, "timer") \in [shard : Shards, state : States]
        /\ Free \in [shard : Shards, state : States]
    BY <1>1 DEF At, States, SocketType, Free
  <2>2. socket' \in SocketType
    BY <1>1, <1>8, <2>1 DEF SocketCloses, SocketType
  <2>3. reconnectAttempts' \in [Shards -> 0 .. MaxReconnectAttempts]
    <3>1. CASE reconnectAttempts' = [reconnectAttempts EXCEPT ![s] = @ + 1] /\ AttemptsLeft(s)
      <4>1. reconnectAttempts[s] + 1 \in 0 .. MaxReconnectAttempts
        BY <2>1, <3>1, MaxReconnectAttemptsAssumption DEF AttemptsLeft, TypeOK
      <4> QED BY <3>1, <4>1 DEF TypeOK
    <3>2. CASE UNCHANGED reconnectAttempts
      BY <3>2 DEF TypeOK
    <3> QED BY <1>8, <3>1, <3>2 DEF SocketCloses
  <2>4. connected' \in BOOLEAN
    BY <1>8 DEF SocketCloses, AnyOpen
  <2> QED BY <1>1, <1>2, <1>8, <2>2, <2>3, <2>4 DEF SocketCloses, TypeOK, tokenVars
<1>9. ASSUME NEW i \in Sockets, SocketOpens(i) PROVE TypeOK'
  <2> DEFINE s == socket[i].shard
  <2>1. s \in Shards /\ At(s, "open") \in [shard : Shards, state : States]
    BY <1>1 DEF At, States, SocketType
  <2>2. socket' \in SocketType
    BY <1>1, <1>9, <2>1 DEF SocketOpens, SocketType
  <2>3. reconnectAttempts' \in [Shards -> 0 .. MaxReconnectAttempts]
    BY <1>9, MaxReconnectAttemptsAssumption DEF SocketOpens, TypeOK
  <2>4. upstream' \in [Shards -> SUBSET Tokens]
    BY <1>9, <2>1 DEF SocketOpens, Resubscribed, TypeOK
  <2>5. call' \in [Calls -> CallRecords]
    BY <1>1, <1>9, <2>1, FlushType DEF SocketOpens
  <2>6. connected' \in BOOLEAN
    BY <1>9 DEF SocketOpens, AnyOpen
  <2> QED BY <1>1, <1>2, <1>9, <2>2, <2>3, <2>4, <2>5, <2>6 DEF SocketOpens, TypeOK, tokenVars
<1>10. ASSUME NEW s \in Shards, NEW ts \in (SUBSET Tokens) \ {{}}, SubscribeRouted(s, ts)
       PROVE  TypeOK'
  <2>1. call' \in [Calls -> CallRecords]
    BY <1>10, ShardSubscribeType DEF SubscribeRouted
  <2> QED BY <1>1, <1>2, <1>10, <2>1 DEF SubscribeRouted, TypeOK, socketVars, tokenVars
<1>11. ASSUME NEW s \in Shards, NEW ts \in (SUBSET Tokens) \ {{}}, Unsubscribe(s, ts)
       PROVE  TypeOK'
  <2>1. tokenToShard' \in [Tokens -> Shards \cup {NoShard}]
    BY <1>11 DEF Unsubscribe, TypeOK
  <2>2. subscribed' \in [Shards -> SUBSET Tokens] /\ upstream' \in [Shards -> SUBSET Tokens]
    BY <1>11 DEF Unsubscribe, Release, TypeOK
  <2>3. call' \in [Calls -> CallRecords]
    BY <1>1, <1>11, CallTypes DEF Unsubscribe
  <2> QED BY <1>1, <1>2, <1>11, <2>1, <2>2, <2>3 DEF Unsubscribe, TypeOK, socketVars
<1>12. ASSUME NEW ts \in (SUBSET Tokens) \ {{}}, SubscribeFresh(ts) PROVE TypeOK'
  <2>1. PICK s \in Shards :
           /\ tokenToShard' = [t \in Tokens |-> IF t \in ts THEN s ELSE tokenToShard[t]]
           /\ ShardSubscribe(s, ts)
           /\ UNCHANGED <<socket, ws, upstream>> \/ ShardConnect(s)
    BY <1>12 DEF SubscribeFresh
  <2>2. tokenToShard' \in [Tokens -> Shards \cup {NoShard}]
    BY <2>1 DEF TypeOK
  <2>3. call' \in [Calls -> CallRecords]
    BY <2>1, ShardSubscribeType
  <2>4. socket' \in SocketType /\ ws' \in [Shards -> Sockets \cup {NoSocket}]
        /\ upstream' \in [Shards -> SUBSET Tokens]
    <3>1. CASE UNCHANGED <<socket, ws, upstream>>
      BY <1>1, <3>1 DEF TypeOK
    <3>2. CASE ShardConnect(s)
      BY <3>2, ShardConnectType DEF SocketType
    <3> QED BY <2>1, <3>1, <3>2
  <2> QED BY <1>2, <1>12, <2>2, <2>3, <2>4 DEF SubscribeFresh, TypeOK
<1>13. ASSUME NEW j \in Calls, LookupEnds(j) PROVE TypeOK'
  <2>1. call[j].shard \in Shards /\ call[j].tokens \in SUBSET Tokens
    BY <1>1 DEF CallRecords
  <2>2. call' \in [Calls -> CallRecords]
    BY <1>1, <1>13, <2>1, CallTypes DEF LookupEnds
  <2>3. subscribed' \in [Shards -> SUBSET Tokens] /\ upstream' \in [Shards -> SUBSET Tokens]
    <3>1. CASE UNCHANGED <<subscribed, upstream>>
      BY <3>1 DEF TypeOK
    <3>2. ASSUME NEW known \in SUBSET call[j].tokens,
                 subscribed' = [subscribed EXCEPT ![call[j].shard] = @ \cup known],
                 upstream' = [upstream EXCEPT ![call[j].shard] = @ \cup known]
          PROVE  subscribed' \in [Shards -> SUBSET Tokens] /\ upstream' \in [Shards -> SUBSET Tokens]
      <4>1. known \in SUBSET Tokens
        BY <2>1
      <4> QED BY <2>1, <3>2, <4>1 DEF TypeOK
    <3> QED BY <1>13, <3>1, <3>2 DEF LookupEnds
  <2>4. UNCHANGED <<loggedIn, socket, ws, reconnectAttempts, connected, tokenToShard>>
    BY <1>13 DEF LookupEnds, socketVars
  <2> QED BY <1>1, <1>2, <2>2, <2>3, <2>4 DEF TypeOK
<1>14. ASSUME NEW j \in Calls, ReleaseEnds(j) PROVE TypeOK'
  <2>1. call[j].shard \in Shards /\ call[j].tokens \in SUBSET Tokens
    BY <1>1 DEF CallRecords
  <2>2. call' \in [Calls -> CallRecords]
    BY <1>1, <1>14, <2>1, CallTypes DEF ReleaseEnds
  <2>3. subscribed' \in [Shards -> SUBSET Tokens] /\ upstream' \in [Shards -> SUBSET Tokens]
    BY <1>14, <2>1 DEF ReleaseEnds, Release, TypeOK
  <2> QED BY <1>1, <1>2, <1>14, <2>2, <2>3 DEF ReleaseEnds, TypeOK, socketVars
<1>15. CASE UNCHANGED vars
  BY <1>1, <1>2, <1>15 DEF vars, socketVars, tokenVars, TypeOK
<1> QED BY <1>3, <1>4, <1>5, <1>6, <1>7, <1>8, <1>9, <1>10, <1>11, <1>12, <1>13, <1>14, <1>15
        DEF Next

\* The ticker's state keeps its types; in particular no shard counts more attempts than it
\* may make.
THEOREM VortexTypeCorrect == Spec => []TypeOK
<1>1. Init => TypeOK
  BY VortexInit
<1>2. TypeOK /\ [Next]_vars => TypeOK'
  BY VortexTypeStep
<1> QED BY <1>1, <1>2, PTL DEF Spec

-----------------------------------------------------------------------------
(* Sessions.                                                                *)

SessionsInv == TypeOK /\ SessionsMirrorShards

\* A new current socket is not open, and nobody else's socket changes.
LEMMA SessionsAfterDial ==
    ASSUME SessionsInv, NEW s \in Shards, NEW i \in Sockets, Dial(s, i),
           socket[i].state # "open", subscribed' = subscribed
    PROVE  SessionsMirrorShards'
<1>1. /\ socket' = [socket EXCEPT ![i] = At(s, "connecting")]
      /\ \A q \in Shards : ws'[q] = IF q = s THEN i ELSE ws[q]
      /\ \A q \in Shards : upstream'[q] = IF q = s THEN {} ELSE upstream[q]
  BY DEF Dial, SessionsInv, TypeOK
<1>2. socket'[i] # At(s, "open")
  BY <1>1 DEF At, SessionsInv, TypeOK
<1>3. ~IsConnected(s)'
  BY <1>1, <1>2 DEF IsConnected, IsOpen
<1>4. ASSUME NEW q \in Shards, q # s PROVE IsConnected(q)' <=> IsConnected(q)
  <2>1. CASE ws[q] = i
    BY <1>1, <1>4, <2>1 DEF IsConnected, IsOpen, At, SessionsInv, TypeOK
  <2>2. CASE ws[q] # i
    BY <1>1, <1>4, <2>2 DEF IsConnected, IsOpen, SessionsInv, TypeOK
  <2> QED BY <2>1, <2>2
<1> QED BY <1>1, <1>3, <1>4 DEF SessionsMirrorShards, SessionsInv

\* A step that touches neither sockets nor the choice of the current one.
LEMMA SessionsAfterTokens ==
    ASSUME SessionsInv, UNCHANGED <<socket, ws>>, NEW s \in Shards, NEW S, NEW U,
           subscribed' = [subscribed EXCEPT ![s] = S], upstream' = [upstream EXCEPT ![s] = U],
           U = IF IsConnected(s) THEN S ELSE {}
    PROVE  SessionsMirrorShards'
<1>1. \A q \in Shards : IsConnected(q)' <=> IsConnected(q)
  BY DEF IsConnected, IsOpen
<1>2. \A q \in Shards : /\ subscribed'[q] = IF q = s THEN S ELSE subscribed[q]
                        /\ upstream'[q] = IF q = s THEN U ELSE upstream[q]
  BY DEF SessionsInv, TypeOK
<1> QED BY <1>1, <1>2 DEF SessionsMirrorShards, SessionsInv

\* After any change of one socket of shard s.
LEMMA OthersStayConnected ==
    ASSUME TypeOK, NEW i \in Sockets, NEW state, NEW s \in Shards, s = socket[i].shard,
           socket' = [socket EXCEPT ![i] = At(s, state)], UNCHANGED ws
    PROVE  /\ \A q \in Shards \ {s} : IsConnected(q)' <=> IsConnected(q)
           /\ ws[s] # i => (IsConnected(s)' <=> IsConnected(s))
<1>1. /\ socket'[i] = At(s, state)
      /\ \A k \in Sockets \ {i} : socket'[k] = socket[k]
  BY DEF TypeOK
<1>2. ASSUME NEW q \in Shards, q # s PROVE socket'[i] # At(q, "open") /\ socket[i] # At(q, "open")
  BY <1>1, <1>2 DEF At
<1>3. ASSUME NEW q \in Shards, q # s PROVE IsConnected(q)' <=> IsConnected(q)
  <2>1. CASE ws[q] = i
    BY <1>2, <1>3, <2>1 DEF IsConnected, IsOpen
  <2>2. CASE ws[q] # i
    BY <1>1, <2>2 DEF IsConnected, IsOpen
  <2> QED BY <2>1, <2>2
<1>4. ws[s] # i => (IsConnected(s)' <=> IsConnected(s))
  BY <1>1 DEF IsConnected, IsOpen
<1> QED BY <1>3, <1>4

\* A socket that closes was not open before.
LEMMA CloseDisconnectsNobody ==
    ASSUME TypeOK, NEW i \in Sockets, SocketCloses(i)
    PROVE  \A q \in Shards : IsConnected(q)' <=> IsConnected(q)
<1>1. /\ socket[i].state = "closing"
      /\ socket' \in {[socket EXCEPT ![i] = At(socket[i].shard, "timer")],
                      [socket EXCEPT ![i] = Free]}
      /\ UNCHANGED ws
  BY DEF SocketCloses
<1>2. \A q \in Shards : socket[i] # At(q, "open") /\ socket'[i] # At(q, "open")
  BY <1>1 DEF At, Free, TypeOK
<1>3. \A k \in Sockets \ {i} : socket'[k] = socket[k]
  BY <1>1 DEF TypeOK
<1> QED BY <1>1, <1>2, <1>3 DEF IsConnected, IsOpen

LEMMA DisconnectClosesAll ==
    ASSUME TypeOK, Disconnect
    PROVE  \A q \in Shards : ~IsConnected(q)'
<1> SUFFICES ASSUME NEW q \in Shards, IsConnected(q)' PROVE FALSE
  OBVIOUS
<1> DEFINE i == ws[q]
<1>1. i \in Sockets /\ socket'[i] = At(q, "open") /\ UNCHANGED ws
  BY DEF IsConnected, IsOpen, Disconnect
<1>2. socket'[i] = IF ws[socket[i].shard] = i /\ socket[i].state \in {"connecting", "open"}
                   THEN At(socket[i].shard, "closing") ELSE socket[i]
  BY <1>1 DEF Disconnect
<1>3. socket[i] = At(q, "open")
  BY <1>1, <1>2 DEF At
<1>4. socket'[i] = At(q, "closing")
  BY <1>2, <1>3 DEF At
<1> QED BY <1>1, <1>4 DEF At

LEMMA SessionsStep == SessionsInv /\ [Next]_vars => SessionsInv'
<1> SUFFICES ASSUME SessionsInv, [Next]_vars PROVE SessionsMirrorShards'
  BY VortexTypeStep DEF SessionsInv
<1> USE DEF SessionsInv
<1>1. ASSUME UNCHANGED <<socket, ws, upstream, subscribed>> PROVE SessionsMirrorShards'
  BY <1>1 DEF SessionsMirrorShards, IsConnected, IsOpen
<1>2. ASSUME NEW s \in Shards, ShardConnect(s), UNCHANGED subscribed PROVE SessionsMirrorShards'
  <2>1. ASSUME NEW i \in Sockets, socket[i].state = "free", Dial(s, i)
        PROVE  SessionsMirrorShards'
    BY <1>2, <2>1, SessionsAfterDial
  <2> QED BY <1>1, <1>2, <2>1 DEF ShardConnect
<1>3. CASE Login
  BY <1>1, <1>3 DEF Login, socketVars, tokenVars
<1>4. CASE Connect
  BY <1>2, <1>4, MaxShardsAssumption DEF Connect, tokenVars, Shards
<1>5. CASE Disconnect
  <2>1. \A s \in Shards : upstream'[s] = {}
    BY <1>5 DEF Disconnect
  <2> QED BY <1>5, <2>1, DisconnectClosesAll DEF SessionsMirrorShards
<1>6. ASSUME NEW i \in Sockets, TimerFires(i) PROVE SessionsMirrorShards'
  <2>1. socket[i].shard \in Shards /\ socket[i].state # "open" /\ Dial(socket[i].shard, i)
        /\ subscribed' = subscribed
    BY <1>6 DEF TimerFires, TypeOK, tokenVars
  <2> QED BY <2>1, SessionsAfterDial
<1>7. ASSUME NEW i \in Sockets, SocketFails(i) PROVE SessionsMirrorShards'
  <2>0. PICK s \in Shards : s = socket[i].shard
    BY DEF TypeOK
  <2>1. /\ socket' = [socket EXCEPT ![i] = At(s, "closing")]
        /\ UNCHANGED <<ws, subscribed>>
        /\ \A q \in Shards : upstream'[q] = IF q = s /\ ws[s] = i THEN {} ELSE upstream[q]
    BY <1>7, <2>0 DEF SocketFails, TypeOK, tokenVars
  <2>2. /\ \A q \in Shards \ {s} : IsConnected(q)' <=> IsConnected(q)
        /\ ws[s] # i => (IsConnected(s)' <=> IsConnected(s))
        /\ ws[s] = i => ~IsConnected(s)'
    <3>1. ws[s] = i => ~IsConnected(s)'
      <4>1. socket'[i] = At(s, "closing") /\ At(s, "closing") # At(s, "open")
        BY <2>1 DEF At, TypeOK
      <4> QED BY <2>1, <4>1 DEF IsConnected, IsOpen
    <3>2. /\ \A q \in Shards \ {s} : IsConnected(q)' <=> IsConnected(q)
          /\ ws[s] # i => (IsConnected(s)' <=> IsConnected(s))
      BY <2>0, <2>1, OthersStayConnected
    <3> QED BY <3>1, <3>2
  <2> QED BY <2>1, <2>2 DEF SessionsMirrorShards
<1>8. ASSUME NEW i \in Sockets, SocketCloses(i) PROVE SessionsMirrorShards'
  <2>1. UNCHANGED <<upstream, subscribed>>
    BY <1>8 DEF SocketCloses, tokenVars
  <2> QED BY <1>8, <2>1, CloseDisconnectsNobody DEF SessionsMirrorShards
<1>9. ASSUME NEW i \in Sockets, SocketOpens(i) PROVE SessionsMirrorShards'
  <2>0. PICK s \in Shards : s = socket[i].shard
    BY DEF TypeOK
  <2>1. /\ socket[i].state = "connecting"
        /\ socket' = [socket EXCEPT ![i] = At(s, "open")]
        /\ UNCHANGED <<ws, subscribed>>
        /\ IsOpen(socket', s) <=> IsConnected(s)'
    BY <1>9, <2>0 DEF SocketOpens, tokenVars, IsConnected, IsOpen
  <2>2. /\ \A q \in Shards \ {s} : IsConnected(q)' <=> IsConnected(q)
        /\ ws[s] # i => (IsConnected(s)' <=> IsConnected(s))
    BY <2>0, <2>1, OthersStayConnected
  <2>3. ws[s] = i => ~IsConnected(s)
    BY <2>1 DEF IsConnected, IsOpen, At
  <2>4. /\ IsConnected(s)' => upstream' = [upstream EXCEPT ![s] = upstream[s] \cup subscribed[s]]
        /\ ~IsConnected(s)' => UNCHANGED upstream
    BY <1>9, <2>0, <2>1 DEF SocketOpens, Resubscribed
  <2>5. upstream[s] = IF IsConnected(s) THEN subscribed[s] ELSE {}
    BY <2>1 DEF SessionsMirrorShards
  <2>6. /\ upstream'[s] = IF IsConnected(s)' THEN subscribed[s] ELSE {}
        /\ \A q \in Shards \ {s} : upstream'[q] = upstream[q]
    <3>1. CASE IsConnected(s)'
      <4>1. upstream' = [upstream EXCEPT ![s] = upstream[s] \cup subscribed[s]]
        BY <2>4, <3>1
      <4>2. upstream'[s] = upstream[s] \cup subscribed[s] /\ \A q \in Shards \ {s} : upstream'[q] = upstream[q]
        BY <4>1 DEF TypeOK
      <4>3. upstream[s] \cup subscribed[s] = subscribed[s]
        BY <2>5
      <4> QED BY <3>1, <4>2, <4>3
    <3>2. CASE ~IsConnected(s)'
      <4>1. UNCHANGED upstream /\ ~IsConnected(s)
        BY <2>2, <2>3, <2>4, <3>2
      <4> QED BY <2>5, <3>2, <4>1
    <3> QED BY <3>1, <3>2
  <2> QED BY <2>1, <2>2, <2>6 DEF SessionsMirrorShards
<1>10. ASSUME NEW s \in Shards, NEW ts \in (SUBSET Tokens) \ {{}},
              SubscribeRouted(s, ts) \/ Unsubscribe(s, ts)
       PROVE  SessionsMirrorShards'
  <2>1. CASE UNCHANGED <<socket, ws, upstream, subscribed>>
    BY <1>1, <2>1
  <2>2. CASE UNCHANGED <<socket, ws>> /\ Release(s, ts)
    <3>1. upstream[s] \ ts = IF IsConnected(s) THEN subscribed[s] \ ts ELSE {}
      BY DEF SessionsMirrorShards
    <3>2. subscribed' = [subscribed EXCEPT ![s] = subscribed[s] \ ts]
          /\ upstream' = [upstream EXCEPT ![s] = upstream[s] \ ts]
      BY <2>2 DEF Release
    <3> QED BY <2>2, <3>1, <3>2, SessionsAfterTokens
  <2> QED BY <1>10, <2>1, <2>2 DEF SubscribeRouted, Unsubscribe, socketVars, tokenVars
<1>11. ASSUME NEW ts \in (SUBSET Tokens) \ {{}}, SubscribeFresh(ts) PROVE SessionsMirrorShards'
  BY <1>1, <1>2, <1>11 DEF SubscribeFresh
<1>12. ASSUME NEW j \in Calls, LookupEnds(j) PROVE SessionsMirrorShards'
  <2> DEFINE s == call[j].shard
  <2>1. s \in Shards /\ UNCHANGED <<socket, ws>>
    BY <1>12 DEF LookupEnds, TypeOK, socketVars
  <2>2. CASE UNCHANGED <<subscribed, upstream>>
    BY <1>1, <2>1, <2>2
  <2>3. CASE IsConnected(s) /\ \E known \in SUBSET call[j].tokens :
                /\ subscribed' = [subscribed EXCEPT ![s] = @ \cup known]
                /\ upstream' = [upstream EXCEPT ![s] = @ \cup known]
    <3>1. PICK known : /\ subscribed' = [subscribed EXCEPT ![s] = subscribed[s] \cup known]
                       /\ upstream' = [upstream EXCEPT ![s] = upstream[s] \cup known]
      BY <2>3
    <3>2. upstream[s] \cup known = IF IsConnected(s) THEN subscribed[s] \cup known ELSE {}
      BY <2>1, <2>3 DEF SessionsMirrorShards
    <3> HIDE DEF s
    <3> QED BY <2>1, <3>1, <3>2, SessionsAfterTokens
  <2> QED BY <1>12, <2>2, <2>3 DEF LookupEnds
<1>13. ASSUME NEW j \in Calls, ReleaseEnds(j) PROVE SessionsMirrorShards'
  <2> DEFINE s == call[j].shard
  <2>1. s \in Shards /\ UNCHANGED <<socket, ws>>
    BY <1>13 DEF ReleaseEnds, TypeOK, socketVars
  <2>2. PICK known : /\ subscribed' = [subscribed EXCEPT ![s] = subscribed[s] \ known]
                     /\ upstream' = [upstream EXCEPT ![s] = upstream[s] \ known]
    BY <1>13 DEF ReleaseEnds, Release
  <2>3. upstream[s] \ known = IF IsConnected(s) THEN subscribed[s] \ known ELSE {}
    BY <2>1 DEF SessionsMirrorShards
  <2> HIDE DEF s
  <2> QED BY <2>1, <2>2, <2>3, SessionsAfterTokens
<1>14. CASE UNCHANGED vars
  BY <1>1, <1>14 DEF vars, socketVars, tokenVars
<1> QED BY <1>3, <1>4, <1>5, <1>6, <1>7, <1>8, <1>9, <1>10, <1>11, <1>12, <1>13, <1>14 DEF Next

\* Whatever is replaced, closed or redialled, and whenever lookups end: an open session
\* streams exactly the tokens its shard believes subscribed.
THEOREM VortexSessionsMirrored == Spec => []SessionsMirrorShards
<1>1. Init => SessionsInv
  <2>1. Init => SessionsMirrorShards
    BY NoSocketAssumption DEF Init, SessionsMirrorShards, IsConnected, IsOpen
  <2> QED BY <2>1, VortexInit DEF SessionsInv
<1>2. SessionsInv /\ [Next]_vars => SessionsInv'
  BY SessionsStep
<1>3. SessionsInv => SessionsMirrorShards
  BY DEF SessionsInv
<1> QED BY <1>1, <1>2, <1>3, PTL DEF Spec

-----------------------------------------------------------------------------
(* The provider's wsConnected.                                              *)

ConnectedInv == TypeOK /\ ConnectedIsTrue

\* A dial gives nobody a connection and takes no open or closing socket.
LEMMA ConnectedAfterDial ==
    ASSUME ConnectedInv, NEW s \in Shards, NEW i \in Sockets, Dial(s, i),
           socket[i].state \in {"free", "timer"}, connected' = connected
    PROVE  ConnectedIsTrue'
<1>1. /\ socket'[i] = At(s, "connecting")
      /\ \A k \in Sockets \ {i} : socket'[k] = socket[k]
      /\ \A q \in Shards : ws'[q] = IF q = s THEN i ELSE ws[q]
  BY DEF Dial, ConnectedInv, TypeOK
<1>2. \A q \in Shards : socket'[i] # At(q, "open")
  BY <1>1 DEF At
<1>3. ASSUME NEW q \in Shards, IsConnected(q)' PROVE IsConnected(q)
  BY <1>1, <1>2, <1>3 DEF IsConnected, IsOpen
<1>4. ASSUME NEW k \in Sockets, socket[k].state \in {"open", "closing"}
      PROVE  socket'[k].state \in {"open", "closing"}
  BY <1>1, <1>4
<1> QED BY <1>3, <1>4 DEF ConnectedIsTrue, ConnectedInv

\* 'open' and 'close' compute it from the shards, as they are then.
LEMMA ConnectedRecomputed ==
    ASSUME UNCHANGED ws, connected' = AnyOpen(socket') PROVE ConnectedIsTrue'
<1>1. connected' <=> \E s \in Shards : IsConnected(s)'
  BY DEF AnyOpen, IsConnected, IsOpen
<1>2. ASSUME NEW s \in Shards, IsConnected(s)'
      PROVE  \E i \in Sockets : socket'[i].state \in {"open", "closing"}
  BY <1>2 DEF IsConnected, IsOpen, At
<1> QED BY <1>1, <1>2 DEF ConnectedIsTrue

LEMMA ConnectedStep == ConnectedInv /\ [Next]_vars => ConnectedInv'
<1> SUFFICES ASSUME ConnectedInv, [Next]_vars PROVE ConnectedIsTrue'
  BY VortexTypeStep DEF ConnectedInv
<1> USE DEF ConnectedInv
<1>1. ASSUME UNCHANGED <<socket, ws, connected>> PROVE ConnectedIsTrue'
  BY <1>1 DEF ConnectedIsTrue, IsConnected, IsOpen
<1>2. ASSUME NEW s \in Shards, ShardConnect(s), UNCHANGED connected PROVE ConnectedIsTrue'
  BY <1>1, <1>2, ConnectedAfterDial DEF ShardConnect
<1>3. CASE Login
  BY <1>1, <1>3 DEF Login, socketVars
<1>4. CASE Connect
  BY <1>2, <1>4, MaxShardsAssumption DEF Connect, Shards
<1>5. CASE Disconnect
  <2>1. \A q \in Shards : ~IsConnected(q)'
    BY <1>5, DisconnectClosesAll
  <2>2. ASSUME NEW k \in Sockets, socket[k].state \in {"open", "closing"}
        PROVE  socket'[k].state \in {"open", "closing"}
    BY <1>5, <2>2 DEF Disconnect, At
  <2>3. connected' = connected
    BY <1>5 DEF Disconnect
  <2> QED BY <2>1, <2>2, <2>3 DEF ConnectedIsTrue
<1>6. ASSUME NEW i \in Sockets, TimerFires(i) PROVE ConnectedIsTrue'
  <2>1. socket[i].shard \in Shards
    BY DEF TypeOK
  <2> QED BY <1>6, <2>1, ConnectedAfterDial DEF TimerFires
<1>7. ASSUME NEW i \in Sockets, SocketFails(i) PROVE ConnectedIsTrue'
  <2>1. /\ UNCHANGED <<ws, connected>>
        /\ socket'[i] = At(socket[i].shard, "closing")
        /\ \A k \in Sockets \ {i} : socket'[k] = socket[k]
    BY <1>7 DEF SocketFails, TypeOK
  <2>2. \A q \in Shards : socket'[i] # At(q, "open")
    BY <2>1 DEF At
  <2>3. ASSUME NEW q \in Shards, IsConnected(q)' PROVE IsConnected(q)
    BY <2>1, <2>2, <2>3 DEF IsConnected, IsOpen
  <2>4. ASSUME NEW k \in Sockets, socket[k].state \in {"open", "closing"}
        PROVE  socket'[k].state \in {"open", "closing"}
    BY <2>1, <2>4 DEF At
  <2> QED BY <2>1, <2>3, <2>4 DEF ConnectedIsTrue
<1>8. ASSUME NEW i \in Sockets, SocketCloses(i) \/ SocketOpens(i) PROVE ConnectedIsTrue'
  BY <1>8, ConnectedRecomputed DEF SocketCloses, SocketOpens
<1>9. ASSUME NEW ts \in (SUBSET Tokens) \ {{}}, SubscribeFresh(ts) PROVE ConnectedIsTrue'
  BY <1>1, <1>2, <1>9 DEF SubscribeFresh
<1>10. ASSUME NEW s \in Shards, NEW ts \in (SUBSET Tokens) \ {{}},
              SubscribeRouted(s, ts) \/ Unsubscribe(s, ts)
       PROVE  ConnectedIsTrue'
  BY <1>1, <1>10 DEF SubscribeRouted, Unsubscribe, socketVars
<1>11. ASSUME NEW j \in Calls, LookupEnds(j) \/ ReleaseEnds(j) PROVE ConnectedIsTrue'
  BY <1>1, <1>11 DEF LookupEnds, ReleaseEnds, socketVars
<1>12. CASE UNCHANGED vars
  BY <1>1, <1>12 DEF vars, socketVars
<1> QED BY <1>3, <1>4, <1>5, <1>6, <1>7, <1>8, <1>9, <1>10, <1>11, <1>12 DEF Next

\* The provider never reports a connection that no socket backs (open, or about to report
\* its 'close'), and always reports one it has.
THEOREM VortexConnectedTrue == Spec => []ConnectedIsTrue
<1>1. Init => ConnectedInv
  <2>1. Init => ConnectedIsTrue
    BY NoSocketAssumption DEF Init, ConnectedIsTrue, IsConnected, IsOpen
  <2> QED BY <2>1, VortexInit DEF ConnectedInv
<1>2. ConnectedInv /\ [Next]_vars => ConnectedInv'
  BY ConnectedStep
<1>3. ConnectedInv => ConnectedIsTrue
  BY DEF ConnectedInv
<1> QED BY <1>1, <1>2, <1>3, PTL DEF Spec

-----------------------------------------------------------------------------
(* Reconnecting.                                                            *)

Watched(s) == \E i \in Sockets : socket[i].shard = s /\ socket[i].state # "free"

RetryInv == TypeOK /\ LostShardsRetry

\* A dial gives the shard a socket, and takes none from another shard.
LEMMA RetryAfterDial ==
    ASSUME RetryInv, NEW s \in Shards, NEW i \in Sockets, Dial(s, i),
           socket[i].state = "free" \/ socket[i].shard = s, UNCHANGED reconnectAttempts
    PROVE  LostShardsRetry'
<1>1. /\ socket'[i] = At(s, "connecting")
      /\ \A k \in Sockets \ {i} : socket'[k] = socket[k]
      /\ \A q \in Shards \ {s} : ws'[q] = ws[q]
  BY DEF Dial, RetryInv, TypeOK
<1>2. Watched(s)'
  BY <1>1 DEF Watched, At
<1>3. ASSUME NEW q \in Shards \ {s}, Watched(q) PROVE Watched(q)'
  BY <1>1, <1>3 DEF Watched
<1> QED BY <1>1, <1>2, <1>3 DEF LostShardsRetry, RetryInv, Watched

\* A socket that changes its state, and is not forgotten, is still its shard's.
LEMMA RetryAfterChange ==
    ASSUME RetryInv, UNCHANGED ws,
           \A k \in Sockets : /\ socket'[k].shard = socket[k].shard
                              /\ socket'[k].state = "free" => socket[k].state = "free",
           \A q \in Shards : \/ reconnectAttempts'[q] = reconnectAttempts[q]
                             \/ Watched(q)
    PROVE  LostShardsRetry'
<1>1. ASSUME NEW q \in Shards, Watched(q) PROVE Watched(q)'
  BY <1>1 DEF Watched
<1> QED BY <1>1 DEF LostShardsRetry, RetryInv, Watched

LEMMA RetryStep == RetryInv /\ [Next]_vars => RetryInv'
<1> SUFFICES ASSUME RetryInv, [Next]_vars PROVE LostShardsRetry'
  BY VortexTypeStep DEF RetryInv
<1> USE DEF RetryInv
<1>1. ASSUME UNCHANGED <<socket, ws, reconnectAttempts>> PROVE LostShardsRetry'
  BY <1>1 DEF LostShardsRetry
<1>2. ASSUME NEW s \in Shards, ShardConnect(s), UNCHANGED reconnectAttempts
      PROVE  LostShardsRetry'
  BY <1>1, <1>2, RetryAfterDial DEF ShardConnect
<1>3. CASE Login
  BY <1>1, <1>3 DEF Login, socketVars
<1>4. CASE Connect
  BY <1>2, <1>4, MaxShardsAssumption DEF Connect, Shards
<1>5. CASE Disconnect
  <2>1. \A k \in Sockets : /\ socket'[k].shard = socket[k].shard
                           /\ socket'[k].state = "free" => socket[k].state = "free"
    BY <1>5 DEF Disconnect, At
  <2>2. UNCHANGED <<ws, reconnectAttempts>>
    BY <1>5 DEF Disconnect
  <2> QED BY <2>1, <2>2, RetryAfterChange
<1>6. ASSUME NEW i \in Sockets, TimerFires(i) PROVE LostShardsRetry'
  <2>1. socket[i].shard \in Shards
    BY DEF TypeOK
  <2> QED BY <1>6, <2>1, RetryAfterDial DEF TimerFires
<1>7. ASSUME NEW i \in Sockets, SocketFails(i) PROVE LostShardsRetry'
  <2>1. \A k \in Sockets : /\ socket'[k].shard = socket[k].shard
                           /\ socket'[k].state = "free" => socket[k].state = "free"
    BY <1>7 DEF SocketFails, At, TypeOK
  <2>2. UNCHANGED <<ws, reconnectAttempts>>
    BY <1>7 DEF SocketFails
  <2> QED BY <2>1, <2>2, RetryAfterChange
<1>8. ASSUME NEW i \in Sockets, SocketCloses(i) PROVE LostShardsRetry'
  <2>1. PICK s \in Shards : s = socket[i].shard
    BY DEF TypeOK
  <2>2. UNCHANGED ws /\ socket[i].state = "closing"
    BY <1>8 DEF SocketCloses
  <2>3. CASE /\ socket' = [socket EXCEPT ![i] = At(s, "timer")]
             /\ reconnectAttempts' = [reconnectAttempts EXCEPT ![s] = @ + 1]
    <3>1. \A k \in Sockets : /\ socket'[k].shard = socket[k].shard
                             /\ socket'[k].state = "free" => socket[k].state = "free"
      BY <2>1, <2>3 DEF At, TypeOK
    <3>2. \A q \in Shards : reconnectAttempts'[q] = reconnectAttempts[q] \/ Watched(q)
      BY <2>1, <2>2, <2>3 DEF Watched, TypeOK
    <3> QED BY <2>2, <3>1, <3>2, RetryAfterChange
  <2>4. CASE /\ ~AttemptsLeft(s)
             /\ socket' = [socket EXCEPT ![i] = Free]
             /\ UNCHANGED reconnectAttempts
    <3>1. reconnectAttempts[s] = MaxReconnectAttempts
      <4>1. reconnectAttempts[s] \in 0 .. MaxReconnectAttempts
        BY DEF TypeOK
      <4> QED BY <2>4, <4>1, MaxReconnectAttemptsAssumption DEF AttemptsLeft
    <3>2. ASSUME NEW q \in Shards \ {s}, Watched(q) PROVE Watched(q)'
      BY <2>1, <2>4, <3>2 DEF Watched, TypeOK
    <3> QED BY <2>2, <2>4, <3>1, <3>2 DEF LostShardsRetry, Watched
  <2> QED BY <1>8, <2>1, <2>3, <2>4 DEF SocketCloses
<1>9. ASSUME NEW i \in Sockets, SocketOpens(i) PROVE LostShardsRetry'
  <2>1. PICK s \in Shards : s = socket[i].shard
    BY DEF TypeOK
  <2>2. /\ UNCHANGED ws
        /\ socket[i].state = "connecting"
        /\ socket' = [socket EXCEPT ![i] = At(s, "open")]
        /\ reconnectAttempts' = [reconnectAttempts EXCEPT ![s] = 0]
    BY <1>9, <2>1 DEF SocketOpens
  <2>3. \A k \in Sockets : /\ socket'[k].shard = socket[k].shard
                           /\ socket'[k].state = "free" => socket[k].state = "free"
    BY <2>1, <2>2 DEF At, TypeOK
  <2>4. \A q \in Shards : reconnectAttempts'[q] = reconnectAttempts[q] \/ Watched(q)
    BY <2>1, <2>2 DEF Watched, TypeOK
  <2> QED BY <2>2, <2>3, <2>4, RetryAfterChange
<1>10. ASSUME NEW ts \in (SUBSET Tokens) \ {{}}, SubscribeFresh(ts) PROVE LostShardsRetry'
  BY <1>1, <1>2, <1>10 DEF SubscribeFresh
<1>11. ASSUME NEW s \in Shards, NEW ts \in (SUBSET Tokens) \ {{}},
              SubscribeRouted(s, ts) \/ Unsubscribe(s, ts)
       PROVE  LostShardsRetry'
  BY <1>1, <1>11 DEF SubscribeRouted, Unsubscribe, socketVars
<1>12. ASSUME NEW j \in Calls, LookupEnds(j) \/ ReleaseEnds(j) PROVE LostShardsRetry'
  BY <1>1, <1>12 DEF LookupEnds, ReleaseEnds, socketVars
<1>13. CASE UNCHANGED vars
  BY <1>1, <1>13 DEF vars, socketVars
<1> QED BY <1>3, <1>4, <1>5, <1>6, <1>7, <1>8, <1>9, <1>10, <1>11, <1>12, <1>13 DEF Next

\* No order of closes, dials and openings strands a shard: it has a socket, a timer, or no
\* attempts left.
THEOREM VortexShardsRetry == Spec => []LostShardsRetry
<1>1. Init => RetryInv
  <2>1. Init => LostShardsRetry
    BY DEF Init, LostShardsRetry
  <2> QED BY <2>1, VortexInit DEF RetryInv
<1>2. RetryInv /\ [Next]_vars => RetryInv'
  BY RetryStep
<1>3. RetryInv => LostShardsRetry
  BY DEF RetryInv
<1> QED BY <1>1, <1>2, <1>3, PTL DEF Spec

-----------------------------------------------------------------------------
(* How tokens are lost.                                                     *)

\* A call that subscribe began and that will subscribe t on s unless something intervenes.
Carries(j, s, t) ==
    /\ call[j].kind \in {"pending", "lookup"}
    /\ call[j].shard = s /\ t \in call[j].tokens

LEMMA InHandBy ==
    ASSUME NEW t \in Tokens
    PROVE  InHand(t) <=> \/ t \in subscribed[tokenToShard[t]]
                         \/ \E j \in Calls : Carries(j, tokenToShard[t], t)
BY DEF InHand, Carries

LEMMA InHandByNext ==
    ASSUME NEW t \in Tokens
    PROVE  InHand(t)' <=> \/ t \in subscribed'[tokenToShard'[t]]
                          \/ \E j \in Calls : /\ call'[j].kind \in {"pending", "lookup"}
                                              /\ call'[j].shard = tokenToShard'[t]
                                              /\ t \in call'[j].tokens
BY DEF InHand

\* What the accepted tokens leave out does not fit.
LEMMA AcceptedLeavesOut ==
    ASSUME TypeOK, NEW s \in Shards, NEW ts \in SUBSET Tokens, NEW A \in Accepted(s, ts),
           NEW t \in ts, t \notin subscribed[s], t \notin A
    PROVE  Cardinality(subscribed[s] \cup ts) > MaxSubscriptions
<1> DEFINE S == subscribed[s]
<1>1. /\ S \in SUBSET Tokens
      /\ A \subseteq ts \ S
      /\ Cardinality(A) = Available(s)
  BY DEF Accepted, TypeOK
<1>2. IsFiniteSet(Tokens)
  BY FiniteAssumption
<1>3. /\ IsFiniteSet(S) /\ IsFiniteSet(A) /\ IsFiniteSet(S \cup A) /\ IsFiniteSet(S \cup ts)
  BY <1>1, <1>2, FS_Subset, S \cup A \subseteq Tokens, S \cup ts \subseteq Tokens
<1>4. /\ Cardinality(S) \in Nat /\ Cardinality(A) \in Nat
      /\ Cardinality(S \cup A) \in Nat /\ Cardinality(S \cup ts) \in Nat
  BY <1>3, FS_CardinalityType
<1>5. Cardinality(S \cup A) = Cardinality(S) + Cardinality(A)
  <2>1. S \cap A = {}
    BY <1>1
  <2>2. Cardinality(S \cup A) = Cardinality(S) + Cardinality(A) - Cardinality(S \cap A)
    BY <1>3, FS_Union
  <2>3. Cardinality(S \cap A) = 0
    BY <2>1, FS_EmptySet
  <2> HIDE DEF S
  <2> QED BY <1>4, <2>2, <2>3
<1>6. Cardinality(S \cup A) < Cardinality(S \cup ts)
  <2>1. S \cup A \subseteq S \cup ts /\ S \cup A # S \cup ts
    BY <1>1
  <2>2. Cardinality(S \cup A) <= Cardinality(S \cup ts)
        /\ (Cardinality(S \cup A) = Cardinality(S \cup ts) => S \cup A = S \cup ts)
    BY <1>3, <2>1, FS_Subset
  <2> QED BY <1>4, <2>1, <2>2
<1>7. MaxSubscriptions \in Nat
  BY MaxSubscriptionsAssumption
<1>8. MaxSubscriptions <= Cardinality(S) + Available(s)
  BY <1>4, <1>7 DEF Available
<1> HIDE DEF S
<1> QED BY <1>1, <1>4, <1>5, <1>6, <1>7, <1>8 DEF S

Lost(t) ==
    /\ tokenToShard[t] \in Shards /\ InHand(t)
    /\ tokenToShard'[t] # NoShard /\ ~InHand(t)'

LossExplained(t) ==
    \E j \in Calls :
        /\ call[j].shard = tokenToShard[t] /\ t \in call[j].tokens
        /\ \/ call[j].kind \in {"lookup", "release"} /\ call'[j] = Idle
           \/ /\ call[j].kind = "pending" /\ call'[j] # call[j]
              /\ Cardinality(subscribed[call[j].shard] \cup call[j].tokens) > MaxSubscriptions

\* Beginning a call loses nothing.
LEMMA CallBegins ==
    ASSUME TypeOK, NEW t \in Tokens, InHand(t), NEW k \in Calls, call[k] = Idle, NEW c,
           call' = [call EXCEPT ![k] = c], tokenToShard'[t] = tokenToShard[t],
           UNCHANGED subscribed
    PROVE  InHand(t)'
<1>1. \A j \in Calls : j # k => call'[j] = call[j]
  BY DEF TypeOK
<1>2. ASSUME NEW j \in Calls, Carries(j, tokenToShard[t], t) PROVE j # k
  BY <1>2 DEF Carries, Idle
<1> QED BY <1>1, <1>2, InHandBy, InHandByNext DEF Carries

LEMMA SubscribeLosesNothing ==
    ASSUME TypeOK, NEW t \in Tokens, InHand(t), NEW s \in Shards, NEW ts,
           ShardSubscribe(s, ts), tokenToShard'[t] = tokenToShard[t], UNCHANGED subscribed
    PROVE  InHand(t)'
<1>1. PICK k \in Calls : call[k] = Idle /\ \E c : call' = [call EXCEPT ![k] = c]
  BY DEF ShardSubscribe
<1> QED BY <1>1, CallBegins

LEMMA FlushLoses ==
    ASSUME TypeOK, NEW s \in Shards, Flush(s), UNCHANGED tokenVars,
           NEW t \in Tokens, Lost(t)
    PROVE  LossExplained(t)
<1>1. PICK taken \in [Calls -> SUBSET Tokens] :
         /\ \A j \in Calls : IF IsPending(j, s) THEN taken[j] \in Accepted(s, call[j].tokens)
                                                ELSE taken[j] = {}
         /\ call' = [j \in Calls |-> IF IsPending(j, s) THEN Lookup(s, taken[j]) ELSE call[j]]
  BY DEF Flush
<1>2. UNCHANGED <<subscribed, tokenToShard>> /\ t \notin subscribed[tokenToShard[t]]
  BY InHandByNext DEF Lost, tokenVars
<1>3. PICK j \in Calls : Carries(j, tokenToShard[t], t)
  BY <1>2, InHandBy DEF Lost
<1>4. ~(/\ call'[j].kind \in {"pending", "lookup"} /\ call'[j].shard = tokenToShard[t]
        /\ t \in call'[j].tokens)
  BY <1>2, InHandByNext DEF Lost
<1>5. IsPending(j, s)
  BY <1>1, <1>3, <1>4 DEF Carries
<1>6. /\ s = tokenToShard[t] /\ t \in call[j].tokens /\ call[j].kind = "pending"
      /\ taken[j] \in Accepted(s, call[j].tokens)
      /\ call'[j] = Lookup(s, taken[j])
  BY <1>1, <1>3, <1>5 DEF Carries, IsPending
<1>7. t \notin taken[j]
  <2> SUFFICES ASSUME t \in taken[j] PROVE FALSE
    OBVIOUS
  <2>1. call'[j] = [kind |-> "lookup", shard |-> s, tokens |-> taken[j]]
    BY <1>6 DEF Lookup
  <2> QED BY <1>4, <1>6, <2>1
<1>8. call'[j] # call[j]
  <2>1. call'[j].kind # "pending"
    BY <1>6 DEF Lookup, Idle
  <2> QED BY <1>6, <2>1
<1>9. call[j].tokens \in SUBSET Tokens
  BY DEF TypeOK
<1>10. Cardinality(subscribed[s] \cup call[j].tokens) > MaxSubscriptions
  BY <1>2, <1>6, <1>7, <1>9, AcceptedLeavesOut
<1> QED BY <1>6, <1>8, <1>10, <1>3 DEF LossExplained, Carries

LEMMA VortexLossStep ==
    ASSUME TypeOK, [Next]_vars, NEW t \in Tokens, Lost(t)
    PROVE  LossExplained(t)
<1>1. ASSUME UNCHANGED <<tokenVars, call>> PROVE FALSE
  BY <1>1, InHandBy, InHandByNext DEF Lost, tokenVars, Carries
<1>2. ~Login /\ ~Connect /\ ~Disconnect /\ ~UNCHANGED vars
  BY <1>1 DEF Login, Connect, Disconnect, vars
<1>3. ASSUME NEW i \in Sockets, TimerFires(i) \/ SocketFails(i) \/ SocketCloses(i) PROVE FALSE
  BY <1>1, <1>3 DEF TimerFires, SocketFails, SocketCloses
<1>4. ASSUME NEW i \in Sockets, SocketOpens(i) PROVE LossExplained(t)
  <2>1. socket[i].shard \in Shards
    BY DEF TypeOK
  <2> QED BY <1>1, <1>4, <2>1, FlushLoses DEF SocketOpens
<1>5. ASSUME NEW s \in Shards, NEW ts \in (SUBSET Tokens) \ {{}}, SubscribeRouted(s, ts)
      PROVE  FALSE
  BY <1>5, SubscribeLosesNothing DEF SubscribeRouted, tokenVars, Lost
<1>6. ASSUME NEW ts \in (SUBSET Tokens) \ {{}}, SubscribeFresh(ts) PROVE FALSE
  <2>1. PICK s \in Shards : ShardSubscribe(s, ts)
    BY <1>6 DEF SubscribeFresh
  <2>2. tokenToShard[t] # NoShard
    BY DEF Lost, NoShard, Shards
  <2>3. tokenToShard'[t] = tokenToShard[t] /\ UNCHANGED subscribed
    BY <1>6, <2>2 DEF SubscribeFresh
  <2> QED BY <2>1, <2>3, SubscribeLosesNothing DEF Lost
<1>7. ASSUME NEW s \in Shards, NEW ts \in (SUBSET Tokens) \ {{}}, Unsubscribe(s, ts)
      PROVE  FALSE
  <2>1. t \notin ts /\ tokenToShard'[t] = tokenToShard[t]
    BY <1>7 DEF Unsubscribe, Lost
  <2>2. CASE Release(s, ts) /\ UNCHANGED call
    <3>1. t \in subscribed[tokenToShard[t]] => t \in subscribed'[tokenToShard[t]]
      BY <2>1, <2>2 DEF Release, TypeOK, Lost
    <3> QED BY <2>1, <2>2, <3>1, InHandBy, InHandByNext DEF Lost, Carries
  <2>3. CASE /\ UNCHANGED subscribed
             /\ \E k \in Calls :
                   /\ call[k] = Idle
                   /\ call' = [call EXCEPT ![k] = [kind |-> "release", shard |-> s, tokens |-> ts]]
    BY <2>1, <2>3, CallBegins DEF Lost
  <2> QED BY <1>7, <2>2, <2>3 DEF Unsubscribe
<1>8. ASSUME NEW k \in Calls, LookupEnds(k) PROVE LossExplained(t)
  <2>1. /\ UNCHANGED tokenToShard
        /\ call[k].kind = "lookup"
        /\ call' = [call EXCEPT ![k] = Idle]
        /\ subscribed[tokenToShard[t]] \subseteq subscribed'[tokenToShard[t]]
    BY <1>8 DEF LookupEnds, TypeOK, Lost
  <2>2. PICK j \in Calls : Carries(j, tokenToShard[t], t)
    BY <2>1, InHandBy, InHandByNext DEF Lost
  <2>3. CASE j = k
    <3>1. call'[k] = Idle
      BY <2>1 DEF TypeOK
    <3> QED BY <2>1, <2>2, <2>3, <3>1 DEF Carries, LossExplained
  <2>4. CASE j # k
    <3>1. call'[j] = call[j]
      BY <2>1, <2>4 DEF TypeOK
    <3> QED BY <2>1, <2>2, <3>1, InHandByNext DEF Carries, Lost
  <2> QED BY <2>3, <2>4
<1>9. ASSUME NEW k \in Calls, ReleaseEnds(k) PROVE LossExplained(t)
  <2>1. /\ UNCHANGED tokenToShard
        /\ call[k].kind = "release"
        /\ call'[k] = Idle
        /\ \A j \in Calls \ {k} : call'[j] = call[j]
    BY <1>9 DEF ReleaseEnds, TypeOK
  <2>2. ASSUME NEW j \in Calls, Carries(j, tokenToShard[t], t) PROVE FALSE
    <3>1. j # k
      BY <2>1, <2>2 DEF Carries
    <3> QED BY <2>1, <2>2, <3>1, InHandByNext DEF Carries, Lost
  <2>3. t \in subscribed[tokenToShard[t]] /\ t \notin subscribed'[tokenToShard[t]]
    BY <2>1, <2>2, InHandBy, InHandByNext DEF Lost
  <2>4. PICK known \in SUBSET call[k].tokens :
           subscribed' = [subscribed EXCEPT ![call[k].shard] = @ \ known]
    BY <1>9 DEF ReleaseEnds, Release
  <2>5. call[k].shard = tokenToShard[t] /\ t \in known
    BY <2>3, <2>4 DEF TypeOK, Lost
  <2> QED BY <2>1, <2>4, <2>5 DEF LossExplained
<1> QED BY <1>2, <1>3, <1>4, <1>5, <1>6, <1>7, <1>8, <1>9 DEF Next

\* A token in hand stays in hand, but for a release of it, the end of a lookup for it, a late
\* release of it and a shard without room for what waited.
THEOREM VortexTokensLostOnlyBy == Spec => TokensLostOnlyBy
<1>1. ASSUME TypeOK, [Next]_vars, NEW t \in Tokens, tokenToShard[t] \in Shards /\ InHand(t)
      PROVE  tokenToShard'[t] = NoShard \/ InHand(t)' \/ LossExplained(t)
  BY <1>1, VortexLossStep DEF Lost
<1>2. TypeOK /\ [Next]_vars =>
         [\A t \in Tokens : tokenToShard[t] \in Shards /\ InHand(t) =>
             \/ tokenToShard'[t] = NoShard
             \/ InHand(t)'
             \/ LossExplained(t)]_vars
  BY <1>1
<1>3. TypeOK /\ [Next]_vars =>
         [\A t \in Tokens : tokenToShard[t] \in Shards /\ InHand(t) =>
          \/ tokenToShard'[t] = NoShard
          \/ InHand(t)'
          \/ \E j \in Calls :
                /\ call[j].shard = tokenToShard[t] /\ t \in call[j].tokens
                /\ \/ call[j].kind \in {"lookup", "release"} /\ call'[j] = Idle
                   \/ /\ call[j].kind = "pending" /\ call'[j] # call[j]
                      /\ Cardinality(subscribed[call[j].shard] \cup call[j].tokens)
                            > MaxSubscriptions]_vars
  BY <1>2 DEF LossExplained
<1> QED BY <1>3, VortexTypeCorrect, PTL DEF Spec, TokensLostOnlyBy

=============================================================================
