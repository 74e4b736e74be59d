------------------------- MODULE VortexShardedTicker -------------------------
(***************************************************************************)
(* VortexShardedTicker over its VortexWebSocketShards: sockets that are    *)
(* dialled, replaced and redialled, instruments routed to shards, and      *)
(* subscriptions that wait for a socket or for a lookup of their exchange. *)
(*                                                                         *)
(* The `ws` socket is external: readyState changes before 'close' is       *)
(* emitted, and a socket that connect() has replaced keeps its handlers.   *)
(* Modes are left out: an upgrade only repeats a subscribe frame.          *)
(* exchangeByToken always has what `subscribed` has (they are written and   *)
(* deleted together), so resubscription never waits; whether it has other  *)
(* tokens is a choice.  A call over tokens of several shards is one step   *)
(* per shard, which none of its parts can tell.                            *)
(***************************************************************************)
EXTENDS Integers, FiniteSets

CONSTANTS
    MaxShards,
    MaxSubscriptions,       \* maxSubscriptionsPerSocket
    MaxReconnectAttempts,
    Tokens,
    NoSocket,   \* ws = null
    Sockets,    \* bound: sockets and reconnect timers at one time
    Calls       \* bound: subscribe and unsubscribe calls unfinished at one time

ASSUME MaxShardsAssumption == MaxShards \in Nat \ {0}
ASSUME MaxSubscriptionsAssumption == MaxSubscriptions \in Nat \ {0}
ASSUME MaxReconnectAttemptsAssumption == MaxReconnectAttempts \in Nat
ASSUME NoSocketAssumption == NoSocket \notin Sockets
ASSUME FiniteAssumption == IsFiniteSet(Tokens) /\ IsFiniteSet(Sockets)

Shards == 1 .. MaxShards
NoShard == 0

VARIABLES
    loggedIn,       \* the provider has an access token
    socket,         \* readyState and shard of every socket; "timer" for a reconnect timer
    ws,             \* the shard's current socket
    upstream,       \* what the session of the current socket streams
    reconnectAttempts,
    subscribed,
    tokenToShard,
    call,           \* unfinished subscribe and unsubscribe calls
    connected       \* wsConnected of the provider, aggregateConnectEmitted

socketVars == <<socket, ws, reconnectAttempts, connected>>
tokenVars == <<subscribed, tokenToShard>>
vars == <<loggedIn, socketVars, upstream, tokenVars, call>>

Free == [shard |-> 1, state |-> "free"]
Idle == [kind |-> "none", shard |-> 1, tokens |-> {}]

TypeOK ==
    /\ loggedIn \in BOOLEAN
    /\ socket \in [Sockets -> [shard : Shards,
                               state : {"free", "timer", "connecting", "open", "closing"}]]
    /\ ws \in [Shards -> Sockets \cup {NoSocket}]
    /\ upstream \in [Shards -> SUBSET Tokens]
    /\ reconnectAttempts \in [Shards -> 0 .. MaxReconnectAttempts]
    /\ subscribed \in [Shards -> SUBSET Tokens]
    /\ tokenToShard \in [Tokens -> Shards \cup {NoShard}]
    /\ call \in [Calls -> [kind : {"none", "pending", "lookup", "release"},
                           shard : Shards, tokens : SUBSET Tokens]]
    /\ connected \in BOOLEAN

Init ==
    /\ loggedIn = FALSE
    /\ socket = [i \in Sockets |-> Free]
    /\ ws = [s \in Shards |-> NoSocket]
    /\ upstream = [s \in Shards |-> {}]
    /\ reconnectAttempts = [s \in Shards |-> 0]
    /\ subscribed = [s \in Shards |-> {}]
    /\ tokenToShard = [t \in Tokens |-> NoShard]
    /\ call = [j \in Calls |-> Idle]
    /\ connected = FALSE

-----------------------------------------------------------------------------
(* Sockets.                                                                *)

At(s, state) == [shard |-> s, state |-> state]

IsOpen(sockets, s) == ws[s] \in Sockets /\ sockets[ws[s]] = At(s, "open")
IsConnected(s) == IsOpen(socket, s)

AnyOpenButLast(sockets) == \E s \in Shards \ {MaxShards} : IsOpen(sockets, s)    \* faulty
AnyOpen(sockets) == \E s \in Shards : IsOpen(sockets, s)

\* new WebSocket(url) becomes the current socket, whatever that is doing.
Dial(s, i) ==
    /\ socket' = [socket EXCEPT ![i] = At(s, "connecting")]
    /\ ws' = [ws EXCEPT ![s] = i]
    /\ upstream' = [upstream EXCEPT ![s] = {}]

\* connect(), which returns without an access token.
ShardConnect(s) ==
    \/ /\ loggedIn
       /\ \E i \in Sockets : socket[i].state = "free" /\ Dial(s, i)
    \/ /\ ~loggedIn
       /\ UNCHANGED <<socket, ws, upstream>>

Login ==
    /\ ~loggedIn
    /\ loggedIn' = TRUE
    /\ UNCHANGED <<socketVars, upstream, tokenVars, call>>

\* The facade dials its first shard only.
Connect ==
    /\ ShardConnect(1)
    /\ UNCHANGED <<loggedIn, reconnectAttempts, connected, tokenVars, call>>

\* Every shard closes its current socket.
Disconnect ==
    /\ socket' = [i \in Sockets |->
           IF ws[socket[i].shard] = i /\ socket[i].state \in {"connecting", "open"}
           THEN At(socket[i].shard, "closing") ELSE socket[i]]
    /\ upstream' = [s \in Shards |-> {}]
    /\ UNCHANGED <<loggedIn, ws, reconnectAttempts, connected, tokenVars, call>>

TimerFires(i) ==
    /\ socket[i].state = "timer"
    /\ Dial(socket[i].shard, i)
    /\ UNCHANGED <<loggedIn, reconnectAttempts, connected, tokenVars, call>>

\* The peer, the network or the heartbeat's terminate() ends a socket.
SocketFails(i) ==
    LET s == socket[i].shard
    IN  /\ socket[i].state \in {"connecting", "open"}
        /\ socket' = [socket EXCEPT ![i] = At(s, "closing")]
        /\ upstream' = [upstream EXCEPT ![s] = IF ws[s] = i THEN {} ELSE @]
        /\ UNCHANGED <<loggedIn, ws, reconnectAttempts, connected, tokenVars, call>>

AttemptsLeftOneMore(s) == reconnectAttempts[s] <= MaxReconnectAttempts         \* faulty
AttemptsLeftOneShort(s) == reconnectAttempts[s] + 1 < MaxReconnectAttempts    \* faulty
AttemptsLeft(s) == reconnectAttempts[s] < MaxReconnectAttempts

\* 'close' of any socket of the shard, current or replaced, intended or not; then
\* scheduleReconnect.
SocketCloses(i) ==
    LET s == socket[i].shard
    IN  /\ socket[i].state = "closing"
        /\ \/ /\ AttemptsLeft(s)
              /\ socket' = [socket EXCEPT ![i] = At(s, "timer")]
              /\ reconnectAttempts' = [reconnectAttempts EXCEPT ![s] = @ + 1]
           \/ /\ ~AttemptsLeft(s)
              /\ socket' = [socket EXCEPT ![i] = Free]
              /\ UNCHANGED reconnectAttempts
        /\ connected' = AnyOpen(socket')
        /\ UNCHANGED <<loggedIn, ws, upstream, tokenVars, call>>

-----------------------------------------------------------------------------
(* Subscriptions.                                                          *)

Available(s) == IF Cardinality(subscribed[s]) < MaxSubscriptions
                THEN MaxSubscriptions - Cardinality(subscribed[s]) ELSE 0

\* What a subscribe on an open socket looks up: as many new tokens as there is room for
\* beside those already subscribed, which leaves out what other lookups will add.
Accepted(s, ts) ==
    {A \in SUBSET (ts \ subscribed[s]) :
        /\ Cardinality(A) <= Available(s)
        /\ A = ts \ subscribed[s] \/ Cardinality(A) = Available(s)}

Lookup(s, ts) == IF ts = {} THEN Idle ELSE [kind |-> "lookup", shard |-> s, tokens |-> ts]

IsPending(j, s) == call[j].kind = "pending" /\ call[j].shard = s

\* flushPendingSubscribe.
FlushForgetting(s) ==    \* faulty: the batches are taken out and not subscribed
    call' = [j \in Calls |-> IF IsPending(j, s) THEN Idle ELSE call[j]]
Flush(s) ==
    \E taken \in [Calls -> SUBSET Tokens] :
        /\ \A j \in Calls : IF IsPending(j, s) THEN taken[j] \in Accepted(s, call[j].tokens)
                                               ELSE taken[j] = {}
        /\ call' = [j \in Calls |-> IF IsPending(j, s) THEN Lookup(s, taken[j]) ELSE call[j]]

ResubscribedPendingOnly(s) == upstream[s]    \* faulty: resubscribeAll is forgotten
Resubscribed(s) == upstream[s] \cup subscribed[s]

\* 'open' of any socket of the shard; frames go to the current one.
SocketOpens(i) ==
    LET s == socket[i].shard
    IN  /\ socket[i].state = "connecting"
        /\ socket' = [socket EXCEPT ![i] = At(s, "open")]
        /\ reconnectAttempts' = [reconnectAttempts EXCEPT ![s] = 0]
        /\ connected' = AnyOpen(socket')
        /\ \/ /\ IsOpen(socket', s)
              /\ upstream' = [upstream EXCEPT ![s] = Resubscribed(s)]
              /\ Flush(s)
           \/ /\ ~IsOpen(socket', s)
              /\ UNCHANGED <<upstream, call>>
        /\ UNCHANGED <<loggedIn, ws, tokenVars>>

\* subscribe of a shard: it waits for the socket, or looks up the exchanges.
ShardSubscribe(s, ts) ==
    \E j \in Calls :
        /\ call[j] = Idle
        /\ \/ /\ ~IsConnected(s)
              /\ call' = [call EXCEPT ![j] = [kind |-> "pending", shard |-> s, tokens |-> ts]]
           \/ /\ IsConnected(s)
              /\ \E A \in Accepted(s, ts) : call' = [call EXCEPT ![j] = Lookup(s, A)]

\* Tokens that are routed already.
SubscribeRouted(s, ts) ==
    /\ \A t \in ts : tokenToShard[t] = s
    /\ ShardSubscribe(s, ts)
    /\ UNCHANGED <<loggedIn, socketVars, upstream, tokenVars>>

\* pickShardForNewToken: the first shard with room, counted once for all of them.
HasRoom(s) == Cardinality(subscribed[s]) < MaxSubscriptions

SubscribeFresh(ts) ==
    /\ \A t \in ts : tokenToShard[t] = NoShard
    /\ \E s \in Shards :
          /\ HasRoom(s) /\ \A q \in 1 .. (s - 1) : ~HasRoom(q)
          /\ tokenToShard' = [t \in Tokens |-> IF t \in ts THEN s ELSE tokenToShard[t]]
          /\ ShardSubscribe(s, ts)
          /\ \/ /\ IsConnected(s)
                /\ UNCHANGED <<socket, ws, upstream>>
             \/ /\ ~IsConnected(s)
                /\ ShardConnect(s)
    /\ UNCHANGED <<loggedIn, reconnectAttempts, connected, subscribed>>

\* runNewSubscribes after its lookup: frames for the tokens whose exchange is known, or
\* nothing if the lookup failed or the socket is not open any more.
LookupEnds(j) ==
    LET s == call[j].shard
    IN  /\ call[j].kind = "lookup"
        /\ call' = [call EXCEPT ![j] = Idle]
        /\ \/ /\ IsConnected(s)
              /\ \E known \in SUBSET call[j].tokens :
                    /\ subscribed' = [subscribed EXCEPT ![s] = @ \cup known]
                    /\ upstream' = [upstream EXCEPT ![s] = @ \cup known]
           \/ /\ ~IsConnected(s)
              /\ UNCHANGED <<subscribed, upstream>>
        /\ UNCHANGED <<loggedIn, socketVars, tokenToShard>>

\* Frames for the tokens whose exchange is known, which are then forgotten.
Release(s, ts) ==
    /\ subscribed' = [subscribed EXCEPT ![s] = @ \ ts]
    /\ upstream' = [upstream EXCEPT ![s] = @ \ ts]

\* unsubscribe: at once if all exchanges are known, after a lookup if not.
Unsubscribe(s, ts) ==
    /\ \A t \in ts : tokenToShard[t] = s
    /\ tokenToShard' = [t \in Tokens |-> IF t \in ts THEN NoShard ELSE tokenToShard[t]]
    /\ \/ /\ Release(s, ts)
          /\ UNCHANGED call
       \/ /\ ~(ts \subseteq subscribed[s])
          /\ \E j \in Calls :
                /\ call[j] = Idle
                /\ call' = [call EXCEPT ![j] = [kind |-> "release", shard |-> s, tokens |-> ts]]
          /\ UNCHANGED <<subscribed, upstream>>
    /\ UNCHANGED <<loggedIn, socketVars>>

ReleaseEnds(j) ==
    /\ call[j].kind = "release"
    /\ call' = [call EXCEPT ![j] = Idle]
    /\ \E known \in SUBSET call[j].tokens :
          /\ call[j].tokens \cap subscribed[call[j].shard] \subseteq known
          /\ Release(call[j].shard, known)
    /\ UNCHANGED <<loggedIn, socketVars, tokenToShard>>

-----------------------------------------------------------------------------
Next ==
    \/ Login
    \/ Connect
    \/ Disconnect
    \/ \E i \in Sockets :
          TimerFires(i) \/ SocketFails(i) \/ SocketCloses(i) \/ SocketOpens(i)
    \/ \E s \in Shards, ts \in (SUBSET Tokens) \ {{}} :
          SubscribeRouted(s, ts) \/ Unsubscribe(s, ts)
    \/ \E ts \in (SUBSET Tokens) \ {{}} : SubscribeFresh(ts)
    \/ \E j \in Calls : LookupEnds(j) \/ ReleaseEnds(j)

Spec == Init /\ [][Next]_vars

-----------------------------------------------------------------------------
(* Properties.                                                             *)

\* The open session of a shard streams exactly the tokens the shard believes subscribed,
\* after any sequence of replaced sockets, reconnects, late lookups and late releases.
SessionsMirrorShards ==
    \A s \in Shards : upstream[s] = IF IsConnected(s) THEN subscribed[s] ELSE {}

\* The provider calls itself connected whenever a shard is, and only while some socket's
\* 'close' is still to come.
ConnectedIsTrue ==
    /\ (\E s \in Shards : IsConnected(s)) => connected
    /\ connected => \E i \in Sockets : socket[i].state \in {"open", "closing"}

\* A shard that was ever dialled has a socket whose end will be noticed or a reconnect
\* timer, unless all its attempts are used up.
LostShardsRetry ==
    \A s \in Shards :
        \/ ws[s] = NoSocket
        \/ reconnectAttempts[s] = MaxReconnectAttempts
        \/ \E i \in Sockets : socket[i].shard = s /\ socket[i].state # "free"

\* A token that is routed is subscribed, or a call is on its way to subscribe it ...
InHand(t) ==
    LET s == tokenToShard[t]
    IN  \/ t \in subscribed[s]
        \/ \E j \in Calls : /\ call[j].kind \in {"pending", "lookup"}
                            /\ call[j].shard = s /\ t \in call[j].tokens

\* ... and it is lost only when it is released, when a lookup for it ends (unresolved, or
\* with the socket gone), when the lookup of an earlier release ends, or when what waited
\* for the socket does not fit the shard.
TokensLostOnlyBy ==
    [][\A t \in Tokens : tokenToShard[t] \in Shards /\ InHand(t) =>
          \/ tokenToShard'[t] = NoShard
          \/ InHand(t)'
          \/ \E j \in Calls :
                /\ call[j].shard = tokenToShard[t] /\ t \in call[j].tokens
                /\ \/ call[j].kind \in {"lookup", "release"} /\ call'[j] = Idle
                   \/ /\ call[j].kind = "pending" /\ call'[j] # call[j]
                      /\ Cardinality(subscribed[call[j].shard] \cup call[j].tokens)
                            > MaxSubscriptions]_vars

=============================================================================
