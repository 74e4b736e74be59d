---------------------------- MODULE BinanceStream ----------------------------
(***************************************************************************)
(* BinanceStream: the ticker in front of Binance's combined stream, one     *)
(* client object that opens a socket after the other.  The handlers of a    *)
(* socket act on the client whether or not it is still the client's socket. *)
(*                                                                         *)
(* Sockets of the ws library and Binance itself are external: a socket that *)
(* dials opens or closes, close() is followed by 'close' later, and a frame *)
(* sent on an open socket arrives.  'error' is always followed by 'close'   *)
(* and changes nothing here; ticks, acks and logging are left out.          *)
(***************************************************************************)
EXTENDS Integers, FiniteSets

CONSTANTS
    Symbols,
    Cap,           \* BINANCE_MAX_STREAMS_PER_CONNECTION
    MaxAttempts,   \* BINANCE_WS_RECONNECT_MAX_ATTEMPTS
    Sockets,       \* the sockets that may exist at the same time: a bound of the model
    NoSocket

ASSUME SymbolsAssumption == IsFiniteSet(Symbols)
ASSUME LimitsAssumption == Cap \in Nat /\ MaxAttempts \in Nat \ {0}
ASSUME SocketsAssumption == IsFiniteSet(Sockets) /\ NoSocket \notin Sockets

VARIABLES
    ws, isConnected, shouldReconnect, reconnectAttempts, subscribedSymbols,
    timers,        \* how many reconnect timers are pending
    timerHeld,     \* reconnectTimer # null: the youngest of them can be cleared
    socket,        \* readyState of every socket; "closed" is free for the next one
    carried        \* what Binance streams on each socket

linkVars == <<ws, isConnected, shouldReconnect, reconnectAttempts>>
timerVars == <<timers, timerHeld>>
vars == <<linkVars, timerVars, subscribedSymbols, socket, carried>>

TypeOK ==
    /\ ws \in Sockets \cup {NoSocket}
    /\ isConnected \in BOOLEAN
    /\ shouldReconnect \in BOOLEAN
    /\ reconnectAttempts \in 0 .. MaxAttempts
    /\ subscribedSymbols \in SUBSET Symbols
    /\ Cardinality(subscribedSymbols) <= Cap
    /\ timers \in Nat
    /\ timerHeld \in BOOLEAN
    /\ timerHeld => timers > 0
    /\ socket \in [Sockets -> {"closed", "connecting", "open", "closing"}]
    /\ carried \in [Sockets -> SUBSET Symbols]

Init ==
    /\ ws = NoSocket
    /\ isConnected = FALSE
    /\ shouldReconnect = FALSE
    /\ reconnectAttempts = 0
    /\ subscribedSymbols = {}
    /\ timers = 0
    /\ timerHeld = FALSE
    /\ socket = [s \in Sockets |-> "closed"]
    /\ carried = [s \in Sockets |-> {}]

-----------------------------------------------------------------------------
(* connect and disconnect.                                                 *)

Closed == {s \in Sockets : socket[s] = "closed"}

\* openConnection: the socket before this one is not closed, only forgotten.
OpenConnection ==
    \E s \in Closed :
        /\ ws' = s
        /\ socket' = [socket EXCEPT ![s] = "connecting"]

\* The guard keeps a socket of the bound for every pending timer.
Connect ==
    /\ Cardinality(Closed) > timers
    /\ shouldReconnect' = TRUE
    /\ OpenConnection
    /\ UNCHANGED <<isConnected, reconnectAttempts, timerVars, subscribedSymbols, carried>>

Disconnect ==
    /\ shouldReconnect' = FALSE
    /\ timers' = IF timerHeld THEN timers - 1 ELSE timers
    /\ timerHeld' = FALSE
    /\ ws' = NoSocket
    /\ socket' = [s \in Sockets |->
          IF s = ws /\ socket[s] \in {"connecting", "open"} THEN "closing" ELSE socket[s]]
    /\ isConnected' = FALSE
    /\ UNCHANGED <<reconnectAttempts, subscribedSymbols, carried>>

-----------------------------------------------------------------------------
(* Events of a socket, the client's own or one it has forgotten.           *)

\* What Binance streams on the client's socket once it was sent SUBSCRIBE for symbols.
Sent(state, symbols) ==
    [s \in Sockets |-> IF s = ws /\ state[s] = "open" THEN carried[s] \cup symbols
                       ELSE carried[s]]

\* faulty: only a first connection is told what is subscribed
OpenedForFirstTime(s) ==
    /\ socket[s] = "connecting"
    /\ socket' = [socket EXCEPT ![s] = "open"]
    /\ isConnected' = TRUE
    /\ reconnectAttempts' = 0
    /\ carried' = IF reconnectAttempts = 0 THEN Sent(socket', subscribedSymbols) ELSE carried
    /\ UNCHANGED <<ws, shouldReconnect, timerVars, subscribedSymbols>>
\* The 'open' handler.
Opened(s) ==
    /\ socket[s] = "connecting"
    /\ socket' = [socket EXCEPT ![s] = "open"]
    /\ isConnected' = TRUE
    /\ reconnectAttempts' = 0
    /\ carried' = Sent(socket', subscribedSymbols)
    /\ UNCHANGED <<ws, shouldReconnect, timerVars, subscribedSymbols>>

\* faulty: only a connection that had been up is dialled again
ScheduleReconnectIfWasConnected ==
    IF shouldReconnect /\ reconnectAttempts < MaxAttempts /\ isConnected
    THEN /\ reconnectAttempts' = reconnectAttempts + 1
         /\ timers' = timers + 1
         /\ timerHeld' = TRUE
    ELSE UNCHANGED <<reconnectAttempts, timerVars>>
\* faulty: the attempts are compared after they were raised
ScheduleReconnectOneMore ==
    IF shouldReconnect /\ reconnectAttempts <= MaxAttempts
    THEN /\ reconnectAttempts' = reconnectAttempts + 1
         /\ timers' = timers + 1
         /\ timerHeld' = TRUE
    ELSE UNCHANGED <<reconnectAttempts, timerVars>>
ScheduleReconnect ==
    IF shouldReconnect /\ reconnectAttempts < MaxAttempts
    THEN /\ reconnectAttempts' = reconnectAttempts + 1
         /\ timers' = timers + 1
         /\ timerHeld' = TRUE
    ELSE UNCHANGED <<reconnectAttempts, timerVars>>

\* The 'close' handler.
SocketCloses(s) ==
    /\ socket[s] # "closed"
    /\ socket' = [socket EXCEPT ![s] = "closed"]
    /\ carried' = [carried EXCEPT ![s] = {}]
    /\ isConnected' = FALSE
    /\ ScheduleReconnect
    /\ UNCHANGED <<ws, shouldReconnect, subscribedSymbols>>

\* Binance begins to close: readyState is CLOSING before 'close' is emitted.
PeerCloses(s) ==
    /\ socket[s] = "open"
    /\ socket' = [socket EXCEPT ![s] = "closing"]
    /\ UNCHANGED <<linkVars, timerVars, subscribedSymbols, carried>>

\* A reconnect timer: it asks neither shouldReconnect nor the present socket, and it
\* forgets the handle even when that belongs to a younger timer.
TimerFires ==
    /\ timers > 0
    /\ timers' = timers - 1
    /\ timerHeld' = FALSE
    /\ OpenConnection
    /\ UNCHANGED <<isConnected, shouldReconnect, reconnectAttempts, subscribedSymbols, carried>>

-----------------------------------------------------------------------------
(* subscribe and unsubscribe.                                              *)

Speaks == isConnected /\ ws # NoSocket /\ socket[ws] = "open"

\* faulty: the cap is left to Binance
NotTruncated(symbols) == {symbols}
\* What is left of symbols after the overflow was cut off their end; a symbol that is
\* subscribed already counts like a new one.
Truncated(symbols) ==
    LET overflow == Cardinality(subscribedSymbols) + Cardinality(symbols) - Cap
    IN  IF overflow > 0
        THEN {kept \in SUBSET symbols : Cardinality(kept) = Cardinality(symbols) - overflow}
        ELSE {symbols}

SubscribeTo(kept) ==
    /\ subscribedSymbols' = subscribedSymbols \cup kept
    /\ carried' = IF Speaks THEN Sent(socket, kept) ELSE carried
    /\ UNCHANGED <<linkVars, timerVars, socket>>

Subscribe(symbols) == \E kept \in Truncated(symbols) : SubscribeTo(kept)

Unsubscribe(symbols) ==
    LET released == symbols \cap subscribedSymbols
    IN  /\ released # {}
        /\ subscribedSymbols' = subscribedSymbols \ released
        /\ carried' = IF Speaks THEN [carried EXCEPT ![ws] = @ \ released] ELSE carried
        /\ UNCHANGED <<linkVars, timerVars, socket>>

-----------------------------------------------------------------------------
Next ==
    \/ Connect
    \/ Disconnect
    \/ TimerFires
    \/ \E s \in Sockets : Opened(s) \/ SocketCloses(s) \/ PeerCloses(s)
    \/ \E symbols \in (SUBSET Symbols) \ {{}} : Subscribe(symbols) \/ Unsubscribe(symbols)

\* Timers fire, and a socket that dials or closes comes to an end of it.
Fairness ==
    /\ WF_vars(TimerFires)
    /\ \A s \in Sockets : WF_vars(socket[s] \in {"connecting", "closing"}
                                    /\ (Opened(s) \/ SocketCloses(s)))

Spec == Init /\ [][Next]_vars /\ Fairness

-----------------------------------------------------------------------------
(* Properties.                                                             *)

\* While the client calls itself connected and its socket is open, Binance streams on it
\* everything that is subscribed, whatever other sockets opened or closed in between and
\* whatever was subscribed while the client thought itself down.
NothingMissing == Speaks => subscribedSymbols \subseteq carried[ws]

\* The flag is backed by a socket, and a client that should be connected but has no socket
\* left is waiting for a timer or has used up its attempts.
ConnectedHasSocket == isConnected => \E s \in Sockets : socket[s] \in {"open", "closing"}
LostIsRetried ==
    shouldReconnect /\ Closed = Sockets => timers > 0 \/ reconnectAttempts = MaxAttempts
LinkIsBacked == ConnectedHasSocket /\ LostIsRetried

\* The client keeps the contract of a ticker that reconnects by itself.
Link == INSTANCE TickerLink WITH
    Budget <- MaxAttempts, wanted <- shouldReconnect, up <- isConnected,
    spent <- reconnectAttempts
ImplementsLink == Link!Spec

=============================================================================
