---------------------------- MODULE MassiveStream ----------------------------
(***************************************************************************)
(* MassiveStream: one client per asset class behind one ticker.  A client   *)
(* dials, is greeted, authenticates and is then told its subscriptions;     *)
(* when Massive refuses the key, the ticker polls over REST instead.  The   *)
(* handlers of a socket act on the client whether or not it is still the    *)
(* client's socket.                                                        *)
(*                                                                         *)
(* Sockets of the ws library and Massive are external: a socket that dials  *)
(* opens or closes, close() is followed by 'close' later, a message may     *)
(* still arrive in between, sending on a socket that dials throws, which    *)
(* nothing catches, and Massive may refuse the key on one feed and accept   *)
(* it on another.  isConnected is left out: it always equals                *)
(* isAuthenticated.  So are ticks, and errors other than a refusal.         *)
(***************************************************************************)
EXTENDS Integers, FiniteSets, FiniteSetsExt, Functions

CONSTANTS
    Classes,       \* the asset classes with a client of their own
    Symbols,
    ClassOf,       \* classifyMassiveSymbol
    MaxAttempts,   \* maxReconnectAttempts
    MaxAuthTimers, \* bound on the authentication timeouts pending at one client
    Sockets,       \* the sockets that may exist at the same time: a bound of the model
    NoSocket

ASSUME ClassesAssumption ==
    /\ Classes \subseteq {"stocks", "forex", "crypto"}
    /\ ClassOf \in [Symbols -> Classes]
ASSUME LimitsAssumption == MaxAttempts \in Nat \ {0} /\ MaxAuthTimers \in Nat
ASSUME SocketsAssumption == IsFiniteSet(Sockets) /\ NoSocket \notin Sockets

NoClass == "none"    \* owner of a socket that is closed

VARIABLES
    (* MassiveWebSocketClient, one of each class *)
    ws, isAuthenticated, shouldReconnect, reconnectAttempts, subscribedSymbols,
    timers,        \* how many reconnect timers are pending
    timerHeld,     \* reconnectTimer # null: the youngest of them can be cleared
    authTimers,    \* how many authentication timeouts are pending
    authTimerHeld, \* the youngest of them can be cleared
    timedOut,      \* handleAuthTimeout has run since connect()
    (* the sockets and Massive's side of them *)
    socket, owner, auth,
    carried,       \* the symbols of which all channels are streamed on a socket
    (* MassiveMultiStreamClient and MassiveProviderService *)
    started,       \* the last call of the ticker was connect(), not disconnect()
    isPollingActive

linkVars == <<ws, isAuthenticated, shouldReconnect, reconnectAttempts, timedOut>>
timerVars == <<timers, timerHeld>>
authTimerVars == <<authTimers, authTimerHeld>>
tickerVars == <<started, isPollingActive>>
vars == <<linkVars, timerVars, authTimerVars, subscribedSymbols,
          socket, owner, auth, carried, tickerVars>>

TypeOK ==
    /\ ws \in [Classes -> Sockets \cup {NoSocket}]
    /\ isAuthenticated \in [Classes -> BOOLEAN]
    /\ shouldReconnect \in [Classes -> BOOLEAN]
    /\ reconnectAttempts \in [Classes -> 0 .. MaxAttempts]
    /\ subscribedSymbols \in [Classes -> SUBSET Symbols]
    /\ timers \in [Classes -> Nat] /\ timerHeld \in [Classes -> BOOLEAN]
    /\ authTimers \in [Classes -> Nat] /\ authTimerHeld \in [Classes -> BOOLEAN]
    /\ timedOut \in [Classes -> BOOLEAN]
    /\ socket \in [Sockets -> {"closed", "connecting", "open", "closing"}]
    /\ owner \in [Sockets -> Classes \cup {NoClass}]
    /\ auth \in [Sockets -> {"none", "asked", "accepted", "refused"}]
    /\ carried \in [Sockets -> SUBSET Symbols]
    /\ started \in BOOLEAN /\ isPollingActive \in BOOLEAN

Nothing == [c \in Classes |-> FALSE]
Zero == [c \in Classes |-> 0]

Init ==
    /\ ws = [c \in Classes |-> NoSocket]
    /\ isAuthenticated = Nothing /\ shouldReconnect = Nothing
    /\ reconnectAttempts = Zero
    /\ subscribedSymbols = [c \in Classes |-> {}]
    /\ timers = Zero /\ timerHeld = Nothing
    /\ authTimers = Zero /\ authTimerHeld = Nothing
    /\ timedOut = Nothing
    /\ socket = [s \in Sockets |-> "closed"]
    /\ owner = [s \in Sockets |-> NoClass]
    /\ auth = [s \in Sockets |-> "none"]
    /\ carried = [s \in Sockets |-> {}]
    /\ started = FALSE /\ isPollingActive = FALSE

-----------------------------------------------------------------------------
(* connect and disconnect.                                                 *)

Closed == {s \in Sockets : socket[s] = "closed"}
Pending == MapThenSumSet(LAMBDA c : timers[c], Classes)
Cleared(count, held) == [c \in Classes |-> IF held[c] THEN count[c] - 1 ELSE count[c]]

\* openConnection of the clients in dialling: the sockets they had are forgotten, not closed.
OpenConnections(dialling) ==
    \E next \in Injection(dialling, Closed) :
        LET opened == Range(next)
        IN  /\ ws' = [c \in Classes |-> IF c \in dialling THEN next[c] ELSE ws[c]]
            /\ socket' = [s \in Sockets |-> IF s \in opened THEN "connecting" ELSE socket[s]]
            /\ owner' = [s \in Sockets |->
                  IF s \in opened THEN CHOOSE c \in dialling : next[c] = s ELSE owner[s]]

\* The guard keeps a socket of the bound for every pending timer.
Connect ==
    /\ Cardinality(Closed) >= Cardinality(Classes) + Pending
    /\ shouldReconnect' = [c \in Classes |-> TRUE]
    /\ timedOut' = Nothing
    /\ started' = TRUE
    /\ OpenConnections(Classes)
    /\ UNCHANGED <<isAuthenticated, reconnectAttempts, subscribedSymbols, timerVars,
                   authTimerVars, auth, carried, isPollingActive>>

\* disconnect().  New credentials do the same to a ticker that isWsConnected(), and connect
\* it again 100 ms later, which nothing calls off: a Connect like any other.
Disconnect ==
    /\ shouldReconnect' = Nothing
    /\ isAuthenticated' = Nothing
    /\ timers' = Cleared(timers, timerHeld) /\ timerHeld' = Nothing
    /\ authTimers' = Cleared(authTimers, authTimerHeld) /\ authTimerHeld' = Nothing
    /\ ws' = [c \in Classes |-> NoSocket]
    /\ socket' = [s \in Sockets |->
          IF socket[s] \in {"connecting", "open"} /\ \E c \in Classes : ws[c] = s
          THEN "closing" ELSE socket[s]]
    /\ started' = FALSE
    /\ isPollingActive' = FALSE
    /\ UNCHANGED <<reconnectAttempts, timedOut, subscribedSymbols, owner, auth,
                   carried>>

-----------------------------------------------------------------------------
(* Timers.                                                                 *)

\* A reconnect timer: it asks neither shouldReconnect nor the present socket, and it
\* forgets the handle even when that belongs to a younger timer.
TimerFires(c) ==
    /\ timers[c] > 0
    /\ timers' = [timers EXCEPT ![c] = @ - 1]
    /\ timerHeld' = [timerHeld EXCEPT ![c] = FALSE]
    /\ OpenConnections({c})
    /\ UNCHANGED <<isAuthenticated, shouldReconnect, reconnectAttempts, timedOut,
                   subscribedSymbols, authTimerVars, auth, carried, tickerVars>>

\* handleAuthTimeout, of the youngest 'open' or of one whose handle was overwritten.  The
\* scheduleReconnect at its end does nothing, for shouldReconnect is cleared before it.
AuthTimeout(c) ==
    /\ \/ authTimerHeld[c] /\ authTimerHeld' = [authTimerHeld EXCEPT ![c] = FALSE]
       \/ /\ authTimers[c] > IF authTimerHeld[c] THEN 1 ELSE 0
          /\ UNCHANGED authTimerHeld
    /\ authTimers' = [authTimers EXCEPT ![c] = @ - 1]
    /\ shouldReconnect' = [shouldReconnect EXCEPT ![c] = FALSE]
    /\ timedOut' = [timedOut EXCEPT ![c] = TRUE]
    /\ UNCHANGED <<ws, isAuthenticated, reconnectAttempts, subscribedSymbols, timerVars,
                   socket, owner, auth, carried, tickerVars>>

ClearAuthTimeout(c) ==
    /\ authTimers' = [authTimers EXCEPT ![c] = IF authTimerHeld[c] THEN @ - 1 ELSE @]
    /\ authTimerHeld' = [authTimerHeld EXCEPT ![c] = FALSE]

\* faulty: a client that was told to stop dials again
ScheduleReconnectAlways(c) ==
    IF reconnectAttempts[c] < MaxAttempts
    THEN /\ reconnectAttempts' = [reconnectAttempts EXCEPT ![c] = @ + 1]
         /\ timers' = [timers EXCEPT ![c] = @ + 1]
         /\ timerHeld' = [timerHeld EXCEPT ![c] = TRUE]
    ELSE UNCHANGED <<reconnectAttempts, timerVars>>
ScheduleReconnect(c) ==
    IF shouldReconnect[c] /\ reconnectAttempts[c] < MaxAttempts
    THEN /\ reconnectAttempts' = [reconnectAttempts EXCEPT ![c] = @ + 1]
         /\ timers' = [timers EXCEPT ![c] = @ + 1]
         /\ timerHeld' = [timerHeld EXCEPT ![c] = TRUE]
    ELSE UNCHANGED <<reconnectAttempts, timerVars>>

-----------------------------------------------------------------------------
(* Events of a socket, the client's own or one it has forgotten.           *)

Alive(s) == socket[s] \in {"open", "closing"}

\* 'open'; the bound is on the timers a client has lost the handle of.
Opened(s) ==
    LET c == owner[s]
    IN  /\ socket[s] = "connecting"
        /\ authTimers[c] < MaxAuthTimers
        /\ socket' = [socket EXCEPT ![s] = "open"]
        /\ authTimers' = [authTimers EXCEPT ![c] = @ + 1]
        /\ authTimerHeld' = [authTimerHeld EXCEPT ![c] = TRUE]
        /\ UNCHANGED <<linkVars, timerVars, subscribedSymbols, owner, auth, carried,
                       tickerVars>>

\* 'close'; a reference to a closed socket is as good as none
SocketCloses(s) ==
    LET c == owner[s]
    IN  /\ socket[s] # "closed"
        /\ socket' = [socket EXCEPT ![s] = "closed"]
        /\ auth' = [auth EXCEPT ![s] = "none"]
        /\ carried' = [carried EXCEPT ![s] = {}]
        /\ isAuthenticated' = [isAuthenticated EXCEPT ![c] = FALSE]
        /\ ClearAuthTimeout(c)
        /\ ScheduleReconnect(c)
        /\ ws' = [ws EXCEPT ![c] = IF @ = s THEN NoSocket ELSE @]
        /\ owner' = [owner EXCEPT ![s] = NoClass]
        /\ UNCHANGED <<shouldReconnect, timedOut, subscribedSymbols, started, isPollingActive>>

\* Massive begins to close: readyState is CLOSING before 'close' is emitted.
PeerCloses(s) ==
    /\ socket[s] = "open"
    /\ socket' = [socket EXCEPT ![s] = "closing"]
    /\ UNCHANGED <<linkVars, timerVars, authTimerVars, subscribedSymbols, owner,
                   auth, carried, tickerVars>>

\* Status 'connected' on any socket makes the client authenticate on its present one.
Greeted(s) ==
    LET now == ws[owner[s]]
    IN  /\ Alive(s)
        /\ now # NoSocket => socket[now] # "connecting"
        /\ auth' = IF now # NoSocket /\ socket[now] = "open" /\ auth[now] = "none"
                   THEN [auth EXCEPT ![now] = "asked"] ELSE auth
        /\ UNCHANGED <<linkVars, timerVars, authTimerVars, subscribedSymbols, socket, owner,
                       carried, tickerVars>>

\* That send throws while the present socket still dials, and ends the process.
GreetedTooEarly(s) ==
    /\ Alive(s)
    /\ ws[owner[s]] # NoSocket /\ socket[ws[owner[s]]] = "connecting"
    /\ ws' = [c \in Classes |-> NoSocket]
    /\ isAuthenticated' = Nothing /\ shouldReconnect' = Nothing
    /\ reconnectAttempts' = Zero
    /\ subscribedSymbols' = [c \in Classes |-> {}]
    /\ timers' = Zero /\ timerHeld' = Nothing
    /\ authTimers' = Zero /\ authTimerHeld' = Nothing
    /\ timedOut' = Nothing
    /\ socket' = [r \in Sockets |-> "closed"]
    /\ owner' = [r \in Sockets |-> NoClass]
    /\ auth' = [r \in Sockets |-> "none"]
    /\ carried' = [r \in Sockets |-> {}]
    /\ started' = FALSE /\ isPollingActive' = FALSE

\* Massive serves a client's present socket once it has accepted the key on it.
Served(c, s, answers) == s = ws[c] /\ socket[s] = "open" /\ answers[s] = "accepted"

\* faulty: a client that had been connected before is not told its subscriptions
AuthAcceptedFirstTime(s) ==
    LET c == owner[s]
    IN  /\ Alive(s) /\ auth[s] = "asked"
        /\ auth' = [auth EXCEPT ![s] = "accepted"]
        /\ isAuthenticated' = [isAuthenticated EXCEPT ![c] = TRUE]
        /\ reconnectAttempts' = [reconnectAttempts EXCEPT ![c] = 0]
        /\ ClearAuthTimeout(c)
        /\ carried' = [r \in Sockets |->
              IF Served(c, r, auth') /\ reconnectAttempts[c] = 0 THEN carried[r] \cup subscribedSymbols[c]
              ELSE carried[r]]
        /\ UNCHANGED <<ws, shouldReconnect, timedOut, timerVars, subscribedSymbols, socket,
                       owner, started, isPollingActive>>
\* Status 'auth_success'
AuthAccepted(s) ==
    LET c == owner[s]
    IN  /\ Alive(s) /\ auth[s] = "asked"
        /\ auth' = [auth EXCEPT ![s] = "accepted"]
        /\ isAuthenticated' = [isAuthenticated EXCEPT ![c] = TRUE]
        /\ reconnectAttempts' = [reconnectAttempts EXCEPT ![c] = 0]
        /\ ClearAuthTimeout(c)
        /\ carried' = [r \in Sockets |->
              IF Served(c, r, auth') THEN carried[r] \cup subscribedSymbols[c]
              ELSE carried[r]]
        /\ UNCHANGED <<ws, shouldReconnect, timedOut, timerVars, subscribedSymbols, socket,
                       owner, started, isPollingActive>>

\* faulty: a refusal is only remembered
AuthRefusedUnpolled(s) ==
    LET c == owner[s]
    IN  /\ Alive(s) /\ auth[s] = "asked"
        /\ auth' = [auth EXCEPT ![s] = "refused"]
        /\ shouldReconnect' = [shouldReconnect EXCEPT ![c] = FALSE]
        /\ UNCHANGED <<ws, isAuthenticated, reconnectAttempts, timedOut, timerVars, authTimerVars,
                       subscribedSymbols, socket, owner, carried, tickerVars>>
\* Status 'auth_failed', and maybeStartRestPolling, which takes no notice of a stop.  Its REST
\* client is ready: initialize() gives it the same key before it gives it to these clients.
AuthRefused(s) ==
    LET c == owner[s]
    IN  /\ Alive(s) /\ auth[s] = "asked"
        /\ auth' = [auth EXCEPT ![s] = "refused"]
        /\ shouldReconnect' = [shouldReconnect EXCEPT ![c] = FALSE]
        /\ isPollingActive' = TRUE
        /\ UNCHANGED <<ws, isAuthenticated, reconnectAttempts, timedOut, timerVars, authTimerVars,
                       subscribedSymbols, socket, owner, carried, started>>

-----------------------------------------------------------------------------
(* subscribe and unsubscribe, bucketed by class.                           *)

Stocks == {y \in Symbols : ClassOf[y] = "stocks"}
Bucket(symbols, c) == {y \in symbols : ClassOf[y] = c}
Listens(r) == \E c \in Classes : isAuthenticated[c] /\ Served(c, r, auth)

Subscribe(symbols) ==
    /\ subscribedSymbols' = [c \in Classes |->
          subscribedSymbols[c] \cup Bucket(symbols, c)]
    /\ carried' = [r \in Sockets |->
          IF Listens(r) THEN carried[r] \cup Bucket(symbols, owner[r])
          ELSE carried[r]]
    /\ UNCHANGED <<linkVars, timerVars, authTimerVars, socket, owner, auth, tickerVars>>

\* Only the channel T is given back, which nobody but a stock has.
Unsubscribe(symbols) ==
    /\ subscribedSymbols' = [c \in Classes |-> subscribedSymbols[c] \ symbols]
    /\ carried' = [r \in Sockets |->
          IF Listens(r) THEN carried[r] \ Bucket(symbols \cap Stocks, owner[r])
          ELSE carried[r]]
    /\ UNCHANGED <<linkVars, timerVars, authTimerVars, socket, owner, auth, tickerVars>>

-----------------------------------------------------------------------------
Next ==
    \/ Connect
    \/ Disconnect
    \/ \E c \in Classes : TimerFires(c) \/ AuthTimeout(c)
    \/ \E s \in Sockets :
          \/ Opened(s)
          \/ SocketCloses(s)
          \/ PeerCloses(s)
          \/ Greeted(s)
          \/ GreetedTooEarly(s)
          \/ AuthAccepted(s)
          \/ AuthRefused(s)
    \/ \E symbols \in (SUBSET Symbols) \ {{}} : Subscribe(symbols) \/ Unsubscribe(symbols)

Spec == Init /\ [][Next]_vars

-----------------------------------------------------------------------------
(* Properties.                                                             *)

\* A client that calls itself authenticated, on a present socket where it is, gets every
\* channel of everything subscribed, through any overlap of old and new sockets.
NothingMissing ==
    \A c \in Classes : \A s \in Sockets :
        isAuthenticated[c] /\ Served(c, s, auth) => subscribedSymbols[c] \subseteq carried[s]

\* A started ticker serves every class by a socket, by a timer that will dial one, or by
\* polling, unless the class used up its attempts or its authentication timed out.
StalledOnlyBy ==
    started /\ ~isPollingActive =>
        \A c \in Classes :
            \/ \E s \in Sockets : owner[s] = c /\ socket[s] # "closed"
            \/ timers[c] > 0
            \/ reconnectAttempts[c] = MaxAttempts
            \/ timedOut[c]

\* Each client keeps the contract of a ticker that reconnects by itself.
Link(c) == INSTANCE TickerLink WITH
    Budget <- MaxAttempts, wanted <- shouldReconnect[c],
    up <- isAuthenticated[c], spent <- reconnectAttempts[c]
ImplementsLink ==
    /\ \A c \in Classes : Link(c)!Init
    /\ [][\A c \in Classes : [Link(c)!Next]_(Link(c)!vars)]_vars

=============================================================================
