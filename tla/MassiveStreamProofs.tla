------------------------- MODULE MassiveStreamProofs -------------------------
(***************************************************************************)
(* Proofs about MassiveStream.  The sockets' owners are what keeps the       *)
(* handlers of one class out of the state of the others (Owned), and the     *)
(* two facts behind StalledOnlyBy are who may stop retrying (StoppedOnlyBy)  *)
(* and what a client that retries always has (RetriesOn).                    *)
(***************************************************************************)
EXTENDS MassiveStream, TLAPS

TimersHeld ==
    \A c \in Classes : /\ timerHeld[c] => timers[c] > 0
                       /\ authTimerHeld[c] => authTimers[c] > 0

Owned ==
    /\ \A s \in Sockets : socket[s] = "closed" <=> owner[s] = NoClass
    /\ \A c \in Classes : ws[c] # NoSocket => owner[ws[c]] = c

\* A socket that has not opened was not asked for its key.
Fresh == \A s \in Sockets : socket[s] \in {"closed", "connecting"} => auth[s] = "none"

StoppedOnlyBy ==
    started /\ ~isPollingActive => \A c \in Classes : shouldReconnect[c] \/ timedOut[c]

HasSocket(c) == \E s \in Sockets : owner[s] = c
RetriesOn ==
    \A c \in Classes :
        shouldReconnect[c] /\ ~HasSocket(c) => timers[c] > 0 \/ reconnectAttempts[c] = MaxAttempts

IInv == TypeOK /\ TimersHeld /\ Owned /\ Fresh /\ NothingMissing /\ StoppedOnlyBy /\ RetriesOn

USE ClassesAssumption, SocketsAssumption, LimitsAssumption DEF NoClass

\* What dialling does to the sockets, said without the injection.
LEMMA Dialled ==
    ASSUME IInv, NEW dialling \in SUBSET Classes, OpenConnections(dialling)
    PROVE  /\ ws' \in [Classes -> Sockets \cup {NoSocket}]
           /\ socket' \in [Sockets -> {"closed", "connecting", "open", "closing"}]
           /\ owner' \in [Sockets -> Classes \cup {NoClass}]
           /\ \A c \in Classes \ dialling : ws'[c] = ws[c]
           /\ \A c \in dialling : /\ ws'[c] \in Sockets
                                  /\ socket[ws'[c]] = "closed"
                                  /\ socket'[ws'[c]] = "connecting"
                                  /\ owner'[ws'[c]] = c
           /\ \A s \in Sockets : socket[s] # "closed" =>
                  socket'[s] = socket[s] /\ owner'[s] = owner[s]
           /\ \A s \in Sockets :
                  \/ socket'[s] = socket[s] /\ owner'[s] = owner[s]
                  \/ socket'[s] = "connecting" /\ owner'[s] \in dialling
<1>0. TypeOK
  BY DEF IInv
<1>1. PICK next \in Injection(dialling, Closed) :
        /\ ws' = [c \in Classes |-> IF c \in dialling THEN next[c] ELSE ws[c]]
        /\ socket' = [s \in Sockets |-> IF s \in Range(next) THEN "connecting" ELSE socket[s]]
        /\ owner' = [s \in Sockets |->
              IF s \in Range(next) THEN CHOOSE c \in dialling : next[c] = s ELSE owner[s]]
  BY DEF OpenConnections
<1>2. /\ next \in [dialling -> Sockets]
      /\ \A c \in dialling : socket[next[c]] = "closed"
      /\ \A c, d \in dialling : next[c] = next[d] => c = d
      /\ Range(next) = {next[c] : c \in dialling}
  BY DEF Injection, IsInjective, Closed, Range
<1>3. \A c \in dialling : (CHOOSE d \in dialling : next[d] = next[c]) = c
  BY <1>2
<1>4. \A s \in Range(next) : (CHOOSE d \in dialling : next[d] = s) \in dialling
  BY <1>2, <1>3
<1>5. \A c \in dialling : /\ ws'[c] = next[c]
                          /\ socket'[next[c]] = "connecting"
                          /\ owner'[next[c]] = c
  BY <1>1, <1>2, <1>3
<1>6. \A s \in Sockets :
          \/ s \notin Range(next) /\ socket'[s] = socket[s] /\ owner'[s] = owner[s]
          \/ /\ s \in Range(next) /\ socket[s] = "closed"
             /\ socket'[s] = "connecting" /\ owner'[s] \in dialling
  BY <1>1, <1>2, <1>4
<1>7. /\ ws' \in [Classes -> Sockets \cup {NoSocket}]
      /\ socket' \in [Sockets -> {"closed", "connecting", "open", "closing"}]
      /\ owner' \in [Sockets -> Classes \cup {NoClass}]
  BY <1>0, <1>1, <1>2, <1>4 DEF TypeOK
<1>8. \A c \in Classes \ dialling : ws'[c] = ws[c]
  BY <1>1
<1> QED BY <1>2, <1>5, <1>6, <1>7, <1>8

LEMMA MassiveInit == Init => IInv
<1> SUFFICES ASSUME Init PROVE IInv
  OBVIOUS
<1>1. TypeOK
  <2>1. 0 \in 0 .. MaxAttempts
    OBVIOUS
  <2>2. /\ reconnectAttempts \in [Classes -> 0 .. MaxAttempts]
        /\ timers \in [Classes -> Nat] /\ authTimers \in [Classes -> Nat]
    BY <2>1 DEF Init, Zero
  <2>3. /\ isAuthenticated \in [Classes -> BOOLEAN] /\ shouldReconnect \in [Classes -> BOOLEAN]
        /\ timerHeld \in [Classes -> BOOLEAN] /\ authTimerHeld \in [Classes -> BOOLEAN]
        /\ timedOut \in [Classes -> BOOLEAN]
    BY DEF Init, Nothing
  <2> QED BY <2>2, <2>3 DEF Init, TypeOK
<1>2. TimersHeld
  <2>1. \A c \in Classes : ~timerHeld[c] /\ ~authTimerHeld[c]
    BY DEF Init, Nothing
  <2> QED BY <2>1 DEF TimersHeld
<1>3. Owned /\ Fresh
  BY DEF Init, Owned, Fresh
<1>4. NothingMissing
  BY DEF Init, NothingMissing, Nothing
<1>5. StoppedOnlyBy
  BY DEF Init, StoppedOnlyBy
<1>6. RetriesOn
  <2>1. \A c \in Classes : ~shouldReconnect[c]
    BY DEF Init, Nothing
  <2> QED BY <2>1 DEF RetriesOn
<1> QED BY <1>1, <1>2, <1>3, <1>4, <1>5, <1>6 DEF IInv

-----------------------------------------------------------------------------
(* Type correctness and the handles of the timers.                         *)

LEMMA ScheduleType ==
    ASSUME IInv, NEW c \in Classes, ScheduleReconnect(c)
    PROVE  /\ reconnectAttempts' \in [Classes -> 0 .. MaxAttempts]
           /\ timers' \in [Classes -> Nat] /\ timerHeld' \in [Classes -> BOOLEAN]
           /\ \A d \in Classes : timerHeld'[d] => timers'[d] > 0
           /\ \A d \in Classes : timers'[d] >= timers[d]
           /\ \A d \in Classes \ {c} : reconnectAttempts'[d] = reconnectAttempts[d]
           /\ shouldReconnect[c] => timers'[c] > 0 \/ reconnectAttempts'[c] = MaxAttempts
<1>0. TypeOK /\ TimersHeld
  BY DEF IInv
<1>1. CASE shouldReconnect[c] /\ reconnectAttempts[c] < MaxAttempts
  <2>1. /\ reconnectAttempts' = [reconnectAttempts EXCEPT ![c] = @ + 1]
        /\ timers' = [timers EXCEPT ![c] = @ + 1]
        /\ timerHeld' = [timerHeld EXCEPT ![c] = TRUE]
    BY <1>1 DEF ScheduleReconnect
  <2>2. reconnectAttempts[c] + 1 \in 0 .. MaxAttempts /\ timers[c] + 1 \in Nat
    BY <1>0, <1>1 DEF TypeOK
  <2>3. /\ reconnectAttempts' \in [Classes -> 0 .. MaxAttempts]
        /\ timers' \in [Classes -> Nat]
    BY <1>0, <2>1, <2>2 DEF TypeOK
  <2>4. timerHeld' \in [Classes -> BOOLEAN]
    BY <1>0, <2>1 DEF TypeOK
  <2>5. /\ timers'[c] = timers[c] + 1
        /\ \A d \in Classes \ {c} : timers'[d] = timers[d]
    BY <1>0, <2>1 DEF TypeOK
  <2>6. timers'[c] > 0 /\ \A d \in Classes : timers'[d] >= timers[d]
    BY <1>0, <2>5 DEF TypeOK
  <2>7. \A d \in Classes \ {c} : timerHeld'[d] => timers'[d] > 0
    <3>1. \A d \in Classes \ {c} : timerHeld'[d] = timerHeld[d]
      BY <1>0, <2>1 DEF TypeOK
    <3> QED BY <1>0, <2>5, <3>1 DEF TimersHeld
  <2>8. \A d \in Classes \ {c} : reconnectAttempts'[d] = reconnectAttempts[d]
    BY <1>0, <2>1 DEF TypeOK
  <2> QED BY <2>3, <2>4, <2>6, <2>7, <2>8
<1>2. CASE ~(shouldReconnect[c] /\ reconnectAttempts[c] < MaxAttempts)
  <2>1. UNCHANGED <<reconnectAttempts, timerVars>>
    BY <1>2 DEF ScheduleReconnect
  <2>2. shouldReconnect[c] => reconnectAttempts[c] = MaxAttempts
    BY <1>0, <1>2 DEF TypeOK
  <2>3. \A d \in Classes : timers[d] >= timers[d]
    BY <1>0 DEF TypeOK
  <2> QED BY <1>0, <2>1, <2>2, <2>3 DEF TypeOK, TimersHeld, timerVars
<1> QED BY <1>1, <1>2

LEMMA ClearType ==
    ASSUME IInv, NEW c \in Classes, ClearAuthTimeout(c)
    PROVE  /\ authTimers' \in [Classes -> Nat] /\ authTimerHeld' \in [Classes -> BOOLEAN]
           /\ \A d \in Classes : authTimerHeld'[d] => authTimers'[d] > 0
<1>0. TypeOK /\ TimersHeld
  BY DEF IInv
<1>1. (IF authTimerHeld[c] THEN authTimers[c] - 1 ELSE authTimers[c]) \in Nat
  BY <1>0 DEF TypeOK, TimersHeld
<1>2. authTimers' \in [Classes -> Nat]
  BY <1>0, <1>1 DEF ClearAuthTimeout, TypeOK
<1>3. authTimerHeld' \in [Classes -> BOOLEAN] /\ ~authTimerHeld'[c]
  BY <1>0 DEF ClearAuthTimeout, TypeOK
<1>4. \A d \in Classes \ {c} :
          authTimers'[d] = authTimers[d] /\ authTimerHeld'[d] = authTimerHeld[d]
  BY <1>0 DEF ClearAuthTimeout, TypeOK
<1>5. \A d \in Classes \ {c} : authTimerHeld'[d] => authTimers'[d] > 0
  BY <1>0, <1>4 DEF TimersHeld
<1> QED BY <1>2, <1>3, <1>5

LEMMA MassiveType == IInv /\ [Next]_vars => TypeOK' /\ TimersHeld'
<1> SUFFICES ASSUME IInv, [Next]_vars PROVE TypeOK' /\ TimersHeld'
  OBVIOUS
<1>0. TypeOK /\ TimersHeld /\ Owned
  BY DEF IInv
<1>a. \A s \in Sockets : socket[s] # "closed" => owner[s] \in Classes
  BY <1>0 DEF TypeOK, Owned
<1>1. CASE Connect
  <2>1. OpenConnections(Classes)
    BY <1>1 DEF Connect
  <2>2. /\ ws' \in [Classes -> Sockets \cup {NoSocket}]
        /\ socket' \in [Sockets -> {"closed", "connecting", "open", "closing"}]
        /\ owner' \in [Sockets -> Classes \cup {NoClass}]
    BY <2>1, Dialled
  <2> QED BY <1>0, <1>1, <2>2 DEF Connect, TypeOK, TimersHeld, timerVars, authTimerVars, Nothing
<1>2. CASE Disconnect
  <2>1. \A c \in Classes :
            /\ (IF timerHeld[c] THEN timers[c] - 1 ELSE timers[c]) \in Nat
            /\ (IF authTimerHeld[c] THEN authTimers[c] - 1 ELSE authTimers[c]) \in Nat
    BY <1>0 DEF TypeOK, TimersHeld
  <2>2. timers' \in [Classes -> Nat] /\ authTimers' \in [Classes -> Nat]
    BY <1>2, <2>1 DEF Disconnect, Cleared
  <2>3. \A c \in Classes : ~timerHeld'[c] /\ ~authTimerHeld'[c]
    BY <1>2 DEF Disconnect, Nothing
  <2>4. TimersHeld'
    BY <2>3 DEF TimersHeld
  <2> QED BY <1>0, <1>2, <2>2, <2>4 DEF Disconnect, TypeOK, Nothing
<1>3. ASSUME NEW c \in Classes, TimerFires(c) PROVE TypeOK' /\ TimersHeld'
  <2>1. OpenConnections({c}) /\ {c} \in SUBSET Classes
    BY <1>3 DEF TimerFires
  <2>2. /\ ws' \in [Classes -> Sockets \cup {NoSocket}]
        /\ socket' \in [Sockets -> {"closed", "connecting", "open", "closing"}]
        /\ owner' \in [Sockets -> Classes \cup {NoClass}]
    BY <2>1, Dialled
  <2>3. timers[c] - 1 \in Nat
    BY <1>0, <1>3 DEF TimerFires, TypeOK
  <2>4. timers' \in [Classes -> Nat] /\ timerHeld' \in [Classes -> BOOLEAN]
    BY <1>0, <1>3, <2>3 DEF TimerFires, TypeOK
  <2>5. TypeOK'
    BY <1>0, <1>3, <2>2, <2>4 DEF TimerFires, TypeOK, authTimerVars, tickerVars
  <2>6. \A d \in Classes \ {c} : timers'[d] = timers[d] /\ timerHeld'[d] = timerHeld[d]
    BY <1>0, <1>3 DEF TimerFires, TypeOK
  <2>7. ~timerHeld'[c] /\ UNCHANGED authTimerVars
    BY <1>0, <1>3 DEF TimerFires, TypeOK
  <2>8. TimersHeld'
    BY <1>0, <2>6, <2>7 DEF TimersHeld, authTimerVars
  <2> QED BY <2>5, <2>8
<1>4. ASSUME NEW c \in Classes, AuthTimeout(c) PROVE TypeOK' /\ TimersHeld'
  <2>1. authTimers[c] - 1 \in Nat
    BY <1>0, <1>4 DEF AuthTimeout, TypeOK, TimersHeld
  <2>2. authTimers' \in [Classes -> Nat] /\ authTimerHeld' \in [Classes -> BOOLEAN]
    BY <1>0, <1>4, <2>1 DEF AuthTimeout, TypeOK
  <2>3. TypeOK'
    BY <1>0, <1>4, <2>2 DEF AuthTimeout, TypeOK, timerVars, tickerVars
  <2>4. \A d \in Classes \ {c} :
            authTimers'[d] = authTimers[d] /\ authTimerHeld'[d] = authTimerHeld[d]
    BY <1>0, <1>4 DEF AuthTimeout, TypeOK
  <2>5. authTimerHeld'[c] => authTimers'[c] > 0
    <3>1. CASE authTimerHeld[c] /\ authTimerHeld' = [authTimerHeld EXCEPT ![c] = FALSE]
      BY <1>0, <3>1 DEF TypeOK
    <3>2. CASE /\ authTimers[c] > IF authTimerHeld[c] THEN 1 ELSE 0
               /\ UNCHANGED authTimerHeld
      <4>1. authTimers'[c] = authTimers[c] - 1
        BY <1>0, <1>4 DEF AuthTimeout, TypeOK
      <4>2. authTimerHeld[c] => authTimers[c] > 1
        BY <3>2
      <4> QED BY <1>0, <3>2, <4>1, <4>2 DEF TypeOK
    <3> QED BY <1>4, <3>1, <3>2 DEF AuthTimeout
  <2>6. UNCHANGED timerVars
    BY <1>4 DEF AuthTimeout
  <2>7. TimersHeld'
    BY <1>0, <2>4, <2>5, <2>6 DEF TimersHeld, timerVars
  <2> QED BY <2>3, <2>7
<1>5. ASSUME NEW s \in Sockets, Opened(s) PROVE TypeOK' /\ TimersHeld'
  <2> DEFINE c == owner[s]
  <2>1. c \in Classes
    BY <1>5, <1>a DEF Opened
  <2>2. /\ authTimers' = [authTimers EXCEPT ![c] = @ + 1]
        /\ authTimerHeld' = [authTimerHeld EXCEPT ![c] = TRUE]
        /\ UNCHANGED timerVars
    BY <1>5 DEF Opened
  <2> HIDE DEF c
  <2>3. authTimers[c] + 1 \in Nat /\ authTimers[c] + 1 > 0
    BY <1>0, <2>1 DEF TypeOK
  <2>5. TypeOK'
    <3>1. authTimers' \in [Classes -> Nat] /\ authTimerHeld' \in [Classes -> BOOLEAN]
      BY <1>0, <2>1, <2>2, <2>3 DEF TypeOK
    <3> QED BY <1>0, <1>5, <3>1 DEF Opened, TypeOK, linkVars, timerVars, tickerVars
  <2>4. authTimers' = [authTimers EXCEPT ![c] = authTimers[c] + 1]
    BY <2>2
  <2>6. /\ authTimers'[c] > 0
        /\ \A d \in Classes \ {c} :
              authTimers'[d] = authTimers[d] /\ authTimerHeld'[d] = authTimerHeld[d]
    <3>1. authTimers'[c] = authTimers[c] + 1
      BY <1>0, <2>1, <2>4 DEF TypeOK
    <3>2. \A d \in Classes \ {c} :
              authTimers'[d] = authTimers[d] /\ authTimerHeld'[d] = authTimerHeld[d]
      BY <1>0, <2>1, <2>2 DEF TypeOK
    <3> QED BY <2>3, <3>1, <3>2
  <2>7. TimersHeld'
    BY <1>0, <2>2, <2>6 DEF TimersHeld, timerVars
  <2> QED BY <2>5, <2>7
<1>6. ASSUME NEW s \in Sockets, SocketCloses(s) PROVE TypeOK' /\ TimersHeld'
  <2> DEFINE c == owner[s]
  <2>1. c \in Classes
    BY <1>6, <1>a DEF SocketCloses
  <2>2. ScheduleReconnect(c) /\ ClearAuthTimeout(c)
    BY <1>6 DEF SocketCloses
  <2> HIDE DEF c
  <2>3. /\ reconnectAttempts' \in [Classes -> 0 .. MaxAttempts]
        /\ timers' \in [Classes -> Nat] /\ timerHeld' \in [Classes -> BOOLEAN]
        /\ \A d \in Classes : timerHeld'[d] => timers'[d] > 0
    BY <2>1, <2>2, ScheduleType
  <2>4. /\ authTimers' \in [Classes -> Nat] /\ authTimerHeld' \in [Classes -> BOOLEAN]
        /\ \A d \in Classes : authTimerHeld'[d] => authTimers'[d] > 0
    BY <2>1, <2>2, ClearType
  <2>5. TypeOK'
    BY <1>0, <1>6, <2>3, <2>4 DEF SocketCloses, TypeOK
  <2> QED BY <2>3, <2>4, <2>5 DEF TimersHeld
<1>7. ASSUME NEW s \in Sockets, PeerCloses(s) PROVE TypeOK' /\ TimersHeld'
  BY <1>0, <1>7 DEF PeerCloses, TypeOK, TimersHeld, linkVars, timerVars, authTimerVars, tickerVars
<1>8. ASSUME NEW s \in Sockets, Greeted(s) PROVE TypeOK' /\ TimersHeld'
  BY <1>0, <1>8 DEF Greeted, TypeOK, TimersHeld, linkVars, timerVars, authTimerVars, tickerVars
<1>9. ASSUME NEW s \in Sockets, GreetedTooEarly(s) PROVE TypeOK' /\ TimersHeld'
  <2>1. \A c \in Classes : ~timerHeld'[c] /\ ~authTimerHeld'[c]
    BY <1>9 DEF GreetedTooEarly, Nothing
  <2>2. /\ reconnectAttempts' \in [Classes -> 0 .. MaxAttempts]
        /\ timers' \in [Classes -> Nat] /\ authTimers' \in [Classes -> Nat]
    <3>1. 0 \in 0 .. MaxAttempts
      OBVIOUS
    <3> QED BY <1>9, <3>1 DEF GreetedTooEarly, Zero
  <2>3. /\ isAuthenticated' \in [Classes -> BOOLEAN] /\ shouldReconnect' \in [Classes -> BOOLEAN]
        /\ timerHeld' \in [Classes -> BOOLEAN] /\ authTimerHeld' \in [Classes -> BOOLEAN]
        /\ timedOut' \in [Classes -> BOOLEAN]
    BY <1>9 DEF GreetedTooEarly, Nothing
  <2>4. TypeOK'
    BY <1>9, <2>2, <2>3 DEF GreetedTooEarly, TypeOK
  <2> QED BY <2>1, <2>4 DEF TimersHeld
<1>10. ASSUME NEW s \in Sockets, AuthAccepted(s) PROVE TypeOK' /\ TimersHeld'
  <2> DEFINE c == owner[s]
  <2>1. c \in Classes
    BY <1>10, <1>a DEF AuthAccepted, Alive
  <2>2. ClearAuthTimeout(c)
    BY <1>10 DEF AuthAccepted
  <2> HIDE DEF c
  <2>3. /\ authTimers' \in [Classes -> Nat] /\ authTimerHeld' \in [Classes -> BOOLEAN]
        /\ \A d \in Classes : authTimerHeld'[d] => authTimers'[d] > 0
    BY <2>1, <2>2, ClearType
  <2>4. carried' = [r \in Sockets |-> IF Served(c, r, auth') THEN carried[r] \cup subscribedSymbols[c]
                                    ELSE carried[r]]
    BY <1>10 DEF AuthAccepted, c
  <2>5. carried' \in [Sockets -> SUBSET Symbols]
    BY <1>0, <2>1, <2>4 DEF TypeOK
  <2>7. /\ reconnectAttempts' = [reconnectAttempts EXCEPT ![c] = 0]
        /\ isAuthenticated' = [isAuthenticated EXCEPT ![c] = TRUE]
    BY <1>10 DEF AuthAccepted, c
  <2>8. 0 \in 0 .. MaxAttempts
    OBVIOUS
  <2>9. /\ reconnectAttempts' \in [Classes -> 0 .. MaxAttempts]
        /\ isAuthenticated' \in [Classes -> BOOLEAN]
    BY <1>0, <2>7, <2>8 DEF TypeOK
  <2>10. auth' \in [Sockets -> {"none", "asked", "accepted", "refused"}]
    BY <1>0, <1>10 DEF AuthAccepted, TypeOK
  <2>11. TypeOK'
    BY <1>0, <1>10, <2>3, <2>5, <2>9, <2>10 DEF AuthAccepted, TypeOK, timerVars
  <2>6. UNCHANGED timerVars
    BY <1>10 DEF AuthAccepted
  <2> QED BY <1>0, <2>3, <2>11, <2>6 DEF TimersHeld, timerVars
<1>11. ASSUME NEW s \in Sockets, AuthRefused(s) PROVE TypeOK' /\ TimersHeld'
  BY <1>0, <1>11 DEF AuthRefused, TypeOK, TimersHeld, timerVars, authTimerVars
<1>12. ASSUME NEW symbols \in SUBSET Symbols, Subscribe(symbols) PROVE TypeOK' /\ TimersHeld'
  BY <1>0, <1>12 DEF Subscribe, Bucket, TypeOK, TimersHeld, linkVars, timerVars, authTimerVars,
     tickerVars
<1>13. ASSUME NEW symbols \in SUBSET Symbols, Unsubscribe(symbols) PROVE TypeOK' /\ TimersHeld'
  BY <1>0, <1>13 DEF Unsubscribe, Bucket, TypeOK, TimersHeld, linkVars, timerVars, authTimerVars,
     tickerVars
<1>14. CASE UNCHANGED vars
  BY <1>0, <1>14 DEF vars, TypeOK, TimersHeld, linkVars, timerVars, authTimerVars, tickerVars
<1> QED BY <1>1, <1>2, <1>3, <1>4, <1>5, <1>6, <1>7, <1>8, <1>9, <1>10, <1>11, <1>12, <1>13,
           <1>14 DEF Next

-----------------------------------------------------------------------------
(* The owners of sockets, and what is carried on them.                     *)

LEMMA MassiveOwned == IInv /\ [Next]_vars => Owned'
<1> SUFFICES ASSUME IInv, [Next]_vars PROVE Owned'
  OBVIOUS
<1>0. TypeOK /\ Owned
  BY DEF IInv
<1>1. ASSUME NEW dialling \in SUBSET Classes, OpenConnections(dialling) PROVE Owned'
  <2>1. /\ \A c \in Classes \ dialling : ws'[c] = ws[c]
        /\ \A c \in dialling : ws'[c] \in Sockets /\ owner'[ws'[c]] = c
    BY <1>1, Dialled
  <2>2. /\ \A s \in Sockets : socket[s] # "closed" => owner'[s] = owner[s]
        /\ \A s \in Sockets :
              \/ socket'[s] = socket[s] /\ owner'[s] = owner[s]
              \/ socket'[s] = "connecting" /\ owner'[s] \in dialling
    BY <1>1, Dialled
  <2>3. \A s \in Sockets : socket'[s] = "closed" <=> owner'[s] = NoClass
    BY <1>0, <2>2 DEF Owned
  <2>4. \A c \in Classes \ dialling : ws[c] # NoSocket => owner'[ws[c]] = c
    <3> SUFFICES ASSUME NEW c \in Classes \ dialling, ws[c] # NoSocket PROVE owner'[ws[c]] = c
      OBVIOUS
    <3>1. ws[c] \in Sockets /\ owner[ws[c]] = c
      BY <1>0 DEF Owned, TypeOK
    <3>2. socket[ws[c]] # "closed"
      BY <1>0, <3>1 DEF Owned
    <3> QED BY <2>2, <3>1, <3>2
  <2> QED BY <2>1, <2>3, <2>4 DEF Owned
<1>2. CASE Connect
  BY <1>1, <1>2 DEF Connect
<1>3. CASE Disconnect
  BY <1>0, <1>3 DEF Disconnect, Owned, TypeOK
<1>4. ASSUME NEW c \in Classes, TimerFires(c) PROVE Owned'
  BY <1>1, <1>4 DEF TimerFires
<1>5. ASSUME NEW c \in Classes, AuthTimeout(c) PROVE Owned'
  BY <1>0, <1>5 DEF AuthTimeout, Owned
<1>6. ASSUME NEW s \in Sockets, Opened(s) PROVE Owned'
  BY <1>0, <1>6 DEF Opened, Owned, TypeOK, linkVars
<1>7. ASSUME NEW s \in Sockets, SocketCloses(s) PROVE Owned'
  <2>1. /\ socket' = [socket EXCEPT ![s] = "closed"]
        /\ owner' = [owner EXCEPT ![s] = NoClass]
        /\ ws' = [ws EXCEPT ![owner[s]] = IF @ = s THEN NoSocket ELSE @]
    BY <1>7 DEF SocketCloses
  <2>2. \A r \in Sockets : socket'[r] = "closed" <=> owner'[r] = NoClass
    BY <1>0, <2>1 DEF Owned, TypeOK
  <2>3. ASSUME NEW c \in Classes, ws'[c] # NoSocket PROVE owner'[ws'[c]] = c
    <3>1. ws'[c] = ws[c] /\ ws[c] # s
      <4>1. CASE c = owner[s]
        BY <1>0, <2>1, <2>3, <4>1 DEF TypeOK
      <4>2. CASE c # owner[s]
        BY <1>0, <2>1, <2>3, <4>2 DEF TypeOK, Owned
      <4> QED BY <4>1, <4>2
    <3>2. ws[c] \in Sockets /\ owner[ws[c]] = c
      <4>1. ws[c] \in Sockets \cup {NoSocket}
        BY <1>0 DEF TypeOK
      <4>2. ws[c] # NoSocket => owner[ws[c]] = c
        BY <1>0 DEF Owned
      <4> QED BY <2>3, <3>1, <4>1, <4>2
    <3>3. \A r \in Sockets \ {s} : owner'[r] = owner[r]
      BY <1>0, <2>1 DEF TypeOK
    <3> QED BY <3>1, <3>2, <3>3
  <2> QED BY <2>2, <2>3 DEF Owned
<1>8. ASSUME NEW s \in Sockets, PeerCloses(s) PROVE Owned'
  BY <1>0, <1>8 DEF PeerCloses, Owned, TypeOK, linkVars
<1>9. ASSUME NEW s \in Sockets, Greeted(s) PROVE Owned'
  BY <1>0, <1>9 DEF Greeted, Owned, linkVars
<1>10. ASSUME NEW s \in Sockets, GreetedTooEarly(s) PROVE Owned'
  BY <1>10 DEF GreetedTooEarly, Owned
<1>11. ASSUME NEW s \in Sockets, AuthAccepted(s) PROVE Owned'
  BY <1>0, <1>11 DEF AuthAccepted, Owned
<1>12. ASSUME NEW s \in Sockets, AuthRefused(s) PROVE Owned'
  BY <1>0, <1>12 DEF AuthRefused, Owned
<1>13. ASSUME NEW symbols \in SUBSET Symbols, Subscribe(symbols) PROVE Owned'
  BY <1>0, <1>13 DEF Subscribe, Owned, linkVars
<1>14. ASSUME NEW symbols \in SUBSET Symbols, Unsubscribe(symbols) PROVE Owned'
  BY <1>0, <1>14 DEF Unsubscribe, Owned, linkVars
<1>15. CASE UNCHANGED vars
  BY <1>0, <1>15 DEF vars, Owned, linkVars
<1> QED BY <1>2, <1>3, <1>4, <1>5, <1>6, <1>7, <1>8, <1>9, <1>10, <1>11, <1>12, <1>13, <1>14,
           <1>15 DEF Next

LEMMA MassiveFresh == IInv /\ [Next]_vars => Fresh'
<1> SUFFICES ASSUME IInv, [Next]_vars PROVE Fresh'
  OBVIOUS
<1>0. TypeOK /\ Fresh
  BY DEF IInv
<1>1. ASSUME NEW dialling \in SUBSET Classes, OpenConnections(dialling), auth' = auth
      PROVE  Fresh'
  <2>1. \A s \in Sockets : socket[s] # "closed" => socket'[s] = socket[s]
    BY <1>1, Dialled
  <2> QED BY <1>0, <1>1, <2>1 DEF Fresh, TypeOK
<1>2. CASE Connect
  BY <1>1, <1>2 DEF Connect
<1>3. CASE Disconnect
  BY <1>0, <1>3 DEF Disconnect, Fresh, TypeOK
<1>4. ASSUME NEW c \in Classes, TimerFires(c) PROVE Fresh'
  BY <1>1, <1>4 DEF TimerFires
<1>5. ASSUME NEW c \in Classes, AuthTimeout(c) PROVE Fresh'
  BY <1>0, <1>5 DEF AuthTimeout, Fresh
<1>6. ASSUME NEW s \in Sockets, Opened(s) PROVE Fresh'
  BY <1>0, <1>6 DEF Opened, Fresh, TypeOK
<1>7. ASSUME NEW s \in Sockets, SocketCloses(s) PROVE Fresh'
  BY <1>0, <1>7 DEF SocketCloses, Fresh, TypeOK
<1>8. ASSUME NEW s \in Sockets, PeerCloses(s) PROVE Fresh'
  BY <1>0, <1>8 DEF PeerCloses, Fresh, TypeOK
<1>9. ASSUME NEW s \in Sockets, Greeted(s) PROVE Fresh'
  BY <1>0, <1>9 DEF Greeted, Fresh, TypeOK
<1>10. ASSUME NEW s \in Sockets, GreetedTooEarly(s) PROVE Fresh'
  BY <1>10 DEF GreetedTooEarly, Fresh
<1>11. ASSUME NEW s \in Sockets, AuthAccepted(s) PROVE Fresh'
  BY <1>0, <1>11 DEF AuthAccepted, Alive, Fresh, TypeOK
<1>12. ASSUME NEW s \in Sockets, AuthRefused(s) PROVE Fresh'
  BY <1>0, <1>12 DEF AuthRefused, Alive, Fresh, TypeOK
<1>13. ASSUME NEW symbols \in SUBSET Symbols, Subscribe(symbols) \/ Unsubscribe(symbols)
       PROVE  Fresh'
  BY <1>0, <1>13 DEF Subscribe, Unsubscribe, Fresh
<1>14. CASE UNCHANGED vars
  BY <1>0, <1>14 DEF vars, Fresh
<1> QED BY <1>2, <1>3, <1>4, <1>5, <1>6, <1>7, <1>8, <1>9, <1>10, <1>11, <1>12, <1>13, <1>14
        DEF Next

LEMMA MassiveMissing == IInv /\ [Next]_vars => NothingMissing'
<1> SUFFICES ASSUME IInv, [Next]_vars, NEW c \in Classes, NEW r \in Sockets,
                    isAuthenticated'[c], Served(c, r, auth)'
             PROVE  subscribedSymbols'[c] \subseteq carried'[r]
  BY DEF NothingMissing
<1>0. TypeOK /\ Owned /\ NothingMissing
  BY DEF IInv
<1>s. r = ws'[c] /\ socket'[r] = "open" /\ auth'[r] = "accepted"
  BY DEF Served
\* Nothing changes for the class and the socket if the step does not touch them.
<1>u. ASSUME isAuthenticated[c], r = ws[c], socket[r] = "open", auth[r] = "accepted"
      PROVE  subscribedSymbols[c] \subseteq carried[r] /\ owner[r] = c /\ Listens(r)
  BY <1>0, <1>u DEF NothingMissing, Served, Owned, Listens
<1>1. ASSUME NEW dialling \in SUBSET Classes, OpenConnections(dialling)
      PROVE  r = ws[c] /\ socket[r] = "open"
  BY <1>1, <1>s, Dialled
<1>2. CASE Connect
  <2>1. r = ws[c] /\ socket[r] = "open"
    BY <1>1, <1>2 DEF Connect
  <2> QED BY <1>2, <2>1, <1>s, <1>u DEF Connect
<1>3. CASE Disconnect
  BY <1>3 DEF Disconnect, Nothing
<1>4. ASSUME NEW d \in Classes, TimerFires(d) PROVE subscribedSymbols'[c] \subseteq carried'[r]
  <2>1. r = ws[c] /\ socket[r] = "open"
    BY <1>1, <1>4 DEF TimerFires
  <2> QED BY <1>4, <2>1, <1>s, <1>u DEF TimerFires
<1>5. ASSUME NEW d \in Classes, AuthTimeout(d) PROVE subscribedSymbols'[c] \subseteq carried'[r]
  BY <1>5, <1>s, <1>u DEF AuthTimeout
<1>6. ASSUME NEW s \in Sockets, Opened(s) PROVE subscribedSymbols'[c] \subseteq carried'[r]
  <2>1. r # s
    <3>1. auth[s] = "none" /\ auth' = auth
      BY <1>6 DEF Opened, IInv, Fresh
    <3> QED BY <1>s, <3>1
  <2> QED BY <1>0, <1>6, <2>1, <1>s, <1>u DEF Opened, linkVars, TypeOK
<1>7. ASSUME NEW s \in Sockets, SocketCloses(s) PROVE subscribedSymbols'[c] \subseteq carried'[r]
  <2>1. r # s
    BY <1>0, <1>7, <1>s DEF SocketCloses, TypeOK
  <2>2. c # owner[s]
    BY <1>0, <1>7 DEF SocketCloses, TypeOK
  <2>3. isAuthenticated[c] /\ r = ws[c] /\ socket[r] = "open" /\ auth[r] = "accepted"
    BY <1>0, <1>7, <1>s, <2>1, <2>2 DEF SocketCloses, TypeOK
  <2> QED BY <1>0, <1>7, <2>1, <2>3, <1>u DEF SocketCloses, TypeOK
<1>8. ASSUME NEW s \in Sockets, PeerCloses(s) PROVE subscribedSymbols'[c] \subseteq carried'[r]
  BY <1>0, <1>8, <1>s, <1>u DEF PeerCloses, linkVars, TypeOK
<1>9. ASSUME NEW s \in Sockets, Greeted(s) PROVE subscribedSymbols'[c] \subseteq carried'[r]
  BY <1>0, <1>9, <1>s, <1>u DEF Greeted, linkVars, TypeOK
<1>10. ASSUME NEW s \in Sockets, GreetedTooEarly(s) PROVE FALSE
  BY <1>10, <1>s DEF GreetedTooEarly
<1>11. ASSUME NEW s \in Sockets, AuthAccepted(s) PROVE subscribedSymbols'[c] \subseteq carried'[r]
  <2>1. /\ ws' = ws /\ socket' = socket /\ subscribedSymbols' = subscribedSymbols
        /\ auth' = [auth EXCEPT ![s] = "accepted"]
        /\ isAuthenticated' = [isAuthenticated EXCEPT ![owner[s]] = TRUE]
        /\ carried' = [q \in Sockets |->
              IF Served(owner[s], q, auth') THEN carried[q] \cup subscribedSymbols[owner[s]]
              ELSE carried[q]]
    BY <1>11 DEF AuthAccepted
  <2>2. owner[r] = c
    BY <1>0, <1>s, <2>1 DEF Owned
  <2>3. CASE c = owner[s]
    <3>1. Served(owner[s], r, auth')
      BY <1>s, <2>1, <2>3 DEF Served
    <3> QED BY <2>1, <2>3, <3>1
  <2>4. CASE c # owner[s]
    <3>1. r # s
      BY <2>2, <2>4
    <3>2. isAuthenticated[c] /\ auth[r] = "accepted"
      BY <1>0, <1>s, <2>1, <2>4, <3>1 DEF TypeOK
    <3> QED BY <1>s, <1>u, <2>1, <3>2
  <2> QED BY <2>3, <2>4
<1>12. ASSUME NEW s \in Sockets, AuthRefused(s) PROVE subscribedSymbols'[c] \subseteq carried'[r]
  BY <1>0, <1>12, <1>s, <1>u DEF AuthRefused, TypeOK
<1>13. ASSUME NEW symbols \in SUBSET Symbols, Subscribe(symbols)
       PROVE  subscribedSymbols'[c] \subseteq carried'[r]
  <2>1. subscribedSymbols[c] \subseteq carried[r] /\ owner[r] = c /\ Listens(r)
    BY <1>13, <1>s, <1>u DEF Subscribe, linkVars
  <2> QED BY <1>13, <2>1 DEF Subscribe
<1>14. ASSUME NEW symbols \in SUBSET Symbols, Unsubscribe(symbols)
       PROVE  subscribedSymbols'[c] \subseteq carried'[r]
  <2>1. subscribedSymbols[c] \subseteq carried[r] /\ owner[r] = c /\ Listens(r)
    BY <1>14, <1>s, <1>u DEF Unsubscribe, linkVars
  <2> QED BY <1>14, <2>1 DEF Unsubscribe, Bucket
<1>15. CASE UNCHANGED vars
  BY <1>15, <1>s, <1>u DEF vars, linkVars
<1> QED BY <1>2, <1>3, <1>4, <1>5, <1>6, <1>7, <1>8, <1>9, <1>10, <1>11, <1>12, <1>13, <1>14,
           <1>15 DEF Next

-----------------------------------------------------------------------------
(* Who stops retrying, and what a client that retries has.                 *)

LEMMA MassiveStopped == IInv /\ [Next]_vars => StoppedOnlyBy'
<1> SUFFICES ASSUME IInv, [Next]_vars, started', ~isPollingActive', NEW c \in Classes
             PROVE  shouldReconnect'[c] \/ timedOut'[c]
  BY DEF StoppedOnlyBy
<1>0. TypeOK /\ StoppedOnlyBy
  BY DEF IInv
<1>u. ASSUME UNCHANGED <<started, isPollingActive, shouldReconnect, timedOut>>
      PROVE  shouldReconnect'[c] \/ timedOut'[c]
  BY <1>0, <1>u DEF StoppedOnlyBy
<1>1. CASE Connect
  BY <1>1 DEF Connect
<1>2. CASE Disconnect
  BY <1>2 DEF Disconnect
<1>3. ASSUME NEW d \in Classes, TimerFires(d) PROVE shouldReconnect'[c] \/ timedOut'[c]
  BY <1>3, <1>u DEF TimerFires, tickerVars
<1>4. ASSUME NEW d \in Classes, AuthTimeout(d) PROVE shouldReconnect'[c] \/ timedOut'[c]
  <2>1. shouldReconnect[c] \/ timedOut[c]
    BY <1>0, <1>4 DEF AuthTimeout, tickerVars, StoppedOnlyBy
  <2> QED BY <1>0, <1>4, <2>1 DEF AuthTimeout, TypeOK
<1>5. ASSUME NEW s \in Sockets, Opened(s) PROVE shouldReconnect'[c] \/ timedOut'[c]
  BY <1>5, <1>u DEF Opened, tickerVars, linkVars
<1>6. ASSUME NEW s \in Sockets, SocketCloses(s) PROVE shouldReconnect'[c] \/ timedOut'[c]
  BY <1>6, <1>u DEF SocketCloses
<1>7. ASSUME NEW s \in Sockets, PeerCloses(s) PROVE shouldReconnect'[c] \/ timedOut'[c]
  BY <1>7, <1>u DEF PeerCloses, tickerVars, linkVars
<1>8. ASSUME NEW s \in Sockets, Greeted(s) PROVE shouldReconnect'[c] \/ timedOut'[c]
  BY <1>8, <1>u DEF Greeted, tickerVars, linkVars
<1>9. ASSUME NEW s \in Sockets, GreetedTooEarly(s) PROVE FALSE
  BY <1>9 DEF GreetedTooEarly
<1>10. ASSUME NEW s \in Sockets, AuthAccepted(s) PROVE shouldReconnect'[c] \/ timedOut'[c]
  BY <1>10, <1>u DEF AuthAccepted
<1>11. ASSUME NEW s \in Sockets, AuthRefused(s) PROVE FALSE
  BY <1>11 DEF AuthRefused
<1>12. ASSUME NEW symbols \in SUBSET Symbols, Subscribe(symbols) \/ Unsubscribe(symbols)
       PROVE  shouldReconnect'[c] \/ timedOut'[c]
  BY <1>12, <1>u DEF Subscribe, Unsubscribe, tickerVars, linkVars
<1>13. CASE UNCHANGED vars
  BY <1>13, <1>u DEF vars, tickerVars, linkVars
<1> QED BY <1>1, <1>2, <1>3, <1>4, <1>5, <1>6, <1>7, <1>8, <1>9, <1>10, <1>11, <1>12, <1>13
        DEF Next

LEMMA MassiveRetries == IInv /\ [Next]_vars => RetriesOn'
<1> SUFFICES ASSUME IInv, [Next]_vars, NEW c \in Classes,
                    shouldReconnect'[c], ~HasSocket(c)'
             PROVE  timers'[c] > 0 \/ reconnectAttempts'[c] = MaxAttempts
  BY DEF RetriesOn
<1> DEFINE Goal == timers'[c] > 0 \/ reconnectAttempts'[c] = MaxAttempts
<1>0. TypeOK /\ Owned /\ RetriesOn
  BY DEF IInv
<1>n. \A s \in Sockets : owner'[s] # c
  BY DEF HasSocket
\* A step that leaves the class alone keeps what it has.
<1>u. ASSUME shouldReconnect[c], \A s \in Sockets : owner[s] # c,
             timers'[c] = timers[c], reconnectAttempts'[c] = reconnectAttempts[c]
      PROVE  Goal
  BY <1>0, <1>u DEF RetriesOn, HasSocket
<1>1. CASE Connect
  <2>1. c \in Classes /\ ws'[c] \in Sockets /\ owner'[ws'[c]] = c
    BY <1>1, Dialled DEF Connect
  <2> QED BY <1>n, <2>1
<1>2. CASE Disconnect
  BY <1>2 DEF Disconnect, Nothing
<1>3. ASSUME NEW d \in Classes, TimerFires(d) PROVE Goal
  <2>1. OpenConnections({d}) /\ {d} \in SUBSET Classes
    BY <1>3 DEF TimerFires
  <2>2. /\ ws'[d] \in Sockets /\ owner'[ws'[d]] = d
        /\ \A s \in Sockets : socket[s] # "closed" => owner'[s] = owner[s]
    BY <2>1, Dialled
  <2>3. c # d
    BY <1>n, <2>2
  <2>4. \A s \in Sockets : owner[s] # c
    BY <1>0, <1>n, <2>2 DEF Owned
  <2> QED BY <1>0, <1>3, <1>u, <2>3, <2>4 DEF TimerFires, TypeOK
<1>4. ASSUME NEW d \in Classes, AuthTimeout(d) PROVE Goal
  <2>1. shouldReconnect[c]
    BY <1>0, <1>4 DEF AuthTimeout, TypeOK
  <2> QED BY <1>4, <1>n, <1>u, <2>1 DEF AuthTimeout, timerVars
<1>5. ASSUME NEW s \in Sockets, Opened(s) PROVE Goal
  BY <1>5, <1>n, <1>u DEF Opened, linkVars, timerVars
<1>6. ASSUME NEW s \in Sockets, SocketCloses(s) PROVE Goal
  <2> DEFINE d == owner[s]
  <2>1. d \in Classes
    BY <1>0, <1>6 DEF SocketCloses, Owned, TypeOK
  <2>2. ScheduleReconnect(d) /\ shouldReconnect' = shouldReconnect
    BY <1>6 DEF SocketCloses
  <2>3. c # d => \A r \in Sockets : owner[r] # c
    BY <1>0, <1>6, <1>n DEF SocketCloses, TypeOK
  <2> HIDE DEF d
  <2>4. /\ timers' \in [Classes -> Nat]
        /\ \A e \in Classes : timers'[e] >= timers[e]
        /\ \A e \in Classes \ {d} : reconnectAttempts'[e] = reconnectAttempts[e]
        /\ shouldReconnect[d] => timers'[d] > 0 \/ reconnectAttempts'[d] = MaxAttempts
    BY <2>1, <2>2, ScheduleType
  <2>5. CASE c = d
    BY <2>2, <2>4, <2>5
  <2>6. CASE c # d
    <3>1. timers[c] > 0 \/ reconnectAttempts[c] = MaxAttempts
      BY <1>0, <2>2, <2>3, <2>6 DEF RetriesOn, HasSocket
    <3>2. timers[c] \in Nat /\ timers'[c] \in Nat
      BY <1>0, <2>4 DEF TypeOK
    <3> QED BY <2>4, <2>6, <3>1, <3>2
  <2> QED BY <2>5, <2>6
<1>7. ASSUME NEW s \in Sockets, PeerCloses(s) PROVE Goal
  BY <1>7, <1>n, <1>u DEF PeerCloses, linkVars, timerVars
<1>8. ASSUME NEW s \in Sockets, Greeted(s) PROVE Goal
  BY <1>8, <1>n, <1>u DEF Greeted, linkVars, timerVars
<1>9. ASSUME NEW s \in Sockets, GreetedTooEarly(s) PROVE FALSE
  BY <1>9 DEF GreetedTooEarly, Nothing
<1>10. ASSUME NEW s \in Sockets, AuthAccepted(s) PROVE Goal
  <2>1. owner[s] # c
    BY <1>10, <1>n DEF AuthAccepted
  <2> QED BY <1>0, <1>10, <1>n, <1>u, <2>1 DEF AuthAccepted, timerVars, TypeOK
<1>11. ASSUME NEW s \in Sockets, AuthRefused(s) PROVE Goal
  <2>1. shouldReconnect[c]
    BY <1>0, <1>11 DEF AuthRefused, TypeOK
  <2> QED BY <1>11, <1>n, <1>u, <2>1 DEF AuthRefused, timerVars
<1>12. ASSUME NEW symbols \in SUBSET Symbols, Subscribe(symbols) \/ Unsubscribe(symbols)
       PROVE  Goal
  BY <1>12, <1>n, <1>u DEF Subscribe, Unsubscribe, linkVars, timerVars
<1>13. CASE UNCHANGED vars
  BY <1>13, <1>n, <1>u DEF vars, linkVars, timerVars
<1> QED BY <1>1, <1>2, <1>3, <1>4, <1>5, <1>6, <1>7, <1>8, <1>9, <1>10, <1>11, <1>12, <1>13
        DEF Next

-----------------------------------------------------------------------------
LEMMA MassiveInductive == Spec => []IInv
<1>1. IInv /\ [Next]_vars => IInv'
  BY MassiveType, MassiveOwned, MassiveFresh, MassiveMissing, MassiveStopped, MassiveRetries DEF IInv
<1> QED BY MassiveInit, <1>1, PTL DEF Spec

\* The state of all clients always has its type: no attempt beyond the limit, and no
\* timer is cleared that is not pending.
THEOREM MassiveTypeOK == Spec => []TypeOK
<1>1. IInv => TypeOK
  BY DEF IInv
<1> QED BY MassiveInductive, <1>1, PTL

\* An authenticated client is served everything subscribed on its present socket, whatever
\* old sockets of its own or of other classes do.
THEOREM MassiveNothingMissing == Spec => []NothingMissing
<1>1. IInv => NothingMissing
  BY DEF IInv
<1> QED BY MassiveInductive, <1>1, PTL

\* A started ticker that does not poll leaves no class without a socket or a timer, but
\* for attempts used up and authentication timed out.
THEOREM MassiveStalledOnlyBy == Spec => []StalledOnlyBy
<1>1. IInv => StalledOnlyBy
  <2> SUFFICES ASSUME IInv, started, ~isPollingActive, NEW c \in Classes,
                      ~HasSocket(c), ~timedOut[c]
               PROVE  timers[c] > 0 \/ reconnectAttempts[c] = MaxAttempts
    BY DEF StalledOnlyBy, IInv, Owned, HasSocket
  <2>1. shouldReconnect[c]
    BY DEF IInv, StoppedOnlyBy
  <2> QED BY <2>1 DEF IInv, RetriesOn
<1> QED BY MassiveInductive, <1>1, PTL

\* Every step, as a client sees it, is one of TickerLink's or one that TickerLink does not see.
LEMMA ClientLinkStep ==
    ASSUME IInv, [Next]_vars, NEW c \in Classes
    PROVE  [Link(c)!Next]_(Link(c)!vars)
<1>0. TypeOK /\ Owned
  BY DEF IInv
<1> USE DEF Link!Next, Link!vars
<1>1. CASE Connect
  BY <1>0, <1>1 DEF Connect, Link!Start
<1>2. CASE Disconnect
  BY <1>0, <1>2 DEF Disconnect, Nothing, Link!Stop
<1>3. ASSUME NEW d \in Classes, TimerFires(d) PROVE UNCHANGED Link(c)!vars
  BY <1>3 DEF TimerFires
<1>4. ASSUME NEW d \in Classes, AuthTimeout(d) PROVE Link(c)!Stop \/ UNCHANGED Link(c)!vars
  BY <1>0, <1>4 DEF AuthTimeout, Link!Stop, TypeOK
<1>5. ASSUME NEW s \in Sockets, Opened(s) PROVE UNCHANGED Link(c)!vars
  BY <1>5 DEF Opened, linkVars
<1>6. ASSUME NEW s \in Sockets, SocketCloses(s) PROVE Link(c)!Fall \/ UNCHANGED Link(c)!vars
  <2>1. reconnectAttempts[c] \in Nat /\ MaxAttempts \in Nat
    BY <1>0 DEF TypeOK
  <2>2. CASE owner[s] = c
    <3>1. ~isAuthenticated'[c]
      BY <1>0, <1>6, <2>2 DEF SocketCloses, TypeOK
    <3>2. /\ UNCHANGED shouldReconnect
          /\ isAuthenticated'[c] = FALSE
      BY <1>0, <1>6, <2>2 DEF SocketCloses, TypeOK
    <3>3. \/ reconnectAttempts'[c] = reconnectAttempts[c]
          \/ /\ shouldReconnect[c] /\ reconnectAttempts[c] < MaxAttempts
             /\ reconnectAttempts'[c] = reconnectAttempts[c] + 1
      BY <1>0, <1>6, <2>2 DEF SocketCloses, ScheduleReconnect, TypeOK
    <3> QED BY <3>2, <3>3 DEF Link!Fall
  <2>3. CASE owner[s] # c
    BY <1>0, <1>6, <2>3 DEF SocketCloses, ScheduleReconnect, TypeOK
  <2> QED BY <2>2, <2>3
<1>7. ASSUME NEW s \in Sockets, PeerCloses(s) \/ Greeted(s) PROVE UNCHANGED Link(c)!vars
  BY <1>7 DEF PeerCloses, Greeted, linkVars
<1>8. ASSUME NEW s \in Sockets, GreetedTooEarly(s) PROVE Link(c)!Restart
  BY <1>8 DEF GreetedTooEarly, Nothing, Zero, Link!Restart
<1>9. ASSUME NEW s \in Sockets, AuthAccepted(s) PROVE Link(c)!Rise \/ UNCHANGED Link(c)!vars
  BY <1>0, <1>9 DEF AuthAccepted, Link!Rise, TypeOK
<1>10. ASSUME NEW s \in Sockets, AuthRefused(s) PROVE Link(c)!Stop \/ UNCHANGED Link(c)!vars
  BY <1>0, <1>10 DEF AuthRefused, Link!Stop, TypeOK
<1>11. ASSUME NEW symbols \in SUBSET Symbols, Subscribe(symbols) \/ Unsubscribe(symbols)
       PROVE  UNCHANGED Link(c)!vars
  BY <1>11 DEF Subscribe, Unsubscribe, linkVars
<1>12. CASE UNCHANGED vars
  BY <1>12 DEF vars, linkVars
<1> QED BY <1>1, <1>2, <1>3, <1>4, <1>5, <1>6, <1>7, <1>8, <1>9, <1>10, <1>11, <1>12 DEF Next

\* Every client keeps the contract of a ticker that reconnects by itself: attempts are spent
\* only while it is wanted and has any left, and only an accepted login gives them back.
THEOREM MassiveImplementsLink == Spec => ImplementsLink
<1>1. Init => \A c \in Classes : Link(c)!Init
  BY DEF Init, Link!Init, Nothing, Zero
<1>2. IInv /\ [Next]_vars => [\A c \in Classes : [Link(c)!Next]_(Link(c)!vars)]_vars
  BY ClientLinkStep
<1> QED BY <1>1, <1>2, MassiveInductive, PTL DEF Spec, ImplementsLink

\* The same, of one client, as the abstract specification has it.
THEOREM EveryClientIsALink ==
    ASSUME NEW c \in Classes
    PROVE  Spec => Link(c)!SafeSpec
<1>1. Init => Link(c)!Init
  BY DEF Init, Link!Init, Nothing, Zero
<1>2. IInv /\ [Next]_vars => [Link(c)!Next]_(Link(c)!vars)
  BY ClientLinkStep
<1> QED BY <1>1, <1>2, MassiveInductive, PTL DEF Spec, Link!SafeSpec

=============================================================================
