------------------------- MODULE BinanceStreamProofs -------------------------
(***************************************************************************)
(* Proofs about BinanceStream.  Type correctness, NothingMissing and        *)
(* LinkIsBacked are inductive together; from them every step of the client  *)
(* is a step of TickerLink or changes nothing TickerLink sees.              *)
(***************************************************************************)
EXTENDS BinanceStream, FiniteSetTheorems, TLAPS

IInv == TypeOK /\ NothingMissing /\ LinkIsBacked

\* What truncation leaves fits beside what is subscribed.
LEMMA TruncatedFits ==
    ASSUME TypeOK, NEW symbols \in SUBSET Symbols, NEW kept \in Truncated(symbols)
    PROVE  /\ kept \subseteq symbols
           /\ Cardinality(subscribedSymbols \cup kept) <= Cap
<1> USE SymbolsAssumption, LimitsAssumption
<1> DEFINE overflow == Cardinality(subscribedSymbols) + Cardinality(symbols) - Cap
<1>1. kept \subseteq symbols
  BY DEF Truncated
<1>2. IsFiniteSet(subscribedSymbols) /\ IsFiniteSet(symbols) /\ IsFiniteSet(kept)
  BY <1>1, FS_Subset DEF TypeOK
<1>3. /\ Cardinality(subscribedSymbols) \in Nat
      /\ Cardinality(symbols) \in Nat
      /\ Cardinality(kept) \in Nat
      /\ Cardinality(subscribedSymbols \cap kept) \in Nat
  BY <1>2, FS_CardinalityType, FS_Intersection
<1>4. Cardinality(subscribedSymbols \cup kept)
        = Cardinality(subscribedSymbols) + Cardinality(kept)
            - Cardinality(subscribedSymbols \cap kept)
  BY <1>2, FS_Union
<1>5. Cardinality(subscribedSymbols) + Cardinality(kept) <= Cap
  <2>1. CASE overflow > 0
    <3>1. Cardinality(kept) = Cardinality(symbols) - overflow
      BY <2>1 DEF Truncated
    <3> QED BY <3>1, <1>3
  <2>2. CASE ~(overflow > 0)
    <3>1. kept = symbols
      BY <2>2 DEF Truncated
    <3> QED BY <2>2, <3>1, <1>3
  <2> QED BY <2>1, <2>2
<1> QED BY <1>1, <1>3, <1>4, <1>5

LEMMA BinanceInit == Init => IInv
<1> SUFFICES ASSUME Init PROVE IInv
  OBVIOUS
<1>1. Cardinality({}) = 0
  BY FS_EmptySet
<1>2. TypeOK
  <2>1. ~timerHeld /\ timers \in Nat /\ timerHeld \in BOOLEAN
    BY DEF Init
  <2>2. reconnectAttempts \in 0 .. MaxAttempts /\ Cardinality(subscribedSymbols) <= Cap
    BY <1>1, LimitsAssumption DEF Init
  <2> QED BY <2>1, <2>2 DEF Init, TypeOK
<1>3. NothingMissing /\ LinkIsBacked
  BY DEF Init, NothingMissing, Speaks, LinkIsBacked, ConnectedHasSocket, LostIsRetried
<1> QED BY <1>2, <1>3 DEF IInv

\* Types survive every step; only subscribe can threaten the cap.
LEMMA BinanceType == IInv /\ [Next]_vars => TypeOK'
<1> SUFFICES ASSUME IInv, [Next]_vars PROVE TypeOK'
  OBVIOUS
<1>0. TypeOK
  BY DEF IInv
<1> USE LimitsAssumption, SocketsAssumption
<1>1. CASE Connect
  BY <1>0, <1>1 DEF Connect, OpenConnection, Closed, TypeOK, timerVars
<1>2. CASE Disconnect
  <2>1. timers' \in Nat
    BY <1>0, <1>2 DEF Disconnect, TypeOK
  <2>2. ~timerHeld' /\ timerHeld' \in BOOLEAN
    BY <1>2 DEF Disconnect
  <2> QED BY <1>0, <1>2, <2>1, <2>2 DEF Disconnect, TypeOK
<1>3. CASE TimerFires
  <2>1. timers' \in Nat
    BY <1>0, <1>3 DEF TimerFires, TypeOK
  <2>2. ~timerHeld' /\ timerHeld' \in BOOLEAN
    BY <1>3 DEF TimerFires
  <2> QED BY <1>0, <1>3, <2>1, <2>2 DEF TimerFires, OpenConnection, Closed, TypeOK
<1>4. ASSUME NEW s \in Sockets, Opened(s) PROVE TypeOK'
  BY <1>0, <1>4 DEF Opened, Sent, TypeOK, timerVars
<1>5. ASSUME NEW s \in Sockets, SocketCloses(s) PROVE TypeOK'
  <2>1. /\ reconnectAttempts' \in 0 .. MaxAttempts
        /\ timers' \in Nat
        /\ timerHeld' \in BOOLEAN
        /\ timerHeld' => timers' > 0
    <3>1. CASE shouldReconnect /\ reconnectAttempts < MaxAttempts
      <4>1. /\ reconnectAttempts' = reconnectAttempts + 1
            /\ timers' = timers + 1
            /\ timerHeld' = TRUE
        BY <1>5, <3>1 DEF SocketCloses, ScheduleReconnect
      <4>2. timers' \in Nat /\ timers' > 0 /\ reconnectAttempts' \in 0 .. MaxAttempts
        BY <1>0, <3>1, <4>1 DEF TypeOK
      <4> QED BY <4>1, <4>2
    <3>2. CASE ~(shouldReconnect /\ reconnectAttempts < MaxAttempts)
      <4>1. UNCHANGED <<reconnectAttempts, timerVars>>
        BY <1>5, <3>2 DEF SocketCloses, ScheduleReconnect
      <4> QED BY <1>0, <4>1 DEF TypeOK, timerVars
    <3> QED BY <3>1, <3>2
  <2> QED BY <1>0, <1>5, <2>1 DEF SocketCloses, TypeOK
<1>6. ASSUME NEW s \in Sockets, PeerCloses(s) PROVE TypeOK'
  BY <1>0, <1>6 DEF PeerCloses, TypeOK, timerVars, linkVars
<1>7. ASSUME NEW symbols \in SUBSET Symbols, Subscribe(symbols) PROVE TypeOK'
  <2>1. PICK kept \in Truncated(symbols) : SubscribeTo(kept)
    BY <1>7 DEF Subscribe
  <2>2. kept \subseteq symbols /\ Cardinality(subscribedSymbols \cup kept) <= Cap
    BY <1>0, TruncatedFits
  <2> QED BY <1>0, <2>1, <2>2 DEF SubscribeTo, Sent, TypeOK, timerVars, linkVars
<1>8. ASSUME NEW symbols \in SUBSET Symbols, Unsubscribe(symbols) PROVE TypeOK'
  <2>1. IsFiniteSet(subscribedSymbols)
    BY <1>0, SymbolsAssumption, FS_Subset DEF TypeOK
  <2>2. subscribedSymbols' \subseteq subscribedSymbols
    BY <1>8 DEF Unsubscribe
  <2>3. /\ Cardinality(subscribedSymbols') <= Cardinality(subscribedSymbols)
        /\ Cardinality(subscribedSymbols') \in Nat
        /\ Cardinality(subscribedSymbols) \in Nat
    BY <2>1, <2>2, FS_Subset, FS_CardinalityType
  <2>4. Cardinality(subscribedSymbols') <= Cap
    BY <1>0, <2>3 DEF TypeOK
  <2>5. carried' \in [Sockets -> SUBSET Symbols]
    BY <1>0, <1>8 DEF Unsubscribe, TypeOK
  <2> QED BY <1>0, <1>8, <2>2, <2>4, <2>5 DEF Unsubscribe, TypeOK, timerVars, linkVars
<1>9. CASE UNCHANGED vars
  BY <1>0, <1>9 DEF vars, linkVars, timerVars, TypeOK
<1> QED BY <1>1, <1>2, <1>3, <1>4, <1>5, <1>6, <1>7, <1>8, <1>9 DEF Next

LEMMA BinanceMissing == IInv /\ [Next]_vars => NothingMissing'
<1> SUFFICES ASSUME IInv, [Next]_vars, Speaks'
             PROVE  subscribedSymbols' \subseteq carried[ws]'
  BY DEF NothingMissing
<1>0. TypeOK /\ NothingMissing /\ ws' # NoSocket /\ isConnected' /\ socket'[ws'] = "open"
  BY DEF IInv, Speaks
<1> USE SocketsAssumption
<1>1. CASE Connect
  BY <1>0, <1>1 DEF Connect, OpenConnection, Closed, TypeOK
<1>2. CASE Disconnect
  BY <1>0, <1>2 DEF Disconnect
<1>3. CASE TimerFires
  BY <1>0, <1>3 DEF TimerFires, OpenConnection, Closed, TypeOK
<1>4. ASSUME NEW s \in Sockets, Opened(s) PROVE subscribedSymbols' \subseteq carried[ws]'
  <2>1. ws' = ws /\ ws \in Sockets /\ socket'[ws] = "open"
    BY <1>0, <1>4 DEF Opened, TypeOK
  <2>2. carried'[ws] = carried[ws] \cup subscribedSymbols
    BY <1>4, <2>1 DEF Opened, Sent
  <2> QED BY <1>4, <2>1, <2>2 DEF Opened
<1>5. ASSUME NEW s \in Sockets, SocketCloses(s) PROVE FALSE
  BY <1>0, <1>5 DEF SocketCloses
<1>6. ASSUME NEW s \in Sockets, PeerCloses(s) PROVE subscribedSymbols' \subseteq carried[ws]'
  BY <1>0, <1>6 DEF PeerCloses, NothingMissing, Speaks, TypeOK, linkVars
<1>7. ASSUME NEW symbols \in SUBSET Symbols, Subscribe(symbols)
      PROVE  subscribedSymbols' \subseteq carried[ws]'
  <2>1. PICK kept \in Truncated(symbols) : SubscribeTo(kept)
    BY <1>7 DEF Subscribe
  <2>2. Speaks /\ ws' = ws /\ ws \in Sockets
    BY <1>0, <2>1 DEF SubscribeTo, linkVars, Speaks, TypeOK
  <2>3. carried'[ws] = carried[ws] \cup kept
    BY <2>1, <2>2 DEF SubscribeTo, Sent, Speaks
  <2> QED BY <1>0, <2>1, <2>2, <2>3 DEF SubscribeTo, NothingMissing
<1>8. ASSUME NEW symbols \in SUBSET Symbols, Unsubscribe(symbols)
      PROVE  subscribedSymbols' \subseteq carried[ws]'
  <2>1. Speaks /\ ws' = ws /\ ws \in Sockets
    BY <1>0, <1>8 DEF Unsubscribe, linkVars, Speaks, TypeOK
  <2> QED BY <1>0, <1>8, <2>1 DEF Unsubscribe, NothingMissing, TypeOK
<1>9. CASE UNCHANGED vars
  BY <1>0, <1>9 DEF vars, linkVars, NothingMissing, Speaks
<1> QED BY <1>1, <1>2, <1>3, <1>4, <1>5, <1>6, <1>7, <1>8, <1>9 DEF Next

LEMMA BinanceBacked == IInv /\ [Next]_vars => LinkIsBacked'
<1> SUFFICES ASSUME IInv, [Next]_vars PROVE LinkIsBacked'
  OBVIOUS
<1>0. TypeOK /\ ConnectedHasSocket /\ LostIsRetried
  BY DEF IInv, LinkIsBacked
<1> USE SocketsAssumption, LimitsAssumption
<1>1. CASE Connect
  <2>1. PICK s \in Sockets : socket[s] = "closed" /\ socket' = [socket EXCEPT ![s] = "connecting"]
    BY <1>1 DEF Connect, OpenConnection, Closed
  <2>2. s \notin Closed'
    BY <1>0, <2>1 DEF Closed, TypeOK
  <2>3. ConnectedHasSocket'
    BY <1>0, <1>1, <2>1 DEF Connect, ConnectedHasSocket, TypeOK
  <2> QED BY <2>2, <2>3 DEF LinkIsBacked, LostIsRetried
<1>2. CASE Disconnect
  BY <1>2 DEF Disconnect, LinkIsBacked, ConnectedHasSocket, LostIsRetried
<1>3. CASE TimerFires
  <2>1. PICK s \in Sockets : socket[s] = "closed" /\ socket' = [socket EXCEPT ![s] = "connecting"]
    BY <1>3 DEF TimerFires, OpenConnection, Closed
  <2>2. s \notin Closed'
    BY <1>0, <2>1 DEF Closed, TypeOK
  <2>3. ConnectedHasSocket'
    BY <1>0, <1>3, <2>1 DEF TimerFires, ConnectedHasSocket, TypeOK
  <2> QED BY <2>2, <2>3 DEF LinkIsBacked, LostIsRetried
<1>4. ASSUME NEW s \in Sockets, Opened(s) PROVE LinkIsBacked'
  <2>1. socket'[s] = "open"
    BY <1>0, <1>4 DEF Opened, TypeOK
  <2> QED BY <2>1 DEF LinkIsBacked, ConnectedHasSocket, LostIsRetried, Closed
<1>5. ASSUME NEW s \in Sockets, SocketCloses(s) PROVE LinkIsBacked'
  <2>1. ConnectedHasSocket'
    BY <1>5 DEF SocketCloses, ConnectedHasSocket
  <2>2. shouldReconnect' => timers' > 0 \/ reconnectAttempts' = MaxAttempts
    BY <1>0, <1>5 DEF SocketCloses, ScheduleReconnect, TypeOK, timerVars
  <2> QED BY <2>1, <2>2 DEF LinkIsBacked, LostIsRetried
<1>6. ASSUME NEW s \in Sockets, PeerCloses(s) PROVE LinkIsBacked'
  <2>1. socket'[s] = "closing"
    BY <1>0, <1>6 DEF PeerCloses, TypeOK
  <2> QED BY <2>1 DEF LinkIsBacked, ConnectedHasSocket, LostIsRetried, Closed
<1>7. ASSUME NEW symbols \in SUBSET Symbols, Subscribe(symbols) PROVE LinkIsBacked'
  BY <1>0, <1>7 DEF Subscribe, SubscribeTo, linkVars, timerVars, LinkIsBacked,
     ConnectedHasSocket, LostIsRetried, Closed
<1>8. ASSUME NEW symbols \in SUBSET Symbols, Unsubscribe(symbols) PROVE LinkIsBacked'
  BY <1>0, <1>8 DEF Unsubscribe, linkVars, timerVars, LinkIsBacked,
     ConnectedHasSocket, LostIsRetried, Closed
<1>9. CASE UNCHANGED vars
  BY <1>0, <1>9 DEF vars, linkVars, timerVars, LinkIsBacked, ConnectedHasSocket,
     LostIsRetried, Closed
<1> QED BY <1>1, <1>2, <1>3, <1>4, <1>5, <1>6, <1>7, <1>8, <1>9 DEF Next

LEMMA BinanceInductive == Spec => []IInv
<1>1. IInv /\ [Next]_vars => IInv'
  BY BinanceType, BinanceMissing, BinanceBacked DEF IInv
<1> QED BY BinanceInit, <1>1, PTL DEF Spec

\* The client's state always has its type and never tracks more symbols than one
\* connection may carry, however subscribe calls overlap with what is there.
THEOREM BinanceTypeOK == Spec => []TypeOK
<1>1. IInv => TypeOK
  BY DEF IInv
<1> QED BY BinanceInductive, <1>1, PTL

\* A connected client's open socket streams everything subscribed, through any
\* interleaving of the handlers of old and new sockets.
THEOREM BinanceNothingMissing == Spec => []NothingMissing
<1>1. IInv => NothingMissing
  BY DEF IInv
<1> QED BY BinanceInductive, <1>1, PTL

\* The connected flag is backed by a socket, and a wanted client that lost all its sockets
\* is about to dial or has used up its attempts.
THEOREM BinanceLinkIsBacked == Spec => []LinkIsBacked
<1>1. IInv => LinkIsBacked
  BY DEF IInv
<1> QED BY BinanceInductive, <1>1, PTL

\* Each step of the client is a step of the ticker contract or invisible to it: attempts
\* are spent only while wanted and down, and restored only by coming up.
THEOREM BinanceImplementsLink == Spec => Link!SafeSpec
<1>1. Init => Link!Init
  BY DEF Init, Link!Init
<1>2. TypeOK /\ [Next]_vars => [Link!Next]_(Link!vars)
  <2> SUFFICES ASSUME TypeOK, [Next]_vars PROVE [Link!Next]_(Link!vars)
    OBVIOUS
  <2> USE DEF Link!Next, Link!vars
  <2>1. CASE Connect
    BY <2>1 DEF Connect, Link!Start
  <2>2. CASE Disconnect
    BY <2>2 DEF Disconnect, Link!Stop
  <2>3. CASE TimerFires
    BY <2>3 DEF TimerFires
  <2>4. ASSUME NEW s \in Sockets, Opened(s) PROVE Link!Next
    BY <2>4 DEF Opened, Link!Rise
  <2>5. ASSUME NEW s \in Sockets, SocketCloses(s) PROVE Link!Next
    <3>1. reconnectAttempts \in Nat /\ MaxAttempts \in Nat
      BY LimitsAssumption DEF TypeOK
    <3> QED BY <2>5, <3>1 DEF SocketCloses, ScheduleReconnect, timerVars, Link!Fall
  <2>6. ASSUME NEW s \in Sockets, PeerCloses(s) PROVE UNCHANGED Link!vars
    BY <2>6 DEF PeerCloses, linkVars
  <2>7. ASSUME NEW symbols \in SUBSET Symbols, Subscribe(symbols) PROVE UNCHANGED Link!vars
    BY <2>7 DEF Subscribe, SubscribeTo, linkVars
  <2>8. ASSUME NEW symbols \in SUBSET Symbols, Unsubscribe(symbols) PROVE UNCHANGED Link!vars
    BY <2>8 DEF Unsubscribe, linkVars
  <2>9. CASE UNCHANGED vars
    BY <2>9 DEF vars, linkVars
  <2> QED BY <2>1, <2>2, <2>3, <2>4, <2>5, <2>6, <2>7, <2>8, <2>9 DEF Next
<1> QED BY <1>1, <1>2, BinanceTypeOK, PTL DEF Spec, Link!SafeSpec

=============================================================================
