-------------------------- MODULE RequestPathProofs --------------------------
(* A REST request's way to the provider: RequestBatching, for any callers,   *)
(* kinds and chunk size, and the gate its calls pass, ProviderQueue, for any *)
(* instances, callers, interval, jitter and guardrail.                       *)
EXTENDS RequestBatching, ProviderQueue, FiniteSetTheorems, TLAPS

(* What a running batch may do to its promises.                             *)

\* Batch k settles some of its promises and goes on in phase `next`.
BatchMoves(k, fulfilled, rejected, next) ==
    /\ phase[k] \in Running
    /\ fulfilled \cup rejected \subseteq requests[k]
    /\ Settle(fulfilled, rejected)
    /\ requests' = [requests EXCEPT ![k] = requests[k] \ (fulfilled \cup rejected)]
    /\ next \in Running \cup {"idle"}
    /\ next = "idle" => requests[k] = fulfilled \cup rejected
    /\ next # "idle" => fulfilled = {}
    /\ phase' = [phase EXCEPT ![k] = next]
    /\ UNCHANGED <<window, requestKey, provider, pendingRequests, batchProvider>>

\* Continue settles only the promises it is not told to keep, and ends with all of them.
LEMMA ContinueMoves ==
    ASSUME NEW k \in Keys, NEW U, NEW M, TypeOK, phase[k] = "calling", U \subseteq requests[k],
           Continue(k, U, M),
           UNCHANGED <<window, requestKey, provider, pendingRequests, batchProvider>>
    PROVE  \/ BatchMoves(k, U, requests[k] \ U, "idle")
           \/ \E next \in Running : BatchMoves(k, {}, requests[k] \ U, next)
<1>1. CASE todo[k] = {} /\ M = {}
  <2>1. Resolve(k, U)
    BY <1>1 DEF Continue
  <2>2. requests[k] \ (U \cup (requests[k] \ U)) = {}
    OBVIOUS
  <2> QED BY <2>1, <2>2 DEF Resolve, BatchMoves, Running
<1>2. CASE ~(todo[k] = {} /\ M = {})
  <2>1. /\ Settle({}, requests[k] \ U)
        /\ requests' = [requests EXCEPT ![k] = U]
        /\ \/ phase' = [phase EXCEPT ![k] = "calling"]
           \/ phase' = [phase EXCEPT ![k] = "filling"]
    BY <1>2 DEF Continue, CallNext
  <2>2. U = requests[k] \ ({} \cup (requests[k] \ U))
    OBVIOUS
  <2> QED BY <2>1, <2>2 DEF BatchMoves, Running
<1> QED BY <1>1, <1>2

\* It rejects nobody, or a chunk fails and it rejects those whom that concerns.
RejectsTheTouched(k, rejected) ==
    \/ rejected = {} /\ UNCHANGED failed
    \/ /\ rejected = Touched(k, chunk[k])
       /\ failed' = [failed EXCEPT ![k] = @ \cup chunk[k]]

\* Every step of a running batch has that form.
LEMMA RunningBatchMoves ==
    ASSUME NEW k \in Keys, TypeOK,
           ChunkAnswered(k) \/ ChunkFails(k) \/ Filled(k) \/ FallbackOver(k)
    PROVE  \E ful \in SUBSET requests[k], rej \in SUBSET requests[k],
              next \in Running \cup {"idle"} :
              /\ BatchMoves(k, ful, rej, next)
              /\ RejectsTheTouched(k, rej)
              /\ ful \cap rej = {}
<1> DEFINE Goal == \E ful \in SUBSET requests[k], rej \in SUBSET requests[k],
                      next \in Running \cup {"idle"} :
                      /\ BatchMoves(k, ful, rej, next)
                      /\ RejectsTheTouched(k, rej)
                      /\ ful \cap rej = {}
<1>1. ASSUME NEW U \in SUBSET requests[k], RejectsTheTouched(k, requests[k] \ U),
             \/ BatchMoves(k, U, requests[k] \ U, "idle")
             \/ \E next \in Running : BatchMoves(k, {}, requests[k] \ U, next)
      PROVE  Goal
  <2>1. CASE BatchMoves(k, U, requests[k] \ U, "idle")
    <3>1. U \cap (requests[k] \ U) = {}
      OBVIOUS
    <3> QED BY <2>1, <3>1, <1>1
  <2>2. CASE \E next \in Running : BatchMoves(k, {}, requests[k] \ U, next)
    BY <2>2, <1>1
  <2> QED BY <1>1, <2>1, <2>2
<1>2. ASSUME Resolve(k, requests[k]), phase[k] \in Running,
             UNCHANGED <<window, requestKey, provider, pendingRequests, batchProvider, failed>>
      PROVE  Goal
  <2>1. requests[k] \ requests[k] = {} /\ requests[k] \cup {} = requests[k]
    OBVIOUS
  <2>2. BatchMoves(k, requests[k], {}, "idle")
    BY <1>2, <2>1 DEF Resolve, BatchMoves
  <2>3. RejectsTheTouched(k, {}) /\ requests[k] \cap {} = {}
    BY <1>2 DEF RejectsTheTouched
  <2> QED BY <2>2, <2>3
<1>3. CASE ChunkAnswered(k)
  <2>1. PICK M : Continue(k, requests[k], M)
    BY <1>3 DEF ChunkAnswered
  <2>2. /\ phase[k] = "calling"
        /\ UNCHANGED <<window, requestKey, provider, pendingRequests, batchProvider>>
        /\ RejectsTheTouched(k, requests[k] \ requests[k])
    BY <1>3 DEF ChunkAnswered, RejectsTheTouched
  <2>3. requests[k] \subseteq requests[k]
    OBVIOUS
  <2>4. \/ BatchMoves(k, requests[k], requests[k] \ requests[k], "idle")
        \/ \E next \in Running : BatchMoves(k, {}, requests[k] \ requests[k], next)
    BY <2>1, <2>2, <2>3, ContinueMoves
  <2> QED BY <2>2, <2>3, <2>4, <1>1
<1>4. CASE ChunkFails(k)
  <2> DEFINE U == requests[k] \ Touched(k, chunk[k])
  <2>1. phase[k] = "calling" /\ Continue(k, U, missing[k] \cup Gaps(k))
        /\ UNCHANGED <<window, requestKey, provider, pendingRequests, batchProvider>>
    BY <1>4 DEF ChunkFails
  <2>2. requests[k] \ U = Touched(k, chunk[k])
    BY DEF Touched
  <2>3. RejectsTheTouched(k, requests[k] \ U)
    BY <1>4, <2>2 DEF ChunkFails, RejectsTheTouched
  <2>4. U \subseteq requests[k]
    OBVIOUS
  <2> HIDE DEF U
  <2>5. \/ BatchMoves(k, U, requests[k] \ U, "idle")
        \/ \E next \in Running : BatchMoves(k, {}, requests[k] \ U, next)
    BY <2>1, <2>4, ContinueMoves
  <2> QED BY <2>3, <2>4, <2>5, <1>1
<1>5. CASE Filled(k)
  <2>1. phase[k] = "filling" /\ phase[k] \in Running
        /\ UNCHANGED <<window, requestKey, provider, pendingRequests, batchProvider, failed>>
    BY <1>5 DEF Filled, Running
  <2>2. CASE Resolve(k, requests[k])
    BY <2>1, <2>2, <1>2
  <2>3. CASE phase' = [phase EXCEPT ![k] = "fallback"]
             /\ UNCHANGED <<promise, tokens, requests>>
    <3>1. Settle({}, {})
      BY <2>3 DEF Settle, TypeOK
    <3>2. requests' = [requests EXCEPT ![k] = requests[k] \ ({} \cup {})]
      BY <2>3 DEF TypeOK
    <3>3. BatchMoves(k, {}, {}, "fallback") /\ "fallback" \in Running
      BY <2>1, <2>3, <3>1, <3>2 DEF BatchMoves, Running
    <3>4. RejectsTheTouched(k, {})
      BY <2>1 DEF RejectsTheTouched
    <3> QED BY <3>3, <3>4
  <2> QED BY <1>5, <2>2, <2>3 DEF Filled
<1>6. CASE FallbackOver(k)
  <2>1. phase[k] \in Running /\ Resolve(k, requests[k])
        /\ UNCHANGED <<window, requestKey, provider, pendingRequests, batchProvider, failed>>
    BY <1>6 DEF FallbackOver, Running
  <2> QED BY <2>1, <1>2
<1> QED BY <1>3, <1>4, <1>5, <1>6

-----------------------------------------------------------------------------
(* Types.                                                                   *)

LEMMA BatchingInit == Init => TypeOK
<1> SUFFICES ASSUME Init PROVE TypeOK
  OBVIOUS
<1>1. Cardinality({}) <= MaxBatchSize
  BY FS_EmptySet, MaxBatchSizeAssumption
<1>2. 0 \in Windows
  BY SecondsAssumption DEF Windows
<1> QED BY <1>1, <1>2 DEF Init, TypeOK

\* A chunk is part of what is left and no larger than a call may be.
LEMMA ChunkFits ==
    ASSUME NEW left \in SUBSET Instruments, NEW C \in Chunks(left)
    PROVE  C \in SUBSET Instruments /\ Cardinality(C) <= MaxBatchSize
<1>1. IsFiniteSet(left)
  BY InstrumentsAssumption, FS_Subset
<1>2. Cardinality(left) \in Nat
  BY <1>1, FS_CardinalityType
<1> QED BY <1>2, MaxBatchSizeAssumption DEF Chunks

LEMMA CallNextType ==
    ASSUME NEW k \in Keys, NEW left \in SUBSET Instruments, TypeOK, CallNext(k, left)
    PROVE  /\ phase' \in [Keys -> {"idle", "waiting"} \cup Running]
           /\ todo' \in [Keys -> SUBSET Instruments]
           /\ chunk' \in [Keys -> {C \in SUBSET Instruments : Cardinality(C) <= MaxBatchSize}]
<1>1. PICK C \in Chunks(left) :
         /\ phase' = [phase EXCEPT ![k] = "calling"]
         /\ chunk' = [chunk EXCEPT ![k] = C]
         /\ todo' = [todo EXCEPT ![k] = left \ C]
  BY DEF CallNext
<1>2. C \in SUBSET Instruments /\ Cardinality(C) <= MaxBatchSize
  BY ChunkFits
<1> QED BY <1>1, <1>2 DEF TypeOK, Running

LEMMA SettleType ==
    ASSUME TypeOK, NEW F, NEW R, Settle(F, R)
    PROVE  /\ promise' \in [Callers -> {"none", "pending", "fulfilled", "rejected"}]
           /\ tokens' \in [Callers -> SUBSET Instruments]
BY DEF TypeOK, Settle

LEMMA ResolveType ==
    ASSUME NEW k \in Keys, NEW U, TypeOK, Resolve(k, U),
           UNCHANGED <<window, requestKey, provider, pendingRequests, batchProvider>>,
           failed' \in [Keys -> SUBSET Instruments]
    PROVE  TypeOK'
<1>1. Cardinality({}) <= MaxBatchSize
  BY FS_EmptySet, MaxBatchSizeAssumption
<1>2. /\ promise' \in [Callers -> {"none", "pending", "fulfilled", "rejected"}]
      /\ tokens' \in [Callers -> SUBSET Instruments]
  BY SettleType DEF Resolve
<1> QED BY <1>1, <1>2 DEF TypeOK, Resolve

LEMMA ContinueType ==
    ASSUME NEW k \in Keys, NEW U \in SUBSET requests[k], NEW M \in SUBSET Instruments, TypeOK,
           Continue(k, U, M),
           UNCHANGED <<window, requestKey, provider, pendingRequests, batchProvider>>,
           failed' \in [Keys -> SUBSET Instruments]
    PROVE  TypeOK'
<1>1. CASE todo[k] = {} /\ M = {}
  <2>1. Resolve(k, U)
    BY <1>1 DEF Continue
  <2> QED BY <2>1, ResolveType
<1>2. CASE ~(todo[k] = {} /\ M = {})
  <2>1. /\ Settle({}, requests[k] \ U)
        /\ requests' = [requests EXCEPT ![k] = U]
        /\ missing' = [missing EXCEPT ![k] = M]
    BY <1>2 DEF Continue
  <2>2. /\ promise' \in [Callers -> {"none", "pending", "fulfilled", "rejected"}]
        /\ tokens' \in [Callers -> SUBSET Instruments]
    BY <2>1, SettleType
  <2>3. /\ requests' \in [Keys -> SUBSET Callers]
        /\ missing' \in [Keys -> SUBSET Instruments]
    BY <2>1 DEF TypeOK
  <2>4. /\ phase' \in [Keys -> {"idle", "waiting"} \cup Running]
        /\ todo' \in [Keys -> SUBSET Instruments]
        /\ chunk' \in [Keys -> {C \in SUBSET Instruments : Cardinality(C) <= MaxBatchSize}]
    <3>1. CASE todo[k] # {}
      <4>1. CallNext(k, todo[k])
        BY <1>2, <3>1 DEF Continue
      <4>2. todo[k] \in SUBSET Instruments
        BY DEF TypeOK
      <4> QED BY <4>1, <4>2, CallNextType
    <3>2. CASE todo[k] = {}
      <4>1. /\ phase' = [phase EXCEPT ![k] = "filling"]
            /\ chunk' = [chunk EXCEPT ![k] = {}]
            /\ UNCHANGED todo
        BY <1>2, <3>2 DEF Continue
      <4>2. Cardinality({}) <= MaxBatchSize
        BY FS_EmptySet, MaxBatchSizeAssumption
      <4> QED BY <4>1, <4>2 DEF TypeOK, Running
    <3> QED BY <3>1, <3>2
  <2> QED BY <2>2, <2>3, <2>4 DEF TypeOK
<1> QED BY <1>1, <1>2

LEMMA BatchingTypeStep == TypeOK /\ [Next]_vars => TypeOK'
<1> SUFFICES ASSUME TypeOK, [Next]_vars PROVE TypeOK'
  OBVIOUS
<1>1. ASSUME NEW c \in Callers, NEW kind \in Kinds, NEW ts \in (SUBSET Instruments) \ {{}},
             NEW p \in Providers, Ask(c, kind, ts, p)
      PROVE  TypeOK'
  <2> DEFINE k == <<kind, window>>
  <2>1. k \in Keys
    BY DEF TypeOK, Keys
  <2>2. /\ promise' = [promise EXCEPT ![c] = "pending"]
        /\ requestKey' = [requestKey EXCEPT ![c] = k]
        /\ tokens' = [tokens EXCEPT ![c] = ts]
        /\ provider' = [provider EXCEPT ![c] = p]
        /\ pendingRequests' = [pendingRequests EXCEPT ![k] = @ \cup {c}]
        /\ \/ /\ phase' = [phase EXCEPT ![k] = "waiting"]
              /\ batchProvider' = [batchProvider EXCEPT ![k] = p]
           \/ UNCHANGED <<phase, batchProvider>>
        /\ UNCHANGED <<window, requests, todo, chunk, missing, failed>>
    BY <1>1 DEF Ask
  <2> HIDE DEF k
  <2>3. /\ promise' \in [Callers -> {"none", "pending", "fulfilled", "rejected"}]
        /\ requestKey' \in [Callers -> Keys]
        /\ tokens' \in [Callers -> SUBSET Instruments]
        /\ provider' \in [Callers -> Providers]
    BY <2>1, <2>2 DEF TypeOK
  <2>4. pendingRequests' \in [Keys -> SUBSET Callers]
    BY <2>1, <2>2 DEF TypeOK
  <2>5. /\ phase' \in [Keys -> {"idle", "waiting"} \cup Running]
        /\ batchProvider' \in [Keys -> Providers]
    BY <2>1, <2>2 DEF TypeOK
  <2> QED BY <2>2, <2>3, <2>4, <2>5 DEF TypeOK
<1>2. CASE NextSecond
  <2>1. (window + 1) % Seconds \in Windows
    BY SecondsAssumption DEF TypeOK, Windows
  <2> QED BY <1>2, <2>1 DEF NextSecond, TypeOK, callerVars
<1>3. ASSUME NEW k \in Keys, TimerFires(k) PROVE TypeOK'
  <2>1. UNION {tokens[c] : c \in pendingRequests[k]} \in SUBSET Instruments
    BY DEF TypeOK
  <2>2. /\ phase' \in [Keys -> {"idle", "waiting"} \cup Running]
        /\ todo' \in [Keys -> SUBSET Instruments]
        /\ chunk' \in [Keys -> {C \in SUBSET Instruments : Cardinality(C) <= MaxBatchSize}]
    BY <1>3, <2>1, CallNextType DEF TimerFires
  <2> QED BY <1>3, <2>2 DEF TimerFires, TypeOK, callerVars
<1>4. ASSUME NEW k \in Keys, ChunkAnswered(k) PROVE TypeOK'
  <2>1. PICK S \in SUBSET chunk[k] : Continue(k, requests[k], missing[k] \cup S)
    BY <1>4 DEF ChunkAnswered
  <2>2. missing[k] \cup S \in SUBSET Instruments
    BY DEF TypeOK
  <2>3. UNCHANGED <<window, requestKey, provider, pendingRequests, batchProvider>>
        /\ failed' \in [Keys -> SUBSET Instruments]
    BY <1>4 DEF ChunkAnswered, TypeOK
  <2> QED BY <2>1, <2>2, <2>3, ContinueType
<1>5. ASSUME NEW k \in Keys, ChunkFails(k) PROVE TypeOK'
  <2>1. missing[k] \cup Gaps(k) \in SUBSET Instruments
    BY DEF TypeOK, Gaps
  <2>2. UNCHANGED <<window, requestKey, provider, pendingRequests, batchProvider>>
        /\ failed' \in [Keys -> SUBSET Instruments]
    BY <1>5 DEF ChunkFails, TypeOK
  <2>3. Continue(k, requests[k] \ Touched(k, chunk[k]), missing[k] \cup Gaps(k))
    BY <1>5 DEF ChunkFails
  <2>4. requests[k] \ Touched(k, chunk[k]) \in SUBSET requests[k]
    OBVIOUS
  <2> QED BY <2>1, <2>2, <2>3, <2>4, ContinueType
<1>6. ASSUME NEW k \in Keys, Filled(k) PROVE TypeOK'
  <2>1. UNCHANGED <<window, requestKey, provider, pendingRequests, batchProvider, failed>>
    BY <1>6 DEF Filled
  <2>2. CASE Resolve(k, requests[k])
    <3>1. failed' \in [Keys -> SUBSET Instruments]
      BY <2>1 DEF TypeOK
    <3> QED BY <2>1, <2>2, <3>1, ResolveType
  <2>3. CASE ~Resolve(k, requests[k])
    BY <1>6, <2>1, <2>3 DEF Filled, TypeOK, Running
  <2> QED BY <2>2, <2>3
<1>7. ASSUME NEW k \in Keys, FallbackOver(k) PROVE TypeOK'
  <2>1. UNCHANGED <<window, requestKey, provider, pendingRequests, batchProvider, failed>>
        /\ Resolve(k, requests[k])
    BY <1>7 DEF FallbackOver
  <2>2. failed' \in [Keys -> SUBSET Instruments]
    BY <2>1 DEF TypeOK
  <2> QED BY <2>1, <2>2, ResolveType
<1>8. CASE UNCHANGED vars
  BY <1>8 DEF vars, callerVars, batchVars, TypeOK
<1> QED BY <1>1, <1>2, <1>3, <1>4, <1>5, <1>6, <1>7, <1>8 DEF Next

\* The batching service's variables keep their types, and no call of the provider ever
\* carries more instruments than a batch may.
THEOREM BatchingTypeCorrect == Spec => []TypeOK
<1>1. Init => TypeOK
  BY BatchingInit
<1>2. TypeOK /\ [Next]_vars => TypeOK'
  BY BatchingTypeStep
<1> QED BY <1>1, <1>2, PTL DEF Spec

-----------------------------------------------------------------------------
(* Who owns a promise.                                                      *)

\* What NobodyIsForgotten needs to be inductive: the queue and the running batch of a key
\* are never both in use, and a running batch is not of the current second, so nobody joins
\* it.
BatchesApart ==
    \A k \in Keys :
        /\ phase[k] # "waiting" => pendingRequests[k] = {}
        /\ phase[k] \notin Running => requests[k] = {}
        /\ phase[k] \in Running => k[2] # window

OwnersInv == TypeOK /\ NobodyIsForgotten /\ BatchesApart

LEMMA OwnersAfterMove ==
    ASSUME OwnersInv, NEW k \in Keys, NEW ful, NEW rej, NEW next,
           BatchMoves(k, ful, rej, next)
    PROVE  NobodyIsForgotten' /\ BatchesApart'
<1> DEFINE done == ful \cup rej
<1> USE DEF OwnersInv
<1>1. \A c \in Callers : promise'[c] = IF c \in ful THEN "fulfilled"
                                       ELSE IF c \in rej THEN "rejected" ELSE promise[c]
  BY DEF BatchMoves, Settle
<1>2. \A c \in Callers : promise'[c] = "pending" <=> promise[c] = "pending" /\ c \notin done
  <2>1. done \subseteq requests[k]
    BY DEF BatchMoves
  <2> QED BY <1>1, <2>1 DEF NobodyIsForgotten
<1>3. \A j \in Keys : requests'[j] = IF j = k THEN requests[k] \ done ELSE requests[j]
  BY DEF BatchMoves, TypeOK
<1>4. \A j \in Keys : phase'[j] = IF j = k THEN next ELSE phase[j]
  BY DEF BatchMoves, TypeOK
<1>5. /\ UNCHANGED <<window, requestKey, pendingRequests>>
      /\ phase[k] \in Running
      /\ next \in Running \cup {"idle"}
      /\ done \subseteq requests[k]
      /\ next = "idle" => requests[k] = done
  BY DEF BatchMoves
<1>6. "waiting" \notin Running /\ "idle" \notin Running
  BY DEF Running
<1> HIDE DEF done
<1>7. BatchesApart'
  <2> SUFFICES ASSUME NEW j \in Keys
               PROVE  /\ phase'[j] # "waiting" => pendingRequests'[j] = {}
                      /\ phase'[j] \notin Running => requests'[j] = {}
                      /\ phase'[j] \in Running => j[2] # window'
    BY DEF BatchesApart
  <2>1. CASE j = k
    BY <2>1, <1>3, <1>4, <1>5, <1>6 DEF BatchesApart
  <2>2. CASE j # k
    BY <2>2, <1>3, <1>4, <1>5 DEF BatchesApart
  <2> QED BY <2>1, <2>2
<1>8. ASSUME NEW c \in Callers, promise'[c] = "pending"
      PROVE  \/ phase'[requestKey'[c]] = "waiting" /\ c \in pendingRequests'[requestKey'[c]]
             \/ phase'[requestKey'[c]] \in Running /\ c \in requests'[requestKey'[c]]
  <2>1. requestKey[c] \in Keys
    BY DEF TypeOK
  <2>2. promise[c] = "pending" /\ c \notin done
    BY <1>2, <1>8
  <2>3. CASE requestKey[c] = k
    <3>1. c \in requests[k]
      BY <2>2, <2>3, <1>5, <1>6 DEF NobodyIsForgotten
    <3>2. next # "idle"
      BY <3>1, <2>2, <1>5
    <3> QED BY <3>1, <3>2, <2>2, <2>3, <1>3, <1>4, <1>5
  <2>4. CASE requestKey[c] # k
    BY <2>1, <2>2, <2>4, <1>3, <1>4, <1>5 DEF NobodyIsForgotten
  <2> QED BY <2>3, <2>4
<1>9. ASSUME NEW j \in Keys, NEW c \in pendingRequests'[j] \cup requests'[j]
      PROVE  promise'[c] = "pending" /\ requestKey'[c] = j
  <2>1. c \in pendingRequests[j] \cup requests[j]
    BY <1>3, <1>5
  <2>2. promise[c] = "pending" /\ requestKey[c] = j /\ c \in Callers
    BY <2>1 DEF NobodyIsForgotten, TypeOK
  <2>3. c \notin done
    <3>1. CASE j = k
      BY <3>1, <1>3, <1>5, <1>6 DEF BatchesApart
    <3>2. CASE j # k
      BY <3>2, <2>2, <1>5 DEF NobodyIsForgotten
    <3> QED BY <3>1, <3>2
  <2> QED BY <2>2, <2>3, <1>2, <1>5
<1> QED BY <1>7, <1>8, <1>9 DEF NobodyIsForgotten

LEMMA OwnersInit == Init => NobodyIsForgotten /\ BatchesApart
BY DEF Init, NobodyIsForgotten, BatchesApart, Running

\* Whoever asks joins the batch of the current second, which has not started.
LEMMA OwnersAsk ==
    ASSUME OwnersInv, TypeOK', NEW c \in Callers, NEW kind \in Kinds, NEW ts, NEW p,
           Ask(c, kind, ts, p)
    PROVE  NobodyIsForgotten' /\ BatchesApart'
<1> DEFINE k == <<kind, window>>
<1> USE DEF OwnersInv
<1>1. k \in Keys
  BY DEF TypeOK, Keys
<1>2. /\ promise[c] # "pending"
      /\ promise' = [promise EXCEPT ![c] = "pending"]
      /\ requestKey' = [requestKey EXCEPT ![c] = k]
      /\ pendingRequests' = [pendingRequests EXCEPT ![k] = @ \cup {c}]
      /\ phase[k] \in {"idle", "waiting"}
      /\ phase' = [phase EXCEPT ![k] = "waiting"]
      /\ UNCHANGED <<window, requests>>
  BY <1>1 DEF Ask, TypeOK
<1> HIDE DEF k
<1>3. /\ \A d \in Callers : promise'[d] = IF d = c THEN "pending" ELSE promise[d]
      /\ \A d \in Callers : requestKey'[d] = IF d = c THEN k ELSE requestKey[d]
  BY <1>2 DEF TypeOK
<1>4. /\ \A j \in Keys : pendingRequests'[j] =
            IF j = k THEN pendingRequests[k] \cup {c} ELSE pendingRequests[j]
      /\ \A j \in Keys : phase'[j] = IF j = k THEN "waiting" ELSE phase[j]
  BY <1>1, <1>2 DEF TypeOK
<1>5. "waiting" \notin Running /\ "idle" \notin Running
  BY DEF Running
<1>6. BatchesApart'
  BY <1>1, <1>2, <1>4, <1>5 DEF BatchesApart
<1>7. ASSUME NEW d \in Callers, promise'[d] = "pending"
      PROVE  \/ phase'[requestKey'[d]] = "waiting" /\ d \in pendingRequests'[requestKey'[d]]
             \/ phase'[requestKey'[d]] \in Running /\ d \in requests'[requestKey'[d]]
  <2>1. CASE d = c
    BY <2>1, <1>1, <1>3, <1>4
  <2>2. CASE d # c
    <3>1. promise[d] = "pending" /\ requestKey'[d] = requestKey[d] /\ requestKey[d] \in Keys
      BY <2>2, <1>3, <1>7 DEF TypeOK
    <3>2. \/ phase[requestKey[d]] = "waiting" /\ d \in pendingRequests[requestKey[d]]
          \/ phase[requestKey[d]] \in Running /\ d \in requests[requestKey[d]]
      BY <3>1 DEF NobodyIsForgotten
    <3> QED BY <3>1, <3>2, <1>2, <1>4, <1>5
  <2> QED BY <2>1, <2>2
<1>8. ASSUME NEW j \in Keys, NEW d \in pendingRequests'[j] \cup requests'[j]
      PROVE  promise'[d] = "pending" /\ requestKey'[d] = j
  <2>1. CASE d = c /\ j = k
    BY <2>1, <1>3
  <2>2. CASE ~(d = c /\ j = k)
    <3>1. d \in pendingRequests[j] \cup requests[j]
      BY <2>2, <1>2, <1>4
    <3>2. promise[d] = "pending" /\ requestKey[d] = j /\ d \in Callers
      BY <3>1 DEF NobodyIsForgotten, TypeOK
    <3> QED BY <3>2, <1>2, <1>3
  <2> QED BY <2>1, <2>2
<1> QED BY <1>6, <1>7, <1>8 DEF NobodyIsForgotten

\* The second that begins has no batch left from the last time its number was used.
LEMMA OwnersNextSecond ==
    ASSUME OwnersInv, NextSecond
    PROVE  NobodyIsForgotten' /\ BatchesApart'
<1> USE DEF OwnersInv
<1> DEFINE next == (window + 1) % Seconds
<1>1. /\ \A kind \in Kinds : phase[<<kind, next>>] = "idle"
      /\ window' = next
      /\ UNCHANGED <<promise, requestKey, pendingRequests, phase, requests>>
  BY DEF NextSecond, callerVars
<1> HIDE DEF next
<1>2. NobodyIsForgotten'
  BY <1>1 DEF NobodyIsForgotten
<1>3. ASSUME NEW k \in Keys, phase[k] \in Running PROVE k[2] # next
  <2> SUFFICES ASSUME k[2] = next PROVE FALSE
    OBVIOUS
  <2>1. k = <<k[1], next>> /\ k[1] \in Kinds
    BY DEF Keys
  <2>2. phase[k] = "idle"
    BY <2>1, <1>1
  <2> QED BY <2>2, <1>3 DEF Running
<1> QED BY <1>1, <1>2, <1>3 DEF BatchesApart

\* The batch takes over all who wait for it.
LEMMA OwnersTimerFires ==
    ASSUME OwnersInv, NEW k \in Keys, TimerFires(k)
    PROVE  NobodyIsForgotten' /\ BatchesApart'
<1> USE DEF OwnersInv
<1>1. /\ phase[k] = "waiting"
      /\ window # k[2]
      /\ UNCHANGED <<window, promise, requestKey>>
  BY DEF TimerFires, callerVars
<1>2. \A j \in Keys : phase'[j] = IF j = k THEN "calling" ELSE phase[j]
  BY DEF TimerFires, CallNext, TypeOK
<1>3. /\ \A j \in Keys : requests'[j] = IF j = k THEN pendingRequests[k] ELSE requests[j]
      /\ \A j \in Keys : pendingRequests'[j] = IF j = k THEN {} ELSE pendingRequests[j]
  BY DEF TimerFires, TypeOK
<1>4. "calling" \in Running /\ "waiting" \notin Running
  BY DEF Running
<1>5. BatchesApart'
  BY <1>1, <1>2, <1>3, <1>4 DEF BatchesApart
<1>6. ASSUME NEW c \in Callers, promise'[c] = "pending"
      PROVE  \/ phase'[requestKey'[c]] = "waiting" /\ c \in pendingRequests'[requestKey'[c]]
             \/ phase'[requestKey'[c]] \in Running /\ c \in requests'[requestKey'[c]]
  <2>1. requestKey[c] \in Keys /\ requestKey'[c] = requestKey[c]
    BY <1>1 DEF TypeOK
  <2>2. \/ phase[requestKey[c]] = "waiting" /\ c \in pendingRequests[requestKey[c]]
        \/ phase[requestKey[c]] \in Running /\ c \in requests[requestKey[c]]
    BY <1>1, <1>6 DEF NobodyIsForgotten
  <2> QED BY <2>1, <2>2, <1>1, <1>2, <1>3, <1>4
<1>7. ASSUME NEW j \in Keys, NEW c \in pendingRequests'[j] \cup requests'[j]
      PROVE  promise'[c] = "pending" /\ requestKey'[c] = j
  <2>1. c \in pendingRequests[j] \cup requests[j]
    BY <1>3, <1>7
  <2> QED BY <2>1, <1>1 DEF NobodyIsForgotten
<1> QED BY <1>5, <1>6, <1>7 DEF NobodyIsForgotten

LEMMA OwnersStep == OwnersInv /\ [Next]_vars => OwnersInv'
<1> SUFFICES ASSUME OwnersInv, [Next]_vars PROVE OwnersInv'
  OBVIOUS
<1>1. TypeOK'
  BY BatchingTypeStep DEF OwnersInv
<1>2. ASSUME NEW c \in Callers, NEW kind \in Kinds, NEW ts \in (SUBSET Instruments) \ {{}},
             NEW p \in Providers, Ask(c, kind, ts, p)
      PROVE  NobodyIsForgotten' /\ BatchesApart'
  BY <1>1, <1>2, OwnersAsk
<1>3. CASE NextSecond
  BY <1>1, <1>3, OwnersNextSecond DEF OwnersInv
<1>4. ASSUME NEW k \in Keys, TimerFires(k) PROVE NobodyIsForgotten' /\ BatchesApart'
  BY <1>4, OwnersTimerFires
<1>5. ASSUME NEW k \in Keys, ChunkAnswered(k) \/ ChunkFails(k) \/ Filled(k) \/ FallbackOver(k)
      PROVE  NobodyIsForgotten' /\ BatchesApart'
  <2>1. PICK ful \in SUBSET requests[k], rej \in SUBSET requests[k],
             next \in Running \cup {"idle"} : BatchMoves(k, ful, rej, next)
    BY <1>5, RunningBatchMoves DEF OwnersInv
  <2> QED BY <2>1, OwnersAfterMove
<1>6. CASE UNCHANGED vars
  <2>1. NobodyIsForgotten' /\ BatchesApart'
    BY <1>6 DEF vars, callerVars, batchVars, OwnersInv, NobodyIsForgotten, BatchesApart
  <2> QED BY <1>1, <2>1 DEF OwnersInv
<1> QED BY <1>1, <1>2, <1>3, <1>4, <1>5, <1>6 DEF Next, OwnersInv

\* Every unsettled promise is owned by exactly one batch, which waits with its timer set or
\* runs, through any interleaving of requests, seconds, chunk results and enrichments; no
\* batch serves a promise that is settled.
THEOREM BatchingForgetsNobody == Spec => []NobodyIsForgotten
<1>1. Init => OwnersInv
  BY BatchingInit, OwnersInit DEF OwnersInv
<1>2. OwnersInv /\ [Next]_vars => OwnersInv'
  BY OwnersStep
<1>3. OwnersInv => NobodyIsForgotten
  BY DEF OwnersInv
<1> QED BY <1>1, <1>2, <1>3, PTL DEF Spec

-----------------------------------------------------------------------------
(* Failures.                                                                *)

\* A batch that has not started has no failed chunk, and whoever a batch still serves has
\* no instrument in a chunk that failed.
Unharmed ==
    \A k \in Keys :
        /\ phase[k] = "waiting" \/ k[2] = window => failed[k] = {}
        /\ \A c \in requests[k] : tokens[c] \cap failed[k] = {}

FailuresInv == OwnersInv /\ Unharmed

\* What a step does to the callers that were waiting for it.
SettledLocally ==
    \A c \in Callers : promise[c] = "pending" =>
        /\ promise'[c] = "rejected" => tokens[c] \cap failed'[requestKey[c]] # {}
        /\ promise'[c] = "fulfilled" => tokens[c] \cap failed'[requestKey[c]] = {}

LEMMA BatchStepIsLocal ==
    ASSUME FailuresInv, NEW k \in Keys,
           ChunkAnswered(k) \/ ChunkFails(k) \/ Filled(k) \/ FallbackOver(k)
    PROVE  Unharmed' /\ SettledLocally
<1> USE DEF FailuresInv, OwnersInv
<1>1. PICK ful \in SUBSET requests[k], rej \in SUBSET requests[k],
           next \in Running \cup {"idle"} :
           /\ BatchMoves(k, ful, rej, next)
           /\ RejectsTheTouched(k, rej)
           /\ ful \cap rej = {}
  BY RunningBatchMoves
<1>2. /\ \A c \in Callers : promise'[c] = IF c \in ful THEN "fulfilled"
                                          ELSE IF c \in rej THEN "rejected" ELSE promise[c]
      /\ \A c \in Callers : tokens'[c] = IF c \in ful \cup rej THEN {} ELSE tokens[c]
      /\ UNCHANGED window
      /\ phase[k] \in Running
  BY <1>1 DEF BatchMoves, Settle
<1>3. /\ \A j \in Keys : requests'[j] = IF j = k THEN requests[k] \ (ful \cup rej)
                                        ELSE requests[j]
      /\ \A j \in Keys : phase'[j] = IF j = k THEN next ELSE phase[j]
  BY <1>1 DEF BatchMoves, TypeOK
<1>4. next # "waiting"
  BY DEF Running
<1>5. /\ \A c \in requests[k] \ rej : tokens[c] \cap failed'[k] = {}
      /\ \A c \in rej : tokens[c] \cap failed'[k] # {}
      /\ \A j \in Keys \ {k} : failed'[j] = failed[j]
  <2>1. CASE rej = {} /\ UNCHANGED failed
    BY <2>1 DEF Unharmed
  <2>2. CASE rej = Touched(k, chunk[k]) /\ failed' = [failed EXCEPT ![k] = @ \cup chunk[k]]
    <3>1. /\ failed'[k] = failed[k] \cup chunk[k]
          /\ \A j \in Keys \ {k} : failed'[j] = failed[j]
      BY <2>2 DEF TypeOK
    <3>2. \A c \in requests[k] : tokens[c] \cap failed[k] = {}
      BY DEF Unharmed
    <3>3. rej = {c \in requests[k] : tokens[c] \cap chunk[k] # {}}
      BY <2>2 DEF Touched
    <3> QED BY <3>1, <3>2, <3>3
  <2> QED BY <1>1, <2>1, <2>2 DEF RejectsTheTouched
<1>6. Unharmed'
  <2> SUFFICES ASSUME NEW j \in Keys
               PROVE  /\ phase'[j] = "waiting" \/ j[2] = window' => failed'[j] = {}
                      /\ \A c \in requests'[j] : tokens'[c] \cap failed'[j] = {}
    BY DEF Unharmed
  <2>1. CASE j = k
    <3>1. k[2] # window
      BY <1>2 DEF BatchesApart
    <3>2. requests'[k] \subseteq Callers
      BY <1>3 DEF TypeOK
    <3> QED BY <2>1, <3>1, <3>2, <1>2, <1>3, <1>4, <1>5
  <2>2. CASE j # k
    <3>1. /\ requests'[j] = requests[j] /\ phase'[j] = phase[j] /\ failed'[j] = failed[j]
          /\ requests[j] \subseteq Callers
      BY <2>2, <1>3, <1>5 DEF TypeOK
    <3>2. /\ phase[j] = "waiting" \/ j[2] = window => failed[j] = {}
          /\ \A c \in requests[j] : tokens[c] \cap failed[j] = {}
      BY DEF Unharmed
    <3> QED BY <3>1, <3>2, <1>2
  <2> QED BY <2>1, <2>2
<1>7. SettledLocally
  <2> SUFFICES ASSUME NEW c \in Callers, promise[c] = "pending"
               PROVE  /\ promise'[c] = "rejected" => tokens[c] \cap failed'[requestKey[c]] # {}
                      /\ promise'[c] = "fulfilled" => tokens[c] \cap failed'[requestKey[c]] = {}
    BY DEF SettledLocally
  <2>1. \A d \in requests[k] : requestKey[d] = k
    BY DEF NobodyIsForgotten
  <2>2. CASE c \in ful
    BY <2>1, <2>2, <1>1, <1>2, <1>5
  <2>3. CASE c \in rej
    BY <2>1, <2>3, <1>1, <1>2, <1>5
  <2>4. CASE c \notin ful \cup rej
    BY <2>4, <1>2
  <2> QED BY <2>2, <2>3, <2>4
<1> QED BY <1>6, <1>7

LEMMA FailuresStep == FailuresInv /\ [Next]_vars => FailuresInv' /\ SettledLocally
<1> SUFFICES ASSUME FailuresInv, [Next]_vars PROVE Unharmed' /\ SettledLocally
  BY OwnersStep DEF FailuresInv
<1> USE DEF FailuresInv, OwnersInv
<1>1. ASSUME NEW c \in Callers, NEW kind \in Kinds, NEW ts \in (SUBSET Instruments) \ {{}},
             NEW p \in Providers, Ask(c, kind, ts, p)
      PROVE  Unharmed' /\ SettledLocally
  <2>1. /\ <<kind, window>> \in Keys
        /\ promise[c] # "pending"
        /\ UNCHANGED <<window, requests, failed>>
        /\ \A d \in Callers \ {c} : promise'[d] = promise[d] /\ tokens'[d] = tokens[d]
        /\ \A j \in Keys \ {<<kind, window>>} : phase'[j] = phase[j]
    BY <1>1 DEF Ask, TypeOK, Keys
  <2>2. SettledLocally
    BY <2>1 DEF SettledLocally
  <2>3. \A k \in Keys : requests[k] \subseteq Callers \ {c}
    BY <2>1 DEF NobodyIsForgotten, TypeOK
  <2>4. \A k \in Keys : phase'[k] = "waiting" \/ k[2] = window => failed[k] = {}
    BY <2>1 DEF Unharmed
  <2>5. Unharmed'
    BY <2>1, <2>3, <2>4 DEF Unharmed
  <2> QED BY <2>2, <2>5
<1>2. CASE NextSecond
  <2> DEFINE next == (window + 1) % Seconds
  <2>1. /\ window' = next
        /\ \A k \in Keys : failed'[k] = IF k[2] = next THEN {} ELSE failed[k]
        /\ UNCHANGED <<promise, tokens, phase, requests>>
    BY <1>2 DEF NextSecond, callerVars
  <2> HIDE DEF next
  <2>2. SettledLocally
    BY <2>1 DEF SettledLocally
  <2>3. Unharmed'
    BY <2>1 DEF Unharmed
  <2> QED BY <2>2, <2>3
<1>3. ASSUME NEW k \in Keys, TimerFires(k) PROVE Unharmed' /\ SettledLocally
  <2>1. /\ phase[k] = "waiting"
        /\ UNCHANGED <<window, promise, tokens, failed>>
        /\ \A j \in Keys : phase'[j] = IF j = k THEN "calling" ELSE phase[j]
        /\ \A j \in Keys \ {k} : requests'[j] = requests[j]
    BY <1>3 DEF TimerFires, CallNext, TypeOK, callerVars
  <2>2. failed[k] = {}
    BY <2>1 DEF Unharmed
  <2>3. SettledLocally
    BY <2>1 DEF SettledLocally
  <2>4. Unharmed'
    BY <2>1, <2>2 DEF Unharmed
  <2> QED BY <2>3, <2>4
<1>4. ASSUME NEW k \in Keys, ChunkAnswered(k) \/ ChunkFails(k) \/ Filled(k) \/ FallbackOver(k)
      PROVE  Unharmed' /\ SettledLocally
  BY <1>4, BatchStepIsLocal
<1>5. CASE UNCHANGED vars
  BY <1>5 DEF vars, callerVars, batchVars, Unharmed, SettledLocally
<1> QED BY <1>1, <1>2, <1>3, <1>4, <1>5 DEF Next

\* A failed chunk rejects those who asked for one of its instruments and nobody else, and
\* whoever lost an instrument that way is never answered as if all were well, for any
\* number of requests, chunks and batches.
THEOREM BatchingFailuresAreLocal == Spec => FailuresAreLocal
<1>1. Init => FailuresInv
  <2>1. Init => Unharmed
    BY DEF Init, Unharmed
  <2> QED BY <2>1, BatchingInit, OwnersInit DEF FailuresInv, OwnersInv
<1>2. FailuresInv /\ [Next]_vars => FailuresInv' /\ SettledLocally
  BY FailuresStep
<1>3. SettledLocally =>
        \A c \in Callers : promise[c] = "pending" =>
          LET own == tokens[c] \cap failed'[requestKey[c]]
          IN  /\ promise'[c] = "rejected" => own # {}
              /\ promise'[c] = "fulfilled" => own = {}
  BY DEF SettledLocally
<1> QED BY <1>1, <1>2, <1>3, PTL DEF Spec, FailuresAreLocal

-----------------------------------------------------------------------------
(* Batching keeps the promise of RequestPromises.                           *)

\* What a batch settles is what the group settles, for the chunk lost or for none.
LEMMA BatchSettles ==
    ASSUME FailuresInv, NEW k \in Keys,
           ChunkAnswered(k) \/ ChunkFails(k) \/ Filled(k) \/ FallbackOver(k)
    PROVE  Promises!Next
<1>0. TypeOK /\ BatchesApart
  BY DEF FailuresInv, OwnersInv
<1>1. PICK ful \in SUBSET requests[k], rej \in SUBSET requests[k],
           next \in Running \cup {"idle"} :
           /\ BatchMoves(k, ful, rej, next)
           /\ RejectsTheTouched(k, rej)
           /\ ful \cap rej = {}
  BY <1>0, RunningBatchMoves
<1>2. /\ phase[k] \in Running /\ Settle(ful, rej)
      /\ requests' = [requests EXCEPT ![k] = requests[k] \ (ful \cup rej)]
      /\ phase' = [phase EXCEPT ![k] = next]
      /\ pendingRequests' = pendingRequests
      /\ next = "idle" => requests[k] = ful \cup rej
      /\ next # "idle" => ful = {}
  BY <1>1 DEF BatchMoves
<1>3. pendingRequests[k] = {}
  BY <1>0, <1>2 DEF BatchesApart, Running
<1>4. PICK is \in SUBSET Instruments :
           /\ rej = {c \in requests[k] : tokens[c] \cap is # {}}
           /\ failed' = [failed EXCEPT ![k] = @ \cup is]
  <2>1. CASE rej = {} /\ UNCHANGED failed
    <3>1. failed' = [failed EXCEPT ![k] = @ \cup {}]
      BY <1>0, <2>1 DEF TypeOK
    <3>2. rej = {c \in requests[k] : tokens[c] \cap {} # {}} /\ {} \in SUBSET Instruments
      BY <2>1
    <3> QED BY <3>1, <3>2
  <2>2. CASE rej = Touched(k, chunk[k]) /\ failed' = [failed EXCEPT ![k] = @ \cup chunk[k]]
    <3>1. chunk[k] \in SUBSET Instruments
      BY <1>0 DEF TypeOK
    <3> QED BY <2>2, <3>1 DEF Touched
  <2> QED BY <1>1, <2>1, <2>2 DEF RejectsTheTouched
<1> DEFINE members == [j \in Keys |-> pendingRequests[j] \cup requests[j]]
           closed == [j \in Keys |-> phase[j] \in Running]
           over == next = "idle"
           refused == {c \in members[k] : tokens[c] \cap is # {}}
           answered == IF over THEN members[k] \ refused ELSE {}
<1>5. members[k] = requests[k] /\ refused = rej /\ answered = ful
  <2>1. members[k] = requests[k]
    BY <1>3
  <2>2. refused = rej
    BY <2>1, <1>4
  <2> HIDE DEF refused, members
  <2>3. answered = ful
    BY <2>1, <2>2, <1>1, <1>2
  <2> QED BY <2>1, <2>2, <2>3
<1>6. closed' = [closed EXCEPT ![k] = ~over]
  <2>1. \A j \in Keys : phase'[j] = IF j = k THEN next ELSE phase[j]
    BY <1>0, <1>2 DEF TypeOK
  <2>2. next \in Running <=> ~over
    BY DEF Running
  <2> HIDE DEF over
  <2>3. \A j \in Keys : (phase'[j] \in Running) = IF j = k THEN ~over ELSE (phase[j] \in Running)
    BY <2>1, <2>2
  <2>4. closed' = [j \in Keys |-> IF j = k THEN ~over ELSE (phase[j] \in Running)]
    BY <2>3
  <2> QED BY <2>4
<1>7. members' = [members EXCEPT ![k] = @ \ (refused \cup answered)]
  <2>1. \A j \in Keys : requests'[j] = IF j = k THEN requests[k] \ (ful \cup rej) ELSE requests[j]
    BY <1>0, <1>2 DEF TypeOK
  <2>2. \A j \in Keys : pendingRequests'[j] \cup requests'[j] =
            IF j = k THEN requests[k] \ (rej \cup ful) ELSE pendingRequests[j] \cup requests[j]
    BY <1>2, <1>3, <2>1
  <2> HIDE DEF refused, answered
  <2> QED BY <1>5, <2>2
<1>8. closed[k] = TRUE
  BY <1>2
<1> HIDE DEF refused, answered, over
<1>9. /\ promise' = [c \in Callers |-> IF c \in refused THEN "rejected"
                                       ELSE IF c \in answered THEN "fulfilled"
                                       ELSE promise[c]]
      /\ tokens' = [c \in Callers |-> IF c \in refused \cup answered THEN {} ELSE tokens[c]]
  <2>1. /\ promise' = [c \in Callers |-> IF c \in ful THEN "fulfilled"
                                         ELSE IF c \in rej THEN "rejected" ELSE promise[c]]
        /\ tokens' = [c \in Callers |-> IF c \in ful \cup rej THEN {} ELSE tokens[c]]
    BY <1>2 DEF Settle
  <2> QED BY <2>1, <1>1, <1>5
<1>10. Promises!Settle(k, is, over)
  BY <1>4, <1>6, <1>7, <1>8, <1>9 DEF Promises!Settle, refused, answered
<1>11. over \in BOOLEAN
  BY DEF over
<1> QED BY <1>10, <1>11 DEF Promises!Next

LEMMA PromisesStep ==
    ASSUME FailuresInv, [Next]_vars
    PROVE  [Promises!Next]_(Promises!vars)
<1>0. TypeOK /\ NobodyIsForgotten /\ BatchesApart /\ Unharmed
  BY DEF FailuresInv, OwnersInv
\* Nobody joins a batch that runs: it is of an earlier second.
<1>1. ASSUME NEW c \in Callers, NEW kind \in Kinds, NEW ts \in (SUBSET Instruments) \ {{}},
             NEW p \in Providers, Ask(c, kind, ts, p)
      PROVE  Promises!Next
  <2> DEFINE k == <<kind, window>>
  <2>1. /\ k \in Keys /\ k[2] = window
        /\ promise[c] # "pending"
        /\ promise' = [promise EXCEPT ![c] = "pending"]
        /\ tokens' = [tokens EXCEPT ![c] = ts]
        /\ pendingRequests' = [pendingRequests EXCEPT ![k] = @ \cup {c}]
        /\ UNCHANGED <<requests, failed>>
        /\ \/ phase[k] = "idle" /\ phase' = [phase EXCEPT ![k] = "waiting"]
           \/ phase[k] = "waiting" /\ UNCHANGED phase
    BY <1>0, <1>1 DEF Ask, Keys, TypeOK
  <2> HIDE DEF k
  <2>2. phase[k] \notin Running /\ failed[k] = {}
    BY <1>0, <2>1 DEF BatchesApart, Unharmed
  <2>3. \A j \in Keys : c \notin pendingRequests[j] \cup requests[j]
    BY <1>0, <2>1 DEF NobodyIsForgotten
  <2>4. \A j \in Keys : (phase'[j] \in Running) = (phase[j] \in Running)
    BY <1>0, <2>1 DEF TypeOK, Running
  <2>5. [j \in Keys |-> phase'[j] \in Running] = [j \in Keys |-> phase[j] \in Running]
    BY <2>4
  <2>6. \A j \in Keys : pendingRequests'[j] \cup requests'[j] =
            IF j = k THEN (pendingRequests[k] \cup requests[k]) \cup {c}
                     ELSE pendingRequests[j] \cup requests[j]
    BY <1>0, <2>1 DEF TypeOK
  <2> DEFINE members == [j \in Keys |-> pendingRequests[j] \cup requests[j]]
  <2>7. members' = [members EXCEPT ![k] = @ \cup {c}]
    BY <2>1, <2>6
  <2>8. \A j \in Keys : c \notin members[j]
    BY <2>3
  <2> HIDE DEF members
  <2>9. Promises!Join(c, k, ts)
    BY <2>1, <2>2, <2>5, <2>7, <2>8 DEF Promises!Join, members
  <2> QED BY <2>1, <2>9 DEF Promises!Next
<1>2. CASE NextSecond
  <2> DEFINE next == (window + 1) % Seconds
             ks == {k \in Keys : k[2] = next}
  <2>1. /\ \A k \in ks : phase[k] = "idle"
        /\ failed' = [k \in Keys |-> IF k[2] = next THEN {} ELSE failed[k]]
        /\ UNCHANGED <<promise, tokens, pendingRequests, phase, requests>>
    <3>1. \A k \in ks : k = <<k[1], next>> /\ k[1] \in Kinds
      BY DEF Keys
    <3> QED BY <1>2, <3>1 DEF NextSecond, callerVars
  <2> HIDE DEF next
  <2>2. \A k \in ks : pendingRequests[k] \cup requests[k] = {} /\ phase[k] \notin Running
    BY <1>0, <2>1 DEF BatchesApart, Running
  <2>3. failed' = [k \in Keys |-> IF k \in ks THEN {} ELSE failed[k]] /\ ks \in SUBSET Keys
    BY <2>1
  <2> HIDE DEF ks
  <2>4. Promises!Renew(ks)
    BY <2>1, <2>2, <2>3 DEF Promises!Renew
  <2> QED BY <2>3, <2>4 DEF Promises!Next
<1>3. ASSUME NEW k \in Keys, TimerFires(k)
      PROVE  Promises!Next
  <2>1. /\ phase[k] = "waiting" /\ phase' = [phase EXCEPT ![k] = "calling"]
        /\ requests' = [requests EXCEPT ![k] = pendingRequests[k]]
        /\ pendingRequests' = [pendingRequests EXCEPT ![k] = {}]
        /\ UNCHANGED <<promise, tokens, failed>>
    BY <1>3 DEF TimerFires, CallNext, callerVars
  <2>2. requests[k] = {} /\ phase[k] \notin Running
    BY <1>0, <2>1 DEF BatchesApart, Running
  <2>3. \A j \in Keys : pendingRequests'[j] \cup requests'[j] = pendingRequests[j] \cup requests[j]
    BY <1>0, <2>1, <2>2 DEF TypeOK
  <2>4. [j \in Keys |-> pendingRequests'[j] \cup requests'[j]]
          = [j \in Keys |-> pendingRequests[j] \cup requests[j]]
    BY <2>3
  <2> DEFINE closed == [j \in Keys |-> phase[j] \in Running]
  <2>5. closed' = [closed EXCEPT ![k] = TRUE]
    <3>1. \A j \in Keys : phase'[j] = IF j = k THEN "calling" ELSE phase[j]
      BY <1>0, <2>1 DEF TypeOK
    <3>2. "calling" \in Running
      BY DEF Running
    <3>3. closed' = [j \in Keys |-> IF j = k THEN TRUE ELSE phase[j] \in Running]
      BY <3>1, <3>2, Zenon
    <3> QED BY <3>3
  <2>6. ~closed[k]
    BY <2>2
  <2> HIDE DEF closed
  <2>7. Promises!Close(k)
    BY <2>1, <2>4, <2>5, <2>6 DEF Promises!Close, closed
  <2> QED BY <2>7 DEF Promises!Next
<1>4. ASSUME NEW k \in Keys, ChunkAnswered(k) \/ ChunkFails(k) \/ Filled(k) \/ FallbackOver(k)
      PROVE  Promises!Next
  BY <1>4, BatchSettles
<1>5. CASE UNCHANGED vars
  BY <1>5 DEF vars, callerVars, batchVars, Promises!vars
<1> QED BY <1>1, <1>2, <1>3, <1>4, <1>5 DEF Next

\* Batching implements the abstract promise: whatever is put into chunks, retried, filled in
\* or asked for in the same second, nobody joins a batch that asks, a lost chunk refuses
\* exactly whom it concerns, and the others are answered together.
THEOREM BatchingKeepsItsPromises == Spec => ImplementsPromises
<1>1. Init => FailuresInv /\ Promises!Init
  <2> SUFFICES ASSUME Init PROVE FailuresInv /\ Promises!Init
    OBVIOUS
  <2>1. FailuresInv
    BY BatchingInit, OwnersInit DEF FailuresInv, OwnersInv, Init, Unharmed
  <2>2. Promises!Init
    <3>1. [k \in Keys |-> pendingRequests[k] \cup requests[k]] = [g \in Keys |-> {}]
      BY DEF Init
    <3>2. \A k \in Keys : (phase[k] \in Running) = FALSE
      BY DEF Init, Running
    <3>3. [k \in Keys |-> phase[k] \in Running] = [g \in Keys |-> FALSE]
      BY <3>2
    <3> QED BY <3>1, <3>3 DEF Init, Promises!Init
  <2> QED BY <2>1, <2>2
<1>2. FailuresInv /\ [Next]_vars => FailuresInv'
  BY FailuresStep
<1>3. FailuresInv /\ [Next]_vars => [Promises!Next]_(Promises!vars)
  BY PromisesStep
<1> QED BY <1>1, <1>2, <1>3, PTL DEF Spec, ImplementsPromises, Promises!Spec

-----------------------------------------------------------------------------
(* The distributed gate, however Redis fails.                              *)

LEMMA QueueInitTypeOK == QueueInit => QueueTypeOK
  BY InstanceOfAssumption, IntervalAssumption, MaxJitterAssumption
     DEF QueueInit, QueueTypeOK, FarPast, Control

LEMMA ThrottleKeepsTypes ==
    ASSUME QueueTypeOK, NEW c \in Calls, Throttle(c)
    PROVE  /\ sinceExec' \in [Instances -> Nat]
           /\ pc' \in [Calls -> Control]
           /\ sleep' \in [Calls -> Nat]
           /\ spun' \in [Calls -> Nat]
<1> USE InstanceOfAssumption, IntervalAssumption, MaxJitterAssumption
        DEF QueueTypeOK, Control, Jitters
<1>1. PICK j \in Jitters :
          \/ /\ sinceExec' = [sinceExec EXCEPT ![InstanceOf[c]] = 0]
             /\ pc' = [pc EXCEPT ![c] = "calling"]
             /\ UNCHANGED sleep
          \/ /\ sinceExec[InstanceOf[c]] < Interval + j
             /\ pc' = [pc EXCEPT ![c] = "delayed"]
             /\ sleep' = [sleep EXCEPT ![c] = Interval + j - sinceExec[InstanceOf[c]]]
             /\ UNCHANGED sinceExec
  BY DEF Throttle
<1>2. spun' \in [Calls -> Nat]
  BY DEF Throttle
<1>3. sinceExec[InstanceOf[c]] \in Nat /\ j \in Nat
  OBVIOUS
<1> QED BY <1>1, <1>2, <1>3

LEMMA QueueStepTypeOK == QueueTypeOK /\ [QueueNext]_queueVars => QueueTypeOK'
<1> SUFFICES ASSUME QueueTypeOK, [QueueNext]_queueVars PROVE QueueTypeOK'
  OBVIOUS
<1> USE InstanceOfAssumption, IntervalAssumption, MaxJitterAssumption, MaxSpinAssumption
        DEF QueueTypeOK, Control, Jitters
<1>1. ASSUME NEW c \in Calls, Request(c) PROVE QueueTypeOK'
  BY <1>1 DEF Request
<1>2. ASSUME NEW c \in Calls, TryLock(c) PROVE QueueTypeOK'
  BY <1>2 DEF TryLock, Granted, Refused, Unanswered, LockTtl
<1>3. ASSUME NEW c \in Calls, AskTtl(c) PROVE QueueTypeOK'
  <2>1. CASE redisUp[InstanceOf[c]] /\ ttl > 0
    BY <1>3, <2>1 DEF AskTtl
  <2>2. CASE ~(redisUp[InstanceOf[c]] /\ ttl > 0)
    <3>1. Throttle(c) /\ UNCHANGED <<ttl, redisUp, sinceGrant>>
      BY <1>3, <2>2 DEF AskTtl
    <3> QED BY <3>1, ThrottleKeepsTypes
  <2> QED BY <2>1, <2>2
<1>4. ASSUME NEW c \in Calls, Wake(c) PROVE QueueTypeOK'
  <2>1. CASE spun[c] > MaxSpin
    <3>1. Throttle(c) /\ UNCHANGED <<ttl, redisUp, sinceGrant>>
      BY <1>4, <2>1 DEF Wake
    <3> QED BY <3>1, ThrottleKeepsTypes
  <2>2. CASE ~(spun[c] > MaxSpin)
    BY <1>4, <2>2 DEF Wake
  <2> QED BY <2>1, <2>2
<1>5. ASSUME NEW c \in Calls, DelayOver(c) PROVE QueueTypeOK'
  BY <1>5 DEF DelayOver
<1>6. ASSUME NEW c \in Calls, Finish(c) PROVE QueueTypeOK'
  BY <1>6 DEF Finish
<1>7. CASE Tick
  <2>1. \A n \in Nat : Less(n) \in Nat
    BY DEF Less
  <2>2. \A n, top \in Nat : MoreUpTo(n, top) \in Nat
    BY DEF MoreUpTo
  <2>3. FarPast \in Nat /\ MaxSpin + 1 \in Nat
    BY DEF FarPast
  <2> QED BY <1>7, <2>1, <2>2, <2>3 DEF Tick
<1>8. ASSUME NEW i \in Flaky, RedisChanges(i) PROVE QueueTypeOK'
  BY <1>8, FlakyAssumption DEF RedisChanges
<1>9. CASE UNCHANGED queueVars
  BY <1>9 DEF queueVars
<1> QED BY <1>1, <1>2, <1>3, <1>4, <1>5, <1>6, <1>7, <1>8, <1>9 DEF QueueNext

\* Every variable of the gate and of its callers keeps its type.
THEOREM QueueTypeCorrect == QueueSpec => []QueueTypeOK
  BY QueueInitTypeOK, QueueStepTypeOK, PTL DEF QueueSpec

-----------------------------------------------------------------------------
(* Only a grant, a lost reply and the clock touch the gate.                *)

LEMMA GateSteps ==
    ASSUME [QueueNext]_queueVars
    PROVE  \/ \E c \in Calls : Granted(c)
           \/ ttl = 0 /\ UNCHANGED sinceGrant
           \/ Tick
           \/ UNCHANGED <<ttl, sinceGrant>>
<1>1. ASSUME NEW c \in Calls, TryLock(c)
      PROVE  \/ Granted(c)
             \/ ttl = 0 /\ UNCHANGED sinceGrant
             \/ UNCHANGED <<ttl, sinceGrant>>
  BY <1>1 DEF TryLock, Refused, Unanswered
<1>2. ASSUME NEW c \in Calls,
             Request(c) \/ AskTtl(c) \/ Wake(c) \/ DelayOver(c) \/ Finish(c)
      PROVE  UNCHANGED <<ttl, sinceGrant>>
  BY <1>2 DEF Request, AskTtl, Wake, DelayOver, Finish
<1>3. ASSUME NEW i \in Flaky, RedisChanges(i)
      PROVE  UNCHANGED <<ttl, sinceGrant>>
  BY <1>3 DEF RedisChanges
<1>4. UNCHANGED queueVars => UNCHANGED <<ttl, sinceGrant>>
  BY DEF queueVars
<1> QED BY <1>1, <1>2, <1>3, <1>4 DEF QueueNext

LEMMA GateStep ==
    ASSUME QueueTypeOK, GateIsShut, [QueueNext]_queueVars
    PROVE  GateIsShut' /\ (sinceGrant' = 0 /\ sinceGrant # 0 => sinceGrant >= Interval)
<1> USE IntervalAssumption DEF QueueTypeOK, GateIsShut
<1>1. ASSUME NEW c \in Calls, Granted(c)
      PROVE  GateIsShut' /\ sinceGrant >= Interval
  BY <1>1 DEF Granted, LockTtl, Jitters
<1>2. CASE ttl = 0 /\ UNCHANGED sinceGrant
  <2>1. sinceGrant >= Interval
    BY <1>2
  <2> QED BY <1>2, <2>1
<1>3. CASE Tick
  BY <1>3 DEF Tick, Less, MoreUpTo
<1>4. CASE UNCHANGED <<ttl, sinceGrant>>
  BY <1>4
<1> QED BY <1>1, <1>2, <1>3, <1>4, GateSteps

\* The lock is held for a whole interval after every grant.
THEOREM GateStaysShut == QueueSpec => []GateIsShut
<1>1. QueueInit => GateIsShut
  BY IntervalAssumption DEF QueueInit, GateIsShut
<1>2. QueueTypeOK /\ GateIsShut /\ [QueueNext]_queueVars => GateIsShut'
  BY GateStep
<1> QED BY <1>1, <1>2, QueueTypeCorrect, PTL DEF QueueSpec

\* No two grants are closer than an interval, whichever instances they go to.
THEOREM GrantsKeepTheirDistance == QueueSpec => GrantsAreSpaced
<1>1. QueueTypeOK /\ GateIsShut /\ [QueueNext]_queueVars
        => [sinceGrant' = 0 /\ sinceGrant # 0 => sinceGrant >= Interval]_queueVars
  BY GateStep
<1> QED BY <1>1, QueueTypeCorrect, GateStaysShut, PTL DEF QueueSpec, GrantsAreSpaced

=============================================================================
