--------------------------- MODULE RequestBatching ---------------------------
(***************************************************************************)
(* RequestBatchingService: requests of one kind made in the same second    *)
(* wait for that second's batch, which asks one provider for all of their  *)
(* instruments, chunk by chunk through ProviderQueueService, fills prices  *)
(* that are missing and settles everybody's promise.                       *)
(*                                                                         *)
(* processBatch and processPairsBatch are one coroutine here; what differs *)
(* is that pairs get no second provider call.  Each await is a step, and    *)
(* batches of different seconds and kinds interleave at them.  Prices are   *)
(* abstracted to whether an instrument still lacks one.                    *)
(***************************************************************************)
EXTENDS Integers, FiniteSets

CONSTANTS
    Callers,        \* whoever holds a promise of getQuote, getLTP, getOHLC, getLtpByPairs
    Kinds,          \* "quote", "ltp", "ohlc", "ltp_pairs"
    Instruments,    \* tokens or exchange-token pairs
    Providers,
    MaxBatchSize,   \* maxBatchSize, 1000 instruments
    Seconds         \* bound: batch windows that may be in flight together

ASSUME KindsAssumption == Kinds \subseteq {"quote", "ltp", "ohlc", "ltp_pairs"}
ASSUME InstrumentsAssumption == IsFiniteSet(Instruments)
ASSUME MaxBatchSizeAssumption == MaxBatchSize \in Nat \ {0}
ASSUME SecondsAssumption == Seconds \in Nat \ {0, 1}

Windows == 0 .. (Seconds - 1)    \* batchWindow, modulo the bound
Keys == Kinds \X Windows         \* requestKey

VARIABLES
    window,         \* the current second
    promise,        \* what became of a caller's promise
    requestKey, tokens, provider,   \* what the caller asked for
    pendingRequests,
    batchProvider,  \* the provider the batch's timer closes over
    phase,          \* where a batch is
    requests,       \* the requests a running batch serves
    todo,           \* instruments in chunks not yet asked for
    chunk,          \* instruments of the call under way
    missing,        \* instruments answered without a price
    failed          \* instruments of the chunks that failed (for the properties)

callerVars == <<promise, requestKey, tokens, provider>>
batchVars == <<phase, requests, todo, chunk, missing, failed>>
vars == <<window, callerVars, pendingRequests, batchProvider, batchVars>>

Running == {"calling", "filling", "fallback"}

TypeOK ==
    /\ window \in Windows
    /\ promise \in [Callers -> {"none", "pending", "fulfilled", "rejected"}]
    /\ requestKey \in [Callers -> Keys]
    /\ tokens \in [Callers -> SUBSET Instruments]
    /\ provider \in [Callers -> Providers]
    /\ pendingRequests \in [Keys -> SUBSET Callers]
    /\ batchProvider \in [Keys -> Providers]
    /\ phase \in [Keys -> {"idle", "waiting"} \cup Running]
    /\ requests \in [Keys -> SUBSET Callers]
    /\ todo \in [Keys -> SUBSET Instruments]
    /\ chunk \in [Keys -> {C \in SUBSET Instruments : Cardinality(C) <= MaxBatchSize}]
    /\ missing \in [Keys -> SUBSET Instruments]
    /\ failed \in [Keys -> SUBSET Instruments]

Init ==
    /\ window = 0
    /\ promise = [c \in Callers |-> "none"]
    /\ requestKey \in {[c \in Callers |-> k] : k \in Keys}
    /\ tokens = [c \in Callers |-> {}]
    /\ provider \in {[c \in Callers |-> p] : p \in Providers}
    /\ pendingRequests = [k \in Keys |-> {}]
    /\ batchProvider \in {[k \in Keys |-> p] : p \in Providers}
    /\ phase = [k \in Keys |-> "idle"]
    /\ requests = [k \in Keys |-> {}]
    /\ todo = [k \in Keys |-> {}]
    /\ chunk = [k \in Keys |-> {}]
    /\ missing = [k \in Keys |-> {}]
    /\ failed = [k \in Keys |-> {}]

-----------------------------------------------------------------------------
(* batchRequest, getLtpByPairs.                                            *)

\* The first request of a second sets the timer, which closes over its provider.
Ask(c, kind, ts, p) ==
    LET k == <<kind, window>>
    IN  /\ promise[c] # "pending"
        /\ promise' = [promise EXCEPT ![c] = "pending"]
        /\ requestKey' = [requestKey EXCEPT ![c] = k]
        /\ tokens' = [tokens EXCEPT ![c] = ts]
        /\ provider' = [provider EXCEPT ![c] = p]
        /\ pendingRequests' = [pendingRequests EXCEPT ![k] = @ \cup {c}]
        /\ \/ /\ phase[k] = "idle"
              /\ phase' = [phase EXCEPT ![k] = "waiting"]
              /\ batchProvider' = [batchProvider EXCEPT ![k] = p]
           \/ /\ phase[k] = "waiting"
              /\ UNCHANGED <<phase, batchProvider>>
        /\ UNCHANGED <<window, requests, todo, chunk, missing, failed>>

\* The clock enters the next second.
NextSecond ==
    LET next == (window + 1) % Seconds
    IN  /\ \A kind \in Kinds : phase[<<kind, next>>] = "idle"
        /\ window' = next
        /\ failed' = [k \in Keys |-> IF k[2] = next THEN {} ELSE failed[k]]
        /\ UNCHANGED <<callerVars, pendingRequests, batchProvider, phase, requests, todo,
                       chunk, missing>>

-----------------------------------------------------------------------------
(* processBatch, processPairsBatch.                                        *)

\* chunkArray: the next chunk of what is left.
Chunks(left) ==
    {C \in SUBSET left :
        Cardinality(C) = IF Cardinality(left) < MaxBatchSize THEN Cardinality(left)
                                                             ELSE MaxBatchSize}

\* The run to the next provider call.
CallNext(k, left) ==
    \E C \in Chunks(left) :
        /\ phase' = [phase EXCEPT ![k] = "calling"]
        /\ chunk' = [chunk EXCEPT ![k] = C]
        /\ todo' = [todo EXCEPT ![k] = left \ C]

\* Promises settle; what was asked is forgotten with them.
Settle(fulfilled, rejected) ==
    /\ promise' = [c \in Callers |-> IF c \in fulfilled THEN "fulfilled"
                                    ELSE IF c \in rejected THEN "rejected" ELSE promise[c]]
    /\ tokens' = [c \in Callers |-> IF c \in fulfilled \cup rejected THEN {} ELSE tokens[c]]

\* Every promise of the batch that is not settled yet is resolved.
Resolve(k, unsettled) ==
    /\ Settle(unsettled, requests[k] \ unsettled)
    /\ phase' = [phase EXCEPT ![k] = "idle"]
    /\ requests' = [requests EXCEPT ![k] = {}]
    /\ chunk' = [chunk EXCEPT ![k] = {}]
    /\ missing' = [missing EXCEPT ![k] = {}]
    /\ UNCHANGED todo

\* After a chunk: the next one, or the enrichment, or the end.
Continue(k, unsettled, unpriced) ==
    IF todo[k] = {} /\ unpriced = {} THEN Resolve(k, unsettled)
    ELSE /\ IF todo[k] # {} THEN CallNext(k, todo[k])
            ELSE /\ phase' = [phase EXCEPT ![k] = "filling"]
                 /\ chunk' = [chunk EXCEPT ![k] = {}]
                 /\ UNCHANGED todo
         /\ requests' = [requests EXCEPT ![k] = unsettled]
         /\ Settle({}, requests[k] \ unsettled)
         /\ missing' = [missing EXCEPT ![k] = unpriced]

TimerFiresKeepingQueue(k) ==    \* faulty: pendingRequests.delete is forgotten
    /\ phase[k] = "waiting"
    /\ window # k[2]
    /\ requests' = [requests EXCEPT ![k] = pendingRequests[k]]
    /\ CallNext(k, UNION {tokens[c] : c \in pendingRequests[k]})
    /\ UNCHANGED <<window, callerVars, pendingRequests, batchProvider, missing, failed>>

\* setTimeout(..., batchTimeout) set in a second fires in a later one.
TimerFires(k) ==
    /\ phase[k] = "waiting"
    /\ window # k[2]
    /\ requests' = [requests EXCEPT ![k] = pendingRequests[k]]
    /\ pendingRequests' = [pendingRequests EXCEPT ![k] = {}]
    /\ CallNext(k, UNION {tokens[c] : c \in pendingRequests[k]})
    /\ UNCHANGED <<window, callerVars, batchProvider, missing, failed>>

\* The provider answers; for any of the instruments it may have no price.
ChunkAnswered(k) ==
    /\ phase[k] = "calling"
    /\ \E unpriced \in SUBSET chunk[k] :
          Continue(k, requests[k], missing[k] \cup unpriced)
    /\ UNCHANGED <<window, requestKey, provider, pendingRequests, batchProvider,
                   failed>>

TouchedByAny(k, C) == requests[k]    \* faulty: everybody in the batch is rejected
Touched(k, C) == {c \in requests[k] : tokens[c] \cap C # {}}

\* For pairs a failed chunk leaves gaps to fill, for tokens it leaves none.
Gaps(k) == IF k[1] = "ltp_pairs" THEN chunk[k] ELSE {}

ChunkFailsAndStops(k) ==    \* faulty: return for continue
    /\ phase[k] = "calling"
    /\ failed' = [failed EXCEPT ![k] = @ \cup chunk[k]]
    /\ Settle({}, Touched(k, chunk[k]))
    /\ phase' = [phase EXCEPT ![k] = "idle"]
    /\ requests' = [requests EXCEPT ![k] = {}]
    /\ chunk' = [chunk EXCEPT ![k] = {}]
    /\ missing' = [missing EXCEPT ![k] = {}]
    /\ todo' = [todo EXCEPT ![k] = {}]
    /\ UNCHANGED <<window, requestKey, provider, pendingRequests, batchProvider>>

\* The call fails: who asked for any of its instruments is rejected, the loop goes on, and
\* the later resolve() of a rejected promise does nothing.
ChunkFails(k) ==
    /\ phase[k] = "calling"
    /\ failed' = [failed EXCEPT ![k] = @ \cup chunk[k]]
    /\ Continue(k, requests[k] \ Touched(k, chunk[k]), missing[k] \cup Gaps(k))
    /\ UNCHANGED <<window, requestKey, provider, pendingRequests, batchProvider>>

\* getRecentLTP returns: some gaps are filled.  Tokens that are still without a price are
\* asked for once more.
Filled(k) ==
    /\ phase[k] = "filling"
    /\ \E unpriced \in SUBSET missing[k] :
          IF k[1] = "ltp_pairs" \/ unpriced = {} THEN Resolve(k, requests[k])
          ELSE /\ phase' = [phase EXCEPT ![k] = "fallback"]
               /\ missing' = [missing EXCEPT ![k] = unpriced]
               /\ UNCHANGED <<promise, tokens, requests, chunk, todo>>
    /\ UNCHANGED <<window, requestKey, provider, pendingRequests, batchProvider,
                   failed>>

\* The second call succeeds, in whatever part, or fails without consequence.
FallbackOver(k) ==
    /\ phase[k] = "fallback"
    /\ Resolve(k, requests[k])
    /\ UNCHANGED <<window, requestKey, provider, pendingRequests, batchProvider,
                   failed>>

-----------------------------------------------------------------------------
Next ==
    \/ \E c \in Callers, kind \in Kinds, ts \in (SUBSET Instruments) \ {{}},
          p \in Providers : Ask(c, kind, ts, p)
    \/ NextSecond
    \/ \E k \in Keys :
          \/ TimerFires(k)
          \/ ChunkAnswered(k)
          \/ ChunkFails(k)
          \/ Filled(k)
          \/ FallbackOver(k)

Spec == Init /\ [][Next]_vars

\* The clock goes on, timers fire, and the queue serves every call, which then returns or
\* throws (EveryCallIsServed of ProviderQueue).
FairSpec ==
    /\ Spec
    /\ WF_vars(NextSecond)
    /\ \A k \in Keys :
          WF_vars(\/ TimerFires(k) \/ ChunkAnswered(k) \/ ChunkFails(k) \/ Filled(k)
                  \/ FallbackOver(k))

-----------------------------------------------------------------------------
(* Properties.                                                             *)

\* A promise that is not settled has exactly one batch that will settle it: it waits under
\* its key with the timer set, or it is served by the batch that is running; and a batch
\* that is over owes nobody anything.
NobodyIsForgotten ==
    /\ \A c \in Callers : promise[c] = "pending" =>
          LET k == requestKey[c]
          IN  \/ phase[k] = "waiting" /\ c \in pendingRequests[k]
              \/ phase[k] \in Running /\ c \in requests[k]
    /\ \A k \in Keys : \A c \in pendingRequests[k] \cup requests[k] :
          promise[c] = "pending" /\ requestKey[c] = k

\* Failures stay with those they concern: a request is rejected only for an instrument of
\* its own whose chunk failed, and is answered only if none of its instruments did.
FailuresAreLocal ==
    [][\A c \in Callers : promise[c] = "pending" =>
          LET own == tokens[c] \cap failed'[requestKey[c]]
          IN  /\ promise'[c] = "rejected" => own # {}
              /\ promise'[c] = "fulfilled" => own = {}]_vars

\* Batching keeps the promise of RequestPromises: however requests of a second are put into
\* chunks, retried and filled in from elsewhere, to its callers a batch is a group that nobody
\* joins once it asks, that refuses whom a loss concerns, and answers the others together.
Promises == INSTANCE RequestPromises WITH
    Groups <- Keys, wants <- tokens,
    members <- [k \in Keys |-> pendingRequests[k] \cup requests[k]],
    closed <- [k \in Keys |-> phase[k] \in Running], lost <- failed
ImplementsPromises == Promises!Spec

\* Every promise is settled, whatever other requests, chunks and batches do.
EveryRequestSettles == \A c \in Callers : promise[c] = "pending" ~> promise[c] # "pending"

-----------------------------------------------------------------------------
(* What the documentation says and the code does not do (violation run).    *)

\* "x-provider: massive ... HTTP header for per-request override": a request is put to the
\* provider it names.
OwnProviderIsAsked ==
    \A k \in Keys : phase[k] = "calling" =>
        \A c \in requests[k] : provider[c] = batchProvider[k]

=============================================================================
