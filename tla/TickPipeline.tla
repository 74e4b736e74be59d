------------------------------ MODULE TickPipeline ------------------------------
(***************************************************************************)
(* TickPipeline: a tick's way from a provider's 'ticks' event through       *)
(* handleTicks, the coalescing timers and forwardRealtimeTick to Redis and  *)
(* to the clients of both gateways.                                         *)
(*                                                                         *)
(* handleTicks is called without await, once per event: several of its      *)
(* loops may be under way, each stopped at the forward it awaits.  The      *)
(* ticks of an instrument are numbered as they arrive; 0 stands for none.   *)
(* Commands on one Redis key are answered in the order they were sent, of   *)
(* different keys in any (the client may be a cluster's).                   *)
(*                                                                         *)
(* Left out: prices and the substitution of a missing one from the other    *)
(* provider, modes, persistence, times (a timer fires and a window passes   *)
(* at any moment), clients that come and go: those here stay subscribed.    *)
(***************************************************************************)
EXTENDS Integers, Sequences, FiniteSets

CONSTANTS
    Instruments,
    Loops,          \* handleTicks loops under way at once: a bound of the model
    Clients,
    Throttled,      \* those whose key has a tick throttle of its own
    MaxTicks,       \* of each instrument: another bound
    MaxFailures,    \* instruments whose Redis key may fail: another
    MaxPulses,      \* forwards of the synthetic pulse under way at once: another
    Timer, Pulse    \* who else forwards: a coalescing timer, the synthetic pulse

ASSUME MaxTicksAssumption == MaxTicks \in [Instruments -> Nat]

VARIABLES
    arrived,               \* the newest tick of each instrument
    rest,                  \* what a loop has not come to yet
    globalTickThrottleMs,  \* whether it is positive
    saving,                \* setGlobalTickThrottle awaits appConfig.set
    lastTickPayload,
    coalesceTimers,
    forwards,              \* forwardRealtimeTick calls awaiting their SETEX, in its order
    lastTick,              \* last_tick:<uirId> in Redis
    shown,                 \* what a client was sent last
    recent,                \* instruments within the throttle window of a client
    (* history *)
    overlapped,            \* a tick came while a loop still had to come to an older one
    broken,                \* a SETEX failed, or an open circuit let it through undone
    stranded               \* a timer was cleared, and nothing was forwarded since

tickVars == <<arrived, rest>>
throttleVars == <<globalTickThrottleMs, saving>>
clientVars == <<lastTick, shown, recent>>
vars == <<tickVars, throttleVars, lastTickPayload, coalesceTimers, forwards, clientVars,
          overlapped, broken, stranded>>

Ticks == [of : Instruments, n : Nat \ {0}]

TypeOK ==
    /\ \A i \in Instruments : arrived[i] \in 0..MaxTicks[i]
    /\ rest \in [Loops -> Seq(Ticks)]
    /\ globalTickThrottleMs \in BOOLEAN /\ saving \in BOOLEAN
    /\ lastTickPayload \in [Instruments -> Nat]
    /\ coalesceTimers \subseteq Instruments
    /\ forwards \in [Instruments -> Seq([n : Nat \ {0}, by : Loops \cup {Timer, Pulse}])]
    /\ lastTick \in [Instruments -> Nat]
    /\ shown \in [Clients -> [Instruments -> Nat]]
    /\ recent \in [Throttled -> SUBSET Instruments]
    /\ overlapped \cup broken \cup stranded \subseteq Instruments

Init ==
    /\ arrived = [i \in Instruments |-> 0]
    /\ rest = [l \in Loops |-> <<>>]
    /\ globalTickThrottleMs \in BOOLEAN /\ saving = FALSE
    /\ lastTickPayload = [i \in Instruments |-> 0]
    /\ coalesceTimers = {}
    /\ forwards = [i \in Instruments |-> <<>>]
    /\ lastTick = [i \in Instruments |-> 0]
    /\ shown = [c \in Clients |-> [i \in Instruments |-> 0]]
    /\ recent = [c \in Throttled |-> {}]
    /\ overlapped = {} /\ broken = {} /\ stranded = {}

-----------------------------------------------------------------------------
(* handleTicks.                                                            *)

InstrumentsOf(ticks) == {ticks[k].of : k \in DOMAIN ticks}
AwaitsForward(l) == \E i \in Instruments : \E k \in DOMAIN forwards[i] : forwards[i][k].by = l

\* faulty: the payload of a pending timer is left as it is
StoredForFlush(ticks) ==
    [i \in Instruments |->
        IF i \in InstrumentsOf(ticks) \ coalesceTimers
        THEN (CHOOSE t \in {ticks[k] : k \in DOMAIN ticks} : t.of = i).n
        ELSE lastTickPayload[i]]
\* Each tick in turn is stored as the last payload.
Stored(ticks) ==
    [i \in Instruments |->
        IF i \in InstrumentsOf(ticks)
        THEN (CHOOSE t \in {ticks[k] : k \in DOMAIN ticks} : t.of = i).n
        ELSE lastTickPayload[i]]

\* faulty: no timer beside a forward that is still awaited
CoalesceIfIdle(ticks) ==
    coalesceTimers' = coalesceTimers \cup {i \in InstrumentsOf(ticks) : forwards[i] = <<>>}
\* A flush is scheduled unless one is pending.
Coalesce(ticks) == coalesceTimers' = coalesceTimers \cup InstrumentsOf(ticks)

\* The loop l goes on with these ticks, the calls of forwardRealtimeTick being fw: to its
\* end with the throttle on, to the first await without.
Proceed(l, ticks, fw) ==
    IF globalTickThrottleMs \/ ticks = <<>>
    THEN /\ lastTickPayload' = Stored(ticks)
         /\ Coalesce(ticks)
         /\ rest' = [rest EXCEPT ![l] = <<>>]
         /\ forwards' = fw
         /\ stranded' = stranded \ InstrumentsOf(ticks)
    ELSE LET tick == Head(ticks)
         IN  /\ lastTickPayload' = Stored(<<tick>>)
             /\ rest' = [rest EXCEPT ![l] = Tail(ticks)]
             /\ forwards' = [fw EXCEPT ![tick.of] = Append(@, [n |-> tick.n, by |-> l])]
             /\ stranded' = stranded \ {tick.of}
             /\ UNCHANGED coalesceTimers

\* An event names an instrument at most once.
TicksArrive(l, batch) ==
    /\ rest[l] = <<>> /\ ~AwaitsForward(l)
    /\ \A j, k \in DOMAIN batch : batch[j] = batch[k] => j = k
    /\ \A k \in DOMAIN batch : arrived[batch[k]] < MaxTicks[batch[k]]
    /\ arrived' = [i \in Instruments |->
          IF \E k \in DOMAIN batch : batch[k] = i THEN arrived[i] + 1 ELSE arrived[i]]
    /\ Proceed(l, [k \in DOMAIN batch |-> [of |-> batch[k], n |-> arrived'[batch[k]]]], forwards)
    /\ overlapped' = overlapped \cup
          {i \in Instruments : /\ \E k \in DOMAIN batch : batch[k] = i
                               /\ \E other \in Loops : i \in InstrumentsOf(rest[other])}
    /\ UNCHANGED <<throttleVars, clientVars, broken>>

-----------------------------------------------------------------------------
(* forwardRealtimeTick.                                                    *)

\* Both broadcastMarketData: a client with a throttle gets nothing within the window that
\* its last message opened, and what it does not get is not sent later.
Broadcast(i, n) ==
    LET passed == {c \in Clients : c \in Throttled => i \notin recent[c]}
    IN  /\ shown' = [c \in Clients |->
              IF c \in passed THEN [shown[c] EXCEPT ![i] = n] ELSE shown[c]]
        /\ recent' = [c \in Throttled |-> recent[c] \cup {i}]

\* The k-th call comes back from its SETEX and is broadcast; a loop that awaits it goes on.
Returns(i, k) ==
    LET forward == forwards[i][k]
        others == SubSeq(forwards[i], 1, k - 1) \o SubSeq(forwards[i], k + 1, Len(forwards[i]))
        fw == [forwards EXCEPT ![i] = others]
    IN  /\ Broadcast(i, forward.n)
        /\ IF forward.by \in Loops
           THEN Proceed(forward.by, rest[forward.by], fw)
           ELSE forwards' = fw /\ UNCHANGED <<rest, lastTickPayload, coalesceTimers, stranded>>
        /\ UNCHANGED <<arrived, throttleVars, overlapped>>

Answered(i) ==
    /\ forwards[i] # <<>>
    /\ lastTick' = [lastTick EXCEPT ![i] = Head(forwards[i]).n]
    /\ Returns(i, 1)
    /\ UNCHANGED broken

\* The failure is logged, or the open circuit skips the command: then nothing keeps the
\* order.
Undone(i, k) ==
    /\ broken' = broken \cup {i} /\ Cardinality(broken') <= MaxFailures
    /\ lastTick' \in {lastTick, [lastTick EXCEPT ![i] = forwards[i][k].n]}
    /\ Returns(i, k)

Forward(i, by) ==
    /\ forwards' = [forwards EXCEPT ![i] = Append(@, [n |-> lastTickPayload[i], by |-> by])]
    /\ stranded' = stranded \ {i}

\* faulty: the flush is broadcast before Redis is told
TimerFiresAtOnce(i) ==
    /\ i \in coalesceTimers
    /\ coalesceTimers' = coalesceTimers \ {i}
    /\ Broadcast(i, lastTickPayload[i])
    /\ UNCHANGED <<tickVars, throttleVars, lastTickPayload, forwards, lastTick, overlapped,
                   broken, stranded>>
TimerFires(i) ==
    /\ i \in coalesceTimers
    /\ coalesceTimers' = coalesceTimers \ {i}
    /\ Forward(i, Timer)
    /\ UNCHANGED <<tickVars, throttleVars, lastTickPayload, clientVars, overlapped, broken>>

Pulses ==
    UNION {{<<i, k>> : k \in {j \in DOMAIN forwards[i] : forwards[i][j].by = Pulse}} : i \in Instruments}

\* faulty: what was never received is sent as well
SyntheticPulseOfAny(i) ==
    /\ Cardinality(Pulses) < MaxPulses
    /\ Forward(i, Pulse)
    /\ UNCHANGED <<tickVars, throttleVars, lastTickPayload, coalesceTimers, clientVars,
                   overlapped, broken>>
\* runSyntheticPulse sends the last payload again, of one instrument at a time; a slow one
\* overlaps with the next, which the interval starts all the same.
SyntheticPulse(i) ==
    /\ lastTickPayload[i] # 0
    /\ Cardinality(Pulses) < MaxPulses
    /\ Forward(i, Pulse)
    /\ UNCHANGED <<tickVars, throttleVars, lastTickPayload, coalesceTimers, clientVars,
                   overlapped, broken>>

WindowPasses(c, i) ==
    /\ i \in recent[c]
    /\ recent' = [recent EXCEPT ![c] = @ \ {i}]
    /\ UNCHANGED <<tickVars, throttleVars, lastTickPayload, coalesceTimers, forwards, lastTick,
                   shown, overlapped, broken, stranded>>

-----------------------------------------------------------------------------
(* What clears timers and leaves the payloads they would have sent.         *)

Clear(is) ==
    /\ coalesceTimers' = coalesceTimers \ is
    /\ stranded' = stranded \cup (coalesceTimers \cap is)

\* The new value counts at once, and is saved to the configuration; one change at a time.
SetGlobalTickThrottle(on) ==
    /\ ~saving
    /\ globalTickThrottleMs' = on /\ saving' = TRUE
    /\ UNCHANGED <<tickVars, lastTickPayload, coalesceTimers, forwards, clientVars, overlapped,
                   broken, stranded>>

\* If it was not saved, the timers stay.
ThrottleSaved ==
    /\ saving
    /\ saving' = FALSE
    /\ Clear(Instruments) \/ UNCHANGED <<coalesceTimers, stranded>>
    /\ UNCHANGED <<tickVars, globalTickThrottleMs, lastTickPayload, forwards, clientVars,
                   overlapped, broken>>

\* A client of one gateway lets i go, and the stream service is told, although clients of
\* the other gateway hold it.
Released(i) ==
    /\ Clear({i})
    /\ UNCHANGED <<tickVars, throttleVars, lastTickPayload, forwards, clientVars, overlapped,
                   broken>>

-----------------------------------------------------------------------------
Batches == UNION {[1..len -> Instruments] : len \in 1..2}

Next ==
    \/ \E l \in Loops, batch \in Batches : TicksArrive(l, batch)
    \/ \E i \in Instruments :
          \/ Answered(i)
          \/ \E k \in DOMAIN forwards[i] : Undone(i, k)
          \/ TimerFires(i)
          \/ SyntheticPulse(i)
          \/ \E c \in Throttled : WindowPasses(c, i)
          \/ Released(i)
    \/ \E on \in BOOLEAN : SetGlobalTickThrottle(on)
    \/ ThrottleSaved

Spec == Init /\ [][Next]_vars

\* Timers fire, and Redis answers or its client gives up.
Fairness ==
    \A i \in Instruments :
        /\ WF_vars(TimerFires(i))
        /\ WF_vars(Answered(i) \/ \E k \in DOMAIN forwards[i] : k = 1 /\ Undone(i, k))

FairSpec == Spec /\ Fairness

-----------------------------------------------------------------------------
(* Properties.                                                             *)

\* No client is sent an older tick after a newer one, whatever the timers, the pulse and
\* changes of the throttle do, except where two handleTicks loops overlapped on the
\* instrument or Redis failed it.
ShownInOrder ==
    [][\A c \in Clients, i \in Instruments \ (overlapped' \cup broken') :
          shown'[c][i] >= shown[c][i]]_vars

\* "The latest payload is always stored above, so the flush always sends the freshest
\* tick": so it is, but for loops that overlapped; of ticks still waiting in a loop
\* there is then at most one.
PayloadIsFreshest ==
    \A i \in Instruments \ overlapped :
        lastTickPayload[i] = arrived[i]
            - IF \E l \in Loops : i \in InstrumentsOf(rest[l]) THEN 1 ELSE 0

\* The pipeline is a feed that gives an instrument up when loops overlap on it or Redis
\* fails it: even then nothing is shown that did not arrive, and no timer, pulse, throttle
\* or release puts the ticks of another instrument out of order.
Feed == INSTANCE TickFeed WITH
    newest <- arrived, seen <- shown, givenUp <- overlapped \cup broken
ImplementsFeed == Feed!Spec

\* When nothing is on its way for an instrument, the memory, Redis and every client
\* without a throttle of its own agree on its newest tick, but for overlapping loops,
\* a failed SETEX and a timer that was cleared with nothing forwarded since.
AtRest(i) ==
    /\ forwards[i] = <<>> /\ i \notin coalesceTimers
    /\ \A l \in Loops : i \notin InstrumentsOf(rest[l])
RestingAgree ==
    \A i \in Instruments \ (overlapped \cup broken \cup stranded) :
        AtRest(i) =>
            /\ lastTick[i] = arrived[i]
            /\ \A c \in Clients \ Throttled : shown[c][i] = arrived[i]

\* Every tick, or a newer one, is shown, unless loops overlapped, Redis failed or its timer
\* is cleared: coalescing and the pulse never swallow the last tick of a burst.
EveryTickIsShown ==
    \A c \in Clients \ Throttled, i \in Instruments : \A n \in 1..MaxTicks[i] :
        arrived[i] = n ~> shown[c][i] >= n \/ i \in overlapped \cup broken \cup stranded

=============================================================================
