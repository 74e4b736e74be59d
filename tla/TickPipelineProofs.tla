--------------------------- MODULE TickPipelineProofs ---------------------------
(* A tick's way to Redis and to the clients keeps its order, for any         *)
(* instruments, loops, clients and throttles, and any number of ticks and    *)
(* failures.                                                                 *)
EXTENDS TickPipeline, SequenceTheorems, TLAPS

-----------------------------------------------------------------------------
(* The inductive invariant.                                                *)

Distinct(ticks) == \A j, k \in DOMAIN ticks : ticks[j].of = ticks[k].of => j = k

Waits(l, i) == i \in InstrumentsOf(rest[l])

\* An instrument that no two loops overlapped on waits in one loop at most, once, and
\* with its newest tick.
LoopsAreApart ==
    /\ \A l \in Loops : Distinct(rest[l])
    /\ \A i \in Instruments \ overlapped : \A l, m \in Loops :
          Waits(l, i) /\ Waits(m, i) => l = m
    /\ \A i \in Instruments \ overlapped : \A l \in Loops : \A k \in DOMAIN rest[l] :
          rest[l][k].of = i => rest[l][k].n = arrived[i]

TimersHavePayload == \A i \in coalesceTimers : lastTickPayload[i] # 0

\* With no timer to come and none lost, the last payload is the last that was forwarded:
\* still under way, or what Redis and the clients hold.
LastSentIsPayload ==
    \A i \in Instruments \ (broken \cup stranded \cup coalesceTimers) :
        IF forwards[i] = <<>>
        THEN /\ lastTick[i] = lastTickPayload[i]
             /\ \A c \in Clients \ Throttled : shown[c][i] = lastTickPayload[i]
        ELSE forwards[i][Len(forwards[i])].n = lastTickPayload[i]

\* What was shown, what is under way and the payload follow each other.
SentInOrder ==
    \A i \in Instruments \ (overlapped \cup broken) :
        /\ \A j, k \in DOMAIN forwards[i] : j <= k => forwards[i][j].n <= forwards[i][k].n
        /\ \A k \in DOMAIN forwards[i] : forwards[i][k].n <= lastTickPayload[i]
        /\ \A c \in Clients : shown[c][i] <= lastTickPayload[i]
        /\ \A c \in Clients : \A k \in DOMAIN forwards[i] : shown[c][i] <= forwards[i][k].n

IInv ==
    /\ TypeOK /\ LoopsAreApart /\ PayloadIsFreshest /\ TimersHavePayload
    /\ LastSentIsPayload /\ SentInOrder

-----------------------------------------------------------------------------
(* Sequences of ticks and of forwards.                                     *)

Forwards == [n : Nat \ {0}, by : Loops \cup {Timer, Pulse}]

Without(s, k) == SubSeq(s, 1, k - 1) \o SubSeq(s, k + 1, Len(s))

\* Taking one element out moves those behind it up.
LEMMA WithoutProperties ==
    ASSUME NEW S, NEW s \in Seq(S), NEW k \in 1..Len(s)
    PROVE  /\ Without(s, k) \in Seq(S)
           /\ Len(Without(s, k)) = Len(s) - 1
           /\ \A j \in 1..(Len(s) - 1) : Without(s, k)[j] = IF j < k THEN s[j] ELSE s[j + 1]
<1> DEFINE a == SubSeq(s, 1, k - 1)
           b == SubSeq(s, k + 1, Len(s))
<1>1. Len(s) \in Nat /\ \A j \in 1..Len(s) : s[j] \in S
  BY LenProperties, ElementOfSeq
<1>2. /\ a \in Seq(S) /\ Len(a) = k - 1
      /\ \A j \in 1..(k - 1) : a[j] = s[j]
  <2>1. \A j \in 1..(k - 1) : s[j] \in S
    BY <1>1
  <2>2. k - 1 \in Int /\ 1 \in Int
    BY <1>1
  <2>3. /\ a \in Seq(S) /\ Len(a) = IF 1 <= k - 1 THEN k - 1 - 1 + 1 ELSE 0
        /\ \A j \in 1..(k - 1 - 1 + 1) : a[j] = s[1 + j - 1]
    BY <2>1, <2>2, SubSeqProperties
  <2>4. k - 1 - 1 + 1 = k - 1 /\ \A j \in 1..(k - 1) : 1 + j - 1 = j
    BY <1>1
  <2>5. Len(a) = k - 1
    BY <2>3, <1>1
  <2> HIDE DEF a
  <2> QED BY <2>3, <2>4, <2>5
<1>3. /\ b \in Seq(S) /\ Len(b) = Len(s) - k
      /\ \A j \in 1..(Len(s) - k) : b[j] = s[k + j]
  <2>1. \A j \in (k + 1)..Len(s) : s[j] \in S
    BY <1>1
  <2>2. k + 1 \in Int /\ Len(s) \in Int
    BY <1>1
  <2>3. /\ b \in Seq(S) /\ Len(b) = IF k + 1 <= Len(s) THEN Len(s) - (k + 1) + 1 ELSE 0
        /\ \A j \in 1..(Len(s) - (k + 1) + 1) : b[j] = s[(k + 1) + j - 1]
    BY <2>1, <2>2, SubSeqProperties
  <2>4. /\ Len(s) - (k + 1) + 1 = Len(s) - k
        /\ \A j \in 1..(Len(s) - k) : (k + 1) + j - 1 = k + j
    BY <1>1
  <2>5. Len(b) = Len(s) - k
    BY <2>3, <1>1
  <2> HIDE DEF b
  <2> QED BY <2>3, <2>4, <2>5
<1>4. /\ a \o b \in Seq(S)
      /\ Len(a \o b) = Len(a) + Len(b)
      /\ \A j \in 1..(Len(a) + Len(b)) :
            (a \o b)[j] = IF j <= Len(a) THEN a[j] ELSE b[j - Len(a)]
  BY <1>2, <1>3, ConcatProperties
<1>5. Without(s, k) = a \o b
  BY DEF Without
<1> HIDE DEF a, b
<1>6. Len(a) + Len(b) = Len(s) - 1
  BY <1>1, <1>2, <1>3
<1>7. ASSUME NEW j \in 1..(Len(s) - 1)
      PROVE  Without(s, k)[j] = IF j < k THEN s[j] ELSE s[j + 1]
  <2>1. Without(s, k)[j] = IF j <= k - 1 THEN a[j] ELSE b[j - (k - 1)]
    BY <1>2, <1>4, <1>5, <1>6
  <2>2. CASE j < k
    BY <1>1, <1>2, <2>1, <2>2
  <2>3. CASE ~(j < k)
    <3>1. j - (k - 1) \in 1..(Len(s) - k) /\ k + (j - (k - 1)) = j + 1
      BY <1>1, <2>3
    <3>2. b[j - (k - 1)] = s[j + 1]
      BY <1>3, <3>1
    <3> QED BY <1>1, <2>1, <2>3, <3>2
  <2> QED BY <2>2, <2>3
<1> QED BY <1>4, <1>5, <1>6, <1>7

\* Of a batch that names every instrument once, each tick becomes its instrument's payload.
LEMMA StoredProperties ==
    ASSUME NEW ticks \in Seq(Ticks), Distinct(ticks),
           lastTickPayload \in [Instruments -> Nat]
    PROVE  /\ Stored(ticks) \in [Instruments -> Nat]
           /\ \A k \in DOMAIN ticks : Stored(ticks)[ticks[k].of] = ticks[k].n
           /\ \A i \in Instruments \ InstrumentsOf(ticks) :
                 Stored(ticks)[i] = lastTickPayload[i]
<1>1. \A k \in DOMAIN ticks : ticks[k] \in Ticks
  BY LenProperties, ElementOfSeq
<1>2. ASSUME NEW k \in DOMAIN ticks
      PROVE  (CHOOSE t \in {ticks[j] : j \in DOMAIN ticks} : t.of = ticks[k].of) = ticks[k]
  <2>1. \A t \in {ticks[j] : j \in DOMAIN ticks} : t.of = ticks[k].of <=> t = ticks[k]
    BY DEF Distinct
  <2> QED BY <2>1
<1>3. \A k \in DOMAIN ticks :
         /\ ticks[k].of \in Instruments /\ ticks[k].n \in Nat
         /\ ticks[k].of \in InstrumentsOf(ticks)
  BY <1>1 DEF Ticks, InstrumentsOf
<1>4. \A k \in DOMAIN ticks : Stored(ticks)[ticks[k].of] = ticks[k].n
  BY <1>2, <1>3 DEF Stored
<1>5. \A i \in Instruments \ InstrumentsOf(ticks) : Stored(ticks)[i] = lastTickPayload[i]
  BY DEF Stored
<1>6. \A i \in InstrumentsOf(ticks) : \E k \in DOMAIN ticks : ticks[k].of = i
  BY DEF InstrumentsOf
<1>7. \A i \in Instruments : Stored(ticks)[i] \in Nat
  BY <1>3, <1>4, <1>5, <1>6
<1>8. Stored(ticks) = [i \in Instruments |-> Stored(ticks)[i]]
  BY DEF Stored
<1> QED BY <1>4, <1>5, <1>7, <1>8

LEMMA TailOfTicks ==
    ASSUME NEW ticks \in Seq(Ticks), Distinct(ticks), ticks # <<>>
    PROVE  /\ Head(ticks) = ticks[1] /\ 1 \in DOMAIN ticks
           /\ Tail(ticks) \in Seq(Ticks)
           /\ Distinct(Tail(ticks))
           /\ \A k \in DOMAIN Tail(ticks) : k + 1 \in DOMAIN ticks /\ Tail(ticks)[k] = ticks[k + 1]
           /\ InstrumentsOf(Tail(ticks)) = InstrumentsOf(ticks) \ {ticks[1].of}
<1>1. /\ Tail(ticks) \in Seq(Ticks) /\ Len(Tail(ticks)) = Len(ticks) - 1
      /\ \A k \in 1..Len(Tail(ticks)) : Tail(ticks)[k] = ticks[k + 1]
  BY HeadTailProperties
<1>2. Len(ticks) \in Nat \ {0} /\ DOMAIN ticks = 1..Len(ticks)
      /\ DOMAIN Tail(ticks) = 1..Len(Tail(ticks))
  BY <1>1, LenProperties, EmptySeq
<1>3. Head(ticks) = ticks[1]
  BY <1>2
<1>4. \A k \in DOMAIN Tail(ticks) : k + 1 \in DOMAIN ticks /\ Tail(ticks)[k] = ticks[k + 1]
  BY <1>1, <1>2
<1>5. Distinct(Tail(ticks))
  BY <1>1, <1>2, <1>4 DEF Distinct
<1>6. \A k \in DOMAIN ticks : k # 1 => k - 1 \in DOMAIN Tail(ticks) /\ ticks[k] = Tail(ticks)[k - 1]
  BY <1>1, <1>2
<1>7. InstrumentsOf(Tail(ticks)) = InstrumentsOf(ticks) \ {ticks[1].of}
  <2>1. ASSUME NEW k \in DOMAIN Tail(ticks)
        PROVE  Tail(ticks)[k].of \in InstrumentsOf(ticks) \ {ticks[1].of}
    BY <1>2, <1>4 DEF Distinct, InstrumentsOf
  <2>2. ASSUME NEW k \in DOMAIN ticks, ticks[k].of # ticks[1].of
        PROVE  ticks[k].of \in InstrumentsOf(Tail(ticks))
    BY <1>6, <2>2 DEF InstrumentsOf
  <2> QED BY <2>1, <2>2 DEF InstrumentsOf
<1> QED BY <1>1, <1>2, <1>3, <1>4, <1>5, <1>7

-----------------------------------------------------------------------------
(* What Proceed does to an instrument, the forwards under way being fw.     *)

LeavesAlone(l, i, ticks, fw) ==
    /\ lastTickPayload'[i] = lastTickPayload[i]
    /\ forwards'[i] = fw[i]
    /\ i \in coalesceTimers' <=> i \in coalesceTimers
    /\ i \in stranded' <=> i \in stranded
    /\ i \in InstrumentsOf(rest'[l]) <=> i \in InstrumentsOf(ticks)

Takes(l, i, tick, fw) ==
    /\ tick.of = i
    /\ lastTickPayload'[i] = tick.n
    /\ i \notin InstrumentsOf(rest'[l])
    /\ i \in coalesceTimers => i \in coalesceTimers'
    /\ i \notin stranded'
    /\ \/ forwards'[i] = Append(fw[i], [n |-> tick.n, by |-> l])
       \/ forwards'[i] = fw[i] /\ i \in coalesceTimers'

LEMMA ProceedEffects ==
    ASSUME TypeOK, NEW l \in Loops, NEW ticks \in Seq(Ticks), Distinct(ticks),
           NEW fw \in [Instruments -> Seq(Forwards)], Proceed(l, ticks, fw)
    PROVE  /\ lastTickPayload' \in [Instruments -> Nat]
           /\ coalesceTimers' \subseteq Instruments
           /\ forwards' \in [Instruments -> Seq(Forwards)]
           /\ stranded' \subseteq Instruments
           /\ rest' \in [Loops -> Seq(Ticks)]
           /\ \A m \in Loops \ {l} : rest'[m] = rest[m]
           /\ Distinct(rest'[l])
           /\ \A k \in DOMAIN rest'[l] : \E j \in DOMAIN ticks : rest'[l][k] = ticks[j]
           /\ \A i \in Instruments :
                 LeavesAlone(l, i, ticks, fw)
                    \/ \E k \in DOMAIN ticks : Takes(l, i, ticks[k], fw)
<1>0. /\ lastTickPayload \in [Instruments -> Nat] /\ coalesceTimers \subseteq Instruments
      /\ rest \in [Loops -> Seq(Ticks)] /\ stranded \subseteq Instruments
  BY DEF TypeOK
<1>1. \A k \in DOMAIN ticks : ticks[k] \in Ticks
  BY LenProperties, ElementOfSeq
<1>2. \A k \in DOMAIN ticks : ticks[k].of \in Instruments /\ ticks[k].n \in Nat \ {0}
  BY <1>1 DEF Ticks
<1>3. \A i : i \in InstrumentsOf(ticks) <=> \E k \in DOMAIN ticks : ticks[k].of = i
  BY DEF InstrumentsOf
<1>4. <<>> \in Seq(Ticks) /\ DOMAIN <<>> = {} /\ InstrumentsOf(<<>>) = {} /\ Distinct(<<>>)
  BY EmptySeq DEF InstrumentsOf, Distinct
<1>5. CASE globalTickThrottleMs \/ ticks = <<>>
  <2>1. /\ lastTickPayload' = Stored(ticks)
        /\ coalesceTimers' = coalesceTimers \cup InstrumentsOf(ticks)
        /\ rest' = [rest EXCEPT ![l] = <<>>]
        /\ forwards' = fw
        /\ stranded' = stranded \ InstrumentsOf(ticks)
    BY <1>5 DEF Proceed, Coalesce
  <2>2. rest'[l] = <<>> /\ \A m \in Loops \ {l} : rest'[m] = rest[m]
    BY <1>0, <2>1
  <2>3. rest' \in [Loops -> Seq(Ticks)]
    BY <1>0, <1>4, <2>1
  <2>4. /\ lastTickPayload' \in [Instruments -> Nat]
        /\ \A k \in DOMAIN ticks : lastTickPayload'[ticks[k].of] = ticks[k].n
        /\ \A i \in Instruments \ InstrumentsOf(ticks) :
              lastTickPayload'[i] = lastTickPayload[i]
    BY <1>0, <2>1, StoredProperties
  <2>5. coalesceTimers' \subseteq Instruments /\ stranded' \subseteq Instruments
    BY <1>0, <1>2, <1>3, <2>1
  <2>6. ASSUME NEW i \in Instruments, i \notin InstrumentsOf(ticks)
        PROVE  LeavesAlone(l, i, ticks, fw)
    BY <1>4, <2>1, <2>2, <2>4, <2>6 DEF LeavesAlone
  <2>7. ASSUME NEW k \in DOMAIN ticks
        PROVE  Takes(l, ticks[k].of, ticks[k], fw)
    BY <1>3, <1>4, <2>1, <2>2, <2>4, <2>7 DEF Takes
  <2>8. \A i \in Instruments :
           LeavesAlone(l, i, ticks, fw) \/ \E k \in DOMAIN ticks : Takes(l, i, ticks[k], fw)
    BY <1>3, <2>6, <2>7
  <2> QED BY <1>4, <2>1, <2>2, <2>3, <2>4, <2>5, <2>8
<1>6. CASE ~(globalTickThrottleMs \/ ticks = <<>>)
  <2> DEFINE tick == Head(ticks)
  <2>1. /\ lastTickPayload' = Stored(<<tick>>)
        /\ rest' = [rest EXCEPT ![l] = Tail(ticks)]
        /\ forwards' = [fw EXCEPT ![tick.of] = Append(@, [n |-> tick.n, by |-> l])]
        /\ stranded' = stranded \ {tick.of}
        /\ UNCHANGED coalesceTimers
    BY <1>6 DEF Proceed
  <2>2. /\ tick = ticks[1] /\ 1 \in DOMAIN ticks
        /\ Tail(ticks) \in Seq(Ticks)
        /\ Distinct(Tail(ticks))
        /\ \A k \in DOMAIN Tail(ticks) :
              k + 1 \in DOMAIN ticks /\ Tail(ticks)[k] = ticks[k + 1]
        /\ InstrumentsOf(Tail(ticks)) = InstrumentsOf(ticks) \ {tick.of}
    BY <1>6, TailOfTicks
  <2>3. tick \in Ticks /\ tick.of \in Instruments /\ tick.n \in Nat \ {0}
    BY <1>1, <1>2, <2>2
  <2> HIDE DEF tick
  <2>4. <<tick>> \in Seq(Ticks) /\ DOMAIN <<tick>> = {1} /\ <<tick>>[1] = tick
    BY <2>3
  <2>5. Distinct(<<tick>>) /\ InstrumentsOf(<<tick>>) = {tick.of}
    BY <2>4 DEF Distinct, InstrumentsOf
  <2>6. /\ lastTickPayload' \in [Instruments -> Nat]
        /\ lastTickPayload'[tick.of] = tick.n
        /\ \A i \in Instruments \ {tick.of} : lastTickPayload'[i] = lastTickPayload[i]
    BY <1>0, <2>1, <2>4, <2>5, StoredProperties
  <2>7. rest'[l] = Tail(ticks) /\ \A m \in Loops \ {l} : rest'[m] = rest[m]
    BY <1>0, <2>1
  <2>8. rest' \in [Loops -> Seq(Ticks)]
    BY <1>0, <2>1, <2>2
  <2>9. [n |-> tick.n, by |-> l] \in Forwards
    BY <2>3 DEF Forwards
  <2>10. /\ forwards'[tick.of] = Append(fw[tick.of], [n |-> tick.n, by |-> l])
         /\ \A i \in Instruments \ {tick.of} : forwards'[i] = fw[i]
         /\ forwards' \in [Instruments -> Seq(Forwards)]
    <3>1. Append(fw[tick.of], [n |-> tick.n, by |-> l]) \in Seq(Forwards)
      BY <2>3, <2>9, AppendProperties
    <3> QED BY <2>1, <2>3, <3>1
  <2>11. ASSUME NEW i \in Instruments, i # tick.of
         PROVE  LeavesAlone(l, i, ticks, fw)
    BY <2>1, <2>2, <2>6, <2>7, <2>10, <2>11 DEF LeavesAlone
  <2>12. Takes(l, tick.of, tick, fw)
    BY <2>1, <2>2, <2>3, <2>6, <2>7, <2>10 DEF Takes
  <2>13. \A i \in Instruments :
            LeavesAlone(l, i, ticks, fw) \/ \E k \in DOMAIN ticks : Takes(l, i, ticks[k], fw)
    BY <2>2, <2>11, <2>12
  <2>14. \A k \in DOMAIN rest'[l] : \E j \in DOMAIN ticks : rest'[l][k] = ticks[j]
    BY <2>2, <2>7
  <2> QED BY <1>0, <2>1, <2>2, <2>6, <2>7, <2>8, <2>10, <2>13, <2>14
<1> QED BY <1>5, <1>6

\* The ticks of an event are new ones, each of its own instrument.
LEMMA ArrivalEffects ==
    ASSUME TypeOK, NEW l \in Loops, NEW batch \in Batches, TicksArrive(l, batch)
    PROVE  \E ticks \in Seq(Ticks) :
              /\ Distinct(ticks)
              /\ Proceed(l, ticks, forwards)
              /\ \A k \in DOMAIN ticks : ticks[k].n = arrived'[ticks[k].of]
              /\ \A i \in Instruments :
                    arrived'[i] = IF i \in InstrumentsOf(ticks) THEN arrived[i] + 1 ELSE arrived[i]
              /\ \A i \in Instruments : arrived'[i] \in 0..MaxTicks[i]
              /\ overlapped' = overlapped \cup
                    {i \in InstrumentsOf(ticks) : \E m \in Loops : Waits(m, i)}
              /\ InstrumentsOf(ticks) \subseteq Instruments
<1> DEFINE ticks == [k \in DOMAIN batch |-> [of |-> batch[k], n |-> arrived'[batch[k]]]]
<1>1. PICK len \in 1..2 : batch \in [1..len -> Instruments]
  BY DEF Batches
<1>2. /\ \A j, k \in DOMAIN batch : batch[j] = batch[k] => j = k
      /\ \A k \in DOMAIN batch : arrived[batch[k]] < MaxTicks[batch[k]]
      /\ arrived' = [i \in Instruments |->
            IF \E k \in DOMAIN batch : batch[k] = i THEN arrived[i] + 1 ELSE arrived[i]]
      /\ Proceed(l, ticks, forwards)
      /\ overlapped' = overlapped \cup
            {i \in Instruments : /\ \E k \in DOMAIN batch : batch[k] = i
                                 /\ \E other \in Loops : i \in InstrumentsOf(rest[other])}
  BY DEF TicksArrive
<1>3. /\ MaxTicks \in [Instruments -> Nat]
      /\ \A i \in Instruments : arrived[i] \in 0..MaxTicks[i]
  BY MaxTicksAssumption DEF TypeOK
<1>4. \A i \in Instruments : arrived'[i] \in 0..MaxTicks[i] /\ arrived'[i] \in Nat
  BY <1>1, <1>2, <1>3
<1>5. \A k \in DOMAIN batch : batch[k] \in Instruments /\ arrived'[batch[k]] \in Nat \ {0}
  BY <1>1, <1>2, <1>3
<1>6. \A k \in DOMAIN batch : ticks[k] \in Ticks
  BY <1>5 DEF Ticks
<1>7. ticks \in [1..len -> Ticks]
  BY <1>1, <1>6
<1>8. ticks \in Seq(Ticks)
  BY <1>7, SeqDef
<1>9. DOMAIN ticks = DOMAIN batch /\ \A k \in DOMAIN batch : ticks[k].of = batch[k]
  OBVIOUS
<1>10. \A k \in DOMAIN batch : ticks[k].n = arrived'[batch[k]]
  OBVIOUS
<1> HIDE DEF ticks
<1>11. \A i : i \in InstrumentsOf(ticks) <=> \E k \in DOMAIN batch : batch[k] = i
  BY <1>9 DEF InstrumentsOf
<1>12. Distinct(ticks)
  BY <1>2, <1>9 DEF Distinct
<1>13. \A k \in DOMAIN ticks : ticks[k].n = arrived'[ticks[k].of]
  BY <1>9, <1>10
<1>14. \A i \in Instruments :
          arrived'[i] = IF i \in InstrumentsOf(ticks) THEN arrived[i] + 1 ELSE arrived[i]
  BY <1>2, <1>11
<1>15. InstrumentsOf(ticks) \subseteq Instruments
  BY <1>5, <1>11
<1>16. overlapped' = overlapped \cup
          {i \in InstrumentsOf(ticks) : \E m \in Loops : Waits(m, i)}
  BY <1>2, <1>11, <1>15 DEF Waits
<1> QED BY <1>2, <1>4, <1>8, <1>12, <1>13, <1>14, <1>15, <1>16

\* A loop that goes on with ticks that are the newest of their instruments, and one newer
\* than their payloads, leaves the loops apart and every payload as fresh as it can be.
LEMMA ProceedKeepsFresh ==
    ASSUME IInv, NEW l \in Loops, NEW ticks \in Seq(Ticks), Distinct(ticks),
           NEW fw \in [Instruments -> Seq(Forwards)], Proceed(l, ticks, fw),
           overlapped \subseteq overlapped',
           \A i \in Instruments : arrived'[i] \in Nat,
           \A i \in Instruments \ overlapped' : \A k \in DOMAIN ticks : ticks[k].of = i =>
              /\ ticks[k].n = arrived'[i]
              /\ lastTickPayload[i] = arrived'[i] - 1
              /\ \A m \in Loops \ {l} : ~Waits(m, i),
           \A i \in Instruments \ overlapped' : i \notin InstrumentsOf(ticks) =>
              arrived'[i] = arrived[i] /\ ~Waits(l, i)
    PROVE  /\ LoopsAreApart' /\ PayloadIsFreshest'
           /\ \A i \in Instruments \ overlapped' : lastTickPayload'[i] >= lastTickPayload[i]
<1>1. /\ \A m \in Loops \ {l} : rest'[m] = rest[m]
      /\ Distinct(rest'[l])
      /\ \A k \in DOMAIN rest'[l] : \E j \in DOMAIN ticks : rest'[l][k] = ticks[j]
      /\ \A i \in Instruments :
            LeavesAlone(l, i, ticks, fw) \/ \E k \in DOMAIN ticks : Takes(l, i, ticks[k], fw)
  BY ProceedEffects DEF IInv
<1>2. /\ \A m \in Loops : Distinct(rest[m])
      /\ \A i \in Instruments \ overlapped : \A m, n \in Loops : Waits(m, i) /\ Waits(n, i) => m = n
      /\ \A i \in Instruments \ overlapped : \A m \in Loops : \A k \in DOMAIN rest[m] :
            rest[m][k].of = i => rest[m][k].n = arrived[i]
  BY DEF IInv, LoopsAreApart
<1>3. \A i \in Instruments \ overlapped :
         lastTickPayload[i] = arrived[i] - IF \E m \in Loops : Waits(m, i) THEN 1 ELSE 0
  BY DEF IInv, PayloadIsFreshest, Waits
<1>4. \A m : \A i : Waits(m, i) <=> \E k \in DOMAIN rest[m] : rest[m][k].of = i
  BY DEF Waits, InstrumentsOf
<1>5. \A m : \A i : Waits(m, i)' <=> \E k \in DOMAIN rest'[m] : rest'[m][k].of = i
  BY DEF Waits, InstrumentsOf
<1>6. \A i : i \in InstrumentsOf(ticks) <=> \E k \in DOMAIN ticks : ticks[k].of = i
  BY DEF InstrumentsOf
<1>7. \A i : i \in InstrumentsOf(rest'[l]) <=> Waits(l, i)'
  BY DEF Waits
<1>8. /\ \A i \in Instruments : arrived[i] \in Nat
      /\ lastTickPayload \in [Instruments -> Nat]
  BY MaxTicksAssumption DEF IInv, TypeOK
<1>9. \A m \in Loops : Distinct(rest'[m])
  BY <1>1, <1>2
\* Of an instrument in the ticks, no other loop has an entry; of any other, this one has none.
<1>10. ASSUME NEW i \in Instruments \ overlapped'
       PROVE  /\ \A m \in Loops \ {l} : Waits(m, i)' <=> Waits(m, i)
              /\ i \in InstrumentsOf(ticks) =>
                    /\ lastTickPayload[i] = arrived'[i] - 1
                    /\ \A m \in Loops \ {l} : ~Waits(m, i)'
              /\ i \notin InstrumentsOf(ticks) =>
                    /\ arrived'[i] = arrived[i]
                    /\ ~Waits(l, i) /\ ~Waits(l, i)'
  <2>1. \A m \in Loops \ {l} : Waits(m, i)' <=> Waits(m, i)
    BY <1>1, <1>4, <1>5
  <2>2. i \in InstrumentsOf(ticks) =>
           lastTickPayload[i] = arrived'[i] - 1 /\ \A m \in Loops \ {l} : ~Waits(m, i)
    BY <1>6
  <2>3. i \notin InstrumentsOf(ticks) => arrived'[i] = arrived[i] /\ ~Waits(l, i)
    OBVIOUS
  <2>4. Waits(l, i)' => i \in InstrumentsOf(ticks)
    BY <1>1, <1>5, <1>6
  <2> QED BY <2>1, <2>2, <2>3, <2>4
<1>11. ASSUME NEW i \in Instruments \ overlapped',
              NEW m \in Loops, NEW n \in Loops, Waits(m, i)', Waits(n, i)'
       PROVE  m = n
  <2>1. CASE i \in InstrumentsOf(ticks)
    BY <1>10, <1>11, <2>1
  <2>2. CASE i \notin InstrumentsOf(ticks)
    <3>1. m # l /\ n # l
      BY <1>10, <1>11, <2>2
    <3> QED BY <1>2, <1>10, <1>11, <3>1
  <2> QED BY <2>1, <2>2
<1>12. ASSUME NEW i \in Instruments \ overlapped', NEW m \in Loops,
              NEW k \in DOMAIN rest'[m], rest'[m][k].of = i
       PROVE  rest'[m][k].n = arrived'[i]
  <2>1. CASE m = l
    <3>1. PICK j \in DOMAIN ticks : rest'[l][k] = ticks[j]
      BY <1>1, <1>12, <2>1
    <3> QED BY <1>12, <2>1, <3>1
  <2>2. CASE m # l
    <3>1. Waits(m, i)' /\ rest'[m] = rest[m]
      BY <1>1, <1>5, <1>12, <2>2
    <3>2. i \notin InstrumentsOf(ticks)
      BY <1>10, <2>2, <3>1
    <3> QED BY <1>2, <1>10, <1>12, <3>1, <3>2
  <2> QED BY <2>1, <2>2
<1>13. ASSUME NEW i \in Instruments \ overlapped'
       PROVE  /\ lastTickPayload'[i] =
                    arrived'[i] - IF \E m \in Loops : Waits(m, i)' THEN 1 ELSE 0
              /\ lastTickPayload'[i] >= lastTickPayload[i]
  <2>1. CASE \E k \in DOMAIN ticks : Takes(l, i, ticks[k], fw)
    <3>1. PICK k \in DOMAIN ticks : Takes(l, i, ticks[k], fw)
      BY <2>1
    <3>2. ticks[k].of = i /\ lastTickPayload'[i] = ticks[k].n /\ ~Waits(l, i)'
      BY <1>7, <3>1 DEF Takes
    <3>3. i \in InstrumentsOf(ticks) /\ ticks[k].n = arrived'[i]
      BY <1>6, <3>2
    <3>4. lastTickPayload[i] = arrived'[i] - 1 /\ ~\E m \in Loops : Waits(m, i)'
      BY <1>10, <3>2, <3>3
    <3> QED BY <1>8, <3>2, <3>3, <3>4
  <2>2. CASE LeavesAlone(l, i, ticks, fw)
    <3>1. /\ lastTickPayload'[i] = lastTickPayload[i]
          /\ Waits(l, i)' <=> i \in InstrumentsOf(ticks)
      BY <1>7, <2>2 DEF LeavesAlone
    <3>2. CASE i \in InstrumentsOf(ticks)
      <4>1. lastTickPayload[i] = arrived'[i] - 1 /\ \E m \in Loops : Waits(m, i)'
        BY <1>10, <3>1, <3>2
      <4> QED BY <1>8, <3>1, <4>1
    <3>3. CASE i \notin InstrumentsOf(ticks)
      <4>1. (\E m \in Loops : Waits(m, i)') <=> (\E m \in Loops : Waits(m, i))
        BY <1>10, <3>3
      <4>2. arrived'[i] = arrived[i]
        BY <1>10, <3>3
      <4> QED BY <1>3, <1>8, <3>1, <4>1, <4>2
    <3> QED BY <3>2, <3>3
  <2> QED BY <1>1, <2>1, <2>2
<1>14. LoopsAreApart'
  BY <1>9, <1>11, <1>12 DEF LoopsAreApart
<1>15. PayloadIsFreshest'
  BY <1>13 DEF PayloadIsFreshest, Waits
<1> QED BY <1>13, <1>14, <1>15

-----------------------------------------------------------------------------
(* What a step may do to an instrument: a forward returns, leaving f under   *)
(* way, and then the payload moves on.                                      *)

Delivers(i, f) ==
    \/ /\ f = forwards[i]
       /\ lastTick'[i] = lastTick[i]
       /\ \A c \in Clients : shown'[c][i] = shown[c][i]
    \/ /\ forwards[i] # <<>> /\ f = Without(forwards[i], 1)
       /\ lastTick'[i] = forwards[i][1].n
       /\ \A c \in Clients : shown'[c][i] \in {shown[c][i], forwards[i][1].n}
       /\ \A c \in Clients \ Throttled : shown'[c][i] = forwards[i][1].n
    \/ i \in broken'

\* The payload is forwarded, or left to a timer or stranded, or is what it was and no timer
\* is gone.
Moves(i, f) ==
    /\ i \notin overlapped' => lastTickPayload'[i] >= lastTickPayload[i]
    /\ \/ \E by : forwards'[i] = Append(f, [n |-> lastTickPayload'[i], by |-> by])
       \/ forwards'[i] = f /\ i \in coalesceTimers' \cup stranded'
       \/ /\ forwards'[i] = f /\ lastTickPayload'[i] = lastTickPayload[i]
          /\ i \notin coalesceTimers \cup stranded

PayloadTypes ==
    /\ rest \in [Loops -> Seq(Ticks)]
    /\ lastTickPayload \in [Instruments -> Nat]
    /\ coalesceTimers \subseteq Instruments
    /\ forwards \in [Instruments -> Seq(Forwards)]
    /\ stranded \subseteq Instruments

LEMMA ProceedMoves ==
    ASSUME IInv, NEW l \in Loops, NEW ticks \in Seq(Ticks), Distinct(ticks),
           NEW fw \in [Instruments -> Seq(Forwards)], Proceed(l, ticks, fw),
           \A i \in Instruments \ overlapped' : lastTickPayload'[i] >= lastTickPayload[i]
    PROVE  /\ PayloadTypes' /\ TimersHavePayload'
           /\ \A i \in Instruments : Moves(i, fw[i])
<1>1. /\ PayloadTypes'
      /\ \A i \in Instruments :
            LeavesAlone(l, i, ticks, fw) \/ \E k \in DOMAIN ticks : Takes(l, i, ticks[k], fw)
  BY ProceedEffects DEF IInv, PayloadTypes
<1>2. \A k \in DOMAIN ticks : ticks[k].n \in Nat \ {0}
  <2>1. \A k \in DOMAIN ticks : ticks[k] \in Ticks
    BY LenProperties, ElementOfSeq
  <2> QED BY <2>1 DEF Ticks
<1>3. ASSUME NEW i \in Instruments
      PROVE  Moves(i, fw[i]) /\ (i \in coalesceTimers' => lastTickPayload'[i] # 0)
  <2>1. CASE LeavesAlone(l, i, ticks, fw)
    BY <2>1 DEF LeavesAlone, Moves, IInv, TimersHavePayload
  <2>2. CASE \E k \in DOMAIN ticks : Takes(l, i, ticks[k], fw)
    BY <1>2, <2>2 DEF Takes, Moves
  <2> QED BY <1>1, <2>1, <2>2
<1>4. TimersHavePayload'
  BY <1>1, <1>3 DEF TimersHavePayload, PayloadTypes
<1> QED BY <1>1, <1>3, <1>4

\* An event's ticks start a loop.
LEMMA TicksArriveEffects ==
    ASSUME IInv, NEW l \in Loops, NEW batch \in Batches, TicksArrive(l, batch)
    PROVE  /\ TypeOK' /\ LoopsAreApart' /\ PayloadIsFreshest' /\ TimersHavePayload'
           /\ overlapped \subseteq overlapped'
           /\ \A i \in Instruments : Delivers(i, forwards[i]) /\ Moves(i, forwards[i])
<1>0. TypeOK
  BY DEF IInv
<1>1. PICK ticks \in Seq(Ticks) :
              /\ Distinct(ticks)
              /\ Proceed(l, ticks, forwards)
              /\ \A k \in DOMAIN ticks : ticks[k].n = arrived'[ticks[k].of]
              /\ \A i \in Instruments :
                    arrived'[i] = IF i \in InstrumentsOf(ticks) THEN arrived[i] + 1 ELSE arrived[i]
              /\ \A i \in Instruments : arrived'[i] \in 0..MaxTicks[i]
              /\ overlapped' = overlapped \cup
                    {i \in InstrumentsOf(ticks) : \E m \in Loops : Waits(m, i)}
              /\ InstrumentsOf(ticks) \subseteq Instruments
  BY <1>0, ArrivalEffects
<1>2. rest[l] = <<>> /\ UNCHANGED <<throttleVars, clientVars, broken>>
  BY DEF TicksArrive
<1>3. forwards \in [Instruments -> Seq(Forwards)]
  BY <1>0 DEF TypeOK, Forwards
<1>4. /\ \A i \in Instruments : arrived[i] \in Nat /\ arrived'[i] \in Nat
      /\ lastTickPayload \in [Instruments -> Nat]
  BY <1>0, <1>1, MaxTicksAssumption DEF TypeOK
<1>5. \A i : i \in InstrumentsOf(ticks) <=> \E k \in DOMAIN ticks : ticks[k].of = i
  BY DEF InstrumentsOf
<1>6. \A i : ~Waits(l, i)
  BY <1>2 DEF Waits, InstrumentsOf
<1>7. ASSUME NEW i \in Instruments \ overlapped', NEW k \in DOMAIN ticks, ticks[k].of = i
      PROVE  /\ ticks[k].n = arrived'[i]
             /\ lastTickPayload[i] = arrived'[i] - 1
             /\ \A m \in Loops \ {l} : ~Waits(m, i)
  <2>1. i \in InstrumentsOf(ticks) /\ ticks[k].n = arrived'[i] /\ arrived'[i] = arrived[i] + 1
    BY <1>1, <1>5, <1>7
  <2>2. i \notin overlapped /\ \A m \in Loops : ~Waits(m, i)
    BY <1>1, <2>1
  <2>3. lastTickPayload[i] = arrived[i]
    BY <1>4, <2>2 DEF IInv, PayloadIsFreshest, Waits
  <2> QED BY <1>4, <2>1, <2>2, <2>3
<1>8. \A i \in Instruments \ overlapped' : i \notin InstrumentsOf(ticks) =>
         arrived'[i] = arrived[i] /\ ~Waits(l, i)
  BY <1>1, <1>6
<1>9. overlapped \subseteq overlapped'
  BY <1>1
<1>10. /\ LoopsAreApart' /\ PayloadIsFreshest'
       /\ \A i \in Instruments \ overlapped' : lastTickPayload'[i] >= lastTickPayload[i]
  BY <1>1, <1>3, <1>4, <1>7, <1>8, <1>9, ProceedKeepsFresh
<1>11. /\ PayloadTypes' /\ TimersHavePayload'
       /\ \A i \in Instruments : Moves(i, forwards[i])
  BY <1>1, <1>3, <1>10, ProceedMoves
<1>12. TypeOK'
  <2>1. overlapped' \subseteq Instruments
    BY <1>0, <1>1 DEF TypeOK
  <2>2. \A i \in Instruments : arrived'[i] \in 0..MaxTicks[i]
    BY <1>1
  <2> QED BY <1>0, <1>2, <1>11, <2>1, <2>2
          DEF TypeOK, PayloadTypes, Forwards, throttleVars, clientVars
<1>13. \A i \in Instruments : Delivers(i, forwards[i])
  BY <1>2 DEF Delivers, clientVars
<1> QED BY <1>9, <1>10, <1>11, <1>12, <1>13

\* A forward returns: its number is shown, and a loop that awaited it goes on.
LEMMA ReturnsEffects ==
    ASSUME IInv, NEW i \in Instruments, NEW k \in DOMAIN forwards[i], Returns(i, k),
           lastTick' \in {lastTick, [lastTick EXCEPT ![i] = forwards[i][k].n]},
           broken \subseteq broken', broken' \subseteq Instruments
    PROVE  /\ TypeOK' /\ LoopsAreApart' /\ PayloadIsFreshest' /\ TimersHavePayload'
           /\ overlapped' = overlapped
           /\ \A c \in Clients : /\ shown'[c][i] \in {shown[c][i], forwards[i][k].n}
                                 /\ c \notin Throttled => shown'[c][i] = forwards[i][k].n
           /\ \A c \in Clients, j \in Instruments \ {i} : shown'[c][j] = shown[c][j]
           /\ \A j \in Instruments \ {i} : lastTick'[j] = lastTick[j]
           /\ \A j \in Instruments :
                 Moves(j, IF j = i THEN Without(forwards[i], k) ELSE forwards[j])
<1> DEFINE forward == forwards[i][k]
           fw == [forwards EXCEPT ![i] = Without(forwards[i], k)]
<1>0. TypeOK
  BY DEF IInv
<1>1. forwards \in [Instruments -> Seq(Forwards)] /\ forwards[i] \in Seq(Forwards)
  BY <1>0 DEF TypeOK, Forwards
<1>2. k \in 1..Len(forwards[i])
  BY <1>1, LenProperties
<1>3. forward \in Forwards /\ Without(forwards[i], k) \in Seq(Forwards)
  BY <1>1, <1>2, ElementOfSeq, WithoutProperties
<1>4. fw \in [Instruments -> Seq(Forwards)]
  BY <1>1, <1>3
<1>5. \A j \in Instruments : fw[j] = IF j = i THEN Without(forwards[i], k) ELSE forwards[j]
  BY <1>1
<1>6. /\ Broadcast(i, forward.n)
      /\ IF forward.by \in Loops
         THEN Proceed(forward.by, rest[forward.by], fw)
         ELSE forwards' = fw /\ UNCHANGED <<rest, lastTickPayload, coalesceTimers, stranded>>
      /\ UNCHANGED <<arrived, throttleVars, overlapped>>
  BY DEF Returns, Without
<1>7. forward.n \in Nat
  BY <1>3 DEF Forwards
<1> HIDE DEF forward, fw
<1>8. /\ shown' \in [Clients -> [Instruments -> Nat]]
      /\ recent' \in [Throttled -> SUBSET Instruments]
      /\ \A c \in Clients : /\ shown'[c][i] \in {shown[c][i], forward.n}
                            /\ c \notin Throttled => shown'[c][i] = forward.n
      /\ \A c \in Clients, j \in Instruments \ {i} : shown'[c][j] = shown[c][j]
  <2>1. shown \in [Clients -> [Instruments -> Nat]] /\ recent \in [Throttled -> SUBSET Instruments]
    BY <1>0 DEF TypeOK
  <2>2. PICK passed \in SUBSET Clients :
           /\ \A c \in Clients : c \notin Throttled => c \in passed
           /\ shown' = [c \in Clients |->
                 IF c \in passed THEN [shown[c] EXCEPT ![i] = forward.n] ELSE shown[c]]
           /\ recent' = [c \in Throttled |-> recent[c] \cup {i}]
    <3> DEFINE passed == {c \in Clients : c \in Throttled => i \notin recent[c]}
    <3>1. passed \in SUBSET Clients /\ \A c \in Clients : c \notin Throttled => c \in passed
      OBVIOUS
    <3> QED BY <1>6, <3>1 DEF Broadcast
  <2>3. \A c \in Clients : [shown[c] EXCEPT ![i] = forward.n] \in [Instruments -> Nat]
    BY <1>7, <2>1
  <2> QED BY <2>1, <2>2, <2>3
<1>9. lastTick' \in [Instruments -> Nat] /\ \A j \in Instruments \ {i} : lastTick'[j] = lastTick[j]
  BY <1>0, <1>7 DEF TypeOK, forward
<1>10. /\ LoopsAreApart' /\ PayloadIsFreshest' /\ PayloadTypes' /\ TimersHavePayload'
       /\ \A j \in Instruments : Moves(j, fw[j])
  <2>1. CASE forward.by \in Loops
    <3> DEFINE l == forward.by
               ticks == rest[l]
    <3>1. /\ ticks \in Seq(Ticks) /\ Distinct(ticks) /\ Proceed(l, ticks, fw)
      BY <1>0, <1>6, <2>1 DEF TypeOK, IInv, LoopsAreApart
    <3>2. /\ \A j \in Instruments : arrived[j] \in Nat /\ arrived'[j] = arrived[j]
          /\ overlapped' = overlapped /\ lastTickPayload \in [Instruments -> Nat]
      BY <1>0, <1>6, MaxTicksAssumption DEF TypeOK
    <3>3. \A j : Waits(l, j) <=> \E n \in DOMAIN ticks : ticks[n].of = j
      BY DEF Waits, InstrumentsOf
    <3>4. \A j : Waits(l, j) <=> j \in InstrumentsOf(ticks)
      BY DEF Waits
    <3> HIDE DEF ticks
    <3>5. ASSUME NEW j \in Instruments \ overlapped', NEW n \in DOMAIN ticks, ticks[n].of = j
          PROVE  /\ ticks[n].n = arrived'[j]
                 /\ lastTickPayload[j] = arrived'[j] - 1
                 /\ \A m \in Loops \ {l} : ~Waits(m, j)
      <4>1. Waits(l, j)
        BY <3>3, <3>5
      <4>2. ticks[n].n = arrived[j] /\ \A m \in Loops \ {l} : ~Waits(m, j)
        BY <2>1, <3>2, <3>5, <4>1 DEF IInv, LoopsAreApart, ticks
      <4>3. lastTickPayload[j] = arrived[j] - 1
        BY <2>1, <3>2, <4>1 DEF IInv, PayloadIsFreshest, Waits
      <4> QED BY <3>2, <4>2, <4>3
    <3>6. /\ LoopsAreApart' /\ PayloadIsFreshest'
          /\ \A j \in Instruments \ overlapped' : lastTickPayload'[j] >= lastTickPayload[j]
      BY <1>4, <2>1, <3>1, <3>2, <3>4, <3>5, ProceedKeepsFresh
    <3> QED BY <1>4, <2>1, <3>1, <3>6, ProceedMoves
  <2>2. CASE forward.by \notin Loops
    <3>1. forwards' = fw /\ UNCHANGED <<rest, lastTickPayload, coalesceTimers, stranded,
                                        arrived, overlapped>>
      BY <1>6, <2>2
    <3>2. LoopsAreApart' /\ PayloadIsFreshest' /\ TimersHavePayload'
      BY <3>1 DEF IInv, LoopsAreApart, PayloadIsFreshest, TimersHavePayload, Distinct, Waits,
                  InstrumentsOf
    <3>3. PayloadTypes'
      BY <1>0, <1>4, <3>1 DEF PayloadTypes, TypeOK
    <3>4. ASSUME NEW j \in Instruments
          PROVE  Moves(j, fw[j])
      BY <1>0, <3>1 DEF Moves, TypeOK
    <3> QED BY <3>2, <3>3, <3>4
  <2> QED BY <2>1, <2>2
<1>11. TypeOK'
  <2>1. \A j \in Instruments : arrived'[j] \in 0..MaxTicks[j]
    BY <1>0, <1>6 DEF TypeOK
  <2> QED BY <1>0, <1>6, <1>8, <1>9, <1>10, <2>1 DEF TypeOK, PayloadTypes, Forwards, throttleVars
<1> QED BY <1>5, <1>6, <1>8, <1>9, <1>10, <1>11 DEF forward

\* A timer or the pulse forwards the last payload once more.
LEMMA ForwardEffects ==
    ASSUME IInv, NEW i \in Instruments, NEW by \in {Timer, Pulse},
           lastTickPayload[i] # 0, Forward(i, by),
           coalesceTimers' \in {coalesceTimers, coalesceTimers \ {i}},
           UNCHANGED <<tickVars, throttleVars, lastTickPayload, clientVars, overlapped, broken>>
    PROVE  /\ TypeOK' /\ LoopsAreApart' /\ PayloadIsFreshest' /\ TimersHavePayload'
           /\ \A j \in Instruments : Delivers(j, forwards[j]) /\ Moves(j, forwards[j])
<1> DEFINE entry == [n |-> lastTickPayload[i], by |-> by]
<1>0. TypeOK
  BY DEF IInv
<1>1. /\ forwards' = [forwards EXCEPT ![i] = Append(@, entry)]
      /\ stranded' = stranded \ {i}
  BY DEF Forward
<1>2. /\ UNCHANGED <<arrived, rest, globalTickThrottleMs, saving, lastTickPayload>>
      /\ UNCHANGED <<lastTick, shown, recent, overlapped, broken>>
  BY DEF tickVars, throttleVars, clientVars
<1>3. /\ forwards \in [Instruments -> Seq(Forwards)]
      /\ lastTickPayload \in [Instruments -> Nat]
  BY <1>0 DEF TypeOK, Forwards
<1>4. entry \in Forwards
  BY <1>3 DEF Forwards
<1>5. Append(forwards[i], entry) \in Seq(Forwards)
  BY <1>3, <1>4, AppendProperties
<1>6. forwards' \in [Instruments -> Seq(Forwards)]
  BY <1>1, <1>3, <1>5
<1>7. TypeOK'
  BY <1>0, <1>1, <1>2, <1>6 DEF TypeOK, Forwards
<1>8. LoopsAreApart' /\ PayloadIsFreshest' /\ TimersHavePayload'
  BY <1>2 DEF IInv, LoopsAreApart, PayloadIsFreshest, TimersHavePayload, Distinct, Waits,
              InstrumentsOf
<1>9. Moves(i, forwards[i])
  <2>1. forwards'[i] = Append(forwards[i], [n |-> lastTickPayload'[i], by |-> by])
    BY <1>1, <1>2, <1>3
  <2>2. lastTickPayload'[i] >= lastTickPayload[i]
    BY <1>2, <1>3
  <2> QED BY <2>1, <2>2 DEF Moves
<1>10. \A j \in Instruments \ {i} : Moves(j, forwards[j])
  BY <1>1, <1>2, <1>3 DEF Moves
<1>11. \A j \in Instruments : Delivers(j, forwards[j])
  BY <1>2 DEF Delivers
<1> QED BY <1>7, <1>8, <1>9, <1>10, <1>11

\* What clears timers strands them; a window that passes and a change of the throttle touch
\* no payload.
LEMMA ClearEffects ==
    ASSUME IInv,
           \/ \E is \in SUBSET Instruments : Clear(is)
           \/ UNCHANGED <<coalesceTimers, stranded>>,
           UNCHANGED <<tickVars, lastTickPayload, forwards, lastTick, shown, overlapped, broken>>,
           globalTickThrottleMs' \in BOOLEAN, saving' \in BOOLEAN,
           recent' \in [Throttled -> SUBSET Instruments]
    PROVE  /\ TypeOK' /\ LoopsAreApart' /\ PayloadIsFreshest' /\ TimersHavePayload'
           /\ \A j \in Instruments : Delivers(j, forwards[j]) /\ Moves(j, forwards[j])
<1>0. TypeOK
  BY DEF IInv
<1>1. /\ coalesceTimers' \subseteq coalesceTimers
      /\ stranded' \subseteq Instruments
      /\ coalesceTimers \cup stranded \subseteq coalesceTimers' \cup stranded'
  BY <1>0 DEF Clear, TypeOK
<1>2. UNCHANGED <<arrived, rest, lastTickPayload, forwards, lastTick, shown, overlapped, broken>>
  BY DEF tickVars
<1>3. TypeOK'
  BY <1>0, <1>1, <1>2 DEF TypeOK
<1>4. LoopsAreApart' /\ PayloadIsFreshest' /\ TimersHavePayload'
  BY <1>1, <1>2 DEF IInv, LoopsAreApart, PayloadIsFreshest, TimersHavePayload, Distinct, Waits,
                    InstrumentsOf
<1>5. \A j \in Instruments : lastTickPayload'[j] >= lastTickPayload[j]
  BY <1>0, <1>2 DEF TypeOK
<1>6. \A j \in Instruments : Delivers(j, forwards[j]) /\ Moves(j, forwards[j])
  BY <1>1, <1>2, <1>5 DEF Delivers, Moves
<1> QED BY <1>3, <1>4, <1>6

Remains(i, f) == f = forwards[i] \/ \E k \in DOMAIN forwards[i] : f = Without(forwards[i], k)

\* Every step of the pipeline, as each instrument sees it.
LEMMA StepEffects ==
    ASSUME IInv, [Next]_vars
    PROVE  /\ TypeOK' /\ LoopsAreApart' /\ PayloadIsFreshest' /\ TimersHavePayload'
           /\ overlapped \subseteq overlapped' /\ broken \subseteq broken'
           /\ \A i \in Instruments : \E f :
                 Remains(i, f) /\ Delivers(i, f) /\ Moves(i, f)
<1> DEFINE Goal ==
           /\ TypeOK' /\ LoopsAreApart' /\ PayloadIsFreshest' /\ TimersHavePayload'
           /\ overlapped \subseteq overlapped' /\ broken \subseteq broken'
           /\ \A i \in Instruments : \E f :
                 Remains(i, f) /\ Delivers(i, f) /\ Moves(i, f)
<1>0. TypeOK
  BY DEF IInv
<1>1. ASSUME /\ TypeOK' /\ LoopsAreApart' /\ PayloadIsFreshest' /\ TimersHavePayload'
             /\ overlapped \subseteq overlapped' /\ broken' = broken
             /\ \A i \in Instruments : Delivers(i, forwards[i]) /\ Moves(i, forwards[i])
      PROVE  Goal
  BY <1>1 DEF Remains
<1>2. ASSUME NEW l \in Loops, NEW batch \in Batches, TicksArrive(l, batch)
      PROVE  Goal
  <2>1. broken' = broken
    BY <1>2 DEF TicksArrive
  <2> QED BY <1>1, <1>2, <2>1, TicksArriveEffects
<1>3. ASSUME NEW i \in Instruments, NEW k \in DOMAIN forwards[i], Returns(i, k),
             lastTick' \in {lastTick, [lastTick EXCEPT ![i] = forwards[i][k].n]},
             broken \subseteq broken', broken' \subseteq Instruments,
             Delivers(i, Without(forwards[i], k))
      PROVE  Goal
  <2>1. /\ TypeOK' /\ LoopsAreApart' /\ PayloadIsFreshest' /\ TimersHavePayload'
        /\ overlapped' = overlapped
        /\ \A c \in Clients, j \in Instruments \ {i} : shown'[c][j] = shown[c][j]
        /\ \A j \in Instruments \ {i} : lastTick'[j] = lastTick[j]
        /\ \A j \in Instruments :
              Moves(j, IF j = i THEN Without(forwards[i], k) ELSE forwards[j])
    BY <1>3, ReturnsEffects
  <2>2. ASSUME NEW j \in Instruments
        PROVE  \E f : Remains(j, f) /\ Delivers(j, f) /\ Moves(j, f)
    <3>1. CASE j = i
      <4>1. Moves(i, Without(forwards[i], k))
        BY <2>1
      <4>2. Remains(i, Without(forwards[i], k))
        BY DEF Remains
      <4> QED BY <1>3, <3>1, <4>1, <4>2
    <3>2. CASE j # i
      <4>1. Moves(j, forwards[j]) /\ Delivers(j, forwards[j]) /\ Remains(j, forwards[j])
        BY <2>1, <3>2 DEF Delivers, Remains
      <4> QED BY <4>1
    <3> QED BY <3>1, <3>2
  <2> QED BY <1>3, <2>1, <2>2
<1>4. ASSUME NEW i \in Instruments, Answered(i)
      PROVE  Goal
  <2>1. /\ forwards[i] # <<>> /\ lastTick' = [lastTick EXCEPT ![i] = Head(forwards[i]).n]
        /\ Returns(i, 1) /\ broken' = broken
    BY <1>4 DEF Answered
  <2>2. forwards[i] \in Seq(Forwards) /\ lastTick \in [Instruments -> Nat]
    BY <1>0 DEF TypeOK, Forwards
  <2>3. 1 \in DOMAIN forwards[i] /\ Head(forwards[i]) = forwards[i][1]
    <3>1. Len(forwards[i]) \in Nat \ {0} /\ DOMAIN forwards[i] = 1..Len(forwards[i])
      BY <2>1, <2>2, LenProperties, EmptySeq
    <3> QED BY <2>2, <3>1
  <2>4. lastTick' = [lastTick EXCEPT ![i] = forwards[i][1].n]
    BY <2>1, <2>3
  <2>5. broken \subseteq broken' /\ broken' \subseteq Instruments
    BY <1>0, <2>1 DEF TypeOK
  <2>6. \A c \in Clients : /\ shown'[c][i] \in {shown[c][i], forwards[i][1].n}
                           /\ c \notin Throttled => shown'[c][i] = forwards[i][1].n
    BY <2>1, <2>3, <2>4, <2>5, ReturnsEffects
  <2>7. Delivers(i, Without(forwards[i], 1))
    BY <2>1, <2>2, <2>4, <2>6 DEF Delivers
  <2> QED BY <1>3, <2>1, <2>3, <2>4, <2>5, <2>7
<1>5. ASSUME NEW i \in Instruments, NEW k \in DOMAIN forwards[i], Undone(i, k)
      PROVE  Goal
  <2>1. /\ broken' = broken \cup {i} /\ Returns(i, k)
        /\ lastTick' \in {lastTick, [lastTick EXCEPT ![i] = forwards[i][k].n]}
    BY <1>5 DEF Undone
  <2>2. broken \subseteq broken' /\ broken' \subseteq Instruments
    BY <1>0, <2>1 DEF TypeOK
  <2>3. Delivers(i, Without(forwards[i], k))
    BY <2>1 DEF Delivers
  <2> QED BY <1>3, <2>1, <2>2, <2>3
<1>6. ASSUME NEW i \in Instruments, TimerFires(i)
      PROVE  Goal
  <2>1. /\ lastTickPayload[i] # 0 /\ Forward(i, Timer) /\ coalesceTimers' = coalesceTimers \ {i}
        /\ UNCHANGED <<tickVars, throttleVars, lastTickPayload, clientVars, overlapped, broken>>
    BY <1>6 DEF TimerFires, IInv, TimersHavePayload
  <2> QED BY <1>1, <2>1, ForwardEffects
<1>7. ASSUME NEW i \in Instruments, SyntheticPulse(i)
      PROVE  Goal
  <2>1. /\ lastTickPayload[i] # 0 /\ Forward(i, Pulse) /\ coalesceTimers' = coalesceTimers
        /\ UNCHANGED <<tickVars, throttleVars, lastTickPayload, clientVars, overlapped, broken>>
    BY <1>7 DEF SyntheticPulse
  <2> QED BY <1>1, <2>1, ForwardEffects
<1>8. ASSUME NEW i \in Instruments, NEW c \in Throttled, WindowPasses(c, i)
      PROVE  Goal
  <2>1. /\ UNCHANGED <<coalesceTimers, stranded>>
        /\ UNCHANGED <<tickVars, lastTickPayload, forwards, lastTick, shown, overlapped, broken>>
        /\ UNCHANGED <<globalTickThrottleMs, saving>>
        /\ recent' = [recent EXCEPT ![c] = @ \ {i}]
    BY <1>8 DEF WindowPasses, throttleVars
  <2>2. /\ globalTickThrottleMs' \in BOOLEAN /\ saving' \in BOOLEAN
        /\ recent' \in [Throttled -> SUBSET Instruments]
    BY <1>0, <2>1 DEF TypeOK
  <2> QED BY <1>1, <2>1, <2>2, ClearEffects
<1>9. ASSUME NEW i \in Instruments, Released(i)
      PROVE  Goal
  <2>1. /\ Clear({i}) /\ {i} \in SUBSET Instruments
        /\ UNCHANGED <<tickVars, lastTickPayload, forwards, lastTick, shown, overlapped, broken>>
        /\ UNCHANGED <<globalTickThrottleMs, saving, recent>>
    BY <1>9 DEF Released, throttleVars, clientVars
  <2>2. /\ globalTickThrottleMs' \in BOOLEAN /\ saving' \in BOOLEAN
        /\ recent' \in [Throttled -> SUBSET Instruments]
    BY <1>0, <2>1 DEF TypeOK
  <2> QED BY <1>1, <2>1, <2>2, ClearEffects
<1>10. ASSUME NEW on \in BOOLEAN, SetGlobalTickThrottle(on)
       PROVE  Goal
  <2>1. /\ UNCHANGED <<coalesceTimers, stranded>>
        /\ UNCHANGED <<tickVars, lastTickPayload, forwards, lastTick, shown, overlapped, broken>>
        /\ globalTickThrottleMs' \in BOOLEAN /\ saving' \in BOOLEAN /\ UNCHANGED recent
    BY <1>10 DEF SetGlobalTickThrottle, clientVars
  <2>2. recent' \in [Throttled -> SUBSET Instruments]
    BY <1>0, <2>1 DEF TypeOK
  <2> QED BY <1>1, <2>1, <2>2, ClearEffects
<1>11. ASSUME ThrottleSaved
       PROVE  Goal
  <2>1. /\ Clear(Instruments) \/ UNCHANGED <<coalesceTimers, stranded>>
        /\ UNCHANGED <<tickVars, lastTickPayload, forwards, lastTick, shown, overlapped, broken>>
        /\ UNCHANGED <<globalTickThrottleMs, recent>> /\ saving' = FALSE
    BY <1>11 DEF ThrottleSaved, clientVars
  <2>2. /\ globalTickThrottleMs' \in BOOLEAN /\ saving' \in BOOLEAN
        /\ recent' \in [Throttled -> SUBSET Instruments]
    BY <1>0, <2>1 DEF TypeOK
  <2>3. Instruments \in SUBSET Instruments
    OBVIOUS
  <2> QED BY <1>1, <2>1, <2>2, <2>3, ClearEffects
<1>12. ASSUME UNCHANGED vars
       PROVE  Goal
  <2>1. /\ UNCHANGED <<coalesceTimers, stranded>>
        /\ UNCHANGED <<tickVars, lastTickPayload, forwards, lastTick, shown, overlapped, broken>>
        /\ UNCHANGED <<globalTickThrottleMs, saving, recent>>
    BY <1>12 DEF vars, throttleVars, clientVars
  <2>2. /\ globalTickThrottleMs' \in BOOLEAN /\ saving' \in BOOLEAN
        /\ recent' \in [Throttled -> SUBSET Instruments]
    BY <1>0, <2>1 DEF TypeOK
  <2> QED BY <1>1, <2>1, <2>2, ClearEffects
<1> HIDE DEF Goal
<1>13. ASSUME NEW i \in Instruments,
              \/ Answered(i)
              \/ \E k \in DOMAIN forwards[i] : Undone(i, k)
              \/ TimerFires(i)
              \/ SyntheticPulse(i)
              \/ \E c \in Throttled : WindowPasses(c, i)
              \/ Released(i)
       PROVE  Goal
  BY <1>4, <1>5, <1>6, <1>7, <1>8, <1>9, <1>13, Zenon
<1>14. Goal
  BY <1>2, <1>10, <1>11, <1>12, <1>13, Zenon DEF Next
<1> QED BY <1>14 DEF Goal

\* What remains of the forwards of an instrument that Redis has not failed.
LEMMA RemainsProperties ==
    ASSUME TypeOK, NEW i \in Instruments, NEW f, Remains(i, f)
    PROVE  f \in Seq(Forwards) /\ forwards[i] \in Seq(Forwards)
<1>1. forwards[i] \in Seq(Forwards)
  BY DEF TypeOK, Forwards
<1>2. \A k \in DOMAIN forwards[i] : Without(forwards[i], k) \in Seq(Forwards)
  BY <1>1, LenProperties, WithoutProperties
<1> QED BY <1>1, <1>2 DEF Remains

LEMMA LastSentStep ==
    ASSUME IInv, [Next]_vars, NEW i \in Instruments,
           i \notin broken', i \notin stranded', i \notin coalesceTimers'
    PROVE  IF forwards'[i] = <<>>
           THEN /\ lastTick'[i] = lastTickPayload'[i]
                /\ \A c \in Clients \ Throttled : shown'[c][i] = lastTickPayload'[i]
           ELSE forwards'[i][Len(forwards'[i])].n = lastTickPayload'[i]
<1>1. TypeOK /\ TypeOK' /\ broken \subseteq broken'
  BY StepEffects DEF IInv
<1>2. PICK f : Remains(i, f) /\ Delivers(i, f) /\ Moves(i, f)
  BY StepEffects
<1>3. f \in Seq(Forwards) /\ forwards[i] \in Seq(Forwards)
  BY <1>1, <1>2, RemainsProperties
<1>4. CASE \E by : forwards'[i] = Append(f, [n |-> lastTickPayload'[i], by |-> by])
  <2>1. PICK by : forwards'[i] = Append(f, [n |-> lastTickPayload'[i], by |-> by])
    BY <1>4
  <2> DEFINE e == [n |-> lastTickPayload'[i], by |-> by]
  <2>2. f \in Seq(Forwards \cup {e}) /\ e \in Forwards \cup {e}
    BY <1>3, SeqMonotonic
  <2>3. e.n = lastTickPayload'[i]
    OBVIOUS
  <2> HIDE DEF e
  <2>4. /\ Append(f, e) # <<>> /\ Len(Append(f, e)) = Len(f) + 1
        /\ Append(f, e)[Len(f) + 1] = e
    BY <2>2, AppendProperties
  <2>5. forwards'[i] = Append(f, e)
    BY <2>1 DEF e
  <2> QED BY <2>3, <2>4, <2>5
<1>5. CASE /\ forwards'[i] = f /\ lastTickPayload'[i] = lastTickPayload[i]
           /\ i \notin coalesceTimers \cup stranded
  <2>1. IF forwards[i] = <<>>
        THEN /\ lastTick[i] = lastTickPayload[i]
             /\ \A c \in Clients \ Throttled : shown[c][i] = lastTickPayload[i]
        ELSE forwards[i][Len(forwards[i])].n = lastTickPayload[i]
    BY <1>1, <1>5 DEF IInv, LastSentIsPayload
  <2>2. CASE /\ f = forwards[i]
             /\ lastTick'[i] = lastTick[i]
             /\ \A c \in Clients : shown'[c][i] = shown[c][i]
    BY <1>5, <2>1, <2>2
  <2>3. CASE /\ forwards[i] # <<>> /\ f = Without(forwards[i], 1)
             /\ lastTick'[i] = forwards[i][1].n
             /\ \A c \in Clients \ Throttled : shown'[c][i] = forwards[i][1].n
    <3> DEFINE len == Len(forwards[i])
    <3>1. len \in Nat \ {0}
      BY <1>3, <2>3, EmptySeq
    <3>2. /\ Len(f) = len - 1
          /\ \A j \in 1..(len - 1) : f[j] = IF j < 1 THEN forwards[i][j] ELSE forwards[i][j + 1]
      BY <1>3, <2>3, <3>1, WithoutProperties
    <3>3. CASE len = 1
      <4>1. f = <<>>
        BY <1>3, <3>2, <3>3, EmptySeq
      <4> QED BY <1>5, <2>1, <2>3, <3>3, <4>1
    <3>4. CASE len # 1
      <4>0. Len(f) \in 1..(len - 1) /\ Len(f) + 1 = len
        <5>1. Len(f) = len - 1
          BY <3>2
        <5>2. ASSUME NEW n \in Nat \ {0}, n # 1, NEW m, m = n - 1
              PROVE  m \in 1..(n - 1) /\ m + 1 = n
          BY <5>2
        <5> HIDE DEF len
        <5> QED BY <3>1, <3>4, <5>1, <5>2
      <4>1. f # <<>>
        <5>1. Len(f) # 0 /\ Len(<<>>) = 0
          BY <3>1, <4>0
        <5> QED BY <5>1
      <4>2. f[Len(f)] = forwards[i][len]
        BY <3>1, <3>2, <4>0
      <4> QED BY <1>5, <2>1, <2>3, <4>1, <4>2
    <3> QED BY <3>3, <3>4
  <2> QED BY <1>2, <2>2, <2>3 DEF Delivers
<1> QED BY <1>2, <1>4, <1>5 DEF Moves

LEMMA SentInOrderStep ==
    ASSUME IInv, [Next]_vars, NEW i \in Instruments, i \notin overlapped', i \notin broken'
    PROVE  /\ \A c \in Clients : shown'[c][i] >= shown[c][i]
           /\ \A j, k \in DOMAIN forwards'[i] : j <= k => forwards'[i][j].n <= forwards'[i][k].n
           /\ \A k \in DOMAIN forwards'[i] : forwards'[i][k].n <= lastTickPayload'[i]
           /\ \A c \in Clients : shown'[c][i] <= lastTickPayload'[i]
           /\ \A c \in Clients : \A k \in DOMAIN forwards'[i] :
                 shown'[c][i] <= forwards'[i][k].n
<1>1. /\ TypeOK /\ TypeOK' /\ i \notin broken /\ i \notin overlapped
  BY StepEffects DEF IInv
<1>2. PICK f : Remains(i, f) /\ Delivers(i, f) /\ Moves(i, f)
  BY StepEffects
<1>3. f \in Seq(Forwards) /\ forwards[i] \in Seq(Forwards)
  BY <1>1, <1>2, RemainsProperties
<1>4. /\ lastTickPayload[i] \in Nat /\ lastTickPayload'[i] \in Nat
      /\ lastTickPayload[i] <= lastTickPayload'[i]
      /\ \A c \in Clients : shown[c][i] \in Nat /\ shown'[c][i] \in Nat
  BY <1>1, <1>2 DEF TypeOK, Moves
<1>5. /\ \A j, k \in DOMAIN forwards[i] : j <= k => forwards[i][j].n <= forwards[i][k].n
      /\ \A k \in DOMAIN forwards[i] : forwards[i][k].n <= lastTickPayload[i]
      /\ \A c \in Clients : shown[c][i] <= lastTickPayload[i]
      /\ \A c \in Clients : \A k \in DOMAIN forwards[i] : shown[c][i] <= forwards[i][k].n
  BY <1>1 DEF IInv, SentInOrder
<1>6. /\ Len(f) \in Nat /\ DOMAIN f = 1..Len(f)
      /\ Len(forwards[i]) \in Nat /\ DOMAIN forwards[i] = 1..Len(forwards[i])
      /\ \A k \in DOMAIN f : f[k].n \in Nat
      /\ \A k \in DOMAIN forwards[i] : forwards[i][k].n \in Nat
  <2>1. /\ \A k \in DOMAIN f : f[k] \in Forwards
        /\ \A k \in DOMAIN forwards[i] : forwards[i][k] \in Forwards
    BY <1>3, LenProperties, ElementOfSeq
  <2> QED BY <1>3, <2>1, LenProperties DEF Forwards
\* What is left is in order, and nobody was shown more than its head.
<1>7. /\ \A c \in Clients : shown'[c][i] >= shown[c][i]
      /\ \A j, k \in DOMAIN f : j <= k => f[j].n <= f[k].n
      /\ \A k \in DOMAIN f : f[k].n <= lastTickPayload[i]
      /\ \A c \in Clients : shown'[c][i] <= lastTickPayload[i]
      /\ \A c \in Clients : \A k \in DOMAIN f : shown'[c][i] <= f[k].n
  <2>1. CASE f = forwards[i] /\ \A c \in Clients : shown'[c][i] = shown[c][i]
    BY <1>4, <1>5, <2>1
  <2>2. CASE /\ forwards[i] # <<>> /\ f = Without(forwards[i], 1)
             /\ \A c \in Clients : shown'[c][i] \in {shown[c][i], forwards[i][1].n}
    <3>1. 1 \in DOMAIN forwards[i]
      BY <1>3, <1>6, <2>2, EmptySeq
    <3>2. /\ Len(f) = Len(forwards[i]) - 1
          /\ \A j \in 1..(Len(forwards[i]) - 1) :
                f[j] = IF j < 1 THEN forwards[i][j] ELSE forwards[i][j + 1]
      BY <1>3, <1>6, <2>2, <3>1, WithoutProperties
    <3>3. \A k \in DOMAIN f : k \in Nat /\ 1 <= k + 1 /\ k + 1 \in DOMAIN forwards[i]
                              /\ f[k] = forwards[i][k + 1]
      BY <1>6, <3>2
    <3>4. \A j, k \in DOMAIN f : j <= k => j + 1 <= k + 1
      BY <1>6
    <3>5. \A c \in Clients : \A k \in DOMAIN f : shown'[c][i] <= f[k].n
      BY <1>5, <2>2, <3>1, <3>3
    <3>6. \A c \in Clients : shown'[c][i] >= shown[c][i] /\ shown'[c][i] <= lastTickPayload[i]
      BY <1>4, <1>5, <1>6, <2>2, <3>1
    <3>7. \A j, k \in DOMAIN f : j <= k => f[j].n <= f[k].n
      BY <1>5, <3>3, <3>4
    <3>8. \A k \in DOMAIN f : f[k].n <= lastTickPayload[i]
      BY <1>5, <3>3
    <3> QED BY <3>5, <3>6, <3>7, <3>8
  <2> QED BY <1>2, <2>1, <2>2 DEF Delivers
<1>8. \A c \in Clients : shown'[c][i] <= lastTickPayload'[i]
  BY <1>4, <1>7
<1>9. \A k \in DOMAIN f : f[k].n <= lastTickPayload'[i]
  BY <1>4, <1>6, <1>7
<1>10. CASE forwards'[i] = f
  BY <1>7, <1>8, <1>9, <1>10
<1>11. CASE \E by : forwards'[i] = Append(f, [n |-> lastTickPayload'[i], by |-> by])
  <2>1. PICK by : forwards'[i] = Append(f, [n |-> lastTickPayload'[i], by |-> by])
    BY <1>11
  <2> DEFINE e == [n |-> lastTickPayload'[i], by |-> by]
  <2>2. f \in Seq(Forwards \cup {e}) /\ e \in Forwards \cup {e}
    BY <1>3, SeqMonotonic
  <2>3. e.n = lastTickPayload'[i]
    OBVIOUS
  <2>4. forwards'[i] = Append(f, e)
    BY <2>1
  <2> HIDE DEF e
  <2>5. /\ forwards'[i] \in Seq(Forwards \cup {e})
        /\ Len(forwards'[i]) = Len(f) + 1
        /\ \A k \in 1..Len(f) : forwards'[i][k] = f[k]
        /\ forwards'[i][Len(f) + 1] = e
    BY <2>2, <2>4, AppendProperties
  <2>6. DOMAIN forwards'[i] = 1..(Len(f) + 1)
    BY <2>5, LenProperties
  <2>7. \A k \in DOMAIN forwards'[i] : k \in DOMAIN f \/ k = Len(f) + 1
    BY <1>6, <2>6
  <2>8. \A k \in DOMAIN f : forwards'[i][k] = f[k] /\ ~(Len(f) + 1 <= k)
    BY <1>6, <2>5
  <2>9. \A k \in DOMAIN forwards'[i] : forwards'[i][k].n <= lastTickPayload'[i]
    BY <1>4, <1>9, <2>3, <2>5, <2>7, <2>8
  <2>10. \A c \in Clients : \A k \in DOMAIN forwards'[i] : shown'[c][i] <= forwards'[i][k].n
    BY <1>7, <1>8, <2>3, <2>5, <2>7, <2>8
  <2>11. ASSUME NEW j \in DOMAIN forwards'[i], NEW k \in DOMAIN forwards'[i], j <= k
         PROVE  forwards'[i][j].n <= forwards'[i][k].n
    <3>1. CASE k = Len(f) + 1
      BY <2>3, <2>5, <2>9, <3>1
    <3>2. CASE k \in DOMAIN f
      <4>1. j \in DOMAIN f
        BY <1>6, <2>7, <2>11, <3>2
      <4> QED BY <1>7, <2>8, <2>11, <3>2, <4>1
    <3> QED BY <2>7, <3>1, <3>2
  <2> QED BY <1>7, <1>8, <2>9, <2>10, <2>11
<1> QED BY <1>2, <1>10, <1>11 DEF Moves

-----------------------------------------------------------------------------
(* Nothing is ahead of what arrived, and so the pipeline is a TickFeed.     *)

\* No tick that waits, no payload and no forward is newer than the newest that arrived.
NothingAhead ==
    /\ \A l \in Loops : \A k \in DOMAIN rest[l] : rest[l][k].n <= arrived[rest[l][k].of]
    /\ \A i \in Instruments : lastTickPayload[i] <= arrived[i]
    /\ \A i \in Instruments : \A k \in DOMAIN forwards[i] : forwards[i][k].n <= arrived[i]

\* What is appended to forwards that are not ahead is not ahead either.
LEMMA AppendNotAhead ==
    ASSUME NEW s \in Seq(Forwards), NEW e, NEW m, e.n <= m, \A k \in DOMAIN s : s[k].n <= m
    PROVE  \A k \in DOMAIN Append(s, e) : Append(s, e)[k].n <= m
<1>1. s \in Seq(Forwards \cup {e}) /\ e \in Forwards \cup {e}
  BY SeqMonotonic
<1>2. /\ Append(s, e) \in Seq(Forwards \cup {e})
      /\ Len(Append(s, e)) = Len(s) + 1
      /\ \A k \in 1..Len(s) : Append(s, e)[k] = s[k]
      /\ Append(s, e)[Len(s) + 1] = e
  BY <1>1, AppendProperties
<1>3. DOMAIN s = 1..Len(s) /\ Len(s) \in Nat /\ DOMAIN Append(s, e) = 1..(Len(s) + 1)
  BY <1>2, LenProperties
<1>4. \A k \in DOMAIN Append(s, e) : k \in DOMAIN s \/ k = Len(s) + 1
  BY <1>3
<1> QED BY <1>2, <1>3, <1>4

LEMMA WithoutNotAhead ==
    ASSUME NEW s \in Seq(Forwards), NEW j \in DOMAIN s, NEW m, \A k \in DOMAIN s : s[k].n <= m
    PROVE  \A k \in DOMAIN Without(s, j) : Without(s, j)[k].n <= m
<1>1. DOMAIN s = 1..Len(s) /\ Len(s) \in Nat
  BY LenProperties
<1>2. /\ Without(s, j) \in Seq(Forwards)
      /\ Len(Without(s, j)) = Len(s) - 1
      /\ \A k \in 1..(Len(s) - 1) : Without(s, j)[k] = IF k < j THEN s[k] ELSE s[k + 1]
  BY <1>1, WithoutProperties
<1>3. DOMAIN Without(s, j) = 1..(Len(s) - 1)
  BY <1>2, LenProperties
<1>4. \A k \in 1..(Len(s) - 1) : k \in DOMAIN s /\ k + 1 \in DOMAIN s
  BY <1>1
<1> QED BY <1>2, <1>3, <1>4

LEMMA ProceedNotAhead ==
    ASSUME TypeOK, NothingAhead, NEW l \in Loops, NEW ticks \in Seq(Ticks), Distinct(ticks),
           NEW fw \in [Instruments -> Seq(Forwards)], Proceed(l, ticks, fw),
           \A i \in Instruments : arrived[i] <= arrived'[i] /\ arrived'[i] \in Nat,
           \A k \in DOMAIN ticks : ticks[k].n <= arrived'[ticks[k].of],
           \A i \in Instruments : \A k \in DOMAIN fw[i] : fw[i][k].n <= arrived[i]
    PROVE  NothingAhead'
<1>1. /\ \A m \in Loops \ {l} : rest'[m] = rest[m]
      /\ \A k \in DOMAIN rest'[l] : \E j \in DOMAIN ticks : rest'[l][k] = ticks[j]
      /\ \A i \in Instruments :
            LeavesAlone(l, i, ticks, fw) \/ \E k \in DOMAIN ticks : Takes(l, i, ticks[k], fw)
  BY ProceedEffects
<1>2. /\ \A i \in Instruments : arrived[i] \in Nat /\ lastTickPayload[i] \in Nat
      /\ rest \in [Loops -> Seq(Ticks)]
  BY MaxTicksAssumption DEF TypeOK
<1>3. /\ \A m \in Loops : \A k \in DOMAIN rest[m] : rest[m][k] \in Ticks
      /\ \A i \in Instruments : \A k \in DOMAIN fw[i] : fw[i][k] \in Forwards
  BY <1>2, LenProperties, ElementOfSeq
<1>4. /\ \A m \in Loops : \A k \in DOMAIN rest[m] :
            rest[m][k].n \in Nat /\ rest[m][k].of \in Instruments
      /\ \A i \in Instruments : \A k \in DOMAIN fw[i] : fw[i][k].n \in Nat
  BY <1>3 DEF Ticks, Forwards
<1>5. \A m \in Loops : \A k \in DOMAIN rest'[m] : rest'[m][k].n <= arrived'[rest'[m][k].of]
  <2>1. ASSUME NEW m \in Loops \ {l}, NEW k \in DOMAIN rest[m]
        PROVE  rest[m][k].n <= arrived'[rest[m][k].of]
    <3>1. rest[m][k].n \in Nat /\ rest[m][k].of \in Instruments
      BY <1>4
    <3>2. rest[m][k].n <= arrived[rest[m][k].of]
      BY DEF NothingAhead
    <3> QED BY <1>2, <3>1, <3>2
  <2>2. ASSUME NEW m \in Loops \ {l}, NEW k \in DOMAIN rest'[m]
        PROVE  rest'[m][k].n <= arrived'[rest'[m][k].of]
    BY <1>1, <2>1
  <2>3. ASSUME NEW k \in DOMAIN rest'[l]
        PROVE  rest'[l][k].n <= arrived'[rest'[l][k].of]
    <3>1. PICK j \in DOMAIN ticks : rest'[l][k] = ticks[j]
      BY <1>1
    <3> QED BY <3>1
  <2> QED BY <2>2, <2>3
<1>6. ASSUME NEW i \in Instruments
      PROVE  /\ lastTickPayload'[i] <= arrived'[i]
             /\ \A k \in DOMAIN forwards'[i] : forwards'[i][k].n <= arrived'[i]
  <2>1. \A k \in DOMAIN fw[i] : fw[i][k].n <= arrived'[i]
    BY <1>2, <1>4
  <2>2. CASE LeavesAlone(l, i, ticks, fw)
    <3>1. lastTickPayload'[i] = lastTickPayload[i] /\ forwards'[i] = fw[i]
      BY <2>2 DEF LeavesAlone
    <3>2. lastTickPayload[i] <= arrived[i]
      BY DEF NothingAhead
    <3> QED BY <1>2, <2>1, <3>1, <3>2
  <2>3. CASE \E k \in DOMAIN ticks : Takes(l, i, ticks[k], fw)
    <3>1. PICK k \in DOMAIN ticks : Takes(l, i, ticks[k], fw)
      BY <2>3
    <3> DEFINE e == [n |-> ticks[k].n, by |-> l]
    <3>2. /\ lastTickPayload'[i] = ticks[k].n /\ ticks[k].n <= arrived'[i]
          /\ forwards'[i] \in {Append(fw[i], e), fw[i]}
      BY <3>1 DEF Takes
    <3>3. e.n <= arrived'[i]
      BY <3>2
    <3> HIDE DEF e
    <3>4. \A j \in DOMAIN Append(fw[i], e) : Append(fw[i], e)[j].n <= arrived'[i]
      BY <2>1, <3>3, AppendNotAhead
    <3> QED BY <2>1, <3>2, <3>4
  <2> QED BY <1>1, <2>2, <2>3
<1> QED BY <1>5, <1>6 DEF NothingAhead

LEMMA ReturnsNotAhead ==
    ASSUME IInv, NothingAhead, NEW i \in Instruments, NEW k \in DOMAIN forwards[i], Returns(i, k)
    PROVE  NothingAhead'
<1> DEFINE by == forwards[i][k].by
           fw == [forwards EXCEPT ![i] = Without(forwards[i], k)]
<1>1. /\ IF by \in Loops
         THEN Proceed(by, rest[by], fw)
         ELSE forwards' = fw /\ UNCHANGED <<rest, lastTickPayload>>
      /\ UNCHANGED arrived
  BY DEF Returns, Without
<1>2. TypeOK /\ forwards \in [Instruments -> Seq(Forwards)]
  BY DEF IInv, TypeOK, Forwards
<1>3. Without(forwards[i], k) \in Seq(Forwards)
  BY <1>2, LenProperties, WithoutProperties
<1>4. fw \in [Instruments -> Seq(Forwards)]
  BY <1>2, <1>3
<1>5. \A j \in Instruments : \A m \in DOMAIN fw[j] : fw[j][m].n <= arrived[j]
  <2>1. \A m \in DOMAIN Without(forwards[i], k) : Without(forwards[i], k)[m].n <= arrived[i]
    BY <1>2, WithoutNotAhead DEF NothingAhead
  <2> QED BY <1>2, <2>1 DEF NothingAhead
<1> HIDE DEF fw, by
<1>6. CASE by \in Loops
  <2>1. rest[by] \in Seq(Ticks) /\ Distinct(rest[by]) /\ Proceed(by, rest[by], fw)
    BY <1>1, <1>2, <1>6 DEF TypeOK, IInv, LoopsAreApart
  <2>2. \A m \in DOMAIN rest[by] : rest[by][m].n <= arrived'[rest[by][m].of]
    BY <1>1, <1>6 DEF NothingAhead
  <2>3. \A j \in Instruments : arrived[j] <= arrived'[j] /\ arrived'[j] \in Nat
    BY <1>1, <1>2, MaxTicksAssumption DEF TypeOK
  <2> QED BY <1>2, <1>4, <1>5, <1>6, <2>1, <2>2, <2>3, ProceedNotAhead
<1>7. CASE by \notin Loops
  BY <1>1, <1>5, <1>7 DEF NothingAhead
<1> QED BY <1>6, <1>7

\* A step of the pipeline leaves nothing ahead, and is a step of the feed or one that the
\* feed does not see.
LEMMA FeedStep ==
    ASSUME IInv, NothingAhead, [Next]_vars
    PROVE  NothingAhead' /\ [Feed!Next]_Feed!vars
<1> DEFINE Goal == NothingAhead' /\ [Feed!Next]_Feed!vars
<1>0. /\ TypeOK /\ \A i \in Instruments : arrived[i] \in Nat
      /\ forwards \in [Instruments -> Seq(Forwards)]
  <2>1. TypeOK
    BY DEF IInv
  <2>2. \A i \in Instruments : arrived[i] \in Nat
    BY <2>1, MaxTicksAssumption DEF TypeOK
  <2>3. forwards \in [Instruments -> Seq(Forwards)]
    BY <2>1 DEF TypeOK, Forwards
  <2> QED BY <2>1, <2>2, <2>3
<1>1. ASSUME UNCHANGED <<arrived, rest, lastTickPayload, forwards, shown, overlapped, broken>>
      PROVE  Goal
  <2>1. NothingAhead'
    BY <1>1 DEF NothingAhead
  <2>2. UNCHANGED Feed!vars
    BY <1>1 DEF Feed!vars
  <2> QED BY <2>1, <2>2
<1>2. ASSUME NEW l \in Loops, NEW batch \in Batches, TicksArrive(l, batch)
      PROVE  Goal
  <2>1. PICK ticks \in Seq(Ticks) :
           /\ Distinct(ticks)
           /\ Proceed(l, ticks, forwards)
           /\ \A k \in DOMAIN ticks : ticks[k].n = arrived'[ticks[k].of]
           /\ \A i \in Instruments :
                 arrived'[i] = IF i \in InstrumentsOf(ticks) THEN arrived[i] + 1 ELSE arrived[i]
           /\ \A i \in Instruments : arrived'[i] \in 0..MaxTicks[i]
           /\ overlapped' = overlapped \cup
                 {i \in InstrumentsOf(ticks) : \E m \in Loops : Waits(m, i)}
           /\ InstrumentsOf(ticks) \subseteq Instruments
    BY <1>0, <1>2, ArrivalEffects
  <2>2. \A i \in Instruments : arrived[i] <= arrived'[i] /\ arrived'[i] \in Nat
    BY <1>0, <2>1
  <2>3. \A k \in DOMAIN ticks : ticks[k].n <= arrived'[ticks[k].of]
    <3>1. \A k \in DOMAIN ticks : ticks[k] \in Ticks
      BY LenProperties, ElementOfSeq
    <3> QED BY <2>1, <2>2, <3>1 DEF Ticks
  <2>4. \A i \in Instruments : \A k \in DOMAIN forwards[i] : forwards[i][k].n <= arrived[i]
    BY DEF NothingAhead
  <2>5. NothingAhead'
    BY <1>0, <2>1, <2>2, <2>3, <2>4, ProceedNotAhead
  <2> DEFINE is == {i \in Instruments : \E k \in DOMAIN batch : batch[k] = i}
             gone == {i \in is : \E m \in Loops : i \in InstrumentsOf(rest[m])}
  <2>6. /\ arrived' = [i \in Instruments |-> IF i \in is THEN arrived[i] + 1 ELSE arrived[i]]
        /\ overlapped' = overlapped \cup gone
        /\ shown' = shown /\ broken' = broken
    BY <1>2 DEF TicksArrive, clientVars
  <2>7. is \in SUBSET Instruments /\ gone \in SUBSET is
    OBVIOUS
  <2>8. (overlapped \cup broken)' = (overlapped \cup broken) \cup gone
    BY <2>6
  <2> HIDE DEF is, gone
  <2>9. Feed!Arrive(is)
    BY <2>6, <2>7, <2>8 DEF Feed!Arrive
  <2>10. Feed!Next
    BY <2>7, <2>9 DEF Feed!Next
  <2> QED BY <2>5, <2>10
\* What comes back from Redis is shown: the feed's order is kept, or the instrument given up.
<1>3. ASSUME NEW i \in Instruments, NEW k \in DOMAIN forwards[i], Returns(i, k),
             broken' \in {broken, broken \cup {i}},
             i \in broken' \/ k = 1
      PROVE  Goal
  <2> DEFINE n == forwards[i][k].n
             who == {c \in Clients : c \in Throttled => i \notin recent[c]}
  <2>1. NothingAhead'
    BY <1>3, ReturnsNotAhead
  <2>2. /\ shown' = [c \in Clients |-> IF c \in who THEN [shown[c] EXCEPT ![i] = n] ELSE shown[c]]
        /\ UNCHANGED <<arrived, overlapped>>
    BY <1>3 DEF Returns, Broadcast
  <2>3. n \in 0..arrived[i]
    <3>1. forwards[i][k] \in Forwards
      BY <1>0, LenProperties, ElementOfSeq
    <3>2. n <= arrived[i]
      BY DEF NothingAhead
    <3> QED BY <1>0, <3>1, <3>2 DEF Forwards
  <2>4. (overlapped \cup broken)' \in {overlapped \cup broken, (overlapped \cup broken) \cup {i}}
    BY <1>3, <2>2
  <2>5. i \notin (overlapped \cup broken)' => \A c \in who : shown[c][i] <= n
    BY <1>3, <2>2 DEF IInv, SentInOrder
  <2>6. who \in SUBSET Clients
    OBVIOUS
  <2> HIDE DEF n, who
  <2>7. Feed!Show(i, n, who)
    BY <2>2, <2>4, <2>5 DEF Feed!Show
  <2>8. Feed!Next
    BY <2>3, <2>6, <2>7 DEF Feed!Next
  <2> QED BY <2>1, <2>8
<1>4. ASSUME NEW i \in Instruments, Answered(i)
      PROVE  Goal
  <2>1. 1 \in DOMAIN forwards[i]
    <3>1. Len(forwards[i]) \in Nat \ {0} /\ DOMAIN forwards[i] = 1..Len(forwards[i])
      BY <1>0, <1>4, LenProperties, EmptySeq DEF Answered
    <3> QED BY <3>1
  <2> QED BY <1>3, <1>4, <2>1 DEF Answered
<1>5. ASSUME NEW i \in Instruments, NEW k \in DOMAIN forwards[i], Undone(i, k)
      PROVE  Goal
  BY <1>3, <1>5 DEF Undone
\* A timer and the pulse forward the payload, which is not ahead.
<1>6. ASSUME NEW i \in Instruments, NEW by, Forward(i, by),
             UNCHANGED <<arrived, rest, lastTickPayload, shown, overlapped, broken>>
      PROVE  Goal
  <2> DEFINE e == [n |-> lastTickPayload[i], by |-> by]
  <2>1. e.n <= arrived[i] /\ \A k \in DOMAIN forwards[i] : forwards[i][k].n <= arrived[i]
    BY DEF NothingAhead
  <2>2. forwards' = [forwards EXCEPT ![i] = Append(forwards[i], e)]
    BY <1>6 DEF Forward
  <2> HIDE DEF e
  <2>3. \A k \in DOMAIN Append(forwards[i], e) : Append(forwards[i], e)[k].n <= arrived[i]
    BY <1>0, <2>1, AppendNotAhead
  <2>4. \A j \in Instruments : \A k \in DOMAIN forwards'[j] : forwards'[j][k].n <= arrived[j]
    BY <1>0, <2>2, <2>3 DEF NothingAhead
  <2>5. NothingAhead'
    BY <1>6, <2>4 DEF NothingAhead
  <2>6. UNCHANGED Feed!vars
    BY <1>6 DEF Feed!vars
  <2> QED BY <2>5, <2>6
<1>7. ASSUME NEW i \in Instruments, TimerFires(i) \/ SyntheticPulse(i)
      PROVE  Goal
  BY <1>6, <1>7 DEF TimerFires, SyntheticPulse, tickVars, clientVars
<1>8. ASSUME NEW i \in Instruments, (\E c \in Throttled : WindowPasses(c, i)) \/ Released(i)
      PROVE  Goal
  BY <1>1, <1>8 DEF WindowPasses, Released, tickVars, clientVars
<1>9. ASSUME (\E on \in BOOLEAN : SetGlobalTickThrottle(on)) \/ ThrottleSaved \/ UNCHANGED vars
      PROVE  Goal
  BY <1>1, <1>9 DEF SetGlobalTickThrottle, ThrottleSaved, vars, tickVars, clientVars
<1> HIDE DEF Goal
<1>10. ASSUME NEW i \in Instruments,
              \/ Answered(i)
              \/ \E k \in DOMAIN forwards[i] : Undone(i, k)
              \/ TimerFires(i)
              \/ SyntheticPulse(i)
              \/ \E c \in Throttled : WindowPasses(c, i)
              \/ Released(i)
       PROVE  Goal
  BY <1>4, <1>5, <1>7, <1>8, <1>10, Zenon
<1>11. Goal
  BY <1>2, <1>9, <1>10, Zenon DEF Next
<1> QED BY <1>11 DEF Goal

-----------------------------------------------------------------------------
(* The theorems.                                                           *)

LEMMA InitIInv == Init => IInv
<1> SUFFICES ASSUME Init PROVE IInv
  OBVIOUS
<1>1. /\ <<>> \in Seq(Ticks) /\ <<>> \in Seq(Forwards)
      /\ DOMAIN <<>> = {} /\ InstrumentsOf(<<>>) = {}
  BY EmptySeq DEF InstrumentsOf
<1>2. TypeOK
  <2>1. \A i \in Instruments : arrived[i] \in 0..MaxTicks[i]
    BY MaxTicksAssumption DEF Init
  <2>2. /\ rest \in [Loops -> Seq(Ticks)]
        /\ forwards \in [Instruments -> Seq(Forwards)]
    BY <1>1 DEF Init
  <2>3. /\ lastTickPayload \in [Instruments -> Nat] /\ lastTick \in [Instruments -> Nat]
        /\ shown \in [Clients -> [Instruments -> Nat]]
    BY DEF Init
  <2>4. /\ globalTickThrottleMs \in BOOLEAN /\ saving \in BOOLEAN
        /\ coalesceTimers \subseteq Instruments
        /\ recent \in [Throttled -> SUBSET Instruments]
        /\ overlapped \cup broken \cup stranded \subseteq Instruments
    BY DEF Init
  <2> QED BY <2>1, <2>2, <2>3, <2>4 DEF TypeOK, Forwards
<1>3. LoopsAreApart
  BY <1>1 DEF Init, LoopsAreApart, Distinct, Waits
<1>4. PayloadIsFreshest
  BY <1>1 DEF Init, PayloadIsFreshest
<1>5. TimersHavePayload /\ LastSentIsPayload
  BY DEF Init, TimersHavePayload, LastSentIsPayload
<1>6. SentInOrder
  BY <1>1 DEF Init, SentInOrder
<1> QED BY <1>2, <1>3, <1>4, <1>5, <1>6 DEF IInv

LEMMA StepIInv == IInv /\ [Next]_vars => IInv'
<1> SUFFICES ASSUME IInv, [Next]_vars PROVE IInv'
  OBVIOUS
<1>1. TypeOK' /\ LoopsAreApart' /\ PayloadIsFreshest' /\ TimersHavePayload'
  BY StepEffects
<1>2. LastSentIsPayload'
  BY LastSentStep DEF LastSentIsPayload
<1>3. SentInOrder'
  BY SentInOrderStep DEF SentInOrder
<1> QED BY <1>1, <1>2, <1>3 DEF IInv

LEMMA AlwaysIInv == Spec => []IInv
  BY InitIInv, StepIInv, PTL DEF Spec

\* Every variable of the pipeline keeps its type; nothing is forwarded that was never
\* received.
THEOREM TickPipelineTypeCorrect == Spec => []TypeOK
<1>1. IInv => TypeOK
  BY DEF IInv
<1> QED BY <1>1, AlwaysIInv, PTL

\* Where no two loops overlapped, the last payload is the newest tick, or the newest but one
\* while a loop has yet to come to the newest.
THEOREM PayloadStaysFreshest == Spec => []PayloadIsFreshest
<1>1. IInv => PayloadIsFreshest
  BY DEF IInv
<1> QED BY <1>1, AlwaysIInv, PTL

\* When nothing is on its way, memory, Redis and the clients without a throttle agree on
\* the newest tick.
THEOREM RestingAlwaysAgree == Spec => []RestingAgree
<1>1. IInv => RestingAgree
  <2> SUFFICES ASSUME IInv, NEW i \in Instruments \ (overlapped \cup broken \cup stranded),
                      AtRest(i)
               PROVE  /\ lastTick[i] = arrived[i]
                      /\ \A c \in Clients \ Throttled : shown[c][i] = arrived[i]
    BY DEF RestingAgree
  <2>1. arrived[i] \in Nat
    BY MaxTicksAssumption DEF IInv, TypeOK
  <2>2. lastTickPayload[i] = arrived[i]
    BY <2>1 DEF IInv, PayloadIsFreshest, AtRest
  <2>3. /\ lastTick[i] = lastTickPayload[i]
        /\ \A c \in Clients \ Throttled : shown[c][i] = lastTickPayload[i]
    BY DEF IInv, LastSentIsPayload, AtRest
  <2> QED BY <2>2, <2>3
<1> QED BY <1>1, AlwaysIInv, PTL

\* No step shows a client an older tick after a newer one, where no loops overlapped and
\* Redis did not fail.
THEOREM TicksAreShownInOrder == Spec => ShownInOrder
<1>1. IInv /\ [Next]_vars =>
         [\A c \in Clients, i \in Instruments \ (overlapped' \cup broken') :
             shown'[c][i] >= shown[c][i]]_vars
  BY SentInOrderStep
<1> QED BY <1>1, AlwaysIInv, PTL DEF Spec, ShownInOrder

\* The pipeline is a feed of prices: each step is one of the feed's or one the feed does not
\* see.  Nothing is shown that did not arrive, and only a loop that overlaps or a failing
\* Redis takes an instrument's order away.
THEOREM PipelineIsAFeed == Spec => ImplementsFeed
<1>1. Init => NothingAhead /\ Feed!Init
  <2> SUFFICES ASSUME Init PROVE NothingAhead /\ Feed!Init
    OBVIOUS
  <2>1. DOMAIN <<>> = {}
    BY EmptySeq
  <2>2. NothingAhead
    BY <2>1 DEF Init, NothingAhead
  <2>3. Feed!Init
    BY DEF Init, Feed!Init
  <2> QED BY <2>2, <2>3
<1>2. IInv /\ NothingAhead /\ [Next]_vars => NothingAhead' /\ [Feed!Next]_Feed!vars
  BY FeedStep
<1> QED BY <1>1, <1>2, AlwaysIInv, PTL DEF Spec, ImplementsFeed, Feed!Spec

=============================================================================
