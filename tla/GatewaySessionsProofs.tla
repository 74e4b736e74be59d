------------------------ MODULE GatewaySessionsProofs ------------------------
(* Proofs of the properties of GatewaySessions.                             *)
EXTENDS GatewaySessions, FiniteSetTheorems, TLAPS

-----------------------------------------------------------------------------
(* The inductive invariant.                                                *)

\* Which phases of a session go together.
Phases ==
    \A s \in Sockets :
        /\ life[s] = "none" <=> conn[s] = "none"
        /\ life[s] \in {"none", "open"} => leaving[s] = "no"
        /\ life[s] = "gone" => leaving[s] # "no"
        /\ conn[s] \in {"validating", "asking", "expiring"} => leaving[s] \in {"no", "early"}
        /\ leaving[s] \in {"releasing", "untracking"} => conn[s] = "admitted"
        /\ registered[s] =>
              /\ conn[s] = "admitted"
              /\ life[s] = "open" \/ (life[s] = "gone" /\ leaving[s] \in {"releasing", "early"})
        /\ conn[s] # "admitted" => instruments[s] = {}
        /\ conn[s] = "expiring" => reply[s] = 1

\* Which calls there are: past its lookup only of an admitted session, and most of them
\* of the gateway alone.
CallShapes ==
    \A k \in Calls : call[k] # Idle =>
        /\ life[call[k].of] # "none"
        /\ call[k].stage # "asked" => conn[call[k].of] = "admitted"
        /\ call[k].stage = "asked" => call[k].kind \in {"subscribe", "unsubscribe"}
        /\ call[k].stage = "placing" => call[k].kind = "subscribe"
        /\ call[k].stage = "leaving" => call[k].kind \in {"unsubscribe", "unsubscribe_all"}
        /\ call[k].kind = "unsubscribe_all" => call[k].stage = "leaving"
        /\ call[k].stage \in {"asked", "placing", "leaving"} => call[k].of \notin Native
        /\ call[k].kind = "unsubscribe" /\ call[k].stage = "found" => call[k].of \in Native

Shapes == TypeOK /\ Phases /\ CallShapes

\* The counter, and those of whom it said that they are within the limit.
CountedSet == {s \in Sockets : Counted(s)}
WithinLimit ==
    {s \in Sockets : Counted(s) /\ (conn[s] = "admitted" \/ reply[s] <= Limit)}
CounterInv ==
    ~expired /\ ~silent =>
        connections = Cardinality(CountedSet) /\ Cardinality(WithinLimit) <= Limit

\* What no second handler has disturbed: a session past its lookup still has its entry, and
\* what a call remembers is still true of it.
Steady(s) ==
    \A k \in Calls : call[k].of = s /\ call[k].stage # "asked" =>
        /\ registered[s]
        /\ call[k].stage = "placing" => call[k].seen \subseteq instruments[s]
        /\ call[k].kind = "unsubscribe_all" => instruments[s] \subseteq call[k].ids
        /\ call[k].kind = "unsubscribe" /\ call[k].stage = "leaving" =>
              instruments[s] \cap call[k].ids = {}
Undisturbed == \A s \in Sockets \ overlapped : ~Overlapping(s) /\ Steady(s)

\* The rooms of a session and what it holds, but for what is misplaced, and while a handler
\* is on its way to change them.
RoomsOf(s) == {i \in Instruments : s \in roomMembers[i]}
Matched(s) == RoomsOf(s) \ misplaced[s] = instruments[s] \ misplaced[s]
RoomsDuring(c, s) ==
    /\ c.stage \in {"asked", "found"} => Matched(s)
    /\ c.stage = "placing" =>
          (RoomsOf(s) \cup c.ids) \ misplaced[s] = instruments[s] \ misplaced[s]
    /\ c.kind = "unsubscribe" /\ c.stage = "leaving" =>
          (RoomsOf(s) \ c.ids) \ misplaced[s] = instruments[s] \ misplaced[s]
    /\ c.kind = "unsubscribe_all" => RoomsOf(s) \ misplaced[s] \subseteq c.ids
RoomsOK(s) ==
    s \notin Native /\ life[s] \in {"none", "open"} =>
        /\ Resting(s) => Matched(s)
        /\ \A k \in Calls : call[k].of = s => RoomsDuring(call[k], s)
RoomsInv == \A s \in Sockets \ overlapped : RoomsOK(s)

\* What a session contributes to the interest counts: what it holds, with what a handler
\* has already removed but still counts, without what it holds but is not counted.
OwedBy(c) == IF c.kind = "unsubscribe" /\ c.stage = "leaving" THEN c.seen ELSE {}
DueBy(c) ==
    IF c.stage = "placing" THEN c.seen ELSE IF c.kind = "unsubscribe_all" THEN c.ids ELSE {}
Owed(f, s) == UNION {OwedBy(f[k]) : k \in {j \in Calls : f[j].of = s}}
Due(f, s) == UNION {DueBy(f[k]) : k \in {j \in Calls : f[j].of = s}}
Share(s) ==
    IF registered[s] /\ leaving[s] # "releasing"
    THEN (instruments[s] \cup Owed(call, s)) \ Due(call, s)
    ELSE {}
Holders(i) == {s \in Sockets : i \in Share(s)}
InterestInv ==
    overlapped = {} /\ ~repeated =>
        \A i \in Instruments : interest[i] = Cardinality(Holders(i))

-----------------------------------------------------------------------------
(* The shapes of sessions and calls.                                       *)

LEMMA IdleIs ==
    Idle.kind = "none" /\ Idle.of = Nobody /\ Idle.stage = "none" /\ Nobody \notin Sockets
BY SocketsAssumption DEF Idle

LEMMA PendingIs ==
    ASSUME NEW c \in Pending
    PROVE  /\ c.kind \in Kinds /\ c.of \in Sockets
           /\ c.stage \in {"asked", "found", "placing", "leaving"}
           /\ c.ids \in SUBSET Instruments /\ c.seen \in SUBSET Instruments
           /\ c # Idle
BY IdleIs DEF Pending

LEMMA ShapesInit == Init => Shapes
<1> SUFFICES ASSUME Init PROVE Shapes
    OBVIOUS
<1>1. /\ life \in [Sockets -> {"none", "open", "gone", "lost"}]
      /\ conn \in [Sockets -> {"none", "validating", "asking", "expiring", "admitted", "refused"}]
      /\ leaving \in [Sockets -> {"no", "releasing", "untracking", "over", "early"}]
  BY DEF Init
<1>2. reply \in [Sockets -> Int] /\ connections \in Int /\ interest \in [Instruments -> Nat]
  BY DEF Init
<1>3. /\ registered \in [Sockets -> BOOLEAN]
      /\ expiring \in BOOLEAN /\ expired \in BOOLEAN /\ silent \in BOOLEAN
      /\ repeated \in BOOLEAN
  BY DEF Init
<1>4. /\ instruments \in [Sockets -> SUBSET Instruments]
      /\ roomMembers \in [Instruments -> SUBSET (Sockets \ Native)]
      /\ call \in [Calls -> Pending \cup {Idle}]
      /\ overlapped \in SUBSET Sockets
      /\ misplaced \in [Sockets -> SUBSET Instruments]
  BY DEF Init
<1>5. Phases
  BY DEF Init, Phases
<1>6. CallShapes
  BY DEF Init, CallShapes
<1> QED
  BY <1>1, <1>2, <1>3, <1>4, <1>5, <1>6 DEF Shapes, TypeOK

(* One lemma for the steps that leave the calls alone, one for the others.  *)

LEMMA RedisTypes ==
    ASSUME TypeOK, Admission \/ Departure
    PROVE  /\ connections' \in Int /\ reply' \in [Sockets -> Int]
           /\ expiring' \in BOOLEAN /\ expired' \in BOOLEAN /\ silent' \in BOOLEAN
<1> DEFINE Goal == /\ connections' \in Int /\ reply' \in [Sockets -> Int]
                   /\ expiring' \in BOOLEAN /\ expired' \in BOOLEAN /\ silent' \in BOOLEAN
<1>t. /\ connections \in Int /\ reply \in [Sockets -> Int]
      /\ expiring \in BOOLEAN /\ expired \in BOOLEAN /\ silent \in BOOLEAN
      /\ connections + 1 \in Int /\ connections - 1 \in Int /\ 0 \in Int
  BY DEF TypeOK
<1>d. ASSUME Decr PROVE connections' \in Int /\ silent' \in BOOLEAN
  BY <1>d, <1>t, Zenon DEF Decr
<1>1. ASSUME NEW s \in Sockets, ClientConnects(s) \/ Rejected(s) \/ Admit(s) \/ Leave(s) \/ Released(s)
      PROVE Goal
  BY <1>1, <1>t, Zenon DEF ClientConnects, Rejected, TurnAway, Admit, Leave, Released, redisVars
<1>2. ASSUME NEW s \in Sockets, Incr(s) PROVE Goal
  <2>1. connections' \in Int /\ silent' \in BOOLEAN
    BY <1>2, <1>t, Zenon DEF Incr
  <2>2. reply' \in [Sockets -> Int] /\ expiring' \in BOOLEAN /\ expired' \in BOOLEAN
    BY <1>2, <1>t DEF Incr
  <2> QED
    BY <2>1, <2>2
<1>3. ASSUME NEW s \in Sockets, Expire(s) PROVE Goal
  BY <1>3, <1>t, Zenon DEF Expire
<1>4. ASSUME NEW s \in Sockets, Refuse(s) \/ Untrack(s) PROVE Goal
  <2>1. connections' \in Int /\ silent' \in BOOLEAN
    BY <1>4, <1>d DEF Refuse, Untrack
  <2>2. reply' \in [Sockets -> Int] /\ expiring' \in BOOLEAN /\ expired' \in BOOLEAN
    BY <1>4, <1>t DEF Refuse, Untrack, TurnAway
  <2> QED
    BY <2>1, <2>2
<1>5. CASE KeyExpires
  <2>1. connections' \in Int /\ reply' \in [Sockets -> Int] /\ silent' \in BOOLEAN
    BY <1>5, <1>t DEF KeyExpires, connVars
  <2>2. expiring' \in BOOLEAN /\ expired' \in BOOLEAN
    BY <1>5, Zenon DEF KeyExpires
  <2> QED
    BY <2>1, <2>2
<1> QED
  BY <1>1, <1>2, <1>3, <1>4, <1>5 DEF Admission, Departure

LEMMA ShapesSessionStep ==
    ASSUME Shapes, Admission \/ Departure, UNCHANGED <<repeated, misplaced>>,
           overlapped' \in SUBSET Sockets
    PROVE  Shapes'
<1>r. /\ connections' \in Int /\ reply' \in [Sockets -> Int]
      /\ expiring' \in BOOLEAN /\ expired' \in BOOLEAN /\ silent' \in BOOLEAN
  BY RedisTypes DEF Shapes
<1> USE <1>r DEF Shapes, TypeOK, Phases, CallShapes, holdVars
<1>1. ASSUME NEW s \in Sockets, ClientConnects(s) PROVE Shapes'
  BY <1>1, IdleIs, PendingIs DEF ClientConnects
<1>2. ASSUME NEW s \in Sockets, Rejected(s) PROVE Shapes'
  BY <1>2, IdleIs, PendingIs DEF Rejected, TurnAway, Running
<1>3. ASSUME NEW s \in Sockets, Incr(s) PROVE Shapes'
  BY <1>3, IdleIs, PendingIs DEF Incr, Running
<1>4. ASSUME NEW s \in Sockets, Expire(s) PROVE Shapes'
  BY <1>4, IdleIs, PendingIs DEF Expire, Running
<1>5. ASSUME NEW s \in Sockets, Admit(s) PROVE Shapes'
  BY <1>5, IdleIs, PendingIs DEF Admit, Running, Judged
<1>6. ASSUME NEW s \in Sockets, Refuse(s) PROVE Shapes'
  BY <1>6, IdleIs, PendingIs DEF Refuse, TurnAway, Running, Judged
<1>7. CASE KeyExpires
  BY <1>7, <1>r, IdleIs, PendingIs DEF KeyExpires, connVars
<1>8. ASSUME NEW s \in Sockets, Leave(s) PROVE Shapes'
  <2>1. interest' \in [Instruments -> Nat]
    BY <1>8 DEF Leave, Less
  <2>2. registered' \in [Sockets -> BOOLEAN]
    BY <1>8, Zenon DEF Leave
  <2>3. life' \in [Sockets -> {"none", "open", "gone", "lost"}]
    BY <1>8 DEF Leave
  <2>4. leaving' \in [Sockets -> {"no", "releasing", "untracking", "over", "early"}]
    BY <1>8 DEF Leave
  <2>5. TypeOK'
    BY <1>8, <2>1, <2>2, <2>3, <2>4 DEF Leave
  <2>6. Phases'
    BY <1>8 DEF Leave
  <2>7. CallShapes'
    BY <1>8, IdleIs, PendingIs DEF Leave
  <2> QED
    BY <2>5, <2>6, <2>7
<1>9. ASSUME NEW s \in Sockets, Released(s) PROVE Shapes'
  BY <1>9, IdleIs, PendingIs DEF Released, Running
<1>10. ASSUME NEW s \in Sockets, Untrack(s) PROVE Shapes'
  BY <1>10, IdleIs, PendingIs DEF Untrack, Running
<1> QED
  BY <1>1, <1>2, <1>3, <1>4, <1>5, <1>6, <1>7, <1>8, <1>9, <1>10 DEF Admission, Departure

\* A subscribe misplaces ids that there are, and the ends of the others only mend.
LEMMA MisplacedType ==
    ASSUME Shapes, Subscriptions
    PROVE  misplaced' \in [Sockets -> SUBSET Instruments]
<1>t. /\ misplaced \in [Sockets -> SUBSET Instruments]
      /\ \A k \in Calls : call[k] \in Pending \cup {Idle}
  BY DEF Shapes, TypeOK
<1>1. ASSUME NEW s, NEW ids, Mend(s, ids) PROVE misplaced' \in [Sockets -> SUBSET Instruments]
  BY <1>t, <1>1 DEF Mend
<1>2. ASSUME NEW k \in Calls, NEW twice, SubscribeJoins(k, twice)
      PROVE  misplaced' \in [Sockets -> SUBSET Instruments]
  <2>1. call[k].ids \in SUBSET Instruments
    BY <1>t, <1>2, IdleIs, PendingIs DEF SubscribeJoins
  <2>2. PICK rooms \in RoomsFor(call[k].ids) : Confuse(call[k].of, call[k].ids, rooms)
    BY <1>2 DEF SubscribeJoins
  <2>3. rooms \in SUBSET Instruments
    BY <2>1, NamesakesAssumption DEF RoomsFor
  <2> QED
    BY <1>t, <2>1, <2>2, <2>3 DEF Confuse
<1>3. ASSUME NEW k \in Calls, Unsubscribe(k) PROVE misplaced' \in [Sockets -> SUBSET Instruments]
  <2>1. Mend(call[k].of, call[k].ids) \/ UNCHANGED misplaced
    BY <1>3, Zenon DEF Unsubscribe
  <2> QED
    BY <1>t, <1>1, <2>1
<1>4. ASSUME NEW k \in Calls, UnsubscribeEnds(k) \/ UnsubscribeAllEnds(k)
      PROVE  misplaced' \in [Sockets -> SUBSET Instruments]
  BY <1>1, <1>4 DEF UnsubscribeEnds, UnsubscribeAllEnds
<1>5. ASSUME NEW k \in Calls, NEW twice, SubscribePlaces(k, twice) PROVE UNCHANGED misplaced
  BY <1>5 DEF SubscribePlaces
<1> QED
  BY <1>t, <1>2, <1>3, <1>4, <1>5 DEF Subscriptions

LEMMA ShapesCallStep ==
    ASSUME Shapes, Subscriptions, repeated' \in BOOLEAN, overlapped' \in SUBSET Sockets,
           misplaced' \in [Sockets -> SUBSET Instruments]
    PROVE  Shapes'
<1> USE DEF Shapes, TypeOK, Phases, CallShapes, holdVars, connVars, redisVars
<1>1. ASSUME NEW k \in Calls, NEW s \in Sockets, NEW kind \in {"subscribe", "unsubscribe"},
             NEW ids \in SUBSET Instruments, Requested(k, s, kind, ids)
      PROVE Shapes'
  <2> DEFINE c == [kind |-> kind, of |-> s, stage |-> IF s \in Native THEN "found" ELSE "asked",
                   ids |-> ids, seen |-> {}]
  <2>1. c \in Pending /\ c # Idle
    BY IdleIs, PendingIs DEF Pending, Kinds
  <2>2. c.kind = kind /\ c.of = s /\ c.stage = IF s \in Native THEN "found" ELSE "asked"
    OBVIOUS
  <2>3. call' = [call EXCEPT ![k] = c]
    BY <1>1 DEF Requested, Ask
  <2> HIDE DEF c
  <2> QED
    BY <1>1, <2>1, <2>2, <2>3, IdleIs, PendingIs DEF Requested
<1>2. ASSUME NEW k \in Calls, GivesUp(k) PROVE Shapes'
  BY <1>2, IdleIs, PendingIs DEF GivesUp, Ends
<1>3. ASSUME NEW k \in Calls, SubscribeFinds(k) PROVE Shapes'
  <2> DEFINE c == [call[k] EXCEPT !.stage = "found"]
  <2>1. call[k] \in Pending /\ call[k].stage = "asked" /\ call[k].kind = "subscribe"
    BY <1>3, IdleIs DEF SubscribeFinds
  <2>2. c \in Pending /\ c.kind = "subscribe" /\ c.of = call[k].of /\ c.stage = "found"
    BY <2>1 DEF Pending
  <2>3. call' = [call EXCEPT ![k] = c]
    BY <1>3 DEF SubscribeFinds
  <2> HIDE DEF c
  <2> QED
    BY <1>3, <2>1, <2>2, <2>3, IdleIs, PendingIs DEF SubscribeFinds
<1>4. ASSUME NEW k \in Calls, NEW twice \in SUBSET Instruments, SubscribePlaces(k, twice) PROVE Shapes'
  <2> DEFINE s == call[k].of
             fresh == call[k].ids \ instruments[s]
             c == [call[k] EXCEPT !.stage = "placing", !.seen = fresh]
  <2>1. /\ call[k] \in Pending /\ call[k].stage = "found" /\ call[k].kind = "subscribe"
        /\ s \in Sockets /\ conn[s] = "admitted"
    BY <1>4, IdleIs, PendingIs DEF SubscribePlaces
  <2>2. c \in Pending /\ c.kind = "subscribe" /\ c.of = s /\ c.stage = "placing"
    BY <2>1 DEF Pending
  <2>3. /\ instruments' = [instruments EXCEPT ![s] = @ \cup call[k].ids]
        /\ UNCHANGED <<life, conn, reply, leaving, connections, expiring, expired, silent,
                       registered, roomMembers>>
    BY <1>4 DEF SubscribePlaces
  <2>4. CASE s \in Native
    <3>1. interest' = More(fresh, twice) /\ call' = [call EXCEPT ![k] = Idle]
      BY <1>4, <2>4 DEF SubscribePlaces, Ends
    <3>2. interest' \in [Instruments -> Nat]
      BY <3>1 DEF More
    <3> HIDE DEF fresh, c, s
    <3> QED
      BY <2>1, <2>3, <3>1, <3>2, IdleIs, PendingIs
  <2>5. CASE s \notin Native
    <3>0. /\ interest' = interest
          /\ call' = [call EXCEPT ![k].stage = "placing", ![k].seen = fresh]
      BY <1>4, <2>5, Zenon DEF SubscribePlaces
    <3>1. interest' = interest /\ call' = [call EXCEPT ![k] = c]
      BY <3>0
    <3> HIDE DEF fresh, c, s
    <3> QED
      BY <2>1, <2>2, <2>3, <2>5, <3>1, IdleIs, PendingIs
  <2> QED
    BY <2>4, <2>5
<1>5. ASSUME NEW k \in Calls, NEW twice \in SUBSET Instruments, SubscribeJoins(k, twice) PROVE Shapes'
  <2>1. interest' \in [Instruments -> Nat]
    BY <1>5 DEF SubscribeJoins, More
  <2>2. call[k].of \in Sockets \ Native
    BY <1>5, IdleIs, PendingIs DEF SubscribeJoins
  <2>3. roomMembers' \in [Instruments -> SUBSET (Sockets \ Native)]
    BY <1>5, <2>2 DEF SubscribeJoins, JoinRooms
  <2>4. call' = [call EXCEPT ![k] = Idle] /\ UNCHANGED <<connVars, redisVars, registered, instruments>>
    BY <1>5 DEF SubscribeJoins, Ends
  <2>5. TypeOK'
    BY <2>1, <2>3, <2>4
  <2>6. Phases'
    BY <2>4
  <2>7. CallShapes'
    BY <2>4, IdleIs, PendingIs
  <2> QED
    BY <2>5, <2>6, <2>7
<1>6. ASSUME NEW k \in Calls, UnsubscribeNative(k) PROVE Shapes'
  <2>1. interest' \in [Instruments -> Nat]
    BY <1>6 DEF UnsubscribeNative, Less
  <2>2. /\ instruments' \in [Sockets -> SUBSET Instruments]
        /\ \A s \in Sockets : instruments'[s] \subseteq instruments[s]
    BY <1>6 DEF UnsubscribeNative
  <2>3. /\ call' = [call EXCEPT ![k] = Idle]
        /\ UNCHANGED <<connVars, redisVars, registered, roomMembers>>
    BY <1>6 DEF UnsubscribeNative, Ends
  <2>4. TypeOK'
    BY <2>1, <2>2, <2>3
  <2>5. Phases'
    BY <2>2, <2>3
  <2>6. CallShapes'
    BY <2>3, IdleIs, PendingIs
  <2> QED
    BY <2>4, <2>5, <2>6
<1>7. ASSUME NEW k \in Calls, Unsubscribe(k) PROVE Shapes'
  <2> DEFINE s == call[k].of
             ids == call[k].ids
             c == [call[k] EXCEPT !.stage = "leaving", !.seen = instruments[s]]
  <2>1. /\ call[k] \in Pending /\ call[k].stage = "asked" /\ call[k].kind = "unsubscribe"
        /\ s \in Sockets /\ conn[s] = "admitted"
    BY <1>7, IdleIs, PendingIs DEF Unsubscribe
  <2>2. c \in Pending /\ c.kind = "unsubscribe" /\ c.of = s /\ c.stage = "leaving"
    BY <2>1 DEF Pending
  <2>3. /\ instruments' = [instruments EXCEPT ![s] = @ \ ids]
        /\ UNCHANGED <<life, conn, reply, leaving, connections, expiring, expired, silent,
                       registered>>
    BY <1>7 DEF Unsubscribe
  <2>4. CASE StillSubscribed(ids, instruments')
    <3>1. /\ roomMembers' = LeaveRooms(s, ids)
          /\ interest' = Less(instruments[s] \cap ids)
          /\ call' = [call EXCEPT ![k] = Idle]
      BY <1>7, <2>4 DEF Unsubscribe, Ends
    <3>2. interest' \in [Instruments -> Nat]
      BY <3>1 DEF Less
    <3>3. roomMembers' \in [Instruments -> SUBSET (Sockets \ Native)]
      BY <3>1 DEF LeaveRooms
    <3>4. /\ instruments' \in [Sockets -> SUBSET Instruments]
          /\ \A t \in Sockets : instruments'[t] \subseteq instruments[t]
      BY <2>3
    <3> HIDE DEF ids, c, s
    <3>5. TypeOK'
      BY <2>3, <3>1, <3>2, <3>3, <3>4
    <3>6. Phases'
      BY <2>3, <3>4
    <3>7. CallShapes'
      BY <2>3, <3>1, IdleIs, PendingIs
    <3> QED
      BY <3>5, <3>6, <3>7
  <2>5. CASE ~StillSubscribed(ids, instruments')
    <3>0. /\ interest' = interest /\ roomMembers' = roomMembers
          /\ call' = [call EXCEPT ![k].stage = "leaving", ![k].seen = instruments[s]]
      BY <1>7, <2>5, Zenon DEF Unsubscribe
    <3>1. interest' = interest /\ roomMembers' = roomMembers /\ call' = [call EXCEPT ![k] = c]
      BY <3>0
    <3>2. s \notin Native
      BY <2>1, IdleIs
    <3>3. /\ instruments' \in [Sockets -> SUBSET Instruments]
          /\ \A t \in Sockets : instruments'[t] \subseteq instruments[t]
      BY <2>3
    <3> HIDE DEF ids, c, s
    <3>4. TypeOK'
      BY <2>2, <2>3, <3>1, <3>3
    <3>5. Phases'
      BY <2>3, <3>3
    <3>6. CallShapes'
      BY <2>1, <2>2, <2>3, <3>1, <3>2, IdleIs, PendingIs
    <3> QED
      BY <3>4, <3>5, <3>6
  <2> QED
    BY <2>4, <2>5
<1>8. ASSUME NEW k \in Calls, UnsubscribeEnds(k) PROVE Shapes'
  <2>1. interest' \in [Instruments -> Nat]
    BY <1>8 DEF UnsubscribeEnds, Less
  <2>2. roomMembers' \in [Instruments -> SUBSET (Sockets \ Native)]
    BY <1>8 DEF UnsubscribeEnds, LeaveRooms
  <2>3. call' = [call EXCEPT ![k] = Idle] /\ UNCHANGED <<connVars, redisVars, registered, instruments>>
    BY <1>8 DEF UnsubscribeEnds, Ends
  <2>4. TypeOK'
    BY <2>1, <2>2, <2>3
  <2>5. Phases'
    BY <2>3
  <2>6. CallShapes'
    BY <2>3, IdleIs, PendingIs
  <2> QED
    BY <2>4, <2>5, <2>6
<1>9. ASSUME NEW k \in Calls, NEW s \in Sockets, UnsubscribeAll(k, s) PROVE Shapes'
  <2> DEFINE c == [kind |-> "unsubscribe_all", of |-> s, stage |-> "leaving",
                   ids |-> instruments[s], seen |-> {}]
  <2>1. c \in Pending /\ c # Idle
    BY IdleIs, PendingIs DEF Pending, Kinds
  <2>2. c.kind = "unsubscribe_all" /\ c.of = s /\ c.stage = "leaving"
    OBVIOUS
  <2>3. call' = [call EXCEPT ![k] = c]
    BY <1>9 DEF UnsubscribeAll, Ask
  <2>4. interest' \in [Instruments -> Nat]
    BY <1>9 DEF UnsubscribeAll, Less
  <2> HIDE DEF c
  <2> QED
    BY <1>9, <2>1, <2>2, <2>3, <2>4, IdleIs, PendingIs DEF UnsubscribeAll
<1>10. ASSUME NEW k \in Calls, UnsubscribeAllEnds(k) PROVE Shapes'
  <2>1. roomMembers' \in [Instruments -> SUBSET (Sockets \ Native)]
    BY <1>10 DEF UnsubscribeAllEnds, LeaveRooms
  <2> QED
    BY <1>10, <2>1, IdleIs, PendingIs DEF UnsubscribeAllEnds, Ends
<1> HIDE DEF Shapes, TypeOK, Phases, CallShapes
<1> QED
  BY <1>1, <1>2, <1>3, <1>4, <1>5, <1>6, <1>7, <1>8, <1>9, <1>10 DEF Subscriptions

LEMMA ShapesNext == Shapes /\ [Next]_vars => Shapes'
<1> SUFFICES ASSUME Shapes, [Next]_vars PROVE Shapes'
    OBVIOUS
<1>1. CASE Crash
  BY <1>1, IdleIs, PendingIs DEF Crash, Shapes, TypeOK, Phases, CallShapes, redisVars
<1>2. CASE UNCHANGED vars
  BY <1>2 DEF vars, connVars, redisVars, holdVars, Shapes, TypeOK, Phases, CallShapes
<1>3. CASE /\ \/ (Admission \/ Departure) /\ UNCHANGED <<repeated, misplaced>>
              \/ Subscriptions
           /\ overlapped' = overlapped \cup {s \in Sockets : Overlapping(s)'}
  <2>1. overlapped' \in SUBSET Sockets
    BY <1>3 DEF Shapes, TypeOK
  <2>2. CASE (Admission \/ Departure) /\ UNCHANGED <<repeated, misplaced>>
    BY <2>1, <2>2, ShapesSessionStep
  <2>3. CASE Subscriptions
    <3>1. repeated' \in BOOLEAN
      <4>1. repeated \in BOOLEAN
        BY DEF Shapes, TypeOK
      <4> QED
        BY <2>3, <4>1, Zenon DEF Subscriptions
    <3> QED
      BY <2>1, <2>3, <3>1, MisplacedType, ShapesCallStep
  <2> QED
    BY <1>3, <2>2, <2>3
<1> QED
  BY <1>1, <1>2, <1>3 DEF Next

\* Every variable has its type in every reachable state, for any number of sockets, calls
\* and instruments.
THEOREM SessionsTypeOK == Spec => []TypeOK
<1>1. Shapes => TypeOK
  BY DEF Shapes
<1> QED
  BY <1>1, ShapesInit, ShapesNext, PTL DEF Spec

\* An entry that outlives its session belongs to a client that left during its admission,
\* or to one whose release is awaited.
THEOREM SessionsLeftovers == Spec => []LeftoversOnlyBy
<1>1. Shapes => LeftoversOnlyBy
  BY DEF Shapes, Phases, LeftoversOnlyBy
<1> QED
  BY <1>1, ShapesInit, ShapesNext, PTL DEF Spec


-----------------------------------------------------------------------------
(* The counter.                                                            *)

LEMMA CountedFinite ==
    ASSUME TypeOK
    PROVE  /\ IsFiniteSet(CountedSet) /\ IsFiniteSet(WithinLimit)
           /\ WithinLimit \subseteq CountedSet
           /\ Cardinality(CountedSet) \in Nat /\ Cardinality(WithinLimit) \in Nat
<1>1. IsFiniteSet(CountedSet)
  BY SocketsAssumption, FS_Subset DEF CountedSet
<1>2. WithinLimit \subseteq CountedSet
  BY DEF WithinLimit, CountedSet
<1>3. IsFiniteSet(WithinLimit)
  BY <1>1, <1>2, FS_Subset
<1> QED
  BY <1>1, <1>2, <1>3, FS_CardinalityType

\* A step that changes neither the counter nor who is counted.
LEMMA CounterKept ==
    ASSUME TypeOK, CounterInv,
           ~expired' /\ ~silent' => ~expired /\ ~silent /\ connections' = connections,
           CountedSet' = CountedSet, WithinLimit' \subseteq WithinLimit
    PROVE  CounterInv'
<1>1. Cardinality(WithinLimit') <= Cardinality(WithinLimit)
      /\ Cardinality(WithinLimit') \in Nat /\ Cardinality(WithinLimit) \in Nat
  BY CountedFinite, FS_Subset, FS_CardinalityType
<1>2. Limit \in Nat
  BY LimitAssumption
<1>3. ASSUME ~expired', ~silent'
      PROVE  connections' = Cardinality(CountedSet') /\ Cardinality(WithinLimit') <= Limit
  <2>1. connections = Cardinality(CountedSet) /\ Cardinality(WithinLimit) <= Limit
    BY <1>3 DEF CounterInv
  <2> QED
    BY <1>1, <1>2, <1>3, <2>1
<1> QED
  BY <1>3 DEF CounterInv

\* A step that takes one session out of the count.
LEMMA CounterDown ==
    ASSUME TypeOK, CounterInv, Decr, expired' = expired,
           NEW s \in CountedSet, CountedSet' = CountedSet \ {s}, WithinLimit' \subseteq WithinLimit
    PROVE  CounterInv'
<1>1. Cardinality(WithinLimit') <= Cardinality(WithinLimit)
      /\ Cardinality(WithinLimit') \in Nat /\ Cardinality(WithinLimit) \in Nat
  BY CountedFinite, FS_Subset, FS_CardinalityType
<1>2. Limit \in Nat /\ connections \in Int
  BY LimitAssumption DEF TypeOK
<1>3. Cardinality(CountedSet') = Cardinality(CountedSet) - 1
  BY CountedFinite, FS_RemoveElement
<1>4. ASSUME ~expired', ~silent'
      PROVE  connections' = Cardinality(CountedSet') /\ Cardinality(WithinLimit') <= Limit
  <2>0. silent' = silent /\ connections' = connections - 1
    <3>1. silent' # TRUE
      BY <1>4
    <3> QED
      BY <3>1, Zenon DEF Decr
  <2>1. ~expired /\ ~silent /\ connections' = connections - 1
    BY <1>4, <2>0
  <2>2. connections = Cardinality(CountedSet) /\ Cardinality(WithinLimit) <= Limit
    BY <2>1 DEF CounterInv
  <2> QED
    BY <1>1, <1>2, <1>3, <2>1, <2>2
<1> QED
  BY <1>4 DEF CounterInv

LEMMA CounterInit == Init => CounterInv
<1> SUFFICES ASSUME Init PROVE CounterInv
    OBVIOUS
<1>1. CountedSet = {} /\ WithinLimit = {} /\ connections = 0
  BY DEF Init, CountedSet, WithinLimit, Counted
<1>2. Cardinality({}) = 0 /\ Limit \in Nat
  BY FS_EmptySet, LimitAssumption
<1> QED
  BY <1>1, <1>2 DEF CounterInv

LEMMA CounterIncr ==
    ASSUME Shapes, CounterInv, NEW s \in Sockets, Incr(s)
    PROVE  CounterInv'
<1>t. TypeOK /\ connections \in Int /\ reply \in [Sockets -> Int] /\ conn[s] = "validating"
  BY DEF Shapes, TypeOK, Incr
<1>l. Limit \in Nat
  BY LimitAssumption
<1>f. /\ conn' = [conn EXCEPT ![s] = "asking"] /\ leaving' = leaving /\ expired' = expired
      /\ \A t \in Sockets \ {s} : reply'[t] = reply[t]
  <2>1. conn' = [conn EXCEPT ![s] = "asking"] /\ leaving' = leaving /\ expired' = expired
    BY DEF Incr
  <2>2. \A t \in Sockets \ {s} : reply'[t] = reply[t]
    BY <1>t DEF Incr
  <2> QED
    BY <2>1, <2>2
<1>1. s \notin CountedSet /\ CountedSet' = CountedSet \cup {s}
  BY <1>t, <1>f DEF CountedSet, Counted, TypeOK
<1>2. /\ IsFiniteSet(CountedSet') /\ Cardinality(CountedSet') = Cardinality(CountedSet) + 1
  BY <1>1, <1>t, CountedFinite, FS_AddElement
<1>3. WithinLimit' \subseteq CountedSet'
  BY DEF WithinLimit, CountedSet
<1>4. ASSUME ~expired', ~silent'
      PROVE  connections' = Cardinality(CountedSet') /\ Cardinality(WithinLimit') <= Limit
  <2>0. /\ silent' = silent /\ connections' = connections + 1
        /\ reply' = [reply EXCEPT ![s] = connections + 1]
    <3>1. silent' # TRUE
      BY <1>4
    <3> QED
      BY <3>1, Zenon DEF Incr
  <2>1. ~silent /\ connections' = connections + 1 /\ reply' = [reply EXCEPT ![s] = connections + 1]
    BY <1>4, <2>0
  <2>2. connections = Cardinality(CountedSet) /\ Cardinality(WithinLimit) <= Limit
    BY <1>4, <1>f, <2>1 DEF CounterInv
  <2>3. reply'[s] = connections'
    BY <1>t, <2>1
  <2>4. CASE connections' <= Limit
    <3>1. Cardinality(WithinLimit') <= Cardinality(CountedSet') /\ Cardinality(WithinLimit') \in Nat
      BY <1>2, <1>3, FS_Subset, FS_CardinalityType
    <3> QED
      BY <1>2, <1>l, <1>t, <2>1, <2>2, <2>4, <3>1
  <2>5. CASE ~(connections' <= Limit)
    <3>1. WithinLimit' = WithinLimit
      BY <1>t, <1>f, <2>3, <2>5 DEF WithinLimit, Counted, TypeOK
    <3> QED
      BY <1>2, <2>1, <2>2, <3>1
  <2> QED
    BY <2>4, <2>5
<1> QED
  BY <1>4 DEF CounterInv

LEMMA CounterNext == Shapes /\ CounterInv /\ [Next]_vars => CounterInv'
<1> SUFFICES ASSUME Shapes, CounterInv, [Next]_vars PROVE CounterInv'
    OBVIOUS
<1>t. TypeOK /\ Phases /\ Limit \in Nat \ {0}
  BY LimitAssumption DEF Shapes
<1> DEFINE Same == CountedSet' = CountedSet /\ WithinLimit' \subseteq WithinLimit
<1> USE DEF CountedSet, WithinLimit, Counted
<1>1. ASSUME NEW s \in Sockets, ClientConnects(s) \/ Rejected(s) \/ Expire(s) \/ Leave(s) \/ Released(s)
      PROVE  CounterInv'
  <2>1. ~expired' /\ ~silent' => ~expired /\ ~silent /\ connections' = connections
    BY <1>1, Zenon DEF ClientConnects, Rejected, Expire, Leave, Released, redisVars
  <2>2. Same
    <3>1. CASE ClientConnects(s)
      BY <3>1, <1>t DEF ClientConnects, TypeOK, Phases
    <3>2. CASE Rejected(s)
      BY <3>2, <1>t DEF Rejected, TurnAway, TypeOK, Phases
    <3>3. CASE Expire(s)
      BY <3>3, <1>t DEF Expire, TypeOK, Phases
    <3>4. CASE Leave(s)
      BY <3>4, <1>t DEF Leave, TypeOK, Phases
    <3>5. CASE Released(s)
      BY <3>5, <1>t DEF Released, TypeOK, Phases
    <3> QED
      BY <1>1, <3>1, <3>2, <3>3, <3>4, <3>5
  <2> QED
    BY <1>t, <2>1, <2>2, CounterKept
<1>2. ASSUME NEW s \in Sockets, Incr(s) PROVE CounterInv'
  BY <1>2, CounterIncr
<1>3. ASSUME NEW s \in Sockets, Admit(s) PROVE CounterInv'
  <2>1. ~expired' /\ ~silent' => ~expired /\ ~silent /\ connections' = connections
    BY <1>3 DEF Admit, redisVars
  <2>2. s \in WithinLimit
    BY <1>3, <1>t DEF Admit, Judged, Exceeds, TypeOK, Phases
  <2>3. Same
    BY <1>3, <1>t, <2>2 DEF Admit, Judged, TypeOK, Phases
  <2> QED
    BY <1>t, <2>1, <2>3, CounterKept
<1>4. ASSUME NEW s \in Sockets, Refuse(s) PROVE CounterInv'
  <2>1. s \in CountedSet /\ Decr /\ expired' = expired
    BY <1>4 DEF Refuse, Judged
  <2>2. CountedSet' = CountedSet \ {s} /\ WithinLimit' \subseteq WithinLimit
    BY <1>4, <1>t DEF Refuse, TurnAway, TypeOK
  <2> HIDE DEF CountedSet, WithinLimit
  <2> QED
    BY <1>t, <2>1, <2>2, CounterDown
<1>5. CASE KeyExpires
  <2>1. ~expired' /\ ~silent' => ~expired /\ ~silent /\ connections' = connections
    BY <1>5, Zenon DEF KeyExpires
  <2>2. Same
    BY <1>5 DEF KeyExpires, connVars
  <2> QED
    BY <1>t, <2>1, <2>2, CounterKept
<1>6. ASSUME NEW s \in Sockets, Untrack(s) PROVE CounterInv'
  <2>1. s \in CountedSet /\ Decr /\ expired' = expired
    BY <1>6, <1>t DEF Untrack, Phases
  <2>2. CountedSet' = CountedSet \ {s} /\ WithinLimit' \subseteq WithinLimit
    BY <1>6, <1>t DEF Untrack, TypeOK, Phases
  <2> HIDE DEF CountedSet, WithinLimit
  <2> QED
    BY <1>t, <2>1, <2>2, CounterDown
<1>7. CASE Subscriptions \/ Crash \/ UNCHANGED vars
  <2>1. UNCHANGED <<conn, reply, leaving, redisVars>>
    BY <1>7 DEF Subscriptions, Crash, vars, connVars, Requested, GivesUp, SubscribeFinds,
       SubscribePlaces, SubscribeJoins, UnsubscribeNative, Unsubscribe, UnsubscribeEnds,
       UnsubscribeAll, UnsubscribeAllEnds
  <2>2. Same
    BY <2>1
  <2> QED
    BY <1>t, <2>1, <2>2, CounterKept DEF redisVars
<1> QED
  BY <1>1, <1>2, <1>3, <1>4, <1>5, <1>6, <1>7 DEF Next, Admission, Departure

\* Through refusals, departures during the admission and crashes, the counter is the number
\* of sessions that were counted and not yet given back, unless Redis dropped it or failed.
THEOREM SessionsCounterIsTrue == Spec => []CounterIsTrue
<1>1. CounterInv => CounterIsTrue
  BY DEF CounterInv, CounterIsTrue, CountedSet
<1> QED
  BY <1>1, ShapesInit, ShapesNext, CounterInit, CounterNext, PTL DEF Spec

\* Never more sessions are served than connection_limit allows, however many connect at the
\* same moment, unless the key ran out or Redis failed.
THEOREM SessionsOverLimit == Spec => []OverLimitOnlyBy
<1>1. Shapes /\ CounterInv => OverLimitOnlyBy
  <2> SUFFICES ASSUME Shapes, CounterInv, ~expired, ~silent
               PROVE  ~(Cardinality(Served) > Limit)
    BY DEF OverLimitOnlyBy
  <2>1. Served \subseteq WithinLimit
    BY DEF Served, WithinLimit, Counted, Shapes, Phases
  <2>2. /\ Cardinality(Served) <= Cardinality(WithinLimit)
        /\ Cardinality(Served) \in Nat /\ Cardinality(WithinLimit) \in Nat
    BY <2>1, CountedFinite, FS_Subset, FS_CardinalityType DEF Shapes
  <2>3. Cardinality(WithinLimit) <= Limit /\ Limit \in Nat
    BY LimitAssumption DEF CounterInv
  <2> QED
    BY <2>2, <2>3
<1> QED
  BY <1>1, ShapesInit, ShapesNext, CounterInit, CounterNext, PTL DEF Spec


-----------------------------------------------------------------------------
(* A step concerns one session, and leaves the others as they are.         *)

SessionStep(s) ==
    /\ \/ ClientConnects(s) \/ Rejected(s) \/ Incr(s) \/ Expire(s) \/ Admit(s) \/ Refuse(s)
       \/ Leave(s) \/ Released(s) \/ Untrack(s)
    /\ UNCHANGED misplaced
BeginStep(k, s) ==
    /\ \/ \E kind \in {"subscribe", "unsubscribe"}, ids \in SUBSET Instruments :
             Requested(k, s, kind, ids)
       \/ UnsubscribeAll(k, s)
    /\ UNCHANGED misplaced
CallStep(k) ==
    \/ (GivesUp(k) \/ SubscribeFinds(k) \/ UnsubscribeNative(k)) /\ UNCHANGED misplaced
    \/ \E twice \in SUBSET Instruments :
          (SubscribePlaces(k, twice) \/ SubscribeJoins(k, twice)) /\ (~repeated' => twice = {})
    \/ Unsubscribe(k) \/ UnsubscribeEnds(k) \/ UnsubscribeAllEnds(k)

LEMMA NextSplit ==
    ASSUME \/ (Admission \/ Departure) /\ UNCHANGED <<repeated, misplaced>>
           \/ Subscriptions
    PROVE  \/ \E s \in Sockets : SessionStep(s)
           \/ KeyExpires /\ UNCHANGED misplaced
           \/ \E k \in Calls, s \in Sockets : BeginStep(k, s)
           \/ \E k \in Calls : CallStep(k)
BY DEF Admission, Departure, Subscriptions, SessionStep, BeginStep, CallStep

\* What a call step does to the pending calls, and that it does nothing to the sessions.
CallBecomes(k, c) ==
    /\ call' = [call EXCEPT ![k] = c]
    /\ UNCHANGED <<life, leaving, registered>>

LEMMA BeginShape ==
    ASSUME Shapes, NEW k \in Calls, NEW s \in Sockets, BeginStep(k, s)
    PROVE  /\ call[k] = Idle
           /\ \E c \in Pending : c.of = s /\ CallBecomes(k, c)
<1> USE DEF CallBecomes, connVars
<1>1. ASSUME NEW kind \in {"subscribe", "unsubscribe"}, NEW ids \in SUBSET Instruments,
             Requested(k, s, kind, ids)
      PROVE  call[k] = Idle /\ \E c \in Pending : c.of = s /\ CallBecomes(k, c)
  <2> DEFINE c == [kind |-> kind, of |-> s, stage |-> IF s \in Native THEN "found" ELSE "asked",
                   ids |-> ids, seen |-> {}]
  <2>1. c \in Pending /\ c.of = s
    BY DEF Pending, Kinds
  <2>2. call[k] = Idle /\ CallBecomes(k, c)
    BY <1>1 DEF Requested, Ask
  <2> QED
    BY <2>1, <2>2
<1>2. CASE UnsubscribeAll(k, s)
  <2> DEFINE c == [kind |-> "unsubscribe_all", of |-> s, stage |-> "leaving",
                   ids |-> instruments[s], seen |-> {}]
  <2>1. c \in Pending /\ c.of = s
    BY DEF Pending, Kinds, Shapes, TypeOK
  <2>2. call[k] = Idle /\ CallBecomes(k, c)
    BY <1>2 DEF UnsubscribeAll, Ask
  <2> QED
    BY <2>1, <2>2
<1> QED
  BY <1>1, <1>2 DEF BeginStep

LEMMA CallShape ==
    ASSUME Shapes, NEW k \in Calls, CallStep(k)
    PROVE  /\ call[k] \in Pending
           /\ \E c \in Pending \cup {Idle} : (c = Idle \/ c.of = call[k].of) /\ CallBecomes(k, c)
<1> DEFINE Goal == \E c \in Pending \cup {Idle} : (c = Idle \/ c.of = call[k].of) /\ CallBecomes(k, c)
           ends == call' = [call EXCEPT ![k] = Idle] /\ UNCHANGED <<life, leaving, registered>>
<1>1. call[k] \in Pending
  <2>1. call[k] \in Pending \cup {Idle}
    BY DEF Shapes, TypeOK
  <2>2. call[k].kind # "none" \/ call[k].stage # "none"
    BY DEF CallStep, GivesUp, SubscribeFinds, SubscribePlaces, SubscribeJoins, UnsubscribeNative,
       Unsubscribe, UnsubscribeEnds, UnsubscribeAllEnds
  <2> QED
    BY <2>1, <2>2, IdleIs
<1>2. ends => Goal
  BY DEF CallBecomes
<1>3. ASSUME SubscribeFinds(k) PROVE Goal
  <2> DEFINE c == [call[k] EXCEPT !.stage = "found"]
  <2>1. c \in Pending /\ c.of = call[k].of
    BY <1>1 DEF Pending
  <2>2. CallBecomes(k, c)
    BY <1>3 DEF SubscribeFinds, CallBecomes, connVars
  <2> QED
    BY <2>1, <2>2
<1>4. ASSUME NEW twice, SubscribePlaces(k, twice), call[k].of \notin Native PROVE Goal
  <2> DEFINE fresh == call[k].ids \ instruments[call[k].of]
             c == [call[k] EXCEPT !.stage = "placing", !.seen = fresh]
  <2>1. c \in Pending /\ c.of = call[k].of
    BY <1>1 DEF Pending
  <2>2. CallBecomes(k, c)
    BY <1>4 DEF SubscribePlaces, CallBecomes, connVars
  <2> QED
    BY <2>1, <2>2
<1>5. ASSUME Unsubscribe(k), ~StillSubscribed(call[k].ids, instruments') PROVE Goal
  <2> DEFINE c == [call[k] EXCEPT !.stage = "leaving", !.seen = instruments[call[k].of]]
  <2>1. c \in Pending /\ c.of = call[k].of
    BY <1>1, PendingIs DEF Pending, Shapes, TypeOK
  <2>2. call' = [call EXCEPT ![k].stage = "leaving", ![k].seen = instruments[call[k].of]]
    BY <1>5, Zenon DEF Unsubscribe
  <2>3. CallBecomes(k, c)
    BY <1>5, <2>2 DEF Unsubscribe, CallBecomes, connVars
  <2> QED
    BY <2>1, <2>3
<1>6. ASSUME Unsubscribe(k), StillSubscribed(call[k].ids, instruments') PROVE ends
  <2>1. Ends(k)
    BY <1>6, Zenon DEF Unsubscribe
  <2> QED
    BY <1>6, <2>1 DEF Unsubscribe, Ends, connVars
<1>7. ASSUME NEW twice,
             \/ GivesUp(k) \/ SubscribeJoins(k, twice) \/ UnsubscribeNative(k)
             \/ UnsubscribeEnds(k) \/ UnsubscribeAllEnds(k)
             \/ (SubscribePlaces(k, twice) /\ call[k].of \in Native)
      PROVE ends
  BY <1>7 DEF GivesUp, SubscribeJoins, UnsubscribeNative, UnsubscribeEnds, UnsubscribeAllEnds,
     SubscribePlaces, Ends, connVars
<1> HIDE DEF ends, Goal
<1>8. Goal
  BY <1>2, <1>3, <1>4, <1>5, <1>6, <1>7 DEF CallStep
<1> QED
  BY <1>1, <1>8 DEF Goal

\* What a step of session t leaves as it is: everything of another session.
Kept(s) ==
    /\ life'[s] = life[s] /\ leaving'[s] = leaving[s] /\ registered'[s] = registered[s]
    /\ instruments'[s] = instruments[s] /\ RoomsOf(s)' = RoomsOf(s)
    /\ misplaced'[s] = misplaced[s]
    /\ \A k \in Calls : call[k].of = s \/ call'[k].of = s => call'[k] = call[k]

LEMMA KeptBySession ==
    ASSUME Shapes, NEW t \in Sockets, SessionStep(t), NEW s \in Sockets \ {t}
    PROVE  Kept(s)
<1>0. misplaced' = misplaced
  BY DEF SessionStep
<1> USE <1>0 DEF Shapes, TypeOK, Kept, RoomsOf, holdVars
<1>1. CASE ClientConnects(t) \/ Rejected(t) \/ Incr(t) \/ Expire(t)
  BY <1>1 DEF ClientConnects, Rejected, Incr, Expire, TurnAway
<1>2. CASE Admit(t) \/ Refuse(t)
  BY <1>2 DEF Admit, Refuse, TurnAway
<1>3. CASE Leave(t)
  <2>1. UNCHANGED <<instruments, roomMembers, call>>
    BY <1>3 DEF Leave
  <2>2. life'[s] = life[s] /\ leaving'[s] = leaving[s]
    BY <1>3 DEF Leave
  <2>3. registered'[s] = registered[s]
    BY <1>3 DEF Leave
  <2> QED
    BY <2>1, <2>2, <2>3
<1>4. CASE Released(t) \/ Untrack(t)
  BY <1>4 DEF Released, Untrack
<1> QED
  BY <1>1, <1>2, <1>3, <1>4 DEF SessionStep

LEMMA KeptByBegin ==
    ASSUME Shapes, NEW k \in Calls, NEW t \in Sockets, BeginStep(k, t), NEW s \in Sockets \ {t}
    PROVE  Kept(s)
<1>1. call[k] = Idle
  BY BeginShape
<1>2. PICK c \in Pending : c.of = t /\ CallBecomes(k, c)
  BY BeginShape
<1>3. UNCHANGED <<instruments, roomMembers, misplaced>>
  BY DEF BeginStep, Requested, UnsubscribeAll
<1>4. \A j \in Calls : call[j].of = s \/ call'[j].of = s => call'[j] = call[j]
  BY <1>1, <1>2, IdleIs DEF CallBecomes, Shapes, TypeOK
<1> QED
  BY <1>2, <1>3, <1>4 DEF Kept, RoomsOf, CallBecomes

LEMMA KeptByCall ==
    ASSUME Shapes, NEW k \in Calls, CallStep(k), NEW s \in Sockets, s # call[k].of
    PROVE  Kept(s)
<1> DEFINE t == call[k].of
<1>1. call[k] \in Pending /\ t \in Sockets /\ call[k].ids \subseteq Instruments
  BY CallShape, PendingIs
<1>2. PICK c \in Pending \cup {Idle} : (c = Idle \/ c.of = t) /\ CallBecomes(k, c)
  BY CallShape
<1>3. \A j \in Calls : call[j].of = s \/ call'[j].of = s => call'[j] = call[j]
  BY <1>1, <1>2, IdleIs DEF CallBecomes, Shapes, TypeOK
<1>4. instruments'[s] = instruments[s]
  BY <1>1 DEF CallStep, GivesUp, SubscribeFinds, SubscribePlaces, SubscribeJoins,
     UnsubscribeNative, Unsubscribe, UnsubscribeEnds, UnsubscribeAllEnds,
     Shapes, TypeOK
<1>5. RoomsOf(s)' = RoomsOf(s)
  BY <1>1 DEF CallStep, GivesUp, SubscribeFinds, SubscribePlaces, SubscribeJoins,
     UnsubscribeNative, Unsubscribe, UnsubscribeEnds, UnsubscribeAllEnds,
     Shapes, TypeOK, RoomsOf, JoinRooms, LeaveRooms
<1>6. misplaced'[s] = misplaced[s]
  <2>1. ASSUME Unsubscribe(k) PROVE Mend(t, call[k].ids) \/ UNCHANGED misplaced
    BY <2>1, Zenon DEF Unsubscribe
  <2>2. ASSUME NEW ids, Mend(t, ids) PROVE misplaced'[s] = misplaced[s]
    BY <1>1, <2>2 DEF Mend, Shapes, TypeOK
  <2>3. ASSUME NEW twice, SubscribeJoins(k, twice) PROVE misplaced'[s] = misplaced[s]
    BY <1>1, <2>3 DEF SubscribeJoins, Confuse, Shapes, TypeOK
  <2> QED
    BY <2>1, <2>2, <2>3 DEF CallStep, SubscribePlaces, UnsubscribeEnds, UnsubscribeAllEnds
<1> QED
  BY <1>2, <1>3, <1>4, <1>5, <1>6 DEF Kept, CallBecomes

\* What is kept stays true.
LEMMA KeptHolds ==
    ASSUME NEW s \in Sockets, Kept(s)
    PROVE  /\ Steady(s) => Steady(s)'
           /\ RoomsOK(s) => RoomsOK(s)'
           /\ Share(s)' = Share(s)
<1> USE DEF Kept
<1>1. Steady(s) => Steady(s)'
  BY DEF Steady
<1>2. RoomsOK(s) => RoomsOK(s)'
  BY DEF RoomsOK, Resting, RoomsDuring, Matched
<1>3. Owed(call', s) = Owed(call, s)
  BY DEF Owed
<1>4. Due(call', s) = Due(call, s)
  BY DEF Due
<1> QED
  BY <1>1, <1>2, <1>3, <1>4 DEF Share

\* A session with one pending call, or none.
LEMMA NoCall ==
    ASSUME NEW f, NEW s \in Sockets, \A k \in Calls : f[k].of # s
    PROVE  Owed(f, s) = {} /\ Due(f, s) = {}
BY DEF Owed, Due

LEMMA OneCall ==
    ASSUME NEW f, NEW s \in Sockets, NEW k \in Calls, f[k].of = s,
           \A j \in Calls \ {k} : f[j].of # s
    PROVE  Owed(f, s) = OwedBy(f[k]) /\ Due(f, s) = DueBy(f[k])
<1>1. {j \in Calls : f[j].of = s} = {k}
  OBVIOUS
<1> QED
  BY <1>1 DEF Owed, Due

\* A call step of a session that no two handlers share: there is no other call of it, and
\* what it owes and is due follows from this one.
LEMMA OneAtATime ==
    ASSUME Shapes, NEW t \in Sockets, NEW k \in Calls, NEW c \in Pending \cup {Idle},
           CallBecomes(k, c), c = Idle \/ c.of = t,
           (call[k] = Idle /\ c # Idle) \/ call[k].of = t,
           ~Overlapping(t), ~Overlapping(t)'
    PROVE  /\ \A j \in Calls \ {k} : call[j].of # t /\ call'[j].of # t
           /\ call'[k] = c
           /\ leaving[t] \in {"no", "early"}
           /\ Owed(call, t) = OwedBy(call[k]) /\ Due(call, t) = DueBy(call[k])
           /\ Owed(call', t) = OwedBy(c) /\ Due(call', t) = DueBy(c)
<1>1. call'[k] = c /\ leaving' = leaving /\ \A j \in Calls \ {k} : call'[j] = call[j]
  BY DEF CallBecomes, Shapes, TypeOK
<1>2. call[k].of = t \/ c.of = t
  BY IdleIs
<1>3. \A j \in Calls \ {k} : call[j].of # t /\ call'[j].of # t
  BY <1>1, <1>2 DEF Overlapping
<1>4. leaving[t] \in {"no", "early"}
  BY <1>1, <1>2 DEF Overlapping, Shapes, TypeOK
<1>5. OwedBy(Idle) = {} /\ DueBy(Idle) = {} /\ Idle.of # t
  BY IdleIs DEF OwedBy, DueBy
<1>6. Owed(call, t) = OwedBy(call[k]) /\ Due(call, t) = DueBy(call[k])
  <2>1. CASE call[k].of = t
    BY <2>1, <1>3, OneCall
  <2>2. CASE call[k].of # t
    <3>1. call[k] = Idle /\ \A j \in Calls : call[j].of # t
      BY <2>2, <1>3
    <3> QED
      BY <3>1, <1>5, NoCall
  <2> QED
    BY <2>1, <2>2
<1>7. Owed(call', t) = OwedBy(c) /\ Due(call', t) = DueBy(c)
  <2>1. CASE c.of = t
    BY <2>1, <1>1, <1>3, OneCall
  <2>2. CASE c.of # t
    <3>1. c = Idle /\ \A j \in Calls : call'[j].of # t
      BY <2>2, <1>1, <1>3
    <3> QED
      BY <3>1, <1>5, NoCall
  <2> QED
    BY <2>1, <2>2
<1> QED
  BY <1>1, <1>3, <1>4, <1>6, <1>7

\* What the step of session t does to the interest counts: they follow its share.
Moved(t) ==
    \A i \in Instruments :
        interest'[i] = IF i \in Share(t)' THEN IF i \in Share(t) THEN interest[i] ELSE interest[i] + 1
                       ELSE IF i \in Share(t) THEN interest[i] - 1 ELSE interest[i]

\* The floor of removeInterest is never met by what is counted.
CountedFor(t) == \A i \in Share(t) : interest[i] > 0

LEMMA SessionStepHolds ==
    ASSUME Shapes, NEW t \in Sockets, SessionStep(t), ~Overlapping(t), ~Overlapping(t)'
    PROVE  /\ Steady(t) => Steady(t)'
           /\ RoomsOK(t) => RoomsOK(t)'
           /\ CountedFor(t) => Moved(t)
<1>0. misplaced' = misplaced
  BY DEF SessionStep
<1> USE DEF Shapes, TypeOK, holdVars
<1>1. CASE \/ ClientConnects(t) \/ Rejected(t) \/ Incr(t) \/ Expire(t) \/ Admit(t) \/ Refuse(t)
           \/ Untrack(t)
  <2>1. UNCHANGED holdVars
    BY <1>1 DEF ClientConnects, Rejected, Incr, Expire, Admit, Refuse, Untrack
  <2>2. registered'[t] = registered[t] \/ (registered'[t] /\ conn[t] # "admitted")
    BY <1>1 DEF ClientConnects, Rejected, Incr, Expire, Admit, Refuse, Untrack, Judged
  <2>3. leaving'[t] = leaving[t] \/ (conn[t] # "admitted" \/ leaving[t] = "untracking")
    BY <1>1 DEF ClientConnects, Rejected, Incr, Expire, Admit, Refuse, Untrack, Judged
  <2>4. life'[t] \in {"none", "open"} => life[t] \in {"none", "open"}
    BY <1>1 DEF ClientConnects, Rejected, Incr, Expire, Admit, Refuse, Untrack, TurnAway, Running
  <2>5. Steady(t) => Steady(t)'
    BY <2>1, <2>2 DEF Steady
  <2>6. RoomsOK(t) => RoomsOK(t)'
    BY <1>0, <2>1, <2>4 DEF RoomsOK, Resting, RoomsDuring, RoomsOf, Matched
  <2>7. Share(t)' = Share(t)
    <3>1. CASE conn[t] # "admitted"
      <4>1. instruments[t] = {} /\ \A k \in Calls : call[k].of = t => OwedBy(call[k]) = {}
        BY <3>1, IdleIs DEF Phases, CallShapes, OwedBy
      <4>2. Owed(call, t) = {}
        BY <4>1 DEF Owed
      <4> QED
        BY <2>1, <4>1, <4>2 DEF Share
    <3>2. CASE conn[t] = "admitted"
      <4>1. registered'[t] = registered[t]
        BY <1>1, <3>2 DEF ClientConnects, Rejected, Incr, Expire, Admit, Refuse, Untrack, Judged
      <4>2. leaving'[t] = leaving[t] \/ ~registered[t]
        BY <2>3, <3>2 DEF Phases
      <4> QED
        BY <2>1, <4>1, <4>2 DEF Share
    <3> QED
      BY <3>1, <3>2
  <2> QED
    BY <2>1, <2>5, <2>6, <2>7 DEF Moved
<1>2. CASE Leave(t)
  <2>1. /\ UNCHANGED <<instruments, roomMembers, call>>
        /\ life'[t] = "gone" /\ leaving[t] = "no"
    BY <1>2 DEF Leave, Phases
  <2>2. RoomsOK(t) => RoomsOK(t)'
    BY <2>1 DEF RoomsOK
  <2>3. CASE registered[t]
    <3>1. leaving'[t] \in {"releasing", "untracking"}
      BY <1>2, <2>3 DEF Leave
    <3>2. \A k \in Calls : call[k].of # t
      BY <2>1, <3>1 DEF Overlapping
    <3>3. Owed(call, t) = {} /\ Due(call, t) = {}
      BY <3>2, NoCall
    <3>4. Share(t) = instruments[t]
      BY <2>1, <2>3, <3>3 DEF Share
    <3>5. Share(t)' = {}
      <4>1. instruments[t] # {} => leaving'[t] = "releasing"
        BY <1>2, <2>3 DEF Leave
      <4>2. instruments[t] = {} => ~registered'[t]
        BY <1>2, <2>3 DEF Leave
      <4> QED
        BY <4>1, <4>2 DEF Share
    <3>6. Steady(t)'
      BY <2>1, <3>2 DEF Steady
    <3>7. CountedFor(t) => Moved(t)
      <4>1. interest' = Less(instruments[t])
        <5>1. instruments[t] # {} => interest' = Less(instruments[t])
          BY <1>2, <2>3 DEF Leave
        <5>2. instruments[t] = {} => interest' = interest
          BY <1>2, <2>3 DEF Leave
        <5> QED
          BY <5>1, <5>2 DEF Less
      <4> QED
        BY <4>1, <3>4, <3>5 DEF CountedFor, Moved, Less
    <3> QED
      BY <2>2, <3>6, <3>7
  <2>4. CASE ~registered[t]
    <3>1. UNCHANGED <<registered, interest>>
      BY <1>2, <2>4 DEF Leave
    <3>2. Share(t) = {} /\ Share(t)' = {}
      BY <2>4, <3>1 DEF Share
    <3>3. Steady(t) => Steady(t)'
      BY <2>1, <3>1 DEF Steady
    <3> QED
      BY <2>2, <3>1, <3>2, <3>3 DEF Moved
  <2> QED
    BY <2>3, <2>4
<1>3. CASE Released(t)
  <2>1. /\ UNCHANGED holdVars /\ life' = life
        /\ leaving[t] = "releasing" /\ ~registered'[t]
    BY <1>3 DEF Released
  <2>2. \A k \in Calls : call[k].of # t
    BY <2>1 DEF Overlapping
  <2>3. Steady(t)'
    BY <2>1, <2>2 DEF Steady
  <2>4. RoomsOK(t) => RoomsOK(t)'
    BY <1>0, <2>1 DEF RoomsOK, Resting, RoomsDuring, RoomsOf, Matched
  <2>5. Share(t) = {} /\ Share(t)' = {}
    BY <2>1 DEF Share
  <2> QED
    BY <2>1, <2>3, <2>4, <2>5 DEF Moved
<1> QED
  BY <1>1, <1>2, <1>3 DEF SessionStep

LEMMA BeginStepHolds ==
    ASSUME Shapes, NEW k \in Calls, NEW t \in Sockets, BeginStep(k, t),
           ~Overlapping(t), ~Overlapping(t)'
    PROVE  /\ Steady(t)'
           /\ RoomsOK(t) => RoomsOK(t)'
           /\ CountedFor(t) => Moved(t)
<1>1. call[k] = Idle
  BY BeginShape
<1>2. PICK c \in Pending : c.of = t /\ CallBecomes(k, c)
  BY BeginShape
<1>3. /\ \A j \in Calls \ {k} : call[j].of # t /\ call'[j].of # t
      /\ call'[k] = c /\ leaving[t] \in {"no", "early"}
      /\ Owed(call, t) = OwedBy(call[k]) /\ Due(call, t) = DueBy(call[k])
      /\ Owed(call', t) = OwedBy(c) /\ Due(call', t) = DueBy(c)
  BY <1>1, <1>2, PendingIs, OneAtATime
<1>4. Owed(call, t) = {} /\ Due(call, t) = {} /\ Resting(t) /\ call[k].of # t
  BY <1>1, <1>3, IdleIs DEF OwedBy, DueBy, Resting
<1>5. UNCHANGED <<instruments, roomMembers, misplaced, registered, life, leaving>>
  BY <1>2 DEF BeginStep, Requested, UnsubscribeAll, CallBecomes
<1>6. Share(t) = IF registered[t] THEN instruments[t] ELSE {}
  BY <1>3, <1>4 DEF Share
<1>7. RoomsOK(t) /\ t \notin Native /\ life[t] \in {"none", "open"} => Matched(t)
  BY <1>4 DEF RoomsOK
<1>8. RoomsOf(t)' = RoomsOf(t) /\ misplaced'[t] = misplaced[t] /\ Matched(t)' = Matched(t)
  BY <1>5 DEF RoomsOf, Matched
<1>9. ASSUME NEW kind \in {"subscribe", "unsubscribe"}, NEW ids \in SUBSET Instruments,
             Requested(k, t, kind, ids)
      PROVE  /\ c.stage \in {"asked", "found"} /\ c.kind = kind
             /\ c.stage # "asked" => registered[t]
             /\ interest' = interest
  BY <1>3, <1>9 DEF Requested, Ask, Shapes, TypeOK
<1>10. ASSUME UnsubscribeAll(k, t)
       PROVE  /\ c.stage = "leaving" /\ c.kind = "unsubscribe_all" /\ c.ids = instruments[t]
              /\ registered[t] /\ interest' = Less(instruments[t])
  BY <1>3, <1>10 DEF UnsubscribeAll, Ask, Shapes, TypeOK
<1>11. Steady(t)'
  BY <1>3, <1>5, <1>9, <1>10 DEF Steady, BeginStep
<1>12. RoomsOK(t) => RoomsOK(t)'
  BY <1>2, <1>3, <1>5, <1>7, <1>8, <1>9, <1>10 DEF RoomsOK, RoomsDuring, Resting, Matched, BeginStep
<1>13. CASE UnsubscribeAll(k, t)
  <2>1. Share(t)' = {}
    BY <1>3, <1>5, <1>10, <1>13 DEF Share, OwedBy, DueBy
  <2> QED
    BY <1>6, <1>10, <1>11, <1>12, <1>13, <2>1 DEF Moved, CountedFor, Less
<1>14. CASE ~UnsubscribeAll(k, t)
  <2>1. OwedBy(c) = {} /\ DueBy(c) = {} /\ interest' = interest
    BY <1>9, <1>14 DEF OwedBy, DueBy, BeginStep
  <2>2. Share(t)' = Share(t)
    BY <1>3, <1>4, <1>5, <2>1 DEF Share
  <2> QED
    BY <1>11, <1>12, <2>1, <2>2 DEF Moved
<1> QED
  BY <1>13, <1>14


LEMMA RoomsMove ==
    ASSUME TypeOK, NEW t \in Sockets, NEW is \in SUBSET Instruments
    PROVE  /\ roomMembers' = roomMembers => RoomsOf(t)' = RoomsOf(t)
           /\ roomMembers' = JoinRooms(t, is) => RoomsOf(t)' = RoomsOf(t) \cup is
           /\ roomMembers' = LeaveRooms(t, is) => RoomsOf(t)' = RoomsOf(t) \ is
BY DEF TypeOK, RoomsOf, JoinRooms, LeaveRooms

LEMMA CallStepHolds ==
    ASSUME Shapes, NEW k \in Calls, CallStep(k), NEW t \in Sockets, call[k].of = t,
           ~Overlapping(t), ~Overlapping(t)', Steady(t)
    PROVE  /\ Steady(t)'
           /\ RoomsOK(t) => RoomsOK(t)'
           /\ CountedFor(t) /\ ~repeated' => Moved(t)
<1> DEFINE e == call[k]
           Goal == Steady(t)' /\ (RoomsOK(t) => RoomsOK(t)') /\ (CountedFor(t) /\ ~repeated' => Moved(t))
           open == t \notin Native /\ life[t] \in {"none", "open"}
<1>1. /\ e \in Pending /\ e # Idle
      /\ e.ids \in SUBSET Instruments /\ e.seen \in SUBSET Instruments
      /\ instruments \in [Sockets -> SUBSET Instruments] /\ interest \in [Instruments -> Nat]
      /\ call \in [Calls -> Pending \cup {Idle}] /\ TypeOK
      /\ misplaced \in [Sockets -> SUBSET Instruments]
  BY CallShape, PendingIs DEF Shapes, TypeOK
<1>2. PICK c \in Pending \cup {Idle} : (c = Idle \/ c.of = t) /\ CallBecomes(k, c)
  BY CallShape
<1>3. /\ \A j \in Calls \ {k} : call[j].of # t /\ call'[j].of # t
      /\ call'[k] = c /\ leaving[t] \in {"no", "early"}
      /\ Owed(call, t) = OwedBy(e) /\ Due(call, t) = DueBy(e)
      /\ Owed(call', t) = OwedBy(c) /\ Due(call', t) = DueBy(c)
  BY <1>1, <1>2, OneAtATime
<1>4. UNCHANGED <<life, leaving, registered>>
  BY <1>2 DEF CallBecomes
<1>5. /\ Share(t) = IF registered[t] THEN (instruments[t] \cup OwedBy(e)) \ DueBy(e) ELSE {}
      /\ Share(t)' = IF registered[t] THEN (instruments'[t] \cup OwedBy(c)) \ DueBy(c) ELSE {}
  BY <1>3, <1>4 DEF Share
<1>6. RoomsOK(t) /\ open => RoomsDuring(e, t)
  BY DEF RoomsOK
<1>7. e.stage # "asked" =>
        /\ registered[t]
        /\ e.stage = "placing" => e.seen \subseteq instruments[t]
        /\ e.kind = "unsubscribe_all" => instruments[t] \subseteq e.ids
        /\ e.kind = "unsubscribe" /\ e.stage = "leaving" => instruments[t] \cap e.ids = {}
  BY DEF Steady
\* The handler ends.
<1>8. ASSUME c = Idle, RoomsOK(t) /\ open => Matched(t)'
      PROVE  Steady(t)' /\ (RoomsOK(t) => RoomsOK(t)')
  <2>1. \A j \in Calls : call'[j].of # t
    BY <1>3, <1>8, IdleIs
  <2>2. Steady(t)'
    BY <2>1 DEF Steady
  <2>3. RoomsOK(t) => RoomsOK(t)'
    BY <1>4, <1>8, <2>1 DEF RoomsOK
  <2> QED
    BY <2>2, <2>3
<1>9. OwedBy(Idle) = {} /\ DueBy(Idle) = {}
  BY IdleIs DEF OwedBy, DueBy
\* The handler goes on.
<1>10. ASSUME c # Idle, RoomsOK(t) /\ open => RoomsDuring(c, t)'
       PROVE  RoomsOK(t) => RoomsOK(t)'
  <2>1. call'[k].of = t /\ ~Resting(t)'
    BY <1>2, <1>3, <1>10 DEF Resting
  <2> QED
    BY <1>3, <1>4, <1>10, <2>1 DEF RoomsOK
<1>11. ASSUME GivesUp(k), UNCHANGED misplaced PROVE Goal
  <2>1. /\ c = Idle /\ UNCHANGED <<roomMembers, interest, instruments, misplaced>>
        /\ e.kind \in {"subscribe", "unsubscribe"} /\ e.stage \in {"asked", "found"}
    BY <1>1, <1>3, <1>11 DEF GivesUp, Ends
  <2>2. RoomsOK(t) /\ open => Matched(t)'
    BY <1>6, <2>1 DEF RoomsDuring, RoomsOf, Matched
  <2>3. Share(t)' = Share(t)
    BY <1>5, <1>9, <2>1 DEF OwedBy, DueBy
  <2> QED
    BY <1>8, <2>1, <2>2, <2>3 DEF Moved
<1>12. ASSUME SubscribeFinds(k), UNCHANGED misplaced PROVE Goal
  <2>1. /\ c = [e EXCEPT !.stage = "found"]
        /\ UNCHANGED <<roomMembers, interest, instruments, misplaced>>
        /\ e.kind = "subscribe" /\ e.stage = "asked" /\ registered[t]
    BY <1>1, <1>3, <1>12 DEF SubscribeFinds
  <2>2. c.kind = "subscribe" /\ c.stage = "found" /\ c # Idle
    BY <1>1, <2>1, IdleIs DEF Pending
  <2>3. RoomsOK(t) /\ open => RoomsDuring(c, t)'
    BY <1>6, <2>1, <2>2 DEF RoomsDuring, RoomsOf, Matched
  <2>4. Share(t)' = Share(t)
    BY <1>5, <2>1, <2>2 DEF OwedBy, DueBy
  <2>5. Steady(t)'
    BY <1>3, <1>4, <2>1, <2>2 DEF Steady
  <2> QED
    BY <1>10, <2>1, <2>2, <2>3, <2>4, <2>5 DEF Moved
<1>13. ASSUME NEW twice, SubscribePlaces(k, twice), ~repeated' => twice = {} PROVE Goal
  <2> DEFINE fresh == e.ids \ instruments[t]
  <2>1. /\ e.kind = "subscribe" /\ e.stage = "found" /\ registered[t]
        /\ instruments'[t] = instruments[t] \cup e.ids /\ UNCHANGED <<roomMembers, misplaced>>
    BY <1>1, <1>7, <1>13 DEF SubscribePlaces
  <2>2. Share(t) = instruments[t]
    BY <1>5, <2>1 DEF OwedBy, DueBy
  <2>3. CASE t \in Native
    <3>1. c = Idle /\ interest' = More(fresh, twice)
      BY <1>1, <1>3, <1>13, <2>3 DEF SubscribePlaces, Ends
    <3>2. Share(t)' = instruments[t] \cup e.ids
      BY <1>5, <1>9, <2>1, <3>1
    <3> QED
      BY <1>1, <1>8, <1>13, <2>2, <2>3, <3>1, <3>2 DEF Moved, More
  <2>4. CASE t \notin Native
    <3>1. c = [e EXCEPT !.stage = "placing", !.seen = fresh] /\ interest' = interest
      BY <1>1, <1>3, <1>13, <2>4 DEF SubscribePlaces
    <3>2. /\ c.kind = "subscribe" /\ c.stage = "placing" /\ c.seen = fresh /\ c.ids = e.ids
          /\ c # Idle
      BY <1>1, <2>1, <3>1, IdleIs DEF Pending
    <3>3. Share(t)' = instruments[t]
      BY <1>5, <2>1, <3>2 DEF OwedBy, DueBy
    <3>4. RoomsOK(t) /\ open => RoomsDuring(c, t)'
      BY <1>6, <2>1, <3>2 DEF RoomsDuring, RoomsOf, Matched
    <3>5. Steady(t)'
      BY <1>3, <1>4, <2>1, <3>2 DEF Steady
    <3> QED
      BY <1>10, <2>2, <3>1, <3>2, <3>3, <3>4, <3>5 DEF Moved
  <2> QED
    BY <2>3, <2>4
<1>14. ASSUME NEW twice, SubscribeJoins(k, twice), ~repeated' => twice = {} PROVE Goal
  <2>1. /\ e.stage = "placing" /\ e.kind = "subscribe"
        /\ c = Idle /\ instruments' = instruments /\ interest' = More(e.seen, twice)
    BY <1>1, <1>3, <1>14 DEF SubscribeJoins, Ends, Shapes, CallShapes
  <2>2. PICK rooms \in RoomsFor(e.ids) :
          roomMembers' = JoinRooms(t, rooms) /\ Confuse(t, e.ids, rooms)
    BY <1>14 DEF SubscribeJoins
  <2>3. /\ rooms \in SUBSET Instruments
        /\ misplaced'[t] = misplaced[t] \cup (e.ids \ rooms) \cup (rooms \ e.ids)
    BY <1>1, <2>2, NamesakesAssumption DEF RoomsFor, Confuse
  <2>4. RoomsOf(t)' = RoomsOf(t) \cup rooms
    BY <1>1, <2>2, <2>3, RoomsMove
  <2>5. RoomsOK(t) /\ open => Matched(t)'
    BY <1>6, <2>1, <2>3, <2>4 DEF RoomsDuring, Matched
  <2>6. Share(t) = instruments[t] \ e.seen /\ Share(t)' = instruments[t]
    BY <1>5, <1>7, <1>9, <2>1 DEF OwedBy, DueBy
  <2> QED
    BY <1>1, <1>7, <1>8, <1>14, <2>1, <2>5, <2>6 DEF Moved, More
<1>15. ASSUME UnsubscribeNative(k), UNCHANGED misplaced PROVE Goal
  <2>1. /\ e.kind = "unsubscribe" /\ e.stage = "found" /\ t \in Native /\ c = Idle
        /\ instruments'[t] = instruments[t] \ e.ids
        /\ interest' = Less(instruments[t] \cap e.ids)
    BY <1>1, <1>3, <1>15 DEF UnsubscribeNative, Ends, Shapes, CallShapes
  <2>2. Share(t) = instruments[t] /\ Share(t)' = instruments[t] \ e.ids
    BY <1>5, <1>7, <1>9, <2>1 DEF OwedBy, DueBy
  <2> QED
    BY <1>1, <1>8, <2>1, <2>2 DEF Moved, Less, CountedFor
<1>16. ASSUME Unsubscribe(k) PROVE Goal
  <2>1. /\ e.kind = "unsubscribe" /\ e.stage = "asked" /\ registered[t]
        /\ instruments'[t] = instruments[t] \ e.ids
    BY <1>1, <1>16 DEF Unsubscribe
  <2>2. Share(t) = instruments[t]
    BY <1>5, <2>1 DEF OwedBy, DueBy
  <2>3. CASE StillSubscribed(e.ids, instruments')
    <3>1. /\ roomMembers' = LeaveRooms(t, e.ids) /\ Mend(t, e.ids)
          /\ interest' = Less(instruments[t] \cap e.ids) /\ Ends(k)
      BY <1>16, <2>3, Zenon DEF Unsubscribe
    <3>2. c = Idle
      BY <1>1, <1>3, <3>1 DEF Ends
    <3>3. Share(t)' = instruments[t] \ e.ids
      BY <1>5, <1>9, <2>1, <3>2
    <3>4. RoomsOK(t) /\ open => Matched(t)'
      <4>1. RoomsOf(t)' = RoomsOf(t) \ e.ids /\ misplaced'[t] = misplaced[t] \ e.ids
        BY <1>1, <3>1, RoomsMove DEF Mend
      <4> QED
        BY <1>6, <2>1, <4>1 DEF RoomsDuring, Matched
    <3> QED
      BY <1>1, <1>8, <2>2, <3>1, <3>2, <3>3, <3>4 DEF Moved, Less, CountedFor
  <2>4. CASE ~StillSubscribed(e.ids, instruments')
    <3>1. /\ UNCHANGED <<interest, roomMembers, misplaced>>
          /\ call' = [call EXCEPT ![k].stage = "leaving", ![k].seen = instruments[t]]
      BY <1>16, <2>4, Zenon DEF Unsubscribe
    <3>2. c = [e EXCEPT !.stage = "leaving", !.seen = instruments[t]]
      BY <1>1, <1>3, <3>1
    <3>3. /\ c.kind = "unsubscribe" /\ c.stage = "leaving" /\ c.seen = instruments[t]
          /\ c.ids = e.ids /\ c # Idle
      BY <1>1, <2>1, <3>2, IdleIs DEF Pending
    <3>4. Share(t)' = instruments[t]
      BY <1>5, <2>1, <3>3 DEF OwedBy, DueBy
    <3>5. RoomsOK(t) /\ open => RoomsDuring(c, t)'
      BY <1>6, <2>1, <3>1, <3>3 DEF RoomsDuring, RoomsOf, Matched
    <3>6. Steady(t)'
      BY <1>3, <1>4, <2>1, <3>3 DEF Steady
    <3> QED
      BY <1>10, <2>2, <3>1, <3>3, <3>4, <3>5, <3>6 DEF Moved
  <2> QED
    BY <2>3, <2>4
<1>17. ASSUME UnsubscribeEnds(k) PROVE Goal
  <2>1. /\ e.kind = "unsubscribe" /\ e.stage = "leaving" /\ c = Idle /\ instruments' = instruments
        /\ roomMembers' = LeaveRooms(t, e.ids) /\ Mend(t, e.ids)
        /\ interest' = Less(e.seen \ instruments[t])
    BY <1>1, <1>3, <1>17 DEF UnsubscribeEnds, Ends
  <2>2. RoomsOK(t) /\ open => Matched(t)'
    <3>1. RoomsOf(t)' = RoomsOf(t) \ e.ids /\ misplaced'[t] = misplaced[t] \ e.ids
      BY <1>1, <2>1, RoomsMove DEF Mend
    <3> QED
      BY <1>6, <1>7, <2>1, <3>1 DEF RoomsDuring, Matched
  <2>3. Share(t) = instruments[t] \cup e.seen /\ Share(t)' = instruments[t]
    BY <1>5, <1>7, <1>9, <2>1 DEF OwedBy, DueBy
  <2> QED
    BY <1>1, <1>8, <2>1, <2>2, <2>3 DEF Moved, Less, CountedFor
<1>18. ASSUME UnsubscribeAllEnds(k) PROVE Goal
  <2>1. /\ e.kind = "unsubscribe_all" /\ e.stage = "leaving" /\ c = Idle /\ instruments'[t] = {}
        /\ roomMembers' = LeaveRooms(t, e.ids) /\ Mend(t, e.ids) /\ interest' = interest
    BY <1>1, <1>3, <1>18 DEF UnsubscribeAllEnds, Ends, Shapes, CallShapes
  <2>2. RoomsOK(t) /\ open => Matched(t)'
    <3>1. RoomsOf(t)' = RoomsOf(t) \ e.ids /\ misplaced'[t] = misplaced[t] \ e.ids
      BY <1>1, <2>1, RoomsMove DEF Mend
    <3> QED
      BY <1>6, <2>1, <3>1 DEF RoomsDuring, Matched
  <2>3. Share(t) = {} /\ Share(t)' = {}
    BY <1>5, <1>7, <1>9, <2>1 DEF OwedBy, DueBy
  <2> QED
    BY <1>8, <2>1, <2>2, <2>3 DEF Moved
<1> HIDE DEF Goal
<1> QED
  <2>1. Goal
    BY <1>11, <1>12, <1>13, <1>14, <1>15, <1>16, <1>17, <1>18 DEF CallStep
  <2> QED
    BY <2>1 DEF Goal


-----------------------------------------------------------------------------
(* The rooms.                                                              *)

LEMMA KeptByExpiry ==
    ASSUME KeyExpires, UNCHANGED misplaced, NEW s \in Sockets
    PROVE  Kept(s) /\ interest' = interest
BY DEF KeyExpires, connVars, holdVars, Kept, RoomsOf

LEMMA SessionHolds ==
    ASSUME Shapes, Undisturbed,
           ((Admission \/ Departure) /\ UNCHANGED <<repeated, misplaced>>) \/ Subscriptions,
           NEW s \in Sockets \ overlapped, ~Overlapping(s)'
    PROVE  Steady(s)' /\ (RoomsOK(s) => RoomsOK(s)')
<1>1. ~Overlapping(s) /\ Steady(s)
  BY DEF Undisturbed
<1>2. Kept(s) => Steady(s)' /\ (RoomsOK(s) => RoomsOK(s)')
  BY <1>1, KeptHolds
<1>3. ASSUME NEW t \in Sockets, SessionStep(t) PROVE Steady(s)' /\ (RoomsOK(s) => RoomsOK(s)')
  <2>1. CASE s = t
    BY <1>1, <1>3, <2>1, SessionStepHolds
  <2>2. CASE s # t
    BY <1>2, <1>3, <2>2, KeptBySession
  <2> QED
    BY <2>1, <2>2
<1>4. ASSUME NEW k \in Calls, NEW t \in Sockets, BeginStep(k, t)
      PROVE  Steady(s)' /\ (RoomsOK(s) => RoomsOK(s)')
  <2>1. CASE s = t
    BY <1>1, <1>4, <2>1, BeginStepHolds
  <2>2. CASE s # t
    BY <1>2, <1>4, <2>2, KeptByBegin
  <2> QED
    BY <2>1, <2>2
<1>5. ASSUME NEW k \in Calls, CallStep(k) PROVE Steady(s)' /\ (RoomsOK(s) => RoomsOK(s)')
  <2>1. CASE s = call[k].of
    BY <1>1, <1>5, <2>1, CallStepHolds
  <2>2. CASE s # call[k].of
    BY <1>2, <1>5, <2>2, KeptByCall
  <2> QED
    BY <2>1, <2>2
<1> QED
  BY <1>2, <1>3, <1>4, <1>5, KeptByExpiry, NextSplit

LEMMA HoldInit == Init => Undisturbed /\ RoomsInv
<1> SUFFICES ASSUME Init PROVE Undisturbed /\ RoomsInv
    OBVIOUS
<1>1. \A k \in Calls : \A s \in Sockets : call[k].of # s
  BY IdleIs DEF Init
<1>2. Undisturbed
  BY <1>1 DEF Init, Undisturbed, Overlapping, Steady
<1>3. RoomsInv
  BY <1>1 DEF Init, RoomsInv, RoomsOK, RoomsOf, Matched
<1> QED
  BY <1>2, <1>3

LEMMA HoldNext == Shapes /\ Undisturbed /\ RoomsInv /\ [Next]_vars => Undisturbed' /\ RoomsInv'
<1> SUFFICES ASSUME Shapes, Undisturbed, RoomsInv, [Next]_vars PROVE Undisturbed' /\ RoomsInv'
    OBVIOUS
<1>1. CASE /\ ((Admission \/ Departure) /\ UNCHANGED <<repeated, misplaced>>) \/ Subscriptions
           /\ overlapped' = overlapped \cup {s \in Sockets : Overlapping(s)'}
  <2>1. ASSUME NEW s \in Sockets \ overlapped'
        PROVE  ~Overlapping(s)' /\ Steady(s)' /\ RoomsOK(s)'
    <3>1. s \in Sockets \ overlapped /\ ~Overlapping(s)'
      BY <1>1, <2>1
    <3> QED
      BY <1>1, <3>1, SessionHolds DEF RoomsInv
  <2> QED
    BY <2>1 DEF Undisturbed, RoomsInv
<1>2. CASE Crash
  <2>1. \A k \in Calls : \A s \in Sockets : call'[k].of # s
    BY <1>2, IdleIs DEF Crash
  <2>2. Undisturbed'
    BY <2>1 DEF Undisturbed, Overlapping, Steady
  <2>3. RoomsInv'
    BY <1>2, <2>1 DEF Crash, RoomsInv, RoomsOK, RoomsOf, Matched
  <2> QED
    BY <2>2, <2>3
<1>3. CASE UNCHANGED vars
  BY <1>3 DEF vars, connVars, redisVars, holdVars, Undisturbed, Overlapping, Steady, RoomsInv,
     RoomsOK, RoomsDuring, RoomsOf, Matched, Resting
<1> QED
  BY <1>1, <1>2, <1>3 DEF Next

\* Only ids whose numbers denote more than one can be misplaced.
MisplacedInv == \A s \in Sockets : \A i \in misplaced[s] : Ambiguous(i)

LEMMA MisplacedNext == Shapes /\ MisplacedInv /\ [Next]_vars => MisplacedInv'
<1> SUFFICES ASSUME Shapes, MisplacedInv, [Next]_vars PROVE MisplacedInv'
    OBVIOUS
<1>t. misplaced \in [Sockets -> SUBSET Instruments]
  BY DEF Shapes, TypeOK
<1>1. ASSUME NEW s, NEW ids, Mend(s, ids) PROVE MisplacedInv'
  BY <1>t, <1>1 DEF Mend, MisplacedInv, Ambiguous
<1>2. ASSUME NEW k \in Calls, NEW twice, SubscribeJoins(k, twice) PROVE MisplacedInv'
  <2>1. call[k].ids \in SUBSET Instruments
    BY <1>2, IdleIs, PendingIs DEF SubscribeJoins, Shapes, TypeOK
  <2>2. PICK rooms \in RoomsFor(call[k].ids) : Confuse(call[k].of, call[k].ids, rooms)
    BY <1>2 DEF SubscribeJoins
  <2>3. rooms \subseteq Instruments
    BY <2>1, NamesakesAssumption DEF RoomsFor
  <2>4. ASSUME NEW i \in call[k].ids \ rooms PROVE Ambiguous(i)
    BY <2>1, <2>3, <2>4 DEF RoomsFor, Ambiguous
  <2>5. ASSUME NEW i \in rooms \ call[k].ids PROVE Ambiguous(i)
    BY <2>1, <2>3, <2>5 DEF RoomsFor, Ambiguous
  <2> QED
    BY <1>t, <2>2, <2>4, <2>5 DEF Confuse, MisplacedInv
<1>3. ASSUME NEW k \in Calls, Unsubscribe(k) PROVE MisplacedInv'
  <2>1. Mend(call[k].of, call[k].ids) \/ UNCHANGED misplaced
    BY <1>3, Zenon DEF Unsubscribe
  <2> QED
    BY <1>1, <2>1 DEF MisplacedInv
<1>4. ASSUME NEW k \in Calls, UnsubscribeEnds(k) \/ UnsubscribeAllEnds(k) PROVE MisplacedInv'
  BY <1>1, <1>4 DEF UnsubscribeEnds, UnsubscribeAllEnds
<1>5. ASSUME UNCHANGED misplaced PROVE MisplacedInv'
  BY <1>5 DEF MisplacedInv
<1>6. CASE Subscriptions
  BY <1>2, <1>3, <1>4, <1>5, <1>6 DEF Subscriptions, SubscribePlaces
<1>7. CASE Crash
  BY <1>7 DEF Crash, MisplacedInv
<1> QED
  BY <1>5, <1>6, <1>7 DEF Next, vars

\* An open session of the gateway with no handler on its way is in the room of an id exactly
\* if it holds it, whatever the numbers denote, if no two of its handlers ever overlapped;
\* except ids of ambiguous numbers, from the subscribe that took the one for the other until
\* they are unsubscribed.
THEOREM SessionsRoomsMatch == Spec => []RoomsMatch
<1>1. Init => MisplacedInv
  BY DEF Init, MisplacedInv
<1>2. Shapes /\ RoomsInv /\ MisplacedInv => RoomsMatch
  BY DEF Shapes, TypeOK, RoomsInv, RoomsOK, RoomsMatch, RoomsOf, Matched, MisplacedInv
<1> QED
  BY <1>1, <1>2, ShapesInit, ShapesNext, HoldInit, HoldNext, MisplacedNext, PTL DEF Spec

-----------------------------------------------------------------------------
(* The interest counts.                                                    *)

LEMMA InterestMoves ==
    ASSUME Shapes, NEW t \in Sockets, Moved(t), \A s \in Sockets \ {t} : Share(s)' = Share(s),
           NEW i \in Instruments, interest[i] = Cardinality(Holders(i))
    PROVE  interest'[i] = Cardinality(Holders(i)')
<1>1. IsFiniteSet(Holders(i)) /\ Cardinality(Holders(i)) \in Nat
  BY SocketsAssumption, FS_Subset, FS_CardinalityType DEF Holders
<1>2. CASE i \in Share(t)' /\ i \notin Share(t)
  <2>1. t \notin Holders(i) /\ Holders(i)' = Holders(i) \cup {t}
    BY <1>2 DEF Holders
  <2>2. Cardinality(Holders(i) \cup {t}) = Cardinality(Holders(i)) + 1
    BY <1>1, <2>1, FS_AddElement
  <2> QED
    BY <1>2, <2>1, <2>2 DEF Moved
<1>3. CASE i \notin Share(t)' /\ i \in Share(t)
  <2>1. t \in Holders(i) /\ Holders(i)' = Holders(i) \ {t}
    BY <1>3 DEF Holders
  <2>2. Cardinality(Holders(i) \ {t}) = Cardinality(Holders(i)) - 1
    BY <1>1, <2>1, FS_RemoveElement
  <2> QED
    BY <1>3, <2>1, <2>2 DEF Moved
<1>4. CASE i \in Share(t)' <=> i \in Share(t)
  <2>1. Holders(i)' = Holders(i)
    BY <1>4 DEF Holders
  <2> QED
    BY <1>4, <2>1 DEF Moved
<1> QED
  BY <1>2, <1>3, <1>4

LEMMA InterestInit == Init => InterestInv
<1> SUFFICES ASSUME Init PROVE InterestInv
    OBVIOUS
<1>1. \A i \in Instruments : Holders(i) = {}
  BY DEF Init, Holders, Share
<1> QED
  BY <1>1, FS_EmptySet DEF Init, InterestInv

LEMMA InterestNext == Shapes /\ Undisturbed /\ InterestInv /\ [Next]_vars => InterestInv'
<1> SUFFICES ASSUME Shapes, Undisturbed, InterestInv, [Next]_vars PROVE InterestInv'
    OBVIOUS
<1>1. ASSUME ((Admission \/ Departure) /\ UNCHANGED <<repeated, misplaced>>) \/ Subscriptions,
             overlapped' = overlapped \cup {s \in Sockets : Overlapping(s)'},
             overlapped' = {}, ~repeated',
             NEW i \in Instruments
      PROVE  interest'[i] = Cardinality(Holders(i)')
  <2>1. overlapped = {} /\ \A s \in Sockets : ~Overlapping(s)'
    BY <1>1
  <2>0. ~repeated
    <3>1. repeated' = repeated \/ \E twice : repeated' = (repeated \/ twice # {})
      BY <1>1, Zenon DEF Subscriptions
    <3> QED
      BY <1>1, <3>1
  <2>2. \A s \in Sockets : ~Overlapping(s) /\ Steady(s)
    BY <2>1 DEF Undisturbed
  <2>3. \A j \in Instruments : interest[j] = Cardinality(Holders(j))
    BY <2>0, <2>1 DEF InterestInv
  <2>4. ASSUME NEW t \in Sockets PROVE CountedFor(t)
    <3>1. Share(t) \subseteq Instruments
      <4>1. ASSUME NEW k \in Calls PROVE OwedBy(call[k]) \subseteq Instruments
        <5>1. call[k] \in Pending \/ call[k] = Idle
          BY DEF Shapes, TypeOK
        <5> QED
          BY <5>1, IdleIs, PendingIs DEF OwedBy
      <4>2. Owed(call, t) \subseteq Instruments
        BY <4>1 DEF Owed
      <4> QED
        BY <4>2 DEF Share, Shapes, TypeOK
    <3>2. ASSUME NEW j \in Share(t) PROVE interest[j] > 0
      <4>1. t \in Holders(j) /\ j \in Instruments
        BY <3>1 DEF Holders
      <4>2. IsFiniteSet(Holders(j))
        BY SocketsAssumption, FS_Subset DEF Holders
      <4>3. Cardinality(Holders(j)) \in Nat /\ Cardinality(Holders(j)) # 0
        BY <4>1, <4>2, FS_CardinalityType, FS_EmptySet
      <4> QED
        BY <2>3, <4>1, <4>3
    <3> QED
      BY <3>2 DEF CountedFor
  <2>5. ASSUME NEW t \in Sockets, Moved(t), \A s \in Sockets \ {t} : Kept(s)
        PROVE  interest'[i] = Cardinality(Holders(i)')
    BY <2>3, <2>5, KeptHolds, InterestMoves
  <2>6. ASSUME NEW t \in Sockets, SessionStep(t) PROVE interest'[i] = Cardinality(Holders(i)')
    BY <2>1, <2>2, <2>4, <2>5, <2>6, SessionStepHolds, KeptBySession
  <2>7. ASSUME NEW k \in Calls, NEW t \in Sockets, BeginStep(k, t)
        PROVE  interest'[i] = Cardinality(Holders(i)')
    BY <2>1, <2>2, <2>4, <2>5, <2>7, BeginStepHolds, KeptByBegin
  <2>8. ASSUME NEW k \in Calls, CallStep(k) PROVE interest'[i] = Cardinality(Holders(i)')
    <3>1. call[k].of \in Sockets
      BY <2>8, CallShape, PendingIs
    <3>2. PICK t \in Sockets : call[k].of = t
      BY <3>1
    <3> QED
      BY <1>1, <2>1, <2>2, <2>4, <2>5, <2>8, <3>2, CallStepHolds, KeptByCall
  <2>9. CASE KeyExpires /\ UNCHANGED misplaced
    <3>1. \A s \in Sockets : Share(s)' = Share(s)
      BY <2>9, KeptByExpiry, KeptHolds
    <3>2. Holders(i)' = Holders(i)
      BY <3>1 DEF Holders
    <3>3. interest' = interest
      BY <2>9 DEF KeyExpires, holdVars
    <3> QED
      BY <2>3, <3>2, <3>3
  <2> QED
    BY <1>1, <2>6, <2>7, <2>8, <2>9, NextSplit
<1>2. CASE Crash
  <2>1. \A i \in Instruments : Holders(i)' = {} /\ interest'[i] = 0
    BY <1>2 DEF Crash, Holders, Share
  <2> QED
    BY <2>1, FS_EmptySet DEF InterestInv
<1>3. CASE UNCHANGED vars
  BY <1>3 DEF vars, connVars, redisVars, holdVars, InterestInv, Holders, Share, Owed, Due
<1> QED
  <2>1. CASE Next
    BY <1>1, <1>2, <2>1 DEF Next, InterestInv
  <2> QED
    BY <1>3, <2>1

\* With nothing pending, an instrument counts as many sessions as hold it, if no two
\* handlers of one session ever overlapped and no request named it twice.
THEOREM SessionsInterestExact == Spec => []InterestIsExact
<1>1. Shapes /\ InterestInv => InterestIsExact
  <2> SUFFICES ASSUME Shapes, InterestInv, Quiet, overlapped = {}, ~repeated, NEW i \in Instruments
               PROVE  interest[i] = Cardinality({s \in Sockets : registered[s] /\ i \in instruments[s]})
    BY DEF InterestIsExact
  <2>1. ASSUME NEW s \in Sockets
        PROVE  Share(s) = IF registered[s] THEN instruments[s] ELSE {}
    <3>1. (\A k \in Calls : call[k].of # s) /\ leaving[s] # "releasing"
      BY DEF Quiet, Resting
    <3> QED
      BY <3>1, NoCall DEF Share
  <2>2. Holders(i) = {s \in Sockets : registered[s] /\ i \in instruments[s]}
    BY <2>1 DEF Holders
  <2> QED
    BY <2>2 DEF InterestInv
<1> QED
  BY <1>1, ShapesInit, ShapesNext, HoldInit, HoldNext, InterestInit, InterestNext, PTL DEF Spec

=============================================================================
