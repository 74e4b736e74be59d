---------------------------- MODULE GatewaySessions ----------------------------
(***************************************************************************)
(* GatewaySessions: the sessions of both WebSocket gateways of one process  *)
(* under one API key: admission against connection_limit, what a session    *)
(* holds, the interest counts both gateways share, the rooms of the         *)
(* Socket.IO gateway, and the end of a session.  A handler runs from await  *)
(* to await; whatever else is pending may run in between.                   *)
(*                                                                         *)
(* A call names the ids that it resolved to when it changes the entry, after *)
(* entitlements and ws_max_instruments; the rooms of a subscribe are        *)
(* resolved once more, by number alone (Namesakes).                         *)
(*                                                                         *)
(* Left out: modes, the parsing of names, and the stream service, which is  *)
(* told at the awaits and is modelled in StreamBatching.  handleApiKeyUpdate *)
(* changes nothing here: it looks clients up in server.sockets.sockets, and *)
(* the server of a gateway with a namespace has no such map, so it throws.  *)
(***************************************************************************)
EXTENDS Integers, FiniteSets

CONSTANTS
    Sockets,       \* the connections there will be; one is used once
    Native,        \* those that come to NativeWsService, not to MarketDataGateway
    Instruments,   \* ids: of the registry, or a bare number that it does not know
    Namesakes,     \* what the number under which an id was asked for may denote by itself
    Limit,         \* connection_limit of the key
    Calls,         \* client events that can be pending: a bound of the model
    Flaky,         \* those at whose commands Redis may begin to fail: another bound
    MaxInterest,   \* what may be counted when a client asks for more: another
    Nobody

ASSUME SocketsAssumption == IsFiniteSet(Sockets) /\ Native \subseteq Sockets /\ Nobody \notin Sockets
ASSUME NamesakesAssumption ==
    Namesakes \in [Instruments -> SUBSET Instruments] /\ \A i \in Instruments : i \in Namesakes[i]
ASSUME LimitAssumption == Limit \in Nat \ {0} /\ MaxInterest \in Nat

VARIABLES
    life,          \* the transport: none yet, open, gone, or lost with the process
    conn,          \* where handleConnection is
    reply,         \* what INCR answered it, while it matters
    leaving,       \* where handleDisconnect is
    (* Redis: ws:connections:<key> *)
    connections,
    expiring,      \* the key has a time to live
    (* the process *)
    registered,    \* subscriptionRegistry, clientSubscriptions: who has an entry
    instruments,   \* of the entry; a handler that looked it up keeps it after its deletion
    interest,      \* refCount of MarketDataWsInterestService
    roomMembers,
    call,
    (* history *)
    expired,       \* the key ran out while it counted somebody
    silent,        \* Redis left a command of the limiter undone or unanswered
    repeated,      \* a request named one instrument twice, and it was counted twice
    overlapped,    \* sessions of which two handlers were pending at the same time
    misplaced      \* per session, the ids of which it got another room, and those it got instead

connVars == <<life, conn, reply, leaving>>
redisVars == <<connections, expiring, expired, silent>>
holdVars == <<instruments, interest, roomMembers, call>>
vars == <<connVars, redisVars, registered, holdVars, repeated, overlapped, misplaced>>

Kinds == {"subscribe", "unsubscribe", "unsubscribe_all"}
Idle == [kind |-> "none", of |-> Nobody, stage |-> "none", ids |-> {}, seen |-> {}]
Pending ==
    [kind : Kinds, of : Sockets, stage : {"asked", "found", "placing", "leaving"},
     ids : SUBSET Instruments, seen : SUBSET Instruments]

TypeOK ==
    /\ life \in [Sockets -> {"none", "open", "gone", "lost"}]
    /\ conn \in [Sockets -> {"none", "validating", "asking", "expiring", "admitted", "refused"}]
    /\ reply \in [Sockets -> Int]
    /\ leaving \in [Sockets -> {"no", "releasing", "untracking", "over", "early"}]
    /\ connections \in Int /\ expiring \in BOOLEAN
    /\ registered \in [Sockets -> BOOLEAN]
    /\ instruments \in [Sockets -> SUBSET Instruments]
    /\ interest \in [Instruments -> Nat]
    /\ roomMembers \in [Instruments -> SUBSET (Sockets \ Native)]
    /\ call \in [Calls -> Pending \cup {Idle}]
    /\ expired \in BOOLEAN /\ silent \in BOOLEAN /\ repeated \in BOOLEAN
    /\ overlapped \in SUBSET Sockets
    /\ misplaced \in [Sockets -> SUBSET Instruments]

Init ==
    /\ life = [s \in Sockets |-> "none"]
    /\ conn = [s \in Sockets |-> "none"]
    /\ reply = [s \in Sockets |-> 0]
    /\ leaving = [s \in Sockets |-> "no"]
    /\ connections = 0 /\ expiring = FALSE
    /\ registered = [s \in Sockets |-> FALSE]
    /\ instruments = [s \in Sockets |-> {}]
    /\ interest = [i \in Instruments |-> 0]
    /\ roomMembers = [i \in Instruments |-> {}]
    /\ call = [k \in Calls |-> Idle]
    /\ expired = FALSE /\ silent = FALSE /\ repeated = FALSE
    /\ overlapped = {}
    /\ misplaced = [s \in Sockets |-> {}]

-----------------------------------------------------------------------------
(* handleConnection.                                                       *)

Running(s) == life[s] \in {"open", "gone"}

ClientConnects(s) ==
    /\ life[s] = "none"
    /\ life' = [life EXCEPT ![s] = "open"]
    /\ conn' = [conn EXCEPT ![s] = "validating"]
    /\ UNCHANGED <<reply, leaving, redisVars, registered, holdVars>>

\* The server ends a connection it does not admit; handleDisconnect then finds no entry and
\* no apiKey on the client, and does nothing.
TurnAway(s) ==
    /\ conn' = [conn EXCEPT ![s] = "refused"]
    /\ reply' = [reply EXCEPT ![s] = 0]
    /\ life' = [life EXCEPT ![s] = "gone"]
    /\ leaving' = [leaving EXCEPT ![s] = "over"]

\* An unknown key, or one that is blocked for abuse.
Rejected(s) ==
    /\ Running(s) /\ conn[s] = "validating"
    /\ TurnAway(s)
    /\ UNCHANGED <<redisVars, registered, holdVars>>

\* A bound of the model, no more.
FailsOnlyAt(s) == s \notin Flaky => UNCHANGED silent

\* INCR; a Redis that does not answer, whether or not it counted, reads like 0.
Incr(s) ==
    /\ Running(s) /\ conn[s] = "validating"
    /\ conn' = [conn EXCEPT ![s] = "asking"]
    /\ \/ /\ connections' = connections + 1
          /\ reply' = [reply EXCEPT ![s] = connections + 1]
          /\ UNCHANGED silent
       \/ /\ connections' \in {connections, connections + 1}
          /\ reply' = [reply EXCEPT ![s] = 0]
          /\ silent' = TRUE
    /\ FailsOnlyAt(s)
    /\ UNCHANGED <<life, leaving, expiring, expired, registered, holdVars>>

\* Whoever was answered 1 sets the time to live, of an hour.
Expire(s) ==
    /\ Running(s) /\ conn[s] = "asking" /\ reply[s] = 1
    /\ conn' = [conn EXCEPT ![s] = "expiring"]
    /\ \/ expiring' = TRUE /\ UNCHANGED silent
       \/ UNCHANGED expiring /\ silent' = TRUE
    /\ FailsOnlyAt(s)
    /\ UNCHANGED <<life, reply, leaving, connections, expired, registered, holdVars>>

Judged(s) == conn[s] = "expiring" \/ (conn[s] = "asking" /\ reply[s] # 1)

\* faulty: one connection too many
ExceedsByOne(s) == reply[s] > Limit + 1
Exceeds(s) == reply[s] > Limit

\* A DECR that may be left undone.
Decr ==
    \/ connections' = connections - 1 /\ UNCHANGED silent
    \/ UNCHANGED connections /\ silent' = TRUE

\* Neither gateway asks whether the client is still there.
Admit(s) ==
    /\ Running(s) /\ Judged(s) /\ ~Exceeds(s)
    /\ conn' = [conn EXCEPT ![s] = "admitted"]
    /\ reply' = [reply EXCEPT ![s] = 0]
    /\ registered' = [registered EXCEPT ![s] = TRUE]
    /\ UNCHANGED <<life, leaving, redisVars, holdVars>>

\* faulty: a refused connection stays counted
RefuseCounted(s) ==
    /\ Running(s) /\ Judged(s) /\ Exceeds(s)
    /\ TurnAway(s)
    /\ UNCHANGED <<redisVars, registered, holdVars>>
Refuse(s) ==
    /\ Running(s) /\ Judged(s) /\ Exceeds(s)
    /\ TurnAway(s)
    /\ Decr /\ FailsOnlyAt(s)
    /\ UNCHANGED <<expiring, expired, registered, holdVars>>

KeyExpires ==
    /\ expiring
    /\ connections' = 0
    /\ expiring' = FALSE
    /\ expired' = (expired \/ connections # 0)
    /\ UNCHANGED <<connVars, silent, registered, holdVars>>

-----------------------------------------------------------------------------
(* Interest and rooms.                                                     *)

\* addInterest and removeInterest, of every instrument in a set.  A request may name an
\* instrument twice, by two of its names or in a native list, and addInterest is called for
\* each; the entry holds it once, and it is released once.
More(is, twice) ==
    [i \in Instruments |-> IF i \in twice THEN interest[i] + 2
                           ELSE IF i \in is THEN interest[i] + 1 ELSE interest[i]]
\* faulty: the count may go below zero
LessUnfloored(is) == [i \in Instruments |-> IF i \in is THEN interest[i] - 1 ELSE interest[i]]
Less(is) ==
    [i \in Instruments |-> IF i \in is /\ interest[i] > 0 THEN interest[i] - 1 ELSE interest[i]]

JoinRooms(s, is) ==
    [i \in Instruments |-> IF i \in is THEN roomMembers[i] \cup {s} ELSE roomMembers[i]]
LeaveRooms(s, is) ==
    [i \in Instruments |-> IF i \in is THEN roomMembers[i] \ {s} ELSE roomMembers[i]]

\* The rooms that a subscribe may join for the ids it holds.  The entry got its ids by
\* resolveUirForPair, for Vortex from the exchange and the number; the room is looked up by
\* the number alone, which the registry gives to the first exchange that has it, and with the
\* name of the provider read anew.  Ids that were not asked for by a number are not looked up.
RoomsFor(ids) ==
    {rooms \in SUBSET UNION {Namesakes[i] : i \in ids} :
        \A i \in ids : rooms \cap Namesakes[i] # {}}
Confuse(s, ids, rooms) ==
    misplaced' = [misplaced EXCEPT ![s] = @ \cup (ids \ rooms) \cup (rooms \ ids)]
Mend(s, ids) == misplaced' = [misplaced EXCEPT ![s] = @ \ ids]

-----------------------------------------------------------------------------
(* handleDisconnect.                                                       *)

\* Up to its first await.  The client of an admission that is still pending has neither an
\* entry nor an apiKey, so its count is never given back.
Leave(s) ==
    /\ life[s] = "open"
    /\ life' = [life EXCEPT ![s] = "gone"]
    /\ IF registered[s]
       THEN IF instruments[s] # {}
            THEN /\ interest' = Less(instruments[s])
                 /\ leaving' = [leaving EXCEPT ![s] = "releasing"]
                 /\ UNCHANGED registered
            ELSE /\ registered' = [registered EXCEPT ![s] = FALSE]
                 /\ leaving' = [leaving EXCEPT ![s] = "untracking"]
                 /\ UNCHANGED interest
       ELSE /\ leaving' = [leaving EXCEPT ![s] = "early"]
            /\ UNCHANGED <<registered, interest>>
    /\ UNCHANGED <<conn, reply, redisVars, instruments, roomMembers, call>>

\* faulty: the entry outlives its session when there was something to release
ReleasedOnly(s) ==
    /\ Running(s) /\ leaving[s] = "releasing"
    /\ leaving' = [leaving EXCEPT ![s] = "untracking"]
    /\ UNCHANGED <<life, conn, reply, redisVars, registered, holdVars>>
\* After unsubscribeFromInstruments.  The rooms are not left: Socket.IO has emptied
\* client.rooms before it tells of the disconnect.
Released(s) ==
    /\ Running(s) /\ leaving[s] = "releasing"
    /\ leaving' = [leaving EXCEPT ![s] = "untracking"]
    /\ registered' = [registered EXCEPT ![s] = FALSE]
    /\ UNCHANGED <<life, conn, reply, redisVars, holdVars>>

Untrack(s) ==
    /\ Running(s) /\ leaving[s] = "untracking"
    /\ leaving' = [leaving EXCEPT ![s] = "over"]
    /\ Decr /\ FailsOnlyAt(s)
    /\ UNCHANGED <<life, conn, reply, expiring, expired, registered, holdVars>>

-----------------------------------------------------------------------------
(* Events of a client.                                                     *)

Ask(k, kind, s, stage, ids, seen) ==
    /\ call[k] = Idle
    /\ call' = [call EXCEPT ![k] =
          [kind |-> kind, of |-> s, stage |-> stage, ids |-> ids, seen |-> seen]]
Ends(k) == call' = [call EXCEPT ![k] = Idle]

\* subscribe and unsubscribe: the native service looks the entry up at once and listens
\* to admitted clients only, the gateway awaits its rate limit and blocklist first.
Requested(k, s, kind, ids) ==
    /\ life[s] = "open"
    /\ s \in Native => registered[s]
    /\ kind = "subscribe" => \A i \in ids : interest[i] < MaxInterest
    /\ Ask(k, kind, s, IF s \in Native THEN "found" ELSE "asked", ids, {})
    /\ UNCHANGED <<connVars, redisVars, registered, instruments, interest, roomMembers>>

\* Over a limit, blocked, without an entry, invalid, or the stream cannot be started.
GivesUp(k) ==
    /\ call[k].kind \in {"subscribe", "unsubscribe"} /\ call[k].stage \in {"asked", "found"}
    /\ Ends(k)
    /\ UNCHANGED <<connVars, redisVars, registered, instruments, interest, roomMembers>>

SubscribeFinds(k) ==
    /\ call[k].kind = "subscribe" /\ call[k].stage = "asked"
    /\ registered[call[k].of]
    /\ call' = [call EXCEPT ![k].stage = "found"]
    /\ UNCHANGED <<connVars, redisVars, registered, instruments, interest, roomMembers>>

\* faulty: what is asked for again is counted again
SubscribePlacesAnew(k, twice) ==
    LET s == call[k].of
        fresh == call[k].ids
    IN  /\ call[k].kind = "subscribe" /\ call[k].stage = "found"
        /\ instruments' = [instruments EXCEPT ![s] = @ \cup call[k].ids]
        /\ IF s \in Native
           THEN twice \subseteq fresh /\ interest' = More(fresh, twice) /\ Ends(k)
           ELSE /\ twice = {}
                /\ call' = [call EXCEPT ![k].stage = "placing", ![k].seen = fresh]
                /\ UNCHANGED interest
        /\ UNCHANGED <<connVars, redisVars, registered, roomMembers, misplaced>>
\* After the start of the stream and the resolution of exchanges, the entry looked up
\* before is changed, whatever has become of it.
SubscribePlaces(k, twice) ==
    LET s == call[k].of
        fresh == call[k].ids \ instruments[s]
    IN  /\ call[k].kind = "subscribe" /\ call[k].stage = "found"
        /\ instruments' = [instruments EXCEPT ![s] = @ \cup call[k].ids]
        /\ IF s \in Native
           THEN twice \subseteq fresh /\ interest' = More(fresh, twice) /\ Ends(k)
           ELSE /\ twice = {}
                /\ call' = [call EXCEPT ![k].stage = "placing", ![k].seen = fresh]
                /\ UNCHANGED interest
        /\ UNCHANGED <<connVars, redisVars, registered, roomMembers, misplaced>>

\* After the stream service was told.
SubscribeJoins(k, twice) ==
    /\ call[k].stage = "placing"
    /\ twice \subseteq call[k].seen
    /\ \E rooms \in RoomsFor(call[k].ids) :
          /\ roomMembers' = JoinRooms(call[k].of, rooms)
          /\ Confuse(call[k].of, call[k].ids, rooms)
    /\ interest' = More(call[k].seen, twice)
    /\ Ends(k)
    /\ UNCHANGED <<connVars, redisVars, registered, instruments>>

UnsubscribeNative(k) ==
    LET s == call[k].of
    IN  /\ call[k].kind = "unsubscribe" /\ call[k].stage = "found"
        /\ instruments' = [instruments EXCEPT ![s] = @ \ call[k].ids]
        /\ interest' = Less(instruments[s] \cap call[k].ids)
        /\ Ends(k)
        /\ UNCHANGED <<connVars, redisVars, registered, roomMembers>>

\* The stream service is told, and awaited, only if no entry of the gateway names any of
\* the instruments any more.
StillSubscribed(ids, held) ==
    \E t \in Sockets \ Native : registered[t] /\ held[t] \cap ids # {}

Unsubscribe(k) ==
    LET s == call[k].of
        ids == call[k].ids
    IN  /\ call[k].kind = "unsubscribe" /\ call[k].stage = "asked"
        /\ registered[s]
        /\ instruments' = [instruments EXCEPT ![s] = @ \ ids]
        /\ IF StillSubscribed(ids, instruments')
           THEN /\ roomMembers' = LeaveRooms(s, ids) /\ Mend(s, ids)
                /\ interest' = Less(instruments[s] \cap ids)
                /\ Ends(k)
           ELSE /\ call' = [call EXCEPT ![k].stage = "leaving", ![k].seen = instruments[s]]
                /\ UNCHANGED <<roomMembers, interest, misplaced>>
        /\ UNCHANGED <<connVars, redisVars, registered>>

\* faulty: the rooms of what is unsubscribed for all are kept
UnsubscribeEndsInRooms(k) ==
    /\ call[k].kind = "unsubscribe" /\ call[k].stage = "leaving"
    /\ interest' = Less(call[k].seen \ instruments[call[k].of])
    /\ Mend(call[k].of, call[k].ids)
    /\ Ends(k)
    /\ UNCHANGED <<connVars, redisVars, registered, instruments, roomMembers>>
\* What the entry lost since it was looked at counts as removed, by whichever handler.
UnsubscribeEnds(k) ==
    LET s == call[k].of
    IN  /\ call[k].kind = "unsubscribe" /\ call[k].stage = "leaving"
        /\ roomMembers' = LeaveRooms(s, call[k].ids) /\ Mend(s, call[k].ids)
        /\ interest' = Less(call[k].seen \ instruments[s])
        /\ Ends(k)
        /\ UNCHANGED <<connVars, redisVars, registered, instruments>>

\* Of the gateway alone.
UnsubscribeAll(k, s) ==
    /\ s \notin Native /\ life[s] = "open"
    /\ registered[s] /\ instruments[s] # {}
    /\ Ask(k, "unsubscribe_all", s, "leaving", instruments[s], {})
    /\ interest' = Less(instruments[s])
    /\ UNCHANGED <<connVars, redisVars, registered, instruments, roomMembers>>

UnsubscribeAllEnds(k) ==
    LET s == call[k].of
    IN  /\ call[k].kind = "unsubscribe_all"
        /\ roomMembers' = LeaveRooms(s, call[k].ids) /\ Mend(s, call[k].ids)
        /\ instruments' = [instruments EXCEPT ![s] = {}]
        /\ Ends(k)
        /\ UNCHANGED <<connVars, redisVars, registered, interest>>

-----------------------------------------------------------------------------
(* The process dies: its memory and its sockets are gone, Redis is not.     *)

Crash ==
    /\ life' = [s \in Sockets |-> IF life[s] = "none" THEN "none" ELSE "lost"]
    /\ registered' = [s \in Sockets |-> FALSE]
    /\ instruments' = [s \in Sockets |-> {}]
    /\ interest' = [i \in Instruments |-> 0]
    /\ roomMembers' = [i \in Instruments |-> {}]
    /\ call' = [k \in Calls |-> Idle]
    /\ UNCHANGED <<conn, reply, leaving, redisVars>>
    /\ repeated' = FALSE /\ overlapped' = {} /\ misplaced' = [s \in Sockets |-> {}]

-----------------------------------------------------------------------------
Admission ==
    \/ \E s \in Sockets :
          ClientConnects(s) \/ Rejected(s) \/ Incr(s) \/ Expire(s) \/ Admit(s) \/ Refuse(s)
    \/ KeyExpires

Departure == \E s \in Sockets : Leave(s) \/ Released(s) \/ Untrack(s)

Subscriptions ==
    \E k \in Calls :
        \/ /\ \/ \E s \in Sockets, kind \in {"subscribe", "unsubscribe"}, ids \in SUBSET Instruments :
                    ids # {} /\ Requested(k, s, kind, ids)
              \/ GivesUp(k)
              \/ SubscribeFinds(k)
              \/ UnsubscribeNative(k)
              \/ \E s \in Sockets : UnsubscribeAll(k, s)
           /\ UNCHANGED <<repeated, misplaced>>
        \/ /\ Unsubscribe(k) \/ UnsubscribeEnds(k) \/ UnsubscribeAllEnds(k)
           /\ UNCHANGED repeated
        \/ \E twice \in SUBSET Instruments :
              /\ SubscribePlaces(k, twice) \/ SubscribeJoins(k, twice)
              /\ repeated' = (repeated \/ twice # {})

\* Two handlers of s are pending, or one beside its handleDisconnect.
Overlapping(s) ==
    \E k \in Calls :
        /\ call[k].of = s
        /\ \/ leaving[s] \in {"releasing", "untracking", "over"}
           \/ \E other \in Calls \ {k} : call[other].of = s

Next ==
    \/ /\ \/ (Admission \/ Departure) /\ UNCHANGED <<repeated, misplaced>>
          \/ Subscriptions
       /\ overlapped' = overlapped \cup {s \in Sockets : Overlapping(s)'}
    \/ Crash

Spec == Init /\ [][Next]_vars

-----------------------------------------------------------------------------
(* Properties.                                                             *)

\* Whose INCR has no DECR yet.  Who left before the admission stays in it for good, and
\* so do the sessions of a process that died.
Counted(s) ==
    conn[s] \in {"asking", "expiring"} \/ (conn[s] = "admitted" /\ leaving[s] # "over")

\* The counter is off only when Redis dropped it or did not answer: through refusals,
\* departures during the admission and crashes it counts exactly those.
CounterIsTrue == ~expired /\ ~silent => connections = Cardinality({s \in Sockets : Counted(s)})

\* More sessions than connection_limit are served only after the key ran out under them
\* or Redis did not answer, however many connect at the same moment.
Served == {s \in Sockets : life[s] = "open" /\ conn[s] = "admitted"}
OverLimitOnlyBy == Cardinality(Served) > Limit => expired \/ silent

\* An entry outlives its session only if the client left before it was admitted, or for as
\* long as handleDisconnect awaits the release.
LeftoversOnlyBy ==
    \A s \in Sockets :
        registered[s] => life[s] = "open" \/ leaving[s] \in {"releasing", "early"}

\* Between its handlers, an open session of the gateway is in the room of an id exactly if it
\* holds it, if no two of its handlers ever overlapped; except that an id whose number also
\* denotes another may be held without its room, and the other have its room unheld, from
\* the subscribe that took the one for the other until the id is unsubscribed.
Resting(s) == \A k \in Calls : call[k].of # s
Ambiguous(i) == \E j \in Instruments \ {i} : i \in Namesakes[j] \/ j \in Namesakes[i]
RoomsMatch ==
    \A s \in Sockets \ Native :
        life[s] = "open" /\ Resting(s) /\ s \notin overlapped =>
            \A i \in Instruments :
                \/ s \in roomMembers[i] <=> i \in instruments[s]
                \/ i \in misplaced[s] /\ Ambiguous(i)

\* When nothing is pending, an instrument counts as many as hold it, if no two handlers of
\* one session ever overlapped and no request named one twice: sessions that share an
\* instrument, requests that renew, and rooms taken for others never harm the counts.
Quiet == \A s \in Sockets : Resting(s) /\ leaving[s] # "releasing"
InterestIsExact ==
    Quiet /\ overlapped = {} /\ ~repeated =>
        \A i \in Instruments :
            interest[i] = Cardinality({s \in Sockets : registered[s] /\ i \in instruments[s]})

=============================================================================
