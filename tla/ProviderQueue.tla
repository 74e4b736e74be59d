---------------------------- MODULE ProviderQueue ----------------------------
(***************************************************************************)
(* ProviderQueueService: the gate through which REST calls to one provider *)
(* endpoint pass, at most one a second over all instances of the service.  *)
(* A Redis lock that expires by itself is the gate; a throttle in memory   *)
(* takes over when Redis does not answer or the wait grows too long.       *)
(*                                                                         *)
(* Time is kept relative: what is left of the lock and of each sleep, what *)
(* has passed since a stamp.  A tick may come late between any two steps,  *)
(* as timers do in Node.  Endpoints share nothing, so there is one.        *)
(* The journey of a Redis reply is not modelled: what is said of calls     *)
(* under the lock is said of the moments Redis grants it.                  *)
(***************************************************************************)
EXTENDS Integers

CONSTANTS
    Calls,     \* concurrent execute() calls
    Instances,   \* processes of the service
    InstanceOf,  \* the process a caller runs in
    Flaky,       \* processes whose way to Redis may fail
    Interval,    \* 1000 ms, in ticks
    MaxJitter,   \* the most a random jitter adds to a duration, in ticks
    MaxSpin      \* maxSpinMs, in ticks

ASSUME InstanceOfAssumption == InstanceOf \in [Calls -> Instances]
ASSUME FlakyAssumption == Flaky \subseteq Instances
ASSUME IntervalAssumption == Interval \in Nat \ {0}
ASSUME MaxJitterAssumption == MaxJitter \in Nat
ASSUME MaxSpinAssumption == MaxSpin \in Nat

VARIABLES
    ttl,        \* what the lock in Redis has left to live; 0 is no lock
    redisUp,    \* whether commands of an instance are answered (breaker closed)
    sinceExec,  \* time since inMemLastExecAt of an instance
    pc,         \* where a caller is in execute()
    sleep,      \* what its timer has left
    spun,       \* time since it entered execute(), while the loop still reads it
    sinceGrant  \* time since the lock was last granted (for the properties)

queueVars == <<ttl, redisUp, sinceExec, pc, sleep, spun, sinceGrant>>

Control == {"idle", "trying", "asking", "sleeping", "delayed", "calling"}

QueueTypeOK ==
    /\ ttl \in Nat
    /\ redisUp \in [Instances -> BOOLEAN]
    /\ sinceExec \in [Instances -> Nat]
    /\ pc \in [Calls -> Control]
    /\ sleep \in [Calls -> Nat]
    /\ spun \in [Calls -> Nat]
    /\ sinceGrant \in Nat

Jitters == 0 .. MaxJitter

\* No comparison tells longer times apart; inMemLastExecAt = 0 is one of them.
FarPast == Interval + MaxJitter

QueueInit ==
    /\ ttl = 0
    /\ redisUp = [i \in Instances |-> TRUE]
    /\ sinceExec = [i \in Instances |-> FarPast]
    /\ pc = [c \in Calls |-> "idle"]
    /\ sleep = [c \in Calls |-> 0]
    /\ spun = [c \in Calls |-> 0]
    /\ sinceGrant = Interval

-----------------------------------------------------------------------------
(* The in-memory throttle: executeWithInMemoryThrottle.                    *)

\* Reads the stamp of the instance, and either calls the provider or sleeps for what the
\* stamp says is missing.  It is not read again after the sleep.
Throttle(c) ==
    /\ spun' = [spun EXCEPT ![c] = 0]
    /\ LET i == InstanceOf[c]
       IN  \E j \in Jitters :
            \/ /\ sinceExec[i] >= Interval + j
               /\ sinceExec' = [sinceExec EXCEPT ![i] = 0]
               /\ pc' = [pc EXCEPT ![c] = "calling"]
               /\ UNCHANGED sleep
            \/ /\ sinceExec[i] < Interval + j
               /\ pc' = [pc EXCEPT ![c] = "delayed"]
               /\ sleep' = [sleep EXCEPT ![c] = Interval + j - sinceExec[i]]
               /\ UNCHANGED sinceExec

\* The throttle's sleep is over: stamp and call.
DelayOver(c) ==
    /\ pc[c] = "delayed"
    /\ sleep[c] = 0
    /\ sinceExec' = [sinceExec EXCEPT ![InstanceOf[c]] = 0]
    /\ pc' = [pc EXCEPT ![c] = "calling"]
    /\ UNCHANGED <<ttl, redisUp, sleep, spun, sinceGrant>>

-----------------------------------------------------------------------------
(* execute.                                                                *)

Request(c) ==
    /\ pc[c] = "idle"
    /\ pc' = [pc EXCEPT ![c] = "trying"]
    /\ UNCHANGED <<ttl, redisUp, sinceExec, sleep, spun, sinceGrant>>

\* The lifetime given to the lock; it is never released before it runs out.
LockTtlJitterOnly(j) == j    \* faulty: the interval itself is forgotten
LockTtl(j) == Interval + j

GrantedWithoutNX(c) ==    \* faulty: sets the key whether or not it is there
    /\ redisUp[InstanceOf[c]]
    /\ \E j \in Jitters : ttl' = LockTtl(j)
    /\ sinceGrant' = 0
    /\ pc' = [pc EXCEPT ![c] = "calling"]
    /\ spun' = [spun EXCEPT ![c] = 0]

\* tryAcquireLock: SET key '1' NX PX.
Granted(c) ==
    /\ redisUp[InstanceOf[c]]
    /\ ttl = 0
    /\ \E j \in Jitters : ttl' = LockTtl(j)
    /\ sinceGrant' = 0
    /\ pc' = [pc EXCEPT ![c] = "calling"]
    /\ spun' = [spun EXCEPT ![c] = 0]

Refused(c) ==
    /\ redisUp[InstanceOf[c]]
    /\ ttl > 0
    /\ pc' = [pc EXCEPT ![c] = "asking"]
    /\ UNCHANGED <<ttl, spun, sinceGrant>>

\* The command fails, or the circuit breaker skips it: the answer is false, although
\* Redis may have set the lock before the connection broke.
Unanswered(c) ==
    /\ ~redisUp[InstanceOf[c]]
    /\ \/ UNCHANGED ttl
       \/ ttl = 0 /\ \E j \in Jitters : ttl' = LockTtl(j)
    /\ pc' = [pc EXCEPT ![c] = "asking"]
    /\ UNCHANGED <<spun, sinceGrant>>

TryLock(c) ==
    /\ pc[c] = "trying"
    /\ Granted(c) \/ Refused(c) \/ Unanswered(c)
    /\ UNCHANGED <<redisUp, sinceExec, sleep>>

\* pttl: -2 when there is no such key as well as when Redis does not answer.
AskTtl(c) ==
    /\ pc[c] = "asking"
    /\ IF redisUp[InstanceOf[c]] /\ ttl > 0
       THEN /\ pc' = [pc EXCEPT ![c] = "sleeping"]
            /\ \E j \in Jitters : sleep' = [sleep EXCEPT ![c] = ttl + j]
            /\ UNCHANGED <<sinceExec, spun>>
       ELSE Throttle(c)
    /\ UNCHANGED <<ttl, redisUp, sinceGrant>>

WakeAlwaysRetries(c) ==    \* faulty: no guardrail, a refused caller tries for ever
    /\ pc[c] = "sleeping"
    /\ sleep[c] = 0
    /\ pc' = [pc EXCEPT ![c] = "trying"]
    /\ UNCHANGED <<ttl, redisUp, sinceExec, sleep, spun, sinceGrant>>

\* The sleep until the lock runs out is over; after maxSpinMs the throttle takes over.
Wake(c) ==
    /\ pc[c] = "sleeping"
    /\ sleep[c] = 0
    /\ IF spun[c] > MaxSpin
       THEN Throttle(c)
       ELSE /\ pc' = [pc EXCEPT ![c] = "trying"]
            /\ UNCHANGED <<sinceExec, sleep, spun>>
    /\ UNCHANGED <<ttl, redisUp, sinceGrant>>

\* The provider call returns or throws.
Finish(c) ==
    /\ pc[c] = "calling"
    /\ pc' = [pc EXCEPT ![c] = "idle"]
    /\ UNCHANGED <<ttl, redisUp, sinceExec, sleep, spun, sinceGrant>>

-----------------------------------------------------------------------------
(* Time and Redis.                                                         *)

Less(n) == IF n = 0 THEN 0 ELSE n - 1
MoreUpTo(n, top) == IF n < top THEN n + 1 ELSE n

Tick ==
    /\ ttl' = Less(ttl)
    /\ sleep' = [c \in Calls |-> Less(sleep[c])]
    /\ spun' = [c \in Calls |->
          IF pc[c] \in {"trying", "asking", "sleeping"}
          THEN MoreUpTo(spun[c], MaxSpin + 1) ELSE spun[c]]
    /\ sinceExec' = [i \in Instances |-> MoreUpTo(sinceExec[i], FarPast)]
    /\ sinceGrant' = MoreUpTo(sinceGrant, Interval)
    /\ UNCHANGED <<redisUp, pc>>

\* Redis, or one instance's way to it, fails and recovers; the key survives.
RedisChanges(i) ==
    /\ redisUp' = [redisUp EXCEPT ![i] = ~redisUp[i]]
    /\ UNCHANGED <<ttl, sinceExec, pc, sleep, spun, sinceGrant>>

-----------------------------------------------------------------------------
QueueNext ==
    \/ \E c \in Calls :
          \/ Request(c)
          \/ TryLock(c)
          \/ AskTtl(c)
          \/ Wake(c)
          \/ DelayOver(c)
          \/ Finish(c)
    \/ Tick
    \/ \E i \in Flaky : RedisChanges(i)

QueueSpec == QueueInit /\ [][QueueNext]_queueVars

\* Commands are answered or fail, timers fire and continuations run; nothing is assumed
\* of new requests, of the provider or of Redis.
FairQueueSpec ==
    /\ QueueSpec
    /\ WF_queueVars(Tick)
    /\ \A c \in Calls :
          WF_queueVars(TryLock(c) \/ AskTtl(c) \/ Wake(c) \/ DelayOver(c))

-----------------------------------------------------------------------------
(* Properties.                                                             *)

\* For a whole interval after a grant the lock is there to refuse everybody else: neither
\* a jitter, a failing connection nor a reply that was lost opens the gate early.
GateIsShut == sinceGrant < Interval => Interval <= ttl + sinceGrant

\* Two grants of the lock, to whichever instances, are at least one interval apart.
GrantsAreSpaced == [][sinceGrant' = 0 /\ sinceGrant # 0 => sinceGrant >= Interval]_queueVars

\* Every execute() reaches the provider, whoever else competes for the lock and however
\* Redis fails: the guardrail and the throttle leave nobody waiting for ever.
EveryCallIsServed == \A c \in Calls : pc[c] # "idle" ~> pc[c] = "calling"

=============================================================================
