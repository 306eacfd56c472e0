----------------------------- MODULE Throttler ------------------------------
(***************************************************************************)
(* The shared rate limiter of one client and one throttler: the Lua script *)
(* of RedisThrottlerStorage.increment over a hit counter and a block flag, *)
(* both with an expiry, called by every API instance, and the fail-closed  *)
(* answer while Redis is unreachable.                                      *)
(***************************************************************************)
EXTENDS Integers, Sequences, FiniteSets

CONSTANTS
    TtlTicks,      \* ttl: life of the hit counter
    HitLimit,      \* limit: hits let through per counter
    BlockTicks,    \* blockDuration
    ThrottleBound  \* last tick of the clock

ASSUME ThrottlerAssumption ==
    {TtlTicks, HitLimit, BlockTicks, ThrottleBound} \subseteq Nat \ {0}

VARIABLES
    hitCount,      \* the counter of hitKey, 0 when the key does not exist
    hitExpiry,     \* its last tick
    blockExpiry,   \* last tick of blockKey, 0 when the key does not exist
    redisUp,       \* Redis answers
    throttleTime,  \* now
    admitted,      \* observer: times of the requests let through
    verdict        \* observer: the last answer

throttleVars == <<hitCount, hitExpiry, blockExpiry, redisUp, throttleTime,
                  admitted, verdict>>

ThrottlerTypeOK ==
    /\ hitCount \in Nat
    /\ hitExpiry \in Nat /\ blockExpiry \in Nat
    /\ redisUp \in BOOLEAN
    /\ throttleTime \in 1..ThrottleBound
    /\ admitted \in Seq(1..ThrottleBound)
    /\ verdict \in {"none", "let through", "blocked"}

ThrottlerInit ==
    /\ hitCount = 0 /\ hitExpiry = 0 /\ blockExpiry = 0
    /\ redisUp = TRUE
    /\ throttleTime = 1
    /\ admitted = <<>>
    /\ verdict = "none"

-----------------------------------------------------------------------------
BlockLive == blockExpiry > throttleTime
HitsLive == hitExpiry > throttleTime

\* INCR on the live counter, or on a fresh one.
NextHits == IF HitsLive THEN hitCount + 1 ELSE 1

\* Mutant: the request that exceeds the limit is let through.
WithinOrAt(n) == n <= HitLimit + 1

\* The request is let through.
Within(n) == n <= HitLimit

\* PEXPIRE only on the first hit.
ExpiryAfter(n) == IF n = 1 THEN throttleTime + TtlTicks ELSE hitExpiry

\* increment while blocked: the hit is not counted.
HitWhileBlocked ==
    /\ redisUp
    /\ BlockLive
    /\ verdict' = "blocked"
    /\ UNCHANGED <<hitCount, hitExpiry, blockExpiry, redisUp, throttleTime, admitted>>

\* increment: the whole script is one step, whichever instance runs it.
Increment ==
    /\ redisUp
    /\ ~BlockLive
    /\ hitCount' = NextHits
    /\ hitExpiry' = ExpiryAfter(NextHits)
    /\ \/ /\ Within(NextHits)
          /\ admitted' = Append(admitted, throttleTime)
          /\ verdict' = "let through"
          /\ UNCHANGED blockExpiry
       \/ /\ ~Within(NextHits)
          /\ blockExpiry' = throttleTime + BlockTicks
          /\ verdict' = "blocked"
          /\ UNCHANGED admitted
    /\ UNCHANGED <<redisUp, throttleTime>>

\* The catch block of increment.
FailClosed ==
    /\ verdict' = "blocked"
    /\ UNCHANGED admitted

IncrementFails ==
    /\ ~redisUp
    /\ FailClosed
    /\ UNCHANGED <<hitCount, hitExpiry, blockExpiry, redisUp, throttleTime>>

\* external: Redis becomes unreachable, and reachable with its keys.
RedisFlips ==
    /\ redisUp' = ~redisUp
    /\ UNCHANGED <<hitCount, hitExpiry, blockExpiry, throttleTime, admitted, verdict>>

ThrottleTick ==
    /\ throttleTime < ThrottleBound
    /\ throttleTime' = throttleTime + 1
    /\ UNCHANGED <<hitCount, hitExpiry, blockExpiry, redisUp, admitted, verdict>>

ThrottlerNext ==
    HitWhileBlocked \/ Increment \/ IncrementFails \/ RedisFlips \/ ThrottleTick

ThrottlerSpec == ThrottlerInit /\ [][ThrottlerNext]_throttleVars

-----------------------------------------------------------------------------
\* Whenever the counter expires and whatever Redis does, all instances together let
\* through at most two full budgets in any TtlTicks: the end of one counter's life
\* and the start of the next.
RateBounded ==
    \A t \in 1..ThrottleBound :
        Cardinality({i \in DOMAIN admitted : admitted[i] \in t..(t + TtlTicks - 1)}) <= 2 * HitLimit
=============================================================================
