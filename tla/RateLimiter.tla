----------------------------- MODULE RateLimiter -----------------------------
(***************************************************************************)
(* httpx.RateLimiter: token buckets made on first use, refilled on the     *)
(* next use, and dropped by a sweep when idle.  A bucket holds parts of a  *)
(* token, Token of them to the token, and time is counted in the unit in   *)
(* which Refill parts are added.                                           *)
(***************************************************************************)
EXTENDS Naturals

CONSTANTS
    Limiters,    \* the limiters of the process: one per NewRateLimiter
    Keys,        \* what they are keyed by: lowercased e-mail addresses
    Burst, Refill, Token,
    SweepEvery, IdleTTL

AtMost(bound, n) == IF n > bound THEN bound ELSE n

Bucket == [live : BOOLEAN, tokens : Nat, last : Nat]
NoBucket == [live |-> FALSE, tokens |-> 0, last |-> 0]

ASSUME LimiterType == /\ Burst \in [Limiters -> Nat] /\ Refill \in [Limiters -> Nat]
                      /\ Token \in Nat \ {0} /\ SweepEvery \in Nat /\ IdleTTL \in Nat
\* Every limiter of the server is full again before its idle buckets are
\* dropped: 10 at 0.5/s and 3 at 1/60 per second, against ten minutes.
ASSUME RefillsWhileIdle == \A l \in Limiters : Refill[l] * IdleTTL >= Burst[l]

VARIABLES
    clock,     \* the limiter's now()
    buckets,   \* RateLimiter.buckets
    lastSweep, \* RateLimiter.lastSweep
    answer     \* what Allow last returned

limiterVars == <<clock, buckets, lastSweep, answer>>

LimiterTypeOK ==
    /\ clock \in Nat
    /\ buckets \in [Limiters -> [Keys -> Bucket]]
    /\ lastSweep \in [Limiters -> Nat]
    /\ answer \in BOOLEAN

\* No bucket was used in the future.
LimiterInv == \A l \in Limiters, k \in Keys : buckets[l][k].last <= clock

\* lastSweep starts at the zero time, long past.
LimiterInit ==
    /\ clock = SweepEvery
    /\ buckets = [l \in Limiters |-> [k \in Keys |-> NoBucket]]
    /\ lastSweep = [l \in Limiters |-> 0]
    /\ answer = TRUE

-----------------------------------------------------------------------------

SweepDue(l) == clock - lastSweep[l] >= SweepEvery

\* Mutant: the sweep does not look at the bucket's age.
SweptAll(l, b) == IF SweepDue(l) THEN NoBucket ELSE b

Swept(l, b) == IF SweepDue(l) /\ b.live /\ clock - b.last >= IdleTTL THEN NoBucket ELSE b

\* What the bucket holds now: a bucket that is not there is made full.
Held(l, b) == IF b.live THEN AtMost(Burst[l], b.tokens + Refill[l] * (clock - b.last))
                        ELSE Burst[l]

\* One call of Allow: the sweep, the refill, and the token if there is one.
Allow(l, k) ==
    LET held == Held(l, Swept(l, buckets[l][k]))
        left == IF held >= Token THEN held - Token ELSE held
    IN  /\ buckets' = [buckets EXCEPT ![l] =
               [x \in Keys |-> IF x = k THEN [live |-> TRUE, tokens |-> left, last |-> clock]
                                        ELSE Swept(l, buckets[l][x])]]
        /\ lastSweep' = [lastSweep EXCEPT ![l] = IF SweepDue(l) THEN clock ELSE @]
        /\ answer' = (held >= Token)
        /\ UNCHANGED clock

Tick == clock' = clock + 1 /\ UNCHANGED <<buckets, lastSweep, answer>>

\* The buckets live in memory only.
LimiterRestart ==
    /\ buckets' = [l \in Limiters |-> [k \in Keys |-> NoBucket]]
    /\ lastSweep' = [l \in Limiters |-> 0]
    /\ UNCHANGED <<clock, answer>>

-----------------------------------------------------------------------------
(* The limiter implements the token bucket *)

Buckets == INSTANCE TokenBucket WITH
    level <- [l \in Limiters |-> [k \in Keys |-> Held(l, buckets[l][k])]]

\* Dropping idle buckets is never noticed: Allow answers as if every bucket
\* had been kept for ever.
ImplementsBuckets == Buckets!BucketSpec

=============================================================================
