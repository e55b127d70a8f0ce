----------------------------- MODULE TokenBucket -----------------------------
(***************************************************************************)
(* What a rate limiter promises: one bucket per limiter and key, always    *)
(* there, full at first, refilled as time passes and never above its       *)
(* burst; a request is allowed exactly when a whole token is left, and     *)
(* takes it.  Nothing is ever forgotten, except when the process restarts. *)
(***************************************************************************)
EXTENDS Naturals

CONSTANTS Limiters, Keys, Burst, Refill, Token

VARIABLES
    level,  \* per limiter and key: what is left in the bucket
    answer  \* whether the last request asked about was allowed

bucketVars == <<level, answer>>

AtMost(bound, n) == IF n > bound THEN bound ELSE n

Full == [l \in Limiters |-> [k \in Keys |-> Burst[l]]]

BucketInit == level = Full /\ answer = TRUE

Ask(l, k) ==
    LET enough == level[l][k] >= Token IN
    /\ level' = IF enough THEN [level EXCEPT ![l][k] = level[l][k] - Token] ELSE level
    /\ answer' = enough

Pass ==
    /\ level' = [l \in Limiters |-> [k \in Keys |-> AtMost(Burst[l], level[l][k] + Refill[l])]]
    /\ UNCHANGED answer

Restarted == level' = Full /\ UNCHANGED answer

BucketNext == Pass \/ Restarted \/ \E l \in Limiters, k \in Keys : Ask(l, k)

BucketSpec == BucketInit /\ [][BucketNext]_bucketVars

=============================================================================
