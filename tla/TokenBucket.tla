---------------------------- MODULE TokenBucket ----------------------------
(***************************************************************************)
(* The rate limiter every external call passes (TokenBucket in             *)
(* observability/retry.py): a burst is free, then tokens accrue with time. *)
(* Time is counted in clock ticks and the bucket in what accrues in one    *)
(* tick, so that a token is worth Cost and the rate is 1 / Cost a tick.    *)
(***************************************************************************)
EXTENDS Integers, Sequences

CONSTANTS
    Burst,         \* RateLimit.burst
    Cost           \* ticks for one token to accrue: 1 / rate_per_second

ASSUME BucketAssumption ==
    /\ Burst \in Nat \ {0}
    /\ Cost \in Nat \ {0}

VARIABLES
    now,           \* the monotonic clock
    tokens,        \* _tokens, in ticks
    last,          \* _last, the time of the latest refill
    admitted       \* the times at which acquire let a call through

bucketVars == <<now, tokens, last, admitted>>

Capacity == Burst * Cost

BucketTypeOK ==
    /\ now \in Nat
    /\ tokens \in 0 .. Capacity
    /\ last \in 0 .. now
    /\ admitted \in Seq(0 .. now)

(* The bucket starts full.                                                 *)
BucketInit ==
    /\ now = 0
    /\ tokens = Capacity
    /\ last = 0
    /\ admitted = <<>>

(* Faulty variant: the time before the latest refill is credited again.    *)
RefilledTwice(have, from, until) ==
    LET full == have + until
    IN  IF full < Capacity THEN full ELSE Capacity

(* _refill, at the time until.                                             *)
Refilled(have, from, until) ==
    LET full == have + (until - from)
    IN  IF full < Capacity THEN full ELSE Capacity

(* The wait until a token has accrued.                                     *)
Wait(have) == IF have < Cost THEN Cost - have ELSE 0

(* Faulty variant: what accrued while the sleep overran is dropped.        *)
AcquireWaited(late) ==
    LET have == Refilled(tokens, last, now)
        woken == now + Wait(have) + late
    IN  /\ have >= Cost => late = 0
        /\ now' = woken
        /\ last' = woken
        /\ tokens' = IF have < Cost THEN 0 ELSE have - Cost
        /\ admitted' = Append(admitted, woken)

(* acquire: refill, sleep if a token is missing, refill, and spend it.     *)
(* time.sleep never returns early; it may return late.                     *)
Acquire(late) ==
    LET have == Refilled(tokens, last, now)
        woken == now + Wait(have) + late
    IN  /\ have >= Cost => late = 0
        /\ now' = woken
        /\ last' = woken
        /\ tokens' = Refilled(have, now, woken) - Cost
        /\ admitted' = Append(admitted, woken)

(* Anything else the process does takes time: other work, a backoff.       *)
Elapse(time) ==
    /\ now' = now + time
    /\ UNCHANGED <<tokens, last, admitted>>

BucketNext == \E ticks \in Nat : Acquire(ticks) \/ Elapse(ticks)

BucketSpec == BucketInit /\ [][BucketNext]_bucketVars

-----------------------------------------------------------------------------
(* The promise to the provider: in any stretch of time, however the calls, *)
(* the retries and the waits fall, at most Burst calls beyond the rate are *)
(* let through (retry.py:77-90).                                           *)
RateRespected ==
    \A i, j \in DOMAIN admitted :
        i <= j => (j - i + 1) * Cost <= Capacity + (admitted[j] - admitted[i])

(* The promise to the caller: a call is made to wait only if letting it    *)
(* through at once would have exceeded the rate over some stretch.         *)
WaitNeeded ==
    LET n == Len(admitted)
    IN  \E i \in 1 .. n : (n - i + 2) * Cost > Capacity + (now - admitted[i])

WaitsOnlyOverTheRate ==
    [][admitted' # admitted /\ admitted'[Len(admitted')] > now => WaitNeeded]_bucketVars
=============================================================================
