------------------------- MODULE GitHubCallsProofs -------------------------
(***************************************************************************)
(* The calls of the github tools: they keep the promises of the rate       *)
(* limiter they share, give up only once every attempt was made, and write *)
(* as often as their answers and the replies lost say.                     *)
(***************************************************************************)
EXTENDS GitHubCalls, Induction, FiniteSetTheorems, SequenceTheorems

(* The rate limiter keeps both its promises for every burst, rate, clock   *)
(* and lateness of a sleep: never over the rate, never a needless wait.    *)
Count == Len(admitted)

(* The ticks that so many calls are worth.                                 *)
Worth(calls) == calls * Cost

(* What the bucket holds and what it let through since the i-th call never *)
(* exceed what it could hold and what has accrued since then ...           *)
Metered ==
    \A i \in DOMAIN admitted :
        tokens + Worth(Count - i + 1) <= Capacity + (last - admitted[i])

(* ... and are exactly that for the latest call made on a full bucket.     *)
Exact(i) ==
    /\ i \in DOMAIN admitted
    /\ tokens + Worth(Count - i + 1) = Capacity + (last - admitted[i])

FullOrExact == (Count = 0 /\ tokens = Capacity) \/ \E i \in Nat : Exact(i)

BucketInv == BucketTypeOK /\ Metered /\ FullOrExact /\ RateRespected

(* A refill never gives more than has accrued, and caps at the capacity.   *)
LEMMA RefillFacts ==
    ASSUME NEW have \in 0 .. Capacity, NEW from \in Nat, NEW until \in Nat, from <= until
    PROVE  /\ Refilled(have, from, until) \in 0 .. Capacity
           /\ Refilled(have, from, until) >= have
           /\ Refilled(have, from, until) <= have + (until - from)
           /\ Refilled(have, from, until) = Capacity
                \/ Refilled(have, from, until) = have + (until - from)
<1>1. Capacity \in Nat
  BY BucketAssumption DEF Capacity
<1> QED
  BY <1>1 DEF Refilled

LEMMA CapacityFacts == Capacity \in Nat /\ Cost \in Nat /\ Cost > 0 /\ Cost <= Capacity
<1>1. Burst \in Nat /\ Burst >= 1 /\ Cost \in Nat /\ Cost > 0
  BY BucketAssumption
<1>2. Burst * Cost \in Nat
  BY <1>1
<1>3. Burst * Cost >= Cost
  <2>1. (Burst - 1) * Cost >= 0
    BY <1>1
  <2>2. Burst * Cost = (Burst - 1) * Cost + Cost
    BY <1>1
  <2> QED
    BY <1>1, <2>1, <2>2
<1> QED
  BY <1>1, <1>2, <1>3 DEF Capacity

LEMMA WorthFacts ==
    /\ Worth(1) = Cost
    /\ \A calls \in Int : Worth(calls) \in Int /\ Worth(calls + 1) = Worth(calls) + Cost
BY CapacityFacts DEF Worth

(* What accrues carries over from one call to the next.                    *)
LEMMA CarriedAtMost ==
    ASSUME NEW cap \in Int, NEW cost \in Int, NEW worth \in Int, NEW since \in Int,
           NEW had \in Int, NEW has \in Int, NEW from \in Int, NEW until \in Int,
           had + worth <= cap + (from - since), has + cost <= had + (until - from)
    PROVE  has + (worth + cost) <= cap + (until - since)
OBVIOUS

LEMMA CarriedExactly ==
    ASSUME NEW cap \in Int, NEW cost \in Int, NEW worth \in Int, NEW since \in Int,
           NEW had \in Int, NEW has \in Int, NEW from \in Int, NEW until \in Int,
           had + worth = cap + (from - since), has + cost = had + (until - from)
    PROVE  has + (worth + cost) = cap + (until - since)
OBVIOUS

LEMMA FullStaysFull ==
    ASSUME NEW cap \in Int, NEW from \in Int, NEW until \in Int, from <= until,
           cap + (until - from) <= cap
    PROVE  cap + (until - from) = cap
OBVIOUS

LEMMA NoTime ==
    ASSUME NEW cap \in Int, NEW time \in Int, NEW other, other = time
    PROVE  cap + (time - other) = cap
OBVIOUS

(* What one call does to the bucket, with the time it waits taken apart.   *)
LEMMA AcquireFacts ==
    ASSUME BucketTypeOK, NEW late \in Nat, Acquire(late)
    PROVE  LET have == Refilled(tokens, last, now)
               got == tokens' + Cost
           IN  /\ now' \in Nat /\ now' >= now /\ last' = now'
               /\ have \in 0 .. Capacity /\ got <= Capacity
               /\ tokens' \in 0 .. Capacity
               /\ have >= Cost => now' = now /\ got = have
               /\ have < Cost => got = Capacity \/ got = have + (now' - now)
               /\ got <= have + (now' - now)
               /\ got <= tokens + (now' - last)
               /\ got = Capacity \/ got = tokens + (now' - last)
               /\ admitted' = Append(admitted, now')
<1> DEFINE have == Refilled(tokens, last, now)
           woken == now + Wait(have) + late
<1>1. now \in Nat /\ tokens \in 0 .. Capacity /\ last \in Nat /\ last <= now
  BY DEF BucketTypeOK
<1>2. /\ have \in 0 .. Capacity
      /\ have <= tokens + (now - last)
      /\ have = Capacity \/ have = tokens + (now - last)
  BY <1>1, RefillFacts
<1>3. /\ have >= Cost => late = 0
      /\ now' = woken /\ last' = woken
      /\ tokens' = Refilled(have, now, woken) - Cost
      /\ admitted' = Append(admitted, woken)
  BY DEF Acquire
<1> HIDE DEF have
<1>4. Wait(have) \in Nat /\ (have >= Cost => Wait(have) = 0) /\ have + Wait(have) >= Cost
  BY <1>2, CapacityFacts DEF Wait
<1>5. woken \in Nat /\ now <= woken /\ (have >= Cost => woken = now)
  BY <1>1, <1>3, <1>4
<1>6. have + (woken - now) >= Cost
  BY <1>1, <1>2, <1>4, CapacityFacts
<1> HIDE DEF woken
<1> DEFINE got == Refilled(have, now, woken)
<1>7. /\ got \in 0 .. Capacity
      /\ got >= have
      /\ got <= have + (woken - now)
      /\ got = Capacity \/ got = have + (woken - now)
  BY <1>1, <1>2, <1>5, RefillFacts
<1> HIDE DEF got
<1>8. got >= Cost
  BY <1>1, <1>2, <1>5, <1>6, <1>7, CapacityFacts
<1>9. tokens' = got - Cost
  BY <1>3 DEF got
<1>10. tokens' + Cost = got /\ tokens' \in 0 .. Capacity
  BY <1>7, <1>8, <1>9, CapacityFacts
<1>11. got <= tokens + (woken - last) /\ (got = Capacity \/ got = tokens + (woken - last))
  <2>1. CASE have = Capacity
    <3>1. have >= Cost
      BY <2>1, CapacityFacts
    <3> QED
      BY <1>1, <1>2, <1>5, <1>7, <2>1, <3>1, CapacityFacts
  <2>2. CASE have = tokens + (now - last)
    BY <1>1, <1>2, <1>5, <1>7, <2>2, CapacityFacts
  <2> QED
    BY <1>2, <2>1, <2>2
<1>12. have >= Cost => got = have
  BY <1>1, <1>2, <1>5, <1>7, CapacityFacts
<1> QED
  BY <1>1, <1>2, <1>3, <1>5, <1>7, <1>10, <1>11, <1>12 DEF have

LEMMA InitBucketInv == BucketInit => BucketInv
<1> SUFFICES ASSUME BucketInit PROVE BucketInv
  OBVIOUS
<1>1. admitted = <<>> /\ Len(admitted) = 0 /\ DOMAIN admitted = {}
  BY DEF BucketInit
<1>2. BucketTypeOK
  BY CapacityFacts, <1>1 DEF BucketInit, BucketTypeOK
<1> QED
  BY <1>1, <1>2 DEF BucketInit, BucketInv, Metered, FullOrExact, RateRespected, Count

LEMMA ElapseKeepsInv ==
    ASSUME BucketInv, NEW ticks \in Nat, Elapse(ticks)
    PROVE  BucketInv'
<1>1. now \in Nat /\ last \in 0 .. now /\ admitted \in Seq(0 .. now) /\ tokens \in 0 .. Capacity
  BY DEF BucketInv, BucketTypeOK
<1>2. now' = now + ticks /\ tokens' = tokens /\ last' = last /\ admitted' = admitted
  BY DEF Elapse
<1>3. 0 .. now \subseteq 0 .. now'
  BY <1>1, <1>2
<1>4. BucketTypeOK'
  <2>1. admitted' \in Seq(0 .. now')
    BY <1>1, <1>2, <1>3
  <2> QED
    BY <1>1, <1>2, <2>1 DEF BucketTypeOK, Capacity
<1>5. Metered' /\ FullOrExact' /\ RateRespected'
  BY <1>2 DEF BucketInv, Metered, FullOrExact, Exact, RateRespected, Count, Capacity
<1> QED
  BY <1>4, <1>5 DEF BucketInv

LEMMA AcquireKeepsInv ==
    ASSUME BucketInv, NEW late \in Nat, Acquire(late)
    PROVE  BucketInv'
<1> DEFINE n == Len(admitted)
           got == tokens' + Cost
<1>1. /\ now \in Nat /\ last \in Nat /\ last <= now
      /\ admitted \in Seq(0 .. now) /\ tokens \in 0 .. Capacity
  BY DEF BucketInv, BucketTypeOK
<1>2. /\ now' \in Nat /\ now' >= now /\ last' = now'
      /\ got <= Capacity /\ tokens' \in 0 .. Capacity
      /\ got <= tokens + (now' - last)
      /\ got = Capacity \/ got = tokens + (now' - last)
      /\ admitted' = Append(admitted, now')
  BY AcquireFacts DEF BucketInv
<1>3. /\ n \in Nat /\ Len(admitted') = n + 1
      /\ DOMAIN admitted = 1 .. n /\ DOMAIN admitted' = 1 .. n + 1
      /\ admitted'[n + 1] = now'
      /\ \A i \in 1 .. n : admitted'[i] = admitted[i] /\ admitted[i] \in 0 .. now
  <2>1. n \in Nat /\ DOMAIN admitted = 1 .. n
    BY <1>1
  <2>2. \A i \in 1 .. n : admitted[i] \in 0 .. now
    BY <1>1, <2>1
  <2>3. Len(admitted') = n + 1 /\ DOMAIN admitted' = 1 .. n + 1
    BY <1>1, <1>2, <2>1
  <2>4. admitted'[n + 1] = now' /\ \A i \in 1 .. n : admitted'[i] = admitted[i]
    BY <1>1, <1>2, <2>1
  <2> QED
    BY <2>1, <2>2, <2>3, <2>4
<1>4. BucketTypeOK'
  <2>1. 0 .. now \subseteq 0 .. now' /\ now' \in 0 .. now'
    BY <1>1, <1>2
  <2>2. admitted' \in Seq(0 .. now')
    BY <1>1, <1>2, <2>1
  <2> QED
    BY <1>2, <2>1, <2>2 DEF BucketTypeOK, Capacity
<1>5. \A i \in 1 .. n : tokens + Worth(n - i + 1) <= Capacity + (last - admitted[i])
  BY <1>3 DEF BucketInv, Metered, Count
<1>6. (n = 0 /\ tokens = Capacity)
        \/ \E i \in 1 .. n : tokens + Worth(n - i + 1) = Capacity + (last - admitted[i])
  BY <1>3 DEF BucketInv, FullOrExact, Exact, Count
<1>7. \A i, j \in 1 .. n :
        i <= j => Worth(j - i + 1) <= Capacity + (admitted[j] - admitted[i])
  BY <1>3 DEF BucketInv, RateRespected, Worth
<1>8. Len(admitted) = n
  OBVIOUS
<1> HIDE DEF n
<1>9. \A i \in 1 .. n : /\ n + 1 - i + 1 = (n - i + 1) + 1
                        /\ n - i + 1 \in Int
                        /\ Worth(n + 1 - i + 1) = Worth(n - i + 1) + Cost
                        /\ Worth(n - i + 1) \in Int
  <2> TAKE i \in 1 .. n
  <2>1. n + 1 - i + 1 = (n - i + 1) + 1 /\ n - i + 1 \in Int
    BY <1>3
  <2> QED
    BY <2>1, WorthFacts
<1>10. n + 1 - (n + 1) + 1 = 1 /\ Worth(n + 1 - (n + 1) + 1) = Cost
  <2>1. n + 1 - (n + 1) + 1 = 1
    BY <1>3
  <2> QED
    BY <2>1, WorthFacts
<1>11. /\ Capacity \in Int /\ Cost \in Int /\ tokens \in Int /\ tokens' \in Int /\ tokens' >= 0
       /\ last \in Int /\ now' \in Int
       /\ \A i \in 1 .. n : admitted[i] \in Int
  BY <1>1, <1>2, <1>3, CapacityFacts
<1>12. tokens' + Cost <= Capacity /\ tokens' + Cost <= tokens + (now' - last)
  BY <1>2
<1>13. tokens' + Cost = Capacity \/ tokens' + Cost = tokens + (now' - last)
  BY <1>2
<1>14. tokens' + Worth(n + 1 - (n + 1) + 1) <= Capacity + (now' - admitted'[n + 1])
  <2>1. Capacity + (now' - admitted'[n + 1]) = Capacity
    BY <1>3, <1>11, NoTime
  <2> QED
    BY <1>10, <1>12, <2>1
<1>15. \A i \in 1 .. n :
          tokens' + Worth(n + 1 - i + 1) <= Capacity + (now' - admitted'[i])
  <2> TAKE i \in 1 .. n
  <2>1. tokens + Worth(n - i + 1) <= Capacity + (last - admitted[i])
    BY <1>5
  <2>2. tokens' + (Worth(n - i + 1) + Cost) <= Capacity + (now' - admitted[i])
    BY <1>9, <1>11, <1>12, <2>1, CarriedAtMost
  <2> QED
    BY <1>3, <1>9, <2>2
<1>16. \A i \in 1 .. n + 1 :
          tokens' + Worth(n + 1 - i + 1) <= Capacity + (now' - admitted'[i])
  <2> TAKE i \in 1 .. n + 1
  <2>1. i = n + 1 \/ i \in 1 .. n
    BY <1>3
  <2> QED
    BY <1>14, <1>15, <2>1
<1>17. Metered'
  <2>1. Metered' = (\A i \in DOMAIN admitted' :
              tokens' + Worth(Len(admitted') - i + 1) <= Capacity + (last' - admitted'[i]))
    BY DEF Metered, Count, Worth, Capacity
  <2> QED
    BY <1>2, <1>3, <1>16, <2>1
<1>18. \E i \in 1 .. n + 1 :
          tokens' + Worth(n + 1 - i + 1) = Capacity + (now' - admitted'[i])
  <2>1. CASE tokens' + Cost = Capacity
    <3>1. n + 1 \in 1 .. n + 1
      BY <1>3
    <3>2. tokens' + Worth(n + 1 - (n + 1) + 1) = Capacity + (now' - admitted'[n + 1])
      <4>1. Capacity + (now' - admitted'[n + 1]) = Capacity
        BY <1>3, <1>11, NoTime
      <4> QED
        BY <1>10, <2>1, <4>1
    <3> QED
      BY <3>1, <3>2
  <2>2. CASE tokens' + Cost # Capacity
    <3>1. tokens' + Cost = tokens + (now' - last)
      BY <1>13, <2>2
    <3>2. last <= now'
      BY <1>1, <1>2
    <3>3. tokens # Capacity
      <4> SUFFICES ASSUME tokens = Capacity PROVE FALSE
        OBVIOUS
      <4>1. Capacity + (now' - last) <= Capacity
        BY <1>12, <3>1
      <4>2. Capacity + (now' - last) = Capacity
        BY <1>11, <3>2, <4>1, FullStaysFull
      <4> QED
        BY <2>2, <3>1, <4>2
    <3>4. PICK i \in 1 .. n : tokens + Worth(n - i + 1) = Capacity + (last - admitted[i])
      BY <1>6, <3>3
    <3>5. tokens' + (Worth(n - i + 1) + Cost) = Capacity + (now' - admitted[i])
      BY <1>9, <1>11, <3>1, <3>4, CarriedExactly
    <3>6. tokens' + Worth(n + 1 - i + 1) = Capacity + (now' - admitted'[i])
      BY <1>3, <1>9, <3>5
    <3> QED
      BY <1>3, <3>6
  <2> QED
    BY <2>1, <2>2
<1>19. FullOrExact'
  <2>1. PICK i \in 1 .. n + 1 :
              tokens' + Worth(n + 1 - i + 1) = Capacity + (now' - admitted'[i])
    BY <1>18
  <2>2. Exact(i)'
    BY <1>2, <1>3, <2>1 DEF Exact, Count, Worth, Capacity
  <2>3. i \in Nat
    BY <1>3
  <2> QED
    BY <2>2, <2>3 DEF FullOrExact
<1>20. \A i, j \in 1 .. n + 1 :
          i <= j => Worth(j - i + 1) <= Capacity + (admitted'[j] - admitted'[i])
  <2> TAKE i, j \in 1 .. n + 1
  <2> HAVE i <= j
  <2>1. CASE j = n + 1
    <3>1. tokens' + Worth(n + 1 - i + 1) <= Capacity + (now' - admitted'[i])
      BY <1>16
    <3>2. admitted'[i] \in Int
      BY <1>3, <1>11
    <3>3. n + 1 - i + 1 \in Int
      BY <1>3
    <3>4. Worth(n + 1 - i + 1) \in Int
      BY <3>3, WorthFacts
    <3>5. Worth(n + 1 - i + 1) <= Capacity + (now' - admitted'[i])
      BY <1>11, <3>1, <3>2, <3>4
    <3> QED
      BY <1>3, <2>1, <3>5
  <2>2. CASE j # n + 1
    <3>1. i \in 1 .. n /\ j \in 1 .. n
      BY <1>3, <2>2
    <3>2. Worth(j - i + 1) <= Capacity + (admitted[j] - admitted[i])
      BY <1>7, <3>1
    <3> QED
      BY <1>3, <3>1, <3>2
  <2> QED
    BY <2>1, <2>2
<1>21. RateRespected'
  BY <1>3, <1>20 DEF RateRespected, Worth, Capacity
<1> QED
  BY <1>4, <1>17, <1>19, <1>21 DEF BucketInv

LEMMA NextKeepsInv == BucketInv /\ [BucketNext]_bucketVars => BucketInv'
<1> SUFFICES ASSUME BucketInv, [BucketNext]_bucketVars PROVE BucketInv'
  OBVIOUS
<1>1. CASE BucketNext
  BY <1>1, AcquireKeepsInv, ElapseKeepsInv DEF BucketNext
<1>2. CASE UNCHANGED bucketVars
  BY <1>2 DEF bucketVars, BucketInv, BucketTypeOK, Metered, FullOrExact, Exact,
              RateRespected, Count, Capacity
<1> QED
  BY <1>1, <1>2

(* A call that waits does so because the calls since the latest full       *)
(* bucket, and itself, would be more than the rate allows by now.          *)
LEMMA WaitsAreNeeded ==
    ASSUME BucketInv, [BucketNext]_bucketVars
    PROVE  admitted' # admitted /\ admitted'[Len(admitted')] > now => WaitNeeded
<1> DEFINE n == Len(admitted)
           have == Refilled(tokens, last, now)
<1> SUFFICES ASSUME admitted' # admitted, admitted'[Len(admitted')] > now
             PROVE  \E i \in 1 .. n : (n - i + 2) * Cost > Capacity + (now - admitted[i])
  BY DEF WaitNeeded
<1>1. PICK late \in Nat : Acquire(late)
  BY DEF BucketNext, Elapse, bucketVars
<1>2. /\ now \in Nat /\ last \in Nat /\ last <= now
      /\ admitted \in Seq(0 .. now) /\ tokens \in 0 .. Capacity
  BY DEF BucketInv, BucketTypeOK
<1>3. /\ now' \in Nat /\ admitted' = Append(admitted, now')
      /\ have \in 0 .. Capacity /\ (have >= Cost => now' = now)
  BY <1>1, AcquireFacts DEF BucketInv
<1>4. /\ n \in Nat /\ DOMAIN admitted = 1 .. n
      /\ Len(admitted') = n + 1 /\ admitted'[n + 1] = now'
      /\ \A i \in 1 .. n : admitted[i] \in Int
  BY <1>2, <1>3
<1>5. have < Cost
  <2>1. now' > now
    BY <1>4
  <2>2. ~(have >= Cost)
    BY <1>2, <1>3, <2>1
  <2> QED
    BY <1>3, <2>2, CapacityFacts
<1>6. have = Capacity \/ have = tokens + (now - last)
  BY <1>2, RefillFacts
<1>7. (n = 0 /\ tokens = Capacity) \/ \E i \in 1 .. n :
          tokens + Worth(n - i + 1) = Capacity + (last - admitted[i])
  BY <1>4 DEF BucketInv, FullOrExact, Exact, Count
<1> HIDE DEF have, n
<1>8. have = tokens + (now - last) /\ tokens # Capacity
  BY <1>2, <1>3, <1>5, <1>6, CapacityFacts
<1>9. PICK i \in 1 .. n : tokens + Worth(n - i + 1) = Capacity + (last - admitted[i])
  BY <1>7, <1>8
<1>10. Worth(n - i + 2) = Worth(n - i + 1) + Cost /\ Worth(n - i + 1) \in Int
  <2>1. n - i + 2 = (n - i + 1) + 1 /\ n - i + 1 \in Int
    BY <1>4
  <2> QED
    BY <2>1, WorthFacts
<1>11. /\ Capacity \in Int /\ Cost \in Int /\ tokens \in Int /\ last \in Int /\ now \in Int
       /\ admitted[i] \in Int
  BY <1>2, <1>4, CapacityFacts
<1>12. tokens + (now - last) < Cost
  BY <1>5, <1>8
<1>13. Worth(n - i + 1) + Cost > Capacity + (now - admitted[i])
  BY <1>9, <1>10, <1>11, <1>12
<1>14. Worth(n - i + 2) > Capacity + (now - admitted[i])
  BY <1>10, <1>13
<1> QED
  BY <1>14 DEF Worth, n

(* The bucket keeps its rate, and waits only to keep it.                   *)
THEOREM BucketKeepsRate == BucketSpec => []RateRespected
<1>1. BucketInv => RateRespected
  BY DEF BucketInv
<1> QED
  BY InitBucketInv, NextKeepsInv, <1>1, PTL DEF BucketSpec

THEOREM BucketWaitsOnlyOverTheRate == BucketSpec => WaitsOnlyOverTheRate
<1>1. BucketInv /\ [BucketNext]_bucketVars
        => [admitted' # admitted /\ admitted'[Len(admitted')] > now => WaitNeeded]_bucketVars
  BY WaitsAreNeeded
<1> QED
  BY InitBucketInv, NextKeepsInv, <1>1, PTL DEF BucketSpec, WaitsOnlyOverTheRate

-----------------------------------------------------------------------------
LEMMA DelayIsTime == ASSUME NEW failed PROVE Delay(failed) \in Nat
<1> DEFINE grown == BaseDelay * Doubled[failed - 1]
<1>1. MaxDelay \in Nat /\ 0 .. MaxDelay \subseteq Nat
  BY CallsAssumption
<1>2. Delay(failed) = IF grown \in 0 .. MaxDelay THEN grown ELSE MaxDelay
  BY DEF Delay
<1> HIDE DEF grown
<1> QED
  BY <1>1, <1>2

LEMMA Bounds == MaxLate \in Nat /\ MaxElapse \in Nat /\ MaxAttempts \in Nat /\ MaxAttempts >= 1
BY CallsAssumption

-----------------------------------------------------------------------------
(* Every step uses the bucket as the bucket allows, or not at all.         *)
LEMMA StepUsesBucket == [Next]_vars => [BucketNext]_bucketVars
<1> SUFFICES ASSUME [Next]_vars PROVE [BucketNext]_bucketVars
  OBVIOUS
<1>1. CASE UNCHANGED vars
  BY <1>1 DEF vars
<1>2. CASE \E late \in 0 .. MaxLate : AcquireToken(late)
  <2>1. 0 .. MaxLate \subseteq Nat
    BY Bounds
  <2> QED
    BY <1>2, <2>1 DEF AcquireToken, BucketNext
<1>3. CASE BackOff
  BY <1>3, DelayIsTime DEF BackOff, BucketNext
<1>4. CASE TimePasses
  <2>1. 1 .. MaxElapse \subseteq Nat
    BY Bounds
  <2> QED
    BY <1>4, <2>1 DEF TimePasses, BucketNext
<1>5. CASE \/ \E request \in Requests : Invoke(request)
           \/ Transient \/ Write \/ LoseReply \/ Reject \/ Escape \/ Downgrade \/ ReadRun
           \/ Push \/ ListRun
  BY <1>5 DEF Invoke, Transient, Write, LoseReply, Reject, Escape, EndUnretried,
              Downgrade, ReadRun, Push, ListRun
<1> QED
  BY <1>1, <1>2, <1>3, <1>4, <1>5 DEF Next, Work

(* The calls are calls on one bucket.                                      *)
THEOREM CallsUseBucket == Spec => BucketSpec
<1>1. Init => BucketInit
  BY DEF Init
<1> QED
  BY <1>1, StepUsesBucket, PTL DEF Spec, BucketSpec

(* However calls, retries, backoffs and waits fall, the calls of all tools *)
(* together never exceed the rate, and wait only where they would.         *)
THEOREM CallsKeepRate == Spec => []RateRespected
BY CallsUseBucket, BucketKeepsRate, PTL

THEOREM CallsWaitOnlyOverTheRate == Spec => WaitsOnlyOverTheRate
BY CallsUseBucket, BucketWaitsOnlyOverTheRate, PTL

-----------------------------------------------------------------------------
(* The type of everything but the bucket, whose type its own proof gives.  *)
BoundaryTypeOK ==
    /\ call \in [request : Requests, event : Sent, attempt : 1 .. MaxAttempts, phase : Phases]
    /\ remote \in [own : BOOLEAN, pushed : BOOLEAN, written : Seq(Entries), runs : Seq(Nat)]
    /\ answers \in Seq(Answers)
    /\ lost \in Seq(Nat)

LEMMA AnswerTyped ==
    ASSUME BoundaryTypeOK, NEW kind \in Kinds, Answer(kind)
    PROVE  /\ answers' \in Seq(Answers)
           /\ call' \in [request : Requests, event : Sent, attempt : 1 .. MaxAttempts,
                         phase : Phases]
<1>1. [request |-> call.request, kind |-> kind, event |-> call.event,
       attempts |-> call.attempt] \in Answers
  BY DEF BoundaryTypeOK, Answers
<1>2. answers' \in Seq(Answers)
  BY <1>1 DEF BoundaryTypeOK, Answer
<1>3. "idle" \in Phases
  BY DEF Phases
<1> QED
  BY <1>2, <1>3 DEF BoundaryTypeOK, Answer, To

LEMMA PhaseTyped ==
    ASSUME BoundaryTypeOK, NEW phase \in Phases, To(phase)
    PROVE  call' \in [request : Requests, event : Sent, attempt : 1 .. MaxAttempts,
                      phase : Phases]
BY DEF BoundaryTypeOK, To

LEMMA FailTyped ==
    ASSUME BoundaryTypeOK, Fail
    PROVE  /\ answers' \in Seq(Answers)
           /\ call' \in [request : Requests, event : Sent, attempt : 1 .. MaxAttempts,
                         phase : Phases]
<1>1. "gave_up" \in Kinds /\ "backoff" \in Phases
  BY DEF Kinds, Phases
<1>2. CASE call.attempt >= MaxAttempts
  BY <1>1, <1>2, AnswerTyped DEF Fail
<1>3. CASE ~(call.attempt >= MaxAttempts)
  <2>1. To("backoff") /\ answers' = answers
    BY <1>3 DEF Fail
  <2> QED
    BY <1>1, <2>1, PhaseTyped DEF BoundaryTypeOK
<1> QED
  BY <1>2, <1>3

LEMMA RecordTyped ==
    ASSUME BoundaryTypeOK, Record
    PROVE  remote' \in [own : BOOLEAN, pushed : BOOLEAN, written : Seq(Entries), runs : Seq(Nat)]
<1> DEFINE entry == [by |-> Current, tool |-> call.request.tool, event |-> call.event]
<1>1. Current \in Nat \ {0}
  BY DEF BoundaryTypeOK, Current
<1>2. call.request.tool \in Writes \cup {"review"} /\ call.event \in Sent
  BY DEF BoundaryTypeOK, Requests
<1>3. entry \in Entries
  BY <1>1, <1>2 DEF Entries
<1>4. remote' = [remote EXCEPT !.written = Append(@, entry)]
  BY DEF Record
<1> HIDE DEF entry
<1>5. Append(remote.written, entry) \in Seq(Entries)
  BY <1>3 DEF BoundaryTypeOK
<1> QED
  BY <1>4, <1>5 DEF BoundaryTypeOK

LEMMA OneMore ==
    ASSUME NEW counts \in Seq(Nat), NEW k
    PROVE  /\ [counts EXCEPT ![k] = @ + 1] \in Seq(Nat)
           /\ Len([counts EXCEPT ![k] = @ + 1]) = Len(counts)
           /\ \A i \in 1 .. Len(counts) :
                [counts EXCEPT ![k] = @ + 1][i] = IF i = k THEN counts[i] + 1 ELSE counts[i]
<1> DEFINE more == [counts EXCEPT ![k] = @ + 1]
<1>1. DOMAIN counts = 1 .. Len(counts) /\ Len(counts) \in Nat
  OBVIOUS
<1>2. more = [i \in 1 .. Len(counts) |-> IF i = k THEN counts[i] + 1 ELSE counts[i]]
  BY <1>1
<1>3. \A i \in 1 .. Len(counts) : counts[i] \in Nat
  OBVIOUS
<1>4. \A i \in 1 .. Len(counts) : more[i] \in Nat
                                  /\ more[i] = IF i = k THEN counts[i] + 1 ELSE counts[i]
  BY <1>2, <1>3
<1> HIDE DEF more
<1>5. more \in [1 .. Len(counts) -> Nat]
  BY <1>2, <1>4
<1>6. more \in Seq(Nat) /\ Len(more) = Len(counts)
  BY <1>1, <1>5, IsASeq, LenProperties
<1> QED
  BY <1>4, <1>6 DEF more

(* A call that backs off has an attempt left.                              *)
AttemptLeft == call.phase = "backoff" => call.attempt < MaxAttempts

LEMMA TypeStep == BoundaryTypeOK /\ AttemptLeft /\ [Next]_vars => BoundaryTypeOK'
<1> SUFFICES ASSUME BoundaryTypeOK, AttemptLeft, [Next]_vars PROVE BoundaryTypeOK'
  OBVIOUS
<1> DEFINE CallType == [request : Requests, event : Sent, attempt : 1 .. MaxAttempts,
                        phase : Phases]
           RemoteType == [own : BOOLEAN, pushed : BOOLEAN, written : Seq(Entries),
                          runs : Seq(Nat)]
<1>1. call \in CallType /\ remote \in RemoteType /\ answers \in Seq(Answers) /\ lost \in Seq(Nat)
  BY DEF BoundaryTypeOK
<1>2. SUFFICES call' \in CallType /\ remote' \in RemoteType
               /\ answers' \in Seq(Answers) /\ lost' \in Seq(Nat)
  BY DEF BoundaryTypeOK
<1> HIDE DEF CallType, RemoteType
<1>3. [lost EXCEPT ![Current] = @ + 1] \in Seq(Nat)
  BY OneMore DEF BoundaryTypeOK
<1>4. \A kind \in Kinds : Answer(kind) => answers' \in Seq(Answers) /\ call' \in CallType
  BY AnswerTyped DEF CallType
<1>5. \A phase \in Phases : To(phase) => call' \in CallType
  BY PhaseTyped DEF CallType
<1>6. Fail => answers' \in Seq(Answers) /\ call' \in CallType
  BY FailTyped DEF CallType
<1>7. Record => remote' \in RemoteType
  BY RecordTyped DEF RemoteType
<1>8. Kinds = {"ok", "downgraded", "refused", "malformed", "gave_up", "escaped"}
      /\ Phases = {"idle", "acquire", "request", "follow", "backoff"}
  BY DEF Kinds, Phases
<1>9. CASE UNCHANGED vars
  BY <1>1, <1>9 DEF vars
<1>10. ASSUME NEW request \in Requests, Invoke(request)
       PROVE  call' \in CallType /\ remote' \in RemoteType
              /\ answers' \in Seq(Answers) /\ lost' \in Seq(Nat)
  <2>1. request.event \in Sent
    BY DEF Requests, Sent
  <2>2. 1 \in 1 .. MaxAttempts
    BY Bounds
  <2>3. "acquire" \in Phases
    BY <1>8
  <2>4. call' \in CallType
    BY <1>10, <2>1, <2>2, <2>3 DEF Invoke, CallType
  <2>5. lost' \in Seq(Nat)
    BY <1>1, <1>10 DEF Invoke
  <2> QED
    BY <1>1, <1>10, <2>4, <2>5 DEF Invoke
<1>11. ASSUME NEW late \in 0 .. MaxLate, AcquireToken(late)
       PROVE  call' \in CallType /\ remote' \in RemoteType
              /\ answers' \in Seq(Answers) /\ lost' \in Seq(Nat)
  <2>1. "request" \in Phases
    BY <1>8
  <2>2. To("request") /\ UNCHANGED <<remote, answers, lost>>
    BY <1>11 DEF AcquireToken
  <2> QED
    BY <1>1, <1>5, <2>1, <2>2
<1>12. CASE Transient
  BY <1>1, <1>3, <1>6, <1>12 DEF Transient
<1>13. CASE Write
  <2>1. call.request.tool = "trigger_ci" => To("follow") /\ answers' = answers
    BY <1>13 DEF Write
  <2>2. call.request.tool # "trigger_ci" => Answer("ok") \/ Answer("downgraded")
    BY <1>13 DEF Write, Succeed
  <2>3. answers' \in Seq(Answers) /\ call' \in CallType
    BY <1>1, <1>4, <1>5, <1>8, <2>1, <2>2
  <2> QED
    BY <1>1, <1>7, <1>13, <2>3 DEF Write
<1>14. CASE LoseReply
  BY <1>1, <1>3, <1>6, <1>7, <1>14 DEF LoseReply
<1>15. CASE Reject
  BY <1>1, <1>3, <1>4, <1>8, <1>15 DEF Reject, EndUnretried
<1>16. CASE Escape
  BY <1>1, <1>3, <1>4, <1>7, <1>8, <1>16 DEF Escape, EndUnretried
<1>17. CASE Downgrade
  <2>1. 1 \in 1 .. MaxAttempts /\ "COMMENT" \in Sent
    BY Bounds DEF Sent, Events
  <2> QED
    BY <1>1, <1>8, <1>17, <2>1 DEF Downgrade, CallType
<1>18. CASE ReadRun
  <2>1. Answer("ok") \/ Answer("escaped")
    BY <1>18 DEF ReadRun
  <2> QED
    BY <1>1, <1>3, <1>4, <1>8, <1>18, <2>1 DEF ReadRun
<1>19. CASE BackOff
  <2>1. call.attempt \in 1 .. MaxAttempts /\ call.attempt < MaxAttempts
    BY <1>1, <1>19 DEF BackOff, AttemptLeft, CallType
  <2>2. call.attempt + 1 \in 1 .. MaxAttempts /\ "acquire" \in Phases
    BY <1>8, <2>1, Bounds
  <2>3. call' \in CallType
    BY <1>1, <1>19, <2>2 DEF BackOff, CallType
  <2> QED
    BY <1>1, <1>19, <2>3 DEF BackOff
<1>20. CASE TimePasses
  BY <1>1, <1>20 DEF TimePasses, boundaryVars
<1>21. CASE Push
  BY <1>1, <1>21 DEF Push, RemoteType
<1>22. CASE ListRun
  <2>1. PICK i \in DOMAIN remote.written :
            remote' = [remote EXCEPT !.runs = <<remote.written[i].by>> \o @]
    BY <1>22 DEF ListRun
  <2>2. remote.written \in Seq(Entries) /\ remote.runs \in Seq(Nat)
    BY <1>1 DEF RemoteType
  <2>3. remote.written[i].by \in Nat
    <3>1. remote.written[i] \in Entries
      BY <2>2
    <3>2. remote.written[i].by \in Nat \ {0}
      BY <3>1 DEF Entries
    <3> QED
      BY <3>2
  <2>4. <<remote.written[i].by>> \o remote.runs \in Seq(Nat)
    BY <2>2, <2>3
  <2>5. remote' \in RemoteType
    BY <1>1, <2>1, <2>4 DEF RemoteType
  <2> QED
    BY <1>1, <1>22, <2>5 DEF ListRun
<1> QED
  BY <1>9, <1>10, <1>11, <1>12, <1>13, <1>14, <1>15, <1>16, <1>17, <1>18, <1>19, <1>20,
     <1>21, <1>22 DEF Next, Work

LEMMA AttemptLeftStep == BoundaryTypeOK /\ AttemptLeft /\ [Next]_vars => AttemptLeft'
<1> SUFFICES ASSUME BoundaryTypeOK, AttemptLeft, [Next]_vars, call'.phase = "backoff"
             PROVE  call'.attempt < MaxAttempts
  BY DEF AttemptLeft
<1>1. /\ call \in [request : Requests, event : Sent, attempt : 1 .. MaxAttempts,
                   phase : Phases]
      /\ call.attempt \in Int /\ MaxAttempts \in Int
  BY Bounds DEF BoundaryTypeOK
<1>2. \A phase : To(phase) => call'.attempt = call.attempt /\ call'.phase = phase
  BY <1>1 DEF To
<1>3. \A kind : Answer(kind) => call'.phase = "idle"
  BY <1>2 DEF Answer
<1>4. Fail => call'.attempt < MaxAttempts
  <2>1. SUFFICES ASSUME Fail PROVE call'.attempt < MaxAttempts
    OBVIOUS
  <2>2. CASE call.attempt >= MaxAttempts
    BY <1>3, <2>1, <2>2 DEF Fail
  <2>3. CASE ~(call.attempt >= MaxAttempts)
    <3>1. call.attempt < MaxAttempts
      BY <1>1, <2>3
    <3>2. To("backoff")
      BY <2>1, <2>3 DEF Fail
    <3> QED
      BY <1>2, <3>1, <3>2
  <2> QED
    BY <2>2, <2>3
<1>5. CASE call' = call
  BY <1>5 DEF AttemptLeft
<1>6. CASE Transient \/ LoseReply
  BY <1>4, <1>6 DEF Transient, LoseReply
<1>7. CASE \/ \E request \in Requests : Invoke(request)
           \/ \E late \in 0 .. MaxLate : AcquireToken(late)
           \/ Write \/ Reject \/ Escape \/ ReadRun
  BY <1>2, <1>3, <1>7 DEF Invoke, AcquireToken, Write, Succeed, Reject, Escape,
                          EndUnretried, ReadRun
<1>8. CASE Downgrade \/ BackOff
  BY <1>1, <1>8 DEF Downgrade, BackOff
<1>9. [Next]_vars => call' = call \/ Transient \/ LoseReply
        \/ (\E request \in Requests : Invoke(request))
        \/ (\E late \in 0 .. MaxLate : AcquireToken(late))
        \/ Write \/ Reject \/ Escape \/ ReadRun \/ Downgrade \/ BackOff
  BY DEF Next, Work, vars, TimePasses, boundaryVars, Push, ListRun
<1> QED
  BY <1>5, <1>6, <1>7, <1>8, <1>9

LEMMA InitTyped == Init => BoundaryTypeOK /\ AttemptLeft
<1> SUFFICES ASSUME Init PROVE BoundaryTypeOK /\ AttemptLeft
  OBVIOUS
<1>1. 1 \in 1 .. MaxAttempts
  BY Bounds
<1>2. [tool |-> "create_pr", event |-> "none"] \in Requests /\ "none" \in Sent
      /\ "idle" \in Phases
  BY DEF Requests, Writes, Sent, Phases
<1>3. call \in [request : Requests, event : Sent, attempt : 1 .. MaxAttempts, phase : Phases]
      /\ call.phase = "idle"
  BY <1>1, <1>2 DEF Init
<1>4. <<>> \in Seq(Entries) /\ <<>> \in Seq(Nat) /\ <<0>> \in Seq(Nat)
      /\ <<>> \in Seq(Answers)
  OBVIOUS
<1>5. remote \in [own : BOOLEAN, pushed : BOOLEAN, written : Seq(Entries), runs : Seq(Nat)]
  BY <1>4 DEF Init
<1>6. answers \in Seq(Answers) /\ lost \in Seq(Nat)
  BY <1>4 DEF Init
<1> QED
  BY <1>3, <1>5, <1>6 DEF BoundaryTypeOK, AttemptLeft

(* The variables of the boundary and of the bucket keep their types.       *)
THEOREM CallsTyped == Spec => []CallsTypeOK
<1>1. BucketInv /\ BoundaryTypeOK => CallsTypeOK
  BY DEF BucketInv, BoundaryTypeOK, CallsTypeOK
<1>2. Init => BucketInv
  BY InitBucketInv DEF Init
<1> QED
  BY <1>1, <1>2, InitTyped, TypeStep, AttemptLeftStep, StepUsesBucket, NextKeepsInv, PTL
     DEF Spec

-----------------------------------------------------------------------------
LEMMA GaveUpStep ==
    BoundaryTypeOK /\ GaveUpExhausted /\ [Next]_vars => GaveUpExhausted'
<1> SUFFICES ASSUME BoundaryTypeOK, GaveUpExhausted, [Next]_vars PROVE GaveUpExhausted'
  OBVIOUS
<1>1. answers \in Seq(Answers) /\ call.attempt \in 1 .. MaxAttempts /\ MaxAttempts \in Nat
  BY Bounds DEF BoundaryTypeOK
<1>2. CASE answers' = answers
  BY <1>2 DEF GaveUpExhausted
<1>3. ASSUME NEW kind, Answer(kind), kind = "gave_up" => call.attempt = MaxAttempts
      PROVE  GaveUpExhausted'
  <2> DEFINE latest == [request |-> call.request, kind |-> kind, event |-> call.event,
                       attempts |-> call.attempt]
  <2>1. answers' = Append(answers, latest)
    BY <1>3 DEF Answer
  <2>2. latest.kind = "gave_up" => latest.attempts = MaxAttempts
    BY <1>3
  <2> HIDE DEF latest
  <2>3. DOMAIN answers' = 1 .. Len(answers) + 1 /\ Len(answers) \in Nat
        /\ answers'[Len(answers) + 1] = latest
        /\ \A k \in 1 .. Len(answers) : answers'[k] = answers[k] /\ k \in DOMAIN answers
    BY <1>1, <2>1
  <2>4. \A k \in DOMAIN answers' : k = Len(answers) + 1 \/ k \in 1 .. Len(answers)
    BY <2>3
  <2> QED
    BY <2>2, <2>3, <2>4 DEF GaveUpExhausted
<1>4. Fail => answers' = answers \/ (Answer("gave_up") /\ call.attempt >= MaxAttempts)
  BY DEF Fail
<1>5. call.attempt >= MaxAttempts => call.attempt = MaxAttempts
  BY <1>1
<1>6. CASE Transient \/ LoseReply
  BY <1>2, <1>3, <1>4, <1>5, <1>6 DEF Transient, LoseReply
<1>7. \A kind \in {"ok", "downgraded", "refused", "malformed", "escaped"} :
          Answer(kind) => GaveUpExhausted'
  BY <1>3
<1>8. CASE Write
  <2>1. answers' = answers \/ Answer("ok") \/ Answer("downgraded")
    BY <1>8 DEF Write, Succeed
  <2> QED
    BY <1>2, <1>7, <2>1
<1>9. CASE Reject \/ Escape
  <2>1. Answer("refused") \/ Answer("malformed") \/ Answer("escaped")
    BY <1>9 DEF Reject, Escape, EndUnretried
  <2> QED
    BY <1>7, <2>1
<1>10. CASE ReadRun
  <2>1. Answer("ok") \/ Answer("escaped")
    BY <1>10 DEF ReadRun
  <2> QED
    BY <1>7, <2>1
<1>11. answers' = answers \/ Transient \/ LoseReply \/ Write \/ Reject \/ Escape \/ ReadRun
  BY DEF Next, Work, vars, Invoke, AcquireToken, Downgrade, BackOff, TimePasses, boundaryVars,
         Push, ListRun
<1> QED
  BY <1>2, <1>6, <1>8, <1>9, <1>10, <1>11

(* No tool gives up on a transient failure with an attempt left.           *)
THEOREM NeverGivesUpEarly == Spec => []GaveUpExhausted
<1>1. Init => GaveUpExhausted
  BY DEF Init, GaveUpExhausted
<1> QED
  BY <1>1, InitTyped, TypeStep, AttemptLeftStep, GaveUpStep, PTL DEF Spec

-----------------------------------------------------------------------------
(* The accounts that are kept while a call is in progress: nothing is      *)
(* written in the name of a call to come, and what the current one wrote   *)
(* is what its failed attempts wrote, and its dispatch not yet read back.  *)
Pending == IF call.phase = "follow" THEN 1 ELSE 0
Written(k) == Cardinality(WrittenBy(k))
Success(kind) == IF kind \in {"ok", "downgraded"} THEN 1 ELSE 0

Accounts ==
    /\ Len(lost) = Len(answers) + (IF Busy THEN 1 ELSE 0)
    /\ \A i \in DOMAIN remote.written : remote.written[i].by <= Len(lost)
    /\ \A k \in 1 .. Len(answers) : Written(k) = lost[k] + Success(answers[k].kind)
    /\ Busy => Written(Current) = lost[Current] + Pending

LEMMA AccountsSuffice == BoundaryTypeOK /\ Accounts => WritesAccounted
BY DEF BoundaryTypeOK, Accounts, WritesAccounted, Written, Success, Succeeded

LEMMA WrittenFinite ==
    ASSUME BoundaryTypeOK, NEW k
    PROVE  IsFiniteSet(WrittenBy(k)) /\ Written(k) \in Nat
<1>1. DOMAIN remote.written = 1 .. Len(remote.written) /\ Len(remote.written) \in Nat
  BY DEF BoundaryTypeOK
<1>2. IsFiniteSet(1 .. Len(remote.written))
  BY <1>1, FS_Interval
<1>3. WrittenBy(k) \subseteq 1 .. Len(remote.written)
  BY <1>1 DEF WrittenBy
<1>4. IsFiniteSet(WrittenBy(k))
  BY <1>2, <1>3, FS_Subset
<1> QED
  BY <1>4, FS_CardinalityType DEF Written

(* A write is counted for the call in progress, and for no other.          *)
LEMMA RecordCounts ==
    ASSUME BoundaryTypeOK, Record, NEW k
    PROVE  Written(k)' = IF k = Current THEN Written(k) + 1 ELSE Written(k)
<1> DEFINE entry == [by |-> Current, tool |-> call.request.tool, event |-> call.event]
           n == Len(remote.written)
<1>1. remote.written \in Seq(Entries) /\ n \in Nat /\ DOMAIN remote.written = 1 .. n
  BY DEF BoundaryTypeOK
<1>2. remote'.written = Append(remote.written, entry)
  BY DEF Record, BoundaryTypeOK
<1>3. entry.by = Current
  OBVIOUS
<1> HIDE DEF entry
<1>4. /\ DOMAIN remote'.written = 1 .. n + 1
      /\ remote'.written[n + 1] = entry
      /\ \A i \in 1 .. n : remote'.written[i] = remote.written[i]
  BY <1>1, <1>2
<1> HIDE DEF n
<1>5. WrittenBy(k)' = {i \in 1 .. n + 1 : remote'.written[i].by = k}
      /\ WrittenBy(k) = {i \in 1 .. n : remote.written[i].by = k}
  BY <1>1, <1>4 DEF WrittenBy
<1>6. n + 1 \notin WrittenBy(k) /\ \A i : i \in 1 .. n + 1 <=> i \in 1 .. n \/ i = n + 1
  BY <1>1, <1>5
<1>7. CASE k = Current
  <2>1. WrittenBy(k)' = WrittenBy(k) \cup {n + 1}
    BY <1>3, <1>4, <1>5, <1>6, <1>7
  <2> QED
    BY <1>6, <1>7, <2>1, WrittenFinite, FS_AddElement DEF Written
<1>8. CASE k # Current
  <2>1. WrittenBy(k)' = WrittenBy(k)
    BY <1>3, <1>4, <1>5, <1>6, <1>8
  <2> QED
    BY <1>8, <2>1 DEF Written
<1> QED
  BY <1>7, <1>8

LEMMA NoRecordCounts ==
    ASSUME remote'.written = remote.written, NEW k
    PROVE  Written(k)' = Written(k)
<1>1. WrittenBy(k)' = WrittenBy(k)
  BY DEF WrittenBy
<1> QED
  BY <1>1 DEF Written

(* A step of the call in progress keeps the accounts if what it writes and *)
(* what was pending is what it loses, leaves pending or reports a success. *)
Wrote(written) ==
    /\ written = 1 => Record
    /\ written = 0 => remote'.written = remote.written
Lose(more) == lost' = IF more = 1 THEN [lost EXCEPT ![Current] = @ + 1] ELSE lost

LEMMA Balanced ==
    ASSUME BoundaryTypeOK, Accounts, Busy,
           NEW written \in {0, 1}, NEW more \in {0, 1}, Wrote(written), Lose(more),
           \/ answers' = answers /\ Busy' /\ written + Pending = more + Pending'
           \/ \E kind \in Kinds : Answer(kind) /\ written + Pending = more + Success(kind)
    PROVE  Accounts'
<1> DEFINE n == Len(answers)
<1>0. PICK k : k = Current
  OBVIOUS
<1>1. /\ n \in Nat /\ k = n + 1 /\ lost \in Seq(Nat) /\ Len(lost) = n + 1
      /\ DOMAIN answers = 1 .. n /\ answers \in Seq(Answers)
  BY <1>0 DEF BoundaryTypeOK, Accounts, Current
<1>2. /\ \A i \in 1 .. n + 1 : lost[i] \in Nat
      /\ Len(lost') = n + 1
      /\ \A i \in 1 .. n + 1 : lost'[i] = IF i = k /\ more = 1 THEN lost[i] + 1 ELSE lost[i]
  BY <1>0, <1>1, OneMore DEF Lose
<1>3. \A i : Written(i)' = (IF i = k /\ written = 1 THEN Written(i) + 1 ELSE Written(i))
           /\ Written(i) \in Nat
  <2> TAKE i
  <2>1. CASE written = 1
    BY <1>0, <2>1, RecordCounts, WrittenFinite DEF Wrote
  <2>2. CASE written = 0
    BY <2>2, NoRecordCounts, WrittenFinite DEF Wrote
  <2> QED
    BY <2>1, <2>2
<1>4. Written(k) = lost[k] + Pending /\ Pending \in {0, 1}
  BY <1>0 DEF Accounts, Pending
<1>5. Written(k)' + more = lost'[k] + Pending + written
  <2>1. Written(k)' = Written(k) + written
    <3>1. Written(k) \in Nat
      BY <1>3
    <3>2. CASE written = 1
      BY <1>3, <3>2
    <3>3. CASE written = 0
      BY <1>3, <3>1, <3>3
    <3> QED
      BY <3>2, <3>3
  <2>2. lost'[k] = lost[k] + more
    BY <1>1, <1>2
  <2>3. lost[k] \in Nat /\ Written(k) \in Nat
    BY <1>1, <1>2, <1>3
  <2> QED
    BY <1>4, <2>1, <2>2, <2>3
<1>6. \A i \in 1 .. n : Written(i)' = lost'[i] + Success(answers[i].kind)
  <2> TAKE i \in 1 .. n
  <2>1. i # k /\ i \in 1 .. n + 1
    BY <1>1
  <2>2. Written(i) = lost[i] + Success(answers[i].kind)
    BY DEF Accounts
  <2> QED
    BY <1>2, <1>3, <2>1, <2>2
<1>7. \A i \in DOMAIN remote'.written : remote'.written[i].by <= n + 1
  <2>1. \A i \in DOMAIN remote.written : remote.written[i].by <= n + 1
    BY <1>1 DEF Accounts
  <2>2. CASE written = 0
    BY <2>1, <2>2 DEF Wrote
  <2>3. CASE written = 1
    <3> DEFINE entry == [by |-> Current, tool |-> call.request.tool, event |-> call.event]
    <3>1. remote'.written = Append(remote.written, entry)
      BY <2>3 DEF Wrote, Record, BoundaryTypeOK
    <3>2. entry.by = n + 1
      BY <1>0, <1>1
    <3> HIDE DEF entry
    <3>3. remote.written \in Seq(Entries)
      BY DEF BoundaryTypeOK
    <3>4. \A i \in DOMAIN remote'.written :
              remote'.written[i] = entry
              \/ (i \in DOMAIN remote.written /\ remote'.written[i] = remote.written[i])
      BY <3>1, <3>3
    <3> QED
      BY <1>1, <2>1, <3>2, <3>4
  <2> QED
    BY <2>2, <2>3
<1>8. Written(k)' \in Nat /\ lost'[k] \in Nat
  BY <1>1, <1>2, <1>3
<1>9. CASE answers' = answers /\ Busy' /\ written + Pending = more + Pending'
  <2>1. Current' = k /\ Len(answers') = n /\ Pending' \in {0, 1}
    BY <1>0, <1>9 DEF Current, Pending
  <2>2. Written(k)' = lost'[k] + Pending'
    BY <1>4, <1>5, <1>8, <1>9, <2>1
  <2>3. (Written(Current) = lost[Current] + Pending)'
    BY <2>1, <2>2
  <2> QED
    BY <1>1, <1>2, <1>6, <1>7, <1>9, <2>1, <2>3 DEF Accounts
<1>10. ASSUME NEW kind \in Kinds, Answer(kind), written + Pending = more + Success(kind)
       PROVE  Accounts'
  <2> DEFINE latest == [request |-> call.request, kind |-> kind, event |-> call.event,
                        attempts |-> call.attempt]
  <2>1. answers' = Append(answers, latest) /\ latest.kind = kind
    BY <1>10 DEF Answer
  <2>2. call'.phase = "idle"
    BY <1>10 DEF Answer, To, BoundaryTypeOK
  <2> HIDE DEF latest
  <2>3. /\ Len(answers') = n + 1 /\ answers'[n + 1] = latest
        /\ \A i \in 1 .. n : answers'[i] = answers[i]
    <3>1. answers \in Seq(Answers) /\ n = Len(answers) /\ n \in Nat
      BY <1>1
    <3> HIDE DEF n
    <3> QED
      BY <2>1, <3>1
  <2>4. Success(kind) \in {0, 1}
    BY DEF Success
  <2>5. Written(k)' = lost'[k] + Success(kind)
    BY <1>4, <1>5, <1>8, <1>10, <2>4
  <2>6. \A i \in 1 .. n + 1 : Written(i)' = lost'[i] + Success(answers'[i].kind)
    <3> TAKE i \in 1 .. n + 1
    <3>1. CASE i = n + 1
      <4>1. i = k /\ answers'[i].kind = kind
        BY <1>1, <2>1, <2>3, <3>1
      <4> QED
        BY <2>5, <4>1
    <3>2. CASE i # n + 1
      <4>1. i \in 1 .. n
        BY <1>1, <3>2
      <4> QED
        BY <1>6, <2>3, <4>1
    <3> QED
      BY <3>1, <3>2
  <2>7. ~Busy'
    BY <2>2 DEF Busy
  <2> QED
    BY <1>1, <1>2, <1>7, <2>3, <2>6, <2>7 DEF Accounts, Success
<1> QED
  BY <1>9, <1>10

(* The phases and answers a step leads to, for the accounts.               *)
LEMMA Outcomes ==
    ASSUME BoundaryTypeOK
    PROVE  /\ \A phase : To(phase) => call'.phase = phase
           /\ Fail => \/ Answer("gave_up")
                      \/ answers' = answers /\ call'.phase = "backoff"
           /\ Succeed => Answer("ok") \/ Answer("downgraded")
           /\ \A phase : phase # "idle" /\ phase # "follow" /\ call'.phase = phase
                => Busy' /\ Pending' = 0
           /\ call'.phase = "follow" => Busy' /\ Pending' = 1
           /\ Success("ok") = 1 /\ Success("downgraded") = 1 /\ Success("refused") = 0
           /\ Success("malformed") = 0 /\ Success("gave_up") = 0 /\ Success("escaped") = 0
           /\ {"ok", "downgraded", "refused", "malformed", "gave_up", "escaped"} = Kinds
           /\ call.phase = "follow" => Pending = 1
           /\ call.phase # "follow" => Pending = 0
<1>1. \A phase : To(phase) => call'.phase = phase
  BY DEF To, BoundaryTypeOK
<1> QED
  BY <1>1 DEF Fail, Succeed, Busy, Pending, Success, Kinds

LEMMA AccountsStep == BoundaryTypeOK /\ Accounts /\ [Next]_vars => Accounts'
<1> SUFFICES ASSUME BoundaryTypeOK, Accounts, [Next]_vars PROVE Accounts'
  OBVIOUS
<1>1. CASE \/ UNCHANGED <<lost, answers, remote>> /\ Busy' = Busy /\ Pending' = Pending
           \/ /\ UNCHANGED <<lost, answers>> /\ remote'.written = remote.written
              /\ Busy' = Busy /\ Pending' = Pending
  <2>1. remote'.written = remote.written /\ lost' = lost /\ answers' = answers
    BY <1>1
  <2>2. Current' = Current
    BY <2>1 DEF Current
  <2>3. \A k : Written(k)' = Written(k)
    BY <2>1, NoRecordCounts
  <2>4. (Written(Current))' = Written(Current)
    BY <2>1, <2>2 DEF Written, WrittenBy
  <2> QED
    BY <1>1, <2>1, <2>2, <2>3, <2>4 DEF Accounts
<1>2. ASSUME NEW request \in Requests, Invoke(request)
      PROVE  Accounts'
  <2> DEFINE n == Len(answers)
  <2>1. /\ n \in Nat /\ lost \in Seq(Nat) /\ Len(lost) = n
        /\ \A i \in DOMAIN remote.written : remote.written[i].by <= n
        /\ \A k \in 1 .. n : Written(k) = lost[k] + Success(answers[k].kind)
    BY <1>2 DEF Invoke, Accounts, BoundaryTypeOK
  <2>2. /\ remote' = remote /\ answers' = answers /\ lost' = Append(lost, 0)
        /\ call'.phase = "acquire"
    BY <1>2 DEF Invoke
  <2>3. Busy' /\ Pending' = 0 /\ Current' = n + 1
    BY <2>2 DEF Busy, Pending, Current
  <2>4. \A k : Written(k)' = Written(k)
    BY <2>2, NoRecordCounts
  <2>5. /\ Len(lost') = n + 1 /\ lost'[n + 1] = 0
        /\ \A k \in 1 .. n : lost'[k] = lost[k]
    BY <2>1, <2>2
  <2>6. Written(n + 1) = 0
    <3>1. remote.written \in Seq(Entries)
      BY DEF BoundaryTypeOK
    <3>2. \A i \in DOMAIN remote.written : remote.written[i].by \in Nat \ {0}
      <4> TAKE i \in DOMAIN remote.written
      <4>1. remote.written[i] \in Entries
        BY <3>1
      <4> QED
        BY <4>1 DEF Entries
    <3>3. \A i \in DOMAIN remote.written : remote.written[i].by # n + 1
      BY <2>1, <3>2
    <3>4. WrittenBy(n + 1) = {}
      BY <3>3 DEF WrittenBy
    <3> QED
      BY <3>4, FS_EmptySet DEF Written
  <2>7. (Written(Current) = lost[Current] + Pending)'
    <3>1. PICK k : k = n + 1
      OBVIOUS
    <3>2. Written(k)' = 0
      BY <2>4, <2>6, <3>1
    <3>3. lost'[k] + Pending' = 0
      BY <2>3, <2>5, <3>1
    <3> QED
      BY <2>3, <3>1, <3>2, <3>3
  <2>8. \A i \in DOMAIN remote'.written : remote'.written[i].by <= n + 1
    <3>1. \A i \in DOMAIN remote.written : remote.written[i].by \in Nat
      <4> TAKE i \in DOMAIN remote.written
      <4>1. remote.written[i] \in Entries
        BY DEF BoundaryTypeOK
      <4> QED
        BY <4>1 DEF Entries
    <3> QED
      BY <2>1, <2>2, <3>1
  <2> QED
    BY <2>1, <2>2, <2>3, <2>4, <2>5, <2>7, <2>8 DEF Accounts
<1>3. ASSUME NEW late \in 0 .. MaxLate, AcquireToken(late)
      PROVE  Accounts'
  <2>1. call.phase = "acquire" /\ call'.phase = "request"
        /\ UNCHANGED <<lost, answers, remote>>
    BY <1>3, Outcomes DEF AcquireToken
  <2> QED
    BY <1>1, <2>1 DEF Busy, Pending
<1>4. CASE Transient
  <2>1. Busy /\ Wrote(0) /\ Lose(Pending) /\ Pending \in {0, 1}
    BY <1>4 DEF Transient, Busy, Wrote, Lose, Pending
  <2>2. \/ answers' = answers /\ Busy' /\ Pending' = 0
        \/ Answer("gave_up")
    BY <1>4, Outcomes DEF Transient
  <2>3. \/ answers' = answers /\ Busy' /\ 0 + Pending = Pending + Pending'
        \/ Answer("gave_up") /\ 0 + Pending = Pending + Success("gave_up")
    BY <2>1, <2>2, Outcomes
  <2> QED
    BY <2>1, <2>3, Outcomes, Balanced
<1>5. CASE Write
  <2>1. Busy /\ Wrote(1) /\ Lose(0) /\ Pending = 0
    BY <1>5 DEF Write, Busy, Wrote, Lose, Pending
  <2>2. \/ answers' = answers /\ Busy' /\ Pending' = 1
        \/ Answer("ok") \/ Answer("downgraded")
    BY <1>5, Outcomes DEF Write
  <2>3. \/ answers' = answers /\ Busy' /\ 1 + Pending = 0 + Pending'
        \/ \E kind \in Kinds : Answer(kind) /\ 1 + Pending = 0 + Success(kind)
    BY <2>1, <2>2, Outcomes
  <2> QED
    BY <2>1, <2>3, Balanced
<1>6. CASE LoseReply
  <2>1. Busy /\ Wrote(1) /\ Lose(1) /\ Pending = 0
    BY <1>6 DEF LoseReply, Busy, Wrote, Lose, Pending
  <2>2. \/ answers' = answers /\ Busy' /\ Pending' = 0
        \/ Answer("gave_up")
    BY <1>6, Outcomes DEF LoseReply
  <2>3. \/ answers' = answers /\ Busy' /\ 1 + Pending = 1 + Pending'
        \/ \E kind \in Kinds : Answer(kind) /\ 1 + Pending = 1 + Success(kind)
    BY <2>1, <2>2, Outcomes
  <2> QED
    BY <2>1, <2>3, Balanced
<1>7. CASE Reject
  <2>1. Busy /\ Wrote(0) /\ Lose(Pending) /\ Pending \in {0, 1}
    BY <1>7 DEF Reject, EndUnretried, Busy, Wrote, Lose, Pending
  <2>2. Answer("refused") \/ Answer("malformed")
    BY <1>7 DEF Reject, EndUnretried
  <2>3. \E kind \in Kinds : Answer(kind) /\ 0 + Pending = Pending + Success(kind)
    BY <2>1, <2>2, Outcomes
  <2> QED
    BY <2>1, <2>3, Balanced
<1>8. CASE Escape
  <2>1. Busy /\ Answer("escaped") /\ Pending \in {0, 1}
    BY <1>8 DEF Escape, EndUnretried, Busy, Pending
  <2>2. \/ Wrote(0) /\ Lose(Pending)
        \/ Wrote(1) /\ Lose(1) /\ Pending = 0
    BY <1>8 DEF Escape, EndUnretried, Wrote, Lose, Pending
  <2>3. \E kind \in Kinds : Answer(kind) /\ 0 + Pending = Pending + Success(kind)
    BY <2>1, Outcomes
  <2>4. Pending = 0 =>
          \E kind \in Kinds : Answer(kind) /\ 1 + Pending = 1 + Success(kind)
    BY <2>1, Outcomes
  <2>5. CASE Wrote(0) /\ Lose(Pending)
    BY <2>1, <2>3, <2>5, Balanced
  <2>6. CASE Wrote(1) /\ Lose(1) /\ Pending = 0
    BY <2>1, <2>4, <2>6, Balanced
  <2> QED
    BY <2>2, <2>5, <2>6
<1>9. CASE Downgrade
  <2>1. call.phase = "request" /\ call'.phase = "acquire"
        /\ UNCHANGED <<lost, answers, remote>>
    BY <1>9 DEF Downgrade, BoundaryTypeOK
  <2> QED
    BY <1>1, <2>1 DEF Busy, Pending
<1>10. CASE ReadRun
  <2>1. Busy /\ Wrote(0) /\ Pending = 1
    BY <1>10 DEF ReadRun, Busy, Wrote, Pending
  <2>2. \/ Answer("escaped") /\ Lose(1)
        \/ Answer("ok") /\ Lose(0)
    BY <1>10 DEF ReadRun, Lose
  <2>3. CASE Answer("escaped") /\ Lose(1)
    <3>1. \E kind \in Kinds : Answer(kind) /\ 0 + Pending = 1 + Success(kind)
      BY <2>1, <2>3, Outcomes
    <3> QED
      BY <2>1, <2>3, <3>1, Balanced
  <2>4. CASE Answer("ok") /\ Lose(0)
    <3>1. \E kind \in Kinds : Answer(kind) /\ 0 + Pending = 0 + Success(kind)
      BY <2>1, <2>4, Outcomes
    <3> QED
      BY <2>1, <2>4, <3>1, Balanced
  <2> QED
    BY <2>2, <2>3, <2>4
<1>11. CASE BackOff
  <2>1. call.phase = "backoff" /\ call'.phase = "acquire"
        /\ UNCHANGED <<lost, answers, remote>>
    BY <1>11 DEF BackOff, BoundaryTypeOK
  <2> QED
    BY <1>1, <2>1 DEF Busy, Pending
<1>12. CASE TimePasses \/ UNCHANGED vars
  <2>1. UNCHANGED <<call, lost, answers, remote>>
    BY <1>12 DEF TimePasses, boundaryVars, vars
  <2> QED
    BY <1>1, <2>1 DEF Busy, Pending
<1>13. CASE Push \/ ListRun
  <2>1. UNCHANGED <<call, lost, answers>> /\ remote'.written = remote.written
    BY <1>13 DEF Push, ListRun, BoundaryTypeOK
  <2> QED
    BY <1>1, <2>1 DEF Busy, Pending
<1> QED
  BY <1>2, <1>3, <1>4, <1>5, <1>6, <1>7, <1>8, <1>9, <1>10, <1>11, <1>12, <1>13 DEF Next, Work

(* What the remote holds of every call is what its answer claims and what  *)
(* its failed attempts left: nothing is written in silence, or claimed and *)
(* not written, however often replies are lost.                            *)
THEOREM WritesMatchAnswers == Spec => []WritesAccounted
<1>1. Init => Accounts
  <2> SUFFICES ASSUME Init PROVE Accounts
    OBVIOUS
  <2>1. ~Busy /\ answers = <<>> /\ lost = <<>> /\ remote.written = <<>>
    BY DEF Init, Busy
  <2> QED
    BY <2>1 DEF Accounts
<1> QED
  BY <1>1, InitTyped, TypeStep, AttemptLeftStep, AccountsStep, AccountsSuffice, PTL DEF Spec

-----------------------------------------------------------------------------
(* What the remote holds of a review, answered or in progress, all carries *)
(* the event it was last submitted with: on one's own pull request that can*)
(* only be a comment, so a verdict that degrades has left nothing before.  *)
Degraded(asked, event) == remote.own /\ asked # "COMMENT" /\ event = "COMMENT"

Posted(k, asked, event) ==
    /\ event = asked \/ Degraded(asked, event)
    /\ \A i \in DOMAIN remote.written :
        remote.written[i].by = k =>
            /\ remote.written[i].event = event
            /\ remote.own => event = "COMMENT"

Reported(answer) ==
    /\ answer.kind = "ok" => answer.event = answer.request.event
    /\ answer.kind = "downgraded" => answer.event # answer.request.event

IsReview(request) == request.tool = "review"

ReviewInv ==
    /\ call.phase = "follow" => ~IsReview(call.request)
    /\ Busy /\ IsReview(call.request) => Posted(Current, call.request.event, call.event)
    /\ \A k \in 1 .. Len(answers) : IsReview(answers[k].request) =>
        Posted(k, answers[k].request.event, answers[k].event) /\ Reported(answers[k])

LEMMA ReviewSuffices ==
    BoundaryTypeOK /\ Accounts /\ ReviewInv => ReviewTruthful
<1> SUFFICES ASSUME BoundaryTypeOK, Accounts, ReviewInv,
                    NEW k \in DOMAIN answers, answers[k].request.tool = "review"
             PROVE  LET asked == answers[k].request.event
                        sent == {remote.written[i].event : i \in WrittenBy(k)}
                    IN  /\ sent \subseteq {answers[k].event}
                        /\ answers[k].kind = "ok" => sent = {asked}
                        /\ answers[k].kind = "downgraded" =>
                                remote.own /\ asked # "COMMENT" /\ sent = {"COMMENT"}
  BY DEF ReviewTruthful
<1> DEFINE asked == answers[k].request.event
           event == answers[k].event
           sent == {remote.written[i].event : i \in WrittenBy(k)}
<1>1. k \in 1 .. Len(answers)
  BY DEF BoundaryTypeOK
<1>2. Posted(k, asked, event) /\ Reported(answers[k])
  BY <1>1 DEF ReviewInv, IsReview
<1>3. \A i \in WrittenBy(k) : remote.written[i].event = event
  BY <1>2 DEF Posted, WrittenBy
<1>4. answers[k].kind \in {"ok", "downgraded"} => WrittenBy(k) # {}
  <2> SUFFICES ASSUME answers[k].kind \in {"ok", "downgraded"} PROVE WrittenBy(k) # {}
    OBVIOUS
  <2>1. Written(k) = lost[k] + 1
    BY <1>1 DEF Accounts, Success
  <2>2. k \in 1 .. Len(lost) /\ lost \in Seq(Nat)
    BY <1>1 DEF Accounts, BoundaryTypeOK
  <2>3. Written(k) # 0
    BY <2>1, <2>2
  <2> QED
    BY <2>3, FS_EmptySet DEF Written
<1>5. answers[k].kind \in {"ok", "downgraded"} => sent = {event}
  BY <1>3, <1>4
<1> QED
  BY <1>2, <1>3, <1>5 DEF Posted, Reported, Degraded

(* A write adds one entry of the call in progress with its event.          *)
LEMMA RecordAdds ==
    ASSUME BoundaryTypeOK, Record
    PROVE  /\ remote'.own = remote.own
           /\ \A i \in DOMAIN remote'.written :
                \/ i \in DOMAIN remote.written /\ remote'.written[i] = remote.written[i]
                \/ remote'.written[i].by = Current /\ remote'.written[i].event = call.event
<1> DEFINE entry == [by |-> Current, tool |-> call.request.tool, event |-> call.event]
<1>1. remote.written \in Seq(Entries)
  BY DEF BoundaryTypeOK
<1>2. remote' = [remote EXCEPT !.written = Append(@, entry)]
  BY DEF Record
<1>3. remote'.written = Append(remote.written, entry) /\ remote'.own = remote.own
  BY <1>2 DEF BoundaryTypeOK
<1>4. entry.by = Current /\ entry.event = call.event
  OBVIOUS
<1> HIDE DEF entry
<1>5. \A i \in DOMAIN remote'.written :
          \/ i \in DOMAIN remote.written /\ remote'.written[i] = remote.written[i]
          \/ remote'.written[i] = entry
  BY <1>1, <1>3
<1> QED
  BY <1>3, <1>4, <1>5

(* A step that writes nothing, or writes for the call in progress what is  *)
(* not refused, disturbs no review.                                        *)
Taken ==
    \/ remote'.written = remote.written /\ remote'.own = remote.own
    \/ Record /\ ~OwnBlock

LEMMA PostedStays ==
    ASSUME BoundaryTypeOK, Taken, NEW k, NEW asked, NEW event, Posted(k, asked, event),
           k # Current \/ (event = call.event /\ IsReview(call.request))
    PROVE  Posted(k, asked, event)'
<1>1. CASE remote'.written = remote.written /\ remote'.own = remote.own
  BY <1>1 DEF Posted, Degraded
<1>2. CASE Record /\ ~OwnBlock
  <2>1. k = Current /\ remote.own => event = "COMMENT"
    BY <1>2 DEF OwnBlock, IsReview
  <2> QED
    BY <1>2, <2>1, RecordAdds DEF Posted, Degraded
<1> QED
  BY <1>1, <1>2 DEF Taken

LEMMA ReviewGoesOn ==
    ASSUME BoundaryTypeOK, ReviewInv, Busy, Taken, answers' = answers,
           call'.request = call.request, call'.event = call.event,
           call'.phase = "follow" => ~IsReview(call.request)
    PROVE  ReviewInv'
<1>1. Current' = Current /\ Len(answers) \in Nat
  BY DEF Current, BoundaryTypeOK
<1>2. \A k \in 1 .. Len(answers) : k # Current
  BY <1>1 DEF Current
<1>3. \A k \in 1 .. Len(answers) : IsReview(answers[k].request) =>
        Posted(k, answers[k].request.event, answers[k].event)' /\ Reported(answers[k])'
  <2> SUFFICES ASSUME NEW k \in 1 .. Len(answers), IsReview(answers[k].request)
               PROVE  Posted(k, answers[k].request.event, answers[k].event)'
                      /\ Reported(answers[k])'
    BY DEF IsReview
  <2>1. Posted(k, answers[k].request.event, answers[k].event) /\ Reported(answers[k])
    BY DEF ReviewInv
  <2>2. remote'.own = remote.own
    BY RecordAdds DEF Taken
  <2>3. PICK asked, event : asked = answers[k].request.event /\ event = answers[k].event
    OBVIOUS
  <2>4. Posted(k, asked, event)'
    BY <1>2, <2>1, <2>3, PostedStays
  <2> QED
    BY <2>1, <2>2, <2>3, <2>4 DEF Reported, Posted, Degraded
<1>4. IsReview(call.request) => Posted(Current, call.request.event, call.event)'
  <2> SUFFICES ASSUME IsReview(call.request)
               PROVE  Posted(Current, call.request.event, call.event)'
    BY DEF IsReview
  <2>1. PICK k, asked, event :
            k = Current /\ asked = call.request.event /\ event = call.event
    OBVIOUS
  <2>2. Posted(k, asked, event)
    BY <2>1 DEF ReviewInv
  <2>3. Posted(k, asked, event)'
    BY <2>1, <2>2, PostedStays
  <2> QED
    BY <1>1, <2>1, <2>3 DEF Posted, Degraded
<1> QED
  BY <1>3, <1>4 DEF ReviewInv, IsReview

LEMMA ReviewEnds ==
    ASSUME BoundaryTypeOK, ReviewInv, Busy, Taken, NEW kind, Answer(kind),
           IsReview(call.request) =>
               /\ kind = "ok" => call.event = call.request.event
               /\ kind = "downgraded" => call.event # call.request.event
    PROVE  ReviewInv'
<1> DEFINE latest == [request |-> call.request, kind |-> kind, event |-> call.event,
                      attempts |-> call.attempt]
           n == Len(answers)
<1>1. answers' = Append(answers, latest) /\ call'.phase = "idle"
  BY DEF Answer, To, BoundaryTypeOK
<1>2. latest.request = call.request /\ latest.kind = kind /\ latest.event = call.event
  OBVIOUS
<1> HIDE DEF latest
<1>3. /\ n \in Nat /\ Len(answers') = n + 1 /\ answers'[n + 1] = latest
      /\ \A k \in 1 .. n : answers'[k] = answers[k]
  BY <1>1 DEF BoundaryTypeOK
<1>4. remote'.own = remote.own
  BY RecordAdds DEF Taken
<1>5. ASSUME NEW k \in 1 .. n + 1, IsReview(answers'[k].request)
      PROVE  (Posted(k, answers[k].request.event, answers[k].event) /\ Reported(answers[k]))'
  <2>1. PICK asked, event : asked = answers'[k].request.event /\ event = answers'[k].event
    OBVIOUS
  <2>2. CASE k \in 1 .. n
    <3>1. Posted(k, asked, event) /\ Reported(answers[k]) /\ k # Current
      BY <1>3, <1>5, <2>1, <2>2 DEF ReviewInv, Current
    <3>2. Posted(k, asked, event)'
      BY <3>1, PostedStays
    <3> QED
      BY <1>3, <1>4, <2>1, <2>2, <3>1, <3>2 DEF Reported, Posted, Degraded
  <2>3. CASE k = n + 1
    <3>1. k = Current /\ IsReview(call.request) /\ answers'[k] = latest
      BY <1>2, <1>3, <1>5, <2>3 DEF Current
    <3>2. Posted(k, asked, event) /\ event = call.event
      BY <1>2, <2>1, <3>1 DEF ReviewInv
    <3>3. Posted(k, asked, event)'
      BY <3>1, <3>2, PostedStays
    <3>4. Reported(answers[k])'
      BY <1>2, <1>4, <3>1 DEF Reported, OwnBlock, IsReview
    <3> QED
      BY <2>1, <3>3, <3>4 DEF Posted, Degraded
  <2> QED
    BY <1>3, <2>2, <2>3
<1> QED
  BY <1>1, <1>3, <1>5 DEF ReviewInv, Busy, IsReview

LEMMA ReviewStep ==
    BoundaryTypeOK /\ Accounts /\ ReviewInv /\ [Next]_vars => ReviewInv'
<1> SUFFICES ASSUME BoundaryTypeOK, Accounts, ReviewInv, [Next]_vars PROVE ReviewInv'
  OBVIOUS
<1>1. /\ call \in [request : Requests, event : Sent, attempt : 1 .. MaxAttempts,
                   phase : Phases]
      /\ remote \in [own : BOOLEAN, pushed : BOOLEAN, written : Seq(Entries),
                     runs : Seq(Nat)]
  BY DEF BoundaryTypeOK
<1>2. \A phase : To(phase) => call'.phase = phase /\ call'.request = call.request
                              /\ call'.event = call.event
  BY <1>1 DEF To
<1>3. Fail => \/ Answer("gave_up")
              \/ answers' = answers /\ To("backoff")
  BY DEF Fail
<1>4. \A kind \in {"gave_up", "refused", "malformed", "escaped"} :
          Busy /\ Taken /\ Answer(kind) => ReviewInv'
  BY ReviewEnds
<1>5. CASE UNCHANGED <<call, answers>> /\ remote'.written = remote.written
           /\ remote'.own = remote.own
  <2>1. Current' = Current
    BY <1>5 DEF Current
  <2> QED
    BY <1>5, <2>1 DEF ReviewInv, Posted, Degraded, Reported, IsReview, Busy
<1>6. ASSUME NEW request \in Requests, Invoke(request)
      PROVE  ReviewInv'
  <2>1. /\ remote' = remote /\ answers' = answers /\ ~Busy
        /\ call' = [request |-> request, event |-> request.event, attempt |-> 1,
                    phase |-> "acquire"]
    BY <1>6 DEF Invoke
  <2>2. call'.phase = "acquire" /\ call'.event = call'.request.event /\ Current' = Current
    BY <2>1 DEF Current
  <2>3. \A i \in DOMAIN remote.written : remote.written[i].by # Current
    <3>1. \A i \in DOMAIN remote.written :
              remote.written[i].by \in Nat /\ remote.written[i].by <= Len(answers)
      <4> TAKE i \in DOMAIN remote.written
      <4>1. remote.written[i] \in Entries
        BY <1>1
      <4>2. remote.written[i].by <= Len(lost) /\ Len(lost) = Len(answers)
        BY <2>1 DEF Accounts, BoundaryTypeOK
      <4> QED
        BY <4>1, <4>2 DEF Entries
    <3>2. Len(answers) \in Nat
      BY DEF BoundaryTypeOK
    <3> QED
      BY <3>1, <3>2 DEF Current
  <2> QED
    BY <2>1, <2>2, <2>3 DEF ReviewInv, Posted, Degraded, Reported, IsReview, Busy
<1>7. ASSUME NEW late \in 0 .. MaxLate, AcquireToken(late)
      PROVE  ReviewInv'
  <2>1. Busy /\ Taken /\ To("request") /\ answers' = answers
    BY <1>7 DEF AcquireToken, Busy, Taken
  <2> QED
    BY <1>2, <2>1, ReviewGoesOn
<1>8. CASE Transient \/ LoseReply
  <2>1. Busy /\ Taken /\ Fail
    BY <1>8 DEF Transient, LoseReply, Busy, Taken, Refused
  <2>2. CASE Answer("gave_up")
    BY <1>4, <2>1, <2>2
  <2>3. CASE answers' = answers /\ To("backoff")
    BY <1>2, <2>1, <2>3, ReviewGoesOn
  <2> QED
    BY <1>3, <2>1, <2>2, <2>3
<1>9. CASE Write
  <2>1. Busy /\ Taken
    BY <1>9 DEF Write, Busy, Taken, Refused
  <2>2. CASE call.request.tool = "trigger_ci"
    <3>1. To("follow") /\ answers' = answers /\ ~IsReview(call.request)
      BY <1>9, <2>2 DEF Write, IsReview
    <3> QED
      BY <1>2, <2>1, <3>1, ReviewGoesOn
  <2>3. CASE call.request.tool # "trigger_ci"
    <3>1. Succeed
      BY <1>9, <2>3 DEF Write
    <3>2. \/ Answer("ok") /\ call.event = call.request.event
          \/ Answer("downgraded") /\ call.event # call.request.event
      BY <3>1 DEF Succeed
    <3>3. CASE Answer("ok") /\ call.event = call.request.event
      BY <2>1, <3>3, ReviewEnds
    <3>4. CASE Answer("downgraded") /\ call.event # call.request.event
      BY <2>1, <3>4, ReviewEnds
    <3> QED
      BY <3>2, <3>3, <3>4
  <2> QED
    BY <2>2, <2>3
<1>10. CASE Reject
  <2>1. Busy /\ Taken
    BY <1>10 DEF Reject, Busy, Taken, EndUnretried
  <2>2. Answer("refused") \/ Answer("malformed")
    BY <1>10 DEF Reject, EndUnretried
  <2> QED
    BY <1>4, <2>1, <2>2
<1>11. CASE Escape
  <2>1. Busy /\ Taken /\ Answer("escaped")
    BY <1>11 DEF Escape, EndUnretried, Busy, Taken, Refused
  <2> QED
    BY <1>4, <2>1
<1>12. CASE Downgrade
  <2>1. /\ UNCHANGED <<remote, answers>> /\ Busy /\ IsReview(call.request)
        /\ remote.own /\ call.event # "COMMENT"
    BY <1>12 DEF Downgrade, OwnBlock, Busy, IsReview
  <2>2. /\ call'.request = call.request /\ call'.event = "COMMENT"
        /\ call'.phase = "acquire"
    BY <1>1, <1>12 DEF Downgrade
  <2>3. Posted(Current, call.request.event, call.event)
    BY <2>1 DEF ReviewInv
  <2>4. Current' = Current /\ call.request.event # "COMMENT"
    BY <2>1, <2>3 DEF Current, Posted, Degraded
  <2>5. \A i \in DOMAIN remote.written : remote.written[i].by # Current
    BY <2>1, <2>3 DEF Posted
  <2> QED
    BY <2>1, <2>2, <2>4, <2>5 DEF ReviewInv, Posted, Degraded, Reported, IsReview, Busy
<1>13. CASE ReadRun
  <2>1. Busy /\ Taken /\ ~IsReview(call.request)
    BY <1>13 DEF ReadRun, Busy, Taken, ReviewInv
  <2>2. Answer("escaped") \/ Answer("ok")
    BY <1>13 DEF ReadRun
  <2> QED
    BY <2>1, <2>2, ReviewEnds
<1>14. CASE BackOff
  <2>1. Busy /\ Taken /\ answers' = answers
    BY <1>14 DEF BackOff, Busy, Taken
  <2>2. call'.phase = "acquire" /\ call'.request = call.request /\ call'.event = call.event
    BY <1>1, <1>14 DEF BackOff
  <2> QED
    BY <2>1, <2>2, ReviewGoesOn
<1>15. CASE TimePasses \/ Push \/ ListRun \/ UNCHANGED vars
  <2>1. UNCHANGED <<call, answers>> /\ remote'.written = remote.written
        /\ remote'.own = remote.own
    BY <1>1, <1>15 DEF TimePasses, boundaryVars, Push, ListRun, vars
  <2> QED
    BY <1>5, <2>1
<1> QED
  BY <1>6, <1>7, <1>8, <1>9, <1>10, <1>11, <1>12, <1>13, <1>14, <1>15 DEF Next, Work

(* A review is reported as it was posted, however many of its attempts were*)
(* lost and whether or not it had to degrade, and one that fails has left  *)
(* nothing but what it submitted last.                                     *)
THEOREM ReviewsAreTruthful == Spec => []ReviewTruthful
<1>1. Init => Accounts /\ ReviewInv
  <2> SUFFICES ASSUME Init PROVE Accounts /\ ReviewInv
    OBVIOUS
  <2>1. ~Busy /\ call.phase = "idle" /\ answers = <<>> /\ lost = <<>> /\ remote.written = <<>>
    BY DEF Init, Busy
  <2> QED
    BY <2>1 DEF Accounts, ReviewInv
<1> QED
  BY <1>1, InitTyped, TypeStep, AttemptLeftStep, AccountsStep, ReviewStep, ReviewSuffices, PTL
     DEF Spec

-----------------------------------------------------------------------------
(* The waits between attempts                                              *)

LEMMA DoubledUnrolls ==
    /\ Doubled[0] = 1
    /\ \A n \in Nat : Doubled[n] \in Nat /\ Doubled[n + 1] = 2 * Doubled[n]
<1> DEFINE step == [p \in Nat \X Nat |-> 2 * p[2]]
           Body(g) == [n \in Nat |-> IF n = 0 THEN 1 ELSE 2 * g[n - 1]]
<1>1. \A n, v \in Nat : step[<<n, v>>] = 2 * v
  OBVIOUS
<1>2. step \in [Nat \X Nat -> Nat] /\ 1 \in Nat
  OBVIOUS
<1> HIDE DEF step
<1>3. PICK h \in [Nat -> Nat] : Iterates(h, 1, step)
  BY <1>2, IteratesExist
<1>4. h[0] = 1 /\ \A n \in Nat : h[n] \in Nat /\ h[n + 1] = 2 * h[n]
  BY <1>1, <1>3 DEF Iterates
<1>5. \A n \in Nat : n # 0 => n - 1 \in Nat /\ (n - 1) + 1 = n
  OBVIOUS
<1>6. h = Body(h)
  <2>1. \A n \in Nat : h[n] = Body(h)[n]
    BY <1>4, <1>5
  <2> QED
    BY <2>1
<1>7. Doubled = CHOOSE g : g = Body(g)
  BY DEF Doubled
<1>8. Doubled = Body(Doubled)
  BY <1>6, <1>7
<1>9. Doubled[0] = 1
  BY <1>8
<1>10. ASSUME NEW n \in Nat PROVE Doubled[n + 1] = 2 * Doubled[n]
  <2>1. n + 1 \in Nat /\ n + 1 # 0 /\ (n + 1) - 1 = n
    OBVIOUS
  <2> QED
    BY <1>8, <2>1
<1> DEFINE A == {n \in Nat : Doubled[n] \in Nat}
<1>11. Nat \subseteq A
  <2>1. 0 \in A
    BY <1>9
  <2>2. ASSUME NEW n \in Nat, n \in A PROVE n + 1 \in A
    BY <1>10, <2>2
  <2> HIDE DEF A
  <2> QED
    BY <2>1, <2>2, EveryNatural
<1> QED
  BY <1>9, <1>10, <1>11

Capped(wait) == IF wait < MaxDelay THEN wait ELSE MaxDelay

LEMMA SpacingUnrolls ==
    /\ Spacing[1] = Capped(BaseDelay)
    /\ \A n \in 1 .. MaxAttempts - 1 : Spacing[n + 1] = Capped(2 * Spacing[n])
<1> DEFINE step == [p \in Nat \X Nat |-> Capped(2 * p[2])]
           base == Capped(BaseDelay)
           Body(g) == [n \in 1 .. MaxAttempts |->
                          LET wait == IF n = 1 THEN BaseDelay ELSE 2 * g[n - 1]
                          IN  IF wait < MaxDelay THEN wait ELSE MaxDelay]
<1>1. \A v \in Nat : Capped(v) \in Nat
  BY CallsAssumption DEF Capped
<1>2. \A n, v \in Nat : step[<<n, v>>] = Capped(2 * v)
  OBVIOUS
<1>3. step \in [Nat \X Nat -> Nat] /\ base \in Nat
  BY <1>1, CallsAssumption
<1> HIDE DEF step
<1>4. PICK h \in [Nat -> Nat] : Iterates(h, base, step)
  BY <1>3, IteratesExist
<1>5. h[0] = base /\ \A n \in Nat : h[n + 1] = Capped(2 * h[n])
  BY <1>2, <1>4 DEF Iterates
<1> DEFINE k == [n \in 1 .. MaxAttempts |-> h[n - 1]]
<1>6. k = Body(k)
  <2>1. ASSUME NEW n \in 1 .. MaxAttempts PROVE k[n] = Body(k)[n]
    <3>1. CASE n = 1
      BY <1>5, <3>1 DEF Capped
    <3>2. CASE n # 1
      <4>1. n - 2 \in Nat /\ n - 1 \in 1 .. MaxAttempts /\ (n - 2) + 1 = n - 1 /\ (n - 1) - 1 = n - 2
        BY <3>2, Bounds
      <4>2. k[n - 1] = h[n - 2] /\ k[n] = Capped(2 * h[n - 2])
        BY <1>5, <4>1
      <4> QED
        BY <3>2, <4>2 DEF Capped
    <3> QED
      BY <3>1, <3>2
  <2> QED
    BY <2>1
<1>7. Spacing = CHOOSE g : g = Body(g)
  BY DEF Spacing
<1>8. Spacing = Body(Spacing)
  BY <1>6, <1>7
<1>9. 1 \in 1 .. MaxAttempts /\ Spacing[1] = Capped(BaseDelay)
  BY <1>8, Bounds DEF Capped
<1>10. ASSUME NEW n \in 1 .. MaxAttempts - 1 PROVE Spacing[n + 1] = Capped(2 * Spacing[n])
  <2>1. n + 1 \in 1 .. MaxAttempts /\ n + 1 # 1 /\ (n + 1) - 1 = n
    BY Bounds
  <2> QED
    BY <1>8, <2>1 DEF Capped
<1> QED
  BY <1>9, <1>10

LEMMA DoublingCapped ==
    ASSUME NEW v \in Nat PROVE Capped(2 * Capped(v)) = Capped(2 * v) /\ Capped(v) \in Nat
BY CallsAssumption DEF Capped

\* What delay_for returns is what the attempts are to be spaced by.
LEMMA DelayIsSpacing == \A n \in 1 .. MaxAttempts : Delay(n) = Spacing[n] /\ Spacing[n] \in Nat
<1> DEFINE Grown(n) == BaseDelay * Doubled[n]
           A == {n \in Nat : n < MaxAttempts => Spacing[n + 1] = Capped(Grown(n))}
<1>1. \A n \in Nat : Grown(n) \in Nat /\ Grown(n + 1) = 2 * Grown(n)
  BY DoubledUnrolls, CallsAssumption
<1>2. Grown(0) = BaseDelay
  BY DoubledUnrolls, CallsAssumption
<1> HIDE DEF Grown
<1>3. 0 \in A
  BY <1>2, SpacingUnrolls
<1>4. ASSUME NEW n \in Nat, n \in A PROVE n + 1 \in A
  <2> SUFFICES ASSUME n + 1 < MaxAttempts PROVE Spacing[(n + 1) + 1] = Capped(Grown(n + 1))
    OBVIOUS
  <2>1. n + 1 \in 1 .. MaxAttempts - 1 /\ n < MaxAttempts
    BY Bounds
  <2>2. Spacing[n + 1] = Capped(Grown(n))
    BY <1>4, <2>1
  <2>3. Spacing[(n + 1) + 1] = Capped(2 * Capped(Grown(n)))
    BY <2>1, <2>2, SpacingUnrolls
  <2> QED
    BY <1>1, <2>3, DoublingCapped
<1>5. Nat \subseteq A
  <2> HIDE DEF A
  <2> QED
    BY <1>3, <1>4, EveryNatural
<1>6. ASSUME NEW n \in 1 .. MaxAttempts PROVE Delay(n) = Spacing[n] /\ Spacing[n] \in Nat
  <2>1. n - 1 \in Nat /\ n - 1 < MaxAttempts /\ (n - 1) + 1 = n
    BY Bounds
  <2>2. Spacing[n] = Capped(Grown(n - 1))
    BY <1>5, <2>1
  <2>3. Delay(n) = IF Grown(n - 1) \in 0 .. MaxDelay THEN Grown(n - 1) ELSE MaxDelay
    BY DEF Delay, Grown
  <2>4. Grown(n - 1) \in Nat /\ MaxDelay \in Nat
    BY <1>1, <2>1, CallsAssumption
  <2> QED
    BY <2>2, <2>3, <2>4 DEF Capped
<1> QED
  BY <1>6

\* A call that waits for the next attempt's token was let through before, and
\* has by then waited since as long as it is to.
Waited ==
    /\ call.phase \in {"request", "follow", "backoff"} => admitted # <<>>
    /\ call.phase = "acquire" /\ call.attempt > 1 =>
          /\ admitted # <<>>
          /\ now - admitted[Len(admitted)] >= Spacing[call.attempt - 1]

SpacedStep ==
    LET n == Len(admitted)
    IN  admitted' # admitted /\ call.attempt > 1 =>
            admitted'[n + 1] - admitted[n] >= Spacing[call.attempt - 1]

LEMMA LatestIsPast ==
    ASSUME BucketTypeOK, admitted # <<>>
    PROVE  admitted[Len(admitted)] \in Nat /\ admitted[Len(admitted)] <= now
<1>1. Len(admitted) \in 1 .. Len(admitted)
  BY DEF BucketTypeOK
<1>2. admitted[Len(admitted)] \in 0 .. now
  BY <1>1, ElementOfSeq DEF BucketTypeOK
<1> QED
  BY <1>2 DEF BucketTypeOK

LEMMA LetThrough ==
    ASSUME BucketInv, BoundaryTypeOK, Waited, NEW late \in Nat, AcquireToken(late)
    PROVE  SpacedStep /\ Waited'
<1>1. /\ call.phase = "acquire" /\ call' = [call EXCEPT !.phase = "request"]
      /\ Acquire(late)
  BY DEF AcquireToken, To
<1> DEFINE woken == now + Wait(Refilled(tokens, last, now)) + late
<1>2. admitted' = Append(admitted, woken) /\ admitted \in Seq(Int) /\ now \in Nat
  BY <1>1 DEF Acquire, BucketInv, BucketTypeOK
<1>3. woken \in Int /\ woken >= now
  <2>1. Refilled(tokens, last, now) \in Nat
    BY CapacityFacts DEF BucketInv, BucketTypeOK, Refilled
  <2>2. Wait(Refilled(tokens, last, now)) \in Nat
    BY <2>1, CapacityFacts DEF Wait
  <2> QED
    BY <1>2, <2>2
<1> HIDE DEF woken
<1>4. admitted'[Len(admitted) + 1] = woken /\ admitted' # <<>>
  BY <1>2, <1>3
<1>5. call'.phase = "request"
  BY <1>1 DEF BoundaryTypeOK
<1>6. Waited'
  BY <1>4, <1>5 DEF Waited
<1>7. ASSUME call.attempt > 1 PROVE woken - admitted[Len(admitted)] >= Spacing[call.attempt - 1]
  <2>1. admitted # <<>> /\ now - admitted[Len(admitted)] >= Spacing[call.attempt - 1]
    BY <1>1, <1>7 DEF Waited
  <2>2. call.attempt - 1 \in 1 .. MaxAttempts
    BY <1>7, Bounds DEF BoundaryTypeOK
  <2>3. Spacing[call.attempt - 1] \in Nat /\ admitted[Len(admitted)] \in Nat
    BY <2>1, <2>2, DelayIsSpacing, LatestIsPast DEF BucketInv
  <2> QED
    BY <1>2, <1>3, <2>1, <2>3
<1> QED
  BY <1>4, <1>6, <1>7 DEF SpacedStep

LEMMA BackedOff ==
    ASSUME BucketInv, BoundaryTypeOK, AttemptLeft, Waited, BackOff
    PROVE  SpacedStep /\ Waited'
<1>1. /\ call.phase = "backoff" /\ call' = [call EXCEPT !.attempt = @ + 1, !.phase = "acquire"]
      /\ now' = now + Delay(call.attempt) /\ admitted' = admitted
  BY DEF BackOff, Elapse
<1>2. call.attempt \in 1 .. MaxAttempts /\ call'.attempt = call.attempt + 1
  BY <1>1 DEF BoundaryTypeOK
<1>3. admitted # <<>>
  BY <1>1 DEF Waited
<1>4. admitted[Len(admitted)] \in Nat /\ admitted[Len(admitted)] <= now /\ now \in Nat
  BY <1>3, LatestIsPast DEF BucketInv, BucketTypeOK
<1>5. Delay(call.attempt) = Spacing[call.attempt] /\ Spacing[call.attempt] \in Nat
  BY <1>2, DelayIsSpacing
<1>6. now' - admitted[Len(admitted)] >= Spacing[call.attempt]
  BY <1>1, <1>4, <1>5
<1>7. call'.attempt - 1 = call.attempt /\ call'.phase = "acquire"
  BY <1>1, <1>2 DEF BoundaryTypeOK
<1> QED
  BY <1>1, <1>3, <1>6, <1>7 DEF Waited, SpacedStep

LEMMA WaitedStep ==
    ASSUME BucketInv, BoundaryTypeOK, AttemptLeft, Waited, [Next]_vars
    PROVE  SpacedStep /\ Waited'
<1>1. CASE UNCHANGED vars
  BY <1>1 DEF vars, bucketVars, Waited, SpacedStep
<1>2. CASE \E late \in 0 .. MaxLate : AcquireToken(late)
  <2>1. 0 .. MaxLate \subseteq Nat
    BY Bounds
  <2> QED
    BY <1>2, <2>1, LetThrough
<1>3. CASE BackOff
  BY <1>3, BackedOff
<1>4. CASE TimePasses
  <2>1. call' = call /\ call.phase = "request" /\ admitted' = admitted
    BY <1>4 DEF TimePasses, Elapse, boundaryVars
  <2> QED
    BY <2>1 DEF Waited, SpacedStep
<1>5. CASE Push \/ ListRun
  BY <1>5 DEF Push, ListRun, bucketVars, Waited, SpacedStep
<1>6. CASE \E request \in Requests : Invoke(request)
  <2>1. call'.attempt = 1 /\ call'.phase = "acquire" /\ admitted' = admitted
    BY <1>6 DEF Invoke, bucketVars
  <2> QED
    BY <2>1 DEF Waited, SpacedStep
<1>7. CASE Downgrade
  <2>1. call'.attempt = 1 /\ call'.phase = "acquire" /\ admitted' = admitted
    BY <1>7 DEF Downgrade, bucketVars, BoundaryTypeOK
  <2> QED
    BY <2>1 DEF Waited, SpacedStep
<1>8. CASE Transient \/ Write \/ LoseReply \/ Reject \/ Escape \/ ReadRun
  <2>1. admitted' = admitted /\ call.phase \in {"request", "follow"}
    BY <1>8 DEF Transient, Write, LoseReply, Reject, Escape, EndUnretried, ReadRun, bucketVars
  <2>2. \E phase \in {"idle", "follow", "backoff"} : To(phase)
    BY <1>8 DEF Transient, Write, LoseReply, Reject, Escape, EndUnretried, ReadRun, Fail,
                Succeed, Answer
  <2>3. call'.phase \in {"idle", "follow", "backoff"}
    BY <2>2 DEF To, BoundaryTypeOK
  <2> QED
    BY <2>1, <2>3 DEF Waited, SpacedStep
<1> QED
  BY <1>1, <1>2, <1>3, <1>4, <1>5, <1>6, <1>7, <1>8 DEF Next, Work

(* No attempt of a call is made earlier after the one before than the      *)
(* backoff promises, for every policy, rate and lateness of a sleep.       *)
THEOREM CallsBackOff == Spec => AttemptsSpaced
<1>1. Init => BucketInv /\ BoundaryTypeOK /\ AttemptLeft /\ Waited
  <2>1. Init => BucketInv
    BY InitBucketInv DEF Init
  <2>2. Init => Waited
    BY DEF Init, Waited
  <2> QED
    BY <2>1, <2>2, InitTyped
<1>2. BucketInv /\ BoundaryTypeOK /\ AttemptLeft /\ Waited /\ [Next]_vars =>
        /\ (BucketInv /\ BoundaryTypeOK /\ AttemptLeft /\ Waited)'
        /\ [SpacedStep]_vars
  BY StepUsesBucket, NextKeepsInv, TypeStep, AttemptLeftStep, WaitedStep
<1>3. Spec => [][SpacedStep]_vars
  BY <1>1, <1>2, PTL DEF Spec
<1> QED
  BY <1>3 DEF AttemptsSpaced, SpacedStep
=============================================================================
